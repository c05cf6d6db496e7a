--------------------------- MODULE DataStructures --------------------------
(***************************************************************************)
(* The containers of the two libraries, pointer by pointer: List of the    *)
(* PTM library, and the AVL tree and the chained hash table of client_lib, *)
(* with its arithmetic on times.                                           *)
(***************************************************************************)
EXTENDS Naturals, Sequences, FiniteSets, Integers, SequencesExt
-----------------------------------------------------------------------------
(***************************************************************************)
(* List<T> of ptm/include/linkedlist.h, pointer by pointer: a heap of      *)
(* nodes with next and prev, head, tail and count.  It implements a        *)
(* sequence.  A pointer is a node or 0; indices are those a traversal      *)
(* yields.  Left out: the sanity flag of traversals and the lock of        *)
(* LockingList, under which an operation is one step, and out of memory.   *)
(***************************************************************************)
CONSTANTS Data, MaxNodes, None

Nodes == 1 .. MaxNodes

VARIABLES
    node,       \* the heap: a record for every allocated node
    head, tail, count,
    op          \* the last operation, with its arguments and its result

listVars == <<node, head, tail, count, op>>

ListInit ==
    /\ node = <<>> /\ head = 0 /\ tail = 0 /\ count = 0
    /\ op = <<"new">>

\* IsEmpty
IsEmpty == head = 0 /\ tail = 0

Fields(h) == [node |-> h, head |-> head, tail |-> tail, count |-> count]

\* Assigns the fields of the list.
Becomes(l) ==
    /\ node' = l.node /\ head' = l.head
    /\ tail' = l.tail /\ count' = l.count

With(h, n, r) == [m \in DOMAIN h \cup {n} |-> IF m = n THEN r ELSE h[m]]
Set(h, n, f, v) == IF n = 0 THEN h ELSE [h EXCEPT ![n][f] = v]

\* InsertAfter_WithNULL: after the node idx, or at the head if it is 0
Inserted_NoBackLink(idx, d, new) ==
    IF idx = 0
      THEN [node |-> With(node, new, [data |-> d, next |-> head, prev |-> 0]),
            head |-> new, tail |-> IF tail = 0 THEN new ELSE tail,
            count |-> count + 1]
      ELSE [node |-> With([node EXCEPT ![idx].next = new], new,
                          [data |-> d, next |-> node[idx].next, prev |-> idx]),
            head |-> head,
            tail |-> IF node[idx].next = 0 THEN new ELSE tail,
            count |-> count + 1]
Inserted(idx, d, new) ==
    IF idx = 0
      THEN [node |-> With(Set(node, head, "prev", new), new,
                          [data |-> d, next |-> head, prev |-> 0]),
            head |-> new, tail |-> IF tail = 0 THEN new ELSE tail,
            count |-> count + 1]
      ELSE LET next == node[idx].next IN
           [node |-> With(Set([node EXCEPT ![idx].next = new], next, "prev", new),
                          new, [data |-> d, next |-> next, prev |-> idx]),
            head |-> head, tail |-> IF next = 0 THEN new ELSE tail,
            count |-> count + 1]

\* Remove_: unlinks a node and frees it
Removed(idx) ==
    LET n == node[idx]
        h == Set(Set(node, n.prev, "next", n.next), n.next, "prev", n.prev)
    IN IF IsEmpty THEN Fields(node)
       ELSE [node |-> [m \in DOMAIN h \ {idx} |-> h[m]],
             head |-> IF n.prev = 0 THEN n.next ELSE head,
             tail |-> IF n.next = 0 THEN n.prev ELSE tail,
             count |-> count - 1]

\* The nodes in the order of a traversal: BeginTraversal, getNext, IsDone
Walk ==
    LET from[k \in 0 .. MaxNodes] ==
          IF k = 0 THEN head
          ELSE IF from[k - 1] = 0 THEN 0 ELSE node[from[k - 1]].next
    IN SelectSeq([k \in 1 .. MaxNodes |-> from[k - 1]], LAMBDA n : n # 0)

\* The nodes in the order of getPrev from the tail
WalkBack ==
    LET from[k \in 0 .. MaxNodes] ==
          IF k = 0 THEN tail
          ELSE IF from[k - 1] = 0 THEN 0 ELSE node[from[k - 1]].prev
    IN SelectSeq([k \in 1 .. MaxNodes |-> from[k - 1]], LAMBDA n : n # 0)

Insert(idx, d, name) ==
    \E new \in Nodes \ DOMAIN node :
       Becomes(Inserted(idx, d, new)) /\ op' = name

InsertAtHead(d) == Insert(0, d, <<"InsertAtHead", d>>)

InsertAtTail_Head(d) == Insert(0, d, <<"InsertAtTail", d>>)
InsertAtTail(d) == Insert(tail, d, <<"InsertAtTail", d>>)

InsertAfter(i, d) == Insert(Walk[i], d, <<"InsertAfter", i, d>>)

InsertBefore(i, d) == Insert(node[Walk[i]].prev, d, <<"InsertBefore", i, d>>)

RemoveIndex(i) == Becomes(Removed(Walk[i])) /\ op' = <<"Remove", i>>

\* Remove(T*): the first node with the data
RemoveData(d) ==
    LET at == {i \in 1 .. Len(Walk) : node[Walk[i]].data = d} IN
    /\ IF at = {} THEN UNCHANGED <<node, head, tail, count>>
       ELSE \E i \in at : (\A j \in at : i <= j) /\ Becomes(Removed(Walk[i]))
    /\ op' = <<"RemoveData", d>>

RemoveFromHead ==
    /\ IF head = 0 THEN UNCHANGED <<node, head, tail, count>>
       ELSE Becomes(Removed(head))
    /\ op' = <<"RemoveFromHead", IF head = 0 THEN None ELSE node[head].data>>

RemoveFromTail ==
    /\ IF tail = 0 THEN UNCHANGED <<node, head, tail, count>>
       ELSE Becomes(Removed(tail))
    /\ op' = <<"RemoveFromTail", IF tail = 0 THEN None ELSE node[tail].data>>

ListNext ==
    \/ \E d \in Data : InsertAtHead(d) \/ InsertAtTail(d) \/ RemoveData(d)
    \/ \E i \in 1 .. Len(Walk), d \in Data : InsertAfter(i, d) \/ InsertBefore(i, d)
    \/ \E i \in 1 .. Len(Walk) : RemoveIndex(i)
    \/ RemoveFromHead
    \/ RemoveFromTail

ListSpec == ListInit /\ [][ListNext]_listVars
-----------------------------------------------------------------------------
\* The list can be walked from either end and both ways agree, with getSize;
\* no node is lost and none is reached that was freed.
WellLinked ==
    /\ Len(Walk) = count /\ Len(WalkBack) = count
    /\ \A k \in 1 .. count : WalkBack[k] = Walk[count + 1 - k]
    /\ DOMAIN node = {Walk[k] : k \in 1 .. count}

\* The data in the order of a traversal
AsSequence == [k \in 1 .. Len(Walk) |-> node[Walk[k]].data]

\* What the operation op' promises to do to the sequence, and to return
SequenceStep(s, t) ==
    \/ \E d \in Data :
         \/ t = <<d>> \o s /\ op' = <<"InsertAtHead", d>>
         \/ t = Append(s, d) /\ op' = <<"InsertAtTail", d>>
         \/ t = RemoveFirst(s, d) /\ op' = <<"RemoveData", d>>
         \/ \E i \in DOMAIN s :
              \/ t = InsertAt(s, i, d) /\ op' = <<"InsertBefore", i, d>>
              \/ t = InsertAt(s, i + 1, d) /\ op' = <<"InsertAfter", i, d>>
    \/ \E i \in DOMAIN s : t = RemoveAt(s, i) /\ op' = <<"Remove", i>>
    \/ IF s = << >>
       THEN t = << >> /\ op' \in {<<"RemoveFromHead", None>>, <<"RemoveFromTail", None>>}
       ELSE \/ t = Tail(s) /\ op' = <<"RemoveFromHead", Head(s)>>
            \/ t = Front(s) /\ op' = <<"RemoveFromTail", Last(s)>>

\* Every operation of List<T> does to the sequence of the data what its name
\* says, and returns what it should.
OperatesAsSequence == [SequenceStep(AsSequence, AsSequence')]_listVars

ImplementsList == [][OperatesAsSequence]_listVars
-----------------------------------------------------------------------------
(***************************************************************************)
(* The AVL tree of client_lib/src/utils.c, at the level of its pointers,   *)
(* as playback/src/count_parallel.c uses it: one tree, into which the time *)
(* stamps of a trace are added and which is then walked in order.          *)
(*                                                                         *)
(* A node is named by its key: Tree_Add never adds a key twice.  checkBal  *)
(* and par are the static variables checkBalance and parent, which live    *)
(* from one call to the next.  The two sides of Tree_Add mirror each other *)
(* and are written once.  Tree_Delete and Tree_Destroy have no callers.    *)
(***************************************************************************)
CONSTANT MaxKey     \* time stamps are 1 .. MaxKey

Keys == 1 .. MaxKey
Nil == 0

VARIABLES
    tree,   \* the nodes and the static variables
    root,
    keys    \* history: the keys of which Tree_Add returned 0

treeVars == <<tree, root, keys>>

TreeInit ==
    /\ tree = [left   |-> [k \in Keys |-> Nil], right |-> [k \in Keys |-> Nil],
               parent |-> [k \in Keys |-> Nil], bal   |-> [k \in Keys |-> 0],
               par |-> Nil, checkBal |-> FALSE]
    /\ root = Nil /\ keys = {}

Other(side) == IF side = "left" THEN "right" ELSE "left"
Sign(side) == IF side = "left" THEN -1 ELSE 1

\* r->parent = q, if there is an r
Hang(T, r, q) == IF r = Nil THEN T ELSE [T EXCEPT !.parent[r] = q]

\* LL and RR rotations: p comes up over q
Single_NotHung(T, q, p, side) ==
    LET r == T[Other(side)][p]
    IN  [T EXCEPT !.parent = [@ EXCEPT ![p] = T.parent[q], ![q] = p],
                  ![Other(side)][p] = q, ![side][q] = r,
                  !.bal[p] = 0, !.bal[q] = 0]
Single(T, q, p, side) ==
    LET r == T[Other(side)][p]
        U == [T EXCEPT !.parent = [@ EXCEPT ![p] = T.parent[q], ![q] = p],
                       ![Other(side)][p] = q, ![side][q] = r,
                       !.bal[p] = 0, !.bal[q] = 0]
    IN  Hang(U, r, q)

\* LR and RL rotations: q comes up over p and m
Double_SameBalance(T, m, p, side) ==
    LET q == T[Other(side)][p]
        s == T[side][q]
        u == T[Other(side)][q]
        U == [T EXCEPT
                !.parent = [@ EXCEPT ![q] = T.parent[m], ![m] = q, ![p] = q],
                ![Other(side)] = [@ EXCEPT ![p] = s, ![q] = m],
                ![side] = [@ EXCEPT ![q] = p, ![m] = u],
                !.bal = [@ EXCEPT ![q] = 0, ![p] = 0, ![m] = 0]]
    IN  Hang(Hang(U, s, p), u, m)
Double_Cut(T, m, p, side) ==
    LET q == T[Other(side)][p]
        u == T[Other(side)][q]
        U == [T EXCEPT
                !.parent = [@ EXCEPT ![q] = T.parent[m], ![m] = q, ![p] = q],
                ![Other(side)] = [@ EXCEPT ![p] = Nil, ![q] = m],
                ![side] = [@ EXCEPT ![q] = p, ![m] = u],
                !.bal = [@ EXCEPT ![q] = 0, ![p] = 0, ![m] = 0]]
    IN  Hang(U, u, m)
Double(T, m, p, side) ==
    LET q == T[Other(side)][p]
        s == T[side][q]
        u == T[Other(side)][q]
        d == Sign(side)
        U == [T EXCEPT
                !.parent = [@ EXCEPT ![q] = T.parent[m], ![m] = q, ![p] = q],
                ![Other(side)] = [@ EXCEPT ![p] = s, ![q] = m],
                ![side] = [@ EXCEPT ![q] = p, ![m] = u],
                !.bal = [@ EXCEPT ![q] = 0,
                                  ![p] = IF T.bal[q] = -d THEN d ELSE 0,
                                  ![m] = IF T.bal[q] = d THEN -d ELSE 0]]
    IN  Hang(Hang(U, s, p), u, m)

\* What Tree_Add does with node n after the subtree on a side has grown:
\* the nodes, and the node that takes the place of n.
Rebalance(T, n, side) ==
    LET d == Sign(side)
        p == T[side][n]
        q == T[Other(side)][p]
        Done(U) == [U EXCEPT !.checkBal = FALSE]
    IN  CASE T.bal[n] = -d -> [tree |-> Done([T EXCEPT !.bal[n] = 0]), top |-> n]
          [] T.bal[n] = 0  -> [tree |-> [T EXCEPT !.bal[n] = d], top |-> n]
          [] T.bal[n] = d /\ T.bal[p] = d ->
               [tree |-> Done(Single(T, n, p, side)), top |-> p]
          [] T.bal[n] = d /\ T.bal[p] = -d ->
               [tree |-> Done(Double(T, n, p, side)), top |-> q]

RECURSIVE Add(_, _, _)
Add(T, n, k) ==
    IF n = Nil
      THEN [tree |-> [T EXCEPT !.parent[k] = T.par, !.bal[k] = 0,
                               !.left[k] = Nil, !.right[k] = Nil,
                               !.checkBal = TRUE, !.par = Nil],
            top |-> k, ret |-> 0]
    ELSE IF n = k
      THEN [tree |-> [T EXCEPT !.checkBal = FALSE], top |-> n, ret |-> -1]
    ELSE LET side == IF n > k THEN "left" ELSE "right"
             below == Add([T EXCEPT !.par = n], T[side][n], k)
             U == [below.tree EXCEPT ![side][n] = below.top]
             V == Rebalance(U, n, side)
         IN  IF below.ret # 0 \/ ~U.checkBal
               THEN [tree |-> [U EXCEPT !.checkBal = FALSE], top |-> n, ret |-> below.ret]
               ELSE [tree |-> V.tree, top |-> V.top, ret |-> 0]

Tree_Add(k) ==
    LET r == Add(tree, root, k)
    IN  /\ tree' = r.tree /\ root' = r.top
        /\ keys' = IF r.ret = 0 THEN keys \cup {k} ELSE keys

TreeNext == \E k \in Keys : Tree_Add(k)

TreeSpec == TreeInit /\ [][TreeNext]_treeVars
-----------------------------------------------------------------------------
(* Walks                                                                   *)

RECURSIVE Height(_), Below(_)
Height(n) ==
    IF n = Nil THEN 0
    ELSE LET l == Height(tree.left[n])  r == Height(tree.right[n])
         IN  1 + (IF l > r THEN l ELSE r)
Below(n) ==
    IF n = Nil THEN {} ELSE {n} \cup Below(tree.left[n]) \cup Below(tree.right[n])

\* Tree_First and the way down in Tree_Next
RECURSIVE Tree_First(_)
Tree_First(n) ==
    IF n = Nil \/ tree.left[n] = Nil THEN n ELSE Tree_First(tree.left[n])

\* The way up in Tree_Next
RECURSIVE Up(_, _)
Up(n, above) ==
    IF above # Nil /\ n = tree.right[above] THEN Up(above, tree.parent[above]) ELSE above

Tree_Next(n) ==
    IF tree.right[n] # Nil THEN Tree_First(tree.right[n]) ELSE Up(n, tree.parent[n])
-----------------------------------------------------------------------------
\* Whatever rotations Tree_Add goes through, it loses no key that was ever
\* added, and the keys below a node stay on their sides of it.
SearchTree ==
    /\ Below(root) = keys
    /\ \A n \in keys : /\ \A k \in Below(tree.left[n]) : k < n
                       /\ \A k \in Below(tree.right[n]) : k > n

\* The rotations restore the balance, and the balance factors say what it is.
Balanced ==
    \A n \in keys :
       /\ tree.bal[n] = Height(tree.right[n]) - Height(tree.left[n])
       /\ tree.bal[n] \in -1 .. 1

\* The parent links survive every rotation: Tree_Next, which climbs along
\* them, gives the next key, and nothing after the last.
NextIsSuccessor ==
    \A n \in keys :
       LET above == {k \in keys : k > n}
       IN  Tree_Next(n) = IF above = {} THEN Nil
                          ELSE CHOOSE k \in above : \A j \in above : k <= j
-----------------------------------------------------------------------------
(***************************************************************************)
(* The ll lists and the chained hash table of client_lib/src/utils.c,     *)
(* at the level of their nodes.  Nodes come from a heap of free nodes that *)
(* all lists share, which grows by LL_HEAPSIZE when it is empty; a node    *)
(* that goes back keeps its old prev and data.                             *)
(*                                                                         *)
(* The lists here are the slots of one table and one list, List, that is   *)
(* used as the partition list and the playback queue are: sorted, or as a  *)
(* queue.  Calls are sequential: nothing in utils.c locks the heap.        *)
(***************************************************************************)
CONSTANTS
    Elements,       \* numbers; the comparator orders them
    NumSlots,       \* num_slots
    LL_HEAPSIZE,
    MaxCells        \* bound: nodes allocated

Slots == 0 .. NumSlots - 1
List == NumSlots            \* the list outside the table
Heads == 0 .. NumSlots
Hash(e) == e % NumSlots     \* the caller's hash_function

VARIABLES
    cell,       \* the nodes allocated so far: data, prev, next; 0 is NULL
    heap,       \* heap_o_ll
    first,      \* the lists
    abstract    \* history: the lists as sequences

hashVars == <<cell, heap, first, abstract>>

HashInit ==
    /\ cell = << >> /\ heap = 0
    /\ first = [h \in Heads |-> 0]
    /\ abstract = [h \in Heads |-> << >>]
-----------------------------------------------------------------------------
(* Nodes                                                                   *)

Room == heap # 0 \/ Len(cell) + LL_HEAPSIZE <= MaxCells

\* Allocate_ll: the nodes, the heap and the node taken off it
Allocate_ll ==
    LET n == Len(cell)
        more == [i \in 1 .. LL_HEAPSIZE |->
                   [data |-> 0, prev |-> 0,
                    next |-> IF i < LL_HEAPSIZE THEN n + i + 1 ELSE 0]]
        nodes == IF heap = 0 THEN cell \o more ELSE cell
        top == IF heap = 0 THEN n + 1 ELSE heap
    IN  [cell |-> [nodes EXCEPT ![top].next = 0], heap |-> nodes[top].next, new |-> top]

\* The nodes in a list, in order
Chain(nodes, from) ==
    LET RECURSIVE Follow(_)
        Follow(i) == IF i = 0 THEN << >> ELSE <<i>> \o Follow(nodes[i].next)
    IN  Follow(from)

\* ll_find: the first node with the element, or 0
ll_find(h, e) ==
    LET same == SelectSeq(Chain(cell, first[h]), LAMBDA i : cell[i].data = e)
    IN  IF same = << >> THEN 0 ELSE Head(same)

\* A new node with data e between two nodes, of which either may be NULL
Spliced(a, e, before, after) ==
    [i \in DOMAIN a.cell |->
       [a.cell[i] EXCEPT
          !.data = IF i = a.new THEN e ELSE @,
          !.prev = IF i = a.new THEN before ELSE IF i = after THEN a.new ELSE @,
          !.next = IF i = a.new THEN after ELSE IF i = before THEN a.new ELSE @]]

InsertCell(h, e, before, after) ==
    LET a == Allocate_ll
    IN  /\ Room
        /\ cell' = Spliced(a, e, before, after)
        /\ heap' = a.heap
        /\ first' = IF before = 0 THEN [first EXCEPT ![h] = a.new] ELSE first

ll_add_to_end(h, e) ==
    /\ LET chain == Chain(cell, first[h])
       IN  InsertCell(h, e, IF chain = << >> THEN 0 ELSE Last(chain), 0)
    /\ abstract' = [abstract EXCEPT ![h] = Append(@, e)]

ll_add_to_start(h, e) ==
    /\ InsertCell(h, e, 0, first[h])
    /\ abstract' = [abstract EXCEPT ![h] = <<e>> \o @]

\* ll_sorted_insert: before the first element that is not smaller
ll_sorted_insert(h, e) ==
    LET chain == Chain(cell, first[h])
        k == CHOOSE k \in 0 .. Len(chain) :
               /\ \A i \in 1 .. k : cell[chain[i]].data < e
               /\ k < Len(chain) => cell[chain[k + 1]].data >= e
    IN  /\ InsertCell(h, e, IF k = 0 THEN 0 ELSE chain[k],
                        IF k = Len(chain) THEN 0 ELSE chain[k + 1])
        /\ abstract' = [abstract EXCEPT
                          ![h] = SubSeq(@, 1, k) \o <<e>> \o SubSeq(@, k + 1, Len(@))]

\* ll_del and ll_delfirst, once they have found the node; Free_ll
Unlinked_PrevKept(h, n) ==
    [cell |-> [i \in DOMAIN cell |->
                 [cell[i] EXCEPT
                    !.next = IF i = n THEN heap
                             ELSE IF i = cell[n].prev THEN cell[n].next ELSE @]],
     first |-> IF n = first[h] THEN [first EXCEPT ![h] = cell[n].next] ELSE first]
Unlinked(h, n) ==
    [cell |-> [i \in DOMAIN cell |->
                 [cell[i] EXCEPT
                    !.prev = IF i = cell[n].next THEN cell[n].prev ELSE @,
                    !.next = IF i = n THEN heap
                             ELSE IF i = cell[n].prev THEN cell[n].next ELSE @]],
     first |-> IF n = first[h] THEN [first EXCEPT ![h] = cell[n].next] ELSE first]

Delete(h, n) ==
    /\ n # 0
    /\ cell' = Unlinked(h, n).cell /\ first' = Unlinked(h, n).first
    /\ heap' = n

ll_del(h, e) ==
    /\ Delete(h, ll_find(h, e))
    /\ abstract' = [abstract EXCEPT ![h] = RemoveFirst(@, e)]

ll_delfirst(h) ==
    /\ Delete(h, first[h])
    /\ abstract' = [abstract EXCEPT ![h] = Tail(@)]

\* ll_destroy frees from the front: the last node ends up first in the heap.
RECURSIVE Freed(_, _)
Freed(S, i) ==
    IF i = 0 THEN S
    ELSE Freed([cell |-> [S.cell EXCEPT ![i].next = S.heap], heap |-> i], S.cell[i].next)

\* chained_hash_destroy: all slots, and a new table (chained_hash_create)
chained_hash_destroy ==
    LET Slot(S, h) == Freed(S, first[h])
        S == FoldLeft(Slot, [cell |-> cell, heap |-> heap],
                      [k \in 1 .. NumSlots |-> k - 1])
    IN  /\ \E h \in Slots : first[h] # 0
        /\ cell' = S.cell /\ heap' = S.heap
        /\ first' = [h \in Heads |-> IF h \in Slots THEN 0 ELSE first[h]]
        /\ abstract' = [h \in Heads |-> IF h \in Slots THEN << >> ELSE abstract[h]]

chained_hash_insert(e) == ll_add_to_start(Hash(e), e)
chained_hash_search(e) == ll_find(Hash(e), e) # 0
chained_hash_delete(e) == ll_del(Hash(e), e)

HashNext ==
    \/ chained_hash_destroy
    \/ ll_delfirst(List)
    \/ \E e \in Elements :
         \/ chained_hash_insert(e) \/ chained_hash_delete(e)
         \/ ll_add_to_end(List, e) \/ ll_sorted_insert(List, e)

HashSpec == HashInit /\ [][HashNext]_hashVars
-----------------------------------------------------------------------------
\* Whatever order nodes come back from the heap in, with the links of their
\* last list still in them, every list reads the same forwards and backwards
\* as the sequence its operations should have built, an element is found in
\* its slot iff it was put there, and every node is in one list or free.
ListsKeepTheirNodes ==
    /\ \A h \in Heads :
         LET chain == Chain(cell, first[h])
         IN  /\ [i \in DOMAIN chain |-> cell[chain[i]].data] = abstract[h]
             /\ \A i \in DOMAIN chain :
                  cell[chain[i]].prev = IF i = 1 THEN 0 ELSE chain[i - 1]
    /\ \A e \in Elements :
         chained_hash_search(e) <=> \E h \in Slots : e \in ToSet(abstract[h])
    /\ LET all == FoldLeft(LAMBDA s, h : s \o Chain(cell, first[h]), Chain(cell, heap),
                           <<List>> \o [k \in 1 .. NumSlots |-> k - 1])
       IN  IsInjective(all) /\ ToSet(all) = DOMAIN cell
-----------------------------------------------------------------------------
(***************************************************************************)
(* Arithmetic on times of two fields: tv_timeadd, tv_timesub, tv_timemul   *)
(* and tv_timecmp of client_lib/src/utils.c (the ts_ functions differ in   *)
(* the unit only), and gm_Timer of ptm/src/share/eventhan.cc, which does   *)
(* its own.  MILLION is 1000000, or 1000000000 for ts_; it is small here,  *)
(* so that all times of a few seconds can be tried.                        *)
(*                                                                         *)
(* The multiplier of tv_timemul is a fraction: speedup_factor.             *)
(***************************************************************************)
CONSTANTS
    MILLION,
    MaxSec,         \* bound: seconds of the times that are tried
    Multipliers     \* <<numerator, denominator>>

TimeVal(sec, usec) == [tv_sec |-> sec, tv_usec |-> usec]

\* Times as gettimeofday gives them, and what a time stands for
Normal == {TimeVal(s, u) : s \in 0 .. MaxSec, u \in 0 .. MILLION - 1}
Value(t) == t.tv_sec * MILLION + t.tv_usec

tv_timeadd(ta, tb) ==
    LET sec == ta.tv_sec + tb.tv_sec
        usec == ta.tv_usec + tb.tv_usec
    IN  IF usec > MILLION THEN TimeVal(sec + 1, usec - MILLION) ELSE TimeVal(sec, usec)

tv_timesub(ta, tb) ==
    IF tb.tv_usec > ta.tv_usec
      THEN TimeVal(ta.tv_sec - (tb.tv_sec + 1), ta.tv_usec + MILLION - tb.tv_usec)
      ELSE TimeVal(ta.tv_sec - tb.tv_sec, ta.tv_usec - tb.tv_usec)

\* The loop at the end of tv_timemul
RECURSIVE Carried(_)
Carried(t) ==
    IF t.tv_usec > MILLION THEN Carried(TimeVal(t.tv_sec + 1, t.tv_usec - MILLION)) ELSE t

\* Both fields are cut to whole numbers; the fraction of the seconds goes to
\* the microseconds.
tv_timemul(ta, tm) ==
    LET rsec == tm[1] * ta.tv_sec
        rusec == tm[1] * ta.tv_usec
        fraction == rsec % tm[2]
    IN  Carried(TimeVal(rsec \div tm[2],
                  (rusec \div tm[2]) + (MILLION * fraction) \div tm[2]))

tv_timecmp_Usec(ta, tb) ==
    IF ta.tv_usec > tb.tv_usec THEN 1 ELSE IF ta.tv_usec < tb.tv_usec THEN -1
    ELSE IF ta.tv_sec > tb.tv_sec THEN 1 ELSE IF ta.tv_sec < tb.tv_sec THEN -1 ELSE 0
tv_timecmp(ta, tb) ==
    IF ta.tv_sec > tb.tv_sec THEN 1 ELSE IF ta.tv_sec < tb.tv_sec THEN -1
    ELSE IF ta.tv_usec > tb.tv_usec THEN 1 ELSE IF ta.tv_usec < tb.tv_usec THEN -1 ELSE 0

\* gm_Timer::Compare
Compare(ta, tb) ==
    IF ta.tv_sec < tb.tv_sec THEN -1
    ELSE IF ta.tv_sec = tb.tv_sec /\ ta.tv_usec < tb.tv_usec THEN -1
    ELSE IF ta.tv_sec = tb.tv_sec /\ ta.tv_usec = tb.tv_usec THEN 0
    ELSE 1

IncrementTimeout(nextTimeout, interval) ==
    LET usec == nextTimeout.tv_usec + interval.tv_usec
        sec == nextTimeout.tv_sec + interval.tv_sec
    IN  IF usec >= MILLION THEN TimeVal(sec + 1, usec - MILLION) ELSE TimeVal(sec, usec)

\* A time out that has passed is 0 ahead.
ComputeAheadOfGMT(nextTimeout, current) ==
    LET sec == nextTimeout.tv_sec - current.tv_sec
        usec == nextTimeout.tv_usec - current.tv_usec
        ahead == IF usec < 0 THEN TimeVal(sec - 1, usec + MILLION) ELSE TimeVal(sec, usec)
    IN  IF ahead.tv_sec < 0 THEN TimeVal(0, 0) ELSE ahead
-----------------------------------------------------------------------------
(* Pairs of times that are tried, one after the other                      *)

VARIABLES ta, tb, tm

timeVars == <<ta, tb, tm>>

TimeInit == ta \in Normal /\ tb = TimeVal(0, 0) /\ tm \in Multipliers

\* The next b
TimeStep ==
    /\ tb # TimeVal(MaxSec, MILLION - 1)
    /\ tb' = IncrementTimeout(tb, TimeVal(0, 1))
    /\ UNCHANGED <<ta, tm>>

TimeNext == TimeStep

TimeSpec == TimeInit /\ [][TimeNext]_timeVars

Order(x, y) == IF x < y THEN -1 ELSE IF x = y THEN 0 ELSE 1
MaxValue(x, y) == IF x > y THEN x ELSE y

\* All carries and borrows keep the value of a time.  A timer never waits for
\* longer than it should, nor for a negative time.  A product loses less than
\* two microseconds.  Differences of times in order, and time outs that are
\* incremented, stay below a million microseconds; tv_timeadd and tv_timemul
\* stop one short of that, at exactly a million.
ArithmeticIsExact ==
    /\ Value(tv_timeadd(ta, tb)) = Value(ta) + Value(tb)
    /\ tv_timeadd(ta, tb).tv_usec \in 0 .. MILLION
    /\ Value(tv_timesub(ta, tb)) = Value(ta) - Value(tb)
    /\ tv_timesub(ta, tb).tv_usec \in 0 .. MILLION - 1
    /\ tv_timemul(ta, tm).tv_usec \in 0 .. MILLION
    /\ LET lost == tm[1] * Value(ta) - tm[2] * Value(tv_timemul(ta, tm))
       IN  lost >= 0 /\ lost < 2 * tm[2]
    /\ IncrementTimeout(ta, tb) \in [tv_sec : 0 .. 2 * MaxSec + 1, tv_usec : 0 .. MILLION - 1]
    /\ Value(IncrementTimeout(ta, tb)) = Value(ta) + Value(tb)
    /\ Value(ComputeAheadOfGMT(ta, tb)) = MaxValue(0, Value(ta) - Value(tb))

\* Times are compared by their values; a sum, whose carry may be missing, is
\* never taken for later than a later time, or for earlier than an earlier.
ComparisonsAgree ==
    /\ tv_timecmp(ta, tb) = Order(Value(ta), Value(tb))
    /\ Compare(ta, tb) = Order(Value(ta), Value(tb))
    /\ LET sum == tv_timeadd(ta, tb)
       IN  \A t \in {IncrementTimeout(ta, tb), tv_timesub(ta, tb), TimeVal(ta.tv_sec + 1, 0)} :
             tv_timecmp(sum, t) # Order(Value(sum), Value(t)) => Value(sum) = Value(t)

\* What utils.h would have it: a comparison of a sum with an equal time.  Refuted.
SumsCompareEqual ==
    tv_timecmp(tv_timeadd(ta, tb), IncrementTimeout(ta, tb)) = 0
=============================================================================
