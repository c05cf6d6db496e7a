------------------------------- MODULE Caches ------------------------------
(***************************************************************************)
(* Two caches that replace the least recently used entry: the negative     *)
(* cache of a front end and the cache simulator.                           *)
(***************************************************************************)
EXTENDS Naturals, Sequences, SequencesExt, Integers, FiniteSets
-----------------------------------------------------------------------------
(***************************************************************************)
(* NegativeCache of ptm/src/cache/cache.cc: the types of which the PTM has *)
(* said that there is no distiller.  A counter is stored in an entry when  *)
(* it is used, and the entry with the least one is evicted.  Every         *)
(* operation runs under the cache's mutex.                                 *)
(***************************************************************************)
CONSTANTS
    Types,
    MaxNCSize,
    MaxTouches  \* bound on touchCounter

VARIABLES
    list,       \* the entries, the newest first: type and lastTouched
    touchCounter,
    result      \* of the last operation

negativeVars == <<list, touchCounter, result>>

NegativeInit == list = <<>> /\ touchCounter = 0 /\ result = <<"new">>

Positions == DOMAIN list
At(t) == {i \in Positions : list[i].type = t}

\* Touch_: nothing changes if the entry was the last to be touched.
TouchedEntry(entries, i, n) ==
    IF entries[i].lastTouched = n /\ n # 0
      THEN [list |-> entries, counter |-> n]
      ELSE [list |-> [entries EXCEPT ![i].lastTouched = n + 1],
            counter |-> n + 1]

\* Evict_: the first of the entries with the least lastTouched
OneEvicted_Last(s) == Front(s)
OneEvicted(s) ==
    RemoveAt(s, CHOOSE i \in DOMAIN s :
                  \A j \in DOMAIN s : /\ s[i].lastTouched <= s[j].lastTouched
                                      /\ j < i => s[j].lastTouched # s[i].lastTouched)

Full == Len(list) >= MaxNCSize

Add(t) ==
    /\ touchCounter < MaxTouches
    /\ IF At(t) # {} THEN UNCHANGED <<list, touchCounter>>
       ELSE LET kept == IF Full THEN OneEvicted(list) ELSE list
                new == TouchedEntry(<<[type |-> t, lastTouched |-> 0]>> \o kept, 1,
                               touchCounter)
            IN list' = new.list /\ touchCounter' = new.counter
    /\ result' = <<"Add", t>>

IsThere(t) ==
    /\ touchCounter < MaxTouches
    /\ IF At(t) = {} THEN UNCHANGED <<list, touchCounter>>
       ELSE \E i \in At(t) :
              LET new == TouchedEntry(list, i, touchCounter)
              IN list' = new.list /\ touchCounter' = new.counter
    /\ result' = <<"IsThere", t, At(t) # {}>>

Flush ==
    list' = <<>> /\ touchCounter' = 0 /\ result' = <<"Flush">>

NegativeNext == Flush \/ \E t \in Types : Add(t) \/ IsThere(t)

NegativeSpec == NegativeInit /\ [][NegativeNext]_negativeVars
-----------------------------------------------------------------------------
ByUse == SortSeq(list, LAMBDA e, f : e.lastTouched > f.lastTouched)

\* The types, the one used last first
UseOrder == [i \in DOMAIN ByUse |-> ByUse[i].type]

\* What a set of MaxNCSize keys that forgets the one used least recently does
LRUStep(s, t) ==
    \/ t = << >> /\ result' = <<"Flush">>
    \/ \E k \in Types :
         \/ /\ t = IF k \in ToSet(s) THEN <<k>> \o Remove(s, k) ELSE s
            /\ result' = <<"IsThere", k, k \in ToSet(s)>>
         \/ /\ t = IF k \in ToSet(s) THEN s
                   ELSE <<k>> \o SubSeq(s, 1, IF Len(s) < MaxNCSize THEN Len(s)
                                              ELSE MaxNCSize - 1)
            /\ result' = <<"Add", k>>

\* The counter of Touch_ and the search of Evict_ give least recently used
\* replacement, across flushes that start the counter again.
ForgetsLeastUsed == [LRUStep(UseOrder, UseOrder')]_negativeVars

ImplementsLRU == [][ForgetsLeastUsed]_negativeVars
-----------------------------------------------------------------------------
(***************************************************************************)
(* The cache simulator of the playback tools:                              *)
(* playback/src/cachesim/cache.c and httpstats.c.                          *)
(*                                                                         *)
(* Entries of a log are run through a cache of limited size.  An entry of  *)
(* the cache is in the chain of its hash slot and in a list ordered by     *)
(* last use, from which the cache takes what it evicts.  Unused entries    *)
(* are in a heap, linked by the same pointers as that list.                *)
(***************************************************************************)
CONSTANTS Urls,        \* numbers; the slot of url u is u % NumSlots
          Sizes,       \* sizes of responses, 0 for a garbage entry
          cache_size,  \* limit of the cache
          NumSlots,    \* num_entries
          Block,       \* C_ENTRY_HEAP_ALLOCSIZE
          MaxEntries,  \* bound on entries that are allocated
          Width,       \* sizes are numbers modulo 2^Width
          MaxAfter     \* entries processed once lone is set

VARIABLES c,         \* the cache, see Fresh
          stats,     \* num_requests, num_misses, the misses forced by pragmas
          ideal,     \* what a cache of this size would hold, last used first
          lone       \* entries processed since the only entry of the cache
                     \* was used again, 0 when it never was

simVars == <<c, stats, ideal, lone>>

Null == 0
Wrap(n) == n % 2^Width
Entries == 1 .. MaxEntries
Blank == [url |-> -1, size |-> 0, off |-> 0, next |-> Null, prev |-> Null, cnext |-> Null, cprev |-> Null]
-----------------------------------------------------------------------------
(* cache.c                                                                 *)

\* A block of entries linked to a heap.
Linked(cc, first) ==
    [cc EXCEPT !.e = [i \in Entries |-> IF i \in first .. first + Block - 1
                                        THEN [Blank EXCEPT !.next = IF i = first + Block - 1 THEN Null ELSE i + 1]
                                        ELSE @[i]],
               !.heap = first, !.used = first + Block - 1]
\* initialize_cache
Fresh == Linked([e |-> [i \in Entries |-> Blank], slot |-> [s \in 0 .. NumSlots - 1 |-> Null],
                 head |-> Null, tail |-> Null, num |-> 0, cur |-> 0, heap |-> Null, used |-> 0], 1)

CanGet(cc) == cc.heap # Null \/ cc.used + Block <= MaxEntries
\* get_cache_entry: the entry is left as the old head of the heap.
get_cache_entry(cc) ==
    LET full == IF cc.heap = Null THEN Linked(cc, cc.used + 1) ELSE cc
    IN  [full EXCEPT !.heap = full.e[full.heap].next,
                     !.e[full.heap] = [@ EXCEPT !.next = Null, !.prev = Null]]
Got(cc) == IF cc.heap = Null THEN cc.used + 1 ELSE cc.heap

\* free_cache_entry
free_cache_entry(cc, x) == [cc EXCEPT !.e[x] = [Blank EXCEPT !.next = cc.heap], !.heap = x]

\* The entry leaves its place in the list; the two ends follow.
Unlink(cc, x) ==
    LET p == cc.e[x].prev  n == cc.e[x].next
        a == IF p # Null THEN [cc EXCEPT !.e[p].next = n] ELSE cc
        b == IF n # Null THEN [a EXCEPT !.e[n].prev = p] ELSE a
    IN  [b EXCEPT !.tail = IF @ = x THEN p ELSE @, !.head = IF @ = x THEN n ELSE @]
\* It becomes the head.
PushHead(cc, x) ==
    LET old == cc.head
        a == [cc EXCEPT !.head = x, !.e[x].next = old, !.e[x].prev = Null]
    IN  IF old # Null THEN [a EXCEPT !.e[old].prev = x] ELSE a

\* The chain of a slot.
RECURSIVE ChainFrom(_, _, _)
ChainFrom(cc, x, n) == IF x = Null \/ n = 0 THEN << >> ELSE <<x>> \o ChainFrom(cc, cc.e[x].cnext, n - 1)
Chain(cc, s) == ChainFrom(cc, cc.slot[s], MaxEntries + 1)
Find(cc, url) ==
    LET ch == Chain(cc, url % NumSlots)
        at == {i \in DOMAIN ch : cc.e[ch[i]].url = url}
    IN  IF at = {} THEN Null ELSE ch[CHOOSE i \in at : \A j \in at : i <= j]

\* test_in_cache: a hit is a use.
Touched(cc, x) == PushHead(Unlink(cc, x), x)

\* evict_lru
evict_lru_ChainKept(cc) ==
    IF cc.tail = Null THEN [cc EXCEPT !.cur = 0, !.num = 0]
    ELSE LET t == cc.tail  p == cc.e[t].prev
             a == [cc EXCEPT !.tail = p, !.head = IF @ = t THEN Null ELSE @]
             b == IF p # Null THEN [a EXCEPT !.e[p].next = Null] ELSE a
             d == IF cc.e[t].cprev = Null THEN [b EXCEPT !.slot[cc.e[t].off] = cc.e[t].cnext]
                  ELSE [b EXCEPT !.e[cc.e[t].cprev].cnext = cc.e[t].cnext]
         IN  free_cache_entry([d EXCEPT !.cur = Wrap(@ - cc.e[t].size), !.num = Wrap(@ - 1)], t)
evict_lru(cc) ==
    IF cc.tail = Null THEN [cc EXCEPT !.cur = 0, !.num = 0]
    ELSE LET t == cc.tail
             p == cc.e[t].prev  cp == cc.e[t].cprev  cn == cc.e[t].cnext
             a == [cc EXCEPT !.tail = p, !.head = IF @ = t THEN Null ELSE @]
             b == IF p # Null THEN [a EXCEPT !.e[p].next = Null] ELSE a
             d == IF cp # Null THEN [b EXCEPT !.e[cp].cnext = cn] ELSE b
             f == IF cn # Null THEN [d EXCEPT !.e[cn].cprev = cp] ELSE d
             g == IF cp = Null THEN [f EXCEPT !.slot[cc.e[t].off] = cn] ELSE f
         IN  free_cache_entry([g EXCEPT !.cur = Wrap(@ - cc.e[t].size), !.num = Wrap(@ - 1)], t)

RECURSIVE Evicted(_, _)
Evicted(cc, size) == IF Wrap(cc.cur + size) > cache_size THEN Evicted(evict_lru(cc), size) ELSE cc

\* add_to_cache: only an entry for an empty slot looks after the tail.  It
\* returns 0 in all cases: the bits for an eviction and a refresh are set in
\* retval by &=, so that the two statistics made of them stay 0.
Filled(cc, x, url, size) ==
    [cc EXCEPT !.e[x] = [@ EXCEPT !.url = url, !.size = size, !.off = url % NumSlots],
               !.cur = Wrap(@ + size), !.num = Wrap(@ + 1)]
add_to_cache(cc0, url, size) ==
    IF size > cache_size THEN cc0
    ELSE LET cc == Evicted(cc0, size)
             s == url % NumSlots
             x == Got(cc)
             ch == Chain(cc, s)
         IN  IF cc.slot[s] = Null
             THEN LET a == PushHead(Filled([get_cache_entry(cc) EXCEPT !.slot[s] = x], x, url, size), x)
                  IN  IF a.tail = Null THEN [a EXCEPT !.tail = x] ELSE a
             ELSE IF Find(cc, url) # Null
             THEN LET y == Find(cc, url)
                  IN  Touched([cc EXCEPT !.cur = Wrap(@ - cc.e[y].size + size), !.e[y].size = size], y)
             ELSE Touched(Filled([get_cache_entry(cc) EXCEPT !.e[Last(ch)].cnext = x, !.e[x].cprev = Last(ch)],
                                 x, url, size), x)
-----------------------------------------------------------------------------
(* What a cache that evicts the least recently used would do               *)

SizeOf(s) == FoldLeft(LAMBDA a, x : a + x.size, 0, s)
RECURSIVE Shrunk(_, _)
Shrunk(s, size) == IF SizeOf(s) + size > cache_size THEN Shrunk(Front(s), size) ELSE s
IdealAfter(url, size) ==
    LET at == SelectSeq(ideal, LAMBDA x : x.url = url)
    IN  IF at # << >> THEN at \o SelectSeq(ideal, LAMBDA x : x.url # url)
        ELSE IF size > cache_size THEN ideal
        ELSE <<[url |-> url, size |-> size]>> \o Shrunk(ideal, size)
-----------------------------------------------------------------------------
(* httpstats.c                                                             *)

SimInit ==
    /\ c = Fresh
    /\ stats = [requests |-> 0, misses |-> 0]
    /\ ideal = << >>
    /\ lone = 0

\* process_log_entry for an entry that must be fetched because of a pragma:
\* the cache is neither asked nor changed.
Forced ==
    /\ stats' = [requests |-> 1, misses |-> 1]
    /\ UNCHANGED <<c, ideal, lone>>

\* For any other sane entry: a hit is a use, what was missed is added.
Cached ==
    \E url \in Urls, size \in Sizes \ {0} :
      LET x == Find(c, url) IN
      /\ lone <= MaxAfter
      /\ x = Null /\ size <= cache_size => CanGet(Evicted(c, size))
      /\ c' = IF x # Null THEN Touched(c, x) ELSE add_to_cache(c, url, size)
      /\ stats' = [requests |-> 1, misses |-> IF x # Null THEN 0 ELSE 1]
      /\ ideal' = IdealAfter(url, size)
      /\ lone' = IF lone > 0 \/ (x # Null /\ c.head = x /\ c.e[x].next = Null) THEN lone + 1 ELSE 0

\* Garbage is not counted.
Garbage ==
    /\ 0 \in Sizes
    /\ stats' = [requests |-> 0, misses |-> 0]
    /\ UNCHANGED <<c, ideal, lone>>

SimNext == Forced \/ Cached \/ Garbage
SimSpec == SimInit /\ [][SimNext]_simVars
-----------------------------------------------------------------------------
(* Properties                                                              *)

InChains(cc) == UNION {ToSet(Chain(cc, s)) : s \in 0 .. NumSlots - 1}
RECURSIVE ListFrom(_, _)
ListFrom(x, n) == IF x = Null \/ n = 0 THEN << >> ELSE <<x>> \o ListFrom(c.e[x].next, n - 1)
LruList == ListFrom(c.head, MaxEntries + 1)

\* As long as the only entry of the cache was not used again, the simulator
\* is a cache that evicts what was used least recently: the list holds the
\* same in the same order, its ends and back pointers agree, the chains hold
\* the same entries, and the counters are those of its contents.
SimulatesLRU ==
    lone = 0 =>
      /\ [i \in DOMAIN LruList |-> [url |-> c.e[LruList[i]].url, size |-> c.e[LruList[i]].size]] = ideal
      /\ c.tail = IF LruList = << >> THEN Null ELSE Last(LruList)
      /\ \A i \in DOMAIN LruList : c.e[LruList[i]].prev = IF i = 1 THEN Null ELSE LruList[i - 1]
      /\ InChains(c) = ToSet(LruList)
      /\ \A s \in 0 .. NumSlots - 1 : LET ch == Chain(c, s) IN
           \A i \in DOMAIN ch : /\ c.e[ch[i]].off = s
                                /\ c.e[ch[i]].cprev = IF i = 1 THEN Null ELSE ch[i - 1]
      /\ c.cur = SizeOf(ideal) /\ c.num = Len(ideal)
      /\ c.cur <= cache_size
      /\ ToSet(ListFrom(c.heap, MaxEntries + 1)) = 1 .. c.used \ InChains(c)

\* Refuted: cache.h:33 "cache_size will limit the total size of data stored
\* in the cache to cache_size bytes" (a hit on the only entry leaves the list
\* without a tail; that entry is never evicted, and an eviction without a
\* tail sets the counters to 0).
SizeIsLimited ==
    FoldLeft(LAMBDA a, x : a + c.e[x].size, 0, SetToSeq(InChains(c))) <= cache_size
=============================================================================
