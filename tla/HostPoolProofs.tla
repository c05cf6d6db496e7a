--------------------------- MODULE HostPoolProofs ---------------------------
(***************************************************************************)
(* Proofs about HostPool, for every set of machines, every bound and every *)
(* family of host lists that only reorder one list.                        *)
(*                                                                         *)
(* PoolConsistent is inductive together with the types.  The step that     *)
(* needs an argument is RecomputeMinLoadLevel: a non-empty set of natural  *)
(* numbers has a least element (Nat is well-founded), so the CHOOSE in     *)
(* Least has something to choose.                                          *)
(*                                                                         *)
(* What the search finds needs an induction over its rounds.  SetInduction *)
(* and Recursion, which follow from the least element, show that the       *)
(* function Best exists and is what its equations say; after round k it    *)
(* holds the first host of the highest priority among the eligible ones    *)
(* visited so far (FirstBest).  The visits of one turn are a permutation   *)
(* of the array (VisitedOnce, VisitedPlaces), so the last round holds the  *)
(* best host of all, and the next search, which begins one place further,  *)
(* meets that host last (LastVisited): it is only picked again when no     *)
(* other is as good.                                                       *)
(***************************************************************************)
EXTENDS HostPool, NaturalsInduction, WellFoundedInduction, TLAPS

(***************************************************************************)
(* A non-empty set of natural numbers has a least element.                 *)
(***************************************************************************)
LEMMA LeastExists ==
    ASSUME NEW S \in SUBSET Nat, S # {}
    PROVE  \E n \in S : \A k \in S : n <= k
<1> DEFINE R == OpToRel(<, Nat)
<1>1. IsWellFoundedOn(R, Nat)
  BY NatLessThanWellFounded
<1>0. \A k, n \in Nat : k < n => <<k, n>> \in R
  BY Zenon DEF OpToRel
<1> HIDE DEF R
<1>2. PICK n \in S : \A k \in S : ~(<<k, n>> \in R)
  BY Zenon, <1>1, WFMin
<1>3. \A k \in S : n <= k
  <2> SUFFICES ASSUME NEW k \in S PROVE n <= k
    OBVIOUS
  <2>1. k \in Nat /\ n \in Nat
    OBVIOUS
  <2>2. ~(k < n)
    BY <1>0, <1>2, <2>1, Zenon
  <2> QED BY <2>1, <2>2
<1> QED BY <1>3

(***************************************************************************)
(* Induction and primitive recursion over the natural numbers, for sets    *)
(* and functions: both follow from the existence of a least element.       *)
(***************************************************************************)
LEMMA SetInduction ==
    ASSUME NEW S, 0 \in S, \A n \in Nat : n \in S => n + 1 \in S
    PROVE  Nat \subseteq S
<1> SUFFICES ASSUME Nat \ S # {} PROVE FALSE
  OBVIOUS
<1>1. PICK n \in Nat \ S : \A k \in Nat \ S : n <= k
  BY Zenon, LeastExists
<1>2. n # 0 /\ n - 1 \in Nat /\ (n - 1) + 1 = n
  BY <1>1
<1>3. n - 1 \in S
  BY <1>1, <1>2
<1> QED BY <1>1, <1>2, <1>3

(***************************************************************************)
(* A first value v and a step determine a function on the natural numbers. *)
(* (The definitions keep the lemma first-order for the provers.)           *)
(***************************************************************************)
Steps(V) == [Nat \X V -> V]
Follows(f, V, v, step) ==
    /\ f \in [Nat -> V]
    /\ f[0] = v
    /\ \A n \in Nat : f[n + 1] = step[<<n, f[n]>>]

(***************************************************************************)
(* Such a function exists.                                                 *)
(***************************************************************************)
LEMMA Recursion ==
    ASSUME NEW V, NEW v \in V, NEW step \in Steps(V)
    PROVE  \E f : Follows(f, V, v, step)
<1> USE DEF Steps
<1> DEFINE Approx(n) == {f \in [0 .. n -> V] :
                           /\ f[0] = v
                           /\ \A k \in 0 .. n - 1 : f[k + 1] = step[<<k, f[k]>>]}
<1>1. \A n \in Nat : Approx(n) # {}
  <2> DEFINE S == {n \in Nat : Approx(n) # {}}
  <2>1. 0 \in S
    <3>1. [k \in 0 .. 0 |-> v] \in Approx(0)
      OBVIOUS
    <3> QED BY <3>1
  <2>2. ASSUME NEW n \in Nat, n \in S PROVE n + 1 \in S
    <3>1. PICK f \in [0 .. n -> V] :
            /\ f[0] = v
            /\ \A k \in 0 .. n - 1 : f[k + 1] = step[<<k, f[k]>>]
      BY <2>2
    <3> DEFINE g == [k \in 0 .. n + 1 |-> IF k <= n THEN f[k] ELSE step[<<n, f[n]>>]]
    <3>2. f[n] \in V /\ step[<<n, f[n]>>] \in V
      BY <3>1
    <3>3. g \in [0 .. n + 1 -> V] /\ g[0] = v
      BY <3>1, <3>2
    <3>4. ASSUME NEW k \in 0 .. n PROVE g[k + 1] = step[<<k, g[k]>>]
      <4>1. g[k] = f[k]
        BY <3>4
      <4>2. CASE k = n
        <5>1. n + 1 \in 0 .. n + 1 /\ ~(n + 1 <= n)
          OBVIOUS
        <5>2. g[n + 1] = step[<<n, f[n]>>]
          BY <5>1
        <5> QED BY Zenon, <4>1, <4>2, <5>2
      <4>3. CASE k # n
        <5>1. k \in 0 .. n - 1 /\ k + 1 \in 0 .. n
          BY <4>3
        <5> QED BY <3>1, <4>1, <5>1
      <4> QED BY <4>2, <4>3
    <3>5. g \in Approx(n + 1)
      <4>1. 0 .. (n + 1) - 1 = 0 .. n
        OBVIOUS
      <4> HIDE DEF g
      <4>2. \A k \in 0 .. (n + 1) - 1 : g[k + 1] = step[<<k, g[k]>>]
        BY <3>4, <4>1
      <4> QED BY <3>3, <4>2, Zenon
    <3> HIDE DEF g, Approx
    <3> QED BY <3>5
  <2>3. Nat \subseteq S
    <3> HIDE DEF S
    <3> QED BY <2>1, <2>2, SetInduction
  <2> QED BY <2>3
<1>2. ASSUME NEW n \in Nat, NEW m \in Nat, NEW f \in Approx(n), NEW g \in Approx(m)
      PROVE  \A k \in Nat : k <= n /\ k <= m => f[k] = g[k]
  <2> DEFINE S == {k \in Nat : k <= n /\ k <= m => f[k] = g[k]}
  <2>1. 0 \in S
    OBVIOUS
  <2>2. ASSUME NEW k \in Nat, k \in S PROVE k + 1 \in S
    <3> SUFFICES ASSUME k + 1 <= n, k + 1 <= m PROVE f[k + 1] = g[k + 1]
      OBVIOUS
    <3>1. f[k] = g[k] /\ k \in 0 .. n - 1 /\ k \in 0 .. m - 1
      BY <2>2
    <3> QED BY Zenon, <3>1
  <2>3. Nat \subseteq S
    <3> HIDE DEF S
    <3> QED BY <2>1, <2>2, SetInduction
  <2> QED BY <2>3
<1> DEFINE a == [n \in Nat |-> CHOOSE f \in Approx(n) : TRUE]
           h == [n \in Nat |-> a[n][n]]
<1>3. \A n \in Nat : a[n] \in Approx(n)
  BY Zenon, <1>1
<1> HIDE DEF a
<1>4. \A n \in Nat : a[n] \in [0 .. n -> V]
  BY Zenon, <1>3
<1>5. h \in [Nat -> V]
  BY <1>4
<1>6. h[0] = v
  BY <1>3
<1>7. ASSUME NEW n \in Nat PROVE h[n + 1] = step[<<n, h[n]>>]
  <2>1. a[n] \in Approx(n) /\ a[n + 1] \in Approx(n + 1)
    BY <1>3
  <2>2. a[n + 1][n] = a[n][n]
    <3> HIDE DEF Approx
    <3>1. n <= n + 1 /\ n <= n /\ n + 1 \in Nat
      OBVIOUS
    <3> QED BY <1>2, <2>1, <3>1
  <2>3. a[n + 1][n + 1] = step[<<n, a[n + 1][n]>>]
    <3>1. n \in 0 .. (n + 1) - 1
      OBVIOUS
    <3> QED BY <2>1, <3>1
  <2> QED BY <2>2, <2>3
<1> QED BY Zenon, <1>5, <1>6, <1>7 DEF Follows

(***************************************************************************)
(* RecomputeMinLoadLevel yields a level that some host has and that no     *)
(* host is below.                                                          *)
(***************************************************************************)
LEMMA LeastIsLeast ==
    ASSUME NEW level \in [Hosts -> Nat],
           Names(hosts) \subseteq Hosts, Names(hosts) # {}
    PROVE  /\ Least(level) \in Nat
           /\ \A h \in Names(hosts) : Least(level) <= level[h]
           /\ \E h \in Names(hosts) : Least(level) = level[h]
<1> DEFINE S == {level[h] : h \in Names(hosts)}
<1>1. S \in SUBSET Nat /\ S # {}
  OBVIOUS
<1>2. \E n \in S : \A k \in S : n <= k
  BY Zenon, <1>1, LeastExists
<1>3. \E n \in S : \A h \in Names(hosts) : n <= level[h]
  BY <1>2
<1>4. /\ Least(level) \in S
      /\ \A h \in Names(hosts) : Least(level) <= level[h]
  BY <1>3 DEF Least
<1> QED BY <1>1, <1>4
(***************************************************************************)
(* The host array is a non-empty sequence of machines.                     *)
(***************************************************************************)
LEMMA ListFacts ==
    ASSUME NEW s \in HostLists
    PROVE  /\ s \in Seq(Hosts)
           /\ Len(s) \in Nat \ {0}
           /\ Names(s) \subseteq Hosts
           /\ Names(s) # {}
<1>1. s \in Seq(Hosts) /\ s # << >>
  BY ConstantsOK DEF HostPoolAssumption
<1>2. Len(s) \in Nat \ {0}
  BY <1>1
<1>3. DOMAIN s = 1 .. Len(s) /\ 1 \in DOMAIN s
  BY <1>1, <1>2
<1> QED BY <1>1, <1>2, <1>3 DEF Names

(***************************************************************************)
(* UpLevel and DownLevel, on a machine in the array: the new minimum is    *)
(* the least of the new levels.                                            *)
(***************************************************************************)
LEMMA Recomputed ==
    ASSUME TypeOK, hosts' = hosts, loadLevel' \in [Hosts -> Nat],
           minLoadLevel' = Least(loadLevel')
    PROVE  /\ minLoadLevel' \in Nat
           /\ \A h \in Names(hosts) : minLoadLevel' <= loadLevel'[h]
           /\ \E h \in Names(hosts) : minLoadLevel' = loadLevel'[h]
<1>1. Names(hosts) \subseteq Hosts /\ Names(hosts) # {}
  BY ListFacts DEF TypeOK
<1> QED BY <1>1, LeastIsLeast

(***************************************************************************)
(* The types, and the bounds of the search, are kept by every step.        *)
(***************************************************************************)
LEMMA TypeStep ==
    ASSUME TypeOK, [Next]_vars
    PROVE  TypeOK'
<1>0. /\ hosts \in HostLists /\ hosts \in Seq(Hosts) /\ Len(hosts) \in Nat \ {0}
      /\ loadLevel \in [Hosts -> Nat] /\ running \in [Hosts -> Nat]
      /\ minLoadLevel \in Nat /\ currentHost \in Nat
      /\ picked \in Hosts \cup {NoHost, "spins"} /\ again \in BOOLEAN
  BY ListFacts DEF TypeOK
<1>1. ASSUME NEW h \in Hosts, UpLevel(h)
      PROVE  TypeOK'
  <2>1. running' \in [Hosts -> Nat] /\ loadLevel' \in [Hosts -> Nat]
    BY <1>0, <1>1 DEF UpLevel
  <2>2. minLoadLevel' \in Nat
    BY <1>0, <1>1, <2>1, Recomputed DEF UpLevel
  <2> QED BY Zenon, <1>0, <1>1, <2>1, <2>2 DEF UpLevel, TypeOK
<1>2. ASSUME NEW h \in Hosts, DownLevel(h)
      PROVE  TypeOK'
  <2>1. running' \in [Hosts -> Nat] /\ loadLevel' \in [Hosts -> Nat]
    <3>1. running[h] - 1 \in Nat
      BY <1>0, <1>2 DEF DownLevel
    <3>2. (IF loadLevel[h] > 0 THEN loadLevel[h] - 1 ELSE loadLevel[h]) \in Nat
      BY <1>0
    <3>3. running' = [running EXCEPT ![h] = @ - 1]
      BY <1>2 DEF DownLevel
    <3>4. \/ loadLevel' = [loadLevel EXCEPT ![h] = IF @ > 0 THEN @ - 1 ELSE @]
          \/ loadLevel' = loadLevel
      BY <1>2 DEF DownLevel
    <3> QED BY <1>0, <3>1, <3>2, <3>3, <3>4
  <2>2. minLoadLevel' \in Nat
    BY <1>0, <1>2, <2>1, Recomputed DEF DownLevel
  <2> QED BY Zenon, <1>0, <1>2, <2>1, <2>2 DEF DownLevel, TypeOK
<1>3. CASE FindLeastLoadedHost
  <2>1. CASE currentHost > Len(hosts)
    BY <1>0, <1>3, <2>1 DEF FindLeastLoadedHost, TypeOK
  <2>2. CASE ~(currentHost > Len(hosts))
    <3>1. PICK i \in 0 .. Len(hosts) :
            /\ picked' = IF i = 0 THEN NoHost ELSE hosts[i]
            /\ currentHost' = IF i = 0 THEN Start ELSE After(i)
      BY <1>3, <2>2 DEF FindLeastLoadedHost
    <3>2. i # 0 => hosts[i] \in Hosts
      BY <1>0
    <3>3. After(i) \in Nat /\ Start \in Nat
      BY <1>0 DEF After, Start
    <3> QED BY <1>0, <1>3, <3>1, <3>2, <3>3 DEF FindLeastLoadedHost, TypeOK
  <2> QED BY <2>1, <2>2
<1>4. ASSUME NEW s \in HostLists, Update(s)
      PROVE  TypeOK'
  <2>1. Kept(s) \in [Hosts -> Nat]
    BY <1>0 DEF Kept
  <2> QED BY Zenon, <1>0, <1>4, <2>1 DEF Update, TypeOK
<1>5. CASE UNCHANGED vars
  BY <1>5 DEF vars, TypeOK
<1> QED BY <1>1, <1>2, <1>3, <1>4, <1>5 DEF Next

(***************************************************************************)
(* The constructor leaves every field in its type.                         *)
(***************************************************************************)
LEMMA TypeInit ==
    Init => TypeOK
<1> SUFFICES ASSUME Init PROVE TypeOK
  OBVIOUS
<1>1. loadLevel \in [Hosts -> Nat] /\ running \in [Hosts -> Nat]
  BY DEF Init
<1>2. minLoadLevel \in Nat /\ currentHost \in Nat
  BY DEF Init
<1>3. hosts \in HostLists /\ picked = NoHost /\ again = FALSE
  BY DEF Init
<1> QED BY <1>1, <1>2, <1>3, Zenon DEF TypeOK

(***************************************************************************)
(* Type correctness of the host pool.                                      *)
(***************************************************************************)
THEOREM PoolTypeCorrect == Spec => []TypeOK
BY TypeInit, TypeStep, PTL DEF Spec

(***************************************************************************)
(* One step keeps the pool consistent when updates only reorder the hosts. *)
(***************************************************************************)
LEMMA ConsistentStep ==
    ASSUME TypeOK, SameHosts, PoolConsistent, [Next]_vars
    PROVE  PoolConsistent'
<1>0. /\ hosts \in HostLists /\ Len(hosts) \in Nat \ {0}
      /\ loadLevel \in [Hosts -> Nat] /\ running \in [Hosts -> Nat]
      /\ minLoadLevel \in Nat /\ currentHost \in Nat
      /\ Names(hosts) \subseteq Hosts
  BY ListFacts DEF TypeOK
<1>a. /\ \A h \in Names(hosts) : loadLevel[h] = running[h]
      /\ \A h \in Names(hosts) : minLoadLevel <= loadLevel[h]
      /\ \E h \in Names(hosts) : minLoadLevel = loadLevel[h]
      /\ currentHost <= Len(hosts)
  BY DEF PoolConsistent
<1>1. ASSUME NEW h \in Hosts, UpLevel(h)
      PROVE  PoolConsistent'
  <2>1. hosts' = hosts /\ currentHost' = currentHost
    BY <1>1 DEF UpLevel
  <2>2. CASE h \in Names(hosts)
    <3>1. loadLevel' \in [Hosts -> Nat] /\ minLoadLevel' = Least(loadLevel')
      BY <1>0, <1>1, <2>2 DEF UpLevel
    <3>2. \A g \in Names(hosts) : loadLevel'[g] = running'[g]
      BY <1>0, <1>a, <1>1, <2>2 DEF UpLevel
    <3> QED BY <1>a, <2>1, <3>1, <3>2, Recomputed DEF PoolConsistent
  <2>3. CASE h \notin Names(hosts)
    BY <1>0, <1>a, <1>1, <2>1, <2>3 DEF UpLevel, PoolConsistent
  <2> QED BY <2>2, <2>3
<1>2. ASSUME NEW h \in Hosts, DownLevel(h)
      PROVE  PoolConsistent'
  <2>1. hosts' = hosts /\ currentHost' = currentHost
    BY <1>2 DEF DownLevel
  <2>2. CASE h \in Names(hosts)
    <3>1. loadLevel' \in [Hosts -> Nat] /\ minLoadLevel' = Least(loadLevel')
      BY <1>0, <1>2, <2>2 DEF DownLevel
    <3>2. \A g \in Names(hosts) : loadLevel'[g] = running'[g]
      BY <1>0, <1>a, <1>2, <2>2 DEF DownLevel
    <3> QED BY <1>a, <2>1, <3>1, <3>2, Recomputed DEF PoolConsistent
  <2>3. CASE h \notin Names(hosts)
    BY <1>0, <1>a, <1>2, <2>1, <2>3 DEF DownLevel, PoolConsistent
  <2> QED BY <2>2, <2>3
<1>3. CASE FindLeastLoadedHost
  <2>1. PICK i \in 0 .. Len(hosts) :
          currentHost' = IF i = 0 THEN Start ELSE After(i)
    BY <1>0, <1>a, <1>3 DEF FindLeastLoadedHost
  <2>2. Start <= Len(hosts)
    BY <1>0, <1>a DEF Start
  <2>3. After(i) <= Len(hosts)
    BY <1>0 DEF After
  <2>4. currentHost' <= Len(hosts)
    BY <2>1, <2>2, <2>3
  <2>5. UNCHANGED <<hosts, loadLevel, minLoadLevel, running>>
    BY <1>3 DEF FindLeastLoadedHost
  <2> QED BY <1>a, <2>4, <2>5 DEF PoolConsistent
<1>4. ASSUME NEW s \in HostLists, Update(s)
      PROVE  PoolConsistent'
  <2>1. Names(s) = Names(hosts) /\ Len(s) = Len(hosts)
    BY <1>0 DEF SameHosts
  <2>2. hosts' = s /\ UNCHANGED <<minLoadLevel, currentHost, running>>
    BY <1>4 DEF Update
  <2>3. \A h \in Names(hosts) : loadLevel'[h] = loadLevel[h]
    BY <1>0, <1>4, <2>1 DEF Update, Kept
  <2>4. Names(hosts)' = Names(hosts) /\ Len(hosts)' = Len(hosts)
    BY <2>1, <2>2
  <2> QED BY <1>a, <2>2, <2>3, <2>4 DEF PoolConsistent
<1>5. CASE UNCHANGED vars
  BY <1>5 DEF vars, PoolConsistent
<1> QED BY <1>1, <1>2, <1>3, <1>4, <1>5 DEF Next

(***************************************************************************)
(* The pool is consistent before any distiller registers.                  *)
(***************************************************************************)
LEMMA ConsistentInit ==
    Init => PoolConsistent
<1> SUFFICES ASSUME Init PROVE PoolConsistent
  OBVIOUS
<1>1. hosts \in HostLists
  BY DEF Init
<1>2. /\ Len(hosts) \in Nat \ {0}
      /\ Names(hosts) \subseteq Hosts
      /\ Names(hosts) # {}
  BY <1>1, ListFacts
<1> QED BY <1>2 DEF Init, PoolConsistent

(***************************************************************************)
(* PoolConsistent for every set of machines and every list: when the       *)
(* options file is read again with the same hosts in any order, levels,    *)
(* minimum and search position stay right.                                 *)
(***************************************************************************)
THEOREM PoolStaysConsistent == SameHosts => (Spec => []PoolConsistent)
<1> SUFFICES ASSUME SameHosts PROVE Spec => []PoolConsistent
  OBVIOUS
<1>1. TypeOK /\ PoolConsistent /\ [Next]_vars => PoolConsistent'
  BY ConsistentStep
<1> QED BY <1>1, ConsistentInit, PoolTypeCorrect, PTL DEF Spec

(***************************************************************************)
(* A list that becomes shorter is the only way to a search that does not   *)
(* end: RExec::Update keeps currentHost (rexec.cc:156-175), but hosts may  *)
(* be exchanged, reordered and added, with the least level left stale, and *)
(* FindLeastLoadedHost meets currentHost again.  SameHosts is not needed.  *)
(***************************************************************************)
THEOREM SearchEndsUnlessShortened ==
    Spec /\ [][Len(hosts') >= Len(hosts)]_vars => []SearchEnds
<1> DEFINE Inside == currentHost <= Len(hosts)
<1>0. "spins" \notin Hosts /\ "spins" # NoHost
  BY ConstantsOK DEF HostPoolAssumption
<1>1. Init => Inside /\ SearchEnds
  <2> SUFFICES ASSUME Init PROVE Inside /\ SearchEnds
    OBVIOUS
  <2>1. hosts \in Seq(Hosts)
    BY ConstantsOK DEF HostPoolAssumption, Init
  <2> QED BY <1>0, <2>1 DEF Init, SearchEnds
<1>2. TypeOK /\ Inside /\ SearchEnds /\ [Next]_vars /\ [Len(hosts') >= Len(hosts)]_vars
        => Inside' /\ SearchEnds'
  <2> SUFFICES ASSUME TypeOK, Inside, SearchEnds, [Next]_vars, [Len(hosts') >= Len(hosts)]_vars
               PROVE  Inside' /\ SearchEnds'
    OBVIOUS
  <2>1. /\ hosts \in Seq(Hosts) /\ Len(hosts) \in Nat \ {0} /\ currentHost \in Nat
    BY ListFacts DEF TypeOK
  <2>2. ASSUME NEW h \in Hosts, UpLevel(h) \/ DownLevel(h)
        PROVE  Inside' /\ SearchEnds'
    BY <2>2 DEF UpLevel, DownLevel, SearchEnds
  <2>3. CASE FindLeastLoadedHost
    <3>1. PICK i \in 0 .. Len(hosts) :
            /\ picked' = IF i = 0 THEN NoHost ELSE hosts[i]
            /\ currentHost' = IF i = 0 THEN Start ELSE After(i)
      BY <2>1, <2>3 DEF FindLeastLoadedHost
    <3>2. i # 0 => hosts[i] \in Hosts
      BY <2>1
    <3>3. Start <= Len(hosts)
      BY <2>1 DEF Start
    <3>4. i \in Nat /\ (i % Len(hosts)) + 1 <= Len(hosts)
      BY <2>1
    <3>5. UNCHANGED hosts
      BY <2>3 DEF FindLeastLoadedHost
    <3> QED BY <1>0, <3>1, <3>2, <3>3, <3>4, <3>5 DEF SearchEnds, After
  <2>4. ASSUME NEW s \in HostLists, Update(s)
        PROVE  Inside' /\ SearchEnds'
    <3>1. s \in Seq(Hosts) /\ Len(s) \in Nat
      BY ConstantsOK DEF HostPoolAssumption
    <3>2. Len(s) >= Len(hosts)
      <4>1. CASE vars' = vars
        BY <2>1, <2>4, <4>1 DEF Update, vars
      <4>2. CASE Len(hosts') >= Len(hosts)
        BY <2>4, <4>2 DEF Update
      <4> QED BY <4>1, <4>2
    <3> QED BY <1>0, <2>1, <2>4, <3>1, <3>2 DEF Update, SearchEnds
  <2>5. CASE UNCHANGED vars
    BY <2>5 DEF vars, SearchEnds
  <2> QED BY <2>2, <2>3, <2>4, <2>5 DEF Next
<1> QED BY <1>1, <1>2, PoolTypeCorrect, PTL DEF Spec

(***************************************************************************)
(* The search visits places of the array only, and every place within one  *)
(* round over it, the one before its start at the end.                     *)
(***************************************************************************)
LEMMA Remainders ==
    ASSUME NEW n \in Nat \ {0}, NEW a \in Nat
    PROVE  /\ a % n \in 0 .. n - 1
           /\ a < n => a % n = a
           /\ n <= a /\ a < 2 * n => a % n = a - n
OBVIOUS

LEMMA VisitedPlaces ==
    ASSUME TypeOK, currentHost <= Len(hosts)
    PROVE  /\ \A k \in Nat : Visited(k) \in 1 .. Len(hosts)
           /\ \A i \in 1 .. Len(hosts) : \E k \in 0 .. Len(hosts) - 1 : Visited(k) = i
           /\ \A i \in 1 .. Len(hosts) : currentHost = After(i) =>
                Visited(Len(hosts) - 1) = i
<1> DEFINE n == Len(hosts)
<1>1. n \in Nat \ {0} /\ Start \in 1 .. n
  BY ListFacts DEF TypeOK, Start
<1> HIDE DEF n
<1>2. ASSUME NEW k \in Nat PROVE Visited(k) \in 1 .. n
  <2>1. Start - 1 + k \in Nat
    BY <1>1
  <2>2. (Start - 1 + k) % n \in 0 .. n - 1
    BY <1>1, <2>1, Remainders
  <2> QED BY <1>1, <2>2 DEF Visited, n
<1>3. ASSUME NEW i \in 1 .. n PROVE \E k \in 0 .. n - 1 : Visited(k) = i
  <2>1. CASE i >= Start
    <3>1. i - Start \in 0 .. n - 1 /\ Start - 1 + (i - Start) = i - 1
      BY <1>1, <2>1
    <3>2. (i - 1) % n = i - 1
      <4>1. i - 1 \in Nat /\ i - 1 < n
        BY <1>1
      <4> QED BY Zenon, <1>1, <4>1, Remainders
    <3>3. Visited(i - Start) = i
      BY <1>1, <3>1, <3>2 DEF Visited, n
    <3> QED BY <3>1, <3>3
  <2>2. CASE i < Start
    <3>1. i - Start + n \in 0 .. n - 1 /\ Start - 1 + (i - Start + n) = i - 1 + n
      BY <1>1, <2>2
    <3>2. (i - 1 + n) % n = i - 1
      <4>1. i - 1 + n \in Nat /\ n <= i - 1 + n /\ i - 1 + n < 2 * n
        BY <1>1
      <4>2. (i - 1 + n) % n = (i - 1 + n) - n
        BY Zenon, <1>1, <4>1, Remainders
      <4> QED BY <1>1, <4>2
    <3>3. Visited(i - Start + n) = i
      BY <1>1, <3>1, <3>2 DEF Visited, n
    <3> QED BY <3>1, <3>3
  <2> QED BY <1>1, <2>1, <2>2
<1>4. ASSUME NEW i \in 1 .. n, currentHost = After(i)
      PROVE  Visited(n - 1) = i
  <2>1. CASE i = n
    <3>1. n % n = 0
      BY <1>1, Remainders
    <3>2. Start = 1
      BY <1>1, <1>4, <2>1, <3>1 DEF After, Start, n
    <3>3. (n - 1) % n = n - 1
      <4>1. n - 1 \in Nat /\ n - 1 < n
        BY <1>1
      <4> QED BY Zenon, <1>1, <4>1, Remainders
    <3> QED BY <1>1, <2>1, <3>2, <3>3 DEF Visited, n
  <2>2. CASE i < n
    <3>1. i \in Nat /\ i % n = i
      <4>1. i \in Nat
        BY <1>1
      <4> QED BY Zenon, <1>1, <2>2, <4>1, Remainders
    <3>2. Start = i + 1
      BY <1>1, <1>4, <3>1 DEF After, Start, n
    <3>3. (i + (n - 1)) % n = i - 1
      <4>1. i + (n - 1) \in Nat /\ n <= i + (n - 1) /\ i + (n - 1) < 2 * n
        BY <1>1, <2>2
      <4>2. (i + (n - 1)) % n = (i + (n - 1)) - n
        BY Zenon, <1>1, <4>1, Remainders
      <4> QED BY <1>1, <4>2
    <3> QED BY <1>1, <3>2, <3>3 DEF Visited, n
  <2> QED BY <1>1, <2>1, <2>2
<1> QED BY <1>2, <1>3, <1>4 DEF n

(***************************************************************************)
(* No place is visited twice in one round over the array.                  *)
(***************************************************************************)
LEMMA VisitedOnce ==
    ASSUME TypeOK, currentHost <= Len(hosts),
           NEW j \in 0 .. Len(hosts) - 1, NEW k \in 0 .. Len(hosts) - 1,
           Visited(j) = Visited(k)
    PROVE  j = k
<1> DEFINE n == Len(hosts)
<1>0. hosts \in HostLists /\ currentHost \in Nat
  BY DEF TypeOK
<1>a. n \in Nat \ {0}
  BY <1>0, ListFacts
<1> HIDE DEF n
<1>1. n \in Nat \ {0} /\ Start \in 1 .. n
  BY <1>0, <1>a DEF Start, n
<1>2. ASSUME NEW i \in 0 .. n - 1
      PROVE  Visited(i) = IF Start + i <= n THEN Start + i ELSE Start + i - n
  <2>1. /\ Start - 1 + i \in Nat /\ Start - 1 + i < 2 * n
        /\ Start + i <= n => Start - 1 + i < n
        /\ ~(Start + i <= n) => n <= Start - 1 + i
    BY <1>1
  <2>2. (Start - 1 + i) % n = IF Start + i <= n THEN Start - 1 + i ELSE Start - 1 + i - n
    <3> DEFINE a == Start - 1 + i
    <3>1. a \in Nat
      BY <2>1
    <3>2. (a < n => a % n = a) /\ (n <= a /\ a < 2 * n => a % n = a - n)
      <4> HIDE DEF a
      <4> QED BY Zenon, <1>1, <3>1, Remainders
    <3>3. CASE Start + i <= n
      <4>1. a < n
        BY <2>1, <3>3
      <4>2. a % n = a
        BY <3>2, <4>1
      <4> QED BY <3>3, <4>2
    <3>4. CASE ~(Start + i <= n)
      <4>1. n <= a /\ a < 2 * n
        BY <2>1, <3>4
      <4>2. a % n = a - n
        BY <3>2, <4>1
      <4> QED BY <1>1, <3>4, <4>2
    <3> QED BY <3>3, <3>4
  <2>3. Visited(i) = ((Start - 1 + i) % n) + 1
    BY DEF Visited, n
  <2>4. CASE Start + i <= n
    BY <1>1, <2>2, <2>3, <2>4
  <2>5. CASE ~(Start + i <= n)
    BY <1>1, <2>2, <2>3, <2>5
  <2> QED BY <2>4, <2>5
<1>3. j \in 0 .. n - 1 /\ k \in 0 .. n - 1
  BY DEF n
<1> QED BY <1>1, <1>2, <1>3

(***************************************************************************)
(* The recursive function Best exists: each round makes of the best host   *)
(* before it what FindLeastLoadedHost's loop body makes of it.             *)
(***************************************************************************)
Round(k, before) ==
    IF Better(hosts[Visited(k)], before[2])
    THEN <<Visited(k), Priority[hosts[Visited(k)]]>> ELSE before

(***************************************************************************)
(* What Best is in the first round and in every later one.                 *)
(***************************************************************************)
LEMMA BestRounds ==
    ASSUME TypeOK, currentHost <= Len(hosts)
    PROVE  /\ Best[0] = Round(0, <<0, -1>>)
           /\ \A k \in Nat : Best[k + 1] = Round(k + 1, Best[k])
<1> DEFINE V == (0 .. Len(hosts)) \X Int
           step == [p \in Nat \X V |-> Round(p[1] + 1, p[2])]
<1>1. \A k \in Nat : hosts[Visited(k)] \in Hosts /\ Visited(k) \in 1 .. Len(hosts)
  <2> SUFFICES ASSUME NEW k \in Nat
               PROVE  hosts[Visited(k)] \in Hosts /\ Visited(k) \in 1 .. Len(hosts)
    OBVIOUS
  <2>1. hosts \in Seq(Hosts)
    BY ListFacts DEF TypeOK
  <2>2. Visited(k) \in 1 .. Len(hosts)
    BY Zenon, VisitedPlaces
  <2> QED BY <2>1, <2>2
<1>2. \A k \in Nat : \A b \in V : Round(k, b) \in V
  <2>1. Priority \in [Hosts -> Int]
    BY ConstantsOK DEF HostPoolAssumption
  <2> SUFFICES ASSUME NEW k \in Nat, NEW b \in V PROVE Round(k, b) \in V
    OBVIOUS
  <2>2. Visited(k) \in 1 .. Len(hosts) /\ hosts[Visited(k)] \in Hosts /\ Len(hosts) \in Nat
    BY Zenon, <1>1, ListFacts DEF TypeOK
  <2>3. <<Visited(k), Priority[hosts[Visited(k)]]>> \in V
    BY <2>1, <2>2
  <2> QED BY <2>3 DEF Round
<1>3. <<0, -1>> \in V
  <2>1. 0 \in 0 .. Len(hosts) /\ -1 \in Int
    BY ListFacts DEF TypeOK
  <2> QED BY <2>1, Zenon
<1> HIDE DEF V
<1>4. Round(0, <<0, -1>>) \in V
  BY <1>2, <1>3
<1>5. step \in [Nat \X V -> V]
  BY <1>2
<1>6. \A k \in Nat, b \in V : step[<<k, b>>] = Round(k + 1, b)
  <2> SUFFICES ASSUME NEW k \in Nat, NEW b \in V
               PROVE  step[<<k, b>>] = Round(k + 1, b)
    OBVIOUS
  <2>1. <<k, b>> \in Nat \X V /\ <<k, b>>[1] = k /\ <<k, b>>[2] = b
    OBVIOUS
  <2> QED BY <2>1
<1> DEFINE v == Round(0, <<0, -1>>)
<1> HIDE DEF step, v
<1>7. PICK f : Follows(f, V, v, step)
  <2>1. v \in V
    BY <1>4 DEF v
  <2>2. step \in Steps(V)
    BY <1>5 DEF Steps
  <2> QED BY <2>1, <2>2, Recursion
<1>b. /\ f \in [Nat -> V]
      /\ f[0] = Round(0, <<0, -1>>)
      /\ \A k \in Nat : f[k + 1] = step[<<k, f[k]>>]
  BY <1>7 DEF Follows, v
<1>8. \A k \in Nat : f[k] = Round(k, IF k = 0 THEN <<0, -1>> ELSE f[k - 1])
  <2> SUFFICES ASSUME NEW k \in Nat
               PROVE  f[k] = Round(k, IF k = 0 THEN <<0, -1>> ELSE f[k - 1])
    OBVIOUS
  <2>1. CASE k = 0
    BY <1>b, <2>1
  <2>2. CASE k # 0
    <3>1. k - 1 \in Nat /\ (k - 1) + 1 = k
      BY <2>2
    <3>2. f[(k - 1) + 1] = step[<<k - 1, f[k - 1]>>] /\ f[k - 1] \in V
      BY <1>b, <3>1
    <3>3. step[<<k - 1, f[k - 1]>>] = Round((k - 1) + 1, f[k - 1])
      BY <1>6, <3>1, <3>2
    <3>4. f[k] = Round(k, f[k - 1])
      BY <3>1, <3>2, <3>3
    <3> QED BY <2>2, <3>4
  <2> QED BY <2>1, <2>2
<1>9. f = [k \in Nat |->
             LET before == IF k = 0 THEN <<0, -1>> ELSE f[k - 1]
                 h == hosts[Visited(k)]
             IN  IF Better(h, before[2]) THEN <<Visited(k), Priority[h]>> ELSE before]
  BY <1>b, <1>8 DEF Round
<1>10. Best = [k \in Nat |->
             LET before == IF k = 0 THEN <<0, -1>> ELSE Best[k - 1]
                 h == hosts[Visited(k)]
             IN  IF Better(h, before[2]) THEN <<Visited(k), Priority[h]>> ELSE before]
  BY <1>9, Zenon DEF Best
<1>11. \A k \in Nat : Best[k] = Round(k, IF k = 0 THEN <<0, -1>> ELSE Best[k - 1])
  BY <1>10, Zenon DEF Round
<1>12. \A k \in Nat : k + 1 \in Nat /\ k + 1 # 0 /\ (k + 1) - 1 = k
  OBVIOUS
<1> QED BY <1>11, <1>12

(***************************************************************************)
(* What the search has found after round k: nothing, if no host visited is *)
(* at the minimal level; otherwise the first of the visited hosts with the *)
(* best priority among those at the minimal level.                         *)
(***************************************************************************)
Eligible(k) == loadLevel[hosts[Visited(k)]] <= minLoadLevel
Prio(k) == Priority[hosts[Visited(k)]]
FirstBest(j, k) ==
    /\ Eligible(j)
    /\ Best[k] = <<Visited(j), Prio(j)>>
    /\ \A i \in 0 .. k : Eligible(i) => Prio(j) <= Prio(i)
    /\ \A i \in 0 .. j - 1 : Eligible(i) => Prio(j) < Prio(i)
Found(k) ==
    \/ Best[k] = <<0, -1>> /\ \A i \in 0 .. k : ~Eligible(i)
    \/ \E j \in 0 .. k : FirstBest(j, k)

(***************************************************************************)
(* The search finds that, whatever the number of hosts.                    *)
(***************************************************************************)
LEMMA SearchFinds ==
    ASSUME TypeOK, currentHost <= Len(hosts), ProperHosts
    PROVE  \A k \in Nat : Found(k)
<1>1. \A k \in Nat : Prio(k) \in Int /\ Prio(k) # -1
  <2> SUFFICES ASSUME NEW k \in Nat PROVE Prio(k) \in Int /\ Prio(k) # -1
    OBVIOUS
  <2>1. hosts \in Seq(Hosts) /\ Priority \in [Hosts -> Int]
    BY ListFacts, ConstantsOK DEF TypeOK, HostPoolAssumption
  <2>2. Visited(k) \in 1 .. Len(hosts)
    BY Zenon, VisitedPlaces
  <2>3. hosts[Visited(k)] \in Hosts
    BY <2>1, <2>2
  <2> QED BY <2>1, <2>3 DEF Prio, ProperHosts
<1>2. /\ Best[0] = IF Eligible(0) THEN <<Visited(0), Prio(0)>> ELSE <<0, -1>>
      /\ \A k \in Nat : Best[k + 1] =
           IF Eligible(k + 1) /\ (Best[k][2] = -1 \/ Prio(k + 1) < Best[k][2])
           THEN <<Visited(k + 1), Prio(k + 1)>> ELSE Best[k]
  BY BestRounds DEF Round, Better, Eligible, Prio
<1> DEFINE S == {k \in Nat : Found(k)}
<1>3. 0 \in S
  <2>1. CASE Eligible(0)
    <3>1. FirstBest(0, 0)
      BY <1>1, <1>2, <2>1 DEF FirstBest
    <3> QED BY <3>1 DEF Found
  <2>2. CASE ~Eligible(0)
    BY <1>2, <2>2 DEF Found
  <2> QED BY <2>1, <2>2
<1>4. ASSUME NEW k \in Nat, k \in S PROVE k + 1 \in S
  <2>0. /\ k + 1 \in Nat /\ k + 1 \in 0 .. k + 1
        /\ 0 .. k + 1 = (0 .. k) \cup {k + 1}
        /\ 0 .. (k + 1) - 1 = 0 .. k
    OBVIOUS
  <2>1. CASE Best[k] = <<0, -1>> /\ \A i \in 0 .. k : ~Eligible(i)
    <3>1. CASE Eligible(k + 1)
      <4>1. Best[k + 1] = <<Visited(k + 1), Prio(k + 1)>>
        <5>1. Best[k][2] = -1
          BY <2>1
        <5> QED BY Zenon, <1>2, <3>1, <5>1
      <4>2. \A i \in 0 .. k + 1 : Eligible(i) => Prio(k + 1) <= Prio(i)
        <5> SUFFICES ASSUME NEW i \in 0 .. k + 1, Eligible(i)
                     PROVE  Prio(k + 1) <= Prio(i)
          OBVIOUS
        <5>1. i = k + 1
          BY <2>1
        <5> QED BY <1>1, <2>0, <5>1
      <4>3. \A i \in 0 .. (k + 1) - 1 : Eligible(i) => Prio(k + 1) < Prio(i)
        BY <2>0, <2>1
      <4>4. FirstBest(k + 1, k + 1)
        BY <3>1, <4>1, <4>2, <4>3 DEF FirstBest
      <4> QED BY <2>0, <4>4 DEF Found
    <3>2. CASE ~Eligible(k + 1)
      <4>1. Best[k + 1] = <<0, -1>>
        BY Zenon, <1>2, <2>1, <3>2
      <4> QED BY <2>0, <2>1, <3>2, <4>1 DEF Found
    <3> QED BY <3>1, <3>2
  <2>2. ASSUME NEW j \in 0 .. k, FirstBest(j, k)
        PROVE  Found(k + 1)
    <3>0. Best[k][2] = Prio(j) /\ Prio(j) \in Int /\ Prio(j) # -1 /\ Prio(k + 1) \in Int
      BY <1>1, <2>2 DEF FirstBest
    <3>1. CASE Eligible(k + 1) /\ Prio(k + 1) < Prio(j)
      <4>1. Best[k + 1] = <<Visited(k + 1), Prio(k + 1)>>
        BY Zenon, <1>2, <3>0, <3>1
      <4>2. \A i \in 0 .. k : Eligible(i) => Prio(k + 1) < Prio(i)
        BY <1>1, <2>2, <3>0, <3>1 DEF FirstBest
      <4>3. \A i \in 0 .. k + 1 : Eligible(i) => Prio(k + 1) <= Prio(i)
        BY <1>1, <2>0, <4>2
      <4>4. \A i \in 0 .. (k + 1) - 1 : Eligible(i) => Prio(k + 1) < Prio(i)
        BY <2>0, <4>2
      <4>5. FirstBest(k + 1, k + 1)
        BY <3>1, <4>1, <4>3, <4>4 DEF FirstBest
      <4> QED BY <2>0, <4>5 DEF Found
    <3>2. CASE ~(Eligible(k + 1) /\ Prio(k + 1) < Prio(j))
      <4>1. Best[k + 1] = Best[k]
        BY Zenon, <1>2, <3>0, <3>2
      <4>2. \A i \in 0 .. k + 1 : Eligible(i) => Prio(j) <= Prio(i)
        BY <2>0, <2>2, <3>0, <3>2 DEF FirstBest
      <4>3. FirstBest(j, k + 1)
        BY <2>2, <4>1, <4>2 DEF FirstBest
      <4> QED BY <2>0, <4>3 DEF Found
    <3> QED BY <3>1, <3>2
  <2> QED BY <1>4, <2>0, <2>1, <2>2 DEF Found
<1> HIDE DEF S
<1>5. Nat \subseteq S
  BY <1>3, <1>4, SetInduction
<1> QED BY <1>5 DEF S

(***************************************************************************)
(* FindLeastLoadedHost in a consistent pool: it returns the first host, in *)
(* the order of the rounds, of the best priority among the least loaded    *)
(* ones, and leaves currentHost behind it.                                 *)
(***************************************************************************)
LEMMA SearchReturns ==
    ASSUME TypeOK, PoolConsistent, ProperHosts, FindLeastLoadedHost
    PROVE  \E j \in 0 .. Len(hosts) - 1 :
             /\ picked' = hosts[Visited(j)]
             /\ currentHost' = After(Visited(j))
             /\ Eligible(j)
             /\ \A i \in 0 .. Len(hosts) - 1 : Eligible(i) => Prio(j) <= Prio(i)
             /\ \A i \in 0 .. j - 1 : Eligible(i) => Prio(j) < Prio(i)
<1> DEFINE n == Len(hosts)
<1>1. /\ n \in Nat \ {0} /\ n - 1 \in Nat /\ currentHost \in Nat /\ currentHost <= n
      /\ hosts \in Seq(Hosts)
  BY ListFacts DEF TypeOK, PoolConsistent
<1>2. \E i \in 0 .. n - 1 : Eligible(i)
  <2>1. PICK h \in Names(hosts) : minLoadLevel = loadLevel[h]
    BY DEF PoolConsistent
  <2>2. PICK p \in 1 .. n : h = hosts[p]
    BY <1>1 DEF Names
  <2>3. PICK k \in 0 .. n - 1 : Visited(k) = p
    BY <1>1, VisitedPlaces
  <2>4. minLoadLevel \in Nat
    BY DEF TypeOK
  <2> QED BY <2>1, <2>2, <2>3, <2>4 DEF Eligible
<1>3. Found(n - 1)
  BY <1>1, SearchFinds
<1>4. PICK j \in 0 .. n - 1 : FirstBest(j, n - 1)
  BY <1>2, <1>3 DEF Found
<1>5. Visited(j) \in 1 .. n
  <2>1. j \in Nat
    BY <1>1
  <2> QED BY Zenon, <1>1, <2>1, VisitedPlaces
<1>6. Best[n - 1][1] = Visited(j)
  BY <1>4 DEF FirstBest
<1>7. PICK i \in 0 .. n :
        /\ i = Best[n - 1][1]
        /\ picked' = IF i = 0 THEN NoHost ELSE hosts[i]
        /\ currentHost' = IF i = 0 THEN Start ELSE After(i)
  BY <1>1 DEF FindLeastLoadedHost
<1>8. picked' = hosts[Visited(j)] /\ currentHost' = After(Visited(j))
  BY <1>1, <1>5, <1>6, <1>7
<1> QED BY <1>4, <1>8 DEF FirstBest

(***************************************************************************)
(* PicksGoodHost: a search returns a host with the fewest distillers and,  *)
(* among those, of the best priority, for every list of hosts and every    *)
(* history of registrations and updates that keep the hosts.               *)
(***************************************************************************)
THEOREM GoodHostIsPicked == SameHosts /\ ProperHosts => (Spec => PicksGoodHost)
<1> SUFFICES ASSUME SameHosts, ProperHosts PROVE Spec => PicksGoodHost
  OBVIOUS
<1>1. ASSUME TypeOK, PoolConsistent, FindLeastLoadedHost PROVE GoodHost(picked')
  <2>1. PICK j \in 0 .. Len(hosts) - 1 :
          /\ picked' = hosts[Visited(j)]
          /\ Eligible(j)
          /\ \A i \in 0 .. Len(hosts) - 1 : Eligible(i) => Prio(j) <= Prio(i)
    BY <1>1, SearchReturns
  <2>2. /\ hosts \in Seq(Hosts) /\ Len(hosts) \in Nat \ {0} /\ Names(hosts) \subseteq Hosts
        /\ loadLevel \in [Hosts -> Nat] /\ running \in [Hosts -> Nat] /\ minLoadLevel \in Nat
        /\ Priority \in [Hosts -> Int]
    BY <1>1, ListFacts, ConstantsOK DEF TypeOK, HostPoolAssumption
  <2>3. Visited(j) \in 1 .. Len(hosts)
    <3>1. j \in Nat /\ currentHost <= Len(hosts)
      BY <1>1, <2>2 DEF PoolConsistent
    <3> QED BY Zenon, <1>1, <3>1, VisitedPlaces
  <2>4. picked' \in Names(hosts) /\ picked' \in Hosts
    BY <2>1, <2>2, <2>3 DEF Names
  <2>5. running[picked'] = minLoadLevel
    <3>1. minLoadLevel <= loadLevel[picked'] /\ loadLevel[picked'] = running[picked']
      BY <1>1, <2>4 DEF PoolConsistent
    <3>2. loadLevel[picked'] <= minLoadLevel
      BY <2>1 DEF Eligible
    <3>3. loadLevel[picked'] \in Nat
      BY <2>2, <2>4
    <3> QED BY <2>2, <3>1, <3>2, <3>3
  <2>6. ASSUME NEW g \in Names(hosts)
        PROVE  \/ running[picked'] < running[g]
               \/ running[picked'] = running[g] /\ Priority[picked'] <= Priority[g]
    <3>1. g \in Hosts /\ running[g] = loadLevel[g] /\ minLoadLevel <= running[g]
      BY <1>1, <2>2 DEF PoolConsistent
    <3>2. CASE running[g] = minLoadLevel
      <4>1. PICK p \in 1 .. Len(hosts) : g = hosts[p]
        BY <2>2 DEF Names
      <4>2. PICK i \in 0 .. Len(hosts) - 1 : Visited(i) = p
        BY <1>1, VisitedPlaces DEF PoolConsistent
      <4>3. Eligible(i)
        BY Zenon, <2>2, <3>1, <3>2, <4>1, <4>2 DEF Eligible
      <4>4. Prio(j) <= Prio(i)
        BY <2>1, <4>3
      <4> QED BY <2>1, <2>5, <3>2, <4>1, <4>2, <4>4 DEF Prio
    <3>3. CASE running[g] # minLoadLevel
      BY <2>2, <2>5, <3>1, <3>3
    <3> QED BY <3>2, <3>3
  <2> QED BY <2>4, <2>6 DEF GoodHost
<1>2. TypeOK /\ PoolConsistent /\ [Next]_vars => [FindLeastLoadedHost => GoodHost(picked')]_vars
  BY <1>1
<1> QED BY <1>2, PoolStaysConsistent, PoolTypeCorrect, PTL DEF Spec, PicksGoodHost

(***************************************************************************)
(* The place of the last host found lies just before currentHost, so that  *)
(* the next search visits it last; and PicksAnother itself.                *)
(***************************************************************************)
LastVisited ==
    picked \in Hosts =>
        \E i \in 1 .. Len(hosts) : hosts[i] = picked /\ currentHost = After(i)
AnotherInv == LastVisited /\ PicksAnother

(***************************************************************************)
(* A search that finds the host of the search before it has visited all    *)
(* others, and none of them is as good.                                    *)
(***************************************************************************)
LEMMA AnotherStep ==
    ASSUME SameHosts, ProperHosts, TypeOK, PoolConsistent, AnotherInv, [Next]_vars
    PROVE  AnotherInv'
<1>0. /\ hosts \in HostLists /\ hosts \in Seq(Hosts) /\ Len(hosts) \in Nat \ {0}
      /\ Names(hosts) \subseteq Hosts
      /\ loadLevel \in [Hosts -> Nat] /\ running \in [Hosts -> Nat] /\ minLoadLevel \in Nat
      /\ currentHost <= Len(hosts)
      /\ Priority \in [Hosts -> Int] /\ NoHost \notin Hosts
  BY ListFacts, ConstantsOK DEF TypeOK, PoolConsistent, HostPoolAssumption
<1>a. \A i \in 1 .. Len(hosts) : hosts[i] \in Names(hosts) /\ hosts[i] \in Hosts
  BY <1>0 DEF Names
<1>b. \A x \in Names(hosts) : /\ x \in Hosts /\ running[x] \in Nat
                               /\ loadLevel[x] = running[x] /\ minLoadLevel <= running[x]
  BY <1>0 DEF PoolConsistent
<1>c. \A x \in Names(hosts) : GoodHost(x) => running[x] = minLoadLevel
  <2>1. PICK g \in Names(hosts) : minLoadLevel = running[g]
    BY <1>b DEF PoolConsistent
  <2> QED BY <1>0, <1>b, <2>1 DEF GoodHost
<1>d. \A x \in Names(hosts) : loadLevel[x] <= minLoadLevel <=> running[x] = minLoadLevel
  BY <1>0, <1>b
<1>1. ASSUME NEW h \in Hosts, UpLevel(h) \/ DownLevel(h) PROVE AnotherInv'
  <2>1. UNCHANGED <<hosts, currentHost, picked>> /\ again' = FALSE
    BY <1>1 DEF UpLevel, DownLevel
  <2> QED BY <2>1 DEF AnotherInv, LastVisited, PicksAnother, After
<1>2. CASE FindLeastLoadedHost
  <2>1. PICK j \in 0 .. Len(hosts) - 1 :
          /\ picked' = hosts[Visited(j)]
          /\ currentHost' = After(Visited(j))
          /\ Eligible(j)
          /\ \A i \in 0 .. Len(hosts) - 1 : Eligible(i) => Prio(j) <= Prio(i)
          /\ \A i \in 0 .. j - 1 : Eligible(i) => Prio(j) < Prio(i)
    BY <1>2, SearchReturns
  <2>2. Visited(j) \in 1 .. Len(hosts)
    <3>1. j \in Nat
      BY <1>0
    <3> QED BY Zenon, <1>0, <3>1, VisitedPlaces
  <2>3. hosts' = hosts /\ running' = running /\ again' = (picked' = picked)
    BY <1>2 DEF FindLeastLoadedHost
  <2>4. LastVisited'
    BY <2>1, <2>2, <2>3 DEF LastVisited, After
  <2>5. PicksAnother'
    <3> SUFFICES ASSUME picked' = picked, NEW h \in Names(hosts) \ {picked}, GoodHost(h)
                 PROVE  FALSE
      BY Zenon, <2>3 DEF PicksAnother, GoodHost
    <3>1. picked \in Hosts
      BY <1>0, <2>1, <2>2
    <3>2. PICK p \in 1 .. Len(hosts) : hosts[p] = picked /\ currentHost = After(p)
      BY <3>1 DEF AnotherInv, LastVisited
    <3>3. Visited(Len(hosts) - 1) = p
      BY <1>0, <3>2, VisitedPlaces
    <3>4. PICK q \in 1 .. Len(hosts) : hosts[q] = h
      BY <1>0 DEF Names
    <3>5. PICK i \in 0 .. Len(hosts) - 1 : Visited(i) = q
      BY <1>0, VisitedPlaces
    <3>6. Visited(j) = p
      <4>1. DOMAIN hosts = 1 .. Len(hosts)
        BY <1>0
      <4>2. hosts[Visited(j)] = hosts[p]
        BY Zenon, <2>1, <3>2
      <4> QED BY Zenon, <1>0, <2>2, <4>1, <4>2 DEF ProperHosts
    <3>7. i # Len(hosts) - 1 /\ q # p
      BY <3>2, <3>3, <3>4, <3>5
    <3>8. running[h] = minLoadLevel /\ loadLevel[h] <= minLoadLevel
      BY <1>c, <1>d
    <3>9. Eligible(i) /\ Prio(i) <= Prio(j)
      <4>1. picked \in Names(hosts) /\ running[picked] = minLoadLevel
        BY <1>a, <1>d, <2>1, <2>2 DEF Eligible
      <4>2. Priority[h] <= Priority[picked]
        BY <1>b, <3>8, <4>1 DEF GoodHost
      <4> QED BY <2>1, <3>4, <3>5, <3>8, <4>2 DEF Eligible, Prio
    <3>10. j = Len(hosts) - 1
      BY <1>0, <2>1, <2>2, <3>3, <3>6, VisitedOnce
    <3>11. i \in 0 .. j - 1
      BY <1>0, <3>7, <3>10
    <3>12. Prio(j) \in Int /\ Prio(i) \in Int
      <4>1. hosts[Visited(j)] \in Hosts /\ hosts[Visited(i)] \in Hosts
        BY <1>a, <2>2, <3>5
      <4> QED BY Zenon, <1>0, <4>1 DEF Prio
    <3> QED BY <2>1, <3>9, <3>11, <3>12
  <2> QED BY <2>4, <2>5 DEF AnotherInv
<1>3. ASSUME NEW s \in HostLists, Update(s) PROVE AnotherInv'
  BY <1>0, <1>3 DEF Update, AnotherInv, LastVisited, PicksAnother
<1>4. CASE UNCHANGED vars
  BY <1>4 DEF vars, AnotherInv, LastVisited, PicksAnother, After, GoodHost
<1> QED BY <1>1, <1>2, <1>3, <1>4 DEF Next

(***************************************************************************)
(* PoolIsSound for every number of machines, list and priorities: levels,  *)
(* minimum and search position are right, and launches in a row do not go  *)
(* to one machine while another is as good.                                *)
(***************************************************************************)
THEOREM PoolStaysSound == SameHosts /\ ProperHosts => (Spec => []PoolIsSound)
<1> SUFFICES ASSUME SameHosts, ProperHosts PROVE Spec => []PoolIsSound
  OBVIOUS
<1>1. Init => AnotherInv
  <2>1. NoHost \notin Hosts
    BY ConstantsOK DEF HostPoolAssumption
  <2> QED BY <2>1 DEF Init, AnotherInv, LastVisited, PicksAnother
<1>2. TypeOK /\ PoolConsistent /\ AnotherInv /\ [Next]_vars => AnotherInv'
  BY AnotherStep
<1>3. TypeOK /\ PoolConsistent /\ AnotherInv => PoolIsSound
  BY DEF AnotherInv, PoolIsSound
<1> QED BY <1>1, <1>2, <1>3, PoolStaysConsistent, PoolTypeCorrect, PTL DEF Spec
=============================================================================
