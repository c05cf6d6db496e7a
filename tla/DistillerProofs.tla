-------------------------- MODULE DistillerProofs --------------------------
(***************************************************************************)
(* Proofs about Distiller, for any number of connections, classes of       *)
(* clients, types of distillers and works.                                 *)
(*                                                                         *)
(* WorkConserved, LoadCountsWork and OpenRefsExact are not inductive.  The *)
(* strengthening says what the two threads hand over to each other: which  *)
(* events are queued while the event thread is in select(), that a         *)
(* connection is accepted once and before anything is read from it, that   *)
(* the works of a connection are numbered in the order they were read, and *)
(* that only a marked connection is unreferenced by the consumer, without  *)
(* a lock, so that the count of an open one is only changed by the event   *)
(* thread.                                                                 *)
(***************************************************************************)
EXTENDS Distiller, FiniteSetTheorems, SequenceTheorems, TLAPS

(***************************************************************************)
(* The consumer has a work in its hands or not, and its timer runs only    *)
(* inside DistillerMain.                                                   *)
(***************************************************************************)
ConsumerOK ==
    /\ consumer.w = None <=> consumer.pc \in {"idle", "count"}
    /\ consumer.timer => consumer.pc = "main"
    /\ consumer.pc \in {"unref", "store", "test"} =>
          conn[consumer.w.c] \in {"marked", "freed"}

(***************************************************************************)
(* What may be in the event queue: in select() only what the consumer and  *)
(* SIGTERM post; a connection's accept is queued once, before its reads.   *)
(***************************************************************************)
In(x, s) == \E i \in 1 .. Len(s) : s[i] = x
Distinct(s) == \A i, j \in 1 .. Len(s) :
                  s[i].k \in {"accept", "reply"} /\ s[i] = s[j] => i = j
EventsOK ==
    /\ \A e \in Event : In(e, evq) =>
          /\ inSelect => e.k \in {"reply", "rereg", "quit"}
          /\ e.k = "accept" => conn[e.x] = "new"
          /\ e.k = "select" => conn[e.x] # "new"
    /\ Distinct(evq)

(***************************************************************************)
(* The works of a connection are numbered as they are read.                *)
(***************************************************************************)
Live == {w \in Work : fate[w] # "new"}
WorksOK ==
    /\ \A w \in Work : fate[w] # "new" <=> w.n <= sent[w.c]
    /\ \A c \in Conns : conn[c] = "new" => sent[c] = 0 /\ refs[c] = 0
    /\ IsFiniteSet(Live) /\ Cardinality(Live) <= MaxWork

(***************************************************************************)
(* WorkConserved, without sets of places.                                  *)
(***************************************************************************)
Once(q) == \A k, l \in Classes : \A i \in 1 .. Len(q[k]), j \in 1 .. Len(q[l]) :
              q[k][i] = q[l][j] => k = l /\ i = j
InQueue(w, q) == \E k \in Classes : In(w, q[k])
InEvents(w) == In(Ev("reply", w), evq)
PlacedOK ==
    /\ Once(queue)
    /\ \A w \in Work : InQueue(w, queue) => ~InEvents(w) /\ consumer.w # w
    /\ \A w \in Work : InEvents(w) => consumer.w # w
    /\ \A w \in Work : fate[w] = "taken" <=> InQueue(w, queue) \/ InEvents(w) \/ consumer.w = w

(***************************************************************************)
(* The load and the references of open connections count works.            *)
(***************************************************************************)
Held == {w \in Work : fate[w] \in {"taken", "dropped"}}
OfConn(c) == {w \in Work : w.c = c /\ fate[w] = "taken"}
CountsOK ==
    /\ load = Cardinality(Held)
    /\ \A c \in Conns : conn[c] = "open" => refs[c] = Cardinality(OfConn(c))

Rest == ConsumerOK /\ EventsOK /\ WorksOK /\ PlacedOK /\ CountsOK
IInv == TypeOK /\ (Running => Rest)
-----------------------------------------------------------------------------
(***************************************************************************)
(* The elements of a sequence whose head was taken off, followed by        *)
(* another sequence.                                                       *)
(***************************************************************************)
LEMMA TailThen ==
    ASSUME NEW E, NEW s \in Seq(E), s # << >>, NEW t \in Seq(E)
    PROVE  /\ Tail(s) \o t \in Seq(E)
           /\ Len(s) \in Nat /\ Len(s) >= 1 /\ Len(t) \in Nat
           /\ Len(Tail(s) \o t) = (Len(s) - 1) + Len(t)
           /\ s[1] = Head(s) /\ Head(s) \in E
           /\ \A i \in 1 .. Len(s) - 1 : (Tail(s) \o t)[i] = s[i + 1]
           /\ \A i \in 1 .. Len(t) : (Tail(s) \o t)[(Len(s) - 1) + i] = t[i]
<1>1. /\ Tail(s) \in Seq(E) /\ Len(Tail(s)) = Len(s) - 1 /\ Head(s) \in E
      /\ \A i \in 1 .. Len(Tail(s)) : Tail(s)[i] = s[i + 1]
  BY HeadTailProperties
<1>2. Len(s) \in Nat /\ Len(s) >= 1 /\ Len(t) \in Nat /\ s[1] = Head(s)
  OBVIOUS
<1> DEFINE u == Tail(s)
<1>3. u \in Seq(E) /\ Len(u) = Len(s) - 1
  BY <1>1
<1> HIDE DEF u
<1>4. /\ u \o t \in Seq(E) /\ Len(u \o t) = Len(u) + Len(t)
      /\ \A i \in 1 .. Len(u) + Len(t) :
            (u \o t)[i] = IF i <= Len(u) THEN u[i] ELSE t[i - Len(u)]
  BY Zenon, <1>3, ConcatProperties
<1>5. \A i \in 1 .. Len(s) - 1 : (u \o t)[i] = u[i]
  BY <1>2, <1>3, <1>4
<1>6. \A i \in 1 .. Len(t) : (u \o t)[(Len(s) - 1) + i] = t[i]
  <2> SUFFICES ASSUME NEW i \in 1 .. Len(t)
               PROVE  (u \o t)[(Len(s) - 1) + i] = t[i]
    BY Zenon
  <2>1. /\ Len(u) + i \in 1 .. Len(u) + Len(t) /\ ~(Len(u) + i <= Len(u))
        /\ (Len(u) + i) - Len(u) = i
    BY <1>2, <1>3
  <2> QED BY <1>3, <1>4, <2>1
<1> QED BY <1>1, <1>2, <1>3, <1>4, <1>5, <1>6 DEF u

(***************************************************************************)
(* What a handler that posts evQuit or nothing leaves in the event queue.  *)
(***************************************************************************)
LEMMA HandledFacts ==
    ASSUME TypeOK, evq # << >>, NEW posted \in {<< >>, Quit},
           evq' = Tail(evq) \o posted
    PROVE  /\ evq' \in Seq(Event)
           /\ Len(evq) \in Nat /\ Len(evq) >= 1 /\ Len(evq') \in Nat
           /\ evq[1] = Head(evq) /\ Head(evq) \in Event
           /\ \A i \in 1 .. Len(evq') :
                 \/ i + 1 \in 1 .. Len(evq) /\ evq'[i] = evq[i + 1]
                 \/ evq'[i] = Ev("quit", None)
           /\ \A i \in 2 .. Len(evq) : i - 1 \in 1 .. Len(evq') /\ evq'[i - 1] = evq[i]
<1>1. evq \in Seq(Event) /\ Ev("quit", None) \in Event
  BY DEF TypeOK, Event, Ev
<1>2. /\ posted \in Seq(Event) /\ Len(posted) \in {0, 1}
      /\ \A i \in 1 .. Len(posted) : posted[i] = Ev("quit", None)
  <2>1. CASE posted = << >>
    BY <2>1
  <2>2. CASE posted = Quit
    <3>1. posted = <<Ev("quit", None)>>
      BY <2>2 DEF Quit
    <3> QED BY <1>1, <3>1
  <2> QED BY <2>1, <2>2
<1> DEFINE n == Len(evq)
<1>3. /\ evq' \in Seq(Event) /\ n \in Nat /\ n >= 1
      /\ Len(evq') = (n - 1) + Len(posted)
      /\ evq[1] = Head(evq) /\ Head(evq) \in Event
      /\ \A i \in 1 .. n - 1 : evq'[i] = evq[i + 1]
      /\ \A i \in 1 .. Len(posted) : evq'[(n - 1) + i] = posted[i]
  BY <1>1, <1>2, TailThen
<1> HIDE DEF n
<1>4. ASSUME NEW i \in 1 .. Len(evq')
      PROVE  \/ i + 1 \in 1 .. n /\ evq'[i] = evq[i + 1]
             \/ evq'[i] = Ev("quit", None)
  <2>1. CASE i <= n - 1
    BY <1>2, <1>3, <2>1
  <2>2. CASE ~(i <= n - 1)
    <3>1. i \in Nat /\ i > n - 1 /\ i <= (n - 1) + Len(posted)
      BY <1>2, <1>3, <2>2
    <3>2. Len(posted) = 1
      BY <1>2, <1>3, <3>1
    <3>3. i = (n - 1) + 1
      BY <1>3, <3>1, <3>2
    <3> QED BY <1>2, <1>3, <3>2, <3>3
  <2> QED BY <2>1, <2>2
<1>5. ASSUME NEW i \in 2 .. n
      PROVE  i - 1 \in 1 .. Len(evq') /\ evq'[i - 1] = evq[i]
  <2>1. i - 1 \in 1 .. n - 1 /\ i - 1 \in 1 .. Len(evq') /\ (i - 1) + 1 = i
    BY <1>2, <1>3
  <2> QED BY <1>3, <2>1
<1>6. Len(evq') \in Nat
  BY <1>2, <1>3
<1> QED BY <1>3, <1>4, <1>5, <1>6 DEF n

(***************************************************************************)
(* Of the events that matter for connections and works a handler removes   *)
(* the one it handles and no other.                                        *)
(***************************************************************************)
LEMMA EventsLeft ==
    ASSUME TypeOK, Distinct(evq), evq # << >>, NEW posted \in {<< >>, Quit},
           evq' = Tail(evq) \o posted
    PROVE  /\ evq' \in Seq(Event) /\ Head(evq) \in Event
           /\ Head(evq) = evq[1] /\ 1 \in 1 .. Len(evq)
           /\ Distinct(evq')
           /\ \A w \in Work : InEvents(w)' <=> InEvents(w) /\ Head(evq) # Ev("reply", w)
           /\ \A e \in Event : In(e, evq') /\ e.k \in {"accept", "select"} =>
                 In(e, evq) /\ (e.k = "accept" => e # Head(evq))
<1>1. /\ evq' \in Seq(Event)
      /\ Len(evq) \in Nat /\ Len(evq) >= 1 /\ Len(evq') \in Nat
      /\ evq[1] = Head(evq) /\ Head(evq) \in Event
      /\ \A i \in 1 .. Len(evq') :
            \/ i + 1 \in 1 .. Len(evq) /\ evq'[i] = evq[i + 1]
            \/ evq'[i] = Ev("quit", None)
      /\ \A i \in 2 .. Len(evq) : i - 1 \in 1 .. Len(evq') /\ evq'[i - 1] = evq[i]
  BY Zenon, HandledFacts
<1>2. Ev("quit", None).k = "quit" /\ \A w \in Work : Ev("reply", w).k = "reply"
  BY DEF Ev
<1>3. ASSUME NEW i \in 1 .. Len(evq'), evq'[i].k # "quit"
      PROVE  i + 1 \in 1 .. Len(evq) /\ evq'[i] = evq[i + 1]
  BY <1>1, <1>2, <1>3
<1>4. 1 \in 1 .. Len(evq)
  BY <1>1
<1>5. Distinct(evq')
  <2> SUFFICES ASSUME NEW i \in 1 .. Len(evq'), NEW j \in 1 .. Len(evq'),
                      evq'[i].k \in {"accept", "reply"}, evq'[i] = evq'[j]
               PROVE  i = j
    BY Zenon DEF Distinct
  <2>1. /\ i + 1 \in 1 .. Len(evq) /\ evq'[i] = evq[i + 1]
        /\ j + 1 \in 1 .. Len(evq) /\ evq'[j] = evq[j + 1]
    BY <1>3
  <2>2. i + 1 = j + 1
    BY <2>1 DEF Distinct
  <2> QED BY <1>1, <2>2
<1>6. ASSUME NEW i \in 1 .. Len(evq'), evq'[i].k \in {"accept", "reply"}
      PROVE  evq'[i] # Head(evq)
  <2>1. i + 1 \in 1 .. Len(evq) /\ evq'[i] = evq[i + 1] /\ i + 1 # 1
    BY <1>1, <1>3, <1>6
  <2> QED BY <1>1, <1>4, <1>6, <2>1 DEF Distinct
<1>7. ASSUME NEW w \in Work
      PROVE  InEvents(w)' <=> InEvents(w) /\ Head(evq) # Ev("reply", w)
  <2>1. ASSUME NEW i \in 1 .. Len(evq'), evq'[i] = Ev("reply", w)
        PROVE  InEvents(w) /\ Head(evq) # Ev("reply", w)
    BY Zenon, <1>2, <1>3, <1>6, <2>1 DEF InEvents, In
  <2>2. ASSUME NEW i \in 1 .. Len(evq), evq[i] = Ev("reply", w), Head(evq) # Ev("reply", w)
        PROVE  \E j \in 1 .. Len(evq') : evq'[j] = Ev("reply", w)
    <3>1. i \in 2 .. Len(evq)
      BY <1>1, <2>2
    <3> QED BY Zenon, <1>1, <2>2, <3>1
  <2> QED BY Zenon, <2>1, <2>2 DEF InEvents, In
<1>8. ASSUME NEW e \in Event, In(e, evq'), e.k \in {"accept", "select"}
      PROVE  In(e, evq) /\ (e.k = "accept" => e # Head(evq))
  BY Zenon, <1>3, <1>6, <1>8 DEF In
<1> QED BY <1>1, <1>4, <1>5, <1>7, <1>8

(***************************************************************************)
(* A handler that touches neither connections nor works, of an event that  *)
(* is no reply, preserves what IInv says of a running process.             *)
(***************************************************************************)
LEMMA QuietStep ==
    ASSUME TypeOK, Rest, ~inSelect, evq # << >>, Head(evq).k # "reply",
           NEW posted \in {<< >>, Quit}, Handled(posted),
           consumer' \in {consumer, StatsDeleted},
           UNCHANGED <<conn, sent, refs, queue, load, fate>>
    PROVE  Rest'
<1>0. evq' = Tail(evq) \o posted /\ inSelect' = inSelect
  BY Zenon DEF Handled
<1>1. EventsOK
  BY DEF Rest
<1>2. /\ evq' \in Seq(Event) /\ Head(evq) \in Event
      /\ Distinct(evq')
      /\ \A w \in Work : InEvents(w)' <=> InEvents(w) /\ Head(evq) # Ev("reply", w)
      /\ \A e \in Event : In(e, evq') /\ e.k \in {"accept", "select"} =>
            In(e, evq) /\ (e.k = "accept" => e # Head(evq))
  <2>1. Distinct(evq)
    BY <1>1 DEF EventsOK
  <2> QED BY <1>0, <2>1, EventsLeft, Zenon
<1>3. \A w \in Work : InEvents(w)' <=> InEvents(w)
  <2>1. \A w \in Work : Head(evq) # Ev("reply", w)
    BY DEF Ev
  <2> QED BY <1>2, <2>1, Zenon
<1>4. consumer'.pc = consumer.pc /\ consumer'.w = consumer.w /\ consumer'.timer = consumer.timer
  BY DEF StatsDeleted, TypeOK
<1>5. ConsumerOK'
  <2>1. ConsumerOK
    BY DEF Rest
  <2> QED BY <1>4, <2>1 DEF ConsumerOK
<1>6. EventsOK'
  <2>1. ~inSelect'
    BY <1>0
  <2> QED BY <1>1, <1>2, <2>1 DEF EventsOK
<1>7. PlacedOK'
  <2>1. PlacedOK
    BY DEF Rest
  <2> QED BY <1>3, <1>4, <2>1 DEF PlacedOK
<1>8. WorksOK'
  <2>1. WorksOK
    BY DEF Rest
  <2> QED BY <2>1 DEF WorksOK, Live
<1>9. CountsOK'
  <2>1. CountsOK
    BY DEF Rest
  <2> QED BY <2>1 DEF CountsOK, Held, OfConn
<1> QED BY <1>5, <1>6, <1>7, <1>8, <1>9 DEF Rest

(***************************************************************************)
(* There is a number left for the next work of a connection.               *)
(***************************************************************************)
LEMMA NumberLeft ==
    ASSUME TypeOK, WorksOK, MoreWork, NEW c \in Conns
    PROVE  sent[c] \in Nat /\ sent[c] + 1 \in 1 .. MaxWork
<1>1. sent[c] \in 0 .. MaxWork /\ MaxWork \in Nat
  BY DistillerConstants DEF TypeOK
<1>2. Cardinality(Live) < MaxWork /\ IsFiniteSet(Live)
  BY DEF MoreWork, Live, WorksOK
<1>3. SUFFICES ASSUME sent[c] = MaxWork PROVE FALSE
  BY <1>1
<1> DEFINE f == [i \in 1 .. MaxWork |-> [c |-> c, n |-> i]]
<1>4. \A i \in 1 .. MaxWork : [c |-> c, n |-> i] \in Live
  <2> SUFFICES ASSUME NEW i \in 1 .. MaxWork PROVE [c |-> c, n |-> i] \in Live
    OBVIOUS
  <2>1. [c |-> c, n |-> i] \in Work /\ i <= sent[c]
    BY <1>1, <1>3 DEF Work
  <2> QED BY <2>1 DEF Live, WorksOK
<1>5. f \in Injection(1 .. MaxWork, Live)
  <2>1. f \in [1 .. MaxWork -> Live]
    BY <1>4
  <2>2. \A i, j \in 1 .. MaxWork : [c |-> c, n |-> i] = [c |-> c, n |-> j] => i = j
    OBVIOUS
  <2>3. \A i, j \in 1 .. MaxWork : f[i] = f[j] => i = j
    BY <2>2
  <2> HIDE DEF f
  <2> QED BY <2>1, <2>3 DEF Injection, IsInjective
<1>6. Cardinality(1 .. MaxWork) <= Cardinality(Live)
  BY <1>2, <1>5, FS_Injection
<1>7. Cardinality(1 .. MaxWork) = MaxWork
  BY <1>1, FS_Interval
<1>8. Cardinality(Live) \in Nat
  BY <1>2, FS_CardinalityType
<1> QED BY <1>1, <1>2, <1>6, <1>7, <1>8

(***************************************************************************)
(* Events added at the end of the queue.                                   *)
(***************************************************************************)
LEMMA EventsAdded ==
    ASSUME NEW s \in Seq(Event), NEW t \in Seq(Event), Distinct(s), Distinct(t),
           \A i \in 1 .. Len(s) : s[i].k \in {"accept", "reply"} => ~In(s[i], t)
    PROVE  /\ s \o t \in Seq(Event) /\ Distinct(s \o t)
           /\ \A x : In(x, s \o t) <=> In(x, s) \/ In(x, t)
<1> DEFINE r == s \o t
           m == Len(s)
           n == Len(t)
<1>1. m \in Nat /\ n \in Nat
  OBVIOUS
<1>2. /\ r \in Seq(Event) /\ Len(r) = m + n
      /\ \A i \in 1 .. m + n : r[i] = IF i <= m THEN s[i] ELSE t[i - m]
  BY ConcatProperties
<1> HIDE DEF r
<1>3. ASSUME NEW i \in 1 .. Len(r)
      PROVE  \/ i \in 1 .. m /\ r[i] = s[i]
             \/ i > m /\ i - m \in 1 .. n /\ r[i] = t[i - m]
  BY <1>1, <1>2
<1>4. \A i \in 1 .. m : i \in 1 .. Len(r) /\ r[i] = s[i]
  BY <1>1, <1>2
<1>5. ASSUME NEW i \in 1 .. n
      PROVE  m + i \in 1 .. Len(r) /\ r[m + i] = t[i]
  <2>1. m + i \in 1 .. m + n /\ ~(m + i <= m) /\ (m + i) - m = i
    BY <1>1
  <2> QED BY <1>2, <2>1
<1>6. Distinct(r)
  <2> SUFFICES ASSUME NEW i \in 1 .. Len(r), NEW j \in 1 .. Len(r),
                      r[i].k \in {"accept", "reply"}, r[i] = r[j]
               PROVE  i = j
    BY DEF Distinct
  <2>1. CASE i \in 1 .. m /\ r[i] = s[i]
    <3>1. CASE j \in 1 .. m /\ r[j] = s[j]
      BY Zenon, <2>1, <3>1 DEF Distinct
    <3>2. CASE j > m /\ j - m \in 1 .. n /\ r[j] = t[j - m]
      BY Zenon, <2>1, <3>2 DEF In
    <3> QED BY <1>3, <3>1, <3>2
  <2>2. CASE i > m /\ i - m \in 1 .. n /\ r[i] = t[i - m]
    <3>1. CASE j \in 1 .. m /\ r[j] = s[j]
      BY Zenon, <2>2, <3>1 DEF In
    <3>2. CASE j > m /\ j - m \in 1 .. n /\ r[j] = t[j - m]
      <4>1. i - m = j - m
        BY Zenon, <2>2, <3>2 DEF Distinct
      <4> QED BY <1>1, <1>2, <4>1
    <3> QED BY <1>3, <3>1, <3>2
  <2> QED BY <1>3, <2>1, <2>2
<1>7. ASSUME NEW x PROVE In(x, r) <=> In(x, s) \/ In(x, t)
  <2>1. In(x, r) => In(x, s) \/ In(x, t)
    BY Zenon, <1>3 DEF In
  <2>2. In(x, s) => In(x, r)
    BY <1>4 DEF In
  <2>3. In(x, t) => In(x, r)
    BY <1>5 DEF In
  <2> QED BY <2>1, <2>2, <2>3
<1> QED BY <1>2, <1>6, <1>7 DEF r

(***************************************************************************)
(* A work added to the list of a class.                                    *)
(***************************************************************************)
LEMMA QueueAdded ==
    ASSUME NEW q \in [Classes -> Seq(Work)], NEW k \in Classes, NEW w \in Work,
           Once(q), ~InQueue(w, q)
    PROVE  LET r == [q EXCEPT ![k] = Append(@, w)] IN
           /\ r \in [Classes -> Seq(Work)] /\ Once(r)
           /\ \A x : InQueue(x, r) <=> InQueue(x, q) \/ x = w
<1> DEFINE r == [q EXCEPT ![k] = Append(@, w)]
           m == Len(q[k])
<1>1. /\ r \in [Classes -> Seq(Work)] /\ m \in Nat
      /\ \A l \in Classes : l # k => r[l] = q[l]
      /\ r[k] = Append(q[k], w)
  OBVIOUS
<1>2. /\ Len(r[k]) = m + 1 /\ r[k][m + 1] = w
      /\ \A i \in 1 .. m : r[k][i] = q[k][i]
  BY <1>1
<1> HIDE DEF r
<1>3. ASSUME NEW l \in Classes, NEW i \in 1 .. Len(r[l])
      PROVE  \/ i \in 1 .. Len(q[l]) /\ r[l][i] = q[l][i]
             \/ l = k /\ i = m + 1 /\ r[l][i] = w
  <2>1. CASE l = k
    <3>1. i \in 1 .. m \/ i = m + 1
      BY <1>1, <1>2, <2>1
    <3> QED BY <1>2, <2>1, <3>1
  <2>2. CASE l # k
    BY <1>1, <2>2
  <2> QED BY <2>1, <2>2
<1>4. ASSUME NEW l \in Classes, NEW i \in 1 .. Len(q[l])
      PROVE  i \in 1 .. Len(r[l]) /\ r[l][i] = q[l][i]
  <2>1. CASE l = k
    <3>1. i \in 1 .. m + 1
      BY <1>1, <2>1
    <3> QED BY <1>2, <2>1, <3>1
  <2>2. CASE l # k
    BY <1>1, <2>2
  <2> QED BY <2>1, <2>2
<1>5. \A l \in Classes : \A i \in 1 .. Len(q[l]) : q[l][i] # w
  BY DEF InQueue, In
<1>6. Once(r)
  <2> SUFFICES ASSUME NEW a \in Classes, NEW b \in Classes,
                      NEW i \in 1 .. Len(r[a]), NEW j \in 1 .. Len(r[b]),
                      r[a][i] = r[b][j]
               PROVE  a = b /\ i = j
    BY DEF Once
  <2>1. CASE i \in 1 .. Len(q[a]) /\ r[a][i] = q[a][i]
    <3>1. j \in 1 .. Len(q[b]) /\ r[b][j] = q[b][j]
      BY Zenon, <1>3, <1>5, <2>1
    <3>2. q[a][i] = q[b][j] /\ i \in 1 .. Len(q[a])
      BY Zenon, <2>1, <3>1
    <3> QED BY <3>1, <3>2 DEF Once
  <2>2. CASE a = k /\ i = m + 1 /\ r[a][i] = w
    BY Zenon, <1>3, <1>5, <2>2
  <2> QED BY <1>3, <2>1, <2>2
<1>7. ASSUME NEW x PROVE InQueue(x, r) <=> InQueue(x, q) \/ x = w
  <2>1. InQueue(x, r) => InQueue(x, q) \/ x = w
    BY Zenon, <1>3 DEF InQueue, In
  <2>2. InQueue(x, q) => InQueue(x, r)
    BY <1>4 DEF InQueue, In
  <2>3. m + 1 \in 1 .. Len(r[k])
    BY <1>1, <1>2
  <2>4. x = w => InQueue(x, r)
    BY <1>2, <2>3 DEF InQueue, In
  <2> QED BY <2>1, <2>2, <2>4
<1> QED BY Zenon, <1>1, <1>6, <1>7 DEF r

(***************************************************************************)
(* The first work of a class taken off its list.                           *)
(***************************************************************************)
LEMMA QueueTaken ==
    ASSUME NEW q \in [Classes -> Seq(Work)], NEW k \in Classes, q[k] # << >>,
           Once(q)
    PROVE  LET r == [q EXCEPT ![k] = Tail(@)] IN
           /\ r \in [Classes -> Seq(Work)] /\ Once(r)
           /\ Head(q[k]) \in Work /\ InQueue(Head(q[k]), q)
           /\ \A x : InQueue(x, r) <=> InQueue(x, q) /\ x # Head(q[k])
<1> DEFINE r == [q EXCEPT ![k] = Tail(@)]
           m == Len(q[k])
           w == Head(q[k])
<1>1. /\ r \in [Classes -> Seq(Work)] /\ m \in Nat /\ m >= 1
      /\ w \in Work /\ q[k][1] = w
      /\ \A l \in Classes : l # k => r[l] = q[l]
      /\ r[k] = Tail(q[k])
  OBVIOUS
<1>2. Len(r[k]) = m - 1 /\ \A i \in 1 .. m - 1 : r[k][i] = q[k][i + 1]
  BY <1>1
<1> HIDE DEF r, w
<1>3. ASSUME NEW l \in Classes, NEW i \in 1 .. Len(r[l])
      PROVE  LET j == IF l = k THEN i + 1 ELSE i
             IN  j \in 1 .. Len(q[l]) /\ r[l][i] = q[l][j] /\ ~(l = k /\ j = 1)
  <2>1. CASE l = k
    <3>1. i \in 1 .. m - 1
      BY <1>2, <2>1
    <3>2. i + 1 \in 1 .. m /\ i + 1 # 1
      BY <1>1, <3>1
    <3> QED BY <1>2, <2>1, <3>1, <3>2
  <2>2. CASE l # k
    BY <1>1, <2>2
  <2> QED BY <2>1, <2>2
<1>4. ASSUME NEW l \in Classes, NEW i \in 1 .. Len(q[l]), ~(l = k /\ i = 1)
      PROVE  LET j == IF l = k THEN i - 1 ELSE i
             IN  j \in 1 .. Len(r[l]) /\ r[l][j] = q[l][i]
  <2>1. CASE l = k
    <3>1. i - 1 \in 1 .. m - 1 /\ (i - 1) + 1 = i
      BY <1>1, <1>4, <2>1
    <3> QED BY <1>2, <2>1, <3>1
  <2> QED BY <1>1, <2>1
<1>5. 1 \in 1 .. m
  BY <1>1
<1>6. Once(r)
  <2> SUFFICES ASSUME NEW a \in Classes, NEW b \in Classes,
                      NEW i \in 1 .. Len(r[a]), NEW j \in 1 .. Len(r[b]),
                      r[a][i] = r[b][j]
               PROVE  a = b /\ i = j
    BY DEF Once
  <2> DEFINE c == IF a = k THEN i + 1 ELSE i
             d == IF b = k THEN j + 1 ELSE j
  <2>1. c \in 1 .. Len(q[a]) /\ d \in 1 .. Len(q[b]) /\ q[a][c] = q[b][d]
    BY Zenon, <1>3
  <2>2. a = b /\ c = d
    BY <2>1 DEF Once
  <2>3. i \in Nat /\ j \in Nat
    BY <1>1
  <2> QED BY <2>2, <2>3
<1>7. InQueue(w, q)
  BY <1>1, <1>5 DEF InQueue, In
<1>8. ASSUME NEW x PROVE InQueue(x, r) <=> InQueue(x, q) /\ x # w
  <2>1. ASSUME NEW l \in Classes, NEW i \in 1 .. Len(r[l]), r[l][i] = x
        PROVE  InQueue(x, q) /\ x # w
    <3> DEFINE j == IF l = k THEN i + 1 ELSE i
    <3>1. j \in 1 .. Len(q[l]) /\ q[l][j] = x /\ ~(l = k /\ j = 1)
      BY <1>3, <2>1
    <3>2. InQueue(x, q)
      BY <3>1 DEF InQueue, In
    <3>3. x # w
      BY <1>1, <1>5, <3>1 DEF Once
    <3> QED BY <3>2, <3>3
  <2>2. ASSUME NEW l \in Classes, NEW i \in 1 .. Len(q[l]), q[l][i] = x, x # w
        PROVE  InQueue(x, r)
    <3> DEFINE j == IF l = k THEN i - 1 ELSE i
    <3>1. j \in 1 .. Len(r[l]) /\ r[l][j] = x
      BY <1>1, <1>4, <2>2
    <3> QED BY <3>1 DEF InQueue, In
  <2> QED BY <2>1, <2>2 DEF InQueue, In
<1> QED BY Zenon, <1>1, <1>6, <1>7, <1>8 DEF r, w

-----------------------------------------------------------------------------
(***************************************************************************)
(* One lemma for every step that touches connections, works or the         *)
(* consumer.  The event thread enters select() with nothing queued.        *)
(***************************************************************************)
LEMMA EnterSelectStep ==
    ASSUME TypeOK, Rest, EnterSelect
    PROVE  TypeOK' /\ Rest'
<1> USE DEF EnterSelect, procVars, ptmVars, connVars
<1>1. TypeOK'
  BY DEF TypeOK
<1>2. Len(evq') = 0
  OBVIOUS
<1>3. EventsOK'
  BY <1>2 DEF EventsOK, In, Distinct
<1>4. ConsumerOK' /\ WorksOK' /\ PlacedOK' /\ CountsOK'
  BY DEF Rest, ConsumerOK, WorksOK, PlacedOK, CountsOK, Live, Held, OfConn, InEvents
<1> QED BY <1>1, <1>3, <1>4 DEF Rest

(***************************************************************************)
(* The types of the variables that have to do neither with works nor with  *)
(* the queue of events.                                                    *)
(***************************************************************************)
ControlTypes ==
    /\ proc \in {"run", "ended", "aborted"}
    /\ fault \in {"none", "connection", "ptmConnection", "timer", "stats"}
    /\ sleepStatus \in {"wake", "sleep", "kill"}
    /\ stats \in BOOLEAN /\ listener \in BOOLEAN /\ workReceived \in BOOLEAN
    /\ type \in Types /\ ptmType \in Types \cup {None}
    /\ ptm \in {"none", "up", "gone"}

(***************************************************************************)
(* A step that leaves connections and works alone keeps the types if it    *)
(* keeps those of the rest.                                                *)
(***************************************************************************)
LEMMA TypesKept ==
    ASSUME TypeOK, UNCHANGED <<conn, sent, refs, queue, load, fate>>,
           ControlTypes', peer' \in [Conns -> BOOLEAN],
           evq' \in Seq(Event), inSelect' \in BOOLEAN,
           consumer' \in [pc : {"idle", "main", "count", "unref", "store", "test"},
                         w : Work \cup {None}, n : Int, timer : BOOLEAN,
                         stats : {"none", "live", "stale"}]
    PROVE  TypeOK'
BY DEF TypeOK, ControlTypes

(***************************************************************************)
(* The types after a step, variable by variable.                           *)
(***************************************************************************)
LEMMA TypesFollow ==
    ASSUME ControlTypes', conn' \in [Conns -> {"new", "open", "marked", "freed"}],
           peer' \in [Conns -> BOOLEAN], sent' \in [Conns -> 0 .. MaxWork],
           refs' \in [Conns -> Int], queue' \in [Classes -> Seq(Work)],
           load' \in 0 .. MaxWork, evq' \in Seq(Event), inSelect' \in BOOLEAN,
           fate' \in [Work -> {"new", "taken", "answered", "unsent", "dropped"}],
           consumer' \in [pc : {"idle", "main", "count", "unref", "store", "test"},
                         w : Work \cup {None}, n : Int, timer : BOOLEAN,
                         stats : {"none", "live", "stale"}]
    PROVE  TypeOK'
BY DEF TypeOK, ControlTypes

(***************************************************************************)
(* Those types are kept by a step that changes none of the variables.      *)
(***************************************************************************)
LEMMA ControlKept ==
    ASSUME TypeOK, UNCHANGED <<proc, fault, sleepStatus, stats, listener, workReceived,
                               type, ptmType, ptm>>
    PROVE  ControlTypes'
BY DEF TypeOK, ControlTypes

(***************************************************************************)
(* select() reports connections to accept and to read, or a timer.  What   *)
(* was queued meanwhile are no accepts, so that none is there twice.       *)
(***************************************************************************)
LEMMA LeaveSelectStep ==
    ASSUME TypeOK, Rest, LeaveSelect
    PROVE  TypeOK' /\ Rest'
<1> USE DEF procVars, ptmVars, connVars
<1>1. ~inSelect' /\ inSelect /\ evq \in Seq(Event)
  BY Zenon DEF LeaveSelect, TypeOK
<1>2. /\ consumer' = consumer \/ consumer' = [consumer EXCEPT !.timer = FALSE]
      /\ consumer' \in [pc : {"idle", "main", "count", "unref", "store", "test"},
                        w : Work \cup {None}, n : Int, timer : BOOLEAN,
                        stats : {"none", "live", "stale"}]
  BY Zenon DEF LeaveSelect, TypeOK
<1>3. EventsOK /\ ConsumerOK
  BY DEF Rest
<1>4. PICK t \in Seq(Event) :
         /\ evq' = evq \o t /\ Distinct(t)
         /\ \A e \in Event : In(e, t) =>
               /\ e.k # "reply"
               /\ e.k = "accept" => conn[e.x] = "new"
               /\ e.k = "select" => conn[e.x] # "new"
  <2>1. CASE \E batch \in Batches : evq' = evq \o batch /\ UNCHANGED consumer
    <3>1. PICK n \in 1 .. MaxBatch : \E s \in [1 .. n -> Ready] :
             evq' = evq \o s /\ \A i, j \in 1 .. n : i # j => s[i] # s[j]
      BY Zenon, <2>1 DEF Batches
    <3>2. PICK s \in [1 .. n -> Ready] :
             evq' = evq \o s /\ \A i, j \in 1 .. n : i # j => s[i] # s[j]
      BY <3>1
    <3>3. n \in Nat
      BY DistillerConstants
    <3>4. \A e \in Ready : /\ e \in Event /\ e.k # "reply"
                           /\ e.k = "accept" => conn[e.x] = "new"
                           /\ e.k = "select" => conn[e.x] # "new"
      BY DEF Ready, Event, Ev
    <3>5. s \in Seq(Ready) /\ Len(s) = n
      BY <3>2, <3>3
    <3>6. s \in Seq(Event)
      BY <3>4, <3>5, SeqMonotonic
    <3>7. Distinct(s)
      BY <3>2, <3>5 DEF Distinct
    <3>8. \A e : In(e, s) => e \in Ready
      BY <3>5 DEF In
    <3> QED BY <3>2, <3>4, <3>6, <3>7, <3>8
  <2>2. CASE \E t \in Due : evq' = Append(evq, t)
    <3>1. PICK t \in Due : evq' = Append(evq, t)
      BY <2>2
    <3>2. t \in Event /\ t.k \in {"noload", "stuck"}
      <4>1. consumer.timer => consumer.w \in Work
        BY <1>3 DEF ConsumerOK, TypeOK
      <4> QED BY <4>1 DEF Due, Event, Ev
    <3>3. <<t>> \in Seq(Event) /\ evq' = evq \o <<t>> /\ Len(<<t>>) = 1 /\ <<t>>[1] = t
      BY <1>1, <3>1, <3>2
    <3>4. Distinct(<<t>>)
      BY <3>2, <3>3 DEF Distinct
    <3>5. \A e : In(e, <<t>>) => e = t
      BY <3>3 DEF In
    <3> QED BY Zenon, <3>2, <3>3, <3>4, <3>5
  <2>3. CASE UNCHANGED evq
    <3>1. << >> \in Seq(Event) /\ evq' = evq \o << >> /\ Len(<< >>) = 0
      BY <1>1, <2>3, ConcatEmptySeq
    <3>2. Distinct(<< >>) /\ \A e : ~In(e, << >>)
      BY <3>1 DEF Distinct, In
    <3> QED BY Zenon, <3>1, <3>2
  <2>4. \/ \E batch \in Batches : evq' = evq \o batch /\ UNCHANGED consumer
        \/ \E t \in Due : evq' = Append(evq, t)
        \/ UNCHANGED evq
    BY Zenon DEF LeaveSelect
  <2> QED BY Zenon, <2>1, <2>2, <2>3, <2>4
<1>5. /\ evq' \in Seq(Event) /\ Distinct(evq')
      /\ \A e : In(e, evq') <=> In(e, evq) \/ In(e, t)
  <2>1. Distinct(evq)
    BY <1>3 DEF EventsOK
  <2>2. \A i \in 1 .. Len(evq) : evq[i] \in Event /\ In(evq[i], evq)
    BY <1>1 DEF In
  <2>3. \A i \in 1 .. Len(evq) : evq[i].k \in {"accept", "reply"} => ~In(evq[i], t)
    BY Zenon, <1>1, <1>3, <1>4, <2>2 DEF EventsOK
  <2> QED BY <1>1, <1>4, <2>1, <2>3, EventsAdded
<1>6. TypeOK'
  <2>1. UNCHANGED <<procVars, sleepStatus, stats, type, ptmVars, connVars, queue, load,
                    workReceived, fate>> /\ inSelect' = FALSE
    BY DEF LeaveSelect
  <2>2. ControlTypes'
    BY <2>1, ControlKept DEF procVars, ptmVars
  <2>3. UNCHANGED <<conn, sent, refs, queue, load, fate>> /\ peer' \in [Conns -> BOOLEAN]
    BY <2>1 DEF TypeOK, connVars
  <2>4. inSelect' \in BOOLEAN
    BY Zenon, <2>1
  <2> QED BY <1>2, <1>5, <2>2, <2>3, <2>4, TypesKept
<1>7. UNCHANGED <<conn, sent, refs, queue, load, fate>>
  BY DEF LeaveSelect
<1>8. EventsOK'
  BY <1>1, <1>3, <1>4, <1>5, <1>7 DEF EventsOK
<1>9. ConsumerOK'
  BY <1>2, <1>3, <1>7 DEF ConsumerOK, TypeOK
<1>10. \A w \in Work : InEvents(w)' <=> InEvents(w)
  <2>1. \A w \in Work : Ev("reply", w) \in Event /\ Ev("reply", w).k = "reply"
    BY DEF Ev, Event
  <2> QED BY <1>4, <1>5, <2>1 DEF InEvents
<1>11. consumer'.w = consumer.w
  BY <1>2 DEF TypeOK
<1>12. PlacedOK'
  BY <1>7, <1>10, <1>11 DEF Rest, PlacedOK
<1>13. WorksOK' /\ CountsOK'
  BY <1>7 DEF Rest, WorksOK, CountsOK, Live, Held, OfConn
<1> QED BY <1>6, <1>8, <1>9, <1>12, <1>13 DEF Rest

(***************************************************************************)
(* What a handler starts from and leaves behind in the queue of events.    *)
(***************************************************************************)
HandledOne(kind) ==
    /\ evq' \in Seq(Event) /\ Distinct(evq')
    /\ Head(evq) \in Event /\ Head(evq).k = kind /\ Arg = Head(evq).x
    /\ In(Head(evq), evq) /\ ~inSelect /\ ~inSelect' /\ inSelect' \in BOOLEAN
    /\ \A w \in Work : InEvents(w)' <=> InEvents(w) /\ Head(evq) # Ev("reply", w)
    /\ \A e \in Event : In(e, evq') /\ e.k \in {"accept", "select"} =>
          In(e, evq) /\ (e.k = "accept" => e # Head(evq))
    /\ kind # "reply" => \A w \in Work : InEvents(w)' <=> InEvents(w)

\* Every handler that takes the head of the queue and posts at most evQuit
\* leaves the queue like that.
LEMMA HandlingFacts ==
    ASSUME TypeOK, Rest, NEW kind, Handling(kind), NEW posted \in {<< >>, Quit},
           Handled(posted)
    PROVE  HandledOne(kind)
<1>1. ~inSelect /\ evq # << >> /\ Head(evq).k = kind
  BY Zenon DEF Handling
<1>2. evq' = Tail(evq) \o posted /\ inSelect' = inSelect
  BY Zenon DEF Handled
<1>3. Distinct(evq)
  BY DEF Rest, EventsOK
<1>4. /\ evq' \in Seq(Event) /\ Head(evq) \in Event
      /\ Head(evq) = evq[1] /\ 1 \in 1 .. Len(evq)
      /\ Distinct(evq')
      /\ \A w \in Work : InEvents(w)' <=> InEvents(w) /\ Head(evq) # Ev("reply", w)
      /\ \A e \in Event : In(e, evq') /\ e.k \in {"accept", "select"} =>
            In(e, evq) /\ (e.k = "accept" => e # Head(evq))
  BY Zenon, <1>1, <1>2, <1>3, EventsLeft
<1>5. In(Head(evq), evq)
  BY <1>4 DEF In
<1>6. kind # "reply" => \A w \in Work : Head(evq) # Ev("reply", w)
  BY <1>1 DEF Ev
<1>7. kind # "reply" => \A w \in Work : InEvents(w)' <=> InEvents(w)
  BY <1>4, <1>6, Zenon
<1>8. Arg = Head(evq).x /\ ~inSelect' /\ inSelect' \in BOOLEAN
  BY <1>1, <1>2, Zenon DEF Arg, TypeOK
<1> QED BY <1>1, <1>4, <1>5, <1>7, <1>8 DEF HandledOne

(***************************************************************************)
(* A connection is accepted: nothing was read from it yet, so its count of *)
(* references is right.                                                    *)
(***************************************************************************)
LEMMA ConnectionReceivedStep ==
    ASSUME TypeOK, Rest, EvConnectionReceived
    PROVE  TypeOK' /\ Rest'
<1> USE DEF procVars, ptmVars, connVars
<1> DEFINE c == Arg
<1>1. Handling("accept") /\ Handled(<< >>)
  BY DEF EvConnectionReceived
<1>a. HandledOne("accept")
  BY <1>1, HandlingFacts
<1>2. /\ evq' \in Seq(Event) /\ Distinct(evq') /\ ~inSelect' /\ inSelect' \in BOOLEAN
      /\ Head(evq) \in Event /\ Head(evq).k = "accept" /\ Arg = Head(evq).x
      /\ In(Head(evq), evq) /\ \A w \in Work : InEvents(w)' <=> InEvents(w)
  BY <1>a DEF HandledOne
<1>3. c \in Conns /\ conn[c] = "new"
  BY <1>2 DEF Rest, EventsOK, Event
<1>4. /\ conn' = [conn EXCEPT ![c] = "open"]
      /\ UNCHANGED <<sent, refs, queue, load, fate, consumer>>
  BY DEF EvConnectionReceived
<1> HIDE DEF c
<1>5. TypeOK'
  <2>1. conn' \in [Conns -> {"new", "open", "marked", "freed"}]
    BY Zenon, <1>4 DEF TypeOK
  <2> QED BY <1>2, <2>1 DEF TypeOK, EvConnectionReceived
<1>6. ConsumerOK'
  <2>1. consumer.w # None => consumer.w \in Work /\ consumer.w.c \in Conns
    BY DEF TypeOK, Work
  <2> QED BY <1>3, <1>4, <2>1 DEF Rest, ConsumerOK, TypeOK
<1>7. EventsOK'
  <2> SUFFICES ASSUME NEW e \in Event, In(e, evq'), e.k \in {"accept", "select"}
               PROVE  /\ e.k = "accept" => conn'[e.x] = "new"
                      /\ e.k = "select" => conn'[e.x] # "new"
    BY <1>2 DEF EventsOK
  <2>1. In(e, evq) /\ e.x \in Conns /\ (e.k = "accept" => e # Head(evq))
    BY <1>a DEF Event, HandledOne
  <2>2. e.k = "accept" => e.x # c
    BY <1>2, <2>1 DEF Event, c
  <2>3. /\ e.k = "accept" => conn[e.x] = "new"
        /\ e.k = "select" => conn[e.x] # "new"
    BY <2>1 DEF Rest, EventsOK
  <2> QED BY <1>3, <1>4, <2>1, <2>2, <2>3 DEF TypeOK
<1>8. PlacedOK'
  BY <1>2, <1>4 DEF Rest, PlacedOK
<1>9. WorksOK'
  BY <1>3, <1>4 DEF Rest, WorksOK, Live, TypeOK
<1>10. CountsOK'
  <2>1. OfConn(c) = {}
    <3> SUFFICES ASSUME NEW w \in Work, w.c = c PROVE fate[w] = "new"
      BY DEF OfConn
    <3>1. sent[c] = 0 /\ w.n \in Nat \ {0}
      BY <1>3, DistillerConstants DEF Rest, WorksOK, Work
    <3> QED BY <3>1 DEF Rest, WorksOK
  <2>2. refs[c] = Cardinality(OfConn(c))
    BY <1>3, <2>1, FS_EmptySet DEF Rest, WorksOK
  <2>3. Held' = Held /\ \A d \in Conns : OfConn(d)' = OfConn(d)
    BY <1>4 DEF Held, OfConn
  <2>4. \A d \in Conns : d # c => conn'[d] = conn[d]
    BY <1>4 DEF TypeOK
  <2> QED BY <1>4, <2>2, <2>3, <2>4 DEF Rest, CountsOK
<1> QED BY <1>5, <1>6, <1>7, <1>8, <1>9, <1>10 DEF Rest

(***************************************************************************)
(* A handler that accepts no connection keeps EventsOK.                    *)
(***************************************************************************)
LEMMA EventsKept ==
    ASSUME TypeOK, Rest, NEW kind, HandledOne(kind),
           \A c \in Conns : conn'[c] = "new" <=> conn[c] = "new"
    PROVE  EventsOK'
<1>1. ~inSelect' /\ Distinct(evq')
  BY DEF HandledOne
<1> SUFFICES ASSUME NEW e \in Event, In(e, evq'), e.k \in {"accept", "select"}
             PROVE  /\ e.k = "accept" => conn'[e.x] = "new"
                    /\ e.k = "select" => conn'[e.x] # "new"
  BY <1>1 DEF EventsOK
<1>2. In(e, evq) /\ e.x \in Conns
  BY DEF Event, HandledOne
<1> QED BY <1>2 DEF Rest, EventsOK

(***************************************************************************)
(* A work is read from a connection: it is new, and it is added to the     *)
(* list of its class, the load and the references.                         *)
(***************************************************************************)
LEMMA WorkReceivedStep ==
    ASSUME TypeOK, Rest, WorkReceived
    PROVE  TypeOK' /\ Rest'
<1> USE DEF procVars, ptmVars, connVars
<1> DEFINE c == Arg
           w == [c |-> c, n |-> sent[c] + 1]
<1>0. /\ Handling("select") /\ Handled(<< >>) /\ MoreWork
      /\ UNCHANGED <<procVars, sleepStatus, stats, type, ptmVars, conn, peer, consumer>>
      /\ sent' = [sent EXCEPT ![c] = @ + 1] /\ refs' = [refs EXCEPT ![c] = @ + 1]
      /\ load' = load + 1 /\ workReceived' = TRUE
  BY Zenon DEF WorkReceived, NewWork, AddReference
<1>1. HandledOne("select")
  BY <1>0, HandlingFacts
<1>2. c \in Conns /\ conn[c] # "new"
  BY <1>1 DEF HandledOne, Rest, EventsOK, Event
<1>3. sent[c] \in Nat /\ sent[c] + 1 \in 1 .. MaxWork
  BY <1>0, <1>2, NumberLeft DEF Rest
<1>4. sent'[c] = sent[c] + 1
  BY <1>0, <1>2 DEF TypeOK
<1>5. PICK k \in Classes : queue' = [queue EXCEPT ![k] = Append(@, w)]
  BY <1>4, Zenon DEF WorkReceived
<1>6. fate' = [fate EXCEPT ![w] = "taken"]
  BY <1>4, Zenon DEF WorkReceived
<1>7. w \in Work /\ w.c = c /\ w.n = sent[c] + 1
  BY <1>2, <1>3 DEF Work
<1> HIDE DEF c, w
<1>8. fate[w] = "new"
  BY <1>3, <1>7 DEF Rest, WorksOK
<1>9. ~InQueue(w, queue) /\ ~InEvents(w) /\ consumer.w # w /\ Once(queue)
  BY <1>7, <1>8 DEF Rest, PlacedOK
<1>10. queue' \in [Classes -> Seq(Work)] /\ Once(queue')
       /\ \A x : InQueue(x, queue') <=> InQueue(x, queue) \/ x = w
  <2>1. queue \in [Classes -> Seq(Work)]
    BY DEF TypeOK
  <2> QED BY Zenon, <1>5, <1>7, <1>9, <2>1, QueueAdded
<1>11. Live' = Live \cup {w} /\ Held' = Held \cup {w} /\ w \notin Live /\ w \notin Held
  BY <1>6, <1>7, <1>8 DEF Live, Held, TypeOK
<1>12. /\ IsFiniteSet(Live) /\ Cardinality(Live) \in Nat /\ Cardinality(Live) < MaxWork
       /\ IsFiniteSet(Held) /\ Cardinality(Held) <= Cardinality(Live)
       /\ Cardinality(Held) \in Nat
  <2>1. IsFiniteSet(Live) /\ Cardinality(Live) < MaxWork /\ Held \subseteq Live
    BY <1>0 DEF Rest, WorksOK, MoreWork, Live, Held
  <2> QED BY <2>1, FS_Subset, FS_CardinalityType
<1>13. /\ IsFiniteSet(Live') /\ Cardinality(Live') = Cardinality(Live) + 1
       /\ Cardinality(Held') = Cardinality(Held) + 1
  BY Zenon, <1>11, <1>12, FS_AddElement
<1>14. load = Cardinality(Held) /\ load' \in 0 .. MaxWork /\ load' = Cardinality(Held')
  <2>1. load = Cardinality(Held)
    BY DEF Rest, CountsOK
  <2>2. load' = load + 1 /\ MaxWork \in Nat
    BY <1>0, DistillerConstants
  <2> QED BY <1>12, <1>13, <2>1, <2>2
<1>15. TypeOK'
  <2>1. /\ sent' \in [Conns -> 0 .. MaxWork] /\ refs' \in [Conns -> Int]
        /\ fate' \in [Work -> {"new", "taken", "answered", "unsent", "dropped"}]
    <3>1. /\ sent \in [Conns -> 0 .. MaxWork] /\ refs \in [Conns -> Int]
          /\ fate \in [Work -> {"new", "taken", "answered", "unsent", "dropped"}]
      BY DEF TypeOK
    <3>2. sent[c] + 1 \in 0 .. MaxWork
      BY <1>3
    <3>3. sent' \in [Conns -> 0 .. MaxWork]
      BY <1>0, <1>2, <3>1, <3>2
    <3>4. refs' \in [Conns -> Int]
      BY <1>0, <1>2, <3>1
    <3> QED BY Zenon, <1>6, <3>1, <3>3, <3>4
  <2>2. evq' \in Seq(Event) /\ inSelect' \in BOOLEAN
    BY <1>1 DEF HandledOne
  <2>3. ControlTypes'
    BY <1>0 DEF TypeOK, ControlTypes
  <2>4. /\ conn' \in [Conns -> {"new", "open", "marked", "freed"}]
        /\ peer' \in [Conns -> BOOLEAN]
        /\ consumer' \in [pc : {"idle", "main", "count", "unref", "store", "test"},
                          w : Work \cup {None}, n : Int, timer : BOOLEAN,
                          stats : {"none", "live", "stale"}]
    BY <1>0 DEF TypeOK
  <2>5. queue' \in [Classes -> Seq(Work)]
    BY <1>10
  <2> QED BY <1>14, <2>1, <2>2, <2>3, <2>4, <2>5, TypesFollow
<1>16. ConsumerOK'
  BY <1>0 DEF Rest, ConsumerOK
<1>17. EventsOK'
  BY <1>0, <1>1, EventsKept
<1>18. PlacedOK'
  <2>1. \A x \in Work : InEvents(x)' <=> InEvents(x)
    BY <1>1 DEF HandledOne
  <2>2. ASSUME NEW x \in Work, x # w PROVE fate'[x] = fate[x]
    BY <1>6, <2>2 DEF TypeOK
  <2>3. fate'[w] = "taken"
    BY <1>6, <1>7 DEF TypeOK
  <2>4. consumer' = consumer
    BY <1>0
  <2> QED BY <1>9, <1>10, <2>1, <2>2, <2>3, <2>4 DEF Rest, PlacedOK
<1>19. WorksOK'
  <2>1. ASSUME NEW x \in Work PROVE fate'[x] # "new" <=> x.n <= sent'[x.c]
    <3>0. x.c \in Conns /\ x.n \in Nat
      BY DistillerConstants DEF Work
    <3>1. CASE x = w
      BY <1>3, <1>4, <1>6, <1>7, <3>1 DEF TypeOK
    <3>2. CASE x # w /\ x.c = c
      <4>1. x.n # sent[c] + 1
        BY <1>7, <3>2 DEF Work
      <4>2. fate'[x] = fate[x] /\ (fate[x] # "new" <=> x.n <= sent[c])
        BY <1>6, <3>2 DEF TypeOK, Rest, WorksOK
      <4> QED BY <1>3, <1>4, <3>0, <3>2, <4>1, <4>2
    <3>3. CASE x # w /\ x.c # c
      <4>1. fate'[x] = fate[x] /\ sent'[x.c] = sent[x.c]
        BY <1>0, <1>6, <3>0, <3>3 DEF TypeOK
      <4> QED BY <4>1 DEF Rest, WorksOK
    <3> QED BY <3>1, <3>2, <3>3
  <2>2. \A d \in Conns : conn'[d] = "new" => sent'[d] = 0 /\ refs'[d] = 0
    BY <1>0, <1>2 DEF Rest, WorksOK, TypeOK
  <2>3. IsFiniteSet(Live') /\ Cardinality(Live') <= MaxWork
    BY <1>12, <1>13, DistillerConstants
  <2> QED BY <2>1, <2>2, <2>3 DEF WorksOK
<1>20. CountsOK'
  <2>1. ASSUME NEW d \in Conns, conn[d] = "open"
        PROVE  refs'[d] = Cardinality(OfConn(d)')
    <3>1. refs[d] = Cardinality(OfConn(d))
      BY <2>1 DEF Rest, CountsOK
    <3>2. CASE d = c
      <4>1. OfConn(d)' = OfConn(d) \cup {w} /\ w \notin OfConn(d)
        BY <1>6, <1>7, <1>8, <3>2 DEF OfConn, TypeOK
      <4>2. IsFiniteSet(OfConn(d))
        BY <1>12, FS_Subset DEF OfConn, Live
      <4>3. Cardinality(OfConn(d)') = Cardinality(OfConn(d)) + 1
        BY <4>1, <4>2, FS_AddElement
      <4> QED BY <1>0, <3>1, <3>2, <4>3 DEF TypeOK
    <3>3. CASE d # c
      <4>1. OfConn(d)' = OfConn(d)
        BY <1>6, <1>7, <3>3 DEF OfConn, TypeOK
      <4> QED BY <1>0, <3>1, <3>3, <4>1 DEF TypeOK
    <3> QED BY <3>2, <3>3
  <2>2. conn' = conn
    BY <1>0
  <2> QED BY <1>14, <2>1, <2>2 DEF CountsOK
<1> QED BY <1>15, <1>16, <1>17, <1>18, <1>19, <1>20 DEF Rest

(***************************************************************************)
(* A connection is marked, and deleted when nothing refers to it.  Its     *)
(* references need not be exact any longer.                                *)
(***************************************************************************)
LEMMA ConnectionBrokenStep ==
    ASSUME TypeOK, Rest, EvConnectionBroken
    PROVE  TypeOK' /\ Rest'
<1> USE DEF procVars, ptmVars, connVars
<1> DEFINE c == Arg
<1>0. /\ Handling("select") /\ Handled(<< >>)
      /\ conn' = [conn EXCEPT ![c] = Marked(c)]
      /\ UNCHANGED <<procVars, sleepStatus, stats, type, ptmVars, peer, sent, refs,
                     queue, load, workReceived, consumer, fate>>
  BY Zenon DEF EvConnectionBroken
<1>1. HandledOne("select")
  BY <1>0, HandlingFacts
<1>2. c \in Conns /\ conn[c] # "new" /\ Marked(c) \in {"marked", "freed"}
  BY <1>1 DEF HandledOne, Rest, EventsOK, Event, Marked
<1> HIDE DEF c
<1>3. /\ conn' \in [Conns -> {"new", "open", "marked", "freed"}]
      /\ conn'[c] \in {"marked", "freed"}
      /\ \A d \in Conns : d # c => conn'[d] = conn[d]
  BY <1>0, <1>2 DEF TypeOK
<1>4. TypeOK'
  <2>1. evq' \in Seq(Event) /\ inSelect' \in BOOLEAN
    BY <1>1 DEF HandledOne
  <2> QED BY <1>0, <1>3, <2>1 DEF TypeOK
<1>5. ConsumerOK'
  <2>1. consumer.w # None => consumer.w \in Work /\ consumer.w.c \in Conns
    BY DEF TypeOK, Work
  <2> QED BY <1>0, <1>3, <2>1 DEF Rest, ConsumerOK
<1>6. EventsOK'
  BY <1>1, <1>2, <1>3, EventsKept
<1>7. PlacedOK'
  <2>1. \A x \in Work : InEvents(x)' <=> InEvents(x)
    BY <1>1 DEF HandledOne
  <2>2. UNCHANGED <<queue, fate, consumer>>
    BY <1>0
  <2> QED BY <2>1, <2>2 DEF Rest, PlacedOK
<1>8. WorksOK'
  BY <1>0, <1>3 DEF Rest, WorksOK, Live
<1>9. CountsOK'
  BY <1>0, <1>3 DEF Rest, CountsOK, Held, OfConn
<1> QED BY <1>4, <1>5, <1>6, <1>7, <1>8, <1>9 DEF Rest

(***************************************************************************)
(* A reply is sent or thrown away: its work leaves the queue of events,    *)
(* the load and the references.                                            *)
(***************************************************************************)
LEMMA DistillerReplyStep ==
    ASSUME TypeOK, Rest, DistillerReply
    PROVE  TypeOK' /\ (fault' = "none" => Rest')
<1> USE DEF procVars, ptmVars, connVars
<1> DEFINE w == Arg
           c == w.c
<1>0. /\ Handling("reply")
      /\ UNCHANGED <<proc, sleepStatus, stats, type, ptmVars, peer, sent, queue,
                     workReceived, consumer>>
  BY Zenon DEF DistillerReply
<1>1. CASE fault' = "connection" /\ UNCHANGED <<conn, refs, load, fate>> /\ Handled(<< >>)
  <2>1. evq' \in Seq(Event) /\ inSelect' \in BOOLEAN
    BY <1>0, <1>1, HandlingFacts DEF HandledOne
  <2>2. ControlTypes'
    BY <1>0, <1>1 DEF TypeOK, ControlTypes
  <2>3. /\ peer' \in [Conns -> BOOLEAN]
        /\ consumer' \in [pc : {"idle", "main", "count", "unref", "store", "test"},
                          w : Work \cup {None}, n : Int, timer : BOOLEAN,
                          stats : {"none", "live", "stale"}]
    BY <1>0 DEF TypeOK
  <2>4. UNCHANGED <<conn, sent, refs, queue, load, fate>>
    BY <1>0, <1>1
  <2>5. TypeOK'
    BY <2>1, <2>2, <2>3, <2>4, TypesKept
  <2> QED BY <1>1, <2>5
<1>2. CASE /\ conn[c] # "freed" /\ UNCHANGED fault
           /\ load' = load - 1 /\ refs' = [refs EXCEPT ![c] = @ - 1]
           /\ Handled(DoneWhenKilled(load'))
           /\ \E st \in {"open", "marked"}, f \in {"answered", "unsent"} :
                 /\ conn[c] \in {"open", "marked"} /\ (st = "open" => conn[c] = "open")
                 /\ conn' = [conn EXCEPT ![c] = Unreferenced(st, refs[c] - 1)]
                 /\ fate' = [fate EXCEPT ![w] = f]
  <2>1. PICK st \in {"open", "marked"}, f \in {"answered", "unsent"} :
           /\ conn[c] \in {"open", "marked"} /\ (st = "open" => conn[c] = "open")
           /\ conn' = [conn EXCEPT ![c] = Unreferenced(st, refs[c] - 1)]
           /\ fate' = [fate EXCEPT ![w] = f]
    BY Zenon, <1>2
  <2>2. HandledOne("reply")
    <3>1. DoneWhenKilled(load') \in {<< >>, Quit}
      BY DEF DoneWhenKilled
    <3> QED BY <1>0, <1>2, <3>1, HandlingFacts
  <2>3. w \in Work /\ Head(evq) = Ev("reply", w) /\ InEvents(w)
    <3>1. w \in Work /\ Head(evq) = Ev("reply", w)
      BY <2>2 DEF HandledOne, Event, Ev
    <3> QED BY <2>2, <3>1 DEF HandledOne, InEvents
  <2>4. c \in Conns /\ fate[w] = "taken"
    BY <2>3 DEF Work, Rest, PlacedOK
  <2>5. \A x \in Work : InEvents(x)' <=> InEvents(x) /\ x # w
    <3>1. \A x \in Work : Head(evq) # Ev("reply", x) <=> x # w
      BY <2>3 DEF Ev
    <3> QED BY <2>2, <3>1 DEF HandledOne
  <2> HIDE DEF w, c
  <2>6. /\ conn' \in [Conns -> {"new", "open", "marked", "freed"}]
        /\ \A d \in Conns : d # c => conn'[d] = conn[d]
        /\ conn[c] # "new" /\ conn'[c] # "new"
        /\ conn'[c] = "open" => conn[c] = "open"
        /\ conn[c] = "marked" => conn'[c] \in {"marked", "freed"}
    BY <2>1, <2>4 DEF TypeOK, Unreferenced
  <2>7. /\ fate' \in [Work -> {"new", "taken", "answered", "unsent", "dropped"}]
        /\ fate'[w] \in {"answered", "unsent"}
        /\ \A x \in Work : x # w => fate'[x] = fate[x]
    BY <2>1, <2>3 DEF TypeOK
  <2>8. refs' \in [Conns -> Int] /\ refs'[c] = refs[c] - 1
        /\ \A d \in Conns : d # c => refs'[d] = refs[d]
    <3>1. refs \in [Conns -> Int]
      BY DEF TypeOK
    <3> QED BY <1>2, <2>4, <3>1
  <2>9. Live' = Live /\ Held' = Held \ {w} /\ w \in Held
    BY <2>3, <2>4, <2>7 DEF Live, Held
  <2>10. IsFiniteSet(Live) /\ IsFiniteSet(Held) /\ Cardinality(Held) \in Nat
    <3>1. IsFiniteSet(Live) /\ Held \subseteq Live
      BY DEF Rest, WorksOK, Live, Held
    <3> QED BY <3>1, FS_Subset, FS_CardinalityType
  <2>11. Cardinality(Held') = Cardinality(Held) - 1 /\ Cardinality(Held') \in Nat
    BY <2>9, <2>10, FS_RemoveElement, FS_CardinalityType
  <2>12. load' = Cardinality(Held') /\ load' \in 0 .. MaxWork
    <3>1. load = Cardinality(Held) /\ load \in 0 .. MaxWork /\ MaxWork \in Nat
      BY DistillerConstants DEF Rest, CountsOK, TypeOK
    <3> QED BY <1>2, <2>11, <3>1
  <2>13. TypeOK'
    <3>1. evq' \in Seq(Event) /\ inSelect' \in BOOLEAN
      BY <2>2 DEF HandledOne
    <3>2. ControlTypes'
      BY <1>0, <1>2, ControlKept
    <3>3. /\ sent' \in [Conns -> 0 .. MaxWork] /\ queue' \in [Classes -> Seq(Work)]
          /\ peer' \in [Conns -> BOOLEAN]
          /\ consumer' \in [pc : {"idle", "main", "count", "unref", "store", "test"},
                            w : Work \cup {None}, n : Int, timer : BOOLEAN,
                            stats : {"none", "live", "stale"}]
      BY <1>0 DEF TypeOK
    <3> QED BY <2>6, <2>7, <2>8, <2>12, <3>1, <3>2, <3>3, TypesFollow
  <2>14. ConsumerOK'
    <3>1. consumer.w # None => consumer.w \in Work /\ consumer.w.c \in Conns
      BY DEF TypeOK, Work
    <3>2. consumer' = consumer
      BY <1>0
    <3>3. conn[c] # "freed"
      BY <1>2 DEF c
    <3> QED BY <2>6, <3>1, <3>2, <3>3 DEF Rest, ConsumerOK, TypeOK
  <2>15. EventsOK'
    BY <2>2, <2>4, <2>6, EventsKept
  <2>16. PlacedOK'
    <3>1. consumer' = consumer /\ queue' = queue
      BY <1>0
    <3> QED BY <2>3, <2>5, <2>7, <3>1 DEF Rest, PlacedOK
  <2>17. WorksOK'
    <3>1. sent' = sent
      BY <1>0
    <3>2. \A x \in Work : fate'[x] # "new" <=> fate[x] # "new"
      BY <2>4, <2>7
    <3> QED BY <2>4, <2>6, <2>8, <2>9, <3>1, <3>2 DEF Rest, WorksOK
  <2>18. CountsOK'
    <3>1. ASSUME NEW d \in Conns, conn'[d] = "open"
          PROVE  refs'[d] = Cardinality(OfConn(d)')
      <4>1. conn[d] = "open" /\ refs[d] = Cardinality(OfConn(d))
        BY <2>6, <3>1 DEF Rest, CountsOK
      <4>2. CASE d = c
        <5>1. OfConn(d)' = OfConn(d) \ {w} /\ w \in OfConn(d)
          BY <2>3, <2>4, <2>7, <4>2 DEF OfConn, c
        <5>2. IsFiniteSet(OfConn(d))
          BY <2>10, FS_Subset DEF OfConn, Live
        <5>3. Cardinality(OfConn(d)') = Cardinality(OfConn(d)) - 1
          BY Zenon, <5>1, <5>2, FS_RemoveElement
        <5> QED BY <2>8, <4>1, <4>2, <5>3
      <4>3. CASE d # c
        <5>1. OfConn(d)' = OfConn(d)
          BY <2>3, <2>7, <4>3 DEF OfConn, c
        <5> QED BY <2>8, <4>1, <4>3, <5>1
      <4> QED BY <4>2, <4>3
    <3> QED BY <2>12, <3>1 DEF CountsOK
  <2> QED BY <2>13, <2>14, <2>15, <2>16, <2>17, <2>18 DEF Rest
<1>3. \/ fault' = "connection" /\ UNCHANGED <<conn, refs, load, fate>> /\ Handled(<< >>)
      \/ /\ conn[c] # "freed" /\ UNCHANGED fault
         /\ load' = load - 1 /\ refs' = [refs EXCEPT ![c] = @ - 1]
         /\ Handled(DoneWhenKilled(load'))
         /\ \E st \in {"open", "marked"}, f \in {"answered", "unsent"} :
               /\ conn[c] \in {"open", "marked"} /\ (st = "open" => conn[c] = "open")
               /\ conn' = [conn EXCEPT ![c] = Unreferenced(st, refs[c] - 1)]
               /\ fate' = [fate EXCEPT ![w] = f]
  BY DEF DistillerReply, WorkDone
<1> QED BY <1>1, <1>2, <1>3

(***************************************************************************)
(* The consumer takes a work from the queue into its hands.                *)
(***************************************************************************)
LEMMA ConsumerTakeStep ==
    ASSUME TypeOK, Rest, ConsumerTake
    PROVE  TypeOK' /\ (fault' = "none" => Rest')
<1> USE DEF procVars, ptmVars, connVars
<1>0. /\ consumer.pc = "idle"
      /\ UNCHANGED <<proc, sleepStatus, stats, type, ptmVars, connVars, load,
                     workReceived, evq, inSelect, fate>>
  BY Zenon DEF ConsumerTake
<1>1. PICK k \in Classes :
         /\ queue[k] # << >> /\ queue' = [queue EXCEPT ![k] = Tail(@)]
         /\ LET w == Head(queue[k]) IN
            CASE conn[w.c] = "freed" -> fault' = "connection" /\ UNCHANGED consumer
              [] conn[w.c] = "marked" ->
                   /\ consumer' = [Idle EXCEPT !.pc = "unref", !.w = w]
                   /\ UNCHANGED fault
              [] OTHER ->
                   /\ consumer' = [Idle EXCEPT !.pc = "main", !.w = w, !.timer = TRUE]
                   /\ UNCHANGED fault
  BY Zenon DEF ConsumerTake, Drawable, Removed
<1> DEFINE w == Head(queue[k])
<1>2. queue' \in [Classes -> Seq(Work)] /\ Once(queue')
      /\ w \in Work /\ InQueue(w, queue)
      /\ \A x : InQueue(x, queue') <=> InQueue(x, queue) /\ x # w
  <2>1. queue \in [Classes -> Seq(Work)] /\ Once(queue)
    BY DEF TypeOK, Rest, PlacedOK
  <2> QED BY Zenon, <1>1, <2>1, QueueTaken
<1>3. \/ fault' = "connection" /\ UNCHANGED consumer
      \/ /\ consumer' = [Idle EXCEPT !.pc = "unref", !.w = w]
         /\ UNCHANGED fault /\ conn[w.c] = "marked"
      \/ /\ consumer' = [Idle EXCEPT !.pc = "main", !.w = w, !.timer = TRUE]
         /\ UNCHANGED fault
  BY <1>1
<1> HIDE DEF w
<1>4. CASE fault' = "connection" /\ UNCHANGED consumer
  <2>1. ControlTypes'
    BY <1>0, <1>4 DEF TypeOK, ControlTypes
  <2>2. /\ conn' \in [Conns -> {"new", "open", "marked", "freed"}]
        /\ peer' \in [Conns -> BOOLEAN] /\ sent' \in [Conns -> 0 .. MaxWork]
        /\ refs' \in [Conns -> Int] /\ load' \in 0 .. MaxWork
        /\ evq' \in Seq(Event) /\ inSelect' \in BOOLEAN
        /\ fate' \in [Work -> {"new", "taken", "answered", "unsent", "dropped"}]
    BY <1>0 DEF TypeOK
  <2>3. consumer' \in [pc : {"idle", "main", "count", "unref", "store", "test"},
                       w : Work \cup {None}, n : Int, timer : BOOLEAN,
                       stats : {"none", "live", "stale"}]
    BY <1>4 DEF TypeOK
  <2>4. TypeOK'
    BY <1>2, <2>1, <2>2, <2>3, TypesFollow
  <2> QED BY <1>4, <2>4
<1>5. CASE /\ fault' = fault
           /\ \/ consumer' = [Idle EXCEPT !.pc = "unref", !.w = w] /\ conn[w.c] = "marked"
              \/ consumer' = [Idle EXCEPT !.pc = "main", !.w = w, !.timer = TRUE]
  <2>1. /\ consumer' \in [pc : {"idle", "main", "count", "unref", "store", "test"},
                          w : Work \cup {None}, n : Int, timer : BOOLEAN,
                          stats : {"none", "live", "stale"}]
        /\ consumer'.w = w /\ consumer'.pc \in {"unref", "main"}
        /\ consumer'.pc = "unref" => conn[w.c] = "marked"
        /\ consumer'.timer => consumer'.pc = "main"
    <3>1. CASE consumer' = [Idle EXCEPT !.pc = "unref", !.w = w] /\ conn[w.c] = "marked"
      <4>1. consumer' = [pc |-> "unref", w |-> w, n |-> 0, timer |-> FALSE, stats |-> "none"]
        BY Zenon, <3>1 DEF Idle
      <4>2. consumer'.pc = "unref" /\ consumer'.w = w /\ consumer'.timer = FALSE
        BY <4>1
      <4>3. consumer' \in [pc : {"idle", "main", "count", "unref", "store", "test"},
                          w : Work \cup {None}, n : Int, timer : BOOLEAN,
                          stats : {"none", "live", "stale"}]
        BY <1>2, <4>1
      <4> QED BY <3>1, <4>2, <4>3
    <3>2. CASE consumer' = [Idle EXCEPT !.pc = "main", !.w = w, !.timer = TRUE]
      <4>1. consumer' = [pc |-> "main", w |-> w, n |-> 0, timer |-> TRUE, stats |-> "none"]
        BY Zenon, <3>2 DEF Idle
      <4>2. consumer'.pc = "main" /\ consumer'.w = w /\ consumer'.timer = TRUE
        BY <4>1
      <4>3. consumer' \in [pc : {"idle", "main", "count", "unref", "store", "test"},
                          w : Work \cup {None}, n : Int, timer : BOOLEAN,
                          stats : {"none", "live", "stale"}]
        BY <1>2, <4>1
      <4> QED BY <4>2, <4>3
    <3> QED BY <1>5, <3>1, <3>2
  <2>2. TypeOK'
    BY <1>0, <1>2, <1>5, <2>1 DEF TypeOK
  <2>3. ConsumerOK'
    <3>1. w # None
      BY <1>2, DistillerConstants DEF Work
    <3>2. conn' = conn
      BY <1>0
    <3> QED BY <2>1, <3>1, <3>2 DEF ConsumerOK
  <2>4. EventsOK'
    BY Zenon, <1>0 DEF Rest, EventsOK
  <2>5. PlacedOK'
    <3>1. \A x \in Work : consumer.w # x
      BY <1>0, DistillerConstants DEF Rest, ConsumerOK, Work
    <3>2. \A x \in Work : InEvents(x)' <=> InEvents(x)
      BY <1>0 DEF InEvents
    <3>3. fate' = fate
      BY <1>0
    <3> QED BY Zenon, <1>2, <2>1, <3>1, <3>2, <3>3 DEF Rest, PlacedOK
  <2>6. WorksOK' /\ CountsOK'
    BY <1>0 DEF Rest, WorksOK, CountsOK, Live, Held, OfConn
  <2> QED BY <2>2, <2>3, <2>4, <2>5, <2>6 DEF Rest
<1> QED BY <1>3, <1>4, <1>5

(***************************************************************************)
(* DistillerMain asks for a new type: an event, and a mark that it did.    *)
(***************************************************************************)
LEMMA DistillerRenameStep ==
    ASSUME TypeOK, Rest, DistillerRename
    PROVE  TypeOK' /\ Rest'
<1> USE DEF procVars, ptmVars, connVars
<1>0. /\ consumer' = [consumer EXCEPT !.n = 1]
      /\ UNCHANGED <<procVars, sleepStatus, stats, type, ptmVars, connVars, queue,
                     load, workReceived, inSelect, fate>>
  BY Zenon DEF DistillerRename
<1>1. PICK t \in Types : evq' = Append(evq, Ev("rereg", t))
  BY Zenon DEF DistillerRename
<1> DEFINE q == Ev("rereg", t)
<1>2. q \in Event /\ q.k = "rereg"
  BY DEF Ev, Event
<1>3. evq \in Seq(Event) /\ Distinct(evq)
  BY DEF TypeOK, Rest, EventsOK
<1> HIDE DEF q
<1>4. <<q>> \in Seq(Event) /\ Distinct(<<q>>) /\ \A e : In(e, <<q>>) <=> e = q
  <2>1. <<q>> \in Seq(Event) /\ Len(<<q>>) = 1 /\ <<q>>[1] = q
    BY <1>2
  <2> QED BY <2>1 DEF Distinct, In
<1>5. evq' \in Seq(Event) /\ Distinct(evq') /\ \A e : In(e, evq') <=> In(e, evq) \/ e = q
  <2>1. evq' = evq \o <<q>>
    <3>1. evq' = Append(evq, q)
      BY <1>1 DEF q
    <3> QED BY <1>2, <1>3, <3>1
  <2>2. \A i \in 1 .. Len(evq) : evq[i].k \in {"accept", "reply"} => ~In(evq[i], <<q>>)
    BY <1>2, <1>4
  <2> QED BY Zenon, <1>3, <1>4, <2>1, <2>2, EventsAdded
<1>6. /\ consumer' \in [pc : {"idle", "main", "count", "unref", "store", "test"},
                        w : Work \cup {None}, n : Int, timer : BOOLEAN,
                        stats : {"none", "live", "stale"}]
      /\ consumer'.pc = consumer.pc /\ consumer'.w = consumer.w
      /\ consumer'.timer = consumer.timer
  <2> DEFINE C == [pc : {"idle", "main", "count", "unref", "store", "test"},
                   w : Work \cup {None}, n : Int, timer : BOOLEAN,
                   stats : {"none", "live", "stale"}]
  <2>1. consumer \in C
    BY DEF TypeOK
  <2>2. consumer' = [consumer EXCEPT !.n = 1]
    BY <1>0
  <2> QED BY <2>1, <2>2
<1>7. TypeOK'
  <2>1. ControlTypes'
    BY <1>0, ControlKept
  <2>2. peer' \in [Conns -> BOOLEAN] /\ inSelect' \in BOOLEAN
    BY <1>0 DEF TypeOK
  <2> QED BY <1>0, <1>5, <1>6, <2>1, <2>2, TypesKept
<1>8. EventsOK'
  BY <1>0, <1>2, <1>5 DEF Rest, EventsOK
<1>9. PlacedOK'
  <2>1. \A x \in Work : InEvents(x)' <=> InEvents(x)
    <3>1. \A x \in Work : Ev("reply", x) # q
      BY <1>2 DEF Ev
    <3> QED BY <1>5, <3>1 DEF InEvents
  <2>2. UNCHANGED <<queue, fate>>
    BY <1>0
  <2> QED BY <1>6, <2>1, <2>2 DEF Rest, PlacedOK
<1>10. ConsumerOK'
  BY <1>0, <1>6 DEF Rest, ConsumerOK
<1>11. WorksOK' /\ CountsOK'
  BY <1>0 DEF Rest, WorksOK, CountsOK, Live, Held, OfConn
<1> QED BY <1>7, <1>8, <1>9, <1>10, <1>11 DEF Rest

(***************************************************************************)
(* The consumer posts what DistillerMain made of its work.                 *)
(***************************************************************************)
LEMMA ConsumerPostStep ==
    ASSUME TypeOK, Rest, ConsumerPost
    PROVE  TypeOK' /\ Rest'
<1> USE DEF procVars, ptmVars, connVars
<1> DEFINE w == consumer.w
           r == Ev("reply", w)
<1>0. /\ consumer.pc = "main"
      /\ UNCHANGED <<procVars, sleepStatus, stats, type, ptmVars, connVars, queue,
                     load, workReceived, inSelect, fate>>
  BY Zenon DEF ConsumerPost
<1>1. /\ consumer' \in [pc : {"idle", "main", "count", "unref", "store", "test"},
                        w : Work \cup {None}, n : Int, timer : BOOLEAN,
                        stats : {"none", "live", "stale"}]
      /\ consumer'.w = None /\ consumer'.pc \in {"idle", "count"} /\ ~consumer'.timer
  <2>1. \/ consumer' = [pc |-> "count", w |-> None, n |-> 0, timer |-> FALSE, stats |-> "live"]
        \/ consumer' = [pc |-> "idle", w |-> None, n |-> 0, timer |-> FALSE, stats |-> "none"]
    BY Zenon DEF ConsumerPost, Idle
  <2>2. /\ consumer'.w = None /\ consumer'.pc \in {"idle", "count"}
        /\ consumer'.timer = FALSE
    BY <2>1
  <2>3. consumer' \in [pc : {"idle", "main", "count", "unref", "store", "test"},
                      w : Work \cup {None}, n : Int, timer : BOOLEAN,
                      stats : {"none", "live", "stale"}]
    <3>1. 0 \in Int /\ FALSE \in BOOLEAN /\ None \in Work \cup {None}
      OBVIOUS
    <3>2. CASE consumer' = [pc |-> "count", w |-> None, n |-> 0, timer |-> FALSE,
                            stats |-> "live"]
      BY <3>1, <3>2
    <3>3. CASE consumer' = [pc |-> "idle", w |-> None, n |-> 0, timer |-> FALSE,
                            stats |-> "none"]
      BY <3>1, <3>3
    <3> QED BY <2>1, <3>2, <3>3
  <2> QED BY <2>2, <2>3
<1>2. w \in Work /\ None \notin Work /\ w # None
  BY <1>0, DistillerConstants DEF Rest, ConsumerOK, TypeOK, Work
<1>5. r \in Event /\ r.k = "reply"
  BY <1>2 DEF Ev, Event
<1> HIDE DEF w, r
<1>6. /\ <<r>> \in Seq(Event) /\ Distinct(<<r>>)
      /\ \A e : In(e, <<r>>) <=> e = r
  <2>1. <<r>> \in Seq(Event) /\ Len(<<r>>) = 1 /\ <<r>>[1] = r
    BY <1>5
  <2> QED BY <2>1 DEF Distinct, In
<1>7. ~InEvents(w) /\ ~InQueue(w, queue)
  BY <1>2 DEF Rest, PlacedOK, w
<1>8. evq \in Seq(Event) /\ Distinct(evq)
  BY DEF TypeOK, Rest, EventsOK
<1>10. ~In(r, evq)
  BY <1>7 DEF InEvents, r
<1>11. /\ evq' \in Seq(Event) /\ Distinct(evq')
       /\ \A e : In(e, evq') <=> In(e, evq) \/ e = r
  <2>1. evq' = evq \o <<r>>
    <3>1. evq' = Append(evq, r)
      BY Zenon DEF ConsumerPost, r, w
    <3> QED BY <1>5, <1>8, <3>1
  <2>2. \A i \in 1 .. Len(evq) : evq[i].k \in {"accept", "reply"} => ~In(evq[i], <<r>>)
    BY <1>6, <1>10 DEF In
  <2> QED BY Zenon, <1>6, <1>8, <2>1, <2>2, EventsAdded
<1>12. TypeOK'
  <2>1. ControlTypes'
    BY <1>0, ControlKept
  <2>2. peer' \in [Conns -> BOOLEAN] /\ inSelect' \in BOOLEAN
    BY <1>0 DEF TypeOK
  <2> QED BY <1>0, <1>1, <1>11, <2>1, <2>2, TypesKept
<1>13. ConsumerOK'
  BY <1>1 DEF ConsumerOK
<1>14. EventsOK'
  <2> SUFFICES ASSUME NEW e \in Event, In(e, evq')
               PROVE  /\ inSelect => e.k \in {"reply", "rereg", "quit"}
                      /\ e.k = "accept" => conn[e.x] = "new"
                      /\ e.k = "select" => conn[e.x] # "new"
    BY Zenon, <1>0, <1>11 DEF EventsOK
  <2>1. CASE In(e, evq)
    BY <2>1 DEF Rest, EventsOK
  <2>2. CASE e = r
    BY <1>5, <2>2
  <2> QED BY <1>11, <2>1, <2>2
<1>15. PlacedOK'
  <2>1. \A x \in Work : InEvents(x)' <=> InEvents(x) \/ x = w
    <3>1. \A x \in Work : Ev("reply", x) = r <=> x = w
      BY DEF Ev, r
    <3> QED BY <1>11, <3>1 DEF InEvents
  <2>2. \A x \in Work : consumer'.w # x /\ (consumer.w = x <=> x = w)
    BY <1>1, <1>2 DEF w
  <2>3. queue' = queue /\ fate' = fate
    BY <1>0
  <2> QED BY <1>7, <2>1, <2>2, <2>3 DEF Rest, PlacedOK
<1>16. WorksOK' /\ CountsOK'
  BY <1>0 DEF Rest, WorksOK, CountsOK, Live, Held, OfConn
<1> QED BY <1>12, <1>13, <1>14, <1>15, <1>16 DEF Rest

(***************************************************************************)
(* The consumer drops a work of a marked connection: the count it stores   *)
(* may be stale, the connection may be deleted, but no open one is touched.*)
(***************************************************************************)
LEMMA ConsumerUnrefStep ==
    ASSUME TypeOK, Rest, ConsumerUnref
    PROVE  TypeOK' /\ (fault' = "none" => Rest')
<1> USE DEF procVars, ptmVars, connVars
<1> DEFINE w == consumer.w
           c == w.c
<1>0. UNCHANGED <<proc, sleepStatus, stats, type, ptmVars, peer, sent, queue, load,
                  workReceived, evq, inSelect>>
  BY Zenon DEF ConsumerUnref
<1>1. consumer.pc \in {"unref", "store", "test"}
  BY DEF ConsumerUnref
<1>2. w \in Work /\ c \in Conns /\ fate[w] = "taken" /\ conn[c] \in {"marked", "freed"}
  <2>1. w \in Work /\ conn[c] \in {"marked", "freed"}
    BY <1>1 DEF Rest, ConsumerOK, TypeOK
  <2> QED BY <2>1 DEF Work, Rest, PlacedOK
<1>3. /\ consumer \in [pc : {"idle", "main", "count", "unref", "store", "test"},
                       w : Work \cup {None}, n : Int, timer : BOOLEAN,
                       stats : {"none", "live", "stale"}]
      /\ consumer.timer = FALSE /\ refs \in [Conns -> Int] /\ consumer.n \in Int
  <2>1. consumer \in [pc : {"idle", "main", "count", "unref", "store", "test"},
                      w : Work \cup {None}, n : Int, timer : BOOLEAN,
                      stats : {"none", "live", "stale"}] /\ refs \in [Conns -> Int]
    BY DEF TypeOK
  <2>2. ~consumer.timer /\ consumer.timer \in BOOLEAN
    BY <1>1, <2>1 DEF Rest, ConsumerOK
  <2> QED BY <2>1, <2>2
<1>4. EventsOK /\ PlacedOK /\ WorksOK /\ CountsOK /\ ConsumerOK
  BY DEF Rest
<1>5. \A x \in Work : InEvents(x)' <=> InEvents(x)
  BY <1>0 DEF InEvents
<1>6. CASE /\ conn[c] # "freed" /\ consumer.pc = "unref"
           /\ consumer' = [consumer EXCEPT !.pc = "store", !.n = refs[c]]
           /\ UNCHANGED <<refs, conn, fault, fate>>
  <2>1. /\ consumer' \in [pc : {"idle", "main", "count", "unref", "store", "test"},
                          w : Work \cup {None}, n : Int, timer : BOOLEAN,
                          stats : {"none", "live", "stale"}]
        /\ consumer'.pc = "store" /\ consumer'.w = w /\ consumer'.timer = FALSE
    <3>1. refs[c] \in Int
      BY <1>2, <1>3
    <3> HIDE DEF w, c
    <3> QED BY Zenon, <1>3, <1>6, <3>1 DEF w
  <2>2. TypeOK'
    BY <1>0, <1>6, <2>1 DEF TypeOK
  <2>3. ConsumerOK'
    BY <1>1, <1>2, <1>4, <1>6, <2>1 DEF ConsumerOK
  <2>4. EventsOK' /\ WorksOK' /\ CountsOK'
    BY <1>0, <1>4, <1>6 DEF EventsOK, WorksOK, CountsOK, Live, Held, OfConn
  <2>5. PlacedOK'
    BY <1>0, <1>4, <1>5, <1>6, <2>1 DEF PlacedOK
  <2> QED BY <2>2, <2>3, <2>4, <2>5 DEF Rest
<1>7. CASE /\ conn[c] # "freed" /\ consumer.pc = "store"
           /\ refs' = [refs EXCEPT ![c] = consumer.n - 1]
           /\ consumer' = [consumer EXCEPT !.pc = "test"]
           /\ UNCHANGED <<conn, fault, fate>>
  <2>1. /\ consumer' \in [pc : {"idle", "main", "count", "unref", "store", "test"},
                          w : Work \cup {None}, n : Int, timer : BOOLEAN,
                          stats : {"none", "live", "stale"}]
        /\ consumer'.pc = "test" /\ consumer'.w = w /\ consumer'.timer = FALSE
    BY <1>3, <1>7
  <2>2. refs' \in [Conns -> Int] /\ \A d \in Conns : d # c => refs'[d] = refs[d]
    <3> DEFINE n == consumer.n - 1
    <3>1. n \in Int /\ refs' = [refs EXCEPT ![c] = n]
      BY <1>3, <1>7
    <3> HIDE DEF c, n
    <3> QED BY Zenon, <1>3, <3>1
  <2>3. TypeOK'
    BY <1>0, <1>7, <2>1, <2>2 DEF TypeOK
  <2>4. ConsumerOK'
    BY <1>1, <1>2, <1>4, <1>7, <2>1 DEF ConsumerOK
  <2>5. EventsOK'
    BY <1>0, <1>4, <1>7 DEF EventsOK
  <2>6. WorksOK' /\ CountsOK'
    BY <1>0, <1>2, <1>4, <1>7, <2>2 DEF WorksOK, CountsOK, Live, Held, OfConn
  <2>7. PlacedOK'
    BY <1>0, <1>4, <1>5, <1>7, <2>1 DEF PlacedOK
  <2> QED BY <2>3, <2>4, <2>5, <2>6, <2>7 DEF Rest
<1>8. CASE /\ conn[c] # "freed" /\ consumer.pc = "test"
           /\ conn' = [conn EXCEPT ![c] = Unreferenced(@, refs[c])]
           /\ fate' = [fate EXCEPT ![w] = "dropped"]
           /\ consumer' = Idle
           /\ UNCHANGED <<refs, fault>>
  <2>1. /\ consumer' \in [pc : {"idle", "main", "count", "unref", "store", "test"},
                          w : Work \cup {None}, n : Int, timer : BOOLEAN,
                          stats : {"none", "live", "stale"}]
        /\ consumer'.pc = "idle" /\ consumer'.w = None /\ consumer'.timer = FALSE
    <3>1. consumer' = [pc |-> "idle", w |-> None, n |-> 0, timer |-> FALSE, stats |-> "none"]
      BY <1>8 DEF Idle
    <3>2. consumer' \in [pc : {"idle", "main", "count", "unref", "store", "test"},
                         w : Work \cup {None}, n : Int, timer : BOOLEAN,
                         stats : {"none", "live", "stale"}]
      BY <3>1
    <3>3. consumer'.pc = "idle" /\ consumer'.w = None /\ consumer'.timer = FALSE
      BY <3>1
    <3> QED BY <3>2, <3>3
  <2> HIDE DEF w, c
  <2>2. /\ conn' \in [Conns -> {"new", "open", "marked", "freed"}]
        /\ conn'[c] \in {"marked", "freed"}
        /\ \A d \in Conns : d # c => conn'[d] = conn[d]
    BY <1>2, <1>8 DEF TypeOK, Unreferenced
  <2>3. /\ fate' \in [Work -> {"new", "taken", "answered", "unsent", "dropped"}]
        /\ fate'[w] = "dropped" /\ \A x \in Work : x # w => fate'[x] = fate[x]
    BY <1>2, <1>8 DEF TypeOK
  <2>4. TypeOK'
    <3>1. ControlTypes'
      BY <1>0, <1>8, ControlKept
    <3>2. /\ sent' \in [Conns -> 0 .. MaxWork] /\ refs' \in [Conns -> Int]
          /\ queue' \in [Classes -> Seq(Work)] /\ load' \in 0 .. MaxWork
          /\ peer' \in [Conns -> BOOLEAN] /\ evq' \in Seq(Event) /\ inSelect' \in BOOLEAN
      BY <1>0, <1>8 DEF TypeOK
    <3> QED BY <2>1, <2>2, <2>3, <3>1, <3>2, TypesFollow
  <2>5. ConsumerOK'
    BY <2>1 DEF ConsumerOK
  <2>6. EventsOK'
    <3>1. \A d \in Conns : conn'[d] = "new" <=> conn[d] = "new"
      BY <1>2, <2>2
    <3>2. \A e \in Event : e.k \in {"accept", "select"} => e.x \in Conns
      BY DEF Event
    <3> QED BY <1>0, <1>4, <3>1, <3>2 DEF EventsOK
  <2>7. Live' = Live /\ Held' = Held
    BY <1>2, <2>3 DEF Live, Held
  <2>8. WorksOK'
    <3>1. \A x \in Work : fate'[x] # "new" <=> fate[x] # "new"
      BY <1>2, <2>3
    <3>2. \A d \in Conns : conn'[d] = "new" => conn[d] = "new"
      BY <1>2, <2>2
    <3> QED BY <1>0, <1>4, <1>8, <2>7, <3>1, <3>2 DEF WorksOK
  <2>9. CountsOK'
    <3>1. ASSUME NEW d \in Conns, conn'[d] = "open"
          PROVE  d # c /\ conn[d] = "open" /\ OfConn(d)' = OfConn(d)
      <4>1. d # c /\ conn[d] = "open"
        BY <2>2, <3>1
      <4>2. \A x \in Work : x.c = d => x # w
        BY <4>1 DEF c
      <4> QED BY <2>3, <4>1, <4>2 DEF OfConn
    <3> QED BY <1>0, <1>4, <1>8, <2>7, <3>1 DEF CountsOK
  <2>10. PlacedOK'
    <3>1. \A x \in Work : consumer'.w # x
      BY <2>1, DistillerConstants DEF Work
    <3> QED BY <1>0, <1>2, <1>4, <1>5, <2>3, <3>1 DEF PlacedOK, w
  <2> QED BY <2>4, <2>5, <2>6, <2>8, <2>9, <2>10 DEF Rest
<1>9. CASE fault' = "connection" /\ UNCHANGED <<refs, conn, consumer, fate>>
  <2>1. ControlTypes'
    BY <1>0, <1>9 DEF TypeOK, ControlTypes
  <2>2. /\ peer' \in [Conns -> BOOLEAN] /\ inSelect' \in BOOLEAN /\ evq' \in Seq(Event)
        /\ consumer' \in [pc : {"idle", "main", "count", "unref", "store", "test"},
                          w : Work \cup {None}, n : Int, timer : BOOLEAN,
                          stats : {"none", "live", "stale"}]
    BY <1>0, <1>9 DEF TypeOK
  <2>3. TypeOK'
    BY <1>0, <1>9, <2>1, <2>2, TypesKept
  <2> QED BY <1>9, <2>3
<1> QED BY <1>6, <1>7, <1>8, <1>9 DEF ConsumerUnref

(***************************************************************************)
(* SIGTERM adds an evQuit, and nothing else.                               *)
(***************************************************************************)
LEMMA SigTermStep ==
    ASSUME TypeOK, Rest, SigTerm
    PROVE  TypeOK' /\ Rest'
<1> USE DEF procVars, ptmVars, connVars
<1>0. /\ evq' = evq \o Quit
      /\ UNCHANGED <<procVars, sleepStatus, stats, type, ptmVars, connVars, queue,
                     load, workReceived, consumer, inSelect, fate>>
  BY Zenon DEF SigTerm
<1> DEFINE q == Ev("quit", None)
<1>1. q \in Event /\ q.k = "quit" /\ Quit = <<q>>
  BY DEF Ev, Event, Quit
<1> HIDE DEF q
<1>2. Quit \in Seq(Event) /\ Distinct(Quit) /\ \A e : In(e, Quit) <=> e = q
  <2>1. <<q>> \in Seq(Event) /\ Len(<<q>>) = 1 /\ <<q>>[1] = q
    BY <1>1
  <2> QED BY <1>1, <2>1 DEF Distinct, In
<1>3. evq \in Seq(Event) /\ Distinct(evq)
  BY DEF TypeOK, Rest, EventsOK
<1>4. evq' \in Seq(Event) /\ Distinct(evq') /\ \A e : In(e, evq') <=> In(e, evq) \/ e = q
  <2>1. \A i \in 1 .. Len(evq) : evq[i].k \in {"accept", "reply"} => ~In(evq[i], Quit)
    BY <1>1, <1>2
  <2> QED BY Zenon, <1>0, <1>2, <1>3, <2>1, EventsAdded
<1>5. TypeOK'
  <2>1. ControlTypes'
    BY <1>0, ControlKept
  <2>2. /\ peer' \in [Conns -> BOOLEAN] /\ inSelect' \in BOOLEAN
        /\ consumer' \in [pc : {"idle", "main", "count", "unref", "store", "test"},
                          w : Work \cup {None}, n : Int, timer : BOOLEAN,
                          stats : {"none", "live", "stale"}]
    BY <1>0 DEF TypeOK
  <2> QED BY <1>0, <1>4, <2>1, <2>2, TypesKept
<1>6. EventsOK'
  BY <1>0, <1>1, <1>4 DEF Rest, EventsOK
<1>7. PlacedOK'
  <2>1. \A x \in Work : InEvents(x)' <=> InEvents(x)
    <3>1. \A x \in Work : Ev("reply", x) # q
      BY <1>1 DEF Ev
    <3> QED BY <1>4, <3>1 DEF InEvents
  <2>2. UNCHANGED <<queue, fate, consumer>>
    BY <1>0
  <2> QED BY <2>1, <2>2 DEF Rest, PlacedOK
<1>8. ConsumerOK' /\ WorksOK' /\ CountsOK'
  BY <1>0 DEF Rest, ConsumerOK, WorksOK, CountsOK, Live, Held, OfConn
<1> QED BY <1>5, <1>6, <1>7, <1>8 DEF Rest

(***************************************************************************)
(* Steps that change nothing Rest speaks of but perhaps the statistics the *)
(* consumer looks at.                                                      *)
(***************************************************************************)
LEMMA OutsideStep ==
    ASSUME TypeOK, Rest,
           UNCHANGED <<conn, sent, refs, queue, load, evq, inSelect, fate>>,
           consumer' = consumer \/ (consumer.pc = "count" /\ consumer' = Idle)
    PROVE  Rest'
<1>1. /\ consumer'.w = consumer.w
      /\ consumer' = consumer \/ (consumer'.pc = "idle" /\ consumer'.timer = FALSE)
      /\ consumer' # consumer => consumer.w = None
  BY DEF Idle, Rest, ConsumerOK
<1>2. ConsumerOK'
  <2>1. CASE consumer' = consumer
    BY <2>1 DEF Rest, ConsumerOK
  <2>2. CASE consumer' # consumer
    BY <1>1, <2>2 DEF ConsumerOK
  <2> QED BY <2>1, <2>2
<1>3. EventsOK' /\ WorksOK' /\ CountsOK'
  BY DEF Rest, EventsOK, WorksOK, CountsOK, Live, Held, OfConn
<1>4. PlacedOK'
  BY Zenon, <1>1 DEF Rest, PlacedOK, InEvents
<1> QED BY <1>2, <1>3, <1>4 DEF Rest

(***************************************************************************)
(* The handlers that are quiet in the sense of QuietStep.                  *)
(***************************************************************************)
Quiet ==
    /\ \E kind \in {"select", "stuck", "ptm", "beacon", "rereg", "noload", "quit"} :
          Handling(kind)
    /\ \E posted \in {<< >>, Quit} : Handled(posted)
    /\ consumer' \in {consumer, StatsDeleted}
    /\ UNCHANGED <<conn, sent, refs, queue, load, fate>>
QuietHandle ==
    \/ HandleSelectError \/ SelectOfDeleted \/ DistillerStuck \/ DistillerSleep
    \/ PTMConnectionBroken \/ PTMEventOfDeleted \/ PTMLocationReceived
    \/ Reregister \/ NoLoadTimer \/ EvQuit

\* A quiet handler keeps the strengthening and the types it could disturb.
LEMMA QuietHandlerStep ==
    ASSUME TypeOK, Rest, Quiet
    PROVE  /\ Rest' /\ evq' \in Seq(Event) /\ inSelect' \in BOOLEAN
           /\ consumer' \in [pc : {"idle", "main", "count", "unref", "store", "test"},
                             w : Work \cup {None}, n : Int, timer : BOOLEAN,
                             stats : {"none", "live", "stale"}]
<1>1. PICK kind \in {"select", "stuck", "ptm", "beacon", "rereg", "noload", "quit"} :
         Handling(kind)
  BY DEF Quiet
<1>2. PICK posted \in {<< >>, Quit} : Handled(posted)
  BY DEF Quiet
<1>3. HandledOne(kind)
  BY <1>1, <1>2, HandlingFacts
<1>4. ~inSelect /\ evq # << >> /\ Head(evq).k # "reply"
  BY <1>1 DEF Handling
<1>5. Rest'
  BY <1>2, <1>4, QuietStep DEF Quiet
<1>6. consumer' \in [pc : {"idle", "main", "count", "unref", "store", "test"},
                     w : Work \cup {None}, n : Int, timer : BOOLEAN,
                     stats : {"none", "live", "stale"}]
  BY DEF Quiet, StatsDeleted, TypeOK
<1> QED BY <1>3, <1>5, <1>6 DEF HandledOne

\* A quiet handler that keeps ControlTypes keeps everything.
LEMMA QuietTypesStep ==
    ASSUME TypeOK, Rest, Quiet, ControlTypes', UNCHANGED peer
    PROVE  TypeOK' /\ Rest'
<1>1. /\ Rest' /\ evq' \in Seq(Event) /\ inSelect' \in BOOLEAN
      /\ consumer' \in [pc : {"idle", "main", "count", "unref", "store", "test"},
                        w : Work \cup {None}, n : Int, timer : BOOLEAN,
                        stats : {"none", "live", "stale"}]
  BY QuietHandlerStep
<1>2. UNCHANGED <<conn, sent, refs, queue, load, fate>> /\ peer' \in [Conns -> BOOLEAN]
  BY DEF Quiet, TypeOK
<1>3. TypeOK'
  BY <1>1, <1>2, TypesKept
<1> QED BY <1>1, <1>3

\* Ten of the handlers of the event thread are quiet, and keep all types.
LEMMA QuietHandleStep ==
    ASSUME TypeOK, Rest, QuietHandle
    PROVE  TypeOK' /\ Rest'
<1> USE DEF procVars, ptmVars, connVars
<1>0. ControlTypes
  BY DEF TypeOK, ControlTypes
<1>1. CASE HandleSelectError
  <2>1. Quiet
    BY <1>1 DEF HandleSelectError, Quiet
  <2>2. ControlTypes'
    BY <1>0, <1>1 DEF ControlTypes, HandleSelectError
  <2>3. UNCHANGED peer
    BY <1>1 DEF HandleSelectError
  <2> QED BY <2>1, <2>2, <2>3, QuietTypesStep
<1>2. CASE SelectOfDeleted
  <2>1. Quiet
    BY <1>2 DEF SelectOfDeleted, Quiet
  <2>2. ControlTypes'
    BY <1>0, <1>2 DEF ControlTypes, SelectOfDeleted
  <2>3. UNCHANGED peer
    BY <1>2 DEF SelectOfDeleted
  <2> QED BY <2>1, <2>2, <2>3, QuietTypesStep
<1>3. CASE DistillerStuck
  <2>1. Quiet
    BY <1>3 DEF DistillerStuck, Quiet
  <2>2. ControlTypes'
    BY <1>0, <1>3 DEF ControlTypes, DistillerStuck
  <2>3. UNCHANGED peer
    BY <1>3 DEF DistillerStuck
  <2> QED BY <2>1, <2>2, <2>3, QuietTypesStep
<1>4. CASE DistillerSleep
  <2>1. Quiet
    BY <1>4 DEF DistillerSleep, Sleep_WakeUp, Quiet
  <2>2. ControlTypes'
    BY Zenon, <1>0, <1>4 DEF ControlTypes, DistillerSleep, Sleep_WakeUp
  <2>3. UNCHANGED peer
    BY <1>4 DEF DistillerSleep
  <2> QED BY <2>1, <2>2, <2>3, QuietTypesStep
<1>5. CASE PTMConnectionBroken
  <2>1. Quiet
    BY <1>5 DEF PTMConnectionBroken, Quiet
  <2>2. ControlTypes'
    BY <1>0, <1>5 DEF ControlTypes, PTMConnectionBroken, LosePTM
  <2>3. UNCHANGED peer
    BY <1>5 DEF PTMConnectionBroken
  <2> QED BY <2>1, <2>2, <2>3, QuietTypesStep
<1>6. CASE PTMEventOfDeleted
  <2>1. Quiet
    BY <1>6 DEF PTMEventOfDeleted, Quiet
  <2>2. ControlTypes'
    BY <1>0, <1>6 DEF ControlTypes, PTMEventOfDeleted
  <2>3. UNCHANGED peer
    BY <1>6 DEF PTMEventOfDeleted
  <2> QED BY <2>1, <2>2, <2>3, QuietTypesStep
<1>7. CASE PTMLocationReceived
  <2>1. Quiet
    BY <1>7 DEF PTMLocationReceived, Quiet
  <2>2. ControlTypes'
    BY Zenon, <1>0, <1>7 DEF ControlTypes, PTMLocationReceived
  <2>3. UNCHANGED peer
    BY <1>7 DEF PTMLocationReceived
  <2> QED BY <2>1, <2>2, <2>3, QuietTypesStep
<1>8. CASE Reregister
  <2>1. Quiet
    BY <1>8 DEF Reregister, Quiet
  <2>4. Arg \in Types
    <3>1. Handling("rereg") /\ Handled(<< >>)
      BY <1>8 DEF Reregister
    <3>2. HandledOne("rereg")
      BY <3>1, HandlingFacts
    <3> QED BY <3>2 DEF HandledOne, Event
  <2>2. ControlTypes'
    BY Zenon, <1>0, <1>8, <2>4 DEF ControlTypes, Reregister, NewType, LosePTM
  <2>3. UNCHANGED peer
    BY <1>8 DEF Reregister
  <2> QED BY <2>1, <2>2, <2>3, QuietTypesStep
<1>9. CASE NoLoadTimer
  <2>1. Quiet
    BY <1>9 DEF NoLoadTimer, Quiet
  <2>2. ControlTypes'
    BY Zenon, <1>0, <1>9 DEF ControlTypes, NoLoadTimer
  <2>3. UNCHANGED peer
    BY <1>9 DEF NoLoadTimer
  <2> QED BY <2>1, <2>2, <2>3, QuietTypesStep
<1>10. CASE EvQuit
  <2>1. Quiet
    BY <1>10 DEF EvQuit, Quiet
  <2>2. ControlTypes'
    BY <1>0, <1>10 DEF ControlTypes, EvQuit
  <2>3. UNCHANGED peer
    BY <1>10 DEF EvQuit
  <2> QED BY <2>1, <2>2, <2>3, QuietTypesStep
<1> QED BY <1>1, <1>2, <1>3, <1>4, <1>5, <1>6, <1>7, <1>8, <1>9, <1>10 DEF QuietHandle

-----------------------------------------------------------------------------
(***************************************************************************)
(* The inductive invariant holds at the start.                             *)
(***************************************************************************)
LEMMA InitOK == Init => IInv
<1> SUFFICES ASSUME Init PROVE IInv
  OBVIOUS
<1>0. MaxWork \in Nat /\ InitialType \in Types /\ \A w \in Work : w.n \in 1 .. MaxWork
  BY DistillerConstants DEF Work
<1>1. consumer = [pc |-> "idle", w |-> None, n |-> 0, timer |-> FALSE, stats |-> "none"]
  BY DEF Init, Idle
<1>2. TypeOK
  <2>1. consumer \in [pc : {"idle", "main", "count", "unref", "store", "test"},
                      w : Work \cup {None}, n : Int, timer : BOOLEAN,
                      stats : {"none", "live", "stale"}]
    BY <1>1
  <2>2. stats \in BOOLEAN /\ listener \in BOOLEAN /\ inSelect \in BOOLEAN
    BY Zenon DEF Init
  <2>3. /\ conn \in [Conns -> {"new", "open", "marked", "freed"}]
        /\ peer \in [Conns -> BOOLEAN] /\ sent \in [Conns -> 0 .. MaxWork]
        /\ refs \in [Conns -> Int] /\ queue \in [Classes -> Seq(Work)]
        /\ load \in 0 .. MaxWork /\ evq \in Seq(Event)
        /\ fate \in [Work -> {"new", "taken", "answered", "unsent", "dropped"}]
    BY <1>0 DEF Init
  <2> QED BY Zenon, <1>0, <2>1, <2>2, <2>3 DEF Init, TypeOK
<1>3. ConsumerOK
  BY <1>1 DEF ConsumerOK
<1>4. \A e : ~In(e, evq)
  BY DEF Init, In
<1>5. EventsOK
  BY <1>4 DEF EventsOK, Distinct, Init
<1>6. \A w \in Work : fate[w] = "new"
  BY DEF Init
<1>7. Live = {} /\ Held = {} /\ \A c \in Conns : OfConn(c) = {}
  BY <1>6 DEF Live, Held, OfConn
<1>8. WorksOK
  <2>1. \A w \in Work : ~(w.n <= sent[w.c])
    BY <1>0 DEF Init, Work
  <2>2. IsFiniteSet(Live) /\ Cardinality(Live) = 0
    BY <1>7, FS_EmptySet
  <2>3. \A c \in Conns : sent[c] = 0 /\ refs[c] = 0
    BY DEF Init
  <2> QED BY <1>0, <1>6, <2>1, <2>2, <2>3 DEF WorksOK
<1>9. PlacedOK
  <2>1. \A k \in Classes : queue[k] = << >> /\ Len(queue[k]) = 0
    BY DEF Init
  <2>2. Once(queue) /\ \A w \in Work : ~InQueue(w, queue)
    BY <2>1 DEF Once, InQueue, In
  <2>3. \A w \in Work : consumer.w # w
    BY <1>1, DistillerConstants DEF Work
  <2> QED BY <1>4, <1>6, <2>2, <2>3 DEF PlacedOK, InEvents
<1>10. CountsOK
  BY <1>7, FS_EmptySet DEF CountsOK, Init
<1> QED BY <1>2, <1>3, <1>5, <1>8, <1>9, <1>10 DEF IInv, Rest

(***************************************************************************)
(* Every step preserves it.                                                *)
(***************************************************************************)
LEMMA NextOK == IInv /\ [Next]_vars => IInv'
<1> USE DEF procVars, ptmVars, connVars
<1>1. ASSUME IInv, UNCHANGED vars PROVE IInv'
  <2>1. TypeOK'
    <3>1. ControlTypes'
      BY <1>1, ControlKept DEF IInv, vars
    <3>2. /\ UNCHANGED <<conn, sent, refs, queue, load, fate>>
          /\ peer' \in [Conns -> BOOLEAN] /\ evq' \in Seq(Event) /\ inSelect' \in BOOLEAN
          /\ consumer' \in [pc : {"idle", "main", "count", "unref", "store", "test"},
                            w : Work \cup {None}, n : Int, timer : BOOLEAN,
                            stats : {"none", "live", "stale"}]
      BY <1>1 DEF IInv, TypeOK, vars
    <3> QED BY <1>1, <3>1, <3>2, TypesKept DEF IInv
  <2>2. Running => Rest'
    <3> SUFFICES ASSUME Running PROVE Rest'
      OBVIOUS
    <3>1. UNCHANGED <<conn, sent, refs, queue, load, evq, inSelect, fate>> /\ consumer' = consumer
      BY <1>1 DEF vars
    <3> QED BY <1>1, <3>1, OutsideStep DEF IInv
  <2>3. Running' => Running
    BY <1>1 DEF Running, vars
  <2> QED BY <2>1, <2>2, <2>3 DEF IInv
<1>2. ASSUME IInv, Next PROVE IInv'
  <2>0. Running
    BY <1>2, Zenon DEF Next, Handle, Consumer, Environment, EnterSelect, LeaveSelect,
       EvConnectionReceived, WorkReceived, EvConnectionBroken, HandleSelectError,
       SelectOfDeleted, DistillerReply, DistillerStuck, DistillerSleep,
       PTMConnectionBroken, PTMEventOfDeleted, PTMLocationReceived, Reregister,
       NoLoadTimer, EvQuit, Handling, ConsumerTake, DistillerRename, ConsumerPost,
       ConsumerCount, ConsumerUnref, PTMLeaves, SigTerm, FrontEndLeaves
  <2>1. TypeOK /\ Rest /\ fault = "none"
    BY <1>2, <2>0 DEF IInv, Running
  <2>2. SUFFICES TypeOK' /\ (fault' = "none" => Rest')
    BY DEF IInv, Running
  <2>3. CASE EnterSelect
    BY <2>1, <2>3, EnterSelectStep
  <2>4. CASE LeaveSelect
    BY <2>1, <2>4, LeaveSelectStep
  <2>5. CASE EvConnectionReceived
    BY <2>1, <2>5, ConnectionReceivedStep
  <2>6. CASE WorkReceived
    BY <2>1, <2>6, WorkReceivedStep
  <2>7. CASE EvConnectionBroken
    BY <2>1, <2>7, ConnectionBrokenStep
  <2>8. CASE DistillerReply
    BY <2>1, <2>8, DistillerReplyStep
  <2>9. CASE QuietHandle
    BY <2>1, <2>9, QuietHandleStep
  <2>10. CASE ConsumerTake
    BY <2>1, <2>10, ConsumerTakeStep
  <2>11. CASE ConsumerPost
    BY <2>1, <2>11, ConsumerPostStep
  <2>12. CASE ConsumerCount
    <3>1. consumer' \in [pc : {"idle", "main", "count", "unref", "store", "test"},
                         w : Work \cup {None}, n : Int, timer : BOOLEAN,
                         stats : {"none", "live", "stale"}]
      <4>1. consumer' = [pc |-> "idle", w |-> None, n |-> 0, timer |-> FALSE,
                         stats |-> "none"]
        BY <2>12 DEF ConsumerCount, Idle
      <4> QED BY <4>1
    <3>2. TypeOK'
      <4>1. ControlTypes'
        BY <2>1, <2>12 DEF ConsumerCount, TypeOK, ControlTypes
      <4>2. /\ UNCHANGED <<conn, sent, refs, queue, load, fate>>
            /\ peer' \in [Conns -> BOOLEAN] /\ evq' \in Seq(Event) /\ inSelect' \in BOOLEAN
        BY <2>1, <2>12 DEF ConsumerCount, TypeOK
      <4> QED BY <2>1, <3>1, <4>1, <4>2, TypesKept
    <3>3. Rest'
      BY <2>1, <2>12, OutsideStep DEF ConsumerCount
    <3> QED BY <3>2, <3>3
  <2>13. CASE ConsumerUnref
    BY <2>1, <2>13, ConsumerUnrefStep
  <2>14. CASE PTMLeaves
    <3>1. TypeOK'
      <4>1. ControlTypes'
        BY <2>1, <2>14 DEF PTMLeaves, TypeOK, ControlTypes
      <4>2. /\ UNCHANGED <<conn, sent, refs, queue, load, fate>>
            /\ peer' \in [Conns -> BOOLEAN] /\ evq' \in Seq(Event) /\ inSelect' \in BOOLEAN
            /\ consumer' \in [pc : {"idle", "main", "count", "unref", "store", "test"},
                              w : Work \cup {None}, n : Int, timer : BOOLEAN,
                              stats : {"none", "live", "stale"}]
        BY <2>1, <2>14 DEF PTMLeaves, TypeOK
      <4> QED BY <2>1, <4>1, <4>2, TypesKept
    <3>2. UNCHANGED <<conn, sent, refs, queue, load, evq, inSelect, fate>> /\ consumer' = consumer
      BY <2>14 DEF PTMLeaves
    <3> QED BY <2>1, <3>1, <3>2, OutsideStep
  <2>15. CASE SigTerm
    BY <2>1, <2>15, SigTermStep
  <2>16. CASE \E c \in Conns : FrontEndLeaves(c)
    <3>1. PICK c \in Conns : FrontEndLeaves(c)
      BY <2>16
    <3>2. TypeOK'
      <4>1. ControlTypes'
        BY <2>1, <3>1, ControlKept DEF FrontEndLeaves
      <4>2. peer' \in [Conns -> BOOLEAN]
        BY <2>1, <3>1 DEF FrontEndLeaves, TypeOK
      <4>3. /\ UNCHANGED <<conn, sent, refs, queue, load, fate>>
            /\ evq' \in Seq(Event) /\ inSelect' \in BOOLEAN
            /\ consumer' \in [pc : {"idle", "main", "count", "unref", "store", "test"},
                              w : Work \cup {None}, n : Int, timer : BOOLEAN,
                              stats : {"none", "live", "stale"}]
        BY <2>1, <3>1 DEF FrontEndLeaves, TypeOK
      <4> QED BY <2>1, <4>1, <4>2, <4>3, TypesKept
    <3>3. UNCHANGED <<conn, sent, refs, queue, load, evq, inSelect, fate>> /\ consumer' = consumer
      BY <3>1 DEF FrontEndLeaves
    <3> QED BY <2>1, <3>2, <3>3, OutsideStep
  <2>17. CASE DistillerRename
    BY <2>1, <2>17, DistillerRenameStep
  <2> QED BY <1>2, <2>3, <2>4, <2>5, <2>6, <2>7, <2>8, <2>9, <2>10, <2>11, <2>12,
             <2>13, <2>14, <2>15, <2>16, <2>17
          DEF Next, Handle, Consumer, Environment, QuietHandle
<1> QED BY <1>1, <1>2

-----------------------------------------------------------------------------
(***************************************************************************)
(* PlacedOK in terms of places.                                            *)
(***************************************************************************)
LEMMA InOnePlace ==
    ASSUME TypeOK, EventsOK, PlacedOK, NEW w \in Work
    PROVE  IF fate[w] = "taken" THEN \E p \in Places(w) : Places(w) = {p}
                                ELSE Places(w) = {}
<1>1. \A p : p \in Places(w) <=>
         \/ \E k \in Classes : \E i \in 1 .. Len(queue[k]) :
               queue[k][i] = w /\ p = <<"queue", k, i>>
         \/ \E i \in 1 .. Len(evq) : evq[i] = Ev("reply", w) /\ p = <<"event", None, i>>
         \/ consumer.w = w /\ p = <<"consumer", None, 0>>
  <2> DEFINE Q == UNION {{<<"queue", k, i>> : i \in {j \in 1 .. Len(queue[k]) : queue[k][j] = w}}
                           : k \in Classes}
             E == {<<"event", None, i>> : i \in {j \in 1 .. Len(evq) : evq[j] = Ev("reply", w)}}
             C == IF consumer.w = w THEN {<<"consumer", None, 0>>} ELSE {}
  <2>1. Places(w) = Q \cup E \cup C
    BY DEF Places
  <2>2. \A p : p \in Q <=> \E k \in Classes : \E i \in 1 .. Len(queue[k]) :
                              queue[k][i] = w /\ p = <<"queue", k, i>>
    <3> SUFFICES ASSUME NEW p
                 PROVE  p \in Q <=> \E k \in Classes : \E i \in 1 .. Len(queue[k]) :
                                       queue[k][i] = w /\ p = <<"queue", k, i>>
      OBVIOUS
    <3> DEFINE L(k) == {<<"queue", k, i>> : i \in {j \in 1 .. Len(queue[k]) : queue[k][j] = w}}
    <3>1. p \in Q <=> \E k \in Classes : p \in L(k)
      BY Zenon
    <3>2. \A k : p \in L(k) <=> \E i \in 1 .. Len(queue[k]) :
                                   queue[k][i] = w /\ p = <<"queue", k, i>>
      OBVIOUS
    <3> HIDE DEF L, Q
    <3> QED BY <3>1, <3>2, Zenon
  <2>3. \A p : p \in E <=> \E i \in 1 .. Len(evq) :
                              evq[i] = Ev("reply", w) /\ p = <<"event", None, i>>
    OBVIOUS
  <2>4. \A p : p \in C <=> consumer.w = w /\ p = <<"consumer", None, 0>>
    OBVIOUS
  <2> HIDE DEF Q, E, C
  <2> QED BY <2>1, <2>2, <2>3, <2>4, Zenon
<1>2. /\ InQueue(w, queue) <=>
           \E k \in Classes : \E i \in 1 .. Len(queue[k]) : queue[k][i] = w
      /\ InEvents(w) <=> \E i \in 1 .. Len(evq) : evq[i] = Ev("reply", w)
  BY DEF InQueue, InEvents, In
<1> HIDE DEF Places
<1>3. CASE fate[w] # "taken"
  BY Zenon, <1>1, <1>2, <1>3 DEF PlacedOK
<1>4. CASE fate[w] = "taken" /\ consumer.w = w
  <2>1. ~InQueue(w, queue) /\ ~InEvents(w)
    BY <1>4 DEF PlacedOK
  <2>2. \A p : p \in Places(w) <=> p = <<"consumer", None, 0>>
    BY <1>1, <1>2, <1>4, <2>1
  <2>5. Places(w) = {<<"consumer", None, 0>>}
    BY <2>2, Zenon
  <2>6. <<"consumer", None, 0>> \in Places(w)
    BY <2>2, Zenon
  <2> QED BY <1>4, <2>5, <2>6
<1>5. CASE fate[w] = "taken" /\ InEvents(w)
  <2>1. PICK i \in 1 .. Len(evq) : evq[i] = Ev("reply", w)
    BY <1>2, <1>5
  <2>2. \A j \in 1 .. Len(evq) : evq[j] = Ev("reply", w) => j = i
    <3>1. Ev("reply", w).k = "reply"
      BY DEF Ev
    <3>2. Distinct(evq)
      BY DEF EventsOK
    <3> QED BY <2>1, <3>1, <3>2 DEF Distinct
  <2>3. ~InQueue(w, queue) /\ consumer.w # w
    BY <1>5 DEF PlacedOK
  <2>4. \A p : p \in Places(w) <=> p = <<"event", None, i>>
    BY <1>1, <1>2, <2>1, <2>2, <2>3
  <2>5. Places(w) = {<<"event", None, i>>}
    BY <2>4, Zenon
  <2>6. <<"event", None, i>> \in Places(w)
    BY <2>4, Zenon
  <2> QED BY <1>5, <2>5, <2>6
<1>6. CASE fate[w] = "taken" /\ InQueue(w, queue)
  <2>0. PICK k \in Classes : \E i \in 1 .. Len(queue[k]) : queue[k][i] = w
    BY <1>2, <1>6
  <2>1. PICK i \in 1 .. Len(queue[k]) : queue[k][i] = w
    BY <2>0
  <2>2. \A l \in Classes : \A j \in 1 .. Len(queue[l]) : queue[l][j] = w => l = k /\ j = i
    <3>1. Once(queue)
      BY DEF PlacedOK
    <3> QED BY <2>1, <3>1 DEF Once
  <2>3. ~InEvents(w) /\ consumer.w # w
    BY <1>6 DEF PlacedOK
  <2>4. \A p : p \in Places(w) <=> p = <<"queue", k, i>>
    BY <1>1, <1>2, <2>1, <2>2, <2>3
  <2>5. Places(w) = {<<"queue", k, i>>}
    BY <2>4, Zenon
  <2>6. <<"queue", k, i>> \in Places(w)
    BY <2>4, Zenon
  <2> QED BY <1>6, <2>5, <2>6
<1> QED BY Zenon, <1>3, <1>4, <1>5, <1>6 DEF PlacedOK

(***************************************************************************)
(* Works, load and references agree in every distiller (distiller.cc):     *)
(* whatever the order of the event thread and the consumer, no work is     *)
(* lost or done twice, the load counts the works in progress and those     *)
(* dropped, and the references of an open connection are exact.            *)
(***************************************************************************)
THEOREM WorkAlwaysAccounted == Spec => []WorkIsAccounted
<1>1. IInv => WorkIsAccounted
  <2> SUFFICES ASSUME IInv PROVE WorkIsAccounted
    OBVIOUS
  <2>1. WorkConserved
    BY InOnePlace DEF WorkConserved, IInv, Rest
  <2>2. LoadCountsWork /\ OpenRefsExact
    BY DEF IInv, Rest, CountsOK, LoadCountsWork, OpenRefsExact, Held, OfConn
  <2> QED BY <2>1, <2>2 DEF IInv, WorkIsAccounted
<1> QED BY <1>1, InitOK, NextOK, PTL DEF Spec

(***************************************************************************)
(* A running distiller is connected to a PTM or listens for one, and the   *)
(* PTM it is connected to knows its current type (distnet.cc), for any     *)
(* renaming by DistillerMain.                                              *)
(***************************************************************************)
THEOREM AlwaysKnownToPTM == Spec => []KnownToPTM
<1> USE DEF KnownToPTM, ConnectedOrListening, KnownByCurrentType, Connected, Running,
           procVars, ptmVars, connVars
<1>1. Init => KnownToPTM
  BY Zenon DEF Init
<1>2. IInv /\ KnownToPTM /\ [Next]_vars => KnownToPTM'
  <2> SUFFICES ASSUME IInv, KnownToPTM, [Next]_vars PROVE KnownToPTM'
    OBVIOUS
  <2>0. listener \in BOOLEAN
    BY DEF IInv, TypeOK
  <2>1. CASE UNCHANGED vars
    BY <2>1 DEF vars
  <2>2. CASE EnterSelect \/ LeaveSelect
    BY <2>2 DEF EnterSelect, LeaveSelect
  <2>3. CASE Consumer
    BY Zenon, <2>3 DEF Consumer, ConsumerTake, DistillerRename, ConsumerPost, ConsumerCount,
       ConsumerUnref
  <2>4. CASE Environment
    BY Zenon, <2>0, <2>4 DEF Environment, PTMLeaves, SigTerm, FrontEndLeaves
  <2>5. CASE EvConnectionReceived \/ WorkReceived \/ EvConnectionBroken
             \/ HandleSelectError \/ SelectOfDeleted \/ DistillerReply \/ DistillerStuck
             \/ DistillerSleep \/ PTMEventOfDeleted \/ NoLoadTimer
    BY Zenon, <2>5 DEF EvConnectionReceived, WorkReceived, EvConnectionBroken, HandleSelectError,
       SelectOfDeleted, DistillerReply, DistillerStuck, DistillerSleep,
       PTMEventOfDeleted, NoLoadTimer
  <2>6. CASE PTMConnectionBroken \/ PTMLocationReceived \/ Reregister \/ EvQuit
    BY <2>0, <2>6 DEF PTMConnectionBroken, PTMLocationReceived, Reregister, EvQuit,
       LosePTM, NewType, Handling
  <2> QED BY <2>1, <2>2, <2>3, <2>4, <2>5, <2>6 DEF Next, Handle
<1> QED BY <1>1, <1>2, InitOK, NextOK, PTL DEF Spec

=============================================================================
