--------------------------- MODULE StubCacheProofs ---------------------------
(***************************************************************************)
(* Proofs about StubCache, for any workers, distillers, types and records: *)
(* RecordsAreKept.  It is not inductive.  Of a record, what is added is    *)
(* which of its fields go together (RecordOK), with how many workers hold  *)
(* it and how many of those have a request out; of a record that was taken *)
(* out of the database, that somebody is about to mark it (RemovedOK); of  *)
(* a worker, that it has a record where Distill has one, and that a reply  *)
(* or timeout that was found belongs to a request that exists (WorkerOK).  *)
(***************************************************************************)
EXTENDS StubCache, FiniteSetTheorems, TLAPS

N == Cardinality(Workers)

\* The workers that hold a record and have not yet given up their request
Out(i) == {w \in Holders(i) : wrk[w].pc # "mark"}

Linked(r) == IF r.conn = "null" THEN 0 ELSE 1

\* A record that h workers hold, o of them with a request out
Flags(r) ==
    /\ r.st = "free" => r = Free
    /\ r.inDB => r.st = "used" /\ ~r.marked /\ r.addr \in Addrs
Counts(r, h, o) ==
    /\ r.refs = h + r.old + Linked(r)
    /\ o - N <= r.pending /\ r.pending <= o
RecordOK(r, h, o) == Flags(r) /\ Counts(r, h, o) /\ (r.marked => r.refs > 0)

RecordsOK == \A i \in Slots : RecordOK(rec[i], Cardinality(Holders(i)), Cardinality(Out(i)))

\* A record out of the database is marked, or a worker is about to mark it.
Unmarked(r) == r.st = "used" /\ ~r.inDB /\ ~r.marked
RemovedOK == \A i \in Slots : Unmarked(rec[i]) => Out(i) # Holders(i)

Using == {"distill", "send", "wait", "remove", "mark"}
WorkerOK(w) ==
    /\ wrk[w].rec = None <=> wrk[w].pc \notin Using
    /\ wrk[w].pc # "idle" => wrk[w].type \in Types
    /\ late[w] = "fresh" => HasRequest(w)
    /\ wrk[w].pc = "mark" => ~Rec(w).inDB
    /\ HasRequest(w) => wrk[w].stop \/ (w \in Rec(w).reqs /\ Rec(w).conn # "null")

IInv ==
    /\ TypeOK /\ RecordsOK /\ RemovedOK /\ OneRecordPerAddress
    /\ \A w \in Workers : WorkerOK(w)
-----------------------------------------------------------------------------
(* What the operations do to a record                                      *)

\* An operation puts nothing into the database and leaves nothing unmarked.
Follows(q, r) ==
    /\ q.inDB => r.inDB /\ q.addr = r.addr
    /\ Unmarked(q) => Unmarked(r)

\* The number of workers is a number.
LEMMA NType == N \in Nat
BY StubConstants, FS_CardinalityType DEF N

\* The other fields of a record stay when Update_ sets its type.
LEMMA SetType ==
    ASSUME NEW r \in Record, NEW v \in Types \cup {None}
    PROVE  LET q == [r EXCEPT !.type = v] IN
           /\ q \in Record /\ q.type = v
           /\ q.st = r.st /\ q.addr = r.addr /\ q.inDB = r.inDB /\ q.marked = r.marked
           /\ q.refs = r.refs /\ q.pending = r.pending /\ q.conn = r.conn /\ q.old = r.old
           /\ q.reqs = r.reqs /\ q.dangling = r.dangling
BY DEF Record

\* The other fields of a record stay when Remove_ sets whether it is in the database.
LEMMA SetInDB ==
    ASSUME NEW r \in Record, NEW v \in BOOLEAN
    PROVE  LET q == [r EXCEPT !.inDB = v] IN
           /\ q \in Record /\ q.inDB = v
           /\ q.st = r.st /\ q.addr = r.addr /\ q.type = r.type /\ q.marked = r.marked
           /\ q.refs = r.refs /\ q.pending = r.pending /\ q.conn = r.conn /\ q.old = r.old
           /\ q.reqs = r.reqs /\ q.dangling = r.dangling
BY DEF Record

\* The other fields of a record stay when MarkForDeletion sets the mark.
LEMMA SetMarked ==
    ASSUME NEW r \in Record, NEW v \in BOOLEAN
    PROVE  LET q == [r EXCEPT !.marked = v] IN
           /\ q \in Record /\ q.marked = v
           /\ q.st = r.st /\ q.addr = r.addr /\ q.type = r.type /\ q.inDB = r.inDB
           /\ q.refs = r.refs /\ q.pending = r.pending /\ q.conn = r.conn /\ q.old = r.old
           /\ q.reqs = r.reqs /\ q.dangling = r.dangling
BY DEF Record

\* The other fields of a record stay when the reference count is set.
LEMMA SetRefs ==
    ASSUME NEW r \in Record, NEW v \in Nat
    PROVE  LET q == [r EXCEPT !.refs = v] IN
           /\ q \in Record /\ q.refs = v
           /\ q.st = r.st /\ q.addr = r.addr /\ q.type = r.type /\ q.inDB = r.inDB
           /\ q.marked = r.marked /\ q.pending = r.pending /\ q.conn = r.conn /\ q.old = r.old
           /\ q.reqs = r.reqs /\ q.dangling = r.dangling
BY DEF Record

\* The other fields of a record stay when pendingCount is set.
LEMMA SetPending ==
    ASSUME NEW r \in Record, NEW v \in Int
    PROVE  LET q == [r EXCEPT !.pending = v] IN
           /\ q \in Record /\ q.pending = v
           /\ q.st = r.st /\ q.addr = r.addr /\ q.type = r.type /\ q.inDB = r.inDB
           /\ q.marked = r.marked /\ q.refs = r.refs /\ q.conn = r.conn /\ q.old = r.old
           /\ q.reqs = r.reqs /\ q.dangling = r.dangling
BY DEF Record

\* The other fields of a record stay when the connection is set.
LEMMA SetConn ==
    ASSUME NEW r \in Record, NEW v \in {"null", "failed", "open"}
    PROVE  LET q == [r EXCEPT !.conn = v] IN
           /\ q \in Record /\ q.conn = v
           /\ q.st = r.st /\ q.addr = r.addr /\ q.type = r.type /\ q.inDB = r.inDB
           /\ q.marked = r.marked /\ q.refs = r.refs /\ q.pending = r.pending /\ q.old = r.old
           /\ q.reqs = r.reqs /\ q.dangling = r.dangling
BY DEF Record

\* The other fields of a record stay when the count of connections whose threads go on is set.
LEMMA SetOld ==
    ASSUME NEW r \in Record, NEW v \in Nat
    PROVE  LET q == [r EXCEPT !.old = v] IN
           /\ q \in Record /\ q.old = v
           /\ q.st = r.st /\ q.addr = r.addr /\ q.type = r.type /\ q.inDB = r.inDB
           /\ q.marked = r.marked /\ q.refs = r.refs /\ q.pending = r.pending /\ q.conn = r.conn
           /\ q.reqs = r.reqs /\ q.dangling = r.dangling
BY DEF Record

\* The other fields of a record stay when pendingRequests is set.
LEMMA SetReqs ==
    ASSUME NEW r \in Record, NEW v \in SUBSET Workers
    PROVE  LET q == [r EXCEPT !.reqs = v] IN
           /\ q \in Record /\ q.reqs = v
           /\ q.st = r.st /\ q.addr = r.addr /\ q.type = r.type /\ q.inDB = r.inDB
           /\ q.marked = r.marked /\ q.refs = r.refs /\ q.pending = r.pending /\ q.conn = r.conn
           /\ q.old = r.old /\ q.dangling = r.dangling
BY DEF Record

\* The other fields of a record stay when whether a deleted request is listed is set.
LEMMA SetDangling ==
    ASSUME NEW r \in Record, NEW v \in BOOLEAN
    PROVE  LET q == [r EXCEPT !.dangling = v] IN
           /\ q \in Record /\ q.dangling = v
           /\ q.st = r.st /\ q.addr = r.addr /\ q.type = r.type /\ q.inDB = r.inDB
           /\ q.marked = r.marked /\ q.refs = r.refs /\ q.pending = r.pending /\ q.conn = r.conn
           /\ q.old = r.old /\ q.reqs = r.reqs
BY DEF Record

\* A free record has its type, is not in the database and counts nothing.
LEMMA FreeOK ==
    ASSUME NEW o \in Nat, o = 0
    PROVE  Free \in Record /\ ~Unmarked(Free) /\ ~Free.inDB /\ RecordOK(Free, 0, o)
<1>1. Free \in Record /\ ~Unmarked(Free) /\ ~Free.inDB /\ ~Free.marked
  BY DEF Free, Record, Unmarked
<1>2. Free.refs = 0 /\ Free.old = 0 /\ Linked(Free) = 0 /\ Free.pending = 0
  BY DEF Free, Linked
<1>3. Counts(Free, 0, o)
  BY <1>2, NType DEF Counts
<1>4. Flags(Free)
  BY <1>1, Zenon DEF Flags
<1> QED BY <1>1, <1>3, <1>4, Zenon DEF RecordOK

\* The numbers of a record
LEMMA Numbers ==
    ASSUME NEW r \in Record
    PROVE  r.refs \in Nat /\ r.old \in Nat /\ Linked(r) \in {0, 1} /\ r.pending \in Int
BY DEF Record, Linked

\* GarbageCollectedObject: with the last reference a marked record goes, and
\* nobody holds it then.
LEMMA Collected ==
    ASSUME NEW r \in Record, NEW h \in Nat, NEW o \in Nat, o <= h,
           Flags(r), Counts(r, h, o)
    PROVE  /\ Collect(r) \in Record /\ RecordOK(Collect(r), h, o)
           /\ Follows(Collect(r), r)
           /\ h > 0 => Collect(r) = r
<1>1. CASE r.refs = 0
  <2>1. h = 0 /\ o = 0
    BY <1>1, Numbers DEF Counts
  <2>2. CASE r.marked
    <3>1. Collect(r) = Free
      BY <1>1, <2>2, Zenon DEF Collect
    <3>2. Free \in Record /\ ~Unmarked(Free) /\ ~Free.inDB /\ RecordOK(Free, h, o)
      BY <2>1, FreeOK
    <3>3. ~(h > 0)
      BY <2>1
    <3> QED BY <3>1, <3>2, <3>3, Zenon DEF Follows
  <2>3. CASE ~r.marked
    <3>1. Collect(r) = r
      BY <2>3, Zenon DEF Collect
    <3> QED BY <2>3, <3>1, Zenon DEF Follows, RecordOK
  <2> QED BY <2>2, <2>3
<1>2. CASE r.refs # 0
  <2>1. Collect(r) = r
    BY <1>2, Zenon DEF Collect
  <2>2. r.refs > 0
    BY <1>2, Numbers
  <2> QED BY <2>1, <2>2, Zenon DEF Follows, RecordOK
<1> QED BY <1>1, <1>2

\* getDistiller references a record of the database.
LEMMA ReferencedOK ==
    ASSUME NEW r \in Record, NEW h \in Nat, NEW o \in Nat, RecordOK(r, h, o), r.inDB
    PROVE  /\ Referenced(r) \in Record /\ RecordOK(Referenced(r), h + 1, o + 1)
           /\ Follows(Referenced(r), r)
           /\ Referenced(r).reqs = r.reqs /\ Referenced(r).conn = r.conn
<1> DEFINE p == [r EXCEPT !.refs = r.refs + 1]
           q == [p EXCEPT !.pending = p.pending + 1]
<1>0. r.refs + 1 \in Nat /\ r.pending + 1 \in Int
  BY Numbers
<1>1. /\ p \in Record /\ p.refs = r.refs + 1 /\ p.pending = r.pending /\ p.st = r.st
      /\ p.inDB = r.inDB /\ p.marked = r.marked /\ p.conn = r.conn /\ p.old = r.old
      /\ p.reqs = r.reqs /\ p.addr = r.addr
  BY Zenon, <1>0, SetRefs
<1> HIDE DEF p
<1>2. /\ q \in Record /\ q.refs = p.refs /\ q.pending = p.pending + 1 /\ q.st = p.st
      /\ q.inDB = p.inDB /\ q.marked = p.marked /\ q.conn = p.conn /\ q.old = p.old
      /\ q.reqs = p.reqs /\ q.addr = p.addr
  <2>1. p \in Record /\ p.pending + 1 \in Int
    BY <1>0, <1>1
  <2> QED BY <2>1, SetPending
<1>3. Referenced(r) = q
  BY <1>1 DEF Referenced, p
<1> HIDE DEF q
<1>4. Counts(q, h + 1, o + 1)
  <2>1. Counts(r, h, o)
    BY Zenon DEF RecordOK
  <2>2. Linked(q) = Linked(r)
    BY <1>1, <1>2 DEF Linked
  <2>3. /\ q.refs = r.refs + 1 /\ q.pending = r.pending + 1 /\ q.old = r.old
    BY <1>1, <1>2
  <2> QED BY <2>1, <2>2, <2>3, Numbers, NType DEF Counts
<1>5. q.st = "used" /\ ~q.marked /\ q.addr \in Addrs
  BY <1>1, <1>2, Zenon DEF RecordOK, Flags
<1>6. Flags(q)
  BY <1>5 DEF Flags
<1>7. RecordOK(q, h + 1, o + 1)
  BY <1>4, <1>5, <1>6, Zenon DEF RecordOK
<1>8. Follows(q, r)
  BY <1>1, <1>2, Zenon DEF Follows, Unmarked
<1> QED BY <1>1, <1>2, <1>3, <1>7, <1>8

\* A record that somebody holds is in use and has a reference.
LEMMA HeldIsUsed ==
    ASSUME NEW r \in Record, NEW h \in Nat, NEW o \in Nat, RecordOK(r, h, o), h > 0
    PROVE  r.st = "used" /\ r.refs >= h
<1>1. Counts(r, h, o) /\ (r.st = "free" => r = Free)
  BY Zenon DEF RecordOK, Flags
<1>2. r.refs >= h
  BY <1>1, Numbers DEF Counts
<1>3. Free.refs = 0
  BY DEF Free
<1>4. r # Free
  BY <1>2, <1>3
<1>5. r.st \in {"free", "used"}
  BY DEF Record
<1> QED BY <1>1, <1>2, <1>4, <1>5

\* The flags depend on these fields of a record in use alone.
LEMMA FlagsKept ==
    ASSUME NEW r, NEW q, Flags(r), r.st = "used", q.st = r.st, q.inDB = r.inDB,
           q.marked = r.marked, q.addr = r.addr
    PROVE  Flags(q)
BY Zenon DEF Flags

\* Nor does it become unmarked, or enter the database.
LEMMA FollowsKept ==
    ASSUME NEW r, NEW q, q.st = r.st, q.inDB = r.inDB, q.marked = r.marked, q.addr = r.addr
    PROVE  Follows(q, r)
BY Zenon DEF Follows, Unmarked

\* One operation after another
LEMMA FollowsOn ==
    ASSUME NEW r, NEW p, NEW q, Follows(q, p), Follows(p, r)
    PROVE  Follows(q, r)
BY Zenon DEF Follows

\* Finish: the request is over and the worker lets go of the record.
LEMMA ReleasedOK ==
    ASSUME NEW r \in Record, NEW h \in Nat, NEW o \in Nat, RecordOK(r, h, o),
           o > 0, o <= h
    PROVE  LET q == DecrReference(DecrPending(r)) IN
           /\ q \in Record /\ RecordOK(q, h - 1, o - 1) /\ Follows(q, r)
           /\ h > 1 => q.reqs = r.reqs /\ q.conn = r.conn
<1> DEFINE p == [r EXCEPT !.pending = r.pending - 1]
           q == [p EXCEPT !.refs = p.refs - 1]
<1>0. r.refs - 1 \in Nat /\ r.pending - 1 \in Int /\ r.st = "used" /\ r.refs >= h
  BY Numbers, HeldIsUsed
<1>1. /\ p \in Record /\ p.pending = r.pending - 1 /\ p.refs = r.refs /\ p.st = r.st
      /\ p.inDB = r.inDB /\ p.marked = r.marked /\ p.conn = r.conn /\ p.old = r.old
      /\ p.reqs = r.reqs /\ p.addr = r.addr
  BY <1>0, SetPending
<1> HIDE DEF p
<1>2. /\ q \in Record /\ q.pending = p.pending /\ q.refs = p.refs - 1 /\ q.st = p.st
      /\ q.inDB = p.inDB /\ q.marked = p.marked /\ q.conn = p.conn /\ q.old = p.old
      /\ q.reqs = p.reqs /\ q.addr = p.addr
  <2>1. p \in Record /\ p.refs - 1 \in Nat
    BY <1>0, <1>1
  <2> QED BY <2>1, SetRefs
<1>3. DecrReference(DecrPending(r)) = Collect(q)
  BY DEF DecrReference, DecrPending, p
<1> HIDE DEF q
<1>4. Counts(q, h - 1, o - 1)
  <2>1. Counts(r, h, o)
    BY Zenon DEF RecordOK
  <2>2. Linked(q) = Linked(r)
    BY <1>1, <1>2 DEF Linked
  <2>3. q.refs = r.refs - 1 /\ q.pending = r.pending - 1 /\ q.old = r.old
    BY <1>1, <1>2
  <2> QED BY <2>1, <2>2, <2>3, Numbers, NType DEF Counts
<1>5. Flags(q) /\ Follows(q, r)
  <2>1. q.st = r.st /\ q.inDB = r.inDB /\ q.marked = r.marked /\ q.addr = r.addr
    BY <1>1, <1>2, Zenon
  <2>2. Flags(r)
    BY Zenon DEF RecordOK
  <2> QED BY <1>0, <2>1, <2>2, FlagsKept, FollowsKept
<1>6. h - 1 \in Nat /\ o - 1 \in Nat /\ o - 1 <= h - 1 /\ (h > 1 => h - 1 > 0)
  OBVIOUS
<1>7. /\ Collect(q) \in Record /\ RecordOK(Collect(q), h - 1, o - 1)
      /\ Follows(Collect(q), q) /\ (h - 1 > 0 => Collect(q) = q)
  BY <1>2, <1>4, <1>5, <1>6, Collected
<1>8. Follows(Collect(q), r)
  BY <1>5, <1>7, FollowsOn
<1>9. h > 1 => Collect(q).reqs = r.reqs /\ Collect(q).conn = r.conn
  BY <1>1, <1>2, <1>6, <1>7, Zenon
<1> QED BY <1>3, <1>7, <1>8, <1>9, Zenon

\* MarkAndRetry: the worker marks the record and lets go of it.
LEMMA MarkedOK ==
    ASSUME NEW r \in Record, NEW h \in Nat, NEW o \in Nat, RecordOK(r, h, o),
           o < h, ~r.inDB
    PROVE  LET q == DecrReference([r EXCEPT !.marked = TRUE]) IN
           /\ q \in Record /\ RecordOK(q, h - 1, o) /\ ~Unmarked(q) /\ ~q.inDB
           /\ h > 1 => q.reqs = r.reqs /\ q.conn = r.conn
<1> DEFINE p == [r EXCEPT !.marked = TRUE]
           q == [p EXCEPT !.refs = p.refs - 1]
<1>0. r.refs - 1 \in Nat /\ r.st = "used" /\ r.refs >= h
  BY Numbers, HeldIsUsed
<1>1. /\ p \in Record /\ p.pending = r.pending /\ p.refs = r.refs /\ p.st = r.st
      /\ p.inDB = r.inDB /\ p.marked = TRUE /\ p.conn = r.conn /\ p.old = r.old
      /\ p.reqs = r.reqs
  BY Zenon, SetMarked
<1> HIDE DEF p
<1>2. /\ q \in Record /\ q.pending = p.pending /\ q.refs = p.refs - 1 /\ q.st = p.st
      /\ q.inDB = p.inDB /\ q.marked = p.marked /\ q.conn = p.conn /\ q.old = p.old
      /\ q.reqs = p.reqs
  <2>1. p \in Record /\ p.refs - 1 \in Nat
    BY <1>0, <1>1
  <2> QED BY <2>1, SetRefs
<1>3. DecrReference([r EXCEPT !.marked = TRUE]) = Collect(q)
  BY DEF DecrReference, p
<1> HIDE DEF q
<1>4. Counts(q, h - 1, o)
  <2>1. Counts(r, h, o)
    BY Zenon DEF RecordOK
  <2>2. Linked(q) = Linked(r)
    BY <1>1, <1>2 DEF Linked
  <2>3. q.refs = r.refs - 1 /\ q.pending = r.pending /\ q.old = r.old
    BY <1>1, <1>2
  <2> QED BY <2>1, <2>2, <2>3, Numbers, NType DEF Counts
<1>5. q.st = "used" /\ ~q.inDB /\ q.marked
  BY <1>0, <1>1, <1>2, Zenon
<1>6. Flags(q) /\ ~Unmarked(q)
  BY <1>5 DEF Flags, Unmarked
<1>7. h - 1 \in Nat /\ o <= h - 1 /\ (h > 1 => h - 1 > 0)
  OBVIOUS
<1>8. /\ Collect(q) \in Record /\ RecordOK(Collect(q), h - 1, o)
      /\ Follows(Collect(q), q) /\ (h - 1 > 0 => Collect(q) = q)
  BY <1>2, <1>4, <1>6, <1>7, Collected
<1>9. ~Unmarked(Collect(q)) /\ ~Collect(q).inDB
  BY <1>5, <1>6, <1>8, Zenon DEF Follows
<1>10. h > 1 => Collect(q).reqs = r.reqs /\ Collect(q).conn = r.conn
  BY <1>1, <1>2, <1>7, <1>8, Zenon
<1> QED BY <1>3, <1>8, <1>9, <1>10, Zenon

\* What changes only the requests of a record
LEMMA SameOK ==
    ASSUME NEW r \in Record, NEW q \in Record, NEW h \in Nat, NEW o \in Nat, RecordOK(r, h, o),
           r.st = "used", q.st = r.st, q.inDB = r.inDB, q.marked = r.marked, q.addr = r.addr,
           q.refs = r.refs, q.pending = r.pending, q.conn = r.conn, q.old = r.old
    PROVE  RecordOK(q, h, o) /\ Follows(q, r)
<1>1. Flags(q) /\ Follows(q, r)
  BY FlagsKept, FollowsKept, Zenon DEF RecordOK
<1>2. Counts(q, h, o)
  BY Zenon DEF RecordOK, Counts, Linked
<1> QED BY <1>1, <1>2, Zenon DEF RecordOK

\* getConnection: the connection object holds a reference.
LEMMA ConnectOK ==
    ASSUME NEW r \in Record, NEW h \in Nat, NEW o \in Nat, RecordOK(r, h, o),
           r.st = "used", r.conn = "null", NEW c \in {"failed", "open"}
    PROVE  LET q == Connect(r, c) IN
           /\ q \in Record /\ RecordOK(q, h, o) /\ Follows(q, r)
           /\ q.st = "used" /\ q.reqs = r.reqs /\ q.conn = c
<1> DEFINE p == [r EXCEPT !.conn = c]
           q == [p EXCEPT !.refs = p.refs + 1]
<1>0. r.refs + 1 \in Nat /\ c \in {"null", "failed", "open"}
  BY Numbers
<1>1. /\ p \in Record /\ p.pending = r.pending /\ p.refs = r.refs /\ p.st = r.st
      /\ p.inDB = r.inDB /\ p.marked = r.marked /\ p.conn = c /\ p.old = r.old
      /\ p.reqs = r.reqs /\ p.addr = r.addr
  BY Zenon, <1>0, SetConn
<1> HIDE DEF p
<1>2. /\ q \in Record /\ q.pending = p.pending /\ q.refs = p.refs + 1 /\ q.st = p.st
      /\ q.inDB = p.inDB /\ q.marked = p.marked /\ q.conn = p.conn /\ q.old = p.old
      /\ q.reqs = p.reqs /\ q.addr = p.addr
  <2>1. p \in Record /\ p.refs + 1 \in Nat
    BY <1>0, <1>1
  <2> QED BY <2>1, SetRefs
<1>3. Connect(r, c) = q
  BY DEF Connect, p
<1> HIDE DEF q
<1>4. Counts(q, h, o) /\ q.refs > 0
  <2>1. Counts(r, h, o)
    BY Zenon DEF RecordOK
  <2>2. Linked(q) = 1 /\ Linked(r) = 0
    BY <1>1, <1>2 DEF Linked
  <2>3. q.refs = r.refs + 1 /\ q.pending = r.pending /\ q.old = r.old
    BY <1>1, <1>2
  <2> QED BY <2>1, <2>2, <2>3, Numbers, NType DEF Counts
<1>5. q.st = r.st /\ q.inDB = r.inDB /\ q.marked = r.marked /\ q.addr = r.addr
  BY <1>1, <1>2, Zenon
<1>6. Flags(q) /\ Follows(q, r)
  BY <1>5, FlagsKept, FollowsKept, Zenon DEF RecordOK
<1>7. q.reqs = r.reqs /\ q.conn = c
  BY <1>1, <1>2
<1> QED BY <1>2, <1>3, <1>4, <1>5, <1>6, <1>7, Zenon DEF RecordOK

\* Disconnect_ field by field
LEMMA DisconnectFields ==
    ASSUME NEW r \in Record, r.conn = "failed" => r.refs > 0
    PROVE  LET d == Disconnect(r) IN
           /\ d \in Record /\ d.st = r.st /\ d.addr = r.addr /\ d.inDB = r.inDB
           /\ d.marked = r.marked /\ d.pending = r.pending /\ Linked(d) = 0
           /\ d.refs - d.old = r.refs - r.old - Linked(r)
           /\ d.old >= r.old /\ (r.conn = "open" => d.old > 0)
<1> DEFINE n == IF r.conn = "failed" THEN r.refs - 1 ELSE r.refs
           k == IF r.conn = "open" THEN r.old + 1 ELSE r.old
           p == [r EXCEPT !.conn = "null"]
           s == [p EXCEPT !.reqs = {}]
           t == [s EXCEPT !.dangling = FALSE]
           u == [t EXCEPT !.refs = n]
           d == [u EXCEPT !.old = k]
<1>0. r.conn \in {"null", "failed", "open"}
  BY DEF Record
<1>1. n \in Nat /\ k \in Nat /\ n - k = r.refs - r.old - Linked(r) /\ k >= r.old
      /\ (r.conn = "open" => k > 0)
  BY <1>0, Numbers DEF Linked
<1>2. Disconnect(r) = d
  BY DEF Disconnect
<1> HIDE DEF n, k
<1>3. /\ p \in Record /\ p.st = r.st /\ p.addr = r.addr /\ p.inDB = r.inDB
      /\ p.marked = r.marked /\ p.pending = r.pending /\ p.conn = "null"
  BY Zenon, SetConn
<1> HIDE DEF p
<1>4. /\ s \in Record /\ s.st = p.st /\ s.addr = p.addr /\ s.inDB = p.inDB
      /\ s.marked = p.marked /\ s.pending = p.pending /\ s.conn = p.conn
  BY <1>3, SetReqs
<1> HIDE DEF s
<1>5. /\ t \in Record /\ t.st = s.st /\ t.addr = s.addr /\ t.inDB = s.inDB
      /\ t.marked = s.marked /\ t.pending = s.pending /\ t.conn = s.conn
  BY Zenon, <1>4, SetDangling
<1> HIDE DEF t
<1>6. /\ u \in Record /\ u.st = t.st /\ u.addr = t.addr /\ u.inDB = t.inDB
      /\ u.marked = t.marked /\ u.pending = t.pending /\ u.conn = t.conn /\ u.refs = n
  BY <1>1, <1>5, SetRefs
<1> HIDE DEF u
<1>7. /\ d \in Record /\ d.st = u.st /\ d.addr = u.addr /\ d.inDB = u.inDB
      /\ d.marked = u.marked /\ d.pending = u.pending /\ d.conn = u.conn /\ d.refs = u.refs
      /\ d.old = k
  BY <1>1, <1>6, SetOld
<1> HIDE DEF d
<1>8. d.refs - d.old = r.refs - r.old - Linked(r) /\ d.old >= r.old /\ (r.conn = "open" => d.old > 0)
  BY <1>1, <1>6, <1>7
<1>9. Linked(d) = 0
  BY <1>3, <1>4, <1>5, <1>6, <1>7 DEF Linked
<1>10. /\ d \in Record /\ d.st = r.st /\ d.addr = r.addr /\ d.inDB = r.inDB
       /\ d.marked = r.marked /\ d.pending = r.pending
  BY <1>3, <1>4, <1>5, <1>6, <1>7, Zenon
<1> QED BY <1>2, <1>8, <1>9, <1>10, Zenon

\* Remove__: the record is taken out of the database and disconnected, by a
\* worker whose request is over.
LEMMA RemoveOK ==
    ASSUME NEW r \in Record, NEW h \in Nat, NEW o \in Nat, RecordOK(r, h, o),
           o > 0, o <= h
    PROVE  LET q == Disconnect(Remove(DecrPending(r))) IN
           q \in Record /\ RecordOK(q, h, o - 1) /\ ~q.inDB
<1> DEFINE p == [r EXCEPT !.pending = r.pending - 1]
           s == [p EXCEPT !.inDB = FALSE]
           q == Disconnect(s)
<1>0. r.pending - 1 \in Int /\ r.st = "used" /\ r.refs > 0
  BY Numbers, HeldIsUsed
<1>1. /\ p \in Record /\ p.pending = r.pending - 1 /\ p.refs = r.refs /\ p.st = r.st
      /\ p.marked = r.marked /\ p.conn = r.conn /\ p.old = r.old
  BY <1>0, SetPending
<1> HIDE DEF p
<1>2. /\ s \in Record /\ s.pending = p.pending /\ s.refs = p.refs /\ s.st = p.st
      /\ s.inDB = FALSE /\ s.marked = p.marked /\ s.conn = p.conn /\ s.old = p.old
  BY Zenon, <1>1, SetInDB
<1>3. Disconnect(Remove(DecrPending(r))) = q
  BY DEF Remove, DecrPending, p
<1> HIDE DEF s
<1>4. s.refs > 0
  BY <1>0, <1>1, <1>2
<1>5. /\ q \in Record /\ q.st = s.st /\ q.inDB = s.inDB
      /\ q.marked = s.marked /\ q.pending = s.pending /\ Linked(q) = 0
      /\ q.refs - q.old = s.refs - s.old - Linked(s)
  BY <1>2, <1>4, DisconnectFields
<1> HIDE DEF q
<1>6. Counts(q, h, o - 1) /\ q.refs > 0
  <2>1. Counts(r, h, o)
    BY Zenon DEF RecordOK
  <2>2. Linked(s) = Linked(r)
    BY <1>1, <1>2 DEF Linked
  <2>3. q.pending = r.pending - 1 /\ q.refs - q.old = r.refs - r.old - Linked(r) /\ Linked(q) = 0
    BY <1>1, <1>2, <1>5, <2>2
  <2>4. q.refs \in Nat /\ q.old \in Nat
    BY <1>5, Numbers
  <2> QED BY <2>1, <2>3, <2>4, Numbers, NType DEF Counts
<1>7. q.st = "used" /\ ~q.inDB
  BY <1>0, <1>1, <1>2, <1>5, Zenon
<1>8. Flags(q)
  BY <1>7 DEF Flags
<1> QED BY <1>3, <1>5, <1>6, <1>7, <1>8, Zenon DEF RecordOK

\* EvConnectionBroken: the record is disconnected and the thread of one of its
\* connections ends.
LEMMA GoneOK ==
    ASSUME NEW r \in Record, NEW h \in Nat, NEW o \in Nat, RecordOK(r, h, o), o <= h,
           r.st = "used", r.conn = "open" \/ r.old > 0
    PROVE  LET d == Disconnect(r)
               q == DecrReference([d EXCEPT !.old = @ - 1])
           IN q \in Record /\ RecordOK(q, h, o) /\ Follows(q, r)
<1> DEFINE d == Disconnect(r)
           p == [d EXCEPT !.old = d.old - 1]
           q == [p EXCEPT !.refs = p.refs - 1]
<1>0. Counts(r, h, o)
  BY Zenon DEF RecordOK
<1>1. r.conn = "failed" => r.refs > 0
  BY <1>0, Numbers DEF Counts, Linked
<1>2. /\ d \in Record /\ d.st = r.st /\ d.addr = r.addr /\ d.inDB = r.inDB
      /\ d.marked = r.marked /\ d.pending = r.pending /\ Linked(d) = 0
      /\ d.refs - d.old = r.refs - r.old - Linked(r)
      /\ d.old >= r.old /\ (r.conn = "open" => d.old > 0)
  BY <1>1, DisconnectFields
<1>3. DecrReference([d EXCEPT !.old = @ - 1]) = Collect(q)
  BY DEF DecrReference
<1> HIDE DEF d
<1>4. d.old \in Nat /\ d.refs \in Nat /\ d.old - 1 \in Nat /\ d.refs - 1 \in Nat /\ d.refs - d.old = h
  BY <1>0, <1>2, Numbers DEF Counts
<1>5. /\ p \in Record /\ p.st = d.st /\ p.addr = d.addr /\ p.inDB = d.inDB /\ p.marked = d.marked
      /\ p.pending = d.pending /\ p.conn = d.conn /\ p.refs = d.refs /\ p.old = d.old - 1
  BY <1>2, <1>4, SetOld
<1> HIDE DEF p
<1>6. /\ q \in Record /\ q.st = p.st /\ q.addr = p.addr /\ q.inDB = p.inDB /\ q.marked = p.marked
      /\ q.pending = p.pending /\ q.conn = p.conn /\ q.refs = p.refs - 1 /\ q.old = p.old
  <2>1. p \in Record /\ p.refs - 1 \in Nat
    BY <1>4, <1>5
  <2> QED BY <2>1, SetRefs
<1> HIDE DEF q
<1>7. Counts(q, h, o)
  <2>1. Linked(q) = 0
    BY <1>2, <1>5, <1>6 DEF Linked
  <2>2. q.refs = d.refs - 1 /\ q.old = d.old - 1 /\ q.pending = r.pending
    BY <1>2, <1>5, <1>6
  <2> QED BY <1>0, <1>4, <2>1, <2>2, Numbers, NType DEF Counts
<1>8. q.st = r.st /\ q.inDB = r.inDB /\ q.marked = r.marked /\ q.addr = r.addr
  BY <1>2, <1>5, <1>6, Zenon
<1>9. Flags(q) /\ Follows(q, r)
  BY <1>8, FlagsKept, FollowsKept, Zenon DEF RecordOK
<1>10. /\ Collect(q) \in Record /\ RecordOK(Collect(q), h, o) /\ Follows(Collect(q), q)
  BY Zenon, <1>6, <1>7, <1>9, Collected
<1>11. Follows(Collect(q), r)
  BY <1>9, <1>10, FollowsOn
<1> QED BY <1>3, <1>10, <1>11, Zenon DEF d

\* Update_ of a record that is there: its requests and its connection stay.
LEMMA RefreshedOK ==
    ASSUME NEW r \in Record, NEW h \in Nat, NEW o \in Nat, RecordOK(r, h, o), o <= N,
           NEW as, kind \in [Addrs -> Types \cup {None}]
    PROVE  LET q == Refreshed(r, as) IN
           /\ q \in Record /\ RecordOK(q, h, o) /\ Follows(q, r)
           /\ q.reqs = r.reqs /\ q.conn = r.conn
           /\ r.inDB => q.inDB /\ q.addr = r.addr
<1> DEFINE q == Refreshed(r, as)
<1>1. CASE ~r.inDB \/ r.addr \notin as
  <2>1. q = r
    BY <1>1, Zenon DEF Refreshed
  <2> QED BY <2>1, Zenon DEF Follows
<1>2. CASE r.inDB /\ r.addr \in as /\ r.type = kind[r.addr]
  <2> DEFINE p == [r EXCEPT !.pending = 0]
  <2>1. q = p
    BY <1>2, Zenon DEF Refreshed
  <2>2. /\ p \in Record /\ p.pending = 0 /\ p.refs = r.refs /\ p.st = r.st
        /\ p.inDB = r.inDB /\ p.marked = r.marked /\ p.conn = r.conn /\ p.old = r.old
        /\ p.reqs = r.reqs /\ p.addr = r.addr
    BY SetPending
  <2> HIDE DEF p
  <2>3. Counts(p, h, o)
    <3>1. Counts(r, h, o)
      BY Zenon DEF RecordOK
    <3>2. Linked(p) = Linked(r)
      BY <2>2 DEF Linked
    <3> QED BY <2>2, <3>1, <3>2, Numbers, NType DEF Counts
  <2>4. r.st = "used" /\ Flags(r) /\ (r.marked => r.refs > 0)
    BY <1>2, Zenon DEF RecordOK, Flags
  <2>5. Flags(p) /\ Follows(p, r)
    BY <2>2, <2>4, FlagsKept, FollowsKept
  <2>6. RecordOK(p, h, o)
    BY <2>2, <2>3, <2>4, <2>5, Zenon DEF RecordOK
  <2> QED BY <2>1, <2>2, <2>5, <2>6, Zenon
<1>3. CASE r.inDB /\ r.addr \in as /\ r.type # kind[r.addr]
  <2> DEFINE p == [r EXCEPT !.type = kind[r.addr]]
  <2>1. q = p
    BY <1>3, Zenon DEF Refreshed
  <2>2. r.st = "used" /\ r.addr \in Addrs
    BY <1>3, Zenon DEF RecordOK, Flags
  <2>3. kind[r.addr] \in Types \cup {None}
    BY <2>2
  <2>4. /\ p \in Record /\ p.pending = r.pending /\ p.refs = r.refs /\ p.st = r.st
        /\ p.inDB = r.inDB /\ p.marked = r.marked /\ p.conn = r.conn /\ p.old = r.old
        /\ p.reqs = r.reqs /\ p.addr = r.addr
    BY <2>3, SetType
  <2> HIDE DEF p
  <2>5. RecordOK(p, h, o) /\ Follows(p, r)
    BY <2>2, <2>4, SameOK
  <2> QED BY <2>1, <2>4, <2>5, Zenon
<1> HIDE DEF q
<1> QED BY <1>1, <1>2, <1>3, Zenon

\* Sweep_: what goes out of the database is marked, and what a worker holds
\* keeps its requests and its connection.
LEMMA SweptOK ==
    ASSUME NEW r \in Record, NEW h \in Nat, NEW o \in Nat, RecordOK(r, h, o), o <= h, h <= N,
           NEW as, kind \in [Addrs -> Types \cup {None}]
    PROVE  LET q == Sweep(r, as) IN
           /\ q \in Record /\ RecordOK(q, h, o) /\ Follows(q, r)
           /\ h > 0 => q.reqs = r.reqs /\ q.conn = r.conn
<1> DEFINE q == Sweep(r, as)
           Out_ == r.inDB /\ r.conn = "null" /\ (r.addr \in as => r.type # kind[r.addr])
<1>1. CASE Out_
  <2> DEFINE p == [r EXCEPT !.inDB = FALSE]
             s == [p EXCEPT !.marked = TRUE]
  <2>1. q = Collect(s)
    BY <1>1, Zenon DEF Sweep, MarkForDeletion
  <2>2. /\ p \in Record /\ p.pending = r.pending /\ p.refs = r.refs /\ p.st = r.st
        /\ p.inDB = FALSE /\ p.conn = r.conn /\ p.old = r.old /\ p.reqs = r.reqs
    BY Zenon, SetInDB
  <2> HIDE DEF p
  <2>3. /\ s \in Record /\ s.pending = p.pending /\ s.refs = p.refs /\ s.st = p.st
        /\ s.inDB = p.inDB /\ s.marked = TRUE /\ s.conn = p.conn /\ s.old = p.old
        /\ s.reqs = p.reqs
    BY Zenon, <2>2, SetMarked
  <2> HIDE DEF s
  <2>4. Counts(s, h, o)
    <3>1. Counts(r, h, o)
      BY Zenon DEF RecordOK
    <3>2. Linked(s) = Linked(r)
      BY <2>2, <2>3 DEF Linked
    <3> QED BY <2>2, <2>3, <3>1, <3>2, Zenon DEF Counts
  <2>5. s.st = "used" /\ ~s.inDB /\ s.marked
    BY <1>1, <2>2, <2>3, Zenon DEF RecordOK, Flags
  <2>6. Flags(s) /\ ~Unmarked(s)
    BY <2>5 DEF Flags, Unmarked
  <2>7. /\ Collect(s) \in Record /\ RecordOK(Collect(s), h, o) /\ Follows(Collect(s), s)
        /\ (h > 0 => Collect(s) = s)
    BY <2>3, <2>4, <2>6, Collected
  <2>8. Follows(Collect(s), r)
    BY <2>5, <2>6, <2>7, Zenon DEF Follows
  <2> QED BY <2>1, <2>2, <2>3, <2>7, <2>8, Zenon
<1>2. CASE ~Out_
  <2>1. q = Refreshed(r, as)
    BY <1>2, Zenon DEF Sweep
  <2>2. o <= N
    BY NType
  <2> DEFINE p == Refreshed(r, as)
  <2>3. p \in Record /\ RecordOK(p, h, o) /\ Follows(p, r) /\ p.reqs = r.reqs /\ p.conn = r.conn
    BY Zenon, <2>2, RefreshedOK
  <2> HIDE DEF p
  <2> QED BY <2>1, <2>3, Zenon DEF p
<1> HIDE DEF q
<1> QED BY <1>1, <1>2, Zenon

\* A record that is made for an address: nobody holds it.
LEMMA CachedOK ==
    ASSUME NEW a \in Addrs, kind \in [Addrs -> Types \cup {None}]
    PROVE  LET q == Cached(a) IN
           /\ q \in Record /\ RecordOK(q, 0, 0) /\ ~Unmarked(q) /\ q.addr = a /\ q.inDB
<1> DEFINE q == Cached(a)
<1>1. kind[a] \in Types \cup {None}
  OBVIOUS
<1>2. /\ q.st = "used" /\ q.addr = a /\ q.inDB = TRUE /\ q.marked = FALSE /\ q.refs = 0
      /\ q.pending = 0 /\ q.conn = "null" /\ q.old = 0
  BY DEF Cached, Free
<1>3. q \in Record
  <2> DEFINE p == [Free EXCEPT !.st = "used"]
             s == [p EXCEPT !.addr = a]
             t == [s EXCEPT !.type = kind[a]]
  <2>1. p \in Record
    BY FreeOK DEF Record
  <2> HIDE DEF p
  <2>2. s \in Record
    BY <2>1 DEF Record
  <2> HIDE DEF s
  <2>3. t \in Record
    BY <1>1, <2>2, SetType
  <2> HIDE DEF t
  <2>4. [t EXCEPT !.inDB = TRUE] \in Record
    BY Zenon, <2>3, SetInDB
  <2> QED BY <2>4, Zenon DEF Cached, p, s, t
<1> HIDE DEF q
<1>4. Counts(q, 0, 0)
  BY <1>2, NType DEF Counts, Linked
<1>5. Flags(q) /\ ~Unmarked(q) /\ ~q.marked
  BY <1>2 DEF Flags, Unmarked
<1>6. q.addr = a /\ q.inDB
  BY <1>2
<1> QED BY <1>3, <1>4, <1>5, <1>6, Zenon DEF RecordOK, q
-----------------------------------------------------------------------------
(* Who holds a record                                                      *)

\* There are never more requests out than holders, nor more holders than workers.
LEMMA Sizes ==
    ASSUME NEW H, NEW O, O \subseteq H, H \subseteq Workers
    PROVE  /\ IsFiniteSet(H) /\ IsFiniteSet(O)
           /\ Cardinality(H) \in Nat /\ Cardinality(O) \in Nat
           /\ Cardinality(O) <= Cardinality(H) /\ Cardinality(H) <= N
           /\ H # {} => Cardinality(H) > 0
           /\ H # O => Cardinality(O) < Cardinality(H)
<1>1. IsFiniteSet(H) /\ Cardinality(H) <= N
  BY StubConstants, FS_Subset DEF N
<1>2. /\ IsFiniteSet(O) /\ Cardinality(O) <= Cardinality(H)
      /\ Cardinality(O) = Cardinality(H) => O = H
  BY <1>1, FS_Subset
<1>3. Cardinality(H) \in Nat /\ Cardinality(O) \in Nat
  BY <1>1, <1>2, FS_CardinalityType
<1>4. H # {} => Cardinality(H) > 0
  BY <1>1, <1>3, FS_EmptySet
<1> QED BY <1>1, <1>2, <1>3, <1>4

\* One more or one fewer
LEMMA OneMore ==
    ASSUME NEW H, NEW w, H \subseteq Workers, w \notin H
    PROVE  Cardinality(H \cup {w}) = Cardinality(H) + 1
BY Sizes, FS_AddElement

\* One holder goes.
LEMMA OneLess ==
    ASSUME NEW H, NEW w, H \subseteq Workers, w \in H
    PROVE  Cardinality(H \ {w}) = Cardinality(H) - 1 /\ Cardinality(H) > 0
<1>1. IsFiniteSet(H) /\ Cardinality(H) \in Nat /\ Cardinality(H) > 0
  BY Sizes
<1> QED BY Zenon, <1>1, FS_RemoveElement

\* The holders of a record are workers, and those with a request out hold it.
LEMMA HoldersAreWorkers ==
    ASSUME NEW i
    PROVE  Out(i) \subseteq Holders(i) /\ Holders(i) \subseteq Workers
BY DEF Out, Holders

\* A step in which a worker neither takes nor leaves a record, nor gives up its request
Stays(v) ==
    /\ wrk'[v].rec = wrk[v].rec
    /\ wrk'[v].pc = "mark" <=> wrk[v].pc = "mark"

\* All but one worker stay: only it comes or goes.
LEMMA OthersStay ==
    ASSUME NEW w \in Workers, \A v \in Workers \ {w} : Stays(v), NEW j
    PROVE  /\ Holders(j)' \ {w} = Holders(j) \ {w}
           /\ Out(j)' \ {w} = Out(j) \ {w}
           /\ w \in Holders(j)' <=> wrk'[w].rec = j
           /\ w \in Out(j)' <=> wrk'[w].rec = j /\ wrk'[w].pc # "mark"
           /\ w \in Holders(j) <=> wrk[w].rec = j
           /\ w \in Out(j) <=> wrk[w].rec = j /\ wrk[w].pc # "mark"
BY Zenon DEF Stays, Holders, Out

\* A record that the worker does not hold before or after is held as before.
LEMMA OtherRecords ==
    ASSUME NEW w \in Workers, \A v \in Workers \ {w} : Stays(v), NEW j,
           wrk[w].rec # j, wrk'[w].rec # j
    PROVE  Holders(j)' = Holders(j) /\ Out(j)' = Out(j)
<1>1. /\ Holders(j)' \ {w} = Holders(j) \ {w} /\ Out(j)' \ {w} = Out(j) \ {w}
      /\ w \notin Holders(j)' /\ w \notin Out(j)' /\ w \notin Holders(j) /\ w \notin Out(j)
  BY OthersStay, Zenon
<1> QED BY <1>1

\* Nobody comes or goes.
LEMMA AllStay ==
    ASSUME \A v \in Workers : Stays(v), NEW j
    PROVE  Holders(j)' = Holders(j) /\ Out(j)' = Out(j)
BY Zenon DEF Stays, Holders, Out

\* A worker that stays where it is, while its record keeps what it needs
LEMMA WorkerKept ==
    ASSUME NEW v \in Workers, WorkerOK(v), wrk'[v].rec = wrk[v].rec, wrk'[v].pc = wrk[v].pc,
           wrk'[v].type = wrk[v].type, wrk[v].stop => wrk'[v].stop,
           late'[v] = "fresh" => late[v] = "fresh",
           wrk[v].pc = "mark" => (rec'[wrk[v].rec].inDB => rec[wrk[v].rec].inDB),
           HasRequest(v) /\ v \in rec[wrk[v].rec].reqs /\ rec[wrk[v].rec].conn # "null"
             => wrk'[v].stop \/ (v \in rec'[wrk[v].rec].reqs /\ rec'[wrk[v].rec].conn # "null")
    PROVE  WorkerOK(v)'
BY Zenon DEF WorkerOK, HasRequest, Rec

\* One record changes; the holders of the others do not.
LEMMA OneChanges ==
    ASSUME IInv, NEW i \in Slots, NEW q \in Record, rec' = [rec EXCEPT ![i] = q],
           RecordOK(q, Cardinality(Holders(i)'), Cardinality(Out(i)')),
           Unmarked(q) => Out(i)' # Holders(i)',
           q.inDB => rec[i].inDB /\ q.addr = rec[i].addr,
           \A j \in Slots \ {i} : Holders(j)' = Holders(j) /\ Out(j)' = Out(j)
    PROVE  /\ rec' \in [Slots -> Record] /\ RecordsOK' /\ RemovedOK' /\ OneRecordPerAddress'
           /\ rec'[i] = q /\ \A j \in Slots \ {i} : rec'[j] = rec[j]
<1>1. rec \in [Slots -> Record]
  BY DEF IInv, TypeOK
<1>2. /\ rec' \in [Slots -> Record] /\ rec'[i] = q
      /\ \A j \in Slots \ {i} : rec'[j] = rec[j]
  BY <1>1
<1>3. RecordsOK'
  <2>1. ASSUME NEW j \in Slots
        PROVE  RecordOK(rec'[j], Cardinality(Holders(j)'), Cardinality(Out(j)'))
    <3>1. CASE j = i
      BY <1>2, <3>1, Zenon
    <3>2. CASE j # i
      <4>1. rec'[j] = rec[j] /\ Holders(j)' = Holders(j) /\ Out(j)' = Out(j)
        BY <1>2, <3>2, Zenon
      <4>2. RecordOK(rec[j], Cardinality(Holders(j)), Cardinality(Out(j)))
        BY Zenon DEF IInv, RecordsOK
      <4> QED BY <4>1, <4>2, Zenon
    <3> QED BY <3>1, <3>2, Zenon
  <2> QED BY <2>1, Zenon DEF RecordsOK
<1>4. RemovedOK'
  <2>1. ASSUME NEW j \in Slots, Unmarked(rec'[j])
        PROVE  Out(j)' # Holders(j)'
    <3>1. CASE j = i
      BY <1>2, <2>1, <3>1, Zenon
    <3>2. CASE j # i
      <4>1. rec'[j] = rec[j] /\ Holders(j)' = Holders(j) /\ Out(j)' = Out(j)
        BY <1>2, <3>2, Zenon
      <4>2. Unmarked(rec[j]) => Out(j) # Holders(j)
        BY Zenon DEF IInv, RemovedOK
      <4> QED BY <2>1, <4>1, <4>2, Zenon
    <3> QED BY <3>1, <3>2, Zenon
  <2> QED BY <2>1, Zenon DEF RemovedOK, Unmarked
<1>5. OneRecordPerAddress'
  <2>1. ASSUME NEW j \in Slots, rec'[j].inDB
        PROVE  rec[j].inDB /\ rec'[j].addr = rec[j].addr
    <3>1. CASE j = i
      BY <1>2, <2>1, <3>1, Zenon
    <3>2. CASE j # i
      <4>1. rec'[j] = rec[j]
        BY <1>2, <3>2, Zenon
      <4> QED BY <2>1, <4>1, Zenon
    <3> QED BY <3>1, <3>2, Zenon
  <2>2. ASSUME NEW j \in Slots, NEW k \in Slots, rec'[j].inDB, rec'[k].inDB,
               rec'[j].addr = rec'[k].addr
        PROVE  j = k
    <3>1. rec[j].inDB /\ rec[k].inDB /\ rec[j].addr = rec[k].addr
      BY <2>1, <2>2, Zenon
    <3> QED BY <3>1, Zenon DEF IInv, OneRecordPerAddress
  <2> QED BY <2>2, Zenon DEF OneRecordPerAddress
<1> QED BY <1>2, <1>3, <1>4, <1>5, Zenon

\* No record changes, and nobody comes or goes.
LEMMA NoneChanges ==
    ASSUME IInv, rec' = rec, \A v \in Workers : Stays(v)
    PROVE  /\ rec' \in [Slots -> Record] /\ RecordsOK' /\ RemovedOK' /\ OneRecordPerAddress'
<1>1. \A j \in Slots : Holders(j)' = Holders(j) /\ Out(j)' = Out(j)
  BY AllStay, Zenon
<1>2. RecordsOK'
  BY <1>1, Zenon DEF IInv, RecordsOK
<1>3. RemovedOK'
  BY <1>1, Zenon DEF IInv, RemovedOK, Unmarked
<1> QED BY <1>2, <1>3, Zenon DEF IInv, TypeOK, OneRecordPerAddress
-----------------------------------------------------------------------------
(* The steps keep the inductive invariant                                  *)

Statements == {"idle", "find", "ask", "refind", "negative", "distill", "send", "wait",
            "remove", "mark"}

\* The parts of a worker
LEMMA WorkerFields ==
    ASSUME NEW u \in Worker
    PROVE  /\ u.pc \in Statements
           /\ u.type \in Types \cup {None} /\ u.rec \in Slots \cup {None}
           /\ u.stop \in BOOLEAN /\ u.via \in {"null", "failed", "open"}
BY DEF Worker, Statements

\* Only the place of a worker changes.
LEMMA SetPc ==
    ASSUME NEW u \in Worker,
           NEW pc \in Statements
    PROVE  LET x == [u EXCEPT !.pc = pc] IN
           /\ x \in Worker /\ x.pc = pc /\ x.rec = u.rec /\ x.type = u.type
           /\ x.stop = u.stop /\ x.via = u.via
BY DEF Worker, Statements

\* A worker at the start of Distill, and one that is not in it
LEMMA Starting ==
    ASSUME NEW t \in Types
    PROVE  LET x == [Idle EXCEPT !.pc = "find", !.type = t] IN
           /\ x \in Worker /\ x.pc = "find" /\ x.rec = None /\ x.type = t /\ x.stop = FALSE
           /\ Idle \in Worker /\ Idle.pc = "idle" /\ Idle.rec = None
BY Zenon DEF Worker, Idle

\* No worker moves.
LEMMA StillStep ==
    ASSUME IInv, rec' = rec, wrk' = wrk, late' = late,
           life' \in [Addrs -> {"unborn", "alive", "dead"}],
           kind' \in [Addrs -> Types \cup {None}], renames' \in 0 .. MaxRenames,
           neg' \subseteq Types
    PROVE  IInv'
<1>1. \A v \in Workers : Stays(v)
  BY Zenon DEF Stays
<1>2. rec' \in [Slots -> Record] /\ RecordsOK' /\ RemovedOK' /\ OneRecordPerAddress'
  BY <1>1, NoneChanges
<1>3. TypeOK'
  BY <1>2, Zenon DEF IInv, TypeOK
<1>4. ASSUME NEW v \in Workers PROVE WorkerOK(v)'
  <2>1. WorkerOK(v)
    BY Zenon DEF IInv
  <2> QED BY <2>1, WorkerKept, Zenon
<1> QED BY <1>2, <1>3, <1>4, Zenon DEF IInv

\* A worker without a record moves and takes none: Begin, and where
\* getDistiller finds nothing.
LEMMA QuietStep ==
    ASSUME IInv, NEW w \in Workers, NEW u \in Worker, wrk' = [wrk EXCEPT ![w] = u],
           wrk[w].pc \notin Using, u.pc \notin Using, u.rec = None,
           u.pc # "idle" => u.type \in Types, rec' = rec, late' = late, UNCHANGED env,
           neg' \subseteq Types
    PROVE  IInv'
<1>1. wrk \in [Workers -> Worker]
  BY DEF IInv, TypeOK
<1>2. wrk' \in [Workers -> Worker] /\ wrk'[w] = u /\ \A v \in Workers \ {w} : wrk'[v] = wrk[v]
  BY <1>1
<1>3. wrk[w].rec = None /\ late[w] # "fresh"
  BY DEF IInv, WorkerOK, HasRequest, Using
<1>4. \A v \in Workers : Stays(v)
  <2>1. Stays(w)
    BY <1>2, <1>3 DEF Stays, Using
  <2>2. ASSUME NEW v \in Workers \ {w} PROVE Stays(v)
    BY <1>2, Zenon DEF Stays
  <2> QED BY <2>1, <2>2, Zenon
<1>5. rec' \in [Slots -> Record] /\ RecordsOK' /\ RemovedOK' /\ OneRecordPerAddress'
  BY <1>4, NoneChanges
<1>6. TypeOK'
  BY <1>2, <1>5, Zenon DEF IInv, TypeOK, env
<1>7. ASSUME NEW v \in Workers PROVE WorkerOK(v)'
  <2>1. CASE v = w
    BY <1>2, <1>3, <2>1 DEF WorkerOK, HasRequest, Using
  <2>2. CASE v # w
    <3>1. WorkerOK(v) /\ wrk'[v] = wrk[v]
      BY <1>2, <2>2, Zenon DEF IInv
    <3> QED BY <3>1, WorkerKept, Zenon
  <2> QED BY <2>1, <2>2
<1> QED BY <1>5, <1>6, <1>7, Zenon DEF IInv

\* Distillers and the PTM change nothing of the cache.
LEMMA EnvironmentStep == ASSUME IInv, Environment PROVE IInv'
<1>0. /\ life \in [Addrs -> {"unborn", "alive", "dead"}] /\ kind \in [Addrs -> Types \cup {None}]
      /\ renames \in 0 .. MaxRenames /\ neg \subseteq Types
  BY DEF IInv, TypeOK
<1>1. ASSUME NEW a \in Addrs, Die(a) PROVE IInv'
  BY <1>0, <1>1, StillStep DEF Die
<1>2. ASSUME NEW a \in Addrs, Forget(a) PROVE IInv'
  BY <1>0, <1>2, StillStep DEF Forget
<1>3. ASSUME NEW a \in Addrs, NEW t \in Wanted, Start(a, t) PROVE IInv'
  <2>1. t \in Types
    BY StubConstants
  <2> QED BY <1>0, <1>3, <2>1, StillStep DEF Start
<1>4. ASSUME NEW a \in Addrs, NEW t \in Types, Rename(a, t) PROVE IInv'
  <2>1. renames' \in 0 .. MaxRenames
    BY <1>0, <1>4, StubConstants DEF Rename
  <2> QED BY <1>0, <1>4, <2>1, StillStep DEF Rename
<1>5. CASE FlushNCache
  BY <1>0, <1>5, StillStep DEF FlushNCache, env
<1> QED BY <1>1, <1>2, <1>3, <1>4, <1>5, Zenon DEF Environment

\* A request begins.
LEMMA BeginStep ==
    ASSUME IInv, NEW w \in Workers, NEW t \in Wanted, Begin(w, t) PROVE IInv'
<1> DEFINE u == [Idle EXCEPT !.pc = "find", !.type = t]
<1>1. t \in Types
  BY StubConstants
<1>2. u \in Worker /\ u.pc = "find" /\ u.rec = None /\ u.type = t
  BY Zenon, <1>1, Starting
<1>3. wrk' = [wrk EXCEPT ![w] = u] /\ rec' = rec /\ late' = late /\ UNCHANGED env /\ neg' = neg
      /\ wrk[w].pc = "idle"
  BY DEF Begin, At
<1> HIDE DEF u
<1>4. neg' \subseteq Types
  BY <1>3 DEF IInv, TypeOK
<1> QED BY Zenon, <1>1, <1>2, <1>3, <1>4, QuietStep DEF Using

\* Distill returns without a record.
LEMMA ReturnStep ==
    ASSUME IInv, NEW w \in Workers, wrk[w].pc \notin Using, Return(w), rec' = rec,
           late' = late, UNCHANGED env, neg' \subseteq Types
    PROVE  IInv'
<1>2. Idle \in Worker /\ Idle.pc = "idle" /\ Idle.rec = None
  BY DEF Idle, Worker
<1>3. wrk' = [wrk EXCEPT ![w] = Idle]
  BY DEF Return
<1> QED BY Zenon, <1>2, <1>3, QuietStep DEF Using

\* Distill goes on to ask the PTM, or to look again.
LEMMA GotoStep ==
    ASSUME IInv, NEW w \in Workers, wrk[w].pc \notin Using, wrk[w].pc # "idle",
           NEW pc \in {"ask", "negative", "refind"}, Goto(w, pc), rec' = rec,
           late' = late, UNCHANGED env, neg' \subseteq Types
    PROVE  IInv'
<1> DEFINE u == [wrk[w] EXCEPT !.pc = pc]
<1>1. wrk \in [Workers -> Worker] /\ wrk[w].rec = None /\ wrk[w].type \in Types
  BY DEF IInv, TypeOK, WorkerOK
<1>2. u \in Worker /\ u.pc = pc /\ u.rec = None /\ u.type \in Types
  <2>1. wrk[w] \in Worker /\ pc \in Statements
    BY <1>1 DEF Statements
  <2>2. u \in Worker /\ u.pc = pc /\ u.rec = wrk[w].rec /\ u.type = wrk[w].type
    BY <2>1, SetPc
  <2> QED BY <1>1, <2>2
<1>3. wrk' = [wrk EXCEPT ![w] = u]
  BY DEF Goto
<1> HIDE DEF u
<1> QED BY Zenon, <1>2, <1>3, QuietStep DEF Using

\* getDistiller takes a record of the database.
LEMMA TakeStep ==
    ASSUME IInv, NEW w \in Workers, wrk[w].pc \in {"find", "refind"}, Take(w),
           UNCHANGED <<env, neg, late>>
    PROVE  IInv'
<1>1. PICK i \in Candidates(wrk[w].type) :
        /\ rec' = [rec EXCEPT ![i] = Referenced(@)]
        /\ wrk' = [wrk EXCEPT ![w].pc = "distill", ![w].rec = i]
  BY Zenon DEF Take
<1> DEFINE q == Referenced(rec[i])
           h == Cardinality(Holders(i))
           o == Cardinality(Out(i))
<1>2. i \in Slots /\ rec[i].inDB /\ rec \in [Slots -> Record] /\ wrk \in [Workers -> Worker]
  BY DEF Candidates, IInv, TypeOK
<1>3. rec' = [rec EXCEPT ![i] = q]
  BY <1>1
<1>4. wrk[w].rec = None /\ wrk[w].type \in Types /\ late[w] # "fresh" /\ None \notin Slots
  BY StubConstants DEF IInv, WorkerOK, HasRequest, Using
<1>5. /\ wrk' \in [Workers -> Worker] /\ wrk'[w].pc = "distill" /\ wrk'[w].rec = i
      /\ wrk'[w].type = wrk[w].type
      /\ \A v \in Workers \ {w} : wrk'[v] = wrk[v]
  BY Zenon, <1>1, <1>2 DEF Worker
<1>6. \A v \in Workers \ {w} : Stays(v)
  BY <1>5, Zenon DEF Stays
<1>7. Holders(i)' = Holders(i) \cup {w} /\ Out(i)' = Out(i) \cup {w}
      /\ w \notin Holders(i) /\ w \notin Out(i)
  <2>1. /\ Holders(i)' \ {w} = Holders(i) \ {w} /\ Out(i)' \ {w} = Out(i) \ {w}
        /\ w \in Holders(i)' /\ w \in Out(i)' /\ w \notin Holders(i) /\ w \notin Out(i)
    BY <1>2, <1>4, <1>5, <1>6, OthersStay
  <2> QED BY <2>1
<1>8. Cardinality(Holders(i)') = h + 1 /\ Cardinality(Out(i)') = o + 1 /\ h \in Nat /\ o \in Nat
  BY <1>7, HoldersAreWorkers, Sizes, OneMore
<1>9. rec[i] \in Record /\ RecordOK(rec[i], h, o) /\ (Unmarked(rec[i]) => Out(i) # Holders(i))
  BY <1>2, Zenon DEF IInv, RecordsOK, RemovedOK
<1> HIDE DEF h, o
<1>10. /\ q \in Record /\ RecordOK(q, h + 1, o + 1) /\ Follows(q, rec[i])
       /\ q.reqs = rec[i].reqs /\ q.conn = rec[i].conn
  BY <1>2, <1>8, <1>9, ReferencedOK
<1> HIDE DEF q
<1>11. \A j \in Slots \ {i} : Holders(j)' = Holders(j) /\ Out(j)' = Out(j)
  BY <1>4, <1>5, <1>6, OtherRecords
<1>12. /\ rec' \in [Slots -> Record] /\ RecordsOK' /\ RemovedOK' /\ OneRecordPerAddress'
       /\ rec'[i] = q /\ \A j \in Slots \ {i} : rec'[j] = rec[j]
  <2>1. RecordOK(q, Cardinality(Holders(i)'), Cardinality(Out(i)'))
    BY <1>8, <1>10, Zenon
  <2>2. ~Unmarked(q)
    BY <1>2, <1>10, Zenon DEF Follows, Unmarked
  <2>3. q.inDB => rec[i].inDB /\ q.addr = rec[i].addr
    BY <1>10, Zenon DEF Follows
  <2> QED BY Zenon, <1>2, <1>3, <1>10, <1>11, <2>1, <2>2, <2>3, OneChanges
<1>13. TypeOK'
  BY <1>5, <1>12, Zenon DEF IInv, TypeOK, env
<1>14. ASSUME NEW v \in Workers PROVE WorkerOK(v)'
  <2>1. CASE v = w
    BY <1>2, <1>4, <1>5, <2>1 DEF WorkerOK, HasRequest, Using
  <2>2. CASE v # w
    <3>1. WorkerOK(v) /\ wrk'[v] = wrk[v]
      BY <1>5, <2>2, Zenon DEF IInv
    <3>2. late' = late
      OBVIOUS
    <3>3. HasRequest(v) \/ wrk[v].pc = "mark" => wrk[v].rec \in Slots
      BY <1>2, <3>1, WorkerFields DEF WorkerOK, HasRequest, Using
    <3>4. wrk[v].rec \in Slots => /\ rec'[wrk[v].rec].inDB => rec[wrk[v].rec].inDB
                                  /\ rec'[wrk[v].rec].reqs = rec[wrk[v].rec].reqs
                                  /\ rec'[wrk[v].rec].conn = rec[wrk[v].rec].conn
      BY <1>2, <1>10, <1>12, Zenon
    <3> QED BY <3>1, <3>2, <3>3, <3>4, WorkerKept, Zenon
  <2> QED BY <2>1, <2>2
<1> QED BY <1>12, <1>13, <1>14, Zenon DEF IInv

\* A step that changes one record, and moves of its holders those in M: the
\* other workers are at most told that their request is over.
Moved(i, M) ==
    \A v \in M : wrk[v].rec = i /\ wrk'[v].rec \in {i, None} /\ WorkerOK(v)'
NotMoved(M) ==
    \A v \in Workers \ M :
       /\ wrk'[v].rec = wrk[v].rec /\ wrk'[v].pc = wrk[v].pc
       /\ wrk'[v].type = wrk[v].type /\ (wrk[v].stop => wrk'[v].stop)
       /\ late'[v] = late[v]
Served(i, q, M) ==
    \A v \in Holders(i) \ M :
       HasRequest(v) /\ v \in rec[i].reqs /\ rec[i].conn # "null"
         => wrk'[v].stop \/ (v \in q.reqs /\ q.conn # "null")
Fits(i, q) ==
    /\ RecordOK(q, Cardinality(Holders(i)'), Cardinality(Out(i)'))
    /\ Unmarked(q) => Out(i)' # Holders(i)'
    /\ q.inDB => rec[i].inDB /\ q.addr = rec[i].addr

\* Such a step keeps the invariant.
LEMMA RecordStep ==
    ASSUME IInv, NEW i \in Slots, NEW q \in Record, rec' = [rec EXCEPT ![i] = q],
           NEW M \in SUBSET Workers, Moved(i, M), NotMoved(M), Served(i, q, M), Fits(i, q),
           wrk' \in [Workers -> Worker], late' \in [Workers -> {"none", "fresh", "stale"}],
           UNCHANGED env, UNCHANGED neg
    PROVE  IInv'
<1>1. None \notin Slots /\ wrk \in [Workers -> Worker]
  BY StubConstants DEF IInv, TypeOK
<1>2. ASSUME NEW j \in Slots \ {i}
      PROVE  Holders(j)' = Holders(j) /\ Out(j)' = Out(j)
  <2>1. ASSUME NEW v \in Workers
        PROVE  /\ wrk'[v].rec = j <=> wrk[v].rec = j
               /\ wrk[v].rec = j => wrk'[v].pc = wrk[v].pc
    <3>1. CASE v \in M
      BY <1>1, <3>1 DEF Moved
    <3>2. CASE v \notin M
      BY <3>2, Zenon DEF NotMoved
    <3> QED BY <3>1, <3>2
  <2>2. Holders(j)' = Holders(j)
    BY <2>1, Zenon DEF Holders
  <2>3. \A v \in Holders(j) : wrk'[v].pc = wrk[v].pc
    BY <2>1, Zenon DEF Holders
  <2> HIDE DEF Holders
  <2>4. Out(j)' = Out(j)
    BY <2>2, <2>3 DEF Out
  <2> QED BY <2>2, <2>4
<1>3. /\ rec' \in [Slots -> Record] /\ RecordsOK' /\ RemovedOK' /\ OneRecordPerAddress'
      /\ rec'[i] = q /\ \A j \in Slots \ {i} : rec'[j] = rec[j]
  BY Zenon, <1>2, OneChanges DEF Fits
<1>4. TypeOK'
  BY <1>3, Zenon DEF IInv, TypeOK, env
<1>5. ASSUME NEW v \in Workers PROVE WorkerOK(v)'
  <2>1. CASE v \in M
    BY <2>1, Zenon DEF Moved
  <2>2. CASE v \notin M
    <3>1. /\ WorkerOK(v) /\ wrk'[v].rec = wrk[v].rec /\ wrk'[v].pc = wrk[v].pc
          /\ wrk'[v].type = wrk[v].type /\ (wrk[v].stop => wrk'[v].stop)
          /\ late'[v] = late[v]
      BY <2>2, Zenon DEF IInv, NotMoved
    <3>2. HasRequest(v) \/ wrk[v].pc = "mark" => wrk[v].rec \in Slots
      BY <1>1, <3>1, WorkerFields DEF WorkerOK, HasRequest, Using
    <3>3. CASE wrk[v].rec = i
      <4>1. v \in Holders(i) \ M
        BY <2>2, <3>3 DEF Holders
      <4>2. rec'[i].inDB => rec[i].inDB
        BY <1>3, Zenon DEF Fits
      <4>3. HasRequest(v) /\ v \in rec[i].reqs /\ rec[i].conn # "null"
              => wrk'[v].stop \/ (v \in rec'[i].reqs /\ rec'[i].conn # "null")
        BY <1>3, <4>1, Zenon DEF Served
      <4> QED BY <3>1, <3>3, <4>2, <4>3, WorkerKept, Zenon
    <3>4. CASE wrk[v].rec # i
      <4>1. wrk[v].rec \in Slots => rec'[wrk[v].rec] = rec[wrk[v].rec]
        BY <1>3, <3>4
      <4> QED BY <3>1, <3>2, <4>1, WorkerKept, Zenon
    <3> QED BY <3>3, <3>4
  <2> QED BY <2>1, <2>2
<1> QED BY <1>3, <1>4, <1>5, Zenon DEF IInv

\* What the invariant says of a worker with a record, and of its record
LEMMA HolderFacts ==
    ASSUME IInv, NEW w \in Workers, wrk[w].pc \in Using, NEW i, wrk[w].rec = i
    PROVE  /\ i \in Slots /\ rec[i] \in Record
           /\ RecordOK(rec[i], Cardinality(Holders(i)), Cardinality(Out(i)))
           /\ Unmarked(rec[i]) => Out(i) # Holders(i)
           /\ Cardinality(Holders(i)) \in Nat /\ Cardinality(Out(i)) \in Nat
           /\ Cardinality(Out(i)) <= Cardinality(Holders(i)) /\ Cardinality(Holders(i)) > 0
           /\ w \in Holders(i) /\ (wrk[w].pc # "mark" <=> w \in Out(i))
           /\ rec[i].st = "used" /\ wrk[w] \in Worker /\ wrk[w].type \in Types
<1>1. wrk[w] \in Worker /\ rec \in [Slots -> Record]
  BY DEF IInv, TypeOK
<1>2. i \in Slots /\ wrk[w].type \in Types
  BY <1>1, WorkerFields DEF IInv, WorkerOK, Using
<1>3. w \in Holders(i) /\ (wrk[w].pc # "mark" <=> w \in Out(i))
  BY DEF Holders, Out
<1>4. rec[i] \in Record
  BY <1>1, <1>2
<1>5. RecordOK(rec[i], Cardinality(Holders(i)), Cardinality(Out(i)))
      /\ (Unmarked(rec[i]) => Out(i) # Holders(i))
  BY <1>2, Zenon DEF IInv, RecordsOK, RemovedOK
<1>6. Holders(i) # {} /\ Out(i) \subseteq Holders(i) /\ Holders(i) \subseteq Workers
  BY <1>3, HoldersAreWorkers
<1>7. /\ Cardinality(Holders(i)) \in Nat /\ Cardinality(Out(i)) \in Nat
      /\ Cardinality(Out(i)) <= Cardinality(Holders(i)) /\ Cardinality(Holders(i)) > 0
  BY <1>6, Sizes
<1>8. rec[i].st = "used"
  BY <1>4, <1>5, <1>7, HeldIsUsed
<1> QED BY <1>1, <1>2, <1>3, <1>4, <1>5, <1>7, <1>8, Zenon

\* One worker moves on with its record, which does not change.
LEMMA AloneStep ==
    ASSUME IInv, NEW w \in Workers, rec' = rec, Stays(w), WorkerOK(w)',
           \A v \in Workers \ {w} : wrk'[v] = wrk[v] /\ late'[v] = late[v],
           wrk' \in [Workers -> Worker], late' \in [Workers -> {"none", "fresh", "stale"}],
           UNCHANGED env, UNCHANGED neg
    PROVE  IInv'
<1>1. \A v \in Workers : Stays(v)
  <2>1. ASSUME NEW v \in Workers \ {w} PROVE Stays(v)
    BY Zenon DEF Stays
  <2> QED BY <2>1, Zenon
<1>2. rec' \in [Slots -> Record] /\ RecordsOK' /\ RemovedOK' /\ OneRecordPerAddress'
  BY <1>1, NoneChanges
<1>3. TypeOK'
  BY <1>2, Zenon DEF IInv, TypeOK, env
<1>4. ASSUME NEW v \in Workers PROVE WorkerOK(v)'
  <2>1. CASE v = w
    BY <2>1, Zenon
  <2>2. CASE v # w
    <3>1. WorkerOK(v) /\ wrk'[v] = wrk[v] /\ late'[v] = late[v]
      BY <2>2, Zenon DEF IInv
    <3> QED BY <3>1, WorkerKept, Zenon
  <2> QED BY <2>1, <2>2
<1> QED BY <1>2, <1>3, <1>4, Zenon DEF IInv

\* Goto of a worker
LEMMA Goes ==
    ASSUME IInv, NEW w \in Workers, NEW pc \in Statements, Goto(w, pc)
    PROVE  /\ wrk' \in [Workers -> Worker] /\ \A v \in Workers \ {w} : wrk'[v] = wrk[v]
           /\ wrk'[w].pc = pc /\ wrk'[w].rec = wrk[w].rec /\ wrk'[w].type = wrk[w].type
           /\ wrk'[w].stop = wrk[w].stop
<1> DEFINE u == [wrk[w] EXCEPT !.pc = pc]
<1>1. wrk \in [Workers -> Worker] /\ wrk' = [wrk EXCEPT ![w] = u]
  BY DEF IInv, TypeOK, Goto
<1>2. u \in Worker /\ u.pc = pc /\ u.rec = wrk[w].rec /\ u.type = wrk[w].type /\ u.stop = wrk[w].stop
  BY <1>1, SetPc
<1> HIDE DEF u
<1>3. wrk' \in [Workers -> Worker] /\ wrk'[w] = u /\ \A v \in Workers \ {w} : wrk'[v] = wrk[v]
  BY <1>1, <1>2
<1> QED BY <1>2, <1>3

\* The request is written.
LEMMA SendStep == ASSUME IInv, NEW w \in Workers, Send(w) PROVE IInv'
<1>1. /\ wrk[w].pc = "send" /\ Goto(w, "wait") /\ rec' = rec /\ late' = late
      /\ UNCHANGED env /\ UNCHANGED neg /\ "wait" \in Statements
  BY DEF Send, At, Statements
<1>2. /\ wrk' \in [Workers -> Worker] /\ \A v \in Workers \ {w} : wrk'[v] = wrk[v]
      /\ wrk'[w].pc = "wait" /\ wrk'[w].rec = wrk[w].rec /\ wrk'[w].type = wrk[w].type
      /\ wrk'[w].stop = wrk[w].stop
  BY <1>1, Goes
<1>3. WorkerOK(w)
  BY Zenon DEF IInv
<1>4. WorkerOK(w)'
  BY <1>1, <1>2, <1>3 DEF WorkerOK, HasRequest, Rec, Using
<1>5. Stays(w)
  BY <1>1, <1>2 DEF Stays
<1>6. late' \in [Workers -> {"none", "fresh", "stale"}] /\ \A v \in Workers : late'[v] = late[v]
  BY <1>1 DEF IInv, TypeOK
<1> QED BY <1>1, <1>2, <1>4, <1>5, <1>6, AloneStep

\* A reply or a timeout is found: its request exists.
LEMMA FoundStep ==
    ASSUME IInv, NEW w \in Workers, ReplyFound(w) \/ TimerDue(w) PROVE IInv'
<1>1. /\ HasRequest(w) /\ rec' = rec /\ wrk' = wrk /\ UNCHANGED env /\ UNCHANGED neg
      /\ late' = [late EXCEPT ![w] = "fresh"]
  BY DEF ReplyFound, TimerDue, HasRequest, At
<1>2. late \in [Workers -> {"none", "fresh", "stale"}] /\ wrk \in [Workers -> Worker]
  BY DEF IInv, TypeOK
<1>3. late' \in [Workers -> {"none", "fresh", "stale"}] /\ \A v \in Workers \ {w} : late'[v] = late[v]
  BY <1>1, <1>2
<1>4. WorkerOK(w)'
  BY <1>1, Zenon DEF IInv, WorkerOK, HasRequest, Rec
<1>5. Stays(w)
  BY <1>1 DEF Stays
<1> QED BY <1>1, <1>2, <1>3, <1>4, <1>5, AloneStep

\* A reply or a timeout is delivered, unless its request is gone.
LEMMA DeliverStep == ASSUME IInv, NEW w \in Workers, Deliver(w) PROVE IInv'
<1>1. late' = [late EXCEPT ![w] = "none"] /\ UNCHANGED env /\ UNCHANGED neg
  BY DEF Deliver
<1>2. /\ late \in [Workers -> {"none", "fresh", "stale"}] /\ wrk \in [Workers -> Worker]
      /\ WorkerOK(w)
  BY DEF IInv, TypeOK
<1>3. /\ late' \in [Workers -> {"none", "fresh", "stale"}] /\ late'[w] = "none"
      /\ \A v \in Workers \ {w} : late'[v] = late[v]
  BY <1>1, <1>2
<1>4. CASE late[w] = "fresh" /\ ~wrk[w].stop
  <2>0. PICK i : wrk[w].rec = i
    OBVIOUS
  <2> DEFINE q == [rec[i] EXCEPT !.reqs = rec[i].reqs \ {w}]
             u == [wrk[w] EXCEPT !.stop = TRUE]
  <2>1. wrk' = [wrk EXCEPT ![w] = u] /\ rec' = [rec EXCEPT ![i] = q]
    BY <1>4, <2>0 DEF Deliver
  <2>2. HasRequest(w)
    BY <1>2, <1>4, Zenon DEF WorkerOK
  <2>3. wrk[w].pc \in Using /\ wrk[w].pc # "mark" /\ wrk[w].pc # "idle"
    BY <2>2 DEF HasRequest, Using
  <2>4. /\ i \in Slots /\ rec[i] \in Record
        /\ RecordOK(rec[i], Cardinality(Holders(i)), Cardinality(Out(i)))
        /\ Unmarked(rec[i]) => Out(i) # Holders(i)
        /\ Cardinality(Holders(i)) \in Nat /\ Cardinality(Out(i)) \in Nat
        /\ rec[i].st = "used" /\ wrk[w] \in Worker /\ wrk[w].type \in Types
    BY <2>0, <2>3, HolderFacts
  <2>5. /\ u \in Worker /\ u.pc = wrk[w].pc /\ u.rec = i /\ u.stop = TRUE /\ u.type = wrk[w].type
    BY Zenon, <2>0, <2>4 DEF Worker
  <2> HIDE DEF u
  <2>6. /\ wrk' \in [Workers -> Worker] /\ wrk'[w] = u /\ \A v \in Workers \ {w} : wrk'[v] = wrk[v]
    BY <1>2, <2>1, <2>5
  <2>7. /\ q \in Record /\ q.reqs = rec[i].reqs \ {w} /\ q.st = rec[i].st
        /\ q.inDB = rec[i].inDB /\ q.marked = rec[i].marked /\ q.addr = rec[i].addr
        /\ q.refs = rec[i].refs /\ q.pending = rec[i].pending /\ q.conn = rec[i].conn
        /\ q.old = rec[i].old
    <3>1. rec[i].reqs \ {w} \in SUBSET Workers
      BY <2>4 DEF Record
    <3> QED BY <2>4, <3>1, SetReqs
  <2> HIDE DEF q
  <2>8. RecordOK(q, Cardinality(Holders(i)), Cardinality(Out(i))) /\ Follows(q, rec[i])
    BY <2>4, <2>7, SameOK
  <2>9. \A v \in Workers : Stays(v)
    <3>1. Stays(w)
      BY <2>0, <2>5, <2>6 DEF Stays
    <3>2. ASSUME NEW v \in Workers \ {w} PROVE Stays(v)
      BY <2>6, Zenon DEF Stays
    <3> QED BY <3>1, <3>2, Zenon
  <2>10. Holders(i)' = Holders(i) /\ Out(i)' = Out(i)
    BY <2>9, AllStay
  <2>11. WorkerOK(w)'
    <3>1. HasRequest(w)' /\ wrk'[w].stop /\ late'[w] # "fresh" /\ wrk'[w].pc # "mark"
      BY <1>3, <2>2, <2>3, <2>5, <2>6 DEF HasRequest
    <3>2. wrk'[w].rec # None /\ wrk'[w].pc \in Using /\ wrk'[w].type \in Types
      BY <2>3, <2>4, <2>5, <2>6, StubConstants
    <3> QED BY <3>1, <3>2, Zenon DEF WorkerOK
  <2> DEFINE M == {w}
  <2>12. Moved(i, M)
    BY <2>0, <2>5, <2>6, <2>11 DEF Moved
  <2>13. NotMoved(M)
    BY <1>3, <2>6, Zenon DEF NotMoved
  <2>14. Served(i, q, M)
    BY <2>7 DEF Served
  <2>15. Fits(i, q)
    BY <2>4, <2>8, <2>10, Zenon DEF Follows, Fits
  <2>16. M \in SUBSET Workers
    OBVIOUS
  <2> HIDE DEF M
  <2> QED BY Zenon, <1>1, <1>3, <2>1, <2>4, <2>6, <2>7, <2>12, <2>13, <2>14, <2>15, <2>16, RecordStep
<1>5. CASE ~(late[w] = "fresh" /\ ~wrk[w].stop)
  <2>1. rec' = rec /\ wrk' = wrk
    BY <1>5, Zenon DEF Deliver
  <2>2. WorkerOK(w)'
    BY <1>2, <1>3, <2>1, Zenon DEF WorkerOK, HasRequest, Rec
  <2>3. Stays(w)
    BY <2>1 DEF Stays
  <2> QED BY <1>1, <1>2, <1>3, <2>1, <2>2, <2>3, AloneStep
<1> QED BY <1>4, <1>5

\* RemoveAllRequests_ tells the workers in pendingRequests and moves nobody.
LEMMA AllTold ==
    ASSUME NEW r, wrk \in [Workers -> Worker]
    PROVE  LET x == RemoveAllRequests(r) IN
           /\ x \in [Workers -> Worker]
           /\ \A v \in Workers :
                /\ x[v].rec = wrk[v].rec /\ x[v].pc = wrk[v].pc /\ x[v].type = wrk[v].type
                /\ wrk[v].stop => x[v].stop
                /\ v \in r.reqs => x[v].stop
<1> DEFINE x == RemoveAllRequests(r)
<1>1. ASSUME NEW v \in Workers
      PROVE  /\ x[v] \in Worker /\ x[v].rec = wrk[v].rec /\ x[v].pc = wrk[v].pc
             /\ x[v].type = wrk[v].type /\ (wrk[v].stop => x[v].stop)
             /\ v \in r.reqs => x[v].stop
  <2> DEFINE u == [wrk[v] EXCEPT !.stop = TRUE]
  <2>1. wrk[v] \in Worker
    OBVIOUS
  <2>2. u \in Worker /\ u.rec = wrk[v].rec /\ u.pc = wrk[v].pc /\ u.type = wrk[v].type /\ u.stop = TRUE
    BY Zenon, <2>1 DEF Worker
  <2>3. x[v] = IF v \in r.reqs /\ ~wrk[v].stop THEN u ELSE wrk[v]
    BY DEF RemoveAllRequests
  <2> HIDE DEF u, x
  <2>4. CASE v \in r.reqs /\ ~wrk[v].stop
    <3>1. x[v] = u
      BY <2>3, <2>4, Zenon
    <3> QED BY <2>2, <3>1, Zenon
  <2>5. CASE ~(v \in r.reqs /\ ~wrk[v].stop)
    <3>1. x[v] = wrk[v]
      BY <2>3, <2>5, Zenon
    <3> QED BY <2>1, <2>5, <3>1, Zenon
  <2> QED BY <2>4, <2>5
<1>2. x = [v \in Workers |-> x[v]]
  BY DEF RemoveAllRequests
<1> HIDE DEF x
<1>3. x \in [Workers -> Worker]
  BY <1>1, <1>2
<1> QED BY <1>1, <1>3, Zenon DEF x

\* The thread of a connection ends: whoever waits on the record is told.
LEMMA ConnectionGoneStep == ASSUME IInv, NEW i \in Slots, ConnectionGone(i) PROVE IInv'
<1> DEFINE r == rec[i]
           d == Disconnect(r)
           q == DecrReference([d EXCEPT !.old = @ - 1])
           h == Cardinality(Holders(i))
           o == Cardinality(Out(i))
<1>1. /\ r.st = "used" /\ (r.conn = "open" \/ r.old > 0) /\ rec' = [rec EXCEPT ![i] = q]
      /\ wrk' = RemoveAllRequests(r) /\ UNCHANGED env /\ UNCHANGED neg /\ late' = late
  BY DEF ConnectionGone
<1>2. /\ rec[i] \in Record /\ wrk \in [Workers -> Worker]
      /\ late \in [Workers -> {"none", "fresh", "stale"}]
  BY DEF IInv, TypeOK
<1>3. RecordOK(rec[i], h, o) /\ (Unmarked(rec[i]) => Out(i) # Holders(i))
  BY Zenon DEF IInv, RecordsOK, RemovedOK
<1>4. h \in Nat /\ o \in Nat /\ o <= h
  BY HoldersAreWorkers, Sizes
<1>5. /\ wrk' \in [Workers -> Worker]
      /\ \A v \in Workers :
           /\ wrk'[v].rec = wrk[v].rec /\ wrk'[v].pc = wrk[v].pc /\ wrk'[v].type = wrk[v].type
           /\ wrk[v].stop => wrk'[v].stop
           /\ v \in r.reqs => wrk'[v].stop
  BY Zenon, <1>1, <1>2, AllTold
<1> HIDE DEF h, o
<1>6. q \in Record /\ RecordOK(q, h, o) /\ Follows(q, rec[i])
  BY <1>1, <1>2, <1>3, <1>4, GoneOK
<1> HIDE DEF q
<1>7. \A v \in Workers : Stays(v)
  BY <1>5, Zenon DEF Stays
<1>8. Holders(i)' = Holders(i) /\ Out(i)' = Out(i)
  BY <1>7, AllStay
<1>9. Fits(i, q)
  BY <1>3, <1>6, <1>8, Zenon DEF Fits, Follows, h, o
<1>10. NotMoved({})
  BY <1>1, <1>5, Zenon DEF NotMoved
<1>11. Moved(i, {})
  BY DEF Moved
<1>12. Served(i, q, {})
  BY <1>5, Zenon DEF Served, Holders
<1>13. {} \in SUBSET Workers /\ late' \in [Workers -> {"none", "fresh", "stale"}]
  BY <1>1, <1>2
<1> QED BY Zenon, <1>1, <1>5, <1>6, <1>9, <1>10, <1>11, <1>12, <1>13, RecordStep

\* A write failed: the request is deleted, and a late reply finds it gone.
LEMMA SendFailsStep == ASSUME IInv, NEW w \in Workers, SendFails(w) PROVE IInv'
<1>0. PICK i : wrk[w].rec = i
  OBVIOUS
<1> DEFINE r == rec[i]
           p == [r EXCEPT !.dangling = r.dangling \/ w \in r.reqs]
           q == [p EXCEPT !.reqs = r.reqs \ {w}]
           M == {w}
<1>1. /\ wrk[w].pc = "send" /\ Goto(w, "remove") /\ rec' = [rec EXCEPT ![i] = q]
      /\ DeleteRequest(w) /\ UNCHANGED env /\ UNCHANGED neg
      /\ "remove" \in Statements /\ wrk[w].pc \in Using
  BY <1>0 DEF SendFails, At, Dangle, Statements, Using
<1>2. /\ i \in Slots /\ rec[i] \in Record
      /\ RecordOK(rec[i], Cardinality(Holders(i)), Cardinality(Out(i)))
      /\ Unmarked(rec[i]) => Out(i) # Holders(i)
      /\ Cardinality(Holders(i)) \in Nat /\ Cardinality(Out(i)) \in Nat
      /\ rec[i].st = "used" /\ wrk[w].type \in Types
  BY <1>0, <1>1, HolderFacts
<1>3. /\ wrk' \in [Workers -> Worker] /\ \A v \in Workers \ {w} : wrk'[v] = wrk[v]
      /\ wrk'[w].pc = "remove" /\ wrk'[w].rec = wrk[w].rec /\ wrk'[w].type = wrk[w].type
      /\ wrk'[w].stop = wrk[w].stop
  BY <1>1, Goes
<1>4. /\ late' \in [Workers -> {"none", "fresh", "stale"}] /\ late'[w] # "fresh"
      /\ \A v \in Workers \ {w} : late'[v] = late[v]
  BY <1>1 DEF DeleteRequest, IInv, TypeOK
<1>5. /\ p \in Record /\ p.reqs = r.reqs /\ p.st = r.st
      /\ p.inDB = r.inDB /\ p.marked = r.marked /\ p.addr = r.addr
      /\ p.refs = r.refs /\ p.pending = r.pending /\ p.conn = r.conn /\ p.old = r.old
  <2>1. (r.dangling \/ w \in r.reqs) \in BOOLEAN
    BY Zenon
  <2> QED BY Zenon, <1>2, <2>1, SetDangling
<1> HIDE DEF p
<1>6. /\ q \in Record /\ q.reqs = r.reqs \ {w} /\ q.st = p.st
      /\ q.inDB = p.inDB /\ q.marked = p.marked /\ q.addr = p.addr
      /\ q.refs = p.refs /\ q.pending = p.pending /\ q.conn = p.conn /\ q.old = p.old
  <2>1. r.reqs \ {w} \in SUBSET Workers
    BY <1>2 DEF Record
  <2> QED BY <1>5, <2>1, SetReqs
<1> HIDE DEF q
<1>7. /\ q.st = r.st /\ q.inDB = r.inDB /\ q.marked = r.marked /\ q.addr = r.addr
      /\ q.refs = r.refs /\ q.pending = r.pending /\ q.conn = r.conn /\ q.old = r.old
      /\ q.reqs = r.reqs \ {w}
  BY <1>5, <1>6, Zenon
<1>8. RecordOK(q, Cardinality(Holders(i)), Cardinality(Out(i))) /\ Follows(q, rec[i])
  BY <1>2, <1>6, <1>7, SameOK
<1>9. \A v \in Workers : Stays(v)
  <2>1. Stays(w)
    BY <1>1, <1>3 DEF Stays
  <2>2. ASSUME NEW v \in Workers \ {w} PROVE Stays(v)
    BY <1>3, Zenon DEF Stays
  <2> QED BY <2>1, <2>2, Zenon
<1>10. Holders(i)' = Holders(i) /\ Out(i)' = Out(i)
  BY <1>9, AllStay
<1>11. WorkerOK(w)'
  BY <1>0, <1>2, <1>3, <1>4, StubConstants DEF WorkerOK, HasRequest, Using
<1>12. Moved(i, M)
  BY <1>0, <1>3, <1>11 DEF Moved
<1>13. NotMoved(M)
  BY <1>3, <1>4, Zenon DEF NotMoved
<1>14. Served(i, q, M)
  BY <1>7 DEF Served
<1>15. Fits(i, q)
  BY <1>2, <1>8, <1>10, Zenon DEF Follows, Fits
<1>16. M \in SUBSET Workers
  OBVIOUS
<1> HIDE DEF M
<1> QED BY Zenon, <1>1, <1>2, <1>3, <1>4, <1>6, <1>12, <1>13, <1>14, <1>15, <1>16, RecordStep

\* A worker that leaves a record is one holder less.
LEMMA Leaves ==
    ASSUME IInv, NEW w \in Workers, NEW i \in Slots, wrk[w].rec = i, wrk'[w].rec = None,
           \A v \in Workers \ {w} : wrk'[v] = wrk[v]
    PROVE  /\ Holders(i)' = Holders(i) \ {w} /\ Out(i)' = Out(i) \ {w}
           /\ Cardinality(Holders(i)') = Cardinality(Holders(i)) - 1
           /\ \A v \in Holders(i) \ {w} : Cardinality(Holders(i)) > 1
<1>1. \A v \in Workers \ {w} : Stays(v)
  BY Zenon DEF Stays
<1>2. None # i
  BY StubConstants
<1>3. /\ Holders(i)' \ {w} = Holders(i) \ {w} /\ Out(i)' \ {w} = Out(i) \ {w}
      /\ w \notin Holders(i)' /\ w \notin Out(i)' /\ w \in Holders(i)
  BY <1>1, <1>2, OthersStay
<1>4. Holders(i)' = Holders(i) \ {w} /\ Out(i)' = Out(i) \ {w}
  BY <1>3
<1>5. Cardinality(Holders(i) \ {w}) = Cardinality(Holders(i)) - 1
  BY <1>3, HoldersAreWorkers, OneLess
<1>6. ASSUME NEW v \in Holders(i) \ {w} PROVE Cardinality(Holders(i)) > 1
  <2> DEFINE H == Holders(i) \ {w}
  <2>1. H \subseteq Workers /\ H # {} /\ {} \subseteq H
    BY <1>6, HoldersAreWorkers
  <2>2. Cardinality(H) > 0 /\ Cardinality(H) \in Nat
    BY <2>1, Sizes
  <2>3. Cardinality(Holders(i)) \in Nat
    BY HoldersAreWorkers, Sizes
  <2> QED BY <1>5, <2>2, <2>3
<1> QED BY <1>4, <1>5, <1>6

\* The request is over and the worker lets go of the record.
LEMMA FinishStep == ASSUME IInv, NEW w \in Workers, Finish(w) PROVE IInv'
<1>0. PICK i : wrk[w].rec = i
  OBVIOUS
<1> DEFINE q == DecrReference(DecrPending(rec[i]))
           h == Cardinality(Holders(i))
           o == Cardinality(Out(i))
           M == {w}
<1>1. /\ wrk[w].pc = "wait" /\ rec' = [rec EXCEPT ![i] = q] /\ wrk' = [wrk EXCEPT ![w] = Idle]
      /\ DeleteRequest(w) /\ UNCHANGED env /\ UNCHANGED neg /\ wrk[w].pc \in Using
  BY <1>0 DEF Finish, At, Return, Using
<1>2. /\ i \in Slots /\ rec[i] \in Record /\ RecordOK(rec[i], h, o)
      /\ Unmarked(rec[i]) => Out(i) # Holders(i)
      /\ h \in Nat /\ o \in Nat /\ o <= h /\ w \in Holders(i) /\ w \in Out(i)
  BY <1>0, <1>1, HolderFacts
<1>3. /\ wrk' \in [Workers -> Worker] /\ \A v \in Workers \ {w} : wrk'[v] = wrk[v]
      /\ wrk'[w] = Idle
  BY <1>1 DEF IInv, TypeOK, Idle, Worker
<1>4. /\ late' \in [Workers -> {"none", "fresh", "stale"}] /\ late'[w] # "fresh"
      /\ \A v \in Workers \ {w} : late'[v] = late[v]
  BY <1>1 DEF DeleteRequest, IInv, TypeOK
<1>5. wrk'[w].rec = None /\ wrk'[w].pc = "idle"
  BY <1>3 DEF Idle
<1>6. /\ Holders(i)' = Holders(i) \ {w} /\ Out(i)' = Out(i) \ {w}
      /\ Cardinality(Holders(i)') = h - 1
      /\ \A v \in Holders(i) \ {w} : h > 1
  BY <1>0, <1>2, <1>3, <1>5, Leaves
<1>7. Cardinality(Out(i)') = o - 1 /\ o > 0
  <2>1. Out(i) \subseteq Workers
    BY HoldersAreWorkers
  <2> QED BY <1>2, <1>6, <2>1, OneLess
<1> HIDE DEF h, o
<1>8. /\ q \in Record /\ RecordOK(q, h - 1, o - 1) /\ Follows(q, rec[i])
      /\ h > 1 => q.reqs = rec[i].reqs /\ q.conn = rec[i].conn
  BY <1>2, <1>7, ReleasedOK
<1> HIDE DEF q
<1>9. WorkerOK(w)'
  BY <1>4, <1>5 DEF WorkerOK, HasRequest, Using
<1>10. Moved(i, M)
  BY <1>0, <1>5, <1>9 DEF Moved
<1>11. NotMoved(M)
  BY <1>3, <1>4, Zenon DEF NotMoved
<1>12. Served(i, q, M)
  BY <1>6, <1>8, Zenon DEF Served
<1>13. Unmarked(q) => Out(i)' # Holders(i)'
  <2>1. SUFFICES ASSUME Unmarked(q) PROVE Out(i)' # Holders(i)'
    OBVIOUS
  <2>2. Out(i) # Holders(i)
    BY <1>2, <1>8, <2>1, Zenon DEF Follows
  <2> QED BY <1>2, <1>6, <2>2
<1>14. Fits(i, q)
  BY <1>6, <1>7, <1>8, <1>13, Zenon DEF Follows, Fits
<1>15. M \in SUBSET Workers
  OBVIOUS
<1> HIDE DEF M
<1> QED BY Zenon, <1>1, <1>2, <1>3, <1>4, <1>8, <1>10, <1>11, <1>12, <1>14, <1>15, RecordStep

\* The worker that removed the record marks it and lets go.
LEMMA MarkAndRetryStep == ASSUME IInv, NEW w \in Workers, MarkAndRetry(w) PROVE IInv'
<1>0. PICK i : wrk[w].rec = i
  OBVIOUS
<1> DEFINE u == [Idle EXCEPT !.pc = "find", !.type = wrk[w].type]
           q == DecrReference([rec[i] EXCEPT !.marked = TRUE])
           h == Cardinality(Holders(i))
           o == Cardinality(Out(i))
           M == {w}
<1>1. /\ wrk[w].pc = "mark" /\ rec' = [rec EXCEPT ![i] = q] /\ wrk' = [wrk EXCEPT ![w] = u]
      /\ late' = late /\ UNCHANGED env /\ UNCHANGED neg /\ wrk[w].pc \in Using
  BY <1>0 DEF MarkAndRetry, At, Using
<1>2. /\ i \in Slots /\ rec[i] \in Record /\ RecordOK(rec[i], h, o)
      /\ h \in Nat /\ o \in Nat /\ w \in Holders(i) /\ w \notin Out(i) /\ wrk[w].type \in Types
  BY <1>0, <1>1, HolderFacts
<1>3. ~rec[i].inDB /\ late[w] # "fresh"
  BY <1>0, <1>1 DEF IInv, WorkerOK, Rec, HasRequest
<1>4. u \in Worker /\ u.pc = "find" /\ u.rec = None /\ u.type = wrk[w].type
  BY Zenon, <1>2, Starting
<1> HIDE DEF u
<1>5. /\ wrk' \in [Workers -> Worker] /\ \A v \in Workers \ {w} : wrk'[v] = wrk[v]
      /\ wrk'[w] = u /\ late' \in [Workers -> {"none", "fresh", "stale"}]
  BY <1>1, <1>4 DEF IInv, TypeOK
<1>6. /\ Holders(i)' = Holders(i) \ {w} /\ Out(i)' = Out(i) \ {w}
      /\ Cardinality(Holders(i)') = h - 1
      /\ \A v \in Holders(i) \ {w} : h > 1
  BY Zenon, <1>0, <1>2, <1>4, <1>5, Leaves
<1>7. Cardinality(Out(i)') = o /\ o < h
  <2>1. Out(i)' = Out(i) /\ Holders(i) # Out(i)
    BY <1>2, <1>6
  <2>2. o < h
    BY <2>1, HoldersAreWorkers, Sizes
  <2> QED BY <2>1, <2>2
<1> HIDE DEF h, o
<1>8. /\ q \in Record /\ RecordOK(q, h - 1, o) /\ ~Unmarked(q) /\ ~q.inDB
      /\ h > 1 => q.reqs = rec[i].reqs /\ q.conn = rec[i].conn
  BY <1>2, <1>3, <1>7, MarkedOK
<1> HIDE DEF q
<1>9. WorkerOK(w)'
  BY <1>1, <1>2, <1>3, <1>4, <1>5 DEF WorkerOK, HasRequest, Using
<1>10. Moved(i, M)
  BY <1>0, <1>4, <1>5, <1>9 DEF Moved
<1>11. NotMoved(M)
  BY <1>1, <1>5, Zenon DEF NotMoved
<1>12. Served(i, q, M)
  BY <1>6, <1>8, Zenon DEF Served
<1>13. Fits(i, q)
  BY <1>6, <1>7, <1>8, Zenon DEF Fits
<1>14. M \in SUBSET Workers
  OBVIOUS
<1> HIDE DEF M
<1> QED BY Zenon, <1>1, <1>2, <1>5, <1>8, <1>10, <1>11, <1>12, <1>13, <1>14, RecordStep

\* distSendError: the record goes out of the database, all requests of it are told.
LEMMA RemoveDistillerStep == ASSUME IInv, NEW w \in Workers, RemoveDistiller(w) PROVE IInv'
<1>0. PICK i : wrk[w].rec = i
  OBVIOUS
<1> DEFINE x == RemoveAllRequests(rec[i])
           u == [x[w] EXCEPT !.pc = "mark"]
           q == Disconnect(Remove(DecrPending(rec[i])))
           h == Cardinality(Holders(i))
           o == Cardinality(Out(i))
           M == {w}
<1>1. /\ wrk[w].pc = "remove" /\ rec' = [rec EXCEPT ![i] = q] /\ wrk' = [x EXCEPT ![w] = u]
      /\ late' = late /\ UNCHANGED env /\ UNCHANGED neg /\ wrk[w].pc \in Using
  BY <1>0 DEF RemoveDistiller, At, Using
<1>2. /\ i \in Slots /\ rec[i] \in Record /\ RecordOK(rec[i], h, o)
      /\ h \in Nat /\ o \in Nat /\ o <= h /\ w \in Holders(i) /\ w \in Out(i)
      /\ wrk[w].type \in Types
  BY <1>0, <1>1, HolderFacts
<1>3. /\ x \in [Workers -> Worker]
      /\ \A v \in Workers :
           /\ x[v].rec = wrk[v].rec /\ x[v].pc = wrk[v].pc /\ x[v].type = wrk[v].type
           /\ wrk[v].stop => x[v].stop
           /\ v \in rec[i].reqs => x[v].stop
  BY Zenon, AllTold DEF IInv, TypeOK
<1> HIDE DEF x
<1>4. u \in Worker /\ u.pc = "mark" /\ u.rec = i /\ u.type = wrk[w].type
  <2>1. x[w] \in Worker /\ "mark" \in Statements
    BY <1>3 DEF Statements
  <2>2. u \in Worker /\ u.pc = "mark" /\ u.rec = x[w].rec /\ u.type = x[w].type
    BY <2>1, SetPc
  <2> QED BY <1>0, <1>3, <2>2
<1> HIDE DEF u
<1>5. /\ wrk' \in [Workers -> Worker] /\ wrk'[w] = u
      /\ \A v \in Workers \ {w} : wrk'[v] = x[v]
  BY <1>1, <1>3, <1>4
<1>6. ASSUME NEW v \in Workers \ {w}
      PROVE  /\ wrk'[v].rec = wrk[v].rec /\ wrk'[v].pc = wrk[v].pc
             /\ wrk'[v].type = wrk[v].type /\ (wrk[v].stop => wrk'[v].stop)
             /\ v \in rec[i].reqs => wrk'[v].stop
  <2>1. wrk'[v] = x[v] /\ v \in Workers
    BY <1>5, Zenon
  <2> QED BY <1>3, <2>1, Zenon
<1>7. Holders(i)' = Holders(i) /\ Out(i)' = Out(i) \ {w}
  <2>1. \A v \in Workers \ {w} : Stays(v)
    BY <1>6, Zenon DEF Stays
  <2>2. /\ Holders(i)' \ {w} = Holders(i) \ {w} /\ Out(i)' \ {w} = Out(i) \ {w}
        /\ w \in Holders(i)' /\ w \notin Out(i)'
    BY <1>4, <1>5, <2>1, OthersStay
  <2> QED BY <1>2, <2>2
<1>8. Cardinality(Out(i)') = o - 1 /\ o > 0
  <2>1. Out(i) \subseteq Workers
    BY HoldersAreWorkers
  <2> QED BY <1>2, <1>7, <2>1, OneLess
<1> HIDE DEF h, o
<1>9. q \in Record /\ RecordOK(q, h, o - 1) /\ ~q.inDB
  BY <1>2, <1>8, RemoveOK
<1> HIDE DEF q
<1>10. WorkerOK(w)'
  <2>1. late[w] # "fresh"
    BY <1>1 DEF IInv, WorkerOK, HasRequest
  <2>2. rec'[i] = q
    BY <1>1, <1>2 DEF IInv, TypeOK
  <2>3. ~rec'[wrk'[w].rec].inDB
    BY <1>4, <1>5, <1>9, <2>2, Zenon
  <2>4. wrk'[w].rec # None /\ wrk'[w].pc = "mark" /\ wrk'[w].type \in Types /\ late'[w] # "fresh"
    BY <1>1, <1>2, <1>4, <1>5, <2>1, StubConstants
  <2> QED BY <2>3, <2>4 DEF WorkerOK, HasRequest, Using, Rec
<1>11. Moved(i, M)
  BY <1>0, <1>4, <1>5, <1>10 DEF Moved
<1>12. NotMoved(M)
  BY <1>1, <1>6, Zenon DEF NotMoved
<1>13. Served(i, q, M)
  BY <1>6, HoldersAreWorkers, Zenon DEF Served
<1>14. Out(i)' # Holders(i)'
  BY <1>2, <1>7
<1>15. Fits(i, q)
  BY <1>7, <1>8, <1>9, <1>14, Zenon DEF Fits, h
<1>16. M \in SUBSET Workers /\ late' \in [Workers -> {"none", "fresh", "stale"}]
  BY <1>1 DEF IInv, TypeOK
<1> HIDE DEF M
<1> QED BY Zenon, <1>1, <1>2, <1>5, <1>9, <1>11, <1>12, <1>13, <1>15, <1>16, RecordStep

\* CachedDistiller::Distill connects if need be and lists the request.
LEMMA DistillStartStep == ASSUME IInv, NEW w \in Workers, DistillStart(w) PROVE IInv'
<1>0. PICK i : wrk[w].rec = i
  OBVIOUS
<1> DEFINE r == rec[i]
           up == life[r.addr] = "alive"
           h == Cardinality(Holders(i))
           o == Cardinality(Out(i))
           M == {w}
<1>1. /\ wrk[w].pc = "distill" /\ late' = late /\ UNCHANGED env /\ UNCHANGED neg
      /\ wrk[w].pc \in Using /\ "remove" \in Statements
  BY DEF DistillStart, At, Using, Statements
<1>2. /\ i \in Slots /\ r \in Record /\ RecordOK(r, h, o) /\ r.st = "used"
      /\ h \in Nat /\ o \in Nat /\ o <= h /\ wrk[w].type \in Types /\ wrk[w] \in Worker
      /\ Unmarked(r) => Out(i) # Holders(i)
  BY <1>0, <1>1, HolderFacts
<1>3. late[w] # "fresh" /\ None # i
  BY <1>1, <1>2, StubConstants DEF IInv, WorkerOK, HasRequest
<1>4. late' \in [Workers -> {"none", "fresh", "stale"}] /\ wrk \in [Workers -> Worker]
      /\ \A v \in Workers : late'[v] = late[v]
  BY <1>1 DEF IInv, TypeOK
<1>5. CASE r.marked
  <2>1. Goto(w, "remove") /\ rec' = rec
    BY <1>0, <1>5, Zenon DEF DistillStart
  <2>2. /\ wrk' \in [Workers -> Worker] /\ \A v \in Workers \ {w} : wrk'[v] = wrk[v]
        /\ wrk'[w].pc = "remove" /\ wrk'[w].rec = wrk[w].rec /\ wrk'[w].type = wrk[w].type
    BY <1>1, <2>1, Goes
  <2>3. Stays(w)
    BY <1>1, <2>2 DEF Stays
  <2>4. WorkerOK(w)'
    BY <1>0, <1>1, <1>2, <1>3, <2>2 DEF WorkerOK, HasRequest, Using
  <2> QED BY <1>1, <1>4, <2>1, <2>2, <2>3, <2>4, AloneStep
<1>6. CASE ~r.marked /\ r.conn = "null" /\ ~up
  <2> DEFINE q == Connect(r, "failed")
  <2>1. Goto(w, "remove") /\ rec' = [rec EXCEPT ![i] = q]
    BY <1>0, <1>6, Zenon DEF DistillStart
  <2>2. /\ wrk' \in [Workers -> Worker] /\ \A v \in Workers \ {w} : wrk'[v] = wrk[v]
        /\ wrk'[w].pc = "remove" /\ wrk'[w].rec = wrk[w].rec /\ wrk'[w].type = wrk[w].type
    BY <1>1, <2>1, Goes
  <2>3. q \in Record /\ RecordOK(q, h, o) /\ Follows(q, r) /\ q.reqs = r.reqs /\ q.conn = "failed"
    BY <1>2, <1>6, ConnectOK
  <2> HIDE DEF q
  <2>4. \A v \in Workers : Stays(v)
    <3>1. Stays(w)
      BY <1>1, <2>2 DEF Stays
    <3>2. ASSUME NEW v \in Workers \ {w} PROVE Stays(v)
      BY <2>2, Zenon DEF Stays
    <3> QED BY <3>1, <3>2, Zenon
  <2>5. Holders(i)' = Holders(i) /\ Out(i)' = Out(i)
    BY <2>4, AllStay
  <2>6. WorkerOK(w)'
    BY <1>0, <1>1, <1>2, <1>3, <2>2 DEF WorkerOK, HasRequest, Using
  <2>7. Moved(i, M)
    BY <1>0, <2>2, <2>6 DEF Moved
  <2>8. NotMoved(M)
    BY <1>4, <2>2, Zenon DEF NotMoved
  <2>9. Served(i, q, M)
    BY <2>3 DEF Served
  <2>10. Fits(i, q)
    BY <1>2, <2>3, <2>5, Zenon DEF Follows, Fits
  <2>11. M \in SUBSET Workers
    OBVIOUS
  <2> HIDE DEF M
  <2> QED BY Zenon, <1>1, <1>2, <1>4, <2>1, <2>2, <2>3, <2>7, <2>8, <2>9, <2>10, <2>11, RecordStep
<1>7. CASE ~r.marked /\ ~(r.conn = "null" /\ ~up)
  <2> DEFINE c == IF r.conn = "null" THEN Connect(r, "open") ELSE r
             q == [c EXCEPT !.reqs = c.reqs \cup {w}]
             via == IF r.conn = "null" THEN "open" ELSE r.conn
             u == [wrk[w] EXCEPT !.pc = "send", !.stop = FALSE, !.via = via]
  <2>1. rec' = [rec EXCEPT ![i] = q] /\ wrk' = [wrk EXCEPT ![w] = u]
    BY Zenon, <1>0, <1>7 DEF DistillStart, AddRequest
  <2>2. via \in {"null", "failed", "open"}
    BY <1>2 DEF Record
  <2> HIDE DEF via
  <2>3. u \in Worker /\ u.pc = "send" /\ u.rec = i /\ u.type = wrk[w].type
    BY Zenon, <1>0, <1>2, <2>2 DEF Worker
  <2> HIDE DEF u
  <2>4. /\ wrk' \in [Workers -> Worker] /\ \A v \in Workers \ {w} : wrk'[v] = wrk[v]
        /\ wrk'[w] = u
    BY <1>4, <2>1, <2>3
  <2>5. /\ c \in Record /\ RecordOK(c, h, o) /\ Follows(c, r) /\ c.st = "used"
        /\ c.reqs = r.reqs /\ c.conn # "null"
    <3>1. CASE r.conn = "null"
      <4>1. c = Connect(r, "open")
        BY <3>1
      <4> HIDE DEF c
      <4> QED BY <1>2, <3>1, <4>1, ConnectOK
    <3>2. CASE r.conn # "null"
      <4>1. c = r
        BY <3>2
      <4> HIDE DEF c
      <4> QED BY <1>2, <3>2, <4>1, Zenon DEF Follows
    <3> QED BY <3>1, <3>2
  <2> HIDE DEF c
  <2>6. /\ q \in Record /\ q.reqs = c.reqs \cup {w} /\ q.st = c.st
        /\ q.inDB = c.inDB /\ q.marked = c.marked /\ q.addr = c.addr
        /\ q.refs = c.refs /\ q.pending = c.pending /\ q.conn = c.conn /\ q.old = c.old
    <3>1. c.reqs \cup {w} \in SUBSET Workers
      BY <2>5 DEF Record
    <3> QED BY <2>5, <3>1, SetReqs
  <2> HIDE DEF q
  <2>7. RecordOK(q, h, o) /\ Follows(q, c)
    BY <1>2, <2>5, <2>6, SameOK
  <2>8. Follows(q, r)
    BY <2>5, <2>7, FollowsOn
  <2>9. \A v \in Workers : Stays(v)
    <3>1. Stays(w)
      BY <1>0, <1>1, <2>3, <2>4 DEF Stays
    <3>2. ASSUME NEW v \in Workers \ {w} PROVE Stays(v)
      BY <2>4, Zenon DEF Stays
    <3> QED BY <3>1, <3>2, Zenon
  <2>10. Holders(i)' = Holders(i) /\ Out(i)' = Out(i)
    BY <2>9, AllStay
  <2>11. WorkerOK(w)'
    <3>1. rec'[i] = q
      BY <1>2, <2>1 DEF IInv, TypeOK
    <3>2. w \in rec'[wrk'[w].rec].reqs /\ rec'[wrk'[w].rec].conn # "null"
      BY <2>3, <2>4, <2>5, <2>6, <3>1
    <3>3. wrk'[w].pc = "send" /\ wrk'[w].rec # None /\ wrk'[w].type \in Types /\ late'[w] # "fresh"
      BY <1>2, <1>3, <1>4, <2>3, <2>4
    <3> QED BY <3>2, <3>3 DEF WorkerOK, HasRequest, Using, Rec
  <2>12. Moved(i, M)
    BY <1>0, <2>3, <2>4, <2>11 DEF Moved
  <2>13. NotMoved(M)
    BY <1>4, <2>4, Zenon DEF NotMoved
  <2>14. Served(i, q, M)
    BY <2>5, <2>6 DEF Served
  <2>15. Fits(i, q)
    BY <1>2, <2>7, <2>8, <2>10, Zenon DEF Follows, Fits
  <2>16. M \in SUBSET Workers
    OBVIOUS
  <2> HIDE DEF M
  <2> QED BY Zenon, <1>1, <1>2, <1>4, <2>1, <2>4, <2>6, <2>12, <2>13, <2>14, <2>15, <2>16, RecordStep
<1> HIDE DEF r, up
<1> QED BY <1>5, <1>6, <1>7, Zenon

\* The cache after Update_ and Sweep_ of the records that are there
Updated(db) ==
    \A i \in Slots :
       /\ RecordOK(db[i], Cardinality(Holders(i)), Cardinality(Out(i)))
       /\ Follows(db[i], rec[i])
       /\ Cardinality(Holders(i)) > 0 => db[i].reqs = rec[i].reqs /\ db[i].conn = rec[i].conn

\* Each new record goes to a free place of its own.
LEMMA NewPlaces ==
    ASSUME NEW db, NEW as, Room(db, as), NEW i \in Slots
    PROVE  LET new == CacheNew(db, as) IN
           \/ new[i] = db[i]
           \/ \E a \in New(as) : new[i] = Cached(a) /\ db[i].st = "free"
<1> DEFINE at == CHOOSE p \in Places(db, as) : TRUE
           new == CacheNew(db, as)
<1>1. at \in Places(db, as)
  BY Zenon DEF Room
<1>2. new[i] = IF \E a \in New(as) : at[a] = i
                 THEN Cached(CHOOSE a \in New(as) : at[a] = i) ELSE db[i]
  BY Zenon DEF CacheNew
<1> HIDE DEF at, new
<1>3. CASE \E a \in New(as) : at[a] = i
  <2> DEFINE b == CHOOSE a \in New(as) : at[a] = i
  <2>1. b \in New(as) /\ at[b] = i
    BY <1>3, Zenon
  <2>2. new[i] = Cached(b)
    BY <1>2, <1>3, Zenon
  <2> HIDE DEF b
  <2>3. db[i].st = "free"
    BY Zenon, <1>1, <2>1 DEF Places, FreeSlots
  <2> QED BY <2>1, <2>2, <2>3, Zenon DEF new
<1>4. CASE ~\E a \in New(as) : at[a] = i
  BY <1>2, <1>4, Zenon DEF new
<1> QED BY <1>3, <1>4, Zenon

\* Two new records are never for the same address.
LEMMA NewDiffer ==
    ASSUME NEW db, NEW as, Room(db, as), NEW i \in Slots, NEW j \in Slots,
           \A a \in New(as) : Cached(a).addr = a,
           CacheNew(db, as)[i] # db[i], CacheNew(db, as)[j] # db[j],
           CacheNew(db, as)[i].addr = CacheNew(db, as)[j].addr
    PROVE  i = j
<1> DEFINE at == CHOOSE p \in Places(db, as) : TRUE
           new == CacheNew(db, as)
<1>1. at \in Places(db, as)
  BY Zenon DEF Room
<1>2. ASSUME NEW k \in Slots, new[k] # db[k]
      PROVE  \E a \in New(as) : new[k] = Cached(a) /\ at[a] = k
  <2>1. new[k] = IF \E a \in New(as) : at[a] = k
                   THEN Cached(CHOOSE a \in New(as) : at[a] = k) ELSE db[k]
    BY Zenon DEF CacheNew
  <2> HIDE DEF at, new
  <2>2. \E a \in New(as) : at[a] = k
    BY <1>2, <2>1, Zenon
  <2> DEFINE b == CHOOSE a \in New(as) : at[a] = k
  <2>3. b \in New(as) /\ at[b] = k
    BY <2>2, Zenon
  <2>4. new[k] = Cached(b)
    BY <2>1, <2>2, Zenon
  <2> HIDE DEF b
  <2> QED BY Zenon, <2>3, <2>4
<1> HIDE DEF at
<1>3. PICK a \in New(as) : new[i] = Cached(a) /\ at[a] = i
  BY Zenon, <1>2
<1>4. PICK b \in New(as) : new[j] = Cached(b) /\ at[b] = j
  BY Zenon, <1>2
<1>5. a = b
  BY <1>3, <1>4, Zenon
<1> QED BY <1>3, <1>4, <1>5

\* An update of the cache by the PTM keeps the invariant, whatever the worker
\* that asked for it does next.
LEMMA UpdateStep ==
    ASSUME IInv, NEW as \in SUBSET Addrs, NEW db \in [Slots -> Record], Room(db, as),
           Updated(db), rec' = CacheNew(db, as), wrk' \in [Workers -> Worker],
           \A v \in Workers :
              \/ wrk'[v] = wrk[v]
              \/ /\ wrk[v].pc = "ask" /\ wrk'[v].pc = "refind" /\ wrk'[v].rec = wrk[v].rec
                 /\ wrk'[v].type = wrk[v].type,
           late' = late, UNCHANGED env, UNCHANGED neg
    PROVE  IInv'
<1>1. \A a \in Addrs : /\ Cached(a) \in Record /\ RecordOK(Cached(a), 0, 0)
                       /\ ~Unmarked(Cached(a)) /\ Cached(a).addr = a
  BY CachedOK, Zenon DEF IInv, TypeOK
<1>2. New(as) \subseteq Addrs
  BY Zenon DEF New
<1>3. \A v \in Workers : Stays(v)
  <2>1. ASSUME NEW v \in Workers PROVE Stays(v)
    <3>1. CASE wrk'[v] = wrk[v]
      BY <3>1, Zenon DEF Stays
    <3>2. CASE wrk'[v] # wrk[v]
      BY <3>2 DEF Stays
    <3> QED BY <3>1, <3>2
  <2> QED BY <2>1
<1>4. \A i \in Slots : Holders(i)' = Holders(i) /\ Out(i)' = Out(i)
  BY <1>3, AllStay, Zenon
<1>5. ASSUME NEW i \in Slots
      PROVE  \/ rec'[i] = db[i]
             \/ /\ \E a \in New(as) : rec'[i] = Cached(a)
                /\ Holders(i) = {} /\ Out(i) = {}
  <2>1. \/ rec'[i] = db[i]
        \/ \E a \in New(as) : rec'[i] = Cached(a) /\ db[i].st = "free"
    BY Zenon, NewPlaces
  <2>2. ASSUME db[i].st = "free" PROVE Holders(i) = {} /\ Out(i) = {}
    <3>1. RecordOK(db[i], Cardinality(Holders(i)), Cardinality(Out(i))) /\ db[i] \in Record
      BY Zenon DEF Updated
    <3>2. Cardinality(Holders(i)) \in Nat /\ Cardinality(Out(i)) \in Nat
          /\ (Holders(i) # {} => Cardinality(Holders(i)) > 0)
      BY HoldersAreWorkers, Sizes
    <3>3. ~(Cardinality(Holders(i)) > 0)
      BY <2>2, <3>1, <3>2, HeldIsUsed
    <3> QED BY <3>2, <3>3, HoldersAreWorkers
  <2> QED BY <2>1, <2>2, Zenon
<1>6. ASSUME NEW i \in Slots
      PROVE  /\ rec'[i] \in Record
             /\ RecordOK(rec'[i], Cardinality(Holders(i)), Cardinality(Out(i)))
             /\ Unmarked(rec'[i]) => Out(i) # Holders(i)
  <2>1. CASE rec'[i] = db[i]
    <3>1. /\ RecordOK(db[i], Cardinality(Holders(i)), Cardinality(Out(i))) /\ db[i] \in Record
          /\ Follows(db[i], rec[i]) /\ (Unmarked(rec[i]) => Out(i) # Holders(i))
      BY Zenon DEF Updated, IInv, RemovedOK
    <3> QED BY <2>1, <3>1, Zenon DEF Follows
  <2>2. CASE rec'[i] # db[i]
    <3>1. PICK a \in New(as) : rec'[i] = Cached(a)
      BY <1>5, <2>2, Zenon
    <3>2. Holders(i) = {} /\ Out(i) = {}
      BY <1>5, <2>2, Zenon
    <3>3. Cardinality(Holders(i)) = 0 /\ Cardinality(Out(i)) = 0
      BY <3>2, FS_EmptySet
    <3>4. a \in Addrs
      BY Zenon, <1>2
    <3> QED BY <1>1, <3>1, <3>3, <3>4, Zenon
  <2> QED BY Zenon, <2>1, <2>2
<1>7. rec' \in [Slots -> Record]
  <2>1. rec' = [i \in Slots |-> rec'[i]]
    BY DEF CacheNew
  <2> QED BY Zenon, <1>6, <2>1
<1>8. RecordsOK'
  BY <1>4, <1>6, Zenon DEF RecordsOK
<1>9. RemovedOK'
  BY <1>4, <1>6, Zenon DEF RemovedOK, Unmarked
<1>10. OneRecordPerAddress'
  <2>1. ASSUME NEW i \in Slots, rec'[i] = db[i], rec'[i].inDB
        PROVE  rec[i].inDB /\ rec'[i].addr = rec[i].addr
    BY <2>1, Zenon DEF Updated, Follows
  <2>2. ASSUME NEW i \in Slots, NEW j \in Slots, rec'[i].inDB, rec'[i] = db[i],
               rec'[j] # db[j], rec'[i].addr = rec'[j].addr
        PROVE  FALSE
    <3>1. PICK a \in New(as) : rec'[j] = Cached(a)
      BY <1>5, <2>2, Zenon
    <3>2. rec'[j].addr = a
      BY Zenon, <1>1, <1>2, <3>1
    <3>3. rec[i].inDB /\ rec[i].addr = a
      BY <2>1, <2>2, <3>2, Zenon
    <3> QED BY <3>3 DEF New, AtAddr
  <2>3. ASSUME NEW i \in Slots, NEW j \in Slots, rec'[i].inDB, rec'[j].inDB,
               rec'[i].addr = rec'[j].addr
        PROVE  i = j
    <3>1. CASE rec'[i] = db[i] /\ rec'[j] = db[j]
      <4>1. rec[i].inDB /\ rec[j].inDB /\ rec[i].addr = rec[j].addr
        BY <2>1, <2>3, <3>1, Zenon
      <4> QED BY <4>1, Zenon DEF IInv, OneRecordPerAddress
    <3>2. CASE rec'[i] # db[i] /\ rec'[j] # db[j]
      <4>1. \A a \in New(as) : Cached(a).addr = a
        BY Zenon, <1>1, <1>2
      <4> QED BY Zenon, <2>3, <3>2, <4>1, NewDiffer
    <3>3. CASE rec'[i] = db[i] /\ rec'[j] # db[j]
      BY <2>2, <2>3, <3>3, Zenon
    <3>4. CASE rec'[i] # db[i] /\ rec'[j] = db[j]
      BY <2>2, <2>3, <3>4, Zenon
    <3> QED BY <3>1, <3>2, <3>3, <3>4, Zenon
  <2> QED BY <2>3, Zenon DEF OneRecordPerAddress
<1>11. TypeOK'
  BY <1>7, Zenon DEF IInv, TypeOK, env
<1>12. ASSUME NEW v \in Workers PROVE WorkerOK(v)'
  <2>1. CASE wrk'[v] # wrk[v]
    <3>1. WorkerOK(v) /\ late'[v] = late[v]
      BY Zenon DEF IInv
    <3> QED BY <2>1, <3>1 DEF WorkerOK, HasRequest, Using
  <2>2. CASE wrk'[v] = wrk[v] /\ wrk[v].pc \notin Using
    <3>1. WorkerOK(v)
      BY Zenon DEF IInv
    <3>2. ~HasRequest(v) /\ wrk[v].pc # "mark"
      BY <2>2 DEF HasRequest, Using
    <3> QED BY <2>2, <3>1, <3>2, WorkerKept, Zenon
  <2>3. CASE wrk'[v] = wrk[v] /\ wrk[v].pc \in Using
    <3>0. PICK i : wrk[v].rec = i
      OBVIOUS
    <3>1. WorkerOK(v)
      BY Zenon DEF IInv
    <3>2. i \in Slots /\ v \in Holders(i) /\ Cardinality(Holders(i)) > 0
      BY <2>3, <3>0, HolderFacts
    <3>3. rec'[i] = db[i]
      BY Zenon, <1>5, <3>2
    <3>4. /\ rec'[i].inDB => rec[i].inDB
          /\ rec'[i].reqs = rec[i].reqs /\ rec'[i].conn = rec[i].conn
      BY <3>2, <3>3, Zenon DEF Updated, Follows
    <3> QED BY <2>3, <3>0, <3>1, <3>4, WorkerKept, Zenon
  <2> QED BY <2>1, <2>2, <2>3, Zenon
<1> QED BY <1>7, <1>8, <1>9, <1>10, <1>11, <1>12, Zenon DEF IInv

\* A beacon replaces the contents of the cache.
LEMMA UpdateFromBeaconStep == ASSUME IInv, UpdateFromBeacon PROVE IInv'
<1> DEFINE listed == {a \in Addrs : kind[a] # None}
           swept == [i \in Slots |-> Sweep(rec[i], listed)]
<1>0. /\ kind \in [Addrs -> Types \cup {None}] /\ wrk \in [Workers -> Worker]
      /\ rec \in [Slots -> Record]
  BY DEF IInv, TypeOK
<1>1. /\ Room(swept, listed) /\ rec' = CacheNew(swept, listed) /\ wrk' = wrk /\ late' = late
      /\ UNCHANGED env /\ UNCHANGED neg
  BY Zenon DEF UpdateFromBeacon
<1>2. listed \in SUBSET Addrs
  OBVIOUS
<1> HIDE DEF listed
<1>3. ASSUME NEW i \in Slots
      PROVE  LET q == Sweep(rec[i], listed)
                 h == Cardinality(Holders(i))
             IN /\ q \in Record /\ RecordOK(q, h, Cardinality(Out(i))) /\ Follows(q, rec[i])
                /\ h > 0 => q.reqs = rec[i].reqs /\ q.conn = rec[i].conn
  <2>1. /\ Cardinality(Holders(i)) \in Nat /\ Cardinality(Out(i)) \in Nat
        /\ Cardinality(Out(i)) <= Cardinality(Holders(i)) /\ Cardinality(Holders(i)) <= N
    BY HoldersAreWorkers, Sizes
  <2>2. rec[i] \in Record /\ RecordOK(rec[i], Cardinality(Holders(i)), Cardinality(Out(i)))
    BY <1>0, Zenon DEF IInv, RecordsOK
  <2> QED BY <1>0, <2>1, <2>2, SweptOK
<1>4. swept \in [Slots -> Record] /\ \A i \in Slots : swept[i] = Sweep(rec[i], listed)
  BY <1>3
<1> HIDE DEF swept
<1>5. Updated(swept)
  BY <1>3, <1>4, Zenon DEF Updated
<1>6. wrk' \in [Workers -> Worker] /\ \A v \in Workers : wrk'[v] = wrk[v]
  BY <1>0, <1>1
<1> QED BY <1>1, <1>2, <1>4, <1>5, <1>6, UpdateStep

\* The PTM answers with a distiller, that it knows of none, or not at all.
LEMMA AskPTMStep == ASSUME IInv, NEW w \in Workers, AskPTM(w) PROVE IInv'
<1>0. /\ kind \in [Addrs -> Types \cup {None}] /\ wrk \in [Workers -> Worker]
      /\ rec \in [Slots -> Record] /\ neg \subseteq Types
  BY DEF IInv, TypeOK
<1>1. /\ wrk[w].pc = "ask" /\ UNCHANGED env /\ UNCHANGED neg /\ late' = late
      /\ wrk[w].pc \notin Using /\ neg' \subseteq Types
  BY <1>0 DEF AskPTM, At, Using
<1>2. ASSUME NEW a \in Addrs,
             LET db == [i \in Slots |-> Refreshed(rec[i], {a})] IN
             Room(db, {a}) /\ rec' = CacheNew(db, {a}),
             Goto(w, "refind")
      PROVE  IInv'
  <2> DEFINE as == {a}
             db == [i \in Slots |-> Refreshed(rec[i], as)]
  <2>1. Room(db, as) /\ rec' = CacheNew(db, as)
    BY <1>2
  <2>2. as \in SUBSET Addrs
    OBVIOUS
  <2> HIDE DEF as
  <2>3. ASSUME NEW i \in Slots
        PROVE  LET q == Refreshed(rec[i], as) IN
               /\ q \in Record /\ RecordOK(q, Cardinality(Holders(i)), Cardinality(Out(i)))
               /\ Follows(q, rec[i]) /\ q.reqs = rec[i].reqs /\ q.conn = rec[i].conn
    <3>1. /\ Cardinality(Holders(i)) \in Nat /\ Cardinality(Out(i)) \in Nat
          /\ Cardinality(Out(i)) <= Cardinality(Holders(i)) /\ Cardinality(Holders(i)) <= N
      BY HoldersAreWorkers, Sizes
    <3>2. rec[i] \in Record /\ RecordOK(rec[i], Cardinality(Holders(i)), Cardinality(Out(i)))
      BY <1>0, Zenon DEF IInv, RecordsOK
    <3>3. Cardinality(Out(i)) <= N
      BY <3>1, NType
    <3> QED BY Zenon, <1>0, <3>1, <3>2, <3>3, RefreshedOK
  <2>4. db \in [Slots -> Record] /\ \A i \in Slots : db[i] = Refreshed(rec[i], as)
    BY Zenon, <2>3
  <2> HIDE DEF db
  <2>5. Updated(db)
    BY <2>3, <2>4, Zenon DEF Updated
  <2>6. "refind" \in Statements
    BY DEF Statements
  <2>7. /\ wrk' \in [Workers -> Worker] /\ \A v \in Workers \ {w} : wrk'[v] = wrk[v]
        /\ wrk'[w].pc = "refind" /\ wrk'[w].rec = wrk[w].rec /\ wrk'[w].type = wrk[w].type
    BY <1>2, <2>6, Goes
  <2>8. ASSUME NEW v \in Workers
        PROVE  \/ wrk'[v] = wrk[v]
               \/ /\ wrk[v].pc = "ask" /\ wrk'[v].pc = "refind" /\ wrk'[v].rec = wrk[v].rec
                  /\ wrk'[v].type = wrk[v].type
    BY <1>1, <2>7
  <2> QED BY Zenon, <1>1, <2>1, <2>2, <2>4, <2>5, <2>7, <2>8, UpdateStep
<1>3. CASE Goto(w, "negative") /\ rec' = rec
  BY <1>1, <1>3, GotoStep
<1>4. CASE Return(w) /\ rec' = rec
  BY <1>1, <1>4, ReturnStep
<1> QED BY <1>2, <1>3, <1>4, Zenon DEF AskPTM

\* getDistiller, the first time and again after the PTM was asked
LEMMA GetDistillerStep ==
    ASSUME IInv, NEW w \in Workers, GetDistiller(w) \/ FindAgain(w) \/ NegativeAdd(w)
    PROVE  IInv'
<1>0. neg \subseteq Types /\ WorkerOK(w)
  BY DEF IInv, TypeOK
<1>1. CASE GetDistiller(w)
  <2>1. /\ wrk[w].pc = "find" /\ UNCHANGED <<env, neg, late>> /\ wrk[w].pc \notin Using
        /\ neg' \subseteq Types /\ wrk[w].pc # "idle"
    BY <1>0, <1>1 DEF GetDistiller, At, Using
  <2>2. CASE Take(w)
    BY <2>1, <2>2, TakeStep
  <2>3. CASE rec' = rec /\ Return(w)
    BY <2>1, <2>3, ReturnStep
  <2>4. CASE rec' = rec /\ Goto(w, "ask")
    BY <2>1, <2>4, GotoStep
  <2> QED BY <1>1, <2>2, <2>3, <2>4, Zenon DEF GetDistiller
<1>2. CASE FindAgain(w)
  <2>1. /\ wrk[w].pc = "refind" /\ UNCHANGED <<env, neg, late>> /\ wrk[w].pc \notin Using
        /\ neg' \subseteq Types
    BY <1>0, <1>2 DEF FindAgain, At, Using
  <2>2. CASE Take(w)
    BY <2>1, <2>2, TakeStep
  <2>3. CASE rec' = rec /\ Return(w)
    BY <2>1, <2>3, ReturnStep
  <2> QED BY <1>2, <2>2, <2>3, Zenon DEF FindAgain
<1>3. CASE NegativeAdd(w)
  <2>1. /\ wrk[w].pc = "negative" /\ UNCHANGED <<env, rec, late>> /\ Return(w)
        /\ neg' = neg \cup {wrk[w].type} /\ wrk[w].pc \notin Using /\ wrk[w].pc # "idle"
    BY <1>3 DEF NegativeAdd, At, Using
  <2>2. neg' \subseteq Types
    BY <1>0, <2>1 DEF WorkerOK
  <2> QED BY <2>1, <2>2, ReturnStep
<1> QED BY <1>1, <1>2, <1>3

\* The inductive invariant is true at the start.
LEMMA Starts == Init => IInv
<1> SUFFICES ASSUME Init PROVE IInv
  OBVIOUS
<1>1. Idle \in Worker /\ Idle.pc = "idle" /\ Idle.rec = None
  BY DEF Idle, Worker
<1>2. /\ rec = [i \in Slots |-> Free] /\ wrk = [w \in Workers |-> Idle]
      /\ late = [w \in Workers |-> "none"]
  BY DEF Init
<1>3. Free \in Record /\ ~Unmarked(Free) /\ ~Free.inDB /\ RecordOK(Free, 0, 0)
  BY FreeOK
<1> HIDE DEF Free, Idle
<1>4. /\ rec \in [Slots -> Record] /\ wrk \in [Workers -> Worker]
      /\ late \in [Workers -> {"none", "fresh", "stale"}]
  BY <1>1, <1>2, <1>3
<1>5. TypeOK
  BY <1>4, StubConstants DEF Init, TypeOK
<1>6. ASSUME NEW i \in Slots
      PROVE  Cardinality(Holders(i)) = 0 /\ Cardinality(Out(i)) = 0
  <2>1. Holders(i) = {}
    BY <1>1, <1>2, StubConstants DEF Holders
  <2> QED BY <2>1, HoldersAreWorkers, FS_EmptySet
<1>7. \A i \in Slots : rec[i] = Free
  BY <1>2
<1>8. RecordsOK
  BY <1>3, <1>6, <1>7, Zenon DEF RecordsOK
<1>9. RemovedOK /\ OneRecordPerAddress
  BY <1>3, <1>7, Zenon DEF RemovedOK, OneRecordPerAddress
<1>10. \A w \in Workers : WorkerOK(w)
  BY <1>1, <1>2 DEF WorkerOK, HasRequest, Using
<1> QED BY <1>5, <1>8, <1>9, <1>10, Zenon DEF IInv

\* A step of any thread keeps it.
LEMMA Steps == IInv /\ [Next]_vars => IInv'
<1> SUFFICES ASSUME IInv, [Next]_vars PROVE IInv'
  OBVIOUS
<1>1. CASE UNCHANGED vars
  <2>1. rec' = rec /\ wrk' = wrk /\ late' = late /\ life' = life /\ kind' = kind
        /\ renames' = renames /\ neg' = neg
    BY <1>1 DEF vars
  <2>2. /\ life' \in [Addrs -> {"unborn", "alive", "dead"}]
        /\ kind' \in [Addrs -> Types \cup {None}] /\ renames' \in 0 .. MaxRenames
        /\ neg' \subseteq Types
    BY <2>1, Zenon DEF IInv, TypeOK
  <2> QED BY <2>1, <2>2, StillStep
<1>2. CASE Next
  <2>1. ASSUME NEW w \in Workers, WorkerStep(w) PROVE IInv'
    BY <2>1, GetDistillerStep, AskPTMStep, DistillStartStep, SendStep, SendFailsStep,
       FinishStep, RemoveDistillerStep, MarkAndRetryStep, Zenon DEF WorkerStep
  <2> QED BY <1>2, <2>1, EnvironmentStep, UpdateFromBeaconStep, BeginStep, FoundStep,
             DeliverStep, ConnectionGoneStep, Zenon DEF Next
<1> QED BY <1>1, <1>2

\* It implies what is wanted.
LEMMA Suffices == IInv => RecordsAreKept
<1> SUFFICES ASSUME IInv PROVE RecordsAreKept
  OBVIOUS
<1>1. ASSUME NEW i \in Slots
      PROVE  /\ rec[i] \in Record /\ RecordOK(rec[i], Cardinality(Holders(i)), Cardinality(Out(i)))
             /\ Unmarked(rec[i]) => Out(i) # Holders(i)
             /\ Cardinality(Holders(i)) \in Nat /\ Cardinality(Out(i)) \in Nat
             /\ Cardinality(Out(i)) <= Cardinality(Holders(i)) /\ Cardinality(Holders(i)) <= N
             /\ Holders(i) # {} => Cardinality(Holders(i)) > 0
  <2>1. rec[i] \in Record /\ RecordOK(rec[i], Cardinality(Holders(i)), Cardinality(Out(i)))
        /\ (Unmarked(rec[i]) => Out(i) # Holders(i))
    BY Zenon DEF IInv, TypeOK, RecordsOK, RemovedOK
  <2> QED BY <2>1, HoldersAreWorkers, Sizes
<1>2. ASSUME NEW i \in Slots, rec[i].st = "free" PROVE Holders(i) = {}
  BY <1>1, <1>2, HeldIsUsed
<1>3. ASSUME NEW i \in Slots
      PROVE  rec[i].refs = Cardinality(Holders(i)) + rec[i].old
                             + (IF rec[i].conn = "null" THEN 0 ELSE 1)
  BY <1>1, Zenon DEF RecordOK, Counts, Linked
<1>4. ASSUME NEW i \in Slots, rec[i].st = "used", ~rec[i].inDB PROVE rec[i].refs > 0
  <2>1. CASE rec[i].marked
    BY <1>1, <2>1, Zenon DEF RecordOK
  <2>2. CASE ~rec[i].marked
    <3>1. Out(i) # Holders(i)
      BY <1>1, <1>4, <2>2, Zenon DEF Unmarked
    <3>2. Holders(i) # {}
      BY <3>1, HoldersAreWorkers
    <3>3. rec[i].refs >= Cardinality(Holders(i)) /\ Cardinality(Holders(i)) > 0
      BY <1>1, <3>2, HeldIsUsed
    <3> QED BY <1>1, <3>3, Numbers
  <2> QED BY <2>1, <2>2
<1>5. RefsExact
  BY <1>2, <1>3, <1>4, Zenon DEF RefsExact
<1>6. PendingBounded
  <2>1. ASSUME NEW i \in Slots PROVE rec[i].pending <= N /\ -rec[i].pending <= N
    <3>1. Counts(rec[i], Cardinality(Holders(i)), Cardinality(Out(i)))
      BY <1>1, Zenon DEF RecordOK
    <3> QED BY <1>1, <3>1, Numbers, NType DEF Counts
  <2> QED BY <2>1 DEF PendingBounded, N
<1>7. WaitingIsPending
  BY Zenon DEF IInv, WorkerOK, WaitingIsPending
<1> QED BY <1>5, <1>6, <1>7, Zenon DEF IInv, RecordsAreKept

\* CachedDistiller (cache.cc, cachenet.cc), for any workers, distillers and types:
\* reference counts are exact, so a record is deleted neither early nor never; two
\* records of the database never have one address; pendingCount stays within the
\* number of workers; and a broken connection leaves no worker waiting.
THEOREM RecordsAlwaysKept == Spec => []RecordsAreKept
<1>1. Spec => []IInv
  BY Starts, Steps, PTL DEF Spec
<1> QED BY <1>1, Suffices, PTL
=============================================================================
