------------------------------ MODULE Database ------------------------------
(***************************************************************************)
(* Database and Index of ptm/include/database.h and                        *)
(* ptm/src/database/database.cc: a list of records and, beside it, indices *)
(* that hash the same records into buckets.  An index that allows no       *)
(* duplicates refuses a record, and Add then takes it out of the list and  *)
(* of the indices before.  A record is named by a model value; KeyOf[i][r] *)
(* is its key in index i and Hash[k] the hash of a key, sign and all.      *)
(***************************************************************************)
EXTENDS Integers, Sequences, SequencesExt, FiniteSets

CONSTANTS Records, KeyOf, Hash, NumBuckets, DuplicatesAllowed

Indices == DOMAIN KeyOf
Keys(i) == {KeyOf[i][r] : r \in Records}

\* What the constructors leave behind
Empty == [records |-> << >>,
          index |-> [i \in Indices |-> [b \in 0 .. NumBuckets - 1 |-> << >>]]]

\* Index::Normalize
Normalize(h) == (IF h < 0 THEN -h ELSE h) % NumBuckets

getBucket(ix, k) == ix[Normalize(Hash[k])]

\* Index::Find gives all records with the key, each put at the head of the
\* list it returns; FindOne the first.
Find(ix, i, k) == Reverse(SelectSeq(getBucket(ix, k), LAMBDA r : KeyOf[i][r] = k))
FindOne(ix, i, k) ==
    LET found == SelectSeq(getBucket(ix, k), LAMBDA r : KeyOf[i][r] = k)
    IN  IF found = << >> THEN {} ELSE {Head(found)}

Refuses(ix, i, r) == ~DuplicatesAllowed[i] /\ FindOne(ix, i, KeyOf[i][r]) # {}

\* Index::Add and the two Index::Remove (List::Remove takes the first that is
\* equal)
IndexAdd(ix, i, r) ==
    [ix EXCEPT ![Normalize(Hash[KeyOf[i][r]])] = <<r>> \o @]
IndexRemove(ix, i, r) ==
    [ix EXCEPT ![Normalize(Hash[KeyOf[i][r]])] = RemoveFirst(@, r)]
IndexRemoveKey(ix, i, k) ==
    [ix EXCEPT ![Normalize(Hash[k])] = SelectSeq(@, LAMBDA r : KeyOf[i][r] # k)]

\* Index 1 is the last that was added, and the first that is asked.
FirstRefusal(db, r) ==
    LET refusing == {i \in Indices : Refuses(db.index[i], i, r)}
    IN  IF refusing = {} THEN {} ELSE {CHOOSE i \in refusing : \A j \in refusing : i <= j}

DbAdd_Kept(db, r) ==
    LET no == FirstRefusal(db, r)
    IN  [records |-> <<r>> \o db.records,
         index |-> [i \in Indices |-> IF \E j \in no : i >= j THEN db.index[i]
                                      ELSE IndexAdd(db.index[i], i, r)]]
\* Database::Add, the way back included
DbAdd(db, r) ==
    LET no == FirstRefusal(db, r)
        added == [records |-> <<r>> \o db.records,
                  index |-> [i \in Indices |->
                               IF \E j \in no : i >= j THEN db.index[i]
                               ELSE IndexAdd(db.index[i], i, r)]]
    IN  IF no = {} THEN added
        ELSE [records |-> RemoveFirst(added.records, r),
              index |-> [i \in Indices |->
                           IF \E j \in no : i < j THEN IndexRemove(added.index[i], i, r)
                           ELSE added.index[i]]]

DbRemove(db, r) ==
    [records |-> RemoveFirst(db.records, r),
     index |-> [i \in Indices |-> IndexRemove(db.index[i], i, r)]]

\* The head is peeked at and removed until none is left.
DeleteAllRecords(db) == FoldLeft(DbRemove, db, db.records)

\* ForEach visits the records until the function says no (at the first of
\* Stop, which it still sees).
ForEach(db, Stop) ==
    LET n == SelectInSeq(db.records, LAMBDA r : r \in Stop)
    IN  IF n = 0 THEN db.records ELSE SubSeq(db.records, 1, n)
-----------------------------------------------------------------------------
VARIABLES db, owned     \* owned: the records whose Add succeeded

dbVars == <<db, owned>>

Init == db = Empty /\ owned = {}

\* Add returns whether all indices took the record.
AddRecord(r) ==
    /\ r \notin owned
    /\ db' = DbAdd(db, r)
    /\ owned' = IF FirstRefusal(db, r) = {} THEN owned \cup {r} ELSE owned

RemoveRecord(r) ==
    /\ r \in owned
    /\ db' = DbRemove(db, r)
    /\ owned' = owned \ {r}

DeleteAll ==
    /\ owned # {}
    /\ db' = DeleteAllRecords(db)
    /\ owned' = {}

Next == DeleteAll \/ \E r \in Records : AddRecord(r) \/ RemoveRecord(r)

Spec == Init /\ [][Next]_dbVars

\* The list and every index hold the records whose Add succeeded and that were
\* not removed, each once; a search in an index finds all of them that have
\* the key and no other, at most one where duplicates are not allowed; a walk
\* over all records visits each of them once.
IndicesAgree ==
    /\ IsInjective(db.records) /\ ToSet(db.records) = owned
    /\ \A i \in Indices :
         /\ \A k \in Keys(i) :
              LET found == Find(db.index[i], i, k)
              IN  /\ IsInjective(found)
                  /\ ToSet(found) = {r \in owned : KeyOf[i][r] = k}
                  /\ FindOne(db.index[i], i, k) \subseteq ToSet(found)
                  /\ (found # << >>) = (FindOne(db.index[i], i, k) # {})
                  /\ Len(found) > 1 => DuplicatesAllowed[i]
                  /\ IndexRemoveKey(db.index[i], i, k) =
                       FoldLeft(LAMBDA ix, r : IndexRemove(ix, i, r), db.index[i], found)
    /\ \A r \in Records : ToSet(ForEach(db, {r})) \subseteq owned
    /\ \A r \in owned : Last(ForEach(db, {r})) = r
=============================================================================
