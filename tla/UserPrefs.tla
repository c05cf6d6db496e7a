------------------------------ MODULE UserPrefs ------------------------------
(***************************************************************************)
(* The user preferences of the front end: the gdbm file, the cache before  *)
(* it and the requests that change them (frontend/src/userpref.c,          *)
(* parse_upref.c, and their callers in httpgo.c).                          *)
(*                                                                         *)
(* Every worker thread first gets the preferences of its client; a         *)
(* "set preferences" request then reads the file again, applies the        *)
(* name=value pairs of its URL to the list and sets the result, in the     *)
(* cache and then in the file.  Only the single gdbm calls are locked.  A  *)
(* copy of a list into or out of the cache is two steps, the count with    *)
(* the first argument and then the others, so that copies overlap as they  *)
(* may in the program.                                                     *)
(***************************************************************************)
EXTENDS Naturals, Sequences, FiniteSets, SequencesExt

CONSTANTS
    Threads,         \* worker threads
    Users,           \* user keys (addresses; 0 = could not be determined)
    Requests,        \* URLs: [set, query, tokens]
    Ids,             \* argument ids
    DefaultIds,      \* the ids of default_args
    MAX_ARGS,        \* length of an ArgumentList
    USERCACHE_SIZE,  \* buckets of the cache
    LastFile,        \* the last fallback name tried (255 in the code)
    MaxRequests, MaxRestarts

VARIABLES
    db,         \* per file: the lists stored, by user
    file,       \* the file that is open
    userCache,  \* the cache, by bucket: a key and a list
    pc, req,    \* per thread: where it is, and its request
    al,         \* per thread: its ArgumentList
    got,        \* per thread: what get_userprefs returned
    result,     \* per thread: status of the last change
    base,       \* ghost, per thread: the stored list its change began with
    overlap,    \* ghost: two requests were under way at once
    served, restarts

vars == <<db, file, userCache, pc, req, al, got, result, base, overlap,
          served, restarts>>

NoArg == [id |-> 0, value |-> <<0, 0>>]
Empty == [nargs |-> 0, arg |-> [i \in 1..MAX_ARGS |-> NoArg]]

default_prefs ==
    LET d == SetToSeq(DefaultIds)
    IN  [nargs |-> Len(d),
         arg |-> [i \in 1..MAX_ARGS |->
                    IF i <= Len(d) THEN [id |-> d[i], value |-> <<0, 0>>]
                                   ELSE NoArg]]

Listed(p) == {p.arg[i] : i \in 1..p.nargs}

hash(u) == u % USERCACHE_SIZE

\* gdbm_fetch, or the defaults
Stored(u) == IF u \in DOMAIN db[file] THEN db[file][u] ELSE default_prefs

(***************************************************************************)
(* parse_and_change_prefs on a list: [p, err].                             *)
(***************************************************************************)
remove_from_arglist(id, p) ==
    LET at == {i \in 1..p.nargs : p.arg[i].id = id}
        f  == CHOOSE i \in at : \A j \in at : i <= j
    IN  IF at = {} THEN p
        ELSE [nargs |-> p.nargs - 1,
              arg |-> [i \in 1..MAX_ARGS |->
                         IF i >= f /\ i < p.nargs THEN p.arg[i + 1]
                                                  ELSE p.arg[i]]]

Applied_Appended(p, t, u) ==   \* never looks for the id
    [p |-> IF p.nargs >= MAX_ARGS THEN p
           ELSE [nargs |-> p.nargs + 1,
                 arg |-> [p.arg EXCEPT ![p.nargs + 1] =
                            [id |-> t.id, value |-> <<u, t.value>>]]],
     err |-> FALSE]

Applied(p, t, u) ==
    LET at == {i \in 1..p.nargs : p.arg[i].id = t.id}
        n  == IF at = {} THEN p.nargs + 1
                         ELSE CHOOSE i \in at : \A j \in at : j <= i
        q  == [nargs |-> IF at = {} THEN p.nargs + 1 ELSE p.nargs,
               arg |-> [p.arg EXCEPT ![n].id = t.id]]
    IN  CASE t.form # "name=val"                -> [p |-> p, err |-> TRUE]
          [] t.form = "name=val" /\ at = {} /\ p.nargs >= MAX_ARGS
                                                -> [p |-> p, err |-> FALSE]
          [] OTHER ->
               IF t.type = "other" \/ (t.value = "junk" /\ t.type # "s")
               THEN [p |-> q, err |-> TRUE]
               ELSE [p |-> IF t.value = ""
                           THEN remove_from_arglist(t.id, q)
                           ELSE [q EXCEPT !.arg[n].value = <<u, t.value>>],
                     err |-> FALSE]

Parsed(p, tokens, u) ==
    FoldLeft(LAMBDA s, t : IF s.err THEN s ELSE Applied(s.p, t, u),
             [p |-> p, err |-> FALSE], tokens)

-----------------------------------------------------------------------------
Init ==
    /\ db = [f \in 0..LastFile |-> << >>]
    /\ file \in 0..LastFile          \* the files before it are held by others
    /\ userCache = [b \in 0..(USERCACHE_SIZE - 1) |-> [key |-> 0, al |-> Empty]]
    /\ pc = [t \in Threads |-> "idle"]
    /\ req = [t \in Threads |-> << >>]
    /\ al = [t \in Threads |-> Empty]
    /\ got = [t \in Threads |-> << >>]
    /\ result = [t \in Threads |-> "none"]
    /\ base = [t \in Threads |-> Empty]
    /\ overlap = FALSE
    /\ served = 0 /\ restarts = 0

Goto(t, l) == pc' = [pc EXCEPT ![t] = l]

\* A worker takes a request; a thread that waits holds nothing of the last.
Begin(t, u, r) ==
    /\ pc[t] = "idle" /\ served < MaxRequests
    /\ served' = served + 1
    /\ req' = [req EXCEPT ![t] = [user |-> u, url |-> r]]
    /\ al' = [al EXCEPT ![t] = Empty]
    /\ got' = [got EXCEPT ![t] = << >>]
    /\ result' = [result EXCEPT ![t] = "none"]
    /\ base' = [base EXCEPT ![t] = Empty]
    /\ overlap' = (overlap \/ \E s \in Threads : pc[s] # "idle")
    /\ Goto(t, "look")
    /\ UNCHANGED <<db, file, userCache, restarts>>

user(t) == req[t].user
Bucket(t) == hash(user(t))

\* inUcache: the key is compared, then the list is copied out.
inUcache(t) ==
    /\ pc[t] = "look"
    /\ Goto(t, IF userCache[Bucket(t)].key = user(t) THEN "copy" ELSE "fetch")
    /\ UNCHANGED <<db, file, userCache, req, al, got, result, base, overlap,
                   served, restarts>>

CopyFirst(to, from) ==
    [nargs |-> from.nargs, arg |-> [to.arg EXCEPT ![1] = from.arg[1]]]
CopyRest(to, from) ==
    [to EXCEPT !.arg = [i \in 1..MAX_ARGS |->
                          IF i = 1 THEN to.arg[1] ELSE from.arg[i]]]

\* get_userprefs returns; a change goes on with what follows.
After(t) ==
    IF ~req[t].url.set THEN "idle"
    ELSE IF user(t) = 0 THEN "refused" ELSE "intent"

CopyOut(t) ==
    \/ /\ pc[t] = "copy"
       /\ al' = [al EXCEPT ![t] = CopyFirst(@, userCache[Bucket(t)].al)]
       /\ Goto(t, "copy2")
       /\ UNCHANGED <<db, file, userCache, req, got, result, base, overlap,
                      served, restarts>>
    \/ /\ pc[t] = "copy2"
       /\ al' = [al EXCEPT ![t] = CopyRest(@, userCache[Bucket(t)].al)]
       /\ got' = [got EXCEPT ![t] = <<al'[t]>>]
       /\ Goto(t, After(t))
       /\ UNCHANGED <<db, file, userCache, req, result, base, overlap, served,
                      restarts>>

getFromDBM(t) ==
    /\ pc[t] \in {"fetch", "intent"}
    /\ al' = [al EXCEPT ![t] = Stored(user(t))]
    /\ base' = [base EXCEPT ![t] = Stored(user(t))]
    /\ Goto(t, IF pc[t] = "fetch" THEN "key" ELSE "parse")
    /\ UNCHANGED <<db, file, userCache, req, got, result, overlap, served,
                   restarts>>

(***************************************************************************)
(* putInUcache: the key first, then the list; "key..." follows a miss and  *)
(* "setkey..." is set_userprefs, which goes on to the file.                *)
(***************************************************************************)
putInUcache(t) ==
    /\ \/ /\ pc[t] \in {"key", "setkey"}
          /\ userCache' = [userCache EXCEPT ![Bucket(t)].key = user(t)]
          /\ Goto(t, IF pc[t] = "key" THEN "put" ELSE "setput")
          /\ UNCHANGED got
       \/ /\ pc[t] \in {"put", "setput"}
          /\ userCache' = [userCache EXCEPT ![Bucket(t)].al = CopyFirst(@, al[t])]
          /\ Goto(t, IF pc[t] = "put" THEN "put2" ELSE "setput2")
          /\ UNCHANGED got
       \/ /\ pc[t] \in {"put2", "setput2"}
          /\ userCache' = [userCache EXCEPT ![Bucket(t)].al = CopyRest(@, al[t])]
          /\ IF pc[t] = "put2" THEN got' = [got EXCEPT ![t] = <<al[t]>>]
                               ELSE UNCHANGED got
          /\ Goto(t, IF pc[t] = "put2" THEN After(t) ELSE "store")
    /\ UNCHANGED <<db, file, req, al, result, base, overlap, served, restarts>>

\* A request of an unknown user is refused before anything is read.
Refuse(t) ==
    /\ pc[t] = "refused"
    /\ result' = [result EXCEPT ![t] = "HTTP_ERR_UNSPECIFIED"]
    /\ Goto(t, "idle")
    /\ UNCHANGED <<db, file, userCache, req, al, got, base, overlap, served,
                   restarts>>

(***************************************************************************)
(* The pairs of the URL are applied.  With no pair at all error_string is  *)
(* never given a value, and either outcome is possible.                    *)
(***************************************************************************)
parse_and_change_prefs_Partly(t) ==   \* keeps what came before a bad pair
    /\ pc[t] = "parse"
    /\ al' = [al EXCEPT ![t] = Parsed(@, req[t].url.tokens, user(t)).p]
    /\ Goto(t, "setkey")
    /\ UNCHANGED <<db, file, userCache, req, got, result, base, overlap, served,
                   restarts>>

parse_and_change_prefs(t) ==
    LET url == req[t].url
        s   == Parsed(al[t], url.tokens, user(t))
    IN  /\ pc[t] = "parse"
        /\ \/ /\ ~url.query
              /\ result' = [result EXCEPT ![t] = "HTTP_ERR_MALFORMED_REQUEST"]
              /\ Goto(t, "idle") /\ UNCHANGED al
           \/ /\ url.query
              /\ s.err \/ url.tokens = << >>
              /\ result' = [result EXCEPT ![t] = "HTTP_ERR_BAD_TOKEN"]
              /\ Goto(t, "idle") /\ UNCHANGED al
           \/ /\ url.query /\ ~s.err
              /\ al' = [al EXCEPT ![t] = s.p]
              /\ Goto(t, "setkey") /\ UNCHANGED result
        /\ UNCHANGED <<db, file, userCache, req, got, base, overlap, served,
                       restarts>>

writeToDBM(t) ==
    /\ pc[t] = "store"
    /\ db' = [db EXCEPT ![file] = (user(t) :> al[t]) @@ @]
    /\ result' = [result EXCEPT ![t] = "HTTP_NO_ERR"]
    /\ Goto(t, "idle")
    /\ UNCHANGED <<file, userCache, req, al, got, base, overlap, served, restarts>>

(***************************************************************************)
(* The front end stops at any moment and starts again: init_prefs clears   *)
(* the cache and opens the first of the files that no one else holds.      *)
(***************************************************************************)
init_prefs ==
    /\ restarts < MaxRestarts
    /\ restarts' = restarts + 1
    /\ file' \in 0..LastFile
    /\ userCache' = [b \in DOMAIN userCache |-> [userCache[b] EXCEPT !.key = 0, !.al = Empty]]
    /\ pc' = [t \in Threads |-> "idle"]
    /\ req' = [t \in Threads |-> << >>]
    /\ al' = [t \in Threads |-> Empty]
    /\ got' = [t \in Threads |-> << >>]
    /\ result' = [t \in Threads |-> "none"]
    /\ base' = [t \in Threads |-> Empty]
    /\ UNCHANGED <<db, overlap, served>>

Step(t) ==
    \/ inUcache(t) \/ CopyOut(t) \/ getFromDBM(t) \/ putInUcache(t)
    \/ Refuse(t) \/ parse_and_change_prefs(t) \/ writeToDBM(t)

Next ==
    \/ \E t \in Threads :
         \/ \E u \in Users, r \in Requests : Begin(t, u, r)
         \/ Step(t)
    \/ init_prefs

Spec == Init /\ [][Next]_vars

-----------------------------------------------------------------------------
(***************************************************************************)
(* What a list says, and what a request asks of it, without places.        *)
(***************************************************************************)
Says(p) == [i \in {a.id : a \in Listed(p)} |->
              (CHOOSE a \in Listed(p) : a.id = i).value]

IsList(p) ==
    /\ p.nargs <= MAX_ARGS
    /\ \A i, j \in 1..p.nargs : i # j => p.arg[i].id # p.arg[j].id

Asked(f, t, u) ==
    IF t.value = "" THEN [i \in DOMAIN f \ {t.id} |-> f[i]]
    ELSE IF t.id \notin DOMAIN f /\ Cardinality(DOMAIN f) >= MAX_ARGS THEN f
    ELSE (t.id :> <<u, t.value>>) @@ f

(***************************************************************************)
(* However requests overlap and wherever the front end stops, the file     *)
(* holds for a user only proper lists made of the defaults and of that     *)
(* user's own settings: a wrong entry of the cache is never stored,        *)
(* because a change reads the file (get_userprefs_with_write_intent).      *)
(***************************************************************************)
StoredIsOwn ==
    \A f \in DOMAIN db : \A u \in DOMAIN db[f] :
        /\ IsList(db[f][u])
        /\ \A a \in Listed(db[f][u]) :
             a.value[1] = u \/ (a.value[1] = 0 /\ a.id \in DefaultIds)

(***************************************************************************)
(* A change that reaches the file has every pair of its URL well formed    *)
(* and is the list it read with those pairs applied in order, each setting *)
(* one id, removing it, or left out when the list is full.                 *)
(***************************************************************************)
SetsWhatItAsked ==
    \A t \in Threads : pc[t] = "store" =>
        LET k == req[t].url.tokens
        IN  /\ \A i \in 1..Len(k) : k[i].form = "name=val"
            /\ Says(al[t]) = FoldLeft(LAMBDA f, x : Asked(f, x, user(t)),
                                      Says(base[t]), k)

(***************************************************************************)
(* As long as no two requests overlapped, a cached entry says what the     *)
(* file says, whatever stopped and restarted in between and whoever        *)
(* shares the bucket.                                                      *)
(***************************************************************************)
CoherentWhenAlone ==
    (~overlap /\ \A t \in Threads : pc[t] = "idle") =>
        \A b \in DOMAIN userCache :
            userCache[b].key # 0 =>
                Says(userCache[b].al) = Says(Stored(userCache[b].key))

(***************************************************************************)
(* The three of them: what the preference store guarantees.                *)
(***************************************************************************)
PrefsAreKept == StoredIsOwn /\ SetsWhatItAsked /\ CoherentWhenAlone

-----------------------------------------------------------------------------
(***************************************************************************)
(* Not so: "multithread safety is good" (userpref.c:150).  A miss that     *)
(* read the file before a change stored its list may put the old list in   *)
(* the cache after it, where it stays.                                     *)
(***************************************************************************)
CacheIsCoherent ==
    (\A t \in Threads : pc[t] = "idle") =>
        \A b \in DOMAIN userCache :
            userCache[b].key # 0 =>
                Says(userCache[b].al) = Says(Stored(userCache[b].key))

(***************************************************************************)
(* Not so: a user is given only settings of their own.  The key of an      *)
(* entry is written before its list, and a reader in between takes the     *)
(* list of the user who shares the bucket.                                 *)
(***************************************************************************)
GetsOwn ==
    \A t \in Threads : got[t] # << >> =>
        \A a \in Listed(got[t][1]) : a.value[1] \in {0, user(t)}

(***************************************************************************)
(* Not so: what a successful change set is stored until the user changes   *)
(* it again.  Two changes that read the same list lose one of the two.     *)
(***************************************************************************)
NoChangeIsLost ==
    [][\A t \in Threads : (pc[t] = "store" /\ pc'[t] = "idle" /\ restarts' = restarts)
          => Says(base[t]) = Says(Stored(user(t)))]_vars

(***************************************************************************)
(* Not so: httpgo.c appends FRONT_CLIENT_IP to the list it got (210-212),  *)
(* which has no room for it when the user has set MAX_ARGS preferences.    *)
(***************************************************************************)
ClientAddressFits ==
    \A t \in Threads : got[t] # << >> => got[t][1].nargs < MAX_ARGS

\* Not so: an unknown user (key 0) gets the defaults; an empty entry matches.
UnknownGetsDefaults ==
    \A t \in Threads : (got[t] # << >> /\ user(t) = 0)
                            => Says(got[t][1]) = Says(default_prefs)
=============================================================================
