-------------------------------- MODULE MCPTM --------------------------------
(***************************************************************************)
(* Instances of PTM for TLC.  Type "any" is a wildcard type: a distiller   *)
(* of type "any" serves every type.                                        *)
(***************************************************************************)
EXTENDS PTM, TLC

CONSTANTS gif, any

SameType == {<<t, t>> : t \in Types}
Wildcard == SameType \cup {<<any, t>> : t \in Types}
OneType == {gif}
TwoTypes == {gif, any}

\* Of two distillers the second runs only where the wildcard does not occur,
\* in a request, a process or a record.
OneOrTheOther ==
    LET anyUsed == \/ \E d \in Distillers : dist[d].type = any
                   \/ \E l \in Records : launch[l].type = any
                   \/ \E q \in asks : q.type = any
                   \/ \E k \in DOMAIN stack : stack[k].type = any
                   \/ \E n \in negative : n[2] = any
        running == {d \in Distillers : dist[d].state # "off"}
    IN  anyUsed => Cardinality(running) <= 1

Symmetry == Permutations(FrontEnds) \cup Permutations(Records)
              \cup Permutations(Distillers)
=============================================================================
