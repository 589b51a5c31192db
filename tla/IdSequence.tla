----------------------------- MODULE IdSequence -----------------------------
(***************************************************************************)
(* What Store.nextID promises: the ids given out under one name grow, so   *)
(* none is given out twice.  Ids may be skipped.                           *)
(***************************************************************************)
EXTENDS Naturals, Sequences

CONSTANT Names

VARIABLE given    \* given[n]: the ids given out under the name n, in order

Init == given = [n \in Names |-> <<>>]

(* Any id above the ones given out.  It is an element of the new sequence, *)
(* which saves TLC a choice from all numbers.                              *)
Give(n) ==
    \E k \in DOMAIN given'[n] :
        LET id == given'[n][k]
        IN  /\ \A i \in DOMAIN given[n] : given[n][i] < id
            /\ given' = [given EXCEPT ![n] = Append(@, id)]

IdSpec == Init /\ [][\E n \in Names : Give(n)]_given
=============================================================================
