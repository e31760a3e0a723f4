-------------------------- MODULE GenerationHistory --------------------------
(***************************************************************************)
(* What publication promises its readers: the committed generations of a   *)
(* project form one history without forks.  A generation is committed at   *)
(* most once, and it names as its predecessor the generation that was      *)
(* current when it was committed, so no committed generation is ever       *)
(* replaced by work that did not start from it.                            *)
(***************************************************************************)
EXTENDS Integers, Sequences

CONSTANTS Ids, NoId

VARIABLE log    \* the manifests committed so far: [id, prev]

Current == IF log = <<>> THEN NoId ELSE log[Len(log)].id

Init == log = <<>>

Publish(id) ==
    /\ \A i \in 1 .. Len(log) : log[i].id # id
    /\ log' = Append(log, [id |-> id, prev |-> Current])

Next == \E id \in Ids : Publish(id)

Spec == Init /\ [][Next]_log
=============================================================================
