----------------------------- MODULE AtomicVault -----------------------------
(***************************************************************************)
(* What publishing a workspace promises of the local vault: its durable    *)
(* outputs change only when a run's whole set of staged outputs replaces   *)
(* the previous ones at once.                                              *)
(***************************************************************************)
CONSTANTS Entries, Runs

VARIABLE view    \* the run that produced each output of the vault

Publish(r) ==
    \E staged \in (SUBSET Entries) \ {{}} :
        view' = [e \in Entries |-> IF e \in staged THEN r ELSE view[e]]

Next == \E r \in Runs : Publish(r)

Spec == [][Next]_view
=============================================================================
