------------------------------ MODULE MCPublish ------------------------------
(* Small instances of the publication protocol for TLC. *)
EXTENDS PublishInvariants, TLC

WorkerSymmetry == Permutations(Workers)
=============================================================================
