------------------------------ MODULE MCOutbox ------------------------------
(* Small instances of Outbox for TLC. *)
EXTENDS Outbox, TLC

\* Replicas differ in nothing but their names; sound for the safety runs only.
ReplicaSymmetry == Permutations(Processors)
=============================================================================
