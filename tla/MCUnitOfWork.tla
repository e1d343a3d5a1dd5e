---------------------------- MODULE MCUnitOfWork ----------------------------
(* A small instance of UnitOfWork: two updates of one product, one asking for
   the price it already has, and one command with a single event, which may find
   its row as it wants it. *)
EXTENDS UnitOfWork, TLC

CONSTANTS u1, u2, s1

MCUpdates == {u1, u2}
MCSingles == {s1}
MCRewrites == {s1}
MCNewPrice == (u1 :> 10) @@ (u2 :> 20)
=============================================================================
