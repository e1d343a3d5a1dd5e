--------------------------- MODULE MCTokenRefresh ---------------------------
(* A small instance of TokenRefresh: two tabs, one with two calls. *)
EXTENDS TokenRefresh, TLC

CONSTANTS t1, t2, r1, r2, r3

MCTabs == {t1, t2}
MCRequests == {r1, r2, r3}
MCTabOf == (r1 :> t1) @@ (r2 :> t1) @@ (r3 :> t2)
=============================================================================
