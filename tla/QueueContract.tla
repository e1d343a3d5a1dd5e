--------------------------- MODULE QueueContract ----------------------------
(***************************************************************************)
(* What the offline queue promises to the screens, with no mention of      *)
(* syncs, snapshots, hooks or failures: an operation enters once, is sent  *)
(* any number of times while it is held, and leaves only when the server   *)
(* has applied it.  A request that the phone no longer waits for may be    *)
(* applied later, even after its operation has left.                       *)
(***************************************************************************)
EXTENDS Naturals

CONSTANT Operations  \* what can be queued

VARIABLES
    entered,    \* operations whose row was ever inserted
    left,       \* of those, the ones no sync will take up again
    delivered,  \* per operation: how often the server has applied it
    abroad      \* per operation: its requests that nobody waits for any more

contractVars == <<entered, left, delivered, abroad>>

Held == entered \ left

ContractInit ==
    /\ entered = {}
    /\ left = {}
    /\ delivered = [o \in Operations |-> 0]
    /\ abroad = [o \in Operations |-> 0]

Enter(o) ==
    /\ o \in Operations \ entered
    /\ entered' = entered \union {o}
    /\ UNCHANGED <<left, delivered, abroad>>

\* Mutant of Deliver: a row that was marked is sent again.
DeliverAgain(o) ==
    /\ o \in entered
    /\ delivered' = [delivered EXCEPT ![o] = @ + 1]
    /\ UNCHANGED <<entered, left, abroad>>

\* Sent, applied, and the phone waits for the answer.
Deliver(o) ==
    /\ o \in Held
    /\ delivered' = [delivered EXCEPT ![o] = @ + 1]
    /\ UNCHANGED <<entered, left, abroad>>

\* Sent, and nobody waits for the answer any more.
GiveUp(o) ==
    /\ o \in Held
    /\ abroad' = [abroad EXCEPT ![o] = @ + 1]
    /\ UNCHANGED <<entered, left, delivered>>

DeliverLate(o) ==
    /\ abroad[o] > 0
    /\ abroad' = [abroad EXCEPT ![o] = @ - 1]
    /\ delivered' = [delivered EXCEPT ![o] = @ + 1]
    /\ UNCHANGED <<entered, left>>

Forget(o) ==
    /\ abroad[o] > 0
    /\ abroad' = [abroad EXCEPT ![o] = @ - 1]
    /\ UNCHANGED <<entered, left, delivered>>

Leave(o) ==
    /\ o \in Held
    /\ delivered[o] > 0
    /\ left' = left \union {o}
    /\ UNCHANGED <<entered, delivered, abroad>>

ContractNext ==
    \E o \in Operations :
        \/ Enter(o) \/ Leave(o)
        \/ Deliver(o) \/ GiveUp(o) \/ DeliverLate(o) \/ Forget(o)

ContractSpec == ContractInit /\ [][ContractNext]_contractVars
=============================================================================
