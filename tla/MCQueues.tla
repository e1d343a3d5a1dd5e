------------------------------ MODULE MCQueues ------------------------------
(* The two queues of the system that retry what fails, the outbox of the server
   and the offline queue of the phone, for TLC.  They share no state: `part`
   picks, at the start, the one that moves, so their states add up and do not
   multiply. *)
EXTENDS MCOutbox, OfflineQueue

VARIABLE part

queuesVars == <<part, vars, queueVars>>

QueuesInit ==
    /\ part \in {"outbox", "phone"}
    /\ Init
    /\ QueueInit

QueuesNext ==
    /\ UNCHANGED part
    /\ \/ part = "outbox" /\ Next /\ UNCHANGED queueVars
       \/ part = "phone" /\ QueueNext /\ UNCHANGED vars

\* A queue that does not move has no fair step to take.
QueuesSpec == QueuesInit /\ [][QueuesNext]_queuesVars /\ Fairness /\ QueueFairness
=============================================================================
