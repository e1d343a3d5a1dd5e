--------------------------- MODULE OutboxContract ---------------------------
(***************************************************************************)
(* What the outbox promises to the code that stores events in it, with no  *)
(* mention of replicas, batches, retries or rows.  An accepted event may   *)
(* be sent to the bus, any number of times; it is settled, for good, only  *)
(* when it was sent or when at least MinAttempts attempts to send it were  *)
(* refused by the bus.                                                     *)
(***************************************************************************)
EXTENDS Naturals

CONSTANTS
    Event,        \* the events
    MinAttempts   \* refused attempts before the outbox may give an event up

VARIABLES
    accepted,     \* events stored in the outbox
    sent,         \* events the bus received at least once
    refusals,     \* per event, the attempts that raised an exception
    settled       \* events the outbox will not take up again

cvars == <<accepted, sent, refusals, settled>>

Init ==
    /\ accepted = {}
    /\ sent = {}
    /\ refusals = [e \in Event |-> 0]
    /\ settled = {}

Accept(e) ==
    /\ accepted' = accepted \union {e}
    /\ UNCHANGED <<sent, refusals, settled>>

Send(e) ==
    /\ e \in accepted
    /\ sent' = sent \union {e}
    /\ UNCHANGED <<accepted, refusals, settled>>

\* A refused attempt may still have reached the bus: the exception can come
\* from a lost confirmation.
Refuse(e) ==
    /\ e \in accepted
    /\ refusals' = [refusals EXCEPT ![e] = @ + 1]
    /\ sent' \in {sent, sent \union {e}}
    /\ UNCHANGED <<accepted, settled>>

Settle(S) ==
    /\ S \subseteq accepted
    /\ \A e \in S : e \in sent \/ refusals[e] >= MinAttempts
    /\ settled' = settled \union S
    /\ UNCHANGED <<accepted, sent, refusals>>

Next ==
    \/ \E e \in Event : Accept(e) \/ Send(e) \/ Refuse(e)
    \/ \E S \in SUBSET Event : Settle(S)

Spec == Init /\ [][Next]_cvars
=============================================================================
