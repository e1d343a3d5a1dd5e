------------------------------ MODULE Delivery ------------------------------
(***************************************************************************)
(* From a command to the consumers of its events: the unit of work, which  *)
(* stores rows, together with the outbox, which sends them.  The outbox is *)
(* used by its contract (OutboxContract, which Outbox implements): a row   *)
(* is an accepted event, and what replicas, batches and lost saves can do  *)
(* with it is to send it, to be refused, and to settle it.                 *)
(***************************************************************************)
EXTENDS UnitOfWork

CONSTANTS
    MinAttempts, \* refused attempts before the outbox may give an event up
    Watched,     \* bound: the rows whose way through the outbox is followed
    MaxRefusals  \* bound: refused attempts of one row

Message == Commands \X Attempt \X Event

ASSUME DeliveryAssumption ==
    /\ MinAttempts \in Nat
    /\ Watched \subseteq Message
    /\ MaxRefusals \in Nat

VARIABLES
    sent,     \* rows that consumers heard of
    refusals, \* per row, the attempts that the bus refused
    settled   \* rows the outbox will not take up again

outboxVars == <<sent, refusals, settled>>
deliveryVars == <<vars, outboxVars>>

Box == INSTANCE OutboxContract WITH Event <- Watched, accepted <- rows \intersect Watched

DeliveryInit == Init /\ Box!Init

\* The processor, by its contract.
Processor ==
    \/ \E m \in Watched : Box!Send(m)
    \/ \E m \in Watched : refusals[m] < MaxRefusals /\ Box!Refuse(m)
    \/ \E S \in SUBSET (Watched \intersect rows) : S # {} /\ Box!Settle(S)

DeliveryNext ==
    \/ UNCHANGED outboxVars /\ Next
    \/ UNCHANGED vars /\ Processor

DeliverySpec == DeliveryInit /\ [][DeliveryNext]_deliveryVars

-----------------------------------------------------------------------------
(* Properties. *)

DeliveryTypes ==
    /\ TypeOK
    /\ sent \subseteq Watched
    /\ refusals \in [Watched -> Nat]
    /\ settled \subseteq Watched

\* What consumers hear of is in the database before they hear of it, wherever commands
\* fail and replicas stop: the change that a single event reports was made, or was there
\* when the command came; the price they are told was written, and the update it belongs
\* to is stored to be announced too.
HeardWasWritten ==
    /\ \A c \in Singles, a \in Attempt :
          <<c, a, "Single">> \in sent => <<c, a>> \in changed \union moot
    /\ \A c \in Updates, a \in Attempt :
          <<c, a, "ProductPriceChanged">> \in sent =>
              <<c, a>> \in repriced /\ <<c, a, "ProductUpdated">> \in rows

\* Whether a successful attempt must announce an event of its own, and that event: a
\* single command always, even one that changed nothing, an update the price it wrote.
Owes(c, a) == c \in Singles \/ <<c, a>> \in repriced

Report(c, a) == <<c, a, IF c \in Singles THEN "Single" ELSE "ProductPriceChanged">>

\* A command that reports success has left nothing that could be forgotten: the event
\* it owes is stored, and from then on it is with the outbox until consumers have heard
\* of it or the bus has refused it MinAttempts times.
SuccessIsHeard ==
    \A c \in Commands :
        LET report == Report(c, attempt[c])
        IN pc[c] = "succeeded" /\ Owes(c, attempt[c]) =>
               /\ report \in rows
               /\ report \in settled => report \in sent \/ refusals[report] >= MinAttempts
=============================================================================
