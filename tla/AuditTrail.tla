----------------------------- MODULE AuditTrail -----------------------------
(***************************************************************************)
(* The audit trail: audit events travel over the bus to AuditEventConsumer *)
(* (several messages are consumed at once, on every replica), which reads  *)
(* the newest row of AuditLogs, chains a new row to it by its hash and     *)
(* inserts it.  Nothing locks the table between the read and the insert.   *)
(* AuditCleanupWorker deletes rows past their retention by Timestamp.      *)
(*                                                                         *)
(* Events are numbered in the order of their Timestamps, which is not the  *)
(* order they are published or consumed in.  A PreviousHash is represented *)
(* by the Id of the row it is the hash of: SHA-256 is taken as injective,  *)
(* and no property tells rows with equal hashed columns apart.             *)
(*                                                                         *)
(* The bus is external: a message stays with a consumer until it is        *)
(* acknowledged, returns to the queue when the consumer's process dies,    *)
(* and moves to the error queue when Consume raises (no retry is set up).  *)
(***************************************************************************)
EXTENDS Naturals, FiniteSets

CONSTANTS
    NumEvents,  \* audit events, 1 .. NumEvents in Timestamp order
    Consumers,  \* messages that can be in Consume at the same time
    MaxCrashes  \* bound: consumers that die with a message

Event == 1 .. NumEvents

ASSUME AuditAssumption ==
    /\ NumEvents \in Nat
    /\ IsFiniteSet(Consumers)
    /\ MaxCrashes \in Nat

VARIABLES
    published,  \* events the interceptor has published
    queued,     \* events waiting in the consumer's queue
    errored,    \* events in the error queue
    log,        \* the rows of AuditLogs
    nextId,     \* the Id sequence of the table
    cutoff,     \* events below it are past their retention
    expired,    \* history: rows the cleanup deleted
    job,        \* per consumer: what it is doing
    crashes     \* bounded by MaxCrashes

vars == <<published, queued, errored, log, nextId, cutoff, expired, job, crashes>>

Genesis == 0

\* The zero hash has no row; every other PreviousHash is the hash of a row.
Row == [id : Nat \ {Genesis}, event : Event, previous : Nat]

Idle == [at |-> "idle"]
Busy == [at : {"chained", "inserting", "saved"},
         event : Event, previous : Nat, id : Nat]

Init ==
    /\ published = {}
    /\ queued = {}
    /\ errored = {}
    /\ log = {}
    /\ nextId = 1
    /\ cutoff = 1
    /\ expired = {}
    /\ job = [c \in Consumers |-> Idle]
    /\ crashes = 0

\* Mutant of Publish: the event is queued without being counted as published.
PublishUncounted(e) ==
    /\ e \notin published
    /\ queued' = queued \union {e}
    /\ UNCHANGED <<published, errored, log, nextId, cutoff, expired, job, crashes>>

\* The interceptor hands the event to the bus.
Publish(e) ==
    /\ e \notin published
    /\ published' = published \union {e}
    /\ queued' = queued \union {e}
    /\ UNCHANGED <<errored, log, nextId, cutoff, expired, job, crashes>>

\* Mutant of Newest: ordered by Timestamp, as the first OrderByDescending says.
NewestByTimestamp ==
    IF log = {} THEN Genesis
    ELSE (CHOOSE r \in log : \A s \in log : s.event < r.event \/ (s.event = r.event /\ s.id <= r.id)).id

\* The second OrderByDescending replaces the first: the newest row is the one
\* with the largest Id, whatever its Timestamp.
Newest ==
    IF log = {} THEN Genesis
    ELSE CHOOSE i \in {r.id : r \in log} : \A r \in log : r.id <= i

\* Consume up to the hash: the message is delivered, the newest row read.
Chain(c, e) ==
    /\ job[c] = Idle
    /\ e \in queued
    /\ queued' = queued \ {e}
    /\ job' = [job EXCEPT ![c] =
                  [at |-> "chained", event |-> e, previous |-> Newest, id |-> 0]]
    /\ UNCHANGED <<published, errored, log, nextId, cutoff, expired, crashes>>

\* The INSERT draws an Id; other sessions see the row when it is committed.
Insert(c) ==
    /\ job[c].at = "chained"
    /\ job' = [job EXCEPT ![c].at = "inserting", ![c].id = nextId]
    /\ nextId' = nextId + 1
    /\ UNCHANGED <<published, queued, errored, log, cutoff, expired, crashes>>

Inserted(c) ==
    [id |-> job[c].id, event |-> job[c].event, previous |-> job[c].previous]

Commit(c) ==
    /\ job[c].at = "inserting"
    /\ log' = log \union {Inserted(c)}
    /\ job' = [job EXCEPT ![c].at = "saved"]
    /\ UNCHANGED <<published, queued, errored, nextId, cutoff, expired, crashes>>

Acknowledge(c) ==
    /\ job[c].at = "saved"
    /\ job' = [job EXCEPT ![c] = Idle]
    /\ UNCHANGED <<published, queued, errored, log, nextId, cutoff, expired, crashes>>

\* Mutant of Raise: the exception is caught and logged, the message acknowledged.
RaiseSwallowed(c) ==
    /\ job[c].at \in {"chained", "inserting"}
    /\ job' = [job EXCEPT ![c] = Idle]
    /\ UNCHANGED <<published, queued, errored, log, nextId, cutoff, expired, crashes>>

\* Mutant of Raise: the message is redelivered until it is consumed.
RaiseRetried(c) ==
    /\ job[c].at \in {"chained", "inserting"}
    /\ queued' = queued \union {job[c].event}
    /\ \/ UNCHANGED log
       \/ job[c].at = "inserting" /\ log' = log \union {Inserted(c)}
    /\ job' = [job EXCEPT ![c] = Idle]
    /\ UNCHANGED <<published, errored, nextId, cutoff, expired, crashes>>

\* The query or SaveChangesAsync raises.  A commit whose answer was lost has
\* taken place.
Raise(c) ==
    /\ job[c].at \in {"chained", "inserting"}
    /\ errored' = errored \union {job[c].event}
    /\ \/ UNCHANGED log
       \/ job[c].at = "inserting" /\ log' = log \union {Inserted(c)}
    /\ job' = [job EXCEPT ![c] = Idle]
    /\ UNCHANGED <<published, queued, nextId, cutoff, expired, crashes>>

\* The process dies before the acknowledgement; the bus delivers again.  The
\* database may have committed an INSERT it had received.
Crash(c) ==
    /\ job[c] # Idle
    /\ crashes < MaxCrashes
    /\ crashes' = crashes + 1
    /\ queued' = queued \union {job[c].event}
    /\ \/ UNCHANGED log
       \/ job[c].at = "inserting" /\ log' = log \union {Inserted(c)}
    /\ job' = [job EXCEPT ![c] = Idle]
    /\ UNCHANGED <<published, errored, nextId, cutoff, expired>>

\* The daily run: the clock has moved on, so has the cut-off date; only events
\* of the past can be past their retention.
Cleanup ==
    /\ \E t \in (cutoff + 1) .. (NumEvents + 1) :
          /\ 1 .. (t - 1) \subseteq published
          /\ cutoff' = t
    /\ LET old == {r \in log : r.event < cutoff'}
       IN /\ log' = log \ old
          /\ expired' = expired \union old
    /\ UNCHANGED <<published, queued, errored, nextId, job, crashes>>

Consumer(c) ==
    \/ \E e \in Event : Chain(c, e)
    \/ Insert(c)
    \/ Commit(c)
    \/ Acknowledge(c)
    \/ Raise(c)

Next ==
    \/ \E e \in Event : Publish(e)
    \/ \E c \in Consumers : Consumer(c) \/ Crash(c)
    \/ Cleanup

Spec == Init /\ [][Next]_vars

\* The bus keeps delivering and a call of Consume ends; publishing, dying and
\* the clock are up to the outside.
FairSpec == Spec /\ \A c \in Consumers : WF_vars(Consumer(c))

-----------------------------------------------------------------------------
(* Properties. *)

TypeOK ==
    /\ published \subseteq Event
    /\ queued \subseteq published
    /\ errored \subseteq published
    /\ log \subseteq Row
    /\ expired \subseteq Row
    /\ nextId \in Nat \ {0}
    /\ cutoff \in 1 .. (NumEvents + 1)
    /\ job \in [Consumers -> Busy \union {Idle}]
    /\ crashes \in 0 .. MaxCrashes

\* However old the events are that arrive late and whatever the cleanup removes,
\* the chain never branches wider than the messages consumed at once: no row is
\* the predecessor of more rows than there are consumers.
ForksBounded ==
    \A i \in 0 .. nextId :
        Cardinality({r \in log : r.previous = i}) <= Cardinality(Consumers)

\* "Tamper-proof chaining": every row is chained to the newest of the rows
\* before it, so that removing or inserting one shows.  Rows the cleanup removed
\* no longer count.
ChainIsLinear ==
    \A r \in log : \A s \in log : s.id < r.id => s.id <= r.previous

\* No audit event is dropped without a trace: it waits, is being consumed, is in
\* the error queue, or was recorded.
EventsAccounted ==
    \A e \in published :
        \/ e \in queued \union errored
        \/ \E c \in Consumers : job[c] # Idle /\ job[c].event = e
        \/ \E r \in log \union expired : r.event = e

\* The rows an event has had in the trail.
Recorded(e) == {r \in log \union expired : r.event = e}

\* The trail holds an event once, and once more at most for each process that
\* died before it acknowledged: a failed save never adds a copy.
RecordedTwiceOnlyAfterCrashes ==
    \A e \in Event : Cardinality(Recorded(e)) <= 1 + crashes

\* Every published event ends in the trail or in the error queue, where someone
\* can find it, unless its retention has run out.
EventsEndRecorded ==
    \A e \in Event : e \in published ~> (e \in errored \/ Recorded(e) # {})
=============================================================================
