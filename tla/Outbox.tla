------------------------------- MODULE Outbox -------------------------------
(***************************************************************************)
(* The transactional outbox of the backend: the OutboxMessages table, and  *)
(* the OutboxProcessorService that every replica of the API runs.  A       *)
(* replica loads a batch of rows, tries to publish each to the bus while   *)
(* it changes its own tracked copies, and writes the changed columns back  *)
(* in one SaveChanges at the end of the batch.  Rows carry no concurrency  *)
(* token and no lock, so replicas work on stale copies of each other's     *)
(* rows, and a replica that stops before its SaveChanges loses the batch.  *)
(*                                                                         *)
(* Time: NextRetryUtc is kept as "is it still in the future" (`waiting`),  *)
(* and the passing of the back-off delay is an action.  The bus is         *)
(* external: a publish either succeeds, or raises an exception, and in     *)
(* the latter case the message may or may not have reached the broker.     *)
(***************************************************************************)
EXTENDS Naturals, FiniteSets

CONSTANTS
    NumEvents,      \* events are 1 .. NumEvents, in OccurredOnUtc order
    Resolvable,     \* events whose Type and Content the processor can restore
    Processors,     \* the replicas, one OutboxProcessorService each
    BatchSize,      \* rows loaded per poll (20 in the code)
    ErrorTexts,     \* texts an Error column can hold
    NoError,        \* a null Error
    CleanupEnabled, \* whether anything calls CleanupProcessedMessagesAsync
    TakesKindlessDates, \* whether the database stores the DateTimes without a
                        \* Kind that the entity assigns; Npgsql refuses them
    MaxAbandon      \* bound: batches lost to crashes, stops, failed saves

MaxRetry == 5

Event == 1 .. NumEvents

ASSUME OutboxAssumption ==
    /\ NumEvents \in Nat
    /\ Resolvable \subseteq Event
    /\ IsFiniteSet(Processors)
    /\ BatchSize \in Nat \ {0}
    /\ NoError \notin ErrorTexts
    /\ CleanupEnabled \in BOOLEAN
    /\ TakesKindlessDates \in BOOLEAN
    /\ MaxAbandon \in Nat

VARIABLES
    stage,      \* per event: not in the table yet, in it, or deleted from it
    row,        \* per event: its columns
    batch,      \* per replica: the rows of the batch it is working on
    todo,       \* per replica: those of the batch not reached yet
    orig,       \* per replica: the columns as loaded (change tracking)
    copy,       \* per replica: the columns as the replica has set them
    delivered,  \* history, per event: how often the bus received it
    failures,   \* history, per event: how often its attempt raised
    unrecorded, \* history, per event: deliveries no saved row accounts for
    abandoned   \* number of batches abandoned, bounded by MaxAbandon

table == <<stage, row>>
work == <<batch, todo, orig, copy>>
history == <<delivered, failures, unrecorded>>
vars == <<stage, row, batch, todo, orig, copy,
          delivered, failures, unrecorded, abandoned>>

Row == [processed : BOOLEAN,               \* ProcessedOnUtc.HasValue
        error : ErrorTexts \union {NoError},
        retry : 0 .. MaxRetry,             \* RetryCount
        waiting : BOOLEAN]                 \* NextRetryUtc > now

FreshRow == [processed |-> FALSE, error |-> NoError,
             retry |-> 0, waiting |-> FALSE]

Stage == {"unborn", "stored", "deleted"}

Init ==
    /\ stage = [m \in Event |-> "unborn"]
    /\ row = [m \in Event |-> FreshRow]
    /\ batch = [p \in Processors |-> {}]
    /\ todo = [p \in Processors |-> {}]
    /\ orig = [p \in Processors |-> [m \in Event |-> FreshRow]]
    /\ copy = [p \in Processors |-> [m \in Event |-> FreshRow]]
    /\ delivered = [m \in Event |-> 0]
    /\ failures = [m \in Event |-> 0]
    /\ unrecorded = [m \in Event |-> 0]
    /\ abandoned = 0

-----------------------------------------------------------------------------
(* The entity's own rules. *)

\* Mutant of CanRetry: the last retry is refused.
CanRetryOneLess(r) == r.retry < MaxRetry - 1 /\ ~r.waiting

CanRetry(r) == r.retry < MaxRetry /\ ~r.waiting

MarkAsProcessed(r) ==
    [processed |-> TRUE, error |-> NoError, retry |-> r.retry, waiting |-> r.waiting]

\* Mutant of MarkAsFailed: a failed row counts as dealt with.
MarkAsFailedForGood(r, text) ==
    [processed |-> TRUE, error |-> text, retry |-> r.retry + 1, waiting |-> TRUE]

MarkAsFailed(r, text) ==
    [processed |-> r.processed, error |-> text, retry |-> r.retry + 1, waiting |-> TRUE]

\* Mutant of MarkAsDeadLetter: the dead letter carries no error.
MarkAsDeadLetterCleanly(r, text) ==
    [processed |-> TRUE, error |-> NoError, retry |-> MaxRetry, waiting |-> r.waiting]

MarkAsDeadLetter(r, text) ==
    [processed |-> TRUE, error |-> text, retry |-> MaxRetry, waiting |-> r.waiting]

\* The catch block of the loop: it counts the retry, then either dead-letters
\* the row or lets MarkAsFailed count it again.
Counted(r) ==
    [processed |-> r.processed, error |-> r.error, retry |-> r.retry + 1, waiting |-> r.waiting]

\* Mutant of PublishFailed: the retry limit is not looked at.
PublishFailedForever(r, text) == MarkAsFailed(Counted(r), text)

\* Mutant of PublishFailed: the limit is compared after the second count.
PublishFailedEarly(r, text) ==
    IF Counted(r).retry + 2 >= MaxRetry
    THEN MarkAsDeadLetter(Counted(r), text)
    ELSE MarkAsFailed(Counted(r), text)

PublishFailed(r, text) ==
    IF Counted(r).retry >= MaxRetry
    THEN MarkAsDeadLetter(Counted(r), text)
    ELSE MarkAsFailed(Counted(r), text)

-----------------------------------------------------------------------------
(* The table. *)

Stored == {m \in Event : stage[m] = "stored"}

\* The BatchSize rows that occurred first, processed or not.
Oldest ==
    {m \in Stored : Cardinality({k \in Stored : k < m}) < BatchSize}

\* Mutant of Ready: processed rows are not filtered out.
ReadyAgain == {m \in Oldest : CanRetry(row[m])}

Ready == {m \in Oldest : ~row[m].processed /\ CanRetry(row[m])}

AddEvent(m) ==
    /\ stage[m] = "unborn"
    /\ stage' = [stage EXCEPT ![m] = "stored"]
    /\ UNCHANGED <<row, work, history, abandoned>>

\* NextRetryUtc comes to lie in the past.
DueAgain(r) ==
    [processed |-> r.processed, error |-> r.error, retry |-> r.retry, waiting |-> FALSE]

BackoffElapses(m) ==
    /\ row[m].waiting
    /\ row' = [row EXCEPT ![m] = DueAgain(@)]
    /\ UNCHANGED <<stage, work, history, abandoned>>

\* The cut-off date is the caller's: any of the processed rows can lie before
\* it.  One DELETE statement.
CleanupProcessedMessages ==
    /\ CleanupEnabled
    /\ \E S \in SUBSET {m \in Stored : row[m].processed} :
          /\ S # {}
          /\ stage' = [m \in Event |-> IF m \in S THEN "deleted" ELSE stage[m]]
    /\ UNCHANGED <<row, work, history, abandoned>>

-----------------------------------------------------------------------------
(* One replica. *)

PollReady(p) ==
    /\ batch[p] = {}
    /\ Ready # {}
    /\ batch' = [batch EXCEPT ![p] = Ready]
    /\ todo' = [todo EXCEPT ![p] = Ready]
    /\ LET loaded == [m \in Event |-> IF m \in Ready THEN row[m] ELSE FreshRow]
       IN /\ orig' = [orig EXCEPT ![p] = loaded]
          /\ copy' = [copy EXCEPT ![p] = loaded]
    /\ UNCHANGED <<table, history, abandoned>>

PollNothing(p) ==
    /\ batch[p] = {}
    /\ Ready = {}
    /\ UNCHANGED vars

\* The loop body runs on m next: the batch keeps the OccurredOnUtc order.
Reaches(p, m) == m \in todo[p] /\ \A k \in todo[p] : m <= k

\* Mutant of Unresolved: the loop goes on without marking the row.
UnresolvedSkipped(p, m) ==
    /\ Reaches(p, m)
    /\ m \notin Resolvable
    /\ todo' = [todo EXCEPT ![p] = @ \ {m}]
    /\ UNCHANGED <<table, batch, orig, copy, history, abandoned>>

Unresolved(p, m) ==
    /\ Reaches(p, m)
    /\ m \notin Resolvable
    /\ \E text \in ErrorTexts :
          copy' = [copy EXCEPT ![p][m] = MarkAsFailed(@, text)]
    /\ todo' = [todo EXCEPT ![p] = @ \ {m}]
    /\ UNCHANGED <<table, batch, orig, history, abandoned>>

PublishSucceeds(p, m) ==
    /\ Reaches(p, m)
    /\ m \in Resolvable
    /\ delivered' = [delivered EXCEPT ![m] = @ + 1]
    /\ copy' = [copy EXCEPT ![p][m] = MarkAsProcessed(@)]
    /\ todo' = [todo EXCEPT ![p] = @ \ {m}]
    /\ UNCHANGED <<table, batch, orig, failures, unrecorded, abandoned>>

\* `arrived`: the bus has the message although the call raised.
PublishRaises(p, m) ==
    /\ Reaches(p, m)
    /\ m \in Resolvable
    /\ \E arrived \in {0, 1} :
          /\ delivered' = [delivered EXCEPT ![m] = @ + arrived]
          /\ unrecorded' = [unrecorded EXCEPT ![m] = @ + arrived]
    /\ failures' = [failures EXCEPT ![m] = @ + 1]
    /\ \E text \in ErrorTexts :
          copy' = [copy EXCEPT ![p][m] = PublishFailed(@, text)]
    /\ todo' = [todo EXCEPT ![p] = @ \ {m}]
    /\ UNCHANGED <<table, batch, orig, abandoned>>

\* SaveChanges sends the columns whose tracked value differs from the loaded
\* one, and no others.
Column(inTable, loaded, set) == IF set # loaded THEN set ELSE inTable

Merged(r, o, c) ==
    [processed |-> Column(r.processed, o.processed, c.processed),
     error |-> Column(r.error, o.error, c.error),
     retry |-> Column(r.retry, o.retry, c.retry),
     waiting |-> Column(r.waiting, o.waiting, c.waiting)]

ForgetBatch(p) ==
    /\ batch' = [batch EXCEPT ![p] = {}]
    /\ todo' = [todo EXCEPT ![p] = {}]
    /\ orig' = [orig EXCEPT ![p] = [m \in Event |-> FreshRow]]
    /\ copy' = [copy EXCEPT ![p] = [m \in Event |-> FreshRow]]

BatchDone(p) == batch[p] # {} /\ todo[p] = {}

\* Every row of the batch is still there and the database takes its new dates.
Savable(p) == batch[p] \subseteq Stored /\ TakesKindlessDates

SaveChanges(p) ==
    /\ BatchDone(p)
    /\ Savable(p)
    /\ row' = [m \in Event |-> IF m \in batch[p]
                               THEN Merged(row[m], orig[p][m], copy[p][m])
                               ELSE row[m]]
    /\ ForgetBatch(p)
    /\ UNCHANGED <<stage, history, abandoned>>

\* Events the replica delivered and would have recorded as processed.
Recordable(p) ==
    {m \in batch[p] : copy[p][m].processed /\ copy[p][m].retry = orig[p][m].retry}

LoseBatch(p) ==
    /\ unrecorded' = [m \in Event |-> IF m \in Recordable(p)
                                      THEN unrecorded[m] + 1
                                      ELSE unrecorded[m]]
    /\ ForgetBatch(p)
    /\ UNCHANGED <<table, delivered, failures>>

\* SaveChanges raises and nothing of the batch is written: a row of the batch was
\* deleted meanwhile and its UPDATE hits no row (DbUpdateConcurrencyException), or
\* the database refuses the new ProcessedOnUtc or NextRetryUtc.
SaveRejected(p) ==
    /\ BatchDone(p)
    /\ ~Savable(p)
    /\ LoseBatch(p)
    /\ UNCHANGED abandoned

\* The process dies or is stopped at any point of the batch, or SaveChanges
\* fails; the next poll starts from the table.
Abandon(p) ==
    /\ batch[p] # {}
    /\ abandoned < MaxAbandon
    /\ abandoned' = abandoned + 1
    /\ LoseBatch(p)

-----------------------------------------------------------------------------
Replica(p) ==
    \/ PollReady(p)
    \/ PollNothing(p)
    \/ \E m \in Event : Unresolved(p, m) \/ PublishSucceeds(p, m) \/ PublishRaises(p, m)
    \/ SaveChanges(p)
    \/ SaveRejected(p)

Next ==
    \/ \E m \in Event : AddEvent(m) \/ BackoffElapses(m)
    \/ CleanupProcessedMessages
    \/ \E p \in Processors : Replica(p) \/ Abandon(p)

Spec == Init /\ [][Next]_vars

\* The hosted service polls every ten seconds and finishes the batch it began,
\* and the clock advances; storing events, stopping and cleaning up are up to
\* the outside.
Fairness ==
    /\ \A p \in Processors : WF_vars(Replica(p))
    /\ \A m \in Event : WF_vars(BackoffElapses(m))

FairSpec == Spec /\ Fairness

-----------------------------------------------------------------------------
(* Properties. *)

TypeOK ==
    /\ stage \in [Event -> Stage]
    /\ row \in [Event -> Row]
    /\ batch \in [Processors -> SUBSET Event]
    /\ todo \in [Processors -> SUBSET Event]
    /\ \A p \in Processors : todo[p] \subseteq batch[p]
    /\ orig \in [Processors -> [Event -> Row]]
    /\ copy \in [Processors -> [Event -> Row]]
    /\ delivered \in [Event -> Nat]
    /\ failures \in [Event -> Nat]
    /\ unrecorded \in [Event -> Nat]
    /\ abandoned \in 0 .. MaxAbandon

\* A copy that the loop has still to reach is as it was loaded, and only open
\* rows that can be retried, of events in the table, are loaded.
Loaded ==
    \A p \in Processors, m \in Event :
        /\ m \in todo[p] => copy[p][m] = orig[p][m]
        /\ m \in batch[p] => /\ stage[m] # "unborn"
                             /\ ~orig[p][m].processed /\ CanRetry(orig[p][m])
        /\ m \notin batch[p] => copy[p][m] = FreshRow /\ orig[p][m] = FreshRow

Typed == TypeOK /\ Loaded

\* A row that reads as processed without an error (how an operator tells a
\* published event from a dead letter) was received by the bus: no mix of
\* columns written by two replicas from stale copies makes a row look
\* published when nobody published it.
CleanRowsWereDelivered ==
    \A m \in Event :
        row[m].processed /\ row[m].error = NoError => delivered[m] > 0

\* The processor gives an event up only after three refused attempts, or after
\* the bus had it: no crash, stale save or lost batch shortens the retries.
\* (Three, not five: the catch block and MarkAsFailed both count.)
MinAttempts == 3

NothingGivenUpEarly ==
    \A m \in Event :
        row[m].processed => delivered[m] > 0 \/ failures[m] >= MinAttempts

\* Why the two hold (the invariant the proofs use).  What the columns r say of an
\* event delivered d times and refused f times, which the processor can restore
\* (ok) or not: an empty Error means that it was never tried in vain or was
\* delivered, two counted retries stand for a refused attempt, and only an event
\* that can be restored is ever settled.
Justified(r, ok, d, f) ==
    /\ r.error = NoError => d > 0 \/ (r.retry = 0 /\ ~r.processed)
    /\ r.processed => ok /\ (d > 0 \/ f >= MinAttempts)
    /\ ok => r.retry <= 2 * f

\* What a tracked copy c can have become since it was loaded as o.
Tracked(o, c, ok, d, f) ==
    \/ c = o
    \/ ok /\ d > 0 /\ c = MarkAsProcessed(o)
    \/ \E text \in ErrorTexts :
          \/ ~ok /\ c = MarkAsFailed(o, text)
          \/ ok /\ o.retry + 2 <= 2 * f /\ c = PublishFailed(o, text)

\* A row whose Error was cleared since o was loaded was delivered.
Cleared(o, r, d) == o.error # NoError /\ r.error = NoError => d > 0

JustifiedRows ==
    \A m \in Event : Justified(row[m], m \in Resolvable, delivered[m], failures[m])

JustifiedCopies ==
    \A p \in Processors, m \in Event :
        /\ Justified(orig[p][m], m \in Resolvable, delivered[m], failures[m])
        /\ Tracked(orig[p][m], copy[p][m], m \in Resolvable, delivered[m], failures[m])
        /\ Cleared(orig[p][m], row[m], delivered[m])

IInv == Typed /\ JustifiedRows /\ JustifiedCopies

\* Every delivery of an event beyond one per replica is accounted for by a
\* batch that was lost or by a publish that raised after it had arrived.
DuplicatesAccounted ==
    \A m \in Event :
        delivered[m] <= Cardinality(Processors) + unrecorded[m]

\* With one replica, a publish is attempted only for a row that the table shows
\* as open and due at that moment: the batch in memory is never out of date.
Attempted(m) == delivered'[m] # delivered[m] \/ failures'[m] # failures[m]

AttemptsOnlyDueRows ==
    [][\A m \in Event :
          Attempted(m) => ~row[m].processed /\ CanRetry(row[m])]_vars

\* "Mark as processed to prevent further retries": with one replica and no
\* cleanup, an event is attempted in vain at most three times, and once more for
\* each batch that was lost before it was saved.
RetriesEnd == \A m \in Event : failures[m] <= MinAttempts + abandoned

\* An event that cannot be restored is not taken up for ever: it comes to rest with
\* its retries used up, though nobody settles it and it keeps its place in the
\* window of the poll.
BrokenEventsRest ==
    \A m \in Event \ Resolvable :
        stage[m] = "stored" ~> [](row[m].retry = MaxRetry /\ ~row[m].processed)

\* "Ensures reliable delivery of domain events to message bus": every stored
\* event the processor can restore ends as a processed row, delivered or given up.
StoredEventsSettle ==
    \A m \in Resolvable : stage[m] = "stored" ~> row[m].processed

\* An event behind BatchSize rows, that no replica has loaded: the poll takes the oldest
\* rows of the table before it filters out those that are processed.
CrowdedOut(m) ==
    /\ Cardinality({k \in Stored : k < m}) >= BatchSize
    /\ \A p \in Processors : m \notin batch[p]

\* While nothing cleans up, an event that is crowded out stays so, and nobody tries to
\* publish it or settles it.
CrowdedOutStays ==
    [][\A m \in Event :
          CrowdedOut(m) =>
              CrowdedOut(m)' /\ ~Attempted(m) /\ row'[m].processed = row[m].processed]_vars

\* With a database that refuses the entity's dates no attempt leaves a trace.
NothingRecorded == \A m \in Event : row[m] = FreshRow

\* The table and the replicas together keep the contract of OutboxContract.
Contract == INSTANCE OutboxContract WITH
    accepted <- {m \in Event : stage[m] # "unborn"},
    sent <- {m \in Event : delivered[m] > 0},
    refusals <- failures,
    settled <- {m \in Event : row[m].processed}

ImplementsContract == Contract!Spec
=============================================================================
