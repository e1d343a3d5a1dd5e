---------------------------- MODULE OfflineQueue ----------------------------
(***************************************************************************)
(* The offline queue of the mobile app: the table offline_queue in SQLite, *)
(* the SyncManager that sends its rows to the server, and the hook         *)
(* useNetworkStatus, several instances of which start the SyncManager.     *)
(*                                                                         *)
(* The table survives when the app is killed; the SyncManager's flag and   *)
(* snapshot and the hooks' counts do not.  What an operation asks of the   *)
(* server makes no difference to the queue: it succeeds or it is refused.  *)
(***************************************************************************)
EXTENDS Naturals, FiniteSets

CONSTANTS
    Ops,         \* changes of the cart that the middleware stores and queues
    Hooks,       \* the components that use useNetworkStatus
    MaxKills,    \* bound: how often the app is killed
    MaxFaults,   \* bound: statements SQLite refuses
    MaxLostAcks  \* bound: requests whose answer is lost

ASSUME QueueAssumption ==
    /\ IsFiniteSet(Ops)
    /\ MaxKills \in Nat
    /\ MaxFaults \in Nat
    /\ MaxLostAcks \in Nat

VARIABLES
    opStatus,     \* per operation: not made, in the middleware, or its row's status
    rowId,        \* the AUTOINCREMENT id of its row, 0 without one
    lastRowId,
    isSyncing,    \* SyncManager's flag
    syncAt,       \* where the sync is
    unsent,       \* the operations of the snapshot it has not finished
    failureCount,
    online,       \* whether requests can reach the server
    mounted,      \* hooks in use
    pendingCount, \* per hook: syncStatus.pendingCount
    closureCount, \* per hook: the count its listener was created with
    checking,     \* per hook: a getSyncStatus is under way
    applied,      \* per operation: how often the server applied it
    late,         \* per operation: requests nobody waits for, which may yet be applied
    interruptions,\* history, per operation: requests the server applied, or may yet
                  \* apply, whose row was not marked for them
    kills, faults, lostAcks \* bounded by the constants

queueTable == <<opStatus, rowId, lastRowId>>
sync == <<isSyncing, syncAt, unsent, failureCount>>
hooks == <<mounted, pendingCount, closureCount, checking>>
outcome == <<applied, late, interruptions>>
queueBounds == <<kills, faults, lostAcks>>
queueVars == <<queueTable, sync, hooks, online, outcome, queueBounds>>

\* A row is pending, then synced, then gone; before it there is the middleware,
\* which writes cart_items first, and after a failure there is no row.
RowStatus == {"pending", "synced", "deleted"}

Pending == {o \in Ops : opStatus[o] = "pending"}

\* ORDER BY created_at: the order of insertion.
FirstRow(S) == CHOOSE o \in S : \A p \in S : rowId[o] <= rowId[p]

QueueInit ==
    /\ opStatus = [o \in Ops |-> "none"]
    /\ rowId = [o \in Ops |-> 0]
    /\ lastRowId = 0
    /\ isSyncing = FALSE
    /\ syncAt = "idle"
    /\ unsent = {}
    /\ failureCount = 0
    /\ online = TRUE
    /\ mounted = {}
    /\ pendingCount = [h \in Hooks |-> 0]
    /\ closureCount = [h \in Hooks |-> 0]
    /\ checking = [h \in Hooks |-> FALSE]
    /\ applied = [o \in Ops |-> 0]
    /\ late = [o \in Ops |-> 0]
    /\ interruptions = [o \in Ops |-> 0]
    /\ kills = 0
    /\ faults = 0
    /\ lostAcks = 0

Fault == faults < MaxFaults /\ faults' = faults + 1
NoFault == UNCHANGED faults

-----------------------------------------------------------------------------
(* The middleware and the repository: two awaited statements. *)

\* The first statement writes cart_items; if it raises, the error is logged and
\* the action goes on without a row.
ChangeLocally(o) ==
    /\ opStatus[o] = "none"
    /\ \/ NoFault /\ opStatus' = [opStatus EXCEPT ![o] = "written"]
       \/ Fault /\ opStatus' = [opStatus EXCEPT ![o] = "unqueued"]
    /\ UNCHANGED <<rowId, lastRowId, sync, hooks, online, outcome, kills, lostAcks>>

AddToQueue(o) ==
    /\ opStatus[o] = "written"
    /\ \/ /\ NoFault
          /\ opStatus' = [opStatus EXCEPT ![o] = "pending"]
          /\ lastRowId' = lastRowId + 1
          /\ rowId' = [rowId EXCEPT ![o] = lastRowId + 1]
       \/ /\ Fault
          /\ opStatus' = [opStatus EXCEPT ![o] = "unqueued"]
          /\ UNCHANGED <<rowId, lastRowId>>
    /\ UNCHANGED <<sync, hooks, online, outcome, kills, lostAcks>>

-----------------------------------------------------------------------------
(* The SyncManager. *)

\* All the hooks in use are told a count.
Notify(n) == pendingCount' = [h \in Hooks |-> IF h \in mounted THEN n ELSE pendingCount[h]]

\* syncPendingOperations up to its first await; the flag turns a second caller
\* away.
StartSync ==
    /\ ~isSyncing
    /\ isSyncing' = TRUE
    /\ syncAt' = "reading"
    /\ Notify(0)
    /\ UNCHANGED <<unsent, failureCount>>

\* The notification comes first, the flag goes down right after it.
EndSync(n) ==
    /\ Notify(n)
    /\ isSyncing' = FALSE
    /\ syncAt' = "idle"
    /\ unsent' = {}
    /\ failureCount' = 0

\* The button of the cart screen, shown when its hook counts operations.
ManualSync ==
    /\ online
    /\ \E h \in mounted : pendingCount[h] > 0
    /\ StartSync
    /\ UNCHANGED <<queueTable, mounted, closureCount, checking, online, outcome, queueBounds>>

\* Mutant of GetQueue: rows that are synced already are read again.
GetQueueWithSynced ==
    /\ syncAt = "reading"
    /\ NoFault
    /\ {o \in Ops : opStatus[o] \in {"pending", "synced"}} # {}
    /\ unsent' = {o \in Ops : opStatus[o] \in {"pending", "synced"}}
    /\ syncAt' = "sending"
    /\ UNCHANGED <<queueTable, isSyncing, failureCount, hooks, online, outcome, kills, lostAcks>>

GetQueue ==
    /\ syncAt = "reading"
    /\ NoFault
    /\ Pending # {}
    /\ unsent' = Pending
    /\ syncAt' = "sending"
    /\ UNCHANGED <<queueTable, isSyncing, failureCount, hooks, online, outcome, kills, lostAcks>>

\* An empty queue, or a query that failed, which getQueue reports as empty.
NothingToSync ==
    /\ syncAt = "reading"
    /\ \/ NoFault /\ Pending = {}
       \/ Fault
    /\ EndSync(0)
    /\ UNCHANGED <<queueTable, mounted, closureCount, checking, online, outcome, kills, lostAcks>>

Current == FirstRow(unsent)

Request == syncAt = "sending" /\ unsent # {}

ServerApplies ==
    /\ Request
    /\ online
    /\ applied' = [applied EXCEPT ![Current] = @ + 1]
    /\ syncAt' = "applied"
    /\ UNCHANGED <<queueTable, isSyncing, unsent, failureCount, hooks, online, late,
                   interruptions, queueBounds>>

\* Mutant of RequestFails: the loop stops at the first failure, flag and all.
RequestFailsAborting ==
    /\ Request
    /\ failureCount' = failureCount + 1
    /\ unsent' = {}
    /\ syncAt' = "aborted"
    /\ UNCHANGED <<queueTable, isSyncing, hooks, online, applied, late, interruptions,
                   queueBounds>>

\* The request is refused or does not arrive: the row stays pending and the loop
\* goes on with the next.  retry_count is never incremented.
RequestFails ==
    /\ Request
    /\ failureCount' = failureCount + 1
    /\ unsent' = unsent \ {Current}
    /\ UNCHANGED <<queueTable, isSyncing, syncAt, hooks, online, applied, late,
                   interruptions, queueBounds>>

\* A request of o that the server applies, or may yet apply, goes unmarked.
Interrupt(o) == interruptions' = [interruptions EXCEPT ![o] = @ + 1]

GiveUpOn(o) == late' = [late EXCEPT ![o] = @ + 1]

\* The connection breaks, and syncOperation returns false as for any failure.  The
\* server has applied the request, or has it and may apply it at any time from now on.
AnswerLost ==
    /\ lostAcks < MaxLostAcks
    /\ lostAcks' = lostAcks + 1
    /\ \/ syncAt = "applied" /\ UNCHANGED late
       \/ Request /\ online /\ GiveUpOn(Current)
    /\ Interrupt(Current)
    /\ failureCount' = failureCount + 1
    /\ unsent' = unsent \ {Current}
    /\ syncAt' = "sending"
    /\ UNCHANGED <<queueTable, isSyncing, hooks, online, applied, kills, faults>>

\* The server gets to it, whether or not the operation was sent again and marked.  It
\* need not: a late request that is lost stays late for ever.
LateApplies(o) ==
    /\ late[o] > 0
    /\ late' = [late EXCEPT ![o] = @ - 1]
    /\ applied' = [applied EXCEPT ![o] = @ + 1]
    /\ UNCHANGED <<queueTable, sync, hooks, online, interruptions, queueBounds>>

MarkOperationAsSynced ==
    /\ syncAt = "applied"
    /\ \/ /\ NoFault
          /\ opStatus' = [opStatus EXCEPT ![Current] = "synced"]
          /\ UNCHANGED <<failureCount, interruptions>>
       \/ /\ Fault
          /\ failureCount' = failureCount + 1
          /\ Interrupt(Current)
          /\ UNCHANGED opStatus
    /\ unsent' = unsent \ {Current}
    /\ syncAt' = "sending"
    /\ UNCHANGED <<rowId, lastRowId, isSyncing, hooks, online, applied, late, kills,
                   lostAcks>>

\* Mutant of ClearQueue: every row is deleted.
ClearQueueWhole ==
    /\ syncAt = "sending"
    /\ unsent = {}
    /\ NoFault
    /\ opStatus' = [o \in Ops |-> IF opStatus[o] \in RowStatus THEN "deleted" ELSE opStatus[o]]
    /\ EndSync(failureCount)
    /\ UNCHANGED <<rowId, lastRowId, mounted, closureCount, checking, online, outcome, kills,
                   lostAcks>>

\* Mutant of ClearQueue: the catch leaves the flag up.
ClearQueueFlagUp ==
    /\ syncAt = "sending"
    /\ unsent = {}
    /\ \/ /\ NoFault
          /\ opStatus' = [o \in Ops |-> IF opStatus[o] = "synced" THEN "deleted" ELSE opStatus[o]]
          /\ EndSync(failureCount)
       \/ /\ Fault
          /\ Notify(0)
          /\ syncAt' = "idle"
          /\ failureCount' = 0
          /\ UNCHANGED <<opStatus, isSyncing, unsent>>
    /\ UNCHANGED <<rowId, lastRowId, mounted, closureCount, checking, online, outcome, kills,
                   lostAcks>>

\* The synced rows are deleted and the hooks hear how many operations failed; if
\* the statement raises, the outer catch tells them there are none.
ClearQueue ==
    /\ syncAt = "sending"
    /\ unsent = {}
    /\ \/ /\ NoFault
          /\ opStatus' = [o \in Ops |-> IF opStatus[o] = "synced" THEN "deleted" ELSE opStatus[o]]
          /\ EndSync(failureCount)
       \/ /\ Fault
          /\ EndSync(0)
          /\ UNCHANGED opStatus
    /\ UNCHANGED <<rowId, lastRowId, mounted, closureCount, checking, online, outcome, kills,
                   lostAcks>>

-----------------------------------------------------------------------------
(* The hook. *)

\* The first effect creates a listener that sees no pending operations.
Mount(h) ==
    /\ h \notin mounted
    /\ mounted' = mounted \union {h}
    /\ pendingCount' = [pendingCount EXCEPT ![h] = 0]
    /\ closureCount' = [closureCount EXCEPT ![h] = 0]
    /\ checking' = [checking EXCEPT ![h] = TRUE]
    /\ UNCHANGED <<queueTable, sync, online, outcome, queueBounds>>

Unmount(h) ==
    /\ h \in mounted
    /\ mounted' = mounted \ {h}
    /\ checking' = [checking EXCEPT ![h] = FALSE]
    /\ UNCHANGED <<queueTable, sync, pendingCount, closureCount, online, outcome, queueBounds>>

\* getSyncStatus answers; checks of one hook that overlap count as one, and a
\* query that fails counts no operations.
CheckStatus(h) ==
    /\ checking[h]
    /\ checking' = [checking EXCEPT ![h] = FALSE]
    /\ \/ NoFault /\ pendingCount' = [pendingCount EXCEPT ![h] = Cardinality(Pending)]
       \/ Fault /\ pendingCount' = [pendingCount EXCEPT ![h] = 0]
    /\ UNCHANGED <<queueTable, sync, mounted, closureCount, online, outcome, kills, lostAcks>>

\* The count has changed: the effect runs again, and the new NetInfo listener is
\* called at once with the state of the connection.
RunEffect(h) ==
    /\ h \in mounted
    /\ pendingCount[h] # closureCount[h]
    /\ closureCount' = [closureCount EXCEPT ![h] = pendingCount[h]]
    /\ checking' = [checking EXCEPT ![h] = TRUE]
    /\ IF online /\ pendingCount[h] > 0 /\ ~isSyncing
       THEN StartSync
       ELSE UNCHANGED <<sync, pendingCount>>
    /\ UNCHANGED <<queueTable, mounted, online, outcome, queueBounds>>

\* Mutant of Connected: the listeners of hooks that are gone are still called.
ConnectedLeaking ==
    /\ online' = TRUE
    /\ IF ~isSyncing /\ \E h \in Hooks : closureCount[h] > 0
       THEN StartSync
       ELSE UNCHANGED <<sync, pendingCount>>
    /\ UNCHANGED <<queueTable, mounted, closureCount, checking, outcome, queueBounds>>

\* NetInfo reports a connection to the listeners, each with its own count.
Connected ==
    /\ online' = TRUE
    /\ IF ~isSyncing /\ \E h \in mounted : closureCount[h] > 0
       THEN StartSync
       ELSE UNCHANGED <<sync, pendingCount>>
    /\ UNCHANGED <<queueTable, mounted, closureCount, checking, outcome, queueBounds>>

Disconnected ==
    /\ online
    /\ online' = FALSE
    /\ UNCHANGED <<queueTable, sync, hooks, outcome, queueBounds>>

\* The process ends: an operation in the middleware is never queued, and an applied
\* request never marked.  A request on its way is lost, or may still be applied.
Kill ==
    /\ kills < MaxKills
    /\ kills' = kills + 1
    /\ opStatus' = [o \in Ops |-> IF opStatus[o] = "written" THEN "unqueued" ELSE opStatus[o]]
    /\ \/ syncAt = "applied" /\ Interrupt(Current) /\ UNCHANGED late
       \/ syncAt # "applied" /\ UNCHANGED <<late, interruptions>>
       \/ Request /\ online /\ GiveUpOn(Current) /\ Interrupt(Current)
    /\ isSyncing' = FALSE
    /\ syncAt' = "idle"
    /\ unsent' = {}
    /\ failureCount' = 0
    /\ mounted' = {}
    /\ pendingCount' = [h \in Hooks |-> 0]
    /\ closureCount' = [h \in Hooks |-> 0]
    /\ checking' = [h \in Hooks |-> FALSE]
    /\ UNCHANGED <<rowId, lastRowId, online, applied, faults, lostAcks>>

-----------------------------------------------------------------------------
\* What the code does once a sync runs.
SyncStep ==
    \/ GetQueue
    \/ NothingToSync
    \/ ServerApplies
    \/ RequestFails
    \/ AnswerLost
    \/ MarkOperationAsSynced
    \/ ClearQueue

HookStep(h) == CheckStatus(h) \/ RunEffect(h)

QueueNext ==
    \/ \E o \in Ops : ChangeLocally(o) \/ AddToQueue(o) \/ LateApplies(o)
    \/ \E h \in Hooks : HookStep(h) \/ Mount(h) \/ Unmount(h)
    \/ SyncStep
    \/ ManualSync
    \/ Connected
    \/ Disconnected
    \/ Kill

QueueSpec == QueueInit /\ [][QueueNext]_queueVars

\* Requests end, through the platform if nobody answers, and React runs the effects; what
\* the user and the network do is up to them.
QueueFairness ==
    /\ WF_queueVars(SyncStep)
    /\ \A o \in Ops : WF_queueVars(AddToQueue(o))
    /\ \A h \in Hooks : WF_queueVars(HookStep(h))

QueueFairSpec == QueueSpec /\ QueueFairness

-----------------------------------------------------------------------------
(* Properties. *)

QueueTypes ==
    /\ opStatus \in [Ops -> {"none", "written", "unqueued"} \union RowStatus]
    /\ rowId \in [Ops -> 0 .. lastRowId]
    /\ lastRowId \in Nat
    /\ isSyncing \in BOOLEAN
    /\ syncAt \in {"idle", "reading", "sending", "applied"}
    /\ unsent \subseteq Ops
    /\ failureCount \in Nat
    /\ online \in BOOLEAN
    /\ mounted \subseteq Hooks
    /\ pendingCount \in [Hooks -> Nat]
    /\ closureCount \in [Hooks -> Nat]
    /\ checking \in [Hooks -> BOOLEAN]
    /\ applied \in [Ops -> Nat]
    /\ late \in [Ops -> Nat]
    /\ interruptions \in [Ops -> Nat]
    /\ kills \in 0 .. MaxKills
    /\ faults \in 0 .. MaxFaults
    /\ lostAcks \in 0 .. MaxLostAcks

\* No operation that was queued is forgotten: it leaves the queue only when the
\* server has applied it, whatever fails, is lost or is killed in between.
NothingVanishes ==
    \A o \in Ops :
        rowId[o] > 0 => opStatus[o] = "pending" \/ applied[o] > 0

\* An operation is applied once more for each of its own requests that was applied, or
\* may yet be, and not marked for it, by a lost answer, a failed statement or a kill, and
\* never otherwise, however late the server gets to them.
RepeatsAccounted ==
    \A o \in Ops : applied[o] + late[o] <= 1 + interruptions[o]

\* The table, the SyncManager and the hooks keep the contract that the cart relies
\* on: what was queued is applied before it leaves, and what is applied after it has
\* left was sent before, by a request that the phone gave up.
Promise == INSTANCE QueueContract WITH
    Operations <- Ops,
    entered <- {o \in Ops : rowId[o] > 0},
    left <- {o \in Ops : opStatus[o] \in {"synced", "deleted"}},
    delivered <- applied,
    abroad <- late

KeepsContract == Promise!ContractSpec

\* Every sync ends, and the flag that turns the others away goes down with it.
SyncsEnd == isSyncing ~> ~isSyncing

\* The steps the sync has left at most.
StepsLeft ==
    CASE syncAt = "idle" -> 0
      [] syncAt = "reading" -> 2 * Cardinality(Ops) + 2
      [] syncAt = "sending" -> 2 * Cardinality(unsent) + 1
      [] syncAt = "applied" -> 2 * Cardinality(unsent)

\* Whatever fails, and whatever is queued meanwhile, each step of a sync brings it
\* closer to its end: it never sends a row twice and never goes back to the table.
SyncsShrink == [][isSyncing => StepsLeft' < StepsLeft \/ UNCHANGED sync]_queueVars

\* No hook counts an operation, and none is about to.
Unnoticed ==
    /\ ~isSyncing
    /\ \A h \in mounted : pendingCount[h] = 0 /\ closureCount[h] = 0 /\ ~checking[h]

\* What is queued after the hooks have counted stays unnoticed, through every change of
\* the connection, until a screen is mounted: until then nothing is sent.
UnnoticedUntilMount ==
    [][Unnoticed /\ mounted' \subseteq mounted =>
          /\ Unnoticed'
          /\ \A o \in Ops : applied'[o] + late'[o] <= applied[o] + late[o]]_queueVars

\* "Detects when device comes online.  Automatically starts syncing pending
\* operations": an operation that is pending while the device is offline is sent,
\* or tried, when the connection is back for good and a screen that uses the hook
\* stays.
ReconnectSyncs ==
    <>[](online /\ mounted # {}) =>
        \A o \in Ops :
            (opStatus[o] = "pending" /\ ~online) ~> (applied[o] > 0 \/ o \in unsent)
=============================================================================
