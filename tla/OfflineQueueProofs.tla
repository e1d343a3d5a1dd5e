------------------------- MODULE OfflineQueueProofs -------------------------
(***************************************************************************)
(* Proofs about OfflineQueue for any operations, hooks and bounds on what  *)
(* goes wrong.                                                             *)
(***************************************************************************)
EXTENDS MCQueues, FiniteSetTheorems, WellFoundedInduction, TLAPS

\* The row the sync is working on.
IsFirst(o) == o \in unsent /\ \A p \in unsent : rowId[o] <= rowId[p]

\* The flag, the place and the snapshot of the sync belong together.
SyncShape ==
    /\ isSyncing <=> syncAt # "idle"
    /\ syncAt \in {"idle", "reading"} => unsent = {}
    /\ syncAt = "applied" => unsent # {}
    /\ \A o \in unsent : opStatus[o] = "pending"

\* What a row says of its operation.
RowsTell ==
    /\ \A o \in Ops : opStatus[o] \in RowStatus <=> rowId[o] > 0
    /\ \A o, p \in Ops : rowId[o] > 0 /\ rowId[o] = rowId[p] => o = p
    /\ \A o \in Ops : applied[o] > 0 \/ late[o] > 0 => rowId[o] > 0
    /\ \A o \in Ops : opStatus[o] \in {"synced", "deleted"} => applied[o] > 0
    /\ \A o \in Ops : syncAt = "applied" /\ IsFirst(o) => applied[o] > 0

\* A request of o that was applied is, or is about to be, what the row was marked for.
Marked(o) == opStatus[o] \in {"synced", "deleted"} \/ (syncAt = "applied" /\ IsFirst(o))

\* Every other request that was applied, or may yet be, was interrupted.
CopiesCounted ==
    \A o \in Ops :
        applied[o] + late[o] <= interruptions[o] + IF Marked(o) THEN 1 ELSE 0

QInv ==
    /\ QueueTypes
    /\ SyncShape
    /\ RowsTell
    /\ CopiesCounted

-----------------------------------------------------------------------------
\* Of rows with ids one is the first.
LEMMA FirstExists ==
    ASSUME NEW S, S # {}, NEW f, \A o \in S : f[o] \in Nat
    PROVE  \E o \in S : \A p \in S : f[o] <= f[p]
<1> DEFINE ids == {f[o] : o \in S}
<1>1. ids \subseteq Nat /\ ids # {}
  OBVIOUS
<1>2. \E i \in ids : \A j \in ids : ~(<<j, i>> \in OpToRel(<, Nat))
  <2> HIDE DEF ids
  <2> QED BY <1>1, NatLessThanWellFounded, WFMin
<1>3. PICK i \in ids : \A j \in ids : ~(<<j, i>> \in OpToRel(<, Nat))
  BY <1>2
<1>4. \A j \in ids : ~(j < i)
  <2> TAKE j \in ids
  <2>1. j < i => <<j, i>> \in OpToRel(<, Nat)
    BY <1>1 DEF OpToRel
  <2>2. QED BY <1>3, <2>1
<1>5. PICK o \in S : i = f[o]
  OBVIOUS
<1>6. \A p \in S : f[o] <= f[p]
  <2> TAKE p \in S
  <2>1. f[p] \in ids
    OBVIOUS
  <2>2. QED BY <1>1, <1>4, <1>5, <2>1
<1>7. QED BY <1>6

\* The sync works on the first row of its snapshot, and no other is the first.
LEMMA CurrentIsFirst ==
    ASSUME QueueTypes, RowsTell, SyncShape, unsent # {}
    PROVE  Current \in Ops /\ IsFirst(Current) /\ \A o \in Ops : IsFirst(o) => o = Current
<1>1. \A o \in unsent : o \in Ops /\ rowId[o] \in Nat /\ rowId[o] > 0
  BY DEF QueueTypes, SyncShape, RowsTell, RowStatus
<1>2. \E o \in unsent : \A p \in unsent : rowId[o] <= rowId[p]
  BY <1>1, FirstExists
<1>3. Current \in unsent /\ \A p \in unsent : rowId[Current] <= rowId[p]
  BY <1>2 DEF Current, FirstRow
<1>4. \A o \in Ops : IsFirst(o) => o = Current
  BY <1>1, <1>3 DEF IsFirst, RowsTell
<1>5. QED BY <1>1, <1>3, <1>4 DEF IsFirst

-----------------------------------------------------------------------------
(* The invariant. *)

\* The first screen after the app is installed: no operation, no sync.
LEMMA QInvInit == QueueInit => QInv
<1> SUFFICES ASSUME QueueInit PROVE QInv
  OBVIOUS
<1>1. QueueTypes
  <2>1. /\ opStatus \in [Ops -> {"none", "written", "unqueued"} \union RowStatus]
        /\ rowId \in [Ops -> 0 .. lastRowId]
        /\ lastRowId \in Nat
    BY DEF QueueInit
  <2>2. /\ pendingCount \in [Hooks -> Nat]
        /\ closureCount \in [Hooks -> Nat]
        /\ checking \in [Hooks -> BOOLEAN]
        /\ applied \in [Ops -> Nat] /\ late \in [Ops -> Nat] /\ interruptions \in [Ops -> Nat]
    BY DEF QueueInit
  <2>3. kills \in 0 .. MaxKills /\ faults \in 0 .. MaxFaults /\ lostAcks \in 0 .. MaxLostAcks
    BY QueueAssumption DEF QueueInit
  <2>4. QED BY <2>1, <2>2, <2>3 DEF QueueInit, QueueTypes
<1>2. SyncShape /\ RowsTell
  BY DEF QueueInit, SyncShape, RowsTell, RowStatus
<1>3. CopiesCounted
  BY DEF QueueInit, CopiesCounted, Marked
<1>4. QED BY <1>1, <1>2, <1>3 DEF QInv

\* A count that the hooks are told is a count.
LEMMA NotifyTypes ==
    ASSUME QueueTypes, NEW n \in Nat, Notify(n)
    PROVE  pendingCount' \in [Hooks -> Nat]
BY DEF Notify, QueueTypes

LEMMA PendingCounts == Cardinality(Pending) \in Nat
BY QueueAssumption, FS_Subset, FS_CardinalityType DEF Pending

\* What the hooks, the network and the bounds do leaves the parts of the
\* invariant about the table, the sync and the server as they are.
LEMMA HooksOnly ==
    ASSUME QInv, QueueTypes', UNCHANGED <<queueTable, unsent, outcome>>,
           \/ UNCHANGED <<isSyncing, syncAt>>
           \/ ~isSyncing /\ isSyncing' /\ syncAt' = "reading"
           \/ isSyncing /\ ~isSyncing' /\ syncAt' = "idle" /\ syncAt = "reading"
    PROVE  QInv'
<1>1. SyncShape'
  BY DEF QInv, SyncShape, QueueTypes, queueTable
<1>2. RowsTell'
  BY DEF QInv, RowsTell, SyncShape, QueueTypes, queueTable, outcome, IsFirst
<1>3. CopiesCounted'
  BY DEF QInv, CopiesCounted, Marked, SyncShape, QueueTypes, queueTable, outcome, IsFirst
<1>4. QED BY <1>1, <1>2, <1>3 DEF QInv

\* A sync that starts.
LEMMA StartTypes ==
    ASSUME QueueTypes, StartSync
    PROVE  /\ isSyncing' \in BOOLEAN /\ syncAt' = "reading" /\ isSyncing'
           /\ ~isSyncing /\ unsent' = unsent /\ failureCount' = failureCount
           /\ pendingCount' \in [Hooks -> Nat]
BY NotifyTypes DEF StartSync

-----------------------------------------------------------------------------
(* The middleware. *)

LEMMA ChangeKeeps == ASSUME QInv, NEW o \in Ops, ChangeLocally(o) PROVE QInv'
<1> USE DEF QInv
<1>1. opStatus' \in [Ops -> {"none", "written", "unqueued"} \union RowStatus]
      /\ opStatus[o] \notin RowStatus /\ opStatus'[o] \notin RowStatus
      /\ \A p \in Ops : p # o => opStatus'[p] = opStatus[p]
  BY DEF ChangeLocally, QueueTypes, RowStatus
<1>2. UNCHANGED <<rowId, lastRowId, sync, hooks, online, outcome, kills, lostAcks>>
  BY DEF ChangeLocally
<1>3. QueueTypes'
  BY <1>1, <1>2, QueueAssumption
  DEF ChangeLocally, Fault, NoFault, QueueTypes, sync, hooks, outcome
<1>4. SyncShape'
  BY <1>1, <1>2 DEF SyncShape, RowStatus, QueueTypes, sync
<1>5. RowsTell'
  BY <1>1, <1>2 DEF RowsTell, IsFirst, sync, outcome, RowStatus
<1>6. CopiesCounted'
  BY <1>1, <1>2 DEF CopiesCounted, Marked, IsFirst, sync, outcome, RowStatus
<1>7. QED BY <1>3, <1>4, <1>5, <1>6

\* A new row is the last of all, and no sync has seen it.
LEMMA AddKeeps == ASSUME QInv, NEW o \in Ops, AddToQueue(o) PROVE QInv'
<1> USE DEF QInv
<1>1. CASE UNCHANGED <<rowId, lastRowId>>
  <2>1. opStatus' = [opStatus EXCEPT ![o] = "unqueued"] /\ opStatus[o] = "written"
        /\ UNCHANGED <<rowId, lastRowId, sync, hooks, online, outcome, kills, lostAcks>>
        /\ faults' \in 0 .. MaxFaults
    BY <1>1, QueueAssumption DEF AddToQueue, Fault, NoFault, QueueTypes
  <2>2. opStatus' \in [Ops -> {"none", "written", "unqueued"} \union RowStatus]
        /\ opStatus[o] \notin RowStatus /\ opStatus'[o] \notin RowStatus
        /\ \A p \in Ops : p # o => opStatus'[p] = opStatus[p]
    BY <2>1 DEF QueueTypes, RowStatus
  <2>3. QueueTypes'
    BY <2>1, <2>2 DEF QueueTypes, sync, hooks, outcome
  <2>4. SyncShape'
    BY <2>1, <2>2 DEF SyncShape, RowStatus, QueueTypes, sync
  <2>5. RowsTell'
    BY <2>1, <2>2 DEF RowsTell, IsFirst, sync, outcome, RowStatus
  <2>6. CopiesCounted'
    BY <2>1, <2>2 DEF CopiesCounted, Marked, IsFirst, sync, outcome, RowStatus
  <2>7. QED BY <2>3, <2>4, <2>5, <2>6
<1>2. CASE opStatus' = [opStatus EXCEPT ![o] = "pending"]
           /\ lastRowId' = lastRowId + 1
           /\ rowId' = [rowId EXCEPT ![o] = lastRowId + 1]
  <2>1. opStatus[o] = "written" /\ faults' \in 0 .. MaxFaults
        /\ UNCHANGED <<sync, hooks, online, outcome, kills, lostAcks>>
    BY <1>2, QueueAssumption DEF AddToQueue, Fault, NoFault, QueueTypes
  <2>2. opStatus'[o] = "pending" /\ rowId'[o] = lastRowId + 1 /\ o \notin unsent
    BY <1>2, <2>1 DEF QueueTypes, RowsTell, SyncShape, RowStatus
  <2>3. \A p \in Ops : p # o => opStatus'[p] = opStatus[p] /\ rowId'[p] = rowId[p]
    BY <1>2 DEF QueueTypes
  <2>4. \A p \in Ops : rowId[p] \in Nat /\ rowId[p] <= lastRowId
    BY DEF QueueTypes
  <2>5. QueueTypes'
    <3>1. rowId' \in [Ops -> 0 .. lastRowId']
      BY <1>2, <2>2, <2>3, <2>4 DEF QueueTypes
    <3>2. QED BY <1>2, <2>1, <3>1 DEF QueueTypes, sync, hooks, outcome, RowStatus
  <2>6. SyncShape'
    BY <2>1, <2>2, <2>3 DEF SyncShape, QueueTypes, sync
  <2>7. \A p \in Ops : IsFirst(p)' => IsFirst(p)
    BY <2>1, <2>2, <2>3 DEF IsFirst, sync, QueueTypes
  <2>8. RowsTell'
    BY <2>1, <2>2, <2>3, <2>4, <2>7 DEF RowsTell, RowStatus, sync, outcome, QueueTypes
  <2>9. \A p \in Ops : IsFirst(p) => IsFirst(p)'
    BY <2>1, <2>2, <2>3 DEF IsFirst, sync, QueueTypes
  <2>10. CopiesCounted'
    BY <2>1, <2>2, <2>3, <2>7, <2>9 DEF CopiesCounted, Marked, sync, outcome, QueueTypes
  <2>11. QED BY <2>5, <2>6, <2>8, <2>10
<1>3. QED BY <1>1, <1>2 DEF AddToQueue

-----------------------------------------------------------------------------
(* The SyncManager. *)

LEMMA GetKeeps == ASSUME QInv, GetQueue PROVE QInv'
<1> USE DEF QInv
<1>1. /\ unsent' = Pending /\ Pending # {} /\ syncAt' = "sending" /\ syncAt = "reading"
      /\ UNCHANGED <<queueTable, isSyncing, failureCount, hooks, online, outcome, kills, faults,
                     lostAcks>>
  BY DEF GetQueue, NoFault
<1>2. QueueTypes' /\ SyncShape'
  BY <1>1 DEF QueueTypes, SyncShape, Pending, queueTable, hooks, outcome
<1>3. RowsTell'
  BY <1>1 DEF RowsTell, queueTable, outcome
<1>4. CopiesCounted'
  BY <1>1 DEF CopiesCounted, Marked, queueTable, outcome
<1>5. QED BY <1>2, <1>3, <1>4

LEMMA ServerKeeps == ASSUME QInv, ServerApplies PROVE QInv'
<1> USE DEF QInv
<1>1. /\ unsent # {} /\ syncAt = "sending" /\ syncAt' = "applied"
      /\ applied' = [applied EXCEPT ![Current] = @ + 1]
      /\ UNCHANGED <<queueTable, isSyncing, unsent, failureCount, hooks, online, late,
                     interruptions, queueBounds>>
  BY DEF ServerApplies, Request
<1>2. Current \in Ops /\ IsFirst(Current) /\ \A o \in Ops : IsFirst(o) => o = Current
  BY <1>1, CurrentIsFirst
<1>3. \A o \in Ops : applied'[o] = IF o = Current THEN applied[o] + 1 ELSE applied[o]
  BY <1>1, <1>2 DEF QueueTypes
<1>4. \A o \in Ops : applied[o] \in Nat
  BY DEF QueueTypes
<1>5. \A o \in Ops : IsFirst(o)' <=> IsFirst(o)
  BY <1>1 DEF IsFirst, queueTable
<1> HIDE DEF QInv
<1>6. QueueTypes' /\ SyncShape'
  BY <1>1, <1>2 DEF QInv, QueueTypes, SyncShape, queueTable, hooks, queueBounds
<1>7. opStatus[Current] = "pending" /\ rowId[Current] > 0
  BY <1>2 DEF QInv, SyncShape, RowsTell, RowStatus, IsFirst
<1>8. RowsTell'
  BY <1>1, <1>2, <1>3, <1>4, <1>5, <1>7 DEF QInv, RowsTell, queueTable
<1>9. CopiesCounted'
  <2> SUFFICES ASSUME NEW o \in Ops
               PROVE  applied'[o] + late[o] <= interruptions[o] + IF Marked(o)' THEN 1 ELSE 0
    BY <1>1 DEF CopiesCounted
  <2>1. CASE o = Current
    <3>1. Marked(o)' /\ ~Marked(o)
      BY <1>1, <1>2, <1>5, <1>7, <2>1 DEF Marked
    <3>2. QED BY <1>3, <1>4, <2>1, <3>1 DEF QInv, CopiesCounted, QueueTypes
  <2>2. CASE o # Current
    <3>1. Marked(o)' <=> Marked(o)
      BY <1>1, <1>2, <1>5, <2>2 DEF Marked, queueTable
    <3>2. QED BY <1>3, <2>2, <3>1 DEF QInv, CopiesCounted
  <2>3. QED BY <2>1, <2>2
<1>10. QED BY <1>6, <1>8, <1>9 DEF QInv

\* The sync goes on with the next row: the one it leaves was marked, or was not applied,
\* or may count one interruption for the request that was applied or may yet be.
LEMMA NextRowKeeps ==
    ASSUME QInv, QueueTypes', unsent # {}, syncAt \in {"sending", "applied"},
           unsent' = unsent \ {Current}, syncAt' = "sending",
           UNCHANGED <<isSyncing, applied, rowId>>,
           \/ syncAt = "sending" /\ UNCHANGED <<opStatus, late, interruptions>>
           \/ syncAt = "sending" /\ GiveUpOn(Current) /\ Interrupt(Current) /\ UNCHANGED opStatus
           \/ syncAt = "applied" /\ Interrupt(Current) /\ UNCHANGED <<opStatus, late>>
           \/ syncAt = "applied" /\ opStatus' = [opStatus EXCEPT ![Current] = "synced"]
              /\ UNCHANGED <<late, interruptions>>
    PROVE  QInv'
<1>1. Current \in Ops /\ IsFirst(Current) /\ \A o \in Ops : IsFirst(o) => o = Current
  BY CurrentIsFirst DEF QInv
<1>2. opStatus[Current] = "pending" /\ rowId[Current] > 0
  BY <1>1 DEF QInv, SyncShape, RowsTell, RowStatus, IsFirst
<1>3. \A o \in Ops : o # Current => /\ opStatus'[o] = opStatus[o] /\ late'[o] = late[o]
                                    /\ interruptions'[o] = interruptions[o]
  BY <1>1 DEF QInv, QueueTypes, Interrupt, GiveUpOn
<1>4. opStatus'[Current] = "pending" \/ (opStatus'[Current] = "synced" /\ syncAt = "applied")
  BY <1>1, <1>2 DEF QInv, QueueTypes
<1>5. syncAt = "applied" => applied[Current] > 0
  BY <1>1 DEF QInv, RowsTell
<1>6. SyncShape'
  BY <1>3 DEF QInv, SyncShape, QueueTypes
<1>7. RowsTell'
  BY <1>1, <1>2, <1>3, <1>4, <1>5 DEF QInv, RowsTell, RowStatus
<1>8. CopiesCounted'
  <2> SUFFICES ASSUME NEW o \in Ops
               PROVE  applied[o] + late'[o]
                        <= interruptions'[o] + IF opStatus'[o] \in {"synced", "deleted"} THEN 1 ELSE 0
    BY DEF CopiesCounted, Marked
  <2>1. /\ applied[o] \in Nat /\ late[o] \in Nat /\ interruptions[o] \in Nat
        /\ applied[o] + late[o] <= interruptions[o] + IF Marked(o) THEN 1 ELSE 0
    BY DEF QInv, QueueTypes, CopiesCounted
  <2>2. CASE o # Current
    <3>1. Marked(o) <=> opStatus'[o] \in {"synced", "deleted"}
      BY <1>1, <1>3, <2>2 DEF Marked
    <3>2. QED BY <1>3, <2>1, <2>2, <3>1
  <2>3. CASE o = Current /\ UNCHANGED <<opStatus, late, interruptions>> /\ syncAt = "sending"
    BY <1>2, <2>1, <2>3 DEF Marked
  <2>4. CASE o = Current /\ syncAt = "sending" /\ GiveUpOn(Current) /\ Interrupt(Current)
    <3>1. late'[o] = late[o] + 1 /\ interruptions'[o] = interruptions[o] + 1 /\ ~Marked(o)
      BY <1>1, <1>2, <2>4 DEF Marked, Interrupt, GiveUpOn, QInv, QueueTypes
    <3>2. QED BY <2>1, <3>1
  <2>5. CASE o = Current /\ syncAt = "applied" /\ Interrupt(Current) /\ UNCHANGED late
    <3>1. interruptions'[o] = interruptions[o] + 1
      BY <1>1, <2>5 DEF Interrupt, QInv, QueueTypes
    <3>2. QED BY <2>1, <2>5, <3>1
  <2>6. CASE /\ o = Current /\ opStatus' = [opStatus EXCEPT ![Current] = "synced"]
             /\ UNCHANGED <<late, interruptions>>
    <3>1. opStatus'[o] = "synced"
      BY <1>1, <2>6 DEF QInv, QueueTypes
    <3>2. QED BY <2>1, <2>6, <3>1
  <2>7. QED BY <2>2, <2>3, <2>4, <2>5, <2>6
<1>9. QED BY <1>6, <1>7, <1>8 DEF QInv

\* A request that was given up is applied after all.
LEMMA LateKeeps == ASSUME QInv, NEW o \in Ops, LateApplies(o) PROVE QInv'
<1>1. /\ late[o] > 0
      /\ late' = [late EXCEPT ![o] = @ - 1] /\ applied' = [applied EXCEPT ![o] = @ + 1]
      /\ UNCHANGED <<queueTable, sync, hooks, online, interruptions, queueBounds>>
  BY DEF LateApplies
<1>2. \A p \in Ops : /\ applied[p] \in Nat /\ late[p] \in Nat
                     /\ applied'[p] = IF p = o THEN applied[p] + 1 ELSE applied[p]
                     /\ late'[p] = IF p = o THEN late[p] - 1 ELSE late[p]
  BY <1>1 DEF QInv, QueueTypes
<1>3. QueueTypes'
  <2>1. applied' \in [Ops -> Nat] /\ late' \in [Ops -> Nat]
    BY <1>1, <1>2 DEF QInv, QueueTypes
  <2>2. QED BY <1>1, <2>1 DEF QInv, QueueTypes, queueTable, sync, hooks, queueBounds
<1>4. SyncShape'
  BY <1>1 DEF QInv, SyncShape, queueTable, sync
<1>5. \A p \in Ops : (IsFirst(p)' <=> IsFirst(p)) /\ (Marked(p)' <=> Marked(p))
  BY <1>1 DEF IsFirst, Marked, queueTable, sync
<1>6. RowsTell'
  BY <1>1, <1>2, <1>5 DEF QInv, RowsTell, queueTable, sync
<1>7. \A p \in Ops : applied'[p] + late'[p] = applied[p] + late[p]
  BY <1>2
<1>8. CopiesCounted'
  BY <1>1, <1>5, <1>7 DEF QInv, CopiesCounted
<1>9. QED BY <1>3, <1>4, <1>6, <1>8 DEF QInv

\* The sync ends; of the rows, at most the synced ones have gone.
LEMMA EndKeeps ==
    ASSUME QInv, QueueTypes', unsent' = {}, syncAt' = "idle", isSyncing' = FALSE,
           UNCHANGED <<rowId, outcome>>,
           \/ UNCHANGED opStatus
           \/ opStatus' = [o \in Ops |-> IF opStatus[o] = "synced" THEN "deleted" ELSE opStatus[o]],
           unsent = {}
    PROVE  QInv'
<1>1. \A o \in Ops : \/ opStatus'[o] = opStatus[o]
                     \/ opStatus[o] = "synced" /\ opStatus'[o] = "deleted"
  <2>1. CASE UNCHANGED opStatus
    BY <2>1
  <2>2. CASE opStatus' = [o \in Ops |-> IF opStatus[o] = "synced" THEN "deleted" ELSE opStatus[o]]
    <3>1. \A o \in Ops : opStatus'[o] = IF opStatus[o] = "synced" THEN "deleted" ELSE opStatus[o]
      BY <2>2
    <3>2. QED BY <3>1
  <2>3. QED BY <2>1, <2>2
<1>2. SyncShape'
  BY DEF SyncShape
<1>3. RowsTell'
  BY <1>1 DEF QInv, RowsTell, RowStatus, outcome
<1>4. CopiesCounted'
  BY <1>1 DEF QInv, CopiesCounted, Marked, IsFirst, outcome
<1>5. QED BY <1>2, <1>3, <1>4 DEF QInv

\* A process that ends takes the sync with it: a request that was applied and not marked,
\* or that the server still has, is one interruption more.
LEMMA KillKeeps == ASSUME QInv, Kill PROVE QInv'
<1>1. /\ opStatus' = [o \in Ops |-> IF opStatus[o] = "written" THEN "unqueued" ELSE opStatus[o]]
      /\ isSyncing' = FALSE /\ syncAt' = "idle" /\ unsent' = {} /\ failureCount' = 0
      /\ mounted' = {} /\ kills < MaxKills /\ kills' = kills + 1
      /\ UNCHANGED <<rowId, lastRowId, online, applied, faults, lostAcks>>
  BY DEF Kill
<1>2. \/ syncAt = "applied" /\ unsent # {} /\ Interrupt(Current) /\ UNCHANGED late
      \/ syncAt # "applied" /\ UNCHANGED <<late, interruptions>>
      \/ syncAt = "sending" /\ unsent # {} /\ GiveUpOn(Current) /\ Interrupt(Current)
  BY DEF Kill, Request, QInv, SyncShape
<1>3. unsent # {} => Current \in Ops /\ IsFirst(Current) /\ \A o \in Ops : IsFirst(o) => o = Current
  BY CurrentIsFirst DEF QInv
<1>4. QueueTypes'
  <2>1. /\ pendingCount' \in [Hooks -> Nat]
        /\ closureCount' \in [Hooks -> Nat]
        /\ checking' \in [Hooks -> BOOLEAN]
    BY DEF Kill
  <2>2. opStatus' \in [Ops -> {"none", "written", "unqueued"} \union RowStatus]
    BY <1>1 DEF QInv, QueueTypes, RowStatus
  <2>3. late' \in [Ops -> Nat] /\ interruptions' \in [Ops -> Nat]
    BY <1>2 DEF QInv, QueueTypes, Interrupt, GiveUpOn
  <2>4. kills' \in 0 .. MaxKills
    BY <1>1, QueueAssumption DEF QInv, QueueTypes
  <2>5. QED BY <1>1, <2>1, <2>2, <2>3, <2>4 DEF QInv, QueueTypes
<1>5. \A o \in Ops : /\ opStatus'[o] \in RowStatus <=> opStatus[o] \in RowStatus
                     /\ opStatus'[o] \in RowStatus => opStatus'[o] = opStatus[o]
  BY <1>1 DEF RowStatus
<1>6. SyncShape'
  BY <1>1 DEF SyncShape
<1>7. RowsTell'
  <2>1. \A o \in Ops : late'[o] > 0 => late[o] > 0 \/ (unsent # {} /\ o = Current)
    BY <1>2, <1>3 DEF QInv, QueueTypes, GiveUpOn
  <2>2. unsent # {} => rowId[Current] > 0
    BY <1>3 DEF QInv, SyncShape, RowsTell, RowStatus, IsFirst
  <2>3. QED BY <1>1, <1>5, <2>1, <2>2 DEF QInv, RowsTell, RowStatus
<1>8. CopiesCounted'
  <2> SUFFICES ASSUME NEW o \in Ops
               PROVE  applied[o] + late'[o]
                        <= interruptions'[o] + IF opStatus[o] \in {"synced", "deleted"} THEN 1 ELSE 0
    BY <1>1, <1>5 DEF CopiesCounted, Marked, RowStatus
  <2>1. /\ applied[o] \in Nat /\ late[o] \in Nat /\ interruptions[o] \in Nat
        /\ applied[o] + late[o] <= interruptions[o] + IF Marked(o) THEN 1 ELSE 0
    BY DEF QInv, QueueTypes, CopiesCounted
  <2>2. CASE syncAt = "applied" /\ unsent # {} /\ Interrupt(Current) /\ UNCHANGED late
    <3>1. interruptions'[o] = IF o = Current THEN interruptions[o] + 1 ELSE interruptions[o]
      BY <1>3, <2>2 DEF Interrupt, QInv, QueueTypes
    <3>2. CASE o = Current
      BY <2>1, <2>2, <3>1, <3>2
    <3>3. CASE o # Current
      <4>1. Marked(o) <=> opStatus[o] \in {"synced", "deleted"}
        BY <1>3, <2>2, <3>3 DEF Marked
      <4>2. QED BY <2>1, <2>2, <3>1, <3>3, <4>1
    <3>4. QED BY <3>2, <3>3
  <2>3. CASE syncAt # "applied" /\ UNCHANGED <<late, interruptions>>
    BY <2>1, <2>3 DEF Marked
  <2>4. CASE syncAt = "sending" /\ unsent # {} /\ GiveUpOn(Current) /\ Interrupt(Current)
    <3>1. \/ late'[o] = late[o] /\ interruptions'[o] = interruptions[o]
          \/ late'[o] = late[o] + 1 /\ interruptions'[o] = interruptions[o] + 1
      BY <1>3, <2>4 DEF Interrupt, GiveUpOn, QInv, QueueTypes
    <3>2. QED BY <2>1, <2>4, <3>1 DEF Marked
  <2>5. QED BY <1>2, <2>2, <2>3, <2>4
<1>9. QED BY <1>4, <1>6, <1>7, <1>8 DEF QInv

\* A count of one operation goes up.
LEMMA CountedOnce ==
    ASSUME NEW f \in [Ops -> Nat], NEW o \in Ops
    PROVE  [f EXCEPT ![o] = @ + 1] \in [Ops -> Nat]
OBVIOUS

LEMMA SyncStepKeeps == ASSUME QInv, SyncStep PROVE QInv'
<1>1. CASE GetQueue
  BY <1>1, GetKeeps
<1>2. CASE ServerApplies
  BY <1>2, ServerKeeps
<1>3. CASE NothingToSync
  <2>1. /\ Notify(0) /\ unsent' = {} /\ unsent = {} /\ syncAt' = "idle"
        /\ failureCount' = 0 /\ isSyncing' = FALSE /\ faults' \in 0 .. MaxFaults
        /\ UNCHANGED <<queueTable, mounted, closureCount, checking, online, outcome, kills,
                       lostAcks>>
    BY <1>3, QueueAssumption
    DEF NothingToSync, EndSync, Fault, NoFault, QInv, QueueTypes, SyncShape
  <2>2. QueueTypes'
    BY <2>1, NotifyTypes DEF QInv, QueueTypes, queueTable, outcome
  <2>3. QED BY <2>1, <2>2, EndKeeps DEF queueTable
<1>4. CASE ClearQueue
  <2>1. /\ \/ Notify(0)
           \/ Notify(failureCount)
        /\ unsent' = {} /\ unsent = {} /\ syncAt' = "idle"
        /\ failureCount' = 0 /\ isSyncing' = FALSE /\ faults' \in 0 .. MaxFaults
        /\ UNCHANGED <<rowId, lastRowId, mounted, closureCount, checking, online, outcome, kills,
                       lostAcks>>
        /\ \/ UNCHANGED opStatus
           \/ opStatus' = [o \in Ops |-> IF opStatus[o] = "synced" THEN "deleted" ELSE opStatus[o]]
    BY <1>4, QueueAssumption DEF ClearQueue, EndSync, Fault, NoFault, QInv, QueueTypes
  <2>2. pendingCount' \in [Hooks -> Nat]
    BY <2>1, NotifyTypes DEF QInv, QueueTypes
  <2>3. opStatus' \in [Ops -> {"none", "written", "unqueued"} \union RowStatus]
    BY <2>1 DEF QInv, QueueTypes, RowStatus
  <2>4. QueueTypes'
    BY <2>1, <2>2, <2>3 DEF QInv, QueueTypes, outcome
  <2>5. QED BY <2>1, <2>4, EndKeeps
<1>5. CASE RequestFails
  <2>1. QueueTypes'
    BY <1>5, CurrentIsFirst
    DEF RequestFails, Request, QInv, QueueTypes, queueTable, hooks, queueBounds
  <2>2. QED BY <1>5, <2>1, NextRowKeeps DEF RequestFails, Request, queueTable
<1>6. CASE AnswerLost
  <2>1. Current \in Ops
    BY <1>6, CurrentIsFirst DEF AnswerLost, Request, QInv, SyncShape
  <2>2. late' \in [Ops -> Nat]
    BY <1>6, <2>1, CountedOnce DEF AnswerLost, GiveUpOn, QInv, QueueTypes
  <2>3. interruptions' \in [Ops -> Nat]
    BY <1>6, <2>1, CountedOnce DEF AnswerLost, Interrupt, QInv, QueueTypes
  <2>4. lostAcks' \in 0 .. MaxLostAcks
    BY <1>6, QueueAssumption DEF AnswerLost, QInv, QueueTypes
  <2>5. QueueTypes'
    BY <1>6, <2>2, <2>3, <2>4 DEF AnswerLost, QInv, QueueTypes, queueTable, hooks
  <2>6. QED BY <1>6, <2>5, NextRowKeeps DEF AnswerLost, Request, QInv, SyncShape, queueTable
<1>7. CASE MarkOperationAsSynced
  <2>1. opStatus' \in [Ops -> {"none", "written", "unqueued"} \union RowStatus]
        /\ failureCount' \in Nat /\ interruptions' \in [Ops -> Nat] /\ faults' \in 0 .. MaxFaults
    BY <1>7, QueueAssumption
    DEF MarkOperationAsSynced, Interrupt, Fault, NoFault, QInv, QueueTypes, RowStatus
  <2>2. QueueTypes'
    BY <1>7, <2>1 DEF MarkOperationAsSynced, QInv, QueueTypes, hooks
  <2>3. QED BY <1>7, <2>2, NextRowKeeps DEF MarkOperationAsSynced, QInv, SyncShape
<1>8. QED BY <1>1, <1>2, <1>3, <1>4, <1>5, <1>6, <1>7 DEF SyncStep

-----------------------------------------------------------------------------
(* The hooks, and every step. *)

LEMMA HookStepsKeep ==
    ASSUME QInv, NEW h \in Hooks, HookStep(h) \/ Mount(h) \/ Unmount(h)
    PROVE  QInv'
<1> USE DEF QInv
<1>1. CASE Mount(h)
  <2>1. QueueTypes'
    BY <1>1 DEF Mount, QueueTypes, queueTable, sync, outcome, queueBounds
  <2>2. QED BY <1>1, <2>1, HooksOnly DEF Mount, sync
<1>2. CASE Unmount(h)
  <2>1. QueueTypes'
    BY <1>2 DEF Unmount, QueueTypes, queueTable, sync, outcome, queueBounds
  <2>2. QED BY <1>2, <2>1, HooksOnly DEF Unmount, sync
<1>3. CASE CheckStatus(h)
  <2>1. pendingCount' \in [Hooks -> Nat] /\ checking' \in [Hooks -> BOOLEAN]
        /\ faults' \in 0 .. MaxFaults
    BY <1>3, PendingCounts, QueueAssumption DEF CheckStatus, Fault, NoFault, QueueTypes
  <2>2. QueueTypes'
    BY <1>3, <2>1 DEF CheckStatus, QueueTypes, queueTable, sync, outcome
  <2>3. QED BY <1>3, <2>2, HooksOnly DEF CheckStatus, sync
<1>4. CASE RunEffect(h)
  <2>1. closureCount' \in [Hooks -> Nat] /\ checking' \in [Hooks -> BOOLEAN]
    BY <1>4 DEF RunEffect, QueueTypes
  <2>2. CASE StartSync
    <3>1. QueueTypes'
      BY <1>4, <2>1, <2>2, StartTypes DEF RunEffect, QueueTypes, queueTable, outcome, queueBounds
    <3>2. QED BY <1>4, <2>2, <3>1, StartTypes, HooksOnly DEF RunEffect
  <2>3. CASE UNCHANGED <<sync, pendingCount>>
    <3>1. QueueTypes'
      BY <1>4, <2>1, <2>3 DEF RunEffect, QueueTypes, queueTable, sync, outcome, queueBounds
    <3>2. QED BY <1>4, <2>3, <3>1, HooksOnly DEF RunEffect, sync
  <2>4. QED BY <1>4, <2>2, <2>3 DEF RunEffect
<1>5. QED BY <1>1, <1>2, <1>3, <1>4 DEF HookStep

LEMMA QInvNext == QInv /\ [QueueNext]_queueVars => QInv'
<1> SUFFICES ASSUME QInv, [QueueNext]_queueVars PROVE QInv'
  OBVIOUS
<1>1. ASSUME NEW o \in Ops, ChangeLocally(o) \/ AddToQueue(o) \/ LateApplies(o) PROVE QInv'
  BY <1>1, ChangeKeeps, AddKeeps, LateKeeps
<1>2. ASSUME NEW h \in Hooks, HookStep(h) \/ Mount(h) \/ Unmount(h) PROVE QInv'
  BY <1>2, HookStepsKeep
<1>3. CASE SyncStep
  BY <1>3, SyncStepKeeps
<1>4. CASE ManualSync
  <2>1. QueueTypes'
    BY <1>4, StartTypes DEF ManualSync, QInv, QueueTypes, queueTable, outcome, queueBounds
  <2>2. QED BY <1>4, <2>1, StartTypes, HooksOnly DEF ManualSync, QInv
<1>5. CASE Connected
  <2>1. CASE StartSync
    <3>1. QueueTypes'
      BY <1>5, <2>1, StartTypes DEF Connected, QInv, QueueTypes, queueTable, outcome, queueBounds
    <3>2. QED BY <1>5, <2>1, <3>1, StartTypes, HooksOnly DEF Connected, QInv
  <2>2. CASE UNCHANGED <<sync, pendingCount>>
    <3>1. QueueTypes'
      BY <1>5, <2>2 DEF Connected, QInv, QueueTypes, queueTable, sync, outcome, queueBounds
    <3>2. QED BY <1>5, <2>2, <3>1, HooksOnly DEF Connected, sync
  <2>3. QED BY <1>5, <2>1, <2>2 DEF Connected
<1>6. CASE Disconnected
  <2>1. QueueTypes'
    BY <1>6 DEF Disconnected, QInv, QueueTypes, queueTable, sync, hooks, outcome, queueBounds
  <2>2. QED BY <1>6, <2>1, HooksOnly DEF Disconnected, sync
<1>7. CASE Kill
  BY <1>7, KillKeeps
<1>8. CASE UNCHANGED queueVars
  <2>1. QueueTypes'
    BY <1>8 DEF queueVars, QInv, QueueTypes, queueTable, sync, hooks, outcome, queueBounds
  <2>2. QED BY <1>8, <2>1, HooksOnly DEF queueVars, sync
<1>9. QED BY <1>1, <1>2, <1>3, <1>4, <1>5, <1>6, <1>7, <1>8 DEF QueueNext

-----------------------------------------------------------------------------
(* Theorems. *)

THEOREM QInvHolds == QueueSpec => []QInv
BY QInvInit, QInvNext, PTL DEF QueueSpec

\* Every state is well-typed, for any operations, hooks and bounds.
THEOREM QueueTyped == QueueSpec => []QueueTypes
<1>1. QInv => QueueTypes
  BY DEF QInv
<1>2. QED BY <1>1, QInvHolds, PTL

\* An operation that was queued is in the queue or was applied, whatever fails,
\* is lost or is killed.
THEOREM NothingLost == QueueSpec => []NothingVanishes
<1>1. QInv => NothingVanishes
  BY DEF QInv, RowsTell, RowStatus, NothingVanishes
<1>2. QED BY <1>1, QInvHolds, PTL

\* Every request of an operation beyond one that the server applies, however late, has
\* an interruption of that operation to account for it.
THEOREM RepeatsInterrupted == QueueSpec => []RepeatsAccounted
<1>1. QInv => RepeatsAccounted
  BY DEF QInv, QueueTypes, CopiesCounted, RepeatsAccounted
<1>2. QED BY <1>1, QInvHolds, PTL

-----------------------------------------------------------------------------
(* The refinement of QueueContract. *)

\* The abstract queue of the contract, in terms of the table and the server.
Entered == {o \in Ops : rowId[o] > 0}
Left == {o \in Ops : opStatus[o] \in {"synced", "deleted"}}

AbstractStep == [Promise!ContractNext]_(Promise!contractVars)

LEMMA Stutters ==
    ASSUME Entered' = Entered, Left' = Left, UNCHANGED <<applied, late>>
    PROVE  AbstractStep
BY DEF AbstractStep, Promise!contractVars, Entered, Left

\* A step that changes no row, no id and nothing at the server.
LEMMA TableKept ==
    ASSUME UNCHANGED <<queueTable, applied, late>>
    PROVE  AbstractStep
<1>1. Entered' = Entered /\ Left' = Left
  BY DEF Entered, Left, queueTable
<1>2. QED BY <1>1, Stutters

\* The sync's current row, and where it is in the abstract queue.
LEMMA CurrentHeld ==
    ASSUME QInv, unsent # {}
    PROVE  Current \in Ops /\ Current \in Entered \ Left
<1>1. Current \in Ops /\ Current \in unsent
  BY CurrentIsFirst DEF QInv, IsFirst
<1>2. opStatus[Current] = "pending" /\ rowId[Current] > 0
  BY <1>1 DEF QInv, SyncShape, RowsTell, RowStatus
<1>3. QED BY <1>1, <1>2 DEF Entered, Left

\* The sync's current request is given up.
LEMMA GiveUpImplements ==
    ASSUME QInv, unsent # {}, Entered' = Entered, Left' = Left, GiveUpOn(Current), UNCHANGED applied
    PROVE  AbstractStep
<1>1. PICK c \in Ops : c = Current /\ c \in Entered \ Left
  BY CurrentHeld
<1>2. Promise!GiveUp(c)
  BY <1>1 DEF Promise!GiveUp, Promise!Held, Entered, Left, GiveUpOn
<1>3. QED BY <1>1, <1>2 DEF AbstractStep, Promise!ContractNext

\* A request that was given up is applied: its operation may have left.
LEMMA LateImplements ==
    ASSUME NEW o \in Ops, LateApplies(o)
    PROVE  AbstractStep
<1>1. Entered' = Entered /\ Left' = Left
  BY DEF LateApplies, Entered, Left, queueTable
<1>2. Promise!DeliverLate(o)
  BY <1>1 DEF LateApplies, Promise!DeliverLate, Entered, Left
<1>3. QED BY <1>2 DEF AbstractStep, Promise!ContractNext

LEMMA ChangeImplements ==
    ASSUME QInv, NEW o \in Ops, ChangeLocally(o) \/ AddToQueue(o)
    PROVE  AbstractStep
<1>1. CASE ChangeLocally(o)
  <2>1. /\ opStatus[o] = "none" /\ opStatus'[o] \in {"written", "unqueued"}
        /\ \A p \in Ops : p # o => opStatus'[p] = opStatus[p]
        /\ UNCHANGED <<rowId, applied, late>>
    BY <1>1 DEF ChangeLocally, QInv, QueueTypes, outcome
  <2>2. Entered' = Entered /\ Left' = Left
    BY <2>1 DEF Entered, Left
  <2>3. QED BY <2>1, <2>2, Stutters
<1>2. CASE AddToQueue(o) /\ UNCHANGED <<rowId, lastRowId>>
  <2>1. /\ opStatus[o] = "written" /\ opStatus'[o] \in {"pending", "unqueued"}
        /\ \A p \in Ops : p # o => opStatus'[p] = opStatus[p]
        /\ UNCHANGED <<rowId, applied, late>>
    BY <1>2 DEF AddToQueue, QInv, QueueTypes, outcome
  <2>2. Entered' = Entered /\ Left' = Left
    BY <2>1 DEF Entered, Left
  <2>3. QED BY <2>1, <2>2, Stutters
<1>3. CASE /\ AddToQueue(o)
           /\ opStatus' = [opStatus EXCEPT ![o] = "pending"]
           /\ rowId' = [rowId EXCEPT ![o] = lastRowId + 1]
  <2>1. opStatus[o] = "written" /\ rowId[o] = 0 /\ lastRowId \in Nat /\ UNCHANGED <<applied, late>>
    BY <1>3 DEF AddToQueue, QInv, QueueTypes, RowsTell, RowStatus, outcome
  <2>2. /\ opStatus'[o] = "pending" /\ rowId'[o] > 0
        /\ \A p \in Ops : p # o => opStatus'[p] = opStatus[p] /\ rowId'[p] = rowId[p]
    BY <1>3, <2>1 DEF QInv, QueueTypes
  <2>3. Entered' = Entered \union {o} /\ Left' = Left /\ o \notin Entered
    BY <2>1, <2>2 DEF Entered, Left
  <2>4. Promise!Enter(o)
    BY <2>1, <2>3 DEF Promise!Enter, Entered, Left
  <2>5. QED BY <2>4 DEF AbstractStep, Promise!ContractNext
<1>4. QED BY <1>1, <1>2, <1>3 DEF AddToQueue

LEMMA SyncImplements ==
    ASSUME QInv, SyncStep
    PROVE  AbstractStep
<1>1. CASE GetQueue \/ NothingToSync \/ RequestFails
  BY <1>1, TableKept DEF GetQueue, NothingToSync, RequestFails, outcome
<1>2. CASE ServerApplies
  <2>1. PICK c \in Ops : c = Current /\ c \in Entered \ Left
    BY <1>2, CurrentHeld DEF ServerApplies, Request
  <2>2. Entered' = Entered /\ Left' = Left
    BY <1>2 DEF ServerApplies, Entered, Left, queueTable
  <2>3. Promise!Deliver(c)
    BY <1>2, <2>1, <2>2 DEF ServerApplies, Promise!Deliver, Promise!Held, Entered, Left
  <2>4. QED BY <2>1, <2>3 DEF AbstractStep, Promise!ContractNext
<1>3. CASE MarkOperationAsSynced
  <2>1. Current \in Ops /\ Current \in unsent /\ IsFirst(Current)
    BY <1>3, CurrentIsFirst DEF MarkOperationAsSynced, QInv, SyncShape, IsFirst
  <2>2. opStatus[Current] = "pending" /\ rowId[Current] > 0 /\ applied[Current] > 0
    BY <1>3, <2>1 DEF MarkOperationAsSynced, QInv, SyncShape, RowsTell, RowStatus
  <2>3. CASE UNCHANGED opStatus
    BY <1>3, <2>3, TableKept DEF MarkOperationAsSynced, queueTable
  <2>4. CASE opStatus' = [opStatus EXCEPT ![Current] = "synced"]
    <3>1. /\ opStatus'[Current] = "synced"
          /\ \A o \in Ops : o # Current => opStatus'[o] = opStatus[o]
          /\ UNCHANGED <<rowId, applied, late>>
      BY <1>3, <2>1, <2>4 DEF MarkOperationAsSynced, QInv, QueueTypes
    <3>2. Entered' = Entered /\ Left' = Left \union {Current} /\ Current \in Entered \ Left
      BY <2>1, <2>2, <3>1 DEF Entered, Left
    <3>3. PICK c \in Ops : c = Current
      BY <2>1
    <3>4. Promise!Leave(c)
      BY <2>2, <3>1, <3>2, <3>3 DEF Promise!Leave, Promise!Held, Entered, Left
    <3>5. QED BY <3>4 DEF AbstractStep, Promise!ContractNext
  <2>5. QED BY <1>3, <2>3, <2>4 DEF MarkOperationAsSynced
<1>4. CASE ClearQueue
  <2>1. \/ UNCHANGED opStatus
        \/ opStatus' = [o \in Ops |-> IF opStatus[o] = "synced" THEN "deleted" ELSE opStatus[o]]
    BY <1>4 DEF ClearQueue
  <2>2. \A o \in Ops : opStatus'[o] \in {"synced", "deleted"} <=> opStatus[o] \in {"synced", "deleted"}
    BY <2>1
  <2>3. Entered' = Entered /\ Left' = Left
    BY <1>4, <2>2 DEF ClearQueue, Entered, Left
  <2>4. QED BY <1>4, <2>3, Stutters DEF ClearQueue, outcome
<1>5. CASE AnswerLost
  <2>1. Entered' = Entered /\ Left' = Left /\ UNCHANGED applied
    BY <1>5 DEF AnswerLost, Entered, Left, queueTable
  <2>2. CASE UNCHANGED late
    BY <2>1, <2>2, Stutters
  <2>3. CASE Request /\ GiveUpOn(Current)
    BY <2>1, <2>3, GiveUpImplements DEF Request
  <2>4. QED BY <1>5, <2>2, <2>3 DEF AnswerLost
<1>6. QED BY <1>1, <1>2, <1>3, <1>4, <1>5 DEF SyncStep

LEMMA KillImplements ==
    ASSUME QInv, Kill
    PROVE  AbstractStep
<1>1. \A o \in Ops : opStatus'[o] \in {"synced", "deleted"} <=> opStatus[o] \in {"synced", "deleted"}
  BY DEF Kill
<1>2. Entered' = Entered /\ Left' = Left /\ UNCHANGED applied
  BY <1>1 DEF Kill, Entered, Left
<1>3. CASE UNCHANGED late
  BY <1>2, <1>3, Stutters
<1>4. CASE Request /\ GiveUpOn(Current)
  BY <1>2, <1>4, GiveUpImplements DEF Request
<1>5. QED BY <1>3, <1>4 DEF Kill

\* The table, the SyncManager and the hooks implement the abstract queue, with every
\* application of an operation counted: one that comes after its row was marked is a
\* request that was given up while the row was held.
THEOREM QueueImplementsContract == QueueSpec => KeepsContract
<1>1. QueueInit => Promise!ContractInit
  BY DEF QueueInit, Promise!ContractInit
<1>2. QInv /\ [QueueNext]_queueVars => AbstractStep
  <2> SUFFICES ASSUME QInv, [QueueNext]_queueVars PROVE AbstractStep
    OBVIOUS
  <2>1. ASSUME NEW o \in Ops, ChangeLocally(o) \/ AddToQueue(o) \/ LateApplies(o)
        PROVE  AbstractStep
    BY <2>1, ChangeImplements, LateImplements
  <2>2. ASSUME NEW h \in Hooks, HookStep(h) \/ Mount(h) \/ Unmount(h) PROVE AbstractStep
    BY <2>2, TableKept DEF HookStep, CheckStatus, RunEffect, Mount, Unmount, outcome
  <2>3. CASE SyncStep
    BY <2>3, SyncImplements
  <2>4. CASE ManualSync \/ Connected \/ Disconnected \/ UNCHANGED queueVars
    BY <2>4, TableKept DEF ManualSync, Connected, Disconnected, queueVars, outcome
  <2>5. CASE Kill
    BY <2>5, KillImplements
  <2>6. QED BY <2>1, <2>2, <2>3, <2>4, <2>5 DEF QueueNext
<1>3. QED BY <1>1, <1>2, QInvHolds, PTL DEF QueueSpec, KeepsContract, Promise!ContractSpec,
                                            AbstractStep
-----------------------------------------------------------------------------
(* How long a sync lasts, and what starts one.                                *)

\* Snapshots are counted.
LEMMA SnapshotCounted ==
    ASSUME NEW S, S \subseteq Ops
    PROVE  /\ IsFiniteSet(S)
           /\ Cardinality(S) \in Nat /\ Cardinality(Ops) \in Nat
           /\ Cardinality(S) <= Cardinality(Ops)
BY QueueAssumption, FS_Subset, FS_CardinalityType

\* The loop goes on to the next row.
LEMMA RowFinished ==
    ASSUME QInv, unsent # {}, unsent' = unsent \ {Current}
    PROVE  Cardinality(unsent') = Cardinality(unsent) - 1
BY CurrentIsFirst, SnapshotCounted, FS_RemoveElement DEF QInv, QueueTypes, IsFirst

LEMMA SyncStepShrinks == ASSUME QInv, SyncStep PROVE StepsLeft' < StepsLeft
<1>1. /\ Cardinality(unsent) \in Nat /\ Cardinality(Ops) \in Nat
      /\ Cardinality(Pending) \in Nat /\ Cardinality(Pending) <= Cardinality(Ops)
  BY SnapshotCounted DEF QInv, QueueTypes, Pending
<1>2. syncAt = "applied" => unsent # {}
  BY DEF QInv, SyncShape
<1>3. unsent # {} => Cardinality(unsent) > 0
  BY <1>1, SnapshotCounted, FS_EmptySet DEF QInv, QueueTypes
<1>4. CASE GetQueue
  BY <1>1, <1>4 DEF GetQueue, StepsLeft
<1>5. CASE NothingToSync
  BY <1>1, <1>5 DEF NothingToSync, EndSync, StepsLeft
<1>6. CASE ServerApplies
  BY <1>1, <1>6 DEF ServerApplies, Request, StepsLeft
<1>7. CASE RequestFails
  <2>1. /\ syncAt = "sending" /\ syncAt' = "sending"
        /\ Cardinality(unsent') = Cardinality(unsent) - 1
    BY <1>7, RowFinished DEF RequestFails, Request
  <2>2. QED BY <1>1, <2>1 DEF StepsLeft
<1>8. CASE AnswerLost \/ MarkOperationAsSynced
  <2>1. /\ syncAt \in {"sending", "applied"} /\ unsent # {} /\ syncAt' = "sending"
        /\ Cardinality(unsent') = Cardinality(unsent) - 1
    BY <1>2, <1>8, RowFinished DEF AnswerLost, Request, MarkOperationAsSynced
  <2>2. QED BY <1>1, <2>1 DEF StepsLeft
<1>9. CASE ClearQueue
  BY <1>1, <1>9 DEF ClearQueue, EndSync, StepsLeft
<1>10. QED BY <1>4, <1>5, <1>6, <1>7, <1>8, <1>9 DEF SyncStep

\* A sync of n rows is over after 2n + 2 steps at most, whatever fails and whatever is
\* queued meanwhile: with the fairness of its steps this is why every sync ends.
THEOREM SyncsAreShort == QueueSpec => SyncsShrink
<1>1. QInv /\ [QueueNext]_queueVars
        => [isSyncing => StepsLeft' < StepsLeft \/ UNCHANGED sync]_queueVars
  <2> SUFFICES ASSUME QInv, QueueNext, isSyncing PROVE StepsLeft' < StepsLeft \/ UNCHANGED sync
    OBVIOUS
  <2>1. CASE SyncStep
    BY <2>1, SyncStepShrinks
  <2>2. CASE Kill
    <3>1. /\ syncAt \in {"reading", "sending", "applied"}
          /\ syncAt = "applied" => unsent # {}
      BY DEF QInv, SyncShape, QueueTypes
    <3>2. /\ Cardinality(unsent) \in Nat /\ Cardinality(Ops) \in Nat
          /\ unsent # {} => Cardinality(unsent) > 0
      BY SnapshotCounted, FS_EmptySet DEF QInv, QueueTypes
    <3>3. StepsLeft' = 0
      BY <2>2 DEF Kill, StepsLeft
    <3>4. StepsLeft \in Nat \ {0}
      BY <3>1, <3>2 DEF StepsLeft
    <3>5. QED BY <3>3, <3>4
  <2>3. ASSUME NEW o \in Ops, ChangeLocally(o) \/ AddToQueue(o) \/ LateApplies(o)
        PROVE  UNCHANGED sync
    BY <2>3 DEF ChangeLocally, AddToQueue, LateApplies
  <2>4. ASSUME NEW h \in Hooks, HookStep(h) \/ Mount(h) \/ Unmount(h) PROVE UNCHANGED sync
    BY <2>4 DEF HookStep, CheckStatus, RunEffect, Mount, Unmount
  <2>5. CASE ManualSync \/ Connected \/ Disconnected
    BY <2>5 DEF ManualSync, StartSync, Connected, Disconnected
  <2>6. QED BY <2>1, <2>2, <2>3, <2>4, <2>5 DEF QueueNext
<1>2. QED BY <1>1, QInvHolds, PTL DEF QueueSpec, SyncsShrink

\* The queue that nobody sends, which a run finds, reaches beyond its instance: for any
\* operations and hooks, what is queued when no hook counts it is sent by no change of the
\* connection and by no button, only after another screen has been mounted.  What the
\* server does meanwhile is to apply requests that were given up before.
THEOREM OnlyMountingNotices == QueueSpec => UnnoticedUntilMount
<1> DEFINE Unsent == \A o \in Ops : applied'[o] + late'[o] <= applied[o] + late[o]
<1>1. QInv /\ [QueueNext]_queueVars
        => [Unnoticed /\ mounted' \subseteq mounted => Unnoticed' /\ Unsent]_queueVars
  <2> SUFFICES ASSUME QInv, QueueNext, Unnoticed, mounted' \subseteq mounted
               PROVE  Unnoticed' /\ Unsent
    OBVIOUS
  <2>1. syncAt = "idle"
    BY DEF Unnoticed, QInv, SyncShape
  <2>2. ~SyncStep
    BY <2>1 DEF SyncStep, GetQueue, NothingToSync, ServerApplies, RequestFails, Request,
                AnswerLost, MarkOperationAsSynced, ClearQueue
  <2>3. UNCHANGED <<applied, late>> => Unsent
    BY DEF QInv, QueueTypes
  <2>4. CASE Kill
    BY <2>1, <2>3, <2>4 DEF Kill, Request, Unnoticed
  <2>5. ASSUME NEW o \in Ops, ChangeLocally(o) \/ AddToQueue(o)
        PROVE  Unnoticed' /\ Unsent
    BY <2>3, <2>5 DEF ChangeLocally, AddToQueue, Unnoticed, sync, hooks, outcome
  <2>6. ASSUME NEW o \in Ops, LateApplies(o)
        PROVE  Unnoticed' /\ Unsent
    <3>1. Unnoticed'
      BY <2>6 DEF LateApplies, Unnoticed, sync, hooks
    <3>2. ASSUME NEW p \in Ops PROVE applied'[p] + late'[p] <= applied[p] + late[p]
      BY <2>6 DEF LateApplies, QInv, QueueTypes
    <3>3. QED BY <3>1, <3>2
  <2>7. ASSUME NEW h \in Hooks, Unmount(h)
        PROVE  Unnoticed' /\ Unsent
    BY <2>3, <2>7 DEF Unmount, Unnoticed, sync, outcome, QInv, QueueTypes
  <2>8. ASSUME NEW h \in Hooks, CheckStatus(h)
        PROVE  Unnoticed' /\ Unsent
    <3>1. h \notin mounted
      BY <2>8 DEF CheckStatus, Unnoticed
    <3>2. UNCHANGED <<mounted, isSyncing, closureCount, applied, late>>
      BY <2>8 DEF CheckStatus, sync, outcome
    <3>3. \A k \in mounted : pendingCount'[k] = pendingCount[k] /\ checking'[k] = checking[k]
      BY <2>8, <3>1 DEF CheckStatus, QInv, QueueTypes
    <3>4. Unnoticed'
      BY <3>2, <3>3 DEF Unnoticed
    <3>5. QED BY <2>3, <3>2, <3>4
  <2>9. ASSUME NEW h \in Hooks PROVE ~RunEffect(h) /\ ~Mount(h)
    BY DEF RunEffect, Mount, Unnoticed
  <2>10. ~ManualSync
    BY DEF ManualSync, Unnoticed, QInv, QueueTypes
  <2>11. CASE Connected \/ Disconnected
    BY <2>3, <2>11 DEF Connected, Disconnected, Unnoticed, QInv, QueueTypes, sync, hooks, outcome
  <2>12. QED
    BY <2>2, <2>4, <2>5, <2>6, <2>7, <2>8, <2>9, <2>10, <2>11 DEF QueueNext, HookStep
<1>2. QED BY <1>1, QInvHolds, PTL DEF QueueSpec, UnnoticedUntilMount

\* The two queues of one run are the two queues.
THEOREM QueuesAreBoth == QueuesSpec => Spec /\ QueueSpec
<1>1. QueuesInit => Init /\ QueueInit
  BY DEF QueuesInit
<1>2. [QueuesNext]_queuesVars => [Next]_vars /\ [QueueNext]_queueVars
  BY DEF QueuesNext, queuesVars
<1>3. QED BY <1>1, <1>2, PTL DEF QueuesSpec, Spec, QueueSpec
=============================================================================
