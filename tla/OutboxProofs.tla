---------------------------- MODULE OutboxProofs ----------------------------
(***************************************************************************)
(* Proofs about Outbox for every number of events, replicas, lost batches  *)
(* and every batch size.                                                   *)
(***************************************************************************)
EXTENDS Outbox, FiniteSetTheorems, TLAPS

-----------------------------------------------------------------------------
(* Types. *)

\* The entity's rules and the column-wise write map rows to rows.
LEMMA RowOperations ==
    ASSUME NEW r \in Row, NEW o \in Row, NEW c \in Row
    PROVE  /\ MarkAsProcessed(r) \in Row
           /\ Merged(r, o, c) \in Row
           /\ \A text \in ErrorTexts :
                 /\ MarkAsDeadLetter(r, text) \in Row
                 /\ r.retry < MaxRetry => MarkAsFailed(r, text) \in Row
                 /\ r.retry < MaxRetry => PublishFailed(r, text) \in Row
<1> USE DEF Row, MaxRetry
<1>1. MarkAsProcessed(r) \in Row
  BY DEF MarkAsProcessed
<1>2. Merged(r, o, c) \in Row
  BY DEF Merged, Column
<1>3. ASSUME NEW text \in ErrorTexts
      PROVE  /\ MarkAsDeadLetter(r, text) \in Row
             /\ r.retry < MaxRetry => MarkAsFailed(r, text) \in Row
             /\ r.retry < MaxRetry => PublishFailed(r, text) \in Row
  <2>1. MarkAsDeadLetter(r, text) \in Row
    BY DEF MarkAsDeadLetter
  <2>2. r.retry < MaxRetry => MarkAsFailed(r, text) \in Row
    BY DEF MarkAsFailed
  <2>3. r.retry < MaxRetry => PublishFailed(r, text) \in Row
    BY DEF PublishFailed, Counted, MarkAsFailed, MarkAsDeadLetter
  <2>4. QED BY <2>1, <2>2, <2>3
<1>4. QED BY <1>1, <1>2, <1>3

LEMMA FreshRowIsRow == FreshRow \in Row
BY DEF FreshRow, Row, MaxRetry

LEMMA TypedInit == Init => Typed
<1> SUFFICES ASSUME Init PROVE TypeOK /\ Loaded
  BY DEF Typed
<1>1. TypeOK
  BY FreshRowIsRow, OutboxAssumption DEF Init, TypeOK, Stage
<1>2. Loaded
  BY DEF Init, Loaded
<1>3. QED BY <1>1, <1>2

LEMMA TypedNext == Typed /\ [Next]_vars => Typed'
<1> SUFFICES ASSUME Typed, [Next]_vars PROVE Typed'
  OBVIOUS
<1> USE DEF Typed
<1>1. ASSUME NEW m \in Event, AddEvent(m) PROVE Typed'
  BY <1>1 DEF AddEvent, TypeOK, Loaded, Stage, work, history
<1>2. ASSUME NEW m \in Event, BackoffElapses(m) PROVE Typed'
  <2>1. DueAgain(row[m]) \in Row
    BY DEF TypeOK, DueAgain, Row
  <2>3. row' \in [Event -> Row]
    BY <1>2, <2>1 DEF BackoffElapses, TypeOK
  <2>2. QED BY <1>2, <2>3 DEF BackoffElapses, TypeOK, Loaded, work, history
<1>3. CASE CleanupProcessedMessages
  BY <1>3 DEF CleanupProcessedMessages, TypeOK, Loaded, Stage, work, history
<1>4. ASSUME NEW p \in Processors, PollReady(p) PROVE Typed'
  <2>1. Ready \subseteq Event
    BY DEF Ready, Oldest, Stored
  <2> DEFINE loaded == [m \in Event |-> IF m \in Ready THEN row[m] ELSE FreshRow]
  <2>2. loaded \in [Event -> Row]
    BY FreshRowIsRow DEF TypeOK
  <2>3. orig' = [orig EXCEPT ![p] = loaded] /\ copy' = [copy EXCEPT ![p] = loaded]
    BY <1>4 DEF PollReady
  <2>4. TypeOK'
    <3> HIDE DEF loaded
    <3> QED BY <1>4, <2>1, <2>2, <2>3 DEF PollReady, TypeOK, table, history
  <2>5. Loaded'
    <3> SUFFICES ASSUME NEW q \in Processors, NEW m \in Event
                 PROVE  /\ m \in todo'[q] => copy'[q][m] = orig'[q][m]
                        /\ m \in batch'[q] => /\ stage'[m] # "unborn"
                                              /\ ~orig'[q][m].processed /\ CanRetry(orig'[q][m])
                        /\ m \notin batch'[q] =>
                              copy'[q][m] = FreshRow /\ orig'[q][m] = FreshRow
      BY DEF Loaded
    <3>1. CASE q = p
      BY <3>1, <1>4, <2>1, <2>3 DEF PollReady, TypeOK, Ready, Oldest, Stored, table
    <3>2. CASE q # p
      BY <3>2, <1>4, <2>3 DEF PollReady, TypeOK, Loaded, table
    <3>3. QED BY <3>1, <3>2
  <2>6. QED BY <2>4, <2>5
<1>5. ASSUME NEW p \in Processors, PollNothing(p) PROVE Typed'
  BY <1>5 DEF PollNothing, TypeOK, Loaded, vars
<1>6. ASSUME NEW p \in Processors, NEW m \in Event, NEW c \in Row,
             m \in todo[p],
             copy' = [copy EXCEPT ![p][m] = c],
             todo' = [todo EXCEPT ![p] = @ \ {m}],
             UNCHANGED <<table, batch, orig, abandoned>>,
             delivered' \in [Event -> Nat],
             failures' \in [Event -> Nat],
             unrecorded' \in [Event -> Nat]
      PROVE  Typed'
  <2>1. TypeOK'
    BY <1>6 DEF TypeOK, table
  <2>2. Loaded'
    BY <1>6 DEF Loaded, TypeOK, table
  <2>3. QED BY <2>1, <2>2
<1>7. ASSUME NEW p \in Processors, NEW m \in Event, m \in todo[p]
      PROVE  /\ copy[p][m] \in Row /\ copy[p][m].retry < MaxRetry
  BY <1>7 DEF TypeOK, Loaded, CanRetry
<1>8. ASSUME NEW p \in Processors, NEW m \in Event, Unresolved(p, m) PROVE Typed'
  <2>1. m \in todo[p]
    BY <1>8 DEF Unresolved, Reaches
  <2>2. PICK text \in ErrorTexts :
           copy' = [copy EXCEPT ![p][m] = MarkAsFailed(copy[p][m], text)]
    BY <1>8 DEF Unresolved, TypeOK
  <2>3. MarkAsFailed(copy[p][m], text) \in Row
    BY <1>7, <2>1, RowOperations
  <2>4. QED
    BY <1>6, <1>8, <2>1, <2>2, <2>3 DEF Unresolved, TypeOK, table, history
<1>9. ASSUME NEW p \in Processors, NEW m \in Event, PublishSucceeds(p, m) PROVE Typed'
  <2>1. m \in todo[p]
    BY <1>9 DEF PublishSucceeds, Reaches
  <2>2. copy' = [copy EXCEPT ![p][m] = MarkAsProcessed(copy[p][m])]
    BY <1>9 DEF PublishSucceeds, TypeOK
  <2>3. MarkAsProcessed(copy[p][m]) \in Row
    BY <1>7, <2>1, RowOperations
  <2>4. delivered' \in [Event -> Nat]
    BY <1>9 DEF PublishSucceeds, TypeOK
  <2>5. QED
    BY <1>6, <1>9, <2>1, <2>2, <2>3, <2>4 DEF PublishSucceeds, TypeOK, table
<1>10. ASSUME NEW p \in Processors, NEW m \in Event, PublishRaises(p, m) PROVE Typed'
  <2>1. m \in todo[p]
    BY <1>10 DEF PublishRaises, Reaches
  <2>2. PICK text \in ErrorTexts :
           copy' = [copy EXCEPT ![p][m] = PublishFailed(copy[p][m], text)]
    BY <1>10 DEF PublishRaises, TypeOK
  <2>3. PublishFailed(copy[p][m], text) \in Row
    BY <1>7, <2>1, RowOperations
  <2>4. /\ delivered' \in [Event -> Nat]
        /\ failures' \in [Event -> Nat]
        /\ unrecorded' \in [Event -> Nat]
    BY <1>10 DEF PublishRaises, TypeOK
  <2>5. QED
    BY <1>6, <1>10, <2>1, <2>2, <2>3, <2>4 DEF PublishRaises, TypeOK, table
<1>11. ASSUME NEW p \in Processors, ForgetBatch(p), row' \in [Event -> Row],
              stage' = stage, abandoned' \in 0 .. MaxAbandon,
              delivered' = delivered, failures' = failures,
              unrecorded' \in [Event -> Nat]
       PROVE  Typed'
  <2>1. TypeOK'
    BY <1>11, FreshRowIsRow DEF ForgetBatch, TypeOK
  <2>2. Loaded'
    BY <1>11 DEF ForgetBatch, Loaded, TypeOK
  <2>3. QED BY <2>1, <2>2
<1>12. ASSUME NEW p \in Processors, SaveChanges(p) PROVE Typed'
  <2>1. ASSUME NEW m \in Event PROVE Merged(row[m], orig[p][m], copy[p][m]) \in Row
    BY DEF TypeOK, Merged, Column, Row
  <2>2. row' \in [Event -> Row]
    BY <1>12, <2>1 DEF SaveChanges, TypeOK
  <2>3. QED BY <1>11, <1>12, <2>2 DEF SaveChanges, TypeOK, history
<1>13. ASSUME NEW p \in Processors, LoseBatch(p), abandoned' \in 0 .. MaxAbandon
       PROVE  Typed'
  <2>1. unrecorded' \in [Event -> Nat]
    BY <1>13 DEF LoseBatch, TypeOK
  <2>2. QED BY <1>11, <1>13, <2>1 DEF LoseBatch, TypeOK, table
<1>14. ASSUME NEW p \in Processors, SaveRejected(p) PROVE Typed'
  BY <1>13, <1>14 DEF SaveRejected, TypeOK
<1>15. ASSUME NEW p \in Processors, Abandon(p) PROVE Typed'
  <2>1. abandoned' \in 0 .. MaxAbandon
    BY <1>15, OutboxAssumption DEF Abandon, TypeOK
  <2>2. QED BY <1>13, <1>15, <2>1 DEF Abandon
<1>16. CASE UNCHANGED vars
  BY <1>16 DEF vars, TypeOK, Loaded
<1>17. QED
  BY <1>1, <1>2, <1>3, <1>4, <1>5, <1>8, <1>9, <1>10, <1>12, <1>14, <1>15, <1>16
     DEF Next, Replica

\* Type correctness of the outbox, for every instance.
THEOREM TypeCorrect == Spec => []TypeOK
<1>1. Typed => TypeOK
  BY DEF Typed
<1>2. QED BY <1>1, TypedInit, TypedNext, PTL DEF Spec
-----------------------------------------------------------------------------
(* The inductive invariant. *)

\* What a row says stays true when its event is delivered or refused again.
LEMMA JustifiedGrows ==
    ASSUME NEW r \in Row, NEW c \in Row, NEW ok \in BOOLEAN,
           NEW d \in Nat, NEW f \in Nat, NEW e \in Nat, NEW g \in Nat,
           d <= e, f <= g
    PROVE  /\ Justified(r, ok, d, f) => Justified(r, ok, e, g)
           /\ Tracked(r, c, ok, d, f) => Tracked(r, c, ok, e, g)
           /\ Cleared(r, c, d) => Cleared(r, c, e)
<1>1. Justified(r, ok, d, f) => Justified(r, ok, e, g)
  BY DEF Justified, Row, MaxRetry, MinAttempts
<1>2. Tracked(r, c, ok, d, f) => Tracked(r, c, ok, e, g)
  <2>1. r.retry \in Nat
    BY DEF Row, MaxRetry
  <2>2. r.retry + 2 <= 2 * f => r.retry + 2 <= 2 * g
    BY <2>1
  <2>3. d > 0 => e > 0
    OBVIOUS
  <2>4. QED BY <2>2, <2>3 DEF Tracked
<1>3. Cleared(r, c, d) => Cleared(r, c, e)
  BY DEF Cleared
<1>4. QED BY <1>1, <1>2, <1>3

\* Writing the changed columns of a justified copy over a justified row, which
\* other replicas may have changed since the copy was loaded, leaves it justified.
LEMMA MergeJustified ==
    ASSUME NEW r \in Row, NEW o \in Row, NEW c \in Row, NEW ok \in BOOLEAN,
           NEW d \in Nat, NEW f \in Nat,
           Justified(r, ok, d, f), Justified(o, ok, d, f),
           Tracked(o, c, ok, d, f), Cleared(o, r, d),
           ~o.processed, CanRetry(o)
    PROVE  /\ Justified(Merged(r, o, c), ok, d, f)
           /\ r.error # NoError /\ Merged(r, o, c).error = NoError => d > 0
<1> DEFINE n == Merged(r, o, c)
<1>1. CASE c = o
  BY <1>1 DEF Merged, Column, Justified, Row
<1>2. CASE ok /\ d > 0 /\ c = MarkAsProcessed(o)
  BY <1>2 DEF Merged, Column, Justified, MarkAsProcessed, Row, MaxRetry
<1>3. ASSUME NEW text \in ErrorTexts, ~ok, c = MarkAsFailed(o, text)
      PROVE  /\ Justified(n, ok, d, f)
             /\ r.error # NoError /\ n.error = NoError => d > 0
  BY <1>3, OutboxAssumption DEF Merged, Column, Justified, MarkAsFailed, Cleared, Row, MaxRetry
<1>4. ASSUME NEW text \in ErrorTexts, ok, o.retry + 2 <= 2 * f, c = PublishFailed(o, text)
      PROVE  /\ Justified(n, ok, d, f)
             /\ r.error # NoError /\ n.error = NoError => d > 0
  <2>1. o.retry \in 0 .. 4 /\ ~o.waiting
    BY DEF CanRetry, Row, MaxRetry
  <2>2. text # NoError
    BY OutboxAssumption
  <2>3. CASE o.retry = 4
    <3>1. c = [processed |-> TRUE, error |-> text, retry |-> 5, waiting |-> o.waiting]
      BY <1>4, <2>3 DEF PublishFailed, Counted, MarkAsDeadLetter, Row, MaxRetry
    <3>2. f >= 3
      BY <1>4, <2>3
    <3>3. /\ n.processed = IF TRUE # o.processed THEN TRUE ELSE r.processed
          /\ n.error = IF text # o.error THEN text ELSE r.error
          /\ n.retry = IF 5 # o.retry THEN 5 ELSE r.retry
      BY <3>1 DEF Merged, Column
    <3>4. n.error = NoError => o.error # NoError /\ r.error = NoError
      BY <2>2, <3>3
    <3>5. n.retry = 5
      BY <2>3, <3>3
    <3>6. n.error = NoError => d > 0
      BY <3>4 DEF Cleared
    <3>7. QED
      BY <1>4, <3>2, <3>5, <3>6 DEF Justified, MinAttempts
  <2>4. CASE o.retry < 4
    <3>0. ~(Counted(o).retry >= MaxRetry) /\ Counted(o).retry + 1 = o.retry + 2
      BY <2>1, <2>4 DEF Counted, MaxRetry
    <3>1. c = [processed |-> o.processed, error |-> text,
               retry |-> o.retry + 2, waiting |-> TRUE]
      BY <1>4, <3>0 DEF PublishFailed, Counted, MarkAsFailed
    <3>2. /\ n.processed = r.processed
          /\ n.error = IF text # o.error THEN text ELSE r.error
          /\ n.retry = o.retry + 2
      BY <2>1, <2>4, <3>1 DEF Merged, Column
    <3>3. n.error = NoError => o.error # NoError /\ r.error = NoError
      BY <2>2, <3>2
    <3>4. QED
      BY <1>4, <3>2, <3>3 DEF Justified, Cleared, MinAttempts
  <2>5. QED BY <2>1, <2>3, <2>4
<1>5. QED BY <1>1, <1>2, <1>3, <1>4 DEF Tracked

\* Deliveries and refusals are only ever counted up.
LEMMA HistoryGrows ==
    ASSUME Typed, [Next]_vars
    PROVE  \A m \in Event : /\ delivered[m] \in Nat /\ delivered'[m] \in Nat
                            /\ failures[m] \in Nat /\ failures'[m] \in Nat
                            /\ delivered[m] <= delivered'[m]
                            /\ failures[m] <= failures'[m]
<1>1. Typed'
  BY TypedNext
<1>2. ASSUME NEW p \in Processors, NEW k \in Event, PublishSucceeds(p, k)
      PROVE  \A m \in Event : delivered[m] <= delivered'[m] /\ failures[m] <= failures'[m]
  BY <1>2 DEF PublishSucceeds, Typed, TypeOK
<1>3. ASSUME NEW p \in Processors, NEW k \in Event, PublishRaises(p, k)
      PROVE  \A m \in Event : delivered[m] <= delivered'[m] /\ failures[m] <= failures'[m]
  <2>1. PICK arrived \in {0, 1} : delivered' = [delivered EXCEPT ![k] = @ + arrived]
    BY <1>3 DEF PublishRaises
  <2>2. QED BY <1>3, <2>1 DEF PublishRaises, Typed, TypeOK
<1>4. CASE UNCHANGED <<delivered, failures>>
  BY <1>4 DEF Typed, TypeOK
<1>5. \A m \in Event : delivered[m] <= delivered'[m] /\ failures[m] <= failures'[m]
  BY <1>2, <1>3, <1>4
     DEF Next, Replica, AddEvent, BackoffElapses, CleanupProcessedMessages, PollReady,
         PollNothing, Unresolved, SaveChanges, SaveRejected, Abandon, LoseBatch,
         history, vars
<1>6. QED BY <1>1, <1>5 DEF Typed, TypeOK

LEMMA FreshJustified ==
    ASSUME NEW ok \in BOOLEAN, NEW d \in Nat, NEW f \in Nat
    PROVE  Justified(FreshRow, ok, d, f)
BY DEF Justified, FreshRow

LEMMA IInvInit == Init => IInv
<1> SUFFICES ASSUME Init PROVE IInv
  OBVIOUS
<1>1. Typed
  BY TypedInit
<1>2. ASSUME NEW m \in Event
      PROVE  Justified(FreshRow, m \in Resolvable, delivered[m], failures[m])
  <2>1. delivered[m] \in Nat /\ failures[m] \in Nat /\ (m \in Resolvable) \in BOOLEAN
    BY DEF Init
  <2>2. QED BY <2>1, FreshJustified
<1>3. JustifiedRows
  BY <1>2 DEF JustifiedRows, Init
<1>4. JustifiedCopies
  BY <1>2 DEF JustifiedCopies, Tracked, Cleared, Init, FreshRow
<1>5. QED BY <1>1, <1>3, <1>4 DEF IInv

LEMMA IInvNext == IInv /\ [Next]_vars => IInv'
<1> SUFFICES ASSUME IInv, [Next]_vars PROVE IInv'
  OBVIOUS
<1>1. Typed /\ Typed' /\ JustifiedRows /\ JustifiedCopies
  BY TypedNext DEF IInv
<1>2. \A m \in Event : /\ delivered[m] \in Nat /\ delivered'[m] \in Nat
                       /\ failures[m] \in Nat /\ failures'[m] \in Nat
                       /\ delivered[m] <= delivered'[m]
                       /\ failures[m] <= failures'[m]
  BY <1>1, HistoryGrows
<1> DEFINE J(r, m) == Justified(r, m \in Resolvable, delivered'[m], failures'[m])
           T(o, c, m) == Tracked(o, c, m \in Resolvable, delivered'[m], failures'[m])
           C(o, r, m) == Cleared(o, r, delivered'[m])
\* What held of the rows and copies before the step holds with the new history.
<1>3. ASSUME NEW p \in Processors, NEW m \in Event
      PROVE  /\ J(row[m], m) /\ J(orig[p][m], m)
             /\ T(orig[p][m], copy[p][m], m) /\ C(orig[p][m], row[m], m)
  <2>1. row[m] \in Row /\ orig[p][m] \in Row /\ copy[p][m] \in Row
    BY <1>1 DEF Typed, TypeOK
  <2>2. /\ Justified(row[m], m \in Resolvable, delivered[m], failures[m])
        /\ Justified(orig[p][m], m \in Resolvable, delivered[m], failures[m])
        /\ Tracked(orig[p][m], copy[p][m], m \in Resolvable, delivered[m], failures[m])
        /\ Cleared(orig[p][m], row[m], delivered[m])
    BY <1>1 DEF JustifiedRows, JustifiedCopies
  <2>3. (m \in Resolvable) \in BOOLEAN
    OBVIOUS
  <2>4. J(row[m], m)
    BY <1>2, <2>1, <2>2, <2>3, JustifiedGrows
  <2>5. J(orig[p][m], m) /\ T(orig[p][m], copy[p][m], m) /\ C(orig[p][m], row[m], m)
    BY <1>2, <2>1, <2>2, <2>3, JustifiedGrows
  <2>6. QED BY <2>4, <2>5
<1>4. ASSUME NEW m \in Event PROVE J(row[m], m) /\ J(FreshRow, m)
  <2>1. row[m] \in Row /\ (m \in Resolvable) \in BOOLEAN
    BY <1>1 DEF Typed, TypeOK
  <2>2. Justified(row[m], m \in Resolvable, delivered[m], failures[m])
    BY <1>1 DEF JustifiedRows
  <2>3. QED BY <1>2, <2>1, <2>2, JustifiedGrows, FreshJustified
<1>5. SUFFICES
         /\ \A m \in Event : J(row'[m], m)
         /\ \A p \in Processors, m \in Event :
               /\ J(orig'[p][m], m)
               /\ T(orig'[p][m], copy'[p][m], m)
               /\ C(orig'[p][m], row'[m], m)
  <2>1. ASSUME \A m \in Event : J(row'[m], m) PROVE JustifiedRows'
    BY <2>1 DEF JustifiedRows
  <2>2. ASSUME \A p \in Processors, m \in Event :
                  /\ J(orig'[p][m], m)
                  /\ T(orig'[p][m], copy'[p][m], m)
                  /\ C(orig'[p][m], row'[m], m)
        PROVE  JustifiedCopies'
    BY <2>2 DEF JustifiedCopies
  <2>3. QED BY <1>1, <2>1, <2>2 DEF IInv
<1> HIDE DEF J, T, C
<1> DEFINE Goal ==
      /\ \A m \in Event : J(row'[m], m)
      /\ \A p \in Processors, m \in Event :
            /\ J(orig'[p][m], m)
            /\ T(orig'[p][m], copy'[p][m], m)
            /\ C(orig'[p][m], row'[m], m)
<1>6. CASE UNCHANGED <<row, orig, copy>>
  BY <1>3, <1>4, <1>6
<1>7. ASSUME NEW k \in Event, BackoffElapses(k) PROVE Goal
  <2>1. \A m \in Event : row'[m] = row[m] \/ row'[m] = DueAgain(row[m])
    BY <1>1, <1>7 DEF BackoffElapses, Typed, TypeOK
  <2>2. ASSUME NEW m \in Event PROVE J(row'[m], m)
    <3>1. J(DueAgain(row[m]), m)
      BY <1>4 DEF J, Justified, DueAgain
    <3>2. QED BY <1>4, <2>1, <3>1
  <2>3. ASSUME NEW p \in Processors, NEW m \in Event PROVE C(orig[p][m], row'[m], m)
    <3>1. C(orig[p][m], DueAgain(row[m]), m)
      BY <1>3 DEF C, Cleared, DueAgain
    <3>2. QED BY <1>3, <2>1, <3>1
  <2>4. UNCHANGED <<orig, copy>>
    BY <1>7 DEF BackoffElapses, work
  <2>5. QED BY <1>3, <2>2, <2>3, <2>4
<1>8. ASSUME NEW p \in Processors, NEW loaded \in [Event -> Row],
             \A m \in Event : loaded[m] = row[m] \/ loaded[m] = FreshRow,
             orig' = [orig EXCEPT ![p] = loaded], copy' = [copy EXCEPT ![p] = loaded],
             row' = row
      PROVE  Goal
  <2>1. ASSUME NEW q \in Processors, NEW m \in Event
        PROVE  /\ J(orig'[q][m], m)
               /\ T(orig'[q][m], copy'[q][m], m)
               /\ C(orig'[q][m], row'[m], m)
    <3>1. CASE q = p
      <4>1. orig'[q][m] = loaded[m] /\ copy'[q][m] = loaded[m]
        BY <1>1, <1>8, <3>1 DEF Typed, TypeOK
      <4>2. J(loaded[m], m)
        BY <1>4, <1>8
      <4>3. T(loaded[m], loaded[m], m)
        BY DEF T, Tracked
      <4>4. C(loaded[m], row[m], m)
        BY <1>8 DEF C, Cleared, FreshRow
      <4>5. QED BY <1>8, <4>1, <4>2, <4>3, <4>4
    <3>2. CASE q # p
      BY <1>1, <1>3, <1>8, <3>2 DEF Typed, TypeOK
    <3>3. QED BY <3>1, <3>2
  <2>2. QED BY <1>4, <1>8, <2>1
<1>9. ASSUME NEW p \in Processors, PollReady(p) PROVE Goal
  <2> DEFINE loaded == [m \in Event |-> IF m \in Ready THEN row[m] ELSE FreshRow]
  <2>1. loaded \in [Event -> Row]
    BY <1>1, FreshRowIsRow DEF Typed, TypeOK
  <2>2. \A m \in Event : loaded[m] = row[m] \/ loaded[m] = FreshRow
    OBVIOUS
  <2>3. /\ orig' = [orig EXCEPT ![p] = loaded]
        /\ copy' = [copy EXCEPT ![p] = loaded]
        /\ row' = row
    BY <1>9 DEF PollReady, table
  <2> HIDE DEF loaded
  <2>4. QED BY <1>8, <2>1, <2>2, <2>3
<1>10. ASSUME NEW p \in Processors, ForgetBatch(p), row' = row PROVE Goal
  <2> DEFINE loaded == [m \in Event |-> FreshRow]
  <2>1. loaded \in [Event -> Row]
    BY FreshRowIsRow
  <2>2. orig' = [orig EXCEPT ![p] = loaded] /\ copy' = [copy EXCEPT ![p] = loaded]
    BY <1>10 DEF ForgetBatch
  <2>3. \A m \in Event : loaded[m] = row[m] \/ loaded[m] = FreshRow
    OBVIOUS
  <2> HIDE DEF loaded
  <2>4. QED BY <1>8, <1>10, <2>1, <2>2, <2>3
<1>11. ASSUME NEW p \in Processors, NEW k \in Event, NEW c,
              copy' = [copy EXCEPT ![p][k] = c],
              row' = row, orig' = orig,
              T(orig[p][k], c, k)
       PROVE  Goal
  <2>1. ASSUME NEW q \in Processors, NEW m \in Event
        PROVE  copy'[q][m] = IF q = p /\ m = k THEN c ELSE copy[q][m]
    BY <1>1, <1>11 DEF Typed, TypeOK
  <2>2. QED BY <1>3, <1>4, <1>11, <2>1
<1>12. ASSUME NEW p \in Processors, NEW k \in Event, Unresolved(p, k) PROVE Goal
  <2>1. copy[p][k] = orig[p][k]
    BY <1>1, <1>12 DEF Unresolved, Reaches, Typed, Loaded
  <2>2. PICK text \in ErrorTexts :
           copy' = [copy EXCEPT ![p][k] = MarkAsFailed(orig[p][k], text)]
    BY <1>1, <1>12, <2>1 DEF Unresolved, Typed, TypeOK
  <2>3. T(orig[p][k], MarkAsFailed(orig[p][k], text), k)
    BY <1>12 DEF T, Tracked, Unresolved
  <2>4. QED BY <1>11, <1>12, <2>2, <2>3 DEF Unresolved, table
<1>13. ASSUME NEW p \in Processors, NEW k \in Event, PublishSucceeds(p, k) PROVE Goal
  <2>1. copy[p][k] = orig[p][k]
    BY <1>1, <1>13 DEF PublishSucceeds, Reaches, Typed, Loaded
  <2>2. copy' = [copy EXCEPT ![p][k] = MarkAsProcessed(orig[p][k])]
    BY <1>1, <1>13, <2>1 DEF PublishSucceeds, Typed, TypeOK
  <2>3. delivered'[k] > 0
    BY <1>1, <1>2, <1>13 DEF PublishSucceeds, Typed, TypeOK
  <2>4. T(orig[p][k], MarkAsProcessed(orig[p][k]), k)
    BY <1>13, <2>3 DEF T, Tracked, PublishSucceeds
  <2>5. QED BY <1>11, <1>13, <2>2, <2>4 DEF PublishSucceeds, table
<1>14. ASSUME NEW p \in Processors, NEW k \in Event, PublishRaises(p, k) PROVE Goal
  <2>1. copy[p][k] = orig[p][k]
    BY <1>1, <1>14 DEF PublishRaises, Reaches, Typed, Loaded
  <2>2. PICK text \in ErrorTexts :
           copy' = [copy EXCEPT ![p][k] = PublishFailed(orig[p][k], text)]
    BY <1>1, <1>14, <2>1 DEF PublishRaises, Typed, TypeOK
  <2>3. orig[p][k].retry + 2 <= 2 * failures'[k]
    <3>1. Justified(orig[p][k], k \in Resolvable, delivered[k], failures[k])
      BY <1>1 DEF JustifiedCopies
    <3>2. orig[p][k].retry <= 2 * failures[k]
      BY <1>14, <3>1 DEF Justified, PublishRaises
    <3>3. orig[p][k].retry \in Nat
      <4>1. orig[p][k] \in Row
        BY <1>1 DEF Typed, TypeOK
      <4>2. QED BY <4>1 DEF Row, MaxRetry
    <3>4. failures[k] \in Nat /\ failures'[k] = failures[k] + 1
      BY <1>1, <1>14 DEF PublishRaises, Typed, TypeOK
    <3>5. QED BY <3>2, <3>3, <3>4
  <2>4. T(orig[p][k], PublishFailed(orig[p][k], text), k)
    BY <1>14, <2>3 DEF T, Tracked, PublishRaises
  <2>5. QED BY <1>11, <1>14, <2>2, <2>4 DEF PublishRaises, table
<1>15. ASSUME NEW p \in Processors, SaveChanges(p) PROVE Goal
  <2>1. /\ orig' = [orig EXCEPT ![p] = [m \in Event |-> FreshRow]]
        /\ copy' = [copy EXCEPT ![p] = [m \in Event |-> FreshRow]]
        /\ UNCHANGED <<delivered, failures>>
    BY <1>15 DEF SaveChanges, ForgetBatch, history
  <2>2. ASSUME NEW m \in Event
        PROVE  /\ J(row'[m], m)
               /\ row[m].error # NoError /\ row'[m].error = NoError => delivered'[m] > 0
    <3>1. CASE m \in batch[p]
      <4>1. row'[m] = Merged(row[m], orig[p][m], copy[p][m])
        BY <1>15, <3>1 DEF SaveChanges
      <4>2. /\ row[m] \in Row /\ orig[p][m] \in Row /\ copy[p][m] \in Row
            /\ ~orig[p][m].processed /\ CanRetry(orig[p][m])
            /\ (m \in Resolvable) \in BOOLEAN
        BY <1>1, <3>1 DEF Typed, TypeOK, Loaded
      <4>3. /\ Justified(row[m], m \in Resolvable, delivered'[m], failures'[m])
            /\ Justified(orig[p][m], m \in Resolvable, delivered'[m], failures'[m])
            /\ Tracked(orig[p][m], copy[p][m], m \in Resolvable, delivered'[m], failures'[m])
            /\ Cleared(orig[p][m], row[m], delivered'[m])
        BY <1>3 DEF J, T, C
      <4>4. delivered'[m] \in Nat /\ failures'[m] \in Nat
        BY <1>2
      <4>5. /\ Justified(Merged(row[m], orig[p][m], copy[p][m]),
                         m \in Resolvable, delivered'[m], failures'[m])
            /\ row[m].error # NoError /\ Merged(row[m], orig[p][m], copy[p][m]).error = NoError
                  => delivered'[m] > 0
        BY <4>2, <4>3, <4>4, MergeJustified
      <4>6. QED BY <4>1, <4>5 DEF J
    <3>2. CASE m \notin batch[p]
      <4>1. row'[m] = row[m]
        BY <1>15, <3>2 DEF SaveChanges
      <4>2. QED BY <1>4, <4>1
    <3>3. QED BY <3>1, <3>2
  <2>3. ASSUME NEW q \in Processors, NEW m \in Event
        PROVE  /\ J(orig'[q][m], m)
               /\ T(orig'[q][m], copy'[q][m], m)
               /\ C(orig'[q][m], row'[m], m)
    <3>1. CASE q = p
      <4>1. orig'[q][m] = FreshRow /\ copy'[q][m] = FreshRow
        BY <1>1, <2>1, <3>1 DEF Typed, TypeOK
      <4>2. T(FreshRow, FreshRow, m) /\ C(FreshRow, row'[m], m)
        BY DEF T, Tracked, C, Cleared, FreshRow
      <4>3. QED BY <1>4, <4>1, <4>2
    <3>2. CASE q # p
      <4>1. orig'[q][m] = orig[q][m] /\ copy'[q][m] = copy[q][m]
        BY <1>1, <2>1, <3>2 DEF Typed, TypeOK
      <4>2. C(orig[q][m], row'[m], m)
        BY <1>3, <2>2 DEF C, Cleared
      <4>3. QED BY <1>3, <4>1, <4>2
    <3>3. QED BY <3>1, <3>2
  <2>4. QED BY <2>2, <2>3
<1>16. ASSUME NEW p \in Processors, SaveRejected(p) \/ Abandon(p) PROVE Goal
  BY <1>10, <1>16 DEF SaveRejected, Abandon, LoseBatch, table
<1>17. QED
  BY <1>6, <1>7, <1>9, <1>12, <1>13, <1>14, <1>15, <1>16
     DEF Next, Replica, AddEvent, CleanupProcessedMessages, PollNothing, work, vars

\* What a row says of its event is justified, for every instance.
THEOREM RowsJustified == Spec => []IInv
BY IInvInit, IInvNext, PTL DEF Spec

\* A row that reads as published was published, for every instance.
THEOREM CleanRows == Spec => []CleanRowsWereDelivered
<1>1. IInv => CleanRowsWereDelivered
  BY DEF IInv, JustifiedRows, Justified, CleanRowsWereDelivered
<1>2. QED BY <1>1, IInvInit, IInvNext, PTL DEF Spec

\* No event is given up before three refused attempts, for every instance.
THEOREM GivenUpLate == Spec => []NothingGivenUpEarly
<1>1. IInv => NothingGivenUpEarly
  BY DEF IInv, JustifiedRows, Justified, NothingGivenUpEarly
<1>2. QED BY <1>1, IInvInit, IInvNext, PTL DEF Spec

-----------------------------------------------------------------------------
(* The refinement. *)

LEMMA OutboxContractInit == Init => Contract!Init
BY DEF Init, Contract!Init, FreshRow

\* Saving a batch settles the rows it turns processed; every other step stores,
\* sends, is refused, or leaves the contract's variables alone.
LEMMA OutboxContractStep == IInv /\ IInv' /\ [Next]_vars => [Contract!Next]_Contract!cvars
<1> SUFFICES ASSUME IInv, IInv', [Next]_vars PROVE [Contract!Next]_Contract!cvars
  OBVIOUS
<1>1. Typed /\ Typed'
  BY DEF IInv
<1> DEFINE accepted == {m \in Event : stage[m] # "unborn"}
           sent == {m \in Event : delivered[m] > 0}
           settled == {m \in Event : row[m].processed}
<1>2. ASSUME accepted' = accepted, sent' = sent, failures' = failures, settled' = settled
      PROVE  UNCHANGED Contract!cvars
  BY <1>2 DEF Contract!cvars
\* Only rows that are stored, or were before a clean-up, are in a batch.
<1>3. ASSUME NEW p \in Processors, NEW m \in batch[p] PROVE m \in accepted
  BY <1>3 DEF IInv, Typed, Loaded, TypeOK
<1>4. ASSUME NEW m \in Event, AddEvent(m) PROVE Contract!Next
  <2>1. accepted' = accepted \union {m}
    BY <1>1, <1>4 DEF AddEvent, Typed, TypeOK
  <2>2. sent' = sent /\ settled' = settled /\ failures' = failures
    BY <1>4 DEF AddEvent, history
  <2>3. Contract!Accept(m)
    BY <2>1, <2>2 DEF Contract!Accept
  <2>4. QED BY <2>3 DEF Contract!Next
<1>5. ASSUME NEW m \in Event, BackoffElapses(m) PROVE UNCHANGED Contract!cvars
  <2>1. settled' = settled
    BY <1>1, <1>5 DEF BackoffElapses, DueAgain, Typed, TypeOK
  <2>2. QED BY <1>2, <1>5, <2>1 DEF BackoffElapses, history
<1>6. CASE CleanupProcessedMessages
  <2>1. accepted' = accepted
    BY <1>6 DEF CleanupProcessedMessages, Stored
  <2>2. QED BY <1>2, <1>6, <2>1 DEF CleanupProcessedMessages, history
<1>7. ASSUME NEW p \in Processors,
             PollReady(p) \/ PollNothing(p) \/ \E m \in Event : Unresolved(p, m)
      PROVE  UNCHANGED Contract!cvars
  BY <1>2, <1>7 DEF PollReady, PollNothing, Unresolved, table, history, vars
<1>8. ASSUME NEW p \in Processors, NEW m \in Event, PublishSucceeds(p, m) PROVE Contract!Next
  <2>1. m \in accepted
    BY <1>1, <1>3, <1>8 DEF PublishSucceeds, Reaches, Typed, TypeOK
  <2>2. sent' = sent \union {m}
    BY <1>1, <1>8 DEF PublishSucceeds, Typed, TypeOK
  <2>3. accepted' = accepted /\ settled' = settled /\ failures' = failures
    BY <1>8 DEF PublishSucceeds, table
  <2>4. Contract!Send(m)
    BY <2>1, <2>2, <2>3 DEF Contract!Send
  <2>5. QED BY <2>4 DEF Contract!Next
<1>9. ASSUME NEW p \in Processors, NEW m \in Event, PublishRaises(p, m) PROVE Contract!Next
  <2>1. m \in accepted
    BY <1>1, <1>3, <1>9 DEF PublishRaises, Reaches, Typed, TypeOK
  <2>2. PICK arrived \in {0, 1} : delivered' = [delivered EXCEPT ![m] = @ + arrived]
    BY <1>9 DEF PublishRaises
  <2>3. sent' \in {sent, sent \union {m}}
    <3>1. CASE arrived = 0
      BY <1>1, <2>2, <3>1 DEF Typed, TypeOK
    <3>2. CASE arrived = 1
      <4>1. sent' = sent \union {m}
        BY <1>1, <2>2, <3>2 DEF Typed, TypeOK
      <4>2. QED BY <4>1
    <3>3. QED BY <2>2, <3>1, <3>2
  <2>4. failures' = [failures EXCEPT ![m] = @ + 1]
    BY <1>9 DEF PublishRaises
  <2>5. accepted' = accepted /\ settled' = settled
    BY <1>9 DEF PublishRaises, table
  <2>6. Contract!Refuse(m)
    BY <2>1, <2>3, <2>4, <2>5 DEF Contract!Refuse
  <2>7. QED BY <2>6 DEF Contract!Next
<1>10. ASSUME NEW p \in Processors, SaveChanges(p) PROVE Contract!Next
  <2> DEFINE S == {m \in batch[p] : row'[m].processed}
  <2>1. S \subseteq accepted /\ S \in SUBSET Event
    BY <1>1, <1>3 DEF Typed, TypeOK
  <2>2. \A m \in S : m \in sent \/ failures[m] >= MinAttempts
    <3>1. delivered' = delivered /\ failures' = failures
      BY <1>10 DEF SaveChanges, history
    <3>2. ASSUME NEW m \in S PROVE delivered'[m] > 0 \/ failures'[m] >= MinAttempts
      BY <2>1, <3>2 DEF IInv, JustifiedRows, Justified
    <3>3. QED BY <2>1, <3>1, <3>2
  <2>3. settled' = settled \union S
    <3>1. ASSUME NEW m \in batch[p], row[m].processed PROVE row'[m].processed
      <4>1. row'[m].processed = Column(row[m].processed, orig[p][m].processed, copy[p][m].processed)
        BY <1>1, <1>10 DEF SaveChanges, Merged, Typed, TypeOK
      <4>2. ~orig[p][m].processed
        BY <1>1 DEF Typed, TypeOK, Loaded
      <4>3. orig[p][m] \in Row /\ copy[p][m] \in Row /\ row[m] \in Row
        BY <1>1 DEF Typed, TypeOK
      <4>4. QED BY <3>1, <4>1, <4>2, <4>3 DEF Column, Row
    <3>2. ASSUME NEW m \in Event, m \notin batch[p] PROVE row'[m] = row[m]
      BY <1>10, <3>2 DEF SaveChanges
    <3>3. QED BY <2>1, <3>1, <3>2
  <2>4. accepted' = accepted /\ sent' = sent /\ failures' = failures
    BY <1>10 DEF SaveChanges, history
  <2>5. PICK T \in SUBSET Event : T = S
    BY <2>1
  <2>6. Contract!Settle(T)
    BY <2>1, <2>2, <2>3, <2>4, <2>5 DEF Contract!Settle
  <2>7. QED BY <2>6 DEF Contract!Next
<1>11. ASSUME NEW p \in Processors, SaveRejected(p) \/ Abandon(p)
       PROVE  UNCHANGED Contract!cvars
  BY <1>2, <1>11 DEF SaveRejected, Abandon, LoseBatch, table
<1>12. CASE UNCHANGED vars
  BY <1>2, <1>12 DEF vars
<1>13. QED
  BY <1>4, <1>5, <1>6, <1>7, <1>8, <1>9, <1>10, <1>11, <1>12 DEF Next, Replica

\* The outbox keeps its contract, for every instance.
THEOREM OutboxImplementsContract == Spec => ImplementsContract
<1>1. IInv /\ [Next]_vars => IInv'
  BY IInvNext
<1>2. QED
  BY <1>1, IInvInit, OutboxContractInit, OutboxContractStep, PTL
     DEF Spec, ImplementsContract, Contract!Spec
-----------------------------------------------------------------------------
(* One replica and no cleanup. *)

\* Every refused attempt but those of lost batches (k of them not yet counted as
\* lost) has used up two retries of a row r that is still open.
RefusalsSpent(r, m, k) == ~r.processed => 2 * failures[m] <= r.retry + 2 * (abandoned + k)

\* What the replica holds is what the table shows.
Current(p) == \A m \in batch[p] : m \in Stored /\ row[m] = orig[p][m]

Spending(p) ==
    \A m \in Event :
        /\ failures[m] <= MinAttempts + abandoned
        /\ m \notin batch[p] => RefusalsSpent(row[m], m, 0)
        /\ m \in batch[p] => RefusalsSpent(copy[p][m], m, 0) /\ RefusalsSpent(orig[p][m], m, 1)

OneInv(p) == Typed /\ Current(p) /\ Spending(p)

LEMMA CurrentNext ==
    ASSUME NEW p, Processors = {p}, ~CleanupEnabled, TakesKindlessDates,
           OneInv(p), [Next]_vars
    PROVE  Current(p)'
<1> USE DEF OneInv
<1>1. ASSUME NEW m \in Event, AddEvent(m) PROVE Current(p)'
  BY <1>1 DEF AddEvent, Current, Stored, Typed, TypeOK, Stage, work
<1>2. ASSUME NEW m \in Event, BackoffElapses(m) PROVE Current(p)'
  <2>1. m \notin batch[p]
    BY <1>2 DEF BackoffElapses, Current, Typed, Loaded, CanRetry
  <2>2. QED BY <1>2, <2>1 DEF BackoffElapses, Current, Stored, Typed, TypeOK, work
<1>3. CASE PollReady(p)
  BY <1>3 DEF PollReady, Current, Ready, Oldest, Stored, Typed, TypeOK, table
<1>4. CASE batch' = batch /\ orig' = orig /\ UNCHANGED table
  BY <1>4 DEF Current, Stored, table
<1>5. CASE ForgetBatch(p)
  BY <1>5 DEF ForgetBatch, Current, Typed, TypeOK
<1>6. QED
  BY <1>1, <1>2, <1>3, <1>4, <1>5
     DEF Next, Replica, CleanupProcessedMessages, PollNothing, Unresolved, PublishSucceeds,
         PublishRaises, SaveChanges, SaveRejected, Abandon, LoseBatch, table, work, vars

\* A refused attempt spends two retries, or settles the row.
LEMMA RefusalSpends ==
    ASSUME NEW r \in Row, NEW f \in Nat, NEW a \in Nat, NEW text,
           ~r.processed, r.retry < MaxRetry, 2 * f <= r.retry + 2 * a
    PROVE  /\ f + 1 <= MinAttempts + a
           /\ ~PublishFailed(r, text).processed =>
                 2 * (f + 1) <= PublishFailed(r, text).retry + 2 * a
           /\ 2 * (f + 1) <= r.retry + 2 * (a + 1)
BY DEF Row, MaxRetry, MinAttempts, PublishFailed, Counted, MarkAsFailed, MarkAsDeadLetter

LEMMA SpendingNext ==
    ASSUME NEW p, Processors = {p}, ~CleanupEnabled, TakesKindlessDates,
           OneInv(p), [Next]_vars
    PROVE  Spending(p)'
<1> USE DEF OneInv, Typed
<1>0. /\ abandoned \in Nat /\ failures \in [Event -> Nat]
      /\ \A m \in Event : row[m] \in Row /\ orig[p][m] \in Row /\ copy[p][m] \in Row
  BY OutboxAssumption DEF TypeOK
<1>1. ASSUME NEW m \in Event, AddEvent(m) PROVE Spending(p)'
  BY <1>1 DEF AddEvent, Spending, RefusalsSpent, work, history
<1>2. ASSUME NEW m \in Event, BackoffElapses(m) PROVE Spending(p)'
  BY <1>2 DEF BackoffElapses, DueAgain, Spending, RefusalsSpent, TypeOK, work, history
<1>3. CASE PollReady(p)
  <2>1. /\ batch[p] = {} /\ batch'[p] = Ready
        /\ failures' = failures /\ row' = row /\ abandoned' = abandoned
    BY <1>3 DEF PollReady, TypeOK, table, history
  <2>2. \A m \in Ready : m \in Event /\ orig'[p][m] = row[m] /\ copy'[p][m] = row[m]
    BY <1>3 DEF PollReady, TypeOK, Ready, Oldest, Stored
  <2>3. \A m \in Event : RefusalsSpent(row[m], m, 0) /\ failures[m] <= MinAttempts + abandoned
    BY <2>1 DEF Spending
  <2>4. \A m \in Event : RefusalsSpent(row[m], m, 1)
    BY <1>0, <2>3 DEF RefusalsSpent, Row, MaxRetry
  <2>5. QED BY <2>1, <2>2, <2>3, <2>4 DEF Spending, RefusalsSpent
\* One turn of the loop.
<1>4. ASSUME NEW m \in Event, NEW c, Reaches(p, m), copy' = [copy EXCEPT ![p][m] = c],
             batch' = batch, orig' = orig, row' = row, abandoned' = abandoned,
             \A k \in Event \ {m} : failures'[k] = failures[k],
             failures'[m] <= MinAttempts + abandoned,
             ~c.processed => 2 * failures'[m] <= c.retry + 2 * abandoned,
             2 * failures'[m] <= orig[p][m].retry + 2 * (abandoned + 1)
      PROVE  Spending(p)'
  <2>1. m \in batch[p]
    BY <1>4 DEF Reaches, TypeOK
  <2>2. \A k \in Event : copy'[p][k] = IF k = m THEN c ELSE copy[p][k]
    BY <1>4 DEF TypeOK
  <2>3. QED BY <1>0, <1>4, <2>1, <2>2 DEF Spending, RefusalsSpent
<1>5. ASSUME NEW m \in Event, Reaches(p, m)
      PROVE  /\ copy[p][m] = orig[p][m] /\ ~orig[p][m].processed /\ orig[p][m].retry < MaxRetry
             /\ copy[p][m].retry \in Nat
             /\ 2 * failures[m] <= copy[p][m].retry + 2 * abandoned
             /\ failures[m] <= MinAttempts + abandoned
  <2>1. m \in todo[p] /\ m \in batch[p]
    BY <1>5 DEF Reaches, TypeOK
  <2>2. copy[p][m] = orig[p][m] /\ ~orig[p][m].processed /\ CanRetry(orig[p][m])
    BY <2>1 DEF Loaded
  <2>3. QED BY <1>0, <2>1, <2>2 DEF Spending, RefusalsSpent, CanRetry, Row, MaxRetry
<1>6. ASSUME NEW m \in Event, Unresolved(p, m) PROVE Spending(p)'
  <2>1. PICK text \in ErrorTexts : copy' = [copy EXCEPT ![p][m] = MarkAsFailed(copy[p][m], text)]
    BY <1>6 DEF Unresolved, TypeOK
  <2>2. MarkAsFailed(copy[p][m], text).retry = copy[p][m].retry + 1
    BY DEF MarkAsFailed
  <2>3. Reaches(p, m) /\ batch' = batch /\ orig' = orig /\ row' = row /\ abandoned' = abandoned
        /\ failures' = failures
    BY <1>6 DEF Unresolved, table, history
  <2>4. /\ failures'[m] <= MinAttempts + abandoned
        /\ ~MarkAsFailed(copy[p][m], text).processed =>
              2 * failures'[m] <= MarkAsFailed(copy[p][m], text).retry + 2 * abandoned
        /\ 2 * failures'[m] <= orig[p][m].retry + 2 * (abandoned + 1)
    BY <1>0, <1>5, <2>2, <2>3
  <2>5. QED BY <1>4, <2>1, <2>3, <2>4
<1>7. ASSUME NEW m \in Event, PublishSucceeds(p, m) PROVE Spending(p)'
  <2>1. copy' = [copy EXCEPT ![p][m] = MarkAsProcessed(copy[p][m])]
    BY <1>7 DEF PublishSucceeds, TypeOK
  <2>2. MarkAsProcessed(copy[p][m]).processed
    BY DEF MarkAsProcessed
  <2>3. Reaches(p, m) /\ batch' = batch /\ orig' = orig /\ row' = row /\ abandoned' = abandoned
        /\ failures' = failures
    BY <1>7 DEF PublishSucceeds, table
  <2>4. /\ failures'[m] <= MinAttempts + abandoned
        /\ ~MarkAsProcessed(copy[p][m]).processed =>
              2 * failures'[m] <= MarkAsProcessed(copy[p][m]).retry + 2 * abandoned
        /\ 2 * failures'[m] <= orig[p][m].retry + 2 * (abandoned + 1)
    BY <1>0, <1>5, <2>2, <2>3
  <2>5. QED BY <1>4, <2>1, <2>3, <2>4
<1>8. ASSUME NEW m \in Event, PublishRaises(p, m) PROVE Spending(p)'
  <2>1. PICK text \in ErrorTexts : copy' = [copy EXCEPT ![p][m] = PublishFailed(copy[p][m], text)]
    BY <1>8 DEF PublishRaises, TypeOK
  <2>2. Reaches(p, m) /\ batch' = batch /\ orig' = orig /\ row' = row /\ abandoned' = abandoned
        /\ failures' = [failures EXCEPT ![m] = @ + 1]
    BY <1>8 DEF PublishRaises, table
  <2>3. failures'[m] = failures[m] + 1 /\ \A k \in Event \ {m} : failures'[k] = failures[k]
    BY <1>0, <2>2
  <2>4. QED BY <1>0, <1>4, <1>5, <2>1, <2>2, <2>3, RefusalSpends
<1>9. CASE SaveChanges(p)
  <2>1. \A m \in batch[p] : row'[m] = copy[p][m]
    BY <1>0, <1>9 DEF SaveChanges, Current, Merged, Column, Row, TypeOK
  <2>2. \A m \in Event \ batch[p] : row'[m] = row[m]
    BY <1>9 DEF SaveChanges
  <2>3. batch'[p] = {} /\ failures' = failures /\ abandoned' = abandoned
    BY <1>9 DEF SaveChanges, ForgetBatch, TypeOK, history
  <2>4. QED BY <2>1, <2>2, <2>3 DEF Spending, RefusalsSpent
<1>10. ~SaveRejected(p)
  BY DEF SaveRejected, Savable, Current
<1>11. CASE Abandon(p)
  <2>1. batch'[p] = {} /\ failures' = failures /\ row' = row /\ abandoned' = abandoned + 1
    BY <1>11 DEF Abandon, LoseBatch, ForgetBatch, TypeOK, table
  <2>2. ASSUME NEW m \in Event
        PROVE  failures[m] <= MinAttempts + abandoned + 1 /\ RefusalsSpent(row[m], m, 1)
    BY <1>0 DEF Spending, RefusalsSpent, Current, Row, MaxRetry, MinAttempts
  <2>3. ASSUME NEW m \in Event
        PROVE  failures'[m] <= MinAttempts + abandoned' /\ RefusalsSpent(row[m], m, 0)'
    BY <1>0, <2>1, <2>2 DEF RefusalsSpent, MinAttempts
  <2>4. QED BY <2>1, <2>3 DEF Spending, RefusalsSpent
<1>12. CASE UNCHANGED vars
  BY <1>12 DEF vars, Spending, RefusalsSpent
<1>13. QED
  BY <1>1, <1>2, <1>3, <1>6, <1>7, <1>8, <1>9, <1>10, <1>11, <1>12
     DEF Next, Replica, CleanupProcessedMessages, PollNothing

LEMMA OneInvInit == ASSUME NEW p, Processors = {p}, Init PROVE OneInv(p)
<1>1. Typed
  BY TypedInit
<1>2. Current(p) /\ Spending(p)
  BY OutboxAssumption DEF Init, Current, Spending, RefusalsSpent, FreshRow, MinAttempts
<1>3. QED BY <1>1, <1>2 DEF OneInv

\* With one replica, no cleanup and a database that takes its dates, the replica
\* attempts an event only when the table shows it open and due, for any number of
\* events, batch size and lost batches.
THEOREM OneReplicaNeverLate ==
    ASSUME NEW p, Processors = {p}, ~CleanupEnabled, TakesKindlessDates
    PROVE  Spec => AttemptsOnlyDueRows
<1>1. Init => OneInv(p)
  BY OneInvInit
<1>2. OneInv(p) /\ [Next]_vars => OneInv(p)'
  BY CurrentNext, SpendingNext, TypedNext DEF OneInv
<1>3. OneInv(p) /\ [Next]_vars
         => [\A m \in Event : Attempted(m) => ~row[m].processed /\ CanRetry(row[m])]_vars
  <2> SUFFICES ASSUME OneInv(p), Next, NEW m \in Event, Attempted(m)
               PROVE  ~row[m].processed /\ CanRetry(row[m])
    BY DEF vars
  <2>1. m \in todo[p]
    BY DEF Next, Replica, AddEvent, BackoffElapses, CleanupProcessedMessages, PollReady,
           PollNothing, Unresolved, PublishSucceeds, PublishRaises, SaveChanges, SaveRejected,
           Abandon, LoseBatch, Attempted, Reaches, OneInv, Typed, TypeOK, vars, work, table, history
  <2>2. QED BY <2>1 DEF OneInv, Typed, TypeOK, Loaded, Current
<1>4. QED BY <1>1, <1>2, <1>3, PTL DEF Spec, AttemptsOnlyDueRows

\* Under the same conditions an event is refused at most three times, and once more
\* for each lost batch.
THEOREM OneReplicaRetriesEnd ==
    ASSUME NEW p, Processors = {p}, ~CleanupEnabled, TakesKindlessDates
    PROVE  Spec => []RetriesEnd
<1>1. Init => OneInv(p)
  BY OneInvInit
<1>2. OneInv(p) /\ [Next]_vars => OneInv(p)'
  BY CurrentNext, SpendingNext, TypedNext DEF OneInv
<1>3. OneInv(p) => RetriesEnd
  BY DEF OneInv, Spending, RetriesEnd
<1>4. QED BY <1>1, <1>2, <1>3, PTL DEF Spec
-----------------------------------------------------------------------------
(* Deliveries. *)

\* The replicas whose save would record a delivery of m, and those still to try it.
Recording(m) == {p \in Processors : m \in Recordable(p)}
Left(m) == {p \in Processors : m \in todo[p]}

\* Until a row is settled, a delivery is lost or some replica is about to record it;
\* from then on each replica that still holds the row can add one.
Kept(m) ==
    /\ ~row[m].processed =>
          delivered[m] <= unrecorded[m] + Cardinality(Recording(m))
    /\ row[m].processed =>
          delivered[m] + Cardinality(Left(m)) <= unrecorded[m] + Cardinality(Processors)

DInv == Typed /\ \A m \in Event : Kept(m)

LEMMA ReplicaSets ==
    ASSUME NEW S, S \subseteq Processors
    PROVE  /\ IsFiniteSet(S) /\ Cardinality(S) \in Nat /\ Cardinality(Processors) \in Nat
           /\ Cardinality(S) <= Cardinality(Processors)
BY OutboxAssumption, FS_Subset, FS_CardinalityType

LEMMA LargerSet ==
    ASSUME NEW S, NEW T, S \subseteq T, T \subseteq Processors
    PROVE  Cardinality(S) <= Cardinality(T)
<1>1. IsFiniteSet(T)
  BY ReplicaSets
<1>2. QED BY <1>1, FS_Subset

\* The counts behind Kept are numbers, and remain so.
LEMMA Counts ==
    ASSUME Typed, Typed', NEW m \in Event
    PROVE  /\ Cardinality(Recording(m)) \in Nat /\ Cardinality(Left(m)) \in Nat
           /\ Cardinality(Recording(m)') \in Nat /\ Cardinality(Left(m)') \in Nat
           /\ Cardinality(Processors) \in Nat
           /\ delivered[m] \in Nat /\ unrecorded[m] \in Nat
           /\ delivered'[m] \in Nat /\ unrecorded'[m] \in Nat
<1>1. Recording(m) \subseteq Processors /\ Left(m) \subseteq Processors
  BY DEF Recording, Left
<1>2. Recording(m)' \subseteq Processors /\ Left(m)' \subseteq Processors
  BY DEF Recording, Left
<1>3. QED BY <1>1, <1>2, ReplicaSets DEF Typed, TypeOK

\* A step that leaves the balance of the event alone.
LEMMA BalanceKept ==
    ASSUME DInv, Typed', NEW m \in Event,
           delivered'[m] + unrecorded[m] = delivered[m] + unrecorded'[m],
           row'[m].processed <=> row[m].processed,
           ~row[m].processed => Recording(m) \subseteq Recording(m)',
           row[m].processed => Left(m)' \subseteq Left(m)
    PROVE  Kept(m)'
<1>1. Typed /\ Kept(m)
  BY DEF DInv
<1>2. CASE row[m].processed
  <2>1. Left(m) \subseteq Processors
    BY DEF Left
  <2>2. Cardinality(Left(m)') <= Cardinality(Left(m))
    BY <1>2, <2>1, LargerSet
  <2>3. QED BY <1>1, <1>2, <2>2, Counts DEF Kept
<1>3. CASE ~row[m].processed
  <2>1. Recording(m)' \subseteq Processors
    BY DEF Recording
  <2>2. Cardinality(Recording(m)) <= Cardinality(Recording(m)')
    BY <1>3, <2>1, LargerSet
  <2>3. QED BY <1>1, <1>3, <2>2, Counts DEF Kept
<1>4. QED BY <1>2, <1>3

\* A turn of the loop on m, or on another event.
LEMMA TurnKept ==
    ASSUME DInv, Typed', NEW m \in Event, NEW p \in Processors, NEW k \in Event, NEW c,
           Reaches(p, k), copy' = [copy EXCEPT ![p][k] = c], todo' = [todo EXCEPT ![p] = @ \ {k}],
           batch' = batch, orig' = orig, row' = row,
           delivered'[m] + unrecorded[m] = delivered[m] + unrecorded'[m]
    PROVE  Kept(m)'
<1>1. Typed
  BY DEF DInv
<1>2. k \in todo[p] /\ copy[p][k] = orig[p][k] /\ ~orig[p][k].processed
  BY <1>1 DEF Reaches, Typed, TypeOK, Loaded
<1>3. \A q \in Processors : q # p \/ m # k => copy'[q][m] = copy[q][m]
  BY <1>1 DEF Typed, TypeOK
<1>4. Recording(m) \subseteq Recording(m)'
  BY <1>2, <1>3 DEF Recording, Recordable
<1>5. Left(m)' \subseteq Left(m)
  BY <1>1 DEF Left, Typed, TypeOK
<1>6. QED BY <1>4, <1>5, BalanceKept

\* A delivery: the replica is one more to record it, and one less to try again.
LEMMA DeliveryKept ==
    ASSUME DInv, Typed', NEW m \in Event, NEW p \in Processors, PublishSucceeds(p, m)
    PROVE  Kept(m)'
<1>1. Typed /\ Kept(m)
  BY DEF DInv
<1>2. /\ m \in todo[p] /\ m \in batch[p] /\ copy[p][m] = orig[p][m] /\ ~orig[p][m].processed
  BY <1>1 DEF PublishSucceeds, Reaches, Typed, TypeOK, Loaded
<1>3. /\ delivered'[m] = delivered[m] + 1 /\ unrecorded' = unrecorded /\ row' = row
      /\ batch' = batch /\ orig' = orig
      /\ copy'[p][m] = MarkAsProcessed(copy[p][m])
      /\ \A q \in Processors : todo'[q] = IF q = p THEN todo[q] \ {m} ELSE todo[q]
      /\ \A q \in Processors : q # p => copy'[q][m] = copy[q][m]
  <2>1. /\ delivered' = [delivered EXCEPT ![m] = @ + 1]
        /\ copy' = [copy EXCEPT ![p][m] = MarkAsProcessed(@)]
        /\ todo' = [todo EXCEPT ![p] = @ \ {m}]
        /\ UNCHANGED <<row, batch, orig, unrecorded>>
    BY DEF PublishSucceeds, table
  <2>2. delivered'[m] = delivered[m] + 1
    BY <1>1, <2>1 DEF Typed, TypeOK
  <2>3. /\ copy'[p][m] = MarkAsProcessed(copy[p][m])
        /\ \A q \in Processors : q # p => copy'[q][m] = copy[q][m]
    BY <1>1, <2>1 DEF Typed, TypeOK
  <2>4. \A q \in Processors : todo'[q] = IF q = p THEN todo[q] \ {m} ELSE todo[q]
    BY <1>1, <2>1 DEF Typed, TypeOK
  <2>5. QED BY <2>1, <2>2, <2>3, <2>4
<1>4. p \notin Recording(m) /\ Recording(m)' = Recording(m) \union {p}
  <2>1. p \notin Recording(m)
    BY <1>2 DEF Recording, Recordable
  <2>2. p \in Recording(m)'
    <3>1. copy'[p][m].processed /\ copy'[p][m].retry = copy[p][m].retry
      BY <1>3 DEF MarkAsProcessed
    <3>2. QED BY <1>2, <1>3, <3>1 DEF Recording, Recordable
  <2>3. \A q \in Processors \ {p} : q \in Recording(m)' <=> q \in Recording(m)
    BY <1>3 DEF Recording, Recordable
  <2>4. Recording(m) \subseteq Processors /\ Recording(m)' \subseteq Processors
    BY DEF Recording
  <2>5. QED BY <2>1, <2>2, <2>3, <2>4
<1>5. p \in Left(m) /\ Left(m)' = Left(m) \ {p}
  BY <1>2, <1>3 DEF Left
<1>6. IsFiniteSet(Recording(m)) /\ IsFiniteSet(Left(m))
  BY ReplicaSets DEF Recording, Left
<1>7. Cardinality(Recording(m)') = Cardinality(Recording(m)) + 1
  BY <1>4, <1>6, FS_AddElement
<1>8. Cardinality(Left(m)') = Cardinality(Left(m)) - 1
  BY <1>5, <1>6, FS_RemoveElement
<1>9. QED BY <1>1, <1>3, <1>7, <1>8, Counts DEF Kept

\* A save records a delivery when it settles the row, and leaves a settled row so.
LEMMA SaveKept ==
    ASSUME DInv, Typed', NEW m \in Event, NEW p \in Processors, SaveChanges(p)
    PROVE  Kept(m)'
<1>1. Typed /\ Kept(m)
  BY DEF DInv
<1>2. /\ delivered' = delivered /\ unrecorded' = unrecorded
      /\ \A q \in Processors : todo'[q] = todo[q]
      /\ \A q \in Processors : q # p =>
            batch'[q] = batch[q] /\ copy'[q] = copy[q] /\ orig'[q] = orig[q]
  BY <1>1 DEF SaveChanges, BatchDone, ForgetBatch, Typed, TypeOK, history
<1>3. Left(m)' = Left(m)
  BY <1>2 DEF Left
<1>4. m \in batch[p] => ~orig[p][m].processed
  BY <1>1 DEF Typed, Loaded
<1>5. row'[m].processed = (row[m].processed \/ (m \in batch[p] /\ copy[p][m].processed))
  <2>1. CASE m \in batch[p]
    <3>1. row'[m].processed = Column(row[m].processed, orig[p][m].processed, copy[p][m].processed)
      BY <2>1 DEF SaveChanges, Merged
    <3>2. row[m].processed \in BOOLEAN /\ copy[p][m].processed \in BOOLEAN
          /\ orig[p][m].processed \in BOOLEAN
      BY <1>1 DEF Typed, TypeOK, Row
    <3>3. QED BY <1>4, <2>1, <3>1, <3>2 DEF Column
  <2>2. CASE m \notin batch[p]
    <3>1. row'[m] = row[m] /\ row[m].processed \in BOOLEAN
      BY <1>1, <2>2 DEF SaveChanges, Typed, TypeOK, Row
    <3>2. QED BY <2>2, <3>1
  <2>3. QED BY <2>1, <2>2
<1>6. CASE row[m].processed \/ ~(m \in batch[p] /\ copy[p][m].processed)
  <2>1. ~row[m].processed => Recording(m) \subseteq Recording(m)'
    BY <1>2, <1>6 DEF Recording, Recordable
  <2>2. row'[m].processed <=> row[m].processed
    BY <1>5, <1>6
  <2>3. QED BY <1>1, <1>2, <1>3, <2>1, <2>2, BalanceKept, Counts
<1>7. CASE ~row[m].processed /\ m \in batch[p] /\ copy[p][m].processed
  <2>1. Recording(m) \intersect Left(m) = {}
    BY <1>1 DEF Recording, Recordable, Left, Typed, TypeOK, Loaded
  <2>2. /\ Recording(m) \union Left(m) \subseteq Processors
        /\ IsFiniteSet(Recording(m)) /\ IsFiniteSet(Left(m))
    BY ReplicaSets DEF Recording, Left
  <2>3. Cardinality(Recording(m) \union Left(m)) = Cardinality(Recording(m)) + Cardinality(Left(m))
    <3>1. Cardinality(Recording(m) \union Left(m))
            = Cardinality(Recording(m)) + Cardinality(Left(m))
                - Cardinality(Recording(m) \intersect Left(m))
      BY <2>2, FS_Union
    <3>2. Cardinality(Recording(m) \intersect Left(m)) = 0
      BY <2>1, FS_EmptySet
    <3>3. QED BY <1>1, <3>1, <3>2, Counts
  <2>4. Cardinality(Recording(m)) + Cardinality(Left(m)) <= Cardinality(Processors)
    BY <2>2, <2>3, ReplicaSets
  <2>5. row'[m].processed
    BY <1>5, <1>7
  <2>6. QED BY <1>1, <1>2, <1>3, <1>7, <2>4, <2>5, Counts DEF Kept
<1>8. QED BY <1>6, <1>7

\* A lost batch moves its deliveries to the unrecorded ones.
LEMMA LossKept ==
    ASSUME DInv, Typed', NEW m \in Event, NEW p \in Processors, LoseBatch(p)
    PROVE  Kept(m)'
<1>1. Typed /\ Kept(m)
  BY DEF DInv
<1>2. /\ delivered' = delivered /\ row' = row
      /\ unrecorded'[m] = IF m \in Recordable(p) THEN unrecorded[m] + 1 ELSE unrecorded[m]
      /\ batch'[p] = {} /\ todo'[p] = {}
      /\ \A q \in Processors : q # p => /\ batch'[q] = batch[q] /\ todo'[q] = todo[q]
                                        /\ copy'[q] = copy[q] /\ orig'[q] = orig[q]
  BY <1>1 DEF LoseBatch, ForgetBatch, Typed, TypeOK, table
<1>3. Recording(m)' = Recording(m) \ {p} /\ Left(m)' \subseteq Left(m)
  BY <1>2 DEF Recording, Recordable, Left
<1>4. CASE m \notin Recordable(p)
  <2>1. Recording(m)' = Recording(m)
    BY <1>3, <1>4 DEF Recording
  <2>2. QED BY <1>1, <1>2, <1>3, <1>4, <2>1, BalanceKept, Counts
<1>5. CASE m \in Recordable(p)
  <2>1. p \in Recording(m) /\ IsFiniteSet(Recording(m))
    BY <1>5, ReplicaSets DEF Recording
  <2>2. Cardinality(Recording(m)') = Cardinality(Recording(m)) - 1
    BY <1>3, <2>1, FS_RemoveElement
  <2>3. Cardinality(Left(m)') <= Cardinality(Left(m))
    BY <1>3, LargerSet DEF Left
  <2>4. QED BY <1>1, <1>2, <1>5, <2>2, <2>3, Counts DEF Kept
<1>6. QED BY <1>4, <1>5

LEMMA DInvNext == DInv /\ [Next]_vars => DInv'
<1> SUFFICES ASSUME DInv, [Next]_vars, NEW m \in Event PROVE Kept(m)'
  BY TypedNext DEF DInv
<1>0. Typed /\ Typed' /\ delivered[m] \in Nat /\ unrecorded[m] \in Nat
  BY TypedNext DEF DInv, Typed, TypeOK
\* Steps that touch no batch.
<1>1. ASSUME UNCHANGED <<work, history>>, row'[m].processed <=> row[m].processed PROVE Kept(m)'
  <2>1. Recording(m)' = Recording(m) /\ Left(m)' = Left(m)
    BY <1>1 DEF Recording, Recordable, Left, work
  <2>2. QED BY <1>0, <1>1, <2>1, BalanceKept DEF history
<1>2. ASSUME NEW k \in Event, BackoffElapses(k) PROVE Kept(m)'
  <2>1. row'[m].processed <=> row[m].processed
    BY <1>0, <1>2 DEF BackoffElapses, DueAgain, Typed, TypeOK
  <2>2. QED BY <1>1, <1>2, <2>1 DEF BackoffElapses
<1>3. ASSUME NEW p \in Processors, PollReady(p) PROVE Kept(m)'
  <2>1. /\ batch[p] = {} /\ batch'[p] = Ready /\ todo'[p] = Ready
        /\ \A q \in Processors : q # p => /\ batch'[q] = batch[q] /\ todo'[q] = todo[q]
                                          /\ copy'[q] = copy[q] /\ orig'[q] = orig[q]
        /\ row' = row /\ delivered' = delivered /\ unrecorded' = unrecorded
    BY <1>0, <1>3 DEF PollReady, Typed, TypeOK, table, history
  <2>2. Recording(m) \subseteq Recording(m)'
    BY <2>1 DEF Recording, Recordable
  <2>3. row[m].processed => Left(m)' \subseteq Left(m)
    BY <2>1 DEF Left, Ready
  <2>4. QED BY <1>0, <2>1, <2>2, <2>3, BalanceKept
<1>4. ASSUME NEW p \in Processors, NEW k \in Event, Unresolved(p, k) PROVE Kept(m)'
  <2>1. PICK text \in ErrorTexts : copy' = [copy EXCEPT ![p][k] = MarkAsFailed(copy[p][k], text)]
    BY <1>0, <1>4 DEF Unresolved, Typed, TypeOK
  <2>2. QED BY <1>0, <1>4, <2>1, TurnKept DEF Unresolved, table, history
<1>5. ASSUME NEW p \in Processors, NEW k \in Event, PublishSucceeds(p, k), k # m PROVE Kept(m)'
  <2>1. copy' = [copy EXCEPT ![p][k] = MarkAsProcessed(copy[p][k])]
    BY <1>0, <1>5 DEF PublishSucceeds, Typed, TypeOK
  <2>2. delivered'[m] = delivered[m] /\ unrecorded' = unrecorded
    BY <1>0, <1>5 DEF PublishSucceeds, Typed, TypeOK
  <2>3. QED BY <1>0, <1>5, <2>1, <2>2, TurnKept DEF PublishSucceeds, table
<1>6. ASSUME NEW p \in Processors, NEW k \in Event, PublishRaises(p, k) PROVE Kept(m)'
  <2>1. PICK text \in ErrorTexts : copy' = [copy EXCEPT ![p][k] = PublishFailed(copy[p][k], text)]
    BY <1>0, <1>6 DEF PublishRaises, Typed, TypeOK
  <2>2. PICK arrived \in {0, 1} : /\ delivered' = [delivered EXCEPT ![k] = @ + arrived]
                                  /\ unrecorded' = [unrecorded EXCEPT ![k] = @ + arrived]
    BY <1>6 DEF PublishRaises
  <2>3. delivered'[m] + unrecorded[m] = delivered[m] + unrecorded'[m]
    BY <1>0, <2>2 DEF Typed, TypeOK
  <2>4. QED BY <1>0, <1>6, <2>1, <2>3, TurnKept DEF PublishRaises, table
<1>7. ASSUME NEW p \in Processors, SaveRejected(p) \/ Abandon(p) PROVE Kept(m)'
  BY <1>0, <1>7, LossKept DEF SaveRejected, Abandon
<1>8. ASSUME (\E k \in Event : AddEvent(k)) \/ CleanupProcessedMessages \/ UNCHANGED vars
      PROVE  Kept(m)'
  BY <1>1, <1>8 DEF AddEvent, CleanupProcessedMessages, vars, work, history
<1>9. QED
  BY <1>0, <1>2, <1>3, <1>4, <1>5, <1>6, <1>7, <1>8, DeliveryKept, SaveKept
     DEF Next, Replica, PollNothing

\* The bus receives an event at most once per replica, and once more for each lost
\* batch or answer, for any number of events, replicas and losses.
THEOREM DeliveriesBounded == Spec => []DuplicatesAccounted
<1>1. Init => DInv
  <2> SUFFICES ASSUME Init, NEW m \in Event PROVE Kept(m)
    BY TypedInit DEF DInv
  <2>1. Recording(m) \subseteq Processors
    BY DEF Recording
  <2>2. Cardinality(Recording(m)) \in Nat
    BY <2>1, ReplicaSets
  <2>3. ~row[m].processed /\ delivered[m] = 0 /\ unrecorded[m] = 0
    BY DEF Init, FreshRow
  <2>4. QED BY <2>2, <2>3 DEF Kept
<1>2. DInv => DuplicatesAccounted
  <2> SUFFICES ASSUME DInv, NEW m \in Event
               PROVE  delivered[m] <= Cardinality(Processors) + unrecorded[m]
    BY DEF DuplicatesAccounted
  <2>1. Recording(m) \subseteq Processors /\ Left(m) \subseteq Processors
    BY DEF Recording, Left
  <2>2. /\ Cardinality(Recording(m)) \in Nat /\ Cardinality(Left(m)) \in Nat
        /\ Cardinality(Processors) \in Nat
        /\ Cardinality(Recording(m)) <= Cardinality(Processors)
    BY <2>1, ReplicaSets
  <2>3. Kept(m) /\ delivered[m] \in Nat /\ unrecorded[m] \in Nat
    BY DEF DInv, Typed, TypeOK
  <2>4. QED BY <2>2, <2>3 DEF Kept
<1>3. QED BY <1>1, <1>2, DInvNext, PTL DEF Spec
-----------------------------------------------------------------------------
(* How far the two findings about the outbox reach. *)

LEMMA EventsCounted ==
    ASSUME NEW S, S \subseteq Event
    PROVE  IsFiniteSet(S) /\ Cardinality(S) \in Nat
<1>1. IsFiniteSet(1 .. NumEvents)
  BY FS_Interval, OutboxAssumption
<1>2. IsFiniteSet(S)
  BY <1>1, FS_Subset DEF Event
<1>3. QED BY <1>2, FS_CardinalityType

\* Without a cleanup no row leaves the table, and the rows before an event grow no fewer.
LEMMA CrowdGrows ==
    ASSUME Typed, [Next]_vars, ~CleanupEnabled, NEW m \in Event
    PROVE  /\ Stored \subseteq Stored'
           /\ Cardinality({k \in Stored : k < m}) <= Cardinality({k \in Stored' : k < m})
<1>1. Stored \subseteq Stored'
  <2>1. stage' = stage \/ \E e \in Event : stage' = [stage EXCEPT ![e] = "stored"]
    BY DEF Next, Replica, AddEvent, BackoffElapses, CleanupProcessedMessages, PollReady,
           PollNothing, Unresolved, PublishSucceeds, PublishRaises, SaveChanges, SaveRejected,
           Abandon, LoseBatch, vars, table
  <2>2. QED BY <2>1 DEF Stored, Typed, TypeOK
<1>2. IsFiniteSet({k \in Stored' : k < m})
  BY EventsCounted DEF Stored
<1>3. {k \in Stored : k < m} \subseteq {k \in Stored' : k < m}
  BY <1>1
<1>4. QED BY <1>1, <1>2, <1>3, FS_Subset

\* No replica loads an event that is crowded out.
LEMMA CrowdedOutUnread ==
    ASSUME NEW m \in Event, CrowdedOut(m)
    PROVE  m \notin Ready
<1> DEFINE before == Cardinality({k \in Stored : k < m})
<1>1. before \in Nat
  BY EventsCounted DEF Stored
<1>2. before >= BatchSize
  BY DEF CrowdedOut
<1>3. ~(before < BatchSize)
  BY <1>1, <1>2, OutboxAssumption
<1>4. QED BY <1>3 DEF Ready, Oldest

LEMMA CrowdedOutStep ==
    ASSUME Typed, [Next]_vars, ~CleanupEnabled, NEW m \in Event, CrowdedOut(m)
    PROVE  CrowdedOut(m)' /\ ~Attempted(m) /\ row'[m].processed = row[m].processed
<1>1. \A p \in Processors : m \notin batch[p] /\ m \notin todo[p]
  BY DEF CrowdedOut, Typed, TypeOK
<1>2. \A p \in Processors : m \notin batch'[p]
  <2>1. ASSUME NEW p \in Processors, PollReady(p) PROVE \A q \in Processors : m \notin batch'[q]
    BY <1>1, <2>1, CrowdedOutUnread DEF PollReady, Typed, TypeOK
  <2>2. ASSUME NEW p \in Processors, ForgetBatch(p) PROVE \A q \in Processors : m \notin batch'[q]
    BY <1>1, <2>2 DEF ForgetBatch, Typed, TypeOK
  <2>3. ASSUME batch' = batch PROVE \A q \in Processors : m \notin batch'[q]
    BY <1>1, <2>3
  <2>4. QED
    BY <2>1, <2>2, <2>3
       DEF Next, Replica, AddEvent, BackoffElapses, CleanupProcessedMessages, PollNothing,
           Unresolved, PublishSucceeds, PublishRaises, SaveChanges, SaveRejected, Abandon,
           LoseBatch, vars, work
<1>3. ~Attempted(m)
  BY <1>1
     DEF Next, Replica, AddEvent, BackoffElapses, CleanupProcessedMessages, PollReady,
         PollNothing, Unresolved, PublishSucceeds, PublishRaises, SaveChanges, SaveRejected,
         Abandon, LoseBatch, Attempted, Reaches, Typed, TypeOK, vars, work, table, history
<1>4. row'[m].processed = row[m].processed
  <2>1. ASSUME NEW e \in Event, BackoffElapses(e) PROVE row'[m].processed = row[m].processed
    BY <2>1 DEF BackoffElapses, DueAgain, Typed, TypeOK
  <2>2. ASSUME NEW p \in Processors, SaveChanges(p) PROVE row'[m].processed = row[m].processed
    BY <1>1, <2>2 DEF SaveChanges
  <2>3. QED
    BY <2>1, <2>2
       DEF Next, Replica, AddEvent, CleanupProcessedMessages, PollReady, PollNothing,
           Unresolved, PublishSucceeds, PublishRaises, SaveRejected, Abandon, LoseBatch,
           vars, table
<1>5. CrowdedOut(m)'
  <2> DEFINE before == Cardinality({k \in Stored : k < m})
             after == Cardinality({k \in Stored' : k < m})
  <2>1. before \in Nat /\ after \in Nat
    BY EventsCounted DEF Stored
  <2>2. before >= BatchSize /\ before <= after
    BY CrowdGrows DEF CrowdedOut
  <2>3. after >= BatchSize
    BY <2>1, <2>2, OutboxAssumption
  <2>4. QED BY <1>2, <2>3 DEF CrowdedOut
<1>6. QED BY <1>3, <1>4, <1>5

\* The starvation that a run finds is no accident of its instance: with any number of
\* replicas and any batch size, and as long as nothing deletes processed rows (nothing
\* in production does), an event stored behind BatchSize others is never attempted.
THEOREM CrowdedOutForGood ==
    ASSUME ~CleanupEnabled
    PROVE  Spec => CrowdedOutStays
<1>1. Typed /\ [Next]_vars
        => [\A m \in Event : CrowdedOut(m) =>
                CrowdedOut(m)' /\ ~Attempted(m) /\ row'[m].processed = row[m].processed]_vars
  BY CrowdedOutStep
<1>2. QED BY <1>1, TypedInit, TypedNext, PTL DEF Spec, CrowdedOutStays

\* It therefore never settles, whatever the fairness: StoredEventsSettle is false of it.
THEOREM CrowdedOutNeverSettles ==
    ASSUME ~CleanupEnabled, NEW m \in Event
    PROVE  Spec => [](CrowdedOut(m) /\ ~row[m].processed => []~row[m].processed)
<1>1. Typed /\ [Next]_vars /\ CrowdedOut(m) /\ ~row[m].processed
        => (CrowdedOut(m) /\ ~row[m].processed)'
  BY CrowdedOutStep
<1>2. QED BY <1>1, TypedInit, TypedNext, PTL DEF Spec

\* On the database that the program is configured with, which takes none of the entity's
\* dates, no row is ever changed: each poll loads the same open rows again.
THEOREM RefusedDatesRecordNothing ==
    ASSUME ~TakesKindlessDates
    PROVE  Spec => []NothingRecorded
<1>1. Init => NothingRecorded
  BY DEF Init, NothingRecorded
<1>2. Typed /\ NothingRecorded /\ [Next]_vars => NothingRecorded'
  <2> SUFFICES ASSUME Typed, NothingRecorded, [Next]_vars PROVE NothingRecorded'
    OBVIOUS
  <2>1. ASSUME NEW e \in Event PROVE ~BackoffElapses(e)
    BY DEF BackoffElapses, NothingRecorded, FreshRow
  <2>2. ASSUME NEW p \in Processors PROVE ~SaveChanges(p)
    BY DEF SaveChanges, Savable
  <2>3. row' = row
    BY <2>1, <2>2
       DEF Next, Replica, AddEvent, CleanupProcessedMessages, PollReady, PollNothing,
           Unresolved, PublishSucceeds, PublishRaises, SaveRejected, Abandon, LoseBatch,
           vars, table
  <2>4. QED BY <2>3 DEF NothingRecorded
<1>3. QED BY <1>1, <1>2, TypedInit, TypedNext, PTL DEF Spec
=============================================================================
