-------------------------- MODULE AuditTrailProofs --------------------------
(***************************************************************************)
(* Proofs about AuditTrail for any number of events, consumers and crashes.*)
(***************************************************************************)
EXTENDS AuditTrail, FiniteSetTheorems, TLAPS

\* The Id sequence is ahead of every row and of every INSERT under way.
Numbered ==
    /\ \A r \in log : r.id < nextId
    /\ \A c \in Consumers : job[c] # Idle =>
          /\ job[c].id < nextId
          /\ job[c].at # "chained" => job[c].id # Genesis

\* A message at a consumer was published.
Traced == \A c \in Consumers : job[c] # Idle => job[c].event \in published

\* Some row is the newest, whichever rows the cleanup leaves.
NewestIn(S) == S # {} => \E r \in S : \A s \in S : s.id <= r.id

NewestExists == \A S \in SUBSET log : NewestIn(S)

TInv == TypeOK /\ Numbered /\ Traced /\ NewestExists

\* The newest row is as new as any.
LEMMA NewestRow ==
    ASSUME TInv
    PROVE  Newest \in Nat /\ \A r \in log : r.id <= Newest
<1>1. CASE log = {}
  BY <1>1 DEF Newest, Genesis
<1>2. CASE log # {}
  <2> DEFINE ids == {r.id : r \in log}
  <2>1. \A i \in ids : i \in Nat
    BY DEF TInv, TypeOK, Row
  <2>2. PICK m \in log : \A s \in log : s.id <= m.id
    BY <1>2 DEF TInv, NewestExists, NewestIn
  <2>3. \E i \in ids : \A r \in log : r.id <= i
    BY <2>2
  <2>4. Newest \in ids /\ \A r \in log : r.id <= Newest
    BY <1>2, <2>3 DEF Newest
  <2>5. QED BY <2>1, <2>4
<1>3. QED BY <1>1, <1>2

\* What a consumer at work holds.
LEMMA JobShape ==
    ASSUME TInv, NEW c \in Consumers, job[c] # Idle
    PROVE  /\ job[c] \in Busy /\ job[c].event \in Event /\ job[c].previous \in Nat
           /\ job[c].id \in Nat /\ job[c].id < nextId
           /\ job[c].at # "chained" => Inserted(c) \in Row
BY DEF TInv, TypeOK, Numbered, Busy, Idle, Row, Inserted

\* One more row leaves a newest one.
LEMMA RowAdded ==
    ASSUME TInv, NEW x \in Row
    PROVE  \A S \in SUBSET (log \union {x}) : NewestIn(S)
<1> SUFFICES ASSUME NEW S \in SUBSET (log \union {x}), S # {}
             PROVE  \E r \in S : \A s \in S : s.id <= r.id
  BY DEF NewestIn
<1>1. \A s \in S : s.id \in Nat
  BY DEF TInv, TypeOK, Row
<1>2. CASE S \ {x} = {}
  <2>1. S = {x}
    BY <1>2
  <2>2. QED BY <1>1, <2>1
<1>3. CASE S \ {x} # {}
  <2>1. PICK r \in S \ {x} : \A s \in S \ {x} : s.id <= r.id
    BY <1>3 DEF TInv, NewestExists, NewestIn
  <2>2. CASE x.id <= r.id
    BY <1>1, <2>1, <2>2
  <2>3. CASE ~(x.id <= r.id) /\ x \in S
    <3>1. \A s \in S : s.id <= x.id
      BY <1>1, <2>1, <2>3
    <3>2. QED BY <2>3, <3>1
  <2>4. CASE x \notin S
    BY <2>1, <2>4
  <2>5. QED BY <2>2, <2>3, <2>4
<1>4. QED BY <1>2, <1>3

LEMMA TInvInit == Init => TInv
<1> SUFFICES ASSUME Init PROVE TInv
  OBVIOUS
<1>1. TypeOK
  BY AuditAssumption DEF Init, TypeOK
<1>2. Numbered /\ Traced /\ NewestExists
  BY DEF Init, Numbered, Traced, NewestExists, NewestIn
<1>3. QED BY <1>1, <1>2 DEF TInv

\* What the end of a call of Consume, or of its process, does to the trail: its
\* row is added if its INSERT was under way, or it is not.
Settled(c) ==
    log' = log \/ (job[c].at = "inserting" /\ log' = log \union {Inserted(c)})

LEMMA SettledRows ==
    ASSUME TInv, NEW c \in Consumers, job[c] # Idle, Settled(c), nextId' = nextId
    PROVE  /\ log' \subseteq Row /\ NewestExists'
           /\ \A r \in log' : r.id < nextId'
<1>1. CASE log' = log
  BY <1>1 DEF TInv, TypeOK, Numbered, NewestExists
<1>2. CASE job[c].at = "inserting" /\ log' = log \union {Inserted(c)}
  <2>1. Inserted(c) \in Row /\ Inserted(c).id < nextId
    BY <1>2, JobShape DEF Inserted
  <2>2. NewestExists'
    BY <1>2, <2>1, RowAdded DEF NewestExists
  <2>3. QED BY <1>2, <2>1, <2>2 DEF TInv, TypeOK, Numbered
<1>3. QED BY <1>1, <1>2 DEF Settled

LEMMA TInvNext == TInv /\ [Next]_vars => TInv'
<1> SUFFICES ASSUME TInv, [Next]_vars PROVE TInv'
  OBVIOUS
<1> USE DEF TInv
<1>1. ASSUME NEW e \in Event, Publish(e) PROVE TInv'
  BY <1>1 DEF Publish, TypeOK, Numbered, Traced, NewestExists
<1>2. ASSUME NEW c \in Consumers, NEW e \in Event, Chain(c, e) PROVE TInv'
  <2> DEFINE new == [at |-> "chained", event |-> e, previous |-> Newest, id |-> 0]
  <2>1. job' = [job EXCEPT ![c] = new] /\ queued' = queued \ {e}
        /\ UNCHANGED <<published, errored, log, nextId, cutoff, expired, crashes>>
    BY <1>2 DEF Chain
  <2>2. new \in Busy
    BY NewestRow DEF Busy
  <2>3. TypeOK'
    <3> HIDE DEF new
    <3> QED BY <2>1, <2>2 DEF TypeOK
  <2>4. Numbered'
    <3>1. \A d \in Consumers : job'[d] = IF d = c THEN new ELSE job[d]
      BY <2>1 DEF TypeOK
    <3>2. new.id < nextId /\ new.at = "chained"
      BY DEF TypeOK
    <3> HIDE DEF new
    <3>3. QED BY <2>1, <3>1, <3>2 DEF Numbered
  <2>5. Traced'
    <3>1. \A d \in Consumers : job'[d] = IF d = c THEN new ELSE job[d]
      BY <2>1 DEF TypeOK
    <3>2. new.event \in published
      BY <1>2 DEF Chain, TypeOK
    <3> HIDE DEF new
    <3>3. QED BY <2>1, <3>1, <3>2 DEF Traced
  <2>6. QED BY <2>1, <2>3, <2>4, <2>5 DEF NewestExists
<1>3. ASSUME NEW c \in Consumers, Insert(c) PROVE TInv'
  <2> DEFINE new == [job[c] EXCEPT !.at = "inserting", !.id = nextId]
  <2>1. job[c] # Idle /\ job[c].at = "chained"
    BY <1>3 DEF Insert, Idle
  <2>2. job' = [job EXCEPT ![c] = new] /\ nextId' = nextId + 1
        /\ UNCHANGED <<published, queued, errored, log, cutoff, expired, crashes>>
    BY <1>3 DEF Insert
  <2>3. new \in Busy /\ new.id = nextId /\ new.id # Genesis
    BY <2>1, JobShape DEF Busy, TypeOK, Genesis
  <2>4. TypeOK'
    <3> HIDE DEF new
    <3> QED BY <2>2, <2>3 DEF TypeOK
  <2>5. Numbered'
    <3>1. \A d \in Consumers : job'[d] = IF d = c THEN new ELSE job[d]
      BY <2>2 DEF TypeOK
    <3>2. \A r \in log : r.id \in Nat
      BY DEF TypeOK, Row
    <3>3. \A d \in Consumers : job[d] # Idle => job[d].id \in Nat
      BY JobShape
    <3> HIDE DEF new
    <3>4. QED BY <2>2, <2>3, <3>1, <3>2, <3>3 DEF Numbered, TypeOK
  <2>6. Traced'
    <3>1. \A d \in Consumers : job'[d] = IF d = c THEN new ELSE job[d]
      BY <2>2 DEF TypeOK
    <3>2. new.event = job[c].event
      BY <2>1, JobShape DEF Busy
    <3> HIDE DEF new
    <3>3. QED BY <2>1, <2>2, <3>1, <3>2 DEF Traced
  <2>7. QED BY <2>2, <2>4, <2>5, <2>6 DEF NewestExists
<1>4. ASSUME NEW c \in Consumers, Commit(c) PROVE TInv'
  <2> DEFINE new == [job[c] EXCEPT !.at = "saved"]
  <2>1. job[c] # Idle /\ job[c].at = "inserting" /\ Settled(c) /\ nextId' = nextId
        /\ job' = [job EXCEPT ![c] = new]
        /\ UNCHANGED <<published, queued, errored, cutoff, expired, crashes>>
    BY <1>4 DEF Commit, Idle, Settled
  <2>2. new \in Busy /\ new.id = job[c].id
    BY <2>1, JobShape DEF Busy
  <2>3. TypeOK'
    <3> HIDE DEF new
    <3> QED BY <2>1, <2>2, SettledRows DEF TypeOK
  <2>4. Numbered'
    <3>1. \A d \in Consumers : job'[d] = IF d = c THEN new ELSE job[d]
      BY <2>1 DEF TypeOK
    <3> HIDE DEF new
    <3>2. QED BY <2>1, <2>2, <3>1, SettledRows DEF Numbered
  <2>5. Traced'
    <3>1. \A d \in Consumers : job'[d] = IF d = c THEN new ELSE job[d]
      BY <2>1 DEF TypeOK
    <3>2. new.event = job[c].event
      BY <2>1, JobShape DEF Busy
    <3> HIDE DEF new
    <3>3. QED BY <2>1, <3>1, <3>2 DEF Traced
  <2>6. QED BY <2>1, <2>3, <2>4, <2>5, SettledRows
\* A consumer that has ended its call, one way or another.
<1>5. ASSUME NEW c \in Consumers, job[c] # Idle, Settled(c),
             job' = [job EXCEPT ![c] = Idle],
             UNCHANGED <<published, nextId, cutoff, expired>>,
             queued' \subseteq published, errored' \subseteq published,
             crashes' \in 0 .. MaxCrashes
      PROVE  TInv'
  <2>1. TypeOK'
    BY <1>5, SettledRows DEF TypeOK
  <2>2. Numbered'
    <3>1. \A d \in Consumers : job'[d] = IF d = c THEN Idle ELSE job[d]
      BY <1>5 DEF TypeOK
    <3>2. QED BY <1>5, <3>1, SettledRows DEF Numbered
  <2>3. Traced'
    <3>1. \A d \in Consumers : job'[d] = IF d = c THEN Idle ELSE job[d]
      BY <1>5 DEF TypeOK
    <3>2. QED BY <1>5, <3>1 DEF Traced
  <2>4. QED BY <1>5, <2>1, <2>2, <2>3, SettledRows
<1>6. ASSUME NEW c \in Consumers, Acknowledge(c) PROVE TInv'
  <2>1. job[c] # Idle /\ Settled(c)
    BY <1>6 DEF Acknowledge, Settled, Idle
  <2>2. QED BY <1>5, <1>6, <2>1 DEF Acknowledge, TypeOK
<1>7. ASSUME NEW c \in Consumers, Raise(c) PROVE TInv'
  <2>1. job[c] # Idle /\ Settled(c)
    BY <1>7 DEF Raise, Settled, Idle
  <2>2. errored' \subseteq published
    <3>1. job[c].event \in published
      BY <2>1 DEF Traced
    <3>2. QED BY <1>7, <3>1 DEF Raise, TypeOK
  <2>3. QED BY <1>5, <1>7, <2>1, <2>2 DEF Raise, TypeOK
<1>8. ASSUME NEW c \in Consumers, Crash(c) PROVE TInv'
  <2>1. job[c] # Idle /\ Settled(c)
    BY <1>8 DEF Crash, Settled
  <2>2. queued' \subseteq published
    <3>1. job[c].event \in published
      BY <2>1 DEF Traced
    <3>2. QED BY <1>8, <3>1 DEF Crash, TypeOK
  <2>3. crashes' \in 0 .. MaxCrashes
    BY <1>8, AuditAssumption DEF Crash, TypeOK
  <2>4. QED BY <1>5, <1>8, <2>1, <2>2, <2>3 DEF Crash, TypeOK
<1>9. CASE Cleanup
  <2>1. log' \subseteq log /\ expired' \subseteq expired \union log
        /\ UNCHANGED <<published, queued, errored, nextId, job, crashes>>
    BY <1>9 DEF Cleanup
  <2>2. cutoff' \in 1 .. (NumEvents + 1)
    BY <1>9, AuditAssumption DEF Cleanup, TypeOK
  <2>3. TypeOK'
    BY <2>1, <2>2 DEF TypeOK
  <2>4. Numbered' /\ Traced' /\ NewestExists'
    BY <2>1 DEF Numbered, Traced, NewestExists
  <2>5. QED BY <2>3, <2>4
<1>10. CASE UNCHANGED vars
  BY <1>10 DEF vars, TypeOK, Numbered, Traced, NewestExists
<1>11. QED
  BY <1>1, <1>2, <1>3, <1>4, <1>6, <1>7, <1>8, <1>9, <1>10 DEF Next, Consumer

\* Types: in particular the newest row always exists, so that a PreviousHash is
\* the hash of a row or the zero hash, whatever the cleanup has removed.
THEOREM TrailTypes == Spec => []TypeOK
BY TInvInit, TInvNext, PTL DEF Spec, TInv

-----------------------------------------------------------------------------
(* No event is dropped without a trace. *)

Has(rows, e) == \E r \in rows : r.event = e

\* The rows of the trail and those the cleanup has deleted.
Rows == log \union expired

\* A message about to be acknowledged has its row.
SavedRecorded ==
    \A c \in Consumers : job[c] # Idle /\ job[c].at = "saved" => Has(Rows, job[c].event)

AInv == TInv /\ SavedRecorded /\ EventsAccounted

LEMMA AInvNext == AInv /\ [Next]_vars => AInv'
<1> SUFFICES ASSUME AInv, [Next]_vars PROVE SavedRecorded' /\ EventsAccounted'
  BY TInvNext DEF AInv
<1> USE DEF AInv
\* Everything but one consumer's end of a call keeps what it accounts for.
<1>1. ASSUME Rows \subseteq Rows',
             \A e \in published' :
                \/ e \in queued' \union errored'
                \/ \E c \in Consumers : job'[c] # Idle /\ job'[c].event = e
                \/ Has(Rows, e)
      PROVE  EventsAccounted'
  BY <1>1 DEF EventsAccounted, Has, Rows
<1>2. \A e \in published :
          \/ e \in queued \union errored
          \/ \E c \in Consumers : job[c] # Idle /\ job[c].event = e
          \/ Has(Rows, e)
  BY DEF EventsAccounted, Has, Rows
<1>3. ASSUME NEW c \in Consumers, Settled(c) PROVE log \subseteq log'
  BY <1>3 DEF Settled
<1>4. ASSUME NEW e \in Event, Publish(e) PROVE SavedRecorded' /\ EventsAccounted'
  <2>1. SavedRecorded'
    BY <1>4 DEF Publish, SavedRecorded, Rows
  <2>2. EventsAccounted'
    BY <1>1, <1>2, <1>4 DEF Publish, Rows, Has
  <2>3. QED BY <2>1, <2>2
<1>5. ASSUME NEW c \in Consumers, job[c] # Idle,
             NEW new \in Busy, job' = [job EXCEPT ![c] = new],
             new.event = job[c].event,
             new.at = "saved" => Has(Rows', new.event),
             log \subseteq log', UNCHANGED <<published, queued, errored, expired>>
      PROVE  SavedRecorded' /\ EventsAccounted'
  <2>1. \A d \in Consumers : job'[d] = IF d = c THEN new ELSE job[d]
    BY <1>5 DEF TInv, TypeOK
  <2>2. new # Idle
    BY DEF Busy, Idle
  <2>3. SavedRecorded'
    <3>1. \A d \in Consumers \ {c} : job'[d] # Idle => job'[d].event \in Event
      BY <2>1, JobShape
    <3>2. ASSUME NEW d \in Consumers \ {c}, job'[d] # Idle, job'[d].at = "saved"
          PROVE  Has(Rows', job'[d].event)
      BY <1>5, <2>1, <3>1, <3>2 DEF SavedRecorded, Rows, Has
    <3>3. QED BY <1>5, <2>1, <3>2 DEF SavedRecorded
  <2>4. EventsAccounted'
    BY <1>1, <1>2, <1>5, <2>1, <2>2 DEF Rows, Has
  <2>5. QED BY <2>3, <2>4
<1>6. ASSUME NEW c \in Consumers, NEW e \in Event, Chain(c, e)
      PROVE  SavedRecorded' /\ EventsAccounted'
  <2> DEFINE new == [at |-> "chained", event |-> e, previous |-> Newest, id |-> 0]
  <2>1. /\ job[c] = Idle /\ job' = [job EXCEPT ![c] = new] /\ queued' = queued \ {e}
        /\ UNCHANGED <<published, errored, log, expired>>
    BY <1>6 DEF Chain
  <2>2. \A d \in Consumers : job'[d] = IF d = c THEN new ELSE job[d]
    BY <2>1 DEF TInv, TypeOK
  <2>3. new # Idle /\ new.event = e /\ new.at = "chained"
    BY DEF Idle
  <2> HIDE DEF new
  <2>4. SavedRecorded'
    BY <2>1, <2>2, <2>3 DEF SavedRecorded, Rows
  <2>5. EventsAccounted'
    BY <1>1, <1>2, <2>1, <2>2, <2>3 DEF Rows, Has
  <2>6. QED BY <2>4, <2>5
<1>7. ASSUME NEW c \in Consumers, Insert(c) PROVE SavedRecorded' /\ EventsAccounted'
  <2> DEFINE new == [job[c] EXCEPT !.at = "inserting", !.id = nextId]
  <2>1. job[c] # Idle
    BY <1>7 DEF Insert, Idle
  <2>2. job' = [job EXCEPT ![c] = new] /\ UNCHANGED <<published, queued, errored, log, expired>>
    BY <1>7 DEF Insert
  <2>3. new \in Busy /\ new.event = job[c].event /\ new.at # "saved"
    BY <2>1, JobShape DEF Busy, TInv, TypeOK
  <2> HIDE DEF new
  <2>4. QED BY <1>5, <2>1, <2>2, <2>3
<1>8. ASSUME NEW c \in Consumers, Commit(c) PROVE SavedRecorded' /\ EventsAccounted'
  <2> DEFINE new == [job[c] EXCEPT !.at = "saved"]
  <2>1. job[c] # Idle /\ job' = [job EXCEPT ![c] = new]
        /\ log' = log \union {Inserted(c)}
        /\ UNCHANGED <<published, queued, errored, expired>>
    BY <1>8 DEF Commit, Idle
  <2>2. new \in Busy /\ new.event = job[c].event
    BY <2>1, JobShape DEF Busy
  <2>3. Has(Rows', new.event)
    BY <2>1, <2>2 DEF Has, Rows, Inserted
  <2> HIDE DEF new
  <2>4. QED BY <1>5, <2>1, <2>2, <2>3
\* A consumer ends its call; its event is in a queue or has its row.
<1>9. ASSUME NEW c \in Consumers, job[c] # Idle, Settled(c),
             job' = [job EXCEPT ![c] = Idle],
             UNCHANGED <<published, expired>>,
             queued \union errored \subseteq queued' \union errored',
             job[c].event \in queued' \union errored' \/ Has(Rows, job[c].event)
      PROVE  SavedRecorded' /\ EventsAccounted'
  <2>1. \A d \in Consumers : job'[d] = IF d = c THEN Idle ELSE job[d]
    BY <1>9 DEF TInv, TypeOK
  <2>2. log \subseteq log'
    BY <1>3, <1>9
  <2>3. SavedRecorded'
    <3>1. ASSUME NEW d \in Consumers, job'[d] # Idle, job'[d].at = "saved"
          PROVE  Has(Rows', job'[d].event)
      <4>1. d # c /\ job'[d] = job[d]
        BY <2>1, <3>1
      <4>2. job[d].event \in Event /\ Has(Rows, job[d].event)
        BY <3>1, <4>1, JobShape DEF SavedRecorded
      <4>3. QED BY <1>9, <2>2, <4>1, <4>2 DEF Rows, Has
    <3>2. QED BY <3>1 DEF SavedRecorded
  <2>4. EventsAccounted'
    <3>1. ASSUME NEW e \in published
          PROVE  \/ e \in queued' \union errored'
                 \/ \E d \in Consumers : job'[d] # Idle /\ job'[d].event = e
                 \/ Has(Rows, e)
      <4>1. CASE \E d \in Consumers : d # c /\ job[d] # Idle /\ job[d].event = e
        BY <2>1, <4>1
      <4>2. CASE e = job[c].event
        BY <1>9, <4>2
      <4>3. CASE e \in queued \union errored \/ Has(Rows, e)
        BY <1>9, <4>3
      <4>4. QED BY <1>2, <4>1, <4>2, <4>3
    <3>2. QED BY <1>1, <1>9, <2>2, <3>1 DEF Rows, Has
  <2>5. QED BY <2>3, <2>4
<1>10. ASSUME NEW c \in Consumers, Acknowledge(c) PROVE SavedRecorded' /\ EventsAccounted'
  <2>1. job[c] # Idle /\ Settled(c) /\ Has(Rows, job[c].event)
    BY <1>10 DEF Acknowledge, Settled, Idle, SavedRecorded
  <2>2. QED BY <1>9, <1>10, <2>1 DEF Acknowledge
<1>11. ASSUME NEW c \in Consumers, Raise(c) PROVE SavedRecorded' /\ EventsAccounted'
  <2>1. job[c] # Idle /\ Settled(c)
    BY <1>11 DEF Raise, Settled, Idle
  <2>2. QED BY <1>9, <1>11, <2>1 DEF Raise
<1>12. ASSUME NEW c \in Consumers, Crash(c) PROVE SavedRecorded' /\ EventsAccounted'
  <2>1. job[c] # Idle /\ Settled(c)
    BY <1>12 DEF Crash, Settled
  <2>2. QED BY <1>9, <1>12, <2>1 DEF Crash
<1>13. CASE Cleanup
  <2>1. Rows \subseteq Rows'
        /\ UNCHANGED <<published, queued, errored, job>>
    BY <1>13 DEF Cleanup, Rows, Has
  <2>2. SavedRecorded'
    BY <2>1, JobShape DEF SavedRecorded, Rows, Has
  <2>3. EventsAccounted'
    BY <1>1, <1>2, <2>1
  <2>4. QED BY <2>2, <2>3
<1>14. CASE UNCHANGED vars
  BY <1>14 DEF vars, SavedRecorded, EventsAccounted, Rows, Has
<1>15. QED
  BY <1>4, <1>6, <1>7, <1>8, <1>10, <1>11, <1>12, <1>13, <1>14 DEF Next, Consumer

\* No audit event is dropped: for any number of consumers and crashes, a published
\* event waits, is at a consumer, is in the error queue, or has been recorded.
THEOREM NoEventDropped == Spec => []EventsAccounted
<1>1. Init => AInv
  BY TInvInit DEF Init, AInv, SavedRecorded, EventsAccounted
<1>2. QED BY <1>1, AInvNext, PTL DEF Spec, AInv

-----------------------------------------------------------------------------
(* One message at a time. *)

\* What the only consumer has read is still the newest row when it inserts.
UpToDate ==
    \A c \in Consumers : job[c] # Idle =>
        /\ job[c].at \in {"chained", "inserting"} => \A r \in log : r.id <= job[c].previous
        /\ job[c].at = "inserting" => \A r \in log : r.id < job[c].id

LInv == TInv /\ UpToDate /\ ChainIsLinear

LEMMA LInvNext ==
    ASSUME \A c, d \in Consumers : c = d
    PROVE  LInv /\ [Next]_vars => LInv'
<1> SUFFICES ASSUME LInv, [Next]_vars PROVE UpToDate' /\ ChainIsLinear'
  BY TInvNext DEF LInv
<1> USE DEF LInv
<1>1. ASSUME NEW e \in Event, Publish(e) PROVE UpToDate' /\ ChainIsLinear'
  BY <1>1 DEF Publish, UpToDate, ChainIsLinear
<1>2. ASSUME NEW c \in Consumers, NEW e \in Event, Chain(c, e)
      PROVE  UpToDate' /\ ChainIsLinear'
  <2> DEFINE new == [at |-> "chained", event |-> e, previous |-> Newest, id |-> 0]
  <2>1. job' = [job EXCEPT ![c] = new] /\ UNCHANGED log
    BY <1>2 DEF Chain
  <2>2. \A d \in Consumers : job'[d] = IF d = c THEN new ELSE job[d]
    BY <2>1 DEF TInv, TypeOK
  <2>3. new.at = "chained" /\ \A r \in log : r.id <= new.previous
    BY NewestRow
  <2> HIDE DEF new
  <2>4. QED BY <2>1, <2>2, <2>3 DEF UpToDate, ChainIsLinear
<1>3. ASSUME NEW c \in Consumers, Insert(c) PROVE UpToDate' /\ ChainIsLinear'
  <2> DEFINE new == [job[c] EXCEPT !.at = "inserting", !.id = nextId]
  <2>1. job[c] # Idle /\ job[c].at = "chained"
    BY <1>3 DEF Insert, Idle
  <2>2. job' = [job EXCEPT ![c] = new] /\ UNCHANGED log
    BY <1>3 DEF Insert
  <2>3. new.id = nextId /\ new.previous = job[c].previous
    BY <2>1, JobShape DEF Busy
  <2>4. \A d \in Consumers : job'[d] = IF d = c THEN new ELSE job[d]
    BY <2>2 DEF TInv, TypeOK
  <2>5. \A r \in log : r.id < new.id /\ r.id <= new.previous
    BY <2>1, <2>3 DEF TInv, Numbered, UpToDate
  <2> HIDE DEF new
  <2>6. QED BY <2>2, <2>4, <2>5 DEF UpToDate, ChainIsLinear
\* The only consumer settles its call: its row is newer than all, and chained to
\* the newest of them.
<1>4. ASSUME NEW c \in Consumers, job[c] # Idle, Settled(c),
             job'[c] = Idle \/ job'[c].at = "saved"
      PROVE  UpToDate' /\ ChainIsLinear'
  <2>1. UpToDate'
    BY <1>4 DEF UpToDate
  <2>2. CASE log' = log
    BY <2>1, <2>2 DEF ChainIsLinear
  <2>3. CASE job[c].at = "inserting" /\ log' = log \union {Inserted(c)}
    <3> DEFINE x == Inserted(c)
    <3>1. \A r \in log : r.id \in Nat /\ r.id < x.id /\ r.id <= x.previous
      BY <1>4, <2>3 DEF UpToDate, Inserted, TInv, TypeOK, Row
    <3>2. x.id \in Nat
      BY <1>4, JobShape DEF Inserted
    <3>3. \A r, s \in log \union {x} : s.id < r.id => s.id <= r.previous
      <4> HIDE DEF x
      <4> QED BY <3>1, <3>2 DEF ChainIsLinear
    <3>4. QED BY <2>1, <2>3, <3>3 DEF ChainIsLinear
  <2>4. QED BY <1>4, <2>2, <2>3 DEF Settled
<1>5. ASSUME NEW c \in Consumers, Commit(c) PROVE UpToDate' /\ ChainIsLinear'
  <2>1. job[c] # Idle /\ Settled(c)
    BY <1>5 DEF Commit, Settled, Idle
  <2>2. job'[c].at = "saved"
    <3>1. job' = [job EXCEPT ![c] = [job[c] EXCEPT !.at = "saved"]]
      BY <1>5 DEF Commit
    <3>2. job'[c] = [job[c] EXCEPT !.at = "saved"] /\ job[c] \in Busy
      BY <2>1, <3>1, JobShape DEF TInv, TypeOK
    <3>3. QED BY <3>2 DEF Busy
  <2>3. QED BY <1>4, <2>1, <2>2
<1>6. ASSUME NEW c \in Consumers, Acknowledge(c) \/ Raise(c) \/ Crash(c)
      PROVE  UpToDate' /\ ChainIsLinear'
  <2>1. job[c] # Idle /\ Settled(c)
    BY <1>6 DEF Acknowledge, Raise, Crash, Settled, Idle
  <2>2. job'[c] = Idle
    BY <1>6 DEF Acknowledge, Raise, Crash, TInv, TypeOK
  <2>3. QED BY <1>4, <2>1, <2>2
<1>7. CASE Cleanup
  <2>1. log' \subseteq log /\ UNCHANGED job
    BY <1>7 DEF Cleanup
  <2>2. QED BY <2>1 DEF UpToDate, ChainIsLinear
<1>8. CASE UNCHANGED vars
  BY <1>8 DEF vars, UpToDate, ChainIsLinear
<1>9. QED
  BY <1>1, <1>2, <1>3, <1>5, <1>6, <1>7, <1>8 DEF Next, Consumer

\* "Tamper-proof chaining" (AuditLog.cs) holds for any number of events, however
\* late they arrive, whatever crashes and whatever the cleanup removes, if no two
\* messages are ever consumed at once; nothing in the code sees to that.
THEOREM SerialChainIsLinear ==
    ASSUME \A c, d \in Consumers : c = d
    PROVE  Spec => []ChainIsLinear
<1>1. Init => LInv
  BY TInvInit DEF Init, LInv, UpToDate, ChainIsLinear
<1>2. QED BY <1>1, LInvNext, PTL DEF Spec, LInv
-----------------------------------------------------------------------------
(* Copies of an event. *)

\* The event has still to be saved by whoever has it.
Unfinished(e) ==
    \/ e \notin published
    \/ e \in queued
    \/ \E c \in Consumers : job[c] # Idle /\ job[c].at # "saved" /\ job[c].event = e

\* An event is in the queue or at one consumer, never twice.
OnePlace ==
    \A c \in Consumers : job[c] # Idle =>
        /\ job[c].event \notin queued
        /\ \A d \in Consumers : job[d] # Idle /\ job[d].event = job[c].event => d = c

\* A crash pays for every row but the one that ends the event's way.
PaidFor(e) ==
    /\ IsFiniteSet(Recorded(e))
    /\ Cardinality(Recorded(e)) <= crashes + 1
    /\ Unfinished(e) => Cardinality(Recorded(e)) <= crashes

CInv == TInv /\ OnePlace /\ \A e \in Event : PaidFor(e)

\* A consumer that works on an event is the only place of it.
LEMMA PlaceOf ==
    ASSUME CInv, NEW c \in Consumers, job[c] # Idle
    PROVE  /\ job[c].event \in published /\ job[c].event \notin queued
           /\ Unfinished(job[c].event) <=> job[c].at # "saved"
BY DEF CInv, OnePlace, TInv, Traced, Unfinished

\* What a consumer's call leaves alone: the places and rows of other events.
LEMMA OtherEvents ==
    ASSUME CInv, NEW c \in Consumers, job[c] # Idle, Settled(c),
           \A d \in Consumers \ {c} : job'[d] = job[d],
           job'[c] = Idle \/ job'[c].event = job[c].event,
           UNCHANGED <<published, expired>>, crashes' \in Nat, crashes <= crashes',
           queued' \in {queued, queued \union {job[c].event}},
           NEW e \in Event, e # job[c].event
    PROVE  PaidFor(e)'
<1>1. Recorded(e)' = Recorded(e)
  BY DEF Settled, Recorded, Inserted
<1>2. Unfinished(e)' <=> Unfinished(e)
  <2>1. \A d \in Consumers : d # c => job'[d] = job[d]
    OBVIOUS
  <2>2. ~(job'[c] # Idle /\ job'[c].event = e)
    OBVIOUS
  <2>3. e \in queued' <=> e \in queued
    OBVIOUS
  <2>4. QED BY <2>1, <2>2, <2>3 DEF Unfinished
<1>3. Cardinality(Recorded(e)) \in Nat /\ crashes \in Nat
  BY FS_CardinalityType DEF CInv, PaidFor, TInv, TypeOK
<1>4. QED BY <1>1, <1>2, <1>3 DEF CInv, PaidFor

\* A consumer's call adds at most its one row to the rows of its event.
LEMMA OwnEvent ==
    ASSUME CInv, NEW c \in Consumers, job[c] # Idle, Settled(c), UNCHANGED expired,
           NEW e \in Event, e = job[c].event
    PROVE  /\ IsFiniteSet(Recorded(e)') /\ Cardinality(Recorded(e)') \in Nat
           /\ Cardinality(Recorded(e)) \in Nat
           /\ Cardinality(Recorded(e)') <= Cardinality(Recorded(e)) + 1
           /\ job[c].at = "saved" => Recorded(e)' = Recorded(e)
<1>1. IsFiniteSet(Recorded(e)) /\ Cardinality(Recorded(e)) \in Nat
  BY FS_CardinalityType DEF CInv, PaidFor
<1>2. CASE log' = log
  <2>1. Recorded(e)' = Recorded(e)
    BY <1>2 DEF Recorded
  <2>2. QED BY <1>1, <2>1
<1>3. CASE job[c].at = "inserting" /\ log' = log \union {Inserted(c)}
  <2>1. Recorded(e)' = Recorded(e) \union {Inserted(c)}
    BY <1>3 DEF Recorded, Inserted
  <2>2. IsFiniteSet(Recorded(e)') /\ Cardinality(Recorded(e)')
            = IF Inserted(c) \in Recorded(e) THEN Cardinality(Recorded(e))
              ELSE Cardinality(Recorded(e)) + 1
    BY <1>1, <2>1, FS_AddElement
  <2>3. QED BY <1>1, <1>3, <2>2
<1>4. QED BY <1>2, <1>3 DEF Settled

LEMMA CInvNext == CInv /\ [Next]_vars => CInv'
<1> SUFFICES ASSUME CInv, [Next]_vars PROVE OnePlace' /\ \A e \in Event : PaidFor(e)'
  BY TInvNext DEF CInv
<1>0. /\ crashes \in Nat /\ queued \subseteq published
      /\ \A e \in Event : IsFiniteSet(Recorded(e)) /\ Cardinality(Recorded(e)) \in Nat
      /\ \A c, d \in Consumers : \A x : job' = [job EXCEPT ![c] = x] =>
             job'[d] = IF d = c THEN x ELSE job[d]
  BY FS_CardinalityType DEF CInv, PaidFor, TInv, TypeOK
<1>1. ASSUME NEW e \in Event, Publish(e) PROVE OnePlace' /\ \A f \in Event : PaidFor(f)'
  <2>1. OnePlace'
    BY <1>1 DEF Publish, CInv, OnePlace, TInv, Traced
  <2>2. \A f \in Event : Unfinished(f)' => Unfinished(f)
    BY <1>1 DEF Publish, Unfinished
  <2>3. \A f \in Event : Recorded(f)' = Recorded(f)
    BY <1>1 DEF Publish, Recorded
  <2>4. QED BY <1>1, <2>1, <2>2, <2>3 DEF Publish, CInv, PaidFor
<1>2. ASSUME NEW c \in Consumers, NEW e \in Event, Chain(c, e)
      PROVE  OnePlace' /\ \A f \in Event : PaidFor(f)'
  <2> DEFINE new == [at |-> "chained", event |-> e, previous |-> Newest, id |-> 0]
  <2>1. /\ job' = [job EXCEPT ![c] = new] /\ queued' = queued \ {e} /\ e \in queued
        /\ UNCHANGED <<published, log, expired, crashes>>
    BY <1>2 DEF Chain
  <2>2. new.event = e /\ new # Idle
    BY DEF Idle
  <2> HIDE DEF new
  <2>3. \A d \in Consumers : job'[d] = IF d = c THEN new ELSE job[d]
    BY <1>0, <2>1
  <2>4. \A d \in Consumers : job[d] # Idle => job[d].event # e
    BY <2>1 DEF CInv, OnePlace
  <2>5. OnePlace'
    BY <2>1, <2>2, <2>3, <2>4 DEF CInv, OnePlace
  <2>6. \A f \in Event : Unfinished(f)' => Unfinished(f)
    BY <1>2, <2>1, <2>2, <2>3 DEF Unfinished
  <2>7. \A f \in Event : Recorded(f)' = Recorded(f)
    BY <2>1 DEF Recorded
  <2>8. QED BY <2>1, <2>5, <2>6, <2>7 DEF CInv, PaidFor
<1>3. ASSUME NEW c \in Consumers, Insert(c) PROVE OnePlace' /\ \A f \in Event : PaidFor(f)'
  <2> DEFINE new == [job[c] EXCEPT !.at = "inserting", !.id = nextId]
  <2>0. job[c] # Idle /\ job[c].at = "chained"
    BY <1>3 DEF Insert, Idle
  <2>1. job' = [job EXCEPT ![c] = new] /\ UNCHANGED <<published, queued, log, expired, crashes>>
    BY <1>3 DEF Insert
  <2>2. new.event = job[c].event /\ job[c].at # "saved"
    BY <2>0, JobShape DEF CInv, Busy
  <2> HIDE DEF new
  <2>3. \A d \in Consumers : job'[d] = IF d = c THEN new ELSE job[d]
    BY <1>0, <2>1
  <2>4. OnePlace'
    BY <2>0, <2>1, <2>2, <2>3 DEF CInv, OnePlace
  <2>5. \A f \in Event : Unfinished(f)' => Unfinished(f)
    BY <2>0, <2>1, <2>2, <2>3 DEF Unfinished
  <2>6. \A f \in Event : Recorded(f)' = Recorded(f)
    BY <2>1 DEF Recorded
  <2>7. QED BY <2>1, <2>4, <2>5, <2>6 DEF CInv, PaidFor
<1>4. ASSUME NEW c \in Consumers, Commit(c), NEW e \in Event, e = job[c].event
      PROVE  OnePlace' /\ \A f \in Event : PaidFor(f)'
  <2> DEFINE new == [job[c] EXCEPT !.at = "saved"]
  <2>0. job' = [job EXCEPT ![c] = new]
    BY <1>4 DEF Commit
  <2>1. job[c] # Idle /\ job[c].at = "inserting" /\ Settled(c)
        /\ UNCHANGED <<published, queued, expired, crashes>>
    BY <1>4 DEF Commit, Idle, Settled
  <2>2. new.event = job[c].event /\ new.at = "saved"
    BY <2>1, JobShape DEF CInv, Busy
  <2> HIDE DEF new
  <2>3. \A d \in Consumers : job'[d] = IF d = c THEN new ELSE job[d]
    BY <1>0, <2>0
  <2>4. OnePlace'
    <3>1. \A d \in Consumers : job'[d] # Idle => job[d] # Idle /\ job'[d].event = job[d].event
      BY <2>1, <2>2, <2>3
    <3>2. QED BY <2>1, <3>1 DEF CInv, OnePlace
  <2>5. \A f \in Event \ {e} : PaidFor(f)'
    BY <1>4, <1>0, <2>1, <2>2, <2>3, OtherEvents
  <2>6. Cardinality(Recorded(e)) <= crashes
    BY <1>4, <2>1, PlaceOf, JobShape DEF CInv, PaidFor
  <2>7. ~Unfinished(e)'
    BY <1>4, <2>1, <2>2, <2>3, PlaceOf DEF Unfinished, CInv, OnePlace
  <2>8. PaidFor(e)'
    BY <1>4, <1>0, <2>1, <2>6, <2>7, OwnEvent DEF PaidFor
  <2>9. QED BY <2>4, <2>5, <2>8
\* A call that ends, one way or another, with a bound on its event's rows.
<1>5. ASSUME NEW c \in Consumers, NEW e \in Event, e = job[c].event, job[c] # Idle,
             Settled(c), job' = [job EXCEPT ![c] = Idle],
             published' = published, expired' = expired, crashes' \in Nat, crashes <= crashes',
             queued' = queued \/ queued' = queued \union {e},
             Cardinality(Recorded(e)') <= crashes' + 1,
             queued' # queued => Cardinality(Recorded(e)') <= crashes'
      PROVE  OnePlace' /\ \A f \in Event : PaidFor(f)'
  <2>1. \A d \in Consumers : job'[d] = IF d = c THEN Idle ELSE job[d]
    BY <1>0, <1>5
  <2>2. OnePlace'
    BY <1>5, <2>1 DEF CInv, OnePlace
  <2>3. \A f \in Event \ {e} : PaidFor(f)'
    BY <1>5, <2>1, OtherEvents
  <2>4. queued' = queued => ~Unfinished(e)'
    BY <1>5, <2>1, PlaceOf DEF Unfinished, CInv, OnePlace
  <2>5. PaidFor(e)'
    BY <1>5, <2>4, OwnEvent DEF PaidFor
  <2>6. QED BY <2>2, <2>3, <2>5
<1>6. ASSUME NEW c \in Consumers, Acknowledge(c), NEW e \in Event, e = job[c].event
      PROVE  OnePlace' /\ \A f \in Event : PaidFor(f)'
  <2>1. /\ job[c] # Idle /\ Settled(c) /\ job' = [job EXCEPT ![c] = Idle] /\ job[c].at = "saved"
        /\ published' = published /\ queued' = queued /\ expired' = expired
        /\ crashes' = crashes
    BY <1>6 DEF Acknowledge, Settled, Idle
  <2>2. Cardinality(Recorded(e)') <= crashes + 1
    BY <1>6, <2>1, OwnEvent DEF CInv, PaidFor
  <2>3. crashes \in Nat /\ crashes <= crashes
    BY <1>0
  <2>4. QED BY <1>5, <1>6, <2>1, <2>2, <2>3
<1>7. ASSUME NEW c \in Consumers, Raise(c), NEW e \in Event, e = job[c].event
      PROVE  OnePlace' /\ \A f \in Event : PaidFor(f)'
  <2>1. /\ job[c] # Idle /\ Settled(c) /\ job' = [job EXCEPT ![c] = Idle] /\ job[c].at # "saved"
        /\ published' = published /\ queued' = queued /\ expired' = expired
        /\ crashes' = crashes
    BY <1>7 DEF Raise, Settled, Idle
  <2>2. Cardinality(Recorded(e)) <= crashes
    BY <1>7, <2>1, PlaceOf, JobShape DEF CInv, PaidFor
  <2>3. Cardinality(Recorded(e)') <= crashes + 1
    BY <1>7, <1>0, <2>1, <2>2, OwnEvent
  <2>4. crashes \in Nat /\ crashes <= crashes
    BY <1>0
  <2>5. QED BY <1>5, <1>7, <2>1, <2>3, <2>4
<1>8. ASSUME NEW c \in Consumers, Crash(c), NEW e \in Event, e = job[c].event
      PROVE  OnePlace' /\ \A f \in Event : PaidFor(f)'
  <2>1. /\ job[c] # Idle /\ Settled(c) /\ job' = [job EXCEPT ![c] = Idle]
        /\ queued' = queued \union {e} /\ crashes' = crashes + 1
        /\ published' = published /\ expired' = expired
    BY <1>8 DEF Crash, Settled
  <2>2. crashes' \in Nat /\ crashes <= crashes'
    BY <1>0, <2>1
  <2>3. Cardinality(Recorded(e)') <= crashes + 1 => Cardinality(Recorded(e)') <= crashes' + 1
    BY <1>0, <1>8, <2>1, OwnEvent
  <2>4. CASE job[c].at = "saved"
    <3>1. Cardinality(Recorded(e)') <= crashes + 1
      BY <1>8, <2>1, <2>4, OwnEvent DEF CInv, PaidFor
    <3>2. QED BY <1>5, <1>8, <2>1, <2>2, <2>3, <3>1
  <2>5. CASE job[c].at # "saved"
    <3>1. Cardinality(Recorded(e)) <= crashes
      BY <1>8, <2>1, <2>5, PlaceOf, JobShape DEF CInv, PaidFor
    <3>2. Cardinality(Recorded(e)') <= crashes + 1
      BY <1>8, <1>0, <2>1, <3>1, OwnEvent
    <3>3. QED BY <1>5, <1>8, <2>1, <2>2, <2>3, <3>2
  <2>6. QED BY <2>4, <2>5
<1>9. CASE Cleanup
  <2>1. log' \union expired' = log \union expired /\ UNCHANGED <<published, queued, job, crashes>>
    BY <1>9 DEF Cleanup
  <2>2. \A f \in Event : Recorded(f)' = Recorded(f)
    BY <2>1 DEF Recorded
  <2>3. QED BY <2>1, <2>2 DEF CInv, OnePlace, PaidFor, Unfinished
<1>10. CASE UNCHANGED vars
  BY <1>10 DEF vars, CInv, OnePlace, PaidFor, Unfinished, Recorded
<1>11. ASSUME NEW c \in Consumers, Commit(c) \/ Acknowledge(c) \/ Raise(c) \/ Crash(c)
       PROVE  job[c] # Idle /\ job[c].event \in Event
  <2>1. job[c] # Idle
    BY <1>11 DEF Commit, Acknowledge, Raise, Crash, Idle
  <2>2. QED BY <2>1, JobShape DEF CInv
<1>12. QED
  BY <1>1, <1>2, <1>3, <1>4, <1>6, <1>7, <1>8, <1>9, <1>10, <1>11 DEF Next, Consumer

\* The trail holds an event once, and once more at most for each process that died
\* before it acknowledged, for any number of events, consumers and cleanups.
THEOREM CopiesAfterCrashes == Spec => []RecordedTwiceOnlyAfterCrashes
<1>1. Init => CInv
  <2> SUFFICES ASSUME Init PROVE OnePlace /\ \A e \in Event : PaidFor(e)
    BY TInvInit DEF CInv
  <2>1. \A e \in Event : Recorded(e) = {}
    BY DEF Init, Recorded
  <2>2. QED BY <2>1, FS_EmptySet DEF Init, OnePlace, PaidFor
<1>2. CInv => RecordedTwiceOnlyAfterCrashes
  <2>1. ASSUME CInv, NEW e \in Event PROVE Cardinality(Recorded(e)) <= 1 + crashes
    BY <2>1, FS_CardinalityType DEF CInv, PaidFor, TInv, TypeOK
  <2>2. QED BY <2>1 DEF RecordedTwiceOnlyAfterCrashes
<1>3. QED BY <1>1, <1>2, CInvNext, PTL DEF Spec

-----------------------------------------------------------------------------
(* Branches. *)

\* The rows chained to i, and the consumers about to add one.
Children(i) == {r \in log : r.previous = i}
About(i) == {c \in Consumers : job[c] # Idle /\ job[c].at # "saved" /\ job[c].previous = i}

\* A row is newer than its predecessor.
Backward ==
    /\ \A r \in log : r.previous < r.id
    /\ \A c \in Consumers : job[c] # Idle =>
          /\ job[c].previous < nextId
          /\ job[c].at # "chained" => job[c].previous < job[c].id

Narrow(i) ==
    /\ IsFiniteSet(Children(i))
    /\ Cardinality(Children(i)) + Cardinality(About(i)) <= Cardinality(Consumers)

FInv == TInv /\ Backward /\ \A i \in Nat : Narrow(i)

\* The sets of consumers are finite, and no larger than Consumers.
LEMMA AboutFinite ==
    ASSUME NEW S, S \subseteq Consumers
    PROVE  /\ IsFiniteSet(S) /\ Cardinality(S) \in Nat /\ Cardinality(Consumers) \in Nat
           /\ Cardinality(S) <= Cardinality(Consumers)
BY AuditAssumption, FS_Subset, FS_CardinalityType

\* A call can leave, and its row be added, without widening a branch.
LEMMA NarrowKept ==
    ASSUME FInv, NEW i \in Nat, NEW c \in Consumers,
           \/ Children(i)' \subseteq Children(i) /\ About(i)' \subseteq About(i)
           \/ /\ c \in About(i) /\ About(i)' \subseteq About(i) \ {c}
              /\ \E x : Children(i)' \subseteq Children(i) \union {x}
    PROVE  Narrow(i)'
<1>1. /\ IsFiniteSet(Children(i)) /\ Cardinality(Children(i)) \in Nat
      /\ Cardinality(Children(i)) + Cardinality(About(i)) <= Cardinality(Consumers)
  BY FS_CardinalityType DEF FInv, Narrow
<1>2. /\ IsFiniteSet(About(i)) /\ Cardinality(About(i)) \in Nat
      /\ Cardinality(Consumers) \in Nat
  BY AboutFinite DEF About
<1>3. CASE Children(i)' \subseteq Children(i) /\ About(i)' \subseteq About(i)
  <2>1. IsFiniteSet(Children(i)') /\ Cardinality(Children(i)') <= Cardinality(Children(i))
        /\ Cardinality(Children(i)') \in Nat
    BY <1>1, <1>3, FS_Subset, FS_CardinalityType
  <2>2. Cardinality(About(i)') <= Cardinality(About(i)) /\ Cardinality(About(i)') \in Nat
    BY <1>2, <1>3, FS_Subset, FS_CardinalityType
  <2>3. QED BY <1>1, <1>2, <2>1, <2>2 DEF Narrow
<1>4. ASSUME c \in About(i), About(i)' \subseteq About(i) \ {c},
             NEW x, Children(i)' \subseteq Children(i) \union {x}
      PROVE  Narrow(i)'
  <2>1. IsFiniteSet(Children(i) \union {x})
        /\ Cardinality(Children(i) \union {x}) <= Cardinality(Children(i)) + 1
        /\ Cardinality(Children(i) \union {x}) \in Nat
    <3> DEFINE S == Children(i)
    <3>1. IsFiniteSet(S) /\ Cardinality(S) \in Nat
      BY <1>1
    <3> HIDE DEF S
    <3>2. /\ IsFiniteSet(S \union {x})
          /\ Cardinality(S \union {x}) = IF x \in S THEN Cardinality(S) ELSE Cardinality(S) + 1
      BY <3>1, FS_AddElement
    <3>3. Cardinality(S \union {x}) <= Cardinality(S) + 1 /\ Cardinality(S \union {x}) \in Nat
      BY <3>1, <3>2
    <3>4. QED BY <3>2, <3>3 DEF S
  <2>2. IsFiniteSet(Children(i)') /\ Cardinality(Children(i)') \in Nat
        /\ Cardinality(Children(i)') <= Cardinality(Children(i) \union {x})
    BY <1>4, <2>1, FS_Subset, FS_CardinalityType
  <2>3. IsFiniteSet(About(i) \ {c})
        /\ Cardinality(About(i) \ {c}) = Cardinality(About(i)) - 1
    BY <1>2, <1>4, FS_RemoveElement
  <2>4. Cardinality(About(i)') <= Cardinality(About(i) \ {c}) /\ Cardinality(About(i)') \in Nat
    BY <1>4, <2>3, FS_Subset, FS_CardinalityType
  <2>5. QED BY <1>1, <1>2, <2>1, <2>2, <2>3, <2>4 DEF Narrow
<1>5. QED BY <1>3, <1>4

\* Nothing is chained yet to a row that was just read as the newest.
LEMMA NewestChildless == ASSUME FInv PROVE Children(Newest) = {} /\ Newest < nextId
<1>1. Newest \in Nat /\ \A r \in log : r.id <= Newest
  BY NewestRow DEF FInv
<1>2. \A r \in log : r.id \in Nat /\ r.previous \in Nat /\ r.previous < r.id
  BY DEF FInv, TInv, TypeOK, Row, Backward
<1>3. Children(Newest) = {}
  BY <1>1, <1>2 DEF Children
<1>4. CASE log = {}
  BY <1>3, <1>4 DEF Newest, Genesis, FInv, TInv, TypeOK
<1>5. CASE log # {}
  <2> DEFINE ids == {r.id : r \in log}
  <2>1. PICK m \in log : \A s \in log : s.id <= m.id
    BY <1>5 DEF FInv, TInv, NewestExists, NewestIn
  <2>2. \E i \in ids : \A r \in log : r.id <= i
    BY <2>1
  <2>3. Newest \in ids
    BY <1>5, <2>2 DEF Newest
  <2>4. QED BY <1>3, <2>3 DEF FInv, TInv, Numbered
<1>6. QED BY <1>3, <1>4, <1>5

LEMMA FInvNext == FInv /\ [Next]_vars => FInv'
<1> SUFFICES ASSUME FInv, [Next]_vars PROVE Backward' /\ \A i \in Nat : Narrow(i)'
  BY TInvNext DEF FInv
<1>0. /\ nextId \in Nat /\ TInv
      /\ \A c, d \in Consumers : \A x : job' = [job EXCEPT ![c] = x] =>
             job'[d] = IF d = c THEN x ELSE job[d]
      /\ \A d \in Consumers : job[d] # Idle => job[d].previous \in Nat
  BY JobShape DEF FInv, TInv, TypeOK
<1>1. ASSUME NEW e \in Event, Publish(e) PROVE Backward' /\ \A i \in Nat : Narrow(i)'
  BY <1>1 DEF Publish, FInv, Backward, Narrow, Children, About
<1>2. ASSUME NEW c \in Consumers, NEW e \in Event, Chain(c, e)
      PROVE  Backward' /\ \A i \in Nat : Narrow(i)'
  <2> DEFINE new == [at |-> "chained", event |-> e, previous |-> Newest, id |-> 0]
  <2>1. job' = [job EXCEPT ![c] = new] /\ job[c] = Idle /\ log' = log /\ nextId' = nextId
    BY <1>2 DEF Chain
  <2>2. new.previous = Newest /\ new.at = "chained"
    OBVIOUS
  <2> HIDE DEF new
  <2>3. \A d \in Consumers : job'[d] = IF d = c THEN new ELSE job[d]
    BY <1>0, <2>1
  <2>4. Backward'
    BY <2>1, <2>2, <2>3, NewestChildless DEF FInv, Backward
  <2>5. ASSUME NEW i \in Nat, i # Newest PROVE Narrow(i)'
    <3>1. Children(i)' = Children(i) /\ About(i)' \subseteq About(i)
      BY <2>1, <2>2, <2>3, <2>5 DEF Children, About
    <3>2. QED BY <3>1, NarrowKept
  <2>6. ASSUME NEW i \in Nat, i = Newest PROVE Narrow(i)'
    <3>1. Children(i)' = {}
      BY <2>1, <2>6, NewestChildless DEF Children
    <3>2. About(i)' \subseteq Consumers
      BY DEF About
    <3>3. Cardinality({}) = 0 /\ IsFiniteSet({})
      BY FS_EmptySet
    <3>4. QED BY <3>1, <3>2, <3>3, AboutFinite DEF Narrow
  <2>7. QED BY <2>4, <2>5, <2>6
<1>3. ASSUME NEW c \in Consumers, Insert(c) PROVE Backward' /\ \A i \in Nat : Narrow(i)'
  <2> DEFINE new == [job[c] EXCEPT !.at = "inserting", !.id = nextId]
  <2>1. job[c] # Idle /\ job[c].at = "chained"
    BY <1>3 DEF Insert, Idle
  <2>2. job' = [job EXCEPT ![c] = new] /\ log' = log /\ nextId' = nextId + 1
    BY <1>3 DEF Insert
  <2>3. new.previous = job[c].previous /\ new.id = nextId
    BY <2>1, JobShape DEF FInv, Busy
  <2> HIDE DEF new
  <2>4. \A d \in Consumers : job'[d] = IF d = c THEN new ELSE job[d]
    BY <1>0, <2>2
  <2>5. Backward'
    BY <1>0, <2>1, <2>2, <2>3, <2>4 DEF FInv, Backward
  <2>6. ASSUME NEW i \in Nat PROVE Narrow(i)'
    <3>1. Children(i)' = Children(i) /\ About(i)' \subseteq About(i)
      BY <2>1, <2>2, <2>3, <2>4 DEF Children, About
    <3>2. QED BY <3>1, NarrowKept
  <2>7. QED BY <2>5, <2>6
\* The row of a call is added, or the call ends, or both.
<1>4. ASSUME NEW c \in Consumers, NEW new, job[c] # Idle, Settled(c),
             job' = [job EXCEPT ![c] = new], nextId' = nextId,
             \/ new = Idle
             \/ new.at = "saved" /\ new.previous = job[c].previous /\ new.id = job[c].id
                /\ job[c].at = "inserting"
      PROVE  Backward' /\ \A i \in Nat : Narrow(i)'
  <2>1. \A d \in Consumers : job'[d] = IF d = c THEN new ELSE job[d]
    BY <1>0, <1>4
  <2>2. /\ Inserted(c).previous = job[c].previous /\ Inserted(c).id = job[c].id
        /\ job[c].at = "inserting" => job[c].previous < job[c].id
    BY <1>4 DEF Inserted, FInv, Backward
  <2>3. Backward'
    BY <1>4, <2>1, <2>2 DEF FInv, Backward, Settled
  <2>4. ASSUME NEW i \in Nat PROVE Narrow(i)'
    <3>1. About(i)' \subseteq About(i) /\ c \notin About(i)'
      BY <1>4, <2>1 DEF About
    <3>2. CASE log' = log
      <4>1. Children(i)' = Children(i)
        BY <3>2 DEF Children
      <4>2. QED BY <3>1, <4>1, NarrowKept
    <3>3. CASE job[c].at = "inserting" /\ log' = log \union {Inserted(c)} /\ job[c].previous = i
      <4>1. c \in About(i) /\ About(i)' \subseteq About(i) \ {c}
        BY <1>4, <3>1, <3>3 DEF About
      <4>2. Children(i)' \subseteq Children(i) \union {Inserted(c)}
        BY <3>3 DEF Children
      <4>3. QED BY <4>1, <4>2, NarrowKept
    <3>4. CASE log' = log \union {Inserted(c)} /\ job[c].previous # i
      <4>1. Children(i)' = Children(i)
        BY <2>2, <3>4 DEF Children
      <4>2. QED BY <3>1, <4>1, NarrowKept
    <3>5. QED BY <1>4, <3>2, <3>3, <3>4 DEF Settled
  <2>5. QED BY <2>3, <2>4
<1>5. ASSUME NEW c \in Consumers, Commit(c) PROVE Backward' /\ \A i \in Nat : Narrow(i)'
  <2> DEFINE new == [job[c] EXCEPT !.at = "saved"]
  <2>1. job[c] # Idle /\ job[c].at = "inserting" /\ Settled(c)
        /\ job' = [job EXCEPT ![c] = new] /\ nextId' = nextId
    BY <1>5 DEF Commit, Idle, Settled
  <2>2. new.at = "saved" /\ new.previous = job[c].previous /\ new.id = job[c].id
    BY <2>1, JobShape DEF FInv, Busy
  <2> HIDE DEF new
  <2>3. QED BY <1>4, <2>1, <2>2
<1>6. ASSUME NEW c \in Consumers, Acknowledge(c) \/ Raise(c) \/ Crash(c)
      PROVE  Backward' /\ \A i \in Nat : Narrow(i)'
  <2>1. job[c] # Idle /\ Settled(c) /\ job' = [job EXCEPT ![c] = Idle] /\ nextId' = nextId
    BY <1>6 DEF Acknowledge, Raise, Crash, Settled, Idle
  <2>2. QED BY <1>4, <2>1
<1>7. CASE Cleanup
  <2>1. log' \subseteq log /\ job' = job /\ nextId' = nextId
    BY <1>7 DEF Cleanup
  <2>2. Backward'
    BY <2>1 DEF FInv, Backward
  <2>3. ASSUME NEW i \in Nat PROVE Narrow(i)'
    <3>1. Children(i)' \subseteq Children(i) /\ About(i)' = About(i)
      BY <2>1 DEF Children, About
    <3>2. IsFiniteSet(Children(i)') /\ Cardinality(Children(i)') <= Cardinality(Children(i))
      BY <3>1, FS_Subset DEF FInv, Narrow
    <3>3. /\ Cardinality(Children(i)) \in Nat /\ Cardinality(Children(i)') \in Nat
          /\ Cardinality(About(i)) \in Nat /\ Cardinality(Consumers) \in Nat
      BY <3>2, FS_CardinalityType, AboutFinite DEF FInv, Narrow, About
    <3>4. QED BY <3>1, <3>2, <3>3 DEF FInv, Narrow
  <2>4. QED BY <2>2, <2>3
<1>8. CASE UNCHANGED vars
  BY <1>8 DEF vars, FInv, Backward, Narrow, Children, About
<1>9. QED
  BY <1>1, <1>2, <1>3, <1>5, <1>6, <1>7, <1>8 DEF Next, Consumer

\* No row is the predecessor of more rows than there are consumers, for any number
\* of consumers, crashes and cleanups.
THEOREM BranchesBounded == Spec => []ForksBounded
<1>1. Init => FInv
  <2> SUFFICES ASSUME Init PROVE Backward /\ \A i \in Nat : Narrow(i)
    BY TInvInit DEF FInv
  <2>1. ASSUME NEW i \in Nat PROVE Narrow(i)
    <3>1. Children(i) = {} /\ About(i) = {}
      BY DEF Init, Children, About
    <3>2. QED BY <3>1, FS_EmptySet, AboutFinite DEF Narrow
  <2>2. QED BY <2>1 DEF Init, Backward
<1>2. FInv => ForksBounded
  <2> SUFFICES ASSUME FInv, NEW i \in 0 .. nextId
               PROVE  Cardinality(Children(i)) <= Cardinality(Consumers)
    BY DEF ForksBounded, Children
  <2>1. i \in Nat /\ About(i) \subseteq Consumers
    BY DEF About, FInv, TInv, TypeOK
  <2>2. Narrow(i)
    BY <2>1 DEF FInv
  <2>3. Cardinality(About(i)) \in Nat /\ Cardinality(Children(i)) \in Nat
        /\ Cardinality(Consumers) \in Nat
    BY <2>1, <2>2, AboutFinite, FS_CardinalityType DEF Narrow
  <2>4. QED BY <2>2, <2>3 DEF Narrow
<1>3. QED BY <1>1, <1>2, FInvNext, PTL DEF Spec
=============================================================================
