-------------------------- MODULE UnitOfWorkProofs --------------------------
(***************************************************************************)
(* Proofs about UnitOfWork for any commands, prices and numbers of         *)
(* attempts; and about Delivery, for any rows whose way is followed.       *)
(***************************************************************************)
EXTENDS Delivery, TLAPS

Id(c) == <<c, attempt[c]>>

\* Nothing of attempt a of command c has reached the database.
Untouched(c, a) ==
    /\ <<c, a>> \notin changed
    /\ \A e \in Event : <<c, a, e>> \notin rows

\* The attempt is before its first commit: all its events are pending, and so
\* is the change that they are about; the audit bus has heard of it n times.
Pending(c, n) ==
    /\ Untouched(c, attempt[c])
    /\ raised[c] = Raised(c, seen[c])
    /\ MustWrite(c, seen[c]) => dirty[c]
    /\ c \in Singles => (Id(c) \in moot <=> ~dirty[c])
    /\ audits[c][attempt[c]] = IF dirty[c] THEN n ELSE 0

\* The attempt is between its two commits.
Halfway(c) ==
    /\ c \in Updates
    /\ ~dirty[c]
    /\ raised[c] = <<"ProductPriceChanged">>
    /\ <<c, attempt[c], "ProductUpdated">> \in rows
    /\ Id(c) \in repriced

\* The attempt has stored every event it owes.
Announced(c) ==
    /\ c \in Updates /\ Id(c) \in repriced =>
          <<c, attempt[c], "ProductPriceChanged">> \in rows
    /\ c \in Singles => <<c, attempt[c], "Single">> \in rows

Stored(c) == ~dirty[c] /\ raised[c] = <<>> /\ Announced(c)

\* Where an attempt can be, by its pc.
Placed(c) ==
    /\ pc[c] # "idle" => attempt[c] \in Attempt
    /\ pc[c] = "idle" => attempt[c] = 0
    /\ pc[c] = "loaded" => Pending(c, 0)
    /\ pc[c] = "dispatching" => Pending(c, 1) \/ Halfway(c) \/ Stored(c)
    /\ pc[c] = "committing" => Pending(c, 2) \/ Halfway(c)
    /\ pc[c] = "succeeded" => Announced(c)

\* Attempts to come have left no trace.
Unborn(c) ==
    \A a \in Attempt :
        a > attempt[c] => Untouched(c, a) /\ <<c, a>> \notin moot /\ audits[c][a] = 0

UInv ==
    /\ TypeOK
    /\ \A c \in Commands : Placed(c) /\ Unborn(c)
    /\ SinglesAreAtomic
    /\ AnnouncedPricesWereWritten
    /\ AuditsAroundCommit

-----------------------------------------------------------------------------
\* The queues of events that a context can hold, and what is left of them.
LEMMA Queues ==
    /\ \A x \in Event : /\ <<x>> \in Seq(Event) /\ <<x>> # <<>>
                        /\ Head(<<x>>) = x /\ Tail(<<x>>) = <<>>
    /\ \A x, y \in Event : /\ <<x, y>> \in Seq(Event) /\ <<x, y>> # <<>>
                           /\ Head(<<x, y>>) = x /\ Tail(<<x, y>>) = <<y>>
    /\ <<>> \in Seq(Event)
OBVIOUS

LEMMA RaisedQueue ==
    ASSUME NEW c \in Commands, NEW loaded
    PROVE  Raised(c, loaded) \in Seq(Event) /\ Raised(c, loaded) # <<>>
BY Queues DEF Raised, Event

LEMMA UInvInit == Init => UInv
<1> SUFFICES ASSUME Init PROVE UInv
  OBVIOUS
<1> USE UnitOfWorkAssumption DEF Init, Attempt
<1>1. TypeOK
  BY Queues DEF TypeOK, Active
<1>2. ASSUME NEW c \in Commands PROVE Placed(c) /\ Unborn(c)
  BY DEF Placed, Unborn, Untouched
<1>3. SinglesAreAtomic /\ AnnouncedPricesWereWritten /\ AuditsAroundCommit
  BY DEF SinglesAreAtomic, AnnouncedPricesWereWritten, AuditsAroundCommit, Commands
<1>4. QED BY <1>1, <1>2, <1>3 DEF UInv

\* A step of one command leaves the others where they are.
LEMMA OthersStay ==
    ASSUME NEW c \in Commands, NEW d \in Commands,
           Placed(d), Unborn(d),
           pc'[d] = pc[d], attempt'[d] = attempt[d], seen'[d] = seen[d],
           raised'[d] = raised[d], dirty'[d] = dirty[d], audits'[d] = audits[d],
           \A a \in Attempt, e \in Event : <<d, a, e>> \in rows' <=> <<d, a, e>> \in rows,
           \A a \in Attempt : <<d, a>> \in changed' <=> <<d, a>> \in changed,
           \A a \in Attempt : <<d, a>> \in repriced' <=> <<d, a>> \in repriced,
           \A a \in Attempt : <<d, a>> \in moot' <=> <<d, a>> \in moot
    PROVE  Placed(d)' /\ Unborn(d)'
<1>1. \A a \in Attempt : Untouched(d, a)' <=> Untouched(d, a)
  BY DEF Untouched
<1>2. Unborn(d)'
  BY <1>1 DEF Unborn
<1>3. ASSUME attempt[d] \in Attempt
      PROVE  /\ \A n : Pending(d, n) => Pending(d, n)'
             /\ Halfway(d) => Halfway(d)'
             /\ Announced(d) => Announced(d)'
             /\ Stored(d) => Stored(d)'
  BY <1>1, <1>3 DEF Pending, Halfway, Announced, Stored, Id, Raised, Reprices, MustWrite, Event
<1>4. Placed(d)'
  BY <1>1, <1>3 DEF Placed
<1>5. QED BY <1>2, <1>4

\* The steps that do not touch the database: the command's own place is all that
\* is left to show.
LEMMA QuietStep ==
    ASSUME UInv, NEW c \in Commands, TypeOK', UNCHANGED database,
           \A d \in Commands \ {c} :
              /\ pc'[d] = pc[d] /\ attempt'[d] = attempt[d] /\ seen'[d] = seen[d]
              /\ raised'[d] = raised[d] /\ dirty'[d] = dirty[d] /\ audits'[d] = audits[d],
           \A d \in Commands \ {c}, a \in Attempt : <<d, a>> \in moot' <=> <<d, a>> \in moot,
           UNCHANGED moot \/ SinglesAreAtomic',
           Placed(c)', Unborn(c)',
           \A a \in Attempt : /\ audits'[c][a] <= 2
                              /\ <<c, a>> \in changed => audits'[c][a] = audits[c][a]
    PROVE  UInv'
<1>1. \A d \in Commands : Placed(d)' /\ Unborn(d)'
  <2>1. ASSUME NEW d \in Commands \ {c} PROVE Placed(d)' /\ Unborn(d)'
    <3>1. UNCHANGED <<rows, changed, repriced>>
      BY DEF database
    <3>2. Placed(d) /\ Unborn(d)
      BY DEF UInv
    <3>3. QED BY <3>1, <3>2, OthersStay
  <2>2. QED BY <2>1
<1>2. SinglesAreAtomic' /\ AnnouncedPricesWereWritten'
  BY DEF UInv, SinglesAreAtomic, AnnouncedPricesWereWritten, database
<1>3. AuditsAroundCommit'
  <2>1. UNCHANGED changed
    BY DEF database
  <2>2. ASSUME NEW d \in Commands, NEW a \in Attempt
        PROVE  /\ <<d, a>> \in changed' => audits'[d][a] = 2
               /\ audits'[d][a] <= 2
    <3>1. /\ <<d, a>> \in changed => audits[d][a] = 2
          /\ audits[d][a] <= 2
      BY DEF UInv, AuditsAroundCommit
    <3>2. CASE d = c
      BY <2>1, <3>1, <3>2
    <3>3. CASE d # c
      BY <2>1, <3>1, <3>3
    <3>4. QED BY <3>2, <3>3
  <2>3. QED BY <2>2 DEF AuditsAroundCommit
<1>4. QED BY <1>1, <1>2, <1>3 DEF UInv

LEMMA HandleStep == ASSUME UInv, NEW c \in Commands, Handle(c) PROVE UInv'
<1> USE DEF UInv
<1> DEFINE a == attempt[c] + 1
<1>1. /\ attempt' = [attempt EXCEPT ![c] = a]
      /\ seen' = [seen EXCEPT ![c] = price]
      /\ raised' = [raised EXCEPT ![c] = Raised(c, price)]
      /\ pc' = [pc EXCEPT ![c] = "loaded"]
      /\ UNCHANGED <<database, audits>>
      /\ attempt[c] < MaxAttempts
  BY DEF Handle
<1>2. PICK d \in BOOLEAN :
          /\ MustWrite(c, price) => d
          /\ dirty' = [dirty EXCEPT ![c] = d]
          /\ moot' = IF d \/ c \in Updates THEN moot ELSE moot \union {<<c, a>>}
  BY DEF Handle
<1>3. a \in Attempt /\ a > attempt[c]
  BY <1>1, UnitOfWorkAssumption DEF TypeOK, Attempt
<1>4. TypeOK'
  <2>1. raised' \in [Commands -> Seq(Event)]
    BY <1>1, RaisedQueue DEF TypeOK
  <2>2. dirty' \in [Commands -> BOOLEAN]
    BY <1>2 DEF TypeOK
  <2>3. /\ attempt' \in [Commands -> 0 .. MaxAttempts]
        /\ seen' \in [Commands -> Prices]
        /\ pc' \in [Commands -> Active \union {"idle", "succeeded", "failed"}]
    BY <1>1, <1>3 DEF TypeOK, Attempt, Active
  <2>4. moot' \subseteq Rewrites \X Attempt
    BY <1>2, <1>3 DEF TypeOK, MustWrite, Commands
  <2>5. QED BY <1>1, <2>1, <2>2, <2>3, <2>4 DEF TypeOK, database
<1>5. /\ attempt'[c] = a /\ seen'[c] = price /\ raised'[c] = Raised(c, price)
      /\ pc'[c] = "loaded" /\ dirty'[c] = d
  BY <1>1, <1>2 DEF TypeOK
<1>6. \A b \in Attempt : Untouched(c, b)' <=> Untouched(c, b)
  BY <1>1 DEF Untouched, database
<1>7. Pending(c, 0)' /\ SinglesAreAtomic'
  <2>1. Untouched(c, a) /\ <<c, a>> \notin moot /\ audits[c][a] = 0
    BY <1>3 DEF Unborn
  <2>2. Raised(c, seen[c])' = Raised(c, price) /\ (MustWrite(c, seen[c])' <=> MustWrite(c, price))
    BY <1>5 DEF Raised, Reprices, MustWrite
  <2>3. c \in Singles => (<<c, a>> \in moot' <=> ~d)
    BY <1>2, <2>1, UnitOfWorkAssumption
  <2>4. Pending(c, 0)'
    BY <1>1, <1>2, <1>3, <1>5, <1>6, <2>1, <2>2, <2>3 DEF Pending, Id
  <2>5. SinglesAreAtomic'
    BY <1>1, <1>2, <2>1 DEF SinglesAreAtomic, Untouched, database
  <2>6. QED BY <2>4, <2>5
<1>8. Placed(c)'
  BY <1>3, <1>5, <1>7 DEF Placed
<1>9. Unborn(c)'
  BY <1>1, <1>2, <1>3, <1>5, <1>6 DEF Unborn, TypeOK, Attempt
<1>10. QED
  <2>0. \A e \in Commands \ {c}, b \in Attempt : <<e, b>> \in moot' <=> <<e, b>> \in moot
    BY <1>2
  <2>1. \A b \in Attempt : audits[c][b] <= 2
    BY DEF AuditsAroundCommit
  <2>2. QED BY <1>1, <1>2, <1>4, <1>7, <1>8, <1>9, <2>0, <2>1, QuietStep DEF TypeOK

LEMMA FailStep == ASSUME UInv, NEW c \in Commands, Fail(c) PROVE UInv'
<1> USE DEF UInv
<1>1. /\ pc[c] \in Active
      /\ pc' = [pc EXCEPT ![c] = "failed"]
      /\ raised' = [raised EXCEPT ![c] = <<>>]
      /\ dirty' = [dirty EXCEPT ![c] = FALSE]
      /\ UNCHANGED <<database, moot, audits, attempt, seen>>
  BY DEF Fail
<1>2. TypeOK'
  BY <1>1, Queues DEF TypeOK, database
<1>3. Placed(c)'
  BY <1>1 DEF Placed, TypeOK, Active
<1>4. Unborn(c)'
  BY <1>1 DEF Unborn, Untouched, database
<1>5. \A b \in Attempt : audits[c][b] <= 2
  BY DEF AuditsAroundCommit
<1>6. QED BY <1>1, <1>2, <1>3, <1>4, <1>5, QuietStep DEF TypeOK

\* The audit interceptor counts only in its own command's current attempt.
LEMMA AuditCount ==
    ASSUME TypeOK, NEW c \in Commands, attempt[c] \in Attempt, AuditIfDirty(c)
    PROVE  /\ audits' \in [Commands -> [Attempt -> Nat]]
           /\ \A d \in Commands \ {c} : audits'[d] = audits[d]
           /\ \A b \in Attempt \ {attempt[c]} : audits'[c][b] = audits[c][b]
           /\ audits'[c][attempt[c]] =
                 IF dirty[c] THEN audits[c][attempt[c]] + 1 ELSE audits[c][attempt[c]]
BY DEF TypeOK, AuditIfDirty

\* What a SaveChanges does before it writes: the audit bus hears of the change.
LEMMA AuditedStep ==
    ASSUME UInv, NEW c \in Commands, attempt[c] \in Attempt, AuditIfDirty(c),
           NEW n \in {0, 1}, Pending(c, n) \/ ~dirty[c],
           NEW next \in Active, pc' = [pc EXCEPT ![c] = next],
           UNCHANGED <<database, moot, attempt, seen, raised, dirty>>, Placed(c)'
    PROVE  UInv'
<1> USE DEF UInv
<1>1. audits[c][attempt[c]] \in Nat
  BY DEF TypeOK
<1>2. TypeOK'
  BY AuditCount DEF TypeOK, database
<1>3. Unborn(c)'
  <2>1. \A b \in Attempt : Untouched(c, b)' <=> Untouched(c, b)
    BY DEF Untouched, database
  <2>2. \A b \in Attempt : b > attempt[c] => b # attempt[c]
    BY DEF TypeOK, Attempt
  <2>3. QED BY <2>1, <2>2, AuditCount DEF Unborn
<1>4. ASSUME NEW b \in Attempt
      PROVE  /\ audits'[c][b] <= 2
             /\ <<c, b>> \in changed => audits'[c][b] = audits[c][b]
  <2>1. audits[c][b] <= 2
    BY DEF AuditsAroundCommit
  <2>2. CASE b # attempt[c]
    BY <2>1, <2>2, AuditCount
  <2>3. CASE b = attempt[c] /\ ~dirty[c]
    BY <2>1, <2>3, AuditCount
  <2>4. CASE b = attempt[c] /\ Pending(c, n)
    BY <1>1, <2>1, <2>4, AuditCount DEF Pending, Untouched
  <2>5. QED BY <2>2, <2>3, <2>4
<1>5. QED BY <1>2, <1>3, <1>4, AuditCount, QuietStep DEF TypeOK

\* Having heard of a pending attempt n times, the bus hears of it once more.
LEMMA PendingOn ==
    ASSUME UInv, NEW c \in Commands, attempt[c] \in Attempt, AuditIfDirty(c),
           NEW n \in {0, 1}, Pending(c, n),
           UNCHANGED <<database, moot, attempt, seen, raised, dirty>>
    PROVE  Pending(c, n + 1)'
<1>1. Untouched(c, attempt[c])' <=> Untouched(c, attempt[c])
  BY DEF Untouched, database
<1>2. Raised(c, seen[c])' = Raised(c, seen[c])
      /\ (MustWrite(c, seen[c])' <=> MustWrite(c, seen[c]))
  BY DEF Raised, Reprices, MustWrite
<1>3. audits'[c][attempt'[c]] = IF dirty'[c] THEN n + 1 ELSE 0
  BY AuditCount DEF Pending, UInv
<1>4. QED BY <1>1, <1>2, <1>3 DEF Pending, Id

LEMMA BeginStep == ASSUME UInv, NEW c \in Commands, BeginSaveChanges(c) PROVE UInv'
<1>1. attempt[c] \in Attempt /\ Pending(c, 0)
  BY DEF UInv, Placed, BeginSaveChanges
<1>2. Pending(c, 1)'
  BY <1>1, PendingOn DEF BeginSaveChanges
<1>3. pc'[c] = "dispatching" /\ attempt'[c] = attempt[c]
  BY DEF BeginSaveChanges, UInv, TypeOK
<1>4. Placed(c)'
  BY <1>1, <1>2, <1>3 DEF Placed
<1>5. QED BY <1>1, <1>4, AuditedStep DEF BeginSaveChanges, Active

LEMMA AddEventStep == ASSUME UInv, NEW c \in Commands, AddEvent(c) PROVE UInv'
<1>1. attempt[c] \in Attempt /\ (Pending(c, 1) \/ Halfway(c))
  BY DEF UInv, Placed, Stored, AddEvent
<1>2. Pending(c, 2)' \/ Halfway(c)'
  <2>1. CASE Pending(c, 1)
    BY <1>1, <2>1, PendingOn DEF AddEvent
  <2>2. CASE Halfway(c)
    BY <2>2 DEF Halfway, Id, AddEvent, database
  <2>3. QED BY <1>1, <2>1, <2>2
<1>3. pc'[c] = "committing" /\ attempt'[c] = attempt[c]
  BY DEF AddEvent, UInv, TypeOK
<1>4. Placed(c)'
  BY <1>1, <1>2, <1>3 DEF Placed
<1>5. Pending(c, 1) \/ ~dirty[c]
  BY <1>1 DEF Halfway
<1>6. QED BY <1>1, <1>4, <1>5, AuditedStep DEF AddEvent, Active

LEMMA CommitCommandStep == ASSUME UInv, NEW c \in Commands, CommitCommand(c) PROVE UInv'
<1> USE DEF UInv
<1>1. Stored(c) /\ attempt[c] \in Attempt
  <2>1. /\ pc[c] = "dispatching" /\ raised[c] = <<>>
        /\ Pending(c, 1) \/ Halfway(c) \/ Stored(c)
        /\ attempt[c] \in Attempt
    BY DEF Placed, CommitCommand
  <2>2. ~Pending(c, 1)
    BY <2>1, RaisedQueue DEF Pending
  <2>3. ~Halfway(c)
    BY <2>1, Queues DEF Halfway, Event
  <2>4. QED BY <2>1, <2>2, <2>3
<1>2. UNCHANGED <<database, moot, attempt, seen, raised, audits>>
  BY <1>1 DEF CommitCommand, Stored, database
<1>3. dirty' = [dirty EXCEPT ![c] = FALSE] /\ pc' = [pc EXCEPT ![c] = "succeeded"]
  BY DEF CommitCommand
<1>4. TypeOK'
  <2>1. dirty' \in [Commands -> BOOLEAN] /\ pc' \in [Commands -> Active \union {"idle",
      "succeeded", "failed"}]
    BY <1>3 DEF TypeOK, Active
  <2>2. QED BY <1>2, <2>1 DEF TypeOK, database
<1>5. Placed(c)'
  BY <1>1, <1>2, <1>3 DEF Placed, Stored, Announced, Id, TypeOK, database
<1>6. Unborn(c)'
  BY <1>2 DEF Unborn, Untouched, database
<1>7. \A b \in Attempt : audits[c][b] <= 2
  BY DEF AuditsAroundCommit
<1>8. QED BY <1>2, <1>3, <1>4, <1>5, <1>6, <1>7, QuietStep DEF TypeOK

\* A commit of an event: the attempt's first writes the change with the row, its
\* second writes a row only.
LEMMA CommitEventStep == ASSUME UInv, NEW c \in Commands, CommitEvent(c) PROVE UInv'
<1> USE DEF UInv
<1> DEFINE a == attempt[c]
           writesPrice == dirty[c] /\ Reprices(c, seen[c])
           e == Head(raised[c])
<1>1. /\ pc[c] = "committing"
      /\ rows' = rows \union {<<c, a, e>>}
      /\ changed' = IF dirty[c] THEN changed \union {<<c, a>>} ELSE changed
      /\ repriced' = IF writesPrice THEN repriced \union {<<c, a>>} ELSE repriced
      /\ price' = IF writesPrice THEN NewPrice[c] ELSE price
      /\ dirty' = [dirty EXCEPT ![c] = FALSE]
      /\ raised' = [raised EXCEPT ![c] = Tail(@)]
      /\ pc' = [pc EXCEPT ![c] = "dispatching"]
      /\ UNCHANGED <<moot, audits, attempt, seen>>
  BY DEF CommitEvent
<1>2. a \in Attempt /\ (Pending(c, 2) \/ Halfway(c))
  BY <1>1 DEF Placed
<1>3. /\ raised'[c] = Tail(raised[c]) /\ ~dirty'[c] /\ pc'[c] = "dispatching"
      /\ attempt'[c] = a
  BY <1>1 DEF TypeOK
\* The three ways to commit: the only event, the first of two, the last of two.
<1>4. \/ /\ Pending(c, 2) /\ ~(c \in Updates /\ writesPrice)
         /\ raised[c] = <<e>> /\ e \in {"Single", "ProductUpdated"}
         /\ raised'[c] = <<>>
         /\ c \in Singles => e = "Single" /\ (Id(c) \in moot <=> ~dirty[c])
      \/ /\ Pending(c, 2) /\ c \in Updates /\ c \notin Singles /\ writesPrice
         /\ raised[c] = <<"ProductUpdated", "ProductPriceChanged">>
         /\ e = "ProductUpdated"
         /\ raised'[c] = <<"ProductPriceChanged">>
      \/ /\ Halfway(c) /\ c \in Updates /\ c \notin Singles /\ ~dirty[c]
         /\ e = "ProductPriceChanged"
         /\ raised'[c] = <<>>
  <2>1. CASE Halfway(c)
    BY <1>3, <2>1, Queues, UnitOfWorkAssumption DEF Halfway, Event
  <2>2. CASE Pending(c, 2) /\ c \in Singles
    BY <1>3, <2>2, Queues, UnitOfWorkAssumption DEF Pending, Raised, MustWrite, Event
  <2>3. CASE Pending(c, 2) /\ c \notin Singles /\ ~Reprices(c, seen[c])
    BY <1>3, <2>3, Queues DEF Pending, Raised, MustWrite, Event
  <2>4. CASE Pending(c, 2) /\ c \notin Singles /\ Reprices(c, seen[c])
    BY <1>3, <2>4, Queues DEF Pending, Raised, Reprices, MustWrite, Event
  <2>5. QED BY <1>2, <2>1, <2>2, <2>3, <2>4
<1>5. e \in Event
  BY <1>4 DEF Event
<1>6. raised'[c] \in Seq(Event)
  BY <1>4, Queues DEF Event
<1>7. \A d \in Commands, b \in Attempt : d # c \/ b # a =>
          /\ \A x \in Event : <<d, b, x>> \in rows' <=> <<d, b, x>> \in rows
          /\ <<d, b>> \in changed' <=> <<d, b>> \in changed
          /\ <<d, b>> \in repriced' <=> <<d, b>> \in repriced
  BY <1>1
<1>8. \A x \in Event : <<c, a, x>> \in rows' <=> <<c, a, x>> \in rows \/ x = e
  BY <1>1
<1>9. TypeOK'
  <2>1. raised' \in [Commands -> Seq(Event)]
    BY <1>1, <1>3, <1>6 DEF TypeOK
  <2>2. /\ dirty' \in [Commands -> BOOLEAN]
        /\ pc' \in [Commands -> Active \union {"idle", "succeeded", "failed"}]
    BY <1>1 DEF TypeOK, Active
  <2>3. rows' \subseteq Commands \X Attempt \X Event
    BY <1>1, <1>2, <1>5 DEF TypeOK
  <2>4. changed' \subseteq Commands \X Attempt /\ repriced' \subseteq changed'
    BY <1>1, <1>2 DEF TypeOK
  <2>5. price' \in Prices
    BY <1>1, UnitOfWorkAssumption DEF TypeOK, Reprices
  <2>6. QED BY <1>1, <2>1, <2>2, <2>3, <2>4, <2>5 DEF TypeOK
<1>10. ASSUME NEW d \in Commands PROVE Placed(d)' /\ Unborn(d)'
  <2>1. CASE d # c
    BY <1>1, <1>7, <2>1, OthersStay DEF TypeOK
  <2>2. CASE d = c
    <3>1. Unborn(c)'
      <4>1. ASSUME NEW b \in Attempt, b > a PROVE Untouched(c, b)' /\ audits'[c][b] = 0
        <5>1. b # a
          BY <1>2, <4>1 DEF Attempt
        <5>2. Untouched(c, b) /\ audits[c][b] = 0
          BY <4>1 DEF Unborn
        <5>3. QED BY <1>1, <1>7, <5>1, <5>2 DEF Untouched
      <4>2. QED BY <1>1, <4>1 DEF Unborn
    <3>2. Halfway(c)' \/ Stored(c)'
      BY <1>1, <1>3, <1>4, <1>8, UnitOfWorkAssumption
         DEF Halfway, Stored, Announced, Id, Event, Pending, Untouched, TypeOK
    <3>3. Placed(c)'
      BY <1>2, <1>3, <3>2 DEF Placed
    <3>4. QED BY <2>2, <3>1, <3>3
  <2>3. QED BY <2>1, <2>2
<1>11. SinglesAreAtomic'
  <2>1. ASSUME NEW d \in Singles, NEW b \in Attempt
        PROVE  IF <<d, b>> \in moot' THEN <<d, b>> \notin changed'
               ELSE <<d, b>> \in changed' <=> <<d, b, "Single">> \in rows'
    <3>1. d \in Commands /\ "Single" \in Event
      BY DEF Commands, Event
    <3>2. IF <<d, b>> \in moot THEN <<d, b>> \notin changed
          ELSE <<d, b>> \in changed <=> <<d, b, "Single">> \in rows
      BY DEF SinglesAreAtomic
    <3>3. CASE d # c \/ b # a
      BY <1>1, <1>7, <3>1, <3>2, <3>3
    <3>4. CASE d = c /\ b = a
      <4>1. /\ Pending(c, 2) /\ e = "Single" /\ c \in Singles
            /\ <<c, a>> \in moot <=> ~dirty[c]
        BY <1>4, <3>4, UnitOfWorkAssumption DEF Id
      <4>2. <<c, a>> \notin changed
        BY <4>1 DEF Pending, Untouched
      <4>3. QED BY <1>1, <3>4, <4>1, <4>2
    <3>5. QED BY <3>3, <3>4
  <2>2. QED BY <2>1 DEF SinglesAreAtomic
<1>12. AnnouncedPricesWereWritten'
  <2>1. ASSUME NEW d \in Updates, NEW b \in Attempt, <<d, b, "ProductPriceChanged">> \in rows'
        PROVE  <<d, b>> \in repriced' /\ <<d, b, "ProductUpdated">> \in rows'
    <3>1. d \in Commands /\ {"ProductUpdated", "ProductPriceChanged"} \subseteq Event
      BY DEF Commands, Event
    <3>2. CASE <<d, b, "ProductPriceChanged">> \in rows
      BY <1>1, <3>2 DEF AnnouncedPricesWereWritten
    <3>3. CASE <<d, b, "ProductPriceChanged">> \notin rows
      <4>1. d = c /\ b = a /\ e = "ProductPriceChanged"
        BY <1>1, <2>1, <3>3
      <4>2. Halfway(c)
        BY <1>4, <4>1
      <4>3. QED BY <1>1, <4>1, <4>2 DEF Halfway, Id
    <3>4. QED BY <3>2, <3>3
  <2>2. QED BY <2>1 DEF AnnouncedPricesWereWritten
<1>13. AuditsAroundCommit'
  <2>1. ASSUME NEW d \in Commands, NEW b \in Attempt
        PROVE  (<<d, b>> \in changed' => audits'[d][b] = 2) /\ audits'[d][b] <= 2
    <3>1. (<<d, b>> \in changed => audits[d][b] = 2) /\ audits[d][b] <= 2 /\ audits' = audits
      BY <1>1 DEF AuditsAroundCommit
    <3>2. CASE d = c /\ b = a /\ dirty[c]
      BY <1>4, <3>1, <3>2 DEF Pending
    <3>3. CASE ~(d = c /\ b = a /\ dirty[c])
      BY <1>1, <3>1, <3>3
    <3>4. QED BY <3>2, <3>3
  <2>2. QED BY <2>1 DEF AuditsAroundCommit
<1>14. QED BY <1>9, <1>10, <1>11, <1>12, <1>13

LEMMA UInvNext == UInv /\ [Next]_vars => UInv'
<1> SUFFICES ASSUME UInv, [Next]_vars PROVE UInv'
  OBVIOUS
<1>1. CASE UNCHANGED vars
  <2>1. UNCHANGED <<price, rows, changed, repriced, moot, audits, pc, attempt, seen, raised,
                  dirty>>
    BY <1>1 DEF vars, database
  <2>2. TypeOK'
    BY <2>1 DEF UInv, TypeOK
  <2>3. \A c \in Commands : Placed(c)' /\ Unborn(c)'
    BY <2>1, OthersStay DEF UInv
  <2>4. SinglesAreAtomic' /\ AnnouncedPricesWereWritten' /\ AuditsAroundCommit'
    BY <2>1 DEF UInv, SinglesAreAtomic, AnnouncedPricesWereWritten, AuditsAroundCommit
  <2>5. QED BY <2>2, <2>3, <2>4 DEF UInv
<1>2. CASE Next
  BY <1>2, HandleStep, BeginStep, AddEventStep, CommitEventStep, CommitCommandStep, FailStep
     DEF Next
<1>3. QED BY <1>1, <1>2

LEMMA UInvHolds == Spec => []UInv
BY UInvInit, UInvNext, PTL DEF Spec

-----------------------------------------------------------------------------
\* Types: the database holds rows of attempts that were made, and a price that
\* was written belongs to a change that was.
THEOREM UnitTypes == Spec => []TypeOK
BY UInvHolds, PTL DEF UInv

\* For the commands that raise one event the outbox is transactional, as the
\* architecture says, wherever they fail and however often they are sent: the one
\* nested SaveChanges commits the change together with its row.
THEOREM SinglesAtomic == Spec => []SinglesAreAtomic
BY UInvHolds, PTL DEF UInv

\* Whatever concurrent updates loaded and wherever they failed, a price that the
\* outbox announces was written, by the same attempt.
THEOREM NoFalseAnnouncement == Spec => []AnnouncedPricesWereWritten
BY UInvHolds, PTL DEF UInv

\* A command that reports success has announced the price it wrote: only failed
\* commands leave one unannounced.
THEOREM SuccessAnnounces == Spec => []SuccessMeansAnnounced
<1>1. UInv => SuccessMeansAnnounced
  BY DEF UInv, Placed, Announced, Id, SuccessMeansAnnounced, Commands
<1>2. QED BY UInvHolds, <1>1, PTL

\* The audit bus hears of every change before it is committed, and no more than
\* twice of each attempt's.
THEOREM AuditsBeforeCommit == Spec => []AuditsAroundCommit
BY UInvHolds, PTL DEF UInv
-----------------------------------------------------------------------------
(* From the command to the consumers: the unit of work with the outbox.       *)

\* A step of the unit of work stores one row at most, and never removes one.
LEMMA OneRowAtMost ==
    ASSUME [Next]_vars
    PROVE  rows' = rows \/ \E m : rows' = rows \union {m}
BY DEF Next, Handle, BeginSaveChanges, AddEvent, CommitEvent, CommitCommand, Fail, vars, database

\* What the outbox knows of a row it was given, and why it may be done with it.
Kept ==
    /\ DeliveryTypes
    /\ sent \subseteq rows
    /\ settled \subseteq rows
    /\ \A m \in settled : m \in sent \/ refusals[m] >= MinAttempts

LEMMA KeptInit == DeliveryInit => Kept
BY UInvInit DEF DeliveryInit, Box!Init, Kept, DeliveryTypes, UInv

LEMMA KeptNext == Kept /\ TypeOK' /\ [DeliveryNext]_deliveryVars => Kept'
<1> SUFFICES ASSUME Kept, TypeOK', [DeliveryNext]_deliveryVars PROVE Kept'
  OBVIOUS
<1>1. CASE UNCHANGED outboxVars /\ [Next]_vars
  <2>1. rows \subseteq rows'
    BY <1>1, OneRowAtMost
  <2>2. UNCHANGED <<sent, refusals, settled>>
    BY <1>1 DEF outboxVars
  <2>3. QED BY <2>1, <2>2 DEF Kept, DeliveryTypes
<1>2. ASSUME UNCHANGED vars, NEW m \in Watched, Box!Send(m) PROVE Kept'
  BY <1>2 DEF vars, database, Box!Send, Kept, DeliveryTypes
<1>3. ASSUME UNCHANGED vars, NEW m \in Watched, Box!Refuse(m) PROVE Kept'
  <2>1. /\ m \in rows /\ UNCHANGED <<rows, settled>>
        /\ refusals' = [refusals EXCEPT ![m] = @ + 1]
        /\ sent' \in {sent, sent \union {m}}
    BY <1>3 DEF vars, database, Box!Refuse
  <2>2. /\ refusals' \in [Watched -> Nat]
        /\ \A n \in Watched : refusals'[n] >= refusals[n]
    BY <2>1 DEF Kept, DeliveryTypes
  <2>3. \A n \in settled' : n \in sent' \/ refusals'[n] >= MinAttempts
    BY <2>1, <2>2, DeliveryAssumption DEF Kept, DeliveryTypes
  <2>4. QED BY <1>3, <2>1, <2>2, <2>3 DEF Kept, DeliveryTypes
<1>4. ASSUME UNCHANGED vars, NEW S \in SUBSET (Watched \intersect rows), Box!Settle(S)
      PROVE  Kept'
  BY <1>4 DEF vars, database, Box!Settle, Kept, DeliveryTypes
<1>5. QED
  BY <1>1, <1>2, <1>3, <1>4 DEF DeliveryNext, Processor, deliveryVars

\* The unit of work goes on as if nobody read its rows, and to the outbox it is an
\* environment that keeps to the contract: rows are accepted one by one, and stay.
THEOREM BothKeepTheirs == DeliverySpec => Spec /\ Box!Spec
<1>1. DeliveryInit => Init /\ Box!Init
  BY DEF DeliveryInit
<1>2. [DeliveryNext]_deliveryVars => [Next]_vars
  BY DEF DeliveryNext, deliveryVars
<1>3. [DeliveryNext]_deliveryVars => [Box!Next]_Box!cvars
  <2> SUFFICES ASSUME [DeliveryNext]_deliveryVars PROVE [Box!Next]_Box!cvars
    OBVIOUS
  <2>1. CASE UNCHANGED outboxVars /\ [Next]_vars
    <3>1. CASE rows' = rows
      BY <2>1, <3>1 DEF outboxVars, Box!cvars
    <3>2. ASSUME NEW m, rows' = rows \union {m} PROVE [Box!Next]_Box!cvars
      <4>1. CASE m \in Watched
        <5>1. Box!Accept(m)
          BY <2>1, <3>2, <4>1 DEF outboxVars, Box!Accept
        <5>2. QED BY <4>1, <5>1 DEF Box!Next
      <4>2. CASE m \notin Watched
        <5>1. (rows \intersect Watched)' = rows \intersect Watched
          BY <3>2, <4>2
        <5>2. QED BY <2>1, <5>1 DEF outboxVars, Box!cvars
      <4>3. QED BY <4>1, <4>2
    <3>3. QED BY <2>1, <3>1, <3>2, OneRowAtMost
  <2>2. CASE Processor
    BY <2>2 DEF Processor, Box!Next
  <2>3. QED BY <2>1, <2>2 DEF DeliveryNext, deliveryVars
<1>4. QED BY <1>1, <1>2, <1>3, PTL DEF DeliverySpec, Spec, Box!Spec

LEMMA KeptHolds == DeliverySpec => []Kept
BY KeptInit, KeptNext, BothKeepTheirs, UnitTypes, PTL DEF DeliverySpec

\* Types of the unit of work with its outbox.
THEOREM DeliveryTyped == DeliverySpec => []DeliveryTypes
BY KeptHolds, PTL DEF Kept

\* Wherever commands fail and whatever the outbox repeats: consumers hear of no price
\* and of no single change that is not in the database.
THEOREM NothingUnwrittenHeard == DeliverySpec => []HeardWasWritten
<1>1. Kept /\ SinglesAreAtomic /\ AnnouncedPricesWereWritten => HeardWasWritten
  BY DEF Kept, SinglesAreAtomic, AnnouncedPricesWereWritten, HeardWasWritten
<1>2. QED BY <1>1, BothKeepTheirs, KeptHolds, SinglesAtomic, NoFalseAnnouncement, PTL

\* What a successful command changed is heard, or was refused often enough to be given
\* up, before the outbox is done with it.
THEOREM SuccessHeard == DeliverySpec => []SuccessIsHeard
<1>1. Kept /\ UInv /\ SuccessMeansAnnounced => SuccessIsHeard
  <2> SUFFICES ASSUME Kept, UInv, SuccessMeansAnnounced, NEW c \in Commands,
                      pc[c] = "succeeded", Owes(c, attempt[c])
               PROVE  /\ Report(c, attempt[c]) \in rows
                      /\ Report(c, attempt[c]) \in settled =>
                            \/ Report(c, attempt[c]) \in sent
                            \/ refusals[Report(c, attempt[c])] >= MinAttempts
    BY DEF SuccessIsHeard
  <2>1. attempt[c] \in Attempt
    BY DEF UInv, Placed
  <2>2. CASE c \in Singles
    BY <2>2 DEF Report, UInv, Placed, Announced, Commands, Kept
  <2>3. CASE c \notin Singles
    BY <2>3 DEF Owes, Report, SuccessMeansAnnounced, Commands, Kept
  <2>4. QED BY <2>2, <2>3
<1>2. QED BY <1>1, BothKeepTheirs, KeptHolds, UInvHolds, SuccessAnnounces, PTL
=============================================================================
