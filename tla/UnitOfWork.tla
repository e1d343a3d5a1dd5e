----------------------------- MODULE UnitOfWork -----------------------------
(***************************************************************************)
(* How a command of the backend reaches the database, the outbox and the   *)
(* audit bus.  SaveChanges runs two interceptors before it writes: the     *)
(* first publishes an audit event for each changed entity, the second      *)
(* takes the domain events off the entities and stores them one by one;    *)
(* storing one runs a SaveChanges of its own on the same context, whose    *)
(* audit interceptor runs again and whose commit also writes the entity.   *)
(* A command therefore commits once per domain event, and can fail between *)
(* two commits.                                                            *)
(*                                                                         *)
(* Commands are of two kinds.  Updates are UpdateProduct and               *)
(* UpdateProductDetail on one product: they raise ProductUpdated, and      *)
(* ProductPriceChanged when the price asked for differs from the one they  *)
(* loaded.  Singles are the commands that raise one event (create and      *)
(* delete a product; create, update and delete a cart).  Those of them     *)
(* that set columns of a row that is there (Rewrites: UpdateCart, and      *)
(* DeleteProduct, which sets the status) raise their event even when the   *)
(* columns have the values already, and then write nothing but the event.  *)
(* A command that failed may be sent again: each attempt has a fresh       *)
(* context.                                                                *)
(***************************************************************************)
EXTENDS Naturals, Sequences

CONSTANTS
    Updates,      \* update commands
    Singles,      \* commands that raise one event
    Rewrites,     \* those of them that set columns of an existing row
    Prices,       \* prices of the product
    NewPrice,     \* the price each update asks for
    InitialPrice, \* the product's price at first
    MaxAttempts   \* bound: how often a command is sent

Commands == Updates \union Singles

Attempt == 1 .. MaxAttempts

ASSUME UnitOfWorkAssumption ==
    /\ Updates \intersect Singles = {}
    /\ Rewrites \subseteq Singles
    /\ NewPrice \in [Updates -> Prices]
    /\ InitialPrice \in Prices
    /\ MaxAttempts \in Nat

VARIABLES
    price,    \* the product's price in the database
    rows,     \* outbox rows: <<command, attempt, event>>
    changed,  \* <<command, attempt>> whose entity change is in the database
    repriced, \* those of them that wrote the price column
    moot,     \* history: of the singles, those that found every column as they set it
    audits,   \* per command and attempt, the audit events published
    pc,       \* per command, where its current attempt is
    attempt,  \* per command, the number of its current attempt
    seen,     \* per command, the price it loaded
    raised,   \* per command, domain events taken off the entity, not yet stored
    dirty     \* per command, whether the context still tracks an unsaved change

database == <<price, rows, changed, repriced>>
vars == <<price, rows, changed, repriced, moot, audits, pc, attempt, seen, raised, dirty>>

Event == {"Single", "ProductUpdated", "ProductPriceChanged"}

Active == {"loaded", "dispatching", "committing"}

Init ==
    /\ price = InitialPrice
    /\ rows = {}
    /\ changed = {}
    /\ repriced = {}
    /\ moot = {}
    /\ audits = [c \in Commands |-> [a \in Attempt |-> 0]]
    /\ pc = [c \in Commands |-> "idle"]
    /\ attempt = [c \in Commands |-> 0]
    /\ seen = [c \in Commands |-> InitialPrice]
    /\ raised = [c \in Commands |-> <<>>]
    /\ dirty = [c \in Commands |-> FALSE]

Reprices(c, loaded) == c \in Updates /\ NewPrice[c] # loaded

\* Mutant of Raised: UpdatePrice runs before UpdateDetails.
RaisedPriceFirst(c, loaded) ==
    IF c \in Singles THEN <<"Single">>
    ELSE IF Reprices(c, loaded) THEN <<"ProductPriceChanged", "ProductUpdated">>
    ELSE <<"ProductUpdated">>

\* The events of the entity, in the order the handler makes it raise them.
Raised(c, loaded) ==
    IF c \in Singles THEN <<"Single">>
    ELSE IF Reprices(c, loaded) THEN <<"ProductUpdated", "ProductPriceChanged">>
    ELSE <<"ProductUpdated">>

\* Whether a command that loaded this price is sure to change a column: creating and
\* removing a row does, an update to another price does.
MustWrite(c, loaded) == c \in Singles \ Rewrites \/ Reprices(c, loaded)

\* The handler loads the entity, changes it and raises its events: UpdateDetails
\* first, UpdatePrice second.  Any other command may find every column as it sets it,
\* as one that is repeated does, and raises its events all the same.
Handle(c) ==
    /\ pc[c] \in {"idle", "failed"}
    /\ attempt[c] < MaxAttempts
    /\ attempt' = [attempt EXCEPT ![c] = @ + 1]
    /\ seen' = [seen EXCEPT ![c] = price]
    /\ raised' = [raised EXCEPT ![c] = Raised(c, price)]
    /\ \E d \in BOOLEAN :
          /\ MustWrite(c, price) => d
          /\ dirty' = [dirty EXCEPT ![c] = d]
          /\ moot' = IF d \/ c \in Updates THEN moot ELSE moot \union {<<c, attempt[c] + 1>>}
    /\ pc' = [pc EXCEPT ![c] = "loaded"]
    /\ UNCHANGED <<database, audits>>

\* Mutant of AuditIfDirty: every SaveChanges publishes.
AuditAlways(c) == audits' = [audits EXCEPT ![c][attempt[c]] = @ + 1]

\* The audit interceptor publishes to the bus for a tracked change, before any
\* commit.
AuditIfDirty(c) ==
    audits' = [audits EXCEPT ![c][attempt[c]] = IF dirty[c] THEN @ + 1 ELSE @]

\* SaveChanges of the handler: the audit interceptor, then the dispatch
\* interceptor collects and clears the events.
BeginSaveChanges(c) ==
    /\ pc[c] = "loaded"
    /\ AuditIfDirty(c)
    /\ pc' = [pc EXCEPT ![c] = "dispatching"]
    /\ UNCHANGED <<database, moot, attempt, seen, raised, dirty>>

\* AddEventAsync tracks the row and calls SaveChanges: the audit interceptor
\* runs again, the dispatch interceptor finds no events.
AddEvent(c) ==
    /\ pc[c] = "dispatching"
    /\ raised[c] # <<>>
    /\ AuditIfDirty(c)
    /\ pc' = [pc EXCEPT ![c] = "committing"]
    /\ UNCHANGED <<database, moot, attempt, seen, raised, dirty>>

\* Mutant of CommitEvent: rows are stored by a context of their own.
CommitEventApart(c) ==
    /\ pc[c] = "committing"
    /\ rows' = rows \union {<<c, attempt[c], Head(raised[c])>>}
    /\ raised' = [raised EXCEPT ![c] = Tail(@)]
    /\ pc' = [pc EXCEPT ![c] = "dispatching"]
    /\ UNCHANGED <<price, changed, repriced, moot, audits, attempt, seen, dirty>>

\* Mutant of CommitEvent: the price is written, the rest of the entity is not.
CommitEventPriceOnly(c) ==
    LET id == <<c, attempt[c]>>
        writesPrice == dirty[c] /\ Reprices(c, seen[c])
    IN /\ pc[c] = "committing"
       /\ rows' = rows \union {<<c, attempt[c], Head(raised[c])>>}
       /\ changed' = changed
       /\ repriced' = IF writesPrice THEN repriced \union {id} ELSE repriced
       /\ price' = IF writesPrice THEN NewPrice[c] ELSE price
       /\ dirty' = [dirty EXCEPT ![c] = FALSE]
       /\ raised' = [raised EXCEPT ![c] = Tail(@)]
       /\ pc' = [pc EXCEPT ![c] = "dispatching"]
       /\ UNCHANGED <<moot, audits, attempt, seen>>

\* The commit of that SaveChanges: the row, and the entity if it is unsaved.
\* Only the columns that differ from the loaded ones are written.
CommitEvent(c) ==
    LET id == <<c, attempt[c]>>
        writesPrice == dirty[c] /\ Reprices(c, seen[c])
    IN /\ pc[c] = "committing"
       /\ rows' = rows \union {<<c, attempt[c], Head(raised[c])>>}
       /\ changed' = IF dirty[c] THEN changed \union {id} ELSE changed
       /\ repriced' = IF writesPrice THEN repriced \union {id} ELSE repriced
       /\ price' = IF writesPrice THEN NewPrice[c] ELSE price
       /\ dirty' = [dirty EXCEPT ![c] = FALSE]
       /\ raised' = [raised EXCEPT ![c] = Tail(@)]
       /\ pc' = [pc EXCEPT ![c] = "dispatching"]
       /\ UNCHANGED <<moot, audits, attempt, seen>>

\* Mutant of CommitCommand: it does not wait for the last event.
CommitCommandEarly(c) ==
    /\ pc[c] = "dispatching"
    /\ changed' = IF dirty[c] THEN changed \union {<<c, attempt[c]>>} ELSE changed
    /\ dirty' = [dirty EXCEPT ![c] = FALSE]
    /\ pc' = [pc EXCEPT ![c] = "succeeded"]
    /\ UNCHANGED <<price, rows, repriced, moot, audits, attempt, seen, raised>>

\* All events are stored; the handler's own commit has what is left to write:
\* nothing, for every command raises at least one event.
CommitCommand(c) ==
    /\ pc[c] = "dispatching"
    /\ raised[c] = <<>>
    /\ changed' = IF dirty[c] THEN changed \union {<<c, attempt[c]>>} ELSE changed
    /\ dirty' = [dirty EXCEPT ![c] = FALSE]
    /\ pc' = [pc EXCEPT ![c] = "succeeded"]
    /\ UNCHANGED <<price, rows, repriced, moot, audits, attempt, seen, raised>>

\* The bus or the database raises, the request is aborted, or the process dies:
\* the context and the events taken off the entity are gone.
Fail(c) ==
    /\ pc[c] \in Active
    /\ pc' = [pc EXCEPT ![c] = "failed"]
    /\ raised' = [raised EXCEPT ![c] = <<>>]
    /\ dirty' = [dirty EXCEPT ![c] = FALSE]
    /\ UNCHANGED <<database, moot, audits, attempt, seen>>

Next ==
    \E c \in Commands :
        \/ Handle(c)
        \/ BeginSaveChanges(c)
        \/ AddEvent(c)
        \/ CommitEvent(c)
        \/ CommitCommand(c)
        \/ Fail(c)

Spec == Init /\ [][Next]_vars

-----------------------------------------------------------------------------
(* Properties. *)

TypeOK ==
    /\ price \in Prices
    /\ rows \subseteq Commands \X Attempt \X Event
    /\ changed \subseteq Commands \X Attempt
    /\ repriced \subseteq changed
    /\ moot \subseteq Rewrites \X Attempt
    /\ audits \in [Commands -> [Attempt -> Nat]]
    /\ pc \in [Commands -> Active \union {"idle", "succeeded", "failed"}]
    /\ attempt \in [Commands -> 0 .. MaxAttempts]
    /\ seen \in [Commands -> Prices]
    /\ raised \in [Commands -> Seq(Event)]
    /\ dirty \in [Commands -> BOOLEAN]

\* A command that raises one event is atomic, wherever it fails and however often it is
\* sent: its change is in the database exactly when its row is.  An attempt that had
\* nothing to change stores its row at most, and never touches the entity.
SinglesAreAtomic ==
    \A c \in Singles, a \in Attempt :
        IF <<c, a>> \in moot THEN <<c, a>> \notin changed
        ELSE <<c, a>> \in changed <=> <<c, a, "Single">> \in rows

\* The outbox never announces a price that was not written, and announces it
\* after the update that wrote it.
AnnouncedPricesWereWritten ==
    \A c \in Updates, a \in Attempt :
        <<c, a, "ProductPriceChanged">> \in rows =>
            /\ <<c, a>> \in repriced
            /\ <<c, a, "ProductUpdated">> \in rows

\* A command that reports success has stored every event it owes: the price it
\* wrote is announced.
SuccessMeansAnnounced ==
    \A c \in Updates :
        pc[c] = "succeeded" /\ <<c, attempt[c]>> \in repriced =>
            <<c, attempt[c], "ProductPriceChanged">> \in rows

\* No change reaches the database before the audit bus heard of it, and it hears
\* of each attempt's change at most twice: once in the handler's SaveChanges,
\* once in the first nested one.
AuditsAroundCommit ==
    \A c \in Commands, a \in Attempt :
        /\ <<c, a>> \in changed => audits[c][a] = 2
        /\ audits[c][a] <= 2

\* "OutboxMessage table stores events in the same transaction as business data":
\* once a command has ended, the price it wrote is announced.
PriceChangesAreAnnounced ==
    \A c \in Updates :
        pc[c] \in {"succeeded", "failed"} /\ <<c, attempt[c]>> \in repriced =>
            <<c, attempt[c], "ProductPriceChanged">> \in rows
=============================================================================
