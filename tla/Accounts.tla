------------------------------ MODULE Accounts ------------------------------
(***************************************************************************)
(* The account of one e-mail address and the requests of IdentityService   *)
(* that write it.  A request loads the row, computes, and saves the whole  *)
(* row with the concurrency stamp it has loaded: the UserManager refuses   *)
(* the save if another request has saved meanwhile.  Update, role and      *)
(* reset look at that result; login, refresh and the role a registration   *)
(* adds do not.  A request may be killed between any two of its steps, or  *)
(* its answer lost.                                                        *)
(*                                                                         *)
(* What a request writes is named after it: its name, its password (and    *)
(* the security stamp that changes with it), its pair of tokens.           *)
(***************************************************************************)
EXTENDS Naturals, FiniteSets

CONSTANTS
    Requests, \* the requests
    KindOf,   \* what each asks for
    NoOne     \* no request: not set

Kinds == {"register", "login", "refresh", "update", "assign", "forgot", "reset"}

ASSUME AccountsAssumption == KindOf \in [Requests -> Kinds] /\ NoOne \notin Requests

VARIABLES
    known,   \* the roles the database has
    exists,  \* the account has been inserted
    account, \* its row, with the links to its roles
    mailed,  \* the security stamps of the reset tokens in the user's mail
    at,      \* per request: "idle", "checked", "loaded", then "ok", or "failed": it was
             \* refused or killed, or its answer was lost
    draft,   \* per request: the row it has loaded
    shown,   \* per request: the pair or the reset token it presents
    saved,   \* history: the requests that have saved the row
    written  \* history: the last of them to write each column

requests == <<at, draft, shown>>
accountHistory == <<saved, written>>
accountVars == <<known, exists, account, mailed, requests, accountHistory>>

Roles == {"Client", "Administrator"}

Empty == [stamp |-> 0, name |-> NoOne, password |-> NoOne, refresh |-> NoOne, roles |-> {}]

\* The roles are seeded in development only.
AccountsInit ==
    /\ known \in {{}, Roles}
    /\ exists = FALSE
    /\ account = Empty
    /\ mailed = {}
    /\ at = [r \in Requests |-> "idle"]
    /\ draft = [r \in Requests |-> Empty]
    /\ shown = [r \in Requests |-> NoOne]
    /\ saved = {}
    /\ written = [name |-> NoOne, password |-> NoOne, refresh |-> NoOne]

OfKind(kinds) == {r \in Requests : KindOf[r] \in kinds}

\* The columns a request is there to write.
Columns(r) ==
    CASE KindOf[r] = "register" -> {"name", "password"}
      [] KindOf[r] = "update" -> {"name"}
      [] KindOf[r] = "reset" -> {"password"}
      [] KindOf[r] \in {"login", "refresh"} -> {"refresh"}
      [] OTHER -> {}

Record(r) ==
    /\ saved' = saved \union {r}
    /\ written' = [c \in DOMAIN written |-> IF c \in Columns(r) THEN r ELSE written[c]]

\* The pairs clients have received.
Answered == {r \in OfKind({"login", "refresh"}) : at[r] = "ok"}

\* A request goes on, with what it has loaded, or ends.
Go(r, where, loaded) ==
    /\ at' = [at EXCEPT ![r] = where]
    /\ draft' = [draft EXCEPT ![r] = loaded]

End(r, how) == Go(r, how, Empty)

-----------------------------------------------------------------------------
\* CreateAsync looks for the user name, the e-mail address.
CheckName(r) ==
    /\ KindOf[r] = "register"
    /\ at[r] = "idle"
    /\ Go(r, IF exists THEN "failed" ELSE "checked", Empty)
    /\ UNCHANGED <<known, exists, account, mailed, shown, accountHistory>>

\* Mutant of Insert: no unique index.
InsertAgain(r) ==
    /\ at[r] = "checked"
    /\ exists' = TRUE
    /\ account' = [Empty EXCEPT !.stamp = account.stamp + 1, !.name = r, !.password = r]
    /\ Record(r)
    /\ Go(r, "loaded", account')
    /\ UNCHANGED <<known, mailed, shown>>

\* It inserts the row; the unique index on the name refuses a second one.
Insert(r) ==
    /\ at[r] = "checked"
    /\ IF exists
       THEN End(r, "failed") /\ UNCHANGED <<exists, account, accountHistory>>
       ELSE /\ exists' = TRUE
            /\ account' = [Empty EXCEPT !.stamp = 1, !.name = r, !.password = r]
            /\ Record(r)
            /\ Go(r, "loaded", account')
    /\ UNCHANGED <<known, mailed, shown>>

\* What a request presents: a pair some client has received, or a mailed token.
Presents(r) ==
    CASE KindOf[r] = "refresh" -> Answered
      [] KindOf[r] = "reset" -> mailed
      [] OTHER -> {NoOne}

\* Mutant of Admits: the pair is not compared with the one stored.
AdmitsAnyPair(r, s) ==
    CASE KindOf[r] = "reset" -> account.password = s
      [] KindOf[r] = "assign" -> "Administrator" \notin account.roles /\ "Administrator" \in known
      [] OTHER -> TRUE

\* The row a request has loaded lets it go on.
Admits(r, s) ==
    CASE KindOf[r] = "refresh" -> account.refresh = s
      [] KindOf[r] = "reset" -> account.password = s
      [] KindOf[r] = "assign" -> "Administrator" \notin account.roles /\ "Administrator" \in known
      [] OTHER -> TRUE

Load(r) ==
    /\ KindOf[r] \in {"login", "refresh", "update", "assign", "reset"}
    /\ at[r] = "idle"
    /\ exists
    /\ \E s \in Presents(r) :
        /\ shown' = [shown EXCEPT ![r] = s]
        /\ IF Admits(r, s) THEN Go(r, "loaded", account) ELSE End(r, "failed")
    /\ UNCHANGED <<known, exists, account, mailed, accountHistory>>

\* Mutant of Forgot: the token is made from a column that may not be set.
ForgotUnstamped(r) ==
    /\ KindOf[r] = "forgot"
    /\ at[r] = "idle"
    /\ exists
    /\ mailed' = mailed \union {account.refresh}
    /\ End(r, "ok")
    /\ UNCHANGED <<known, exists, account, shown, accountHistory>>

\* The mail of a forgotten password holds a token made from the security stamp.
Forgot(r) ==
    /\ KindOf[r] = "forgot"
    /\ at[r] = "idle"
    /\ exists
    /\ mailed' = mailed \union {account.password}
    /\ End(r, "ok")
    /\ UNCHANGED <<known, exists, account, shown, accountHistory>>

\* What a request makes of the row it has loaded.
Changed(r) ==
    CASE KindOf[r] = "register" -> [draft[r] EXCEPT !.roles = @ \union {"Client"}]
      [] KindOf[r] = "assign" -> [draft[r] EXCEPT !.roles = @ \union {"Administrator"}]
      [] KindOf[r] = "update" -> [draft[r] EXCEPT !.name = r]
      [] KindOf[r] = "reset" -> [draft[r] EXCEPT !.password = r]
      [] OTHER -> [draft[r] EXCEPT !.refresh = r]

\* Mutant of Save: the stamp is not compared.
SaveOver(r) ==
    /\ at[r] = "loaded"
    /\ KindOf[r] = "register" => "Client" \in known
    /\ account' = [Changed(r) EXCEPT !.stamp = account.stamp + 1]
    /\ Record(r)
    /\ \E how \in {"ok", "failed"} : End(r, how)
    /\ UNCHANGED <<known, exists, mailed, shown>>

\* UpdateAsync and AddToRoleAsync save the row, and a role with it, if its stamp
\* is still the one loaded.  If not, who looks at the result answers a failure.
Save(r) ==
    /\ at[r] = "loaded"
    /\ KindOf[r] = "register" => "Client" \in known
    /\ LET current == account.stamp = draft[r].stamp
           answer == IF current \/ KindOf[r] \in {"register", "login", "refresh"}
                     THEN "ok" ELSE "failed"
       IN /\ IF current
             THEN account' = [Changed(r) EXCEPT !.stamp = @ + 1] /\ Record(r)
             ELSE UNCHANGED <<account, accountHistory>>
          /\ \E how \in {answer, "failed"} : End(r, how)
    /\ UNCHANGED <<known, exists, mailed, shown>>

\* AddToRoleAsync raises when the role is not there: the user stays, without it.
RoleMissing(r) ==
    /\ KindOf[r] = "register"
    /\ at[r] = "loaded"
    /\ "Client" \notin known
    /\ End(r, "failed")
    /\ UNCHANGED <<known, exists, account, mailed, shown, accountHistory>>

\* The process, or its connection to the database, ends in the middle.
Kill(r) ==
    /\ at[r] \in {"checked", "loaded"}
    /\ End(r, "failed")
    /\ UNCHANGED <<known, exists, account, mailed, shown, accountHistory>>

\* An administrator creates a role.
CreateRole ==
    /\ known # Roles
    /\ \E role \in Roles \ known : known' = known \union {role}
    /\ UNCHANGED <<exists, account, mailed, requests, accountHistory>>

AccountsNext ==
    \/ \E r \in Requests :
        \/ CheckName(r) \/ Insert(r) \/ Load(r) \/ Forgot(r)
        \/ Save(r) \/ RoleMissing(r) \/ Kill(r)
    \/ CreateRole

AccountsSpec == AccountsInit /\ [][AccountsNext]_accountVars

-----------------------------------------------------------------------------
(* Properties. *)

Writers == Requests \union {NoOne}

Rows == [stamp : Nat, name : Writers, password : Writers, refresh : Writers,
         roles : SUBSET Roles]

AccountTypes ==
    /\ known \subseteq Roles
    /\ exists \in BOOLEAN
    /\ account \in Rows
    /\ mailed \subseteq Requests
    /\ at \in [Requests -> {"idle", "checked", "loaded", "ok", "failed"}]
    /\ draft \in [Requests -> Rows]
    /\ shown \in [Requests -> Writers]
    /\ saved \subseteq Requests
    /\ written \in [{"name", "password", "refresh"} -> Writers]

\* No request undoes what another has saved, though each writes the whole row:
\* every column is of the last request that wrote it, and a role once saved is
\* there; and an acknowledged update, role or reset has been saved.
NothingUndone ==
    /\ \A c \in DOMAIN written : account[c] = written[c]
    /\ "Administrator" \in account.roles <=> OfKind({"assign"}) \intersect saved # {}
    /\ \A r \in OfKind({"register", "update", "assign", "reset"}) : at[r] = "ok" => r \in saved

\* A mailed token resets the password once, whatever requests race with it.
ResetOnce ==
    \A r, q \in OfKind({"reset"}) : {r, q} \subseteq saved /\ shown[r] = shown[q] => r = q

\* The account as AccountContract sees it: no stamp, no copies, and of what requests
\* present only what has taken effect.
AccountPromise == INSTANCE AccountContract WITH
    opened <- exists,
    holds <- [name |-> account.name, password |-> account.password,
              refresh |-> account.refresh, roles |-> account.roles],
    effective <- saved,
    spent <- [r \in Requests |-> IF r \in saved THEN shown[r] ELSE NoOne]

\* Requests that load the row, compute and save it whole, with others in between, are
\* as if each had acted in one step on the account as it then is, and once: a pair is
\* exchanged and a mailed token used only while it is the current one.
ActsAtOnce == AccountPromise!ContractSpec

\* At most one registration creates the account; it is left without its role only
\* if the registration was not answered, or another request saved before the role did.
RoleAccounted ==
    /\ Cardinality(OfKind({"register"}) \intersect saved) <= 1
    /\ \A r \in OfKind({"register"}) \intersect saved :
        at[r] # "loaded" /\ "Client" \notin account.roles =>
            \/ at[r] = "failed"
            \/ saved # {r}
=============================================================================
