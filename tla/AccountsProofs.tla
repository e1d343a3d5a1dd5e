--------------------------- MODULE AccountsProofs ---------------------------
(***************************************************************************)
(* Proofs about Accounts for any requests of any kinds, any interleaving   *)
(* of their steps, and whatever is killed or lost.                         *)
(***************************************************************************)
EXTENDS MCRows, OutboxProofs, FiniteSetTheorems, TLAPS

\* A request that has loaded the row and finds the stamp it has loaded finds the
\* row it has loaded.
StampsTell ==
    \A r \in Requests : at[r] = "loaded" =>
        /\ exists
        /\ draft[r].stamp <= account.stamp
        /\ draft[r].stamp = account.stamp => draft[r] = account

\* Before the account there is nothing; since, what its password and the mails
\* name has been saved.
SavedFirst ==
    /\ ~exists => saved = {} /\ mailed = {} /\ account = Empty
    /\ exists => account.password \in saved
    /\ mailed \subseteq saved
    /\ \A c \in DOMAIN written : account[c] = written[c]

\* Where a request that has saved the row can be, and one that has not.
SavesOnce ==
    \A r \in Requests :
        /\ r \in saved => /\ at[r] \in {"loaded", "ok", "failed"}
                          /\ at[r] = "loaded" => KindOf[r] = "register"
        /\ at[r] = "checked" => KindOf[r] = "register"
        /\ at[r] = "loaded" => KindOf[r] # "forgot"
        /\ KindOf[r] = "register" /\ at[r] \in {"loaded", "ok"} => r \in saved
        /\ KindOf[r] \in {"update", "assign", "reset"} /\ at[r] = "ok" => r \in saved

\* The administrator's role is there exactly when somebody has saved it.
RolesKept == "Administrator" \in account.roles <=> OfKind({"assign"}) \intersect saved # {}

\* A reset token is spent by the reset that saves the row: the password it was
\* made from never comes back.
TokensSpent ==
    /\ \A r \in OfKind({"reset"}) : at[r] = "loaded" \/ r \in saved => shown[r] \in mailed
    /\ \A r \in OfKind({"reset"}) : at[r] = "loaded" => draft[r].password = shown[r]
    /\ \A r \in OfKind({"reset"}) \intersect saved : shown[r] # account.password
    /\ ResetOnce

\* One registration has created the account; until it saves the role, the stamp is
\* its own unless somebody else has saved.
Creator ==
    /\ \A r, q \in OfKind({"register"}) \intersect saved : r = q
    /\ \A r \in OfKind({"register"}) \intersect saved :
        /\ at[r] = "loaded" => draft[r].stamp = account.stamp \/ saved # {r}
        /\ at[r] = "loaded" => draft[r].name = r /\ draft[r].password = r
        /\ at[r] # "loaded" /\ "Client" \notin account.roles => at[r] = "failed" \/ saved # {r}

AInv ==
    /\ AccountTypes
    /\ StampsTell
    /\ SavedFirst
    /\ SavesOnce
    /\ RolesKept
    /\ TokensSpent
    /\ Creator

-----------------------------------------------------------------------------
LEMMA EmptyIsRow == Empty \in Rows
BY DEF Empty, Rows, Writers

LEMMA ChangedIsRow ==
    ASSUME AccountTypes, NEW r \in Requests
    PROVE  /\ Changed(r) \in Rows
           /\ Changed(r).stamp = draft[r].stamp
BY DEF AccountTypes, Changed, Rows, Roles, Writers

\* What each kind of request makes of the row.
LEMMA ChangedPerKind ==
    ASSUME NEW r \in Requests
    PROVE  /\ KindOf[r] = "register" =>
                  Changed(r) = [draft[r] EXCEPT !.roles = @ \union {"Client"}]
           /\ KindOf[r] = "assign" =>
                  Changed(r) = [draft[r] EXCEPT !.roles = @ \union {"Administrator"}]
           /\ KindOf[r] = "update" => Changed(r) = [draft[r] EXCEPT !.name = r]
           /\ KindOf[r] = "reset" => Changed(r) = [draft[r] EXCEPT !.password = r]
           /\ KindOf[r] \notin {"register", "assign", "update", "reset"} =>
                  Changed(r) = [draft[r] EXCEPT !.refresh = r]
BY DEF Changed

LEMMA AInvInit == AccountsInit => AInv
<1> SUFFICES ASSUME AccountsInit PROVE AInv
  OBVIOUS
<1> USE DEF AccountsInit
<1>1. AccountTypes
  <2>1. account \in Rows /\ draft \in [Requests -> Rows]
    BY EmptyIsRow
  <2>2. known \subseteq Roles /\ exists \in BOOLEAN /\ mailed \subseteq Requests /\ saved \subseteq Requests
    BY DEF Roles
  <2>3. /\ at \in [Requests -> {"idle", "checked", "loaded", "ok", "failed"}]
        /\ shown \in [Requests -> Writers]
        /\ written \in [{"name", "password", "refresh"} -> Writers]
    BY DEF Writers
  <2>4. QED BY <2>1, <2>2, <2>3 DEF AccountTypes
<1>2. StampsTell /\ SavesOnce
  BY DEF StampsTell, SavesOnce
<1>3. SavedFirst
  BY DEF SavedFirst, Empty
<1>4. RolesKept
  BY DEF RolesKept, Empty
<1>5. TokensSpent
  BY DEF TokensSpent, ResetOnce, OfKind
<1>6. Creator
  BY DEF Creator, OfKind
<1>7. QED BY <1>1, <1>2, <1>3, <1>4, <1>5, <1>6 DEF AInv

\* A request that goes on moves itself only.
LEMMA GoMoves ==
    ASSUME AccountTypes, NEW r \in Requests, NEW where, NEW loaded, Go(r, where, loaded)
    PROVE  /\ at'[r] = where /\ draft'[r] = loaded
           /\ \A q \in Requests \ {r} : at'[q] = at[q] /\ draft'[q] = draft[q]
BY DEF Go, AccountTypes

-----------------------------------------------------------------------------
(* Steps that leave the row as it is.                                        *)

\* A request that ends without saving.
LEMMA EndKeeps ==
    ASSUME AInv, NEW r \in Requests, NEW how \in {"ok", "failed"}, End(r, how),
           how = "ok" => KindOf[r] \notin {"update", "assign", "reset"}
                         /\ (KindOf[r] = "register" => r \in saved),
           KindOf[r] = "register" /\ r \in saved /\ how = "ok" => saved # {r},
           UNCHANGED <<known, exists, account, mailed, shown, accountHistory>>
    PROVE  AInv'
<1> USE DEF AInv, accountHistory
<1>1. /\ at'[r] = how /\ draft'[r] = Empty
      /\ \A q \in Requests \ {r} : at'[q] = at[q] /\ draft'[q] = draft[q]
  BY GoMoves DEF End
<1>2. AccountTypes'
  BY EmptyIsRow DEF AccountTypes, End, Go
<1>3. StampsTell'
  BY <1>1 DEF StampsTell
<1>4. SavedFirst'
  BY DEF SavedFirst
<1>5. SavesOnce'
  BY <1>1 DEF SavesOnce
<1>6. RolesKept'
  BY DEF RolesKept, OfKind
<1>7. TokensSpent'
  BY <1>1 DEF TokensSpent, ResetOnce, OfKind
<1>8. Creator'
  BY <1>1 DEF Creator, OfKind
<1>9. QED BY <1>2, <1>3, <1>4, <1>5, <1>6, <1>7, <1>8

LEMMA CheckNameKeeps ==
    ASSUME AInv, NEW r \in Requests, CheckName(r)
    PROVE  AInv'
<1>1. CASE exists
  <2>1. End(r, "failed")
    BY <1>1 DEF CheckName, End
  <2>2. QED BY <2>1, EndKeeps DEF CheckName
<1>2. CASE ~exists
  <2> USE DEF AInv, accountHistory, CheckName
  <2>1. /\ at'[r] = "checked" /\ draft'[r] = Empty
        /\ \A q \in Requests \ {r} : at'[q] = at[q] /\ draft'[q] = draft[q]
    BY <1>2, GoMoves
  <2>2. AccountTypes'
    BY <1>2, EmptyIsRow DEF AccountTypes, Go
  <2>3. StampsTell'
    BY <2>1 DEF StampsTell
  <2>4. SavedFirst'
    BY DEF SavedFirst
  <2>5. SavesOnce'
    BY <1>2, <2>1 DEF SavesOnce, SavedFirst
  <2>6. RolesKept'
    BY DEF RolesKept, OfKind
  <2>7. TokensSpent'
    BY <2>1 DEF TokensSpent, ResetOnce, OfKind
  <2>8. Creator'
    BY <1>2, <2>1 DEF Creator, OfKind, SavedFirst
  <2>9. QED BY <2>2, <2>3, <2>4, <2>5, <2>6, <2>7, <2>8
<1>3. QED BY <1>1, <1>2

LEMMA LoadKeeps ==
    ASSUME AInv, NEW r \in Requests, Load(r)
    PROVE  AInv'
<1> USE DEF AInv, accountHistory
<1>1. PICK s \in Presents(r) :
        /\ shown' = [shown EXCEPT ![r] = s]
        /\ IF Admits(r, s) THEN Go(r, "loaded", account) ELSE End(r, "failed")
  BY DEF Load
<1>2. /\ KindOf[r] \in {"login", "refresh", "update", "assign", "reset"}
      /\ at[r] = "idle" /\ exists
      /\ UNCHANGED <<known, exists, account, mailed, accountHistory>>
  BY DEF Load
<1>3. r \notin saved
  BY <1>2 DEF SavesOnce
<1>4. s \in Writers
  BY DEF Presents, Answered, OfKind, Writers, AccountTypes
<1>5. /\ at'[r] \in {"loaded", "failed"}
      /\ at'[r] = "loaded" => draft'[r] = account /\ Admits(r, s)
      /\ shown'[r] = s
      /\ \A q \in Requests \ {r} : at'[q] = at[q] /\ draft'[q] = draft[q] /\ shown'[q] = shown[q]
  BY <1>1, GoMoves DEF End, AccountTypes
<1>6. AccountTypes'
  <2>1. draft' \in [Requests -> Rows] /\ at' \in [Requests -> {"idle", "checked", "loaded", "ok", "failed"}]
    BY <1>1, EmptyIsRow DEF AccountTypes, End, Go
  <2>2. shown' \in [Requests -> Writers]
    BY <1>1, <1>4 DEF AccountTypes
  <2>3. QED BY <1>2, <2>1, <2>2 DEF AccountTypes
<1>7. StampsTell'
  <2>1. account.stamp \in Nat
    BY DEF AccountTypes, Rows
  <2>2. QED BY <1>2, <1>5, <2>1 DEF StampsTell
<1>8. SavedFirst'
  BY <1>2 DEF SavedFirst
<1>9. SavesOnce'
  BY <1>2, <1>3, <1>5 DEF SavesOnce
<1>10. RolesKept'
  BY <1>2 DEF RolesKept, OfKind
<1>11. TokensSpent'
  <2>1. KindOf[r] = "reset" => s \in mailed
    BY DEF Presents
  <2>2. KindOf[r] = "reset" /\ at'[r] = "loaded" => account.password = s
    BY <1>5 DEF Admits
  <2>3. QED BY <1>2, <1>3, <1>5, <2>1, <2>2 DEF TokensSpent, ResetOnce, OfKind
<1>12. Creator'
  BY <1>2, <1>3, <1>5 DEF Creator, OfKind
<1>13. QED BY <1>6, <1>7, <1>8, <1>9, <1>10, <1>11, <1>12

LEMMA ForgotKeeps ==
    ASSUME AInv, NEW r \in Requests, Forgot(r)
    PROVE  AInv'
<1> USE DEF AInv, accountHistory, Forgot
<1>1. /\ at'[r] = "ok" /\ draft'[r] = Empty
      /\ \A q \in Requests \ {r} : at'[q] = at[q] /\ draft'[q] = draft[q]
  BY GoMoves DEF End
<1>2. account.password \in saved /\ r \notin saved
  BY DEF SavedFirst, SavesOnce
<1>3. AccountTypes'
  BY <1>2, EmptyIsRow DEF AccountTypes, End, Go
<1>4. StampsTell'
  BY <1>1 DEF StampsTell
<1>5. SavedFirst'
  BY <1>2 DEF SavedFirst
<1>6. SavesOnce'
  BY <1>1, <1>2 DEF SavesOnce
<1>7. RolesKept'
  BY DEF RolesKept, OfKind
<1>8. TokensSpent'
  BY <1>1 DEF TokensSpent, ResetOnce, OfKind
<1>9. Creator'
  BY <1>1, <1>2 DEF Creator, OfKind
<1>10. QED BY <1>3, <1>4, <1>5, <1>6, <1>7, <1>8, <1>9

-----------------------------------------------------------------------------
(* Steps that save the row.                                                  *)

\* A registration inserts the account, the first time.
LEMMA InsertKeeps ==
    ASSUME AInv, NEW r \in Requests, Insert(r)
    PROVE  AInv'
<1> USE DEF AInv
<1>1. KindOf[r] = "register" /\ at[r] = "checked"
  BY DEF Insert, SavesOnce
<1>2. CASE exists
  BY <1>1, <1>2, EndKeeps DEF Insert, accountHistory
<1>3. CASE ~exists
  <2>1. /\ saved = {} /\ mailed = {} /\ account = Empty
        /\ \A q \in Requests : at[q] # "loaded"
    BY <1>3 DEF SavedFirst, StampsTell
  <2>2. /\ exists' = TRUE
        /\ account' = [Empty EXCEPT !.stamp = 1, !.name = r, !.password = r]
        /\ Go(r, "loaded", account')
        /\ UNCHANGED <<known, mailed, shown>>
    BY <1>3 DEF Insert
  <2>3. /\ saved' = {r}
        /\ written' = [c \in DOMAIN written |-> IF c \in {"name", "password"} THEN r ELSE written[c]]
    BY <1>1, <1>3, <2>1 DEF Insert, Record, Columns
  <2>4. /\ at'[r] = "loaded" /\ draft'[r] = account'
        /\ \A q \in Requests \ {r} : at'[q] = at[q] /\ draft'[q] = draft[q]
    BY <2>2, GoMoves
  <2>5. account' \in Rows /\ account'.password = r /\ account'.name = r /\ account'.stamp = 1
        /\ account'.roles = {} /\ account'.refresh = NoOne
    BY <2>2 DEF Empty, Rows, Writers
  <2>6. AccountTypes'
    <3>1. draft' \in [Requests -> Rows] /\ at' \in [Requests -> {"idle", "checked", "loaded", "ok", "failed"}]
      BY <2>2, <2>5 DEF AccountTypes, Go
    <3>2. written' \in [{"name", "password", "refresh"} -> Writers]
      BY <2>3 DEF AccountTypes, Writers
    <3>3. QED BY <2>2, <2>3, <2>5, <3>1, <3>2 DEF AccountTypes
  <2>7. StampsTell'
    <3>1. exists' = TRUE
      BY <2>2
    <3>2. QED BY <2>1, <2>4, <2>5, <3>1 DEF StampsTell
  <2>8. SavedFirst'
    <3>1. \A c \in DOMAIN written' : account'[c] = written'[c]
      BY <2>1, <2>3, <2>5 DEF SavedFirst, AccountTypes, Empty
    <3>2. QED BY <2>1, <2>2, <2>3, <2>5, <3>1 DEF SavedFirst
  <2>9. SavesOnce'
    BY <1>1, <2>1, <2>3, <2>4 DEF SavesOnce
  <2>10. RolesKept'
    BY <1>1, <2>3, <2>5 DEF RolesKept, OfKind
  <2>11. TokensSpent'
    BY <1>1, <2>1, <2>3, <2>4 DEF TokensSpent, ResetOnce, OfKind
  <2>12. Creator'
    BY <2>3, <2>4, <2>5 DEF Creator, OfKind
  <2>13. QED BY <2>6, <2>7, <2>8, <2>9, <2>10, <2>11, <2>12
<1>4. QED BY <1>2, <1>3

\* A request whose stamp is current changes the row it has loaded, and nothing else
\* has happened to the row since.
LEMMA SaveCurrent ==
    ASSUME AInv, NEW r \in Requests, at[r] = "loaded", account.stamp = draft[r].stamp,
           account' = [Changed(r) EXCEPT !.stamp = @ + 1], Record(r),
           KindOf[r] = "register" => "Client" \in known,
           NEW how \in {"ok", "failed"}, End(r, how),
           UNCHANGED <<known, exists, mailed, shown>>
    PROVE  AInv'
<1> USE DEF AInv
<1>1. draft[r] = account /\ exists /\ account \in Rows
  BY DEF StampsTell, AccountTypes
<1>2. /\ at'[r] = how /\ draft'[r] = Empty
      /\ \A q \in Requests \ {r} : at'[q] = at[q] /\ draft'[q] = draft[q]
  BY GoMoves DEF End
<1>3. r \in saved => KindOf[r] = "register"
  BY DEF SavesOnce
<1>4. KindOf[r] = "register" => r \in saved /\ account.name = r /\ account.password = r
  BY <1>1 DEF SavesOnce, Creator, OfKind
<1>5. /\ saved' = saved \union {r}
      /\ written' = [c \in DOMAIN written |-> IF c \in Columns(r) THEN r ELSE written[c]]
  BY DEF Record
<1>6. /\ account' \in Rows
      /\ account'.stamp = account.stamp + 1
      /\ account'.name = IF KindOf[r] = "update" THEN r ELSE account.name
      /\ account'.password = IF KindOf[r] = "reset" THEN r ELSE account.password
      /\ account'.roles = IF KindOf[r] = "register" THEN account.roles \union {"Client"}
                          ELSE IF KindOf[r] = "assign" THEN account.roles \union {"Administrator"}
                          ELSE account.roles
      /\ account'.refresh = IF KindOf[r] \in {"register", "assign", "update", "reset"}
                            THEN account.refresh ELSE r
  <2>1. CASE KindOf[r] = "register"
    BY <1>1, <2>1, ChangedPerKind DEF Rows, Roles
  <2>2. CASE KindOf[r] = "assign"
    BY <1>1, <2>2, ChangedPerKind DEF Rows, Roles
  <2>3. CASE KindOf[r] = "update"
    BY <1>1, <2>3, ChangedPerKind DEF Rows, Writers
  <2>4. CASE KindOf[r] = "reset"
    BY <1>1, <2>4, ChangedPerKind DEF Rows, Writers
  <2>5. CASE KindOf[r] \notin {"register", "assign", "update", "reset"}
    BY <1>1, <2>5, ChangedPerKind DEF Rows, Writers
  <2>6. QED BY <2>1, <2>2, <2>3, <2>4, <2>5
<1>7. AccountTypes'
  <2>1. /\ draft' \in [Requests -> Rows]
        /\ at' \in [Requests -> {"idle", "checked", "loaded", "ok", "failed"}]
    BY EmptyIsRow DEF AccountTypes, End, Go
  <2>2. written' \in [{"name", "password", "refresh"} -> Writers]
    BY <1>5 DEF AccountTypes, Writers
  <2>3. QED BY <1>5, <1>6, <2>1, <2>2 DEF AccountTypes
<1>8. StampsTell'
  BY <1>1, <1>2, <1>6 DEF StampsTell, AccountTypes, Rows
<1>9. SavedFirst'
  <2>1. account'.password \in saved'
    BY <1>1, <1>5, <1>6 DEF SavedFirst
  <2>2. \A c \in DOMAIN written' : account'[c] = written'[c]
    <3>1. account.name = written["name"] /\ account.password = written["password"]
          /\ account.refresh = written["refresh"]
      BY DEF SavedFirst, AccountTypes
    <3>2. DOMAIN written' = {"name", "password", "refresh"}
      BY <1>5 DEF AccountTypes
    <3>3. account'.name = written'["name"]
      BY <1>4, <1>5, <1>6, <3>1 DEF Columns, AccountTypes
    <3>4. account'.password = written'["password"]
      BY <1>4, <1>5, <1>6, <3>1 DEF Columns, AccountTypes
    <3>5. account'.refresh = written'["refresh"]
      <4>1. KindOf[r] \in {"register", "assign", "update", "reset"} \/ KindOf[r] \in {"login", "refresh"}
        BY AccountsAssumption DEF SavesOnce, Kinds
      <4>2. "refresh" \in Columns(r) <=> KindOf[r] \in {"login", "refresh"}
        BY DEF Columns
      <4>3. written'["refresh"] = IF "refresh" \in Columns(r) THEN r ELSE written["refresh"]
        BY <1>5 DEF AccountTypes
      <4>4. QED BY <1>6, <3>1, <4>1, <4>2, <4>3
    <3>6. QED BY <3>2, <3>3, <3>4, <3>5
  <2>3. QED BY <1>1, <1>5, <2>1, <2>2 DEF SavedFirst
<1>10. SavesOnce'
  BY <1>2, <1>5 DEF SavesOnce
<1>11. RolesKept'
  BY <1>5, <1>6 DEF RolesKept, OfKind
<1>12. TokensSpent'
  <2>1. KindOf[r] = "reset" => shown[r] = account.password /\ shown[r] \in mailed /\ r \notin mailed
    BY <1>1, <1>3 DEF TokensSpent, OfKind, SavedFirst
  <2>2. \A q \in OfKind({"reset"}) \intersect saved : shown[q] \in mailed /\ shown[q] # account.password
    BY DEF TokensSpent
  <2>3. \A q \in OfKind({"reset"}) : at'[q] = "loaded" \/ q \in saved' => shown[q] \in mailed
    BY <1>2, <1>5, <2>1 DEF TokensSpent, OfKind
  <2>4. \A q \in OfKind({"reset"}) : at'[q] = "loaded" => draft'[q].password = shown[q]
    BY <1>2 DEF TokensSpent, OfKind
  <2>5. \A q \in OfKind({"reset"}) \intersect saved' : shown[q] # account'.password
    <3>1. CASE KindOf[r] = "reset"
      <4>1. mailed \subseteq saved /\ r \notin saved
        BY <1>3, <3>1 DEF SavedFirst
      <4>2. QED BY <1>5, <1>6, <2>1, <2>2, <3>1, <4>1
    <3>2. CASE KindOf[r] # "reset"
      BY <1>5, <1>6, <2>2, <3>2 DEF OfKind
    <3>3. QED BY <3>1, <3>2
  <2>6. ResetOnce'
    BY <1>5, <2>1, <2>2 DEF ResetOnce, TokensSpent, OfKind
  <2>7. QED BY <2>3, <2>4, <2>5, <2>6 DEF TokensSpent, OfKind
<1>13. Creator'
  <2>1. \A q \in OfKind({"register"}) \intersect saved' : q \in saved
    BY <1>4, <1>5 DEF OfKind
  <2>2. ASSUME NEW q \in OfKind({"register"}) \intersect saved, q # r
        PROVE  saved' # {q}
    BY <1>5, <2>2
  <2>3. KindOf[r] = "register" => "Client" \in account'.roles
    BY <1>6
  <2>4. \A p, q \in OfKind({"register"}) \intersect saved' : p = q
    BY <2>1 DEF Creator, OfKind
  <2>5. ASSUME NEW q \in OfKind({"register"}) \intersect saved'
        PROVE  /\ at'[q] = "loaded" => draft'[q].stamp = account'.stamp \/ saved' # {q}
               /\ at'[q] = "loaded" => draft'[q].name = q /\ draft'[q].password = q
               /\ at'[q] # "loaded" /\ "Client" \notin account'.roles =>
                      at'[q] = "failed" \/ saved' # {q}
    <3>1. CASE q = r
      BY <1>2, <2>3, <2>5, <3>1 DEF OfKind
    <3>2. CASE q # r
      BY <1>2, <2>1, <2>2, <2>5, <3>2 DEF Creator, OfKind
    <3>3. QED BY <3>1, <3>2
  <2>6. QED BY <2>4, <2>5 DEF Creator, OfKind
<1>14. QED BY <1>7, <1>8, <1>9, <1>10, <1>11, <1>12, <1>13

LEMMA SaveKeeps ==
    ASSUME AInv, NEW r \in Requests, Save(r)
    PROVE  AInv'
<1>1. CASE account.stamp = draft[r].stamp
  <2>1. PICK how \in {"ok", "failed"} : End(r, how)
    BY DEF Save
  <2>2. account' = [Changed(r) EXCEPT !.stamp = @ + 1] /\ Record(r)
    BY <1>1 DEF Save
  <2>3. QED BY <1>1, <2>1, <2>2, SaveCurrent DEF Save
<1>2. CASE account.stamp # draft[r].stamp
  <2> DEFINE answer == IF KindOf[r] \in {"register", "login", "refresh"} THEN "ok" ELSE "failed"
  <2>1. PICK how \in {answer, "failed"} : End(r, how)
    BY <1>2 DEF Save
  <2>2. UNCHANGED <<known, exists, account, mailed, shown, accountHistory>>
    BY <1>2 DEF Save
  <2>3. KindOf[r] = "register" => r \in saved /\ saved # {r}
    BY <1>2 DEF AInv, SavesOnce, Creator, OfKind, Save
  <2>4. how \in {"ok", "failed"} /\ (how = "ok" => KindOf[r] \in {"register", "login", "refresh"})
    BY <2>1
  <2>5. QED BY <2>1, <2>2, <2>3, <2>4, EndKeeps
<1>3. QED BY <1>1, <1>2

LEMMA AInvNext == AInv /\ [AccountsNext]_accountVars => AInv'
<1> SUFFICES ASSUME AInv, [AccountsNext]_accountVars PROVE AInv'
  OBVIOUS
<1>1. ASSUME NEW r \in Requests, RoleMissing(r) PROVE AInv'
  BY <1>1, EndKeeps DEF RoleMissing
<1>2. ASSUME NEW r \in Requests, Kill(r) PROVE AInv'
  BY <1>2, EndKeeps DEF Kill
<1>3. CASE CreateRole \/ UNCHANGED accountVars
  <2>1. known' \subseteq Roles /\ UNCHANGED <<exists, account, mailed, requests, accountHistory>>
    BY <1>3 DEF CreateRole, accountVars, AInv, AccountTypes
  <2> USE <2>1 DEF AInv, requests, accountHistory
  <2>2. AccountTypes'
    BY DEF AccountTypes
  <2>3. StampsTell' /\ SavedFirst' /\ SavesOnce'
    BY DEF StampsTell, SavedFirst, SavesOnce
  <2>4. RolesKept' /\ TokensSpent' /\ Creator'
    BY DEF RolesKept, TokensSpent, ResetOnce, Creator, OfKind
  <2>5. QED BY <2>2, <2>3, <2>4
<1>4. QED
  BY <1>1, <1>2, <1>3, CheckNameKeeps, InsertKeeps, LoadKeeps, ForgotKeeps, SaveKeeps
  DEF AccountsNext

LEMMA AInvHolds == AccountsSpec => []AInv
BY AInvInit, AInvNext, PTL DEF AccountsSpec

\* Types, for any requests.
THEOREM AccountTyped == AccountsSpec => []AccountTypes
<1>1. AInv => AccountTypes
  BY DEF AInv
<1>2. QED BY <1>1, AInvHolds, PTL

\* Though every request of IdentityService saves the whole row it has loaded, with
\* no lock, none undoes what another has saved, and an acknowledged update, role or
\* reset has been saved: for any requests, killed or answered, in any order.
THEOREM NobodyUndoes == AccountsSpec => []NothingUndone
<1>1. AInv => NothingUndone
  BY DEF AInv, SavedFirst, SavesOnce, RolesKept, NothingUndone, OfKind
<1>2. QED BY <1>1, AInvHolds, PTL

\* A mailed token resets the password once, however many requests present it at once.
THEOREM TokensResetOnce == AccountsSpec => []ResetOnce
<1>1. AInv => ResetOnce
  BY DEF AInv, TokensSpent
<1>2. QED BY <1>1, AInvHolds, PTL

\* Of any number of registrations of one e-mail address at most one creates the
\* account, which lacks its role only for one of the reasons RoleAccounted names.
THEOREM OneRegistration == AccountsSpec => []RoleAccounted
<1>1. ASSUME AInv PROVE RoleAccounted
  <2> DEFINE S == OfKind({"register"}) \intersect saved
  <2>1. \A r, q \in S : r = q
    BY <1>1 DEF AInv, Creator
  <2>2. Cardinality(S) <= 1
    <3>1. CASE S = {}
      BY <3>1, FS_EmptySet
    <3>2. CASE S # {}
      <4>1. PICK r \in S : S = {r}
        BY <2>1, <3>2
      <4>2. QED BY <4>1, FS_Singleton
    <3>3. QED BY <3>1, <3>2
  <2>3. \A r \in S : at[r] # "loaded" /\ "Client" \notin account.roles => at[r] = "failed" \/ saved # {r}
    BY <1>1 DEF AInv, Creator
  <2>4. QED BY <2>2, <2>3 DEF RoleAccounted
<1>2. QED BY <1>1, AInvHolds, PTL

-----------------------------------------------------------------------------
(* The refinement of AccountContract.                                        *)

\* What a request that has loaded the row was admitted for.
Presented ==
    \A r \in Requests :
        /\ KindOf[r] \notin {"refresh", "reset"} => shown[r] = NoOne
        /\ KindOf[r] = "refresh" /\ at[r] = "loaded" =>
               shown[r] \in Requests /\ shown[r] = draft[r].refresh
        /\ KindOf[r] = "assign" /\ at[r] = "loaded" => "Administrator" \notin draft[r].roles

LEMMA PresentedNext ==
    ASSUME AInv, Presented, [AccountsNext]_accountVars
    PROVE  Presented'
<1> USE DEF Presented
<1>1. ASSUME NEW r \in Requests, NEW where, NEW loaded, Go(r, where, loaded),
             where = "loaded" => KindOf[r] \notin {"refresh", "assign"},
             UNCHANGED shown
      PROVE  Presented'
  <2>1. /\ at'[r] = where /\ draft'[r] = loaded
        /\ \A q \in Requests \ {r} : at'[q] = at[q] /\ draft'[q] = draft[q]
    BY <1>1, GoMoves DEF AInv
  <2>2. QED BY <1>1, <2>1
<1>2. ASSUME NEW r \in Requests, CheckName(r) PROVE Presented'
  BY <1>1, <1>2 DEF CheckName
<1>3. ASSUME NEW r \in Requests, Insert(r) PROVE Presented'
  <2>1. KindOf[r] = "register"
    BY <1>3 DEF Insert, AInv, SavesOnce
  <2>2. QED BY <1>1, <1>3, <2>1 DEF Insert, End
<1>4. ASSUME NEW r \in Requests, Load(r) PROVE Presented'
  <2>1. PICK s \in Presents(r) :
          /\ shown' = [shown EXCEPT ![r] = s]
          /\ IF Admits(r, s) THEN Go(r, "loaded", account) ELSE End(r, "failed")
    BY <1>4 DEF Load
  <2>2. /\ at'[r] \in {"loaded", "failed"}
        /\ at'[r] = "loaded" => draft'[r] = account /\ Admits(r, s)
        /\ shown'[r] = s
        /\ \A q \in Requests \ {r} :
               at'[q] = at[q] /\ draft'[q] = draft[q] /\ shown'[q] = shown[q]
    BY <2>1, GoMoves DEF End, AInv, AccountTypes
  <2>3. KindOf[r] \notin {"refresh", "reset"} => s = NoOne
    BY DEF Presents
  <2>4. KindOf[r] = "refresh" => s \in Requests
    BY DEF Presents, Answered, OfKind
  <2>5. at'[r] = "loaded" =>
          /\ KindOf[r] = "refresh" => account.refresh = s
          /\ KindOf[r] = "assign" => "Administrator" \notin account.roles
    BY <2>2 DEF Admits
  <2>6. QED BY <2>2, <2>3, <2>4, <2>5
<1>5. ASSUME NEW r \in Requests, Forgot(r) PROVE Presented'
  BY <1>1, <1>5 DEF Forgot, End
<1>6. ASSUME NEW r \in Requests, Save(r) PROVE Presented'
  <2>1. PICK how \in {"ok", "failed"} : End(r, how)
    BY <1>6 DEF Save
  <2>2. QED BY <1>1, <1>6, <2>1 DEF Save, End
<1>7. ASSUME NEW r \in Requests, RoleMissing(r) \/ Kill(r) PROVE Presented'
  BY <1>1, <1>7 DEF RoleMissing, Kill, End
<1>8. CASE CreateRole \/ UNCHANGED accountVars
  BY <1>8 DEF CreateRole, accountVars, requests
<1>9. QED
  BY <1>2, <1>3, <1>4, <1>5, <1>6, <1>7, <1>8 DEF AccountsNext

\* A step that leaves the row, and what requests that have saved it presented, as
\* they are, is none of the contract's.
LEMMA Unpromised ==
    ASSUME UNCHANGED <<exists, account, saved>>, \A q \in saved : shown'[q] = shown[q]
    PROVE  UNCHANGED AccountPromise!promised
BY DEF AccountPromise!promised

\* The save of a request whose stamp is current is the effect of the request on the
\* account as it is.
LEMMA SaveTakesEffect ==
    ASSUME AInv, Presented, NEW r \in Requests, Save(r), account.stamp = draft[r].stamp
    PROVE  AccountPromise!ContractNext
<1> USE DEF AInv
<1>1. at[r] = "loaded" /\ draft[r] = account /\ exists /\ account \in Rows
  BY DEF Save, StampsTell, AccountTypes
<1>2. /\ account' = [Changed(r) EXCEPT !.stamp = @ + 1]
      /\ saved' = saved \union {r}
      /\ UNCHANGED <<exists, shown>>
  BY DEF Save, Record
<1>3. r \in saved <=> KindOf[r] = "register"
  BY <1>1 DEF SavesOnce
<1> DEFINE Holds(a) == [name |-> a.name, password |-> a.password, refresh |-> a.refresh,
                        roles |-> a.roles]
           Spent == [q \in Requests |-> IF q \in saved THEN shown[q] ELSE NoOne]
<1>4. ASSUME KindOf[r] \notin {"refresh", "reset"} PROVE Spent' = Spent
  BY <1>2, <1>4 DEF Presented
<1>5. ASSUME r \notin saved PROVE Spent' = [Spent EXCEPT ![r] = shown[r]]
  BY <1>2, <1>5
<1>6. CASE KindOf[r] = "register"
  <2>1. Holds(account') = [Holds(account) EXCEPT !.roles = @ \union {"Client"}]
    <3>1. /\ account'.name = account.name /\ account'.password = account.password
          /\ account'.refresh = account.refresh
          /\ account'.roles = account.roles \union {"Client"}
      BY <1>1, <1>2, <1>6, ChangedPerKind DEF Rows, Roles
    <3>2. QED BY <3>1
  <2>2. AccountPromise!JoinClients(r)
    BY <1>2, <1>3, <1>4, <1>6, <2>1 DEF AccountPromise!JoinClients
  <2>3. QED BY <2>2 DEF AccountPromise!ContractNext
<1>7. CASE KindOf[r] = "assign"
  <2>1. Holds(account') = [Holds(account) EXCEPT !.roles = @ \union {"Administrator"}]
    <3>1. /\ account'.name = account.name /\ account'.password = account.password
          /\ account'.refresh = account.refresh
          /\ account'.roles = account.roles \union {"Administrator"}
      BY <1>1, <1>2, <1>7, ChangedPerKind DEF Rows, Roles
    <3>2. QED BY <3>1
  <2>2. "Administrator" \notin Holds(account).roles
    BY <1>1, <1>7 DEF Presented
  <2>3. AccountPromise!Promote(r)
    BY <1>1, <1>2, <1>3, <1>4, <1>7, <2>1, <2>2
    DEF AccountPromise!Promote, AccountPromise!TakeEffect
  <2>4. QED BY <2>3 DEF AccountPromise!ContractNext
<1>8. CASE KindOf[r] = "update"
  <2>1. Holds(account') = [Holds(account) EXCEPT !.name = r]
    BY <1>1, <1>2, <1>8, ChangedPerKind DEF Rows
  <2>2. AccountPromise!Rename(r)
    BY <1>1, <1>2, <1>3, <1>4, <1>8, <2>1 DEF AccountPromise!Rename, AccountPromise!TakeEffect
  <2>3. QED BY <2>2 DEF AccountPromise!ContractNext
<1>9. CASE KindOf[r] = "reset"
  <2>1. Holds(account') = [Holds(account) EXCEPT !.password = r]
    BY <1>1, <1>2, <1>9, ChangedPerKind DEF Rows
  <2>2. shown[r] = Holds(account).password
    BY <1>1, <1>9 DEF TokensSpent, OfKind
  <2>3. AccountPromise!Reset(r)
    BY <1>1, <1>2, <1>3, <1>5, <1>9, <2>1, <2>2
    DEF AccountPromise!Reset, AccountPromise!TakeEffect
  <2>4. QED BY <2>3 DEF AccountPromise!ContractNext
<1>10. CASE KindOf[r] = "refresh"
  <2>1. Holds(account') = [Holds(account) EXCEPT !.refresh = r]
    BY <1>1, <1>2, <1>10, ChangedPerKind DEF Rows
  <2>2. shown[r] = Holds(account).refresh /\ shown[r] # NoOne
    BY <1>1, <1>10, AccountsAssumption DEF Presented
  <2>3. AccountPromise!Refresh(r)
    BY <1>1, <1>2, <1>3, <1>5, <1>10, <2>1, <2>2
    DEF AccountPromise!Refresh, AccountPromise!TakeEffect
  <2>4. QED BY <2>3 DEF AccountPromise!ContractNext
<1>11. CASE KindOf[r] = "login"
  <2>1. Holds(account') = [Holds(account) EXCEPT !.refresh = r]
    BY <1>1, <1>2, <1>11, ChangedPerKind DEF Rows
  <2>2. AccountPromise!Login(r)
    BY <1>1, <1>2, <1>3, <1>4, <1>11, <2>1 DEF AccountPromise!Login, AccountPromise!TakeEffect
  <2>3. QED BY <2>2 DEF AccountPromise!ContractNext
<1>12. KindOf[r] \in Kinds \ {"forgot"}
  BY <1>1, AccountsAssumption DEF SavesOnce
<1>13. QED
  BY <1>6, <1>7, <1>8, <1>9, <1>10, <1>11, <1>12 DEF Kinds

\* The insertion of the row is the registration.
LEMMA InsertRegisters ==
    ASSUME AInv, Presented, NEW r \in Requests, Insert(r), ~exists
    PROVE  AccountPromise!ContractNext
<1>1. KindOf[r] = "register" /\ saved = {} /\ account = Empty
  BY DEF Insert, AInv, SavesOnce, SavedFirst
<1>2. /\ exists' = TRUE
      /\ account' = [Empty EXCEPT !.stamp = 1, !.name = r, !.password = r]
      /\ saved' = saved \union {r}
      /\ UNCHANGED shown
  BY DEF Insert, Record
<1>3. account'.name = r /\ account'.password = r /\ account'.refresh = NoOne /\ account'.roles = {}
  BY <1>2 DEF Empty
<1>4. shown[r] = NoOne
  BY <1>1 DEF Presented
<1> DEFINE Holds(a) == [name |-> a.name, password |-> a.password, refresh |-> a.refresh,
                        roles |-> a.roles]
           Spent == [q \in Requests |-> IF q \in saved THEN shown[q] ELSE NoOne]
<1>5. Holds(account') = [name |-> r, password |-> r, refresh |-> NoOne, roles |-> {}]
  BY <1>3
<1>6. Spent' = Spent
  BY <1>2, <1>4
<1>7. AccountPromise!Register(r)
  BY <1>1, <1>2, <1>5, <1>6 DEF AccountPromise!Register
<1>8. QED BY <1>7 DEF AccountPromise!ContractNext

LEMMA ContractStep ==
    ASSUME AInv, Presented, [AccountsNext]_accountVars
    PROVE  [AccountPromise!ContractNext]_(AccountPromise!promised)
<1>1. ASSUME NEW r \in Requests, Insert(r)
      PROVE  [AccountPromise!ContractNext]_(AccountPromise!promised)
  <2>1. CASE exists
    BY <1>1, <2>1, Unpromised DEF Insert, accountHistory
  <2>2. QED BY <1>1, <2>1, InsertRegisters
<1>2. ASSUME NEW r \in Requests, Save(r)
      PROVE  [AccountPromise!ContractNext]_(AccountPromise!promised)
  <2>1. CASE account.stamp # draft[r].stamp
    BY <1>2, <2>1, Unpromised DEF Save, accountHistory
  <2>2. QED BY <1>2, <2>1, SaveTakesEffect
<1>3. ASSUME NEW r \in Requests, Load(r) PROVE UNCHANGED AccountPromise!promised
  <2>1. r \notin saved
    BY <1>3 DEF Load, AInv, SavesOnce
  <2>2. \A q \in saved : shown'[q] = shown[q]
    BY <1>3, <2>1 DEF Load, AInv, AccountTypes
  <2>3. QED BY <1>3, <2>2, Unpromised DEF Load, accountHistory
<1>4. ASSUME NEW r \in Requests, CheckName(r) \/ Forgot(r) \/ RoleMissing(r) \/ Kill(r)
      PROVE  UNCHANGED AccountPromise!promised
  <2>1. UNCHANGED <<exists, account, shown, accountHistory>>
    BY <1>4 DEF CheckName, Forgot, RoleMissing, Kill
  <2>2. QED BY <2>1, Unpromised DEF accountHistory
<1>5. CASE CreateRole \/ UNCHANGED accountVars
  BY <1>5, Unpromised DEF CreateRole, accountVars, requests, accountHistory
<1>6. QED
  BY <1>1, <1>2, <1>3, <1>4, <1>5 DEF AccountsNext

\* Requests that load the row, compute and save it, others in between, killed or
\* unanswered, are as if each had acted once and at once on the account as it then
\* is: for any requests.
THEOREM RequestsActAtOnce == AccountsSpec => ActsAtOnce
<1>1. AccountsInit => Presented
  BY DEF AccountsInit, Presented
<1>2. AccountsSpec => []Presented
  BY <1>1, PresentedNext, AInvHolds, PTL DEF AccountsSpec
<1>3. AccountsInit => AccountPromise!ContractInit
  BY DEF AccountsInit, Empty, AccountPromise!ContractInit
<1>4. QED
  BY <1>2, <1>3, ContractStep, AInvHolds, PTL
  DEF AccountsSpec, ActsAtOnce, AccountPromise!ContractSpec

-----------------------------------------------------------------------------
(* What follows from the contract.                                           *)

\* The invariant of the contract, in the variables of Accounts: what is current is of
\* a request that has taken effect; what has been spent is current no more, nor comes
\* back, nor is spent again.
Past ==
    /\ saved \subseteq Requests
    /\ ~exists => saved = {}
    /\ {account.refresh, account.password} \subseteq saved \union {NoOne}
    /\ \A r \in saved :
        /\ shown[r] \in saved \union {NoOne}
        /\ KindOf[r] = "refresh" => shown[r] # account.refresh
        /\ KindOf[r] = "reset" => shown[r] # account.password
        /\ KindOf[r] \notin {"refresh", "reset"} => shown[r] = NoOne
    /\ \A r, q \in saved :
        KindOf[r] = KindOf[q] /\ shown[r] = shown[q] /\ shown[r] # NoOne => r = q

LEMMA PastSpendsOnce == Past => AccountPromise!SpentOnce
<1>1. ASSUME NEW r \in saved, saved \subseteq Requests
      PROVE  [q \in Requests |-> IF q \in saved THEN shown[q] ELSE NoOne][r] = shown[r]
  BY <1>1
<1>2. QED
  BY <1>1 DEF Past, AccountPromise!SpentOnce

\* A step in which a request takes effect, with what it presents.
LEMMA EffectKeepsPast ==
    ASSUME Past, NEW r \in Requests, saved' = saved \union {r}, r \notin saved, exists',
           \A q \in saved : shown'[q] = shown[q],
           account'.refresh \in {r, account.refresh}, account'.password \in {r, account.password},
           \/ KindOf[r] = "refresh" /\ shown'[r] = account.refresh /\ account'.refresh = r
           \/ KindOf[r] = "reset" /\ shown'[r] = account.password /\ account'.password = r
           \/ KindOf[r] \notin {"refresh", "reset"} /\ shown'[r] = NoOne
    PROVE  Past'
<1>1. saved' \subseteq Requests /\ r # NoOne
  BY AccountsAssumption DEF Past
<1>2. {account'.refresh, account'.password} \subseteq saved' \union {NoOne}
  BY DEF Past
<1>3. shown'[r] \in saved \union {NoOne}
  BY DEF Past
<1>4. ASSUME NEW q \in saved'
      PROVE  /\ shown'[q] \in saved' \union {NoOne}
             /\ KindOf[q] = "refresh" => shown'[q] # account'.refresh
             /\ KindOf[q] = "reset" => shown'[q] # account'.password
             /\ KindOf[q] \notin {"refresh", "reset"} => shown'[q] = NoOne
  BY <1>1, <1>3, <1>4 DEF Past
<1>5. ASSUME NEW p \in saved', NEW q \in saved', KindOf[p] = KindOf[q],
             shown'[p] = shown'[q], shown'[p] # NoOne
      PROVE  p = q
  BY <1>5 DEF Past
<1>6. QED BY <1>1, <1>2, <1>4, <1>5 DEF Past

LEMMA PastNext ==
    ASSUME Past, [AccountPromise!ContractNext]_(AccountPromise!promised)
    PROVE  Past'
<1> DEFINE Holds(a) == [name |-> a.name, password |-> a.password, refresh |-> a.refresh,
                        roles |-> a.roles]
           Spent == [q \in Requests |-> IF q \in saved THEN shown[q] ELSE NoOne]
<1>1. ASSUME NEW r \in Requests, saved' = saved \union {r}, r \notin saved,
             NEW x, Spent' = [Spent EXCEPT ![r] = x]
      PROVE  shown'[r] = x /\ \A q \in saved : shown'[q] = shown[q]
  <2>1. Spent'[r] = x /\ \A q \in Requests \ {r} : Spent'[q] = Spent[q]
    BY <1>1
  <2>2. QED BY <1>1, <2>1 DEF Past
<1>2. ASSUME NEW r \in Requests, saved' = saved \union {r}, r \notin saved, Spent' = Spent
      PROVE  shown'[r] = NoOne /\ \A q \in saved : shown'[q] = shown[q]
  <2>1. Spent'[r] = Spent[r] /\ \A q \in Requests : Spent'[q] = Spent[q]
    BY <1>2
  <2>2. QED BY <1>2, <2>1 DEF Past
<1>3. ASSUME NEW r \in Requests, AccountPromise!Register(r) PROVE Past'
  <2>1. /\ KindOf[r] = "register" /\ saved' = {r} /\ exists' = TRUE
        /\ Holds(account') = [name |-> r, password |-> r, refresh |-> NoOne, roles |-> {}]
    BY <1>3 DEF AccountPromise!Register, Past
  <2>2. account'.refresh = NoOne /\ account'.password = r
    BY <2>1
  <2>3. shown'[r] = NoOne
    BY <1>2, <1>3 DEF AccountPromise!Register, Past
  <2>4. QED BY <2>1, <2>2, <2>3 DEF Past
<1>4. ASSUME NEW r \in Requests, AccountPromise!JoinClients(r) PROVE Past'
  <2>1. /\ saved' = saved /\ exists' = exists /\ Spent' = Spent
        /\ Holds(account') = [Holds(account) EXCEPT !.roles = @ \union {"Client"}]
    BY <1>4 DEF AccountPromise!JoinClients
  <2>2. account'.refresh = account.refresh /\ account'.password = account.password
    BY <2>1
  <2>3. \A q \in Requests : Spent'[q] = Spent[q]
    BY <2>1
  <2>4. \A q \in saved : shown'[q] = shown[q]
    BY <2>1, <2>3 DEF Past
  <2>5. QED BY <2>1, <2>2, <2>4 DEF Past
<1>5. ASSUME NEW r \in Requests,
             AccountPromise!Login(r) \/ AccountPromise!Rename(r) \/ AccountPromise!Promote(r)
      PROVE  Past'
  <2>1. /\ KindOf[r] \in {"login", "update", "assign"} /\ exists' = exists /\ exists
        /\ saved' = saved \union {r} /\ r \notin saved /\ Spent' = Spent
    BY <1>5 DEF AccountPromise!Login, AccountPromise!Rename, AccountPromise!Promote,
                AccountPromise!TakeEffect
  <2>2. \/ Holds(account') = [Holds(account) EXCEPT !.refresh = r]
        \/ Holds(account') = [Holds(account) EXCEPT !.name = r]
        \/ Holds(account') = [Holds(account) EXCEPT !.roles = @ \union {"Administrator"}]
    BY <1>5 DEF AccountPromise!Login, AccountPromise!Rename, AccountPromise!Promote,
                AccountPromise!TakeEffect
  <2>3. account'.refresh \in {r, account.refresh} /\ account'.password = account.password
    BY <2>2
  <2>4. QED BY <1>2, <2>1, <2>3, EffectKeepsPast
<1>6. ASSUME NEW r \in Requests, AccountPromise!Refresh(r) PROVE Past'
  <2>1. /\ KindOf[r] = "refresh" /\ exists' = exists /\ exists
        /\ saved' = saved \union {r} /\ r \notin saved
        /\ Spent' = [Spent EXCEPT ![r] = Holds(account).refresh]
        /\ Holds(account') = [Holds(account) EXCEPT !.refresh = r]
    BY <1>6 DEF AccountPromise!Refresh, AccountPromise!TakeEffect
  <2>2. account'.refresh = r /\ account'.password = account.password
    BY <2>1
  <2>3. QED BY <1>1, <2>1, <2>2, EffectKeepsPast
<1>7. ASSUME NEW r \in Requests, AccountPromise!Reset(r) PROVE Past'
  <2>1. /\ KindOf[r] = "reset" /\ exists' = exists /\ exists
        /\ saved' = saved \union {r} /\ r \notin saved
        /\ Spent' = [Spent EXCEPT ![r] = Holds(account).password]
        /\ Holds(account') = [Holds(account) EXCEPT !.password = r]
    BY <1>7 DEF AccountPromise!Reset, AccountPromise!TakeEffect
  <2>2. account'.password = r /\ account'.refresh = account.refresh
    BY <2>1
  <2>3. QED BY <1>1, <2>1, <2>2, EffectKeepsPast
<1>8. CASE UNCHANGED AccountPromise!promised
  <2>1. /\ saved' = saved /\ exists' = exists /\ Spent' = Spent /\ Holds(account') = Holds(account)
    BY <1>8 DEF AccountPromise!promised
  <2>2. account'.refresh = account.refresh /\ account'.password = account.password
    BY <2>1
  <2>3. \A q \in Requests : Spent'[q] = Spent[q]
    BY <2>1
  <2>4. \A q \in saved : shown'[q] = shown[q]
    BY <2>1, <2>3 DEF Past
  <2>5. QED BY <2>1, <2>2, <2>4 DEF Past
<1>9. QED
  BY <1>3, <1>4, <1>5, <1>6, <1>7, <1>8 DEF AccountPromise!ContractNext

\* No account that keeps the contract exchanges a pair twice, or lets a mailed token
\* reset twice.
THEOREM ContractSpendsOnce ==
    AccountPromise!ContractSpec => []AccountPromise!SpentOnce
<1>1. AccountPromise!ContractInit => Past
  <2> SUFFICES ASSUME AccountPromise!ContractInit PROVE Past
    OBVIOUS
  <2>1. saved = {} /\ account.refresh = NoOne /\ account.password = NoOne
    BY DEF AccountPromise!ContractInit
  <2>2. QED BY <2>1 DEF Past
<1>2. AccountPromise!ContractSpec => []Past
  BY <1>1, PastNext, PTL DEF AccountPromise!ContractSpec
<1>3. QED BY <1>2, PastSpendsOnce, PTL

\* Nor, therefore, does IdentityService: of the requests that present one pair, or one
\* mailed token, at once or after each other, one saves the account.
THEOREM PairsExchangedOnce == AccountsSpec => []AccountPromise!SpentOnce
BY RequestsActAtOnce, ContractSpendsOnce, PTL DEF ActsAtOnce

-----------------------------------------------------------------------------

(* The rows of the server together: a behaviour of the composition is one of    *)
(* each part, so every theorem about a part holds of the composition.           *)

\* The outbox and the account, run side by side, each keep to their specification.
THEOREM RowsAreBoth == RowsSpec => Spec /\ AccountsSpec
<1>1. RowsInit => Init /\ AccountsInit
  BY DEF RowsInit
<1>2. [RowsNext]_rowsVars => [Next]_vars /\ [AccountsNext]_accountVars
  BY DEF RowsNext, rowsVars
<1>3. QED BY <1>1, <1>2, PTL DEF RowsSpec, Spec, AccountsSpec

\* The types of both, in every state of the composition.
THEOREM RowsTyped == RowsSpec => []RowsTypes
<1>1. TypeOK /\ AccountTypes => RowsTypes
  BY DEF RowsTypes
<1>2. QED BY <1>1, RowsAreBoth, TypeCorrect, AccountTyped, PTL
=============================================================================
