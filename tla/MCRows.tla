------------------------------- MODULE MCRows -------------------------------
(* The rows of the server's database that several writers load, change and save
   with no lock, for TLC: those of the outbox, which two replicas process, and
   the account of a user, which nine requests write.  They share no state: `part`
   picks, at the start, the one that moves, so their states add up and do not
   multiply. *)
EXTENDS MCOutbox, Accounts

CONSTANTS reg1, reg2, login1, refresh1, update1, assign1, forgot1, reset1, reset2

MCKindOf ==
    [r \in Requests |->
        CASE r \in {reg1, reg2} -> "register"
          [] r = login1 -> "login"
          [] r = refresh1 -> "refresh"
          [] r = update1 -> "update"
          [] r = assign1 -> "assign"
          [] r = forgot1 -> "forgot"
          [] r \in {reset1, reset2} -> "reset"]

\* Replicas, and requests of one kind, differ in their names only.
RowsSymmetry ==
    ReplicaSymmetry \union Permutations({reg1, reg2}) \union Permutations({reset1, reset2})

VARIABLE part

rowsVars == <<part, vars, accountVars>>

RowsInit ==
    /\ part \in {"outbox", "account"}
    /\ Init
    /\ AccountsInit
    /\ part # "account" => known = Roles

RowsNext ==
    /\ UNCHANGED part
    /\ \/ part = "outbox" /\ Next /\ UNCHANGED accountVars
       \/ part = "account" /\ AccountsNext /\ UNCHANGED vars

RowsSpec == RowsInit /\ [][RowsNext]_rowsVars

\* The types of both.
RowsTypes == TypeOK /\ AccountTypes
=============================================================================
