-------------------------- MODULE AccountContract --------------------------
(***************************************************************************)
(* What IdentityService promises of an account, with no copies, stamps,    *)
(* kills or lost answers: a request takes effect at most once, whole, on   *)
(* the account as it is at that moment; and a pair of tokens or a mailed   *)
(* token is good only as long as it is the current one.                    *)
(***************************************************************************)
CONSTANTS
    Requests, \* the requests
    KindOf,   \* what each asks for
    NoOne     \* no request: not set

VARIABLES
    opened,    \* the account is there
    holds,     \* whose name, password, pair and roles it has
    effective, \* the requests that have taken effect
    spent      \* per request, the pair or mailed token it took effect with

promised == <<opened, holds, effective, spent>>

ContractInit ==
    /\ opened = FALSE
    /\ holds = [name |-> NoOne, password |-> NoOne, refresh |-> NoOne, roles |-> {}]
    /\ effective = {}
    /\ spent = [r \in Requests |-> NoOne]

Register(r) ==
    /\ KindOf[r] = "register"
    /\ ~opened
    /\ opened' = TRUE
    /\ holds' = [name |-> r, password |-> r, refresh |-> NoOne, roles |-> {}]
    /\ effective' = effective \union {r}
    /\ UNCHANGED spent

\* The second half of a registration, which may never come.
JoinClients(r) ==
    /\ KindOf[r] = "register"
    /\ r \in effective
    /\ holds' = [holds EXCEPT !.roles = @ \union {"Client"}]
    /\ UNCHANGED <<opened, effective, spent>>

TakeEffect(r, kind, what) ==
    /\ KindOf[r] = kind
    /\ opened
    /\ r \notin effective
    /\ effective' = effective \union {r}
    /\ holds' = what
    /\ UNCHANGED opened

Login(r) == TakeEffect(r, "login", [holds EXCEPT !.refresh = r]) /\ UNCHANGED spent

Rename(r) == TakeEffect(r, "update", [holds EXCEPT !.name = r]) /\ UNCHANGED spent

Promote(r) ==
    /\ "Administrator" \notin holds.roles
    /\ TakeEffect(r, "assign", [holds EXCEPT !.roles = @ \union {"Administrator"}])
    /\ UNCHANGED spent

\* The pair presented is the current one.
Refresh(r) ==
    /\ holds.refresh # NoOne
    /\ TakeEffect(r, "refresh", [holds EXCEPT !.refresh = r])
    /\ spent' = [spent EXCEPT ![r] = holds.refresh]

\* The token presented was made from the current password.
Reset(r) ==
    /\ TakeEffect(r, "reset", [holds EXCEPT !.password = r])
    /\ spent' = [spent EXCEPT ![r] = holds.password]

ContractNext ==
    \E r \in Requests :
        \/ Register(r) \/ JoinClients(r) \/ Login(r) \/ Rename(r)
        \/ Promote(r) \/ Refresh(r) \/ Reset(r)

ContractSpec == ContractInit /\ [][ContractNext]_promised

\* No pair is exchanged twice and no mailed token resets twice.
SpentOnce ==
    \A r, q \in effective :
        KindOf[r] = KindOf[q] /\ spent[r] = spent[q] /\ spent[r] # NoOne => r = q
=============================================================================
