---------------------------- MODULE AdminSession ----------------------------
(***************************************************************************)
(* The session of the admin panel in one browser tab.  It is kept in four  *)
(* places that are written by different code: the token pair in            *)
(* localStorage (what calls are sent with and what the route guard reads), *)
(* the access token in the auth store, the cookie the store starts from,   *)
(* and the profile in the query cache.  A token is known by the login it   *)
(* descends from, 0 is no token; a refresh gives a pair of the same login. *)
(*                                                                         *)
(* While a login is under way the user stays on the sign-in page.  Other   *)
(* tabs, which share localStorage, may clear the pair; their refreshes are *)
(* the subject of TokenRefresh.  Leaving for the sign-in page by           *)
(* window.location ends the script and its calls at once.                  *)
(***************************************************************************)
EXTENDS Naturals

CONSTANTS
    PageCalls, \* the queries of the pages, other than the profile
    Me,        \* the query of the user's own profile
    MaxSignIns \* bound: accepted logins

ASSUME AdminAssumption == Me \notin PageCalls /\ MaxSignIns \in Nat

VARIABLES
    page,        \* "signin", or "inside" the routes behind the guard
    storedPair,  \* the pair in localStorage
    store,       \* the access token of the auth store
    cookie,      \* its cookie
    profile,     \* the cached profile: whose it is, 0 if there is none
    fresh,       \* it is neither invalidated nor older than five minutes
    callAt,      \* per call: "idle", "sent", "waiting" for a refresh, or "refreshing"
    of,          \* per call: the token it was sent with, or the pair it refreshes
    retriedCall, \* per call: _retry
    login,       \* a login is under way
    \* history
    last,        \* the last accepted login
    crossed,     \* a call was in flight when some login was accepted
    failed,      \* a profile call was rejected since the last login
    signedOut    \* the user has signed out since the last login

callVars == <<callAt, of, retriedCall>>
profileCache == <<profile, fresh>>
adminHistory == <<last, crossed, failed, signedOut>>
adminVars == <<page, storedPair, store, cookie, profileCache, callVars, login, adminHistory>>

Calls == PageCalls \union {Me}

InFlight == {c \in Calls : callAt[c] # "idle"}

AdminInit ==
    /\ page = "signin"
    /\ storedPair = 0
    /\ store = 0
    /\ cookie = 0
    /\ profile = 0
    /\ fresh = FALSE
    /\ callAt = [c \in Calls |-> "idle"]
    /\ of = [c \in Calls |-> 0]
    /\ retriedCall = [c \in Calls |-> FALSE]
    /\ login = FALSE
    /\ last = 0
    /\ crossed = FALSE
    /\ failed = FALSE
    /\ signedOut = FALSE

-----------------------------------------------------------------------------
(* Pages. *)

\* A query is sent; the request interceptor takes the token of localStorage, p.
SendCall(c, p) ==
    /\ callAt' = [callAt EXCEPT ![c] = "sent"]
    /\ of' = [of EXCEPT ![c] = p]
    /\ retriedCall' = [retriedCall EXCEPT ![c] = FALSE]

\* The user menu is mounted, with the pair p, the store s and freshness f: its
\* query is enabled by the store; if stale it fetches, or joins the fetch under way.
Mount(p, s, f) ==
    IF s # 0 /\ ~f /\ callAt[Me] = "idle" THEN SendCall(Me, p) ELSE UNCHANGED callVars

SubmitLogin ==
    /\ page = "signin"
    /\ ~login
    /\ last < MaxSignIns
    /\ login' = TRUE
    /\ UNCHANGED <<page, storedPair, store, cookie, profileCache, callVars, adminHistory>>

\* Mutant of LoginAccepted: the cached profile is not invalidated.
LoginKeepsProfile ==
    /\ login
    /\ login' = FALSE
    /\ last' = last + 1
    /\ storedPair' = last'
    /\ store' = last'
    /\ cookie' = last'
    /\ UNCHANGED profileCache
    /\ page' = "inside"
    /\ Mount(storedPair', store', fresh)
    /\ crossed' = (crossed \/ InFlight # {})
    /\ failed' = FALSE
    /\ signedOut' = FALSE

\* onSuccess writes pair, store and cookie and invalidates the profile; the form
\* then goes to the page behind the guard.
LoginAccepted ==
    /\ login
    /\ login' = FALSE
    /\ last' = last + 1
    /\ storedPair' = last'
    /\ store' = last'
    /\ cookie' = last'
    /\ fresh' = FALSE
    /\ UNCHANGED profile
    /\ page' = "inside"
    /\ Mount(storedPair', store', fresh')
    /\ crossed' = (crossed \/ InFlight # {})
    /\ failed' = FALSE
    /\ signedOut' = FALSE

LoginRefused ==
    /\ login
    /\ login' = FALSE
    /\ UNCHANGED <<page, storedPair, store, cookie, profileCache, callVars, adminHistory>>

\* A link, or a step back: the guard lets in whoever has a token in localStorage.
Enter ==
    /\ page = "signin"
    /\ ~login
    /\ storedPair # 0
    /\ page' = "inside"
    /\ Mount(storedPair, store, fresh)
    /\ UNCHANGED <<storedPair, store, cookie, profileCache, login, adminHistory>>

GoToSignIn ==
    /\ page = "inside"
    /\ page' = "signin"
    /\ UNCHANGED <<storedPair, store, cookie, profileCache, callVars, login, adminHistory>>

\* handleSignOut resets the store and its cookie, and goes to the sign-in page.
SignOut ==
    /\ page = "inside"
    /\ page' = "signin"
    /\ store' = 0
    /\ cookie' = 0
    /\ signedOut' = TRUE
    /\ UNCHANGED <<storedPair, profileCache, callVars, login, last, crossed, failed>>

\* The script starts over: the store from its cookie, the cache empty.
Restart(p, c, there) ==
    /\ page' = IF there = "inside" /\ p # 0 THEN "inside" ELSE "signin"
    /\ store' = c
    /\ profile' = 0
    /\ fresh' = FALSE
    /\ login' = FALSE
    /\ LET fetch == page' = "inside" /\ c # 0
       IN /\ callAt' = [x \in Calls |-> IF fetch /\ x = Me THEN "sent" ELSE "idle"]
          /\ of' = [of EXCEPT ![Me] = p]
          /\ retriedCall' = [x \in Calls |-> FALSE]

Reload ==
    /\ Restart(storedPair, cookie, page)
    /\ UNCHANGED <<storedPair, cookie, adminHistory>>

\* Seven days after the login.
ExpireCookie ==
    /\ cookie # 0
    /\ cookie' = 0
    /\ UNCHANGED <<page, storedPair, store, profileCache, callVars, login, adminHistory>>

\* Another tab's refresh is refused: it clears the pair they share.
ClearElsewhere ==
    /\ storedPair # 0
    /\ storedPair' = 0
    /\ UNCHANGED <<page, store, cookie, profileCache, callVars, login, adminHistory>>

-----------------------------------------------------------------------------
(* The query cache. *)

\* Five minutes pass since the profile arrived.
Age ==
    /\ fresh
    /\ fresh' = FALSE
    /\ UNCHANGED <<page, storedPair, store, cookie, profile, callVars, login, adminHistory>>

\* A query nobody observes is removed from the cache.
Forget ==
    /\ page = "signin"
    /\ profile # 0
    /\ callAt[Me] = "idle"
    /\ profile' = 0
    /\ fresh' = FALSE
    /\ UNCHANGED <<page, storedPair, store, cookie, callVars, login, adminHistory>>

\* The window gets the focus: a stale query that is enabled is fetched again.
Focus ==
    /\ page = "inside"
    /\ store # 0
    /\ ~fresh
    /\ callAt[Me] = "idle"
    /\ SendCall(Me, storedPair)
    /\ UNCHANGED <<page, storedPair, store, cookie, profileCache, login, adminHistory>>

SendPageCall(c) ==
    /\ page = "inside"
    /\ callAt[c] = "idle"
    /\ SendCall(c, storedPair)
    /\ UNCHANGED <<page, storedPair, store, cookie, profileCache, login, adminHistory>>

-----------------------------------------------------------------------------
(* Answers. *)

Answer(c) ==
    /\ callAt[c] = "sent"
    /\ of[c] # 0
    /\ callAt' = [callAt EXCEPT ![c] = "idle"]
    /\ IF c = Me THEN profile' = of[c] /\ fresh' = TRUE ELSE UNCHANGED profileCache
    /\ UNCHANGED <<page, storedPair, store, cookie, of, retriedCall, login, adminHistory>>

\* Another error than a 401, or no answer.
Fail(c) ==
    /\ callAt[c] = "sent"
    /\ callAt' = [callAt EXCEPT ![c] = "idle"]
    /\ failed' = (failed \/ c = Me)
    /\ UNCHANGED <<page, storedPair, store, cookie, profileCache, of, retriedCall, login, last,
                   crossed, signedOut>>

\* A second 401: "Session expired!" resets the store, and only the store.
SessionExpired(c) ==
    /\ callAt[c] = "sent"
    /\ retriedCall[c]
    /\ callAt' = [callAt EXCEPT ![c] = "idle"]
    /\ failed' = (failed \/ c = Me)
    /\ store' = 0
    /\ cookie' = 0
    /\ page' = "signin"
    /\ UNCHANGED <<storedPair, profileCache, of, retriedCall, login, last, crossed, signedOut>>

Wait(c) ==
    /\ callAt[c] = "sent"
    /\ ~retriedCall[c]
    /\ \E d \in Calls : callAt[d] = "refreshing"
    /\ callAt' = [callAt EXCEPT ![c] = "waiting"]
    /\ UNCHANGED <<page, storedPair, store, cookie, profileCache, of, retriedCall, login,
                   adminHistory>>

StartRefresh(c) ==
    /\ callAt[c] = "sent"
    /\ ~retriedCall[c]
    /\ \A d \in Calls : callAt[d] # "refreshing"
    /\ storedPair # 0
    /\ callAt' = [callAt EXCEPT ![c] = "refreshing"]
    /\ of' = [of EXCEPT ![c] = storedPair]
    /\ retriedCall' = [retriedCall EXCEPT ![c] = TRUE]
    /\ UNCHANGED <<page, storedPair, store, cookie, profileCache, login, adminHistory>>

\* A 401 and no pair to refresh: the rejected 401 resets the store on the way out.
LeaveWithoutTokens(c) ==
    /\ callAt[c] = "sent"
    /\ ~retriedCall[c]
    /\ \A d \in Calls : callAt[d] # "refreshing"
    /\ storedPair = 0
    /\ cookie' = 0
    /\ Restart(0, 0, "signin")
    /\ UNCHANGED <<storedPair, adminHistory>>

\* Mutant of RefreshAnswered: the pair is taken for a new login's.
RefreshedAsLogin(c) ==
    /\ callAt[c] = "refreshing"
    /\ storedPair' = of[c] + 1
    /\ LET again == {c} \union {d \in Calls : callAt[d] = "waiting"}
       IN /\ callAt' = [d \in Calls |-> IF d \in again THEN "sent" ELSE callAt[d]]
          /\ of' = [d \in Calls |-> IF d \in again THEN of[c] ELSE of[d]]
    /\ UNCHANGED <<page, store, cookie, profileCache, retriedCall, login, adminHistory>>

\* The new pair is stored; the call and those waiting are sent again, with it.
RefreshAnswered(c) ==
    /\ callAt[c] = "refreshing"
    /\ storedPair' = of[c]
    /\ LET again == {c} \union {d \in Calls : callAt[d] = "waiting"}
       IN /\ callAt' = [d \in Calls |-> IF d \in again THEN "sent" ELSE callAt[d]]
          /\ of' = [d \in Calls |-> IF d \in again THEN of[c] ELSE of[d]]
    /\ UNCHANGED <<page, store, cookie, profileCache, retriedCall, login, adminHistory>>

\* No pair in the answer, or no answer: the pair is cleared, the store's cookie is not.
RefreshDenied(c) ==
    /\ callAt[c] = "refreshing"
    /\ storedPair' = 0
    /\ Restart(0, cookie, "signin")
    /\ UNCHANGED <<cookie, adminHistory>>

-----------------------------------------------------------------------------
AdminNext ==
    \/ SubmitLogin \/ LoginAccepted \/ LoginRefused
    \/ Enter \/ GoToSignIn \/ SignOut \/ Reload
    \/ ExpireCookie \/ ClearElsewhere
    \/ Age \/ Forget \/ Focus
    \/ \E c \in PageCalls : SendPageCall(c)
    \/ \E c \in Calls :
        \/ Answer(c) \/ Fail(c) \/ SessionExpired(c)
        \/ Wait(c) \/ StartRefresh(c) \/ LeaveWithoutTokens(c)
        \/ RefreshAnswered(c) \/ RefreshDenied(c)

AdminSpec == AdminInit /\ [][AdminNext]_adminVars

-----------------------------------------------------------------------------
(* Properties. *)

AdminTypes ==
    /\ page \in {"signin", "inside"}
    /\ last \in 0 .. MaxSignIns
    /\ {storedPair, store, cookie, profile} \subseteq 0 .. last
    /\ fresh \in BOOLEAN
    /\ callAt \in [Calls -> {"idle", "sent", "waiting", "refreshing"}]
    /\ of \in [Calls -> 0 .. last]
    /\ retriedCall \in [Calls -> BOOLEAN]
    /\ login \in BOOLEAN
    /\ crossed \in BOOLEAN
    /\ failed \in BOOLEAN
    /\ signedOut \in BOOLEAN
    /\ login => last < MaxSignIns

\* Unless a call of an earlier session was in flight when a login was accepted,
\* tokens, store, cookie and a valid cached profile are all of the last login:
\* a late refresh or profile never puts an earlier user back.
SessionsUnmixed ==
    ~crossed =>
        /\ {storedPair, store, cookie} \subseteq {0, last}
        /\ \A c \in InFlight : of[c] \in {0, last}
        /\ fresh => profile = last

\* A profile of an earlier login is left in the cache only while the profile of
\* this one is being fetched, or after that call was rejected.
OldProfileLeaves ==
    ~crossed /\ ~failed /\ profile \notin {0, last} => callAt[Me] # "idle"

\* What a sign-out does clear stays cleared until the next login, whatever answers come
\* late and however often the page is loaded again: the guard, which reads the pair, may
\* let the user back in, but the auth store knows nobody.
SignOutClears ==
    signedOut => store = 0 /\ cookie = 0

\* "You will need to sign in again to access your account."
SignOutSticks == signedOut => page # "inside"
=============================================================================
