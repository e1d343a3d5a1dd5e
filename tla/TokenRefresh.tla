---------------------------- MODULE TokenRefresh ----------------------------
(***************************************************************************)
(* The sign-on session of the web client: the tabs of one browser, which   *)
(* share the tokens in localStorage but each have their own refresh flag   *)
(* and queue, and the server, which keeps one refresh token per user and   *)
(* replaces it at every refresh and login.                                 *)
(*                                                                         *)
(* The server issues tokens in pairs (access and refresh), numbered in     *)
(* the order of issue; a token is known by the number of its pair, and 0   *)
(* is no token.  Tokens expire in that order.  Leaving a tab for the login *)
(* page ends its script and its requests at once.                          *)
(***************************************************************************)
EXTENDS Naturals, FiniteSets

CONSTANTS
    Tabs,        \* the browser tabs
    Requests,    \* calls of the API
    TabOf,       \* the tab each call is made in
    MaxExpiries, \* bound: how often access tokens expire
    MaxLogins,   \* bound: later logins, in this browser or on another device
    MaxLost      \* bound: refresh calls the network loses

ASSUME TokenAssumption ==
    /\ TabOf \in [Requests -> Tabs]
    /\ MaxExpiries \in Nat
    /\ MaxLogins \in Nat
    /\ MaxLost \in Nat

VARIABLES
    stored,       \* the pair in localStorage
    current,      \* the pair whose refresh token the user's row holds
    issued,       \* the last pair the server issued
    expired,      \* access tokens up to this one have expired
    isRefreshing, \* per tab: its flag
    at,           \* per call: where it is
    token,        \* per call: the access token it was sent with
    retried,      \* per call: _retry
    pair,         \* per call that refreshes: the pair it sent, then received
    expiries, logins, lost, \* bounded by MaxExpiries, MaxLogins, MaxLost
    raced         \* history: a tab began to refresh while another was at it

server == <<current, issued>>
calls == <<at, token, retried, pair>>
bounds == <<expiries, logins, lost, raced>>
vars == <<stored, server, expired, isRefreshing, calls, bounds>>

\* A call that refreshes is, in turn, asking, compared, and answered or refused.
Refreshing == {"asking", "compared", "answered", "refused"}

Ended == {"done", "failed"}

Init ==
    /\ stored = 1
    /\ current = 1
    /\ issued = 1
    /\ expired = 0
    /\ isRefreshing = [t \in Tabs |-> FALSE]
    /\ at = [r \in Requests |-> "idle"]
    /\ token = [r \in Requests |-> 0]
    /\ retried = [r \in Requests |-> FALSE]
    /\ pair = [r \in Requests |-> 0]
    /\ expiries = 0
    /\ logins = 0
    /\ lost = 0
    /\ raced = FALSE

CallsOf(t) == {r \in Requests : TabOf[r] = t}

Refreshers == {r \in Requests : at[r] \in Refreshing}

-----------------------------------------------------------------------------
(* The client. *)

\* The request interceptor runs for a new call and for a replay; without a
\* stored token it leaves the header as it is.
Send(r) ==
    /\ at[r] \in {"idle", "replay"}
    /\ at' = [at EXCEPT ![r] = "sent"]
    /\ token' = [token EXCEPT ![r] = IF stored # 0 THEN stored ELSE @]
    /\ UNCHANGED <<stored, server, expired, isRefreshing, retried, pair, bounds>>

Succeed(r) ==
    /\ at[r] = "sent"
    /\ token[r] > expired
    /\ at' = [at EXCEPT ![r] = "done"]
    /\ UNCHANGED <<stored, server, expired, isRefreshing, token, retried, pair, bounds>>

\* An error that is not a 401, or no answer at all.
FailOtherwise(r) ==
    /\ at[r] = "sent"
    /\ at' = [at EXCEPT ![r] = "failed"]
    /\ UNCHANGED <<stored, server, expired, isRefreshing, token, retried, pair, bounds>>

Unauthorized(r) == at[r] = "sent" /\ token[r] <= expired

FailAfterRetry(r) ==
    /\ Unauthorized(r)
    /\ retried[r]
    /\ at' = [at EXCEPT ![r] = "failed"]
    /\ UNCHANGED <<stored, server, expired, isRefreshing, token, retried, pair, bounds>>

Enqueue(r) ==
    /\ Unauthorized(r)
    /\ ~retried[r]
    /\ isRefreshing[TabOf[r]]
    /\ at' = [at EXCEPT ![r] = "waiting"]
    /\ UNCHANGED <<stored, server, expired, isRefreshing, token, retried, pair, bounds>>

BeginRefresh(r) ==
    /\ Unauthorized(r)
    /\ ~retried[r]
    /\ ~isRefreshing[TabOf[r]]
    /\ stored # 0
    /\ retried' = [retried EXCEPT ![r] = TRUE]
    /\ isRefreshing' = [isRefreshing EXCEPT ![TabOf[r]] = TRUE]
    /\ at' = [at EXCEPT ![r] = "asking"]
    /\ pair' = [pair EXCEPT ![r] = stored]
    /\ raced' = (raced \/ Refreshers # {})
    /\ UNCHANGED <<stored, server, expired, token, expiries, logins, lost>>

\* processQueue with an error, clearTokens, and on to the login page.
LeaveTab(t) ==
    /\ stored' = 0
    /\ isRefreshing' = [isRefreshing EXCEPT ![t] = FALSE]
    /\ at' = [r \in Requests |->
                IF r \in CallsOf(t) /\ at[r] # "idle" /\ at[r] \notin Ended
                THEN "failed" ELSE at[r]]
    /\ UNCHANGED <<server, expired, token, retried, pair>>

FailWithoutTokens(r) ==
    /\ Unauthorized(r)
    /\ ~retried[r]
    /\ ~isRefreshing[TabOf[r]]
    /\ stored = 0
    /\ LeaveTab(TabOf[r])
    /\ UNCHANGED bounds

\* Mutant of Refreshed: the queue is not processed.
RefreshedAlone(r) ==
    /\ at[r] = "answered"
    /\ stored' = pair[r]
    /\ isRefreshing' = [isRefreshing EXCEPT ![TabOf[r]] = FALSE]
    /\ at' = [at EXCEPT ![r] = "replay"]
    /\ pair' = [pair EXCEPT ![r] = 0]
    /\ UNCHANGED <<server, expired, token, retried, bounds>>

\* Mutant of Refreshed: the flag is not taken down.
RefreshedFlagUp(r) ==
    /\ at[r] = "answered"
    /\ stored' = pair[r]
    /\ at' = [q \in Requests |->
                IF q = r \/ (q \in CallsOf(TabOf[r]) /\ at[q] = "waiting")
                THEN "replay" ELSE at[q]]
    /\ pair' = [pair EXCEPT ![r] = 0]
    /\ UNCHANGED <<server, expired, isRefreshing, token, retried, bounds>>

\* The new pair is stored, the queue is replayed, then the call itself; the flag
\* is down before any of them is answered.
Refreshed(r) ==
    /\ at[r] = "answered"
    /\ stored' = pair[r]
    /\ isRefreshing' = [isRefreshing EXCEPT ![TabOf[r]] = FALSE]
    /\ at' = [q \in Requests |->
                IF q = r \/ (q \in CallsOf(TabOf[r]) /\ at[q] = "waiting")
                THEN "replay" ELSE at[q]]
    /\ pair' = [pair EXCEPT ![r] = 0]
    /\ UNCHANGED <<server, expired, token, retried, bounds>>

RefreshRefused(r) ==
    /\ at[r] = "refused"
    /\ LeaveTab(TabOf[r])
    /\ UNCHANGED bounds

\* The call or its answer is lost; the server may have issued the pair.
RefreshLost(r) ==
    /\ at[r] \in {"asking", "answered"}
    /\ lost < MaxLost
    /\ lost' = lost + 1
    /\ LeaveTab(TabOf[r])
    /\ UNCHANGED <<expiries, logins, raced>>

-----------------------------------------------------------------------------
(* The server and the clock. *)

\* RefreshTokenInternalAsync loads the user and compares the refresh token.
Compare(r) ==
    /\ at[r] = "asking"
    /\ at' = [at EXCEPT ![r] = IF pair[r] = current THEN "compared" ELSE "refused"]
    /\ UNCHANGED <<stored, server, expired, isRefreshing, token, retried, pair, bounds>>

\* Mutant of Issue: the row is not updated.
IssueUnstored(r) ==
    /\ at[r] = "compared"
    /\ issued' = issued + 1
    /\ pair' = [pair EXCEPT ![r] = issued + 1]
    /\ at' = [at EXCEPT ![r] = "answered"]
    /\ UNCHANGED <<stored, current, expired, isRefreshing, token, retried, bounds>>

\* It issues a new pair and updates the row it has loaded.  If the row has been
\* updated meanwhile UpdateAsync fails, and the failure is not looked at.
Issue(r) ==
    /\ at[r] = "compared"
    /\ issued' = issued + 1
    /\ current' = IF current = pair[r] THEN issued + 1 ELSE current
    /\ pair' = [pair EXCEPT ![r] = issued + 1]
    /\ at' = [at EXCEPT ![r] = "answered"]
    /\ UNCHANGED <<stored, expired, isRefreshing, token, retried, bounds>>

\* Mutant of Login: the pair is given a number nobody counts.
LoginUncounted ==
    /\ logins < MaxLogins
    /\ logins' = logins + 1
    /\ current' = issued + 1
    /\ stored' \in IF stored = 0 THEN {0, issued + 1} ELSE {stored}
    /\ UNCHANGED <<issued, expired, isRefreshing, calls, expiries, lost, raced>>

\* The user logs in again here, or on another device; the user's only refresh
\* token is replaced.
Login ==
    /\ logins < MaxLogins
    /\ logins' = logins + 1
    /\ issued' = issued + 1
    /\ current' = issued + 1
    /\ stored' \in IF stored = 0 THEN {0, issued + 1} ELSE {stored}
    /\ UNCHANGED <<expired, isRefreshing, calls, expiries, lost, raced>>

Expire ==
    /\ expiries < MaxExpiries
    /\ expiries' = expiries + 1
    /\ expired' \in (expired + 1) .. issued
    /\ UNCHANGED <<stored, server, isRefreshing, calls, logins, lost, raced>>

-----------------------------------------------------------------------------
\* What the client's code and the server do with a call once it is made.
Progress(r) ==
    \/ at[r] # "idle" /\ Send(r)
    \/ Succeed(r)
    \/ FailAfterRetry(r)
    \/ Enqueue(r)
    \/ BeginRefresh(r)
    \/ FailWithoutTokens(r)
    \/ Refreshed(r)
    \/ RefreshRefused(r)
    \/ Compare(r)
    \/ Issue(r)

Next ==
    \/ \E r \in Requests : Progress(r) \/ Send(r) \/ FailOtherwise(r) \/ RefreshLost(r)
    \/ Login
    \/ Expire

Spec == Init /\ [][Next]_vars

\* Calls are answered and the script runs on; making a call, logging in, losing
\* answers and the expiry of tokens are up to the outside.
Fairness == \A r \in Requests : WF_vars(Progress(r))

FairSpec == Spec /\ Fairness

-----------------------------------------------------------------------------
(* Properties. *)

TypeOK ==
    /\ issued \in Nat \ {0}
    /\ stored \in 0 .. issued
    /\ current \in 1 .. issued
    /\ expired \in 0 .. issued
    /\ isRefreshing \in [Tabs -> BOOLEAN]
    /\ at \in [Requests -> {"idle", "replay", "sent", "waiting"} \union Refreshing \union Ended]
    /\ token \in [Requests -> 0 .. issued]
    /\ retried \in [Requests -> BOOLEAN]
    /\ pair \in [Requests -> 0 .. issued]
    /\ expiries \in 0 .. MaxExpiries
    /\ logins \in 0 .. MaxLogins
    /\ lost \in 0 .. MaxLost
    /\ raced \in BOOLEAN

\* "Request queuing prevents duplicate refresh calls": in a tab at most one call
\* refreshes at a time, the flag is up exactly while it does, and a call waits
\* only for one that will wake it.
OneRefreshPerTab ==
    \A t \in Tabs :
        LET busy == Refreshers \intersect CallsOf(t)
        IN /\ Cardinality(busy) <= 1
           /\ isRefreshing[t] <=> busy # {}
           /\ (\E r \in CallsOf(t) : at[r] = "waiting") => isRefreshing[t]

\* The session lives as long as one tab refreshes at a time, no answer is lost
\* and nobody logs in elsewhere: tokens are never cleared, and what the browser
\* stores is what the server will accept, expiries and late 401s notwithstanding.
SessionKept ==
    ~raced /\ lost = 0 /\ logins = 0 =>
        /\ stored # 0
        /\ Refreshers = {} => stored = current

\* "Users never see token expiration errors": a browser whose refresh calls all
\* arrive, and whose user does not log in elsewhere, is never logged out.
NeverLoggedOut == lost = 0 /\ logins = 0 => stored # 0

\* Every call that was made is answered, replayed or rejected in the end: none is
\* left in a queue that nobody processes.
CallsEnd == \A r \in Requests : at[r] = "sent" ~> at[r] \in Ended
=============================================================================
