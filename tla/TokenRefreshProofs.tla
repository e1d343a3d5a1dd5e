------------------------- MODULE TokenRefreshProofs -------------------------
(***************************************************************************)
(* Proofs about TokenRefresh for any number of tabs, calls, expiries,      *)
(* logins and lost answers.                                                *)
(***************************************************************************)
EXTENDS TokenRefresh, FiniteSetTheorems, TLAPS

\* The server numbers the pairs without gaps, and the client holds no other.
LEMMA TypeInit == Init => TypeOK
<1> SUFFICES ASSUME Init PROVE TypeOK
  OBVIOUS
<1> USE TokenAssumption DEF Init, Refreshing, Ended
<1>1. issued \in Nat \ {0} /\ stored \in 0 .. issued /\ current \in 1 .. issued
      /\ expired \in 0 .. issued
  OBVIOUS
<1>2. isRefreshing \in [Tabs -> BOOLEAN] /\ retried \in [Requests -> BOOLEAN]
  OBVIOUS
<1>3. at \in [Requests -> {"idle", "replay", "sent", "waiting"} \union Refreshing \union Ended]
  OBVIOUS
<1>4. token \in [Requests -> 0 .. issued] /\ pair \in [Requests -> 0 .. issued]
  BY <1>1
<1>5. expiries \in 0 .. MaxExpiries /\ logins \in 0 .. MaxLogins /\ lost \in 0 .. MaxLost
  OBVIOUS
<1>6. raced \in BOOLEAN
  OBVIOUS
<1>7. QED BY <1>1, <1>2, <1>3, <1>4, <1>5, <1>6 DEF TypeOK

LEMMA TypeNext == TypeOK /\ [Next]_vars => TypeOK'
<1> SUFFICES ASSUME TypeOK, [Next]_vars PROVE TypeOK'
  OBVIOUS
<1> USE DEF TypeOK, Refreshing, Ended, server, calls, bounds
<1>1. ASSUME NEW r \in Requests, Send(r) PROVE TypeOK'
  BY <1>1 DEF Send
<1>2. ASSUME NEW r \in Requests, Succeed(r) PROVE TypeOK'
  BY <1>2 DEF Succeed
<1>3. ASSUME NEW r \in Requests, FailOtherwise(r) PROVE TypeOK'
  BY <1>3 DEF FailOtherwise
<1>4. ASSUME NEW r \in Requests, FailAfterRetry(r) PROVE TypeOK'
  BY <1>4 DEF FailAfterRetry, Unauthorized
<1>5. ASSUME NEW r \in Requests, Enqueue(r) PROVE TypeOK'
  BY <1>5 DEF Enqueue, Unauthorized
<1>6. ASSUME NEW r \in Requests, BeginRefresh(r) PROVE TypeOK'
  BY <1>6, TokenAssumption DEF BeginRefresh, Unauthorized, Refreshers
<1>7. ASSUME NEW t \in Tabs, LeaveTab(t), expiries' = expiries, logins' = logins,
             lost' \in 0 .. MaxLost, raced' = raced
      PROVE  TypeOK'
  BY <1>7 DEF LeaveTab, CallsOf
<1>8. ASSUME NEW r \in Requests, FailWithoutTokens(r) PROVE TypeOK'
  BY <1>7, <1>8, TokenAssumption DEF FailWithoutTokens
<1>9. ASSUME NEW r \in Requests, Refreshed(r) PROVE TypeOK'
  <2>1. stored' \in 0 .. issued /\ pair' \in [Requests -> 0 .. issued]
    BY <1>9 DEF Refreshed
  <2>2. isRefreshing' \in [Tabs -> BOOLEAN]
    BY <1>9, TokenAssumption DEF Refreshed
  <2>3. at' \in [Requests -> {"idle", "replay", "sent", "waiting"} \union Refreshing \union Ended]
    BY <1>9 DEF Refreshed
  <2>4. UNCHANGED <<server, expired, token, retried, bounds>>
    BY <1>9 DEF Refreshed
  <2>5. QED BY <2>1, <2>2, <2>3, <2>4
<1>10. ASSUME NEW r \in Requests, RefreshRefused(r) PROVE TypeOK'
  BY <1>7, <1>10, TokenAssumption DEF RefreshRefused
<1>11. ASSUME NEW r \in Requests, RefreshLost(r) PROVE TypeOK'
  BY <1>7, <1>11, TokenAssumption DEF RefreshLost
<1>12. ASSUME NEW r \in Requests, Compare(r) PROVE TypeOK'
  BY <1>12 DEF Compare
<1>13. ASSUME NEW r \in Requests, Issue(r) PROVE TypeOK'
  BY <1>13 DEF Issue
<1>14. CASE Login
  BY <1>14, TokenAssumption DEF Login
<1>15. CASE Expire
  BY <1>15, TokenAssumption DEF Expire
<1>16. CASE UNCHANGED vars
  BY <1>16 DEF vars
<1>17. QED
  BY <1>1, <1>2, <1>3, <1>4, <1>5, <1>6, <1>8, <1>9, <1>10, <1>11, <1>12, <1>13,
     <1>14, <1>15, <1>16 DEF Next, Progress

\* Types: however many calls refresh and whoever logs in, every token the client
\* holds or a call carries is one the server has issued.
THEOREM TokenTypes == Spec => []TypeOK
BY TypeInit, TypeNext, PTL DEF Spec

-----------------------------------------------------------------------------
(* One refresh per tab.  OneRefreshPerTab counts a set; the same said of     *)
(* single calls is what the steps preserve.                                  *)

\* A tab's flag is up exactly while one of its calls refreshes, no two of them
\* refresh, and a call waits only behind the flag.
Alone ==
    \A r \in Requests :
        /\ at[r] \in Refreshing =>
              /\ isRefreshing[TabOf[r]]
              /\ \A q \in Requests :
                    TabOf[q] = TabOf[r] /\ at[q] \in Refreshing => q = r
        /\ at[r] = "waiting" => isRefreshing[TabOf[r]]

FlagExplained ==
    \A t \in Tabs :
        isRefreshing[t] => \E r \in Requests : TabOf[r] = t /\ at[r] \in Refreshing

RInv == TypeOK /\ Alone /\ FlagExplained

LEMMA RInvInit == Init => RInv
BY TypeInit DEF RInv, Init, Alone, FlagExplained, Refreshing

\* The calls of the tab that is left have ended, those of others are untouched.
LEMMA LeaveTabAlone ==
    ASSUME TypeOK, Alone, FlagExplained, NEW t \in Tabs, LeaveTab(t)
    PROVE  Alone' /\ FlagExplained'
<1>1. \A r \in Requests :
          /\ TabOf[r] = t => at'[r] \notin Refreshing \union {"waiting"}
          /\ TabOf[r] # t => at'[r] = at[r] /\ isRefreshing'[TabOf[r]] = isRefreshing[TabOf[r]]
  BY TokenAssumption DEF LeaveTab, CallsOf, TypeOK, Ended, Refreshing
<1>2. ~isRefreshing'[t] /\ \A u \in Tabs \ {t} : isRefreshing'[u] = isRefreshing[u]
  BY DEF LeaveTab, TypeOK
<1>3. Alone'
  BY <1>1 DEF Alone
<1>4. FlagExplained'
  BY <1>1, <1>2 DEF FlagExplained
<1>5. QED BY <1>3, <1>4

LEMMA RInvNext == RInv /\ [Next]_vars => RInv'
<1> SUFFICES ASSUME RInv, [Next]_vars PROVE Alone' /\ FlagExplained'
  BY TypeNext DEF RInv
<1> USE TokenAssumption DEF RInv, TypeOK, Refreshing, Ended
<1>1. ASSUME NEW r \in Requests, isRefreshing' = isRefreshing,
             at[r] \notin Refreshing \union {"waiting"},
             NEW s \in {"sent", "done", "failed"}, at' = [at EXCEPT ![r] = s]
      PROVE  Alone' /\ FlagExplained'
  BY <1>1 DEF Alone, FlagExplained
<1>2. ASSUME NEW r \in Requests, Send(r) PROVE Alone' /\ FlagExplained'
  BY <1>1, <1>2 DEF Send
<1>3. ASSUME NEW r \in Requests, Succeed(r) PROVE Alone' /\ FlagExplained'
  BY <1>1, <1>3 DEF Succeed
<1>4. ASSUME NEW r \in Requests, FailOtherwise(r) PROVE Alone' /\ FlagExplained'
  BY <1>1, <1>4 DEF FailOtherwise
<1>5. ASSUME NEW r \in Requests, FailAfterRetry(r) PROVE Alone' /\ FlagExplained'
  BY <1>1, <1>5 DEF FailAfterRetry, Unauthorized
<1>6. ASSUME NEW r \in Requests, Enqueue(r) PROVE Alone' /\ FlagExplained'
  BY <1>6 DEF Enqueue, Unauthorized, Alone, FlagExplained
<1>7. ASSUME NEW r \in Requests, BeginRefresh(r) PROVE Alone' /\ FlagExplained'
  <2>1. /\ ~isRefreshing[TabOf[r]]
        /\ at' = [at EXCEPT ![r] = "asking"]
        /\ isRefreshing' = [isRefreshing EXCEPT ![TabOf[r]] = TRUE]
    BY <1>7 DEF BeginRefresh
  <2>2. \A q \in Requests : TabOf[q] = TabOf[r] => at[q] \notin Refreshing
    BY <2>1 DEF Alone
  <2>3. Alone'
    BY <2>1, <2>2 DEF Alone
  <2>4. FlagExplained'
    BY <2>1 DEF FlagExplained
  <2>5. QED BY <2>3, <2>4
<1>8. ASSUME NEW r \in Requests, FailWithoutTokens(r) PROVE Alone' /\ FlagExplained'
  BY <1>8, LeaveTabAlone DEF FailWithoutTokens
<1>9. ASSUME NEW r \in Requests, Refreshed(r) PROVE Alone' /\ FlagExplained'
  <2>1. \A q \in Requests :
            /\ TabOf[q] = TabOf[r] => at'[q] \notin Refreshing \union {"waiting"}
            /\ TabOf[q] # TabOf[r] => at'[q] = at[q]
    BY <1>9 DEF Refreshed, CallsOf, Alone
  <2>2. isRefreshing' = [isRefreshing EXCEPT ![TabOf[r]] = FALSE]
    BY <1>9 DEF Refreshed
  <2>3. Alone'
    BY <2>1, <2>2 DEF Alone
  <2>4. FlagExplained'
    BY <2>1, <2>2 DEF FlagExplained
  <2>5. QED BY <2>3, <2>4
<1>10. ASSUME NEW r \in Requests, RefreshRefused(r) PROVE Alone' /\ FlagExplained'
  BY <1>10, LeaveTabAlone DEF RefreshRefused
<1>11. ASSUME NEW r \in Requests, RefreshLost(r) PROVE Alone' /\ FlagExplained'
  BY <1>11, LeaveTabAlone DEF RefreshLost
\* The server moves a refresh on, and it stays a refresh.
<1>12. ASSUME NEW r \in Requests, at[r] \in Refreshing, isRefreshing' = isRefreshing,
              NEW s \in Refreshing, at' = [at EXCEPT ![r] = s]
       PROVE  Alone' /\ FlagExplained'
  BY <1>12 DEF Alone, FlagExplained
<1>13. ASSUME NEW r \in Requests, Compare(r) PROVE Alone' /\ FlagExplained'
  BY <1>12, <1>13 DEF Compare
<1>14. ASSUME NEW r \in Requests, Issue(r) PROVE Alone' /\ FlagExplained'
  BY <1>12, <1>14 DEF Issue
<1>15. CASE Login
  BY <1>15 DEF Login, calls, Alone, FlagExplained
<1>16. CASE Expire
  BY <1>16 DEF Expire, calls, Alone, FlagExplained
<1>17. CASE UNCHANGED vars
  BY <1>17 DEF vars, calls, Alone, FlagExplained
<1>18. QED
  BY <1>2, <1>3, <1>4, <1>5, <1>6, <1>7, <1>8, <1>9, <1>10, <1>11, <1>13, <1>14,
     <1>15, <1>16, <1>17 DEF Next, Progress

LEMMA AloneIsOnePerTab == RInv => OneRefreshPerTab
<1> SUFFICES ASSUME RInv, NEW t \in Tabs
             PROVE  LET busy == Refreshers \intersect CallsOf(t)
                    IN /\ Cardinality(busy) <= 1
                       /\ isRefreshing[t] <=> busy # {}
                       /\ (\E r \in CallsOf(t) : at[r] = "waiting") => isRefreshing[t]
  BY DEF OneRefreshPerTab
<1> DEFINE busy == Refreshers \intersect CallsOf(t)
<1>1. \A r \in busy : r \in Requests /\ TabOf[r] = t /\ at[r] \in Refreshing
  BY DEF Refreshers, CallsOf
<1>2. \A r, q \in busy : r = q
  BY <1>1 DEF RInv, Alone
<1>3. Cardinality(busy) <= 1
  <2>1. CASE busy = {}
    BY <2>1, FS_EmptySet
  <2>2. CASE busy # {}
    <3>1. PICK r \in busy : TRUE
      BY <2>2
    <3>2. busy = {r}
      BY <1>2, <3>1
    <3>3. QED BY <3>2, FS_Singleton
  <2>3. QED BY <2>1, <2>2
<1>4. isRefreshing[t] <=> busy # {}
  BY DEF RInv, Alone, FlagExplained, Refreshers, CallsOf
<1>5. (\E r \in CallsOf(t) : at[r] = "waiting") => isRefreshing[t]
  BY DEF RInv, Alone, CallsOf
<1>6. QED BY <1>3, <1>4, <1>5

\* "Request queuing prevents duplicate refresh calls" (JWT_REFRESH_TOKEN.md), for
\* every number of tabs and calls: the flag and the queue of httpClient.ts leave
\* no tab with two refreshes, a flag that nobody takes down, or a call that waits
\* for nobody.
THEOREM OneRefresh == Spec => []OneRefreshPerTab
BY RInvInit, RInvNext, AloneIsOnePerTab, PTL DEF Spec

-----------------------------------------------------------------------------
(* The session.                                                              *)

Undisturbed == ~raced /\ lost = 0 /\ logins = 0

\* As long as nothing has disturbed the session: one call refreshes at a time; what
\* it has sent, and then received, is the pair the server will accept; and nothing
\* has been refused.
Lasting ==
    /\ stored # 0
    /\ \A q, r \in Refreshers : q = r
    /\ Refreshers = {} => stored = current
    /\ \A r \in Refreshers : at[r] # "refused" /\ pair[r] = current

KInv == TypeOK /\ (Undisturbed => Lasting)

LEMMA KInvInit == Init => KInv
BY TypeInit DEF KInv, Undisturbed, Lasting, Init, Refreshers, Refreshing

LEMMA KInvNext == KInv /\ [Next]_vars => KInv'
<1> SUFFICES ASSUME KInv, [Next]_vars, Undisturbed' PROVE Lasting'
  BY TypeNext DEF KInv
<1> USE DEF TypeOK, Refreshing, Ended, server, calls, bounds
<1>1. TypeOK /\ TypeOK' /\ Undisturbed /\ Lasting
  <2>1. TypeOK /\ TypeOK'
    BY TypeNext DEF KInv
  <2>2. lost <= lost' /\ logins <= logins' /\ (raced => raced')
    BY <2>1 DEF Next, Progress, Send, Succeed, FailOtherwise, FailAfterRetry, Enqueue,
       BeginRefresh, FailWithoutTokens, Refreshed, RefreshRefused, RefreshLost, Compare,
       Issue, Login, Expire, LeaveTab, vars
  <2>3. QED BY <2>1, <2>2 DEF KInv, Undisturbed
\* A call that does not refresh, before or after the step.
<1>2. ASSUME NEW r \in Requests, UNCHANGED <<stored, current, pair>>, at[r] \notin Refreshing,
             NEW s \in {"sent", "done", "failed", "waiting"}, at' = [at EXCEPT ![r] = s]
      PROVE  Lasting'
  <2>1. Refreshers' = Refreshers /\ \A q \in Refreshers : at'[q] = at[q]
    BY <1>1, <1>2 DEF Refreshers
  <2>2. QED BY <1>1, <1>2, <2>1 DEF Lasting
<1>3. ASSUME NEW r \in Requests, Send(r) PROVE Lasting'
  BY <1>2, <1>3 DEF Send
<1>4. ASSUME NEW r \in Requests, Succeed(r) PROVE Lasting'
  BY <1>2, <1>4 DEF Succeed
<1>5. ASSUME NEW r \in Requests, FailOtherwise(r) PROVE Lasting'
  BY <1>2, <1>5 DEF FailOtherwise
<1>6. ASSUME NEW r \in Requests, FailAfterRetry(r) PROVE Lasting'
  BY <1>2, <1>6 DEF FailAfterRetry, Unauthorized
<1>7. ASSUME NEW r \in Requests, Enqueue(r) PROVE Lasting'
  BY <1>2, <1>7 DEF Enqueue, Unauthorized
\* Nobody else refreshes, so what is stored is what the server will accept.
<1>8. ASSUME NEW r \in Requests, BeginRefresh(r) PROVE Lasting'
  <2>1. Refreshers = {} /\ stored = current
    BY <1>1, <1>8 DEF BeginRefresh, Undisturbed, Lasting
  <2>2. Refreshers' = {r} /\ at'[r] = "asking" /\ pair'[r] = stored
    BY <1>1, <1>8, <2>1 DEF BeginRefresh, Refreshers
  <2>3. QED BY <1>1, <1>8, <2>1, <2>2 DEF BeginRefresh, Lasting
<1>9. ASSUME NEW r \in Requests, FailWithoutTokens(r) PROVE Lasting'
  BY <1>1, <1>9 DEF FailWithoutTokens, Lasting
<1>10. ASSUME NEW r \in Requests, Refreshed(r) PROVE Lasting'
  <2>1. r \in Refreshers /\ pair[r] = current
    BY <1>1, <1>10 DEF Refreshed, Refreshers, Lasting
  <2>2. Refreshers' = {}
    BY <1>1, <1>10, <2>1 DEF Refreshed, Refreshers, Lasting
  <2>3. QED BY <1>1, <1>10, <2>1, <2>2 DEF Refreshed, Lasting
<1>11. ASSUME NEW r \in Requests, RefreshRefused(r) PROVE Lasting'
  BY <1>1, <1>11 DEF RefreshRefused, Lasting, Refreshers
<1>12. ASSUME NEW r \in Requests, RefreshLost(r) PROVE Lasting'
  BY <1>1, <1>12 DEF RefreshLost, Undisturbed
<1>13. ASSUME NEW r \in Requests, Compare(r) PROVE Lasting'
  <2>1. r \in Refreshers /\ pair[r] = current
    BY <1>1, <1>13 DEF Compare, Refreshers, Lasting
  <2>2. Refreshers' = Refreshers /\ at' = [at EXCEPT ![r] = "compared"]
    BY <1>1, <1>13, <2>1 DEF Compare, Refreshers
  <2>3. QED BY <1>1, <1>13, <2>2 DEF Compare, Lasting
\* The server accepts the pair it has compared, and issues the next.
<1>14. ASSUME NEW r \in Requests, Issue(r) PROVE Lasting'
  <2>1. r \in Refreshers /\ pair[r] = current
    BY <1>1, <1>14 DEF Issue, Refreshers, Lasting
  <2>2. Refreshers' = {r} /\ at'[r] = "answered"
    BY <1>1, <1>14, <2>1 DEF Issue, Refreshers, Lasting
  <2>3. pair'[r] = issued + 1 /\ current' = issued + 1 /\ stored' = stored
    BY <1>1, <1>14, <2>1 DEF Issue
  <2>4. QED BY <1>1, <2>2, <2>3 DEF Lasting
<1>15. CASE Login
  BY <1>1, <1>15 DEF Login, Undisturbed
<1>16. CASE Expire
  BY <1>1, <1>16 DEF Expire, Lasting, Refreshers
<1>17. CASE UNCHANGED vars
  BY <1>1, <1>17 DEF vars, Lasting, Refreshers
<1>18. QED
  BY <1>3, <1>4, <1>5, <1>6, <1>7, <1>8, <1>9, <1>10, <1>11, <1>12, <1>13, <1>14,
     <1>15, <1>16, <1>17 DEF Next, Progress

\* Rotating tokens keep a session alive, for every number of tabs, calls, expiries
\* and late 401s: unless two tabs refresh at once, an answer is lost or the user
\* logs in elsewhere, the browser is never without a pair, and between refreshes it
\* holds the one IdentityService will accept.
THEOREM SessionLasts == Spec => []SessionKept
<1>1. KInv => SessionKept
  BY DEF KInv, Undisturbed, Lasting, SessionKept
<1>2. QED BY <1>1, KInvInit, KInvNext, PTL DEF Spec

\* "Users never see token expiration errors" is true of a browser with one tab: its
\* calls queue behind one refresh, so none can race with another.
THEOREM OneTabStaysIn ==
    ASSUME \A t, u \in Tabs : t = u
    PROVE  Spec => []NeverLoggedOut
<1>1. Init => ~raced
  BY DEF Init
<1>2. RInv /\ ~raced /\ [Next]_vars => ~raced'
  <2> SUFFICES ASSUME RInv, ~raced, [Next]_vars PROVE ~raced'
    OBVIOUS
  <2>1. ASSUME NEW r \in Requests, BeginRefresh(r) PROVE ~raced'
    <3>1. TabOf[r] \in Tabs /\ ~isRefreshing[TabOf[r]]
      BY <2>1, TokenAssumption DEF BeginRefresh
    <3>2. \A q \in Requests : TabOf[q] = TabOf[r]
      BY <3>1, TokenAssumption
    <3>3. Refreshers = {}
      BY <3>1, <3>2 DEF RInv, Alone, Refreshers
    <3>4. QED BY <2>1, <3>3 DEF BeginRefresh
  <2>2. QED
    BY <2>1 DEF Next, Progress, Send, Succeed, FailOtherwise, FailAfterRetry, Enqueue,
       FailWithoutTokens, Refreshed, RefreshRefused, RefreshLost, Compare, Issue, Login, Expire,
       bounds, vars
<1>3. ~raced /\ SessionKept => NeverLoggedOut
  BY DEF SessionKept, NeverLoggedOut
<1>4. Spec => []RInv
  BY RInvInit, RInvNext, PTL DEF Spec
<1>5. QED BY <1>1, <1>2, <1>3, <1>4, SessionLasts, PTL DEF Spec
=============================================================================
