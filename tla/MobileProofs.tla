---------------------------- MODULE MobileProofs ----------------------------
(***************************************************************************)
(* Proofs about MobileSession, for any number of logins under way and any  *)
(* number of writes the storage refuses; and about MobileCart, for any     *)
(* number of thunks, rows, quantities and queued clears.                   *)
(***************************************************************************)
EXTENDS MCCommands, UnitOfWorkProofs, TLAPS

-----------------------------------------------------------------------------
(* The session: its inductive invariant.                                   *)

\* The keys a logout has removed when it is about to remove k.
RemovedBefore(k) ==
    CASE k = "token" -> {}
      [] k = "refreshToken" -> {"token"}
      [] k = "email" -> {"token", "refreshToken"}
      [] k = "password" -> {"token", "refreshToken", "email"}
      [] OTHER -> {}

FlagTypes ==
    /\ started \in BOOLEAN
    /\ profile \in BOOLEAN
    /\ unbacked \in BOOLEAN
    /\ crossed \in BOOLEAN
    /\ leftCleanly \in BOOLEAN
    /\ restoredLoading \in BOOLEAN
    /\ revived \in BOOLEAN

\* A logout that no login crosses finds nothing of what it removed again.
LeavesClean ==
    leaving # "idle" /\ ~crossed =>
        /\ \A a \in Attempts : signIn[a] = "idle"
        /\ RemovedBefore(leaving) \intersect keys = {}

\* A login that has written its token still has it, unless a logout crossed it.
TokenWritten ==
    \A a \in Attempts :
        signIn[a] \in {"refreshToken", "email", "password"} => "token" \in keys \/ crossed

\* After a whole sign-out nothing is under way, unless a restart has shown the screens.
AllQuiet ==
    leftCleanly =>
        /\ \A a \in Attempts : signIn[a] = "idle"
        /\ revived \/ (leaving = "idle" /\ ~profile)

SInv ==
    /\ SessionTypes
    /\ FlagTypes
    /\ LeavesClean
    /\ TokenWritten
    /\ AllQuiet
    /\ AuthenticatedHasToken
    /\ SignOutLasts
    /\ DisabledExplained

-----------------------------------------------------------------------------
LEMMA SInvInit == SessionInit => SInv
<1> SUFFICES ASSUME SessionInit PROVE SInv
  OBVIOUS
<1>1. SessionTypes
  <2>1. signIn \in [Attempts -> {"idle", "asking"} \union StoredKeys]
    BY DEF SessionInit
  <2>2. storageFaults \in 0 .. MaxStorageFaults
    BY SessionAssumption DEF SessionInit
  <2>3. QED BY <2>1, <2>2 DEF SessionInit, SessionTypes, Slice
<1>2. QED
  BY <1>1
  DEF SessionInit, SInv, FlagTypes, LeavesClean, TokenWritten, AllQuiet, AuthenticatedHasToken,
      SignOutLasts, DisabledExplained

\* A login that begins.
LEMMA BeginKeeps ==
    ASSUME SInv, NEW a \in Attempts, Begin(a), byBiometrics' \subseteq Attempts
    PROVE  SInv'
<1> USE DEF SInv
<1>1. /\ signIn[a] = "idle" /\ signIn'[a] = "asking"
      /\ \A b \in Attempts : b # a => signIn'[b] = signIn[b]
      /\ UNCHANGED <<keys, isAuthenticated, hasUser, started, leaving, profile, storageFaults,
                     unbacked>>
      /\ authLoading' = TRUE /\ restoredLoading' = FALSE /\ leftCleanly' = FALSE
      /\ crossed' = (crossed \/ leaving # "idle")
      /\ ~isAuthenticated
  BY DEF Begin, SessionTypes
<1>2. SessionTypes' /\ FlagTypes'
  BY <1>1 DEF Begin, SessionTypes, FlagTypes
<1>3. LeavesClean' /\ AllQuiet'
  BY <1>1 DEF LeavesClean, AllQuiet
<1>4. TokenWritten'
  BY <1>1 DEF TokenWritten
<1>5. AuthenticatedHasToken' /\ SignOutLasts'
  BY <1>1 DEF AuthenticatedHasToken, SignOutLasts
<1>6. DisabledExplained'
  BY <1>1 DEF DisabledExplained, OpenAttempts
<1>7. QED BY <1>2, <1>3, <1>4, <1>5, <1>6

\* A login goes on from one key to the next, or ends.
LEMMA LoginKeeps ==
    ASSUME SInv, NEW a \in Attempts, LoginAccepted(a) \/ StoreKey(a) \/ LoginRejected(a)
    PROVE  SInv'
<1> USE DEF SInv
<1>0. signIn[a] # "idle"
  BY DEF LoginAccepted, StoreKey, LoginRejected, StoredKeys
<1>1. leaving = "idle" \/ crossed
  BY <1>0 DEF LeavesClean
<1>2. ~leftCleanly
  BY <1>0 DEF AllQuiet, FlagTypes
<1>3. CASE LoginAccepted(a)
  <2>1. /\ signIn'[a] = "token"
        /\ \A b \in Attempts : b # a => signIn'[b] = signIn[b]
        /\ UNCHANGED <<keys, authSlice, started, byBiometrics, leaving, profile, saved,
                       storageFaults, authHistory>>
    BY <1>3 DEF LoginAccepted, SessionTypes
  <2>2. SessionTypes' /\ FlagTypes'
    BY <1>3, <2>1 DEF LoginAccepted, SessionTypes, FlagTypes, authSlice, authHistory, StoredKeys
  <2>3. LeavesClean' /\ AllQuiet' /\ TokenWritten'
    BY <1>1, <1>2, <2>1 DEF LeavesClean, AllQuiet, TokenWritten, authHistory, FlagTypes
  <2>4. AuthenticatedHasToken' /\ SignOutLasts' /\ DisabledExplained'
    BY <2>1 DEF AuthenticatedHasToken, SignOutLasts, DisabledExplained, OpenAttempts, authSlice,
                authHistory
  <2>5. QED BY <2>2, <2>3, <2>4
<1>4. CASE StoreKey(a)
  <2>1. /\ signIn[a] \in StoredKeys /\ keys' = keys \union {signIn[a]}
        /\ \A b \in Attempts : b # a => signIn'[b] = signIn[b]
        /\ UNCHANGED <<hasUser, started, byBiometrics, leaving, profile, saved, storageFaults,
                       crossed, leftCleanly, revived>>
    BY <1>4 DEF StoreKey, SessionTypes
  <2>2. "token" \in keys' \/ crossed
    BY <2>1 DEF TokenWritten, StoredKeys
  <2>3. CASE NextKey[signIn[a]] = "end"
    <3>1. /\ signIn'[a] = "idle" /\ authLoading' = FALSE /\ isAuthenticated' = TRUE
          /\ restoredLoading' = FALSE /\ unbacked' = FALSE
      BY <1>4, <2>3 DEF StoreKey, SessionTypes
    <3>2. signIn' \in [Attempts -> {"idle", "asking"} \union StoredKeys]
      BY <1>4, <2>3 DEF StoreKey, SessionTypes
    <3>3. SessionTypes' /\ FlagTypes'
      BY <2>1, <3>1, <3>2 DEF SessionTypes, FlagTypes
    <3>4. LeavesClean' /\ AllQuiet' /\ TokenWritten'
      BY <1>1, <1>2, <2>1, <2>2, <3>1 DEF LeavesClean, AllQuiet, TokenWritten, FlagTypes
    <3>5. AuthenticatedHasToken' /\ SignOutLasts' /\ DisabledExplained'
      BY <1>2, <2>1, <2>2, <3>1 DEF AuthenticatedHasToken, SignOutLasts, DisabledExplained,
                                    FlagTypes
    <3>6. QED BY <3>3, <3>4, <3>5
  <2>4. CASE NextKey[signIn[a]] # "end"
    <3>1. /\ signIn'[a] = NextKey[signIn[a]]
          /\ UNCHANGED <<authLoading, isAuthenticated, restoredLoading, unbacked>>
      BY <1>4, <2>4 DEF StoreKey, SessionTypes
    <3>2. NextKey[signIn[a]] \in StoredKeys
      BY <2>1, <2>4 DEF NextKey, StoredKeys
    <3>3. SessionTypes' /\ FlagTypes'
      BY <1>4, <2>1, <2>4, <3>1, <3>2 DEF StoreKey, SessionTypes, FlagTypes
    <3>4. LeavesClean' /\ AllQuiet' /\ TokenWritten'
      BY <1>1, <1>2, <2>1, <2>2, <3>1 DEF LeavesClean, AllQuiet, TokenWritten, FlagTypes
    <3>5. \E b \in Attempts : signIn'[b] # "idle"
      BY <3>1, <3>2 DEF StoredKeys
    <3>6. AuthenticatedHasToken' /\ SignOutLasts' /\ DisabledExplained'
      BY <1>2, <2>1, <3>1, <3>5
      DEF AuthenticatedHasToken, SignOutLasts, DisabledExplained, OpenAttempts, FlagTypes
    <3>7. QED BY <3>3, <3>4, <3>6
  <2>5. QED BY <2>3, <2>4
<1>5. CASE LoginRejected(a)
  <2>1. /\ signIn'[a] = "idle" /\ authLoading' = FALSE /\ restoredLoading' = FALSE
        /\ \A b \in Attempts : b # a => signIn'[b] = signIn[b]
        /\ isAuthenticated' = (isAuthenticated \/ a \in byBiometrics)
        /\ unbacked' = (unbacked \/ a \in byBiometrics)
        /\ UNCHANGED <<keys, hasUser, started, byBiometrics, leaving, profile, saved, crossed,
                       leftCleanly, revived>>
        /\ signIn' \in [Attempts -> {"idle", "asking"} \union StoredKeys]
    BY <1>5 DEF LoginRejected, SessionTypes
  <2>2. storageFaults' \in 0 .. MaxStorageFaults
    BY <1>5, SessionAssumption DEF LoginRejected, StorageFault, SessionTypes
  <2>3. SessionTypes' /\ FlagTypes'
    BY <2>1, <2>2 DEF SessionTypes, FlagTypes
  <2>4. LeavesClean' /\ AllQuiet' /\ TokenWritten'
    BY <1>1, <1>2, <2>1 DEF LeavesClean, AllQuiet, TokenWritten, FlagTypes
  <2>5. AuthenticatedHasToken' /\ SignOutLasts' /\ DisabledExplained'
    BY <1>2, <2>1 DEF AuthenticatedHasToken, SignOutLasts, DisabledExplained, FlagTypes
  <2>6. QED BY <2>3, <2>4, <2>5
<1>6. QED BY <1>3, <1>4, <1>5

\* A key is removed; after the last one the app is signed out.
LEMMA RemoveKeeps == ASSUME SInv, RemoveKey PROVE SInv'
<1> USE DEF SInv
<1>1. /\ leaving \in StoredKeys /\ keys' = keys \ {leaving} /\ leaving # "idle"
      /\ UNCHANGED <<authLoading, started, signIn, byBiometrics, profile, saved, storageFaults,
                     crossed, restoredLoading>>
  BY DEF RemoveKey, StoredKeys
<1>2. leftCleanly => revived /\ \A a \in Attempts : signIn[a] = "idle"
  BY <1>1 DEF AllQuiet, FlagTypes
<1>3. CASE NextKey[leaving] = "end"
  <2>1. /\ leaving = "password" /\ leaving' = "idle" /\ isAuthenticated' = FALSE /\ hasUser' = FALSE
        /\ leftCleanly' = (~crossed /\ ~profile) /\ unbacked' = FALSE /\ revived' = FALSE
    BY <1>1, <1>3 DEF RemoveKey, NextKey, StoredKeys
  <2>2. ~crossed => keys' = {} /\ \A a \in Attempts : signIn[a] = "idle"
    BY <1>1, <2>1 DEF LeavesClean, RemovedBefore, SessionTypes, StoredKeys
  <2>3. SessionTypes' /\ FlagTypes'
    BY <1>1, <2>1 DEF SessionTypes, FlagTypes
  <2>4. LeavesClean' /\ AllQuiet' /\ TokenWritten'
    BY <1>1, <2>1, <2>2 DEF LeavesClean, AllQuiet, TokenWritten
  <2>5. AuthenticatedHasToken' /\ SignOutLasts' /\ DisabledExplained'
    BY <1>1, <2>1, <2>2 DEF AuthenticatedHasToken, SignOutLasts, DisabledExplained, OpenAttempts
  <2>6. QED BY <2>3, <2>4, <2>5
<1>4. CASE NextKey[leaving] # "end"
  <2>1. /\ leaving' = NextKey[leaving]
        /\ UNCHANGED <<isAuthenticated, hasUser, leftCleanly, unbacked, revived>>
    BY <1>4 DEF RemoveKey
  <2>2. leaving' \in StoredKeys /\ leaving' # "idle"
        /\ RemovedBefore(leaving') \subseteq RemovedBefore(leaving) \union {leaving}
    BY <1>1, <1>4, <2>1 DEF NextKey, StoredKeys, RemovedBefore
  <2>3. SessionTypes' /\ FlagTypes'
    BY <1>1, <2>1, <2>2 DEF SessionTypes, FlagTypes
  <2>4. LeavesClean'
    BY <1>1, <2>2 DEF LeavesClean
  <2>5. TokenWritten'
    BY <1>1 DEF TokenWritten, LeavesClean
  <2>6. AllQuiet' /\ AuthenticatedHasToken' /\ SignOutLasts' /\ DisabledExplained'
    BY <1>1, <1>2, <2>1, <2>2
    DEF AllQuiet, AuthenticatedHasToken, SignOutLasts, DisabledExplained, OpenAttempts
  <2>7. QED BY <2>3, <2>4, <2>5, <2>6
<1>5. QED BY <1>3, <1>4

LEMMA SInvNext == SInv /\ [SessionNext]_sessionVars => SInv'
<1> SUFFICES ASSUME SInv, [SessionNext]_sessionVars PROVE SInv'
  OBVIOUS
<1> USE DEF SInv
<1>1. ASSUME NEW a \in Attempts, LoginPressed(a) PROVE SInv'
  <2>1. byBiometrics' \subseteq Attempts
    BY <1>1 DEF LoginPressed, SessionTypes
  <2>2. QED BY <1>1, <2>1, BeginKeeps DEF LoginPressed
<1>2. ASSUME NEW a \in Attempts, BiometricLogin(a) PROVE SInv'
  <2>1. byBiometrics' \subseteq Attempts
    BY <1>2 DEF BiometricLogin, SessionTypes
  <2>2. QED BY <1>2, <2>1, BeginKeeps DEF BiometricLogin
<1>3. ASSUME NEW a \in Attempts, LoginAccepted(a) \/ StoreKey(a) \/ LoginRejected(a) PROVE SInv'
  BY <1>3, LoginKeeps
<1>4. CASE BiometricRefused
  <2>1. SessionTypes' /\ FlagTypes' /\ LeavesClean' /\ TokenWritten' /\ AllQuiet'
    BY <1>4 DEF BiometricRefused, SessionTypes, FlagTypes, LeavesClean, TokenWritten, AllQuiet
  <2>2. AuthenticatedHasToken' /\ SignOutLasts' /\ DisabledExplained'
    BY <1>4 DEF BiometricRefused, AuthenticatedHasToken, SignOutLasts, DisabledExplained
  <2>3. QED BY <2>1, <2>2
<1>5. CASE Logout
  <2>1. leftCleanly => revived
    BY <1>5 DEF Logout, SignOutLasts, FlagTypes
  <2>2. /\ leaving' = "token" /\ crossed' = (OpenAttempts # {})
        /\ UNCHANGED <<keys, authSlice, started, signIn, byBiometrics, profile, saved,
                       storageFaults, unbacked, leftCleanly, restoredLoading, revived>>
    BY <1>5 DEF Logout
  <2>3. SessionTypes' /\ FlagTypes'
    BY <2>2 DEF SessionTypes, FlagTypes, authSlice, StoredKeys
  <2>4. LeavesClean' /\ TokenWritten' /\ AllQuiet'
    BY <2>1, <2>2 DEF LeavesClean, TokenWritten, AllQuiet, OpenAttempts, RemovedBefore
  <2>5. AuthenticatedHasToken' /\ SignOutLasts' /\ DisabledExplained'
    BY <2>1, <2>2 DEF AuthenticatedHasToken, SignOutLasts, DisabledExplained, OpenAttempts,
                      authSlice
  <2>6. QED BY <2>3, <2>4, <2>5
<1>6. CASE RemoveKey
  BY <1>6, RemoveKeeps
<1>7. CASE LogoutFails
  <2>1. leftCleanly => revived
    BY <1>7 DEF LogoutFails, AllQuiet, FlagTypes, StoredKeys
  <2>2. /\ leaving' = "idle" /\ unbacked' = TRUE /\ storageFaults' \in 0 .. MaxStorageFaults
        /\ UNCHANGED <<keys, authSlice, started, signIn, byBiometrics, profile, saved, crossed,
                       leftCleanly, restoredLoading, revived>>
    BY <1>7, SessionAssumption DEF LogoutFails, StorageFault, SessionTypes
  <2>3. SessionTypes' /\ FlagTypes'
    BY <2>2 DEF SessionTypes, FlagTypes, authSlice
  <2>4. LeavesClean' /\ TokenWritten' /\ AllQuiet'
    BY <2>1, <2>2 DEF LeavesClean, TokenWritten, AllQuiet
  <2>5. AuthenticatedHasToken' /\ SignOutLasts' /\ DisabledExplained'
    BY <2>1, <2>2 DEF AuthenticatedHasToken, SignOutLasts, DisabledExplained, OpenAttempts,
                      authSlice
  <2>6. QED BY <2>3, <2>4, <2>5
<1>8. CASE FetchUserProfile
  <2>1. leftCleanly => revived
    BY <1>8 DEF FetchUserProfile, SignOutLasts, FlagTypes
  <2>2. SessionTypes' /\ FlagTypes' /\ LeavesClean' /\ TokenWritten' /\ AllQuiet'
    BY <1>8, <2>1
    DEF FetchUserProfile, SessionTypes, FlagTypes, LeavesClean, TokenWritten, AllQuiet
  <2>3. AuthenticatedHasToken' /\ SignOutLasts' /\ DisabledExplained'
    BY <1>8, <2>1 DEF FetchUserProfile, AuthenticatedHasToken, SignOutLasts, DisabledExplained
  <2>4. QED BY <2>2, <2>3
<1>9. CASE ProfileEnds
  <2>1. leftCleanly => revived
    BY <1>9 DEF ProfileEnds, AllQuiet, FlagTypes
  <2>2. /\ profile' = FALSE /\ authLoading' = FALSE /\ hasUser' \in BOOLEAN
        /\ UNCHANGED <<keys, isAuthenticated, started, signIn, byBiometrics, leaving, saved,
                       storageFaults, authHistory>>
    BY <1>9 DEF ProfileEnds, SessionTypes
  <2>3. SessionTypes' /\ FlagTypes'
    BY <2>2 DEF SessionTypes, FlagTypes, authHistory
  <2>4. LeavesClean' /\ TokenWritten'
    BY <2>2 DEF LeavesClean, TokenWritten, authHistory
  <2>5. AllQuiet'
    BY <2>1, <2>2 DEF AllQuiet, authHistory
  <2>6. AuthenticatedHasToken' /\ SignOutLasts' /\ DisabledExplained'
    BY <2>1, <2>2 DEF AuthenticatedHasToken, SignOutLasts, DisabledExplained, authHistory
  <2>7. QED BY <2>3, <2>4, <2>5, <2>6
<1>10. CASE CheckToken
  <2>1. /\ isAuthenticated' = (isAuthenticated \/ "token" \in keys) /\ started' = TRUE
        /\ UNCHANGED <<keys, authLoading, hasUser, signIn, byBiometrics, leaving, profile, saved,
                       storageFaults, authHistory>>
    BY <1>10 DEF CheckToken
  <2>2. SessionTypes' /\ FlagTypes' /\ LeavesClean' /\ TokenWritten' /\ AllQuiet'
    BY <2>1 DEF SessionTypes, FlagTypes, LeavesClean, TokenWritten, AllQuiet, authHistory
  <2>3. AuthenticatedHasToken' /\ SignOutLasts' /\ DisabledExplained'
    BY <2>1 DEF AuthenticatedHasToken, SignOutLasts, DisabledExplained, OpenAttempts, authHistory
  <2>4. QED BY <2>2, <2>3
<1>11. CASE RestartApp
  <2>1. /\ started' = FALSE /\ leaving' = "idle" /\ profile' = FALSE
        /\ signIn' \in [Attempts -> {"idle"}] /\ \A a \in Attempts : signIn'[a] = "idle"
        /\ isAuthenticated' = saved.isAuthenticated /\ hasUser' = saved.hasUser
        /\ authLoading' = saved.authLoading /\ restoredLoading' = saved.authLoading
        /\ unbacked' = (unbacked \/ leaving # "idle" \/ (saved.isAuthenticated /\ ~isAuthenticated))
        /\ UNCHANGED <<keys, byBiometrics, saved, storageFaults, crossed, leftCleanly>>
    BY <1>11 DEF RestartApp
  <2>2. /\ revived' \in BOOLEAN
        /\ revived => revived'
        /\ leftCleanly /\ saved.isAuthenticated /\ ~isAuthenticated => revived'
        /\ leftCleanly /\ saved.hasUser /\ ~hasUser => revived'
    BY <1>11 DEF RestartApp
  <2>3. /\ saved.isAuthenticated \in BOOLEAN /\ saved.hasUser \in BOOLEAN
        /\ saved.authLoading \in BOOLEAN
    BY DEF SessionTypes
  <2>4. SessionTypes' /\ FlagTypes'
    BY <2>1, <2>2, <2>3 DEF SessionTypes, FlagTypes
  <2>5. LeavesClean' /\ TokenWritten' /\ AllQuiet'
    BY <2>1 DEF LeavesClean, TokenWritten, AllQuiet
  <2>6. AuthenticatedHasToken' /\ DisabledExplained'
    BY <2>1 DEF AuthenticatedHasToken, DisabledExplained
  <2>7. SignOutLasts'
    BY <2>1, <2>2 DEF SignOutLasts
  <2>8. QED BY <2>4, <2>5, <2>6, <2>7
<1>12. CASE PersistSlice
  <2>1. /\ saved' = Slice
        /\ UNCHANGED <<keys, authSlice, started, signIn, byBiometrics, leaving, profile,
                       storageFaults, authHistory>>
    BY <1>12 DEF PersistSlice
  <2>2. SessionTypes' /\ FlagTypes' /\ LeavesClean' /\ TokenWritten' /\ AllQuiet'
    BY <2>1 DEF SessionTypes, Slice, FlagTypes, LeavesClean, TokenWritten, AllQuiet, authSlice,
                authHistory
  <2>3. AuthenticatedHasToken' /\ SignOutLasts' /\ DisabledExplained'
    BY <2>1 DEF AuthenticatedHasToken, SignOutLasts, DisabledExplained, OpenAttempts, authSlice,
                authHistory
  <2>4. QED BY <2>2, <2>3
<1>13. CASE UNCHANGED sessionVars
  <2>1. SessionTypes' /\ FlagTypes' /\ LeavesClean' /\ TokenWritten' /\ AllQuiet'
    BY <1>13
    DEF sessionVars, SessionTypes, FlagTypes, LeavesClean, TokenWritten, AllQuiet, authSlice,
        authHistory
  <2>2. AuthenticatedHasToken' /\ SignOutLasts' /\ DisabledExplained'
    BY <1>13
    DEF sessionVars, AuthenticatedHasToken, SignOutLasts, DisabledExplained, OpenAttempts,
        authSlice,
        authHistory
  <2>3. QED BY <2>1, <2>2
<1>14. QED
  BY <1>1, <1>2, <1>3, <1>4, <1>5, <1>6, <1>7, <1>8, <1>9, <1>10, <1>11, <1>12, <1>13
  DEF SessionNext

-----------------------------------------------------------------------------
(* The session: theorems. *)

THEOREM SInvHolds == SessionSpec => []SInv
BY SInvInit, SInvNext, PTL DEF SessionSpec

\* Every state of the session is well-typed.
THEOREM SessionTyped == SessionSpec => []SessionTypes
<1>1. SInv => SessionTypes
  BY DEF SInv
<1>2. QED BY <1>1, SInvHolds, PTL

\* Signed in without a token only after a named mishap, for any number of logins.
THEOREM TokenBehindSession == SessionSpec => []AuthenticatedHasToken
<1>1. SInv => AuthenticatedHasToken
  BY DEF SInv
<1>2. QED BY <1>1, SInvHolds, PTL

\* A sign-out that nothing crosses leaves nothing on the device, ever, and is undone on
\* the screen only by a slice that was written before it.
THEOREM SignOutIsFinal == SessionSpec => []SignOutLasts
<1>1. SInv => SignOutLasts
  BY DEF SInv
<1>2. QED BY <1>1, SInvHolds, PTL

\* A disabled login button is explained by something awaited or by a kill.
THEOREM ButtonExplained == SessionSpec => []DisabledExplained
<1>1. SInv => DisabledExplained
  BY DEF SInv
<1>2. QED BY <1>1, SInvHolds, PTL

-----------------------------------------------------------------------------
(* The cart: its inductive invariant. *)

\* Only rows that were created have quantities, and only they are shown, saved, asked
\* for or answered.
Created ==
    \A i \in Items : i > created =>
        /\ cartRows[i] = 0
        /\ shown[i] = <<>>
        /\ savedCart.cart[i] = <<>>
        /\ \A c \in Calls : call[c].reply[i] = 0

\* What a call asks for is what its kind says.
Asked ==
    \A c \in Calls :
        /\ call[c].at = "free" => call[c] = Free
        /\ call[c].at # "free" => call[c].kind # "none"
        /\ call[c].kind \in {"add", "update"} => call[c].quantity > 0
        /\ call[c].kind \in {"update", "remove"} => call[c].item > 0
        /\ call[c].kind = "add" /\ call[c].at = "served" => call[c].item > 0

\* Undisturbed calls come one by one.
OneByOne ==
    alone \/ undisturbed => \A c, d \in Outstanding : c = d

\* A fetch that met nobody carries the rows as they are.
FetchCurrent ==
    alone => \A c \in Calls :
        call[c].kind = "fetch" /\ call[c].at = "served" => call[c].reply = cartRows

\* Undisturbed, the screen agrees with the server, or will when the one answer
\* under way has been reduced.
Agreement ==
    undisturbed =>
        /\ \A c \in Calls : call[c].at # "gone"
        /\ (\A c \in Calls : call[c].at # "served") => shown = CartOf(cartRows)
        /\ \A c \in Calls :
              call[c].at = "served" => Reduced(shown, call[c]) = CartOf(cartRows)

\* No deletion on its way concerns a safe row.
SafeFromCalls ==
    \A c \in Calls : call[c].at \in {"sent", "gone"} =>
        /\ call[c].kind = "removeAll" => safe = {}
        /\ call[c].kind = "remove" => call[c].item \notin safe

\* A clear that is held, or that the queue no longer waits for, can still be applied.
ClearComing == Held # {} \/ \E o \in Operations : abroad[o] > 0

SafeFromClears == ClearComing => safe = {}

CInv ==
    /\ CartTypes
    /\ Created
    /\ Asked
    /\ OneByOne
    /\ FetchCurrent
    /\ Agreement
    /\ SafeFromCalls
    /\ SafeFromClears
    /\ SafeRowsStay

-----------------------------------------------------------------------------
(* Lemmas about the operators. *)

Kinds == {"none", "fetch", "add", "update", "remove", "removeAll"}

\* The calls there can be when n rows were created.
CallRecords(n) ==
    [kind : Kinds, at : {"free", "sent", "gone", "served"}, item : 0 .. n,
     quantity : 0 .. MaxQuantity, reply : [Items -> 0 .. MaxQuantity]]

LEMMA CallsTyped == CartTypes => call \in [Calls -> CallRecords(created)]
BY DEF CartTypes, CallRecords, Kinds

LEMMA NoRowsTyped == NoRows \in [Items -> 0 .. MaxQuantity] /\ \A i \in Items : NoRows[i] = 0
BY CartAssumption DEF NoRows

LEMMA FreeTyped == \A n \in Nat : Free \in CallRecords(n)
BY NoRowsTyped, CartAssumption DEF Free, CallRecords, Kinds

\* A cart that shows rows has at most one entry per row.
LEMMA CartOfTyped ==
    ASSUME NEW stocked \in [Items -> 0 .. MaxQuantity]
    PROVE  /\ CartOf(stocked) \in [Items -> Seq(Quantities)]
           /\ \A i \in Items : stocked[i] > 0 => CartOf(stocked)[i] = <<stocked[i]>>
           /\ \A i \in Items : stocked[i] = 0 => CartOf(stocked)[i] = <<>>
<1>1. \A i \in Items : stocked[i] > 0 => <<stocked[i]>> \in Seq(Quantities)
  BY CartAssumption DEF Quantities
<1>2. <<>> \in Seq(Quantities)
  OBVIOUS
<1> QED
  BY <1>1, <1>2, CartAssumption DEF CartOf

LEMMA WithQuantityTyped ==
    ASSUME NEW entries \in Seq(Quantities), NEW q \in Quantities
    PROVE  /\ WithQuantity(entries, q) \in Seq(Quantities)
           /\ entries = <<>> => WithQuantity(entries, q) = <<>>
           /\ Len(entries) = 1 => WithQuantity(entries, q) = <<q>>
<1>1. DOMAIN entries = 1 .. Len(entries) /\ Len(entries) \in Nat
  OBVIOUS
<1>2. WithQuantity(entries, q) \in [1 .. Len(entries) -> Quantities]
  BY <1>1 DEF WithQuantity
<1>3. WithQuantity(entries, q) \in Seq(Quantities) /\ Len(WithQuantity(entries, q)) = Len(entries)
  BY <1>1, <1>2
<1>4. ASSUME Len(entries) = 1 PROVE WithQuantity(entries, q) = <<q>>
  <2>1. WithQuantity(entries, q)[1] = q /\ DOMAIN WithQuantity(entries, q) = 1 .. 1
    BY <1>1, <1>4 DEF WithQuantity
  <2>2. WithQuantity(entries, q) = [k \in 1 .. 1 |-> q]
    BY <1>1, <1>4 DEF WithQuantity
  <2> QED
    BY <2>2, Z3
<1>5. ASSUME entries = <<>> PROVE WithQuantity(entries, q) = <<>>
  BY <1>1, <1>3, <1>5
<1> QED
  BY <1>3, <1>4, <1>5

\* What each answer makes of a cart.
LEMMA ReducedBy ==
    ASSUME NEW cart, NEW a
    PROVE  /\ a.kind = "fetch" => Reduced(cart, a) = CartOf(a.reply)
           /\ a.kind = "add" => Reduced(cart, a) = [cart EXCEPT ![a.item] = Append(@, a.quantity)]
           /\ a.kind = "update" =>
                 Reduced(cart, a) = [cart EXCEPT ![a.item] = WithQuantity(@, a.quantity)]
           /\ a.kind = "remove" => Reduced(cart, a) = [cart EXCEPT ![a.item] = <<>>]
           /\ a.kind = "removeAll" => Reduced(cart, a) = CartOf(NoRows)
BY DEF Reduced

-----------------------------------------------------------------------------
(* The initial states. *)

LEMMA CInvInit == CartInit => CInv
<1> SUFFICES ASSUME CartInit PROVE CInv
  OBVIOUS
<1>1. CartTypes
  <2>1. call \in [Calls -> CallRecords(0)]
    BY FreeTyped DEF CartInit
  <2>2. call \in [Calls -> CallRecords(created)] /\ created \in 0 .. MaxItems
    BY <2>1, CartAssumption DEF CartInit
  <2>3. cartRows \in [Items -> 0 .. MaxQuantity] /\ shown \in [Items -> Seq(Quantities)]
    BY NoRowsTyped, CartOfTyped DEF CartInit
  <2> QED
    BY <2>2, <2>3 DEF CartInit, CartTypes, CartSlice, CallRecords, Kinds, ContractInit
<1>2. Created
  BY NoRowsTyped, CartOfTyped DEF CartInit, CartSlice, Created, Free
<1>3. Asked /\ OneByOne /\ FetchCurrent /\ Agreement /\ SafeFromCalls
  BY DEF CartInit, Asked, OneByOne, FetchCurrent, Agreement, SafeFromCalls, Free
<1>4. SafeFromClears /\ SafeRowsStay
  BY DEF CartInit, SafeFromClears, ClearComing, SafeRowsStay, ContractInit, Held
<1> QED
  BY <1>1, <1>2, <1>3, <1>4 DEF CInv

-----------------------------------------------------------------------------
(* Types, and what calls ask for. *)

TInv == CartTypes /\ Created /\ Asked

\* A call that has become another one, the rest of the slice and the table kept.
LEMMA CallReplaced ==
    ASSUME TInv, NEW c \in Calls, NEW a \in CallRecords(created),
           a.at = "free" => a = Free,
           a.at # "free" => a.kind # "none",
           a.kind \in {"add", "update"} => a.quantity > 0,
           a.kind \in {"update", "remove"} => a.item > 0,
           a.kind = "add" /\ a.at = "served" => a.item > 0,
           \A i \in Items : i > created => a.reply[i] = 0,
           call' = [call EXCEPT ![c] = a],
           UNCHANGED <<cartRows, created, savedCart, clearing, contractVars>>,
           shown' \in [Items -> Seq(Quantities)],
           \A i \in Items : i > created => shown'[i] = <<>>,
           loading' \in BOOLEAN, alone' \in BOOLEAN, undisturbed' \in BOOLEAN,
           safe' \subseteq Items
    PROVE  TInv'
<1>1. call \in [Calls -> CallRecords(created)]
  BY CallsTyped DEF TInv
<1>2. call' \in [Calls -> CallRecords(created')]
  BY <1>1
<1>3. CartTypes'
  BY <1>2 DEF TInv, CartTypes, CallRecords, Kinds, contractVars
<1>4. Created'
  BY <1>1 DEF TInv, Created
<1>5. Asked'
  BY <1>1 DEF TInv, Asked
<1> QED
  BY <1>3, <1>4, <1>5 DEF TInv

\* What is known of one call.
LEMMA CallFacts ==
    ASSUME TInv, NEW c \in Calls
    PROVE  /\ created \in Nat /\ created <= MaxItems /\ MaxItems \in Nat /\ MaxQuantity \in Nat
           /\ call[c] \in CallRecords(created)
           /\ call[c].kind \in Kinds
           /\ call[c].at \in {"free", "sent", "gone", "served"}
           /\ call[c].item \in 0 .. created
           /\ call[c].quantity \in 0 .. MaxQuantity
           /\ call[c].reply \in [Items -> 0 .. MaxQuantity]
           /\ call[c].at # "free" => call[c].kind # "none"
           /\ call[c].kind \in {"add", "update"} => call[c].quantity \in Quantities
           /\ call[c].kind \in {"update", "remove"} => call[c].item \in Items
           /\ call[c].kind = "add" /\ call[c].at = "served" => call[c].item \in Items
<1>1. call[c] \in CallRecords(created)
  BY CallsTyped DEF TInv
<1>2. /\ call[c].kind \in Kinds
      /\ call[c].at \in {"free", "sent", "gone", "served"}
      /\ call[c].item \in 0 .. created
      /\ call[c].quantity \in 0 .. MaxQuantity
      /\ call[c].reply \in [Items -> 0 .. MaxQuantity]
  BY <1>1 DEF CallRecords
<1>3. created \in Nat /\ created <= MaxItems /\ MaxItems \in Nat /\ MaxQuantity \in Nat
  BY CartAssumption DEF TInv, CartTypes
<1>4. /\ call[c].at # "free" => call[c].kind # "none"
      /\ call[c].kind \in {"add", "update"} => call[c].quantity > 0
      /\ call[c].kind \in {"update", "remove"} => call[c].item > 0
      /\ call[c].kind = "add" /\ call[c].at = "served" => call[c].item > 0
  BY DEF TInv, Asked
<1>5. call[c].kind \in {"add", "update"} => call[c].quantity \in Quantities
  BY <1>2, <1>3, <1>4 DEF Quantities
<1>6. call[c].item > 0 => call[c].item \in Items
  BY <1>2, <1>3 DEF Items
<1> QED
  BY <1>1, <1>2, <1>3, <1>4, <1>5, <1>6

\* Every reduced cart is a cart, and shows only rows that were created.
LEMMA ReducedTyped ==
    ASSUME TInv, NEW c \in Calls, call[c].at = "served"
    PROVE  /\ Reduced(shown, call[c]) \in [Items -> Seq(Quantities)]
           /\ \A i \in Items : i > created => Reduced(shown, call[c])[i] = <<>>
<1> DEFINE a == call[c]
           cart == Reduced(shown, a)
<1>1. a.kind \in Kinds \ {"none"} /\ shown \in [Items -> Seq(Quantities)] /\ created \in Nat
  BY CallFacts DEF TInv, CartTypes
<1>0. \A i \in Items : i > created => shown[i] = <<>>
  BY DEF TInv, Created
<1>2. CASE a.kind = "fetch"
  <2>1. cart = CartOf(a.reply) /\ a.reply \in [Items -> 0 .. MaxQuantity]
    BY <1>2, ReducedBy, CallFacts
  <2>2. \A i \in Items : i > created => a.reply[i] = 0
    BY DEF TInv, Created
  <2> QED
    BY <2>1, <2>2, CartOfTyped
<1>3. CASE a.kind = "add"
  <2>1. a.quantity \in Quantities /\ a.item \in Items /\ a.item <= created
    BY <1>3, CallFacts
  <2>2. cart = [shown EXCEPT ![a.item] = Append(@, a.quantity)]
    BY <1>3, ReducedBy
  <2>3. \A i \in Items : Append(shown[i], a.quantity) \in Seq(Quantities)
    BY <1>1, <2>1
  <2> QED
    BY <1>0, <1>1, <2>1, <2>2, <2>3 DEF Items
<1>4. CASE a.kind = "update"
  <2>1. a.quantity \in Quantities /\ a.item \in Items /\ a.item <= created
    BY <1>4, CallFacts
  <2>2. cart = [shown EXCEPT ![a.item] = WithQuantity(@, a.quantity)]
    BY <1>4, ReducedBy
  <2>3. \A i \in Items : WithQuantity(shown[i], a.quantity) \in Seq(Quantities)
    BY <1>1, <2>1, WithQuantityTyped
  <2> QED
    BY <1>0, <1>1, <2>1, <2>2, <2>3 DEF Items
<1>5. CASE a.kind = "remove"
  <2>1. cart = [shown EXCEPT ![a.item] = <<>>] /\ <<>> \in Seq(Quantities)
    BY <1>5, ReducedBy
  <2> QED
    BY <1>0, <1>1, <2>1
<1>6. CASE a.kind = "removeAll"
  BY <1>6, ReducedBy, NoRowsTyped, CartOfTyped
<1> QED
  BY <1>1, <1>2, <1>3, <1>4, <1>5, <1>6 DEF Kinds

\* A call that is dispatched.
LEMMA DispatchTyped ==
    ASSUME TInv, NEW c \in Calls, NEW kind \in Kinds \ {"none"},
           NEW i \in 0 .. created, NEW q \in 0 .. MaxQuantity,
           kind \in {"add", "update"} => q > 0, kind \in {"update", "remove"} => i > 0,
           Dispatch(c, kind, i, q), safe' \subseteq Items
    PROVE  TInv'
<1> DEFINE a == [Free EXCEPT !.kind = kind, !.at = "sent", !.item = i, !.quantity = q]
<1>1. a \in CallRecords(created) /\ a.reply = NoRows /\ a.kind = kind /\ a.at = "sent"
      /\ a.item = i /\ a.quantity = q
  BY NoRowsTyped DEF Free, CallRecords
<1>2. call' = [call EXCEPT ![c] = a]
  BY DEF Dispatch
<1>3. shown' = shown /\ loading' \in BOOLEAN /\ alone' \in BOOLEAN /\ undisturbed' \in BOOLEAN
  BY DEF Dispatch, TInv, CartTypes
<1> HIDE DEF a
<1>4. shown' \in [Items -> Seq(Quantities)] /\ \A j \in Items : j > created => shown'[j] = <<>>
  BY <1>3 DEF TInv, CartTypes, Created
<1>5. \A j \in Items : j > created => a.reply[j] = 0
  BY <1>1, NoRowsTyped
<1>6. UNCHANGED <<cartRows, created, savedCart, clearing, contractVars>>
  BY DEF Dispatch
<1>7. a.at # "free" /\ a.kind # "none" /\ ~(a.kind = "add" /\ a.at = "served")
  BY <1>1
<1>8. /\ a.kind \in {"add", "update"} => a.quantity > 0
      /\ a.kind \in {"update", "remove"} => a.item > 0
  BY <1>1
<1> QED
  BY <1>1, <1>2, <1>3, <1>4, <1>5, <1>6, <1>7, <1>8, CallReplaced

\* A call the server has served, when it leaves the table alone or has changed it.
LEMMA AnswerTyped ==
    ASSUME TInv, NEW c \in Calls, NEW b \in CallRecords(created'),
           b.kind = call[c].kind, b.quantity = call[c].quantity, b.item >= call[c].item,
           b.kind = "add" => b.item > 0,
           \A i \in Items : i > created => b.reply[i] = 0,
           Answer(c, b),
           cartRows' \in [Items -> 0 .. MaxQuantity],
           created' \in created .. MaxItems,
           \A i \in Items : i > created' => cartRows'[i] = 0,
           safe' \subseteq Items
    PROVE  TInv'
<1> DEFINE a == IF call[c].at = "sent" THEN [b EXCEPT !.at = "served"] ELSE Free
<1>1. call \in [Calls -> CallRecords(created)] /\ created \in Nat /\ created' \in Nat
      /\ created <= created'
  BY CallsTyped DEF TInv, CartTypes
<1>2. CallRecords(created) \subseteq CallRecords(created')
  BY <1>1 DEF CallRecords
<1>3. a \in CallRecords(created')
  BY <1>1, FreeTyped DEF CallRecords
<1>4. call' = [call EXCEPT ![c] = a]
  BY DEF Answer
<1>5. call' \in [Calls -> CallRecords(created')]
  BY <1>1, <1>2, <1>3, <1>4
<1>6. CartTypes'
  <2>1. created' \in 0 .. MaxItems
    BY <1>1
  <2>2. UNCHANGED <<shown, loading, savedCart, clearing, alone, undisturbed, entered>>
    BY DEF Answer, cartSlice, contractVars
  <2> QED
    BY <1>5, <2>1, <2>2 DEF TInv, CartTypes, CallRecords, Kinds
<1>7. a.at = "free" => a = Free
  BY <1>3 DEF CallRecords
<1>8. \A i \in Items : i > created => a.reply[i] = 0
  BY NoRowsTyped DEF Free, CallRecords
<1>9. a.at # "free" => /\ a.kind = call[c].kind /\ a.quantity = call[c].quantity
                       /\ a.item >= call[c].item /\ (a.kind = "add" => a.item > 0)
  BY DEF Free, CallRecords
<1>10. a.at = "free" => a.kind = "none"
  BY <1>7 DEF Free
<1> HIDE DEF a
<1>11. Created'
  <2> SUFFICES ASSUME NEW i \in Items, i > created'
               PROVE  /\ cartRows'[i] = 0 /\ shown'[i] = <<>> /\ savedCart'.cart[i] = <<>>
                      /\ \A d \in Calls : call'[d].reply[i] = 0
    BY DEF Created
  <2>1. i > created
    BY <1>1 DEF Items
  <2> QED
    BY <1>1, <1>4, <1>8, <2>1 DEF TInv, Created, Answer, cartSlice
<1>12. Asked'
  <2> SUFFICES ASSUME NEW d \in Calls
               PROVE  /\ call'[d].at = "free" => call'[d] = Free
                      /\ call'[d].at # "free" => call'[d].kind # "none"
                      /\ call'[d].kind \in {"add", "update"} => call'[d].quantity > 0
                      /\ call'[d].kind \in {"update", "remove"} => call'[d].item > 0
                      /\ call'[d].kind = "add" /\ call'[d].at = "served" => call'[d].item > 0
    BY DEF Asked
  <2>1. CASE d # c
    BY <1>1, <1>4, <2>1 DEF TInv, Asked
  <2>2. CASE d = c
    <3>1. call'[d] = a
      BY <1>1, <1>4, <2>2
    <3>2. CASE a.at = "free"
      BY <1>7, <1>10, <3>1, <3>2
    <3>3. CASE a.at # "free"
      <4>1. a.kind = call[c].kind /\ a.quantity = call[c].quantity /\ a.item >= call[c].item
            /\ (a.kind = "add" => a.item > 0) /\ a.item \in Nat /\ call[c].item \in Nat
        BY <1>1, <1>3, <1>9, <3>3, CallFacts DEF CallRecords
      <4>2. call[c].at # "free"
        BY DEF Answer
      <4> QED
        BY <3>1, <3>3, <4>1, <4>2 DEF TInv, Asked
    <3> QED
      BY <3>2, <3>3
  <2> QED
    BY <2>1, <2>2
<1> QED
  BY <1>6, <1>11, <1>12 DEF TInv

\* The slice, and perhaps the queue, has moved, and no call.
LEMMA CallsKept ==
    ASSUME TInv, UNCHANGED <<created, call>>,
           cartRows' \in [Items -> 0 .. MaxQuantity],
           \A i \in Items : i > created => cartRows'[i] = 0,
           shown' = shown \/ shown' = CartOf(NoRows), loading' = loading,
           savedCart' = savedCart \/ savedCart' = CartSlice,
           clearing' \subseteq entered', alone' \in BOOLEAN, undisturbed' \in BOOLEAN,
           safe' \subseteq Items
    PROVE  TInv'
<1>1. shown' \in [Items -> Seq(Quantities)]
  BY NoRowsTyped, CartOfTyped DEF TInv, CartTypes
<1>2. \A i \in Items : i > created => shown'[i] = <<>>
  BY NoRowsTyped, CartOfTyped DEF TInv, Created
<1>3. savedCart' \in [cart : [Items -> Seq(Quantities)], loading : BOOLEAN]
      /\ \A i \in Items : i > created => savedCart'.cart[i] = <<>>
  BY DEF TInv, CartTypes, Created, CartSlice
<1> QED
  BY <1>1, <1>2, <1>3 DEF TInv, CartTypes, Created, Asked

LEMMA TInvNext == TInv /\ [CartNext]_cartVars => TInv'
<1> SUFFICES ASSUME TInv, [CartNext]_cartVars PROVE TInv'
  OBVIOUS
<1>0. /\ created \in Nat /\ created <= MaxItems /\ MaxItems \in Nat /\ MaxQuantity \in Nat \ {0}
      /\ safe \subseteq Items /\ cartRows \in [Items -> 0 .. MaxQuantity]
      /\ shown \in [Items -> Seq(Quantities)] /\ clearing \subseteq entered
      /\ loading \in BOOLEAN /\ alone \in BOOLEAN /\ undisturbed \in BOOLEAN
      /\ \A i \in Items : i > created => cartRows[i] = 0 /\ shown[i] = <<>>
  BY CartAssumption DEF TInv, CartTypes, Created
<1>1. ASSUME NEW c \in Calls, FetchCart(c) PROVE TInv'
  BY <1>0, <1>1, DispatchTyped DEF FetchCart, Kinds
<1>2. ASSUME NEW c \in Calls, AddToCart(c) PROVE TInv'
  BY <1>0, <1>2, DispatchTyped DEF AddToCart, Kinds
<1>3. ASSUME NEW c \in Calls, UpdateCartItem(c) PROVE TInv'
  <2>1. PICK i \in Items, q \in Quantities :
          /\ \E k \in DOMAIN shown[i] : q = shown[i][k] + 1 \/ q + 1 = shown[i][k]
          /\ Dispatch(c, "update", i, q) /\ UNCHANGED safe
    BY <1>3 DEF UpdateCartItem
  <2>2. i \in 0 .. created /\ i > 0
    BY <1>0, <2>1 DEF Items
  <2>3. q \in 0 .. MaxQuantity /\ q > 0
    BY <1>0 DEF Quantities
  <2> QED
    BY <1>0, <2>1, <2>2, <2>3, DispatchTyped DEF Kinds
<1>4. ASSUME NEW c \in Calls, RemoveCartItem(c) PROVE TInv'
  <2>1. PICK i \in Items :
          shown[i] # <<>> /\ Dispatch(c, "remove", i, 0) /\ safe' = safe \ {i}
    BY <1>4 DEF RemoveCartItem
  <2>2. i \in 0 .. created /\ i > 0
    BY <1>0, <2>1 DEF Items
  <2> QED
    BY <1>0, <2>1, <2>2, DispatchTyped DEF Kinds
<1>5. ASSUME NEW c \in Calls, RemoveAllCartItems(c) PROVE TInv'
  BY <1>0, <1>5, DispatchTyped DEF RemoveAllCartItems, Kinds
<1>6. ASSUME NEW c \in Calls, ServeFetch(c) PROVE TInv'
  <2> DEFINE b == [call[c] EXCEPT !.reply = cartRows]
  <2>1. b \in CallRecords(created) /\ b.reply = cartRows
        /\ b.kind = "fetch" /\ b.quantity = call[c].quantity /\ b.item = call[c].item
    BY <1>0, <1>6, CallFacts DEF ServeFetch, CallRecords
  <2>2. call[c].kind = "fetch" /\ Answer(c, b) /\ UNCHANGED <<cartRows, created, safe>>
    BY <1>6 DEF ServeFetch
  <2>3. call[c].item \in Nat
    BY CallFacts
  <2> HIDE DEF b
  <2> QED
    BY <1>0, <2>1, <2>2, <2>3, AnswerTyped
<1>7. ASSUME NEW c \in Calls, ServeAdd(c) PROVE TInv'
  <2> DEFINE b == [call[c] EXCEPT !.item = created + 1]
  <2>1. /\ created' = created + 1 /\ created' \in created .. MaxItems /\ created + 1 \in Items
        /\ call[c].kind = "add" /\ Answer(c, b)
        /\ cartRows' = [cartRows EXCEPT ![created + 1] = call[c].quantity]
        /\ safe' \subseteq Items
    BY <1>0, <1>7 DEF ServeAdd, Items
  <2>2. b \in CallRecords(created') /\ b.reply = call[c].reply
        /\ b.kind = "add" /\ b.quantity = call[c].quantity /\ b.item = created + 1
    <3>1. call[c] \in CallRecords(created) /\ created + 1 \in 0 .. created'
      BY <1>0, <2>1, CallFacts
    <3> QED
      BY <2>1, <3>1 DEF CallRecords
  <2>3. call[c].quantity \in 0 .. MaxQuantity /\ call[c].item <= created /\ call[c].item \in Nat
    BY CallFacts
  <2>4. cartRows' \in [Items -> 0 .. MaxQuantity] /\ \A i \in Items : i > created' => cartRows'[i] = 0
    BY <1>0, <2>1, <2>3 DEF Items
  <2>5. \A i \in Items : i > created => b.reply[i] = 0
    BY <2>2 DEF TInv, Created
  <2>6. b.item > 0 /\ b.item >= call[c].item
    BY <1>0, <2>2, <2>3
  <2> HIDE DEF b
  <2> QED
    BY <2>1, <2>2, <2>4, <2>5, <2>6, AnswerTyped
<1>8. ASSUME NEW c \in Calls, NEW stocked, Answer(c, call[c]), UNCHANGED created,
             call[c].kind # "add",
             cartRows' = stocked, stocked \in [Items -> 0 .. MaxQuantity],
             \A i \in Items : i > created => stocked[i] = 0,
             UNCHANGED safe
      PROVE  TInv'
  <2>1. call[c] \in CallRecords(created') /\ created' \in created .. MaxItems
        /\ call[c].item >= call[c].item
    BY <1>0, <1>8, CallFacts
  <2>2. \A i \in Items : i > created => call[c].reply[i] = 0
    BY DEF TInv, Created
  <2> QED
    BY <1>0, <1>8, <2>1, <2>2, AnswerTyped
<1>9. ASSUME NEW c \in Calls, ServeUpdate(c) PROVE TInv'
  <2>1. call[c].quantity \in 0 .. MaxQuantity /\ call[c].item \in Items /\ call[c].item <= created
    BY <1>9, CallFacts DEF ServeUpdate
  <2>2. /\ [cartRows EXCEPT ![call[c].item] = call[c].quantity] \in [Items -> 0 .. MaxQuantity]
        /\ \A i \in Items : i > created =>
              [cartRows EXCEPT ![call[c].item] = call[c].quantity][i] = 0
    <3>1. \A i \in Items : i > created => call[c].item # i
      BY <1>0, <2>1 DEF Items
    <3>2. [cartRows EXCEPT ![call[c].item] = call[c].quantity] \in [Items -> 0 .. MaxQuantity]
      BY <1>0, <2>1
    <3> QED
      BY <1>0, <3>1, <3>2
  <2> QED
    BY <1>8, <1>9, <2>2 DEF ServeUpdate
<1>10. ASSUME NEW c \in Calls, ServeRemove(c) PROVE TInv'
  <2>1. /\ [cartRows EXCEPT ![call[c].item] = 0] \in [Items -> 0 .. MaxQuantity]
        /\ \A i \in Items : i > created => [cartRows EXCEPT ![call[c].item] = 0][i] = 0
    <3>1. 0 \in 0 .. MaxQuantity
      BY <1>0
    <3> QED
      BY <1>0, <3>1
  <2> QED
    BY <1>8, <1>10, <2>1 DEF ServeRemove
<1>11. ASSUME NEW c \in Calls, ServeRemoveAll(c) PROVE TInv'
  BY <1>8, <1>11, NoRowsTyped DEF ServeRemoveAll
<1>12. ASSUME NEW c \in Calls, Fulfilled(c) PROVE TInv'
  <2>1. loading' \in BOOLEAN /\ undisturbed' \in BOOLEAN
    BY <1>0, <1>12 DEF Fulfilled, Settles
  <2>2. shown' \in [Items -> Seq(Quantities)] /\ \A i \in Items : i > created => shown'[i] = <<>>
    BY <1>12, ReducedTyped DEF Fulfilled
  <2>3. Free \in CallRecords(created) /\ Free.at = "free" /\ Free.kind = "none"
        /\ \A i \in Items : Free.reply[i] = 0
    BY <1>0, FreeTyped, NoRowsTyped DEF Free
  <2> QED
    BY <1>0, <1>12, <2>1, <2>2, <2>3, CallReplaced DEF Fulfilled, Settles
<1>13. ASSUME NEW c \in Calls, Rejected(c) PROVE TInv'
  <2>1. loading' \in BOOLEAN /\ undisturbed' \in BOOLEAN
    BY <1>0, <1>13 DEF Rejected, Settles
  <2>2. CASE call' = [call EXCEPT ![c] = Free]
    <3>1. Free \in CallRecords(created) /\ Free.at = "free" /\ Free.kind = "none"
          /\ \A i \in Items : Free.reply[i] = 0
      BY <1>0, FreeTyped, NoRowsTyped DEF Free
    <3> QED
      BY <1>0, <1>13, <2>1, <2>2, <3>1, CallReplaced DEF Rejected, Settles
  <2>3. CASE call[c].at = "sent" /\ call' = [call EXCEPT ![c].at = "gone"]
    <3> DEFINE a == [call[c] EXCEPT !.at = "gone"]
    <3>1. a \in CallRecords(created) /\ a.at = "gone" /\ a.kind = call[c].kind
          /\ a.quantity = call[c].quantity /\ a.item = call[c].item /\ a.reply = call[c].reply
      BY CallFacts DEF CallRecords
    <3>2. call' = [call EXCEPT ![c] = a]
      BY <2>3
    <3>3. /\ a.kind # "none"
          /\ a.kind \in {"add", "update"} => a.quantity > 0
          /\ a.kind \in {"update", "remove"} => a.item > 0
          /\ \A i \in Items : i > created => a.reply[i] = 0
      BY <2>3, <3>1 DEF TInv, Asked, Created
    <3> HIDE DEF a
    <3> QED
      BY <1>0, <1>13, <2>1, <3>1, <3>2, <3>3, CallReplaced DEF Rejected, Settles
  <2> QED
    BY <1>13, <2>2, <2>3 DEF Rejected
<1>14. ASSUME NEW c \in Calls, Lost(c) PROVE TInv'
  <2>1. Free \in CallRecords(created) /\ Free.at = "free" /\ Free.kind = "none"
        /\ \A i \in Items : Free.reply[i] = 0
    BY <1>0, FreeTyped, NoRowsTyped DEF Free
  <2> QED
    BY <1>0, <1>14, <2>1, CallReplaced DEF Lost, cartSlice, cartHistory
<1>15. ASSUME NEW o \in Operations, QueueClear(o) PROVE TInv'
  BY <1>0, <1>15, CallsKept DEF QueueClear, Enter, cartSlice
<1>16. ASSUME NEW o \in Operations, ReduceClear(o) PROVE TInv'
  BY <1>0, <1>16, CallsKept DEF ReduceClear, contractVars
<1>17. CASE ClearUnqueued
  BY <1>0, <1>17, CallsKept DEF ClearUnqueued, contractVars
<1>18. ASSUME NEW o \in Operations, DeliverClear(o) PROVE TInv'
  BY <1>0, <1>18, CallsKept, NoRowsTyped DEF DeliverClear, Deliver, Emptied, cartSlice
<1>19. ASSUME NEW o \in Operations, ReleaseClear(o) PROVE TInv'
  BY <1>0, <1>19, CallsKept DEF ReleaseClear, Leave, cartSlice, cartHistory
<1>22. ASSUME NEW o \in Operations, GiveUpClear(o) \/ ForgetClear(o) PROVE TInv'
  BY <1>0, <1>22, CallsKept DEF GiveUpClear, GiveUp, ForgetClear, Forget, cartSlice, cartHistory
<1>23. ASSUME NEW o \in Operations, DeliverLateClear(o) PROVE TInv'
  BY <1>0, <1>23, CallsKept, NoRowsTyped DEF DeliverLateClear, DeliverLate, Emptied, cartSlice
<1>24. CASE PersistCart
  BY <1>0, <1>24, CallsKept DEF PersistCart, cartSlice, cartHistory, contractVars
<1>20. CASE Restart
  <2> DEFINE a(c) == IF call[c].at \in {"sent", "gone"} THEN [call[c] EXCEPT !.at = "gone"] ELSE Free
  <2>1. call' = [c \in Calls |-> a(c)]
    BY <1>20 DEF Restart
  <2>2. \A c \in Calls : a(c) \in CallRecords(created)
    BY <1>0, CallFacts, FreeTyped DEF CallRecords
  <2>3. \A c \in Calls : \A i \in Items : i > created => a(c).reply[i] = 0
    BY NoRowsTyped, CallFacts DEF Free, TInv, Created, CallRecords
  <2>4. \A c \in Calls :
          /\ a(c).at = "free" => a(c) = Free
          /\ a(c).at # "free" => a(c).kind # "none"
          /\ a(c).kind \in {"add", "update"} => a(c).quantity > 0
          /\ a(c).kind \in {"update", "remove"} => a(c).item > 0
          /\ a(c).at # "served"
    BY CallFacts DEF Free, TInv, Asked, CallRecords
  <2> HIDE DEF a
  <2>5. CartTypes'
    <3>1. call' \in [Calls -> CallRecords(created')]
      BY <1>20, <2>1, <2>2 DEF Restart
    <3>2. UNCHANGED <<cartRows, created, savedCart, safe>>
          /\ shown' = savedCart.cart /\ loading' = savedCart.loading
          /\ clearing' = {} /\ alone' = FALSE /\ undisturbed' = FALSE
      BY <1>20 DEF Restart
    <3>3. /\ created' \in 0 .. MaxItems
          /\ savedCart \in [cart : [Items -> Seq(Quantities)], loading : BOOLEAN]
      BY <1>0, <3>2 DEF TInv, CartTypes
    <3> QED
      BY <1>0, <3>1, <3>2, <3>3 DEF CartTypes, CallRecords, Kinds
  <2>6. Created'
    <3>1. UNCHANGED <<cartRows, created, savedCart>> /\ shown' = savedCart.cart
      BY <1>20 DEF Restart
    <3>2. \A i \in Items : i > created => \A c \in Calls : call'[c].reply[i] = 0
      BY <2>1, <2>3
    <3>3. \A i \in Items : i > created => savedCart.cart[i] = <<>>
      BY DEF TInv, Created
    <3> QED
      BY <1>0, <3>1, <3>2, <3>3, <1>20 DEF Created, Restart
  <2>7. Asked'
    BY <2>1, <2>4 DEF Asked
  <2> QED
    BY <2>5, <2>6, <2>7 DEF TInv
<1>21. CASE UNCHANGED cartVars
  BY <1>0, <1>21, CallsKept DEF cartVars, cartSlice, cartHistory, contractVars
<1> QED
  BY <1>1, <1>2, <1>3, <1>4, <1>5, <1>6, <1>7, <1>9, <1>10, <1>11, <1>12, <1>13, <1>14,
     <1>15, <1>16, <1>17, <1>18, <1>19, <1>20, <1>21, <1>22, <1>23, <1>24 DEF CartNext

-----------------------------------------------------------------------------
(* Rows that stay. *)

RInv == SafeFromCalls /\ SafeFromClears /\ SafeRowsStay

\* A dispatch asks for the removal of no row that is still called safe.
LEMMA DispatchSafe ==
    ASSUME TInv, RInv, NEW c \in Calls, NEW kind, NEW i, NEW q, Dispatch(c, kind, i, q),
           safe' \subseteq safe,
           kind = "removeAll" => safe' = {},
           kind = "remove" => i \notin safe'
    PROVE  RInv'
<1>1. call' = [call EXCEPT ![c] =
                 [Free EXCEPT !.kind = kind, !.at = "sent", !.item = i, !.quantity = q]]
  BY DEF Dispatch
<1>2. call'[c].kind = kind /\ call'[c].item = i /\ \A d \in Calls \ {c} : call'[d] = call[d]
  BY <1>1 DEF TInv, CartTypes, Free
<1>3. SafeFromCalls'
  BY <1>2 DEF RInv, SafeFromCalls
<1>4. SafeFromClears' /\ SafeRowsStay'
  BY DEF RInv, SafeFromClears, ClearComing, SafeRowsStay, Dispatch, Held, contractVars
<1> QED
  BY <1>3, <1>4 DEF RInv

\* Calls that end, or are no longer waited for, threaten no more than before.
LEMMA CallsEndSafe ==
    ASSUME RInv,
           \A c \in Calls : call'[c].at \in {"sent", "gone"} =>
               /\ call[c].at \in {"sent", "gone"}
               /\ call'[c].kind = call[c].kind /\ call'[c].item = call[c].item,
           safe' \subseteq safe,
           \A i \in safe' : cartRows'[i] > 0,
           safe' = {} \/ (Held' \subseteq Held /\ abroad' = abroad)
    PROVE  RInv'
BY DEF RInv, SafeFromCalls, SafeFromClears, ClearComing, SafeRowsStay

LEMMA RInvNext == TInv /\ RInv /\ [CartNext]_cartVars => RInv'
<1> SUFFICES ASSUME TInv, RInv, [CartNext]_cartVars PROVE RInv'
  OBVIOUS
<1>0. /\ created \in Nat /\ safe \subseteq Items /\ cartRows \in [Items -> 0 .. MaxQuantity]
      /\ call \in [Calls -> CallRecords(created)] /\ MaxQuantity \in Nat /\ MaxItems \in Nat
      /\ \A i \in safe : cartRows[i] > 0
  BY CartAssumption, CallsTyped DEF TInv, RInv, SafeRowsStay, CartTypes
<1>23. Free.at = "free"
  BY DEF Free
<1>1. ASSUME NEW c \in Calls, FetchCart(c) PROVE RInv'
  BY <1>1, DispatchSafe DEF FetchCart
<1>2. ASSUME NEW c \in Calls, AddToCart(c) PROVE RInv'
  BY <1>2, DispatchSafe DEF AddToCart
<1>3. ASSUME NEW c \in Calls, UpdateCartItem(c) PROVE RInv'
  BY <1>3, DispatchSafe DEF UpdateCartItem
<1>4. ASSUME NEW c \in Calls, RemoveCartItem(c) PROVE RInv'
  <2>1. PICK i \in Items : Dispatch(c, "remove", i, 0) /\ safe' = safe \ {i}
    BY <1>4 DEF RemoveCartItem
  <2> QED
    BY <2>1, DispatchSafe
<1>5. ASSUME NEW c \in Calls, RemoveAllCartItems(c) PROVE RInv'
  BY <1>5, DispatchSafe DEF RemoveAllCartItems
<1>6. ASSUME NEW c \in Calls, NEW b, Answer(c, b)
      PROVE  /\ call[c].at \in {"sent", "gone"} /\ call'[c].at \in {"served", "free"}
             /\ \A d \in Calls \ {c} : call'[d] = call[d]
             /\ Held' = Held /\ abroad' = abroad
  <2>1. call' = [call EXCEPT ![c] = IF call[c].at = "sent"
                                   THEN [b EXCEPT !.at = "served"] ELSE Free]
    BY <1>6 DEF Answer
  <2>2. [b EXCEPT !.at = "served"].at \in {"served", "free"}
    OBVIOUS
  <2> QED
    BY <1>0, <1>23, <1>6, <2>1 DEF Answer, Held, contractVars
<1>7. ASSUME NEW c \in Calls, ServeFetch(c) PROVE RInv'
  BY <1>0, <1>6, <1>7, CallsEndSafe DEF ServeFetch
<1>8. ASSUME NEW c \in Calls, ServeAdd(c) PROVE RInv'
  <2>1. /\ \A d \in Calls : call'[d].at \in {"sent", "gone"} => call'[d] = call[d]
        /\ Held' = Held /\ abroad' = abroad /\ created + 1 \in Items /\ created + 1 \notin safe
        /\ cartRows' = [cartRows EXCEPT ![created + 1] = call[c].quantity]
        /\ call[c].quantity > 0
    <3>1. call[c].quantity > 0
      BY <1>8 DEF ServeAdd, TInv, Asked
    <3>2. created + 1 \in Items /\ cartRows[created + 1] = 0
      BY <1>0, <1>8 DEF ServeAdd, Items, TInv, Created
    <3> QED
      BY <1>0, <1>6, <1>8, <3>1, <3>2 DEF ServeAdd
  <2>2. \A i \in safe \union {created + 1} : cartRows'[i] > 0
    BY <1>0, <2>1
  <2>3. CASE ~ NoDeletionUnderWay
    BY <1>8, <2>1, <2>2, <2>3, CallsEndSafe DEF ServeAdd
  <2>4. CASE NoDeletionUnderWay
    <3>1. safe' = safe \union {created + 1}
      BY <1>8, <2>4 DEF ServeAdd
    <3>2. \A d \in Calls : call[d].at \in {"sent", "gone"} =>
             call[d].kind # "removeAll" /\ call[d].item # created + 1
      BY <1>0, <2>4, CallFacts DEF NoDeletionUnderWay
    <3>3. SafeFromCalls'
      BY <2>1, <3>1, <3>2 DEF RInv, SafeFromCalls
    <3>4. ~ ClearComing'
      <4>1. Held = {} /\ \A o \in Operations : abroad[o] = 0
        BY <2>4 DEF NoDeletionUnderWay
      <4> QED
        BY <2>1, <4>1 DEF ClearComing
    <3> QED
      BY <2>1, <2>2, <3>1, <3>3, <3>4 DEF RInv, SafeFromClears, SafeRowsStay
  <2> QED
    BY <2>3, <2>4
<1>9. ASSUME NEW c \in Calls, ServeUpdate(c) PROVE RInv'
  <2>1. call[c].quantity > 0 /\ cartRows' = [cartRows EXCEPT ![call[c].item] = call[c].quantity]
    BY <1>9 DEF ServeUpdate, TInv, Asked
  <2>2. \A i \in safe : cartRows'[i] > 0
    BY <1>0, <2>1
  <2> QED
    BY <1>6, <1>9, <2>2, CallsEndSafe DEF ServeUpdate
<1>10. ASSUME NEW c \in Calls, ServeRemove(c) PROVE RInv'
  <2>1. call[c].kind = "remove" /\ call[c].item \notin safe
    BY <1>10 DEF ServeRemove, RInv, SafeFromCalls, Answer
  <2>2. \A i \in safe : cartRows'[i] > 0
    BY <1>0, <1>10, <2>1 DEF ServeRemove
  <2> QED
    BY <1>6, <1>10, <2>2, CallsEndSafe DEF ServeRemove
<1>11. ASSUME NEW c \in Calls, ServeRemoveAll(c) PROVE RInv'
  <2>1. safe = {}
    BY <1>11 DEF ServeRemoveAll, RInv, SafeFromCalls, Answer
  <2> QED
    BY <1>6, <1>11, <2>1, CallsEndSafe DEF ServeRemoveAll
<1>12. ASSUME NEW c \in Calls, call' = [call EXCEPT ![c] = Free],
              UNCHANGED <<cartRows, safe, contractVars>>
       PROVE  RInv'
  BY <1>0, <1>23, <1>12, CallsEndSafe DEF Held, contractVars
<1>13. ASSUME NEW c \in Calls, Fulfilled(c) PROVE RInv'
  BY <1>12, <1>13 DEF Fulfilled, Settles
<1>14. ASSUME NEW c \in Calls, Rejected(c) PROVE RInv'
  <2>1. CASE call' = [call EXCEPT ![c] = Free]
    BY <1>12, <1>14, <2>1 DEF Rejected, Settles
  <2>2. CASE call[c].at = "sent" /\ call' = [call EXCEPT ![c].at = "gone"]
    <3>1. \A d \in Calls : /\ call'[d].kind = call[d].kind /\ call'[d].item = call[d].item
                           /\ call'[d].at \in {"sent", "gone"} => call[d].at \in {"sent", "gone"}
      BY <1>0, <2>2 DEF CallRecords
    <3> QED
      BY <1>0, <1>14, <3>1, CallsEndSafe DEF Rejected, Settles, Held, contractVars
  <2> QED
    BY <1>14, <2>1, <2>2 DEF Rejected
<1>15. ASSUME NEW c \in Calls, Lost(c) PROVE RInv'
  BY <1>12, <1>15 DEF Lost, cartHistory
<1>16. ASSUME NEW o \in Operations, QueueClear(o) PROVE RInv'
  BY <1>16 DEF QueueClear, RInv, SafeFromCalls, SafeFromClears, SafeRowsStay
<1>17. ASSUME NEW o \in Operations, ReduceClear(o) PROVE RInv'
  BY <1>0, <1>17, CallsEndSafe DEF ReduceClear, Held, contractVars
<1>18. CASE ClearUnqueued
  BY <1>0, <1>18, CallsEndSafe DEF ClearUnqueued, Held, contractVars
<1>19. ASSUME NEW o \in Operations,
              \/ DeliverClear(o) \/ GiveUpClear(o) \/ DeliverLateClear(o) \/ ForgetClear(o)
       PROVE  RInv'
  <2>1. ClearComing /\ UNCHANGED <<call, safe>>
    BY <1>19 DEF DeliverClear, GiveUpClear, DeliverLateClear, ForgetClear, Deliver, GiveUp,
                 DeliverLate, Forget, Emptied, ClearComing, cartHistory
  <2>2. safe = {} /\ safe' = {}
    BY <2>1 DEF RInv, SafeFromClears
  <2> QED
    BY <2>1, <2>2, CallsEndSafe
<1>20. ASSUME NEW o \in Operations, ReleaseClear(o) PROVE RInv'
  <2>1. Held' \subseteq Held /\ abroad' = abroad
    BY <1>20 DEF ReleaseClear, Leave, Held
  <2> QED
    BY <1>0, <1>20, <2>1, CallsEndSafe DEF ReleaseClear, cartHistory
<1>21. CASE Restart
  <2>1. \A c \in Calls : call'[c].at \in {"sent", "gone"} =>
           /\ call[c].at \in {"sent", "gone"}
           /\ call'[c].kind = call[c].kind /\ call'[c].item = call[c].item
    BY <1>0, <1>23, <1>21 DEF Restart
  <2> QED
    BY <1>0, <1>21, <2>1, CallsEndSafe DEF Restart, Held, contractVars
<1>24. CASE PersistCart
  BY <1>0, <1>24, CallsEndSafe DEF PersistCart, cartHistory, Held, contractVars
<1>22. CASE UNCHANGED cartVars
  BY <1>0, <1>22, CallsEndSafe DEF cartVars, cartHistory, Held, contractVars
<1> QED
  BY <1>1, <1>2, <1>3, <1>4, <1>5, <1>7, <1>8, <1>9, <1>10, <1>11, <1>13, <1>14, <1>15,
     <1>16, <1>17, <1>18, <1>19, <1>20, <1>21, <1>22, <1>24 DEF CartNext

-----------------------------------------------------------------------------
(* The screen agrees with the server. *)

GInv == OneByOne /\ FetchCurrent /\ Agreement

\* A call that is served undisturbed will bring the cart to the rows as they are then.
LEMMA ServedAgrees ==
    ASSUME TInv, NEW c \in Calls, NEW b, NEW stocked \in [Items -> 0 .. MaxQuantity],
           b.kind = call[c].kind, b.quantity = call[c].quantity,
           \/ b.kind = "fetch" /\ b.reply = cartRows /\ stocked = cartRows
           \/ /\ b.kind = "add" /\ b.item \in Items /\ cartRows[b.item] = 0
              /\ stocked = [cartRows EXCEPT ![b.item] = b.quantity]
           \/ /\ b.kind = "update" /\ b.item \in Items /\ cartRows[b.item] > 0
              /\ stocked = [cartRows EXCEPT ![b.item] = b.quantity]
           \/ b.kind = "remove" /\ b.item \in Items /\ stocked = [cartRows EXCEPT ![b.item] = 0]
           \/ b.kind = "removeAll" /\ stocked = NoRows
    PROVE  Reduced(CartOf(cartRows), b) = CartOf(stocked)
<1> DEFINE old == CartOf(cartRows)
<1>1. /\ cartRows \in [Items -> 0 .. MaxQuantity] /\ MaxQuantity \in Nat
      /\ \A i \in Items : cartRows[i] \in Nat /\ stocked[i] \in Nat
      /\ b.kind \in {"add", "update"} => b.quantity \in Quantities /\ b.quantity > 0
  BY CallFacts DEF TInv, CartTypes, Quantities
<1>2. /\ old \in [Items -> Seq(Quantities)] /\ CartOf(stocked) \in [Items -> Seq(Quantities)]
      /\ \A i \in Items : /\ cartRows[i] > 0 => old[i] = <<cartRows[i]>>
                          /\ cartRows[i] = 0 => old[i] = <<>>
                          /\ stocked[i] > 0 => CartOf(stocked)[i] = <<stocked[i]>>
                          /\ stocked[i] = 0 => CartOf(stocked)[i] = <<>>
  BY <1>1, CartOfTyped
<1>3. \A i \in Items : stocked[i] = cartRows[i] => CartOf(stocked)[i] = old[i]
  BY DEF CartOf
<1> HIDE DEF old
<1>4. CASE b.kind = "fetch"
  BY <1>4, ReducedBy DEF old
<1>5. CASE b.kind = "add"
  <2>1. Reduced(old, b) = [old EXCEPT ![b.item] = Append(@, b.quantity)]
    BY <1>5, ReducedBy
  <2>2. Append(old[b.item], b.quantity) = CartOf(stocked)[b.item]
    <3>1. old[b.item] = <<>> /\ stocked[b.item] = b.quantity
      BY <1>1, <1>2, <1>5
    <3>2. CartOf(stocked)[b.item] = <<b.quantity>>
      BY <1>1, <1>2, <1>5, <3>1
    <3> QED
      BY <3>1, <3>2
  <2>3. \A i \in Items \ {b.item} : CartOf(stocked)[i] = old[i]
    BY <1>1, <1>3, <1>5
  <2> QED
    BY <1>2, <1>5, <2>1, <2>2, <2>3 DEF old
<1>6. CASE b.kind = "update"
  <2>1. Reduced(old, b) = [old EXCEPT ![b.item] = WithQuantity(@, b.quantity)]
    BY <1>6, ReducedBy
  <2>2. WithQuantity(old[b.item], b.quantity) = CartOf(stocked)[b.item]
    <3>1. old[b.item] = <<cartRows[b.item]>> /\ stocked[b.item] = b.quantity
      BY <1>1, <1>2, <1>6
    <3>2. CartOf(stocked)[b.item] = <<b.quantity>>
      BY <1>1, <1>2, <1>6, <3>1
    <3>3. old[b.item] \in Seq(Quantities) /\ Len(old[b.item]) = 1
      BY <1>2, <1>6, <3>1
    <3> QED
      BY <1>1, <1>6, <3>2, <3>3, WithQuantityTyped
  <2>3. \A i \in Items \ {b.item} : CartOf(stocked)[i] = old[i]
    BY <1>1, <1>3, <1>6
  <2> QED
    BY <1>2, <1>6, <2>1, <2>2, <2>3 DEF old
<1>7. CASE b.kind = "remove"
  <2>1. Reduced(old, b) = [old EXCEPT ![b.item] = <<>>]
    BY <1>7, ReducedBy
  <2>2. CartOf(stocked)[b.item] = <<>>
    BY <1>1, <1>2, <1>7
  <2>3. \A i \in Items \ {b.item} : CartOf(stocked)[i] = old[i]
    BY <1>1, <1>3, <1>7
  <2> QED
    BY <1>2, <1>7, <2>1, <2>2, <2>3 DEF old
<1>8. CASE b.kind = "removeAll"
  BY <1>8, ReducedBy
<1> QED
  BY <1>4, <1>5, <1>6, <1>7, <1>8

\* A dispatch that meets nobody disturbs nothing.
LEMMA DispatchAgrees ==
    ASSUME TInv, GInv, NEW c \in Calls, NEW kind, NEW i, NEW q, Dispatch(c, kind, i, q)
    PROVE  GInv'
<1>1. call' = [call EXCEPT ![c] =
                 [Free EXCEPT !.kind = kind, !.at = "sent", !.item = i, !.quantity = q]]
  BY DEF Dispatch
<1>2. call'[c].at = "sent" /\ \A d \in Calls \ {c} : call'[d] = call[d]
  BY <1>1 DEF TInv, CartTypes, Free
<1>3. alone' \/ undisturbed' => Outstanding = {}
  BY DEF Dispatch
<1>4. OneByOne'
  BY <1>2, <1>3 DEF OneByOne, Outstanding
<1>5. FetchCurrent'
  BY <1>2, <1>3 DEF FetchCurrent, Outstanding
<1>6. Agreement'
  <2> SUFFICES ASSUME undisturbed' PROVE Agreement'
    BY DEF Agreement
  <2>1. undisturbed /\ \A d \in Calls : call[d].at = "free"
    BY <1>3 DEF Dispatch, Outstanding
  <2>2. shown' = CartOf(cartRows')
    BY <2>1 DEF GInv, Agreement, Dispatch
  <2>3. \A d \in Calls : call'[d].at \in {"free", "sent"}
    BY <1>2, <2>1
  <2> QED
    BY <2>2, <2>3 DEF Agreement
<1> QED
  BY <1>4, <1>5, <1>6 DEF GInv

\* An answer that is on its way makes up for what the server has changed.
LEMMA AnswerAgrees ==
    ASSUME TInv, GInv, NEW c \in Calls, NEW b, Answer(c, b),
           b \in CallRecords(created'),
           b.kind = "fetch" => b.reply = cartRows',
           \A a \in CallRecords(created') :
              a = [b EXCEPT !.at = "served"] => Reduced(CartOf(cartRows), a) = CartOf(cartRows')
    PROVE  GInv'
<1> DEFINE a == [b EXCEPT !.at = "served"]
<1>1. call' = [call EXCEPT ![c] = IF call[c].at = "sent" THEN a ELSE Free]
      /\ UNCHANGED <<shown, alone, undisturbed>> /\ call[c].at # "free"
  BY DEF Answer, cartSlice
<1>2. a \in CallRecords(created') /\ a.kind = b.kind /\ a.at = "served" /\ a.reply = b.reply
  BY DEF CallRecords
<1>3. Reduced(CartOf(cartRows), a) = CartOf(cartRows')
  BY <1>2
<1>4. /\ call[c].at = "sent" => call'[c] = a
      /\ call[c].at # "sent" => call'[c].at = "free"
      /\ \A d \in Calls \ {c} : call'[d] = call[d]
  BY <1>1 DEF TInv, CartTypes, Free
<1> HIDE DEF a
<1>5. alone \/ undisturbed => \A d \in Calls \ {c} : call[d].at = "free"
  BY <1>1 DEF GInv, OneByOne, Outstanding
<1>6. OneByOne'
  BY <1>1, <1>4, <1>5 DEF OneByOne, Outstanding
<1>7. FetchCurrent'
  BY <1>1, <1>2, <1>4, <1>5 DEF FetchCurrent
<1>8. Agreement'
  <2> SUFFICES ASSUME undisturbed' PROVE Agreement'
    BY DEF Agreement
  <2>1. undisturbed /\ call[c].at = "sent" /\ \A d \in Calls \ {c} : call[d].at = "free"
    BY <1>1, <1>5 DEF GInv, Agreement, Answer
  <2>2. shown = CartOf(cartRows)
    BY <2>1 DEF GInv, Agreement
  <2>3. Reduced(shown', call'[c]) = CartOf(cartRows') /\ call'[c].at = "served"
    BY <1>1, <1>2, <1>3, <1>4, <2>1, <2>2
  <2>4. \A d \in Calls \ {c} : call'[d].at = "free"
    BY <1>4, <2>1
  <2> QED
    BY <2>3, <2>4 DEF Agreement
<1> QED
  BY <1>6, <1>7, <1>8 DEF GInv

\* What holds of a cart nobody claims to agree.
LEMMA Disturbed == ~alone' /\ ~undisturbed' => GInv'
BY DEF GInv, OneByOne, FetchCurrent, Agreement

LEMMA GInvNext == TInv /\ GInv /\ [CartNext]_cartVars => GInv'
<1> SUFFICES ASSUME TInv, GInv, [CartNext]_cartVars PROVE GInv'
  OBVIOUS
<1>0. /\ created \in Nat /\ cartRows \in [Items -> 0 .. MaxQuantity]
      /\ call \in [Calls -> CallRecords(created)] /\ Free.at = "free"
  BY CallsTyped DEF TInv, CartTypes, Free
<1>1. ASSUME NEW c \in Calls, FetchCart(c) PROVE GInv'
  BY <1>1, DispatchAgrees DEF FetchCart
<1>2. ASSUME NEW c \in Calls, AddToCart(c) PROVE GInv'
  BY <1>2, DispatchAgrees DEF AddToCart
<1>3. ASSUME NEW c \in Calls, UpdateCartItem(c) PROVE GInv'
  BY <1>3, DispatchAgrees DEF UpdateCartItem
<1>4. ASSUME NEW c \in Calls, RemoveCartItem(c) PROVE GInv'
  BY <1>4, DispatchAgrees DEF RemoveCartItem
<1>5. ASSUME NEW c \in Calls, RemoveAllCartItems(c) PROVE GInv'
  BY <1>5, DispatchAgrees DEF RemoveAllCartItems
<1>6. TInv'
  BY TInvNext
<1>7. cartRows' \in [Items -> 0 .. MaxQuantity]
  BY <1>6 DEF TInv, CartTypes
<1>8. ASSUME NEW c \in Calls, NEW b, b \in CallRecords(created'), Answer(c, b),
             b.kind = call[c].kind, b.quantity = call[c].quantity,
             b.kind = "fetch" => b.reply = cartRows',
             \/ b.kind = "fetch" /\ b.reply = cartRows /\ cartRows' = cartRows
             \/ /\ b.kind = "add" /\ b.item \in Items /\ cartRows[b.item] = 0
                /\ cartRows' = [cartRows EXCEPT ![b.item] = b.quantity]
             \/ /\ b.kind = "update" /\ b.item \in Items /\ cartRows[b.item] > 0
                /\ cartRows' = [cartRows EXCEPT ![b.item] = b.quantity]
             \/ /\ b.kind = "remove" /\ b.item \in Items
                /\ cartRows' = [cartRows EXCEPT ![b.item] = 0]
             \/ b.kind = "removeAll" /\ cartRows' = NoRows
      PROVE  GInv'
  <2>1. ASSUME NEW a \in CallRecords(created'), a = [b EXCEPT !.at = "served"]
        PROVE  Reduced(CartOf(cartRows), a) = CartOf(cartRows')
    <3>1. a.kind = b.kind /\ a.quantity = b.quantity /\ a.item = b.item /\ a.reply = b.reply
      BY <1>8, <2>1 DEF CallRecords
    <3> QED
      BY <1>7, <1>8, <3>1, ServedAgrees
  <2> QED
    BY <1>8, <2>1, AnswerAgrees
<1>9. ASSUME NEW c \in Calls, ServeFetch(c) PROVE GInv'
  <2> DEFINE b == [call[c] EXCEPT !.reply = cartRows]
  <2>1. b \in CallRecords(created) /\ b.reply = cartRows
        /\ b.kind = "fetch" /\ b.quantity = call[c].quantity /\ call[c].kind = "fetch"
    BY <1>0, <1>9 DEF ServeFetch, CallRecords
  <2>2. Answer(c, b) /\ created' = created /\ cartRows' = cartRows
    BY <1>9 DEF ServeFetch
  <2> HIDE DEF b
  <2> QED
    BY <1>8, <2>1, <2>2
<1>10. ASSUME NEW c \in Calls, ServeAdd(c) PROVE GInv'
  <2> DEFINE b == [call[c] EXCEPT !.item = created + 1]
  <2>1. created + 1 \in Items /\ cartRows[created + 1] = 0 /\ created' = created + 1
    BY <1>0, <1>10, CartAssumption DEF ServeAdd, Items, TInv, Created
  <2>2. created + 1 \in 0 .. created' /\ call[c] \in CallRecords(created)
    BY <1>0, <2>1
  <2>3. b \in CallRecords(created') /\ b.item = created + 1 /\ b.quantity = call[c].quantity
        /\ b.kind = "add" /\ call[c].kind = "add"
    BY <1>0, <1>10, <2>1, <2>2 DEF ServeAdd, CallRecords
  <2>4. Answer(c, b) /\ cartRows' = [cartRows EXCEPT ![created + 1] = call[c].quantity]
    BY <1>10 DEF ServeAdd
  <2> HIDE DEF b
  <2> QED
    BY <1>8, <2>1, <2>3, <2>4
<1>11. ASSUME NEW c \in Calls, ServeUpdate(c) PROVE GInv'
  BY <1>0, <1>8, <1>11, CallFacts DEF ServeUpdate
<1>12. ASSUME NEW c \in Calls, ServeRemove(c) PROVE GInv'
  BY <1>0, <1>8, <1>12, CallFacts DEF ServeRemove
<1>13. ASSUME NEW c \in Calls, ServeRemoveAll(c) PROVE GInv'
  BY <1>0, <1>8, <1>13 DEF ServeRemoveAll
<1>14. ASSUME NEW c \in Calls, call' = [call EXCEPT ![c] = Free], alone \/ undisturbed,
              call[c].at # "free"
       PROVE  \A d \in Calls : call'[d].at = "free"
  <2>1. \A d \in Calls \ {c} : call[d].at = "free"
    BY <1>14 DEF GInv, OneByOne, Outstanding
  <2> QED
    BY <1>0, <1>14, <2>1
<1>15. ASSUME \A d \in Calls : call'[d].at = "free", undisturbed' => shown' = CartOf(cartRows')
       PROVE  GInv'
  BY <1>15 DEF GInv, OneByOne, Outstanding, FetchCurrent, Agreement
<1>16. ASSUME NEW c \in Calls, Fulfilled(c) PROVE GInv'
  <2>1. alone' = alone /\ cartRows' = cartRows /\ shown' = Reduced(shown, call[c])
        /\ undisturbed' = (undisturbed \/ (call[c].kind = "fetch" /\ alone))
        /\ call[c].at = "served" /\ call' = [call EXCEPT ![c] = Free]
    BY <1>16 DEF Fulfilled, Settles
  <2>2. CASE ~(alone \/ undisturbed)
    BY <2>1, <2>2, Disturbed
  <2>3. CASE alone \/ undisturbed
    <3>1. undisturbed => shown' = CartOf(cartRows')
      BY <2>1 DEF GInv, Agreement
    <3>2. call[c].kind = "fetch" /\ alone => shown' = CartOf(cartRows')
      BY <2>1, ReducedBy DEF GInv, FetchCurrent
    <3> QED
      BY <1>14, <1>15, <2>1, <2>3, <3>1, <3>2
  <2> QED
    BY <2>2, <2>3
<1>17. ASSUME NEW c \in Calls, Rejected(c) PROVE GInv'
  <2>1. UNCHANGED <<alone, cartRows, shown>> /\ call[c].at \in {"sent", "served"}
    BY <1>17 DEF Rejected, Settles
  <2>2. CASE call' = [call EXCEPT ![c] = Free] /\ undisturbed' = (undisturbed /\ call[c].at = "sent")
    <3>1. CASE ~(alone \/ undisturbed)
      BY <2>1, <2>2, <3>1, Disturbed
    <3>2. CASE alone \/ undisturbed
      <4>1. undisturbed' => shown = CartOf(cartRows)
        <5> SUFFICES ASSUME undisturbed, call[c].at = "sent" PROVE shown = CartOf(cartRows)
          BY <2>2
        <5>1. \A d \in Calls : call[d].at # "served"
          BY DEF GInv, OneByOne, Outstanding
        <5> QED
          BY <5>1 DEF GInv, Agreement
      <4> QED
        BY <1>14, <1>15, <2>1, <2>2, <3>2, <4>1
    <3> QED
      BY <3>1, <3>2
  <2>3. CASE call[c].at = "sent" /\ call' = [call EXCEPT ![c].at = "gone"] /\ undisturbed' = FALSE
    <3>1. \A d \in Calls : /\ call'[d].at # "free" => call[d].at # "free"
                           /\ call'[d].at = "served" => call'[d] = call[d]
      BY <1>0, <2>3 DEF CallRecords
    <3> QED
      BY <2>1, <2>3, <3>1 DEF GInv, OneByOne, FetchCurrent, Agreement, Outstanding
  <2> QED
    BY <1>17, <2>2, <2>3 DEF Rejected
<1>18. ASSUME NEW c \in Calls, Lost(c) PROVE GInv'
  <2>1. UNCHANGED <<alone, undisturbed, cartRows, shown>> /\ call[c].at = "gone"
        /\ call' = [call EXCEPT ![c] = Free]
    BY <1>18 DEF Lost, cartSlice, cartHistory
  <2>2. ~undisturbed
    BY <2>1 DEF GInv, Agreement
  <2> QED
    BY <1>14, <1>15, <2>1, <2>2, Disturbed
<1>19. ASSUME NEW o \in Operations, QueueClear(o) PROVE GInv'
  BY <1>19 DEF QueueClear, cartSlice, GInv, OneByOne, FetchCurrent, Agreement, Outstanding
<1>20. ASSUME NEW o \in Operations, ReduceClear(o) PROVE GInv'
  BY <1>20, Disturbed DEF ReduceClear
<1>21. CASE ClearUnqueued
  BY <1>21, Disturbed DEF ClearUnqueued
<1>22. ASSUME NEW o \in Operations, DeliverClear(o) PROVE GInv'
  BY <1>22, Disturbed DEF DeliverClear, Emptied
<1>23. ASSUME NEW o \in Operations, ReleaseClear(o) \/ GiveUpClear(o) \/ ForgetClear(o)
       PROVE  GInv'
  BY <1>23 DEF ReleaseClear, GiveUpClear, ForgetClear, cartSlice, cartHistory, GInv, OneByOne,
     FetchCurrent, Agreement, Outstanding
<1>26. ASSUME NEW o \in Operations, DeliverLateClear(o) PROVE GInv'
  BY <1>26, Disturbed DEF DeliverLateClear, Emptied
<1>27. CASE PersistCart
  BY <1>27 DEF PersistCart, cartSlice, cartHistory, GInv, OneByOne, FetchCurrent, Agreement,
     Outstanding
<1>24. CASE Restart
  BY <1>24, Disturbed DEF Restart
<1>25. CASE UNCHANGED cartVars
  BY <1>25 DEF cartVars, cartSlice, cartHistory, GInv, OneByOne, FetchCurrent, Agreement,
     Outstanding
<1> QED
  BY <1>1, <1>2, <1>3, <1>4, <1>5, <1>9, <1>10, <1>11, <1>12, <1>13, <1>16, <1>17, <1>18,
     <1>19, <1>20, <1>21, <1>22, <1>23, <1>24, <1>25, <1>26, <1>27 DEF CartNext

-----------------------------------------------------------------------------
(* The cart: theorems. *)

LEMMA CInvHolds == CartSpec => []CInv
<1>1. CInv = (TInv /\ RInv /\ GInv)
  BY DEF CInv, TInv, RInv, GInv
<1>2. CInv /\ [CartNext]_cartVars => CInv'
  BY <1>1, TInvNext, RInvNext, GInvNext DEF CInv, TInv, RInv, GInv
<1> QED
  BY <1>2, CInvInit, PTL DEF CartSpec

\* Every state of the cart is well-typed, for any number of thunks and rows.
THEOREM CartTyped == CartSpec => []CartTypes
<1>1. CInv => CartTypes
  BY DEF CInv
<1> QED
  BY <1>1, CInvHolds, PTL

\* Calls one by one, all answered, keep the screen and the server in agreement, for
\* any number of rows and quantities.
THEOREM ScreenAgrees == CartSpec => []SequentialAgreement
<1>1. CInv => SequentialAgreement
  BY DEF CInv, Agreement, SequentialAgreement, Outstanding
<1> QED
  BY <1>1, CInvHolds, PTL

\* A row created when no deletion was on its way, held, given up or called for, stays,
\* whatever is late, lost or sent twice.
THEOREM RowsStay == CartSpec => []SafeRowsStay
<1>1. CInv => SafeRowsStay
  BY DEF CInv
<1> QED
  BY <1>1, CInvHolds, PTL
-----------------------------------------------------------------------------

(* Server, cart and session together: a behaviour of the composition is one of  *)
(* each part, so every theorem about a part holds of the composition.           *)

\* The server with its outbox, the cart and the session each keep to their specification.
THEOREM CommandsAreAll == CommandsSpec => DeliverySpec /\ CartSpec /\ SessionSpec
<1>1. CommandsInit => DeliveryInit /\ CartInit /\ SessionInit
  BY DEF CommandsInit
<1>2. [CommandsNext]_commandsVars =>
          [DeliveryNext]_deliveryVars /\ [CartNext]_cartVars /\ [SessionNext]_sessionVars
  BY DEF CommandsNext, DeliveryNext, commandsVars, deliveryVars
<1>3. QED BY <1>1, <1>2, PTL DEF CommandsSpec, DeliverySpec, CartSpec, SessionSpec

\* The types of every part, in every state of the composition.
THEOREM CommandsTyped == CommandsSpec => []CommandTypes
<1>1. DeliveryTypes /\ CartTypes /\ SessionTypes => CommandTypes
  BY DEF CommandTypes
<1>2. QED BY <1>1, CommandsAreAll, DeliveryTyped, CartTyped, SessionTyped, PTL
=============================================================================
