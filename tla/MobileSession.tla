--------------------------- MODULE MobileSession ----------------------------
(***************************************************************************)
(* Signing in and out of the mobile app: the thunks of authSlice, which    *)
(* write the storage of the device key by key, the slice they update,      *)
(* which redux-persist keeps across restarts, loading included, and the    *)
(* start of the app, which only looks for a stored token.  redux-persist   *)
(* writes the slice to the storage some time after the reducer has run: a  *)
(* process that ends in between leaves an older slice there.               *)
(***************************************************************************)
EXTENDS Naturals, FiniteSets

CONSTANTS
    Attempts,        \* logins that can be under way together
    MaxStorageFaults \* bound: writes the storage of the device refuses

ASSUME SessionAssumption == MaxStorageFaults \in Nat

\* The keys in the order login writes and logout removes them.
StoredKeys == {"token", "refreshToken", "email", "password"}

NextKey == [asking |-> "token", token |-> "refreshToken", refreshToken |-> "email",
            email |-> "password", password |-> "end"]

VARIABLES
    keys,            \* the keys that have a value in AsyncStorage and SecureStore
    isAuthenticated, \* the slice
    authLoading,
    hasUser,         \* whether the slice holds a profile
    started,         \* RootNavigator has looked for the token
    signIn,          \* per login: asking the server, or the key it writes next
    byBiometrics,    \* logins dispatched by biometricLogin
    leaving,         \* logout: the key it removes next, or idle
    profile,         \* fetchUserProfile is under way
    saved,           \* the slice in the storage
    storageFaults,
    unbacked,        \* history: something set or kept isAuthenticated without a token
    crossed,         \* history: a logout and a login were under way together
    leftCleanly,     \* history: the last thing done was a whole logout
    restoredLoading, \* history: authLoading was restored by a restart
    revived          \* history: a restart restored what a sign-out had taken away

authSlice == <<isAuthenticated, authLoading, hasUser>>
authHistory == <<unbacked, crossed, leftCleanly, restoredLoading, revived>>
sessionVars == <<keys, authSlice, started, signIn, byBiometrics, leaving, profile, saved,
                 storageFaults, authHistory>>

Slice == [isAuthenticated |-> isAuthenticated, authLoading |-> authLoading, hasUser |-> hasUser]

SessionInit ==
    /\ keys = {}
    /\ isAuthenticated = FALSE
    /\ authLoading = FALSE
    /\ hasUser = FALSE
    /\ started = FALSE
    /\ signIn = [a \in Attempts |-> "idle"]
    /\ byBiometrics = {}
    /\ leaving = "idle"
    /\ profile = FALSE
    /\ saved = Slice
    /\ storageFaults = 0
    /\ unbacked = FALSE
    /\ crossed = FALSE
    /\ leftCleanly = FALSE
    /\ restoredLoading = FALSE
    /\ revived = FALSE

OpenAttempts == {a \in Attempts : signIn[a] # "idle"}

StorageFault == storageFaults < MaxStorageFaults /\ storageFaults' = storageFaults + 1

-----------------------------------------------------------------------------
(* Login. *)

\* The pending reducers; the login screen is shown while nobody is signed in.
Begin(a) ==
    /\ started
    /\ ~isAuthenticated
    /\ signIn[a] = "idle"
    /\ signIn' = [signIn EXCEPT ![a] = "asking"]
    /\ authLoading' = TRUE
    /\ restoredLoading' = FALSE
    /\ leftCleanly' = FALSE
    /\ revived' = FALSE
    /\ crossed' = (crossed \/ leaving # "idle")
    /\ UNCHANGED <<keys, isAuthenticated, hasUser, started, leaving, profile, saved,
                   storageFaults, unbacked>>

\* The button is disabled while the slice is loading.
LoginPressed(a) ==
    /\ ~authLoading
    /\ byBiometrics' = byBiometrics \ {a}
    /\ Begin(a)

\* biometricLogin finds both credentials and dispatches login.
BiometricLogin(a) ==
    /\ {"email", "password"} \subseteq keys
    /\ byBiometrics' = byBiometrics \union {a}
    /\ Begin(a)

\* It finds none: rejected at once.
BiometricRefused ==
    /\ started
    /\ ~isAuthenticated
    /\ ~({"email", "password"} \subseteq keys)
    /\ authLoading' = FALSE
    /\ restoredLoading' = FALSE
    /\ UNCHANGED <<keys, isAuthenticated, hasUser, started, signIn, byBiometrics, leaving,
                   profile, saved, storageFaults, unbacked, crossed, leftCleanly, revived>>

LoginAccepted(a) ==
    /\ signIn[a] = "asking"
    /\ signIn' = [signIn EXCEPT ![a] = "token"]
    /\ UNCHANGED <<keys, authSlice, started, byBiometrics, leaving, profile, saved,
                   storageFaults, authHistory>>

\* The last key written, login is fulfilled.
StoreKey(a) ==
    /\ signIn[a] \in StoredKeys
    /\ keys' = keys \union {signIn[a]}
    /\ IF NextKey[signIn[a]] = "end"
       THEN /\ signIn' = [signIn EXCEPT ![a] = "idle"]
            /\ authLoading' = FALSE
            /\ isAuthenticated' = TRUE
            /\ restoredLoading' = FALSE
            /\ unbacked' = FALSE
       ELSE /\ signIn' = [signIn EXCEPT ![a] = NextKey[signIn[a]]]
            /\ UNCHANGED <<authLoading, isAuthenticated, restoredLoading, unbacked>>
    /\ UNCHANGED <<hasUser, started, byBiometrics, leaving, profile, saved, storageFaults,
                   crossed, leftCleanly, revived>>

\* Mutant of LoginRejected: the flag stays up.
LoginRejectedLoading(a) ==
    /\ \/ signIn[a] = "asking" /\ UNCHANGED storageFaults
       \/ signIn[a] \in StoredKeys /\ StorageFault
    /\ signIn' = [signIn EXCEPT ![a] = "idle"]
    /\ isAuthenticated' = (isAuthenticated \/ a \in byBiometrics)
    /\ unbacked' = (unbacked \/ a \in byBiometrics)
    /\ UNCHANGED <<keys, authLoading, hasUser, started, byBiometrics, leaving, profile, saved,
                   crossed, leftCleanly, restoredLoading, revived>>

\* Refused, or unanswered, or a write fails after others succeeded.  Dispatching
\* login never raises, so the biometricLogin around it is fulfilled all the same
\* and signs the user in.
LoginRejected(a) ==
    /\ \/ signIn[a] = "asking" /\ UNCHANGED storageFaults
       \/ signIn[a] \in StoredKeys /\ StorageFault
    /\ signIn' = [signIn EXCEPT ![a] = "idle"]
    /\ authLoading' = FALSE
    /\ restoredLoading' = FALSE
    /\ isAuthenticated' = (isAuthenticated \/ a \in byBiometrics)
    /\ unbacked' = (unbacked \/ a \in byBiometrics)
    /\ UNCHANGED <<keys, hasUser, started, byBiometrics, leaving, profile, saved, crossed,
                   leftCleanly, revived>>

-----------------------------------------------------------------------------
(* Logout and the profile. *)

Logout ==
    /\ started
    /\ isAuthenticated
    /\ leaving = "idle"
    /\ leaving' = "token"
    /\ crossed' = (OpenAttempts # {})
    /\ UNCHANGED <<keys, authSlice, started, signIn, byBiometrics, profile, saved,
                   storageFaults, unbacked, leftCleanly, restoredLoading, revived>>

\* Mutant of RemoveKey: the flag is not taken down.
RemoveKeyFlagUp ==
    /\ leaving \in StoredKeys
    /\ keys' = keys \ {leaving}
    /\ IF NextKey[leaving] = "end"
       THEN /\ leaving' = "idle"
            /\ hasUser' = FALSE
            /\ leftCleanly' = (~crossed /\ ~profile)
            /\ unbacked' = FALSE
            /\ revived' = FALSE
            /\ UNCHANGED isAuthenticated
       ELSE /\ leaving' = NextKey[leaving]
            /\ UNCHANGED <<isAuthenticated, hasUser, leftCleanly, unbacked, revived>>
    /\ UNCHANGED <<authLoading, started, signIn, byBiometrics, profile, saved, storageFaults,
                   crossed, restoredLoading>>

\* Mutant of RemoveKey: logout ends when the tokens are removed.
RemoveTokensOnly ==
    /\ leaving \in StoredKeys
    /\ keys' = keys \ {leaving}
    /\ IF leaving = "refreshToken"
       THEN /\ leaving' = "idle"
            /\ isAuthenticated' = FALSE
            /\ hasUser' = FALSE
            /\ leftCleanly' = (~crossed /\ ~profile)
            /\ unbacked' = FALSE
            /\ revived' = FALSE
       ELSE /\ leaving' = NextKey[leaving]
            /\ UNCHANGED <<isAuthenticated, hasUser, leftCleanly, unbacked, revived>>
    /\ UNCHANGED <<authLoading, started, signIn, byBiometrics, profile, saved, storageFaults,
                   crossed, restoredLoading>>

\* The last key removed, logout is fulfilled.
RemoveKey ==
    /\ leaving \in StoredKeys
    /\ keys' = keys \ {leaving}
    /\ IF NextKey[leaving] = "end"
       THEN /\ leaving' = "idle"
            /\ isAuthenticated' = FALSE
            /\ hasUser' = FALSE
            /\ leftCleanly' = (~crossed /\ ~profile)
            /\ unbacked' = FALSE
            /\ revived' = FALSE
       ELSE /\ leaving' = NextKey[leaving]
            /\ UNCHANGED <<isAuthenticated, hasUser, leftCleanly, unbacked, revived>>
    /\ UNCHANGED <<authLoading, started, signIn, byBiometrics, profile, saved, storageFaults,
                   crossed, restoredLoading>>

\* Nothing handles logout.rejected: the app stays signed in, perhaps without a token.
LogoutFails ==
    /\ leaving \in StoredKeys
    /\ StorageFault
    /\ leaving' = "idle"
    /\ unbacked' = TRUE
    /\ UNCHANGED <<keys, authSlice, started, signIn, byBiometrics, profile, saved, crossed,
                   leftCleanly, restoredLoading, revived>>

\* ProfileScreen is opened.
FetchUserProfile ==
    /\ started
    /\ isAuthenticated
    /\ ~profile
    /\ profile' = TRUE
    /\ authLoading' = TRUE
    /\ restoredLoading' = FALSE
    /\ UNCHANGED <<keys, isAuthenticated, hasUser, started, signIn, byBiometrics, leaving,
                   saved, storageFaults, unbacked, crossed, leftCleanly, revived>>

\* The profile arrives whether or not its user is still signed in.
ProfileEnds ==
    /\ profile
    /\ profile' = FALSE
    /\ authLoading' = FALSE
    /\ hasUser' \in {hasUser, TRUE}
    /\ UNCHANGED <<keys, isAuthenticated, started, signIn, byBiometrics, leaving, saved,
                   storageFaults, authHistory>>

-----------------------------------------------------------------------------
(* The start of the app. *)

\* PersistGate has restored the slice before checkToken runs.
CheckToken ==
    /\ ~started
    /\ started' = TRUE
    /\ isAuthenticated' = (isAuthenticated \/ "token" \in keys)
    /\ UNCHANGED <<keys, authLoading, hasUser, signIn, byBiometrics, leaving, profile, saved,
                   storageFaults, authHistory>>

\* redux-persist has written the slice as the reducers left it.
PersistSlice ==
    /\ saved # Slice
    /\ saved' = Slice
    /\ UNCHANGED <<keys, authSlice, started, signIn, byBiometrics, leaving, profile,
                   storageFaults, authHistory>>

\* Killed and started again: the slice is what was written last.
RestartApp ==
    /\ started' = FALSE
    /\ signIn' = [a \in Attempts |-> "idle"]
    /\ leaving' = "idle"
    /\ profile' = FALSE
    /\ isAuthenticated' = saved.isAuthenticated
    /\ authLoading' = saved.authLoading
    /\ hasUser' = saved.hasUser
    /\ unbacked' = (unbacked \/ leaving # "idle" \/ (saved.isAuthenticated /\ ~isAuthenticated))
    /\ restoredLoading' = saved.authLoading
    /\ revived' =
          \/ revived
          \/ leftCleanly /\ saved.isAuthenticated /\ ~isAuthenticated
          \/ leftCleanly /\ saved.hasUser /\ ~hasUser
    /\ UNCHANGED <<keys, byBiometrics, saved, storageFaults, crossed, leftCleanly>>

-----------------------------------------------------------------------------
SessionNext ==
    \/ \E a \in Attempts :
          \/ LoginPressed(a) \/ BiometricLogin(a)
          \/ LoginAccepted(a) \/ StoreKey(a) \/ LoginRejected(a)
    \/ BiometricRefused
    \/ Logout \/ RemoveKey \/ LogoutFails
    \/ FetchUserProfile \/ ProfileEnds
    \/ CheckToken
    \/ PersistSlice
    \/ RestartApp

SessionSpec == SessionInit /\ [][SessionNext]_sessionVars

-----------------------------------------------------------------------------
(* Properties. *)

SessionTypes ==
    /\ keys \subseteq StoredKeys
    /\ isAuthenticated \in BOOLEAN
    /\ authLoading \in BOOLEAN
    /\ hasUser \in BOOLEAN
    /\ signIn \in [Attempts -> {"idle", "asking"} \union StoredKeys]
    /\ byBiometrics \subseteq Attempts
    /\ leaving \in {"idle"} \union StoredKeys
    /\ saved \in [isAuthenticated : BOOLEAN, authLoading : BOOLEAN, hasUser : BOOLEAN]
    /\ storageFaults \in 0 .. MaxStorageFaults

\* The app shows its screens without a stored token only while it signs out, after
\* a biometric login whose login was rejected, after a sign-out that did not reach
\* its end, when a login and a logout crossed, or after a kill that came before the
\* signed-out slice was written to the storage.
AuthenticatedHasToken ==
    isAuthenticated /\ "token" \notin keys => leaving # "idle" \/ unbacked \/ crossed

\* A sign-out that reached its end with nothing else under way lasts: no token and no
\* credentials stay on the device, whatever is killed afterwards, and no restart finds
\* any.  The screens and the profile come back only from a slice that was written before
\* the sign-out and not since.
SignOutLasts ==
    leftCleanly => keys = {} /\ (revived \/ (~isAuthenticated /\ ~hasUser))

\* The login button, disabled while the slice is loading, is disabled because
\* something is awaited, or because the app was killed while it was.
DisabledExplained ==
    authLoading => OpenAttempts # {} \/ profile \/ restoredLoading
=============================================================================
