---------------------------- MODULE ProductLists ----------------------------
(***************************************************************************)
(* The list of products on its way to the screens that show it: the table, *)
(* the cache of query answers that all replicas share in Redis, and the    *)
(* query cache of each browser, which the hooks of useProducts fill and,   *)
(* after a change of their own, invalidate.                                *)
(*                                                                         *)
(* A list is the number of changes it contains.  Time is the age of the    *)
(* cached entry.  The output cache is left out: no policy has the names    *)
(* the controller asks for, so it holds nothing and eviction finds nothing.*)
(***************************************************************************)
EXTENDS Naturals, FiniteSets

CONSTANTS
    Browsers,      \* browsers that show the list and change products
    Fetches,       \* bound: GETs the server has under way together
    NoFetch,       \* no GET
    CacheDuration, \* lifetime of a cached answer
    MaxChanges     \* bound: changes committed

ASSUME ListsAssumption ==
    /\ NoFetch \notin Fetches
    /\ CacheDuration \in Nat \ {0}
    /\ MaxChanges \in Nat \ {0}

VARIABLES
    changes,      \* the table: how many changes it holds
    cached,       \* Redis: the list cached, Nothing without one
    age,          \* of that entry
    fetch,        \* per GET: where it is and the list it carries
    awaited,      \* per browser: the GET whose answer its query takes, or none
    shown,        \* per browser: the list its query holds
    invalidated,  \* per browser: the query is marked stale by a change
    mutation,     \* per browser: its change
    acknowledged, \* history, per browser: changes it knows to be committed
    excused       \* history, per browser: its list is older for a reason, see OwnChangesShown

queryCache == <<awaited, shown, invalidated>>
serverCache == <<cached, age>>
listsHistory == <<acknowledged, excused>>
listsVars == <<changes, serverCache, fetch, queryCache, mutation, listsHistory>>

Nothing == MaxChanges + 1   \* no list

Lists == 0 .. MaxChanges

Free == [at |-> "free", list |-> Nothing, knows |-> 0, fromCache |-> FALSE]

ListsInit ==
    /\ changes = 0
    /\ cached = Nothing
    /\ age = 0
    /\ fetch = [f \in Fetches |-> Free]
    /\ awaited = [b \in Browsers |-> NoFetch]
    /\ shown = [b \in Browsers |-> Nothing]
    /\ invalidated = [b \in Browsers |-> FALSE]
    /\ mutation = [b \in Browsers |-> "none"]
    /\ acknowledged = [b \in Browsers |-> 0]
    /\ excused = [b \in Browsers |-> FALSE]

-----------------------------------------------------------------------------
(* GET /products: the cache-aside of CachingBehaviour. *)

\* A browser asks; what it knows of its own changes goes with the GET.
SendGet(b, f) ==
    /\ fetch[f].at = "free"
    /\ fetch' = [fetch EXCEPT ![f] = [Free EXCEPT !.at = "sent", !.knows = acknowledged[b]]]
    /\ awaited' = [awaited EXCEPT ![b] = f]

\* Mutant of CacheHit: the lifetime starts again at every hit.
CacheHitSliding(f) ==
    /\ fetch[f].at = "sent"
    /\ cached # Nothing
    /\ fetch' = [fetch EXCEPT ![f].at = "answered", ![f].list = cached, ![f].fromCache = TRUE]
    /\ age' = 0
    /\ UNCHANGED <<changes, cached, queryCache, mutation, listsHistory>>

CacheHit(f) ==
    /\ fetch[f].at = "sent"
    /\ cached # Nothing
    /\ fetch' = [fetch EXCEPT ![f].at = "answered", ![f].list = cached, ![f].fromCache = TRUE]
    /\ UNCHANGED <<changes, serverCache, queryCache, mutation, listsHistory>>

\* Nothing cached: the handler reads the table.
CacheMiss(f) ==
    /\ fetch[f].at = "sent"
    /\ cached = Nothing
    /\ fetch' = [fetch EXCEPT ![f].at = "read", ![f].list = changes]
    /\ UNCHANGED <<changes, serverCache, queryCache, mutation, listsHistory>>

\* SetAsync, whatever has been committed or cached since the read.
Store(f) ==
    /\ fetch[f].at = "read"
    /\ cached' = fetch[f].list
    /\ age' = 0
    /\ fetch' = [fetch EXCEPT ![f].at = "answered"]
    /\ UNCHANGED <<changes, queryCache, mutation, listsHistory>>

\* The entry ages and, its absolute expiration reached, is gone.
Tick ==
    /\ cached # Nothing
    /\ IF age + 1 < CacheDuration
       THEN age' = age + 1 /\ UNCHANGED cached
       ELSE cached' = Nothing /\ age' = 0
    /\ UNCHANGED <<changes, fetch, queryCache, mutation, listsHistory>>

-----------------------------------------------------------------------------
(* useProducts: the query of a browser. *)

\* The screen is opened, the window focused, the list reloaded: a query that is
\* already fetching does not fetch again.
Refetch(b, f) ==
    /\ awaited[b] = NoFetch
    /\ SendGet(b, f)
    /\ UNCHANGED <<changes, serverCache, shown, invalidated, mutation, listsHistory>>

\* Why the list that f brings may miss what b changed: the server had it cached, or it
\* is b's first, which a change made meanwhile does not replace.
Excuses(b, f) ==
    IF fetch[f].knows = acknowledged[b] THEN fetch[f].fromCache ELSE shown[b] = Nothing

Settle(b) ==
    LET f == awaited[b]
    IN /\ f # NoFetch
       /\ fetch[f].at = "answered"
       /\ shown' = [shown EXCEPT ![b] = fetch[f].list]
       /\ invalidated' = [invalidated EXCEPT ![b] = FALSE]
       /\ awaited' = [awaited EXCEPT ![b] = NoFetch]
       /\ excused' = [excused EXCEPT ![b] = Excuses(b, f)]
       /\ fetch' = [fetch EXCEPT ![f] = Free]
       /\ UNCHANGED <<changes, serverCache, mutation, acknowledged>>

\* The cache or the database raises; or the answer is lost, and the server goes on.
FetchFails(b) ==
    LET f == awaited[b]
    IN /\ f # NoFetch
       /\ awaited' = [awaited EXCEPT ![b] = NoFetch]
       /\ fetch' \in {fetch, [fetch EXCEPT ![f] = Free]}
       /\ UNCHANGED <<changes, serverCache, shown, invalidated, mutation, listsHistory>>

\* The answer of a GET that a later one has replaced is dropped.
Drop(f) ==
    /\ fetch[f].at = "answered"
    /\ \A b \in Browsers : awaited[b] # f
    /\ fetch' = [fetch EXCEPT ![f] = Free]
    /\ UNCHANGED <<changes, serverCache, queryCache, mutation, listsHistory>>

-----------------------------------------------------------------------------
(* useCreateProduct, useUpdateProduct, useDeleteProduct and their commands. *)

Mutate(b) ==
    /\ mutation[b] = "none"
    /\ mutation' = [mutation EXCEPT ![b] = "sent"]
    /\ UNCHANGED <<changes, serverCache, fetch, queryCache, listsHistory>>

\* The command is committed; the entry in Redis stays.
Commit(b) ==
    /\ mutation[b] = "sent"
    /\ changes < MaxChanges
    /\ changes' = changes + 1
    /\ mutation' = [mutation EXCEPT ![b] = "committed"]
    /\ UNCHANGED <<serverCache, fetch, queryCache, listsHistory>>

\* Mutant of MutationSucceeds: a GET under way is taken for the new one.
MutationSucceedsKeeping(b) ==
    /\ mutation[b] = "committed"
    /\ mutation' = [mutation EXCEPT ![b] = "none"]
    /\ acknowledged' = [acknowledged EXCEPT ![b] = changes]
    /\ excused' = [excused EXCEPT ![b] = FALSE]
    /\ invalidated' = [invalidated EXCEPT ![b] = TRUE]
    /\ IF awaited[b] = NoFetch
       THEN \E f \in Fetches : SendGet(b, f)
       ELSE UNCHANGED <<fetch, awaited>>
    /\ UNCHANGED <<changes, serverCache, shown>>

\* onSuccess: the list is marked stale and fetched again; a GET under way is cancelled,
\* though not on the server, if the query has a list already, and otherwise it stands.
MutationSucceeds(b) ==
    /\ mutation[b] = "committed"
    /\ mutation' = [mutation EXCEPT ![b] = "none"]
    /\ acknowledged' = [acknowledged EXCEPT ![b] = changes]
    /\ excused' = [excused EXCEPT ![b] = FALSE]
    /\ invalidated' = [invalidated EXCEPT ![b] = TRUE]
    /\ IF awaited[b] # NoFetch /\ shown[b] = Nothing
       THEN UNCHANGED <<fetch, awaited>>
       ELSE \E f \in Fetches :
               /\ fetch[f].at = "free"
               /\ fetch' = [fetch EXCEPT
                              ![f] = [Free EXCEPT !.at = "sent", !.knows = changes]]
               /\ awaited' = [awaited EXCEPT ![b] = f]
    /\ UNCHANGED <<changes, serverCache, shown>>

\* onError: refused, or committed without an answer; nothing is invalidated.
MutationFails(b) ==
    /\ mutation[b] \in {"sent", "committed"}
    /\ mutation' = [mutation EXCEPT ![b] = "none"]
    /\ UNCHANGED <<changes, serverCache, fetch, queryCache, listsHistory>>

-----------------------------------------------------------------------------
ListsNext ==
    \/ \E b \in Browsers :
          \/ \E f \in Fetches : Refetch(b, f)
          \/ Settle(b) \/ FetchFails(b)
          \/ Mutate(b) \/ Commit(b) \/ MutationSucceeds(b) \/ MutationFails(b)
    \/ \E f \in Fetches : CacheHit(f) \/ CacheMiss(f) \/ Store(f) \/ Drop(f)
    \/ Tick

ListsSpec == ListsInit /\ [][ListsNext]_listsVars

\* Time passes.
ListsFairness == WF_listsVars(Tick)

ListsFairSpec == ListsSpec /\ ListsFairness

-----------------------------------------------------------------------------
(* Properties. *)

ListsTypes ==
    /\ changes \in Lists
    /\ cached \in Lists \union {Nothing}
    /\ age \in 0 .. CacheDuration - 1
    /\ fetch \in [Fetches -> [at : {"free", "sent", "read", "answered"},
                              list : Lists \union {Nothing},
                              knows : Lists,
                              fromCache : BOOLEAN]]
    /\ \A f \in Fetches : fetch[f].list \in Lists <=> fetch[f].at \in {"read", "answered"}
    /\ awaited \in [Browsers -> Fetches \union {NoFetch}]
    /\ shown \in [Browsers -> Lists \union {Nothing}]
    /\ invalidated \in [Browsers -> BOOLEAN]
    /\ mutation \in [Browsers -> {"none", "sent", "committed"}]
    /\ acknowledged \in [Browsers -> 0 .. changes]
    /\ excused \in [Browsers -> BOOLEAN]

\* Whoever was told that a change of its own succeeded sees it in every list that
\* is not marked stale, in whatever order the answers of its GETs arrive, unless the
\* server answered a later GET from an older entry of its cache, or the list is the
\* first one the screen ever got, asked for before that change.
OwnChangesShown ==
    \A b \in Browsers :
        shown[b] < acknowledged[b] => invalidated[b] \/ excused[b]

\* A list that misses a change is not cached for ever, however often it is asked
\* for, and even if it was stored after the change.
StaleListsLeave == cached < changes ~> ~(cached < changes)
=============================================================================
