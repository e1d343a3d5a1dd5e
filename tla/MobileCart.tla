----------------------------- MODULE MobileCart -----------------------------
(***************************************************************************)
(* The cart of the mobile app: the Redux slice with its thunks, the copy   *)
(* redux-persist keeps of it, the table of carts on the server, and the    *)
(* clear of a finished order, which goes through the offline queue.  The   *)
(* queue is taken by its contract; every operation in it is a deleteAll.   *)
(* redux-persist writes its copy some time after the reducer has run.      *)
(*                                                                         *)
(* A cart is, per row of the server, the quantities of the entries that    *)
(* have its id, in the order they came; the order among ids is left out,   *)
(* and a cart of null is an empty one.  The server numbers its rows in the *)
(* order of creation.  One device uses the table: its rows have no owner   *)
(* that anything looks at.                                                 *)
(***************************************************************************)
EXTENDS Naturals, Sequences, QueueContract

CONSTANTS
    Calls,        \* thunks that can be under way together
    MaxItems,     \* bound: rows the server creates
    MaxQuantity,  \* bound: of one entry
    MaxSends      \* bound: requests sent for one clear

ASSUME CartAssumption ==
    MaxItems \in Nat /\ MaxQuantity \in Nat \ {0} /\ MaxSends \in Nat

VARIABLES
    cartRows,     \* the server's table: the quantity of each row, 0 without one
    created,      \* rows created so far
    shown,        \* the slice's cart
    loading,      \* the slice's loading
    savedCart,    \* the slice in the storage of the device
    call,         \* per thunk: what it asks and where it is
    clearing,     \* clearCart actions in the middleware, row inserted
    alone,        \* history: the call under way has met no other call and no clear
    undisturbed,  \* history: since a fetch, calls came one by one and were answered
    safe          \* history: rows created when no deletion was on its way

cartSlice == <<shown, loading>>
cartHistory == <<alone, undisturbed, safe>>
cartVars == <<cartRows, created, cartSlice, savedCart, call, clearing, cartHistory, contractVars>>

CartSlice == [cart |-> shown, loading |-> loading]

Items == 1 .. MaxItems

Quantities == 1 .. MaxQuantity

NoRows == [i \in Items |-> 0]

\* The cart that shows the rows given, which is what GET /carts returns.
CartOf(rows) == [i \in Items |-> IF rows[i] > 0 THEN <<rows[i]>> ELSE <<>>]

\* A call is "gone" when its client no longer waits and the server may still serve it.
Free == [kind |-> "none", at |-> "free", item |-> 0, quantity |-> 0, reply |-> NoRows]

\* The thunks whose reducers touch loading.
Loads == {"fetch", "add", "removeAll"}

Outstanding == {c \in Calls : call[c].at # "free"}

CartInit ==
    /\ cartRows = NoRows
    /\ created = 0
    /\ shown = CartOf(NoRows)
    /\ loading = FALSE
    /\ savedCart = CartSlice
    /\ call = [c \in Calls |-> Free]
    /\ clearing = {}
    /\ alone = FALSE
    /\ undisturbed = FALSE
    /\ safe = {}
    /\ ContractInit

-----------------------------------------------------------------------------
(* Dispatching: the pending reducers. *)

Dispatch(c, kind, i, q) ==
    /\ call[c].at = "free"
    /\ call' = [call EXCEPT ![c] =
                  [Free EXCEPT !.kind = kind, !.at = "sent", !.item = i, !.quantity = q]]
    /\ loading' = (loading \/ kind \in Loads)
    /\ alone' = (Outstanding = {})
    /\ undisturbed' = (undisturbed /\ Outstanding = {})
    /\ UNCHANGED <<cartRows, created, shown, savedCart, clearing, contractVars>>

\* The cart screen is opened; an item is added; the buttons of an entry shown; the
\* cart is cleared, or emptied by the checkout.
FetchCart(c) == Dispatch(c, "fetch", 0, 0) /\ UNCHANGED safe

AddToCart(c) == Dispatch(c, "add", 0, 1) /\ UNCHANGED safe

UpdateCartItem(c) ==
    \E i \in Items, q \in Quantities :
        /\ \E k \in DOMAIN shown[i] : q = shown[i][k] + 1 \/ q + 1 = shown[i][k]
        /\ Dispatch(c, "update", i, q)
        /\ UNCHANGED safe

RemoveCartItem(c) ==
    \E i \in Items :
        /\ shown[i] # <<>>
        /\ Dispatch(c, "remove", i, 0)
        /\ safe' = safe \ {i}

RemoveAllCartItems(c) == Dispatch(c, "removeAll", 0, 0) /\ safe' = {}

-----------------------------------------------------------------------------
(* The server. *)

\* A row nobody has asked to delete, and no clear will, held or sent long ago.
NoDeletionUnderWay ==
    /\ Held = {}
    /\ \A o \in Operations : abroad[o] = 0
    /\ \A c \in Calls : ~(call[c].kind = "removeAll" /\ call[c].at \in {"sent", "gone"})

Answer(c, answered) ==
    /\ call[c].at \in {"sent", "gone"}
    /\ call' = [call EXCEPT ![c] = IF call[c].at = "sent"
                                   THEN [answered EXCEPT !.at = "served"] ELSE Free]
    /\ UNCHANGED <<cartSlice, savedCart, clearing, alone, undisturbed, contractVars>>

ServeFetch(c) ==
    /\ call[c].kind = "fetch"
    /\ Answer(c, [call[c] EXCEPT !.reply = cartRows])
    /\ UNCHANGED <<cartRows, created, safe>>

ServeAdd(c) ==
    /\ call[c].kind = "add"
    /\ created < MaxItems
    /\ created' = created + 1
    /\ cartRows' = [cartRows EXCEPT ![created + 1] = call[c].quantity]
    /\ Answer(c, [call[c] EXCEPT !.item = created + 1])
    /\ safe' = IF NoDeletionUnderWay THEN safe \union {created + 1} ELSE safe

ServeUpdate(c) ==
    /\ call[c].kind = "update"
    /\ cartRows[call[c].item] > 0
    /\ cartRows' = [cartRows EXCEPT ![call[c].item] = call[c].quantity]
    /\ Answer(c, call[c])
    /\ UNCHANGED <<created, safe>>

ServeRemove(c) ==
    /\ call[c].kind = "remove"
    /\ cartRows[call[c].item] > 0
    /\ cartRows' = [cartRows EXCEPT ![call[c].item] = 0]
    /\ Answer(c, call[c])
    /\ UNCHANGED <<created, safe>>

ServeRemoveAll(c) ==
    /\ call[c].kind = "removeAll"
    /\ cartRows' = NoRows
    /\ Answer(c, call[c])
    /\ UNCHANGED <<created, safe>>

\* A request nobody waits for is refused, or never arrives.
Lost(c) ==
    /\ call[c].at = "gone"
    /\ call' = [call EXCEPT ![c] = Free]
    /\ UNCHANGED <<cartRows, created, cartSlice, savedCart, clearing, cartHistory, contractVars>>

-----------------------------------------------------------------------------
(* The answers: the reducers, in the order the answers arrive. *)

Settles(c) ==
    /\ loading' = IF call[c].kind \in Loads THEN FALSE ELSE loading
    /\ UNCHANGED <<cartRows, created, savedCart, clearing, alone, safe, contractVars>>

\* The first entry with the id gets the quantity.
WithQuantity(entries, q) == [k \in DOMAIN entries |-> IF k = 1 THEN q ELSE entries[k]]

\* Mutant of Reduced: a fetched cart is added to the one shown.
ReducedAppending(cart, a) ==
    CASE a.kind = "fetch"     -> [i \in Items |-> cart[i] \o CartOf(a.reply)[i]]
      [] a.kind = "add"       -> [cart EXCEPT ![a.item] = Append(@, a.quantity)]
      [] a.kind = "update"    -> [cart EXCEPT ![a.item] = WithQuantity(@, a.quantity)]
      [] a.kind = "remove"    -> [cart EXCEPT ![a.item] = <<>>]
      [] a.kind = "removeAll" -> CartOf(NoRows)

\* What the fulfilled reducer makes of a cart and the answer of a call.
Reduced(cart, a) ==
    CASE a.kind = "fetch"     -> CartOf(a.reply)
      [] a.kind = "add"       -> [cart EXCEPT ![a.item] = Append(@, a.quantity)]
      [] a.kind = "update"    -> [cart EXCEPT ![a.item] = WithQuantity(@, a.quantity)]
      [] a.kind = "remove"    -> [cart EXCEPT ![a.item] = <<>>]
      [] a.kind = "removeAll" -> CartOf(NoRows)

Fulfilled(c) ==
    /\ call[c].at = "served"
    /\ shown' = Reduced(shown, call[c])
    /\ call' = [call EXCEPT ![c] = Free]
    /\ undisturbed' = (undisturbed \/ (call[c].kind = "fetch" /\ alone))
    /\ Settles(c)

\* The server refuses, the request or its answer is lost, or the client has waited
\* long enough: then the request may still be served.
Rejected(c) ==
    /\ call[c].at \in {"sent", "served"}
    /\ \/ /\ call' = [call EXCEPT ![c] = Free]
          /\ undisturbed' = (undisturbed /\ call[c].at = "sent")
       \/ /\ call[c].at = "sent"
          /\ call' = [call EXCEPT ![c].at = "gone"]
          /\ undisturbed' = FALSE
    /\ Settles(c)
    /\ UNCHANGED shown

-----------------------------------------------------------------------------
(* A finished order: clearCart through the middleware and the queue. *)

QueueClear(o) ==
    /\ Enter(o)
    /\ clearing' = clearing \union {o}
    /\ safe' = {}
    /\ UNCHANGED <<cartRows, created, cartSlice, savedCart, call, alone, undisturbed>>

\* next(action) runs after the middleware's awaits.
ReduceClear(o) ==
    /\ o \in clearing
    /\ clearing' = clearing \ {o}
    /\ shown' = CartOf(NoRows)
    /\ alone' = FALSE
    /\ undisturbed' = FALSE
    /\ UNCHANGED <<cartRows, created, loading, savedCart, call, safe, contractVars>>

\* The insertion raises; the action goes on all the same.
ClearUnqueued ==
    /\ shown' = CartOf(NoRows)
    /\ alone' = FALSE
    /\ undisturbed' = FALSE
    /\ UNCHANGED <<cartRows, created, loading, savedCart, call, clearing, safe,
                   contractVars>>

\* The server deletes every row.
Emptied ==
    /\ cartRows' = NoRows
    /\ alone' = FALSE
    /\ undisturbed' = FALSE
    /\ UNCHANGED <<created, cartSlice, savedCart, call, clearing, safe>>

DeliverClear(o) ==
    /\ delivered[o] + abroad[o] < MaxSends
    /\ Deliver(o)
    /\ Emptied

\* A clear that the queue has sent and no longer waits for, and what becomes of it.
GiveUpClear(o) ==
    /\ delivered[o] + abroad[o] < MaxSends
    /\ GiveUp(o)
    /\ UNCHANGED <<cartRows, created, cartSlice, savedCart, call, clearing, cartHistory>>

DeliverLateClear(o) == DeliverLate(o) /\ Emptied

ForgetClear(o) ==
    /\ Forget(o)
    /\ UNCHANGED <<cartRows, created, cartSlice, savedCart, call, clearing, cartHistory>>

ReleaseClear(o) ==
    /\ Leave(o)
    /\ UNCHANGED <<cartRows, created, cartSlice, savedCart, call, clearing, cartHistory>>

-----------------------------------------------------------------------------
(* redux-persist saves the cart slice, loading and all, as the reducers    *)
(* left it; a request on its way at the kill may still be served.          *)

PersistCart ==
    /\ savedCart # CartSlice
    /\ savedCart' = CartSlice
    /\ UNCHANGED <<cartRows, created, cartSlice, call, clearing, cartHistory, contractVars>>

Restart ==
    /\ shown' = savedCart.cart
    /\ loading' = savedCart.loading
    /\ call' = [c \in Calls |-> IF call[c].at \in {"sent", "gone"}
                                THEN [call[c] EXCEPT !.at = "gone"] ELSE Free]
    /\ clearing' = {}
    /\ alone' = FALSE
    /\ undisturbed' = FALSE
    /\ UNCHANGED <<cartRows, created, savedCart, safe, contractVars>>

-----------------------------------------------------------------------------
CartNext ==
    \/ \E c \in Calls :
          \/ FetchCart(c) \/ AddToCart(c) \/ UpdateCartItem(c)
          \/ RemoveCartItem(c) \/ RemoveAllCartItems(c)
          \/ ServeFetch(c) \/ ServeAdd(c) \/ ServeUpdate(c)
          \/ ServeRemove(c) \/ ServeRemoveAll(c)
          \/ Fulfilled(c) \/ Rejected(c) \/ Lost(c)
    \/ \E o \in Operations :
          \/ QueueClear(o) \/ ReduceClear(o) \/ ReleaseClear(o)
          \/ DeliverClear(o) \/ GiveUpClear(o) \/ DeliverLateClear(o) \/ ForgetClear(o)
    \/ ClearUnqueued
    \/ PersistCart
    \/ Restart

CartSpec == CartInit /\ [][CartNext]_cartVars

-----------------------------------------------------------------------------
(* Properties. *)

CartTypes ==
    /\ cartRows \in [Items -> 0 .. MaxQuantity]
    /\ created \in 0 .. MaxItems
    /\ shown \in [Items -> Seq(Quantities)]
    /\ loading \in BOOLEAN
    /\ savedCart \in [cart : [Items -> Seq(Quantities)], loading : BOOLEAN]
    /\ call \in [Calls -> [kind : {"none", "fetch", "add", "update", "remove", "removeAll"},
                           at : {"free", "sent", "gone", "served"},
                           item : 0 .. created,
                           quantity : 0 .. MaxQuantity,
                           reply : [Items -> 0 .. MaxQuantity]]]
    /\ clearing \subseteq entered
    /\ alone \in BOOLEAN
    /\ undisturbed \in BOOLEAN
    /\ safe \subseteq Items

\* From a fetch on, as long as calls come one after the other, each is answered,
\* and no order is finished, the screen shows exactly the server's rows, each once.
SequentialAgreement == undisturbed /\ Outstanding = {} => shown = CartOf(cartRows)

\* A row created while no deletion was on its way, neither a call nor a clear that is
\* held or that the queue has given up waiting for, stays until its removal is asked
\* for: a clear is not sent again once it has left the queue.  Only a request sent
\* before it left can still empty the cart, and a row created until then may go with it.
SafeRowsStay == \A i \in safe : cartRows[i] > 0
=============================================================================
