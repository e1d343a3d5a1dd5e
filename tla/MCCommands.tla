---------------------------- MODULE MCCommands -----------------------------
(* Commands for TLC: what the server makes of one, how its events reach their
   consumers, the cart of the phone that sends them, and the session that lets it.
   `part` picks, at the start, what moves, so states add up and do not multiply:
   "server" are commands that race, with the outbox at rest, where u2 and s1 are
   sent again; "delivery" is the server with the outbox at work, where only u2 is;
   "cart" are two calls at once on a phone that keeps running, with two rows, or one
   row and a clear; "phone" is one call at a time and a clear, on a phone that is
   killed and writes its slice at any time. *)
EXTENDS MCUnitOfWork, Delivery, MobileCart, MobileSession

CONSTANT c1  \* the one call of "phone"

MCWatched == {<<u2, 1, "ProductPriceChanged">>, <<s1, 1, "Single">>}

VARIABLE part

commandsVars == <<part, deliveryVars, cartVars, sessionVars>>

CommandsInit ==
    /\ part \in {"server", "delivery", "cart", "phone", "session"}
    /\ DeliveryInit
    /\ CartInit
    /\ SessionInit

CommandsNext ==
    /\ UNCHANGED part
    /\ \/ /\ part = "server"
          /\ Next
          /\ attempt'[u1] <= 1
          /\ UNCHANGED <<outboxVars, cartVars, sessionVars>>
       \/ /\ part = "delivery"
          /\ DeliveryNext
          /\ \A c \in Commands \ {u2} : attempt'[c] <= 1
          /\ UNCHANGED <<cartVars, sessionVars>>
       \/ /\ part = "cart"
          /\ CartNext /\ ~Restart
          /\ UNCHANGED savedCart
          /\ entered' = {} \/ created' <= 1
          /\ UNCHANGED <<deliveryVars, sessionVars>>
       \/ /\ part = "phone"
          /\ CartNext
          /\ \A c \in Calls \ {c1} : call'[c].at = "free"
          /\ UNCHANGED <<deliveryVars, sessionVars>>
       \/ part = "session" /\ SessionNext /\ UNCHANGED <<deliveryVars, cartVars>>

CommandsSpec == CommandsInit /\ [][CommandsNext]_commandsVars

\* The types of every part.
CommandTypes == DeliveryTypes /\ CartTypes /\ SessionTypes
=============================================================================
