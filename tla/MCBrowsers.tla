---------------------------- MODULE MCBrowsers -----------------------------
(* The browser clients for TLC: the tabs that share tokens, a table of the
   admin, the lists of products, and the admin's session.  They share no state:
   `part` picks, at the start, the one that moves, so their states add up and do
   not multiply. *)
EXTENDS MCTokenRefresh, TableUrl, ProductLists, AdminSession

VARIABLE part

browsersVars == <<part, vars, tableVars, listsVars, adminVars>>

BrowsersInit ==
    /\ part \in {"tokens", "table", "lists", "admin"}
    /\ Init
    /\ TableInit
    /\ part # "table" => matching = 0
    /\ ListsInit
    /\ AdminInit

BrowsersNext ==
    /\ UNCHANGED part
    /\ \/ part = "tokens" /\ Next /\ UNCHANGED <<tableVars, listsVars, adminVars>>
       \/ part = "table" /\ TableNext /\ UNCHANGED <<vars, listsVars, adminVars>>
       \/ part = "lists" /\ ListsNext /\ UNCHANGED <<vars, tableVars, adminVars>>
       \/ part = "admin" /\ AdminNext /\ UNCHANGED <<vars, tableVars, listsVars>>

\* A part that does not move has no fair step to take.
BrowsersSpec ==
    /\ BrowsersInit
    /\ [][BrowsersNext]_browsersVars
    /\ Fairness
    /\ TableFairness
    /\ ListsFairness

\* The types of every part.
BrowserTypes == TypeOK /\ TableTypes /\ ListsTypes /\ AdminTypes
=============================================================================
