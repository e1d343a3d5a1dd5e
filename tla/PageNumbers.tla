---------------------------- MODULE PageNumbers -----------------------------
(***************************************************************************)
(* The page buttons of the admin's tables: which page numbers are shown,   *)
(* and where an ellipsis stands for those that are not.                    *)
(***************************************************************************)
EXTENDS Naturals, Sequences

Ellipsis == 0

MaxVisiblePages == 5

\* Mutant of GetPageNumbers: the window at the end is one page too short.
GetPageNumbersShort(current, total) ==
    IF total <= MaxVisiblePages THEN [i \in 1 .. total |-> i]
    ELSE IF current <= 3 THEN <<1, 2, 3, 4, Ellipsis, total>>
    ELSE IF current >= total - 2 THEN <<1, Ellipsis, total - 1, total>>
    ELSE <<1, Ellipsis, current - 1, current, current + 1, Ellipsis, total>>

\* getPageNumbers; current may lie beyond total for as long as a render.
GetPageNumbers(current, total) ==
    IF total <= MaxVisiblePages THEN [i \in 1 .. total |-> i]
    ELSE IF current <= 3 THEN <<1, 2, 3, 4, Ellipsis, total>>
    ELSE IF current >= total - 2
         THEN <<1, Ellipsis, total - 3, total - 2, total - 1, total>>
    ELSE <<1, Ellipsis, current - 1, current, current + 1, Ellipsis, total>>

-----------------------------------------------------------------------------
\* Every button is a page of the table; the first and the last page are there.
ButtonsInRange(buttons, total) ==
    /\ \A i \in DOMAIN buttons : buttons[i] = Ellipsis \/ buttons[i] \in 1 .. total
    /\ total > 0 => buttons[1] = 1 /\ buttons[Len(buttons)] = total

\* Neighbours are consecutive pages, and an ellipsis stands for at least one page.
NothingSkippedSilently(buttons) ==
    \A i \in DOMAIN buttons :
        i + 1 \in DOMAIN buttons =>
            \/ buttons[i + 1] = buttons[i] + 1 /\ buttons[i] # Ellipsis
            \/ /\ buttons[i + 1] = Ellipsis
               /\ i + 2 \in DOMAIN buttons
               /\ buttons[i + 2] >= buttons[i] + 2
            \/ buttons[i] = Ellipsis /\ buttons[i + 1] # Ellipsis

\* The page one is on, and the pages next to it, have a button.
NeighboursShown(buttons, current, total) ==
    \A p \in {current - 1, current, current + 1} \intersect (1 .. total) :
        \E i \in DOMAIN buttons : buttons[i] = p
=============================================================================
