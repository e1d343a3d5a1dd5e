------------------------------ MODULE TableUrl ------------------------------
(***************************************************************************)
(* A table of the admin whose page, page size and filters live in the URL: *)
(* the hook useTableUrlState, the buttons of DataTablePagination, and the  *)
(* browser's history.  The page is read from the URL at every render; the  *)
(* filters are copied into local state when the table is mounted and then  *)
(* written to both.                                                        *)
(*                                                                         *)
(* A page of 0 in the URL is an absent one.  "none" is an empty filter,    *)
(* "blank" a column filter of spaces only.                                 *)
(***************************************************************************)
EXTENDS PageNumbers

CONSTANTS
    PageSizes,       \* the choices of the page size
    DefaultPageSize,
    Words,           \* texts one may filter by
    MaxRows,         \* bound: rows that match
    MaxEntries       \* bound: entries of the browser's history

ASSUME TableAssumption ==
    /\ PageSizes \subseteq Nat \ {0}
    /\ DefaultPageSize \in PageSizes
    /\ "blank" \notin Words
    /\ MaxRows \in Nat
    /\ MaxEntries \in Nat \ {0}

VARIABLES
    entries,      \* the history: the search of each entry
    cursor,       \* the entry the browser is at
    globalFilter, \* the table's copies of the filters
    columnFilter,
    matching,     \* rows that pass the local filters
    wandered      \* history: the URL was changed from outside since the mount

tableVars == <<entries, cursor, globalFilter, columnFilter, matching, wandered>>

Search == [page : Nat, pageSize : PageSizes, filter : Words \union {"none"},
           column : Words \union {"none"}]

EmptySearch == [page |-> 0, pageSize |-> DefaultPageSize, filter |-> "none", column |-> "none"]

search == entries[cursor]

CurrentPage == IF search.page > 0 THEN search.page ELSE 1

PageCount == (matching + search.pageSize - 1) \div search.pageSize

Buttons == GetPageNumbers(CurrentPage, PageCount)

TableInit ==
    /\ entries = <<EmptySearch>>
    /\ cursor = 1
    /\ globalFilter = "none"
    /\ columnFilter = "none"
    /\ matching \in 0 .. MaxRows
    /\ wandered = FALSE

\* navigate, which drops the entries ahead, and navigate with replace.
Push(s) ==
    /\ cursor < MaxEntries
    /\ entries' = Append(SubSeq(entries, 1, cursor), s)
    /\ cursor' = cursor + 1

Replace(s) ==
    /\ entries' = [entries EXCEPT ![cursor] = s]
    /\ UNCHANGED cursor

-----------------------------------------------------------------------------
\* onPaginationChange: the first page and the default size are left out of the URL.
OnPaginationChange(p, size) ==
    Push([search EXCEPT !.page = IF p <= 1 THEN 0 ELSE p, !.pageSize = size])

\* A numbered button, or those for the pages before and after.
GoToPage ==
    /\ \E p \in (1 .. PageCount) :
          /\ \/ \E i \in DOMAIN Buttons : Buttons[i] = p
             \/ p \in {CurrentPage - 1, CurrentPage + 1}
          /\ OnPaginationChange(p, search.pageSize)
    /\ UNCHANGED <<globalFilter, columnFilter, matching, wandered>>

\* The table keeps the first row of the page in view.
SetPageSize(size) ==
    /\ size # search.pageSize
    /\ OnPaginationChange((((CurrentPage - 1) * search.pageSize) \div size) + 1, size)
    /\ UNCHANGED <<globalFilter, columnFilter, matching, wandered>>

\* Mutant of OnGlobalFilterChange: only the local copy is set.
OnGlobalFilterChangeLocal(value) ==
    /\ globalFilter' = value
    /\ Push([search EXCEPT !.page = 0])
    /\ matching' \in 0 .. MaxRows
    /\ UNCHANGED <<columnFilter, wandered>>

OnGlobalFilterChange(value) ==
    /\ globalFilter' = value
    /\ Push([search EXCEPT !.page = 0, !.filter = value])
    /\ matching' \in 0 .. MaxRows
    /\ UNCHANGED <<columnFilter, wandered>>

\* What a column filter becomes in the URL.
Serialized(value) == IF value = "blank" THEN "none" ELSE value

OnColumnFiltersChange(value) ==
    /\ columnFilter' = value
    /\ Push([search EXCEPT !.page = 0, !.column = Serialized(value)])
    /\ matching' \in 0 .. MaxRows
    /\ UNCHANGED <<globalFilter, wandered>>

\* Mutant of EnsurePageInRange: a page equal to the count is what it waits for.
EnsurePageInRangeOff ==
    /\ PageCount > 0
    /\ search.page = PageCount + 1
    /\ Replace([search EXCEPT !.page = 0])
    /\ UNCHANGED <<globalFilter, columnFilter, matching, wandered>>

\* The effect after a render; both tables reset to the first page.
EnsurePageInRange ==
    /\ PageCount > 0
    /\ search.page > PageCount
    /\ Replace([search EXCEPT !.page = 0])
    /\ UNCHANGED <<globalFilter, columnFilter, matching, wandered>>

-----------------------------------------------------------------------------
\* New rows arrive; react-table then returns to the first page of its own accord,
\* through onPaginationChange, unless it has been told not to.
RowsChange ==
    /\ matching' \in 0 .. MaxRows
    /\ \/ UNCHANGED <<entries, cursor>>
       \/ search.page > 1 /\ OnPaginationChange(1, search.pageSize)
    /\ UNCHANGED <<globalFilter, columnFilter, wandered>>

\* The browser's back and forward buttons: the local filters stay, and so do the
\* rows they let pass.
Travel ==
    /\ cursor' \in DOMAIN entries \ {cursor}
    /\ wandered' = TRUE
    /\ UNCHANGED <<entries, globalFilter, columnFilter, matching>>

\* A link to the same table, from the sidebar or typed by hand.
FollowLink ==
    /\ \E p \in 0 .. MaxRows : Push([EmptySearch EXCEPT !.page = p])
    /\ wandered' = TRUE
    /\ UNCHANGED <<globalFilter, columnFilter, matching>>

\* The table is mounted again: initialColumnFilters and the initial globalFilter.
Mounted ==
    /\ globalFilter' = search.filter
    /\ columnFilter' = search.column
    /\ matching' \in 0 .. MaxRows
    /\ wandered' = FALSE
    /\ UNCHANGED <<entries, cursor>>

-----------------------------------------------------------------------------
TableNext ==
    \/ GoToPage
    \/ \E size \in PageSizes : SetPageSize(size)
    \/ \E value \in Words \union {"none"} : OnGlobalFilterChange(value)
    \/ \E value \in Words \union {"none", "blank"} : OnColumnFiltersChange(value)
    \/ EnsurePageInRange
    \/ RowsChange
    \/ Travel
    \/ FollowLink
    \/ Mounted

TableSpec == TableInit /\ [][TableNext]_tableVars

\* React runs the effect after every render.
TableFairness == WF_tableVars(EnsurePageInRange)

-----------------------------------------------------------------------------
(* Properties. *)

TableTypes ==
    /\ cursor \in DOMAIN entries
    /\ \A k \in DOMAIN entries : entries[k] \in Search
    /\ globalFilter \in Words \union {"none"}
    /\ columnFilter \in Words \union {"none", "blank"}
    /\ matching \in 0 .. MaxRows

\* A table opened again from its URL shows the filters it showed before, unless
\* the browser's history or a link has changed the URL under it: then the table
\* goes on filtering by what the URL no longer says.
UrlRestoresFilters ==
    ~wandered => /\ globalFilter = search.filter
                 /\ Serialized(columnFilter) = search.column

\* Whatever page the URL names and however many rows are left, every button leads
\* to a page of the table, no page is skipped without an ellipsis, and from a page
\* that exists its neighbours are one click away.
ButtonsSound ==
    /\ ButtonsInRange(Buttons, PageCount)
    /\ NothingSkippedSilently(Buttons)
    /\ CurrentPage <= PageCount => NeighboursShown(Buttons, CurrentPage, PageCount)

\* A page beyond the last, left by a filter, by rows that went or by a link, does
\* not stay: the table ends on a page that has rows, or has none at all.
PageSettles == search.page > PageCount ~> (search.page <= PageCount \/ PageCount = 0)
=============================================================================
