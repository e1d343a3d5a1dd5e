---------------------------- MODULE AdminProofs -----------------------------
(***************************************************************************)
(* Proofs about what the admin panel and the product lists keep: the page  *)
(* buttons of PageNumbers, for any page of any number of pages; TableUrl,  *)
(* for any sizes, words, rows and length of the history; AdminSession, for *)
(* any page calls and any number of logins; ProductLists, for any number   *)
(* of browsers, GETs under way and changes.                                *)
(***************************************************************************)
EXTENDS MCBrowsers, TokenRefreshProofs, Integers, TLAPS

-----------------------------------------------------------------------------
(* The page buttons. *)

\* The page buttons, in the four shapes getPageNumbers gives them.
LEMMA ButtonShapes ==
    ASSUME NEW here \in Nat \ {0}, NEW total \in Nat
    PROVE  LET b == GetPageNumbers(here, total) IN
           \/ total <= 5 /\ b = [i \in 1 .. total |-> i]
           \/ total > 5 /\ here <= 3 /\ b = <<1, 2, 3, 4, Ellipsis, total>>
           \/ total > 5 /\ here > 3 /\ here >= total - 2
              /\ b = <<1, Ellipsis, total - 3, total - 2, total - 1, total>>
           \/ total > 5 /\ here > 3 /\ here < total - 2
              /\ b = <<1, Ellipsis, here - 1, here, here + 1, Ellipsis, total>>
BY DEF GetPageNumbers, MaxVisiblePages

\* Whatever page is asked for, also one beyond the last, the buttons are pages of
\* the table and no page is skipped without an ellipsis.
THEOREM ButtonsNeverLie ==
    ASSUME NEW here \in Nat \ {0}, NEW total \in Nat
    PROVE  LET b == GetPageNumbers(here, total) IN
           /\ ButtonsInRange(b, total)
           /\ NothingSkippedSilently(b)
           /\ here <= total => NeighboursShown(b, here, total)
<1> DEFINE b == GetPageNumbers(here, total)
<1>1. CASE total <= 5 /\ b = [i \in 1 .. total |-> i]
  <2>1. DOMAIN b = 1 .. total /\ \A i \in 1 .. total : b[i] = i
    BY <1>1
  <2>2. Len(b) = total
    BY <1>1
  <2> HIDE DEF b
  <2>3. ButtonsInRange(b, total)
    BY <2>1, <2>2 DEF ButtonsInRange
  <2>4. NothingSkippedSilently(b)
    BY <2>1 DEF NothingSkippedSilently, Ellipsis
  <2>5. NeighboursShown(b, here, total)
    BY <2>1 DEF NeighboursShown
  <2>6. QED BY <2>3, <2>4, <2>5 DEF b
<1>2. CASE total > 5 /\ here <= 3 /\ b = <<1, 2, 3, 4, Ellipsis, total>>
  <2>1. /\ DOMAIN b = 1 .. 6 /\ Len(b) = 6
        /\ b[1] = 1 /\ b[2] = 2 /\ b[3] = 3 /\ b[4] = 4 /\ b[5] = 0 /\ b[6] = total
    BY <1>2 DEF Ellipsis
  <2> HIDE DEF b
  <2>2. ButtonsInRange(b, total)
    BY <1>2, <2>1 DEF ButtonsInRange, Ellipsis
  <2>3. NothingSkippedSilently(b)
    BY <1>2, <2>1 DEF NothingSkippedSilently, Ellipsis
  <2>4. NeighboursShown(b, here, total)
    BY <1>2, <2>1 DEF NeighboursShown
  <2>5. QED BY <2>2, <2>3, <2>4 DEF b
<1>3. CASE total > 5 /\ here > 3 /\ here >= total - 2
           /\ b = <<1, Ellipsis, total - 3, total - 2, total - 1, total>>
  <2>1. /\ DOMAIN b = 1 .. 6 /\ Len(b) = 6
        /\ b[1] = 1 /\ b[2] = 0 /\ b[3] = total - 3 /\ b[4] = total - 2 /\ b[5] = total - 1
        /\ b[6] = total
    BY <1>3 DEF Ellipsis
  <2> HIDE DEF b
  <2>2. ButtonsInRange(b, total)
    BY <1>3, <2>1 DEF ButtonsInRange, Ellipsis
  <2>3. NothingSkippedSilently(b)
    BY <1>3, <2>1 DEF NothingSkippedSilently, Ellipsis
  <2>4. here <= total => NeighboursShown(b, here, total)
    BY <1>3, <2>1 DEF NeighboursShown
  <2>5. QED BY <2>2, <2>3, <2>4 DEF b
<1>4. CASE total > 5 /\ here > 3 /\ here < total - 2
           /\ b = <<1, Ellipsis, here - 1, here, here + 1, Ellipsis, total>>
  <2>1. /\ DOMAIN b = 1 .. 7 /\ Len(b) = 7
        /\ b[1] = 1 /\ b[2] = 0 /\ b[3] = here - 1 /\ b[4] = here /\ b[5] = here + 1
        /\ b[6] = 0 /\ b[7] = total
    BY <1>4 DEF Ellipsis
  <2> HIDE DEF b
  <2>2. ButtonsInRange(b, total)
    BY <1>4, <2>1 DEF ButtonsInRange, Ellipsis
  <2>3. NothingSkippedSilently(b)
    BY <1>4, <2>1 DEF NothingSkippedSilently, Ellipsis
  <2>4. NeighboursShown(b, here, total)
    BY <1>4, <2>1 DEF NeighboursShown
  <2>5. QED BY <2>2, <2>3, <2>4 DEF b
<1>5. QED BY <1>1, <1>2, <1>3, <1>4, ButtonShapes

-----------------------------------------------------------------------------
(* The table and its URL. *)

UrlInv ==
    /\ entries \in Seq(Search)
    /\ cursor \in 1 .. Len(entries)
    /\ globalFilter \in Words \union {"none"}
    /\ columnFilter \in Words \union {"none", "blank"}
    /\ matching \in 0 .. MaxRows
    /\ wandered \in BOOLEAN
    /\ UrlRestoresFilters

\* What the browser shows after a navigation is what was navigated to.
LEMMA PushShows ==
    ASSUME UrlInv, NEW s \in Search, Push(s)
    PROVE  entries' \in Seq(Search) /\ cursor' \in 1 .. Len(entries') /\ search' = s
<1>1. SubSeq(entries, 1, cursor) \in Seq(Search) /\ Len(SubSeq(entries, 1, cursor)) = cursor
  BY DEF UrlInv
<1>2. entries' = Append(SubSeq(entries, 1, cursor), s) /\ cursor' = cursor + 1
  BY DEF Push
<1>3. QED BY <1>1, <1>2 DEF search, UrlInv

LEMMA ReplaceShows ==
    ASSUME UrlInv, NEW s \in Search, Replace(s)
    PROVE  entries' \in Seq(Search) /\ cursor' \in 1 .. Len(entries') /\ search' = s
BY DEF UrlInv, Replace, search

LEMMA SearchType == UrlInv => search \in Search
BY DEF UrlInv, search

LEMMA UrlInvInit == TableInit => UrlInv
<1> SUFFICES ASSUME TableInit PROVE UrlInv
  OBVIOUS
<1>1. EmptySearch \in Search
  BY TableAssumption DEF EmptySearch, Search
<1>2. entries \in Seq(Search) /\ cursor \in 1 .. Len(entries) /\ search = EmptySearch
  BY <1>1 DEF TableInit, search
<1>3. QED
  BY <1>2 DEF TableInit, UrlInv, UrlRestoresFilters, EmptySearch, Serialized

LEMMA UrlInvNext == UrlInv /\ [TableNext]_tableVars => UrlInv'
<1> SUFFICES ASSUME UrlInv, [TableNext]_tableVars PROVE UrlInv'
  OBVIOUS
<1>0. search \in Search
  BY SearchType
\* A navigation that leaves the filters in the URL as they are.
<1>1. ASSUME NEW p \in Int, NEW size \in PageSizes, OnPaginationChange(p, size),
             UNCHANGED <<globalFilter, columnFilter, wandered>>, matching' \in 0 .. MaxRows
      PROVE  UrlInv'
  <2> DEFINE n == IF p <= 1 THEN 0 ELSE p
             s == [search EXCEPT !.page = n, !.pageSize = size]
  <2>0. n \in Nat
    OBVIOUS
  <2>1. s \in Search /\ s.filter = search.filter /\ s.column = search.column
    <3> HIDE DEF n
    <3> QED BY <1>0, <2>0 DEF Search
  <2>2. Push(s)
    BY <1>1 DEF OnPaginationChange
  <2>3. entries' \in Seq(Search) /\ cursor' \in 1 .. Len(entries') /\ search' = s
    <3> HIDE DEF s
    <3> QED BY <2>1, <2>2, PushShows
  <2> HIDE DEF s
  <2>4. QED BY <1>1, <2>1, <2>3 DEF UrlInv, UrlRestoresFilters, Serialized
<1>2. CASE GoToPage
  <2>1. PICK p \in 1 .. PageCount : OnPaginationChange(p, search.pageSize)
    BY <1>2 DEF GoToPage
  <2>2. search.pageSize \in PageSizes
    BY <1>0 DEF Search
  <2>3. UNCHANGED <<globalFilter, columnFilter, matching, wandered>>
    BY <1>2 DEF GoToPage
  <2>4. QED BY <1>1, <2>1, <2>2, <2>3 DEF UrlInv
<1>3. ASSUME NEW size \in PageSizes, SetPageSize(size) PROVE UrlInv'
  <2> DEFINE q == (((CurrentPage - 1) * search.pageSize) \div size) + 1
  <2>1. CurrentPage - 1 \in Int /\ search.pageSize \in Int /\ size \in Nat \ {0}
    <3>1. search.page \in Nat /\ search.pageSize \in PageSizes
      BY <1>0 DEF Search
    <3>2. CurrentPage \in Int
      BY <3>1 DEF CurrentPage
    <3>3. CurrentPage - 1 \in Int
      BY <3>2
    <3>4. \A n \in PageSizes : n \in Nat \ {0} /\ n \in Int
      BY TableAssumption
    <3>5. QED BY <3>1, <3>3, <3>4
  <2>2. q \in Int
    <3>1. (CurrentPage - 1) * search.pageSize \in Int
      BY <2>1
    <3>2. \A x \in Int : x \div size \in Int
      BY <2>1
    <3>3. QED BY <3>1, <3>2
  <2>3. OnPaginationChange(q, size) /\ UNCHANGED <<globalFilter, columnFilter, matching, wandered>>
    BY <1>3 DEF SetPageSize
  <2> HIDE DEF q
  <2>4. QED BY <1>1, <2>2, <2>3 DEF UrlInv
<1>4. ASSUME NEW value \in Words \union {"none"}, OnGlobalFilterChange(value) PROVE UrlInv'
  <2> DEFINE s == [search EXCEPT !.page = 0, !.filter = value]
  <2>1. s \in Search /\ s.filter = value /\ s.column = search.column
    BY <1>0 DEF Search
  <2>2. Push(s)
    BY <1>4 DEF OnGlobalFilterChange
  <2>3. entries' \in Seq(Search) /\ cursor' \in 1 .. Len(entries') /\ search' = s
    <3> HIDE DEF s
    <3> QED BY <2>1, <2>2, PushShows
  <2> HIDE DEF s
  <2>4. QED
    BY <1>4, <2>1, <2>3 DEF OnGlobalFilterChange, UrlInv, UrlRestoresFilters, Serialized
<1>5. ASSUME NEW value \in Words \union {"none", "blank"}, OnColumnFiltersChange(value)
      PROVE  UrlInv'
  <2> DEFINE s == [search EXCEPT !.page = 0, !.column = Serialized(value)]
  <2>1. s \in Search /\ s.filter = search.filter /\ s.column = Serialized(value)
    BY <1>0 DEF Search, Serialized
  <2>2. Push(s)
    BY <1>5 DEF OnColumnFiltersChange
  <2>3. entries' \in Seq(Search) /\ cursor' \in 1 .. Len(entries') /\ search' = s
    <3> HIDE DEF s
    <3> QED BY <2>1, <2>2, PushShows
  <2> HIDE DEF s
  <2>4. QED
    BY <1>5, <2>1, <2>3 DEF OnColumnFiltersChange, UrlInv, UrlRestoresFilters, Serialized
<1>6. CASE EnsurePageInRange
  <2> DEFINE s == [search EXCEPT !.page = 0]
  <2>1. s \in Search /\ s.filter = search.filter /\ s.column = search.column
    BY <1>0 DEF Search
  <2>2. Replace(s)
    BY <1>6 DEF EnsurePageInRange
  <2>3. entries' \in Seq(Search) /\ cursor' \in 1 .. Len(entries') /\ search' = s
    <3> HIDE DEF s
    <3> QED BY <2>1, <2>2, ReplaceShows
  <2> HIDE DEF s
  <2>4. QED
    BY <1>6, <2>1, <2>3 DEF EnsurePageInRange, UrlInv, UrlRestoresFilters, Serialized
<1>7. CASE RowsChange
  <2>1. CASE UNCHANGED <<entries, cursor>>
    BY <1>7, <2>1 DEF RowsChange, UrlInv, UrlRestoresFilters, search, Serialized
  <2>2. CASE OnPaginationChange(1, search.pageSize)
    <3>1. search.pageSize \in PageSizes
      BY <1>0 DEF Search
    <3>2. QED BY <1>1, <1>7, <2>2, <3>1 DEF RowsChange
  <2>3. QED BY <1>7, <2>1, <2>2 DEF RowsChange
<1>8. CASE Travel
  BY <1>8 DEF Travel, UrlInv, UrlRestoresFilters
<1>9. CASE FollowLink
  <2>1. PICK p \in 0 .. MaxRows : Push([EmptySearch EXCEPT !.page = p])
    BY <1>9 DEF FollowLink
  <2> DEFINE s == [EmptySearch EXCEPT !.page = p]
  <2>2. s \in Search
    BY TableAssumption DEF EmptySearch, Search
  <2>3. entries' \in Seq(Search) /\ cursor' \in 1 .. Len(entries')
    <3> HIDE DEF s
    <3> QED BY <2>1, <2>2, PushShows DEF s
  <2>4. QED BY <1>9, <2>3 DEF FollowLink, UrlInv, UrlRestoresFilters
<1>10. CASE Mounted
  <2>1. search' = search
    BY <1>10 DEF Mounted, search
  <2>2. QED
    BY <1>0, <1>10, <2>1, TableAssumption
    DEF Mounted, UrlInv, UrlRestoresFilters, Serialized, Search
<1>11. CASE UNCHANGED tableVars
  BY <1>11 DEF tableVars, UrlInv, UrlRestoresFilters, search, Serialized
<1>12. QED
  BY <1>2, <1>3, <1>4, <1>5, <1>6, <1>7, <1>8, <1>9, <1>10, <1>11 DEF TableNext

\* A table opened again from its URL shows its filters, for any history: only a
\* link or the history buttons can part the two.
THEOREM FiltersRestored == TableSpec => []UrlRestoresFilters
<1>1. UrlInv => UrlRestoresFilters
  BY DEF UrlInv
<1>2. QED BY <1>1, UrlInvInit, UrlInvNext, PTL DEF TableSpec

\* However the user navigates, the cursor stays within the history, every entry of
\* which is a search of the table, and the filters are ones the table knows.
THEOREM TableTyped == TableSpec => []TableTypes
<1>1. UrlInv => TableTypes
  BY DEF UrlInv, TableTypes
<1>2. QED BY <1>1, UrlInvInit, UrlInvNext, PTL DEF TableSpec

\* In every state the page buttons are sound.
THEOREM ButtonsAlwaysSound == TableSpec => []ButtonsSound
<1>1. UrlInv => ButtonsSound
  <2> SUFFICES ASSUME UrlInv PROVE ButtonsSound
    OBVIOUS
  <2>1. search \in Search /\ matching \in Nat
    BY SearchType DEF UrlInv
  <2>2. CurrentPage \in Nat \ {0}
    BY <2>1 DEF CurrentPage, Search
  <2>3. PageCount \in Nat
    <3>1. search.pageSize \in Nat \ {0}
      BY <2>1, TableAssumption DEF Search
    <3>2. matching + search.pageSize - 1 \in Nat
      BY <2>1, <3>1
    <3>3. \A x \in Nat, y \in Nat \ {0} : x \div y \in Nat
      OBVIOUS
    <3>4. QED BY <3>1, <3>2, <3>3 DEF PageCount
  <2>4. QED BY <2>2, <2>3, ButtonsNeverLie DEF ButtonsSound, Buttons
<1>2. QED BY <1>1, UrlInvInit, UrlInvNext, PTL DEF TableSpec

-----------------------------------------------------------------------------
(* The product lists. *)

\* A GET somebody awaits is under way, was sent by nobody else and, unless it brings the
\* first list, after the last change its browser knows of.
OneAsker ==
    \A b, d \in Browsers :
        awaited[b] # NoFetch =>
            /\ fetch[awaited[b]].at # "free"
            /\ fetch[awaited[b]].knows = acknowledged[b] \/ shown[b] = Nothing
            /\ awaited[d] = awaited[b] => d = b

\* The table had every change a GET knows of before the GET came to read it.
ReadsKnow ==
    \A f \in Fetches :
        /\ fetch[f].knows <= changes
        /\ fetch[f].at \in {"read", "answered"} /\ ~fetch[f].fromCache =>
               fetch[f].list >= fetch[f].knows

LInv ==
    /\ ListsTypes
    /\ OneAsker
    /\ ReadsKnow
    /\ OwnChangesShown

GetRecords ==
    [at : {"free", "sent", "read", "answered"}, list : Lists \union {Nothing},
     knows : Lists, fromCache : BOOLEAN]

\* A list that is there and one that is not are different things.
LEMMA ListsApart ==
    /\ Nothing \notin Lists /\ MaxChanges \in Nat /\ 0 \in Lists /\ Lists \subseteq Nat
    /\ Free \in GetRecords /\ Free.at = "free" /\ Free.list = Nothing /\ Free.knows = 0
BY ListsAssumption DEF Nothing, Lists, Free, GetRecords

\* The invariant holds at the start.
LEMMA LInvInit == ListsInit => LInv
<1> SUFFICES ASSUME ListsInit PROVE LInv
  OBVIOUS
<1>1. fetch \in [Fetches -> GetRecords] /\ \A f \in Fetches : fetch[f] = Free
  BY ListsApart DEF ListsInit
<1>2. changes \in Lists /\ cached \in Lists \union {Nothing} /\ age \in 0 .. CacheDuration - 1
  BY ListsApart, ListsAssumption DEF ListsInit
<1>3. acknowledged \in [Browsers -> 0 .. changes]
  BY DEF ListsInit
<1>4. ListsTypes
  BY <1>1, <1>2, <1>3, ListsApart DEF ListsInit, ListsTypes, GetRecords
<1>5. OneAsker
  BY DEF ListsInit, OneAsker
<1>6. ReadsKnow
  BY <1>1, ListsApart DEF ListsInit, ReadsKnow
<1>7. OwnChangesShown
  BY ListsAssumption DEF ListsInit, OwnChangesShown, Nothing
<1> QED
  BY <1>4, <1>5, <1>6, <1>7 DEF LInv

\* The types of a step that moves one GET.
LEMMA GetMoves ==
    ASSUME LInv, NEW f \in Fetches, NEW g \in GetRecords,
           fetch' = [fetch EXCEPT ![f] = g],
           g.list \in Lists <=> g.at \in {"read", "answered"},
           UNCHANGED changes,
           cached' \in Lists \union {Nothing},
           age' \in 0 .. CacheDuration - 1,
           awaited' \in [Browsers -> Fetches \union {NoFetch}],
           shown' \in [Browsers -> Lists \union {Nothing}],
           invalidated' \in [Browsers -> BOOLEAN],
           mutation' \in [Browsers -> {"none", "sent", "committed"}],
           acknowledged' \in [Browsers -> 0 .. changes],
           excused' \in [Browsers -> BOOLEAN]
    PROVE  ListsTypes'
<1>1. fetch \in [Fetches -> GetRecords]
  BY DEF LInv, ListsTypes, GetRecords
<1>2. fetch' \in [Fetches -> GetRecords]
  BY <1>1
<1>3. \A e \in Fetches : fetch'[e].list \in Lists <=> fetch'[e].at \in {"read", "answered"}
  BY <1>1 DEF LInv, ListsTypes
<1> QED
  BY <1>2, <1>3 DEF LInv, ListsTypes, GetRecords

\* A browser's new GET is its own and knows of its changes.
LEMMA Asked ==
    ASSUME LInv, NEW b \in Browsers, NEW f \in Fetches, NEW g \in GetRecords,
           fetch[f].at = "free",
           fetch' = [fetch EXCEPT ![f] = g],
           g.at = "sent", g.knows = acknowledged'[b],
           awaited' = [awaited EXCEPT ![b] = f],
           \A d \in Browsers \ {b} :
               acknowledged'[d] = acknowledged[d] /\ shown'[d] = shown[d],
           UNCHANGED changes, acknowledged'[b] <= changes
    PROVE  OneAsker' /\ ReadsKnow'
<1>1. /\ fetch'[f] = g /\ \A e \in Fetches \ {f} : fetch'[e] = fetch[e]
      /\ awaited'[b] = f /\ \A d \in Browsers \ {b} : awaited'[d] = awaited[d]
      /\ \A d \in Browsers : awaited[d] \in Fetches \union {NoFetch}
      /\ f # NoFetch
  BY ListsAssumption DEF LInv, ListsTypes
<1>2. \A d \in Browsers \ {b} : awaited[d] # f
  BY <1>1 DEF LInv, OneAsker
<1>3. OneAsker'
  <2> SUFFICES ASSUME NEW d \in Browsers, NEW e \in Browsers, awaited'[d] # NoFetch
               PROVE  /\ fetch'[awaited'[d]].at # "free"
                      /\ fetch'[awaited'[d]].knows = acknowledged'[d] \/ shown'[d] = Nothing
                      /\ awaited'[e] = awaited'[d] => e = d
    BY DEF OneAsker
  <2>1. CASE d = b
    BY <1>1, <1>2, <2>1
  <2>2. CASE d # b
    <3>1. /\ fetch[awaited[d]].at # "free"
          /\ fetch[awaited[d]].knows = acknowledged[d] \/ shown[d] = Nothing
          /\ awaited[e] = awaited[d] => e = d
      BY <1>1, <2>2 DEF LInv, OneAsker
    <3> QED
      BY <1>1, <1>2, <2>2, <3>1
  <2> QED
    BY <2>1, <2>2
<1>4. ReadsKnow'
  BY <1>1 DEF LInv, ReadsKnow
<1> QED
  BY <1>3, <1>4

\* A GET that goes on, awaited by whoever awaited it.
LEMMA GoesOn ==
    ASSUME LInv, NEW f \in Fetches, NEW g \in GetRecords,
           fetch' = [fetch EXCEPT ![f] = g],
           g.at # "free", g.knows = fetch[f].knows,
           g.at \in {"read", "answered"} /\ ~g.fromCache => g.list >= g.knows,
           UNCHANGED <<changes, queryCache, listsHistory>>
    PROVE  OneAsker' /\ ReadsKnow' /\ OwnChangesShown'
<1>1. /\ fetch'[f] = g /\ \A e \in Fetches \ {f} : fetch'[e] = fetch[e]
      /\ \A d \in Browsers : awaited[d] \in Fetches \union {NoFetch}
  BY DEF LInv, ListsTypes
<1>2. OneAsker'
  BY <1>1 DEF LInv, OneAsker, queryCache, listsHistory
<1>3. ReadsKnow'
  BY <1>1 DEF LInv, ReadsKnow
<1>4. OwnChangesShown'
  BY DEF LInv, OwnChangesShown, queryCache, listsHistory
<1> QED
  BY <1>2, <1>3, <1>4

\* A GET nobody awaits any longer.
LEMMA LetGo ==
    ASSUME LInv, NEW f \in Fetches,
           \A d \in Browsers : awaited'[d] # f,
           \A d \in Browsers :
               \/ awaited'[d] = awaited[d] /\ shown'[d] = shown[d]
               \/ awaited'[d] = NoFetch,
           fetch' = fetch \/ fetch' = [fetch EXCEPT ![f] = Free],
           UNCHANGED <<changes, acknowledged>>
    PROVE  OneAsker' /\ ReadsKnow'
<1>1. /\ \A e \in Fetches \ {f} : fetch'[e] = fetch[e]
      /\ fetch'[f] \in {fetch[f], Free}
      /\ \A d \in Browsers : awaited[d] \in Fetches \union {NoFetch}
      /\ changes \in Nat
  BY ListsApart DEF LInv, ListsTypes
<1>2. OneAsker'
  BY <1>1 DEF LInv, OneAsker
<1>3. ReadsKnow'
  BY <1>1, ListsApart DEF LInv, ReadsKnow
<1> QED
  BY <1>2, <1>3

LEMMA LInvNext == LInv /\ [ListsNext]_listsVars => LInv'
<1> SUFFICES ASSUME LInv, [ListsNext]_listsVars PROVE LInv'
  OBVIOUS
<1>0. /\ fetch \in [Fetches -> GetRecords]
      /\ \A f \in Fetches : fetch[f].list \in Lists <=> fetch[f].at \in {"read", "answered"}
      /\ changes \in Lists /\ cached \in Lists \union {Nothing} /\ age \in 0 .. CacheDuration - 1
      /\ awaited \in [Browsers -> Fetches \union {NoFetch}]
      /\ shown \in [Browsers -> Lists \union {Nothing}]
      /\ invalidated \in [Browsers -> BOOLEAN]
      /\ mutation \in [Browsers -> {"none", "sent", "committed"}]
      /\ acknowledged \in [Browsers -> 0 .. changes]
      /\ excused \in [Browsers -> BOOLEAN]
      /\ Lists \subseteq Nat /\ Nothing \notin Lists /\ MaxChanges \in Nat
      /\ NoFetch \notin Fetches /\ CacheDuration \in Nat \ {0} /\ 0 \in 0 .. CacheDuration - 1
  BY ListsAssumption, ListsApart DEF LInv, ListsTypes, GetRecords
<1>1. ASSUME NEW b \in Browsers, NEW f \in Fetches, Refetch(b, f) PROVE LInv'
  <2> DEFINE g == [Free EXCEPT !.at = "sent", !.knows = acknowledged[b]]
  <2>1. g \in GetRecords /\ g.at = "sent" /\ g.knows = acknowledged[b] /\ g.list \notin Lists
    <3>1. acknowledged[b] \in 0 .. changes /\ changes \in 0 .. MaxChanges
      BY <1>0 DEF Lists
    <3>2. acknowledged[b] \in Lists
      BY <1>0, <3>1 DEF Lists
    <3> QED
      BY <3>2, ListsApart DEF GetRecords
  <2>2. /\ fetch[f].at = "free" /\ fetch' = [fetch EXCEPT ![f] = g]
        /\ awaited' = [awaited EXCEPT ![b] = f]
        /\ UNCHANGED <<changes, serverCache, shown, invalidated, mutation, listsHistory>>
    BY <1>1 DEF Refetch, SendGet
  <2>3. acknowledged[b] <= changes
    BY <1>0 DEF Lists
  <2> HIDE DEF g
  <2>4. OneAsker' /\ ReadsKnow'
    BY <2>1, <2>2, <2>3, Asked DEF listsHistory
  <2>5. ListsTypes'
    BY <1>0, <2>1, <2>2, GetMoves DEF serverCache, listsHistory
  <2>6. OwnChangesShown'
    BY <2>2 DEF LInv, OwnChangesShown, listsHistory
  <2> QED
    BY <2>4, <2>5, <2>6 DEF LInv
<1>2. ASSUME NEW b \in Browsers, Settle(b) PROVE LInv'
  <2> DEFINE f == awaited[b]
  <2>1. /\ f \in Fetches /\ f # NoFetch /\ fetch[f].at = "answered" /\ fetch[f].list \in Lists
        /\ fetch[f].knows = acknowledged[b] \/ shown[b] = Nothing
        /\ fetch[f].fromCache \in BOOLEAN
        /\ \A d \in Browsers \ {b} : awaited[d] # f
    BY <1>0, <1>2 DEF Settle, LInv, OneAsker, GetRecords
  <2>2. /\ shown' = [shown EXCEPT ![b] = fetch[f].list]
        /\ invalidated' = [invalidated EXCEPT ![b] = FALSE]
        /\ awaited' = [awaited EXCEPT ![b] = NoFetch]
        /\ excused' = [excused EXCEPT ![b] = Excuses(b, f)] /\ Excuses(b, f) \in BOOLEAN
        /\ fetch' = [fetch EXCEPT ![f] = Free]
        /\ UNCHANGED <<changes, serverCache, mutation, acknowledged>>
    BY <1>2, <2>1 DEF Settle, Excuses
  <2> HIDE DEF f
  <2>3. ListsTypes'
    BY <1>0, <2>1, <2>2, ListsApart, GetMoves DEF serverCache
  <2>4. OneAsker' /\ ReadsKnow'
    <3>1. \A d \in Browsers : /\ awaited'[d] # f
                              /\ \/ awaited'[d] = awaited[d] /\ shown'[d] = shown[d]
                                 \/ awaited'[d] = NoFetch
      BY <1>0, <2>1, <2>2
    <3> QED
      BY <2>1, <2>2, <3>1, LetGo
  <2>5. OwnChangesShown'
    <3> SUFFICES ASSUME NEW d \in Browsers, shown'[d] < acknowledged'[d]
                 PROVE  invalidated'[d] \/ excused'[d]
      BY DEF OwnChangesShown
    <3>1. CASE d = b
      <4>1. shown'[d] = fetch[f].list /\ acknowledged'[d] = acknowledged[b]
            /\ excused'[d] = Excuses(b, f)
        BY <1>0, <2>1, <2>2, <3>1
      <4>2. fetch[f].list \in Nat /\ fetch[f].knows \in Nat
        BY <1>0, <2>1 DEF GetRecords
      <4>3. fetch[f].knows = acknowledged[b] => fetch[f].fromCache
        BY <2>1, <4>1, <4>2 DEF LInv, ReadsKnow
      <4>4. Excuses(b, f)
        BY <2>1, <4>3 DEF Excuses
      <4> QED
        BY <4>1, <4>4
    <3>2. CASE d # b
      BY <1>0, <2>2, <3>2 DEF LInv, OwnChangesShown
    <3> QED
      BY <3>1, <3>2
  <2> QED
    BY <2>3, <2>4, <2>5 DEF LInv
<1>3. ASSUME NEW b \in Browsers, FetchFails(b) PROVE LInv'
  <2> DEFINE f == awaited[b]
  <2>1. f \in Fetches /\ f # NoFetch /\ \A d \in Browsers \ {b} : awaited[d] # f
    BY <1>0, <1>3 DEF FetchFails, LInv, OneAsker
  <2>2. /\ awaited' = [awaited EXCEPT ![b] = NoFetch]
        /\ fetch' = fetch \/ fetch' = [fetch EXCEPT ![f] = Free]
        /\ UNCHANGED <<changes, serverCache, shown, invalidated, mutation, listsHistory>>
    BY <1>3 DEF FetchFails
  <2> HIDE DEF f
  <2>3. OneAsker' /\ ReadsKnow'
    <3>1. \A d \in Browsers : /\ awaited'[d] # f
                              /\ \/ awaited'[d] = awaited[d] /\ shown'[d] = shown[d]
                                 \/ awaited'[d] = NoFetch
      BY <1>0, <2>1, <2>2
    <3> QED
      BY <2>1, <2>2, <3>1, LetGo DEF listsHistory
  <2>4. ListsTypes'
    <3>1. CASE fetch' = fetch
      BY <1>0, <2>1, <2>2, <3>1 DEF LInv, ListsTypes, serverCache, listsHistory
    <3>2. CASE fetch' = [fetch EXCEPT ![f] = Free]
      BY <1>0, <2>1, <2>2, <3>2, ListsApart, GetMoves DEF serverCache, listsHistory
    <3> QED
      BY <2>2, <3>1, <3>2
  <2>5. OwnChangesShown'
    BY <2>2 DEF LInv, OwnChangesShown, listsHistory
  <2> QED
    BY <2>3, <2>4, <2>5 DEF LInv
<1>4. ASSUME NEW b \in Browsers, mutation' \in [Browsers -> {"none", "sent", "committed"}],
             UNCHANGED <<changes, serverCache, fetch, queryCache, listsHistory>>
      PROVE  LInv'
  BY <1>4 DEF LInv, ListsTypes, OneAsker, ReadsKnow, OwnChangesShown, serverCache, queryCache,
     listsHistory
<1>5. ASSUME NEW b \in Browsers, Mutate(b) PROVE LInv'
  BY <1>0, <1>4, <1>5 DEF Mutate
<1>6. ASSUME NEW b \in Browsers, Commit(b) PROVE LInv'
  <2>1. /\ changes' = changes + 1 /\ changes' \in Lists
        /\ mutation' = [mutation EXCEPT ![b] = "committed"]
        /\ UNCHANGED <<serverCache, fetch, queryCache, listsHistory>>
    BY <1>0, <1>6 DEF Commit, Lists
  <2>2. acknowledged' \in [Browsers -> 0 .. changes']
    BY <1>0, <2>1 DEF listsHistory
  <2>3. ListsTypes'
    BY <1>0, <2>1, <2>2 DEF LInv, ListsTypes, serverCache, queryCache, listsHistory
  <2>4. ReadsKnow'
    <3>1. \A f \in Fetches : fetch[f].knows \in Nat /\ fetch[f].knows <= changes /\ changes \in Nat
      BY <1>0 DEF LInv, ReadsKnow, GetRecords
    <3>2. \A f \in Fetches : fetch[f].knows <= changes'
      BY <2>1, <3>1
    <3> QED
      BY <2>1, <3>2 DEF LInv, ReadsKnow
  <2> QED
    BY <2>1, <2>3, <2>4 DEF LInv, OneAsker, OwnChangesShown, queryCache, listsHistory
<1>7. ASSUME NEW b \in Browsers, MutationSucceeds(b) PROVE LInv'
  <2> DEFINE g == [Free EXCEPT !.at = "sent", !.knows = changes]
  <2>1. g \in GetRecords /\ g.at = "sent" /\ g.knows = changes /\ g.list \notin Lists
    BY <1>0, ListsApart DEF GetRecords
  <2>2. \/ UNCHANGED <<fetch, awaited>> /\ shown[b] = Nothing
        \/ \E f \in Fetches : /\ fetch[f].at = "free" /\ fetch' = [fetch EXCEPT ![f] = g]
                              /\ awaited' = [awaited EXCEPT ![b] = f]
    BY <1>7 DEF MutationSucceeds
  <2>3. /\ mutation' = [mutation EXCEPT ![b] = "none"]
        /\ acknowledged' = [acknowledged EXCEPT ![b] = changes]
        /\ excused' = [excused EXCEPT ![b] = FALSE]
        /\ invalidated' = [invalidated EXCEPT ![b] = TRUE]
        /\ UNCHANGED <<changes, serverCache, shown>>
    BY <1>7 DEF MutationSucceeds
  <2> HIDE DEF g
  <2>4. changes \in 0 .. changes /\ acknowledged'[b] = changes /\ acknowledged'[b] <= changes
        /\ \A d \in Browsers \ {b} : acknowledged'[d] = acknowledged[d]
    BY <1>0, <2>3
  <2>5. acknowledged' \in [Browsers -> 0 .. changes]
    BY <1>0, <2>3, <2>4
  <2>6. OwnChangesShown'
    BY <1>0, <2>3 DEF LInv, OwnChangesShown
  <2>7. CASE UNCHANGED <<fetch, awaited>> /\ shown[b] = Nothing
    <3>1. ListsTypes'
      BY <1>0, <2>3, <2>5, <2>7 DEF ListsTypes, GetRecords, serverCache
    <3>2. OneAsker'
      BY <2>3, <2>4, <2>7 DEF LInv, OneAsker
    <3>3. ReadsKnow'
      BY <2>3, <2>7 DEF LInv, ReadsKnow
    <3> QED
      BY <2>6, <3>1, <3>2, <3>3 DEF LInv
  <2>8. ASSUME NEW f \in Fetches, fetch[f].at = "free", fetch' = [fetch EXCEPT ![f] = g],
               awaited' = [awaited EXCEPT ![b] = f]
        PROVE  LInv'
    <3>1. OneAsker' /\ ReadsKnow'
      BY <2>1, <2>3, <2>4, <2>8, Asked
    <3>2. ListsTypes'
      BY <1>0, <2>1, <2>3, <2>5, <2>8, GetMoves DEF serverCache
    <3> QED
      BY <2>6, <3>1, <3>2 DEF LInv
  <2> QED
    BY <2>2, <2>7, <2>8
<1>8. ASSUME NEW b \in Browsers, MutationFails(b) PROVE LInv'
  BY <1>0, <1>4, <1>8 DEF MutationFails
<1>9. ASSUME NEW f \in Fetches, NEW g \in GetRecords,
             fetch' = [fetch EXCEPT ![f] = g],
             g.at \in {"read", "answered"}, g.list \in Lists, g.knows = fetch[f].knows,
             ~g.fromCache => g.list >= g.knows,
             cached' \in Lists \union {Nothing}, age' \in 0 .. CacheDuration - 1,
             UNCHANGED <<changes, queryCache, mutation, listsHistory>>
      PROVE  LInv'
  <2>1. ListsTypes'
    BY <1>0, <1>9, GetMoves DEF queryCache, listsHistory
  <2>2. OneAsker' /\ ReadsKnow' /\ OwnChangesShown'
    BY <1>9, GoesOn
  <2> QED
    BY <2>1, <2>2 DEF LInv
<1>10. ASSUME NEW f \in Fetches, CacheHit(f) PROVE LInv'
  <2> DEFINE g == [fetch[f] EXCEPT !.at = "answered", !.list = cached, !.fromCache = TRUE]
  <2>1. g \in GetRecords /\ g.at = "answered" /\ g.list = cached /\ g.fromCache = TRUE
        /\ g.knows = fetch[f].knows /\ cached \in Lists
    BY <1>0, <1>10 DEF CacheHit, GetRecords
  <2>2. fetch' = [fetch EXCEPT ![f] = g]
    BY <1>0, <1>10 DEF CacheHit
  <2> HIDE DEF g
  <2> QED
    BY <1>0, <1>9, <1>10, <2>1, <2>2 DEF CacheHit, serverCache
<1>11. ASSUME NEW f \in Fetches, CacheMiss(f) PROVE LInv'
  <2> DEFINE g == [fetch[f] EXCEPT !.at = "read", !.list = changes]
  <2>1. g \in GetRecords /\ g.at = "read" /\ g.list = changes /\ g.knows = fetch[f].knows
    BY <1>0, <1>11 DEF CacheMiss, GetRecords
  <2>2. fetch' = [fetch EXCEPT ![f] = g]
    BY <1>0, <1>11 DEF CacheMiss
  <2>3. g.knows <= changes /\ g.knows \in Nat /\ changes \in Nat
    BY <1>0, <2>1 DEF LInv, ReadsKnow, GetRecords
  <2> HIDE DEF g
  <2> QED
    BY <1>0, <1>9, <1>11, <2>1, <2>2, <2>3 DEF CacheMiss, serverCache
<1>12. ASSUME NEW f \in Fetches, Store(f) PROVE LInv'
  <2> DEFINE g == [fetch[f] EXCEPT !.at = "answered"]
  <2>1. g \in GetRecords /\ g.at = "answered" /\ g.list = fetch[f].list
        /\ g.knows = fetch[f].knows /\ g.fromCache = fetch[f].fromCache
        /\ fetch[f].list \in Lists
    BY <1>0, <1>12 DEF Store, GetRecords
  <2>2. fetch' = [fetch EXCEPT ![f] = g]
    BY <1>0, <1>12 DEF Store
  <2>3. ~g.fromCache => g.list >= g.knows
    BY <1>12, <2>1 DEF Store, LInv, ReadsKnow
  <2> HIDE DEF g
  <2> QED
    BY <1>0, <1>9, <1>12, <2>1, <2>2, <2>3 DEF Store
<1>13. ASSUME NEW f \in Fetches, Drop(f) PROVE LInv'
  <2>1. \A d \in Browsers : /\ awaited'[d] # f /\ awaited'[d] = awaited[d]
                            /\ shown'[d] = shown[d]
    BY <1>13 DEF Drop, queryCache
  <2>2. OneAsker' /\ ReadsKnow'
    BY <1>13, <2>1, LetGo DEF Drop, listsHistory
  <2>3. ListsTypes'
    BY <1>0, <1>13, ListsApart, GetMoves DEF Drop, serverCache, queryCache, listsHistory
  <2>4. OwnChangesShown'
    BY <1>13 DEF Drop, LInv, OwnChangesShown, queryCache, listsHistory
  <2> QED
    BY <2>2, <2>3, <2>4 DEF LInv
<1>14. CASE Tick
  <2>1. cached' \in Lists \union {Nothing} /\ age' \in 0 .. CacheDuration - 1
    BY <1>0, <1>14 DEF Tick
  <2> QED
    BY <1>14, <2>1 DEF Tick, LInv, ListsTypes, OneAsker, ReadsKnow, OwnChangesShown, queryCache,
       listsHistory
<1>15. CASE UNCHANGED listsVars
  BY <1>0, <1>4, <1>15 DEF listsVars, LInv, ListsTypes, OneAsker, ReadsKnow, OwnChangesShown,
     serverCache, queryCache, listsHistory
<1> QED
  BY <1>1, <1>2, <1>3, <1>5, <1>6, <1>7, <1>8, <1>10, <1>11, <1>12, <1>13, <1>14, <1>15
  DEF ListsNext

LEMMA LInvHolds == ListsSpec => []LInv
BY LInvInit, LInvNext, PTL DEF ListsSpec

\* Every state of the lists is well-typed.
THEOREM ListsTyped == ListsSpec => []ListsTypes
<1>1. LInv => ListsTypes
  BY DEF LInv
<1> QED
  BY <1>1, LInvHolds, PTL

\* Whoever changed the list sees the change, except in its first list and in one the
\* server had cached, for any number of browsers, GETs under way and changes.
THEOREM OwnChangesSeen == ListsSpec => []OwnChangesShown
<1>1. LInv => OwnChangesShown
  BY DEF LInv
<1> QED
  BY <1>1, LInvHolds, PTL

-----------------------------------------------------------------------------
(* The admin's session. *)

USE DEF Calls

\* Sending the profile call, or not, keeps the calls well-typed.
LEMMA MountTyped ==
    ASSUME NEW n \in Nat, NEW m \in Nat, n <= m, NEW p \in 0 .. m, NEW s, NEW f,
           callAt \in [Calls -> {"idle", "sent", "waiting", "refreshing"}],
           of \in [Calls -> 0 .. n],
           retriedCall \in [Calls -> BOOLEAN],
           Mount(p, s, f)
    PROVE  /\ callAt' \in [Calls -> {"idle", "sent", "waiting", "refreshing"}]
           /\ of' \in [Calls -> 0 .. m]
           /\ retriedCall' \in [Calls -> BOOLEAN]
<1>1. of \in [Calls -> 0 .. m]
  OBVIOUS
<1>2. CASE UNCHANGED callVars
  BY <1>1, <1>2 DEF callVars
<1>3. CASE SendCall(Me, p)
  BY <1>1, <1>3 DEF SendCall
<1> QED
  BY <1>2, <1>3 DEF Mount

RestartOK ==
    /\ page' \in {"signin", "inside"}
    /\ store' \in 0 .. last
    /\ profile' \in 0 .. last
    /\ fresh' \in BOOLEAN
    /\ callAt' \in [Calls -> {"idle", "sent", "waiting", "refreshing"}]
    /\ of' \in [Calls -> 0 .. last]
    /\ retriedCall' \in [Calls -> BOOLEAN]
    /\ login' = FALSE

\* What is left to show of a step that started over.
LEMMA Kept ==
    ASSUME AdminTypes, RestartOK, UNCHANGED adminHistory,
           storedPair' \in 0 .. last, cookie' \in 0 .. last
    PROVE  AdminTypes'
BY DEF AdminTypes, RestartOK, adminHistory

\* So does starting over.
LEMMA RestartTyped ==
    ASSUME AdminTypes, NEW p \in {0, storedPair}, NEW c \in {0, cookie}, NEW there,
           Restart(p, c, there)
    PROVE  RestartOK
<1>1. p \in 0 .. last /\ c \in 0 .. last /\ 0 \in 0 .. last
  BY DEF AdminTypes
<1>2. of' \in [Calls -> 0 .. last]
  BY <1>1 DEF AdminTypes, Restart
<1> QED
  BY <1>1, <1>2 DEF Restart, RestartOK

\* Every value stays what it is declared to be; a token is of a login there was.
THEOREM AdminTyped == AdminSpec => []AdminTypes
<1>1. AdminInit => AdminTypes
  <2> SUFFICES ASSUME AdminInit PROVE AdminTypes
    OBVIOUS
  <2>1. 0 \in 0 .. MaxSignIns /\ 0 \in 0 .. 0
    BY AdminAssumption
  <2>2. of \in [Calls -> 0 .. 0]
    BY <2>1 DEF AdminInit
  <2>3. {storedPair, store, cookie, profile} \subseteq 0 .. 0
    BY <2>1 DEF AdminInit
  <2> QED
    BY <2>1, <2>2, <2>3 DEF AdminInit, AdminTypes
<1>2. AdminTypes /\ [AdminNext]_adminVars => AdminTypes'
  <2> SUFFICES ASSUME AdminTypes, [AdminNext]_adminVars PROVE AdminTypes'
    OBVIOUS
  <2>0. last \in Nat /\ MaxSignIns \in Nat
    BY AdminAssumption DEF AdminTypes
  <2>1. CASE SubmitLogin
    BY <2>0, <2>1 DEF SubmitLogin, AdminTypes, profileCache, callVars, adminHistory
  <2>2. CASE LoginAccepted
    <3>1. last < MaxSignIns /\ last' = last + 1 /\ last' \in 0 .. MaxSignIns /\ last' # 0
      BY <2>0, <2>2 DEF LoginAccepted, AdminTypes
    <3>2. 0 .. last \subseteq 0 .. last' /\ last <= last' /\ last' \in 0 .. last'
      BY <2>0, <3>1
    <3>3. Mount(storedPair', store', fresh') /\ storedPair' \in 0 .. last' /\ last' \in Nat
      BY <2>0, <2>2, <3>1, <3>2 DEF LoginAccepted
    <3>4. /\ callAt' \in [Calls -> {"idle", "sent", "waiting", "refreshing"}]
          /\ of' \in [Calls -> 0 .. last']
          /\ retriedCall' \in [Calls -> BOOLEAN]
      BY <2>0, <3>2, <3>3, MountTyped DEF AdminTypes
    <3>5. {storedPair', store', cookie', profile'} \subseteq 0 .. last'
      BY <2>2, <3>2 DEF LoginAccepted, AdminTypes
    <3> QED
      BY <2>2, <3>1, <3>4, <3>5 DEF LoginAccepted, AdminTypes
  <2>3. CASE LoginRefused
    BY <2>3 DEF LoginRefused, AdminTypes, profileCache, callVars, adminHistory
  <2>4. CASE Enter
    <3>1. /\ callAt' \in [Calls -> {"idle", "sent", "waiting", "refreshing"}]
          /\ of' \in [Calls -> 0 .. last]
          /\ retriedCall' \in [Calls -> BOOLEAN]
      BY <2>0, <2>4, MountTyped DEF Enter, AdminTypes
    <3> QED
      BY <2>4, <3>1 DEF Enter, AdminTypes, profileCache, adminHistory
  <2>5. CASE GoToSignIn
    BY <2>5 DEF GoToSignIn, AdminTypes, profileCache, callVars, adminHistory
  <2>6. CASE SignOut
    BY <2>0, <2>6 DEF SignOut, AdminTypes, profileCache, callVars
  <2>7. CASE Reload
    <3>1. Restart(storedPair, cookie, page) /\ storedPair \in {0, storedPair} /\ cookie \in {0,
        cookie}
      BY <2>7 DEF Reload
    <3>2. RestartOK
      BY <3>1, RestartTyped DEF RestartOK
    <3>3. storedPair' \in 0 .. last /\ cookie' \in 0 .. last
      BY <2>7 DEF Reload, AdminTypes
    <3> QED
      BY <2>7, <3>2, <3>3, Kept DEF Reload, RestartOK, adminHistory
  <2>8. CASE ExpireCookie
    BY <2>0, <2>8 DEF ExpireCookie, AdminTypes, profileCache, callVars, adminHistory
  <2>9. CASE ClearElsewhere
    BY <2>0, <2>9 DEF ClearElsewhere, AdminTypes, profileCache, callVars, adminHistory
  <2>10. CASE Age
    BY <2>10 DEF Age, AdminTypes, callVars, adminHistory
  <2>11. CASE Forget
    <3>1. profile' = 0 /\ fresh' = FALSE /\ 0 \in 0 .. last
      BY <2>0, <2>11 DEF Forget
    <3>2. {storedPair', store', cookie', profile'} \subseteq 0 .. last'
      BY <2>11, <3>1 DEF Forget, AdminTypes, adminHistory
    <3> QED
      BY <2>11, <3>1, <3>2 DEF Forget, AdminTypes, callVars, adminHistory
  <2>12. CASE Focus
    <3>1. SendCall(Me, storedPair) /\ Me \in Calls
      BY <2>12 DEF Focus
    <3>2. /\ callAt' \in [Calls -> {"idle", "sent", "waiting", "refreshing"}]
          /\ of' \in [Calls -> 0 .. last]
          /\ retriedCall' \in [Calls -> BOOLEAN]
      BY <3>1 DEF SendCall, AdminTypes
    <3> QED
      BY <2>12, <3>2 DEF Focus, AdminTypes, profileCache, adminHistory
  <2>13. ASSUME NEW c \in PageCalls, SendPageCall(c) PROVE AdminTypes'
    <3>1. SendCall(c, storedPair) /\ c \in Calls
      BY <2>13 DEF SendPageCall
    <3>2. /\ callAt' \in [Calls -> {"idle", "sent", "waiting", "refreshing"}]
          /\ of' \in [Calls -> 0 .. last]
          /\ retriedCall' \in [Calls -> BOOLEAN]
      BY <3>1 DEF SendCall, AdminTypes
    <3> QED
      BY <2>13, <3>2 DEF SendPageCall, AdminTypes, profileCache, adminHistory
  <2>14. ASSUME NEW c \in Calls, Answer(c) PROVE AdminTypes'
    <3>1. profile' \in 0 .. last /\ fresh' \in BOOLEAN
      BY <2>14 DEF Answer, AdminTypes, profileCache
    <3> QED
      BY <2>14, <3>1 DEF Answer, AdminTypes, adminHistory
  <2>15. ASSUME NEW c \in Calls, Fail(c) PROVE AdminTypes'
    BY <2>15 DEF Fail, AdminTypes, profileCache
  <2>16. ASSUME NEW c \in Calls, SessionExpired(c) PROVE AdminTypes'
    BY <2>0, <2>16 DEF SessionExpired, AdminTypes, profileCache
  <2>17. ASSUME NEW c \in Calls, Wait(c) PROVE AdminTypes'
    BY <2>17 DEF Wait, AdminTypes, profileCache, adminHistory
  <2>18. ASSUME NEW c \in Calls, StartRefresh(c) PROVE AdminTypes'
    BY <2>18 DEF StartRefresh, AdminTypes, profileCache, adminHistory
  <2>19. ASSUME NEW c \in Calls, LeaveWithoutTokens(c) PROVE AdminTypes'
    <3>1. Restart(0, 0, "signin") /\ 0 \in {0, storedPair} /\ 0 \in {0, cookie}
      BY <2>19 DEF LeaveWithoutTokens
    <3>2. RestartOK
      BY <3>1, RestartTyped DEF RestartOK
    <3>3. storedPair' \in 0 .. last /\ cookie' \in 0 .. last
      BY <2>0, <2>19 DEF LeaveWithoutTokens, AdminTypes
    <3> QED
      BY <2>19, <3>2, <3>3, Kept DEF LeaveWithoutTokens, RestartOK, adminHistory
  <2>20. ASSUME NEW c \in Calls, RefreshAnswered(c) PROVE AdminTypes'
    BY <2>20 DEF RefreshAnswered, AdminTypes, profileCache, adminHistory
  <2>21. ASSUME NEW c \in Calls, RefreshDenied(c) PROVE AdminTypes'
    <3>1. Restart(0, cookie, "signin") /\ 0 \in {0, storedPair} /\ cookie \in {0, cookie}
      BY <2>21 DEF RefreshDenied
    <3>2. RestartOK
      BY <3>1, RestartTyped DEF RestartOK
    <3>3. storedPair' \in 0 .. last /\ cookie' \in 0 .. last
      BY <2>0, <2>21 DEF RefreshDenied, AdminTypes
    <3> QED
      BY <2>21, <3>2, <3>3, Kept DEF RefreshDenied, RestartOK, adminHistory
  <2>22. CASE UNCHANGED adminVars
    BY <2>22 DEF adminVars, AdminTypes, profileCache, callVars, adminHistory
  <2> QED
    BY <2>1, <2>2, <2>3, <2>4, <2>5, <2>6, <2>7, <2>8, <2>9, <2>10, <2>11, <2>12, <2>13,
       <2>14, <2>15, <2>16, <2>17, <2>18, <2>19, <2>20, <2>21, <2>22 DEF AdminNext
<1> QED
  BY <1>1, <1>2, PTL DEF AdminSpec

-----------------------------------------------------------------------------
(* Sessions do not mix. *)

UInv == SessionsUnmixed /\ OldProfileLeaves

\* After a restart only the profile call can be in flight, with the pair there is.
LEMMA RestartUnmixed ==
    ASSUME AdminTypes, UInv, UNCHANGED adminHistory, NEW p \in {0, storedPair}, NEW c \in {0,
           cookie},
           NEW there, Restart(p, c, there), storedPair' \in {0, storedPair}, cookie' \in {0, cookie}
    PROVE  UInv'
<1> SUFFICES ASSUME ~crossed PROVE UInv'
  BY DEF UInv, SessionsUnmixed, OldProfileLeaves, adminHistory
<1>1. {storedPair, store, cookie} \subseteq {0, last} /\ last' = last /\ ~crossed
  BY DEF UInv, SessionsUnmixed, adminHistory
<1>2. p \in {0, last} /\ c \in {0, last}
  BY <1>1
<1>3. {storedPair', store', cookie'} \subseteq {0, last'}
  BY <1>1, <1>2 DEF Restart
<1>4. \A d \in InFlight' : of'[d] \in {0, last'}
  BY <1>1, <1>2 DEF Restart, InFlight, AdminTypes
<1>5. ~fresh' /\ profile' = 0
  BY DEF Restart
<1> QED
  BY <1>3, <1>4, <1>5 DEF UInv, SessionsUnmixed, OldProfileLeaves

\* Sending a call with a token of the last login.
LEMMA SendUnmixed ==
    ASSUME AdminTypes, SessionsUnmixed, ~crossed, NEW c \in Calls,
           NEW p \in {0, last}, SendCall(c, p)
    PROVE  /\ \A d \in InFlight' : of'[d] \in {0, last}
           /\ callAt'[c] = "sent"
           /\ \A d \in Calls \ {c} : callAt'[d] = callAt[d]
BY DEF SendCall, InFlight, SessionsUnmixed, AdminTypes

\* Mounting the user menu.
LEMMA MountUnmixed ==
    ASSUME AdminTypes, SessionsUnmixed, ~crossed, NEW p \in {0, last}, NEW s, NEW f,
           Mount(p, s, f)
    PROVE  /\ \A d \in InFlight' : of'[d] \in {0, last}
           /\ callAt[Me] # "idle" => callAt'[Me] # "idle"
<1>1. CASE UNCHANGED callVars
  BY <1>1 DEF callVars, InFlight, SessionsUnmixed
<1>2. CASE SendCall(Me, p)
  BY <1>2, SendUnmixed
<1> QED
  BY <1>1, <1>2 DEF Mount

\* Unless a login was accepted while an earlier call was in flight, tokens and a
\* valid profile are of the last login, and an earlier profile is being replaced.
LEMMA UnmixedStep == AdminTypes /\ UInv /\ [AdminNext]_adminVars => UInv'
<1> SUFFICES ASSUME AdminTypes, UInv, [AdminNext]_adminVars, ~crossed' PROVE UInv'
  BY DEF UInv, SessionsUnmixed, OldProfileLeaves
<1>0. /\ last \in Nat
      /\ ~crossed => SessionsUnmixed /\ OldProfileLeaves
      /\ ~crossed => {storedPair, store, cookie} \subseteq {0, last}
  BY DEF UInv, SessionsUnmixed, AdminTypes
<1>1. CASE SubmitLogin
  BY <1>1 DEF SubmitLogin, UInv, SessionsUnmixed, OldProfileLeaves, InFlight, profileCache,
              callVars, adminHistory
<1>2. CASE LoginAccepted
  <2>1. ~crossed /\ InFlight = {} /\ last' = last + 1 /\ last' # 0
    <3>1. last' = last + 1 /\ last' # 0
      BY <1>0, <1>2 DEF LoginAccepted
    <3>2. crossed' = (crossed \/ InFlight # {})
      BY <1>2 DEF LoginAccepted
    <3>3. ~(crossed \/ InFlight # {})
      BY <3>2, Zenon
    <3> QED
      BY <3>1, <3>3, Zenon
  <2>2. callAt[Me] = "idle"
    BY <2>1 DEF InFlight
  <2>3. SendCall(Me, last')
    BY <1>2, <2>1, <2>2 DEF LoginAccepted, Mount
  <2>4. InFlight' = {Me} /\ of'[Me] = last' /\ callAt'[Me] = "sent"
    BY <2>1, <2>3 DEF SendCall, InFlight, AdminTypes
  <2> QED
    BY <1>2, <2>4 DEF LoginAccepted, UInv, SessionsUnmixed, OldProfileLeaves
<1>3. CASE LoginRefused
  BY <1>3 DEF LoginRefused, UInv, SessionsUnmixed, OldProfileLeaves, InFlight, profileCache,
              callVars,
     adminHistory
<1>4. CASE Enter
  <2>1. ~crossed /\ last' = last /\ failed' = failed /\ storedPair \in {0, last}
    BY <1>0, <1>4 DEF Enter, adminHistory
  <2>2. /\ \A d \in InFlight' : of'[d] \in {0, last}
        /\ callAt[Me] # "idle" => callAt'[Me] # "idle"
    BY <1>0, <1>4, <2>1, MountUnmixed DEF Enter
  <2> QED
    BY <1>4, <2>1, <2>2 DEF Enter, UInv, SessionsUnmixed, OldProfileLeaves, profileCache
<1>5. CASE GoToSignIn
  BY <1>5 DEF GoToSignIn, UInv, SessionsUnmixed, OldProfileLeaves, InFlight, profileCache,
              callVars, adminHistory
<1>6. CASE SignOut
  BY <1>6 DEF SignOut, UInv, SessionsUnmixed, OldProfileLeaves, InFlight, profileCache, callVars
<1>7. CASE Reload
  <2>1. /\ Restart(storedPair, cookie, page)
        /\ storedPair \in {0, storedPair} /\ cookie \in {0, cookie}
        /\ storedPair' \in {0, storedPair} /\ cookie' \in {0, cookie}
        /\ UNCHANGED adminHistory
    BY <1>7 DEF Reload
  <2> QED
    BY <2>1, RestartUnmixed
<1>8. CASE ExpireCookie
  BY <1>8 DEF ExpireCookie, UInv, SessionsUnmixed, OldProfileLeaves, InFlight, profileCache,
              callVars,
     adminHistory
<1>9. CASE ClearElsewhere
  BY <1>9 DEF ClearElsewhere, UInv, SessionsUnmixed, OldProfileLeaves, InFlight, profileCache,
              callVars,
     adminHistory
<1>10. CASE Age
  BY <1>10 DEF Age, UInv, SessionsUnmixed, OldProfileLeaves, InFlight, callVars, adminHistory
<1>11. CASE Forget
  BY <1>11 DEF Forget, UInv, SessionsUnmixed, OldProfileLeaves, InFlight, callVars, adminHistory
<1>12. CASE Focus
  <2>1. SendCall(Me, storedPair) /\ ~crossed /\ last' = last /\ storedPair \in {0, last}
    BY <1>0, <1>12 DEF Focus, adminHistory
  <2>2. (\A d \in InFlight' : of'[d] \in {0, last}) /\ callAt'[Me] = "sent"
    BY <1>0, <2>1, SendUnmixed
  <2> QED
    BY <1>12, <2>1, <2>2 DEF Focus, UInv, SessionsUnmixed, OldProfileLeaves, profileCache
<1>13. ASSUME NEW c \in PageCalls, SendPageCall(c) PROVE UInv'
  <2>1. /\ SendCall(c, storedPair) /\ ~crossed /\ last' = last /\ failed' = failed
        /\ storedPair \in {0, last} /\ c \in Calls /\ Me \in Calls \ {c}
    BY <1>0, <1>13, AdminAssumption DEF SendPageCall, adminHistory
  <2>2. (\A d \in InFlight' : of'[d] \in {0, last}) /\ callAt'[Me] = callAt[Me]
    BY <1>0, <2>1, SendUnmixed
  <2> QED
    BY <1>13, <2>1, <2>2 DEF SendPageCall, UInv, SessionsUnmixed, OldProfileLeaves, profileCache
<1>14. ASSUME NEW c \in Calls, Answer(c) PROVE UInv'
  <2>1. /\ ~crossed /\ last' = last /\ c \in InFlight /\ of[c] = last
        /\ UNCHANGED <<storedPair, store, cookie>>
    BY <1>0, <1>14 DEF Answer, adminHistory, InFlight, SessionsUnmixed
  <2>2. \A d \in InFlight' : d \in InFlight /\ of'[d] \in {0, last}
    BY <1>0, <1>14, <2>1 DEF Answer, InFlight, SessionsUnmixed, AdminTypes
  <2>3. CASE c = Me
    <3>1. profile' = last
      BY <1>14, <2>1, <2>3 DEF Answer
    <3>2. {storedPair', store', cookie'} \subseteq {0, last'}
      BY <1>0, <2>1
    <3>3. \A d \in InFlight' : of'[d] \in {0, last'}
      BY <2>1, <2>2
    <3> QED
      BY <2>1, <3>1, <3>2, <3>3 DEF UInv, SessionsUnmixed, OldProfileLeaves
  <2>4. CASE c # Me
    <3>1. callAt'[Me] = callAt[Me] /\ UNCHANGED <<profile, fresh, failed>>
      BY <1>14, <2>4 DEF Answer, AdminTypes, profileCache, adminHistory
    <3> QED
      BY <1>0, <2>1, <2>2, <3>1 DEF UInv, SessionsUnmixed, OldProfileLeaves
  <2> QED
    BY <2>3, <2>4
<1>15. ASSUME NEW c \in Calls, Fail(c) \/ SessionExpired(c) PROVE UInv'
  <2>1. /\ ~crossed /\ last' = last /\ UNCHANGED <<storedPair, profile, fresh, of>>
        /\ failed' = (failed \/ c = Me)
        /\ callAt' = [callAt EXCEPT ![c] = "idle"]
        /\ store' \in {0, store} /\ cookie' \in {0, cookie}
    BY <1>15 DEF Fail, SessionExpired, profileCache
  <2>2. \A d \in InFlight' : d \in InFlight
    BY <2>1 DEF InFlight, AdminTypes
  <2>3. c # Me => callAt'[Me] = callAt[Me]
    BY <2>1 DEF AdminTypes
  <2>4. SessionsUnmixed'
    BY <1>0, <2>1, <2>2 DEF SessionsUnmixed
  <2>5. OldProfileLeaves'
    BY <1>0, <2>1, <2>3 DEF OldProfileLeaves
  <2> QED
    BY <2>4, <2>5 DEF UInv
<1>16. ASSUME NEW c \in Calls, Wait(c) PROVE UInv'
  <2>1. /\ ~crossed /\ last' = last /\ failed' = failed
        /\ UNCHANGED <<storedPair, store, cookie, profile, fresh, of>>
        /\ callAt' = [callAt EXCEPT ![c] = "waiting"] /\ callAt[c] = "sent"
    BY <1>16 DEF Wait, profileCache, adminHistory
  <2>2. InFlight' = InFlight /\ (callAt[Me] # "idle" => callAt'[Me] # "idle")
    BY <2>1 DEF InFlight, AdminTypes
  <2> QED
    BY <1>0, <2>1, <2>2 DEF UInv, SessionsUnmixed, OldProfileLeaves
<1>17. ASSUME NEW c \in Calls, StartRefresh(c) PROVE UInv'
  <2>1. /\ ~crossed /\ last' = last /\ failed' = failed
        /\ UNCHANGED <<storedPair, store, cookie, profile, fresh>>
        /\ callAt' = [callAt EXCEPT ![c] = "refreshing"] /\ callAt[c] = "sent"
        /\ of' = [of EXCEPT ![c] = storedPair] /\ storedPair \in {0, last}
    BY <1>0, <1>17 DEF StartRefresh, profileCache, adminHistory
  <2>2. InFlight' = InFlight /\ (callAt[Me] # "idle" => callAt'[Me] # "idle")
    BY <2>1 DEF InFlight, AdminTypes
  <2>3. \A d \in InFlight : of'[d] \in {0, last}
    BY <1>0, <2>1 DEF InFlight, AdminTypes, SessionsUnmixed
  <2> QED
    BY <1>0, <2>1, <2>2, <2>3 DEF UInv, SessionsUnmixed, OldProfileLeaves
<1>18. ASSUME NEW c \in Calls, LeaveWithoutTokens(c) PROVE UInv'
  <2>1. /\ Restart(0, 0, "signin")
        /\ 0 \in {0, storedPair} /\ 0 \in {0, cookie}
        /\ storedPair' \in {0, storedPair} /\ cookie' \in {0, cookie}
        /\ UNCHANGED adminHistory
    BY <1>18 DEF LeaveWithoutTokens
  <2> QED
    BY <2>1, RestartUnmixed
<1>19. ASSUME NEW c \in Calls, RefreshAnswered(c) PROVE UInv'
  <2>1. /\ ~crossed /\ last' = last /\ failed' = failed
        /\ UNCHANGED <<store, cookie, profile, fresh>>
        /\ storedPair' = of[c] /\ c \in InFlight
    BY <1>19 DEF RefreshAnswered, profileCache, adminHistory, InFlight
  <2>2. of[c] \in {0, last}
    BY <1>0, <2>1 DEF SessionsUnmixed
  <2>3. InFlight' = InFlight /\ (callAt[Me] # "idle" => callAt'[Me] # "idle")
    BY <1>19 DEF RefreshAnswered, InFlight, AdminTypes
  <2>4. \A d \in InFlight : of'[d] \in {0, last}
    BY <1>0, <1>19, <2>1, <2>2 DEF RefreshAnswered, InFlight, AdminTypes, SessionsUnmixed
  <2> QED
    BY <1>0, <2>1, <2>2, <2>3, <2>4 DEF UInv, SessionsUnmixed, OldProfileLeaves
<1>20. ASSUME NEW c \in Calls, RefreshDenied(c) PROVE UInv'
  <2>1. /\ Restart(0, cookie, "signin")
        /\ 0 \in {0, storedPair} /\ cookie \in {0, cookie}
        /\ storedPair' \in {0, storedPair} /\ cookie' \in {0, cookie}
        /\ UNCHANGED adminHistory
    BY <1>20 DEF RefreshDenied
  <2> QED
    BY <2>1, RestartUnmixed
<1>21. CASE UNCHANGED adminVars
  BY <1>21 DEF adminVars, UInv, SessionsUnmixed, OldProfileLeaves, InFlight, profileCache,
               callVars, adminHistory
<1> QED
  BY <1>1, <1>2, <1>3, <1>4, <1>5, <1>6, <1>7, <1>8, <1>9, <1>10, <1>11, <1>12, <1>13,
     <1>14, <1>15, <1>16, <1>17, <1>18, <1>19, <1>20, <1>21 DEF AdminNext

\* For any calls and logins, both facts hold in every reachable state.
LEMMA UnmixedAlways == AdminSpec => []UInv
<1>1. AdminInit => UInv
  BY DEF AdminInit, UInv, SessionsUnmixed, OldProfileLeaves, InFlight
<1> QED
  BY <1>1, UnmixedStep, AdminTyped, PTL DEF AdminSpec

\* Unless a login was accepted while a call of an earlier session was in flight,
\* pair, store, cookie and a valid profile are of the last login.
THEOREM SessionsNeverMix == AdminSpec => []SessionsUnmixed
<1>1. UInv => SessionsUnmixed
  BY DEF UInv
<1> QED
  BY <1>1, UnmixedAlways, PTL

\* A profile of an earlier login stays only while it is being replaced, or after
\* the call that would replace it was rejected.
THEOREM OldProfileReplaced == AdminSpec => []OldProfileLeaves
<1>1. UInv => OldProfileLeaves
  BY DEF UInv
<1> QED
  BY <1>1, UnmixedAlways, PTL

\* A sign-out clears the auth store and its cookie for good: no late answer, refused
\* refresh or reload puts a token back there before a login is accepted.  This is all
\* that it clears; the run admin_sign_out shows the pair letting the user back in.
THEOREM SignOutIsForTheStore == AdminSpec => []SignOutClears
<1>1. AdminInit => SignOutClears
  BY DEF AdminInit, SignOutClears
<1>2. SignOutClears /\ [AdminNext]_adminVars => SignOutClears'
  <2> SUFFICES ASSUME SignOutClears, [AdminNext]_adminVars PROVE SignOutClears'
    OBVIOUS
  <2> USE DEF SignOutClears, adminHistory
  <2>1. CASE SubmitLogin \/ LoginAccepted \/ LoginRefused
    BY <2>1 DEF SubmitLogin, LoginAccepted, LoginRefused
  <2>2. CASE Enter \/ GoToSignIn \/ SignOut
    BY <2>2 DEF Enter, GoToSignIn, SignOut
  <2>3. CASE Reload
    BY <2>3 DEF Reload, Restart
  <2>4. CASE ExpireCookie \/ ClearElsewhere \/ Age \/ Forget \/ Focus
    BY <2>4 DEF ExpireCookie, ClearElsewhere, Age, Forget, Focus
  <2>5. ASSUME NEW c \in PageCalls, SendPageCall(c) PROVE SignOutClears'
    BY <2>5 DEF SendPageCall
  <2>6. ASSUME NEW c \in Calls, Answer(c) \/ Fail(c) \/ SessionExpired(c) PROVE SignOutClears'
    BY <2>6 DEF Answer, Fail, SessionExpired
  <2>7. ASSUME NEW c \in Calls, Wait(c) \/ StartRefresh(c) \/ RefreshAnswered(c)
        PROVE  SignOutClears'
    BY <2>7 DEF Wait, StartRefresh, RefreshAnswered
  <2>8. ASSUME NEW c \in Calls, LeaveWithoutTokens(c) \/ RefreshDenied(c)
        PROVE  SignOutClears'
    BY <2>8 DEF LeaveWithoutTokens, RefreshDenied, Restart
  <2>9. CASE UNCHANGED adminVars
    BY <2>9 DEF adminVars
  <2> QED
    BY <2>1, <2>2, <2>3, <2>4, <2>5, <2>6, <2>7, <2>8, <2>9 DEF AdminNext
<1> QED
  BY <1>1, <1>2, PTL DEF AdminSpec

-----------------------------------------------------------------------------
(* The browser clients together: a behaviour of the composition is one of each  *)
(* part, so every theorem about a part holds of the composition.                *)

\* Tokens, table, lists and the admin's session each keep to their specification.
THEOREM BrowsersAreAll == BrowsersSpec => Spec /\ TableSpec /\ ListsSpec /\ AdminSpec
<1>1. BrowsersInit => Init /\ TableInit /\ ListsInit /\ AdminInit
  BY DEF BrowsersInit
<1>2. [BrowsersNext]_browsersVars =>
          [Next]_vars /\ [TableNext]_tableVars /\ [ListsNext]_listsVars /\ [AdminNext]_adminVars
  BY DEF BrowsersNext, browsersVars
<1>3. QED BY <1>1, <1>2, PTL DEF BrowsersSpec, Spec, TableSpec, ListsSpec, AdminSpec

\* The types of every part, in every state of the composition.
THEOREM BrowsersTyped == BrowsersSpec => []BrowserTypes
<1>1. TypeOK /\ TableTypes /\ ListsTypes /\ AdminTypes => BrowserTypes
  BY DEF BrowserTypes
<1>2. QED BY <1>1, BrowsersAreAll, TokenTypes, TableTyped, ListsTyped, AdminTyped, PTL
=============================================================================
