----------------------------- MODULE Discovery -----------------------------
(***************************************************************************)
(* A reader walks through a discovery list page by page (keyset            *)
(* pagination, src/modules/discovery) while listings are published,        *)
(* edited, paused and hidden between two pages.  Three lists share the     *)
(* mechanism: services, creators and auctions that end soon.               *)
(*                                                                         *)
(* A row is abstracted to what the lists sort and filter by: its sort keys *)
(* (only reputation uses the second), whether the list's conditions admit  *)
(* it, and whether its creator accepts orders.  Times are in half          *)
(* milliseconds: the database keeps finer instants than a JavaScript date. *)
(***************************************************************************)
EXTENDS Integers, Sequences, FiniteSets, SequencesExt

CONSTANTS
    Rows,          \* ids, compared as the database compares uuids
    SortKeys,      \* pairs of sort keys
    PageSizes,     \* limits the route accepts
    MaxMoves       \* bound: listings changed while one list is read

ASSUME DiscoveryAssumption == /\ Rows \subseteq Int /\ IsFiniteSet(Rows) /\ SortKeys \subseteq Int \X Int
                              /\ PageSizes \subseteq Nat \ {0} /\ MaxMoves \in Nat

VARIABLES
    list,          \* the list the reader opened
    shelf,         \* per row [listed, accepting, keys]
    walk,          \* [sort, available, limit, cursor, shown, cuts, over]; cuts = milliseconds in which a page ended
    touched        \* rows changed since the list was opened

discoveryVars == <<list, shelf, walk, touched>>

NoCursor == [sort |-> "none", keys |-> <<0, 0>>, id |-> 0]
FromStart(sort, available, limit) ==
    [sort |-> sort, available |-> available, limit |-> limit, cursor |-> NoCursor, shown |-> <<>>, cuts |-> {}, over |-> FALSE]
NotSearching == FromStart("none", FALSE, 1)

-----------------------------------------------------------------------------
(* Sorts: the order of the keys, of the id, and whether the key is a time *)

SearchServices == [relevance |-> [keys |-> "desc", id |-> "asc", time |-> FALSE],
                   newest |-> [keys |-> "desc", id |-> "desc", time |-> TRUE],
                   price_asc |-> [keys |-> "asc", id |-> "asc", time |-> FALSE],
                   price_desc |-> [keys |-> "desc", id |-> "desc", time |-> FALSE],
                   turnaround |-> [keys |-> "asc", id |-> "asc", time |-> FALSE]]
SearchCreators == [relevance |-> [keys |-> "desc", id |-> "asc", time |-> FALSE],
                   reputation |-> [keys |-> "desc", id |-> "desc", time |-> FALSE],
                   newest |-> [keys |-> "desc", id |-> "desc", time |-> TRUE]]
EndingSoonAuctions == [ending_soon |-> [keys |-> "asc", id |-> "asc", time |-> TRUE]]
Sorting == [services |-> SearchServices, creators |-> SearchCreators, auctions |-> EndingSoonAuctions]

KeysFor(sort, keys) == IF sort = "reputation" THEN keys ELSE <<keys[1], 0>>
\* iso: a time leaves the database as a JavaScript date and loses what is below a millisecond.
CursorKeys(l, sort, keys) == IF Sorting[l][sort].time THEN <<keys[1] - (keys[1] % 2), 0>> ELSE KeysFor(sort, keys)
\* An auction's end comes from a form, in whole milliseconds; other times are the database's now().
KeysOf(l) == IF l = "auctions" THEN {k \in SortKeys : k[1] % 2 = 0} ELSE SortKeys

Less(a, b) == a[1] < b[1] \/ (a[1] = b[1] /\ a[2] < b[2])
Precedes(by, a, i, b, j) ==
    \/ IF by.keys = "asc" THEN Less(a, b) ELSE Less(b, a)
    \/ a = b /\ (IF by.id = "asc" THEN i < j ELSE i > j)

\* Mutant: rows equal to the cursor's keys are skipped.
AfterKeysOnly(i) ==
    LET by == Sorting[list][walk.sort]
        keys == KeysFor(walk.sort, shelf[i].keys)
    IN  walk.cursor = NoCursor \/ IF by.keys = "asc" THEN Less(walk.cursor.keys, keys) ELSE Less(keys, walk.cursor.keys)

\* The condition a cursor adds to the query.
AfterCursor(i) == walk.cursor = NoCursor
            \/ Precedes(Sorting[list][walk.sort], walk.cursor.keys, walk.cursor.id, KeysFor(walk.sort, shelf[i].keys), i)

InList(i) == shelf[i].listed /\ (walk.available => shelf[i].accepting)

Before(i, j) == Precedes(Sorting[list][walk.sort], KeysFor(walk.sort, shelf[i].keys), i, KeysFor(walk.sort, shelf[j].keys), j)
Matching == {i \in Rows : InList(i) /\ AfterCursor(i)}
\* The n-th row of the ordered answer: n - 1 rows stand before it.
RowAt(n) == CHOOSE i \in Matching : Cardinality({j \in Matching : Before(j, i)}) = n - 1

\* The rows of a page in their order, one more than shown to see whether another page follows.
Fetched == LET found == Cardinality(Matching)
           IN  [n \in 1..(IF found > walk.limit THEN walk.limit + 1 ELSE found) |-> RowAt(n)]

-----------------------------------------------------------------------------
(* The reader *)

\* parseServiceSearch, parseCreatorSearch, parseEndingSoon: a sort of the list's own; relevance needs a query, which the
\* search then has; only services and creators can be asked to accept orders.
SearchParses(sort, available) == sort \in DOMAIN Sorting[list] /\ (available => list # "auctions")

DiscoveryInit ==
    /\ list \in DOMAIN Sorting
    /\ shelf \in [Rows -> [listed : {TRUE}, accepting : {TRUE}, keys : KeysOf(list)]]
    /\ walk = NotSearching /\ touched = {}

OpenList(sort, available, limit) ==
    /\ walk = NotSearching /\ SearchParses(sort, available)
    /\ walk' = FromStart(sort, available, limit)
    /\ UNCHANGED <<list, shelf, touched>>

\* One page: its rows, and a cursor from the last one when more follow.
ReadPage ==
    LET more == Len(Fetched) > walk.limit
        page == IF more THEN Front(Fetched) ELSE Fetched
        keys == CursorKeys(list, walk.sort, shelf[Last(page)].keys)
    IN  /\ walk # NotSearching /\ ~walk.over
        /\ walk' = [walk EXCEPT !.shown = @ \o page, !.over = ~more,
                                !.cursor = IF more THEN [sort |-> walk.sort, keys |-> keys, id |-> Last(page)] ELSE @,
                                !.cuts = IF more /\ Sorting[list][walk.sort].time THEN @ \cup {keys} ELSE @]
        /\ UNCHANGED <<list, shelf, touched>>

\* decodeCursor: a cursor is refused under another sort.  The explore page then shows the newest services from the start,
\* the route answers with an error.
ChangeSort(sort) ==
    /\ walk.cursor # NoCursor /\ sort # walk.cursor.sort /\ SearchParses(sort, walk.available)
    /\ walk' = IF list = "services" THEN FromStart("newest", FALSE, walk.limit) ELSE NotSearching
    /\ UNCHANGED <<list, shelf, touched>>

-----------------------------------------------------------------------------
(* Between two pages *)

\* A listing is published again with other terms, sold out or taken off the list, or its creator pauses.
Touch(i, row) ==
    /\ walk # NotSearching /\ ~walk.over /\ walk.shown # <<>>
    /\ Cardinality(touched \cup {i}) <= MaxMoves /\ row # shelf[i]
    /\ shelf' = [shelf EXCEPT ![i] = row]
    /\ touched' = touched \cup {i}
    /\ UNCHANGED <<list, walk>>

Republish(i, keys) == Touch(i, [shelf[i] EXCEPT !.keys = keys, !.listed = TRUE])
Unlist(i) == Touch(i, [shelf[i] EXCEPT !.listed = FALSE])
PauseOrders(i) == Touch(i, [shelf[i] EXCEPT !.accepting = ~@])

DiscoveryNext ==
    \/ \E sort \in UNION {DOMAIN Sorting[l] : l \in DOMAIN Sorting} :
          \/ \E available \in BOOLEAN, limit \in PageSizes : OpenList(sort, available, limit)
          \/ ChangeSort(sort)
    \/ ReadPage
    \/ \E i \in Rows : \/ \E keys \in KeysOf(list) : Republish(i, keys)
                       \/ Unlist(i) \/ PauseOrders(i)

-----------------------------------------------------------------------------
Times(i) == Cardinality({n \in DOMAIN walk.shown : walk.shown[n] = i})
\* A walk by publication time passes over the rest of the millisecond in which a page ended: the cursor is cut to it.
InCutMillisecond(i) == walk.sort = "newest" /\ CursorKeys(list, "newest", shelf[i].keys) \in walk.cuts

\* Whatever else is published, edited, paused or hidden between two pages, a row that stays as it is is shown at most
\* once in a walk, and at its end exactly once; rows published in the millisecond in which a page ended apart.  The cursor
\* keeps its sort, its ties are broken by id, and a walk ends.
EachRowOnce ==
    walk # NotSearching => \A i \in Rows \ touched :
        /\ Times(i) <= 1
        /\ walk.over /\ InList(i) /\ ~InCutMillisecond(i) => Times(i) = 1
=============================================================================
