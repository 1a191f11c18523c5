------------------------------- MODULE Paging -------------------------------
(***************************************************************************)
(* The dashboard's pages over two tables that change while they are read   *)
(* (observatory/assistant_store.py, events and explore, and the routes of  *)
(* observatory/observability.py).  Events are paged by the id of the last  *)
(* row shown, request records by their number.  One row more than a page   *)
(* is read, to know if there is another page.                              *)
(***************************************************************************)
EXTENDS Selection, SequencesExt

CONSTANTS
    Owners,      \* users
    Reader,      \* the user who pages
    PageSize,    \* 50 in the code
    RowLimit,    \* EVENT_LIMIT, 2000 in the code
    MaxOffset,   \* 1000 in the code
    MaxRows      \* bound: rows that are ever written

ASSUME PagingAssumption ==
    /\ {PageSize, RowLimit, MaxOffset, MaxRows} \subseteq Nat \ {0}
    /\ \E n \in 1 .. MaxOffset : MaxOffset = n * PageSize
    /\ Reader \in Owners

VARIABLES
    table,     \* the rows in their order: events by id, records by creation
    written,   \* rows that were ever written, the ids of events
    hidden,    \* the newest row that is too old to be read
    granted,   \* the reader is an operator
    walk       \* the pages one visitor turns, from the first to the last

pagingVars == <<table, written, hidden, granted, walk>>

Line == [id : 1 .. MaxRows, owner : Owners, request : BOOLEAN]

\* How a walk pages, whose rows it asks for, what it was shown, where it goes on, the
\* rows it could have shown at its start, and how the table changed since then.
NoWalk(how) ==
    [how |-> how, phase |-> "none", scope |-> "mine", seen |-> <<>>, next |-> 0,
     began |-> {}, grew |-> FALSE, shrank |-> FALSE]

PagingStart(how) ==
    /\ table = <<>>
    /\ written = 0
    /\ hidden = 0
    /\ granted = TRUE
    /\ walk = NoWalk(how)

PagingInit == \E how \in {"cursor", "offset"} : PagingStart(how)

Numbers(lines) == {lines[i].id : i \in DOMAIN lines}

\* The table is now `after`, and a walk under way knows what came and went.
Changed(after) ==
    /\ table' = after
    /\ walk' = IF walk.phase = "none" THEN walk
               ELSE [walk EXCEPT !.grew   = @ \/ ~(Numbers(after) \subseteq Numbers(table)),
                                 !.shrank = @ \/ ~(Numbers(table) \subseteq Numbers(after))]

Alive(line) == line.id > hidden

-----------------------------------------------------------------------------
\* An event takes the next id, old rows and rows beyond the limit go.  A record shows
\* when its request ends, at the place of its admission.
Write ==
    /\ written < MaxRows
    /\ \E owner \in Owners, request \in BOOLEAN :
          LET row   == [id |-> written + 1, owner |-> owner, request |-> request]
              all   == Append(table, row)
              young == {i \in DOMAIN all : Alive(all[i])}
          IN  \/ /\ walk.how = "cursor"
                 /\ Changed(Newest(RowsAt(all, young), RowLimit))
              \/ /\ walk.how = "offset" /\ request
                 /\ \E i \in 0 .. Len(table) :
                       Changed(SubSeq(table, 1, i) \o <<row>> \o SubSeq(table, i + 1, Len(table)))
    /\ written' = written + 1
    /\ UNCHANGED <<hidden, granted>>

\* The oldest row passes its age and is no longer read: an event is removed with a later
\* write, a record is as good as gone.
Expire ==
    /\ \/ /\ walk.how = "cursor"
          /\ \E i \in DOMAIN table :
                /\ Alive(table[i]) /\ \A j \in 1 .. i - 1 : ~Alive(table[j])
                /\ hidden' = table[i].id
          /\ UNCHANGED <<table, walk>>
       \/ /\ walk.how = "offset" /\ table # <<>>
          /\ Changed(Tail(table))
          /\ UNCHANGED hidden
    /\ UNCHANGED <<written, granted>>

\* delete_history: the request events of a user go, and the metadata of the records.
Forget ==
    /\ \E owner \in Owners :
          LET stay == {i \in DOMAIN table : ~(table[i].owner = owner /\ table[i].request)}
          IN  /\ stay # DOMAIN table
              /\ Changed(RowsAt(table, stay))
    /\ UNCHANGED <<written, hidden, granted>>

Withdraw ==
    /\ granted
    /\ granted' = FALSE
    /\ UNCHANGED <<table, written, hidden, walk>>

-----------------------------------------------------------------------------
\* WHERE: the rows of a scope that can be read, below the cursor if there is one.
Readable(scope, before) ==
    {i \in DOMAIN table :
        /\ Alive(table[i])
        /\ (scope = "all" \/ table[i].owner = Reader)
        /\ (before = 0 \/ table[i].id < before)}

\* ORDER BY ... DESC: those rows, newest first.
Selected(scope, before) ==
    LET lines == Reverse(RowsAt(table, Readable(scope, before)))
    IN  [i \in DOMAIN lines |-> lines[i].id]

\* LIMIT
Leading(rows, n) == SubSeq(rows, 1, IF Len(rows) < n THEN Len(rows) ELSE n)

\* The rows a page reads: those below the cursor, or those after the offset.
Fetched(scope) ==
    IF walk.how = "cursor" THEN Leading(Selected(scope, walk.next), PageSize + 1)
    ELSE LET rows == Selected(scope, 0)
         IN  Leading(SubSeq(rows, walk.next + 1, Len(rows)), PageSize + 1)

\* Seeded fault: the cursor is the row that was read ahead.
FollowingAhead(rows) ==
    IF Len(rows) <= PageSize THEN 0
    ELSE IF walk.how = "cursor" THEN rows[PageSize + 1]
    ELSE IF walk.next < MaxOffset THEN walk.next + PageSize
    ELSE 0

\* next_before and next_offset; 0 for none.
Following(rows) ==
    IF Len(rows) <= PageSize THEN 0
    ELSE IF walk.how = "cursor" THEN rows[PageSize]
    ELSE IF walk.next < MaxOffset THEN walk.next + PageSize
    ELSE 0

\* One page: the scope is checked for each, and refused without the grant.
ReadPage(scope, from) ==
    IF scope = "all" /\ ~granted THEN walk' = [from EXCEPT !.phase = "refused"]
    ELSE LET rows == Fetched(scope)
         IN  walk' = [from EXCEPT !.seen  = @ \o Leading(rows, PageSize),
                                  !.next  = Following(rows),
                                  !.phase = IF Following(rows) = 0 THEN "over" ELSE "paging"]

FirstPage ==
    /\ walk.phase = "none"
    /\ \E scope \in {"mine", "all"} :
          LET began == {table[i].id : i \in Readable(scope, 0)}
          IN  ReadPage(scope, [NoWalk(walk.how) EXCEPT !.scope = scope, !.began = began])
    /\ UNCHANGED <<table, written, hidden, granted>>

NextPage ==
    /\ walk.phase = "paging"
    /\ ReadPage(walk.scope, walk)
    /\ UNCHANGED <<table, written, hidden, granted>>

\* A behaviour is over with its walk.
PagingNext ==
    /\ walk.phase \in {"none", "paging"}
    /\ Write \/ Expire \/ Forget \/ Withdraw \/ FirstPage \/ NextPage

PagingSpec == PagingInit /\ [][PagingNext]_pagingVars

-----------------------------------------------------------------------------
PagingTypeOK ==
    /\ table \in Seq(Line) /\ written \in 0 .. MaxRows /\ hidden \in 0 .. MaxRows
    /\ granted \in BOOLEAN
    /\ walk.seen \in Seq(1 .. MaxRows) /\ walk.began \subseteq 1 .. MaxRows
    /\ walk.next \in 0 .. MaxRows + MaxOffset

SeenRows == {walk.seen[i] : i \in DOMAIN walk.seen}

\* Events by cursor: newest first and none twice, and a walk that reaches the last page
\* has shown every event of its start that can still be read, whatever was written,
\* expired and was deleted meanwhile.
CursorExact ==
    walk.how = "cursor" =>
        /\ \A i, j \in DOMAIN walk.seen : i < j => walk.seen[i] > walk.seen[j]
        /\ walk.phase = "over" =>
              \A id \in walk.began : id \in SeenRows \/ id <= hidden \/ id \notin Numbers(table)
        /\ walk.scope = "mine" =>
              \A i \in DOMAIN table : table[i].id \in SeenRows => table[i].owner = Reader

\* Records by offset: a record is shown twice only if one came during the walk, and one
\* is passed over only if one went, or at the last offset the route accepts.
OffsetExact ==
    walk.how = "offset" =>
        /\ walk.next <= MaxOffset
        /\ ~walk.grew => Cardinality(SeenRows) = Len(walk.seen)
        /\ walk.phase = "over" /\ ~walk.shrank /\ Len(walk.seen) < MaxOffset + PageSize
              => walk.began \subseteq SeenRows

PagesExact == PagingTypeOK /\ CursorExact /\ OffsetExact
=============================================================================
