---------------------------- MODULE RecordStore ----------------------------
(***************************************************************************)
(* The lab's store of requests and benchmarks (observatory/store.py): one  *)
(* SQLite connection, on which the event loop saves and the threads of the *)
(* history pages read.  A save is an insertion, the removal of what is     *)
(* beyond the retention, which both kinds share, and a commit; a reader    *)
(* may come in between, a statement may fail and the process may die.      *)
(***************************************************************************)
EXTENDS Naturals, Sequences, FiniteSets

CONSTANTS
    Records,     \* identifiers, each saved once
    Kinds,       \* "request" and "benchmark" in the code
    Retention,   \* 2000 in the code
    Shown,       \* limit of a listing: 100 requests, 20 benchmarks
    Breaks       \* bound: statements that fail and deaths of the process

ASSUME StoreAssumption ==
    /\ {Retention, Shown, Breaks} \subseteq Nat
    /\ Retention > 0 /\ Shown > 0

VARIABLES
    rows,      \* the table as the connection sees it, in the order of rowid
    disk,      \* the table as it was last committed
    saving,    \* the statement the save is at
    stored,    \* records whose save returned, in order
    breaks     \* what broke so far

storeVars == <<rows, disk, saving, stored, breaks>>

Row == [id : Records, kind : Kinds]

Ids(table) == {table[i].id : i \in DOMAIN table}

StoreInit ==
    /\ rows = <<>>
    /\ disk = <<>>
    /\ saving = "idle"
    /\ stored = <<>>
    /\ breaks = 0

\* The last n rows of a table.
LastRows(table, n) ==
    SubSeq(table, (IF Len(table) > n THEN Len(table) - n ELSE 0) + 1, Len(table))

-----------------------------------------------------------------------------
Unused == Records \ (Ids(stored) \cup Ids(rows))

\* INSERT OR REPLACE gives the row the highest rowid.  Its identifier is new, and it
\* makes no difference which of the new ones it is.
BeginSave ==
    /\ saving = "idle" /\ Unused # {}
    /\ \E kind \in Kinds :
          rows' = Append(rows, [id |-> CHOOSE id \in Unused : TRUE, kind |-> kind])
    /\ saving' = "inserted"
    /\ UNCHANGED <<disk, stored, breaks>>

\* Seeded fault: the rows to keep are taken from the front.
PruneOldest ==
    /\ saving = "inserted"
    /\ rows' = SubSeq(rows, 1, IF Len(rows) > Retention THEN Retention ELSE Len(rows))
    /\ saving' = "pruned"
    /\ UNCHANGED <<disk, stored, breaks>>

Prune ==
    /\ saving = "inserted"
    /\ rows' = LastRows(rows, Retention)
    /\ saving' = "pruned"
    /\ UNCHANGED <<disk, stored, breaks>>

Commit ==
    /\ saving = "pruned"
    /\ disk' = rows
    /\ stored' = Append(stored, rows[Len(rows)])
    /\ saving' = "idle"
    /\ UNCHANGED <<rows, breaks>>

\* A statement raises and save with it.  Nothing is rolled back, so that the row goes
\* with the next commit, unless SQLite itself gave the transaction up.
Broken ==
    /\ saving # "idle" /\ breaks < Breaks
    /\ breaks' = breaks + 1
    /\ saving' = "idle"
    /\ rows' \in {rows, disk}
    /\ UNCHANGED <<disk, stored>>

\* The process dies or closes the store, and opens it again.
Reopen ==
    /\ breaks < Breaks
    /\ breaks' = breaks + 1
    /\ rows' = disk
    /\ saving' = "idle"
    /\ UNCHANGED <<disk, stored>>

\* The rows of a kind after the i-th.
Newer(i, kind) == {j \in DOMAIN rows : j > i /\ rows[j].kind = kind}

\* Where the newest rows of a kind are, which a page shows by descending rowid, read
\* through the connection of the save.
Listed(kind) ==
    {i \in DOMAIN rows : rows[i].kind = kind /\ Cardinality(Newer(i, kind)) < Shown}

StoreNext == BeginSave \/ Prune \/ Commit \/ Broken \/ Reopen

StoreSpec == StoreInit /\ [][StoreNext]_storeVars

-----------------------------------------------------------------------------
StoreTypeOK ==
    /\ rows \in Seq(Row) /\ disk \in Seq(Row) /\ stored \in Seq(Row)
    /\ saving \in {"idle", "inserted", "pruned"}
    /\ breaks \in 0 .. Breaks

\* A record that was saved is on disk until as many newer ones are as the store keeps,
\* whatever kind they are of: statements that fail and a process that dies lose no
\* record whose save returned, and leave no more than is kept.
RecordsKept ==
    /\ Len(disk) <= Retention
    /\ \A k \in DOMAIN stored : stored[k].id \notin Ids(disk) =>
          /\ Len(disk) = Retention
          /\ Ids(disk) \cap Ids(SubSeq(stored, 1, k)) = {}

\* A listing shows the newest records of its kind, in the order they were saved, during
\* a save too.
ListingNewest ==
    \A kind \in Kinds :
        /\ Cardinality(Listed(kind)) <= Shown
        /\ \A k, m \in DOMAIN stored, i \in Listed(kind), j \in DOMAIN rows :
              k < m /\ stored[k].id = rows[i].id
              /\ stored[m].kind = kind /\ stored[m].id = rows[j].id
              => i < j /\ j \in Listed(kind)

\* "Requests and benchmark reports share bounded SQLite retention"
\* (docs/architecture.md:133): a record is kept until it is crowded out.
KeptUntilCrowded == StoreTypeOK /\ RecordsKept /\ ListingNewest
=============================================================================
