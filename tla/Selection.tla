------------------------------ MODULE Selection ------------------------------
(***************************************************************************)
(* Selecting rows of a table that is kept as the sequence of its rows:     *)
(* what SELECT ... WHERE returns and DELETE ... WHERE leaves, and the last *)
(* of them, which a limit on their number leaves.                          *)
(***************************************************************************)
EXTENDS Naturals, Sequences, FiniteSets

\* The positions up to i.
Upto(positions, i) == {j \in positions : j <= i}

\* The n-th of some positions.
Nth(positions, n) == CHOOSE i \in positions : Cardinality(Upto(positions, i)) = n

\* The rows at those positions, in their order.
RowsAt(table, positions) == [n \in 1 .. Cardinality(positions) |-> table[Nth(positions, n)]]

\* The last n rows, or all when there are no more.
Newest(table, n) ==
    IF Len(table) <= n THEN table ELSE SubSeq(table, Len(table) - n + 1, Len(table))
=============================================================================
