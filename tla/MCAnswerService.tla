--------------------------- MODULE MCAnswerService ---------------------------
(* Values for the constants of AnswerService on small instances. *)
EXTENDS AnswerService, TLC

\* The quotas are out of the way: a single day and a single month.
OneDay(t)  == 0
Generous   == [requests |-> 9, tokens |-> 99]
Interchange == Permutations(Requests) \cup Permutations(Idems)
Swap        == Permutations(Requests)
=============================================================================
