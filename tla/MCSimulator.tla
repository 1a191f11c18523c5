---------------------------- MODULE MCSimulator ----------------------------
(* Sizes of prefixes for a small instance of Simulator. *)
EXTENDS Simulator

CONSTANTS k1, k2

\* Each fits, both do not.
Sizes == k1 :> 1 @@ k2 :> 2
=============================================================================
