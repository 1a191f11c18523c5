-------------------------- MODULE MCAssistantStore --------------------------
(* Values for the constants of AssistantStore on small instances. *)
EXTENDS AssistantStore, TLC

CONSTANTS u1, u2, k1, k2

\* The day and the month begun before the clock starts end with instant 2.
MCDayStart(t)   == IF t < 3 THEN 0 ELSE 3
MCMonthStart(t) == MCDayStart(t)

Quota(r, n) == [requests |-> r, tokens |-> n]

TwoFounders  == {[user |-> u1, key |-> k1, quota |-> Quota(1, 4)],
                 [user |-> u2, key |-> k2, quota |-> Quota(2, 4)]}
OneFounder   == {[user |-> u1, key |-> k1, quota |-> Quota(2, 4)]}

InviteOne == {Quota(1, 1)}
Lives     == {1, 2}

\* Idempotency keys and callers are interchangeable, and so is what no founder has.
CallSymmetry    == Permutations(Idems) \cup Permutations(Callers)
WorkSymmetry    == CallSymmetry \cup Permutations(Users \ {u1})
=============================================================================
