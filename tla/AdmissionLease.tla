--------------------------- MODULE AdmissionLease ---------------------------
(***************************************************************************)
(* What admission promises, without quotas, rows or transactions: a single *)
(* lease on the model.  A request acquires it when it is free or when its  *)
(* holder has held it for more than Term, which is twice the deadline      *)
(* (docs/servingops-runbook.md, "Admission, cancellation and privacy       *)
(* contract"); identifiers are never reused, and only a release gives the  *)
(* lease up.  AssistantStore and AnswerService implement this.             *)
(***************************************************************************)
EXTENDS Naturals

CONSTANTS
    Horizon,   \* bound: the last instant of the clock
    Term,      \* how long a lease cannot be taken over
    MaxAge,    \* how old the acquirer's reading of the clock may be
    None       \* no holder

VARIABLES
    clock,     \* time
    holder,    \* the request that holds the lease, or None
    since,     \* the instant the holder's lease counts from, 0 when free
    granted    \* the number of leases granted so far

leaseVars == <<clock, holder, since, granted>>

LeaseInit == clock = 0 /\ holder = None /\ since = 0 /\ granted = 0

LeaseTick ==
    /\ clock < Horizon
    /\ clock' = clock + 1
    /\ UNCHANGED <<holder, since, granted>>

Acquire ==
    /\ holder = None \/ since + Term < clock
    /\ granted' = granted + 1
    /\ holder' = granted + 1
    /\ since' \in 0 .. clock
    /\ clock <= since' + MaxAge
    /\ UNCHANGED clock

Release ==
    /\ holder # None
    /\ holder' = None
    /\ since' = 0
    /\ UNCHANGED <<clock, granted>>

LeaseSpec == LeaseInit /\ [][LeaseTick \/ Acquire \/ Release]_leaseVars
=============================================================================
