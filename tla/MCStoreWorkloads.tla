-------------------------- MODULE MCStoreWorkloads --------------------------
(***************************************************************************)
(* A small instance of AssistantStore in which a run is of one of three    *)
(* kinds, so that their state spaces add instead of multiplying: members   *)
(* come and go, requests age until their rows are pruned, or denials and   *)
(* operators fill the event log.                                           *)
(***************************************************************************)
EXTENDS MCAssistantStore

VARIABLE workload

\* Bound: the last instant of each kind of run.
LastInstant == [access |-> 4, aging |-> 6, events |-> 3]

WorkInit == Init /\ workload \in DOMAIN LastInstant

WorkTick == Tick /\ clock < LastInstant[workload]

\* Only operator grants write the log; they are left to the last kind of run.  One
\* admission sweeps the invitations that expired.
Membership ==
    \/ Access /\ UNCHANGED log
    \/ /\ Admission
       /\ issued = 0
       /\ Cardinality({c \in Callers : calls'[c] # NoCall}) <= 1

Aging ==
    \/ Admission
    \/ \E u \in Users : DeleteHistory(u)

AuditLoad ==
    \/ Admission
    \/ Audit
    \/ \E u \in Users, b \in BOOLEAN : SetOperator(u, b)

WorkNext ==
    /\ UNCHANGED workload
    /\ \/ WorkTick
       \/ workload = "access" /\ Membership
       \/ workload = "aging" /\ Aging
       \/ workload = "events" /\ AuditLoad

WorkSpec == WorkInit /\ [][WorkNext]_<<vars, workload>>
=============================================================================
