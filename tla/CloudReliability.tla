-------------------------- MODULE CloudReliability --------------------------
(***************************************************************************)
(* The cloud side of the project: the rollout that makes the bucket, the   *)
(* vault and config.json, and the worker that runs on them afterwards.     *)
(* They meet only in config.json, which never changes once it is written,  *)
(* so a behaviour follows one of them.                                     *)
(***************************************************************************)
EXTENDS ReliabilityWorker, CloudRollout

VARIABLE stage   \* the one that runs

allVars == <<stage, vars, rolloutVars>>

CloudInit == stage \in {"rollout", "worker"} /\ Init /\ RolloutInit

CloudNext ==
    /\ UNCHANGED stage
    /\ \/ stage = "rollout" /\ RolloutNext /\ UNCHANGED vars
       \/ stage = "worker" /\ Next /\ UNCHANGED rolloutVars

CloudSpec == CloudInit /\ [][CloudNext]_allVars

=============================================================================
