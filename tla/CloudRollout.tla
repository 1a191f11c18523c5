---------------------------- MODULE CloudRollout ----------------------------
(***************************************************************************)
(* The operator's rollout of the supporting resources                      *)
(* (scripts/reliability_cloud.py): one command after the other reads       *)
(* operator.json, calls the cloud and writes operator.json back, and may   *)
(* die, or lose the answer of a call, before it writes.  Resource Manager  *)
(* runs the jobs of the stack one at a time, an apply may fail or be       *)
(* cancelled half way, and resources are edited or removed behind          *)
(* Terraform's back.                                                       *)
(***************************************************************************)
EXTENDS Naturals, FiniteSets

CONSTANTS
    Addresses,   \* ADDRESSES, the allowlist of resources
    Nil,        \* no plan, review or configuration
    MaxJobs,     \* bound: jobs of the stack
    MaxIds,      \* bound: resources and secrets made under one name
    Mishaps      \* bound: lost answers, crashes, and edits from outside

ASSUME RolloutAssumption ==
    /\ IsFiniteSet(Addresses) /\ {MaxJobs, MaxIds, Mishaps} \subseteq Nat
    /\ Nil \notin Addresses \cup 0 .. MaxIds

VARIABLES
    op,       \* operator.json
    unsaved,  \* what the running command will write to it, or Nil
    archive,  \* support.zip is in the state directory
    stacks,   \* stacks that were created
    stackJobs, \* the jobs of the stack
    res,      \* Terraform's state, and what became of each resource
    harmed,   \* resources that an apply changed or replaced
    seen,     \* plans the operator has reviewed
    vault,    \* the secrets under each name
    boot,     \* the running bootstrap, or Nil
    config,   \* config.json
    mishaps   \* mishaps so far

cloudVars == <<stacks, stackJobs, res, harmed>>
bootVars == <<vault, boot, config>>
rolloutVars == <<op, unsaved, archive, cloudVars, seen, bootVars, mishaps>>

Ids == 0 .. MaxIds          \* 0: no resource, no secret
JobIds == 1 .. MaxJobs
SecretNames == {"backup-key", "apm-upload-key"}
NoIds == [a \in Addresses |-> 0]

\* gone: not made yet, or removed; tainted: made by an apply that stopped meanwhile.
Marks == {"gone", "sound", "edited", "tainted"}
Planned == [gone |-> "create", sound |-> "no-op", edited |-> "update", tainted |-> "replace"]

\* lawful: the addresses are those of the allowlist and the values are approved.
Plan == [change : [Addresses -> {"create", "no-op", "update", "replace"}],
         id     : [Addresses -> Ids],
         lawful : BOOLEAN]

ASSUME PlanAssumption == Nil \notin Plan

\* made: the plan of a plan job; from: the job whose plan an apply job runs; kept: the
\* ids of Terraform's state when the job ended, 0 for an address that has none; broken:
\* the resources that are tainted in that state.
StackJob == [what   : {"none", "plan", "apply"},
        status : {"none", "ACCEPTED", "IN_PROGRESS", "SUCCEEDED", "FAILED",
                  "CANCELING", "CANCELED"},
        made   : Plan \cup {Nil},
        from   : 0 .. MaxJobs,
        todo   : SUBSET Addresses,
        kept   : [Addresses -> Ids],
        broken : SUBSET Addresses]
NoStackJob == [what |-> "none", status |-> "none", made |-> Nil, from |-> 0, todo |-> {},
          kept |-> NoIds, broken |-> {}]

\* existing is {} where the code has no reviewed_existing: no address has an id.
Operator == [stack_id : BOOLEAN, plan_id : 0 .. MaxJobs, job_id : 0 .. MaxJobs,
             recovery : 0 .. MaxJobs, reviewed : Plan \cup {Nil},
             existing : [Addresses -> Ids], support : BOOLEAN]
NewOperator == [stack_id |-> FALSE, plan_id |-> 0, job_id |-> 0, recovery |-> 0,
                reviewed |-> Nil, existing |-> NoIds, support |-> FALSE]

RolloutInit ==
    /\ op = NewOperator /\ unsaved = Nil
    /\ archive = FALSE /\ stacks = 0
    /\ stackJobs = [j \in JobIds |-> NoStackJob]
    /\ res = [a \in Addresses |-> [id |-> 0, mark |-> "gone"]]
    /\ harmed = {} /\ seen = {}
    /\ vault = [n \in SecretNames |-> [id |-> 0, active |-> FALSE]]
    /\ boot = Nil /\ config = Nil
    /\ mishaps = 0

Idle == unsaved = Nil /\ boot = Nil
Made == {j \in JobIds : stackJobs[j].what # "none"}
Running == {j \in JobIds : stackJobs[j].status \in {"IN_PROGRESS", "CANCELING"}}
Fresh(job) == \E j \in JobIds : j = Cardinality(Made) + 1 /\ stackJobs' = [stackJobs EXCEPT ![j] = job]
NextId == Cardinality(Made) + 1
Mishap == mishaps < Mishaps /\ mishaps' = mishaps + 1

-----------------------------------------------------------------------------
(***************************************************************************)
(* The commands.  A command ends with write_private; until then its new    *)
(* state is lost when it dies.                                             *)
(***************************************************************************)
\* zipfile opens the archive with "x": an earlier attempt leaves it behind.
Unpacked == ~archive

\* The archive is written before the stack is created, and the call may fail.
CreateStack ==
    /\ Idle /\ op = NewOperator /\ Unpacked
    /\ archive' = TRUE
    /\ \/ stacks' = stacks + 1 /\ unsaved' = [op EXCEPT !.stack_id = TRUE]
          /\ UNCHANGED mishaps
       \/ Mishap /\ UNCHANGED <<stacks, unsaved>>
    /\ UNCHANGED <<op, stackJobs, res, harmed, seen, bootVars>>

Blocking == {"ACCEPTED", "IN_PROGRESS", "CANCELING"}
FailedApply(j) == stackJobs[j].what = "apply" /\ stackJobs[j].status = "FAILED"

MakePlan ==
    /\ Idle /\ op.stack_id /\ NextId \in JobIds
    /\ op.job_id # 0 => stackJobs[op.job_id].status \notin Blocking
    /\ Fresh([NoStackJob EXCEPT !.what = "plan", !.status = "ACCEPTED"])
    /\ unsaved' = [op EXCEPT !.plan_id = NextId, !.job_id = NextId,
                     !.reviewed = Nil, !.existing = NoIds,
                     !.recovery = IF op.job_id # 0 /\ FailedApply(op.job_id)
                                  THEN op.job_id ELSE @]
    /\ UNCHANGED <<op, archive, stacks, res, harmed, seen, bootVars, mishaps>>

\* validate_plan
Valid(plan, existing) ==
    /\ plan.lawful
    /\ \A a \in Addresses :
         IF existing[a] # 0 THEN plan.change[a] = "no-op" /\ plan.id[a] = existing[a]
         ELSE plan.change[a] = "create"

Reviewable == stackJobs[op.plan_id].made
HasPlan == op.plan_id # 0 /\ stackJobs[op.plan_id].status = "SUCCEEDED"

\* review-resume reads the ids from the state of the failed apply (state_ids).
Review(existing) ==
    /\ Idle /\ HasPlan /\ Valid(Reviewable, existing)
    /\ seen' = seen \cup {Reviewable}
    /\ unsaved' = [op EXCEPT !.reviewed = Reviewable, !.existing = existing]
    /\ UNCHANGED <<op, archive, cloudVars, bootVars, mishaps>>

ReviewFirst == Review(NoIds)

ReviewResume ==
    /\ op.recovery # 0 /\ FailedApply(op.recovery)
    /\ stackJobs[op.recovery].kept # NoIds /\ stackJobs[op.recovery].broken = {}
    /\ Review(stackJobs[op.recovery].kept)

\* Seeded fault: the digest of the plan is not compared.
AnyDigest == TRUE
\* The digest of the plan is that of the review.
SameDigest == op.reviewed = Reviewable

ApplyReviewed ==
    /\ Idle /\ HasPlan /\ NextId \in JobIds
    /\ Valid(Reviewable, op.existing) /\ SameDigest
    /\ Fresh([NoStackJob EXCEPT !.what = "apply", !.status = "ACCEPTED", !.from = op.plan_id])
    /\ unsaved' = [op EXCEPT !.job_id = NextId]
    /\ UNCHANGED <<op, archive, stacks, res, harmed, seen, bootVars, mishaps>>

Outputs ==
    /\ Idle /\ ~op.support /\ op.job_id # 0
    /\ stackJobs[op.job_id].what = "apply" /\ stackJobs[op.job_id].status = "SUCCEEDED"
    /\ unsaved' = [op EXCEPT !.support = TRUE]
    /\ UNCHANGED <<op, archive, cloudVars, seen, bootVars, mishaps>>

Save ==
    /\ unsaved # Nil
    /\ op' = unsaved /\ unsaved' = Nil
    /\ UNCHANGED <<archive, cloudVars, seen, bootVars, mishaps>>

\* The command dies, or its last call is made and not answered.
Die ==
    /\ ~Idle /\ Mishap
    /\ unsaved' = Nil /\ boot' = Nil
    /\ UNCHANGED <<op, archive, cloudVars, seen, vault, config>>

-----------------------------------------------------------------------------
(***************************************************************************)
(* bootstrap lists the secrets once, then makes each that is missing, and  *)
(* writes config.json unless there is one.                                 *)
(***************************************************************************)
Secret(n) == vault[n].id
\* Seeded fault: a secret is made whether there is one or not.
AbsentOrNot(n) == TRUE
Absent(n) == boot.listed[n] = 0

BeginBootstrap ==
    /\ Idle /\ op.support
    /\ boot' = [listed |-> [n \in SecretNames |-> Secret(n)],
                usable |-> {n \in SecretNames : vault[n].active},
                ids    |-> [n \in SecretNames |-> 0]]
    /\ UNCHANGED <<op, unsaved, archive, cloudVars, seen, vault, config, mishaps>>

\* The backup key comes first.
Turn(n) == boot # Nil /\ boot.ids[n] = 0
           /\ (n = "apm-upload-key" => boot.ids["backup-key"] # 0)

KeepSecret(n) ==
    /\ Turn(n) /\ ~Absent(n) /\ n \in boot.usable
    /\ boot' = [boot EXCEPT !.ids[n] = boot.listed[n]]
    /\ UNCHANGED <<op, unsaved, archive, cloudVars, seen, vault, config, mishaps>>

\* A secret that is not active, or an upload key that does not exist yet, ends the command.
RefuseSecret(n) ==
    /\ Turn(n)
    /\ IF Absent(n) THEN n = "apm-upload-key" ELSE n \notin boot.usable
    /\ boot' = Nil
    /\ UNCHANGED <<op, unsaved, archive, cloudVars, seen, vault, config, mishaps>>

MakeSecret(n) ==
    /\ Turn(n) /\ Absent(n) /\ Secret(n) < MaxIds
    /\ vault' = [vault EXCEPT ![n] = [id |-> @.id + 1, active |-> FALSE]]
    /\ boot' = [boot EXCEPT !.ids[n] = Secret(n) + 1]
    /\ UNCHANGED <<op, unsaved, archive, cloudVars, seen, config, mishaps>>

\* write_private does not replace config.json; the command ends either way.
WriteConfig ==
    /\ boot # Nil /\ \A n \in SecretNames : boot.ids[n] # 0
    /\ config' = IF config = Nil THEN boot.ids ELSE config
    /\ boot' = Nil
    /\ UNCHANGED <<op, unsaved, archive, cloudVars, seen, vault, mishaps>>

-----------------------------------------------------------------------------
(***************************************************************************)
(* The cloud.  Jobs of a stack run one at a time; a plan that is older     *)
(* than the state is stale and its apply fails at once.                    *)
(***************************************************************************)
Begins(j) == /\ stackJobs[j].status = "ACCEPTED" /\ Running = {}
             /\ \A i \in Made : i < j => stackJobs[i].status # "ACCEPTED"

InState == [a \in Addresses |-> res[a].id]
Living == [a \in Addresses |-> IF res[a].mark = "gone" THEN 0 ELSE res[a].id]

\* A plan is made from the resources as they are.
RunPlan(j) ==
    /\ Begins(j) /\ stackJobs[j].what = "plan"
    /\ \/ \E lawful \in BOOLEAN :
            stackJobs' = [stackJobs EXCEPT ![j].status = "SUCCEEDED", ![j].kept = InState,
                       ![j].made = [change |-> [a \in Addresses |-> Planned[res[a].mark]],
                                    id |-> Living, lawful |-> lawful]]
       \/ stackJobs' = [stackJobs EXCEPT ![j].status = "FAILED"]
    /\ UNCHANGED <<op, unsaved, archive, stacks, res, harmed, seen, bootVars, mishaps>>

Origin(j) == stackJobs[stackJobs[j].from]

BeginApply(j) ==
    /\ Begins(j) /\ stackJobs[j].what = "apply"
    /\ stackJobs' = [stackJobs EXCEPT
                  ![j].status = IF Origin(j).kept = InState THEN "IN_PROGRESS" ELSE "FAILED",
                  ![j].todo = {a \in Addresses : Origin(j).made.change[a] # "no-op"},
                  ![j].kept = InState]
    /\ UNCHANGED <<op, unsaved, archive, stacks, res, harmed, seen, bootVars, mishaps>>

\* A resource is created, changed or replaced as the plan says.
ApplyOne(j, a) ==
    /\ j \in Running /\ a \in stackJobs[j].todo /\ res[a].id < MaxIds
    /\ stackJobs' = [stackJobs EXCEPT ![j].todo = @ \ {a}]
    /\ res' = [res EXCEPT ![a] = [id |-> @.id + 1, mark |-> "sound"]]
    /\ harmed' = IF Origin(j).made.change[a] = "create" THEN harmed ELSE harmed \cup {a}
    /\ UNCHANGED <<op, unsaved, archive, stacks, seen, bootVars, mishaps>>

\* Someone cancels a running apply, which goes on until Terraform has stopped.
Cancel(j) ==
    /\ stackJobs[j].status = "IN_PROGRESS" /\ Mishap
    /\ stackJobs' = [stackJobs EXCEPT ![j].status = "CANCELING"]
    /\ UNCHANGED <<op, unsaved, archive, stacks, res, harmed, seen, bootVars>>

\* An apply that stops may leave a resource it was creating tainted.
EndApply(j) ==
    /\ j \in Running
    /\ \/ /\ stackJobs[j].todo = {} /\ stackJobs[j].status = "IN_PROGRESS"
          /\ stackJobs' = [stackJobs EXCEPT ![j].status = "SUCCEEDED", ![j].kept = InState]
          /\ UNCHANGED <<res, mishaps>>
       \/ \E status \in {"FAILED", "CANCELED"}, broken \in SUBSET stackJobs[j].todo :
            /\ IF stackJobs[j].status = "CANCELING"
               THEN status = "CANCELED" /\ UNCHANGED mishaps
               ELSE status = "FAILED" /\ Mishap
            /\ Cardinality(broken) <= 1
            /\ \A a \in broken : res[a].id < MaxIds
            /\ res' = [a \in Addresses |-> IF a \in broken
                        THEN [id |-> res[a].id + 1, mark |-> "tainted"] ELSE res[a]]
            /\ stackJobs' = [stackJobs EXCEPT ![j].status = status,
                          ![j].broken = {a \in Addresses : res'[a].mark = "tainted"},
                          ![j].kept = [a \in Addresses |->
                             IF a \in stackJobs[j].todo \ broken /\ Origin(j).made.change[a] = "create"
                             THEN 0 ELSE res'[a].id]]
    /\ UNCHANGED <<op, unsaved, archive, stacks, harmed, seen, bootVars>>

\* Someone edits or removes a resource in the console.
Meddle(a) ==
    /\ res[a].mark \in {"sound", "edited"} /\ Mishap
    /\ \E mark \in {"edited", "gone"} : res' = [res EXCEPT ![a].mark = mark]
    /\ UNCHANGED <<op, unsaved, archive, stacks, stackJobs, harmed, seen, bootVars>>

\* A secret becomes active some time after it was made.
Activate(n) ==
    /\ Secret(n) # 0 /\ ~vault[n].active
    /\ vault' = [vault EXCEPT ![n].active = TRUE]
    /\ UNCHANGED <<op, unsaved, archive, cloudVars, seen, boot, config, mishaps>>

-----------------------------------------------------------------------------
Command ==
    \/ CreateStack \/ MakePlan \/ ReviewFirst \/ ReviewResume \/ ApplyReviewed \/ Outputs
    \/ BeginBootstrap \/ Save \/ Die \/ WriteConfig
    \/ \E n \in SecretNames : KeepSecret(n) \/ RefuseSecret(n) \/ MakeSecret(n)

ResourceManager ==
    \/ \E j \in JobIds : RunPlan(j) \/ BeginApply(j) \/ Cancel(j) \/ EndApply(j)
                         \/ \E a \in Addresses : ApplyOne(j, a)
    \/ \E a \in Addresses : Meddle(a)
    \/ \E n \in SecretNames : Activate(n)

RolloutNext == Command \/ ResourceManager

-----------------------------------------------------------------------------
RolloutTypeOK ==
    /\ {op} \cup ({unsaved} \ {Nil}) \subseteq Operator
    /\ archive \in BOOLEAN /\ stacks \in Nat
    /\ stackJobs \in [JobIds -> StackJob]
    /\ res \in [Addresses -> [id : Ids, mark : Marks]]
    /\ harmed \subseteq Addresses /\ seen \subseteq Plan
    /\ vault \in [SecretNames -> [id : Ids, active : BOOLEAN]]
    /\ mishaps \in 0 .. Mishaps

\* Whatever dies, is lost or changes from outside: there is one stack, each apply runs
\* a plan with approved values that the operator has seen, and none ever changes or
\* replaces a resource (reliability_cloud.py: "never auto-apply a plan", "no changes or
\* deletions").
OnlyReviewedApplied ==
    /\ RolloutTypeOK
    /\ stacks <= 1 /\ harmed = {}
    /\ \A j \in JobIds : stackJobs[j].what = "apply" =>
          Origin(j).made \in seen /\ Origin(j).made.lawful

\* A bootstrap that died is taken up again without a second secret, and config.json
\* names the secrets there are: the key of the backups is never made twice.
KeysMadeOnce ==
    /\ \A n \in SecretNames : Secret(n) <= 1
    /\ config # Nil => \A n \in SecretNames : config[n] = Secret(n)
=============================================================================
