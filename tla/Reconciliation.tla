---------------------------- MODULE Reconciliation ----------------------------
(***************************************************************************)
(* `brainctl reconcile': what a crash leaves behind, how it is classified, *)
(* what the preflight of a resume makes of it, and what --apply and the    *)
(* start of a scheduler repair.                                            *)
(*                                                                         *)
(* One stage with one task.  The scheduler is a line of writes, each of    *)
(* which a crash can cut off; a worker may live on without it; a person    *)
(* removes worktrees and branches and checks out other branches.  The      *)
(* facts of a report are read in one step and its actions applied in a     *)
(* later one; anybody may step in between.                                 *)
(*                                                                         *)
(* Left out: the approvals, none of which is ever given an expiry; the     *)
(* call quota (CostLedger); what a retry or a review decides (TaskPool);   *)
(* refusals of an integration (StageIntegration); adoption and branches    *)
(* that have moved (Recovery); expected write paths, which the quality     *)
(* gates have checked; an unborn HEAD and an unfinished merge, which block *)
(* and ask for nothing; the minute of grace after a lease is over.         *)
(***************************************************************************)
EXTENDS Integers, Sequences, FiniteSets

CONSTANTS
  MaxAttempts,  \* bound: attempts of the task
  MaxBatches,   \* bound: integration batches of the stage
  MaxCrashes,   \* bound: crashes of the scheduler
  MaxAge,       \* bound: steps between what a command reads and applies
  MaxHands      \* bound: what a person does to the repository

ASSUME ReconciliationAssumption ==
  /\ MaxAttempts \in Nat /\ MaxBatches \in Nat
  /\ MaxCrashes \in Nat /\ MaxAge \in Nat /\ MaxHands \in Nat

VARIABLES
  run, stage,
  pause,    \* whether the stage has an active PauseRecord
  merged,   \* whether tasks.status is `merged'
  att,      \* the attempts of the task
  lock,     \* whether the task holds its path locks
  batch,    \* the integration batches
  log,      \* the events that a review of the stage leaves
  repo,     \* the checkout: on the target branch or away from it
  landed,   \* whether the target branch has the task's work
  sched,    \* what the scheduler is about to do
  command,  \* `reconcile --apply'
  used      \* crashes and hands so far

rows  == <<run, stage, pause, merged, att, lock, batch, log>>
world == <<repo, landed>>
vars  == <<rows, world, sched, command, used>>

Terminal       == {"approved", "failed", "interrupted", "canceled"}
PostWorkerLock == {"worker_completed", "validating", "reviewing"}
StageEnded     == {"completed", "failed", "canceled"}

Attempt ==
  [status : Terminal \cup PostWorkerLock
            \cup {"running", "review_skipped", "rework_required"},
   pid     : BOOLEAN,                           \* recorded
   worker  : {"none", "up", "gone"},            \* the process itself
   lease   : {"none", "live", "stale"},         \* stale: over for a minute
   tree    : BOOLEAN, branch : BOOLEAN,         \* recorded, and exist
   result  : {"none", "change", "nothing"},     \* WorkerResult
   review  : {"none", "pending", "approved", "rework_required", "failed"},
   skipped : BOOLEAN]  \* event review_skipped_token_efficient
NewAttempt == [status |-> "running", pid |-> FALSE, worker |-> "none",
               lease |-> "none", tree |-> FALSE, branch |-> FALSE,
               result |-> "none", review |-> "none", skipped |-> FALSE]

Batch == [status : {"pending", "integrating", "failed", "completed"},
          branch : BOOLEAN,
          hash   : {"none", "int", "merge"},  \* mergeCommitHash
          complete : BOOLEAN,                 \* reviewCoverageStatus
          told   : BOOLEAN]                   \* an event names the target
NewBatch == [status |-> "pending", branch |-> FALSE, hash |-> "none",
             complete |-> FALSE, told |-> FALSE]

\* commit: the reviewed commit, known by its batch; 0 where the event has none.
Event == [kind : {"started", "completed"}, commit : 0..MaxBatches,
          approves : BOOLEAN]

Dispatching == {"lease", "tree", "spawn", "pid"}
Doing == Dispatching \cup
         {"off", "start", "loop", "work", "validate", "review", "skip", "ask",
          "answer", "verdict", "unlock", "build", "gated", "started", "judge",
          "accept", "report", "unreported", "merge", "tell", "close", "finish",
          "clean"}

N == Len(att)
B == Len(batch)
Latest == att[N]
Write(f, v) == att' = [att EXCEPT ![N][f] = v]
WriteBatch(f, v) == batch' = [batch EXCEPT ![B][f] = v]

-----------------------------------------------------------------------------
(* The facts.                                                              *)

\* checkPidAlive, of an attempt with a recorded pid.
Alive(a) == a.pid /\ a.worker = "up"
Gone(a)  == a.pid /\ a.worker # "up"

\* branchExists and isCommitReachable ask from the checkout, isBranchMerged
\* asks the target branch that an event has named.
InHead      == landed /\ repo = "target"
MergeInGit(b)    == b.hash # "none" /\ InHead
TargetMerged(b)  == b.told /\ b.branch /\ landed

Reviewed(a) == a.review \in {"approved", "rework_required", "failed"}

\* hasStageReviewEvidence: a start arms the commit it names and disarms every
\* other; a completion that names another commit disarms, too.
HasStageReviewEvidence(c) ==
  LET fits(e) == e.commit \in {0, c}
      armed[k \in 0..Len(log)] ==
        /\ k > 0
        /\ IF log[k].kind = "started" THEN log[k].commit = c
                                      ELSE armed[k - 1] /\ fits(log[k])
  IN \E k \in DOMAIN log : /\ log[k].kind = "completed" /\ log[k].approves
                           /\ armed[k - 1] /\ fits(log[k])

\* isLatestBatchTrustedStageReview: only the latest batch counts.  The tree
\* that was merged is the one that was reviewed (StageIntegration).
TrustedStageReview ==
  /\ B > 0
  /\ batch[B].status = "completed" /\ batch[B].complete
  /\ batch[B].hash # "none"

\* computeTrustedStageReviewCoverage
CoveredByStageReview(a) ==
  /\ a.status = "approved" /\ ~Reviewed(a) /\ a.skipped
  /\ TrustedStageReview
  /\ HasStageReviewEvidence(B)

-----------------------------------------------------------------------------
(* The decision table: findings, each about one entity.                    *)

Finding(kind, severity, entity, n) ==
  {[kind |-> kind, severity |-> severity, entity |-> entity, n |-> n]}
When(condition, findings) == IF condition THEN findings ELSE {}

CanceledRunFindings ==
  When(stage \notin {"completed", "canceled"},
       Finding("canceled_run_recovery", "warning", "stage", 1))
  \cup UNION {When(att[i].status \notin Terminal,
                   Finding("canceled_run_recovery", "warning", "attempt", i))
              : i \in DOMAIN att}

StageFindings ==
  When(stage = "completed" /\ ~merged,
       Finding("completed_stage_with_incomplete_tasks", "blocking", "stage", 1))

\* A change is verifiable by the diff of its branch or, after the cleanup, by
\* the worker's commit in HEAD; no change by the worker's word.
Verifiable(a) ==
  /\ a.result # "none"
  /\ a.branch \/ (a.result = "change" /\ InHead)

ApprovedFindings(i) ==
  LET a == att[i] IN
  When(~Verifiable(a),
       Finding("approved_attempt_without_verifiable_change", "blocking",
               "attempt", i))
  \cup When(Reviewed(a) /\ a.review # "approved",
            Finding("fake_review_in_real_path", "blocking", "attempt", i))
  \cup When(~Reviewed(a) /\ ~CoveredByStageReview(a),
            Finding("review_evidence_missing", "blocking", "attempt", i))

\* The event attempt_started, which also speaks against it, is written after
\* the pid.
NoPidStale(a) == a.lease = "stale"
RunningFindings(i) ==
  LET a == att[i]
      Of(kind, severity) == Finding(kind, severity, "attempt", i)
  IN CASE Alive(a) /\ a.tree /\ a.branch  -> Of("pid_alive", "info")
       [] Alive(a) /\ ~a.tree             -> Of("worktree_missing", "blocking")
       [] Alive(a) /\ a.tree /\ ~a.branch -> {}
       [] Gone(a)                         -> Of("pid_missing", "warning")
       [] ~a.pid /\ a.lease = "live" -> Of("no_pid_active_window", "info")
       [] ~a.pid /\ NoPidStale(a)    -> Of("no_pid_stale", "warning")
       [] OTHER                      -> Of("no_pid_recorded", "blocking")

\* A missing worktree or branch also asks for the stage to be paused.
PauseStage == Finding("worker_completed_blocking", "blocking", "stage", 1)
WorkerCompletedFindings(i) ==
  LET a == att[i]
      Of(kind, severity) == Finding(kind, severity, "attempt", i)
  IN CASE a.result = "none"    -> Of("worker_result_missing", "blocking")
       [] a.result # "none" /\ ~a.tree ->
            Of("worker_completed_blocking", "blocking") \cup PauseStage
       [] a.result # "none" /\ a.tree /\ ~a.branch ->
            Of("branch_missing", "blocking") \cup PauseStage
       [] OTHER -> Of("pid_alive", "info")

ValidatingFindings(i) ==
  LET a == att[i] IN
  CASE a.result = "none" ->
         Finding("worker_result_missing", "blocking", "attempt", i)
    [] a.result # "none" /\ ~a.tree ->
         Finding("worker_completed_blocking", "blocking", "attempt", i)
         \cup PauseStage
    [] OTHER -> {}

ReviewingFindings(i) ==
  LET a == att[i] IN
  CASE a.review = "pending" ->
         Finding("review_unfinished", "warning", "attempt", i)
    [] a.review = "none" -> Finding("review_missing", "blocking", "attempt", i)
    [] a.review \in {"approved", "rework_required"} ->
         Finding("review_state_mismatch", "info", "attempt", i)
    [] OTHER -> {}

AttemptFindings(i) ==
  LET status == att[i].status IN
  CASE status = "approved"         -> ApprovedFindings(i)
    [] status = "running"          -> RunningFindings(i)
    [] status = "worker_completed" -> WorkerCompletedFindings(i)
    [] status = "validating"       -> ValidatingFindings(i)
    [] status = "reviewing"        -> ReviewingFindings(i)
    [] OTHER                       -> {}

\* D4, the last case, is a warning of the same kind as D1.
IntegrationFindings ==
  LET b == batch[B]
      Of(kind, severity) == Finding(kind, severity, "integration", B)
  IN CASE b.status \notin {"integrating", "pending"} -> {}
       [] b.status \in {"integrating", "pending"} /\ MergeInGit(b) ->
            Of("integration_stalled", "info")
       [] b.status \in {"integrating", "pending"} /\ ~MergeInGit(b)
          /\ TargetMerged(b) -> Of("target_merged_already", "blocking")
       [] b.status \in {"integrating", "pending"} /\ ~MergeInGit(b)
          /\ ~b.branch -> Of("integration_missing", "blocking")
       [] OTHER -> Of("integration_stalled", "warning")

\* Locks are the task's; their owner is its latest attempt.
\* Mutant: whoever is not proved to be alive may lose its lock.
OwnerIsNotAlive == ~Alive(Latest)
OwnerIsGone == Gone(Latest)
LockFindings ==
  LET Of(kind, severity) == Finding(kind, severity, "lock", 1)
  IN CASE ~lock -> {}
       [] lock /\ N = 0 -> Of("lock_owner_unknown", "blocking")
       [] lock /\ N > 0 /\ Latest.status \in Terminal ->
            Of("lock_orphaned", "warning")
       [] lock /\ N > 0 /\ Latest.status \notin Terminal \cup PostWorkerLock
          /\ OwnerIsGone -> Of("lock_owner_pid_gone", "warning")
       [] OTHER -> {}

\* classifyFacts: of a canceled run only its stage and attempts.
Findings ==
  IF run = "canceled" THEN CanceledRunFindings
  ELSE StageFindings \cup LockFindings
       \cup When(B > 0, IntegrationFindings)
       \cup UNION {AttemptFindings(i) : i \in DOMAIN att}

\* hasBlockingFindings: what stops `resume' and `approve'.
Blocked == \E f \in Findings : f.severity = "blocking"

-----------------------------------------------------------------------------
(* The safe actions and their application.                                 *)

\* mapFindingToSafeAction, by kind and entity.
SafeAction(f) ==
  LET Do(what) == {[do |-> what, n |-> f.n]} IN
  CASE f.kind \in {"pid_missing", "no_pid_stale", "worker_result_missing"} ->
         Do("interrupt")
    [] f.kind = "worker_completed_blocking" /\ f.entity = "stage" -> Do("pause")
    [] f.kind = "review_state_mismatch" -> Do("by_review")
    [] f.kind \in {"integration_stalled", "target_merged_already"} ->
         Do("complete")
    [] f.kind \in {"lock_orphaned", "lock_owner_pid_gone"} -> Do("release")
    [] f.kind = "canceled_run_recovery" /\ f.entity = "attempt" -> Do("cancel")
    [] f.kind = "canceled_run_recovery" /\ f.entity = "stage" ->
         Do("cancel_stage")
    [] OTHER -> {}

\* deriveSafeActions. No two of them are about the same row but `release'.
Plan == UNION {SafeAction(f) : f \in Findings}

Asked(plan, what) == {a.n : a \in {b \in plan : b.do = what}}

\* executeAtomicAction. Every update compares the status it has just read; a
\* terminal row is left as it is.
\* Mutant: any verdict is an approval.
AnyVerdict == IF \E i \in DOMAIN att : att[i].review # "none" THEN "approved"
              ELSE "none"
LatestReview ==
  LET has == {i \in DOMAIN att : att[i].review # "none"}
  IN IF has = {} THEN "none"
     ELSE att[CHOOSE i \in has : \A j \in has : j <= i].review
Judged(a, i, plan) ==
  /\ a.status = "reviewing" /\ i \in Asked(plan, "by_review")
  /\ LatestReview \in {"approved", "rework_required"}
ApplyTo(i, plan) ==
  LET a == att[i] IN
  IF a.status \in Terminal THEN a
  ELSE IF i \in Asked(plan, "interrupt")
       THEN [a EXCEPT !.status = "interrupted"]
  ELSE IF i \in Asked(plan, "cancel") THEN [a EXCEPT !.status = "canceled"]
  ELSE IF Judged(a, i, plan) THEN [a EXCEPT !.status = LatestReview]
  ELSE a

\* Mutant: the stage gets the status of its attempt.
StageInterrupted(plan) ==
  IF stage \notin StageEnded /\ Asked(plan, "pause") # {}
  THEN "interrupted" ELSE stage
StageAfter(plan) ==
  IF stage \in StageEnded THEN stage
  ELSE IF Asked(plan, "pause") # {} THEN "paused"
  ELSE IF Asked(plan, "cancel_stage") # {} THEN "canceled"
  ELSE stage

BatchAfter(j, plan) ==
  IF j \in Asked(plan, "complete") /\ batch[j].status # "failed"
  THEN [batch[j] EXCEPT !.status = "completed"] ELSE batch[j]

After(plan) == [att   |-> [i \in DOMAIN att |-> ApplyTo(i, plan)],
                stage |-> StageAfter(plan),
                lock  |-> lock /\ Asked(plan, "release") = {},
                batch |-> [j \in DOMAIN batch |-> BatchAfter(j, plan)]]

\* applyReconciliationAtomically: one transaction.
Apply(plan) ==
  /\ att' = After(plan).att /\ stage' = After(plan).stage
  /\ lock' = After(plan).lock /\ batch' = After(plan).batch

\* age: the steps of others since the command has read.
NoCommand == [plan |-> {}, age |-> 0]
Fresh == command.plan # {} /\ command.age = 0
\* Whoever else takes a step makes what the command has read older.
Disturb ==
  IF command.plan = {} THEN command' = NoCommand
  ELSE /\ command.age < MaxAge
       /\ command' = [command EXCEPT !.age = @ + 1]

ReconcileReads ==
  /\ command.plan = {} /\ Plan # {}
  /\ command' = [command EXCEPT !.plan = Plan]
  /\ UNCHANGED <<rows, world, sched, used>>

ReconcileApplies ==
  /\ command.plan # {}
  /\ Apply(command.plan)
  /\ command' = NoCommand
  /\ UNCHANGED <<run, pause, merged, log, world, sched, used>>

-----------------------------------------------------------------------------
(* The scheduler: resume, and an attempt.                                  *)

Go(from, to) == sched = from /\ sched' = to /\ Disturb
Attempts ==
  UNCHANGED <<run, stage, pause, merged, lock, batch, log, world, used>>
\* ATTEMPT_TRANSITIONS, where the scheduler goes.  A write that it forbids
\* throws, and execTask's catch fails the attempt if that is allowed; a
\* terminal status is kept in silence.
MayBecome ==
  CASE Latest.status = "running" ->
         {"worker_completed", "rework_required", "failed"}
    [] Latest.status = "worker_completed" ->
         {"validating", "rework_required", "failed", "canceled"}
    [] Latest.status = "validating" ->
         {"reviewing", "review_skipped", "failed", "rework_required"}
    [] Latest.status = "reviewing" ->
         {"approved", "rework_required", "failed", "canceled"}
    [] Latest.status = "review_skipped" -> {"approved", "rework_required"}
    [] OTHER -> {}
Become(status) ==
  IF status \in MayBecome THEN [Latest EXCEPT !.status = status]
  ELSE IF "failed" \in MayBecome THEN [Latest EXCEPT !.status = "failed"]
  ELSE Latest
Put(a) == att' = [att EXCEPT ![N] = a]
Continues == stage # "canceled" /\ run # "canceled"

\* resume refuses what is blocked and, in requireMatchingPauseConfirmation, a
\* paused stage that has no active PauseRecord.
Resume ==
  /\ Go("off", "start")
  /\ run = "running" /\ stage \notin StageEnded /\ ~Blocked
  /\ stage = "paused" => pause
  /\ stage' = IF stage = "paused" THEN "ready" ELSE stage
  /\ pause' = FALSE
  /\ UNCHANGED <<run, merged, att, lock, batch, log, world, used>>

\* startRun: the automatic reconciliation, which also changes what a command
\* may have read.
Start ==
  /\ sched = "start" /\ Disturb
  /\ att' = After(Plan).att /\ lock' = After(Plan).lock
  /\ batch' = After(Plan).batch
  /\ LET now == After(Plan).stage IN
     /\ stage' = IF now \in {"pending", "ready"} THEN "running" ELSE now
     /\ sched' = IF now \in StageEnded \cup {"paused"} THEN "off" ELSE "loop"
  /\ UNCHANGED <<run, pause, merged, log, world, used>>

\* recordStagePause, and the scheduler ends.
PauseAndEnd ==
  /\ sched' = "off" /\ Disturb
  /\ stage' = IF stage \in StageEnded THEN stage ELSE "paused"
  /\ pause' = (pause \/ stage \notin StageEnded)

LoopEnds ==
  /\ Go("loop", "off")
  /\ ~Continues \/ stage = "paused"
  /\ UNCHANGED <<rows, world, used>>

\* An attempt that is `running' though nobody drives it is passed over: the
\* task is still running, so the next attempt begins beside it.
Begin ==
  /\ Go("loop", "lease") /\ Continues /\ stage # "paused"
  /\ N < MaxAttempts
  /\ N > 0 => Latest.status \in {"running", "failed", "interrupted",
                                 "rework_required"}
  /\ att' = Append(att, NewAttempt) /\ lock' = TRUE
  /\ UNCHANGED <<run, stage, pause, merged, batch, log, world, used>>

\* beginTaskAttempt throws, and execTask's catch fails the attempt.
CannotBegin ==
  /\ Go("loop", "unlock") /\ Continues /\ stage # "paused"
  /\ N > 0 /\ Latest.status \in {"validating", "reviewing"}
  /\ Put(Become("failed"))
  /\ Attempts

\* verifyResumeLocks
CarryOn ==
  /\ sched = "loop" /\ Continues /\ stage # "paused"
  /\ N > 0 /\ Latest.status = "worker_completed"
  /\ IF lock THEN sched' = "validate" /\ Disturb /\ UNCHANGED <<stage, pause>>
             ELSE PauseAndEnd
  /\ UNCHANGED <<run, merged, att, lock, batch, log, world, used>>

Lease    == Go("lease", "tree")  /\ Write("lease", "live") /\ Attempts
MakeTree == /\ Go("tree", "spawn")
            /\ Put([Latest EXCEPT !.tree = TRUE, !.branch = TRUE])
            /\ Attempts
Spawn    == Go("spawn", "pid")   /\ Write("worker", "up") /\ Attempts
SavePid  == Go("pid", "work")    /\ Write("pid", TRUE) /\ Attempts

Dispatched == Lease \/ MakeTree \/ Spawn \/ SavePid

WorkerReturns ==
  /\ Go("work", "validate") /\ Latest.worker = "gone" /\ Continues
  /\ \E result \in {"change", "nothing"} :
       Put([Become("worker_completed") EXCEPT !.result = result])
  /\ Attempts

\* The worktree cannot be made, the worker fails, or the gates do.
Fails ==
  /\ \/ Go("tree", "unlock")
     \/ Go("work", "unlock") /\ Latest.worker = "gone" /\ Continues
     \/ Go("review", "unlock") /\ Continues
  /\ Put(Become("failed"))
  /\ Attempts

StopIfCanceled ==
  /\ \/ sched \in {"validate", "review"}
     \/ sched = "work" /\ Latest.worker = "gone"
     \/ sched = "verdict" /\ Latest.review # "failed"
  /\ ~Continues
  /\ Go(sched, "unlock")
  /\ Put(Become("canceled"))
  /\ Attempts

Validate == /\ Go("validate", "review") /\ Continues
            /\ Put(Become("validating")) /\ Attempts

SkipReview == /\ Go("review", "skip") /\ Continues
              /\ Put(Become("review_skipped")) /\ Attempts
NoteSkip   == Go("skip", "unlock") /\ Write("skipped", TRUE) /\ Attempts

BeginReview  == /\ Go("review", "ask") /\ Continues
                /\ Put(Become("reviewing")) /\ Attempts
CreateReview == Go("ask", "answer") /\ Write("review", "pending") /\ Attempts
Answer == /\ Go("answer", "verdict")
          /\ \E v \in {"approved", "rework_required", "failed"} :
               Write("review", v)
          /\ Attempts
Verdict == /\ Go("verdict", "unlock") /\ Continues
           /\ Latest.review # "failed"
           /\ Put(Become(Latest.review)) /\ Attempts
\* retryReviewAtomically, the pause and the release of the locks.
Unavailable ==
  /\ sched = "verdict" /\ Latest.review = "failed"
  /\ Put(IF Latest.status = "reviewing"
         THEN [Latest EXCEPT !.status = "worker_completed"] ELSE Latest)
  /\ PauseAndEnd /\ lock' = FALSE
  /\ UNCHANGED <<run, merged, batch, log, world, used>>

Unlock ==
  /\ Go("unlock", "loop") /\ lock' = FALSE
  /\ UNCHANGED <<run, stage, pause, merged, att, batch, log, world, used>>

Reviewing == \/ WorkerReturns \/ Fails \/ StopIfCanceled \/ Validate
             \/ SkipReview \/ NoteSkip \/ BeginReview \/ CreateReview
             \/ Answer \/ Verdict \/ Unavailable \/ Unlock

-----------------------------------------------------------------------------
(* The scheduler: the integration.                                         *)

Batches == UNCHANGED <<run, stage, pause, merged, att, lock, log, world, used>>

\* checkIdempotentIntegration: the latest completed batch, if it was reviewed
\* and recorded its merge, is only finished.  Anything else is integrated anew.
LastCompleted == {j \in DOMAIN batch :
                    /\ batch[j].status = "completed"
                    /\ \A k \in DOMAIN batch :
                         k > j => batch[k].status # "completed"}
\* Mutant: the status and the review are enough.
LandedByStatus == \E j \in LastCompleted : batch[j].complete
Landed == \E j \in LastCompleted : batch[j].complete /\ batch[j].hash = "merge"
Integrate ==
  /\ sched = "loop" /\ Continues /\ stage # "paused" /\ Disturb
  /\ N > 0 /\ Latest.status \in {"approved", "review_skipped"}
  /\ IF Landed
     THEN sched' = "finish" /\ UNCHANGED <<stage, batch>>
     ELSE /\ B < MaxBatches /\ sched' = "build"
          /\ batch' = Append(batch, NewBatch)
          /\ stage' = "integration"
  /\ UNCHANGED <<run, pause, merged, att, lock, log, world, used>>

Build == Go("build", "gated") /\ WriteBatch("branch", TRUE) /\ Batches
StageGates == /\ Go("gated", "started")
              /\ batch' = [batch EXCEPT ![B].status = "integrating",
                                        ![B].hash = "int"]
              /\ Batches
BeginStageReview ==
  /\ Go("started", "judge")
  /\ log' = Append(log, [kind |-> "started", commit |-> B, approves |-> FALSE])
  /\ UNCHANGED <<run, stage, pause, merged, att, lock, batch, world, used>>
PassStageReview ==
  Go("judge", "accept") /\ WriteBatch("complete", TRUE) /\ Batches

\* A conflict, gates, a rejecting review, a target that has moved: the batch
\* is refused and the stage paused; a rejected task is to be reworked.
Refuse ==
  /\ sched \in {"build", "gated", "judge", "merge"}
  /\ WriteBatch("status", "failed")
  /\ Put(IF sched = "judge" /\ Latest.status = "review_skipped"
         THEN Become("rework_required") ELSE Latest)
  /\ PauseAndEnd
  /\ UNCHANGED <<run, merged, lock, log, world, used>>

\* The tasks whose review was skipped: approved first, reported then.
AcceptSkipped ==
  /\ Continues
  /\ Go("accept", IF Latest.status = "review_skipped" THEN "report"
                                                      ELSE "unreported")
  /\ Put(IF Latest.status = "review_skipped" THEN Become("approved")
                                             ELSE Latest)
  /\ Attempts
ReportReview ==
  /\ sched \in {"report", "unreported"} /\ Go(sched, "merge")
  /\ log' = Append(log, [kind |-> "completed", commit |-> 0,
                         approves |-> sched = "report"])
  /\ UNCHANGED <<run, stage, pause, merged, att, lock, batch, world, used>>

\* The merge checks out the target branch.
Merge == /\ Go("merge", "tell") /\ Continues
         /\ repo' = "target" /\ landed' = TRUE
         /\ UNCHANGED <<rows, used>>
TellTarget == Go("tell", "close") /\ WriteBatch("told", TRUE) /\ Batches
CloseBatch == /\ Go("close", "finish")
              /\ batch' = [batch EXCEPT ![B].status = "completed",
                                        ![B].hash = "merge"]
              /\ Batches
Finish == /\ Go("finish", "clean") /\ merged' = TRUE
          /\ stage' = IF stage \in StageEnded THEN stage ELSE "completed"
          /\ UNCHANGED <<run, pause, att, lock, batch, log, world, used>>
\* cleanupMergedStageWorktrees: of every ended attempt, its branch being
\* merged.
Clean ==
  /\ Go("clean", "off")
  /\ WriteBatch("branch", FALSE)
  /\ att' = [i \in DOMAIN att |->
               IF i = N THEN [att[i] EXCEPT !.tree = FALSE, !.branch = FALSE]
               ELSE att[i]]
  /\ UNCHANGED <<run, stage, pause, merged, lock, log, world, used>>

CanceledBatch ==
  /\ sched \in {"accept", "merge"} /\ ~Continues
  /\ Go(sched, "off")
  /\ UNCHANGED <<rows, world, used>>

Integrating == \/ Integrate \/ Build \/ StageGates \/ BeginStageReview
               \/ PassStageReview \/ Refuse \/ AcceptSkipped \/ ReportReview
               \/ Merge \/ TellTarget \/ CloseBatch \/ Finish \/ Clean
               \/ CanceledBatch

-----------------------------------------------------------------------------
(* Everybody else.                                                         *)

Elsewhere ==
  Disturb /\ UNCHANGED <<run, stage, pause, merged, lock, log, sched>>

\* The worker outlives the scheduler, or not.
Crash ==
  /\ sched # "off" /\ used.crashes < MaxCrashes
  /\ sched' = "off" /\ Disturb
  /\ used' = [used EXCEPT !.crashes = @ + 1]
  /\ \/ UNCHANGED att
     \/ N > 0 /\ Latest.worker = "up" /\ Write("worker", "gone")
  /\ UNCHANGED <<run, stage, pause, merged, lock, batch, log, world>>

WorkerEnds(i) ==
  /\ att[i].worker = "up"
  /\ att' = [att EXCEPT ![i].worker = "gone"]
  /\ Elsewhere /\ UNCHANGED <<batch, world, used>>

\* The lease is the worker's timeout and a minute: more than a dispatch takes.
LeaseEnds(i) ==
  /\ att[i].status = "running" /\ ~att[i].pid
  /\ i = N => sched \notin Dispatching
  /\ att[i].lease = "live" /\ att' = [att EXCEPT ![i].lease = "stale"]
  /\ Elsewhere /\ UNCHANGED <<batch, world, used>>

\* cancel: a running attempt without a live pid is interrupted, the others
\* are killed; then the run.
CancelStage ==
  /\ run = "running" /\ stage \notin StageEnded
  /\ stage' = "canceled"
  /\ att' = [i \in DOMAIN att |->
               CASE att[i].status # "running" -> att[i]
                 [] att[i].status = "running" /\ Alive(att[i]) ->
                      [att[i] EXCEPT !.status = "canceled", !.worker = "gone"]
                 [] OTHER -> [att[i] EXCEPT !.status = "interrupted"]]
  /\ Disturb
  /\ UNCHANGED <<run, pause, merged, lock, batch, log, world, sched, used>>
CancelRun ==
  /\ run = "running" /\ stage = "canceled"
  /\ run' = "canceled" /\ Disturb
  /\ UNCHANGED <<stage, pause, merged, att, lock, batch, log, world, sched,
                 used>>

Hand == /\ used.hands < MaxHands /\ used' = [used EXCEPT !.hands = @ + 1]
        /\ Elsewhere
RemoveTree == /\ Hand /\ N > 0 /\ Latest.tree /\ Write("tree", FALSE)
              /\ UNCHANGED <<batch, world>>
RemoveBranch ==
  /\ Hand
  /\ \/ N > 0 /\ Latest.branch /\ Write("branch", FALSE) /\ UNCHANGED batch
     \/ B > 0 /\ batch[B].branch /\ WriteBatch("branch", FALSE) /\ UNCHANGED att
  /\ UNCHANGED world
LeaveTarget == /\ Hand /\ repo = "target" /\ repo' = "away"
               /\ UNCHANGED <<att, batch, landed>>
BackToTarget == /\ repo # "target" /\ repo' = "target" /\ Elsewhere
                /\ UNCHANGED <<att, batch, landed, used>>

Others == \/ Crash \/ CancelStage \/ CancelRun
          \/ \E i \in DOMAIN att : WorkerEnds(i) \/ LeaseEnds(i)
          \/ RemoveTree \/ RemoveBranch \/ LeaveTarget \/ BackToTarget

-----------------------------------------------------------------------------
Init ==
  /\ run = "running" /\ stage = "running" /\ pause = FALSE /\ merged = FALSE
  /\ att = <<>> /\ lock = FALSE /\ batch = <<>> /\ log = <<>>
  /\ repo = "target" /\ landed = FALSE
  /\ sched = "loop" /\ command = NoCommand
  /\ used = [crashes |-> 0, hands |-> 0]

Next ==
  \/ ReconcileReads \/ ReconcileApplies
  \/ Resume \/ Start \/ LoopEnds \/ Begin \/ CannotBegin \/ CarryOn
  \/ Dispatched \/ Reviewing \/ Integrating \/ Others

Spec == Init /\ [][Next]_vars

-----------------------------------------------------------------------------
Action == [do : {"interrupt", "pause", "by_review", "complete", "release",
                 "cancel", "cancel_stage"}, n : Nat]
\* What the scheduler, the commands and the people write stays within what the
\* columns of the store and the process table can hold.
TypeOK ==
  /\ run \in {"running", "canceled"}
  /\ stage \in {"ready", "running", "integration", "paused"} \cup StageEnded
  /\ pause \in BOOLEAN /\ merged \in BOOLEAN /\ lock \in BOOLEAN
  /\ att \in Seq(Attempt) /\ N <= MaxAttempts
  /\ batch \in Seq(Batch) /\ B <= MaxBatches
  /\ log \in Seq(Event)
  /\ repo \in {"target", "away"} /\ landed \in BOOLEAN
  /\ sched \in Doing
  /\ command \in [plan : SUBSET Action, age : 0..MaxAge]
  /\ used \in [crashes : 0..MaxCrashes, hands : 0..MaxHands]

\* A report that is applied at once takes neither the status nor the lock of
\* an attempt whose worker is recorded and alive, or that a live scheduler is
\* dispatching, its worker not yet recorded: unless the run was canceled.
LiveAttemptKept ==
  [][(ReconcileApplies /\ Fresh /\ run # "canceled" /\ N > 0)
     => \/ Latest.status \in Terminal
        \/ ~Alive(Latest) /\ sched \notin Dispatching
        \/ att'[N] = Latest /\ lock' = lock]_vars

\* A stage completes only after its work is in the target branch, though a
\* report may mark a batch completed that was never merged.
CompletedHasLanded == stage = "completed" => landed

\* As long as nobody has touched the repository, applying a report at once does
\* not shut a run that could be resumed.
ApplyNeverBlocks ==
  [][(ReconcileApplies /\ Fresh /\ used.hands = 0 /\ Blocked')
     => Blocked]_vars

\* classifier.ts:239-240 says that a completion without a change is verifiable
\* without a diff: a stage that completed, with no crash and untouched but by
\* the cleanup, does not stop the run from being resumed.
CompletedStaysTrusted ==
  stage = "completed" /\ used = [crashes |-> 0, hands |-> 0] => ~Blocked
=============================================================================
