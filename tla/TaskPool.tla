------------------------------ MODULE TaskPool ------------------------------
(***************************************************************************)
(* The task pool of one stage: the scheduler's loop and one coroutine per  *)
(* dispatched task, from the lock on its paths to its approved attempt or  *)
(* to the pause that hands it to a person.                                 *)
(*                                                                         *)
(* A coroutine is a sequence of awaits, each of them one write to SQLite;  *)
(* other coroutines, `cancel` in another process and a crash come between  *)
(* any two of them.  Attempt and task are updated one after the other, and *)
(* what an update or a pause throws ends in execTask's catch block.        *)
(*                                                                         *)
(* One step here and several in the code: a task's status and the reason   *)
(* of its attempt, the two updates of the catch block, the release of a    *)
(* task's locks.  Left out: approvals and token checks before a dispatch,  *)
(* evidence that gets lost, `reconcile --apply` and a second scheduler     *)
(* beside this one.  The stage ends in "integrate", where StageIntegration *)
(* begins.                                                                 *)
(***************************************************************************)
EXTENDS Integers, Sequences, FiniteSets

CONSTANTS Tasks,
          Paths,
          Deps,         \* Deps[t]: the tasks t depends on, transitively
          Est,          \* Est[t]: estimatedWritePaths
          Clash,        \* pairs of tasks whose lock paths overlap
          Diffs,        \* Diffs[t]: what an attempt of t may really change
          LowRisk,      \* tasks that may skip the review of a first attempt
          MaxParallel,  \* maxParallelTasks
          MaxRework,    \* maxReworkCount
          MaxAttempts,  \* bound: MaxAttempts[t] attempts of t
          MaxCrashes    \* bound: crashes of the scheduler

ASSUME PoolAssumption ==
         /\ IsFiniteSet(Tasks) /\ Tasks # {} /\ LowRisk \subseteq Tasks
         /\ Deps \in [Tasks -> SUBSET Tasks]
         /\ \A t \in Tasks : \A u \in Deps[t] : t # u /\ Deps[u] \subseteq Deps[t]
         /\ Est \in [Tasks -> SUBSET Paths]
         /\ Diffs \in [Tasks -> SUBSET SUBSET Paths]
         /\ \A p \in Clash : p[1] # p[2] /\ <<p[2], p[1]>> \in Clash
         /\ MaxParallel \in Nat \ {0} /\ MaxRework \in Nat
         /\ MaxAttempts \in [Tasks -> Nat] /\ MaxCrashes \in Nat

VARIABLES
  main,     \* where the scheduler's loop stands
  done,     \* its local set of finished tasks
  pc,       \* where a task's coroutine stands
  num,      \* the attempt it works on
  loc,      \* the updates it still has to make
  stage,    \* stages.status
  pause,    \* reason of the active PauseRecord, or "none"
  task,     \* tasks.status
  att,      \* a task's attempts, by attemptNumber
  lock,     \* tasks that hold their path locks
  claim,    \* actual_path_claims of a task
  crashes

vars == <<main, done, pc, num, loc, stage, pause, task, att, lock, claim, crashes>>
loop == <<main, done, crashes>>
own  == <<pc, num, loc>>
held == <<lock, claim>>

\* The reason of a pause: a product decision, which its resolution answers, or
\* anything else.
Reason == {"none", "product", "other"}
Step   == {"idle", "chosen", "begin", "create", "prepare", "work",
           "result", "persist", "post", "gates", "review", "asked",
           "retry", "verdict", "settle", "pausing", "catch", "release", "keep"}

AttNext == [running          |-> {"worker_completed", "rework_required",
                                  "failed", "interrupted", "canceled"},
            worker_completed |-> {"validating", "rework_required", "failed",
                                  "canceled"},
            validating       |-> {"reviewing", "review_skipped", "failed",
                                  "rework_required"},
            reviewing        |-> {"approved", "rework_required", "failed",
                                  "canceled"},
            review_skipped   |-> {"approved", "rework_required"},
            rework_required  |-> {"running"},
            approved |-> {}, failed |-> {}, interrupted |-> {}, canceled |-> {}]
Terminal == {"approved", "failed", "interrupted", "canceled"}

TaskNext == [pending          |-> {"ready", "waiting_decision", "canceled"},
             ready            |-> {"running", "waiting_decision",
                                   "rework_required", "canceled"},
             running          |-> {"worker_completed", "waiting_decision",
                                   "failed", "canceled", "rework_required"},
             worker_completed |-> {"validating", "waiting_decision", "failed",
                                   "rework_required", "canceled"},
             validating       |-> {"reviewing", "review_skipped", "failed",
                                   "waiting_decision", "rework_required",
                                   "canceled"},
             reviewing        |-> {"approved", "waiting_decision", "failed",
                                   "rework_required", "rejected", "canceled"},
             review_skipped   |-> {"approved", "rework_required", "failed",
                                   "canceled"},
             approved         |-> {"merged", "merge_blocked", "canceled"},
             rework_required  |-> {"ready", "waiting_decision", "canceled"},
             waiting_decision |-> {"running", "rework_required", "failed",
                                   "canceled"},
             canceled         |-> {}]

\* update*Status: the same status is fine, a terminal one stays as it is, and
\* an illegal transition throws.
Allowed(next, final, from, to) == from \in final \cup {to} \/ to \in next[from]
Written(final, from, to) == IF from \in final THEN from ELSE to
AttAllowed(from, to)  == Allowed(AttNext, Terminal, from, to)
TaskAllowed(from, to) == Allowed(TaskNext, {"canceled"}, from, to)

\* why: what classifyFailure makes of the exit reason. With "none" a failed
\* attempt is not retried and a rework_required one is. A product decision is
\* "asked" once its pause is recorded and "answered" once that is resolved.
Attempt == [status : DOMAIN AttNext,
            why    : {"none", "retry", "product", "asked", "answered"},
            child  : {"none", "alive", "gone"},   \* the worker process
            review : {"none", "running", "failed", "approved", "rework_required"},
            files  : SUBSET Paths]
NewAttempt == [status |-> "running", why |-> "none", child |-> "none",
               review |-> "none", files |-> {}]
\* An attempt in its new status. Of one that has ended neither review nor files
\* are read again, and of its worker only whether it lives.
Became(a, status) ==
  LET s == Written(Terminal, a.status, status) IN
  CASE s \in Terminal \ {"approved"} ->
         [NewAttempt EXCEPT !.status = s, !.why = a.why,
                            !.child = IF a.child = "alive" THEN "alive"
                                     ELSE "none"]
    [] s = "rework_required" ->
         [a EXCEPT !.status = s, !.review = "none", !.files = {}]
    [] OTHER -> [a EXCEPT !.status = s]
Loc == [to : DOMAIN TaskNext, why : {"none", "retry", "product"},
        reason : Reason, next : Step]
NoLoc == [to |-> "pending", why |-> "none", reason |-> "none", next |-> "idle"]

-----------------------------------------------------------------------------
Latest(t) == IF att[t] = <<>> THEN NewAttempt ELSE att[t][Len(att[t])]
LatestIs(t, statuses) == att[t] # <<>> /\ Latest(t).status \in statuses
Accepted(t) == LatestIs(t, {"approved", "review_skipped"})
Kept(t)     == LatestIs(t, {"worker_completed"})
Mine(t) == att[t][num[t]]

Serial(t, u) == t \in Deps[u] \/ u \in Deps[t]
\* Mutant: locks of other tasks are not looked at.
NoClash(t) == FALSE
LockedByOther(t) == \E u \in lock : <<t, u>> \in Clash
Active == {t \in Tasks : pc[t] \notin {"idle", "chosen"}}
\* recordStagePause: an active pause stands for every later one; without one,
\* only a stage that is neither paused nor canceled can be paused.
PauseThrows == pause = "none" /\ stage \notin {"ready", "running"}
PauseStage(reason) ==
  IF pause = "none" THEN stage' = "paused" /\ pause' = reason
                    ELSE UNCHANGED <<stage, pause>>

Throw(t) ==
  pc' = [pc EXCEPT ![t] = "catch"] /\ loc' = [loc EXCEPT ![t] = NoLoc]
Go(t, from, to) == pc[t] = from /\ pc' = [pc EXCEPT ![t] = to]

\* An outcome: the attempt is updated at once; the task, the exit reason and
\* the pause follow.
Report(t, status, to, why, reason, next) ==
  /\ IF AttAllowed(Mine(t).status, status)
     THEN /\ att' = [att EXCEPT ![t][num[t]] = Became(@, status)]
          /\ pc' = [pc EXCEPT ![t] = "settle"]
          /\ loc' = [loc EXCEPT ![t] = [to |-> to, why |-> why,
                                        reason |-> reason, next |-> next]]
     ELSE Throw(t) /\ UNCHANGED att
  /\ UNCHANGED <<num, stage, pause, task>>

Settle(t) ==
  /\ pc[t] = "settle"
  /\ LET l == loc[t] IN
     IF TaskAllowed(task[t], l.to)
     THEN /\ task' = [task EXCEPT ![t] = Written({"canceled"}, @, l.to)]
          /\ att' = IF l.why = "none" THEN att
                    ELSE [att EXCEPT ![t][num[t]].why = l.why]
          /\ IF l.reason = "none"
             THEN /\ pc' = [pc EXCEPT ![t] = l.next]
                  /\ loc' = [loc EXCEPT ![t] = NoLoc]
             ELSE /\ pc' = [pc EXCEPT ![t] = "pausing"]
                  /\ loc' = [loc EXCEPT ![t] = [NoLoc EXCEPT !.reason = l.reason,
                                                             !.next = l.next]]
     ELSE Throw(t) /\ UNCHANGED <<task, att>>
  /\ UNCHANGED <<loop, num, stage, pause, held>>

\* A pause without a change of status.
PauseThen(t, reason, next) ==
  /\ pc' = [pc EXCEPT ![t] = "pausing"]
  /\ loc' = [loc EXCEPT ![t] = [NoLoc EXCEPT !.reason = reason, !.next = next]]
  /\ UNCHANGED <<num, stage, pause, task, att>>

RecordPause(t) ==
  /\ pc[t] = "pausing"
  /\ IF PauseThrows
     THEN Throw(t) /\ UNCHANGED <<stage, pause, att>>
     ELSE /\ PauseStage(loc[t].reason)
          /\ pc' = [pc EXCEPT ![t] = loc[t].next]
          /\ loc' = [loc EXCEPT ![t] = NoLoc]
          /\ att' = IF loc[t].reason = "product" /\ pause = "none"
                    THEN [att EXCEPT ![t][num[t]].why = "asked"] ELSE att
  /\ UNCHANGED <<loop, num, task, held>>

\* execTask's catch: what it throws itself is swallowed.
Catch(t) ==
  /\ Go(t, "catch", "release")
  /\ LET open == att[t] # <<>> /\ Latest(t).status \notin Terminal
         fails == open /\ "failed" \in AttNext[Latest(t).status]
     IN /\ att' = IF fails
                  THEN [att EXCEPT ![t][Len(att[t])] =
                          [Became(@, "failed") EXCEPT !.why = "retry"]]
                  ELSE att
        /\ task' = IF fails = open /\ "rework_required" \in TaskNext[task[t]]
                   THEN [task EXCEPT ![t] = "rework_required"] ELSE task
  /\ UNCHANGED <<loop, num, loc, stage, pause, held>>

\* Mutant: a coroutine that ends under a pause does not release its locks.
LeaveLocked(t) ==
  /\ pc[t] \in {"release", "keep"}
  /\ pc' = [pc EXCEPT ![t] = "idle"] /\ num' = [num EXCEPT ![t] = 0]
  /\ lock' = IF pc[t] = "release" /\ stage = "running" THEN lock \ {t} ELSE lock
  /\ UNCHANGED <<loop, loc, stage, pause, task, att, claim>>
Leave(t) ==
  /\ pc[t] \in {"release", "keep"}
  /\ pc' = [pc EXCEPT ![t] = "idle"] /\ num' = [num EXCEPT ![t] = 0]
  /\ lock' = IF pc[t] = "release" THEN lock \ {t} ELSE lock
  /\ UNCHANGED <<loop, loc, stage, pause, task, att, claim>>

\* stopIfCanceled, at each of its checkpoints.
Checkpoints == {"result", "post", "gates", "verdict"}
StopIfCanceled(t) ==
  /\ pc[t] \in Checkpoints /\ stage = "canceled"
  /\ Report(t, "canceled", "canceled", "none", "none", "release")
  /\ UNCHANGED <<loop, held>>
Passes(t, at) == pc[t] = at /\ stage # "canceled"

-----------------------------------------------------------------------------
(* The loop of processStage. *)

Looking == main = "loop" /\ stage \notin {"paused", "canceled"}

\* checkRetryBudget and classifyFailure
\* Mutant: reworks are not charged.
ChargedFailed(t) == {i \in 1..Len(att[t]) : att[t][i].status = "failed"}
Charged(t) == {i \in 1..Len(att[t]) :
                 att[t][i].status \notin {"canceled", "interrupted"}}
MayRetry(t) ==
  /\ Cardinality(Charged(t)) < MaxRework + 1
  /\ \/ Latest(t).why \in {"retry", "answered"}
     \/ Latest(t).status = "rework_required" /\ Latest(t).why = "none"
Ended(t) == LatestIs(t, {"failed", "rework_required"})

CanStart(t) ==
  /\ pc[t] = "idle" /\ t \notin done /\ Deps[t] \subseteq done
  /\ Kept(t) \/ ~LockedByOther(t)

CountDone ==
  /\ Looking
  /\ LET more == {t \in Tasks : CanStart(t) /\ Accepted(t)}
     IN more # {} /\ done' = done \cup more
  /\ UNCHANGED <<main, crashes, own, stage, pause, task, att, held>>

Choose(t) ==
  /\ Looking /\ CanStart(t) /\ ~Accepted(t)
  /\ Ended(t) => MayRetry(t)
  /\ Kept(t) \/ Len(att[t]) < MaxAttempts[t]
  /\ Go(t, "idle", "chosen")
  /\ UNCHANGED <<loop, num, loc, stage, pause, task, att, held>>

\* A slot of the pool and acquirePathLocksAtomic, both tested again.
Dispatch(t) ==
  /\ pc[t] = "chosen"
  /\ IF Cardinality(Active) < MaxParallel /\ (Kept(t) \/ ~LockedByOther(t))
     THEN /\ pc' = [pc EXCEPT ![t] = "begin"]
          /\ lock' = IF Kept(t) THEN lock ELSE lock \cup {t}
     ELSE pc' = [pc EXCEPT ![t] = "idle"] /\ UNCHANGED lock
  /\ UNCHANGED <<loop, num, loc, stage, pause, task, att, claim>>

RetryBlocked(t) ==
  /\ Looking /\ CanStart(t) /\ Ended(t) /\ ~MayRetry(t)
  /\ IF TaskAllowed(task[t], "waiting_decision")
     THEN /\ task' = [task EXCEPT ![t] = Written({"canceled"}, @,
                                                 "waiting_decision")]
          /\ main' = "retry"
     ELSE main' = "failed" /\ UNCHANGED task
  /\ UNCHANGED <<done, crashes, own, stage, pause, att, held>>

Deadlock ==
  /\ Looking /\ done # Tasks /\ \A t \in Tasks : pc[t] = "idle"
  /\ \A t \in Tasks \ done :
       ~CanStart(t) /\ ~LatestIs(t, {"running", "reviewing"})
  /\ main' = "deadlock"
  /\ UNCHANGED <<done, crashes, own, stage, pause, task, att, held>>

\* All tasks are done. The integration refuses a task that is not approved,
\* whatever its latest attempt says.
Finish ==
  /\ main = "loop" /\ done = Tasks
  /\ main' = IF \A t \in Tasks : task[t] \in {"approved", "review_skipped"}
             THEN "integrate" ELSE "integration"
  /\ UNCHANGED <<done, crashes, own, stage, pause, task, att, held>>

\* Mutant: the loop ends without a pause.
EndQuietly ==
  /\ main \in {"retry", "integration", "deadlock"}
  /\ \A t \in Tasks : pc[t] = "idle"
  /\ main' = "off"
  /\ UNCHANGED <<done, crashes, own, stage, pause, task, att, held>>
\* The loop's own pause: when it throws, the run fails; the integration fails
\* its batch instead.
LoopPauses ==
  /\ main \in {"retry", "integration", "deadlock"}
  /\ IF PauseThrows THEN UNCHANGED <<stage, pause>> ELSE PauseStage("other")
  /\ main' = CASE main = "integration"     -> "off"
               [] main # "integration" /\ PauseThrows  -> "failed"
               [] main # "integration" /\ ~PauseThrows -> "loop"
  /\ UNCHANGED <<done, crashes, own, task, att, held>>

\* A pause or a cancel ends the loop, once its coroutines have.
Drained ==
  /\ main = "loop" /\ stage \in {"paused", "canceled"}
  /\ \A t \in Tasks : pc[t] = "idle"
  /\ main' = "off"
  /\ UNCHANGED <<done, crashes, own, stage, pause, task, att, held>>

-----------------------------------------------------------------------------
(* execTask up to the worker's return. *)

\* beginTaskAttempt, for all but a task that waits for its review.
Begin(t) ==
  /\ pc[t] = "begin" /\ ~Kept(t)
  /\ IF task[t] \in {"pending", "ready", "rework_required", "waiting_decision",
                     "running"}
     THEN /\ task' = [task EXCEPT ![t] = "running"]
          /\ num' = [num EXCEPT ![t] = Len(att[t]) + 1]
          /\ pc' = [pc EXCEPT ![t] = "create"]
     ELSE pc' = [pc EXCEPT ![t] = "catch"] /\ UNCHANGED <<task, num>>
  /\ UNCHANGED <<loop, loc, stage, pause, att, held>>

\* resumeFromWorkerCompleted goes on with the locks the attempt kept.
BeginKept(t) ==
  /\ pc[t] = "begin" /\ Kept(t)
  /\ num' = [num EXCEPT ![t] = Len(att[t])]
  /\ IF t \in lock /\ ~LockedByOther(t)
     THEN pc' = [pc EXCEPT ![t] = "post"] /\ UNCHANGED loc
     ELSE /\ pc' = [pc EXCEPT ![t] = "pausing"]
          /\ loc' = [loc EXCEPT ![t] = [NoLoc EXCEPT !.reason = "other",
                                                     !.next = "release"]]
  /\ UNCHANGED <<loop, stage, pause, task, att, held>>

\* Of an attempt that has a successor only status and worker are read again.
Past(a) == [NewAttempt EXCEPT !.status = a.status, !.child = a.child]
CreateAttempt(t) ==
  /\ Go(t, "create", "prepare")
  /\ att' = [att EXCEPT ![t] = Append([i \in DOMAIN @ |-> Past(@[i])],
                                      NewAttempt)]
  /\ UNCHANGED <<loop, num, loc, stage, pause, task, held>>

\* No worktree; a dependency that cannot be merged; no prompt, privacy or
\* quota for the worker.
PrepareFails(t) ==
  /\ pc[t] = "prepare"
  /\ \/ Report(t, "failed", "rework_required", "retry", "none", "release")
     \/ Report(t, "failed", "waiting_decision", "none", "other", "release")
     \/ Report(t, "failed", "waiting_decision", "none", "none", "release")
     \/ Report(t, "interrupted", "rework_required", "none", "other", "release")
  /\ UNCHANGED <<loop, held>>

Spawn(t) ==
  /\ Go(t, "prepare", "work")
  /\ \A d \in Deps[t] : Accepted(d)
  /\ att' = [att EXCEPT ![t][num[t]].child = "alive"]
  /\ UNCHANGED <<loop, num, loc, stage, pause, task, held>>

WorkerEnds(t) ==
  /\ Go(t, "work", "result")
  /\ \E f \in Diffs[t] :
       att' = [att EXCEPT ![t][num[t]] = [@ EXCEPT !.child = "gone", !.files = f]]
  /\ UNCHANGED <<loop, num, loc, stage, pause, task, held>>

\* Without a WorkerResult a verifiable commit may be adopted, which keeps the
\* locks for the next resume.
NoResult(t) ==
  /\ pc[t] = "result"
  /\ \/ Report(t, "failed", "waiting_decision", "retry", "other", "release")
     \/ /\ Mine(t).status = "running"
        /\ Report(t, "worker_completed", "worker_completed", "none", "none",
                  "keep")
  /\ UNCHANGED <<loop, held>>

\* The token budget is exceeded: the stage is paused before the result is
\* written, and the locks are kept.
TokensExceeded(t) ==
  /\ Passes(t, "result")
  /\ PauseThen(t, "other", "persist")
  /\ UNCHANGED <<loop, held>>
Persist(t) ==
  /\ pc[t] = "persist"
  /\ Report(t, "worker_completed", "worker_completed", "none", "none", "keep")
  /\ UNCHANGED <<loop, held>>

ResultIs(t) ==
  /\ Passes(t, "result")
  /\ \/ Report(t, "rework_required", "waiting_decision", "product", "product",
               "release")
     \/ Report(t, "failed", "waiting_decision", "none", "other", "release")
     \/ \E why \in {"retry", "none"} :
          Report(t, "failed", "rework_required", why, "none", "release")
     \/ Report(t, "worker_completed", "worker_completed", "none", "none", "post")
  /\ UNCHANGED <<loop, held>>

-----------------------------------------------------------------------------
(* PostWorkerHandler *)

\* Mutant: only estimates are compared, not what others have claimed.
EstimatesOnly(t, f) ==
  \E u \in Tasks \ {t} : ~Serial(t, u) /\ f \cap Est[u] # {}
ClaimConflict(t, f) ==
  \E u \in Tasks \ {t} : ~Serial(t, u) /\ f \cap (Est[u] \cup claim[u]) # {}

\* Scope, completion evidence and scope expansion.
Unfit(t) ==
  /\ pc[t] = "post"
  /\ \/ Report(t, "failed", "waiting_decision", "none", "other", "release")
     \/ Report(t, "rework_required", "waiting_decision", "none", "other",
               "release")
  /\ UNCHANGED <<loop, held>>

ClaimRefused(t) ==
  /\ pc[t] = "post" /\ ClaimConflict(t, Mine(t).files)
  /\ PauseThen(t, "other", "release")
  /\ UNCHANGED <<loop, held>>

Claim(t) ==
  /\ Passes(t, "post") /\ ~ClaimConflict(t, Mine(t).files)
  /\ claim' = [claim EXCEPT ![t] = @ \cup Mine(t).files]
  /\ Report(t, "validating", "validating", "none", "none", "gates")
  /\ UNCHANGED <<loop, lock>>

GatesFail(t) ==
  /\ pc[t] = "gates"
  /\ \/ Report(t, "failed", "rework_required", "retry", "none", "release")
     \/ Report(t, "failed", "waiting_decision", "none", "other", "release")
  /\ UNCHANGED <<loop, held>>

\* Mutant: a retry may skip its review, too.
LowRiskOnly(t) == t \in LowRisk
MaySkip(t) == t \in LowRisk /\ num[t] = 1
AskForReview(t) ==
  /\ Passes(t, "gates")
  /\ IF MaySkip(t)
     THEN Report(t, "review_skipped", "review_skipped", "none", "none",
                 "release")
     ELSE Report(t, "reviewing", "reviewing", "none", "none", "review")
  /\ UNCHANGED <<loop, held>>

CreateReview(t) ==
  /\ Go(t, "review", "asked")
  /\ att' = [att EXCEPT ![t][num[t]].review = "running"]
  /\ UNCHANGED <<loop, num, loc, stage, pause, task, held>>

\* Mutant: a reviewer that is not available has given a verdict.
AnyVerdict(t) ==
  /\ pc[t] = "asked"
  /\ \E v \in {"failed", "approved", "rework_required"} :
       att' = [att EXCEPT ![t][num[t]].review = v]
  /\ pc' = [pc EXCEPT ![t] = "verdict"]
  /\ UNCHANGED <<loop, num, loc, stage, pause, task, held>>
\* "failed": the reviewer, its quota or its privacy gate is not available.
RecordReview(t) ==
  /\ pc[t] = "asked"
  /\ \E v \in {"failed", "approved", "rework_required"} :
       /\ att' = [att EXCEPT ![t][num[t]].review = v]
       /\ pc' = [pc EXCEPT ![t] = IF v = "failed" THEN "retry" ELSE "verdict"]
  /\ UNCHANGED <<loop, num, loc, stage, pause, task, held>>

\* A real reviewer gets neither a diff nor a diagnosis.
NothingToReview(t) ==
  /\ pc[t] = "asked"
  /\ Report(t, "failed", "waiting_decision", "none", "other", "release")
  /\ UNCHANGED <<loop, held>>

\* retryReviewAtomically: attempt and task in one transaction.
RetryReview(t) ==
  /\ pc[t] = "retry"
  /\ IF /\ Mine(t).status = task[t]
        /\ task[t] \in {"reviewing", "worker_completed"}
     THEN /\ att' = [att EXCEPT ![t][num[t]].status = "worker_completed"]
          /\ task' = [task EXCEPT ![t] = "worker_completed"]
          /\ pc' = [pc EXCEPT ![t] = "pausing"]
          /\ loc' = [loc EXCEPT ![t] = [NoLoc EXCEPT !.reason = "other",
                                                     !.next = "release"]]
     ELSE Throw(t) /\ UNCHANGED <<att, task>>
  /\ UNCHANGED <<loop, num, stage, pause, held>>

Verdict(t) ==
  /\ Passes(t, "verdict")
  /\ \E reason \in {"none", "other"} :
       Report(t, Mine(t).review, Mine(t).review, "none", reason, "release")
  /\ UNCHANGED <<loop, held>>

-----------------------------------------------------------------------------
(* Start, resume and the other actors. *)

\* Preflight: an attempt in review without a review record, and locks of a
\* task without an attempt, block the resume.
Blocking ==
  \E t \in Tasks : \/ LatestIs(t, {"reviewing"}) /\ Latest(t).review = "none"
                   \/ t \in lock /\ att[t] = <<>>

Resume ==
  /\ main \in {"off", "crashed"} /\ stage # "canceled" /\ ~Blocking
  /\ main' = "start" /\ pause' = "none"
  /\ stage' = IF stage = "paused" THEN "ready" ELSE stage
  /\ att' = [t \in Tasks |->
               [i \in 1..Len(att[t]) |->
                  IF att[t][i].why = "asked" /\ pause = "product"
                  THEN [att[t][i] EXCEPT !.why = "answered"] ELSE att[t][i]]]
  /\ UNCHANGED <<done, crashes, own, task, held>>

\* Automatic reconciliation: workers that are gone, reviews with a verdict,
\* locks of attempts that have ended.
Reconciled(a, stale) ==
  IF a.status = "running" /\ (a.child = "gone" \/ (a.child = "none" /\ stale))
  THEN Became(a, "interrupted")
  ELSE IF a.status = "reviewing" /\ a.review \in {"approved", "rework_required"}
       THEN Became(a, a.review) ELSE a
Orphaned(t) ==
  \/ LatestIs(t, Terminal)
  \/ /\ LatestIs(t, {"running", "rework_required", "review_skipped"})
     /\ Latest(t).child = "gone"

StartRun ==
  /\ main = "start"
  /\ IF stage = "canceled"
     THEN main' = "off" /\ UNCHANGED <<done, stage, att, lock>>
     ELSE /\ main' = "loop" /\ done' = {} /\ stage' = "running"
          /\ \E stale \in BOOLEAN :      \* the dispatch leases have expired
               att' = [t \in Tasks |-> [i \in 1..Len(att[t]) |->
                                          Reconciled(att[t][i], stale)]]
          /\ lock' = {t \in lock : ~Orphaned(t)}
  /\ UNCHANGED <<crashes, own, pause, task, claim>>

\* The workers of a scheduler that dies may live on for a while.
Crash ==
  /\ main \in {"start", "loop", "retry", "integration", "deadlock"}
  /\ stage # "canceled"
  /\ crashes < MaxCrashes /\ crashes' = crashes + 1
  /\ main' = "crashed" /\ done' = {}
  /\ pc' = [t \in Tasks |-> "idle"] /\ num' = [t \in Tasks |-> 0]
  /\ loc' = [t \in Tasks |-> NoLoc]
  /\ \E dead \in SUBSET {t \in Tasks : pc[t] = "work"} :
       att' = [t \in Tasks |-> IF t \in dead
                               THEN [att[t] EXCEPT ![num[t]].child = "gone"]
                               ELSE att[t]]
  /\ UNCHANGED <<stage, pause, task, held>>

WorkerExits(t) ==
  \E i \in 1..Len(att[t]) :
    /\ att[t][i].child = "alive" /\ ~(pc[t] = "work" /\ num[t] = i)
    /\ att' = [att EXCEPT ![t][i].child = "gone"]
    /\ UNCHANGED <<loop, own, stage, pause, task, held>>

\* `cancel` kills the running workers and leaves the tasks alone. Bound: a
\* behaviour has a cancel or a crash, not both, and a cancel finds a scheduler
\* running; without one a canceled stage takes no step any more.
Canceled(a) ==
  IF a.status # "running" THEN a
  ELSE IF a.child = "alive"
       THEN Became([a EXCEPT !.child = "gone"], "canceled")
       ELSE Became(a, "interrupted")
Cancel ==
  /\ main \notin {"off", "crashed", "failed", "integrate"}
  /\ stage # "canceled" /\ crashes = 0
  /\ stage' = "canceled"
  /\ att' = [t \in Tasks |-> [i \in 1..Len(att[t]) |-> Canceled(att[t][i])]]
  /\ UNCHANGED <<loop, own, pause, task, held>>

-----------------------------------------------------------------------------
Init ==
  /\ main = "start" /\ done = {} /\ stage = "ready" /\ pause = "none"
  /\ pc = [t \in Tasks |-> "idle"] /\ num = [t \in Tasks |-> 0]
  /\ loc = [t \in Tasks |-> NoLoc]
  /\ task = [t \in Tasks |-> "pending"] /\ att = [t \in Tasks |-> <<>>]
  /\ lock = {} /\ claim = [t \in Tasks |-> {}] /\ crashes = 0

TaskStep(t) ==
  \/ Choose(t) \/ Dispatch(t) \/ RetryBlocked(t)
  \/ Settle(t) \/ RecordPause(t) \/ Catch(t) \/ Leave(t) \/ StopIfCanceled(t)
  \/ Begin(t) \/ BeginKept(t) \/ CreateAttempt(t) \/ PrepareFails(t) \/ Spawn(t)
  \/ WorkerEnds(t) \/ NoResult(t) \/ TokensExceeded(t)
  \/ Persist(t) \/ ResultIs(t) \/ Unfit(t) \/ ClaimRefused(t) \/ Claim(t)
  \/ GatesFail(t) \/ AskForReview(t) \/ CreateReview(t)
  \/ RecordReview(t) \/ NothingToReview(t) \/ RetryReview(t) \/ Verdict(t)

Next == \/ \E t \in Tasks : TaskStep(t) \/ WorkerExits(t)
        \/ CountDone \/ Deadlock \/ Finish \/ LoopPauses \/ Drained
        \/ Resume \/ StartRun \/ Crash \/ Cancel

Spec == Init /\ [][Next]_vars

-----------------------------------------------------------------------------
(* Properties. *)

\* Every variable has its type.
TypeOK ==
  /\ main \in {"off", "crashed", "start", "loop", "retry", "integration",
               "deadlock", "failed", "integrate"}
  /\ done \subseteq Tasks /\ lock \subseteq Tasks
  /\ pc \in [Tasks -> Step] /\ loc \in [Tasks -> Loc]
  /\ stage \in {"ready", "running", "paused", "canceled"} /\ pause \in Reason
  /\ task \in [Tasks -> DOMAIN TaskNext] /\ claim \in [Tasks -> SUBSET Paths]
  /\ att \in [Tasks -> Seq(Attempt)] /\ num \in [Tasks -> Nat]
  /\ crashes \in 0..MaxCrashes

\* Two tasks whose locked paths overlap never have a scheduled worker at the
\* same time, however their locks were kept, reused, orphaned or released.
WritersExclusive ==
  \A t, u \in Tasks :
    <<t, u>> \in Clash => ~(pc[t] = "work" /\ pc[u] = "work")

\* What independent tasks bring to the integration does not overlap: their
\* accepted attempts have changed different paths.
AcceptedDisjoint ==
  \A t, u \in Tasks :
    t # u /\ ~Serial(t, u) /\ Accepted(t) /\ Accepted(u) =>
      Latest(t).files \cap Latest(u).files = {}

\* An approved attempt has an approving review of its own, crash or not; only
\* the first attempt of a task of low risk goes on without one.
AcceptedIsReviewed ==
  \A t \in Tasks :
    /\ LatestIs(t, {"approved"}) => Latest(t).review = "approved"
    /\ LatestIs(t, {"review_skipped"}) => t \in LowRisk /\ Len(att[t]) = 1

\* A scheduler that has not crashed leaves locks only for attempts that wait
\* for their review, however its tasks ended: by a result, by an exception or
\* under the pause of another task. (A canceled stage needs no locks.)
LocksAccounted ==
  main = "off" /\ crashes = 0 /\ stage # "canceled" =>
    \A t \in lock : Kept(t)

\* Attempts that ended in a result or in a failure.
Uncounted  == {"running", "interrupted", "canceled"}
Counted(t) == {i \in 1..Len(att[t]) : att[t][i].status \notin Uncounted}

\* Across crashes and resumes no more attempts end in a result or a failure
\* than the first one and the allowed reworks. A crash that parts an attempt's
\* validating from its task may cost one attempt more, but not the first crash.
Repeats == IF crashes > 1 THEN crashes - 1 ELSE 0
RetryBounded ==
  \A t \in Tasks : Cardinality(Counted(t)) <= MaxRework + 1 + Repeats

\* A scheduler that ends by itself leaves the stage canceled, or paused with a
\* PauseRecord.
NoHalfState ==
  main = "off" => stage = "canceled" \/ (stage = "paused" /\ pause # "none")

\* retry-policy.ts:6: "maxReworkCount = 2" allows at most three attempts,
\* whatever crashes come between.
AttemptsLimited ==
  \A t \in Tasks : Cardinality(Counted(t)) <= MaxRework + 1

\* stage-scheduler.ts:1890 resumes "the active locks kept by the hard-pause /
\* recovery path": an attempt that was kept for its review has its locks when
\* the stage has paused in order.
RetriedReviewResumes ==
  main = "off" /\ crashes = 0 /\ stage = "paused" =>
    \A t \in Tasks : Kept(t) => t \in lock

\* A product decision that a worker asks for gets a PauseRecord of its own, so
\* that its answer lets the task go on.
ProductDecisionAsked ==
  main = "off" /\ stage = "paused" /\ crashes = 0 =>
    \A t \in Tasks : Latest(t).why # "product"
=============================================================================
