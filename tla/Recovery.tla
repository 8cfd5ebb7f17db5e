------------------------------- MODULE Recovery -------------------------------
(***************************************************************************)
(* One task whose work is recovered: the scheduler that calls the worker   *)
(* and carries its result through evidence, gates and review, one update   *)
(* of the database after the other; the adoption of a commit the worker    *)
(* has left behind, by the scheduler itself or by `recover attempt'; the   *)
(* reconciliation that a person applies; and the person, who works in the  *)
(* worktree.  Any of them may run between two steps of another.            *)
(*                                                                         *)
(* The worker is known by what it promises (WorkerCall).  Left out: other  *)
(* tasks, whose locks may refuse an adoption; scope expansions; what is    *)
(* still written in a worktree by a tool that outlives a crash of the      *)
(* scheduler and its worker.                                               *)
(***************************************************************************)
EXTENDS WorkerCall, Integers, Sequences

CONSTANTS
  Orphans,       \* whether a worker may outlive its scheduler
  MaxAttempts,   \* bound: attempts of the task
  MaxRecovers,   \* bound: calls of `recover attempt'
  MaxTroubles    \* bound: crashes and calls of `reconcile --apply' together

ASSUME RecoveryAssumption ==
  /\ Orphans \in BOOLEAN
  /\ MaxAttempts \in Nat /\ MaxRecovers \in Nat
  /\ MaxTroubles \in Nat

VARIABLES
  att,      \* the latest attempt
  task, stage,
  locked,   \* whether the task holds its path locks
  review,   \* the latest review of the attempt
  sched,    \* what the scheduler is at
  todo,     \* the updates it has yet to make
  from,     \* whether it carries on a fresh result or a kept one
  given,    \* the commit of the WorkerResult it has in memory
  auto,     \* what the scheduler has read to adopt a commit by itself
  rec,      \* what `recover attempt' has read
  plan,     \* what `reconcile --apply' is going to do
  used      \* recoveries and troubles so far

records   == <<att, task, stage, locked, review>>
scheduler == <<sched, todo, from, given, auto>>
vars      == <<callVars, records, scheduler, rec, plan, used>>

None    == -1
Commits == 0..MaxCommits

AttNext == [running          |-> {"worker_completed", "rework_required",
                                  "failed", "interrupted"},
            worker_completed |-> {"validating", "rework_required", "failed"},
            validating       |-> {"reviewing", "failed", "rework_required"},
            reviewing        |-> {"approved", "rework_required", "failed"},
            rework_required  |-> {"running"},
            approved |-> {}, failed |-> {}, interrupted |-> {}]
TaskNext == [pending          |-> {"ready", "waiting_decision"},
             ready            |-> {"running", "waiting_decision",
                                   "rework_required"},
             running          |-> {"worker_completed", "waiting_decision",
                                   "rework_required"},
             worker_completed |-> {"validating", "waiting_decision",
                                   "rework_required"},
             validating       |-> {"reviewing", "waiting_decision",
                                   "rework_required"},
             reviewing        |-> {"approved", "waiting_decision",
                                   "rework_required"},
             waiting_decision |-> {"running", "rework_required"},
             rework_required  |-> {"ready", "waiting_decision"},
             approved         |-> {}]
Terminal == {"approved", "failed", "interrupted"}

NoAttempt == [num |-> 0, status |-> "failed", result |-> None,
              source |-> "pi", adopted |-> None]
NoReview  == [verdict |-> "none", through |-> None]

\* What a reader of the database has seen of the task, and the commit it has
\* found in the worktree.
Idle == [at |-> "idle", num |-> 0, status |-> "failed", task |-> "pending",
         stage |-> "running", commit |-> None]
Seen == [at |-> "gates", num |-> att.num, status |-> att.status, task |-> task,
         stage |-> stage, commit |-> tree.head]
NoPlan == [num |-> 0, attempt |-> "keep", unlock |-> FALSE]

Updates ==
  ({"attempt"} \X (DOMAIN AttNext \ {"running", "interrupted"}))
    \cup ({"task"} \X (DOMAIN TaskNext \ {"pending", "ready", "running"}))
    \cup ({"result"} \X {"write", "null"})
    \cup ({"check"} \X {"evidence", "gates"})
    \cup ({"review"} \X {"create", "result", "retry"})
    \cup {<<"stage", "pause">>, <<"locks", "release">>,
          <<"latest", "failed">>, <<"still", "rework_required">>}

Snapshot == [at : {"idle", "gates", "adopt"}, num : 0..MaxAttempts,
             status : DOMAIN AttNext, task : DOMAIN TaskNext,
             stage : {"running", "paused"}, commit : Commits \cup {None}]
TypeOK ==
  /\ CallTypeOK
  /\ att \in [num : 0..MaxAttempts, status : DOMAIN AttNext,
              result : Commits \cup {None}, source : {"pi", "manual", "auto"},
              adopted : Commits \cup {None}]
  /\ task \in DOMAIN TaskNext /\ stage \in {"running", "paused", "done"}
  /\ locked \in BOOLEAN
  /\ review \in [verdict : {"none", "asked", "approved", "rework_required",
                            "failed"}, through : Commits \cup {None}]
  /\ sched \in {"off", "loop", "call", "auto", "writes"}
  /\ from \in {"fresh", "resume"} /\ given \in Commits \cup {None}
  /\ todo \in Seq(Updates)
  /\ auto \in Snapshot /\ rec \in Snapshot
  /\ plan \in [num : 0..MaxAttempts, unlock : BOOLEAN,
               attempt : {"keep", "interrupt", "by-review"}]
  /\ used \in [recovers : 0..MaxRecovers, troubles : 0..MaxTroubles]

Init ==
  /\ CallInit
  /\ att = NoAttempt /\ task = "pending" /\ stage = "running"
  /\ locked = FALSE /\ review = NoReview
  /\ sched = "loop" /\ todo = <<>> /\ from = "fresh" /\ given = None
  /\ auto = Idle /\ rec = Idle /\ plan = NoPlan
  /\ used = [recovers |-> 0, troubles |-> 0]

-----------------------------------------------------------------------------
(* The updates of the scheduler, each a statement of its own               *)

A(status) == <<"attempt", status>>
T(status) == <<"task", status>>
Persist == <<"result", "write">>    Wipe   == <<"result", "null">>
Pause   == <<"stage", "pause">>     Unlock == <<"locks", "release">>

Post == << <<"check", "evidence">>, A("validating"), T("validating"),
           <<"check", "gates">>, A("reviewing"), T("reviewing"),
           <<"review", "create">>, <<"review", "result">> >>

\* What execTask does about the outcomes of the call and of the checks.
Missing      == <<A("failed"), T("waiting_decision"), Wipe, Pause, Unlock>>
Lost         == <<A("failed"), T("waiting_decision"), Unlock>>
Decision     == <<Persist, A("rework_required"), T("waiting_decision"), Pause,
                  Unlock>>
Blocked      == <<Persist, A("failed"), T("waiting_decision"), Pause, Unlock>>
Failed       == <<Persist, A("failed"), T("rework_required"), Unlock>>
OverBudget   == <<Pause, Persist, A("worker_completed"), T("worker_completed")>>
Completed    ==
  <<Persist, A("worker_completed"), T("worker_completed")>> \o Post
Unverifiable == <<A("failed"), T("waiting_decision"), Pause, Unlock>>
GatesFailed  == <<A("failed"), T("rework_required"), Unlock>>
Verdict(v)   == <<A(v), T(v), Unlock>>
Unavailable  == << <<"review", "retry">>, Pause, Unlock>>
Catch        ==
  << <<"latest", "failed">>, <<"still", "rework_required">>, Unlock>>

Writes(list) == sched' = "writes" /\ todo' = list
Next1(head)  == sched = "writes" /\ todo # <<>> /\ Head(todo)[1] = head
Rest         == todo' = Tail(todo)
Throws       == todo' = Catch
working      == <<callVars, sched, from, given, auto, rec, plan, used>>

\* updateAttemptStatus: a terminal attempt is left as it is, without an error.
UpdateAttempt ==
  LET to == Head(todo)[2] IN
  /\ Next1("attempt")
  /\ CASE att.status \in Terminal \cup {to} -> Rest /\ UNCHANGED att
       [] to \in AttNext[att.status] ->
            Rest /\ att' = [att EXCEPT !.status = to]
       [] OTHER -> Throws /\ UNCHANGED att
  /\ UNCHANGED <<task, stage, locked, review, working>>

UpdateTask ==
  LET to == Head(todo)[2] IN
  /\ Next1("task")
  /\ CASE task = to -> Rest /\ UNCHANGED task
       [] task # to /\ to \in TaskNext[task] -> Rest /\ task' = to
       [] OTHER -> Throws /\ UNCHANGED task
  /\ UNCHANGED <<att, stage, locked, review, working>>

\* The catch block gives up at the first update that throws once more.
CatchAttempt ==
  /\ Next1("latest")
  /\ CASE att.status \in Terminal -> Rest /\ UNCHANGED att
       [] "failed" \in AttNext[att.status] ->
            Rest /\ att' = [att EXCEPT !.status = "failed"]
       [] OTHER -> todo' = <<Unlock>> /\ UNCHANGED att
  /\ UNCHANGED <<task, stage, locked, review, working>>

CatchTask ==
  /\ Next1("still")
  /\ Rest
  /\ task' = IF "rework_required" \in TaskNext[task] THEN "rework_required"
                                                    ELSE task
  /\ UNCHANGED <<att, stage, locked, review, working>>

UpdateResult ==
  /\ Next1("result") /\ Rest
  /\ att' = [att EXCEPT !.result = IF Head(todo) = Wipe THEN None ELSE given]
  /\ UNCHANGED <<task, stage, locked, review, working>>

PauseStage ==
  /\ Next1("stage") /\ Rest /\ stage' = "paused"
  /\ UNCHANGED <<att, task, locked, review, working>>

ReleaseLocks ==
  /\ Next1("locks") /\ Rest /\ locked' = FALSE
  /\ UNCHANGED <<att, task, stage, review, working>>

\* Mutant: any commit is evidence.
EvidenceAny == given # None
\* The commit the result claims is the HEAD of the worktree.
Evidence == given = tree.head

\* Scope, claims and evidence, then the quality gates.
Check ==
  /\ Next1("check")
  /\ IF Head(todo)[2] = "evidence"
     THEN todo' = Unverifiable \/ (Evidence /\ Rest)
     ELSE todo' = GatesFailed \/ Rest
  /\ UNCHANGED <<records, working>>

Review ==
  /\ Next1("review")
  /\ CASE Head(todo)[2] = "create" ->
            /\ review' = [verdict |-> "asked", through |-> None] /\ Rest
            /\ UNCHANGED <<att, task>>
       [] Head(todo)[2] = "result" ->
            /\ \E v \in {"approved", "rework_required", "failed"} :
                 /\ review' = [verdict |-> v, through |-> tree.head]
                 /\ todo' = IF v = "failed" THEN Unavailable ELSE Verdict(v)
            /\ UNCHANGED <<att, task>>
       [] OTHER ->           \* retryReviewAtomically
            /\ IF att.status = task
                    /\ task \in {"reviewing", "worker_completed"}
               THEN /\ Rest /\ task' = "worker_completed"
                    /\ att' = [att EXCEPT !.status = "worker_completed"]
               ELSE Throws /\ UNCHANGED <<att, task>>
            /\ UNCHANGED review
  /\ UNCHANGED <<stage, locked, working>>

Done ==
  /\ sched = "writes" /\ todo = <<>> /\ sched' = "loop"
  /\ UNCHANGED <<callVars, records, todo, from, given, auto, rec, plan, used>>

-----------------------------------------------------------------------------
(* The scheduler around its updates                                        *)

Kept == att.status = "worker_completed"

\* The dispatch, which TaskPool takes apart, and the first step of the call.
Dispatch ==
  /\ sched = "loop" /\ stage = "running" /\ att.num < MaxAttempts
  /\ att.status \in {"failed", "rework_required", "interrupted"}
  /\ IF task \in {"pending", "ready", "rework_required", "waiting_decision",
                  "running"}
     THEN /\ Begin
          /\ att' = [NoAttempt EXCEPT !.num = att.num + 1, !.status = "running"]
          /\ task' = "running" /\ review' = NoReview /\ sched' = "call"
          /\ from' = "fresh" /\ given' = None /\ UNCHANGED todo
     ELSE /\ Writes(Catch)
          /\ UNCHANGED <<callVars, att, task, review, from, given>>
  /\ locked' = TRUE
  /\ UNCHANGED <<stage, auto, rec, plan, used>>

\* checkRetryBudget refuses, or a task waits for a decision.
RetryBlocked ==
  /\ sched = "loop" /\ stage = "running" /\ att.num > 0
  /\ att.status \in {"failed", "rework_required"}
  /\ "waiting_decision" \in TaskNext[task] \cup {task}
  /\ task' = "waiting_decision" /\ stage' = "paused"
  /\ UNCHANGED <<callVars, att, locked, review, scheduler, rec, plan, used>>

\* A task is integrated when it is approved, not when its attempt is.
Finish ==
  /\ sched = "loop" /\ stage = "running" /\ att.status = "approved"
  /\ stage' = IF task = "approved" THEN "done" ELSE "paused"
  /\ UNCHANGED <<callVars, att, task, locked, review, scheduler, rec, plan,
                 used>>

Drained ==
  /\ sched = "loop" /\ stage # "running" /\ sched' = "off"
  /\ UNCHANGED <<callVars, records, todo, from, given, auto, rec, plan, used>>

\* With no scheduler to wait for it, a call is over with its worker.
WorkerGoes ==
  /\ worker = "up" /\ worker' = "gone"
  /\ call' = IF Open /\ sched # "call" THEN "threw" ELSE call
  /\ UNCHANGED tree

\* The steps of the call.
WorkerCalls ==
  /\ Spawn \/ WorkerGoes \/ Understood \/ Works
  /\ UNCHANGED <<records, scheduler, rec, plan, used>>

\* A result claims a commit, which may be any.
CallReturns ==
  /\ sched = "call"
  /\ \E outcome \in Outcome :
       /\ Returns(outcome)
       /\ IF outcome \in {"missing", "threw"} THEN given' = None
                                             ELSE given' \in 0..tree.head
       /\ CASE outcome = "missing" -> sched' = "auto" /\ UNCHANGED todo
            [] outcome = "threw" -> Writes(Catch)
            [] outcome = "decision" -> Writes(Decision)
            [] outcome = "blocked" -> Writes(Blocked)
            [] outcome = "failed" -> Writes(Failed)
            [] outcome = "completed" ->
                 Writes(Completed) \/ Writes(OverBudget)
  /\ UNCHANGED <<records, from, auto, rec, plan, used>>

\* What the proof of an adoption is worth when it is resumed.
ProofAny == TRUE
Proof == att.source = "pi"
           \/ (att.result = att.adopted /\ tree.head = att.adopted)

\* resumeFromWorkerCompleted
ResumeKept ==
  /\ sched = "loop" /\ stage = "running" /\ Kept
  /\ from' = "resume" /\ given' = att.result
  /\ IF att.result = None THEN sched' = "auto" /\ UNCHANGED todo
     ELSE Writes(IF Proof /\ locked THEN Post ELSE <<Pause>>)
  /\ UNCHANGED <<callVars, records, auto, rec, plan, used>>

-----------------------------------------------------------------------------
(* The adoption of a commit                                                *)

Adoptable == {"failed", "interrupted", "running", "worker_completed",
              "rework_required"}
Verifiable == ~tree.dirty /\ tree.head > 0
Unchanged(s) == ~tree.dirty /\ tree.head = s.commit

\* Mutant: what was read before the gates is taken for granted.
CurrentLatest(s) == s.num = att.num
\* The statuses are the ones that were read before the gates, and the attempt
\* is the latest still.
Current(s) ==
  /\ s.num = att.num /\ s.status = att.status
  /\ s.task = task /\ s.stage = stage

MayAdopt(s) ==
  /\ Current(s) /\ stage # "done" /\ att.status \in Adoptable
  /\ att.status = "rework_required" =>
       review.verdict \in {"none", "rework_required"}
  /\ task \in {"failed", "rework_required", "waiting_decision", "running",
               "worker_completed"}

\* Mutant: the status of the attempt is put back as the one of the task.
AdoptMixed(s, source) ==
  /\ att' = [att EXCEPT !.status = "worker_completed", !.result = s.commit,
                        !.source = source, !.adopted = s.commit]
  /\ task' = s.status /\ stage' = "paused" /\ locked' = TRUE
\* adoptRecoveryAtomically
Adopt(s, source) ==
  /\ att' = [att EXCEPT !.status = "worker_completed", !.result = s.commit,
                        !.source = source, !.adopted = s.commit]
  /\ task' = "worker_completed" /\ stage' = "paused" /\ locked' = TRUE

NotAdopted == Writes(IF from = "fresh" THEN Missing ELSE Lost)

\* autoAdoptVerifiableCommitEvidence, up to the gates.
AutoLooks ==
  /\ sched = "auto" /\ auto = Idle
  /\ IF att.status \in Adoptable /\ att.result = None /\ Verifiable
          /\ stage # "done"
     THEN auto' = Seen /\ UNCHANGED <<sched, todo>>
     ELSE NotAdopted /\ UNCHANGED auto
  /\ UNCHANGED <<callVars, records, from, given, rec, plan, used>>

\* The gates, and the worktree again; then the adoption, after which the locks
\* are kept for the next resume.
AutoGates ==
  /\ sched = "auto" /\ auto.at = "gates"
  /\ \/ Unchanged(auto) /\ auto' = [auto EXCEPT !.at = "adopt"]
          /\ UNCHANGED <<sched, todo>>
     \/ NotAdopted /\ auto' = Idle
  /\ UNCHANGED <<callVars, records, from, given, rec, plan, used>>

AutoAdopts ==
  /\ sched = "auto" /\ auto.at = "adopt" /\ auto' = Idle
  /\ \/ MayAdopt(auto) /\ Adopt(auto, "auto") /\ Writes(<<>>)
     \/ NotAdopted /\ UNCHANGED <<att, task, stage, locked>>
  /\ UNCHANGED <<callVars, review, from, given, rec, plan, used>>

\* `recover attempt' reads, runs the gates, and looks at the worktree again.
RecoverLooks ==
  /\ rec = Idle /\ used.recovers < MaxRecovers
  /\ att.num > 0 /\ stage # "done" /\ Verifiable
  /\ att.status = "rework_required" =>
       review.verdict \in {"none", "rework_required"}
  /\ rec' = Seen /\ used' = [used EXCEPT !.recovers = @ + 1]
  /\ UNCHANGED <<callVars, records, scheduler, plan>>

RecoverGates ==
  /\ rec.at = "gates"
  /\ rec' = Idle \/ (Unchanged(rec) /\ rec' = [rec EXCEPT !.at = "adopt"])
  /\ UNCHANGED <<callVars, records, scheduler, plan, used>>

RecoverAdopts ==
  /\ rec.at = "adopt" /\ rec' = Idle
  /\ (MayAdopt(rec) /\ Adopt(rec, "manual"))
       \/ UNCHANGED <<att, task, stage, locked>>
  /\ UNCHANGED <<callVars, review, scheduler, plan, used>>

-----------------------------------------------------------------------------
(* The other actors                                                        *)

\* classifyAttempt and classifyLock. A turn whose process has ended looks like
\* a worker that has died; without a pid the dispatch lease may have expired.
Actions(stale) ==
  [num     |-> att.num,
   attempt |->
     CASE att.status = "running"
            /\ (worker = "gone" \/ (worker = "none" /\ stale)) -> "interrupt"
       [] att.status \in {"worker_completed", "validating"}
            /\ att.result = None -> "interrupt"
       [] att.status = "reviewing"
            /\ review.verdict \in {"approved", "rework_required"} -> "by-review"
       [] OTHER -> "keep",
   unlock  |->
     locked /\ \/ att.status \in Terminal
               \/ att.status \in {"running", "rework_required"}
                    /\ worker = "gone"]

\* executeAtomicAction: what has ended in the meantime is left alone.
Apply(p) ==
  /\ att' = IF p.num = att.num /\ att.status \notin {"approved", "failed"}
            THEN CASE p.attempt = "interrupt" ->
                        [att EXCEPT !.status = "interrupted"]
                   [] p.attempt = "by-review"
                        /\ review.verdict \in {"approved", "rework_required"}
                        /\ review.verdict \in AttNext[att.status] ->
                        [att EXCEPT !.status = review.verdict]
                   [] OTHER -> att
            ELSE att
  /\ locked' = (locked /\ ~p.unlock)

ReconcileLooks ==
  /\ plan = NoPlan /\ used.troubles < MaxTroubles /\ att.num > 0
  /\ \E stale \in BOOLEAN : plan' = Actions(stale)
  /\ plan'.attempt # "keep" \/ plan'.unlock
  /\ used' = [used EXCEPT !.troubles = @ + 1]
  /\ UNCHANGED <<callVars, records, scheduler, rec>>

ReconcileApplies ==
  /\ plan # NoPlan /\ Apply(plan) /\ plan' = NoPlan
  /\ UNCHANGED <<callVars, task, stage, review, scheduler, rec, used>>

\* Evidence that is lost blocks a resume; so does a review without a record.
Blocking ==
  \/ att.status \in {"worker_completed", "validating"} /\ att.result = None
  \/ att.status = "reviewing" /\ review.verdict = "none"

\* The scheduler that a resume starts reconciles first.
Resume ==
  /\ sched = "off" /\ stage # "done" /\ ~Blocking
  /\ sched' = "loop" /\ stage' = "running"
  /\ \E stale \in BOOLEAN : Apply(Actions(stale))
  /\ UNCHANGED <<callVars, task, review, todo, from, given, auto, rec, plan,
                 used>>

\* The worker dies with the scheduler, or nobody waits for what it returns.
Crash ==
  /\ sched # "off" /\ used.troubles < MaxTroubles
  /\ used' = [used EXCEPT !.troubles = @ + 1]
  /\ sched' = "off" /\ todo' = <<>> /\ auto' = Idle
  /\ IF Open /\ ~(Orphans /\ worker = "up")
     THEN /\ call' = "threw" /\ UNCHANGED tree
          /\ worker' = IF worker = "up" THEN "gone" ELSE worker
     ELSE UNCHANGED callVars
  /\ UNCHANGED <<records, from, given, rec, plan>>

\* The person works in the worktree of a task nobody works on.
Person ==
  /\ sched = "off" /\ ~Open /\ att.num > 0 /\ stage # "done"
  /\ \/ tree.head < MaxCommits
          /\ tree' = [head |-> tree.head + 1, dirty |-> FALSE]
     \/ tree' = [tree EXCEPT !.dirty = ~@]
  /\ UNCHANGED <<call, worker, records, scheduler, rec, plan, used>>

Next ==
  \/ UpdateAttempt \/ UpdateTask \/ CatchAttempt \/ CatchTask \/ UpdateResult
  \/ PauseStage \/ ReleaseLocks \/ Check \/ Review \/ Done
  \/ Dispatch \/ RetryBlocked \/ Finish \/ Drained
  \/ WorkerCalls \/ CallReturns \/ ResumeKept
  \/ AutoLooks \/ AutoGates \/ AutoAdopts
  \/ RecoverLooks \/ RecoverGates \/ RecoverAdopts
  \/ ReconcileLooks \/ ReconcileApplies \/ Resume
  \/ Crash \/ Person

Spec == Init /\ [][Next]_vars

-----------------------------------------------------------------------------
(* Properties                                                              *)

Approves == att'.status = "approved" /\ att.status # "approved"

\* resumeFromWorkerCompleted: an adopted attempt that the scheduler approves
\* after a resume has been approved for the commit that was adopted, whatever a
\* late result, a person or a second recovery did to attempt and worktree.
AdoptedIsReviewed ==
  [][Approves /\ UpdateAttempt /\ from = "resume" /\ att.source # "pi"
     => review.through = att.adopted]_vars

\* PostWorkerHandler: what is approved has been reviewed through the commit that
\* the result it was given claims; so has what a report approves, unless its
\* work was adopted in the meantime (JudgedAnew).
ApprovedIsClaimed ==
  [][Approves /\ (UpdateAttempt \/ att.source = "pi")
     => review.through = given]_vars

\* autoAdoptVerifiableCommitEvidence: the scheduler never puts a commit of its
\* own choice in the place of one a person has adopted.
AutoNeverOverrides ==
  [][att.source = "manual" /\ att'.source = "auto" => att'.num # att.num]_vars

\* recover.ts:99 writes on an adopted commit "normal review and integration
\* still required": no verdict on earlier work is put on it.
JudgedAnew ==
  [][/\ from = "resume" /\ att.source # "pi" /\ att.status = "reviewing"
     /\ att'.status \in {"approved", "rework_required"}
     => review.through = att.adopted]_vars

\* recover.ts:138 announces an adopted candidate and its next step, resume:
\* until then it stays what it was adopted as.
AdoptionStands ==
  [][/\ att.status = "worker_completed" /\ att.source # "pi"
     /\ att'.status # att.status
     => from = "resume"]_vars

\* reconcile.ts:46 applies "safe, provable state convergence": an attempt that
\* is interrupted is not one whose task goes on to be accepted.
InterruptedEnds == att.status = "interrupted" => task # "approved"
=============================================================================
