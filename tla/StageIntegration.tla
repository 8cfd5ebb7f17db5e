-------------------------- MODULE StageIntegration --------------------------
(***************************************************************************)
(* How the tasks of one stage reach the target branch: the integration     *)
(* batches, the review of the integrated tree, the merge, and every way    *)
(* out when a step fails, the process dies or somebody else acts.          *)
(*                                                                         *)
(* Actors: the scheduler process (one coroutine from the end of the task   *)
(* loop to the completed stage), `brainctl resume`, `brainctl reconcile    *)
(* --apply` and `brainctl cancel` in processes of their own, and the user, *)
(* who works in the same Git repository.  An action is the code between    *)
(* two awaits that another actor can tell apart.                           *)
(*                                                                         *)
(* A commit is a record with its identity and its tree, so that "the same  *)
(* commit" and "the same content" are different things; a tree is a set of *)
(* changes: the work of a task's attempt, or a commit of the user.  The    *)
(* project's checkout is on the target branch, and the stage's base commit *)
(* is fixed when the stage starts.                                         *)
(***************************************************************************)
EXTENDS Integers, Sequences, FiniteSets

CONSTANTS Tasks,        \* the tasks of the stage
          Skipped,      \* tasks whose first attempt skips its own review
          MaxBatches,   \* bound: integration batches of the stage
          MaxMoves,     \* bound: changes the user makes to the repository
          None          \* no commit

ASSUME IntegrationAssumption ==
         /\ Skipped \subseteq Tasks /\ IsFiniteSet(Tasks) /\ Tasks # {}
         /\ MaxBatches \in Nat /\ MaxMoves \in Nat

VARIABLES
  pc,       \* where the scheduler stands; "down", "crashed", "failed": none runs
  loc,      \* its local variables
  stage,    \* stages.status
  pause,    \* reason of the active PauseRecord, or "none"
  task,     \* tasks.status
  att,      \* status of a task's latest attempt
  ver,      \* number of the latest attempt
  batches,  \* integration_batches of the stage, by createdAt
  target,   \* the target branch: its head and the commits it contains
  recon,    \* batch that a `reconcile --apply` is about to complete, or 0
  moves     \* user changes so far

vars  == <<pc, loc, stage, pause, task, att, ver, batches, target,
           recon, moves>>
flow  == <<pc, loc>>
work  == <<task, att, ver>>
git   == <<target, moves>>

Running == {"start", "stage", "integrate", "opened", "building", "built",
            "gates", "gated", "merge_gate", "review", "reviewed", "approve",
            "rework", "check", "merge", "settle", "finish", "converge",
            "restore", "tail", "pausing", "blocking"}

Change == (Tasks \X (1..2)) \cup ({"user"} \X (1..MaxMoves))
Commit == [id : {"base", "int", "merge", "user", "hand"} \X Nat,
           tree : SUBSET Change]
Base   == [id |-> <<"base", 0>>, tree |-> {}]

ASSUME NoneAssumption == None \notin Commit

Batch == [status : {"pending", "integrating", "conflict", "failed", "completed"},
          branch : BOOLEAN,                \* the integration branch exists
          tip : Commit \cup {None},        \* its head once all is merged
          mergeHash : Commit \cup {None},  \* mergeCommitHash
          complete : BOOLEAN,              \* reviewCoverageStatus
          unavailable : BOOLEAN,           \* reviewerUnavailable
          landed : Commit \cup {None},     \* targetMergeCommit
          approves : SUBSET Tasks]         \* of the stage_review_completed event
NewBatch == [status |-> "pending", branch |-> FALSE, tip |-> None,
             mergeHash |-> None, complete |-> FALSE, unavailable |-> FALSE,
             landed |-> None, approves |-> {}]

Loc == [snap : {"ready", "running", "integration"},  \* the StageRecord it holds
        approved : SUBSET Tasks,         \* stageTasks that were `approved`
        skipped : SUBSET Tasks,          \* skippedTaskBranches
        seen : Commit \cup {None},       \* target head or merge commit it read
        block : BOOLEAN,                 \* mergeBlockApprovedTasks follows
        reason : {"integration", "inconsistent", "merge_blocked"}]
NoLoc == [snap |-> "ready", approved |-> {}, skipped |-> {}, seen |-> None,
          block |-> FALSE, reason |-> "integration"]

-----------------------------------------------------------------------------
N == Len(batches)
Last == batches[N]
SetLast(b) == batches' = [batches EXCEPT ![N] = b]

Work == {<<t, ver[t]>> : t \in Tasks}

\* Only a first attempt skips its review; a retry always has one of its own.
OwnReview(t) == t \notin Skipped \/ ver[t] > 1

End(where) == pc' = where /\ loc' = NoLoc
Goto(from, to) == pc = from /\ pc' = to

\* A check that returns false without a word when the stage was canceled.
StopIfCanceled(at) ==
  /\ pc = at /\ stage = "canceled"
  /\ End("down")
  /\ UNCHANGED <<stage, pause, work, batches, recon, git>>
PassCheckpoint(at, to) ==
  /\ Goto(at, to) /\ stage # "canceled"
  /\ UNCHANGED <<loc, stage, pause, work, batches, recon, git>>

\* A refusal: the batch gets its verdict, then the pause is recorded, then
\* the approved tasks are blocked.
Refuse(b, block) ==
  /\ SetLast(b)
  /\ pc' = "pausing"
  /\ loc' = [loc EXCEPT !.block = block, !.reason = "integration"]
  /\ UNCHANGED <<stage, pause, work, recon, git>>
RefuseAs(status) == Refuse([Last EXCEPT !.status = status], TRUE)

\* Mutant: the scheduler gives up without a pause.
GiveUpFor(reason) ==
  /\ End("down")
  /\ UNCHANGED <<stage, pause, work, batches, recon, git>>
\* A pause that concerns no batch.
PauseFor(reason) ==
  /\ pc' = "pausing"
  /\ loc' = [loc EXCEPT !.block = FALSE, !.reason = reason]
  /\ UNCHANGED <<stage, pause, work, batches, recon, git>>

\* detectAlreadyMergedReviewedTree
HoldsReviewed(commit) ==
  /\ commit # None
  /\ {commit, Base} \subseteq target.has
  /\ target.head.tree = commit.tree

-----------------------------------------------------------------------------
(* Reconciliation: what resume checks first and what --apply may repair. *)

\* isLatestBatchTrustedStageReview
Trusted == /\ N > 0
           /\ Last.status = "completed" /\ Last.complete /\ ~Last.unavailable
           /\ Last.tip # None /\ Last.mergeHash # None
           /\ Last.tip.tree = Last.mergeHash.tree

\* review_evidence_missing: an approved attempt without a review of its own
\* that no trusted review of the stage covers.
EvidenceMissing(t) ==
  att[t] = "approved" /\ ~OwnReview(t) /\ ~(Trusted /\ t \in Last.approves)

Open == N > 0 /\ Last.status \in {"pending", "integrating"}
MergeInGit == Last.mergeHash # None /\ Last.mergeHash \in target.has
BranchMissing == Open /\ ~MergeInGit /\ ~Last.branch

Blocking == BranchMissing \/ \E t \in Tasks : EvidenceMissing(t)

\* integration_stalled is mapped to a safe action by its kind, whether the
\* merge was found in Git or not.
Stalled == Open /\ (MergeInGit \/ Last.branch)

ReconcileRead ==
  /\ recon = 0 /\ Stalled
  /\ recon' = N
  /\ UNCHANGED <<flow, stage, pause, work, batches, git>>

ReconcileApply ==
  /\ recon # 0
  /\ batches' = IF batches[recon].status \in {"completed", "failed"} THEN batches
                ELSE [batches EXCEPT ![recon].status = "completed"]
  /\ recon' = 0
  /\ UNCHANGED <<flow, stage, pause, work, git>>

-----------------------------------------------------------------------------
(* The scheduler up to the end of the task loop. *)

\* `resume` refuses while the preflight finds something blocking; else it
\* resolves the pause in one transaction and starts the scheduler.
Resume ==
  /\ pc \in {"down", "crashed"} /\ stage \notin {"completed", "canceled"}
  /\ ~Blocking
  /\ pc' = "start" /\ pause' = "none"
  /\ stage' = IF stage = "paused" THEN "ready" ELSE stage
  /\ UNCHANGED <<loc, work, batches, recon, git>>

\* startRun: the automatic reconciliation; then processRun moves a ready
\* stage to running and hands the record it read before to processStage.
StartRun ==
  /\ Goto("start", "stage") /\ stage # "canceled"
  /\ batches' = IF Stalled
                THEN [batches EXCEPT ![N].status = "completed"] ELSE batches
  /\ loc' = [loc EXCEPT !.snap = stage]
  /\ stage' = IF stage = "ready" THEN "running" ELSE stage
  /\ UNCHANGED <<pause, work, recon, git>>

\* The task loop, as far as integration sends work back to it: a task to be
\* reworked gets a second attempt, which is reviewed and approved. An attempt
\* to be reworked of a task that is still review_skipped cannot be begun: each
\* dispatch throws and is swallowed, and the loop goes round for good.
Rework(t) ==
  /\ pc = "stage" /\ stage # "canceled"
  /\ att[t] = "rework_required" /\ task[t] = "rework_required"
  /\ att' = [att EXCEPT ![t] = "approved"]
  /\ task' = [task EXCEPT ![t] = "approved"]
  /\ ver' = [ver EXCEPT ![t] = 2]
  /\ UNCHANGED <<flow, stage, pause, batches, recon, git>>

\* The end of processStage's loop: all latest attempts can be integrated.
CheckTasks ==
  /\ pc = "stage" /\ stage # "canceled"
  /\ \A t \in Tasks : att[t] \in {"approved", "review_skipped"}
  /\ pc' = IF \E t \in Tasks : task[t] = "merge_blocked"
           THEN "converge" ELSE "integrate"
  /\ UNCHANGED <<loc, stage, pause, work, batches, recon, git>>

-----------------------------------------------------------------------------
(* integrate *)

\* Mutant: no batch is ever recognised as landed.
NoLandedBatch == {}
\* checkIdempotentIntegration: the latest completed batch, if it recorded where
\* it landed after a complete review by an available reviewer.
LandedBatch ==
  {i \in 1..N : LET b == batches[i] IN
     /\ b.status = "completed"
     /\ \A j \in 1..N : batches[j].status = "completed" => j <= i
     /\ b.landed # None /\ b.complete /\ ~b.unavailable}

FinishLanded ==
  /\ Goto("integrate", "tail")
  /\ \E i \in LandedBatch : batches[i].landed \in target.has
  /\ UNCHANGED <<loc, stage, pause, work, batches, recon, git>>

FailClosed ==
  /\ pc = "integrate"
  /\ \E i \in LandedBatch : batches[i].landed \notin target.has
  /\ PauseFor("inconsistent")

OpenBatch ==
  /\ Goto("integrate", "opened") /\ LandedBatch = {} /\ N < MaxBatches
  /\ batches' = Append(batches, NewBatch)
  /\ stage' = IF stage = "running" THEN "integration" ELSE stage
  /\ loc' = [loc EXCEPT !.approved = {t \in Tasks : task[t] = "approved"}]
  /\ UNCHANGED <<pause, work, recon, git>>

\* No stage gates configured, an unapproved task or a pending G2 approval.
RefuseOpened == pc = "opened" /\ RefuseAs("failed")

CreateBranch ==
  /\ Goto("opened", "building")
  /\ \A t \in Tasks : task[t] \in {"approved", "review_skipped"}
  /\ SetLast([Last EXCEPT !.branch = TRUE])
  /\ UNCHANGED <<loc, stage, pause, work, recon, git>>

\* Merge the attempts' branches into the integration worktree, unless actual
\* paths overlap, a merge conflicts or anything throws.
Build ==
  /\ pc = "building"
  /\ \/ \E status \in {"conflict", "failed"} : RefuseAs(status)
     \/ /\ SetLast([Last EXCEPT !.tip = [id |-> <<"int", N>>, tree |-> Work]])
        /\ pc' = "built"
        /\ loc' = [loc EXCEPT !.skipped =
                     {t \in Tasks : att[t] = "review_skipped"}]
        /\ UNCHANGED <<stage, pause, work, recon, git>>

StageGates ==
  /\ pc = "gates"
  /\ \/ RefuseAs("failed")
     \/ /\ SetLast([Last EXCEPT !.status = "integrating",
                                !.mergeHash = Last.tip])
        /\ pc' = "gated"
        /\ UNCHANGED <<loc, stage, pause, work, recon, git>>

\* G3, large diff and token budget leave the batch as it is; the review's
\* input limit fails it; a refused reservation also notes the reviewer as
\* unavailable and blocks no task.
MergeGate ==
  /\ pc = "merge_gate"
  /\ \/ Refuse(Last, TRUE)
     \/ RefuseAs("failed")
     \/ Refuse([Last EXCEPT !.status = "failed", !.unavailable = TRUE], FALSE)
     \/ /\ pc' = "review"
        /\ UNCHANGED <<loc, stage, pause, work, batches, recon, git>>

ReviewPasses ==
  /\ Goto("review", "reviewed")
  /\ SetLast([Last EXCEPT !.complete = TRUE, !.unavailable = FALSE])
  /\ UNCHANGED <<loc, stage, pause, work, recon, git>>

ReviewRejects ==
  /\ Goto("review", "rework")
  /\ SetLast([Last EXCEPT !.status = "failed", !.unavailable = FALSE])
  /\ UNCHANGED <<loc, stage, pause, work, recon, git>>

ReviewFails ==
  /\ pc = "review"
  /\ \/ Refuse([Last EXCEPT !.status = "failed", !.unavailable = TRUE], FALSE)
     \/ RefuseAs("failed")

\* A skipped task takes the verdict in two updates: its attempt, then itself.
Unsettled == {t \in loc.skipped : "review_skipped" \in {att[t], task[t]}}
Take(t, verdict) ==
  /\ IF att[t] = "review_skipped"
     THEN att' = [att EXCEPT ![t] = verdict] /\ UNCHANGED task
     ELSE task' = [task EXCEPT ![t] = verdict] /\ UNCHANGED att
  /\ UNCHANGED <<flow, stage, pause, ver, batches, recon, git>>

ApproveSkipped(t) == pc = "approve" /\ t \in Unsettled /\ Take(t, "approved")
ReworkSkipped(t) ==
  pc = "rework" /\ t \in Unsettled /\ Take(t, "rework_required")

ReworkPaused ==
  /\ pc = "rework" /\ Unsettled = {}
  /\ Refuse(Last, FALSE)

RecordApproval ==
  /\ Goto("approve", "check") /\ Unsettled = {}
  /\ SetLast([Last EXCEPT !.approves = loc.skipped])
  /\ UNCHANGED <<loc, stage, pause, work, recon, git>>

\* Mutant: the target only has to contain the base.
AtOrAfterBase == Base \in target.has
AtBase == target.head = Base

CheckTarget ==
  /\ pc = "check"
  /\ \/ RefuseAs("conflict")     \* dirty worktree, target moved, Git fails
     \/ /\ ~AtBase /\ HoldsReviewed(Last.tip)
        /\ pc' = "settle" /\ loc' = [loc EXCEPT !.seen = target.head]
        /\ UNCHANGED <<stage, pause, work, batches, recon, git>>
     \/ /\ AtBase
        /\ pc' = "merge"
        /\ UNCHANGED <<loc, stage, pause, work, batches, recon, git>>

\* git merge --no-ff: nothing to do when the target has the tip already.
MergeCommit ==
  [id |-> <<"merge", N>>, tree |-> target.head.tree \cup Last.tip.tree]
Merge ==
  /\ pc = "merge"
  /\ \/ RefuseAs("conflict")
     \/ /\ pc' = "settle"
        /\ target' = IF Last.tip \in target.has THEN target
                     ELSE [head |-> MergeCommit,
                           has |-> target.has \cup {Last.tip, MergeCommit}]
        /\ loc' = [loc EXCEPT !.seen = target'.head]
        /\ UNCHANGED <<stage, pause, work, batches, recon, moves>>

\* Mutant: the final tree is not compared.
TreesUnchecked == TRUE
TreesAgree == loc.seen.tree = Last.tip.tree

Settle ==
  /\ pc = "settle"
  /\ \/ ~TreesAgree /\ RefuseAs("conflict")
     \/ /\ TreesAgree
        /\ SetLast([Last EXCEPT !.status = "completed", !.complete = TRUE,
                                !.landed = loc.seen, !.mergeHash = loc.seen])
        /\ pc' = "finish"
        /\ UNCHANGED <<loc, stage, pause, work, recon, git>>

\* updateTaskStatus(merged) throws for any status but approved; in integrate
\* the outer catch turns that into a refusal, in the idempotent tail it fails
\* the run.
MergeTask(t) ==
  /\ task[t] # "merged"
  /\ \/ /\ task[t] = "approved" /\ pc \in {"finish", "tail"}
        /\ task' = [task EXCEPT ![t] = "merged"]
        /\ UNCHANGED <<flow, stage, pause, att, ver, batches, recon, git>>
     \/ /\ task[t] # "approved" /\ pc = "finish"
        /\ RefuseAs("failed")
     \/ /\ task[t] # "approved" /\ pc = "tail"
        /\ End("failed")
        /\ UNCHANGED <<stage, pause, work, batches, recon, git>>

\* updateStageStatus(completed) is legal from integration, leaves a canceled
\* stage and throws from running.
CompleteStage ==
  /\ pc \in {"finish", "tail"} /\ \A t \in Tasks : task[t] = "merged"
  /\ stage' = IF stage = "integration" THEN "completed" ELSE stage
  /\ End(IF stage = "running" THEN "failed" ELSE "down")
  /\ UNCHANGED <<pause, work, batches, recon, git>>

-----------------------------------------------------------------------------
(* Refusals: the pause, then the block. *)

\* A canceled stage cannot be paused: createStagePause throws, in integrate's
\* try block once more from the catch that first fails the batch.
RecordPause ==
  /\ pc = "pausing"
  /\ IF stage = "canceled"
     THEN /\ batches' = IF loc.reason = "integration"
                        THEN [batches EXCEPT ![N].status = "failed"]
                        ELSE batches
          /\ End("down") /\ UNCHANGED <<stage, pause>>
     ELSE /\ stage' = "paused" /\ pause' = loc.reason
          /\ IF loc.block THEN pc' = "blocking" /\ UNCHANGED loc
                          ELSE End("down")
          /\ UNCHANGED batches
  /\ UNCHANGED <<work, recon, git>>

\* Mutant: tasks that skipped their review are blocked as well.
BlockAll == {t \in Tasks : task[t] \in {"approved", "review_skipped"}}
\* mergeBlockApprovedTasks decides on the list read when the batch was opened.
ToBlock == {t \in loc.approved : task[t] = "approved"}

BlockTask(t) ==
  /\ pc = "blocking" /\ t \in ToBlock
  /\ task' = [task EXCEPT ![t] = "merge_blocked"]
  /\ UNCHANGED <<flow, stage, pause, att, ver, batches, recon, git>>

Blocked ==
  /\ pc = "blocking" /\ ToBlock = {}
  /\ End("down")
  /\ UNCHANGED <<stage, pause, work, batches, recon, git>>

-----------------------------------------------------------------------------
(* tryConvergePreMergedBlockedStage *)

Converges ==
  /\ N > 0 /\ Last.complete /\ ~Last.unavailable
  /\ HoldsReviewed(Last.tip)
  /\ ~(loc.snap = "running" /\ stage = "canceled")

\* Its `stage.status === 'running'` is the status of the record it was handed.
Converge ==
  /\ pc = "converge"
  /\ \/ ~Converges /\ PauseFor("merge_blocked")
     \/ /\ Converges
        /\ pc' = "restore" /\ loc' = [loc EXCEPT !.seen = target.head]
        /\ stage' = IF loc.snap = "running" THEN "integration" ELSE stage
        /\ UNCHANGED <<pause, work, batches, recon, git>>

\* Mutant: a blocked task is sent back to ready.
RestoreToReady(t) ==
  /\ pc = "restore" /\ task[t] = "merge_blocked"
  /\ task' = [task EXCEPT ![t] = "ready"]
  /\ UNCHANGED <<flow, stage, pause, att, ver, batches, recon, git>>
RestoreTask(t) ==
  /\ pc = "restore" /\ task[t] = "merge_blocked"
  /\ task' = [task EXCEPT ![t] = "approved"]
  /\ UNCHANGED <<flow, stage, pause, att, ver, batches, recon, git>>

ConvergeBatch ==
  /\ Goto("restore", "tail") /\ \A t \in Tasks : task[t] # "merge_blocked"
  /\ SetLast([Last EXCEPT !.status = "completed", !.complete = TRUE,
                          !.landed = loc.seen, !.mergeHash = loc.seen])
  /\ UNCHANGED <<loc, stage, pause, work, recon, git>>

-----------------------------------------------------------------------------
(* The other actors. *)

Crash ==
  /\ pc \in Running
  /\ End("crashed")
  /\ UNCHANGED <<stage, pause, work, batches, recon, git>>

\* `cancel` touches the stage and running attempts, not the tasks.
Cancel ==
  /\ pc # "failed" /\ stage \notin {"completed", "canceled"}
  /\ stage' = "canceled"
  /\ UNCHANGED <<flow, pause, work, batches, recon, git>>

Move(head, has) ==
  /\ moves < MaxMoves /\ moves' = moves + 1
  /\ target' = [head |-> head, has |-> has]
  /\ UNCHANGED <<flow, stage, pause, work, batches, recon>>

UserCommits ==
  LET c == [id |-> <<"user", moves + 1>>,
            tree |-> target.head.tree \cup {<<"user", moves + 1>>}]
  IN Move(c, target.has \cup {c})

UserMerges ==
  \E i \in 1..N :
    /\ batches[i].tip \notin target.has \cup {None}
    /\ LET c == [id |-> <<"hand", moves + 1>>,
                 tree |-> target.head.tree \cup batches[i].tip.tree]
       IN Move(c, target.has \cup {batches[i].tip, c})

UserResets == target.head # Base /\ Move(Base, {Base})

-----------------------------------------------------------------------------
\* The task loop ends for the first time: every task's first attempt is
\* approved or has skipped its review; the record read before the stage was
\* started says `ready`.
Init ==
  /\ pc = "stage" /\ loc = NoLoc /\ stage = "running" /\ pause = "none"
  /\ task = [t \in Tasks |-> IF t \in Skipped THEN "review_skipped"
                                              ELSE "approved"]
  /\ att = task /\ ver = [t \in Tasks |-> 1] /\ batches = <<>>
  /\ target = [head |-> Base, has |-> {Base}]
  /\ recon = 0 /\ moves = 0

Scheduler ==
  \/ StartRun \/ CheckTasks
  \/ \E at \in {"start", "stage", "built", "gated", "reviewed"} :
       StopIfCanceled(at)
  \/ PassCheckpoint("built", "gates") \/ PassCheckpoint("gated", "merge_gate")
  \/ PassCheckpoint("reviewed", "approve")
  \/ FinishLanded \/ FailClosed \/ OpenBatch \/ RefuseOpened \/ CreateBranch
  \/ Build \/ StageGates \/ MergeGate
  \/ ReviewPasses \/ ReviewRejects \/ ReviewFails
  \/ ReworkPaused \/ RecordApproval \/ CheckTarget \/ Merge \/ Settle
  \/ CompleteStage \/ RecordPause \/ Blocked \/ Converge \/ ConvergeBatch
  \/ \E t \in Tasks :
       \/ Rework(t) \/ ApproveSkipped(t) \/ ReworkSkipped(t)
       \/ MergeTask(t) \/ BlockTask(t) \/ RestoreTask(t)

User == UserCommits \/ UserMerges \/ UserResets

Next == Scheduler \/ Resume \/ ReconcileRead \/ ReconcileApply
        \/ Crash \/ Cancel \/ User

Spec == Init /\ [][Next]_vars

-----------------------------------------------------------------------------
(* Properties. *)

\* Every variable has its type.
TypeOK ==
  /\ pc \in Running \cup {"down", "crashed", "failed"} /\ loc \in Loc
  /\ stage \in {"ready", "running", "integration", "paused", "completed",
                "canceled"}
  /\ pause \in {"none", "integration", "inconsistent", "merge_blocked"}
  /\ task \in [Tasks -> {"review_skipped", "approved", "merged",
                         "merge_blocked", "rework_required"}]
  /\ att \in [Tasks -> {"review_skipped", "approved", "rework_required"}]
  /\ ver \in [Tasks -> 1..2]
  /\ N <= MaxBatches /\ \A i \in 1..N : batches[i] \in Batch
  /\ target \in [head : Commit, has : SUBSET Commit]
  /\ recon \in 0..N /\ moves \in 0..MaxMoves

\* A completed stage has landed: its tasks are merged, and one of its batches
\* records a target commit whose tree is the tree a complete review of an
\* available reviewer saw, with the latest work of every task in it.
CompletedIsReviewed ==
  stage = "completed" =>
    /\ \A t \in Tasks : task[t] = "merged"
    /\ \E i \in 1..N :
         LET b == batches[i] IN
         /\ b.complete /\ ~b.unavailable
         /\ b.landed # None /\ b.landed.tree = b.tip.tree
         /\ Work \subseteq b.landed.tree

\* Whatever crashes, retries, cancels and hand-made merges happen, the target
\* never holds two merge commits made by the scheduler.
OneMerge == Cardinality({c \in target.has : c.id[1] = "merge"}) <= 1

\* When the scheduler ends by itself the stage is not left half-way: it is
\* completed, canceled, or paused with an active PauseRecord to resume from.
NoHalfState ==
  pc = "down" => \/ stage \in {"completed", "canceled"}
                 \/ stage = "paused" /\ pause # "none"

\* A task whose own review was skipped is not approved, blocked or merged
\* before a complete review of a tree that holds its latest work.
SkippedTasksAreReviewed ==
  \A t \in Tasks :
    ~OwnReview(t) /\ task[t] \in {"approved", "merge_blocked", "merged"} =>
      \E i \in 1..N : /\ batches[i].complete /\ batches[i].tip # None
                     /\ <<t, ver[t]>> \in batches[i].tip.tree

\* The paid review of the integrated tree is not started again once a batch
\* records where it landed and the target still contains that commit.
NoReviewOfLandedWork ==
  [][pc # "review" /\ pc' = "review" =>
       ~ \E i \in 1..N : /\ batches[i].status = "completed"
                         /\ batches[i].complete /\ ~batches[i].unavailable
                         /\ batches[i].landed \in target.has]_vars

\* The comment on convergence says it always takes legal transitions: the
\* scheduler never fails the run on an illegal one.
ConvergesLegally == pc # "failed"

\* Every pause has a PauseRecord that `resume` can resolve (SYSTEM-DESIGN):
\* the preflight has nothing that blocks a stage the scheduler paused.
PausesResume == pc = "down" /\ stage = "paused" => ~Blocking

\* merge_blocked is not inescapable when the target already contains a tree
\* that was completely reviewed: convergence of a live stage is not refused.
ObstructionGone ==
  [][pc = "converge" /\ pc' = "pausing" /\ stage # "canceled" =>
       ~ \E i \in 1..N : /\ batches[i].complete /\ ~batches[i].unavailable
                         /\ HoldsReviewed(batches[i].tip)]_vars
=============================================================================
