------------------------ MODULE StageIntegrationProofs ------------------------
(***************************************************************************)
(* Theorems about StageIntegration, for any number of tasks, batches and   *)
(* changes by the user.                                                    *)
(***************************************************************************)
EXTENDS StageIntegration, TLAPS, FiniteSetTheorems

-----------------------------------------------------------------------------
(* The inductive invariant. *)

AllApproved == \A t \in Tasks : att[t] = "approved"
NoRework    == \A t \in Tasks : att[t] # "rework_required"

\* What the database says of a batch.  Where it landed is recorded only after
\* the review, of the tree that was reviewed, when every attempt is approved:
\* from then on no task gets another attempt.
BatchOK(b) ==
  /\ b \in Batch
  /\ b.tip # None => b.tip.id[1] = "int"
  /\ b.landed # None =>
       /\ b.status \in {"completed", "failed"}
       /\ b.complete /\ ~b.unavailable
       /\ b.tip # None /\ b.landed.tree = b.tip.tree /\ b.tip.tree = Work
       /\ AllApproved
BatchInv == \A i \in 1..N : BatchOK(batches[i])

\* The newest batch, once reviewed, holds the latest work; a batch that landed
\* and is not failed is the newest.
ReviewedOK(b) ==
  b.complete => b.tip # None /\ b.tip.tree = Work /\ NoRework
LastInv ==
  /\ N > 0 => ReviewedOK(Last)
  /\ \A i \in 1..N :
       batches[i].landed # None /\ batches[i].status = "completed" => i = N

\* Where the scheduler works on the newest batch, and what it knows of it.
Before   == {"opened", "building"}
Built    == {"built", "gates", "gated", "merge_gate", "review"}
Accepted == {"reviewed", "approve"}
Merging  == {"check", "merge", "settle"}
Unreviewed == Before \cup Built \cup {"rework"}
Fresh      == Unreviewed \cup Accepted \cup Merging
PcInv ==
  /\ pc \in Fresh \cup {"finish", "restore"} => N > 0
  /\ pc = "pausing" /\ loc.reason = "integration" => N > 0
  /\ pc \in Fresh => Last.landed = None
  /\ pc \in Unreviewed => ~Last.complete
  /\ pc \in Before \cup Built \cup {"integrate"} => NoRework
  /\ pc \in Built => Last.tip # None /\ Last.tip.tree = Work
  /\ pc \in {"building"} \cup Built =>
       \A t \in Tasks : task[t] # "merge_blocked"
  /\ pc \in Built \cup Accepted =>
       \A t \in Tasks : att[t] = "review_skipped" => t \in loc.skipped
  /\ pc \in Accepted \cup Merging \cup {"restore"} =>
       Last.complete /\ ~Last.unavailable
  /\ pc \in Merging \cup {"restore"} => AllApproved
  /\ pc \in {"settle", "restore"} => loc.seen # None
  /\ pc = "restore" => loc.seen.tree = Last.tip.tree
  /\ pc \in {"finish", "tail"} => \E i \in 1..N : batches[i].landed # None

\* Tasks are blocked only while the newest batch is unreviewed, or when every
\* attempt is approved: what converges later needs no verdict any more.
MayBlock == \/ pc \in {"converge", "blocking"}
            \/ pc = "pausing" /\ loc.block
            \/ \E t \in Tasks : task[t] = "merge_blocked"
BlockInv == MayBlock /\ N > 0 /\ Last.complete => AllApproved

\* The status of the stage where the scheduler stands.
StageInv ==
  /\ pc = "start" => stage \in {"ready", "running", "integration", "canceled"}
  /\ pc \in Running \ {"start", "blocking"} =>
       stage \in {"running", "integration", "canceled"}
  /\ pc = "blocking" => stage \in {"paused", "canceled"} /\ pause # "none"
  /\ NoHalfState

\* A target at the base holds nothing else; while a merge is about to be made
\* there is none, and there are never two.
Merges == {c \in target.has : c.id[1] = "merge"}
GitInv ==
  /\ target.head = Base => target.has = {Base}
  /\ pc = "merge" => Merges = {}
  /\ \A c, d \in Merges : c = d

\* A completed stage stays as it was when it completed.
DoneInv ==
  stage = "completed" =>
    /\ pc = "down" /\ \A t \in Tasks : task[t] = "merged"
    /\ \E i \in 1..N : batches[i].landed # None

Control == PcInv /\ BlockInv /\ StageInv /\ DoneInv
IInv ==
  /\ TypeOK /\ batches \in Seq(Batch)
  /\ BatchInv /\ LastInv /\ Control /\ GitInv
  /\ SkippedTasksAreReviewed

-----------------------------------------------------------------------------
(* Frames. *)

\* The batches are numbered from 1 on, and the newest is one of them.
LEMMA Batches ==
  ASSUME IInv
  PROVE  /\ batches \in Seq(Batch) /\ N \in Nat /\ N <= MaxBatches
         /\ DOMAIN batches = 1..N
         /\ \A i \in 1..N : batches[i] \in Batch /\ BatchOK(batches[i])
         /\ N > 0 => N \in 1..N /\ Last = batches[N] /\ Last \in Batch
                     /\ BatchOK(Last) /\ ReviewedOK(Last)
BY DEF IInv, TypeOK, BatchInv, LastInv, N, Last

\* The latest work of a task is a change, and so is all of it together.
LEMMA WorkIsChange ==
  ASSUME TypeOK
  PROVE  Work \subseteq Change
BY DEF TypeOK, Work, Change

\* What depends on attempts and their numbers only.
LEMMA WorkSame ==
  ASSUME UNCHANGED <<att, ver>>
  PROVE  /\ Work' = Work /\ AllApproved' = AllApproved /\ NoRework' = NoRework
         /\ \A t \in Tasks : OwnReview(t)' = OwnReview(t)
         /\ \A b : BatchOK(b)' = BatchOK(b)
         /\ \A b : ReviewedOK(b)' = ReviewedOK(b)
<1>1. Work' = Work /\ AllApproved' = AllApproved /\ NoRework' = NoRework
  BY DEF Work, AllApproved, NoRework
<1> QED
  BY <1>1 DEF OwnReview, BatchOK, ReviewedOK

\* A step after which everybody still finds what the batches recorded.
Records ==
  /\ batches' \in Seq(Batch) /\ N' \in Nat
  /\ N' >= N /\ N' <= MaxBatches
  /\ BatchInv' /\ LastInv'
  /\ \A i \in 1..N :
       /\ batches[i].complete /\ batches[i].tip # None =>
            batches'[i].complete /\ batches'[i].tip = batches[i].tip
       /\ batches[i].landed # None => batches'[i].landed # None

LEMMA SameRecords ==
  ASSUME IInv, UNCHANGED <<batches, att, ver>>
  PROVE  Records /\ N' = N /\ Last' = Last
<1>1. N' = N /\ Last' = Last
  BY DEF N, Last
<1> QED
  BY <1>1, Batches, WorkSame DEF IInv, Records, BatchInv, LastInv

\* The newest batch changes, or gets a verdict.
LEMMA LastChanges ==
  ASSUME IInv, N > 0, NEW b, SetLast(b), UNCHANGED <<att, ver>>,
         BatchOK(b), ReviewedOK(b),
         Last.complete => b.complete /\ b.tip = Last.tip,
         Last.landed # None => b.landed # None
  PROVE  Records /\ N' = N /\ Last' = b
<1>1. batches' = [batches EXCEPT ![N] = b] /\ b \in Batch
  BY DEF SetLast, BatchOK
<1>2. /\ batches' \in Seq(Batch) /\ N' = N /\ batches'[N] = b
      /\ \A i \in 1..N : i # N => batches'[i] = batches[i]
  <2>1. /\ batches \in Seq(Batch) /\ Len(batches) \in Nat
        /\ Len(batches) \in 1..Len(batches)
    BY Batches DEF N
  <2>2. batches' = [batches EXCEPT ![Len(batches)] = b]
    BY <1>1 DEF N
  <2> QED BY <1>1, <2>1, <2>2 DEF N
<1>3. Last' = b
  BY <1>2 DEF Last
<1>4. BatchInv'
  BY <1>2, Batches, WorkSame DEF BatchInv
<1>5. LastInv'
  BY <1>2, <1>3, Batches, WorkSame DEF IInv, LastInv
<1> QED
  BY <1>2, <1>3, <1>4, <1>5, Batches DEF Records

\* What a task is once its work counts as reviewed, and when it may be so.
Reviewed(status) == status \in {"approved", "merge_blocked", "merged"}
MayBeReviewed(t) == \/ Reviewed(task[t])
                    \/ OwnReview(t)
                    \/ N > 0 /\ Last.complete

\* A skipped task stays reviewed.
LEMMA SkippedStay ==
  ASSUME IInv, Records, UNCHANGED <<att, ver>>,
         \A t \in Tasks : Reviewed(task'[t]) => MayBeReviewed(t)
  PROVE  SkippedTasksAreReviewed'
<1> SUFFICES ASSUME NEW t \in Tasks, ~OwnReview(t),
                    Reviewed(task'[t])
             PROVE  \E i \in 1..N' : /\ batches'[i].complete
                                     /\ batches'[i].tip # None
                                     /\ <<t, ver[t]>> \in batches'[i].tip.tree
  BY WorkSame DEF SkippedTasksAreReviewed, Reviewed
<1>1. PICK i \in 1..N : /\ batches[i].complete /\ batches[i].tip # None
                        /\ <<t, ver[t]>> \in batches[i].tip.tree
  <2>1. CASE Reviewed(task[t])
    BY <2>1 DEF IInv, SkippedTasksAreReviewed, Reviewed
  <2>2. CASE N > 0 /\ Last.complete
    BY <2>2, Batches DEF ReviewedOK, Work
  <2> QED BY <2>1, <2>2 DEF MayBeReviewed
<1>2. /\ i \in 1..N' /\ batches'[i].complete
      /\ batches'[i].tip = batches[i].tip
  BY <1>1, Batches DEF Records
<1> QED
  BY <1>1, <1>2

\* The other variables of TypeOK.
RestType ==
  /\ pc \in Running \cup {"down", "crashed", "failed"} /\ loc \in Loc
  /\ stage \in {"ready", "running", "integration", "paused", "completed",
                "canceled"}
  /\ pause \in {"none", "integration", "inconsistent", "merge_blocked"}
  /\ task \in [Tasks -> {"review_skipped", "approved", "merged",
                         "merge_blocked", "rework_required"}]
  /\ att \in [Tasks -> {"review_skipped", "approved", "rework_required"}]
  /\ ver \in [Tasks -> 1..2]
  /\ target \in [head : Commit, has : SUBSET Commit]
  /\ recon \in 0..N /\ moves \in 0..MaxMoves

\* A step of the scheduler or of a command line that changes no attempt.
LEMMA Keeps ==
  ASSUME IInv, Records, UNCHANGED <<att, ver>>, RestType', Control', GitInv',
         \A t \in Tasks : Reviewed(task'[t]) => MayBeReviewed(t)
  PROVE  IInv'
<1>1. TypeOK'
  BY DEF RestType, TypeOK, Records, BatchInv, BatchOK
<1> QED
  BY <1>1, SkippedStay DEF IInv, Records

\* A step that changes no attempt and nothing in Git.
LEMMA GitSame ==
  ASSUME IInv, UNCHANGED git, pc' = "merge" => Merges = {}
  PROVE  GitInv'
BY DEF IInv, GitInv, Merges, git

\* A step that touches neither attempts nor tasks nor Git.
LEMMA QuietKeeps ==
  ASSUME IInv, UNCHANGED <<work, git, batches>>, RestType', Control',
         pc' = "merge" => Merges = {}
  PROVE  IInv'
<1>1. UNCHANGED <<att, ver, task>>
  BY DEF work
<1> QED
  BY <1>1, GitSame, SameRecords, Keeps DEF MayBeReviewed

\* The same, with a new verdict on the newest batch.
LEMMA VerdictKeeps ==
  ASSUME IInv, N > 0, NEW b, SetLast(b), UNCHANGED <<work, git>>,
         BatchOK(b), ReviewedOK(b),
         Last.complete => b.complete /\ b.tip = Last.tip,
         Last.landed # None => b.landed # None,
         RestType', Control', pc' = "merge" => Merges = {}
  PROVE  IInv'
<1>1. UNCHANGED <<att, ver, task>>
  BY DEF work
<1> QED
  BY <1>1, GitSame, LastChanges, Keeps DEF MayBeReviewed

\* What every state of the invariant is typed as, but for the batches.
LEMMA Rest ==
  ASSUME IInv
  PROVE  RestType /\ PcInv /\ BlockInv /\ StageInv /\ DoneInv
BY DEF IInv, TypeOK, RestType, Control

-----------------------------------------------------------------------------
(* Steps of control: what changes is where the scheduler stands, the stage *)
(* and its pause.                                                          *)

\* Control after a step that leaves the batches and the work alone.
LEMMA ControlSame ==
  ASSUME IInv, UNCHANGED <<work, batches, recon, git>>
  PROVE  /\ N' = N /\ Last' = Last /\ Work' = Work /\ batches' = batches
         /\ AllApproved' = AllApproved /\ NoRework' = NoRework
         /\ UNCHANGED <<task, att, ver, target, moves, recon>>
BY WorkSame DEF work, git, N, Last

\* The scheduler stops: nothing is left of what it knew.
LEMMA EndKeeps ==
  ASSUME IInv, UNCHANGED <<work, batches, recon, git>>,
         NEW where \in {"down", "crashed", "failed"}, End(where),
         \/ UNCHANGED pause /\ stage' \in {stage, "completed"}
         \/ stage' = "paused" /\ pause' = loc.reason,
         stage' = "completed" =>
           /\ pc \in {"finish", "tail"} /\ where = "down"
           /\ \A t \in Tasks : task[t] = "merged",
         where = "down" => \/ stage' \in {"completed", "canceled"}
                           \/ stage' = "paused" /\ pause' # "none"
  PROVE  IInv'
<1>1. /\ pc' = where /\ loc' = NoLoc
      /\ NoLoc \in Loc
  BY DEF End, NoLoc, Loc
<1>2. RestType'
  BY <1>1, ControlSame, Rest DEF RestType, Loc
<1>3. PcInv'
  BY <1>1 DEF PcInv, Fresh, Unreviewed, Before, Built, Accepted, Merging
<1>4. BlockInv'
  BY <1>1, ControlSame, Rest DEF BlockInv, MayBlock
<1>5. StageInv'
  BY <1>1 DEF StageInv, NoHalfState, Running
<1>6. DoneInv'
  BY <1>1, ControlSame, Rest
     DEF DoneInv, PcInv, RestType
<1> QED
  BY <1>1, <1>2, <1>3, <1>4, <1>5, <1>6, QuietKeeps DEF Control

\* The scheduler goes on, to a place that asks for nothing new.
LEMMA GoOnKeeps ==
  ASSUME IInv, UNCHANGED <<work, batches, recon, git, pause>>,
         pc \in Running, pc' \in Running, loc' \in Loc,
         stage' \in {"running", "integration", "canceled"}, pc' # "blocking",
         PcInv', pc' = "merge" => Merges = {},
         MayBlock' => MayBlock
  PROVE  IInv'
<1>1. RestType'
  BY ControlSame, Rest DEF RestType
<1>3. StageInv'
  BY DEF StageInv, NoHalfState, Running
<1>4. DoneInv'
  BY DEF DoneInv
<1>5. BlockInv'
  BY ControlSame, Rest DEF BlockInv
<1> QED
  BY <1>1, <1>3, <1>4, <1>5, QuietKeeps DEF Control

\* While the scheduler works, up to the pause, its stage is live or canceled.
LEMMA StageWhere ==
  ASSUME IInv, pc \in Running \ {"start", "blocking"}
  PROVE  stage \in {"running", "integration", "canceled"}
BY Rest DEF StageInv

LEMMA CheckpointKeeps ==
  ASSUME IInv,
         \/ \E at \in {"start", "stage", "built", "gated", "reviewed"} :
              StopIfCanceled(at)
         \/ PassCheckpoint("built", "gates")
         \/ PassCheckpoint("gated", "merge_gate")
         \/ PassCheckpoint("reviewed", "approve")
  PROVE  IInv'
<1>1. ASSUME NEW at, StopIfCanceled(at)
      PROVE  IInv'
  <2>1. /\ End("down") /\ stage = "canceled"
        /\ UNCHANGED <<stage, pause, work, batches, recon, git>>
    BY <1>1 DEF StopIfCanceled
  <2> QED BY <2>1, EndKeeps
<1>2. ASSUME NEW from, NEW to, PassCheckpoint(from, to),
             <<from, to>> \in {<<"built", "gates">>, <<"gated", "merge_gate">>,
                               <<"reviewed", "approve">>}
      PROVE  IInv'
  <2>1. /\ pc = from /\ pc' = to
        /\ UNCHANGED <<loc, stage, pause, work, batches, recon, git>>
        /\ loc' \in Loc /\ pc \in Running \ {"start", "blocking"}
        /\ pc' \in Running \ {"start", "blocking", "converge", "pausing", "merge"}
    BY <1>2, Rest DEF PassCheckpoint, Goto, RestType, Running
  <2>2. PcInv'
    BY <1>2, <2>1, ControlSame, Rest
       DEF PcInv, Fresh, Unreviewed, Before, Built, Accepted, Merging
  <2>3. MayBlock' => MayBlock
    BY <2>1, ControlSame DEF MayBlock
  <2> QED BY <2>1, <2>2, <2>3, StageWhere, GoOnKeeps
<1> QED
  BY <1>1, <1>2

\* A pause that concerns no batch.
LEMMA PauseForKeeps ==
  ASSUME IInv, NEW reason \in {"inconsistent", "merge_blocked"},
         pc \in {"integrate", "converge"}, PauseFor(reason)
  PROVE  IInv'
<1>1. /\ pc' = "pausing" /\ loc' = [loc EXCEPT !.block = FALSE,
                                               !.reason = reason]
      /\ UNCHANGED <<stage, pause, work, batches, recon, git>>
      /\ pc \in Running \ {"start", "blocking"} /\ pc' \in Running
  BY DEF PauseFor, Running
<1>2. loc' \in Loc /\ loc'.reason = reason /\ ~loc'.block
  BY <1>1, Rest DEF RestType, Loc
<1>3. PcInv'
  BY <1>1, <1>2
     DEF PcInv, Fresh, Unreviewed, Before, Built, Accepted, Merging
<1>4. MayBlock' => MayBlock
  BY <1>1, <1>2, ControlSame DEF MayBlock
<1> QED
  BY <1>1, <1>2, <1>3, <1>4, StageWhere, GoOnKeeps

LEMMA CheckTasksKeeps ==
  ASSUME IInv, CheckTasks
  PROVE  IInv'
<1>1. /\ pc' \in {"converge", "integrate"} /\ pc = "stage"
      /\ pc' = "converge" => \E t \in Tasks : task[t] = "merge_blocked"
      /\ UNCHANGED <<loc, stage, pause, work, batches, recon, git>>
      /\ NoRework
  BY DEF CheckTasks, NoRework
<1>2. /\ loc' \in Loc /\ pc' \in Running
      /\ pc \in Running \ {"start", "blocking"}
  BY <1>1, Rest DEF RestType, Running
<1>3. PcInv'
  BY <1>1, ControlSame
     DEF PcInv, Fresh, Unreviewed, Before, Built, Accepted, Merging
<1>4. MayBlock' => MayBlock
  BY <1>1, ControlSame DEF MayBlock
<1> QED
  BY <1>1, <1>2, <1>3, <1>4, StageWhere, GoOnKeeps

LEMMA FinishLandedKeeps ==
  ASSUME IInv, FinishLanded
  PROVE  IInv'
<1>1. /\ pc' = "tail" /\ pc = "integrate"
      /\ UNCHANGED <<loc, stage, pause, work, batches, recon, git>>
  BY DEF FinishLanded, Goto
<1>2. PICK i \in 1..N : batches[i].landed # None
  BY DEF FinishLanded, LandedBatch
<1>3. /\ loc' \in Loc /\ pc' \in Running
      /\ pc \in Running \ {"start", "blocking"}
  BY <1>1, Rest DEF RestType, Running
<1>4. PcInv'
  BY <1>1, <1>2, ControlSame
     DEF PcInv, Fresh, Unreviewed, Before, Built, Accepted, Merging
<1>5. MayBlock' => MayBlock
  BY <1>1, ControlSame DEF MayBlock
<1> QED
  BY <1>1, <1>3, <1>4, <1>5, StageWhere, GoOnKeeps

\* Completion is legal from integration only; it fails the run from running,
\* and leaves a stage that was canceled.
LEMMA CompleteStageKeeps ==
  ASSUME IInv, CompleteStage
  PROVE  IInv'
<1> DEFINE where == IF stage = "running" THEN "failed" ELSE "down"
<1>1. /\ pc \in {"finish", "tail"} /\ \A t \in Tasks : task[t] = "merged"
      /\ stage' = IF stage = "integration" THEN "completed" ELSE stage
      /\ End(where)
      /\ UNCHANGED <<pause, work, batches, recon, git>>
  BY DEF CompleteStage
<1>2. stage \in {"running", "integration", "canceled"}
  BY <1>1, StageWhere DEF Running
<1>3. /\ where \in {"down", "crashed", "failed"}
      /\ where = "down" => stage \in {"integration", "canceled"}
      /\ stage = "integration" => where = "down"
  BY <1>2
<1> HIDE DEF where
<1> QED
  BY <1>1, <1>2, <1>3, EndKeeps

\* The target is at its base, where no merge commit is; a target that holds the
\* reviewed tree already needs none.
LEMMA CheckTargetPasses ==
  ASSUME IInv, pc = "check",
         UNCHANGED <<stage, pause, work, batches, recon, git>>,
         \/ /\ ~AtBase /\ HoldsReviewed(Last.tip)
            /\ pc' = "settle" /\ loc' = [loc EXCEPT !.seen = target.head]
         \/ /\ AtBase
            /\ pc' = "merge" /\ loc' = loc
  PROVE  IInv'
<1>1. /\ target.head \in Commit /\ target.head # None
      /\ UNCHANGED <<stage, pause, work, batches, recon, git>>
      /\ pc \in Running \ {"start", "blocking"}
  BY Rest, NoneAssumption DEF RestType, Running
<1>2. CASE pc' = "settle" /\ loc' = [loc EXCEPT !.seen = target.head]
  <2>1. loc' \in Loc /\ loc'.seen # None
    BY <1>1, <1>2, Rest DEF RestType, Loc
  <2>2. PcInv'
    BY <1>2, <2>1, ControlSame, Rest
       DEF PcInv, Fresh, Unreviewed, Before, Built, Accepted, Merging
  <2>3. MayBlock' => MayBlock
    BY <1>2, ControlSame DEF MayBlock
  <2> QED
    BY <1>1, <1>2, <2>1, <2>2, <2>3, StageWhere, GoOnKeeps DEF Running
<1>3. CASE pc' = "merge" /\ loc' = loc /\ AtBase
  <2>1. loc' \in Loc
    BY <1>3, Rest DEF RestType
  <2>2. PcInv'
    BY <1>3, ControlSame, Rest
       DEF PcInv, Fresh, Unreviewed, Before, Built, Accepted, Merging
  <2>3. MayBlock' => MayBlock
    BY <1>3, ControlSame DEF MayBlock
  <2>4. Merges = {}
    <3>1. target.has = {Base}
      BY <1>3 DEF IInv, GitInv, AtBase
    <3>2. Base.id[1] = "base"
      BY DEF Base
    <3> QED BY <3>1, <3>2 DEF Merges
  <2> QED
    BY <1>1, <1>3, <2>1, <2>2, <2>3, <2>4, StageWhere, GoOnKeeps DEF Running
<1> QED
  BY <1>2, <1>3

\* MergeGate and Converge when they let the scheduler on.
LEMMA MergeGatePasses ==
  ASSUME IInv, pc = "merge_gate", pc' = "review",
         UNCHANGED <<loc, stage, pause, work, batches, recon, git>>
  PROVE  IInv'
<1>1. /\ loc' \in Loc /\ pc \in Running \ {"start", "blocking"}
      /\ pc' \in Running
      /\ UNCHANGED <<loc, stage, pause, work, batches, recon, git>>
  BY Rest DEF RestType, Running
<1>2. PcInv'
  BY ControlSame, Rest
     DEF PcInv, Fresh, Unreviewed, Before, Built, Accepted, Merging
<1>3. MayBlock' => MayBlock
  BY ControlSame DEF MayBlock
<1> QED
  BY <1>1, <1>2, <1>3, StageWhere, GoOnKeeps

LEMMA ConvergeKeeps ==
  ASSUME IInv, Converge
  PROVE  IInv'
<1>1. CASE PauseFor("merge_blocked")
  BY <1>1, PauseForKeeps DEF Converge
<1>2. ASSUME Converges, pc' = "restore", pc = "converge",
             loc' = [loc EXCEPT !.seen = target.head],
             stage' = IF loc.snap = "running" THEN "integration" ELSE stage,
             UNCHANGED <<pause, work, batches, recon, git>>
      PROVE  IInv'
  <2>1. target.head \in Commit /\ target.head # None
    BY Rest, NoneAssumption DEF RestType
  <2>2. loc' \in Loc /\ loc'.seen = target.head
    BY <1>2, <2>1, Rest DEF RestType, Loc
  <2>3. /\ N > 0 /\ Last.complete /\ ~Last.unavailable
        /\ target.head.tree = Last.tip.tree
    BY <1>2 DEF Converges, HoldsReviewed
  <2>4. AllApproved
    BY <1>2, <2>3, Rest DEF BlockInv, MayBlock
  <2>5. /\ stage \in {"running", "integration", "canceled"}
        /\ pc \in Running /\ pc' \in Running
    BY <1>2, StageWhere DEF Running
  <2>6. PcInv'
    BY <1>2, <2>1, <2>2, <2>3, <2>4, ControlSame
       DEF PcInv, Fresh, Unreviewed, Before, Built, Accepted, Merging
  <2>7. MayBlock' => MayBlock
    BY <1>2, <2>2, ControlSame DEF MayBlock
  <2> QED
    BY <1>2, <2>2, <2>5, <2>6, <2>7, GoOnKeeps
<1> QED
  BY <1>1, <1>2 DEF Converge

LEMMA BlockedKeeps ==
  ASSUME IInv, Blocked
  PROVE  IInv'
<1>1. /\ pc = "blocking" /\ End("down")
      /\ UNCHANGED <<stage, pause, work, batches, recon, git>>
  BY DEF Blocked
<1>2. stage \in {"paused", "canceled"} /\ pause # "none"
  BY <1>1, Rest DEF StageInv
<1> QED
  BY <1>1, <1>2, EndKeeps

LEMMA CrashKeeps ==
  ASSUME IInv, Crash
  PROVE  IInv'
<1>1. /\ pc \in Running /\ End("crashed")
      /\ UNCHANGED <<stage, pause, work, batches, recon, git>>
  BY DEF Crash
<1>2. stage # "completed"
  BY <1>1, Rest DEF DoneInv, Running
<1> QED
  BY <1>1, <1>2, EndKeeps

\* A cancel takes the stage from under whoever works on it.
LEMMA CancelKeeps ==
  ASSUME IInv, Cancel
  PROVE  IInv'
<1>1. /\ stage' = "canceled" /\ UNCHANGED <<pc, loc>>
      /\ UNCHANGED <<pause, work, batches, recon, git>>
  BY DEF Cancel, flow
<1>2. RestType'
  BY <1>1, ControlSame, Rest DEF RestType
<1>3. PcInv'
  BY <1>1, ControlSame, Rest DEF PcInv
<1>4. BlockInv'
  BY <1>1, ControlSame, Rest DEF BlockInv, MayBlock
<1>5. StageInv' /\ DoneInv'
  BY <1>1, Rest DEF StageInv, NoHalfState, DoneInv
<1>6. pc' = "merge" => Merges = {}
  BY <1>1 DEF IInv, GitInv
<1> QED
  BY <1>1, <1>2, <1>3, <1>4, <1>5, <1>6, QuietKeeps DEF Control

LEMMA ResumeKeeps ==
  ASSUME IInv, Resume
  PROVE  IInv'
<1>1. /\ pc \in {"down", "crashed"} /\ pc' = "start" /\ pause' = "none"
      /\ stage \notin {"completed", "canceled"}
      /\ stage' = IF stage = "paused" THEN "ready" ELSE stage
      /\ UNCHANGED <<loc, work, batches, recon, git>>
  BY DEF Resume
<1>2. RestType'
  BY <1>1, ControlSame, Rest DEF RestType, Running
<1>3. PcInv'
  BY <1>1 DEF PcInv, Fresh, Unreviewed, Before, Built, Accepted, Merging
<1>4. BlockInv'
  BY <1>1, ControlSame, Rest DEF BlockInv, MayBlock
<1>5. StageInv' /\ DoneInv'
  BY <1>1, Rest DEF StageInv, NoHalfState, DoneInv, RestType
<1> QED
  BY <1>1, <1>2, <1>3, <1>4, <1>5, QuietKeeps DEF Control

LEMMA ReconcileReadKeeps ==
  ASSUME IInv, ReconcileRead
  PROVE  IInv'
<1>1. /\ recon' = N /\ UNCHANGED <<pc, loc, stage, pause>>
      /\ UNCHANGED <<work, batches, git>>
  BY DEF ReconcileRead, flow
<1>2. /\ N' = N /\ Last' = Last /\ AllApproved' = AllApproved
      /\ Work' = Work /\ NoRework' = NoRework
      /\ UNCHANGED <<task, att, ver, target, moves>>
  BY <1>1, WorkSame DEF work, git, N, Last
<1>3. RestType'
  BY <1>1, <1>2, Rest, Batches DEF RestType
<1>4. PcInv'
  BY <1>1, <1>2, Rest DEF PcInv
<1>5. BlockInv'
  BY <1>1, <1>2, Rest DEF BlockInv, MayBlock
<1>6. StageInv' /\ DoneInv'
  BY <1>1, <1>2, Rest DEF StageInv, NoHalfState, DoneInv
<1>7. pc' = "merge" => Merges = {}
  BY <1>1 DEF IInv, GitInv
<1> QED
  BY <1>1, <1>3, <1>4, <1>5, <1>6, <1>7, QuietKeeps DEF Control

-----------------------------------------------------------------------------
(* Verdicts: the newest batch changes. *)

Statuses == {"pending", "integrating", "conflict", "failed", "completed"}

Judged(b, s, u) == [b EXCEPT !.status = s, !.unavailable = u]

\* A batch that has not landed may get any verdict; one that has may only fail.
LEMMA Verdict ==
  ASSUME IInv, NEW i \in 1..N, NEW s \in Statuses, NEW u \in BOOLEAN,
         \/ batches[i].landed = None
         \/ s = "failed" /\ u = batches[i].unavailable
  PROVE  LET b == Judged(batches[i], s, u)
         IN /\ b \in Batch /\ BatchOK(b) /\ b.complete = batches[i].complete
            /\ b.tip = batches[i].tip /\ b.landed = batches[i].landed
            /\ b.status = s /\ b.unavailable = u
<1> DEFINE b == Judged(batches[i], s, u)
<1>1. batches[i] \in Batch /\ BatchOK(batches[i])
  BY Batches
<1>2. /\ b \in Batch /\ b.complete = batches[i].complete
      /\ b.tip = batches[i].tip /\ b.landed = batches[i].landed
      /\ b.status = s /\ b.unavailable = u
  BY <1>1 DEF Judged, Batch, Statuses
<1> HIDE DEF b
<1>3. BatchOK(b)
  BY <1>1, <1>2 DEF BatchOK
<1> QED
  BY <1>2, <1>3 DEF b

\* A refusal, of a batch that has a verdict of this kind.
LEMMA RefuseKeeps ==
  ASSUME IInv, NEW b, NEW block \in BOOLEAN, Refuse(b, block), BatchOK(b),
         pc \in Fresh \cup {"finish"},
         b.tip = Last.tip, b.landed = Last.landed, b.complete = Last.complete,
         block => pc \notin Accepted
  PROVE  IInv'
<1>1. /\ SetLast(b) /\ pc' = "pausing"
      /\ loc' = [loc EXCEPT !.block = block, !.reason = "integration"]
      /\ UNCHANGED <<stage, pause, work, recon, git>>
      /\ UNCHANGED <<task, att, ver, target, moves>>
  BY DEF Refuse, work, git
<1>2. N > 0 /\ pc \in Running \ {"start", "blocking"}
  BY Rest DEF PcInv, Fresh, Unreviewed, Before, Built, Accepted, Merging,
     Running
<1>3. ReviewedOK(b)
  BY <1>2, Batches DEF ReviewedOK
<1>4. N' = N /\ Last' = b
  BY <1>1, <1>2, <1>3, LastChanges
<1>5. loc' \in Loc /\ loc'.block = block
  BY <1>1, Rest DEF RestType, Loc
<1>6. RestType'
  BY <1>1, <1>4, <1>5, Rest DEF RestType, Running
<1>7. PcInv'
  BY <1>1, <1>2, <1>4
     DEF PcInv, Fresh, Unreviewed, Before, Built, Accepted, Merging
<1>8. BlockInv'
  <2>1. CASE block
    <3>1. Last.complete => AllApproved
      <4>1. CASE pc \in Unreviewed \cup Merging
        BY <4>1, Rest DEF PcInv
      <4>2. CASE pc = "finish"
        BY <4>2, Rest, Batches DEF PcInv, BatchOK
      <4> QED BY <2>1, <4>1, <4>2 DEF Fresh
    <3> QED BY <1>1, <1>4, <3>1, WorkSame DEF BlockInv
  <2>2. CASE ~block
    <3>1. MayBlock' => MayBlock
      BY <1>1, <1>5, <2>2 DEF MayBlock
    <3> QED BY <1>1, <1>4, <3>1, Rest, WorkSame DEF BlockInv
  <2> QED BY <2>1, <2>2
<1>9. StageInv' /\ DoneInv'
  BY <1>1, <1>2, Rest, StageWhere DEF StageInv, NoHalfState, DoneInv, Running
<1> QED
  BY <1>1, <1>2, <1>3, <1>6, <1>7, <1>8, <1>9, VerdictKeeps DEF Control

\* The refusals of one batch, by what they change of it.
LEMMA RefuseAsKeeps ==
  ASSUME IInv, NEW status \in {"conflict", "failed"}, RefuseAs(status),
         \/ pc \in Fresh \ Accepted
         \/ pc = "finish" /\ status = "failed"
  PROVE  IInv'
<1> DEFINE b == [Last EXCEPT !.status = status]
<1>1. /\ N \in 1..N /\ Last = batches[N] /\ Last \in Batch
      /\ pc \in Fresh => Last.landed = None
  BY Rest, Batches
     DEF PcInv, Fresh, Unreviewed, Before, Built, Accepted, Merging
<1>2. b = [batches[N] EXCEPT !.status = status,
                             !.unavailable = batches[N].unavailable]
  BY <1>1 DEF Batch
<1>3. /\ BatchOK(b) /\ b.tip = Last.tip /\ b.landed = Last.landed
      /\ b.complete = Last.complete
  <2> DEFINE u == batches[N].unavailable
  <2>1. u \in BOOLEAN /\ status \in Statuses
    BY <1>1 DEF Batch, Statuses
  <2>2. \/ batches[N].landed = None
        \/ status = "failed" /\ u = batches[N].unavailable
    BY <1>1 DEF Fresh, Accepted
  <2> HIDE DEF u
  <2>3. LET c == Judged(batches[N], status, u)
        IN /\ BatchOK(c) /\ c.complete = batches[N].complete
           /\ c.tip = batches[N].tip /\ c.landed = batches[N].landed
    BY <1>1, <2>1, <2>2, Verdict
  <2> QED BY <1>1, <1>2, <2>3 DEF u, Judged
<1>4. Refuse(b, TRUE)
  BY DEF RefuseAs
<1>5. pc \in Fresh \cup {"finish"} /\ pc \notin Accepted
  BY DEF Accepted
<1> HIDE DEF b
<1> QED
  BY <1>3, <1>4, <1>5, RefuseKeeps

LEMMA UnavailableKeeps ==
  ASSUME IInv, pc \in Built,
         Refuse([Last EXCEPT !.status = "failed", !.unavailable = TRUE], FALSE)
  PROVE  IInv'
<1> DEFINE b == [Last EXCEPT !.status = "failed", !.unavailable = TRUE]
<1>1. /\ N \in 1..N /\ Last = batches[N]
      /\ Last.landed = None
  BY Rest, Batches
     DEF PcInv, Fresh, Unreviewed, Before, Built, Accepted, Merging
<1>2. /\ BatchOK(b) /\ b.tip = Last.tip /\ b.landed = Last.landed
      /\ b.complete = Last.complete
  <2>1. LET c == Judged(batches[N], "failed", TRUE)
        IN /\ BatchOK(c) /\ c.complete = batches[N].complete
           /\ c.tip = batches[N].tip /\ c.landed = batches[N].landed
    <3>1. "failed" \in Statuses /\ TRUE \in BOOLEAN
      BY DEF Statuses
    <3> QED BY <1>1, <3>1, Verdict
  <2> QED BY <1>1, <2>1 DEF Judged
<1> HIDE DEF b
<1> QED
  BY <1>2, RefuseKeeps DEF Fresh, Unreviewed, b

LEMMA RefuseSameKeeps ==
  ASSUME IInv, NEW block \in BOOLEAN, Refuse(Last, block),
         pc \in Unreviewed
  PROVE  IInv'
<1>1. N > 0 /\ BatchOK(Last)
  BY Rest, Batches
     DEF PcInv, Fresh, Unreviewed, Before, Built, Accepted, Merging
<1>2. pc \notin Accepted
  BY DEF Unreviewed, Before, Built, Accepted
<1> QED
  BY <1>1, <1>2, RefuseKeeps DEF Fresh

\* The scheduler goes on after a change of the newest batch.
LEMMA GoOnVerdict ==
  ASSUME IInv, N > 0, NEW b, SetLast(b), UNCHANGED <<work, git, pause, recon>>,
         BatchOK(b), ReviewedOK(b),
         Last.complete => b.complete /\ b.tip = Last.tip,
         Last.landed # None => b.landed # None,
         pc \in Running, pc' \in Running, loc' \in Loc,
         pc' \notin {"blocking", "merge"},
         stage' \in {"running", "integration", "canceled"},
         PcInv', MayBlock' /\ b.complete => AllApproved
  PROVE  IInv'
<1>1. /\ N' = N /\ Last' = b /\ UNCHANGED <<task, att, ver, target, moves>>
      /\ AllApproved' = AllApproved
  BY LastChanges, WorkSame DEF work, git
<1>2. RestType'
  BY <1>1, Rest DEF RestType
<1>3. StageInv' /\ DoneInv'
  BY DEF StageInv, NoHalfState, DoneInv, Running
<1>4. BlockInv'
  BY <1>1 DEF BlockInv
<1> QED
  BY <1>2, <1>3, <1>4, VerdictKeeps DEF Control

LEMMA CreateBranchKeeps ==
  ASSUME IInv, CreateBranch
  PROVE  IInv'
<1> DEFINE b == [Last EXCEPT !.branch = TRUE]
<1>1. /\ pc = "opened" /\ pc' = "building" /\ SetLast(b)
      /\ UNCHANGED <<loc, stage, pause, work, recon, git>>
      /\ UNCHANGED <<att, ver, task>>
      /\ \A t \in Tasks : task[t] # "merge_blocked"
  BY DEF CreateBranch, Goto, work
<1>2. /\ N > 0 /\ Last.landed = None /\ ~Last.complete /\ NoRework
      /\ Last \in Batch /\ BatchOK(Last)
  BY <1>1, Rest, Batches DEF PcInv, Fresh, Unreviewed, Before, Built
<1>3. /\ b \in Batch /\ b.tip = Last.tip /\ b.landed = None /\ ~b.complete
  BY <1>2 DEF Batch
<1> HIDE DEF b
<1>4. BatchOK(b) /\ ReviewedOK(b)
  BY <1>2, <1>3 DEF BatchOK, ReviewedOK
<1>5. N' = N /\ Last' = b /\ NoRework' = NoRework
  BY <1>1, <1>2, <1>3, <1>4, LastChanges, WorkSame
<1>6. PcInv'
  BY <1>1, <1>2, <1>3, <1>5
     DEF PcInv, Fresh, Unreviewed, Before, Built, Accepted, Merging
<1>7. loc' \in Loc /\ pc \in Running \ {"start", "blocking"} /\ pc' \in Running
  BY <1>1, Rest DEF RestType, Running
<1> QED
  BY <1>1, <1>2, <1>3, <1>4, <1>6, <1>7, StageWhere, GoOnVerdict

\* All work is merged into the integration worktree.
LEMMA BuiltKeeps ==
  ASSUME IInv, pc = "building", pc' = "built",
         SetLast([Last EXCEPT !.tip = [id |-> <<"int", N>>, tree |-> Work]]),
         loc' = [loc EXCEPT !.skipped =
                   {t \in Tasks : att[t] = "review_skipped"}],
         UNCHANGED <<stage, pause, work, recon, git>>
  PROVE  IInv'
<1> DEFINE c == [id |-> <<"int", N>>, tree |-> Work]
           b == [Last EXCEPT !.tip = c]
           S == {t \in Tasks : att[t] = "review_skipped"}
<1>1. /\ SetLast(b) /\ pc = "building" /\ pc' = "built"
      /\ loc' = [loc EXCEPT !.skipped = S]
      /\ UNCHANGED <<stage, pause, work, recon, git>>
      /\ UNCHANGED <<att, ver, task>>
  BY DEF work
<1>2. /\ N > 0 /\ N \in Nat /\ Last.landed = None /\ ~Last.complete /\ NoRework
      /\ Last \in Batch /\ BatchOK(Last)
      /\ \A t \in Tasks : task[t] # "merge_blocked"
  BY <1>1, Rest, Batches DEF PcInv, Fresh, Unreviewed, Before, Built
<1>3. c \in Commit /\ c # None /\ c.tree = Work /\ c.id[1] = "int"
  BY <1>2, WorkIsChange, NoneAssumption DEF Commit, IInv
<1> HIDE DEF c
<1>4. b \in Batch /\ b.tip = c /\ b.landed = None /\ ~b.complete
  BY <1>2, <1>3 DEF Batch
<1> HIDE DEF b
<1>5. BatchOK(b) /\ ReviewedOK(b)
  BY <1>3, <1>4 DEF BatchOK, ReviewedOK
<1>6. N' = N /\ Last' = b /\ NoRework' = NoRework /\ Work' = Work
  BY <1>1, <1>2, <1>4, <1>5, LastChanges, WorkSame
<1>7. loc' \in Loc /\ loc'.skipped = S /\ loc'.block = loc.block
  BY <1>1, Rest DEF RestType, Loc
<1>8. \A t \in Tasks : att'[t] = "review_skipped" => t \in loc'.skipped
  BY <1>1, <1>7
<1>9. PcInv'
  BY <1>1, <1>2, <1>3, <1>4, <1>6, <1>8
     DEF PcInv, Fresh, Unreviewed, Before, Built, Accepted, Merging
<1>10. pc \in Running \ {"start", "blocking"} /\ pc' \in Running
  BY <1>1 DEF Running
<1> QED
  BY <1>1, <1>2, <1>4, <1>5, <1>7, <1>9, <1>10, StageWhere, GoOnVerdict

LEMMA GatesPassKeeps ==
  ASSUME IInv, pc = "gates", pc' = "gated",
         SetLast([Last EXCEPT !.status = "integrating", !.mergeHash = Last.tip]),
         UNCHANGED <<loc, stage, pause, work, recon, git>>
  PROVE  IInv'
<1> DEFINE b == [Last EXCEPT !.status = "integrating", !.mergeHash = Last.tip]
<1>1. /\ pc = "gates" /\ pc' = "gated" /\ SetLast(b)
      /\ UNCHANGED <<loc, stage, pause, work, recon, git>>
      /\ UNCHANGED <<att, ver, task>>
  BY DEF work
<1>2. /\ N > 0 /\ Last.landed = None /\ ~Last.complete /\ NoRework
      /\ Last \in Batch /\ BatchOK(Last)
      /\ Last.tip # None /\ Last.tip.tree = Work
      /\ \A t \in Tasks : att[t] = "review_skipped" => t \in loc.skipped
      /\ \A t \in Tasks : task[t] # "merge_blocked"
  BY <1>1, Rest, Batches DEF PcInv, Fresh, Unreviewed, Before, Built
<1>3. /\ b \in Batch /\ b.tip = Last.tip /\ b.landed = None /\ ~b.complete
  BY <1>2 DEF Batch
<1> HIDE DEF b
<1>4. BatchOK(b) /\ ReviewedOK(b)
  BY <1>2, <1>3 DEF BatchOK, ReviewedOK
<1>5. N' = N /\ Last' = b /\ NoRework' = NoRework /\ Work' = Work
  BY <1>1, <1>2, <1>3, <1>4, LastChanges, WorkSame
<1>6. PcInv'
  BY <1>1, <1>2, <1>3, <1>5
     DEF PcInv, Fresh, Unreviewed, Before, Built, Accepted, Merging
<1>7. loc' \in Loc /\ pc \in Running \ {"start", "blocking"} /\ pc' \in Running
  BY <1>1, Rest DEF RestType, Running
<1> QED
  BY <1>1, <1>2, <1>3, <1>4, <1>6, <1>7, StageWhere, GoOnVerdict

\* The review accepts: the newest batch holds the latest work of every task.
LEMMA ReviewPassesKeeps ==
  ASSUME IInv, ReviewPasses
  PROVE  IInv'
<1> DEFINE b == [Last EXCEPT !.complete = TRUE, !.unavailable = FALSE]
<1>1. /\ pc = "review" /\ pc' = "reviewed" /\ SetLast(b)
      /\ UNCHANGED <<loc, stage, pause, work, recon, git>>
      /\ UNCHANGED <<att, ver, task>>
  BY DEF ReviewPasses, Goto, work
<1>2. /\ N > 0 /\ Last.landed = None /\ ~Last.complete /\ NoRework
      /\ Last \in Batch /\ BatchOK(Last)
      /\ Last.tip # None /\ Last.tip.tree = Work
      /\ \A t \in Tasks : att[t] = "review_skipped" => t \in loc.skipped
      /\ \A t \in Tasks : task[t] # "merge_blocked"
  BY <1>1, Rest, Batches DEF PcInv, Fresh, Unreviewed, Before, Built
<1>3. /\ b \in Batch /\ b.tip = Last.tip /\ b.landed = None /\ b.complete
      /\ ~b.unavailable
  BY <1>2 DEF Batch
<1> HIDE DEF b
<1>4. BatchOK(b) /\ ReviewedOK(b)
  BY <1>2, <1>3 DEF BatchOK, ReviewedOK
<1>5. N' = N /\ Last' = b /\ NoRework' = NoRework /\ Work' = Work
  BY <1>1, <1>2, <1>3, <1>4, LastChanges, WorkSame
<1>6. PcInv'
  BY <1>1, <1>2, <1>3, <1>5
     DEF PcInv, Fresh, Unreviewed, Before, Built, Accepted, Merging
<1>7. loc' \in Loc /\ pc \in Running \ {"start", "blocking"} /\ pc' \in Running
  BY <1>1, Rest DEF RestType, Running
<1>8. ~MayBlock'
  BY <1>1, <1>2 DEF MayBlock
<1> QED
  BY <1>1, <1>2, <1>3, <1>4, <1>6, <1>7, <1>8, StageWhere, GoOnVerdict

LEMMA ReviewRejectsKeeps ==
  ASSUME IInv, ReviewRejects
  PROVE  IInv'
<1> DEFINE b == Judged(batches[N], "failed", FALSE)
<1>1. /\ pc = "review" /\ pc' = "rework"
      /\ SetLast([Last EXCEPT !.status = "failed", !.unavailable = FALSE])
      /\ UNCHANGED <<loc, stage, pause, work, recon, git>>
      /\ UNCHANGED <<att, ver, task>>
  BY DEF ReviewRejects, Goto, work
<1>2. /\ N > 0 /\ Last.landed = None /\ ~Last.complete /\ N \in 1..N
      /\ Last = batches[N]
  BY <1>1, Rest, Batches DEF PcInv, Fresh, Unreviewed, Before, Built
<1>3. BatchOK(b) /\ b.tip = Last.tip /\ b.landed = None /\ ~b.complete
  <2>1. "failed" \in Statuses /\ FALSE \in BOOLEAN
    BY DEF Statuses
  <2> QED BY <1>2, <2>1, Verdict
<1>4. SetLast(b) /\ ReviewedOK(b)
  BY <1>1, <1>2, <1>3 DEF Judged, ReviewedOK
<1> HIDE DEF b
<1>5. N' = N /\ Last' = b
  BY <1>1, <1>2, <1>3, <1>4, LastChanges
<1>6. PcInv'
  BY <1>1, <1>2, <1>3, <1>5
     DEF PcInv, Fresh, Unreviewed, Before, Built, Accepted, Merging
<1>7. loc' \in Loc /\ pc \in Running \ {"start", "blocking"} /\ pc' \in Running
  BY <1>1, Rest DEF RestType, Running
<1> QED
  BY <1>1, <1>2, <1>3, <1>4, <1>6, <1>7, StageWhere, GoOnVerdict

\* The verdict is recorded once every skipped task has it.
LEMMA RecordApprovalKeeps ==
  ASSUME IInv, RecordApproval
  PROVE  IInv'
<1> DEFINE b == [Last EXCEPT !.approves = loc.skipped]
<1>1. /\ pc = "approve" /\ pc' = "check" /\ SetLast(b) /\ Unsettled = {}
      /\ UNCHANGED <<loc, stage, pause, work, recon, git>>
      /\ UNCHANGED <<att, ver, task>>
  BY DEF RecordApproval, Goto, work
<1>2. /\ N > 0 /\ Last.landed = None /\ Last.complete /\ ~Last.unavailable
      /\ Last \in Batch /\ BatchOK(Last) /\ ReviewedOK(Last)
      /\ \A t \in Tasks : att[t] = "review_skipped" => t \in loc.skipped
  BY <1>1, Rest, Batches
     DEF PcInv, Fresh, Unreviewed, Before, Built, Accepted, Merging
<1>3. AllApproved
  <2>1. \A t \in Tasks : att[t] # "review_skipped"
    BY <1>1, <1>2 DEF Unsettled
  <2>2. \A t \in Tasks : att[t] # "rework_required"
    BY <1>2 DEF ReviewedOK, NoRework
  <2> QED BY <2>1, <2>2, Rest DEF AllApproved, RestType
<1>4. /\ b \in Batch /\ b.tip = Last.tip /\ b.landed = None /\ b.complete
      /\ ~b.unavailable
  BY <1>1, <1>2, Rest DEF Batch, RestType, Loc
<1> HIDE DEF b
<1>5. BatchOK(b) /\ ReviewedOK(b)
  BY <1>2, <1>4 DEF BatchOK, ReviewedOK
<1>6. N' = N /\ Last' = b /\ AllApproved' = AllApproved
  BY <1>1, <1>2, <1>4, <1>5, LastChanges, WorkSame
<1>7. PcInv'
  BY <1>1, <1>2, <1>3, <1>4, <1>6
     DEF PcInv, Fresh, Unreviewed, Before, Built, Accepted, Merging
<1>8. loc' \in Loc /\ pc \in Running \ {"start", "blocking"} /\ pc' \in Running
  BY <1>1, Rest DEF RestType, Running
<1> QED
  BY <1>1, <1>2, <1>3, <1>4, <1>5, <1>7, <1>8, StageWhere, GoOnVerdict

\* The batch lands: by the merge, or because the target is found to hold it.
LEMMA LandsKeeps ==
  ASSUME IInv, SetLast([Last EXCEPT !.status = "completed", !.complete = TRUE,
                                    !.landed = loc.seen,
                                    !.mergeHash = loc.seen]),
         \/ pc = "settle" /\ pc' = "finish" /\ TreesAgree
         \/ pc = "restore" /\ pc' = "tail",
         UNCHANGED <<loc, stage, pause, work, recon, git>>
  PROVE  IInv'
<1> DEFINE b == [Last EXCEPT !.status = "completed", !.complete = TRUE,
                             !.landed = loc.seen, !.mergeHash = loc.seen]
<1>1. /\ SetLast(b)
      /\ UNCHANGED <<loc, stage, pause, work, recon, git>>
      /\ UNCHANGED <<att, ver, task>>
      /\ \/ pc = "settle" /\ pc' = "finish" /\ TreesAgree
         \/ pc = "restore" /\ pc' = "tail"
  BY DEF work
<1>2. /\ N > 0 /\ N \in 1..N /\ Last.complete /\ ~Last.unavailable
      /\ AllApproved /\ loc.seen # None /\ loc.seen.tree = Last.tip.tree
      /\ Last \in Batch /\ BatchOK(Last) /\ ReviewedOK(Last)
  BY <1>1, Rest, Batches
     DEF PcInv, Fresh, Unreviewed, Before, Built, Accepted, Merging, TreesAgree
<1>3. loc.seen \in Commit \cup {None}
  BY Rest DEF RestType, Loc
<1>4. /\ b \in Batch /\ b.tip = Last.tip /\ b.landed = loc.seen /\ b.complete
      /\ ~b.unavailable /\ b.status = "completed"
  BY <1>2, <1>3 DEF Batch
<1> HIDE DEF b
<1>5. BatchOK(b) /\ ReviewedOK(b)
  BY <1>2, <1>4 DEF BatchOK, ReviewedOK
<1>6. N' = N /\ Last' = b /\ batches'[N] = b
  BY <1>1, <1>2, <1>4, <1>5, LastChanges DEF Last
<1>7. PcInv'
  <2>1. \E i \in 1..N' : batches'[i].landed # None
    BY <1>2, <1>4, <1>6
  <2> QED
    BY <1>1, <1>2, <1>6, <2>1
       DEF PcInv, Fresh, Unreviewed, Before, Built, Accepted, Merging
<1>8. /\ loc' \in Loc /\ pc \in Running \ {"start", "blocking"}
      /\ pc' \in Running /\ pc' \notin {"blocking", "merge"}
  BY <1>1, Rest DEF RestType, Running
<1> QED
  BY <1>1, <1>2, <1>4, <1>5, <1>7, <1>8, StageWhere, GoOnVerdict

\* The automatic reconciliation of a start: a stalled batch is completed.
LEMMA StartRunKeeps ==
  ASSUME IInv, StartRun
  PROVE  IInv'
<1>1. /\ pc = "start" /\ pc' = "stage" /\ stage # "canceled"
      /\ batches' = IF Stalled
                    THEN [batches EXCEPT ![N].status = "completed"] ELSE batches
      /\ loc' = [loc EXCEPT !.snap = stage]
      /\ stage' = IF stage = "ready" THEN "running" ELSE stage
      /\ UNCHANGED <<pause, work, recon, git>>
      /\ UNCHANGED <<task, att, ver>>
  BY DEF StartRun, Goto, work
<1>2. stage \in {"ready", "running", "integration"}
  BY <1>1, Rest DEF StageInv
<1>3. loc' \in Loc /\ loc'.block = loc.block
  BY <1>1, <1>2, Rest DEF RestType, Loc
<1>4. pc \in Running /\ pc' \in Running
  BY <1>1 DEF Running
<1>5. PcInv'
  BY <1>1 DEF PcInv, Fresh, Unreviewed, Before, Built, Accepted, Merging
<1>6. MayBlock' => MayBlock
  BY <1>1 DEF MayBlock
<1>7. CASE Stalled
  <2> DEFINE b == Judged(batches[N], "completed", batches[N].unavailable)
  <2>1. /\ N > 0 /\ N \in 1..N /\ Last = batches[N] /\ Last \in Batch
        /\ BatchOK(Last) /\ ReviewedOK(Last)
        /\ Last.status \in {"pending", "integrating"}
    BY <1>7, Batches DEF Stalled, Open
  <2>2. Last.landed = None
    BY <2>1 DEF BatchOK
  <2>3. /\ BatchOK(b) /\ b.tip = Last.tip /\ b.landed = None
        /\ b.complete = Last.complete
    <3>1. "completed" \in Statuses /\ batches[N].unavailable \in BOOLEAN
      BY <2>1 DEF Statuses, Batch
    <3> QED BY <2>1, <2>2, <3>1, Verdict
  <2>4. SetLast(b)
    <3>1. b = [batches[N] EXCEPT !.status = "completed"]
      BY <2>1 DEF Judged, Batch
    <3> HIDE DEF b
    <3> QED BY <1>1, <1>7, <3>1 DEF SetLast
  <2> HIDE DEF b
  <2>5. ReviewedOK(b)
    BY <2>1, <2>3 DEF ReviewedOK
  <2>6. MayBlock' /\ b.complete => AllApproved
    BY <1>6, <2>1, <2>3, Rest DEF BlockInv
  <2> QED
    BY <1>1, <1>2, <1>3, <1>4, <1>5, <2>1, <2>2, <2>3, <2>4, <2>5, <2>6,
       GoOnVerdict
<1>8. CASE ~Stalled
  BY <1>1, <1>2, <1>3, <1>4, <1>5, <1>6, <1>8, GoOnKeeps
<1> QED
  BY <1>7, <1>8

\* The status of some batch changes, of one that has not landed or to failed.
LEMMA StatusChanges ==
  ASSUME IInv, NEW i \in 1..N, NEW s \in Statuses,
         batches' = [batches EXCEPT ![i].status = s],
         batches[i].landed = None \/ s = "failed",
         UNCHANGED <<att, ver>>
  PROVE  /\ Records /\ N' = N
         /\ N > 0 => /\ Last'.complete = Last.complete
                     /\ Last'.unavailable = Last.unavailable
                     /\ Last'.tip = Last.tip /\ Last'.landed = Last.landed
<1> DEFINE b == Judged(batches[i], s, batches[i].unavailable)
<1>1. batches[i] \in Batch /\ BatchOK(batches[i]) /\ N \in Nat
  BY Batches
<1>2. b = [batches[i] EXCEPT !.status = s] /\ batches[i].unavailable \in BOOLEAN
  BY <1>1 DEF Judged, Batch
<1>3. /\ b \in Batch /\ BatchOK(b) /\ b.complete = batches[i].complete
      /\ b.tip = batches[i].tip /\ b.landed = batches[i].landed
      /\ b.unavailable = batches[i].unavailable /\ b.status = s
  BY <1>2, Verdict
<1>4. batches' = [batches EXCEPT ![i] = b]
  BY <1>2
<1> HIDE DEF b
<1>5. /\ batches' \in Seq(Batch) /\ N' = N /\ batches'[i] = b
      /\ \A j \in 1..N : j # i => batches'[j] = batches[j]
  <2>1. batches \in Seq(Batch) /\ i \in 1..Len(batches)
    BY Batches DEF N
  <2> QED BY <1>3, <1>4, <2>1 DEF N
<1>6. \A j \in 1..N :
        /\ batches'[j].complete = batches[j].complete
        /\ batches'[j].unavailable = batches[j].unavailable
        /\ batches'[j].tip = batches[j].tip
        /\ batches'[j].landed = batches[j].landed
        /\ BatchOK(batches'[j])
        /\ batches'[j].status = "completed" /\ batches'[j].landed # None =>
             batches[j].status = "completed"
  BY <1>3, <1>5, Batches
<1>7. Last = batches[N] /\ Last' = batches'[N] /\ (N > 0 => N \in 1..N)
  BY <1>1, <1>5 DEF Last
<1>8. BatchInv'
  BY <1>5, <1>6, WorkSame DEF BatchInv
<1>9. LastInv'
  <2>1. N > 0 => ReviewedOK(Last')
    BY <1>6, <1>7, Batches DEF ReviewedOK
  <2>2. \A j \in 1..N : batches'[j].landed # None
                         /\ batches'[j].status = "completed" => j = N
    BY <1>6 DEF IInv, LastInv
  <2> QED BY <1>5, <2>1, <2>2, WorkSame DEF LastInv, ReviewedOK
<1> QED
  BY <1>1, <1>5, <1>6, <1>7, <1>8, <1>9, Batches DEF Records

LEMMA RecordPauseKeeps ==
  ASSUME IInv, RecordPause
  PROVE  IInv'
<1>1. /\ pc = "pausing" /\ UNCHANGED <<work, recon, git>>
      /\ UNCHANGED <<task, att, ver, target, moves>>
      /\ loc.reason \in {"integration", "inconsistent", "merge_blocked"}
  BY Rest DEF RecordPause, RestType, Loc, work, git
<1>2. CASE stage = "canceled" /\ loc.reason = "integration"
  <2>1. /\ batches' = [batches EXCEPT ![N].status = "failed"]
        /\ End("down") /\ UNCHANGED <<stage, pause>>
    BY <1>2 DEF RecordPause
  <2>2. N \in 1..N /\ "failed" \in Statuses
    BY <1>1, <1>2, Rest, Batches DEF PcInv, Statuses
  <2>3. Records /\ N' = N /\ (Last'.complete = Last.complete)
        /\ AllApproved' = AllApproved
    <3>1. N > 0
      BY <2>2, Batches
    <3> QED BY <1>1, <2>1, <2>2, <3>1, StatusChanges, WorkSame
  <2>4. pc' = "down" /\ loc' = NoLoc /\ NoLoc \in Loc
    BY <2>1 DEF End, NoLoc, Loc
  <2>5. RestType'
    BY <1>1, <2>1, <2>3, <2>4, Rest DEF RestType
  <2>6. PcInv'
    BY <2>4 DEF PcInv, Fresh, Unreviewed, Before, Built, Accepted, Merging
  <2>7. StageInv' /\ DoneInv'
    BY <1>2, <2>1, <2>4 DEF StageInv, NoHalfState, DoneInv, Running
  <2>8. BlockInv'
    BY <1>1, <2>3, <2>4, Rest DEF BlockInv, MayBlock
  <2>9. GitInv'
    BY <1>1, <2>4, GitSame
  <2> QED
    BY <1>1, <2>3, <2>5, <2>6, <2>7, <2>8, <2>9, Keeps
       DEF Control, MayBeReviewed
<1>3. CASE stage = "canceled" /\ loc.reason # "integration"
  <2>1. UNCHANGED batches /\ End("down") /\ UNCHANGED <<stage, pause>>
    BY <1>3 DEF RecordPause
  <2> QED BY <1>1, <1>3, <2>1, EndKeeps
<1>4. CASE stage # "canceled" /\ ~loc.block
  <2>1. /\ stage' = "paused" /\ pause' = loc.reason /\ End("down")
        /\ UNCHANGED batches
    BY <1>4 DEF RecordPause
  <2> QED BY <1>1, <2>1, EndKeeps
<1>5. CASE stage # "canceled" /\ loc.block
  <2>1. /\ stage' = "paused" /\ pause' = loc.reason /\ pc' = "blocking"
        /\ UNCHANGED <<batches, loc>>
    BY <1>5 DEF RecordPause
  <2>2. RestType'
    BY <1>1, <2>1, Rest, SameRecords DEF RestType, Running
  <2>3. PcInv'
    BY <2>1 DEF PcInv, Fresh, Unreviewed, Before, Built, Accepted, Merging
  <2>4. StageInv' /\ DoneInv'
    BY <1>1, <2>1 DEF StageInv, NoHalfState, DoneInv
  <2>5. BlockInv'
    <3>1. MayBlock
      BY <1>1, <1>5 DEF MayBlock
    <3> QED BY <1>1, <2>1, <3>1, Rest, SameRecords, WorkSame DEF BlockInv
  <2> QED
    BY <1>1, <2>1, <2>2, <2>3, <2>4, <2>5, QuietKeeps DEF Control
<1> QED
  BY <1>2, <1>3, <1>4, <1>5

\* reconcile --apply completes the batch it read, unless that has ended since.
LEMMA ReconcileApplyKeeps ==
  ASSUME IInv, ReconcileApply
  PROVE  IInv'
<1>1. /\ recon # 0 /\ recon' = 0 /\ UNCHANGED <<pc, loc, stage, pause>>
      /\ UNCHANGED <<task, att, ver, target, moves, work, git>>
  BY DEF ReconcileApply, flow, work, git
<1>2. recon \in 1..N
  BY <1>1, Rest, Batches DEF RestType
<1>3. CASE batches[recon].status \in {"completed", "failed"}
  <2>1. UNCHANGED batches
    BY <1>3 DEF ReconcileApply
  <2>2. /\ N' = N /\ Last' = Last /\ AllApproved' = AllApproved
        /\ Work' = Work /\ NoRework' = NoRework
    BY <1>1, <2>1, SameRecords, WorkSame
  <2>3. RestType'
    BY <1>1, <2>2, Rest, Batches DEF RestType
  <2>4. PcInv' /\ BlockInv'
    BY <1>1, <2>1, <2>2, Rest DEF PcInv, BlockInv, MayBlock
  <2>5. StageInv' /\ DoneInv'
    BY <1>1, <2>1, <2>2, Rest DEF StageInv, NoHalfState, DoneInv
  <2>6. pc' = "merge" => Merges = {}
    BY <1>1 DEF IInv, GitInv
  <2> QED
    BY <1>1, <2>1, <2>3, <2>4, <2>5, <2>6, QuietKeeps DEF Control
<1>4. CASE batches[recon].status \notin {"completed", "failed"}
  <2>1. batches' = [batches EXCEPT ![recon].status = "completed"]
    BY <1>4 DEF ReconcileApply
  <2>2. batches[recon].landed = None
    BY <1>2, <1>4, Batches DEF BatchOK
  <2>3. /\ Records /\ N' = N
        /\ N > 0 => /\ Last'.complete = Last.complete
                    /\ Last'.unavailable = Last.unavailable
                    /\ Last'.tip = Last.tip /\ Last'.landed = Last.landed
        /\ AllApproved' = AllApproved /\ NoRework' = NoRework /\ Work' = Work
    BY <1>1, <1>2, <2>1, <2>2, StatusChanges, WorkSame DEF Statuses
  <2>4. RestType'
    BY <1>1, <2>3, Rest, Batches DEF RestType
  <2>5. (\E i \in 1..N : batches[i].landed # None) =>
          \E i \in 1..N' : batches'[i].landed # None
    BY <2>3 DEF Records
  <2>6. PcInv'
    BY <1>1, <2>3, <2>5, Rest
       DEF PcInv, Fresh, Unreviewed, Before, Built, Accepted, Merging
  <2>7. BlockInv'
    BY <1>1, <2>3, Rest DEF BlockInv, MayBlock
  <2>8. StageInv' /\ DoneInv'
    BY <1>1, <2>3, <2>5, Rest DEF StageInv, NoHalfState, DoneInv
  <2>9. GitInv'
    BY <1>1, GitSame DEF IInv, GitInv
  <2> QED
    BY <1>1, <2>3, <2>4, <2>6, <2>7, <2>8, <2>9, Keeps
       DEF Control, MayBeReviewed
<1> QED
  BY <1>3, <1>4

\* A new batch is opened only when the latest completed one has not landed.
LEMMA OpenBatchKeeps ==
  ASSUME IInv, OpenBatch
  PROVE  IInv'
<1>1. /\ pc = "integrate" /\ pc' = "opened" /\ N < MaxBatches
      /\ LandedBatch = {} /\ batches' = Append(batches, NewBatch)
      /\ stage' = IF stage = "running" THEN "integration" ELSE stage
      /\ loc' = [loc EXCEPT !.approved = {t \in Tasks : task[t] = "approved"}]
      /\ UNCHANGED <<pause, work, recon, git>>
      /\ UNCHANGED <<task, att, ver, target, moves>>
  BY DEF OpenBatch, Goto, work, git
<1>2. /\ NewBatch \in Batch /\ NewBatch.tip = None /\ NewBatch.landed = None
      /\ ~NewBatch.complete
  BY DEF NewBatch, Batch
<1>3. N \in Nat /\ NoRework /\ stage \in {"running", "integration", "canceled"}
  BY <1>1, Rest, Batches, StageWhere DEF PcInv, Running
<1>4. /\ batches' \in Seq(Batch) /\ N' = N + 1
      /\ batches'[N + 1] = NewBatch
      /\ \A i \in 1..N : batches'[i] = batches[i]
  BY <1>1, <1>2, Batches DEF N
<1>5. \A i \in 1..N' : i \in 1..N \/ i = N + 1
  BY <1>3, <1>4
<1>6. Last' = NewBatch
  BY <1>4 DEF Last
<1>7. BatchOK(NewBatch) /\ ReviewedOK(NewBatch)
  BY <1>2 DEF BatchOK, ReviewedOK
<1>8. BatchInv'
  BY <1>1, <1>4, <1>5, <1>7, Batches, WorkSame DEF BatchInv
<1>9. \A i \in 1..N : ~(batches[i].landed # None
                        /\ batches[i].status = "completed")
  <2> SUFFICES ASSUME NEW i \in 1..N, batches[i].landed # None,
                      batches[i].status = "completed"
               PROVE  FALSE
    OBVIOUS
  <2>1. i = N
    BY DEF IInv, LastInv
  <2>2. batches[i].complete /\ ~batches[i].unavailable
    BY Batches DEF BatchOK
  <2>3. \A j \in 1..N : j <= i
    BY <1>3, <2>1
  <2>4. i \in LandedBatch
    BY <2>2, <2>3 DEF LandedBatch
  <2> QED BY <1>1, <2>4
<1>10. LastInv'
  BY <1>1, <1>2, <1>4, <1>5, <1>6, <1>7, <1>9, WorkSame DEF LastInv
<1>11. Records
  <2>1. N' \in Nat /\ N' >= N /\ N' <= MaxBatches
    BY <1>1, <1>3, <1>4, IntegrationAssumption
  <2> QED BY <1>2, <1>4, <1>8, <1>10, <2>1 DEF Records
<1>12. loc' \in Loc /\ loc'.block = loc.block
  BY <1>1, Rest DEF RestType, Loc
<1>13. RestType'
  BY <1>1, <1>3, <1>4, <1>12, Rest DEF RestType, Running
<1>14. PcInv'
  BY <1>1, <1>2, <1>3, <1>4, <1>6, WorkSame
     DEF PcInv, Fresh, Unreviewed, Before, Built, Accepted, Merging
<1>15. BlockInv'
  BY <1>2, <1>6 DEF BlockInv
<1>16. StageInv' /\ DoneInv'
  BY <1>1, <1>3 DEF StageInv, NoHalfState, DoneInv
<1>17. GitInv'
  BY <1>1, GitSame
<1> QED
  BY <1>1, <1>11, <1>13, <1>14, <1>15, <1>16, <1>17, Keeps
     DEF Control, MayBeReviewed

\* The steps of integrate that may refuse.
LEMMA RefusalsKeep ==
  ASSUME IInv,
         \/ RefuseOpened \/ Build \/ StageGates \/ MergeGate \/ ReviewFails
         \/ ReworkPaused \/ CheckTarget \/ Settle
  PROVE  IInv'
<1>0. \A at \in {"opened", "building", "gates", "merge_gate", "review", "check",
                 "settle"} :
        /\ at \in Fresh \ Accepted
        /\ at \in {"gates", "merge_gate", "review"} => at \in Built
        /\ at \notin {"check", "settle"} => at \in Unreviewed
  BY DEF Fresh, Unreviewed, Before, Built, Accepted, Merging
<1>1. CASE RefuseOpened
  BY <1>0, <1>1, RefuseAsKeeps DEF RefuseOpened
<1>2. CASE Build
  BY <1>0, <1>2, RefuseAsKeeps, BuiltKeeps DEF Build
<1>3. CASE StageGates
  BY <1>0, <1>3, RefuseAsKeeps, GatesPassKeeps DEF StageGates
<1>4. CASE MergeGate
  BY <1>0, <1>4, RefuseAsKeeps, RefuseSameKeeps, UnavailableKeeps,
     MergeGatePasses DEF MergeGate
<1>5. CASE ReviewFails
  BY <1>0, <1>5, RefuseAsKeeps, UnavailableKeeps DEF ReviewFails
<1>6. CASE ReworkPaused
  BY <1>6, RefuseSameKeeps DEF ReworkPaused, Unreviewed
<1>7. CASE CheckTarget
  BY <1>0, <1>7, RefuseAsKeeps, CheckTargetPasses DEF CheckTarget
<1>8. CASE Settle
  BY <1>0, <1>8, RefuseAsKeeps, LandsKeeps DEF Settle
<1> QED
  BY <1>1, <1>2, <1>3, <1>4, <1>5, <1>6, <1>7, <1>8

LEMMA ConvergeBatchKeeps ==
  ASSUME IInv, ConvergeBatch
  PROVE  IInv'
BY LandsKeeps DEF ConvergeBatch, Goto

-----------------------------------------------------------------------------
(* Git. *)

\* Commits of the user, and what they keep.
LEMMA MoveKeeps ==
  ASSUME IInv, NEW head \in Commit, NEW has \in SUBSET Commit, Move(head, has),
         head = Base => has = {Base},
         \A c \in has : c.id[1] = "merge" => c \in target.has
  PROVE  IInv'
<1>1. /\ target' = [head |-> head, has |-> has] /\ moves' = moves + 1
      /\ moves < MaxMoves
      /\ UNCHANGED <<pc, loc, stage, pause, batches, recon, work>>
      /\ UNCHANGED <<task, att, ver>>
  BY DEF Move, flow, work
<1>2. /\ Records /\ N' = N /\ Last' = Last /\ AllApproved' = AllApproved
      /\ Work' = Work /\ NoRework' = NoRework
  BY <1>1, SameRecords, WorkSame
<1>3. RestType'
  BY <1>1, <1>2, Rest, IntegrationAssumption DEF RestType
<1>4. PcInv' /\ BlockInv'
  BY <1>1, <1>2, Rest DEF PcInv, BlockInv, MayBlock
<1>5. StageInv' /\ DoneInv'
  BY <1>1, <1>2, Rest DEF StageInv, NoHalfState, DoneInv
<1>6. Merges' \subseteq Merges
  BY <1>1 DEF Merges
<1>7. GitInv'
  BY <1>1, <1>6 DEF IInv, GitInv
<1> QED
  BY <1>1, <1>2, <1>3, <1>4, <1>5, <1>7, Keeps DEF Control, MayBeReviewed

LEMMA UserKeeps ==
  ASSUME IInv, User
  PROVE  IInv'
<1>1. /\ target \in [head : Commit, has : SUBSET Commit] /\ moves \in Nat
      /\ moves < MaxMoves /\ MaxMoves \in Nat
  BY Rest, IntegrationAssumption
     DEF RestType, User, UserCommits, UserMerges, UserResets, Move
<1>2. CASE UserCommits
  <2> DEFINE c == [id |-> <<"user", moves + 1>>,
                   tree |-> target.head.tree \cup {<<"user", moves + 1>>}]
  <2>1. Move(c, target.has \cup {c})
    BY <1>2 DEF UserCommits
  <2>2. <<"user", moves + 1>> \in Change
    BY <1>1 DEF Change
  <2>3. c \in Commit /\ c.id[1] = "user" /\ c # Base
    BY <1>1, <2>2 DEF Commit, Base
  <2> HIDE DEF c
  <2> QED BY <1>1, <2>1, <2>3, MoveKeeps
<1>3. CASE UserMerges
  <2>1. PICK i \in 1..N :
          /\ batches[i].tip \notin target.has \cup {None}
          /\ LET c == [id |-> <<"hand", moves + 1>>,
                       tree |-> target.head.tree \cup batches[i].tip.tree]
             IN Move(c, target.has \cup {batches[i].tip, c})
    BY <1>3 DEF UserMerges
  <2> DEFINE c == [id |-> <<"hand", moves + 1>>,
                   tree |-> target.head.tree \cup batches[i].tip.tree]
             t == batches[i].tip
  <2>2. Move(c, target.has \cup {t, c})
    BY <2>1
  <2>3. t \in Commit /\ t.id[1] = "int"
    BY <2>1, Batches DEF Batch, BatchOK
  <2>4. c \in Commit /\ c.id[1] = "hand" /\ c # Base
    BY <1>1, <2>3 DEF Commit, Base
  <2> HIDE DEF c, t
  <2> QED BY <1>1, <2>2, <2>3, <2>4, MoveKeeps
<1>4. CASE UserResets
  <2>1. Move(Base, {Base})
    BY <1>4 DEF UserResets
  <2>2. Base \in Commit /\ Base.id[1] = "base"
    BY DEF Base, Commit
  <2> QED BY <2>1, <2>2, MoveKeeps
<1> QED
  BY <1>2, <1>3, <1>4 DEF User

\* The one merge commit is made while there is none.
LEMMA MergeKeeps ==
  ASSUME IInv, Merge
  PROVE  IInv'
<1>0. pc = "merge" /\ pc \in Fresh \ Accepted
  BY DEF Merge, Fresh, Accepted, Merging
<1>1. CASE RefuseAs("conflict")
  BY <1>0, <1>1, RefuseAsKeeps
<1>2. ASSUME pc' = "settle",
             target' = IF Last.tip \in target.has THEN target
                       ELSE [head |-> MergeCommit,
                             has |-> target.has \cup {Last.tip, MergeCommit}],
             loc' = [loc EXCEPT !.seen = target'.head],
             UNCHANGED <<stage, pause, work, batches, recon, moves>>
      PROVE  IInv'
  <2>1. /\ N \in Nat /\ Last \in Batch /\ BatchOK(Last) /\ ReviewedOK(Last)
        /\ Last.complete /\ Last.tip \in Commit /\ Last.tip.id[1] = "int"
    <3>1. N > 0 /\ Last.complete
      BY <1>0, Rest DEF PcInv, Fresh, Merging
    <3> QED BY <3>1, Batches DEF ReviewedOK, BatchOK, Batch
  <2>2. target \in [head : Commit, has : SUBSET Commit]
    BY Rest DEF RestType
  <2> DEFINE c == MergeCommit
  <2>3. c \in Commit /\ c.id[1] = "merge" /\ c # Base
    BY <2>1, <2>2 DEF MergeCommit, Commit, Base
  <2>4. target' = IF Last.tip \in target.has THEN target
                  ELSE [head |-> c, has |-> target.has \cup {Last.tip, c}]
    BY <1>2
  <2> HIDE DEF c
  <2>5. /\ target' \in [head : Commit, has : SUBSET Commit]
        /\ target'.head # None
    BY <2>1, <2>2, <2>3, <2>4, NoneAssumption
  <2>6. GitInv'
    <3>1. Merges = {}
      BY <1>0 DEF IInv, GitInv
    <3>2. Merges' \subseteq {c}
      BY <2>1, <2>3, <2>4, <3>1 DEF Merges
    <3>3. target'.head = Base => target'.has = {Base}
      BY <2>3, <2>4 DEF IInv, GitInv
    <3> QED BY <1>2, <3>2, <3>3 DEF GitInv
  <2>7. /\ Records /\ N' = N /\ Last' = Last /\ AllApproved' = AllApproved
        /\ UNCHANGED <<task, att, ver>>
    BY <1>2, SameRecords, WorkSame DEF work
  <2>8. loc' \in Loc /\ loc'.seen # None
    BY <1>2, <2>5, Rest DEF RestType, Loc
  <2>9. RestType'
    BY <1>2, <2>5, <2>7, <2>8, Rest DEF RestType, Running
  <2>10. PcInv'
    BY <1>0, <1>2, <2>7, <2>8, Rest
       DEF PcInv, Fresh, Unreviewed, Before, Built, Accepted, Merging
  <2>11. BlockInv'
    BY <1>0, <1>2, <2>7, Rest DEF BlockInv, MayBlock, PcInv, Merging
  <2>12. StageInv' /\ DoneInv'
    BY <1>0, <1>2, StageWhere DEF StageInv, NoHalfState, DoneInv, Running
  <2> QED
    BY <2>6, <2>7, <2>9, <2>10, <2>11, <2>12, Keeps DEF Control, MayBeReviewed
<1> QED
  BY <1>1, <1>2 DEF Merge

-----------------------------------------------------------------------------
(* Tasks and attempts. *)

\* One task changes its status.
LEMMA TaskKeeps ==
  ASSUME IInv, NEW t \in Tasks,
         NEW v \in {"approved", "merged", "merge_blocked", "rework_required"},
         task' = [task EXCEPT ![t] = v],
         UNCHANGED <<flow, stage, pause, att, ver, batches, recon, git>>,
         pc \in Running \ (Built \cup {"building"}),
         Reviewed(v) => MayBeReviewed(t),
         v = "merge_blocked" => MayBlock
  PROVE  IInv'
<1>1. /\ UNCHANGED <<pc, loc, stage, pause, att, ver, batches, recon>>
      /\ UNCHANGED <<target, moves, git>>
      /\ task' = [task EXCEPT ![t] = v]
      /\ pc \in Running \ (Built \cup {"building"})
  BY DEF flow, git
<1>2. /\ Records /\ N' = N /\ Last' = Last /\ AllApproved' = AllApproved
      /\ Work' = Work /\ NoRework' = NoRework
  BY <1>1, SameRecords, WorkSame
<1>3. /\ task \in [Tasks -> {"review_skipped", "approved", "merged",
                             "merge_blocked", "rework_required"}]
      /\ task'[t] = v /\ \A u \in Tasks : u # t => task'[u] = task[u]
  BY <1>1, Rest DEF RestType
<1>4. RestType'
  BY <1>1, <1>2, <1>3, Rest DEF RestType
<1>5. PcInv'
  BY <1>1, <1>2, Rest DEF PcInv
<1>6. MayBlock' => MayBlock
  BY <1>1, <1>3 DEF MayBlock
<1>7. BlockInv'
  BY <1>2, <1>6, Rest DEF BlockInv
<1>8. StageInv' /\ DoneInv'
  BY <1>1, Rest DEF StageInv, NoHalfState, DoneInv, Running
<1>9. GitInv'
  BY <1>1, GitSame DEF IInv, GitInv
<1>10. \A u \in Tasks : Reviewed(task'[u]) => MayBeReviewed(u)
  BY <1>3 DEF MayBeReviewed
<1> QED
  BY <1>1, <1>2, <1>4, <1>5, <1>7, <1>8, <1>9, <1>10, Keeps DEF Control

\* One skipped attempt takes the verdict of the review of the stage.
LEMMA AttemptKeeps ==
  ASSUME IInv, NEW t \in Tasks, att[t] = "review_skipped",
         NEW v \in {"approved", "rework_required"},
         att' = [att EXCEPT ![t] = v],
         pc = IF v = "approved" THEN "approve" ELSE "rework",
         UNCHANGED <<flow, stage, pause, task, ver, batches, recon, git>>
  PROVE  IInv'
<1>1. /\ UNCHANGED <<pc, loc, stage, pause, task, ver, batches, recon>>
      /\ UNCHANGED <<target, moves, git>>
      /\ att' = [att EXCEPT ![t] = v]
      /\ pc = IF v = "approved" THEN "approve" ELSE "rework"
  BY DEF flow, git
<1>2. /\ att \in [Tasks -> {"review_skipped", "approved", "rework_required"}]
      /\ att'[t] = v /\ \A u \in Tasks : u # t => att'[u] = att[u]
  BY <1>1, Rest DEF RestType
<1>3. ~AllApproved
  BY DEF AllApproved
<1>4. \A i \in 1..N : batches[i].landed = None
  BY <1>3, Batches DEF BatchOK
<1>5. N' = N /\ Last' = Last /\ Work' = Work
  BY <1>1 DEF N, Last, Work
<1>6. BatchInv'
  BY <1>1, <1>4, <1>5, Batches DEF BatchInv, BatchOK
<1>7. N > 0 /\ Last.complete => v = "approved"
  BY <1>1, Rest DEF PcInv, Unreviewed
<1>8. NoRework /\ v = "approved" => NoRework'
  BY <1>2 DEF NoRework
<1>9. LastInv'
  BY <1>1, <1>4, <1>5, <1>7, <1>8, Batches DEF LastInv, ReviewedOK
<1>10. TypeOK'
  BY <1>1, <1>2, <1>5 DEF IInv, TypeOK
<1>11. PcInv'
  <2>1. CASE v = "approved"
    BY <1>1, <1>2, <1>5, <2>1, Rest
       DEF PcInv, Fresh, Unreviewed, Before, Built, Accepted, Merging
  <2>2. CASE v = "rework_required"
    BY <1>1, <1>2, <1>5, <2>2, Rest
       DEF PcInv, Fresh, Unreviewed, Before, Built, Accepted, Merging
  <2> QED BY <2>1, <2>2
<1>12. BlockInv'
  <2>1. MayBlock' = MayBlock
    BY <1>1 DEF MayBlock
  <2> QED BY <1>3, <1>5, <2>1, Rest DEF BlockInv
<1>13. StageInv' /\ DoneInv'
  BY <1>1, Rest DEF StageInv, NoHalfState, DoneInv
<1>14. GitInv'
  BY <1>1, GitSame DEF IInv, GitInv
<1>15. SkippedTasksAreReviewed'
  BY <1>1, <1>5 DEF IInv, SkippedTasksAreReviewed, OwnReview
<1> QED
  BY <1>1, <1>6, <1>9, <1>10, <1>11, <1>12, <1>13, <1>14, <1>15
     DEF IInv, Control

\* A task that is reworked gets an attempt with a review of its own; no batch
\* has landed then, and the newest was not accepted.
LEMMA ReworkKeeps ==
  ASSUME IInv, NEW t \in Tasks, Rework(t)
  PROVE  IInv'
<1>1. /\ UNCHANGED <<pc, loc, stage, pause, batches, recon>>
      /\ UNCHANGED <<target, moves, git>>
      /\ att' = [att EXCEPT ![t] = "approved"]
      /\ task' = [task EXCEPT ![t] = "approved"]
      /\ ver' = [ver EXCEPT ![t] = 2]
      /\ pc = "stage" /\ att[t] = "rework_required"
      /\ stage # "canceled"
  BY DEF Rework, flow, git
<1>2. ~AllApproved /\ ~NoRework
  BY <1>1 DEF AllApproved, NoRework
<1>3. \A i \in 1..N : batches[i].landed = None
  BY <1>2, Batches DEF BatchOK
<1>4. N > 0 => ~Last.complete
  BY <1>2, Batches DEF ReviewedOK
<1>5. N' = N /\ Last' = Last
  BY <1>1 DEF N, Last
<1>6. BatchInv' /\ LastInv'
  BY <1>1, <1>3, <1>4, <1>5, Batches DEF BatchInv, BatchOK, LastInv, ReviewedOK
<1>7. /\ task' \in [Tasks -> {"review_skipped", "approved", "merged",
                             "merge_blocked", "rework_required"}]
      /\ att' \in [Tasks -> {"review_skipped", "approved", "rework_required"}]
      /\ ver' \in [Tasks -> 1..2] /\ ver'[t] = 2
      /\ \A u \in Tasks : u # t => task'[u] = task[u] /\ ver'[u] = ver[u]
  BY <1>1, Rest DEF RestType
<1>8. TypeOK'
  BY <1>1, <1>5, <1>7 DEF IInv, TypeOK
<1>9. PcInv'
  BY <1>1 DEF PcInv, Fresh, Unreviewed, Before, Built, Accepted, Merging
<1>10. BlockInv'
  BY <1>4, <1>5 DEF BlockInv
<1>11. StageInv' /\ DoneInv'
  BY <1>1, Rest DEF StageInv, NoHalfState, DoneInv
<1>12. GitInv'
  BY <1>1, GitSame DEF IInv, GitInv
<1>13. SkippedTasksAreReviewed'
  BY <1>1, <1>5, <1>7 DEF IInv, SkippedTasksAreReviewed, OwnReview
<1> QED
  BY <1>1, <1>6, <1>8, <1>9, <1>10, <1>11, <1>12, <1>13 DEF IInv, Control

LEMMA TaskStepsKeep ==
  ASSUME IInv, NEW t \in Tasks,
         \/ ApproveSkipped(t) \/ ReworkSkipped(t) \/ MergeTask(t)
         \/ BlockTask(t) \/ RestoreTask(t)
  PROVE  IInv'
<1>1. ASSUME NEW v \in {"approved", "rework_required"}, Take(t, v),
             pc = IF v = "approved" THEN "approve" ELSE "rework"
      PROVE  IInv'
  <2>1. CASE att[t] = "review_skipped"
    BY <1>1, <2>1, AttemptKeeps DEF Take
  <2>2. CASE att[t] # "review_skipped"
    <3>1. /\ task' = [task EXCEPT ![t] = v]
          /\ UNCHANGED <<flow, stage, pause, att, ver, batches, recon, git>>
      BY <1>1, <2>2 DEF Take
    <3>2. pc \in Running \ (Built \cup {"building"})
      BY <1>1 DEF Running, Built
    <3>3. Reviewed(v) => MayBeReviewed(t)
      BY <1>1, Rest DEF PcInv, Fresh, Accepted, Reviewed, MayBeReviewed
    <3> QED BY <1>1, <3>1, <3>2, <3>3, TaskKeeps
  <2> QED BY <2>1, <2>2
<1>2. CASE ApproveSkipped(t)
  BY <1>1, <1>2 DEF ApproveSkipped
<1>3. CASE ReworkSkipped(t)
  BY <1>1, <1>3 DEF ReworkSkipped
<1>4. CASE MergeTask(t)
  <2>1. ASSUME task[t] = "approved", pc \in {"finish", "tail"},
               task' = [task EXCEPT ![t] = "merged"],
               UNCHANGED <<flow, stage, pause, att, ver, batches, recon, git>>
        PROVE  IInv'
    <3>1. /\ pc \in Running \ (Built \cup {"building"})
          /\ MayBeReviewed(t)
      BY <2>1 DEF Running, Built, MayBeReviewed, Reviewed
    <3> QED BY <2>1, <3>1, TaskKeeps
  <2>2. CASE pc = "finish" /\ RefuseAs("failed")
    BY <2>2, RefuseAsKeeps
  <2>3. ASSUME pc = "tail", End("failed"),
               UNCHANGED <<stage, pause, work, batches, recon, git>>
        PROVE  IInv'
    <3>1. stage # "completed"
      BY <2>3, Rest DEF DoneInv
    <3> QED BY <2>3, <3>1, EndKeeps
  <2> QED BY <1>4, <2>1, <2>2, <2>3 DEF MergeTask
<1>5. CASE BlockTask(t)
  <2>1. /\ task' = [task EXCEPT ![t] = "merge_blocked"] /\ pc = "blocking"
        /\ UNCHANGED <<flow, stage, pause, att, ver, batches, recon, git>>
        /\ task[t] = "approved"
    BY <1>5 DEF BlockTask, ToBlock
  <2>2. /\ pc \in Running \ (Built \cup {"building"}) /\ MayBlock
        /\ MayBeReviewed(t)
    BY <2>1 DEF Running, Built, MayBlock, MayBeReviewed, Reviewed
  <2> QED BY <2>1, <2>2, TaskKeeps
<1>6. CASE RestoreTask(t)
  <2>1. /\ task' = [task EXCEPT ![t] = "approved"] /\ pc = "restore"
        /\ UNCHANGED <<flow, stage, pause, att, ver, batches, recon, git>>
        /\ task[t] = "merge_blocked"
    BY <1>6 DEF RestoreTask
  <2>2. /\ pc \in Running \ (Built \cup {"building"})
        /\ MayBeReviewed(t)
    BY <2>1 DEF Running, Built, MayBeReviewed, Reviewed
  <2> QED BY <2>1, <2>2, TaskKeeps
<1> QED
  BY <1>2, <1>3, <1>4, <1>5, <1>6

-----------------------------------------------------------------------------
(* The theorems. *)

LEMMA InitKeeps == Init => IInv
<1> SUFFICES ASSUME Init
             PROVE  IInv
  OBVIOUS
<1>1. /\ pc = "stage" /\ loc = NoLoc /\ stage = "running" /\ pause = "none"
      /\ batches = <<>> /\ N = 0 /\ recon = 0 /\ moves = 0
      /\ target = [head |-> Base, has |-> {Base}]
      /\ task = att
      /\ att = [t \in Tasks |-> IF t \in Skipped THEN "review_skipped"
                                                 ELSE "approved"]
      /\ ver = [t \in Tasks |-> 1]
  BY DEF Init, N
<1>2. Base \in Commit /\ Base.id[1] = "base"
  BY DEF Base, Commit
<1>3. TypeOK
  <2>1. NoLoc \in Loc /\ pc \in Running
    BY <1>1 DEF NoLoc, Loc, Running
  <2>2. target \in [head : Commit, has : SUBSET Commit]
    BY <1>1, <1>2
  <2> QED BY <1>1, <2>1, <2>2, IntegrationAssumption DEF TypeOK
<1>4. batches \in Seq(Batch) /\ BatchInv /\ LastInv
  BY <1>1 DEF BatchInv, LastInv
<1>5. PcInv
  BY <1>1 DEF PcInv, Fresh, Unreviewed, Before, Built, Accepted, Merging
<1>6. BlockInv /\ StageInv /\ DoneInv
  BY <1>1 DEF BlockInv, StageInv, NoHalfState, DoneInv
<1>7. GitInv
  BY <1>1, <1>2 DEF GitInv, Merges
<1>8. SkippedTasksAreReviewed
  BY <1>1 DEF SkippedTasksAreReviewed, OwnReview
<1> QED
  BY <1>3, <1>4, <1>5, <1>6, <1>7, <1>8 DEF IInv, Control

LEMMA StepKeeps == IInv /\ [Next]_vars => IInv'
<1> SUFFICES ASSUME IInv, [Next]_vars
             PROVE  IInv'
  OBVIOUS
<1>1. CASE Scheduler
  BY <1>1, StartRunKeeps, CheckTasksKeeps, CheckpointKeeps, FinishLandedKeeps,
     PauseForKeeps, OpenBatchKeeps, CreateBranchKeeps, RefusalsKeep,
     ReviewPassesKeeps, ReviewRejectsKeeps, RecordApprovalKeeps, MergeKeeps,
     CompleteStageKeeps, RecordPauseKeeps, BlockedKeeps, ConvergeKeeps,
     ConvergeBatchKeeps, ReworkKeeps, TaskStepsKeep
     DEF Scheduler, FailClosed
<1>2. CASE Resume \/ ReconcileRead \/ ReconcileApply \/ Crash \/ Cancel \/ User
  BY <1>2, ResumeKeeps, ReconcileReadKeeps, ReconcileApplyKeeps, CrashKeeps,
     CancelKeeps, UserKeeps
<1>3. CASE UNCHANGED vars
  <2>1. /\ UNCHANGED <<pc, loc, stage, pause, recon, task, att, ver, target>>
        /\ UNCHANGED <<work, git, batches, moves>>
    BY <1>3 DEF vars, work, git
  <2>2. /\ N' = N /\ Last' = Last /\ AllApproved' = AllApproved
        /\ Work' = Work /\ NoRework' = NoRework
    BY <2>1, SameRecords, WorkSame
  <2>3. RestType' /\ PcInv' /\ BlockInv'
    BY <2>1, <2>2, Rest DEF RestType, PcInv, BlockInv, MayBlock
  <2>4. StageInv' /\ DoneInv' /\ (pc' = "merge" => Merges = {})
    BY <2>1, <2>2, Rest DEF StageInv, NoHalfState, DoneInv, IInv, GitInv
  <2> QED BY <2>1, <2>3, <2>4, QuietKeeps DEF Control
<1> QED
  BY <1>1, <1>2, <1>3 DEF Next

\* In every reachable state a batch that records where it landed was reviewed
\* completely and landed as it was reviewed, with the latest work of every task,
\* and the scheduler stands where stage, batch and Git allow it, whatever
\* crashes, is resumed, reconciled, canceled or done by hand.
THEOREM Invariant == Spec => []IInv
BY InitKeeps, StepKeeps, PTL DEF Spec

\* The scheduler, the database and the target branch keep their types.
THEOREM TypeCorrect == Spec => []TypeOK
<1>1. IInv => TypeOK
  BY DEF IInv
<1> QED
  BY <1>1, Invariant, PTL

\* A completed stage has all its tasks merged and a batch that landed as it was
\* reviewed, by an available reviewer, with the latest work of every task.
THEOREM CompletionReviewed == Spec => []CompletedIsReviewed
<1>1. IInv => CompletedIsReviewed
  <2> SUFFICES ASSUME IInv, stage = "completed"
               PROVE  /\ \A t \in Tasks : task[t] = "merged"
                      /\ \E i \in 1..N :
                           LET b == batches[i] IN
                           /\ b.complete /\ ~b.unavailable
                           /\ b.landed # None /\ b.landed.tree = b.tip.tree
                           /\ Work \subseteq b.landed.tree
    BY DEF CompletedIsReviewed
  <2>1. \A t \in Tasks : task[t] = "merged"
    BY Rest DEF DoneInv
  <2>2. PICK i \in 1..N : batches[i].landed # None
    BY Rest DEF DoneInv
  <2>3. /\ batches[i].complete /\ ~batches[i].unavailable
        /\ batches[i].landed.tree = batches[i].tip.tree
        /\ batches[i].tip.tree = Work
    BY <2>2, Batches DEF BatchOK
  <2> QED BY <2>1, <2>2, <2>3
<1> QED
  BY <1>1, Invariant, PTL

\* The target never contains two merge commits made by the scheduler, however
\* often it crashes, is resumed or finds its work merged by hand.
THEOREM MergedOnce == Spec => []OneMerge
<1>1. IInv => OneMerge
  <2> SUFFICES ASSUME IInv
               PROVE  Cardinality(Merges) <= 1
    BY DEF OneMerge, Merges
  <2>1. \A c, d \in Merges : c = d
    BY DEF IInv, GitInv
  <2>2. CASE Merges = {}
    BY <2>2, FS_EmptySet
  <2>3. ASSUME NEW c \in Merges
        PROVE  Cardinality(Merges) <= 1
    <3>1. Merges = {c}
      BY <2>1
    <3>2. Cardinality({c}) = 1
      BY FS_Singleton
    <3> QED BY <3>1, <3>2
  <2> QED BY <2>2, <2>3
<1> QED
  BY <1>1, Invariant, PTL

\* Wherever the scheduler ends by itself, the stage is completed, canceled or
\* paused with a record that a resume resolves.
THEOREM EndsWhole == Spec => []NoHalfState
<1>1. IInv => NoHalfState
  BY DEF IInv, Control, StageInv
<1> QED
  BY <1>1, Invariant, PTL

\* No task whose own review was skipped is approved, blocked or merged before a
\* complete review of a tree that holds its latest work.
THEOREM SkippedReviewed == Spec => []SkippedTasksAreReviewed
<1>1. IInv => SkippedTasksAreReviewed
  BY DEF IInv
<1> QED
  BY <1>1, Invariant, PTL

\* Once a batch records where it landed and the target contains it, the paid
\* review is never started again, after any crash or resume.
THEOREM ReviewPaidOnce == Spec => NoReviewOfLandedWork
<1>1. IInv /\ [Next]_vars =>
        [pc # "review" /\ pc' = "review" =>
           ~ \E i \in 1..N :
               /\ batches[i].status = "completed"
               /\ batches[i].complete /\ ~batches[i].unavailable
               /\ batches[i].landed \in target.has]_vars
  <2> SUFFICES ASSUME IInv, Next, pc # "review", pc' = "review",
                      NEW i \in 1..N, batches[i].status = "completed",
                      batches[i].landed \in target.has
               PROVE  FALSE
    OBVIOUS
  <2>1. pc = "merge_gate"
    BY DEF Next, Scheduler, StartRun, CheckTasks, StopIfCanceled,
       PassCheckpoint, FinishLanded, FailClosed, OpenBatch, RefuseOpened,
       CreateBranch, Build, StageGates, MergeGate, ReviewPasses, ReviewRejects,
       ReviewFails, ReworkPaused, RecordApproval, CheckTarget, Merge, Settle,
       CompleteStage, RecordPause, Blocked, Converge, ConvergeBatch, Rework,
       ApproveSkipped, ReworkSkipped, Take, MergeTask, BlockTask, RestoreTask,
       Resume, ReconcileRead, ReconcileApply, Crash, Cancel, User, UserCommits,
       UserMerges, UserResets, Move, flow, Goto, End, Refuse, RefuseAs, PauseFor
  <2>2. Last.landed = None
    BY <2>1, Rest DEF PcInv, Fresh, Unreviewed, Built
  <2>3. batches[i].landed # None
    BY Rest, NoneAssumption DEF RestType
  <2>4. i = N
    BY <2>3 DEF IInv, LastInv
  <2> QED BY <2>2, <2>3, <2>4 DEF Last
<1> QED
  BY <1>1, Invariant, PTL DEF Spec, NoReviewOfLandedWork
=============================================================================
