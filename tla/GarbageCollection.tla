--------------------------- MODULE GarbageCollection ---------------------------
(***************************************************************************)
(* `brainctl gc --apply' beside everybody who makes and removes worktrees  *)
(* and branches: the scheduler with its attempts and integrations, its own *)
(* cleanup after a merge, workers that outlive their attempt, `recover',   *)
(* and the user, who commits, merges and checks out another branch.        *)
(*                                                                         *)
(* A branch is the set of commits it holds; commit i is what the worker of *)
(* attempt i makes.  One run with one stage and one task.  The inventory   *)
(* is one step; apply takes an entry and verifies it again.  An abandoned  *)
(* directory it then deletes.  A registered worktree goes the way of       *)
(* cleanupRedundantWorktree, which the scheduler takes after a merge, too: *)
(* the checks are a step, every try of `git worktree remove' is one, with  *)
(* a wait in between in which anybody may act, and so are the deletion of  *)
(* what git has given up and `branch -d'.                                  *)
(*                                                                         *)
(* Left out: directories outside the root or of no known owner, which are  *)
(* not touched; a second run, by whose batches the integration directories *)
(* of this one would be judged as well; a run without a frozen target      *)
(* branch; sizes, dates and the recycle bin; a main checkout with edits,   *)
(* which makes every integration directory look edited; the cleanup after  *)
(* a merge of an attempt whose path was never recorded.                    *)
(***************************************************************************)
EXTENDS Integers, Sequences, FiniteSets

CONSTANTS
  MaxAttempts,  \* bound: attempts of the task
  MaxBatches,   \* bound: integration batches
  MaxHands,     \* bound: what the user does, and removals that fail half way
  Tries         \* how often `git worktree remove' is tried, four times

ASSUME GarbageCollectionAssumption ==
  MaxAttempts \in Nat /\ MaxBatches \in Nat /\ MaxHands \in Nat
  /\ Tries \in Nat \ {0}

VARIABLES
  att,     \* the attempts, with their worktrees and branches
  batch,   \* the integration batches, with theirs
  head,    \* what the main checkout is on: the target branch or `away'
  heads,   \* the commits of those two
  job,     \* what the collector and the scheduler's cleanup are about to remove
  hands    \* the user's steps so far

vars == <<att, batch, head, heads, job, hands>>

Commits == 1..MaxAttempts
Attempt ==
  [status  : {"running", "worker_completed", "approved", "failed",
              "interrupted"},
   known   : BOOLEAN,        \* worktree_path is recorded
   tree    : BOOLEAN,        \* the directory exists
   reg     : BOOLEAN,        \* and git has it registered
   dirty   : BOOLEAN,        \* with uncommitted edits
   branch  : BOOLEAN,        \* the branch exists
   commits : SUBSET Commits,
   worker  : BOOLEAN]        \* a worker process works there
NewAttempt == [status |-> "running", known |-> FALSE, tree |-> FALSE,
               reg |-> FALSE, dirty |-> FALSE, branch |-> FALSE,
               commits |-> {}, worker |-> FALSE]
Batch == [status : {"pending", "completed", "failed", "conflict"},
          tree : BOOLEAN, branch : BOOLEAN, commits : SUBSET Commits]

N == Len(att)
B == Len(batch)
Latest == att[N]
Target == heads["target"]

\* ATTEMPT_TERMINAL_STATUSES, INTEGRATION_TERMINAL_STATUSES
Ended(a)      == a.status \in {"approved", "failed", "interrupted"}
BatchEnded(b) == b.status \in {"completed", "failed"}

\* isBranchMergedInto, of a branch that may be missing.
Merged(a, into) == ~a.branch \/ a.commits \subseteq heads[into]

-----------------------------------------------------------------------------
(* The collector.                                                          *)

\* An entry is an attempt's directory or, 0, the directory of the stage that
\* holds the worktrees of all its batches: the enumeration is three deep.
IntDir == 0
Entry == [of : 0..MaxAttempts, reg : BOOLEAN, stale : BOOLEAN]

\* checkDirtyFailClosed: a directory that git has given up has no edits.
Dirty(a) == a.dirty /\ a.reg

\* inventory, classify
SafeAttempt(a) == /\ a.known /\ a.tree /\ Ended(a)
                  /\ ~Dirty(a) /\ Merged(a, "target")
SafeInt == /\ \E j \in DOMAIN batch : batch[j].tree
           /\ \A j \in DOMAIN batch : BatchEnded(batch[j])
Stale(a)  == a.known /\ ~a.tree /\ a.reg
Listed == {[of |-> i, reg |-> att[i].reg, stale |-> Stale(att[i])] :
             i \in {k \in DOMAIN att : SafeAttempt(att[k]) \/ Stale(att[k])}}
          \cup IF SafeInt THEN {[of |-> IntDir, reg |-> FALSE, stale |-> FALSE]}
                          ELSE {}

\* The two that remove, each with its list, the entry it is at, how often it
\* has tried, and whether the worker was alive when it looked, which it does not
\* know.
Removers == {"gc", "stage"}
Nothing == [of |-> IntDir, reg |-> FALSE, stale |-> FALSE]
Job == [todo : SUBSET Entry, on : Entry, tries : 0..Tries, live : BOOLEAN,
        at : {"idle", "verified", "checked", "drop"}]
Idle == [todo |-> {}, on |-> Nothing, tries |-> 0, live |-> FALSE,
         at |-> "idle"]

Tree(w)     == att[job[w].on.of]
Go(w, at)   == job' = [job EXCEPT ![w].at = at]
EntryOver(w) == job' = [job EXCEPT ![w] = [Idle EXCEPT !.todo = job[w].todo]]
Past(w, e)   == [job[w] EXCEPT !.todo = @ \ {e}]
Outside == UNCHANGED <<head, heads, hands>>

Inventory ==
  /\ job["gc"] = Idle /\ Listed # {}
  /\ job' = [job EXCEPT !["gc"].todo = Listed]
  /\ UNCHANGED <<att, batch>> /\ Outside

\* reverify. Of an integration nothing is looked up in the store again.
Reverified(e) ==
  IF e.of = IntDir THEN \E j \in DOMAIN batch : batch[j].tree
  ELSE /\ att[e.of].tree /\ Ended(att[e.of])
       /\ ~Dirty(att[e.of]) /\ Merged(att[e.of], "target")

Takes(w, e) == /\ job[w].at = "idle" /\ e \in job[w].todo
               /\ UNCHANGED batch /\ Outside

\* `git worktree prune': every registration whose directory is gone.
Pruned(a) == [a EXCEPT !.reg = @ /\ a.tree]
Prunes    == att' = [i \in DOMAIN att |-> Pruned(att[i])]
Prune(e) ==
  /\ Takes("gc", e) /\ e.stale
  /\ job' = [job EXCEPT !["gc"] = Past("gc", e)]
  /\ Prunes

Reverify(e) ==
  /\ Takes("gc", e) /\ ~e.stale
  /\ job' = [job EXCEPT !["gc"] =
       IF Reverified(e)
       THEN [Past("gc", e) EXCEPT !.on = e, !.at = "verified"]
       ELSE Past("gc", e)]
  /\ UNCHANGED att

-----------------------------------------------------------------------------
(* cleanupRedundantWorktree, by the collector against the target branch    *)
(* and by the scheduler against HEAD.                                      *)

\* A directory is removed, with its edits, and what is stale is pruned.
NoTree(a) == [a EXCEPT !.tree = FALSE, !.reg = FALSE, !.dirty = FALSE]
TreeGone(w) ==
  att' = [i \in DOMAIN att |-> IF i = job[w].on.of THEN NoTree(att[i])
                                                  ELSE Pruned(att[i])]

\* Mutant: the collector uses the default as well.
RefHead(w) == head
Ref(w)     == IF w = "gc" THEN "target" ELSE head

\* The checks before the first try. An edit after the first of them is found by
\* the second or by git, a commit by the check of the branch, unless it comes
\* after that: so they are one step.
Check(w) ==
  /\ job[w].at = "verified" /\ job[w].on.reg
  /\ IF ~(~Dirty(Tree(w)) /\ Merged(Tree(w), Ref(w)))
     THEN EntryOver(w) /\ UNCHANGED att
     ELSE IF Tree(w).tree
     THEN /\ job' = [job EXCEPT ![w] = [@ EXCEPT !.at = "checked",
                                                 !.live = Tree(w).worker]]
          /\ UNCHANGED att
     ELSE Go(w, "drop") /\ Prunes
  /\ UNCHANGED batch /\ Outside

\* `git worktree remove' refuses a worktree with edits, and a directory that is
\* not registered; it may give the directory up and fail to delete it.
Removable(a) == a.reg /\ ~a.dirty
Trying(w) == job[w].at = "checked" /\ job[w].tries < Tries /\ UNCHANGED batch
TriedAgain(w) == job' = [job EXCEPT ![w].tries = @ + 1]

Remove(w) ==
  /\ Trying(w) /\ Removable(Tree(w))
  /\ TreeGone(w) /\ Go(w, "drop") /\ Outside
Refuse(w) ==
  /\ Trying(w) /\ ~Removable(Tree(w))
  /\ TriedAgain(w) /\ UNCHANGED att /\ Outside
HalfRemove(w) ==
  /\ Trying(w) /\ Removable(Tree(w)) /\ Tree(w).tree
  /\ hands < MaxHands /\ hands' = hands + 1
  /\ att' = [att EXCEPT ![job[w].on.of].reg = FALSE]
  /\ TriedAgain(w) /\ UNCHANGED <<head, heads>>

\* After the last try: what git has given up is deleted with what is in it.
Leftover(w) ==
  /\ job[w].at = "checked" /\ job[w].tries = Tries
  /\ IF Pruned(Tree(w)).reg THEN EntryOver(w) /\ Prunes
                             ELSE Go(w, "drop") /\ TreeGone(w)
  /\ UNCHANGED batch /\ Outside

\* recycleOrDelete, of an abandoned directory, which is not checked again, and
\* of the directory of the integrations.
Recycle ==
  /\ job["gc"].at = "verified" /\ ~job["gc"].on.reg
  /\ IF job["gc"].on.of = IntDir
     THEN /\ batch' = [j \in DOMAIN batch |-> [batch[j] EXCEPT !.tree = FALSE]]
          /\ EntryOver("gc") /\ UNCHANGED att
     ELSE /\ att' = [att EXCEPT ![job["gc"].on.of] = NoTree(@)]
          /\ Go("gc", "drop") /\ UNCHANGED batch
  /\ Outside

\* deleteBranch: `branch -d' compares with HEAD and refuses a branch that is
\* checked out. Only the branch of an abandoned directory is compared with the
\* target branch before.
\* Mutant: branch -D.
DeletableByForce(a) == a.branch /\ ~a.reg
Deletable(a)        == a.branch /\ ~a.reg /\ a.commits \subseteq heads[head]
DropBranch(w) ==
  /\ job[w].at = "drop" /\ EntryOver(w)
  /\ att' = [att EXCEPT ![job[w].on.of].branch =
               @ /\ ~(/\ Deletable(Tree(w))
                      /\ job[w].on.reg \/ Merged(Tree(w), "target"))]
  /\ UNCHANGED batch /\ Outside

\* A directory that cannot be deleted, and a process that dies.
GiveUp(w) ==
  /\ \/ job[w].at = "checked" /\ job[w].tries = Tries
     \/ job[w].at = "verified" /\ ~job[w].on.reg
  /\ EntryOver(w) /\ UNCHANGED <<att, batch>> /\ Outside
Die(w) ==
  /\ job[w] # Idle
  /\ job' = [job EXCEPT ![w] = Idle] /\ UNCHANGED <<att, batch>> /\ Outside

CleanUp(w) == \/ Check(w) \/ Remove(w) \/ Refuse(w) \/ HalfRemove(w)
              \/ Leftover(w) \/ DropBranch(w) \/ GiveUp(w) \/ Die(w)
Collect == \/ Inventory \/ Recycle \/ CleanUp("gc")
           \/ \E e \in job["gc"].todo : Reverify(e) \/ Prune(e)

-----------------------------------------------------------------------------
(* The scheduler.                                                          *)

Keep == UNCHANGED <<head, heads, job, hands>>
Integrating == B > 0 /\ batch[B].status = "pending"
Done == B > 0 /\ batch[B].status = "completed"

Begin ==
  /\ ~Integrating /\ ~Done /\ N < MaxAttempts
  /\ N > 0 => Latest.status \in {"failed", "interrupted"}
  /\ att' = Append(att, NewAttempt)
  /\ UNCHANGED batch /\ Keep

\* createBranch from the branch of the attempt before, if it is there still,
\* and createWorktree; the path is recorded after it and the worker begins.
MakeTree ==
  /\ N > 0 /\ Latest.status = "running" /\ ~Latest.branch /\ ~Latest.known
  /\ att' = [att EXCEPT ![N] =
               [@ EXCEPT !.tree = TRUE, !.reg = TRUE, !.branch = TRUE,
                         !.commits = IF N > 1 /\ att[N - 1].branch
                                     THEN att[N - 1].commits ELSE {}]]
  /\ UNCHANGED batch /\ Keep
Dispatch ==
  /\ N > 0 /\ Latest.status = "running" /\ Latest.tree /\ ~Latest.known
  /\ att' = [att EXCEPT ![N] = [@ EXCEPT !.known = TRUE, !.worker = TRUE]]
  /\ UNCHANGED batch /\ Keep

AttemptEnds ==
  /\ N > 0 /\ Latest.status = "running" /\ Latest.known
  /\ \E status \in {"approved", "failed"} :
       att' = [att EXCEPT ![N] = [@ EXCEPT !.status = status,
                                            !.worker = FALSE]]
  /\ UNCHANGED batch /\ Keep

\* A crash or a cancel ends the attempt, though not always its worker.
Interrupt ==
  /\ N > 0 /\ Latest.status = "running"
  /\ att' = [att EXCEPT ![N].status = "interrupted"]
  /\ UNCHANGED batch /\ Keep

\* recover, of the latest attempt, by a commit of its worker; the scheduler
\* then reviews it.
Adopt ==
  /\ N > 0 /\ Latest.status \in {"running", "failed", "interrupted"}
  /\ ~Latest.worker /\ Latest.tree /\ Latest.reg /\ ~Latest.dirty
  /\ N \in Latest.commits
  /\ att' = [att EXCEPT ![N].status = "worker_completed"]
  /\ UNCHANGED batch /\ Keep
Review ==
  /\ N > 0 /\ Latest.status = "worker_completed"
  /\ \E status \in {"approved", "failed"} :
       att' = [att EXCEPT ![N].status = status]
  /\ UNCHANGED batch /\ Keep

\* integrate: the record of the batch, its worktree, its end.
OpenBatch ==
  /\ N > 0 /\ Latest.status = "approved" /\ Latest.branch
  /\ ~Integrating /\ ~Done /\ B < MaxBatches
  /\ batch' = Append(batch, [status |-> "pending", tree |-> FALSE,
                             branch |-> FALSE, commits |-> {}])
  /\ UNCHANGED att /\ Keep
BuildBatch ==
  /\ Integrating /\ ~batch[B].branch
  /\ batch' = [batch EXCEPT ![B] = [@ EXCEPT !.tree = TRUE, !.branch = TRUE,
                                             !.commits = Latest.commits]]
  /\ UNCHANGED att /\ Keep
Refused == {"failed", "conflict"}
RefuseBatch ==
  /\ Integrating
  /\ \E status \in Refused :
       batch' = [batch EXCEPT ![B].status = status]
  /\ UNCHANGED att /\ Keep
MergeBatch ==
  /\ Integrating /\ batch[B].branch
  /\ head' = "target"
  /\ heads' = [heads EXCEPT !["target"] = @ \cup batch[B].commits]
  /\ batch' = [batch EXCEPT ![B].status = "completed"]
  /\ UNCHANGED <<att, job, hands>>

\* cleanupMergedStageWorktrees, after the merge or when a resume finds it: the
\* worktree of the batch, in which nobody works, then those of the attempts; a
\* failed cleanup is a warning.
WithoutTree(b) == [b EXCEPT !.tree = FALSE, !.branch = FALSE]
StageCleans ==
  /\ Done /\ job["stage"] = Idle
  /\ job' = [job EXCEPT !["stage"].todo =
       {[of |-> i, reg |-> TRUE, stale |-> FALSE] :
          i \in {k \in DOMAIN att : att[k].known /\ Ended(att[k])}}]
  /\ batch' = [batch EXCEPT ![B] =
       IF @.commits \subseteq heads[head] THEN WithoutTree(@) ELSE @]
  /\ UNCHANGED att /\ Outside
TakeUp(e) ==
  /\ Takes("stage", e)
  /\ job' = [job EXCEPT !["stage"] =
       [Past("stage", e) EXCEPT !.on = e, !.at = "verified"]]
  /\ UNCHANGED att

Schedule == \/ Begin \/ MakeTree \/ Dispatch \/ AttemptEnds \/ Interrupt
            \/ Adopt \/ Review \/ OpenBatch \/ BuildBatch \/ RefuseBatch
            \/ MergeBatch
            \/ StageCleans \/ CleanUp("stage")
            \/ \E e \in job["stage"].todo : TakeUp(e)

-----------------------------------------------------------------------------
(* The workers and the user.                                               *)

Others == UNCHANGED <<batch, job>>
Edit(i) == /\ att[i].worker /\ att[i].tree /\ ~att[i].dirty
           /\ att' = [att EXCEPT ![i].dirty = TRUE]
           /\ Others /\ Outside
Commit(i) == /\ att[i].worker /\ att[i].dirty /\ att[i].reg
             /\ att' = [att EXCEPT ![i] =
                          [@ EXCEPT !.dirty = FALSE,
                                    !.commits = att[i].commits \cup {i}]]
             /\ Others /\ Outside
WorkerEnds(i) == /\ att[i].worker
                 /\ att' = [att EXCEPT ![i].worker = FALSE]
                 /\ Others /\ Outside

Hand == hands < MaxHands /\ hands' = hands + 1 /\ Others
\* A removal by hand that fails half way, as it does when a process is in the
\* directory: git has given it up.
Abandon(i) == /\ Hand /\ Removable(att[i])
              /\ att' = [att EXCEPT ![i].reg = FALSE]
              /\ UNCHANGED <<head, heads>>
RemoveDir(i) == /\ Hand /\ att[i].tree /\ ~att[i].dirty /\ ~att[i].worker
                /\ att' = [att EXCEPT ![i].tree = FALSE]
                /\ UNCHANGED <<head, heads>>
CheckOut == /\ Hand
            /\ head' = IF head = "target" THEN "away" ELSE "target"
            /\ UNCHANGED <<att, heads>>
UserMerges(i) == /\ Hand /\ att[i].branch
                 /\ heads' = [heads EXCEPT ![head] = @ \cup att[i].commits]
                 /\ UNCHANGED <<att, head>>

Elsewhere == \/ CheckOut
             \/ \E i \in DOMAIN att :
                  \/ Edit(i) \/ Commit(i) \/ WorkerEnds(i)
                  \/ Abandon(i) \/ RemoveDir(i) \/ UserMerges(i)

-----------------------------------------------------------------------------
\* The user has the target branch or another one checked out.
Init ==
  /\ att = <<>> /\ batch = <<>> /\ head \in {"target", "away"}
  /\ heads = [h \in {"target", "away"} |-> {}]
  /\ job = [w \in Removers |-> Idle] /\ hands = 0

Next == Collect \/ Schedule \/ Elsewhere

Spec == Init /\ [][Next]_vars

-----------------------------------------------------------------------------
\* What everybody writes stays a worktree, a branch or an entry; proved in
\* GarbageCollectionProofs.
TypeOK ==
  /\ att \in Seq(Attempt) /\ N <= MaxAttempts
  /\ batch \in Seq(Batch) /\ B <= MaxBatches
  /\ head \in {"target", "away"}
  /\ heads \in [{"target", "away"} -> SUBSET Commits]
  /\ job \in [Removers -> Job]
  /\ hands \in 0..MaxHands

\* A commit that some branch holds stays on some branch, whatever is removed in
\* whatever order, by the collector, by the cleanup after a merge, and with
\* workers that commit between the checks, the tries and `branch -d'.
OnSomeBranch == heads["target"] \cup heads["away"]
                \cup UNION {att[i].commits : i \in
                               {k \in DOMAIN att : att[k].branch}}
NoCommitLost == [][OnSomeBranch \subseteq OnSomeBranch']_vars

\* gc-service.ts:9-11, as far as it holds: the collector takes the directory of
\* an attempt only if the attempt does not run; edits in it only if git had
\* given the directory up; and commits the target branch lacks only if a worker
\* that was alive after the last check of the branch has made them.
Taken(i) == att[i].tree /\ ~att'[i].tree
PaidWorkKept ==
  [][Collect =>
       \A i \in DOMAIN att :
         Taken(i) =>
           /\ att[i].status # "running" /\ (att[i].dirty => ~att[i].reg)
           /\ att[i].commits \subseteq
                Target \cup IF job["gc"].live THEN {i} ELSE {}]_vars

\* gc-service.ts:7-11 without that: nothing with edits, of an attempt that goes
\* on, or with commits the target branch lacks is ever recycled.
NeverRecycled ==
  [][Collect =>
       \A i \in DOMAIN att :
         Taken(i) => /\ Ended(att[i]) /\ ~att[i].dirty
                     /\ att[i].commits \subseteq Target]_vars

\* gc-service.ts:7-8 says that apply verifies every precondition again and
\* never trusts the inventory: no worktree of an unfinished batch is removed.
LiveBatchKept ==
  [][Collect => \A j \in DOMAIN batch :
                  batch[j].status = "pending" => batch'[j] = batch[j]]_vars
=============================================================================
