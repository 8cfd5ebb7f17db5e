------------------------ MODULE GarbageCollectionProofs ------------------------
(***************************************************************************)
(* Theorems about GarbageCollection, for any number of attempts, batches,  *)
(* tries and steps of the user.                                            *)
(***************************************************************************)
EXTENDS GarbageCollection, TLAPS

-----------------------------------------------------------------------------
(* The inductive invariant. *)

\* Whoever has a directory has its branch.
Sound(a) == a \in Attempt /\ (a.tree => a.branch)

\* What has been listed, given the attempts s, belongs to an attempt that no
\* longer runs, or whose directory is gone; what was listed as abandoned stays
\* so.
Fits(s, e) ==
  /\ e.of = IntDir => ~e.reg
  /\ e.of # IntDir =>
       /\ e.of \in DOMAIN s /\ s[e.of].known
       /\ ~e.stale => s[e.of].status # "running"
       /\ ~e.stale /\ ~e.reg => ~s[e.of].reg

\* Where a remover stands, given the attempts s and the commits T of the target
\* branch: an abandoned directory holds nothing T lacks; a worktree whose branch
\* has been checked holds at most what its worker has added since; a branch is
\* dropped when the directory is gone.
JobFits(s, T, w, j) ==
  /\ \A e \in j.todo : Fits(s, e) /\ (w = "stage" => ~e.stale)
  /\ j.at # "idle" => Fits(s, j.on) /\ ~j.on.stale
  /\ j.at \in {"checked", "drop"} => j.on.of # IntDir
  /\ j.at = "checked" => j.on.reg
  /\ j.at = "drop" => ~s[j.on.of].tree
  /\ w = "gc" /\ j.at = "verified" /\ ~j.on.reg /\ j.on.of # IntDir =>
       s[j.on.of].commits \subseteq T
  /\ w = "gc" /\ j.at = "checked" =>
       /\ s[j.on.of].commits \subseteq T \cup IF j.live THEN {j.on.of} ELSE {}
       /\ ~j.live => ~s[j.on.of].worker

IInv ==
  /\ TypeOK
  /\ B > 0 => N > 0
  /\ \A i \in DOMAIN att : Sound(att[i])
  /\ \A w \in Removers : JobFits(att, Target, w, job[w])

-----------------------------------------------------------------------------
(* Attempts over one step. *)

\* What a step may do to attempt i. A branch only grows, unless it is dropped,
\* when HEAD has all of it. Once the path is recorded some things are never
\* undone: a directory or registration that is gone, an attempt or a worker that
\* has ended; and only its worker, in a registered worktree, adds commit i.
Later(i, a, b) ==
  /\ a.branch => /\ a.commits \subseteq b.commits
                 /\ b.branch \/ a.commits \subseteq heads[head]
  /\ a.known => /\ b.known
                /\ ~a.tree => ~b.tree
                /\ ~a.reg => ~b.reg
                /\ ~a.worker => ~b.worker
                /\ b.commits \subseteq a.commits \cup {i}
                /\ ~a.worker \/ ~a.reg => b.commits = a.commits
  /\ a.status # "running" => b.status # "running"

Follows ==
  /\ att' \in Seq(Attempt) /\ Len(att') >= N /\ Len(att') <= MaxAttempts
  /\ \A i \in 1..N : Later(i, att[i], att'[i])
  /\ \A i \in 1..Len(att') : Sound(att'[i])

\* The target branch and the other one lose nothing.
Grows == \A h \in {"target", "away"} : heads[h] \subseteq heads'[h]

\* The attempts are numbered from 1 on.
LEMMA Attempts ==
  ASSUME IInv
  PROVE  /\ att \in Seq(Attempt) /\ N \in Nat /\ N <= MaxAttempts
         /\ DOMAIN att = 1..N /\ MaxAttempts \in Nat
         /\ \A i \in 1..N : att[i] \in Attempt /\ Sound(att[i])
         /\ N > 0 => N \in 1..N
BY GarbageCollectionAssumption DEF IInv, TypeOK, N

\* Nothing happens to an attempt.
LEMMA Same == ASSUME NEW i, NEW a PROVE Later(i, a, a)
BY DEF Later

\* One attempt changes.
LEMMA OneChanges ==
  ASSUME IInv, NEW i \in DOMAIN att, NEW a, Sound(a), Later(i, att[i], a),
         att' = [att EXCEPT ![i] = a]
  PROVE  Follows
<1>1. a \in Attempt
  BY DEF Sound
<1>2. /\ att' \in Seq(Attempt) /\ Len(att') = N /\ att'[i] = a
      /\ \A j \in 1..N : j # i => att'[j] = att[j]
  BY <1>1, Attempts DEF N
<1> QED
  BY <1>2, Same, Attempts DEF Follows

\* All of them may change.
LEMMA AllChange ==
  ASSUME IInv, att' = [i \in DOMAIN att |-> att'[i]],
         \A i \in DOMAIN att : Sound(att'[i]) /\ Later(i, att[i], att'[i])
  PROVE  Follows
<1>1. \A i \in 1..N : att'[i] \in Attempt
  BY Attempts DEF Sound
<1>2. att' \in Seq(Attempt) /\ Len(att') = N
  BY <1>1, Attempts
<1> QED
  BY <1>2, Attempts DEF Follows

\* None changes.
LEMMA NoneChanges ==
  ASSUME IInv, UNCHANGED att
  PROVE  Follows
BY Attempts, Same DEF Follows, N

\* Worktrees that are taken away, pruned, or given up by git, and a branch that
\* is dropped after its directory.
LEMMA Removals ==
  ASSUME NEW i, NEW a, Sound(a)
  PROVE  /\ Sound(NoTree(a)) /\ Later(i, a, NoTree(a)) /\ ~NoTree(a).tree
         /\ Sound(Pruned(a)) /\ Later(i, a, Pruned(a))
         /\ Pruned(a).tree = a.tree
         /\ Sound([a EXCEPT !.reg = FALSE])
         /\ Later(i, a, [a EXCEPT !.reg = FALSE])
         /\ Sound([a EXCEPT !.tree = FALSE])
         /\ Later(i, a, [a EXCEPT !.tree = FALSE])
<1>1. a \in Attempt
  BY DEF Sound
<1>2. Sound(NoTree(a)) /\ Later(i, a, NoTree(a)) /\ ~NoTree(a).tree
  BY <1>1 DEF Sound, Later, NoTree, Attempt
<1>3. Sound(Pruned(a)) /\ Later(i, a, Pruned(a)) /\ Pruned(a).tree = a.tree
  BY <1>1 DEF Sound, Later, Pruned, Attempt
<1>4. Sound([a EXCEPT !.reg = FALSE]) /\ Later(i, a, [a EXCEPT !.reg = FALSE])
  BY <1>1 DEF Sound, Later, Attempt
<1>5. Sound([a EXCEPT !.tree = FALSE]) /\ Later(i, a, [a EXCEPT !.tree = FALSE])
  BY <1>1 DEF Sound, Later, Attempt
<1> QED
  BY <1>2, <1>3, <1>4, <1>5

\* What a remover relies on stays so.
LEMMA JobStays ==
  ASSUME IInv, Follows, Grows, NEW w \in Removers, NEW j,
         JobFits(att, Target, w, j)
  PROVE  JobFits(att', Target', w, j)
<1>1. /\ DOMAIN att' = 1..Len(att') /\ 1..N \subseteq DOMAIN att'
      /\ DOMAIN att = 1..N /\ \A i \in 1..N : Later(i, att[i], att'[i])
  BY Attempts DEF Follows
<1>2. Target \subseteq Target'
  BY DEF Grows, Target
<1>3. ASSUME NEW e, Fits(att, e)
      PROVE  Fits(att', e)
  BY <1>1, <1>3 DEF Fits, Later
<1>4. \A e \in j.todo : Fits(att', e) /\ (w = "stage" => ~e.stale)
  BY <1>3 DEF JobFits
<1>5. j.at # "idle" => Fits(att', j.on) /\ ~j.on.stale
  BY <1>3 DEF JobFits
<1>6. j.at # "idle" /\ j.on.of # IntDir =>
        /\ att[j.on.of].known /\ Later(j.on.of, att[j.on.of], att'[j.on.of])
        /\ ~j.on.reg => ~att[j.on.of].reg
  BY <1>1 DEF JobFits, Fits
<1>7. j.at = "drop" => ~att'[j.on.of].tree
  BY <1>6 DEF JobFits, Later
<1>8. w = "gc" /\ j.at = "verified" /\ ~j.on.reg /\ j.on.of # IntDir =>
        att'[j.on.of].commits \subseteq Target'
  BY <1>2, <1>6 DEF JobFits, Later
<1>9. w = "gc" /\ j.at = "checked" =>
        /\ att'[j.on.of].commits \subseteq
             Target' \cup IF j.live THEN {j.on.of} ELSE {}
        /\ ~j.live => ~att'[j.on.of].worker
  BY <1>2, <1>6 DEF JobFits, Later
<1> QED
  BY <1>4, <1>5, <1>7, <1>8, <1>9 DEF JobFits

\* The type of what is neither an attempt nor a remover's.
RestType ==
  /\ batch \in Seq(Batch) /\ B <= MaxBatches
  /\ head \in {"target", "away"}
  /\ heads \in [{"target", "away"} -> SUBSET Commits]
  /\ hands \in 0..MaxHands

\* A step that removes no entry from anybody's list keeps the invariant,
LEMMA Undisturbed ==
  ASSUME IInv, Follows, Grows, UNCHANGED job, RestType', B' > 0 => N > 0
  PROVE  IInv'
<1>1. N' >= N /\ N \in Nat /\ N' \in Nat /\ DOMAIN att' = 1..N'
  BY Attempts DEF Follows, N
<1>2. TypeOK'
  BY DEF IInv, TypeOK, RestType, Follows, N
<1>3. \A w \in Removers : JobFits(att', Target', w, job[w])
  BY JobStays DEF IInv
<1>4. \A i \in DOMAIN att' : Sound(att'[i])
  BY <1>1 DEF Follows, N
<1> QED
  BY <1>1, <1>2, <1>3, <1>4 DEF IInv

\* and so does one that takes a remover to a place where what it relies on
\* holds.
LEMMA Disturbed ==
  ASSUME IInv, Follows, Grows, RestType', B' > 0 => N > 0,
         NEW w \in Removers, NEW j \in Job, job' = [job EXCEPT ![w] = j],
         JobFits(att', Target', w, j)
  PROVE  IInv'
<1>1. N' >= N /\ N \in Nat /\ N' \in Nat /\ DOMAIN att' = 1..N'
  BY Attempts DEF Follows, N
<1>2. job \in [Removers -> Job]
  BY DEF IInv, TypeOK
<1>3. job' \in [Removers -> Job] /\ job'[w] = j
      /\ \A v \in Removers : v # w => job'[v] = job[v]
  BY <1>2
<1>4. TypeOK'
  BY <1>3 DEF TypeOK, RestType, Follows, N
<1>5. \A v \in Removers : JobFits(att', Target', v, job'[v])
  <2>1. ASSUME NEW v \in Removers PROVE JobFits(att', Target', v, job'[v])
    <3>1. CASE v = w
      BY <1>3, <3>1
    <3>2. CASE v # w
      BY <1>3, <3>2, JobStays DEF IInv
    <3> QED BY <3>1, <3>2
  <2> QED BY <2>1
<1>6. \A i \in DOMAIN att' : Sound(att'[i])
  BY <1>1 DEF Follows, N
<1> QED
  BY <1>1, <1>4, <1>5, <1>6 DEF IInv

-----------------------------------------------------------------------------
(* The scheduler, the workers and the user. *)

LEMMA BeginFollows ==
  ASSUME IInv, Begin
  PROVE  Follows
<1>1. att' = Append(att, NewAttempt) /\ N < MaxAttempts
  BY DEF Begin
<1>2. NewAttempt \in Attempt /\ Sound(NewAttempt)
  BY DEF Sound, NewAttempt, Attempt, Commits
<1>3. /\ att' \in Seq(Attempt) /\ Len(att') = N + 1
      /\ \A i \in 1..N : att'[i] = att[i]
      /\ att'[N + 1] = NewAttempt
  BY <1>1, <1>2, Attempts DEF N
<1>4. N + 1 <= MaxAttempts
  BY <1>1, Attempts
<1>5. \A i \in 1..(N + 1) : i \in 1..N \/ i = N + 1
  BY Attempts
<1> QED
  BY <1>2, <1>3, <1>4, <1>5, Same, Attempts DEF Follows

LEMMA MakeTreeFollows ==
  ASSUME IInv, MakeTree
  PROVE  Follows
<1> DEFINE C == IF N > 1 /\ att[N - 1].branch THEN att[N - 1].commits ELSE {}
           a == [att[N] EXCEPT !.tree = TRUE, !.reg = TRUE, !.branch = TRUE,
                               !.commits = C]
<1>1. N \in DOMAIN att /\ att[N] \in Attempt /\ Sound(att[N])
  BY Attempts DEF MakeTree
<1>2. C \subseteq Commits
  <2>1. CASE N > 1
    <3>1. N - 1 \in 1..N
      BY <2>1, Attempts
    <3> QED BY <3>1, Attempts DEF Attempt
  <2> QED BY <2>1
<1>3. att' = [att EXCEPT ![N] = a]
  BY DEF MakeTree
<1>4. ~att[N].known /\ ~att[N].branch
  BY DEF MakeTree, Latest
<1> HIDE DEF C
<1>5. Sound(a) /\ Later(N, att[N], a)
  BY <1>1, <1>2, <1>4 DEF Sound, Later, Attempt
<1> HIDE DEF a
<1> QED
  BY <1>1, <1>3, <1>5, OneChanges

LEMMA DispatchFollows ==
  ASSUME IInv, Dispatch
  PROVE  Follows
<1> DEFINE a == [att[N] EXCEPT !.known = TRUE, !.worker = TRUE]
<1>1. N \in DOMAIN att /\ att[N] \in Attempt /\ Sound(att[N])
  BY Attempts DEF Dispatch
<1>2. att' = [att EXCEPT ![N] = a] /\ ~att[N].known
  BY DEF Dispatch, Latest
<1>3. Sound(a) /\ Later(N, att[N], a)
  BY <1>1, <1>2 DEF Sound, Later, Attempt
<1> HIDE DEF a
<1> QED
  BY <1>1, <1>2, <1>3, OneChanges

LEMMA AttemptEndsFollows ==
  ASSUME IInv, AttemptEnds
  PROVE  Follows
<1>1. PICK status \in {"approved", "failed"} :
        att' = [att EXCEPT ![N] = [@ EXCEPT !.status = status,
                                            !.worker = FALSE]]
  BY DEF AttemptEnds
<1> DEFINE a == [att[N] EXCEPT !.status = status, !.worker = FALSE]
<1>2. N \in DOMAIN att /\ att[N] \in Attempt /\ Sound(att[N])
  BY Attempts DEF AttemptEnds
<1>3. att' = [att EXCEPT ![N] = a]
  BY <1>1
<1>4. Sound(a) /\ Later(N, att[N], a)
  BY <1>2 DEF Sound, Later, Attempt
<1> HIDE DEF a
<1> QED
  BY <1>2, <1>3, <1>4, OneChanges

\* A step that only sets the status of the latest attempt.
LEMMA StatusFollows ==
  ASSUME IInv, N > 0,
         NEW status \in {"worker_completed", "approved", "failed",
                         "interrupted"},
         att' = [att EXCEPT ![N].status = status]
  PROVE  Follows
<1> DEFINE a == [att[N] EXCEPT !.status = status]
<1>1. N \in DOMAIN att /\ att[N] \in Attempt /\ Sound(att[N])
  BY Attempts
<1>2. att' = [att EXCEPT ![N] = a]
  OBVIOUS
<1>3. Sound(a) /\ Later(N, att[N], a)
  BY <1>1 DEF Sound, Later, Attempt
<1> HIDE DEF a
<1> QED
  BY <1>1, <1>2, <1>3, OneChanges

LEMMA WorkerFollows ==
  ASSUME IInv, NEW i \in DOMAIN att, Edit(i) \/ Commit(i) \/ WorkerEnds(i)
  PROVE  Follows
<1>1. att[i] \in Attempt /\ Sound(att[i]) /\ i \in Commits
  BY Attempts DEF Commits
<1>2. CASE Edit(i)
  <2> DEFINE a == [att[i] EXCEPT !.dirty = TRUE]
  <2>1. att' = [att EXCEPT ![i] = a]
    BY <1>2 DEF Edit
  <2>2. Sound(a) /\ Later(i, att[i], a)
    BY <1>1 DEF Sound, Later, Attempt
  <2> HIDE DEF a
  <2> QED BY <2>1, <2>2, OneChanges
<1>3. CASE Commit(i)
  <2> DEFINE a == [att[i] EXCEPT !.dirty = FALSE,
                                 !.commits = att[i].commits \cup {i}]
  <2>1. att' = [att EXCEPT ![i] = a] /\ att[i].worker /\ att[i].reg
    BY <1>3 DEF Commit
  <2>2. Sound(a) /\ Later(i, att[i], a)
    BY <1>1, <2>1 DEF Sound, Later, Attempt
  <2> HIDE DEF a
  <2> QED BY <2>1, <2>2, OneChanges
<1>4. CASE WorkerEnds(i)
  <2> DEFINE a == [att[i] EXCEPT !.worker = FALSE]
  <2>1. att' = [att EXCEPT ![i] = a]
    BY <1>4 DEF WorkerEnds
  <2>2. Sound(a) /\ Later(i, att[i], a)
    BY <1>1 DEF Sound, Later, Attempt
  <2> HIDE DEF a
  <2> QED BY <2>1, <2>2, OneChanges
<1> QED
  BY <1>2, <1>3, <1>4

LEMMA UserFollows ==
  ASSUME IInv, NEW i \in DOMAIN att, Abandon(i) \/ RemoveDir(i)
  PROVE  Follows
<1> DEFINE a == [att[i] EXCEPT !.reg = FALSE]
           b == [att[i] EXCEPT !.tree = FALSE]
<1>1. /\ Sound(a) /\ Later(i, att[i], a)
      /\ Sound(b) /\ Later(i, att[i], b)
  BY Attempts, Removals
<1>2. att' = [att EXCEPT ![i] = a] \/ att' = [att EXCEPT ![i] = b]
  BY DEF Abandon, RemoveDir
<1> HIDE DEF a, b
<1> QED
  BY <1>1, <1>2, OneChanges

\* The batches, over a step that changes the newest one.
LEMMA BatchChanges ==
  ASSUME IInv, B > 0, NEW b \in Batch, batch' = [batch EXCEPT ![B] = b]
  PROVE  batch' \in Seq(Batch) /\ B' = B
BY DEF IInv, TypeOK, B

\* A step that leaves attempts, HEAD and removers alone.
LEMMA BatchKeeps ==
  ASSUME IInv, batch' \in Seq(Batch), Len(batch') <= MaxBatches, N > 0,
         UNCHANGED att, Keep
  PROVE  Follows /\ Grows /\ IInv'
<1>1. Follows /\ Grows
  BY NoneChanges DEF Keep, Grows
<1>2. RestType' /\ UNCHANGED job
  BY DEF IInv, TypeOK, RestType, B, Keep
<1> QED
  BY <1>1, <1>2, Undisturbed

\* What the scheduler does on attempts and batches.
LEMMA ScheduleKeeps ==
  ASSUME IInv,
         \/ Begin \/ MakeTree \/ Dispatch \/ AttemptEnds \/ Interrupt
         \/ Adopt \/ Review \/ OpenBatch \/ BuildBatch \/ RefuseBatch
         \/ MergeBatch
  PROVE  Follows /\ Grows /\ IInv'
<1>1. RestType /\ batch \in Seq(Batch) /\ B \in Nat /\ (B > 0 => N > 0)
  BY DEF IInv, TypeOK, RestType, B
<1>2. B > 0 => batch[B] \in Batch
  BY <1>1 DEF B
<1>3. ASSUME Begin \/ MakeTree \/ Dispatch \/ AttemptEnds \/ Interrupt
             \/ Adopt \/ Review
      PROVE  Follows /\ Grows /\ IInv'
  <2>1. Follows
    BY <1>3, BeginFollows, MakeTreeFollows, DispatchFollows,
       AttemptEndsFollows, StatusFollows
       DEF Interrupt, Adopt, Review
  <2>2. UNCHANGED <<batch, head, heads, job, hands>>
    BY <1>3 DEF Begin, MakeTree, Dispatch, AttemptEnds, Interrupt, Adopt,
       Review, Keep
  <2>3. RestType' /\ Grows /\ B' = B
    BY <1>1, <2>2 DEF RestType, Grows, B
  <2> QED BY <1>1, <2>1, <2>2, <2>3, Undisturbed
<1>4. CASE OpenBatch
  <2> DEFINE b == [status |-> "pending", tree |-> FALSE,
                   branch |-> FALSE, commits |-> {}]
  <2>1. b \in Batch
    BY DEF Batch
  <2>2. batch' = Append(batch, b) /\ B < MaxBatches /\ N > 0
        /\ UNCHANGED att /\ Keep
    BY <1>4 DEF OpenBatch
  <2> HIDE DEF b
  <2>3. batch' \in Seq(Batch) /\ Len(batch') = B + 1
    BY <1>1, <2>1, <2>2 DEF B
  <2> QED
    BY <1>1, <2>2, <2>3, BatchKeeps, GarbageCollectionAssumption
<1>5. CASE BuildBatch
  <2> DEFINE b == [batch[B] EXCEPT !.tree = TRUE, !.branch = TRUE,
                                   !.commits = Latest.commits]
  <2>1. /\ batch' = [batch EXCEPT ![B] = b] /\ B > 0
        /\ UNCHANGED att /\ Keep
    BY <1>5 DEF BuildBatch, Integrating
  <2>2. Latest.commits \subseteq Commits
    BY <1>1, <2>1, Attempts DEF Latest, Attempt
  <2>3. b \in Batch
    BY <1>2, <2>1, <2>2 DEF Batch
  <2> HIDE DEF b
  <2> QED
    BY <1>1, <2>1, <2>3, BatchKeeps, BatchChanges DEF RestType, B
<1>6. CASE RefuseBatch
  <2>1. PICK status \in Refused :
          batch' = [batch EXCEPT ![B].status = status]
    BY <1>6 DEF RefuseBatch
  <2> DEFINE b == [batch[B] EXCEPT !.status = status]
  <2>2. /\ batch' = [batch EXCEPT ![B] = b] /\ B > 0
        /\ UNCHANGED att /\ Keep
    BY <1>6, <2>1 DEF RefuseBatch, Integrating
  <2>3. b \in Batch
    BY <1>2, <2>2 DEF Batch, Refused
  <2> HIDE DEF b
  <2> QED
    BY <1>1, <2>2, <2>3, BatchKeeps, BatchChanges DEF RestType, B
<1>7. CASE MergeBatch
  <2> DEFINE b == [batch[B] EXCEPT !.status = "completed"]
  <2>1. /\ batch' = [batch EXCEPT ![B] = b] /\ B > 0 /\ head' = "target"
        /\ heads' = [heads EXCEPT !["target"] = @ \cup batch[B].commits]
        /\ UNCHANGED <<att, job, hands>>
    BY <1>7 DEF MergeBatch, Integrating
  <2>2. b \in Batch /\ batch[B].commits \subseteq Commits
    BY <1>2, <2>1 DEF Batch
  <2> HIDE DEF b
  <2>3. batch' \in Seq(Batch) /\ B' = B
    BY <2>1, <2>2, BatchChanges
  <2>4. RestType' /\ Grows
    BY <1>1, <2>1, <2>2, <2>3 DEF RestType, Grows
  <2> QED BY <1>1, <2>1, <2>3, <2>4, NoneChanges, Undisturbed
<1> QED
  BY <1>3, <1>4, <1>5, <1>6, <1>7

\* What the workers and the user do.
LEMMA ElsewhereKeeps ==
  ASSUME IInv, Elsewhere
  PROVE  Follows /\ Grows /\ IInv'
<1>1. RestType /\ MaxHands \in Nat /\ (B > 0 => N > 0)
  BY GarbageCollectionAssumption DEF IInv, TypeOK, RestType
<1>2. CASE CheckOut
  <2>1. RestType' /\ Grows /\ B' = B /\ UNCHANGED <<att, job>>
    BY <1>1, <1>2 DEF CheckOut, Hand, Others, RestType, Grows, B
  <2> QED
    BY <1>1, <2>1, NoneChanges, Undisturbed
<1>3. ASSUME NEW i \in DOMAIN att, Edit(i) \/ Commit(i) \/ WorkerEnds(i)
      PROVE  Follows /\ Grows /\ IInv'
  <2>1. UNCHANGED <<batch, job, head, heads, hands>>
    BY <1>3 DEF Edit, Commit, WorkerEnds, Others, Outside
  <2>2. RestType' /\ Grows /\ B' = B
    BY <1>1, <2>1 DEF RestType, Grows, B
  <2> QED BY <1>1, <1>3, <2>1, <2>2, WorkerFollows, Undisturbed
<1>4. ASSUME NEW i \in DOMAIN att, Abandon(i) \/ RemoveDir(i)
      PROVE  Follows /\ Grows /\ IInv'
  <2>1. UNCHANGED <<batch, job, head, heads>> /\ hands < MaxHands
        /\ hands' = hands + 1
    BY <1>4 DEF Abandon, RemoveDir, Hand, Others
  <2>2. RestType' /\ Grows /\ B' = B
    BY <1>1, <2>1 DEF RestType, Grows, B
  <2> QED BY <1>1, <1>4, <2>1, <2>2, UserFollows, Undisturbed
<1>5. ASSUME NEW i \in DOMAIN att, UserMerges(i)
      PROVE  Follows /\ Grows /\ IInv'
  <2>1. /\ UNCHANGED <<batch, job, head, att>> /\ hands < MaxHands
        /\ hands' = hands + 1
        /\ heads' = [heads EXCEPT ![head] = @ \cup att[i].commits]
    BY <1>5 DEF UserMerges, Hand, Others
  <2>2. att[i].commits \subseteq Commits
    BY Attempts DEF Attempt
  <2>3. RestType' /\ Grows /\ B' = B
    BY <1>1, <2>1, <2>2 DEF RestType, Grows, B
  <2> QED BY <1>1, <2>1, <2>3, NoneChanges, Undisturbed
<1> QED
  BY <1>2, <1>3, <1>4, <1>5 DEF Elsewhere

-----------------------------------------------------------------------------
(* The collector and the scheduler's cleanup. *)

\* The shape of what a remover has in hand.
LEMMA Jobs ==
  ASSUME IInv, NEW w \in Removers
  PROVE  /\ job[w] \in Job /\ JobFits(att, Target, w, job[w])
         /\ job = [job EXCEPT ![w] = job[w]]
         /\ Tries \in Nat /\ Tries > 0
         /\ RestType /\ (B > 0 => N > 0)
<1>1. job \in [Removers -> Job]
  BY DEF IInv, TypeOK
<1> QED
  BY <1>1, GarbageCollectionAssumption DEF IInv, TypeOK, RestType

\* An idle one may have any list.
LEMMA IdleJob ==
  ASSUME NEW L \in SUBSET Entry
  PROVE  Nothing \in Entry /\ Idle \in Job /\ [Idle EXCEPT !.todo = L] \in Job
<1>1. 0 \in 0..MaxAttempts /\ 0 \in 0..Tries
  BY GarbageCollectionAssumption
<1>2. Nothing \in Entry
  BY <1>1 DEF Nothing, Entry, IntDir
<1> HIDE DEF Nothing
<1> QED
  BY <1>1, <1>2 DEF Idle, Job

\* The entry a remover is at, when it is an attempt's.
LEMMA OnAttempt ==
  ASSUME IInv, NEW w \in Removers, job[w].at # "idle", job[w].on.of # IntDir
  PROVE  /\ job[w].on.of \in DOMAIN att /\ Tree(w) = att[job[w].on.of]
         /\ Tree(w) \in Attempt /\ Sound(Tree(w)) /\ Tree(w).known
         /\ Tree(w).status # "running"
BY Jobs, Attempts DEF JobFits, Fits, Tree

LEMMA Quiet ==
  ASSUME IInv, UNCHANGED batch, Outside
  PROVE  Grows /\ RestType' /\ (B' > 0 => N > 0) /\ Target' = Target
BY DEF IInv, TypeOK, RestType, Outside, Grows, Target, B

LEMMA TreeGoneFollows ==
  ASSUME IInv, NEW w \in Removers, TreeGone(w),
         job[w].at # "idle", job[w].on.of # IntDir
  PROVE  Follows /\ ~att'[job[w].on.of].tree
<1>1. job[w].on.of \in DOMAIN att
  BY OnAttempt
<1>2. /\ att' = [i \in DOMAIN att |-> att'[i]]
      /\ att'[job[w].on.of] = NoTree(att[job[w].on.of])
      /\ \A i \in DOMAIN att : att'[i] \in {NoTree(att[i]), Pruned(att[i])}
  BY <1>1 DEF TreeGone
<1>3. \A i \in DOMAIN att :
        /\ Sound(NoTree(att[i])) /\ Later(i, att[i], NoTree(att[i]))
        /\ ~NoTree(att[i]).tree
        /\ Sound(Pruned(att[i])) /\ Later(i, att[i], Pruned(att[i]))
  BY Attempts, Removals
<1>4. \A i \in DOMAIN att : Sound(att'[i]) /\ Later(i, att[i], att'[i])
  BY <1>2, <1>3
<1> QED
  BY <1>1, <1>2, <1>3, <1>4, AllChange

LEMMA PrunesFollows ==
  ASSUME IInv, Prunes
  PROVE  Follows /\ \A i \in DOMAIN att : att'[i].tree = att[i].tree
<1>1. /\ att' = [i \in DOMAIN att |-> att'[i]]
      /\ \A i \in DOMAIN att : att'[i] = Pruned(att[i])
  BY DEF Prunes
<1>2. \A i \in DOMAIN att :
        /\ Sound(Pruned(att[i])) /\ Later(i, att[i], Pruned(att[i]))
        /\ Pruned(att[i]).tree = att[i].tree
  BY Attempts, Removals
<1> QED
  BY <1>1, <1>2, AllChange

\* A remover is done with an entry,
LEMMA EntryOverKeeps ==
  ASSUME IInv, Follows, Grows, RestType', B' > 0 => N > 0,
         NEW w \in Removers, EntryOver(w)
  PROVE  IInv'
<1> DEFINE j == [Idle EXCEPT !.todo = job[w].todo]
<1>1. job[w].todo \in SUBSET Entry
  BY Jobs DEF Job
<1>4. j \in Job /\ job' = [job EXCEPT ![w] = j]
  BY <1>1, IdleJob DEF EntryOver
<1>2. JobFits(att', Target', w, job[w])
  BY Jobs, JobStays
<1>3. JobFits(att', Target', w, j)
  BY <1>2 DEF JobFits, Idle
<1> HIDE DEF j
<1> QED
  BY <1>3, <1>4, Disturbed

\* or has got rid of the directory,
LEMMA DropKeeps ==
  ASSUME IInv, Follows, Grows, RestType', B' > 0 => N > 0,
         NEW w \in Removers, Go(w, "drop"), job[w].at # "idle",
         job[w].on.of # IntDir, ~att'[job[w].on.of].tree
  PROVE  IInv'
<1> DEFINE j == [job[w] EXCEPT !.at = "drop"]
<1>1. job[w] \in Job
  BY Jobs
<1>2. j \in Job /\ job' = [job EXCEPT ![w] = j]
  BY <1>1 DEF Go, Job
<1>3. JobFits(att', Target', w, job[w])
  BY Jobs, JobStays
<1>4. JobFits(att', Target', w, j)
  BY <1>1, <1>3 DEF JobFits, Job
<1> HIDE DEF j
<1> QED
  BY <1>2, <1>4, Disturbed

\* or has tried in vain.
LEMMA TriedKeeps ==
  ASSUME IInv, Follows, Grows, RestType', B' > 0 => N > 0,
         NEW w \in Removers, Trying(w), TriedAgain(w)
  PROVE  IInv'
<1> DEFINE j == [job[w] EXCEPT !.tries = job[w].tries + 1]
<1>1. job[w] \in Job /\ Tries \in Nat
  BY Jobs
<1>2. j \in Job /\ job' = [job EXCEPT ![w] = j]
  BY <1>1 DEF Trying, TriedAgain, Job
<1>3. JobFits(att', Target', w, job[w])
  BY Jobs, JobStays
<1>4. JobFits(att', Target', w, j)
  BY <1>1, <1>3 DEF JobFits, Job
<1> HIDE DEF j
<1> QED
  BY <1>2, <1>4, Disturbed

LEMMA InventoryKeeps ==
  ASSUME IInv, Inventory
  PROVE  Follows /\ Grows /\ IInv'
<1>1. Follows /\ Grows /\ RestType' /\ (B' > 0 => N > 0) /\ UNCHANGED att
  BY NoneChanges, Quiet DEF Inventory
<1> DEFINE j == [Idle EXCEPT !.todo = Listed]
<1>2. ASSUME NEW e \in Listed
      PROVE  e \in Entry /\ Fits(att, e)
  <2>1. CASE e = [of |-> IntDir, reg |-> FALSE, stale |-> FALSE]
    BY <2>1, IdleJob DEF Nothing, Fits
  <2>2. ASSUME NEW i \in DOMAIN att, SafeAttempt(att[i]) \/ Stale(att[i]),
               e = [of |-> i, reg |-> att[i].reg, stale |-> Stale(att[i])]
        PROVE  e \in Entry /\ Fits(att, e)
    <3>1. /\ i \in 1..MaxAttempts /\ att[i] \in Attempt /\ i # IntDir
          /\ i \in 0..MaxAttempts
      BY <2>2, Attempts DEF IntDir
    <3>2. Stale(att[i]) \in BOOLEAN /\ att[i].reg \in BOOLEAN
      BY <3>1 DEF Stale, Attempt
    <3>3. e \in Entry
      BY <2>2, <3>1, <3>2 DEF Entry
    <3>4. att[i].known
      BY <2>2 DEF SafeAttempt, Stale
    <3>5. ~Stale(att[i]) => att[i].status # "running"
      BY <2>2 DEF SafeAttempt, Ended
    <3> QED
      BY <2>2, <3>1, <3>3, <3>4, <3>5 DEF Fits
  <2> QED BY <2>1, <2>2 DEF Listed
<1>3. "gc" \in Removers /\ j \in Job
  BY <1>2, IdleJob DEF Removers
<1>4. job' = [job EXCEPT !["gc"] = j]
  BY DEF Inventory
<1>5. JobFits(att', Target', "gc", j)
  BY <1>1, <1>2 DEF JobFits, Idle
<1> HIDE DEF j
<1> QED
  BY <1>1, <1>3, <1>4, <1>5, Disturbed

\* A remover takes an entry of its list and goes on to `at'.
LEMMA TakeKeeps ==
  ASSUME IInv, Follows, Grows, RestType', B' > 0 => N > 0,
         NEW w \in Removers, NEW e \in job[w].todo, job[w].at = "idle",
         NEW j,
         \/ j = Past(w, e)
         \/ /\ j = [Past(w, e) EXCEPT !.on = e, !.at = "verified"]
            /\ ~e.stale
            /\ w = "gc" /\ ~e.reg /\ e.of # IntDir =>
                 att[e.of].commits \subseteq Target /\ UNCHANGED <<att, heads>>,
         job' = [job EXCEPT ![w] = j]
  PROVE  IInv'
<1>1. job[w] \in Job /\ e \in Entry
  BY Jobs DEF Job
<1>2. j \in Job
  <2>1. Past(w, e) \in Job
    BY <1>1 DEF Job, Past
  <2>2. [Past(w, e) EXCEPT !.on = e, !.at = "verified"] \in Job
    BY <1>1, <2>1 DEF Job
  <2> QED BY <2>1, <2>2
<1>3. JobFits(att', Target', w, job[w])
  BY Jobs, JobStays
<1>4. JobFits(att', Target', w, j)
  <2>1. CASE j = Past(w, e)
    BY <1>1, <1>3, <2>1 DEF JobFits, Job, Past
  <2>2. CASE /\ j = [Past(w, e) EXCEPT !.on = e, !.at = "verified"]
             /\ ~e.stale
             /\ w = "gc" /\ ~e.reg /\ e.of # IntDir =>
                  att[e.of].commits \subseteq Target /\ UNCHANGED <<att, heads>>
    <3>1. /\ j.todo = job[w].todo \ {e} /\ j.on = e /\ j.at = "verified"
      BY <1>1, <2>2 DEF Job, Past
    <3>2. w = "gc" /\ ~e.reg /\ e.of # IntDir =>
            att'[e.of].commits \subseteq Target'
      BY <2>2 DEF Target
    <3> QED BY <1>3, <2>2, <3>1, <3>2 DEF JobFits
  <2> QED BY <2>1, <2>2
<1> QED
  BY <1>2, <1>4, Disturbed

LEMMA ReverifyKeeps ==
  ASSUME IInv, NEW e \in job["gc"].todo, Reverify(e)
  PROVE  Follows /\ Grows /\ IInv'
<1>1. Follows /\ Grows /\ RestType' /\ (B' > 0 => N > 0)
  BY NoneChanges, Quiet DEF Reverify, Takes
<1>2. "gc" \in Removers /\ job["gc"].at = "idle" /\ ~e.stale
      /\ UNCHANGED <<att, heads>>
  BY DEF Reverify, Takes, Removers, Outside
<1>3. Fits(att, e)
  BY <1>2, Jobs DEF JobFits
<1>4. e.of # IntDir /\ Reverified(e) => att[e.of].commits \subseteq Target
  BY <1>3, Attempts DEF Fits, Reverified, Merged, Sound, Target
<1>5. CASE Reverified(e)
  <2> DEFINE j == [Past("gc", e) EXCEPT !.on = e, !.at = "verified"]
  <2>1. job' = [job EXCEPT !["gc"] = j]
    BY <1>5 DEF Reverify
  <2> QED
    BY <1>1, <1>2, <1>4, <1>5, <2>1, TakeKeeps
<1>6. CASE ~Reverified(e)
  <2> DEFINE j == Past("gc", e)
  <2>1. job' = [job EXCEPT !["gc"] = j]
    BY <1>6 DEF Reverify
  <2> QED
    BY <1>1, <1>2, <2>1, TakeKeeps
<1> QED
  BY <1>5, <1>6

LEMMA PruneKeeps ==
  ASSUME IInv, NEW e \in job["gc"].todo, Prune(e)
  PROVE  Follows /\ Grows /\ IInv'
<1>1. Follows /\ Grows /\ RestType' /\ (B' > 0 => N > 0)
  BY PrunesFollows, Quiet DEF Prune, Takes
<1> DEFINE j == Past("gc", e)
<1>2. /\ job' = [job EXCEPT !["gc"] = j]
      /\ "gc" \in Removers /\ job["gc"].at = "idle"
  BY Jobs DEF Prune, Takes, Removers
<1> QED
  BY <1>1, <1>2, TakeKeeps

LEMMA TakeUpKeeps ==
  ASSUME IInv, NEW e \in job["stage"].todo, TakeUp(e)
  PROVE  Follows /\ Grows /\ IInv'
<1>1. Follows /\ Grows /\ RestType' /\ (B' > 0 => N > 0)
  BY NoneChanges, Quiet DEF TakeUp, Takes
<1> DEFINE j == [Past("stage", e) EXCEPT !.on = e, !.at = "verified"]
<1>2. /\ job' = [job EXCEPT !["stage"] = j]
      /\ job["stage"].at = "idle"
  BY DEF TakeUp, Takes
<1>3. "stage" \in Removers
  BY DEF Removers
<1>4. ~e.stale
  BY <1>2, <1>3, Jobs DEF JobFits
<1> QED
  BY <1>1, <1>2, <1>3, <1>4, TakeKeeps

LEMMA StageCleansKeeps ==
  ASSUME IInv, StageCleans
  PROVE  Follows /\ Grows /\ IInv'
<1> DEFINE L == {[of |-> i, reg |-> TRUE, stale |-> FALSE] :
                   i \in {k \in DOMAIN att : att[k].known /\ Ended(att[k])}}
           j == [Idle EXCEPT !.todo = L]
           b == IF batch[B].commits \subseteq heads[head]
                THEN WithoutTree(batch[B]) ELSE batch[B]
<1>1. Follows /\ B > 0 /\ RestType /\ UNCHANGED <<att, head, heads, hands>>
      /\ (B > 0 => N > 0)
  BY NoneChanges, Jobs DEF StageCleans, Done, Outside, Removers
<1>2. ASSUME NEW e \in L
      PROVE  e \in Entry /\ Fits(att, e) /\ ~e.stale
  <2>1. PICK i \in DOMAIN att :
          /\ att[i].known /\ Ended(att[i])
          /\ e = [of |-> i, reg |-> TRUE, stale |-> FALSE]
    BY <1>2
  <2>2. i \in 0..MaxAttempts /\ i # IntDir
    BY <2>1, Attempts DEF IntDir
  <2> QED BY <2>1, <2>2 DEF Entry, Fits, Ended
<1>3. job' = [job EXCEPT !["stage"] = j]
  BY DEF StageCleans
<1>4. j \in Job /\ "stage" \in Removers
  BY <1>2, IdleJob DEF Removers
<1>5. JobFits(att', Target', "stage", j)
  BY <1>1, <1>2 DEF JobFits, Idle
<1>6. batch' = [batch EXCEPT ![B] = b]
  BY DEF StageCleans
<1>7. batch[B] \in Batch
  BY <1>1 DEF RestType, B
<1>8. b \in Batch
  BY <1>7 DEF WithoutTree, Batch
<1> HIDE DEF b, j, L
<1>9. batch' \in Seq(Batch) /\ B' = B
  BY <1>1, <1>6, <1>8, BatchChanges
<1>10. Grows /\ RestType' /\ (B' > 0 => N > 0)
  BY <1>1, <1>9 DEF Grows, RestType
<1> QED
  BY <1>1, <1>3, <1>4, <1>5, <1>10, Disturbed

LEMMA CheckKeeps ==
  ASSUME IInv, NEW w \in Removers, Check(w)
  PROVE  Follows /\ Grows /\ IInv'
<1>1. Grows /\ RestType' /\ (B' > 0 => N > 0) /\ Target' = Target
  BY Quiet DEF Check
<1>2. /\ job[w].at = "verified" /\ job[w].on.reg /\ job[w] \in Job
      /\ job[w].on.of # IntDir
  BY Jobs DEF Check, JobFits, Fits
<1>3. Tree(w) = att[job[w].on.of] /\ Sound(Tree(w)) /\ Tree(w) \in Attempt
      /\ job[w].on.of \in DOMAIN att
  BY <1>2, OnAttempt
<1>4. CASE EntryOver(w) /\ UNCHANGED att
  BY <1>1, <1>4, NoneChanges, EntryOverKeeps
<1>5. CASE Go(w, "drop") /\ Prunes /\ ~Tree(w).tree
  BY <1>1, <1>2, <1>3, <1>5, PrunesFollows, DropKeeps
<1>6. CASE /\ job' = [job EXCEPT ![w] = [@ EXCEPT !.at = "checked",
                                                  !.live = Tree(w).worker]]
           /\ UNCHANGED att /\ Tree(w).tree /\ Merged(Tree(w), Ref(w))
  <2> DEFINE j == [job[w] EXCEPT !.at = "checked", !.live = Tree(w).worker]
  <2>1. /\ job' = [job EXCEPT ![w] = j] /\ j \in Job /\ Follows
        /\ j.at = "checked" /\ j.live = Tree(w).worker
        /\ j.on = job[w].on /\ j.todo = job[w].todo
    BY <1>2, <1>3, <1>6, NoneChanges DEF Job, Attempt
  <2>2. JobFits(att', Target', w, job[w])
    BY <1>1, <2>1, Jobs, JobStays
  <2>3. w = "gc" => Tree(w).commits \subseteq Target
    BY <1>3, <1>6 DEF Merged, Ref, Sound, Target
  <2>4. JobFits(att', Target', w, j)
    BY <1>1, <1>2, <1>3, <1>6, <2>1, <2>2, <2>3 DEF JobFits
  <2> HIDE DEF j
  <2> QED
    BY <1>1, <2>1, <2>4, Disturbed
<1>7. \/ EntryOver(w) /\ UNCHANGED att
      \/ Go(w, "drop") /\ Prunes /\ ~Tree(w).tree
      \/ /\ job' = [job EXCEPT ![w] = [@ EXCEPT !.at = "checked",
                                                !.live = Tree(w).worker]]
         /\ UNCHANGED att /\ Tree(w).tree /\ Merged(Tree(w), Ref(w))
  BY DEF Check
<1> QED
  BY <1>4, <1>5, <1>6, <1>7

LEMMA TryKeeps ==
  ASSUME IInv, NEW w \in Removers, Remove(w) \/ Refuse(w) \/ HalfRemove(w)
  PROVE  Follows /\ Grows /\ IInv'
<1>1. /\ job[w].at = "checked" /\ job[w].on.of # IntDir /\ Trying(w)
      /\ UNCHANGED batch
  BY Jobs DEF Remove, Refuse, HalfRemove, Trying, JobFits
<1>2. Tree(w) = att[job[w].on.of] /\ job[w].on.of \in DOMAIN att
  BY <1>1, OnAttempt
<1>3. CASE Remove(w)
  <2>1. Follows /\ ~att'[job[w].on.of].tree
    BY <1>1, <1>3, TreeGoneFollows DEF Remove
  <2>2. Grows /\ RestType' /\ (B' > 0 => N > 0)
    BY <1>1, <1>3, Quiet DEF Remove
  <2> QED
    BY <1>1, <1>3, <2>1, <2>2, DropKeeps DEF Remove
<1>4. CASE Refuse(w)
  BY <1>1, <1>4, NoneChanges, Quiet, TriedKeeps DEF Refuse
<1>5. CASE HalfRemove(w)
  <2> DEFINE a == [att[job[w].on.of] EXCEPT !.reg = FALSE]
  <2>1. Sound(a) /\ Later(job[w].on.of, att[job[w].on.of], a)
    BY <1>2, Attempts, Removals
  <2>2. att' = [att EXCEPT ![job[w].on.of] = a]
    BY <1>5 DEF HalfRemove
  <2> HIDE DEF a
  <2>3. Follows
    BY <1>2, <2>1, <2>2, OneChanges
  <2>4. /\ UNCHANGED <<batch, head, heads>> /\ TriedAgain(w)
        /\ hands < MaxHands /\ hands' = hands + 1
    BY <1>1, <1>5 DEF HalfRemove
  <2>5. Grows /\ RestType' /\ (B' > 0 => N > 0)
    BY <2>4, Jobs, GarbageCollectionAssumption DEF Grows, RestType, B
  <2> QED
    BY <1>1, <2>3, <2>4, <2>5, TriedKeeps
<1> QED
  BY <1>3, <1>4, <1>5

LEMMA LeftoverKeeps ==
  ASSUME IInv, NEW w \in Removers, Leftover(w)
  PROVE  Follows /\ Grows /\ IInv'
<1>1. /\ job[w].at = "checked" /\ job[w].on.of # IntDir
      /\ Grows /\ RestType' /\ (B' > 0 => N > 0)
  BY Jobs, Quiet DEF Leftover, JobFits
<1>2. CASE EntryOver(w) /\ Prunes
  BY <1>1, <1>2, PrunesFollows, EntryOverKeeps
<1>3. CASE Go(w, "drop") /\ TreeGone(w)
  BY <1>1, <1>3, TreeGoneFollows, DropKeeps
<1> QED
  BY <1>2, <1>3 DEF Leftover

LEMMA DropBranchKeeps ==
  ASSUME IInv, NEW w \in Removers, DropBranch(w)
  PROVE  Follows /\ Grows /\ IInv'
<1>1. /\ job[w].at = "drop" /\ job[w].on.of # IntDir /\ EntryOver(w)
      /\ ~att[job[w].on.of].tree
      /\ Grows /\ RestType' /\ (B' > 0 => N > 0)
  BY Jobs, Quiet DEF DropBranch, JobFits
<1>2. /\ job[w].on.of \in DOMAIN att /\ Tree(w) = att[job[w].on.of]
      /\ Tree(w) \in Attempt /\ Sound(Tree(w))
  BY <1>1, OnAttempt
<1> DEFINE x == /\ Tree(w).branch
                /\ ~(/\ Deletable(Tree(w))
                     /\ job[w].on.reg \/ Merged(Tree(w), "target"))
           a == [Tree(w) EXCEPT !.branch = x]
<1>3. att' = [att EXCEPT ![job[w].on.of] = a]
  BY <1>2 DEF DropBranch
<1>4. /\ x \in BOOLEAN
      /\ Tree(w).branch /\ ~x => Tree(w).commits \subseteq heads[head]
  BY DEF Deletable
<1> HIDE DEF x
<1>5. Sound(a) /\ Later(job[w].on.of, Tree(w), a)
  BY <1>1, <1>2, <1>4 DEF Sound, Later, Attempt
<1> HIDE DEF a
<1>6. Follows
  BY <1>2, <1>3, <1>5, OneChanges
<1> QED
  BY <1>1, <1>6, EntryOverKeeps

LEMMA StopKeeps ==
  ASSUME IInv, NEW w \in Removers, GiveUp(w) \/ Die(w)
  PROVE  Follows /\ Grows /\ IInv'
<1>1. Follows /\ Grows /\ RestType' /\ (B' > 0 => N > 0)
  BY NoneChanges, Quiet DEF GiveUp, Die
<1>2. CASE GiveUp(w)
  BY <1>1, <1>2, EntryOverKeeps DEF GiveUp
<1>3. CASE Die(w)
  <2>1. Idle \in Job
    BY IdleJob
  <2>2. JobFits(att', Target', w, Idle)
    BY DEF JobFits, Idle
  <2>3. job' = [job EXCEPT ![w] = Idle]
    BY <1>3 DEF Die
  <2> QED
    BY <1>1, <2>1, <2>2, <2>3, Disturbed
<1> QED
  BY <1>2, <1>3

LEMMA RecycleKeeps ==
  ASSUME IInv, Recycle
  PROVE  Follows /\ Grows /\ IInv'
<1>1. /\ "gc" \in Removers /\ job["gc"].at = "verified"
      /\ RestType /\ (B > 0 => N > 0) /\ UNCHANGED <<head, heads, hands>>
  BY Jobs DEF Recycle, Removers, Outside
<1>2. CASE job["gc"].on.of = IntDir
  <2>1. /\ batch' = [j \in DOMAIN batch |-> [batch[j] EXCEPT !.tree = FALSE]]
        /\ EntryOver("gc") /\ UNCHANGED att
    BY <1>2 DEF Recycle
  <2>2. ASSUME NEW j \in DOMAIN batch
        PROVE  [batch[j] EXCEPT !.tree = FALSE] \in Batch
    <3>1. batch[j] \in Batch
      BY <1>1 DEF RestType
    <3> QED BY <3>1 DEF Batch
  <2>3. batch' \in Seq(Batch) /\ B' = B
    BY <1>1, <2>1, <2>2 DEF RestType, B
  <2>4. Grows /\ RestType' /\ (B' > 0 => N > 0)
    BY <1>1, <2>3 DEF Grows, RestType
  <2> QED
    BY <1>1, <2>1, <2>4, NoneChanges, EntryOverKeeps
<1>3. CASE job["gc"].on.of # IntDir
  <2>1. /\ att' = [att EXCEPT ![job["gc"].on.of] = NoTree(@)]
        /\ Go("gc", "drop") /\ UNCHANGED batch /\ Outside
    BY <1>3 DEF Recycle
  <2>2. job["gc"].on.of \in DOMAIN att
    BY <1>1, <1>3, OnAttempt
  <2> DEFINE a == NoTree(att[job["gc"].on.of])
  <2>3. Sound(a) /\ Later(job["gc"].on.of, att[job["gc"].on.of], a) /\ ~a.tree
    BY <2>2, Attempts, Removals
  <2>4. att' = [att EXCEPT ![job["gc"].on.of] = a]
    BY <2>1
  <2> HIDE DEF a
  <2>5. Follows /\ ~att'[job["gc"].on.of].tree
    BY <2>2, <2>3, <2>4, OneChanges
  <2> QED
    BY <1>1, <1>3, <2>1, <2>5, Quiet, DropKeeps
<1> QED
  BY <1>2, <1>3

-----------------------------------------------------------------------------
(* The theorems. *)

LEMMA InitKeeps ==
  ASSUME Init
  PROVE  IInv
<1>1. /\ N = 0 /\ B = 0 /\ att \in Seq(Attempt) /\ batch \in Seq(Batch)
      /\ DOMAIN att = {}
  BY DEF Init, N, B
<1>3. Idle \in Job
  BY IdleJob
<1>4. \A w \in Removers : job[w] = Idle
  BY DEF Init
<1>5. \A w \in Removers : JobFits(att, Target, w, job[w])
  BY <1>4 DEF JobFits, Idle
<1>6. TypeOK
  BY <1>1, <1>3, GarbageCollectionAssumption DEF Init, TypeOK
<1> QED
  BY <1>1, <1>5, <1>6 DEF IInv

LEMMA CleanUpKeeps ==
  ASSUME IInv, NEW w \in Removers, CleanUp(w)
  PROVE  Follows /\ Grows /\ IInv'
BY CheckKeeps, TryKeeps, LeftoverKeeps, DropBranchKeeps, StopKeeps DEF CleanUp

LEMMA NextKeeps ==
  ASSUME IInv, Next
  PROVE  Follows /\ Grows /\ IInv'
<1>1. CASE Collect
  BY <1>1, InventoryKeeps, RecycleKeeps, CleanUpKeeps, ReverifyKeeps,
     PruneKeeps DEF Collect, Removers
<1>2. CASE Schedule
  BY <1>2, ScheduleKeeps, StageCleansKeeps, CleanUpKeeps, TakeUpKeeps
     DEF Schedule, Removers
<1>3. CASE Elsewhere
  BY <1>3, ElsewhereKeeps
<1> QED
  BY <1>1, <1>2, <1>3 DEF Next

LEMMA StepKeeps == IInv /\ [Next]_vars => IInv'
<1>1. CASE UNCHANGED vars
  BY <1>1 DEF vars, IInv, TypeOK, N, B, Target
<1> QED
  BY <1>1, NextKeeps

\* What the collector and the scheduler's cleanup have listed and checked stays
\* what they took it for, for any number of attempts, batches, tries and steps of
\* the user: in the waits between two tries a checked worktree gains at most
\* commits of the worker that was alive at the check.
THEOREM Invariant == Spec => []IInv
BY InitKeeps, StepKeeps, PTL DEF Spec

\* Attempts, batches, branches and what the two removers have in hand keep their
\* types and bounds.
THEOREM TypeCorrect == Spec => []TypeOK
<1>1. IInv => TypeOK
  BY DEF IInv
<1> QED
  BY <1>1, Invariant, PTL

\* A commit on an attempt's branch, the target branch or the other one stays on
\* one of them, as `branch -d' drops a branch only if HEAD has all of it at that
\* moment, whatever has been checked before.
THEOREM NoneLost == Spec => NoCommitLost
<1>1. ASSUME IInv, Next, NEW c \in OnSomeBranch
      PROVE  c \in OnSomeBranch'
  <2>1. Follows /\ Grows
    BY <1>1, NextKeeps
  <2>2. CASE c \in heads["target"] \cup heads["away"]
    BY <2>1, <2>2 DEF Grows, OnSomeBranch
  <2>3. ASSUME NEW i \in DOMAIN att, att[i].branch, c \in att[i].commits
        PROVE  c \in OnSomeBranch'
    <3>1. /\ i \in DOMAIN att' /\ c \in att'[i].commits
          /\ att'[i].branch \/ c \in heads[head]
      BY <1>1, <2>1, <2>3, Attempts DEF Follows, Later
    <3>2. CASE att'[i].branch
      BY <3>1, <3>2 DEF OnSomeBranch
    <3>3. CASE c \in heads[head]
      <4>1. c \in heads'["target"] \cup heads'["away"]
        BY <1>1, <2>1, <3>3 DEF IInv, TypeOK, Grows
      <4> QED BY <4>1 DEF OnSomeBranch
    <3> QED BY <3>1, <3>2, <3>3
  <2> QED BY <1>1, <2>2, <2>3 DEF OnSomeBranch
<1>2. IInv /\ [Next]_vars => [OnSomeBranch \subseteq OnSomeBranch']_vars
  BY <1>1
<1> QED
  BY <1>2, Invariant, PTL DEF Spec, NoCommitLost

\* Only three steps of the collector take a directory: the removal by git, the
\* deletion of what git has given up, and that of an abandoned directory.
LEMMA Takers ==
  ASSUME IInv, Collect, NEW i \in DOMAIN att, Taken(i)
  PROVE  Remove("gc") \/ Leftover("gc") \/ Recycle
<1>1. ~UNCHANGED att /\ ~Prunes
  BY PrunesFollows DEF Taken
<1>2. ~HalfRemove("gc")
  <2>1. ASSUME HalfRemove("gc") PROVE att'[i].tree = att[i].tree
    <3>1. att' = [att EXCEPT ![job["gc"].on.of].reg = FALSE]
      BY <2>1 DEF HalfRemove
    <3>2. att[i] \in Attempt
      BY Attempts
    <3> QED BY <3>1, <3>2 DEF Attempt
  <2> QED BY <2>1 DEF Taken
<1>3. ~DropBranch("gc")
  <2>1. ASSUME DropBranch("gc") PROVE att'[i].tree = att[i].tree
    <3>1. PICK x : att' = [att EXCEPT ![job["gc"].on.of].branch = x]
      BY <2>1 DEF DropBranch
    <3>2. att[i] \in Attempt
      BY Attempts
    <3> QED BY <3>1, <3>2 DEF Attempt
  <2> QED BY <2>1 DEF Taken
<1>4. /\ ~Inventory /\ ~Check("gc") /\ ~Refuse("gc")
      /\ ~GiveUp("gc") /\ ~Die("gc")
      /\ \A e \in job["gc"].todo : ~Reverify(e) /\ ~Prune(e)
  BY <1>1 DEF Inventory, Check, Refuse, GiveUp, Die, Reverify, Prune
<1> QED
  BY <1>2, <1>3, <1>4 DEF Collect, CleanUp

\* They take the one of the entry the collector is at.
LEMMA TakenIsOn ==
  ASSUME IInv, NEW i \in DOMAIN att, Taken(i), TreeGone("gc")
  PROVE  i = job["gc"].on.of
<1>1. i # job["gc"].on.of => att'[i] = Pruned(att[i])
  BY DEF TreeGone
<1>2. Pruned(att[i]).tree = att[i].tree
  BY Attempts, Removals
<1> QED
  BY <1>1, <1>2 DEF Taken

LEMMA DirectoryKept ==
  ASSUME IInv, Collect, NEW i \in DOMAIN att, Taken(i)
  PROVE  /\ att[i].status # "running" /\ (att[i].dirty => ~att[i].reg)
         /\ att[i].commits \subseteq
              Target \cup IF job["gc"].live THEN {i} ELSE {}
<1>1. "gc" \in Removers /\ JobFits(att, Target, "gc", job["gc"])
  BY Jobs DEF Removers
<1>2. CASE Remove("gc")
  <2>1. /\ job["gc"].at = "checked" /\ Removable(Tree("gc"))
        /\ i = job["gc"].on.of
    BY <1>2, TakenIsOn DEF Remove, Trying
  <2>2. job["gc"].on.of # IntDir
    BY <1>1, <2>1 DEF JobFits
  <2>3. att[i].status # "running" /\ Tree("gc") = att[i]
    BY <1>1, <2>1, <2>2, OnAttempt
  <2> QED BY <1>1, <2>1, <2>3 DEF JobFits, Removable
<1>3. CASE Leftover("gc")
  <2>1. ~(EntryOver("gc") /\ Prunes)
    BY PrunesFollows DEF Taken
  <2>2. /\ job["gc"].at = "checked" /\ ~Pruned(Tree("gc")).reg
        /\ i = job["gc"].on.of
    BY <1>3, <2>1, TakenIsOn DEF Leftover
  <2>3. job["gc"].on.of # IntDir
    BY <1>1, <2>2 DEF JobFits
  <2>4. /\ att[i].status # "running" /\ Tree("gc") = att[i]
        /\ att[i] \in Attempt
    BY <1>1, <2>2, <2>3, OnAttempt
  <2>5. ~att[i].reg
    BY <2>2, <2>4 DEF Pruned, Taken, Attempt
  <2> QED BY <1>1, <2>2, <2>4, <2>5 DEF JobFits
<1>4. CASE Recycle
  <2>1. job["gc"].at = "verified" /\ ~job["gc"].on.reg
    BY <1>4 DEF Recycle
  <2>2. job["gc"].on.of # IntDir /\ att' = [att EXCEPT ![job["gc"].on.of] = NoTree(@)]
    BY <1>4 DEF Recycle, Taken
  <2>3. i = job["gc"].on.of
    BY <2>2 DEF Taken
  <2>4. att[i].status # "running"
    BY <1>1, <2>1, <2>2, <2>3, OnAttempt
  <2>5. ~att[i].reg
    BY <1>1, <2>1, <2>2, <2>3 DEF JobFits, Fits
  <2> QED BY <1>1, <2>1, <2>2, <2>3, <2>4, <2>5 DEF JobFits
<1> QED
  BY <1>2, <1>3, <1>4, Takers

\* The promise of `gc --apply' as far as the code keeps it, with the scheduler,
\* its cleanup, workers and the user between any two steps, the waits between two
\* tries included: no directory of a running attempt, edits only in one that git
\* has given up, and commits the target branch lacks only from a worker that was
\* alive when the branch was checked.
THEOREM WorkKept == Spec => PaidWorkKept
<1>1. IInv /\ [Next]_vars =>
        [Collect =>
           \A i \in DOMAIN att :
             Taken(i) =>
               /\ att[i].status # "running" /\ (att[i].dirty => ~att[i].reg)
               /\ att[i].commits \subseteq
                    Target \cup IF job["gc"].live THEN {i} ELSE {}]_vars
  BY DirectoryKept
<1> QED
  BY <1>1, Invariant, PTL DEF Spec, PaidWorkKept
=============================================================================
