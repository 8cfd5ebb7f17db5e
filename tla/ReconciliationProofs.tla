------------------------ MODULE ReconciliationProofs ------------------------
(***************************************************************************)
(* What holds of a run that crashes and is reconciled, for any number of   *)
(* attempts, batches, crashes and changes made by hand.  A report that is  *)
(* applied at once is a report of the state it is applied to; what the     *)
(* scheduler is at decides what the latest attempt can be; and nothing is  *)
(* completed before the work is in the target branch.                      *)
(***************************************************************************)
EXTENDS Reconciliation, SequenceTheorems, TLAPS

-----------------------------------------------------------------------------
(* The inductive invariant                                                 *)

\* A batch records a merge, and a stage completes, only after the merge.
LandedInv ==
  /\ \A j \in 1..B : batch[j].hash = "merge" => landed
  /\ sched \in {"tell", "close", "finish"} => landed
  /\ stage = "completed" => landed

\* Whoever else takes a step makes what a command has read older.
FreshInv == Fresh => command.plan = Plan

\* What a worker has completed it has ended with a result, on a branch that
\* only a person takes away; only one that nobody drives may be passed over.
AttemptOK(a, hands) ==
  /\ a.status \in PostWorkerLock =>
       a.worker # "up" /\ a.result # "none" /\ (hands = 0 => a.branch)
  /\ a.status \in {"review_skipped", "rework_required"} => a.worker # "up"
PassedOver == Terminal \cup {"running", "rework_required"}
AllOK(s, hands) ==
  /\ \A i \in 1..Len(s) : AttemptOK(s[i], hands)
  /\ \A i \in 1..Len(s) : i < Len(s) => s[i].status \in PassedOver
AttemptInv == AllOK(att, used.hands)

\* Where the scheduler is: at a dispatch, at the checks of what the worker has
\* returned, at the integration.
Checking == {"validate", "review", "skip", "ask", "answer", "verdict"}
Integration == {"build", "gated", "started", "judge", "accept", "report",
                "unreported", "merge", "tell", "close", "finish", "clean"}
SchedInv ==
  /\ sched \in Dispatching \cup {"work"} =>
       /\ N > 0 /\ Latest.status \in Terminal \cup {"running"}
       /\ sched \in {"spawn", "pid", "work"} /\ used.hands = 0 => Latest.branch
  /\ sched \in Dispatching => ~Latest.pid /\ Latest.lease # "stale"
  /\ sched \in Checking => N > 0 /\ Latest.status # "running"
  /\ sched \in Integration =>
       N > 0 /\ Latest.status \notin PostWorkerLock \cup {"running"}

IInv == TypeOK /\ LandedInv /\ FreshInv /\ AttemptInv /\ SchedInv

-----------------------------------------------------------------------------
(* Sequences of attempts and of batches                                    *)

\* A sequence is what its places hold.
LEMMA AsSeq ==
  ASSUME NEW S, NEW n \in Nat, NEW f \in [1..n -> S]
  PROVE  f \in Seq(S) /\ Len(f) = n
<1>1. f \in Seq(S)
  BY SeqDef
<1>2. DOMAIN f = 1..n /\ DOMAIN f = 1..Len(f) /\ Len(f) \in Nat
  BY <1>1, LenProperties
<1> QED BY <1>1, <1>2

\* One place of a sequence is replaced, if there is one.
LEMMA Replaced ==
  ASSUME NEW S, NEW s \in Seq(S), NEW n, NEW e, n \in 1..Len(s) => e \in S
  PROVE  /\ [s EXCEPT ![n] = e] \in Seq(S)
         /\ Len([s EXCEPT ![n] = e]) = Len(s)
         /\ \A i \in 1..Len(s) :
              [s EXCEPT ![n] = e][i] = IF i = n THEN e ELSE s[i]
<1>1. s \in [1..Len(s) -> S] /\ Len(s) \in Nat
  BY LenProperties
<1>2. [s EXCEPT ![n] = e] \in [1..Len(s) -> S]
  BY <1>1
<1>3. \A i \in 1..Len(s) : [s EXCEPT ![n] = e][i] = IF i = n THEN e ELSE s[i]
  BY <1>1
<1> QED BY <1>1, <1>2, <1>3, AsSeq

\* The latest attempt is replaced by one that is in order.
LEMMA ReplacedOK ==
  ASSUME NEW s \in Seq(Attempt), NEW hands, AllOK(s, hands),
         NEW a, Len(s) > 0 => a \in Attempt /\ AttemptOK(a, hands)
  PROVE  LET t == [s EXCEPT ![Len(s)] = a] IN
         /\ t \in Seq(Attempt) /\ Len(t) = Len(s) /\ AllOK(t, hands)
         /\ Len(s) > 0 => t[Len(t)] = a
<1> DEFINE t == [s EXCEPT ![Len(s)] = a]
<1>1. Len(s) \in Nat
  BY LenProperties
<1>2. /\ t \in Seq(Attempt) /\ Len(t) = Len(s)
      /\ \A i \in 1..Len(s) : t[i] = IF i = Len(s) THEN a ELSE s[i]
  BY <1>1, Replaced
<1> HIDE DEF t
<1>3. \A i \in 1..Len(t) : AttemptOK(t[i], hands)
  BY <1>1, <1>2 DEF AllOK
<1>4. \A i \in 1..Len(t) : i < Len(t) => t[i].status \in PassedOver
  BY <1>1, <1>2 DEF AllOK
<1>5. AllOK(t, hands)
  BY <1>3, <1>4 DEF AllOK
<1>6. Len(s) > 0 => t[Len(t)] = a
  BY <1>1, <1>2
<1> QED BY <1>2, <1>5, <1>6 DEF t

\* The statuses of an attempt.
Statuses == Terminal \cup PostWorkerLock
            \cup {"running", "review_skipped", "rework_required"}

\* What an attempt becomes: what it is to be, a failure, or nothing new.
LEMMA Becomes ==
  ASSUME TypeOK, N > 0, NEW status
  PROVE  /\ Latest \in Attempt /\ Become(status) \in Attempt
         /\ \/ Become(status) = Latest
            \/ Become(status) = [Latest EXCEPT !.status = "failed"]
            \/ /\ status \in MayBecome
               /\ Become(status) = [Latest EXCEPT !.status = status]
<1>1. Latest \in Attempt
  BY ElementOfSeq DEF TypeOK, N, Latest
<1>2. \/ Become(status) = Latest
      \/ Become(status) = [Latest EXCEPT !.status = "failed"]
      \/ /\ status \in MayBecome
         /\ Become(status) = [Latest EXCEPT !.status = status]
  BY DEF Become
<1>3. MayBecome \subseteq Statuses
  BY <1>1 DEF MayBecome, Statuses, Terminal, PostWorkerLock, Attempt
<1>4. /\ [Latest EXCEPT !.status = "failed"] \in Attempt
      /\ status \in Statuses => [Latest EXCEPT !.status = status] \in Attempt
  BY <1>1 DEF Attempt, Statuses, Terminal
<1> QED BY <1>1, <1>2, <1>3, <1>4

\* What the scheduler makes of an attempt is in order, but for a completion,
\* which takes a result.
LEMMA BecomesOK ==
  ASSUME TypeOK, N > 0, NEW hands, AttemptOK(Latest, hands),
         NEW status, status # "worker_completed",
         status = "rework_required" => Latest.status # "running"
  PROVE  /\ Become(status) \in Attempt /\ AttemptOK(Become(status), hands)
         /\ Become(status).status \in {Latest.status, "failed", status}
<1>1. PICK s \in {Latest.status, "failed", status} :
        /\ Become(status) = [Latest EXCEPT !.status = s]
        /\ s \in MayBecome \cup {Latest.status, "failed"}
  BY Becomes DEF Attempt
<1>2. /\ Latest \in Attempt /\ Become(status) \in Attempt
      /\ Become(status).status = s
      /\ Become(status).worker = Latest.worker
      /\ Become(status).result = Latest.result
      /\ Become(status).branch = Latest.branch
  BY <1>1, Becomes DEF Attempt
<1>3. CASE s = Latest.status \/ s = "failed"
  BY <1>2, <1>3 DEF AttemptOK, PostWorkerLock
<1>4. CASE s = status /\ s \in MayBecome
  BY <1>2, <1>4 DEF AttemptOK, PostWorkerLock, MayBecome
<1> QED BY <1>1, <1>2, <1>3, <1>4

-----------------------------------------------------------------------------
(* What a step leaves alone                                                *)

\* Where a step of anybody else leaves what a command has read.
LEMMA Older ==
  ASSUME TypeOK, Disturb
  PROVE  command' \in [plan : SUBSET Action, age : 0..MaxAge] /\ FreshInv'
<1>1. CASE command.plan = {}
  <2>1. command' = [plan |-> {}, age |-> 0]
    BY <1>1 DEF Disturb, NoCommand
  <2>2. command' \in [plan : SUBSET Action, age : 0..MaxAge]
    BY <2>1, ReconciliationAssumption
  <2> QED BY <2>1, <2>2 DEF FreshInv, Fresh
<1>2. CASE command.plan # {}
  <2>1. command.age < MaxAge /\ command' = [command EXCEPT !.age = @ + 1]
    BY <1>2 DEF Disturb
  <2>2. /\ command \in [plan : SUBSET Action, age : 0..MaxAge]
        /\ command'.plan = command.plan /\ command'.age = command.age + 1
    BY <2>1 DEF TypeOK
  <2>3. command'.age \in 1..MaxAge
    BY <2>1, <2>2, ReconciliationAssumption
  <2>4. command' \in [plan : SUBSET Action, age : 0..MaxAge]
    BY <2>1, <2>2, <2>3
  <2> QED BY <2>3, <2>4 DEF FreshInv, Fresh
<1> QED BY <1>1, <1>2

\* A step of the scheduler on the latest attempt, and what it need not look at.
LEMMA PutStep ==
  ASSUME IInv, Disturb, NEW a, Put(a), Attempts, sched' \in Doing,
         N > 0 => a \in Attempt /\ AttemptOK(a, used.hands),
         sched' \notin {"tell", "close", "finish"}
  PROVE  /\ TypeOK' /\ LandedInv' /\ FreshInv' /\ AttemptInv'
         /\ N' = N /\ (N > 0 => Latest' = a)
<1>1. command' \in [plan : SUBSET Action, age : 0..MaxAge] /\ FreshInv'
  BY Older DEF IInv
<1>2. /\ att' \in Seq(Attempt) /\ Len(att') = Len(att)
      /\ AllOK(att', used.hands)
      /\ Len(att) > 0 => att'[Len(att')] = a
  BY ReplacedOK DEF IInv, AttemptInv, TypeOK, N, Put
<1>3. TypeOK'
  BY <1>1, <1>2 DEF IInv, TypeOK, Attempts, world, N, B
<1>4. LandedInv'
  BY DEF IInv, LandedInv, Attempts, world, B
<1>5. AttemptInv' /\ N' = N /\ (N > 0 => Latest' = a)
  BY <1>2 DEF AttemptInv, N, Latest, Attempts
<1> QED BY <1>1, <1>3, <1>4, <1>5

\* The latest attempt while there is one.
LEMMA LatestOK ==
  ASSUME IInv, N > 0
  PROVE  Latest \in Attempt /\ AttemptOK(Latest, used.hands) /\ N \in Nat \ {0}
<1>1. N \in Nat /\ N \in 1..N
  BY LenProperties DEF IInv, TypeOK, N
<1>2. Latest \in Attempt
  BY <1>1, ElementOfSeq DEF IInv, TypeOK, N, Latest
<1> QED BY <1>1, <1>2 DEF IInv, AttemptInv, AllOK, N, Latest

-----------------------------------------------------------------------------
(* The scheduler: an attempt                                               *)

\* A field of the latest attempt is written.
LEMMA Written ==
  ASSUME NEW f \in {"lease", "worker", "pid", "skipped", "review"}, NEW v,
         Write(f, v)
  PROVE  Put([Latest EXCEPT ![f] = v])
BY DEF Write, Put, Latest

\* The dispatch lease is written,
LEMMA LeaseKeeps == ASSUME IInv, Lease PROVE IInv'
<1> DEFINE a == [Latest EXCEPT !["lease"] = "live"]
<1>1. /\ Put(a) /\ Disturb /\ Attempts
      /\ sched = "lease" /\ sched' = "tree"
  BY Written DEF Lease, Go
<1>2. N > 0
  BY <1>1 DEF IInv, SchedInv, Dispatching, Checking, Integration
<1>3. /\ a \in Attempt /\ AttemptOK(a, used.hands)
      /\ a.status = Latest.status
      /\ a.pid = Latest.pid /\ a.lease = "live" /\ a.branch = Latest.branch
  BY <1>1, <1>2, LatestOK DEF Attempt, AttemptOK, IInv, SchedInv, Dispatching,
     Terminal, PostWorkerLock
<1> HIDE DEF a
<1>4. /\ TypeOK' /\ LandedInv' /\ FreshInv' /\ AttemptInv'
      /\ N' = N /\ (N > 0 => Latest' = a)
  BY <1>1, <1>3, PutStep DEF Doing, Dispatching
<1>5. SchedInv'
  BY <1>1, <1>2, <1>3, <1>4
  DEF IInv, SchedInv, Dispatching, Checking, Integration, Terminal,
      PostWorkerLock, Attempts
<1> QED BY <1>4, <1>5 DEF IInv

\* the worktree and the branch are made,
LEMMA MakeTreeKeeps == ASSUME IInv, MakeTree PROVE IInv'
<1> DEFINE a == [Latest EXCEPT !.tree = TRUE, !.branch = TRUE]
<1>1. /\ Put(a) /\ Disturb /\ Attempts
      /\ sched = "tree" /\ sched' = "spawn"
  BY Zenon DEF MakeTree, Go
<1>2. N > 0
  BY <1>1 DEF IInv, SchedInv, Dispatching, Checking, Integration
<1>3. /\ a \in Attempt /\ AttemptOK(a, used.hands)
      /\ a.status = Latest.status
      /\ a.pid = Latest.pid /\ a.lease = Latest.lease /\ a.branch
  BY <1>1, <1>2, LatestOK DEF Attempt, AttemptOK, IInv, SchedInv, Dispatching,
     Terminal, PostWorkerLock
<1> HIDE DEF a
<1>4. /\ TypeOK' /\ LandedInv' /\ FreshInv' /\ AttemptInv'
      /\ N' = N /\ (N > 0 => Latest' = a)
  BY <1>1, <1>3, PutStep DEF Doing, Dispatching
<1>5. SchedInv'
  BY <1>1, <1>2, <1>3, <1>4
  DEF IInv, SchedInv, Dispatching, Checking, Integration, Terminal,
      PostWorkerLock, Attempts
<1> QED BY <1>4, <1>5 DEF IInv

\* the worker is started,
LEMMA SpawnKeeps == ASSUME IInv, Spawn PROVE IInv'
<1> DEFINE a == [Latest EXCEPT !["worker"] = "up"]
<1>1. /\ Put(a) /\ Disturb /\ Attempts
      /\ sched = "spawn" /\ sched' = "pid"
  BY Written DEF Spawn, Go
<1>2. N > 0
  BY <1>1 DEF IInv, SchedInv, Dispatching, Checking, Integration
<1>3. /\ a \in Attempt /\ AttemptOK(a, used.hands)
      /\ a.status = Latest.status
      /\ a.pid = Latest.pid /\ a.lease = Latest.lease
      /\ a.branch = Latest.branch
  BY <1>1, <1>2, LatestOK DEF Attempt, AttemptOK, IInv, SchedInv, Dispatching,
     Terminal, PostWorkerLock
<1> HIDE DEF a
<1>4. /\ TypeOK' /\ LandedInv' /\ FreshInv' /\ AttemptInv'
      /\ N' = N /\ (N > 0 => Latest' = a)
  BY <1>1, <1>3, PutStep DEF Doing, Dispatching
<1>5. SchedInv'
  BY <1>1, <1>2, <1>3, <1>4
  DEF IInv, SchedInv, Dispatching, Checking, Integration, Terminal,
      PostWorkerLock, Attempts
<1> QED BY <1>4, <1>5 DEF IInv

\* and its pid is recorded: by then it is a running attempt or has ended.
LEMMA SavePidKeeps == ASSUME IInv, SavePid PROVE IInv'
<1> DEFINE a == [Latest EXCEPT !["pid"] = TRUE]
<1>1. /\ Put(a) /\ Disturb /\ Attempts
      /\ sched = "pid" /\ sched' = "work"
  BY Written DEF SavePid, Go
<1>2. N > 0
  BY <1>1 DEF IInv, SchedInv, Dispatching, Checking, Integration
<1>3. /\ a \in Attempt /\ AttemptOK(a, used.hands)
      /\ a.status = Latest.status
      /\ a.branch = Latest.branch
  BY <1>1, <1>2, LatestOK DEF Attempt, AttemptOK, IInv, SchedInv, Dispatching,
     Terminal, PostWorkerLock
<1> HIDE DEF a
<1>4. /\ TypeOK' /\ LandedInv' /\ FreshInv' /\ AttemptInv'
      /\ N' = N /\ (N > 0 => Latest' = a)
  BY <1>1, <1>3, PutStep DEF Doing, Dispatching
<1>5. SchedInv'
  BY <1>1, <1>2, <1>3, <1>4
  DEF IInv, SchedInv, Dispatching, Checking, Integration, Terminal,
      PostWorkerLock, Attempts
<1> QED BY <1>4, <1>5 DEF IInv

\* The event of a skip is written.
LEMMA NoteSkipKeeps == ASSUME IInv, NoteSkip PROVE IInv'
<1> DEFINE a == [Latest EXCEPT !["skipped"] = TRUE]
<1>1. /\ Put(a) /\ Disturb /\ Attempts
      /\ sched = "skip" /\ sched' = "unlock"
  BY Written DEF NoteSkip, Go
<1>2. N > 0
  BY <1>1 DEF IInv, SchedInv, Dispatching, Checking, Integration
<1>3. /\ a \in Attempt /\ AttemptOK(a, used.hands)
      /\ a.status = Latest.status
  BY <1>1, <1>2, LatestOK DEF Attempt, AttemptOK, IInv, SchedInv, Dispatching,
     Terminal, PostWorkerLock
<1> HIDE DEF a
<1>4. /\ TypeOK' /\ LandedInv' /\ FreshInv' /\ AttemptInv'
      /\ N' = N /\ (N > 0 => Latest' = a)
  BY <1>1, <1>3, PutStep DEF Doing, Dispatching
<1>5. SchedInv'
  BY <1>1, <1>2, <1>3, <1>4
  DEF IInv, SchedInv, Dispatching, Checking, Integration, Terminal,
      PostWorkerLock, Attempts
<1> QED BY <1>4, <1>5 DEF IInv

\* A review is asked for,
LEMMA CreateReviewKeeps == ASSUME IInv, CreateReview PROVE IInv'
<1> DEFINE a == [Latest EXCEPT !["review"] = "pending"]
<1>1. /\ Put(a) /\ Disturb /\ Attempts
      /\ sched = "ask" /\ sched' = "answer"
  BY Written DEF CreateReview, Go
<1>2. N > 0
  BY <1>1 DEF IInv, SchedInv, Dispatching, Checking, Integration
<1>3. /\ a \in Attempt /\ AttemptOK(a, used.hands)
      /\ a.status = Latest.status
  BY <1>1, <1>2, LatestOK DEF Attempt, AttemptOK, IInv, SchedInv, Dispatching,
     Terminal, PostWorkerLock
<1> HIDE DEF a
<1>4. /\ TypeOK' /\ LandedInv' /\ FreshInv' /\ AttemptInv'
      /\ N' = N /\ (N > 0 => Latest' = a)
  BY <1>1, <1>3, PutStep DEF Doing, Dispatching
<1>5. SchedInv'
  BY <1>1, <1>2, <1>3, <1>4
  DEF IInv, SchedInv, Dispatching, Checking, Integration, Terminal,
      PostWorkerLock, Attempts
<1> QED BY <1>4, <1>5 DEF IInv

\* and answered.
LEMMA AnswerKeeps == ASSUME IInv, Answer PROVE IInv'
<1>1. PICK v \in {"approved", "rework_required", "failed"} : Write("review", v)
  BY DEF Answer
<1> DEFINE a == [Latest EXCEPT !["review"] = v]
<1>2. /\ Put(a) /\ Disturb /\ Attempts /\ sched = "answer" /\ sched' = "verdict"
      /\ N > 0
  BY <1>1, Written DEF Answer, Go, IInv, SchedInv, Checking
<1>3. /\ a \in Attempt /\ AttemptOK(a, used.hands) /\ a.status = Latest.status
  BY <1>2, LatestOK DEF Attempt, AttemptOK
<1> HIDE DEF a
<1>4. /\ TypeOK' /\ LandedInv' /\ FreshInv' /\ AttemptInv'
      /\ N' = N /\ (N > 0 => Latest' = a)
  BY <1>2, <1>3, PutStep DEF Doing, Dispatching
<1>5. SchedInv'
  BY <1>1, <1>2, <1>3, <1>4
  DEF IInv, SchedInv, Dispatching, Checking, Integration, Terminal,
      PostWorkerLock, Attempts
<1> QED BY <1>4, <1>5 DEF IInv

\* The worker returns a result, and has ended.
LEMMA WorkerReturnsKeeps == ASSUME IInv, WorkerReturns PROVE IInv'
<1>1. PICK result \in {"change", "nothing"} :
        Put([Become("worker_completed") EXCEPT !.result = result])
  BY DEF WorkerReturns
<1> DEFINE a == [Become("worker_completed") EXCEPT !.result = result]
<1>2. /\ Put(a) /\ Disturb /\ Attempts /\ sched = "work"
      /\ sched' = "validate" /\ N > 0 /\ Latest.worker = "gone"
  BY <1>1 DEF WorkerReturns, Go, IInv, SchedInv
<1>3. /\ a \in Attempt /\ AttemptOK(a, used.hands) /\ a.status # "running"
  <2>1. /\ Latest \in Attempt /\ Become("worker_completed") \in Attempt
        /\ \/ Become("worker_completed") = Latest
           \/ Become("worker_completed") = [Latest EXCEPT !.status = "failed"]
           \/ Become("worker_completed")
                = [Latest EXCEPT !.status = "worker_completed"]
    BY <1>2, Becomes DEF IInv, Statuses, PostWorkerLock
  <2>2. /\ Latest.status \in Terminal \cup {"running"}
        /\ used.hands = 0 => Latest.branch
    BY <1>2 DEF IInv, SchedInv
  <2>3. CASE Latest.status = "running"
    <3>1. Become("worker_completed")
            = [Latest EXCEPT !.status = "worker_completed"]
      BY <2>3 DEF Become, MayBecome
    <3> QED
      BY <1>2, <2>1, <2>2, <3>1 DEF Attempt, AttemptOK, PostWorkerLock
  <2>4. CASE Latest.status \in Terminal
    <3>1. Become("worker_completed") = Latest
      BY <2>4 DEF Become, MayBecome, Terminal
    <3> QED
      BY <1>2, <2>1, <2>4, <3>1
      DEF Attempt, AttemptOK, PostWorkerLock, Terminal
  <2> QED BY <2>2, <2>3, <2>4
<1> HIDE DEF a
<1>4. /\ TypeOK' /\ LandedInv' /\ FreshInv' /\ AttemptInv'
      /\ N' = N /\ (N > 0 => Latest' = a)
  BY <1>2, <1>3, PutStep DEF Doing, Dispatching
<1>5. SchedInv'
  BY <1>1, <1>2, <1>3, <1>4
  DEF IInv, SchedInv, Dispatching, Checking, Integration, Terminal,
      PostWorkerLock, Attempts
<1> QED BY <1>4, <1>5 DEF IInv

\* An attempt fails,
LEMMA FailsKeeps == ASSUME IInv, Fails PROVE IInv'
<1> DEFINE a == Become("failed")
<1>1. /\ Put(a) /\ Disturb /\ Attempts
      /\ sched \in {"tree", "work", "review"} /\ sched' = "unlock"
  BY DEF Fails, Go
<1>2. N > 0
  BY <1>1 DEF IInv, SchedInv, Dispatching, Checking, Integration
<1>3. /\ a \in Attempt /\ AttemptOK(a, used.hands)
      /\ a.status \in {Latest.status, "failed", "failed"}
  BY <1>1, <1>2, LatestOK, BecomesOK
  DEF IInv, SchedInv, Checking, Statuses, Terminal, PostWorkerLock
<1> HIDE DEF a
<1>4. /\ TypeOK' /\ LandedInv' /\ FreshInv' /\ AttemptInv'
      /\ N' = N /\ (N > 0 => Latest' = a)
  BY <1>1, <1>3, PutStep DEF Doing, Dispatching
<1>5. SchedInv'
  BY <1>1, <1>2, <1>3, <1>4
  DEF IInv, SchedInv, Dispatching, Checking, Integration, Terminal,
      PostWorkerLock, Attempts
<1> QED BY <1>4, <1>5 DEF IInv

\* or is stopped with its run.
LEMMA StopIfCanceledKeeps == ASSUME IInv, StopIfCanceled PROVE IInv'
<1> DEFINE a == Become("canceled")
<1>1. /\ Put(a) /\ Disturb /\ Attempts
      /\ sched \in {"validate", "review", "work", "verdict"}
      /\ sched' = "unlock"
  BY DEF StopIfCanceled, Go
<1>2. N > 0
  BY <1>1 DEF IInv, SchedInv, Dispatching, Checking, Integration
<1>3. /\ a \in Attempt /\ AttemptOK(a, used.hands)
      /\ a.status \in {Latest.status, "failed", "canceled"}
  BY <1>1, <1>2, LatestOK, BecomesOK
  DEF IInv, SchedInv, Checking, Statuses, Terminal, PostWorkerLock
<1> HIDE DEF a
<1>4. /\ TypeOK' /\ LandedInv' /\ FreshInv' /\ AttemptInv'
      /\ N' = N /\ (N > 0 => Latest' = a)
  BY <1>1, <1>3, PutStep DEF Doing, Dispatching
<1>5. SchedInv'
  BY <1>1, <1>2, <1>3, <1>4
  DEF IInv, SchedInv, Dispatching, Checking, Integration, Terminal,
      PostWorkerLock, Attempts
<1> QED BY <1>4, <1>5 DEF IInv

\* Its result is checked,
LEMMA ValidateKeeps == ASSUME IInv, Validate PROVE IInv'
<1> DEFINE a == Become("validating")
<1>1. /\ Put(a) /\ Disturb /\ Attempts
      /\ sched = "validate" /\ sched' = "review"
  BY DEF Validate, Go
<1>2. N > 0
  BY <1>1 DEF IInv, SchedInv, Dispatching, Checking, Integration
<1>3. /\ a \in Attempt /\ AttemptOK(a, used.hands)
      /\ a.status \in {Latest.status, "failed", "validating"}
  BY <1>1, <1>2, LatestOK, BecomesOK
  DEF IInv, SchedInv, Checking, Statuses, Terminal, PostWorkerLock
<1> HIDE DEF a
<1>4. /\ TypeOK' /\ LandedInv' /\ FreshInv' /\ AttemptInv'
      /\ N' = N /\ (N > 0 => Latest' = a)
  BY <1>1, <1>3, PutStep DEF Doing, Dispatching
<1>5. SchedInv'
  BY <1>1, <1>2, <1>3, <1>4
  DEF IInv, SchedInv, Dispatching, Checking, Integration, Terminal,
      PostWorkerLock, Attempts
<1> QED BY <1>4, <1>5 DEF IInv

\* its review is skipped,
LEMMA SkipReviewKeeps == ASSUME IInv, SkipReview PROVE IInv'
<1> DEFINE a == Become("review_skipped")
<1>1. /\ Put(a) /\ Disturb /\ Attempts
      /\ sched = "review" /\ sched' = "skip"
  BY DEF SkipReview, Go
<1>2. N > 0
  BY <1>1 DEF IInv, SchedInv, Dispatching, Checking, Integration
<1>3. /\ a \in Attempt /\ AttemptOK(a, used.hands)
      /\ a.status \in {Latest.status, "failed", "review_skipped"}
  BY <1>1, <1>2, LatestOK, BecomesOK
  DEF IInv, SchedInv, Checking, Statuses, Terminal, PostWorkerLock
<1> HIDE DEF a
<1>4. /\ TypeOK' /\ LandedInv' /\ FreshInv' /\ AttemptInv'
      /\ N' = N /\ (N > 0 => Latest' = a)
  BY <1>1, <1>3, PutStep DEF Doing, Dispatching
<1>5. SchedInv'
  BY <1>1, <1>2, <1>3, <1>4
  DEF IInv, SchedInv, Dispatching, Checking, Integration, Terminal,
      PostWorkerLock, Attempts
<1> QED BY <1>4, <1>5 DEF IInv

\* or begins,
LEMMA BeginReviewKeeps == ASSUME IInv, BeginReview PROVE IInv'
<1> DEFINE a == Become("reviewing")
<1>1. /\ Put(a) /\ Disturb /\ Attempts
      /\ sched = "review" /\ sched' = "ask"
  BY DEF BeginReview, Go
<1>2. N > 0
  BY <1>1 DEF IInv, SchedInv, Dispatching, Checking, Integration
<1>3. /\ a \in Attempt /\ AttemptOK(a, used.hands)
      /\ a.status \in {Latest.status, "failed", "reviewing"}
  BY <1>1, <1>2, LatestOK, BecomesOK
  DEF IInv, SchedInv, Checking, Statuses, Terminal, PostWorkerLock
<1> HIDE DEF a
<1>4. /\ TypeOK' /\ LandedInv' /\ FreshInv' /\ AttemptInv'
      /\ N' = N /\ (N > 0 => Latest' = a)
  BY <1>1, <1>3, PutStep DEF Doing, Dispatching
<1>5. SchedInv'
  BY <1>1, <1>2, <1>3, <1>4
  DEF IInv, SchedInv, Dispatching, Checking, Integration, Terminal,
      PostWorkerLock, Attempts
<1> QED BY <1>4, <1>5 DEF IInv

\* and ends with a verdict.
LEMMA VerdictKeeps == ASSUME IInv, Verdict PROVE IInv'
<1> DEFINE a == Become(Latest.review)
<1>1. /\ Put(a) /\ Disturb /\ Attempts
      /\ sched = "verdict" /\ sched' = "unlock"
  BY DEF Verdict, Go
<1>2. N > 0
  BY <1>1 DEF IInv, SchedInv, Dispatching, Checking, Integration
<1>3. /\ a \in Attempt /\ AttemptOK(a, used.hands)
      /\ a.status \in {Latest.status, "failed", Latest.review}
  BY <1>1, <1>2, LatestOK, BecomesOK
  DEF Attempt, IInv, SchedInv, Checking, Statuses, Terminal, PostWorkerLock
<1> HIDE DEF a
<1>4. /\ TypeOK' /\ LandedInv' /\ FreshInv' /\ AttemptInv'
      /\ N' = N /\ (N > 0 => Latest' = a)
  BY <1>1, <1>3, PutStep DEF Doing, Dispatching
<1>5. SchedInv'
  BY <1>1, <1>2, <1>3, <1>4
  DEF IInv, SchedInv, Dispatching, Checking, Integration, Terminal,
      PostWorkerLock, Attempts
<1> QED BY <1>4, <1>5 DEF IInv

-----------------------------------------------------------------------------
(* The scheduler: a run and its stage                                      *)

\* The statuses of a stage.
Stages == {"ready", "running", "integration", "paused"} \cup StageEnded

\* A step that writes neither attempts nor batches.
LEMMA StageStep ==
  ASSUME IInv, Disturb, UNCHANGED <<att, batch, used>>,
         run' \in {"running", "canceled"}, stage' \in Stages,
         pause' \in BOOLEAN, merged' \in BOOLEAN, lock' \in BOOLEAN,
         log' \in Seq(Event), repo' \in {"target", "away"}, sched' \in Doing,
         landed' = landed \/ landed' = TRUE,
         stage' = "completed" => stage = "completed" \/ landed',
         sched' \in {"tell", "close", "finish"} => landed'
  PROVE  /\ TypeOK' /\ LandedInv' /\ FreshInv' /\ AttemptInv'
         /\ N' = N /\ Latest' = Latest
<1>1. command' \in [plan : SUBSET Action, age : 0..MaxAge] /\ FreshInv'
  BY Older DEF IInv
<1>2. landed' \in BOOLEAN /\ (landed => landed')
  BY DEF IInv, TypeOK
<1>3. TypeOK'
  BY <1>1, <1>2, Zenon DEF IInv, TypeOK, N, B, Stages
<1>4. LandedInv'
  BY <1>2 DEF IInv, LandedInv, B
<1>5. AttemptInv' /\ N' = N /\ Latest' = Latest
  BY DEF IInv, AttemptInv, N, Latest
<1> QED BY <1>1, <1>3, <1>4, <1>5

\* The locks of a task are released.
LEMMA UnlockKeeps == ASSUME IInv, Unlock PROVE IInv'
<1>1. /\ TypeOK' /\ LandedInv' /\ FreshInv' /\ AttemptInv'
      /\ N' = N /\ Latest' = Latest
  BY StageStep
  DEF Unlock, IInv, TypeOK, Go, world, Stages, Doing, Dispatching
<1>2. SchedInv'
  BY <1>1
  DEF Unlock, IInv, SchedInv, Go, Dispatching, Checking, Integration, Terminal,
      PostWorkerLock
<1> QED BY <1>1, <1>2 DEF IInv

\* A run is resumed,
LEMMA ResumeKeeps == ASSUME IInv, Resume PROVE IInv'
<1>1. /\ TypeOK' /\ LandedInv' /\ FreshInv' /\ AttemptInv'
      /\ N' = N /\ Latest' = Latest
  BY StageStep
  DEF Resume, IInv, TypeOK, Go, world, Stages, Doing, Dispatching
<1>2. SchedInv'
  BY <1>1
  DEF Resume, IInv, SchedInv, Go, Dispatching, Checking, Integration, Terminal,
      PostWorkerLock
<1> QED BY <1>1, <1>2 DEF IInv

\* its loop ends,
LEMMA LoopEndsKeeps == ASSUME IInv, LoopEnds PROVE IInv'
<1>1. /\ TypeOK' /\ LandedInv' /\ FreshInv' /\ AttemptInv'
      /\ N' = N /\ Latest' = Latest
  BY StageStep
  DEF LoopEnds, IInv, TypeOK, Go, rows, world, Stages, Doing, Dispatching
<1>2. SchedInv'
  BY <1>1
  DEF LoopEnds, IInv, SchedInv, Go, rows, Dispatching, Checking, Integration,
      Terminal,
      PostWorkerLock
<1> QED BY <1>1, <1>2 DEF IInv

\* or carries on with what was kept.
LEMMA CarryOnKeeps == ASSUME IInv, CarryOn PROVE IInv'
<1>1. /\ TypeOK' /\ LandedInv' /\ FreshInv' /\ AttemptInv'
      /\ N' = N /\ Latest' = Latest
  BY ZenonT(30), StageStep
  DEF CarryOn, IInv, TypeOK, Go, PauseAndEnd, StageEnded, world, Stages, Doing,
      Dispatching
<1>2. SchedInv'
  BY <1>1
  DEF CarryOn, IInv, SchedInv, Go, PauseAndEnd, StageEnded, Dispatching,
      Checking, Integration, Terminal,
      PostWorkerLock
<1> QED BY <1>1, <1>2 DEF IInv

\* A merge puts the work in the target branch.
LEMMA MergeKeeps == ASSUME IInv, Merge PROVE IInv'
<1>1. /\ TypeOK' /\ LandedInv' /\ FreshInv' /\ AttemptInv'
      /\ N' = N /\ Latest' = Latest
  BY StageStep
  DEF Merge, IInv, TypeOK, Go, rows, world, Stages, Doing, Dispatching
<1>2. SchedInv'
  BY <1>1
  DEF Merge, IInv, SchedInv, Go, rows, Dispatching, Checking, Integration,
      Terminal,
      PostWorkerLock
<1> QED BY <1>1, <1>2 DEF IInv

\* The stage completes after it.
LEMMA FinishKeeps == ASSUME IInv, Finish PROVE IInv'
<1>1. /\ TypeOK' /\ LandedInv' /\ FreshInv' /\ AttemptInv'
      /\ N' = N /\ Latest' = Latest
  BY StageStep
  DEF Finish, IInv, TypeOK, Go, LandedInv, StageEnded, world, Stages, Doing,
      Dispatching
<1>2. SchedInv'
  BY <1>1
  DEF Finish, IInv, SchedInv, Go, LandedInv, StageEnded, Dispatching, Checking,
      Integration, Terminal,
      PostWorkerLock
<1> QED BY <1>1, <1>2 DEF IInv

\* A canceled run is not merged.
LEMMA CanceledBatchKeeps == ASSUME IInv, CanceledBatch PROVE IInv'
<1>1. /\ TypeOK' /\ LandedInv' /\ FreshInv' /\ AttemptInv'
      /\ N' = N /\ Latest' = Latest
  BY StageStep
  DEF CanceledBatch, IInv, TypeOK, Go, rows, world, Stages, Doing, Dispatching
<1>2. SchedInv'
  BY <1>1
  DEF CanceledBatch, IInv, SchedInv, Go, rows, Dispatching, Checking,
      Integration, Terminal,
      PostWorkerLock
<1> QED BY <1>1, <1>2 DEF IInv

\* The run is canceled after its stage.
LEMMA CancelRunKeeps == ASSUME IInv, CancelRun PROVE IInv'
<1>1. /\ TypeOK' /\ LandedInv' /\ FreshInv' /\ AttemptInv'
      /\ N' = N /\ Latest' = Latest
  BY StageStep
  DEF CancelRun, IInv, TypeOK, LandedInv, world, Stages, Doing, Dispatching
<1>2. SchedInv'
  BY <1>1
  DEF CancelRun, IInv, SchedInv, Dispatching, Checking, Integration, Terminal,
      PostWorkerLock
<1> QED BY <1>1, <1>2 DEF IInv

\* The checkout is put back.
LEMMA BackToTargetKeeps == ASSUME IInv, BackToTarget PROVE IInv'
<1>1. /\ TypeOK' /\ LandedInv' /\ FreshInv' /\ AttemptInv'
      /\ N' = N /\ Latest' = Latest
  BY StageStep
  DEF BackToTarget, IInv, TypeOK, LandedInv, Elsewhere, world, Stages, Doing,
      Dispatching
<1>2. SchedInv'
  BY <1>1
  DEF BackToTarget, IInv, SchedInv, Elsewhere, Dispatching, Checking,
      Integration, Terminal,
      PostWorkerLock
<1> QED BY <1>1, <1>2 DEF IInv

\* The review of a stage leaves its events,
LEMMA BeginStageReviewKeeps == ASSUME IInv, BeginStageReview PROVE IInv'
<1>1. log' \in Seq(Event)
  <2>1. B \in 0..MaxBatches
    BY LenProperties DEF IInv, TypeOK, B
  <2>2. [kind |-> "started", commit |-> B, approves |-> FALSE] \in Event
    BY <2>1 DEF Event
  <2> QED BY <2>2, AppendProperties DEF BeginStageReview, IInv, TypeOK
<1>2. /\ TypeOK' /\ LandedInv' /\ FreshInv' /\ AttemptInv'
      /\ N' = N /\ Latest' = Latest
  BY <1>1, StageStep
  DEF BeginStageReview, IInv, TypeOK, Go, world, Stages, Doing, Dispatching
<1>3. SchedInv'
  BY <1>1, <1>2
  DEF BeginStageReview, IInv, SchedInv, Go, Dispatching, Checking, Integration,
      Terminal,
      PostWorkerLock
<1> QED BY <1>2, <1>3 DEF IInv

\* however it ends.
LEMMA ReportReviewKeeps == ASSUME IInv, ReportReview PROVE IInv'
<1>1. log' \in Seq(Event)
  <2>1. [kind |-> "completed", commit |-> 0, approves |-> sched = "report"]
          \in Event
    BY ReconciliationAssumption DEF Event
  <2> QED BY <2>1, AppendProperties DEF ReportReview, IInv, TypeOK
<1>2. /\ TypeOK' /\ LandedInv' /\ FreshInv' /\ AttemptInv'
      /\ N' = N /\ Latest' = Latest
  BY <1>1, StageStep
  DEF ReportReview, IInv, TypeOK, Go, world, Stages, Doing, Dispatching
<1>3. SchedInv'
  BY <1>1, <1>2
  DEF ReportReview, IInv, SchedInv, Go, Dispatching, Checking, Integration,
      Terminal,
      PostWorkerLock
<1> QED BY <1>2, <1>3 DEF IInv

\* An attempt that cannot go on, fails.
LEMMA CannotBeginKeeps == ASSUME IInv, CannotBegin PROVE IInv'
<1> DEFINE a == Become("failed")
<1>1. /\ Put(a) /\ Disturb /\ Attempts
      /\ sched = "loop" /\ sched' = "unlock" /\ N > 0
  BY DEF CannotBegin, Go
<1>2. N > 0
  BY <1>1 DEF IInv, SchedInv, Dispatching, Checking, Integration
<1>3. /\ a \in Attempt /\ AttemptOK(a, used.hands)
      /\ a.status \in {Latest.status, "failed", "failed"}
  BY <1>1, <1>2, LatestOK, BecomesOK
  DEF IInv, SchedInv, Checking, Statuses, Terminal, PostWorkerLock
<1> HIDE DEF a
<1>4. /\ TypeOK' /\ LandedInv' /\ FreshInv' /\ AttemptInv'
      /\ N' = N /\ (N > 0 => Latest' = a)
  BY <1>1, <1>3, PutStep DEF Doing, Dispatching
<1>5. SchedInv'
  BY <1>1, <1>2, <1>3, <1>4
  DEF IInv, SchedInv, Dispatching, Checking, Integration, Terminal,
      PostWorkerLock, Attempts
<1> QED BY <1>4, <1>5 DEF IInv

-----------------------------------------------------------------------------
(* The scheduler: the integration                                          *)

\* A step of the scheduler that rewrites the latest batch.
LEMMA BatchStep ==
  ASSUME IInv, Disturb, NEW b, batch' = [batch EXCEPT ![B] = b], Batches,
         B > 0 => b \in Batch /\ (b.hash = "merge" => landed),
         sched \in Integration, sched' \in Integration,
         sched' \in {"tell", "close", "finish"} => landed
  PROVE  IInv'
<1>1. command' \in [plan : SUBSET Action, age : 0..MaxAge] /\ FreshInv'
  BY Older DEF IInv
<1>2. /\ batch' \in Seq(Batch) /\ Len(batch') = Len(batch)
      /\ \A j \in 1..Len(batch) : batch'[j] = IF j = Len(batch) THEN b
                                              ELSE batch[j]
  <2>1. batch \in Seq(Batch) /\ Len(batch) \in Nat
    BY LenProperties DEF IInv, TypeOK
  <2>2. Len(batch) \in 1..Len(batch) => b \in Batch
    BY <2>1 DEF B
  <2> QED BY <2>1, <2>2, Replaced DEF B
<1>3. TypeOK'
  BY <1>1, <1>2 DEF IInv, TypeOK, Batches, world, N, B, Integration, Doing
<1>4. LandedInv'
  <2>1. \A j \in 1..B : batch'[j].hash = "merge" => landed
    <3> SUFFICES ASSUME NEW j \in 1..B, batch'[j].hash = "merge"
                 PROVE  landed
      OBVIOUS
    <3>1. B \in Nat /\ B = Len(batch)
      BY LenProperties DEF IInv, TypeOK, B
    <3>2. CASE j = B
      <4>1. batch'[j] = b /\ B > 0
        BY <1>2, <3>1, <3>2
      <4> QED BY <4>1
    <3>3. CASE j # B
      <4>1. batch'[j] = batch[j]
        BY <1>2, <3>1, <3>3
      <4> QED BY <4>1 DEF IInv, LandedInv
    <3> QED BY <3>2, <3>3
  <2> QED BY <1>2, <2>1 DEF IInv, LandedInv, Batches, world, B
<1>5. AttemptInv'
  BY DEF IInv, AttemptInv, Batches
<1>6. SchedInv'
  BY DEF IInv, SchedInv, Batches, N, Latest, Integration, Dispatching, Checking
<1> QED BY <1>1, <1>3, <1>4, <1>5, <1>6 DEF IInv

\* The latest batch while there is one.
LEMMA LastBatch ==
  ASSUME IInv, B > 0
  PROVE  batch[B] \in Batch /\ (batch[B].hash = "merge" => landed)
BY LenProperties, ElementOfSeq DEF IInv, TypeOK, LandedInv, B

\* The branch of a batch is built,
LEMMA BuildKeeps == ASSUME IInv, Build PROVE IInv'
<1> DEFINE b == [batch[B] EXCEPT !["branch"] = TRUE]
<1>1. /\ batch' = [batch EXCEPT ![B] = b] /\ Disturb /\ Batches
      /\ sched = "build" /\ sched' = "gated"
  BY DEF Build, Go, WriteBatch
<1>2. B > 0 => b \in Batch /\ (b.hash = "merge" => landed)
  BY <1>1, LastBatch DEF Batch
<1> HIDE DEF b
<1> QED BY <1>1, <1>2, BatchStep DEF Integration

\* its gates pass,
LEMMA StageGatesKeeps == ASSUME IInv, StageGates PROVE IInv'
<1> DEFINE b == [batch[B] EXCEPT !.status = "integrating", !.hash = "int"]
<1>1. /\ batch' = [batch EXCEPT ![B] = b] /\ Disturb /\ Batches
      /\ sched = "gated" /\ sched' = "started"
  BY DEF StageGates, Go, WriteBatch
<1>2. B > 0 => b \in Batch /\ (b.hash = "merge" => landed)
  BY <1>1, LastBatch DEF Batch
<1> HIDE DEF b
<1> QED BY <1>1, <1>2, BatchStep DEF Integration

\* it is reviewed,
LEMMA PassStageReviewKeeps == ASSUME IInv, PassStageReview PROVE IInv'
<1> DEFINE b == [batch[B] EXCEPT !["complete"] = TRUE]
<1>1. /\ batch' = [batch EXCEPT ![B] = b] /\ Disturb /\ Batches
      /\ sched = "judge" /\ sched' = "accept"
  BY DEF PassStageReview, Go, WriteBatch
<1>2. B > 0 => b \in Batch /\ (b.hash = "merge" => landed)
  BY <1>1, LastBatch DEF Batch
<1> HIDE DEF b
<1> QED BY <1>1, <1>2, BatchStep DEF Integration

\* its merge is announced,
LEMMA TellTargetKeeps == ASSUME IInv, TellTarget PROVE IInv'
<1> DEFINE b == [batch[B] EXCEPT !["told"] = TRUE]
<1>1. /\ batch' = [batch EXCEPT ![B] = b] /\ Disturb /\ Batches
      /\ sched = "tell" /\ sched' = "close"
  BY DEF TellTarget, Go, WriteBatch
<1>2. B > 0 => b \in Batch /\ (b.hash = "merge" => landed)
  BY <1>1, LastBatch DEF Batch, IInv, LandedInv
<1> HIDE DEF b
<1> QED BY <1>1, <1>2, BatchStep DEF Integration, IInv, LandedInv

\* and recorded.
LEMMA CloseBatchKeeps == ASSUME IInv, CloseBatch PROVE IInv'
<1> DEFINE b == [batch[B] EXCEPT !.status = "completed", !.hash = "merge"]
<1>1. /\ batch' = [batch EXCEPT ![B] = b] /\ Disturb /\ Batches
      /\ sched = "close" /\ sched' = "finish"
  BY DEF CloseBatch, Go, WriteBatch
<1>2. B > 0 => b \in Batch /\ (b.hash = "merge" => landed)
  BY <1>1, LastBatch DEF Batch, IInv, LandedInv
<1> HIDE DEF b
<1> QED BY <1>1, <1>2, BatchStep DEF Integration, IInv, LandedInv

\* A task whose review was skipped is approved with its batch.
LEMMA AcceptSkippedKeeps == ASSUME IInv, AcceptSkipped PROVE IInv'
<1> DEFINE a == IF Latest.status = "review_skipped" THEN Become("approved")
                                                 ELSE Latest
<1>1. /\ Put(a) /\ Disturb /\ Attempts
      /\ sched = "accept" /\ sched' \in {"report", "unreported"}
  BY DEF AcceptSkipped, Go
<1>2. N > 0
  BY <1>1 DEF IInv, SchedInv, Integration
<1>3. /\ a \in Attempt /\ AttemptOK(a, used.hands)
      /\ a.status \in {Latest.status, "failed", "approved"}
  BY <1>2, LatestOK, BecomesOK DEF IInv
<1> HIDE DEF a
<1>4. /\ TypeOK' /\ LandedInv' /\ FreshInv' /\ AttemptInv'
      /\ N' = N /\ (N > 0 => Latest' = a)
  BY <1>1, <1>3, PutStep DEF Doing, Dispatching
<1>5. SchedInv'
  BY <1>1, <1>2, <1>3, <1>4
  DEF IInv, SchedInv, Dispatching, Checking, Integration, Terminal,
      PostWorkerLock, Attempts
<1> QED BY <1>4, <1>5 DEF IInv

\* A step of the scheduler that pauses its stage and ends.
LEMMA PauseStep ==
  ASSUME TypeOK, PauseAndEnd
  PROVE  /\ Disturb /\ sched' = "off"
         /\ stage' \in Stages /\ (stage' = "completed" => stage = "completed")
         /\ pause' \in BOOLEAN
BY DEF PauseAndEnd, TypeOK, Stages, StageEnded

\* A review without an answer puts the attempt back to its completion.
LEMMA UnavailableKeeps == ASSUME IInv, Unavailable PROVE IInv'
<1> DEFINE a == IF Latest.status = "reviewing"
                THEN [Latest EXCEPT !.status = "worker_completed"] ELSE Latest
<1>1. /\ att' = [att EXCEPT ![Len(att)] = a] /\ sched = "verdict"
      /\ PauseAndEnd /\ lock' = FALSE
      /\ UNCHANGED <<run, merged, batch, log, world, used>>
  BY DEF Unavailable, Put, N
<1>2. N > 0
  BY <1>1 DEF IInv, SchedInv, Checking
<1>3. a \in Attempt /\ AttemptOK(a, used.hands)
  BY <1>2, LatestOK DEF Attempt, AttemptOK, PostWorkerLock
<1> HIDE DEF a
<1>4. /\ att' \in Seq(Attempt) /\ Len(att') = Len(att)
      /\ AllOK(att', used.hands)
  BY <1>1, <1>3, ReplacedOK DEF IInv, AttemptInv, TypeOK
<1>5. /\ Disturb /\ sched' = "off"
      /\ stage' \in Stages /\ (stage' = "completed" => stage = "completed")
      /\ pause' \in BOOLEAN
  BY <1>1, PauseStep DEF IInv
<1>6. command' \in [plan : SUBSET Action, age : 0..MaxAge] /\ FreshInv'
  BY <1>5, Older DEF IInv
<1>7. TypeOK'
  BY <1>1, <1>4, <1>5, <1>6 DEF IInv, TypeOK, world, N, B, Stages, Doing
<1>8. LandedInv'
  BY <1>1, <1>5 DEF IInv, LandedInv, world, B
<1>9. AttemptInv'
  BY <1>1, <1>4 DEF AttemptInv
<1>10. SchedInv'
  BY <1>5 DEF SchedInv, Dispatching, Checking, Integration
<1> QED BY <1>6, <1>7, <1>8, <1>9, <1>10 DEF IInv

\* A batch that is refused pauses the stage; a task whose review was skipped
\* may have to be reworked.
LEMMA RefuseKeeps == ASSUME IInv, Refuse PROVE IInv'
<1> DEFINE a == IF sched = "judge" /\ Latest.status = "review_skipped"
                THEN Become("rework_required") ELSE Latest
           b == [batch[B] EXCEPT !["status"] = "failed"]
<1>1. /\ att' = [att EXCEPT ![Len(att)] = a] /\ sched \in Integration
      /\ batch' = [batch EXCEPT ![B] = b]
      /\ PauseAndEnd
      /\ UNCHANGED <<run, merged, lock, log, world, used>>
  BY DEF Refuse, Put, WriteBatch, N, Integration
<1>2. N > 0
  BY <1>1 DEF IInv, SchedInv
<1>3. a \in Attempt /\ AttemptOK(a, used.hands)
  BY <1>2, LatestOK, BecomesOK DEF IInv
<1>4. B > 0 => b \in Batch /\ (b.hash = "merge" => landed)
  BY LastBatch DEF Batch
<1> HIDE DEF a, b
<1>5. /\ att' \in Seq(Attempt) /\ Len(att') = Len(att)
      /\ AllOK(att', used.hands)
  BY <1>1, <1>3, ReplacedOK DEF IInv, AttemptInv, TypeOK
<1>6. /\ Disturb /\ sched' = "off"
      /\ stage' \in Stages /\ (stage' = "completed" => stage = "completed")
      /\ pause' \in BOOLEAN
  BY <1>1, PauseStep DEF IInv
<1>7. command' \in [plan : SUBSET Action, age : 0..MaxAge] /\ FreshInv'
  BY <1>6, Older DEF IInv
<1>8. /\ batch' \in Seq(Batch) /\ Len(batch') = Len(batch)
      /\ \A j \in 1..B : batch'[j] = IF j = B THEN b ELSE batch[j]
  <2>1. batch \in Seq(Batch) /\ B \in Nat /\ B = Len(batch)
    BY LenProperties DEF IInv, TypeOK, B
  <2>2. B \in 1..Len(batch) => b \in Batch
    BY <1>4, <2>1
  <2> QED BY <1>1, <2>1, <2>2, Replaced
<1>9. TypeOK'
  BY <1>1, <1>5, <1>6, <1>7, <1>8 DEF IInv, TypeOK, world, N, B, Stages, Doing
<1>10. LandedInv'
  <2>1. ASSUME NEW j \in 1..B, batch'[j].hash = "merge" PROVE landed
    <3>1. B \in Nat
      BY LenProperties DEF IInv, TypeOK, B
    <3>2. CASE j = B
      BY <1>4, <1>8, <2>1, <3>1, <3>2
    <3>3. CASE j # B
      BY <1>8, <2>1, <3>3 DEF IInv, LandedInv
    <3> QED BY <3>2, <3>3
  <2> QED BY <1>1, <1>6, <1>8, <2>1 DEF IInv, LandedInv, world, B
<1>11. AttemptInv'
  BY <1>1, <1>5 DEF AttemptInv
<1>12. SchedInv'
  BY <1>6 DEF SchedInv, Dispatching, Checking, Integration
<1> QED BY <1>7, <1>9, <1>10, <1>11, <1>12 DEF IInv

\* A batch is opened, or one that has landed is finished.
LEMMA IntegrateKeeps == ASSUME IInv, Integrate PROVE IInv'
<1>1. /\ sched = "loop" /\ Disturb
      /\ N > 0 /\ Latest.status \in {"approved", "review_skipped"}
      /\ UNCHANGED <<run, pause, merged, att, lock, log, world, used>>
  BY DEF Integrate
<1>2. CASE Landed
  <2>1. sched' = "finish" /\ UNCHANGED <<stage, batch>>
    BY <1>2 DEF Integrate
  <2>2. landed
    BY <1>2, LenProperties
    DEF Landed, LastCompleted, IInv, TypeOK, LandedInv, B
  <2>3. /\ TypeOK' /\ LandedInv' /\ FreshInv' /\ AttemptInv'
        /\ N' = N /\ Latest' = Latest
    BY <1>1, <2>1, <2>2, StageStep
    DEF IInv, TypeOK, LandedInv, world, Stages, Doing
  <2>4. SchedInv'
    BY <1>1, <2>1, <2>3
    DEF SchedInv, Dispatching, Checking, Integration, PostWorkerLock
  <2> QED BY <2>3, <2>4 DEF IInv
<1>3. CASE ~Landed
  <2>1. /\ B < MaxBatches /\ sched' = "build"
        /\ batch' = Append(batch, NewBatch) /\ stage' = "integration"
    BY <1>3 DEF Integrate
  <2>2. NewBatch \in Batch /\ NewBatch.hash = "none"
    BY DEF NewBatch, Batch
  <2>3. /\ batch' \in Seq(Batch) /\ Len(batch') = Len(batch) + 1
        /\ Len(batch) \in Nat
        /\ \A j \in 1..Len(batch) : batch'[j] = batch[j]
        /\ batch'[Len(batch) + 1] = NewBatch
    BY <2>1, <2>2, AppendProperties, LenProperties DEF IInv, TypeOK
  <2>4. command' \in [plan : SUBSET Action, age : 0..MaxAge] /\ FreshInv'
    BY <1>1, Older DEF IInv
  <2>5. TypeOK'
    BY <1>1, <2>1, <2>3, <2>4, ReconciliationAssumption
    DEF IInv, TypeOK, world, N, B, Doing
  <2>6. LandedInv'
    <3>1. ASSUME NEW j \in 1..Len(batch'), batch'[j].hash = "merge"
          PROVE  landed
      <4>1. j \in 1..Len(batch)
        BY <2>2, <2>3, <3>1
      <4> QED BY <2>3, <3>1, <4>1 DEF IInv, LandedInv, B
    <3> QED BY <1>1, <2>1, <3>1 DEF LandedInv, world, B
  <2>7. AttemptInv' /\ N' = N /\ Latest' = Latest
    BY <1>1 DEF IInv, AttemptInv, N, Latest
  <2>8. SchedInv'
    BY <1>1, <2>1, <2>7
    DEF SchedInv, Dispatching, Checking, Integration, PostWorkerLock
  <2> QED BY <2>4, <2>5, <2>6, <2>7, <2>8 DEF IInv
<1> QED BY <1>2, <1>3

-----------------------------------------------------------------------------
(* What anybody else does to the attempts                                  *)

\* An attempt is ended or judged, its worker ends, its lease does.
Later(a, b) ==
  /\ \/ b.status \in {a.status, "interrupted", "canceled"}
     \/ a.status = "reviewing" /\ b.status \in {"approved", "rework_required"}
  /\ b.pid = a.pid /\ b.result = a.result
  /\ b.worker \in {a.worker, "gone"}

\* Attempts that are only later are in order, wherever the scheduler stays.
LEMMA LaterKeeps ==
  ASSUME IInv, att' \in Seq(Attempt), N' = N,
         \A i \in 1..N : Later(att[i], att'[i]),
         used'.hands = 0 => used.hands = 0,
         \A i \in 1..N : used'.hands = 0 =>
           \/ att'[i].branch = att[i].branch
           \/ att[i].status \notin PostWorkerLock /\ sched' = "off",
         sched' \in {sched, "off", "loop"},
         N > 0 /\ sched \in Dispatching => Latest'.lease # "stale"
  PROVE  AttemptInv' /\ SchedInv'
<1>1. N \in Nat /\ N = Len(att) /\ N = Len(att')
  BY LenProperties DEF IInv, TypeOK, N
<1>2. \A i \in 1..N : AttemptOK(att[i], used.hands)
  BY <1>1 DEF IInv, AttemptInv, AllOK
<1>3. \A i \in 1..N : AttemptOK(att'[i], used'.hands)
  BY <1>2 DEF AttemptOK, Later, PostWorkerLock
<1>4. \A i \in 1..N : i < N => att'[i].status \in PassedOver
  BY <1>1 DEF IInv, AttemptInv, AllOK, Later, PassedOver, Terminal
<1>5. AttemptInv'
  BY <1>1, <1>3, <1>4 DEF AttemptInv, AllOK
<1>6. CASE N = 0 \/ sched' \in {"off", "loop"}
  <2>1. sched \notin Dispatching \cup {"work"} \cup Checking \cup Integration
          \/ sched' \in {"off", "loop"}
    BY <1>6 DEF IInv, SchedInv
  <2>2. SchedInv'
    BY <2>1 DEF SchedInv, Dispatching, Checking, Integration
  <2> QED BY <1>5, <2>2
<1>7. CASE N > 0 /\ sched' = sched /\ sched' \notin {"off", "loop"}
  <2>1. Latest = att[N] /\ Latest' = att'[N] /\ Later(Latest, Latest')
    BY <1>1, <1>7 DEF Latest
  <2>2. used'.hands = 0 => Latest'.branch = Latest.branch /\ used.hands = 0
    BY <1>1, <1>7, <2>1
  <2>3. SchedInv'
    BY <1>7, <2>1, <2>2
    DEF IInv, SchedInv, Later, Terminal, PostWorkerLock, Dispatching, Checking,
        Integration
  <2> QED BY <1>5, <2>3
<1> QED BY <1>1, <1>6, <1>7

\* One attempt is rewritten by somebody else.
LEMMA EditKeeps ==
  ASSUME IInv, Disturb, NEW i \in 1..N, NEW a \in Attempt,
         att' = [att EXCEPT ![i] = a], Later(att[i], a),
         UNCHANGED <<run, stage, pause, merged, lock, batch, log, world>>,
         sched' \in {sched, "off"},
         used' \in [crashes : 0..MaxCrashes, hands : 0..MaxHands],
         used'.hands = 0 => used.hands = 0 /\ a.branch = att[i].branch,
         i = N /\ sched \in Dispatching => a.lease # "stale"
  PROVE  IInv'
<1>1. command' \in [plan : SUBSET Action, age : 0..MaxAge] /\ FreshInv'
  BY Older DEF IInv
<1>2. att \in Seq(Attempt) /\ N \in Nat /\ N = Len(att)
  BY LenProperties DEF IInv, TypeOK, N
<1>3. /\ att' \in Seq(Attempt) /\ N' = N
      /\ \A j \in 1..N : att'[j] = IF j = i THEN a ELSE att[j]
  BY <1>2, Replaced DEF N
<1>4. TypeOK'
  BY ZenonT(30), <1>1, <1>2, <1>3 DEF IInv, TypeOK, world, N, B, Doing
<1>5. LandedInv'
  BY DEF IInv, LandedInv, world, B
<1>6. \A j \in 1..N : Later(att[j], att'[j])
  BY <1>3 DEF Later
<1>7. N > 0 /\ sched \in Dispatching => Latest'.lease # "stale"
  <2> SUFFICES ASSUME N > 0, sched \in Dispatching
               PROVE  Latest'.lease # "stale"
    OBVIOUS
  <2>1. Latest' = att'[N] /\ N \in 1..N
    BY <1>2, <1>3 DEF Latest
  <2>2. Latest.lease # "stale" /\ Latest = att[N]
    BY DEF IInv, SchedInv, Latest
  <2> QED BY <1>3, <2>1, <2>2
<1>8. AttemptInv' /\ SchedInv'
  BY <1>2, <1>3, <1>6, <1>7, LaterKeeps
<1> QED BY <1>1, <1>4, <1>5, <1>8 DEF IInv

\* A process ends.
LEMMA WorkerEndsKeeps ==
  ASSUME IInv, NEW i \in DOMAIN att, WorkerEnds(i) PROVE IInv'
<1> DEFINE a == [att[i] EXCEPT !.worker = "gone"]
<1>1. att \in Seq(Attempt) /\ DOMAIN att = 1..N /\ N \in Nat
  BY LenProperties DEF IInv, TypeOK, N
<1>2. att[i] \in Attempt /\ i \in 1..N
  BY <1>1, ElementOfSeq DEF N
<1>3. a \in Attempt /\ Later(att[i], a) /\ a.branch = att[i].branch
      /\ a.lease = att[i].lease
  BY <1>2 DEF Attempt, Later
<1>4. i = N /\ sched \in Dispatching => a.lease # "stale"
  BY <1>3 DEF IInv, SchedInv, Latest
<1> HIDE DEF a
<1>5. att' = [att EXCEPT ![i] = a]
  BY DEF WorkerEnds, a
<1> QED BY <1>2, <1>3, <1>4, <1>5, EditKeeps
        DEF WorkerEnds, Elsewhere, world, IInv, TypeOK

\* The lease of an attempt that is not being dispatched ends.
LEMMA LeaseEndsKeeps ==
  ASSUME IInv, NEW i \in DOMAIN att, LeaseEnds(i) PROVE IInv'
<1> DEFINE a == [att[i] EXCEPT !.lease = "stale"]
<1>1. att \in Seq(Attempt) /\ DOMAIN att = 1..N /\ N \in Nat
  BY LenProperties DEF IInv, TypeOK, N
<1>2. att[i] \in Attempt /\ i \in 1..N
  BY <1>1, ElementOfSeq DEF N
<1>3. a \in Attempt /\ Later(att[i], a) /\ a.branch = att[i].branch
  BY <1>2 DEF Attempt, Later
<1> HIDE DEF a
<1>5. att' = [att EXCEPT ![i] = a]
  BY DEF LeaseEnds, a
<1> QED BY <1>2, <1>3, <1>5, EditKeeps
        DEF LeaseEnds, Elsewhere, world, IInv, TypeOK

\* The scheduler dies, and its worker may.
LEMMA CrashKeeps == ASSUME IInv, Crash PROVE IInv'
<1>1. /\ used' \in [crashes : 0..MaxCrashes, hands : 0..MaxHands]
      /\ used'.hands = used.hands
  <2>1. /\ used \in [crashes : 0..MaxCrashes, hands : 0..MaxHands]
        /\ used.crashes < MaxCrashes
        /\ used' = [used EXCEPT !.crashes = @ + 1]
    BY DEF Crash, IInv, TypeOK
  <2>2. used.crashes + 1 \in 0..MaxCrashes
    BY <2>1, ReconciliationAssumption
  <2> QED BY <2>1, <2>2
<1>2. /\ sched' = "off" /\ Disturb
      /\ UNCHANGED <<run, stage, pause, merged, lock, batch, log, world>>
  BY DEF Crash
<1>3. CASE UNCHANGED att
  <2>1. command' \in [plan : SUBSET Action, age : 0..MaxAge] /\ FreshInv'
    BY <1>2, Older DEF IInv
  <2>2. TypeOK'
    BY <1>1, <1>2, <1>3, <2>1 DEF IInv, TypeOK, world, N, B, Doing
  <2>3. LandedInv' /\ AttemptInv'
    BY <1>1, <1>2, <1>3 DEF IInv, LandedInv, AttemptInv, world, B
  <2>4. SchedInv'
    BY <1>2 DEF SchedInv, Dispatching, Checking, Integration
  <2> QED BY <2>1, <2>2, <2>3, <2>4 DEF IInv
<1>4. CASE N > 0 /\ Latest.worker = "up" /\ Write("worker", "gone")
  <2> DEFINE a == [Latest EXCEPT !["worker"] = "gone"]
  <2>1. att' = [att EXCEPT ![N] = a]
    BY <1>4, Written DEF Put
  <2>2. N \in 1..N /\ Latest = att[N] /\ Latest \in Attempt
    BY <1>4, LatestOK DEF Latest
  <2>3. a \in Attempt /\ Later(att[N], a) /\ a.branch = att[N].branch
        /\ a.lease = att[N].lease
    BY <2>2 DEF Attempt, Later
  <2>4. sched \in Dispatching => a.lease # "stale"
    BY <2>2, <2>3 DEF IInv, SchedInv
  <2> HIDE DEF a
  <2> QED BY <1>1, <1>2, <2>1, <2>2, <2>3, <2>4, EditKeeps
<1> QED BY <1>3, <1>4 DEF Crash

\* A person takes a worktree or a branch away, or leaves the target branch.
LEMMA HandTaken ==
  ASSUME IInv, Hand
  PROVE  /\ Disturb /\ UNCHANGED <<run, stage, pause, merged, lock, log, sched>>
         /\ used' \in [crashes : 0..MaxCrashes, hands : 0..MaxHands]
         /\ used'.hands # 0
<1>1. /\ used \in [crashes : 0..MaxCrashes, hands : 0..MaxHands]
      /\ used.hands < MaxHands /\ used' = [used EXCEPT !.hands = @ + 1]
  BY DEF Hand, IInv, TypeOK
<1>2. used.hands + 1 \in 1..MaxHands
  BY <1>1, ReconciliationAssumption
<1> QED BY <1>1, <1>2 DEF Hand, Elsewhere

\* A person takes something from the latest attempt:
LEMMA LatestEdited ==
  ASSUME IInv, Hand, N > 0, NEW a \in Attempt, Put(a), Later(Latest, a),
         a.lease = Latest.lease, UNCHANGED <<batch, world>>
  PROVE  IInv'
<1>1. N \in 1..N /\ Latest = att[N]
  BY LatestOK DEF Latest
<1>2. sched \in Dispatching => a.lease # "stale"
  BY DEF IInv, SchedInv
<1> QED BY <1>1, <1>2, HandTaken, EditKeeps DEF Put

\* its worktree,
LEMMA RemoveTreeKeeps == ASSUME IInv, RemoveTree PROVE IInv'
<1> DEFINE a == [Latest EXCEPT !.tree = FALSE]
<1>1. N > 0 /\ Put(a) /\ Hand /\ UNCHANGED <<batch, world>>
  BY Zenon DEF RemoveTree, Write, Put, Latest
<1>2. a \in Attempt /\ Later(Latest, a) /\ a.lease = Latest.lease
  BY <1>1, LatestOK DEF Attempt, Later
<1> HIDE DEF a
<1> QED BY <1>1, <1>2, LatestEdited

\* What a person does to a branch of the batch or to the checkout leaves the
\* attempts alone.
LEMMA HandKeeps ==
  ASSUME IInv, Hand, att' = att, batch' \in Seq(Batch), B' = B,
         \A j \in 1..B : batch'[j].hash = batch[j].hash,
         repo' \in {"target", "away"}, landed' = landed
  PROVE  IInv'
<1>1. /\ Disturb /\ UNCHANGED <<run, stage, pause, merged, lock, log, sched>>
      /\ used' \in [crashes : 0..MaxCrashes, hands : 0..MaxHands]
      /\ used'.hands # 0
  BY HandTaken
<1>2. command' \in [plan : SUBSET Action, age : 0..MaxAge] /\ FreshInv'
  BY <1>1, Older DEF IInv
<1>3. TypeOK'
  BY <1>1, <1>2 DEF IInv, TypeOK, N
<1>4. LandedInv'
  BY <1>1 DEF IInv, LandedInv
<1>5. AttemptInv'
  BY <1>1 DEF IInv, AttemptInv, AllOK, AttemptOK
<1>6. SchedInv'
  BY <1>1 DEF IInv, SchedInv, N, Latest
<1> QED BY <1>2, <1>3, <1>4, <1>5, <1>6 DEF IInv

\* A person checks out another branch,
LEMMA LeaveTargetKeeps == ASSUME IInv, LeaveTarget PROVE IInv'
<1>1. batch' \in Seq(Batch) /\ B' = B
  BY DEF LeaveTarget, IInv, TypeOK, B
<1> QED BY <1>1, HandKeeps DEF LeaveTarget

\* or takes the branch of an attempt or of a batch away.
LEMMA RemoveBranchKeeps == ASSUME IInv, RemoveBranch PROVE IInv'
<1>1. Hand /\ UNCHANGED world
  BY DEF RemoveBranch
<1>2. CASE N > 0 /\ Latest.branch /\ Write("branch", FALSE) /\ UNCHANGED batch
  <2> DEFINE a == [Latest EXCEPT !["branch"] = FALSE]
  <2>1. Put(a)
    BY <1>2, Zenon DEF Write, Put, Latest
  <2>2. a \in Attempt /\ Later(Latest, a) /\ a.lease = Latest.lease
    BY <1>2, LatestOK DEF Attempt, Later
  <2> HIDE DEF a
  <2> QED BY <1>1, <1>2, <2>1, <2>2, LatestEdited
<1>3. CASE B > 0 /\ WriteBatch("branch", FALSE) /\ UNCHANGED att
  <2> DEFINE b == [batch[B] EXCEPT !["branch"] = FALSE]
  <2>1. batch' = [batch EXCEPT ![B] = b]
    BY <1>3, Zenon DEF WriteBatch
  <2>2. b \in Batch /\ b.hash = batch[B].hash
    BY <1>3, LastBatch DEF Batch
  <2>3. batch \in Seq(Batch) /\ B = Len(batch) /\ B \in Nat
    BY LenProperties DEF IInv, TypeOK, B
  <2> HIDE DEF b
  <2>4. /\ batch' \in Seq(Batch) /\ B' = B
        /\ \A j \in 1..B : batch'[j] = IF j = B THEN b ELSE batch[j]
    BY <2>1, <2>2, <2>3, Replaced DEF B
  <2>5. repo' \in {"target", "away"} /\ landed' = landed
    BY <1>1 DEF world, IInv, TypeOK
  <2> QED BY <1>1, <1>3, <2>2, <2>4, <2>5, HandKeeps
<1> QED BY <1>2, <1>3 DEF RemoveBranch

\* A new attempt begins beside one that nobody drives, or after one that ended.
LEMMA BeginKeeps == ASSUME IInv, Begin PROVE IInv'
<1>1. /\ Disturb /\ sched' = "lease" /\ N < MaxAttempts
      /\ N > 0 => Latest.status \in {"running", "failed", "interrupted",
                                    "rework_required"}
      /\ att' = Append(att, NewAttempt) /\ lock' = TRUE
      /\ UNCHANGED <<run, stage, pause, merged, batch, log, world, used>>
  BY DEF Begin, Go
<1>2. NewAttempt \in Attempt /\ AttemptOK(NewAttempt, used.hands)
  BY DEF NewAttempt, Attempt, AttemptOK, PostWorkerLock
<1>3. /\ att' \in Seq(Attempt) /\ Len(att') = N + 1 /\ N \in Nat
      /\ N = Len(att)
      /\ \A i \in 1..N : att'[i] = att[i]
      /\ att'[N + 1] = NewAttempt
  BY <1>1, <1>2, AppendProperties, LenProperties DEF IInv, TypeOK, N
<1>4. command' \in [plan : SUBSET Action, age : 0..MaxAge] /\ FreshInv'
  BY <1>1, Older DEF IInv
<1>5. TypeOK'
  BY <1>1, <1>3, <1>4, ReconciliationAssumption
  DEF IInv, TypeOK, world, N, B, Doing, Dispatching
<1>6. LandedInv'
  BY <1>1 DEF IInv, LandedInv, world, B
<1>7. AttemptInv'
  <2>1. ASSUME NEW i \in 1..Len(att')
        PROVE  /\ AttemptOK(att'[i], used.hands)
               /\ i < Len(att') => att'[i].status \in PassedOver
    <3>1. CASE i = N + 1
      BY <1>2, <1>3, <3>1
    <3>2. CASE i \in 1..N
      <4>1. att'[i] = att[i] /\ AttemptOK(att[i], used.hands)
        BY <1>3, <3>2 DEF IInv, AttemptInv, AllOK
      <4>2. att[i].status \in PassedOver
        <5>1. CASE i < N
          BY <1>3, <3>2, <5>1 DEF IInv, AttemptInv, AllOK
        <5>2. CASE i = N
          BY <1>1, <1>3, <3>2, <5>2 DEF Latest, PassedOver, Terminal
        <5> QED BY <1>3, <3>2, <5>1, <5>2
      <4> QED BY <4>1, <4>2
    <3> QED BY <1>3, <3>1, <3>2
  <2> QED BY <1>1, <2>1 DEF AttemptInv, AllOK
<1>8. N' > 0 /\ Latest' = NewAttempt
  BY <1>3 DEF N, Latest
<1>9. SchedInv'
  BY <1>1, <1>8
  DEF SchedInv, NewAttempt, Dispatching, Checking, Integration
<1> QED BY <1>4, <1>5, <1>6, <1>7, <1>9 DEF IInv

-----------------------------------------------------------------------------
(* What a report makes of the rows                                         *)

\* An attempt a report is applied to is only later.
LEMMA ApplyToLater ==
  ASSUME IInv, NEW plan, NEW i \in 1..N
  PROVE  /\ ApplyTo(i, plan) \in Attempt /\ Later(att[i], ApplyTo(i, plan))
         /\ ApplyTo(i, plan).branch = att[i].branch
         /\ ApplyTo(i, plan).lease = att[i].lease
<1>1. att[i] \in Attempt
  BY ElementOfSeq, LenProperties DEF IInv, TypeOK, N
<1>2. PICK s : /\ ApplyTo(i, plan) = [att[i] EXCEPT !.status = s]
               /\ \/ s \in {att[i].status, "interrupted", "canceled"}
                  \/ /\ att[i].status = "reviewing"
                     /\ s \in {"approved", "rework_required"}
  <2>1. att[i] = [att[i] EXCEPT !.status = att[i].status]
    BY <1>1 DEF Attempt
  <2> QED BY <2>1 DEF ApplyTo, Judged
<1> QED BY <1>1, <1>2 DEF Attempt, Later, Terminal

\* The rows a report is applied to, and what it leaves alone.
LEMMA Applied ==
  ASSUME IInv, NEW plan, att' = After(plan).att, batch' = After(plan).batch
  PROVE  /\ att' \in Seq(Attempt) /\ N' = N
         /\ \A i \in 1..N : /\ att'[i] = ApplyTo(i, plan)
                            /\ Later(att[i], att'[i])
                            /\ att'[i].branch = att[i].branch
                            /\ att'[i].lease = att[i].lease
         /\ batch' \in Seq(Batch) /\ B' = B
         /\ \A j \in 1..B : /\ batch'[j] = BatchAfter(j, plan)
                            /\ batch'[j].hash = batch[j].hash
<1>1. /\ DOMAIN att = 1..N /\ N \in Nat /\ N = Len(att)
      /\ DOMAIN batch = 1..B /\ B \in Nat /\ B = Len(batch)
      /\ batch \in Seq(Batch)
  BY LenProperties DEF IInv, TypeOK, N, B
<1>2. /\ att' = [i \in 1..N |-> ApplyTo(i, plan)]
      /\ batch' = [j \in 1..B |-> BatchAfter(j, plan)]
  BY <1>1 DEF After
<1>3. \A i \in 1..N : ApplyTo(i, plan) \in Attempt
  BY ApplyToLater
<1>4. \A j \in 1..B : /\ BatchAfter(j, plan) \in Batch
                      /\ BatchAfter(j, plan).hash = batch[j].hash
  <2> TAKE j \in 1..B
  <2>1. batch[j] \in Batch
    BY <1>1, ElementOfSeq
  <2> QED BY <2>1 DEF BatchAfter, Batch
<1>5. att' \in [1..N -> Attempt] /\ batch' \in [1..B -> Batch]
  BY <1>2, <1>3, <1>4
<1>6. /\ att' \in Seq(Attempt) /\ Len(att') = N
      /\ batch' \in Seq(Batch) /\ Len(batch') = B
  BY <1>1, <1>5, AsSeq
<1>7. N' = N /\ B' = B
  BY <1>6 DEF N, B
<1> QED BY <1>2, <1>4, <1>6, <1>7, ApplyToLater

\* A report completes no stage.
LEMMA StageAfterType ==
  ASSUME TypeOK, NEW plan
  PROVE  /\ StageAfter(plan) \in Stages
         /\ StageAfter(plan) = "completed" => stage = "completed"
BY DEF StageAfter, TypeOK, Stages, StageEnded

\* Whoever applies a report, and whatever it was a report of.
LEMMA ApplyKeeps ==
  ASSUME IInv, NEW plan, att' = After(plan).att, batch' = After(plan).batch,
         lock' \in BOOLEAN, stage' \in Stages,
         stage' = "completed" => stage = "completed",
         UNCHANGED <<run, pause, merged, log, world, used>>,
         command' \in [plan : SUBSET Action, age : 0..MaxAge],
         sched' \in {sched, "off", "loop"}
  PROVE  TypeOK' /\ LandedInv' /\ AttemptInv' /\ SchedInv'
<1>1. /\ att' \in Seq(Attempt) /\ N' = N
      /\ \A i \in 1..N : /\ Later(att[i], att'[i])
                         /\ att'[i].branch = att[i].branch
                         /\ att'[i].lease = att[i].lease
      /\ batch' \in Seq(Batch) /\ B' = B
      /\ \A j \in 1..B : batch'[j].hash = batch[j].hash
  BY Applied
<1>2. TypeOK'
  BY <1>1 DEF IInv, TypeOK, Stages, StageEnded, world, Doing, Dispatching
<1>3. LandedInv'
  BY <1>1 DEF IInv, LandedInv, world
<1>4. N > 0 /\ sched \in Dispatching => Latest'.lease # "stale"
  <2> SUFFICES ASSUME N > 0, sched \in Dispatching
               PROVE  Latest'.lease # "stale"
    OBVIOUS
  <2>1. Latest' = att'[N] /\ N \in 1..N
    BY <1>1, LatestOK DEF Latest
  <2>2. Latest.lease # "stale" /\ Latest = att[N]
    BY DEF IInv, SchedInv, Latest
  <2> QED BY <1>1, <2>1, <2>2
<1>5. AttemptInv' /\ SchedInv'
  BY <1>1, <1>4, LaterKeeps
<1> QED BY <1>2, <1>3, <1>5

\* The start of a scheduler applies a report of its own,
LEMMA StartKeeps == ASSUME IInv, Start PROVE IInv'
<1>1. /\ att' = After(Plan).att /\ batch' = After(Plan).batch
      /\ sched' \in {"off", "loop"} /\ Disturb
      /\ UNCHANGED <<run, pause, merged, log, world, used>>
  BY DEF Start
<1>2. lock' \in BOOLEAN
  BY DEF Start, After, IInv, TypeOK
<1>3. stage' \in Stages /\ (stage' = "completed" => stage = "completed")
  <2>1. stage' \in {StageAfter(Plan), "running"}
    BY DEF Start, After
  <2> QED BY <2>1, StageAfterType DEF IInv, Stages
<1>4. command' \in [plan : SUBSET Action, age : 0..MaxAge] /\ FreshInv'
  BY <1>1, Older DEF IInv
<1>5. TypeOK' /\ LandedInv' /\ AttemptInv' /\ SchedInv'
  BY <1>1, <1>2, <1>3, <1>4, ApplyKeeps
<1> QED BY <1>4, <1>5 DEF IInv

\* and a command the one it has read, which may have aged.
LEMMA ReconcileAppliesKeeps == ASSUME IInv, ReconcileApplies PROVE IInv'
<1>1. /\ att' = After(command.plan).att /\ batch' = After(command.plan).batch
      /\ sched' = sched /\ command' = [plan |-> {}, age |-> 0]
      /\ UNCHANGED <<run, pause, merged, log, world, used>>
  BY DEF ReconcileApplies, Apply, NoCommand
<1>2. lock' \in BOOLEAN
  BY DEF ReconcileApplies, Apply, After, IInv, TypeOK
<1>3. stage' \in Stages /\ (stage' = "completed" => stage = "completed")
  BY StageAfterType DEF ReconcileApplies, Apply, After, IInv
<1>4. command' \in [plan : SUBSET Action, age : 0..MaxAge] /\ FreshInv'
  BY <1>1, ReconciliationAssumption DEF FreshInv, Fresh
<1>5. TypeOK' /\ LandedInv' /\ AttemptInv' /\ SchedInv'
  BY <1>1, <1>2, <1>3, <1>4, ApplyKeeps
<1> QED BY <1>4, <1>5 DEF IInv

\* The stage is canceled, and every running attempt with it.
LEMMA CancelStageKeeps == ASSUME IInv, CancelStage PROVE IInv'
<1> DEFINE end(a) == CASE a.status # "running" -> a
                       [] a.status = "running" /\ Alive(a) ->
                            [a EXCEPT !.status = "canceled", !.worker = "gone"]
                       [] OTHER -> [a EXCEPT !.status = "interrupted"]
<1>1. /\ Disturb /\ sched' = sched /\ stage' = "canceled"
      /\ UNCHANGED <<run, pause, merged, lock, batch, log, world, used>>
  BY DEF CancelStage
<1>2. att \in Seq(Attempt) /\ DOMAIN att = 1..N /\ N \in Nat /\ N = Len(att)
  BY LenProperties DEF IInv, TypeOK, N
<1>3. att' = [i \in 1..N |-> end(att[i])]
  BY <1>2 DEF CancelStage
<1>4. \A a \in Attempt : /\ end(a) \in Attempt /\ Later(a, end(a))
                        /\ end(a).branch = a.branch /\ end(a).lease = a.lease
  <2> TAKE a \in Attempt
  <2>1. \/ end(a) = a
        \/ end(a) = [a EXCEPT !.status = "canceled", !.worker = "gone"]
        \/ end(a) = [a EXCEPT !.status = "interrupted"]
    OBVIOUS
  <2> HIDE DEF end
  <2> QED BY <2>1 DEF Attempt, Later, Terminal
<1> HIDE DEF end
<1>5. \A i \in 1..N : att[i] \in Attempt
  BY <1>2, ElementOfSeq
<1>6. att' \in [1..N -> Attempt]
  BY <1>3, <1>4, <1>5
<1>7. att' \in Seq(Attempt) /\ N' = N
  BY <1>2, <1>6, AsSeq DEF N
<1>8. \A i \in 1..N : /\ Later(att[i], att'[i])
                      /\ att'[i].branch = att[i].branch
                      /\ att'[i].lease = att[i].lease
  BY <1>3, <1>4, <1>5
<1>9. command' \in [plan : SUBSET Action, age : 0..MaxAge] /\ FreshInv'
  BY <1>1, Older DEF IInv
<1>10. TypeOK'
  BY <1>1, <1>7, <1>9 DEF IInv, TypeOK, StageEnded, world, B
<1>11. LandedInv'
  BY <1>1 DEF IInv, LandedInv, world, B
<1>12. N > 0 /\ sched \in Dispatching => Latest'.lease # "stale"
  <2> SUFFICES ASSUME N > 0, sched \in Dispatching
               PROVE  Latest'.lease # "stale"
    OBVIOUS
  <2>1. Latest' = att'[N] /\ N \in 1..N
    BY <1>2, <1>7 DEF Latest
  <2>2. Latest.lease # "stale" /\ Latest = att[N]
    BY DEF IInv, SchedInv, Latest
  <2> QED BY <1>8, <2>1, <2>2
<1>13. AttemptInv' /\ SchedInv'
  BY <1>1, <1>7, <1>8, <1>12, LaterKeeps
<1> QED BY <1>9, <1>10, <1>11, <1>13 DEF IInv

\* The worktree and the branch go once the work of the attempt has landed.
LEMMA CleanKeeps == ASSUME IInv, Clean PROVE IInv'
<1> DEFINE strip(i) == IF i = N
                       THEN [att[i] EXCEPT !.tree = FALSE, !.branch = FALSE]
                       ELSE att[i]
           b == [batch[B] EXCEPT !["branch"] = FALSE]
<1>1. /\ Disturb /\ sched = "clean" /\ sched' = "off"
      /\ batch' = [batch EXCEPT ![B] = b]
      /\ UNCHANGED <<run, stage, pause, merged, lock, log, world, used>>
  BY DEF Clean, Go, WriteBatch
<1>2. /\ att \in Seq(Attempt) /\ DOMAIN att = 1..N /\ N \in Nat /\ N = Len(att)
      /\ batch \in Seq(Batch) /\ B \in Nat /\ B = Len(batch)
  BY LenProperties DEF IInv, TypeOK, N, B
<1>3. att' = [i \in 1..N |-> strip(i)]
  BY <1>2 DEF Clean
<1>4. \A i \in 1..N : att[i] \in Attempt
  BY <1>2, ElementOfSeq
<1>5. att[N].status \notin PostWorkerLock
  BY <1>1 DEF IInv, SchedInv, Integration, Latest
<1>6. \A i \in 1..N : /\ strip(i) \in Attempt /\ Later(att[i], strip(i))
                      /\ \/ strip(i).branch = att[i].branch
                         \/ att[i].status \notin PostWorkerLock
  BY ZenonT(30), <1>4, <1>5 DEF Attempt, Later
<1> HIDE DEF strip
<1>7. att' \in [1..N -> Attempt]
  BY <1>3, <1>6
<1>8. att' \in Seq(Attempt) /\ N' = N
  BY <1>2, <1>7, AsSeq DEF N
<1>9. \A i \in 1..N : /\ Later(att[i], att'[i])
                      /\ \/ att'[i].branch = att[i].branch
                         \/ att[i].status \notin PostWorkerLock
  BY <1>3, <1>6
<1>10. B > 0 => b \in Batch /\ b.hash = batch[B].hash
  BY LastBatch DEF Batch
<1> HIDE DEF b
<1>11. /\ batch' \in Seq(Batch) /\ B' = B
       /\ \A j \in 1..B : batch'[j].hash = batch[j].hash
  <2>1. B \in 1..Len(batch) => b \in Batch
    BY <1>2, <1>10
  <2>2. /\ batch' \in Seq(Batch) /\ Len(batch') = B
        /\ \A j \in 1..B : batch'[j] = IF j = B THEN b ELSE batch[j]
    BY <1>1, <1>2, <2>1, Replaced
  <2> QED BY <1>2, <1>10, <2>2 DEF B
<1>12. command' \in [plan : SUBSET Action, age : 0..MaxAge] /\ FreshInv'
  BY <1>1, Older DEF IInv
<1>13. TypeOK'
  BY <1>1, <1>8, <1>11, <1>12 DEF IInv, TypeOK, world, Doing
<1>14. LandedInv'
  BY <1>1, <1>11 DEF IInv, LandedInv, world
<1>15. sched \notin Dispatching
  BY <1>1 DEF Dispatching
<1>16. AttemptInv' /\ SchedInv'
  BY <1>1, <1>8, <1>9, <1>15, LaterKeeps
<1> QED BY <1>12, <1>13, <1>14, <1>16 DEF IInv

-----------------------------------------------------------------------------
(* A report                                                                *)

\* A report is a function of the rows and of the repository.
LEMMA SameReport ==
  ASSUME UNCHANGED <<rows, world>>
  PROVE  Plan' = Plan
<1>1. /\ run' = run /\ stage' = stage /\ merged' = merged /\ att' = att
      /\ lock' = lock /\ batch' = batch /\ log' = log
      /\ repo' = repo /\ landed' = landed
  BY DEF rows, world
<1>2. N' = N /\ B' = B /\ Latest' = Latest /\ InHead' = InHead
  BY <1>1 DEF N, B, Latest, InHead
<1>3. HasStageReviewEvidence(B)' = HasStageReviewEvidence(B)
  BY <1>1, <1>2 DEF HasStageReviewEvidence
<1>4. TrustedStageReview' = TrustedStageReview
  BY <1>1, <1>2 DEF TrustedStageReview
<1>5. ASSUME NEW i PROVE AttemptFindings(i)' = AttemptFindings(i)
  <2>1. att[i]' = att[i]
    BY <1>1
  <2>2. CoveredByStageReview(att[i])' = CoveredByStageReview(att[i])
    BY <1>3, <1>4, <2>1 DEF CoveredByStageReview
  <2>3. Verifiable(att[i])' = Verifiable(att[i])
    BY <1>2, <2>1 DEF Verifiable
  <2>4. ApprovedFindings(i)' = ApprovedFindings(i)
    BY <2>1, <2>2, <2>3 DEF ApprovedFindings
  <2>5. RunningFindings(i)' = RunningFindings(i)
    BY <2>1 DEF RunningFindings
  <2>6. WorkerCompletedFindings(i)' = WorkerCompletedFindings(i)
    BY <2>1 DEF WorkerCompletedFindings
  <2>7. ValidatingFindings(i)' = ValidatingFindings(i)
    BY <2>1 DEF ValidatingFindings
  <2>8. ReviewingFindings(i)' = ReviewingFindings(i)
    BY <2>1 DEF ReviewingFindings
  <2> QED BY <2>1, <2>4, <2>5, <2>6, <2>7, <2>8 DEF AttemptFindings
<1>6. IntegrationFindings' = IntegrationFindings
  BY <1>1, <1>2 DEF IntegrationFindings, MergeInGit, TargetMerged
<1>7. LockFindings' = LockFindings
  BY <1>1, <1>2 DEF LockFindings, OwnerIsGone
<1>8. CanceledRunFindings' = CanceledRunFindings
  BY <1>1 DEF CanceledRunFindings
<1>9. StageFindings' = StageFindings
  BY <1>1 DEF StageFindings
<1>10. Findings' = Findings
  <2> DEFINE F == UNION {AttemptFindings(i) : i \in DOMAIN att}
  <2>1. F' = F
    BY <1>1, <1>5
  <2>2. Findings = IF run = "canceled" THEN CanceledRunFindings
                   ELSE StageFindings \cup LockFindings
                        \cup When(B > 0, IntegrationFindings) \cup F
    BY DEF Findings
  <2> HIDE DEF F
  <2>3. Findings' = IF run' = "canceled" THEN CanceledRunFindings'
                    ELSE StageFindings' \cup LockFindings'
                         \cup When(B' > 0, IntegrationFindings') \cup F'
    BY DEF Findings, F, When
  <2> QED BY <1>1, <1>2, <1>6, <1>7, <1>8, <1>9, <2>1, <2>2, <2>3
<1> QED BY <1>10 DEF Plan

-----------------------------------------------------------------------------
(* What a report says and asks for                                         *)

\* What is found of an attempt: of which entity, and why it asks for what.
LEMMA AttemptFound ==
  ASSUME NEW i, NEW f \in AttemptFindings(i), att[i] \in Attempt
  PROVE  /\ \/ f.entity = "attempt" /\ f.n = i
            \/ /\ f.entity = "stage" /\ f.n = 1 /\ f.severity = "blocking"
               /\ f.kind = "worker_completed_blocking"
         /\ f.kind \in {"pid_missing", "no_pid_stale"} =>
              /\ att[i].status = "running"
              /\ Gone(att[i]) \/ (~att[i].pid /\ att[i].lease = "stale")
         /\ f.kind = "worker_result_missing" =>
              /\ att[i].status \in PostWorkerLock /\ att[i].result = "none"
         /\ f.kind = "review_state_mismatch" =>
              /\ att[i].status = "reviewing"
              /\ att[i].review \in {"approved", "rework_required"}
         /\ f.kind \notin {"integration_stalled", "target_merged_already",
                           "lock_orphaned", "lock_owner_pid_gone",
                           "canceled_run_recovery"}
<1>1. att[i].pid \in BOOLEAN
  BY DEF Attempt
<1>2. CASE att[i].status = "approved"
  BY <1>2 DEF AttemptFindings, ApprovedFindings, When, Finding
<1>3. CASE att[i].status = "running"
  BY <1>1, <1>3
  DEF AttemptFindings, RunningFindings, Finding, Alive, Gone, NoPidStale
<1>4. CASE att[i].status = "worker_completed"
  BY <1>4 DEF AttemptFindings, WorkerCompletedFindings, PauseStage, Finding,
              PostWorkerLock
<1>5. CASE att[i].status = "validating"
  BY <1>5 DEF AttemptFindings, ValidatingFindings, PauseStage, Finding,
              PostWorkerLock
<1>6. CASE att[i].status = "reviewing"
  BY <1>6 DEF AttemptFindings, ReviewingFindings, Finding
<1> QED BY <1>2, <1>3, <1>4, <1>5, <1>6 DEF AttemptFindings

\* What is found of the locks,
LEMMA LockFound ==
  ASSUME NEW f \in LockFindings
  PROVE  /\ f.entity = "lock" /\ f.n = 1 /\ lock
         /\ \/ /\ f.kind = "lock_owner_unknown" /\ f.severity = "blocking"
               /\ N = 0
            \/ /\ f.kind \in {"lock_orphaned", "lock_owner_pid_gone"}
               /\ f.severity = "warning" /\ N > 0
               /\ \/ Latest.status \in Terminal
                  \/ /\ Latest.status \notin Terminal \cup PostWorkerLock
                     /\ Gone(Latest)
BY DEF LockFindings, Finding, OwnerIsGone

\* of the latest batch,
LEMMA BatchFound ==
  ASSUME NEW f \in IntegrationFindings
  PROVE  /\ f.entity = "integration" /\ f.n = B
         /\ batch[B].status \in {"integrating", "pending"}
         /\ f.kind \in {"integration_stalled", "target_merged_already",
                        "integration_missing"}
BY DEF IntegrationFindings, Finding

\* of the stage,
LEMMA StageFound ==
  ASSUME NEW f \in StageFindings
  PROVE  /\ f.entity = "stage" /\ f.n = 1
         /\ f.kind = "completed_stage_with_incomplete_tasks"
         /\ stage = "completed" /\ ~merged
BY DEF StageFindings, When, Finding

\* and of a canceled run.
LEMMA CanceledFound ==
  ASSUME NEW f \in CanceledRunFindings
  PROVE  /\ f.severity = "warning" /\ f.kind = "canceled_run_recovery"
         /\ \/ f.entity = "stage" /\ f.n = 1
            \/ f.entity = "attempt" /\ f.n \in DOMAIN att
BY DEF CanceledRunFindings, When, Finding

\* A report is about a canceled run or about each of its parts.
LEMMA Found ==
  ASSUME NEW f \in Findings, IInv
  PROVE  \/ run = "canceled" /\ f \in CanceledRunFindings
         \/ /\ run # "canceled"
            /\ \/ f \in StageFindings
               \/ f \in LockFindings
               \/ B > 0 /\ f \in IntegrationFindings
               \/ \E i \in 1..N : f \in AttemptFindings(i)
<1>1. DOMAIN att = 1..N
  BY LenProperties DEF IInv, TypeOK, N
<1> QED BY <1>1 DEF Findings, When

\* The actions of a plan name rows by their number.
LEMMA PlanType == ASSUME IInv PROVE Plan \subseteq Action
<1>1. /\ N \in Nat /\ DOMAIN att = 1..N /\ B \in Nat
      /\ \A i \in 1..N : att[i] \in Attempt
  BY ElementOfSeq, LenProperties DEF IInv, TypeOK, N, B
<1>2. ASSUME NEW f \in Findings PROVE f.n \in Nat
  BY <1>1, Found, AttemptFound, LockFound, BatchFound, StageFound,
     CanceledFound
<1>3. ASSUME NEW f \in Findings PROVE SafeAction(f) \subseteq Action
  BY <1>2 DEF SafeAction, Action
<1> QED BY <1>3 DEF Plan

\* Which findings ask for an action.
LEMMA AsksFor ==
  ASSUME NEW f, NEW a \in SafeAction(f)
  PROVE  /\ a.n = f.n
         /\ \/ /\ a.do = "interrupt"
               /\ f.kind \in {"pid_missing", "no_pid_stale",
                              "worker_result_missing"}
            \/ /\ a.do = "pause" /\ f.entity = "stage"
               /\ f.kind = "worker_completed_blocking"
            \/ a.do = "by_review" /\ f.kind = "review_state_mismatch"
            \/ /\ a.do = "complete"
               /\ f.kind \in {"integration_stalled", "target_merged_already"}
            \/ /\ a.do = "release"
               /\ f.kind \in {"lock_orphaned", "lock_owner_pid_gone"}
            \/ /\ a.do \in {"cancel", "cancel_stage"}
               /\ f.kind = "canceled_run_recovery"
BY DEF SafeAction

\* What it asks for, and of what, while the run is not canceled.
LEMMA Asks ==
  ASSUME IInv, run # "canceled"
  PROVE  /\ \A i \in Asked(Plan, "interrupt") :
              /\ i \in 1..N
              /\ \/ /\ att[i].status = "running"
                    /\ \/ Gone(att[i])
                       \/ ~att[i].pid /\ att[i].lease = "stale"
                 \/ /\ att[i].status \in PostWorkerLock
                    /\ att[i].result = "none"
         /\ \A i \in Asked(Plan, "by_review") :
              /\ i \in 1..N /\ att[i].status = "reviewing"
              /\ att[i].review \in {"approved", "rework_required"}
         /\ \A j \in Asked(Plan, "complete") :
              /\ j = B /\ B > 0
              /\ batch[B].status \in {"integrating", "pending"}
         /\ Asked(Plan, "release") # {} =>
              /\ N > 0
              /\ \/ Latest.status \in Terminal
                 \/ /\ Latest.status \notin Terminal \cup PostWorkerLock
                    /\ Gone(Latest)
         /\ Asked(Plan, "pause") # {} => Blocked
         /\ Asked(Plan, "cancel") = {} /\ Asked(Plan, "cancel_stage") = {}
<1>1. \A i \in 1..N : att[i] \in Attempt
  BY ElementOfSeq, LenProperties DEF IInv, TypeOK, N
<1>2. ASSUME NEW what, NEW n \in Asked(Plan, what)
      PROVE  \E f \in Findings, a \in Action :
               a \in SafeAction(f) /\ a.do = what /\ a.n = n
  BY <1>2, PlanType DEF Asked, Plan
<1>3. ASSUME NEW i \in Asked(Plan, "interrupt")
      PROVE  /\ i \in 1..N
             /\ \/ /\ att[i].status = "running"
                   /\ \/ Gone(att[i])
                      \/ ~att[i].pid /\ att[i].lease = "stale"
                \/ /\ att[i].status \in PostWorkerLock
                   /\ att[i].result = "none"
  <2>1. PICK f \in Findings :
          /\ f.n = i
          /\ f.kind \in {"pid_missing", "no_pid_stale", "worker_result_missing"}
    BY <1>2, <1>3, AsksFor
  <2> QED BY <1>1, <2>1, Found, AttemptFound, LockFound, BatchFound, StageFound
<1>4. ASSUME NEW i \in Asked(Plan, "by_review")
      PROVE  /\ i \in 1..N /\ att[i].status = "reviewing"
             /\ att[i].review \in {"approved", "rework_required"}
  <2>1. PICK f \in Findings : f.n = i /\ f.kind = "review_state_mismatch"
    BY <1>2, <1>4, AsksFor
  <2> QED BY <1>1, <2>1, Found, AttemptFound, LockFound, BatchFound, StageFound
<1>5. ASSUME NEW j \in Asked(Plan, "complete")
      PROVE  /\ j = B /\ B > 0
             /\ batch[B].status \in {"integrating", "pending"}
  <2>1. PICK f \in Findings :
          f.n = j /\ f.kind \in {"integration_stalled", "target_merged_already"}
    BY <1>2, <1>5, AsksFor
  <2> QED BY <1>1, <2>1, Found, AttemptFound, LockFound, BatchFound, StageFound
<1>6. ASSUME NEW n \in Asked(Plan, "release")
      PROVE  /\ N > 0
             /\ \/ Latest.status \in Terminal
                \/ /\ Latest.status \notin Terminal \cup PostWorkerLock
                   /\ Gone(Latest)
  <2>1. PICK f \in Findings :
          f.kind \in {"lock_orphaned", "lock_owner_pid_gone"}
    BY <1>2, <1>6, AsksFor
  <2> QED BY <1>1, <2>1, Found, AttemptFound, LockFound, BatchFound, StageFound
<1>7. ASSUME NEW n \in Asked(Plan, "pause") PROVE Blocked
  <2>1. PICK f \in Findings :
          f.kind = "worker_completed_blocking" /\ f.entity = "stage"
    BY <1>2, <1>7, AsksFor
  <2>2. f.severity = "blocking"
    BY <1>1, <2>1, Found, AttemptFound, LockFound, BatchFound, StageFound
  <2> QED BY <2>2 DEF Blocked
<1>8. ASSUME NEW what \in {"cancel", "cancel_stage"}, NEW n \in Asked(Plan,
what)
      PROVE  FALSE
  <2>1. PICK f \in Findings : f.kind = "canceled_run_recovery"
    BY <1>2, <1>8, AsksFor
  <2> QED BY <1>1, <2>1, Found, AttemptFound, LockFound, BatchFound, StageFound
<1> QED BY <1>3, <1>4, <1>5, <1>6, <1>7, <1>8

\* A command reads what there is to do.
LEMMA ReconcileReadsKeeps == ASSUME IInv, ReconcileReads PROVE IInv'
<1>1. /\ command' = [command EXCEPT !.plan = Plan]
      /\ UNCHANGED <<rows, world>> /\ sched' = sched /\ used' = used
  BY DEF ReconcileReads
<1>2. /\ command' \in [plan : SUBSET Action, age : 0..MaxAge]
      /\ command'.plan = Plan
  BY <1>1, PlanType DEF IInv, TypeOK
<1>3. /\ run' = run /\ stage' = stage /\ pause' = pause /\ merged' = merged
      /\ att' = att /\ lock' = lock /\ batch' = batch /\ log' = log
      /\ repo' = repo /\ landed' = landed
  BY <1>1 DEF rows, world
<1>4. FreshInv'
  BY <1>1, <1>2, SameReport DEF FreshInv
<1>5. TypeOK'
  BY <1>1, <1>2, <1>3 DEF IInv, TypeOK, N, B
<1>6. LandedInv'
  BY <1>1, <1>3 DEF IInv, LandedInv, B
<1>7. AttemptInv'
  BY <1>1, <1>3 DEF IInv, AttemptInv
<1>8. N' = N /\ Latest' = Latest
  BY <1>3 DEF N, Latest
<1>9. SchedInv'
  BY <1>1, <1>8 DEF IInv, SchedInv
<1> QED BY <1>4, <1>5, <1>6, <1>7, <1>9 DEF IInv

-----------------------------------------------------------------------------
(* The invariant                                                           *)

\* A run begins with nothing done.
LEMMA InitKeeps == ASSUME Init PROVE IInv
<1>1. N = 0 /\ B = 0 /\ att \in Seq(Attempt) /\ batch \in Seq(Batch)
      /\ log \in Seq(Event)
  BY DEF Init, N, B
<1>2. TypeOK
  <2>1. command = [plan |-> {}, age |-> 0] /\ used = [crashes |-> 0, hands |->
  0]
    BY DEF Init, NoCommand
  <2>2. /\ command \in [plan : SUBSET Action, age : 0..MaxAge]
        /\ used \in [crashes : 0..MaxCrashes, hands : 0..MaxHands]
    BY <2>1, ReconciliationAssumption
  <2>3. /\ pause \in BOOLEAN /\ merged \in BOOLEAN /\ lock \in BOOLEAN
        /\ landed \in BOOLEAN
    BY DEF Init
  <2> QED BY <1>1, <2>2, <2>3, ReconciliationAssumption
          DEF Init, TypeOK, StageEnded, Doing
<1>3. LandedInv
  BY <1>1 DEF Init, LandedInv
<1>4. FreshInv
  BY DEF Init, FreshInv, Fresh, NoCommand
<1>5. AttemptInv
  BY <1>1 DEF Init, AttemptInv, AllOK, N
<1>6. SchedInv
  BY DEF Init, SchedInv, Dispatching, Checking, Integration
<1> QED BY <1>2, <1>3, <1>4, <1>5, <1>6 DEF IInv

\* Every step keeps the invariant.
LEMMA StepKeeps == ASSUME IInv, [Next]_vars PROVE IInv'
<1>1. CASE UNCHANGED vars
  <2>1. /\ UNCHANGED <<rows, world>> /\ sched' = sched /\ command' = command
        /\ used' = used
    BY <1>1 DEF vars
  <2>2. /\ run' = run /\ stage' = stage /\ pause' = pause /\ merged' = merged
        /\ att' = att /\ lock' = lock /\ batch' = batch /\ log' = log
        /\ repo' = repo /\ landed' = landed
    BY <2>1 DEF rows, world
  <2>3. N' = N /\ B' = B /\ Latest' = Latest
    BY <2>2 DEF N, B, Latest
  <2>4. TypeOK'
    BY <2>1, <2>2, <2>3 DEF IInv, TypeOK
  <2>5. LandedInv' /\ AttemptInv' /\ SchedInv'
    BY <2>1, <2>2, <2>3 DEF IInv, LandedInv, AttemptInv, SchedInv
  <2>6. FreshInv'
    BY <2>1, SameReport DEF IInv, FreshInv, Fresh
  <2> QED BY <2>4, <2>5, <2>6 DEF IInv
<1>2. CASE \/ ReconcileReads \/ ReconcileApplies \/ Resume \/ Start \/ LoopEnds
           \/ Begin \/ CannotBegin \/ CarryOn
  BY <1>2, ReconcileReadsKeeps, ReconcileAppliesKeeps, ResumeKeeps, StartKeeps,
     LoopEndsKeeps, BeginKeeps, CannotBeginKeeps, CarryOnKeeps
<1>3. CASE Dispatched
  BY <1>3, LeaseKeeps, MakeTreeKeeps, SpawnKeeps, SavePidKeeps DEF Dispatched
<1>4. CASE Reviewing
  BY <1>4, WorkerReturnsKeeps, FailsKeeps, StopIfCanceledKeeps, ValidateKeeps,
     SkipReviewKeeps, NoteSkipKeeps, BeginReviewKeeps, CreateReviewKeeps,
     AnswerKeeps, VerdictKeeps, UnavailableKeeps, UnlockKeeps
  DEF Reviewing
<1>5. CASE Integrating
  BY <1>5, IntegrateKeeps, BuildKeeps, StageGatesKeeps, BeginStageReviewKeeps,
     PassStageReviewKeeps, RefuseKeeps, AcceptSkippedKeeps, ReportReviewKeeps,
     MergeKeeps, TellTargetKeeps, CloseBatchKeeps, FinishKeeps, CleanKeeps,
     CanceledBatchKeeps
  DEF Integrating
<1>6. CASE Others
  BY <1>6, CrashKeeps, CancelStageKeeps, CancelRunKeeps, WorkerEndsKeeps,
     LeaseEndsKeeps, RemoveTreeKeeps, RemoveBranchKeeps, LeaveTargetKeeps,
     BackToTargetKeeps
  DEF Others
<1> QED BY <1>1, <1>2, <1>3, <1>4, <1>5, <1>6 DEF Next

\* The invariant holds of every run.
THEOREM Invariant == Spec => []IInv
<1>1. Init => IInv
  BY InitKeeps
<1>2. IInv /\ [Next]_vars => IInv'
  BY StepKeeps
<1> QED BY <1>1, <1>2, PTL DEF Spec

\* What the rows and the process table hold is of its type.
THEOREM TypeCorrect == Spec => []TypeOK
<1>1. IInv => TypeOK
  BY DEF IInv
<1> QED BY <1>1, Invariant, PTL

\* A stage completes only after its work is in the target branch.
THEOREM LandedFirst == Spec => []CompletedHasLanded
<1>1. IInv => CompletedHasLanded
  BY DEF IInv, LandedInv, CompletedHasLanded
<1> QED BY <1>1, Invariant, PTL

-----------------------------------------------------------------------------
(* What a report that is applied at once may do                            *)

\* It is applied as a report of the state it is applied to.
LEMMA AppliedNow ==
  ASSUME IInv, ReconcileApplies, Fresh
  PROVE  /\ \A i \in 1..N : att'[i] = ApplyTo(i, Plan)
         /\ \A j \in 1..B : batch'[j] = BatchAfter(j, Plan)
         /\ N' = N /\ B' = B /\ stage' = StageAfter(Plan)
         /\ lock' = (lock /\ Asked(Plan, "release") = {})
         /\ UNCHANGED <<run, pause, merged, log, world, sched, used>>
<1>1. command.plan = Plan
  BY DEF IInv, FreshInv
<1>2. /\ att' = After(Plan).att /\ batch' = After(Plan).batch
      /\ stage' = StageAfter(Plan)
      /\ lock' = (lock /\ Asked(Plan, "release") = {})
      /\ UNCHANGED <<run, pause, merged, log, world, sched, used>>
  BY <1>1, Zenon DEF ReconcileApplies, Apply, After
<1> QED BY <1>2, Applied

\* It leaves an attempt alone whose worker is alive or on its way.
LEMMA LiveKept ==
  ASSUME IInv, ReconcileApplies, Fresh, run # "canceled", N > 0,
         Latest.status \notin Terminal,
         Alive(Latest) \/ sched \in Dispatching
  PROVE  att'[N] = Latest /\ lock' = lock
<1>1. /\ att'[N] = ApplyTo(N, Plan) /\ Latest = att[N]
      /\ Latest \in Attempt /\ AttemptOK(Latest, used.hands)
      /\ lock' = (lock /\ Asked(Plan, "release") = {})
  BY LatestOK, AppliedNow DEF Latest
<1>2. sched \in Dispatching =>
        Latest.status = "running" /\ ~Latest.pid /\ Latest.lease # "stale"
  BY DEF IInv, SchedInv
<1>3. /\ ~Gone(Latest)
      /\ Latest.status \notin PostWorkerLock
  BY <1>1, <1>2 DEF Alive, Gone, AttemptOK, PostWorkerLock
<1>4. Asked(Plan, "release") = {}
  BY <1>3, Asks
<1>5. N \notin Asked(Plan, "interrupt")
  BY <1>1, <1>2, <1>3, Asks DEF Alive
<1>6. N \notin Asked(Plan, "cancel") /\ ~Judged(Latest, N, Plan)
  BY <1>3, Asks DEF Judged, PostWorkerLock
<1>7. ApplyTo(N, Plan) = Latest
  BY <1>1, <1>5, <1>6 DEF ApplyTo
<1>8. lock \in BOOLEAN
  BY DEF IInv, TypeOK
<1> QED BY <1>1, <1>4, <1>7, <1>8

\* Neither the status nor the lock of an attempt goes whose worker is recorded
\* and alive, or that a live scheduler is dispatching.
THEOREM LiveAttempts == Spec => LiveAttemptKept
<1>1. IInv /\ [Next]_vars =>
        [(ReconcileApplies /\ Fresh /\ run # "canceled" /\ N > 0)
         => \/ Latest.status \in Terminal
            \/ ~Alive(Latest) /\ sched \notin Dispatching
            \/ att'[N] = Latest /\ lock' = lock]_vars
  BY LiveKept
<1> QED BY <1>1, Invariant, PTL DEF Spec, LiveAttemptKept

\* Applying it opens no coverage that was there.
LEMMA CoverageKept ==
  ASSUME IInv, ReconcileApplies, Fresh, NEW a, CoveredByStageReview(a)
  PROVE  CoveredByStageReview(a)'
<1>1. B' = B /\ log' = log /\ B > 0 /\ B \in 1..B
      /\ batch'[B] = BatchAfter(B, Plan)
  BY AppliedNow, LenProperties
  DEF CoveredByStageReview, TrustedStageReview, IInv, TypeOK, B
<1>2. batch[B] \in Batch /\ batch[B].status = "completed"
  BY <1>1, LastBatch DEF CoveredByStageReview, TrustedStageReview
<1>3. batch'[B] = batch[B]
  BY <1>1, <1>2 DEF BatchAfter, Batch
<1>4. TrustedStageReview'
  BY <1>1, <1>3 DEF CoveredByStageReview, TrustedStageReview
<1>5. HasStageReviewEvidence(B)'
  <2>1. HasStageReviewEvidence(B)' = HasStageReviewEvidence(B)
    BY <1>1 DEF HasStageReviewEvidence
  <2> QED BY <2>1 DEF CoveredByStageReview
<1> QED BY <1>4, <1>5 DEF CoveredByStageReview

\* An attempt it finds approved by a review, it approves on its branch.
LEMMA JudgedVerifiable ==
  ASSUME IInv, run # "canceled", used.hands = 0, NEW i \in 1..N,
         Judged(att[i], i, Plan), LatestReview = "approved"
  PROVE  att[i].review = "approved" /\ att[i].result # "none" /\ att[i].branch
<1>1. att[i].status = "reviewing" /\ att[i].review # "none"
  BY Asks DEF Judged
<1>2. N \in Nat /\ N = Len(att) /\ DOMAIN att = 1..N
  BY LenProperties DEF IInv, TypeOK, N
<1>3. i = N
  BY <1>1, <1>2 DEF IInv, AttemptInv, AllOK, PassedOver, Terminal
<1>4. LatestReview = att[i].review
  <2> DEFINE has == {k \in DOMAIN att : att[k].review # "none"}
  <2>1. i \in has /\ \A j \in has : j <= i
    BY <1>1, <1>2, <1>3
  <2>2. \A k \in has : (\A j \in has : j <= k) => k = i
    BY <1>2, <2>1
  <2>3. (CHOOSE k \in has : \A j \in has : j <= k) = i
    BY <2>1, <2>2
  <2> QED BY <2>1, <2>3 DEF LatestReview
<1>5. AttemptOK(att[i], used.hands)
  BY <1>2 DEF IInv, AttemptInv, AllOK
<1> QED BY <1>1, <1>4, <1>5 DEF AttemptOK, PostWorkerLock

\* It finds nothing blocking of an attempt of which it has not said so.
LEMMA AttemptUnblocked ==
  ASSUME IInv, ReconcileApplies, Fresh, run # "canceled", used.hands = 0,
         ~Blocked, NEW i \in 1..N, NEW f \in AttemptFindings(i)',
         f.severity = "blocking"
  PROVE  FALSE
<1>1. att'[i] = ApplyTo(i, Plan) /\ att[i] \in Attempt /\ InHead' = InHead
  BY AppliedNow, ElementOfSeq, LenProperties
  DEF IInv, TypeOK, N, InHead, world
<1>2. ASSUME NEW g \in AttemptFindings(i) PROVE g.severity # "blocking"
  BY <1>2, LenProperties DEF Blocked, Findings, IInv, TypeOK, N
<1>3. CASE att'[i] = att[i]
  <2>1. CASE att[i].status = "approved"
    <3>1. f \in ApprovedFindings(i)'
      BY <1>3, <2>1 DEF AttemptFindings
    <3>2. CoveredByStageReview(att[i]) => CoveredByStageReview(att[i])'
      BY <1>3, CoverageKept
    <3>3. f \in ApprovedFindings(i)
      BY <1>1, <1>3, <3>1, <3>2 DEF ApprovedFindings, Verifiable, When
    <3> QED BY <1>2, <2>1, <3>3 DEF AttemptFindings
  <2>2. CASE att[i].status # "approved"
    <3>1. AttemptFindings(i)' = AttemptFindings(i)
      BY <1>3, <2>2 DEF AttemptFindings, RunningFindings,
         WorkerCompletedFindings, ValidatingFindings, ReviewingFindings
    <3> QED BY <1>2, <3>1
  <2> QED BY <2>1, <2>2
<1>4. CASE att'[i].status \in {"interrupted", "canceled", "rework_required"}
  BY <1>4 DEF AttemptFindings
<1>5. CASE /\ Judged(att[i], i, Plan) /\ LatestReview = "approved"
           /\ att'[i] = [att[i] EXCEPT !.status = LatestReview]
  <2>1. /\ att'[i].status = "approved" /\ att'[i].review = "approved"
        /\ att'[i].result # "none" /\ att'[i].branch
    BY <1>1, <1>5, JudgedVerifiable DEF Attempt
  <2>2. f \in ApprovedFindings(i)'
    BY <2>1 DEF AttemptFindings
  <2> QED BY <2>1, <2>2 DEF ApprovedFindings, Verifiable, Reviewed, When
<1>6. \/ att'[i] = att[i]
      \/ att'[i].status \in {"interrupted", "canceled", "rework_required"}
      \/ /\ Judged(att[i], i, Plan) /\ LatestReview = "approved"
         /\ att'[i] = [att[i] EXCEPT !.status = LatestReview]
  BY <1>1 DEF ApplyTo, Judged, Attempt
<1> QED BY <1>3, <1>4, <1>5, <1>6

\* Nor of the run as a whole.
LEMMA ApplyUnblocked ==
  ASSUME IInv, ReconcileApplies, Fresh, used.hands = 0, ~Blocked
  PROVE  ~Blocked'
<1> SUFFICES ASSUME NEW f \in Findings', f.severity = "blocking"
             PROVE  FALSE
  BY DEF Blocked
<1>1. IInv'
  BY StepKeeps DEF Next
<1>2. /\ N' = N /\ B' = B /\ stage' = StageAfter(Plan)
      /\ lock' = (lock /\ Asked(Plan, "release") = {})
      /\ \A j \in 1..B : batch'[j] = BatchAfter(j, Plan)
      /\ UNCHANGED <<run, merged, repo, landed>>
      /\ DOMAIN att = 1..N /\ DOMAIN att' = 1..N
      /\ N \in Nat /\ B \in Nat
  BY <1>1, AppliedNow, LenProperties DEF IInv, TypeOK, world, N, B
<1>3. CASE run = "canceled"
  <2>1. f \in CanceledRunFindings'
    BY <1>2, <1>3 DEF Findings
  <2> QED BY <2>1 DEF CanceledRunFindings, When, Finding
<1>4. CASE run # "canceled" /\ f \in StageFindings'
  <2>1. stage' = "completed" /\ ~merged'
    BY <1>4 DEF StageFindings, When
  <2>2. stage = "completed" /\ ~merged
    BY <1>2, <2>1, StageAfterType DEF IInv
  <2>3. f \in StageFindings
    BY <1>4, <2>1, <2>2 DEF StageFindings, When, Finding
  <2> QED BY <1>4, <2>3 DEF Blocked, Findings
<1>5. CASE run # "canceled" /\ f \in LockFindings'
  <2>1. f \in Finding("lock_owner_unknown", "blocking", "lock", 1)
        /\ lock' /\ N' = 0
    BY <1>5 DEF LockFindings, Finding
  <2>2. lock
    BY <1>2, <2>1, Zenon
  <2>3. N = 0
    BY <1>2, <2>1
  <2>4. f \in LockFindings
    BY <2>1, <2>2, <2>3 DEF LockFindings
  <2> QED BY <1>5, <2>4 DEF Blocked, Findings
<1>6. CASE run # "canceled" /\ B' > 0 /\ f \in IntegrationFindings'
  <2>1. /\ B > 0 /\ batch'[B] = BatchAfter(B, Plan) /\ batch[B] \in Batch
        /\ InHead' = InHead
    BY <1>2, <1>6, LastBatch DEF InHead
  <2>2. batch'[B].status \in {"integrating", "pending"}
    BY <1>2, <1>6 DEF IntegrationFindings, Finding
  <2>3. batch'[B] = batch[B]
    BY <2>1, <2>2 DEF BatchAfter, Batch
  <2>4. f \in IntegrationFindings
    BY <1>2, <1>6, <2>1, <2>3
    DEF IntegrationFindings, MergeInGit, TargetMerged
  <2> QED BY <1>6, <2>1, <2>4 DEF Blocked, Findings, When
<1>7. CASE run # "canceled" /\ \E i \in 1..N : f \in AttemptFindings(i)'
  BY <1>7, AttemptUnblocked
<1>8. \/ run = "canceled"
      \/ /\ run # "canceled"
         /\ \/ f \in StageFindings' \/ f \in LockFindings'
            \/ B' > 0 /\ f \in IntegrationFindings'
            \/ \E i \in 1..N : f \in AttemptFindings(i)'
  BY <1>2 DEF Findings, When
<1> QED BY <1>3, <1>4, <1>5, <1>6, <1>7, <1>8

\* As long as nobody has touched the repository, a report that is applied at
\* once does not shut a run that could be resumed.
THEOREM ApplyOpens == Spec => ApplyNeverBlocks
<1>1. IInv /\ [Next]_vars =>
        [(ReconcileApplies /\ Fresh /\ used.hands = 0 /\ Blocked')
         => Blocked]_vars
  BY ApplyUnblocked
<1> QED BY <1>1, Invariant, PTL DEF Spec, ApplyNeverBlocks
=============================================================================
