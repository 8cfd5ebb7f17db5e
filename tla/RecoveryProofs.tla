--------------------------- MODULE RecoveryProofs ---------------------------
(***************************************************************************)
(* What holds of one task and its recovery, for any number of attempts,    *)
(* commits, recoveries, crashes and reconciliations.  The updates of the   *)
(* scheduler are made one by one, so that what is left to be done, and in  *)
(* which order, says what must already hold.  That what is approved has    *)
(* been reviewed is proved for workers that do not outlive their           *)
(* scheduler: with those that do it is false.                              *)
(***************************************************************************)
EXTENDS Recovery, SequenceTheorems, TLAPS

-----------------------------------------------------------------------------
(* What is left to be done                                                 *)

Items(list) == {list[i] : i \in DOMAIN list}
Left == Items(todo)

Evid    == <<"check", "evidence">>
Verd    == <<"review", "result">>
Retried == <<"review", "retry">>

\* A snapshot of the attempt that is the latest still.
Same(s) == s.at # "idle" /\ s.num = att.num

\* Where a list of updates may have the ones that are made once.
Ordered(list) ==
  \A i \in DOMAIN list :
    /\ list[i] \in {A("approved"), Retried} => i = 1
    /\ list[i] = Verd => i = Len(list)
    /\ list[i] = Persist => i <= 2 /\ (i = 2 => list[1] = Pause)
    /\ list[i] = Wipe =>
         \A j \in DOMAIN list :
           /\ list[j] # A("worker_completed")
           /\ list[j] = A("failed") => j < i

-----------------------------------------------------------------------------
(* The inductive invariant                                                 *)

OrderInv == (sched # "writes" => todo = <<>>) /\ Ordered(todo)

\* What has been read is of the past, and the commits of the attempt are in
\* the worktree.
SnapInv ==
  /\ \A s \in {auto, rec} :
       s.num <= att.num
         /\ (s.at # "idle" => s.commit # None /\ s.commit <= tree.head)
  /\ auto.at # "idle" => sched = "auto"
  /\ att.result <= tree.head /\ att.adopted <= tree.head
  /\ given <= tree.head

\* While the worker is called, and while its commit is looked for, its task
\* waits for it, unless somebody has adopted a commit in the meantime.
CallInv ==
  sched \in {"call", "auto"} =>
    /\ from = "fresh" /\ review.verdict = "none"
    /\ IF att.source = "pi"
       THEN /\ task = "running" /\ att.status \in {"running", "interrupted"}
            /\ Same(rec) => rec.task = "running"
       ELSE task = "worker_completed" /\ att.result # None
    /\ Same(auto) => auto.task = "running"

\* An attempt whose evidence is lost is not carried on.
NoResult ==
  stage = "running" /\ att.result = None =>
    /\ sched # "off" => att.status \notin {"worker_completed", "validating"}
    /\ sched = "writes" => att.status # "reviewing"
ToComplete ==
  /\ Persist \in Left => given # None
  /\ A("worker_completed") \in Left => att.result # None \/ Persist \in Left
ToWipe ==
  Wipe \in Left =>
    A("failed") \in Left \/ stage # "running" \/ att.status \in Terminal

\* What the review has said when there is something left to do about it.
RetriedInv ==
  Retried \in Left => review.verdict = "failed" /\ Verd \notin Left
PersistInv == Persist \in Left => review.verdict = "none"

\* A verdict on the worker's own attempt comes after the checks.
Early == {"running", "worker_completed", "validating"}
JudgedInv ==
  att.source = "pi" =>
    /\ Verd \in Left => A("reviewing") \in Left \/ att.status \notin Early
    /\ review.verdict = "approved" => att.status \notin Early

\* An attempt whose work was adopted is not one the worker is at; one that is
\* kept is carried on after its worker is done; and the result of the worker
\* is written before the status that follows from it.
AdoptedInv == att.source # "pi" => task # "running"
ResumedInv == from = "resume" /\ sched = "writes" => att.status # "running"
PersistFirst ==
  att.source = "pi" /\ Persist \in Left =>
    att.status \in {"running", "interrupted"}

\* What `recover attempt' has read of the latest attempt is no older than the
\* work that is judged, unless what it has read can never hold again.
SeenInv ==
  Same(rec) =>
    /\ att.source = "manual" => rec.commit >= att.adopted
    /\ att.source = "auto" => rec.commit >= att.adopted \/ rec.task = "running"
    /\ att.source = "pi" =>
         /\ att.status = "running" => rec.status = "running"
         /\ att.status \in {"worker_completed", "validating", "reviewing"} =>
              rec.status = "running" \/ rec.commit >= att.result
         /\ from = "resume" => rec.status = "running" \/ rec.commit >= given

BaseInv ==
  /\ TypeOK /\ OrderInv /\ SnapInv /\ CallInv
  /\ NoResult /\ ToComplete /\ ToWipe
  /\ RetriedInv /\ PersistInv /\ JudgedInv
  /\ AdoptedInv /\ ResumedInv /\ PersistFirst /\ SeenInv

\* What is claimed, reviewed and adopted is the commit of the worktree, as
\* long as nobody but the scheduler's own worker works in it.
Alone == Open => sched = "call"
Claimed ==
  /\ Verd \in Left => Evid \in Left \/ given = tree.head
  /\ A("approved") \in Left =>
       /\ review.verdict = "approved"
       /\ review.through = given /\ given = tree.head
  /\ att.source = "pi" /\ review.verdict = "approved" => review.through = given
Matched ==
  /\ sched = "writes" /\ from = "resume" /\ att.source # "pi"
  /\ Verd \in Left \/ A("approved") \in Left
  /\ given = tree.head
  => att.adopted = given
ClaimInv == Alone /\ Claimed /\ Matched

IInv == BaseInv /\ (~Orphans => ClaimInv)

-----------------------------------------------------------------------------
(* The lists of updates                                                    *)

Lists == {Missing, Lost, Decision, Blocked, Failed, OverBudget, Completed,
          Unverifiable, GatesFailed, Verdict("approved"),
          Verdict("rework_required"), Unavailable, Catch, Post, <<Pause>>,
          <<Unlock>>, <<>>}

\* What the lists of updates consist of.
LEMMA PostItems ==
  Items(Post) = {Evid, A("validating"), T("validating"), <<"check", "gates">>,
                 A("reviewing"), T("reviewing"), <<"review", "create">>, Verd}
  BY DEF Items, Post, Evid, Verd

\* The carry-over of a result is a list of updates in order.
LEMMA PostOK == Post \in Seq(Updates) /\ Ordered(Post)
  BY DEF Post, Updates, AttNext, TaskNext, Ordered, A, T, Evid, Verd, Persist,
    Pause, Retried

\* One sequence after another.
LEMMA Joined == ASSUME NEW S, NEW s \in Seq(S), NEW t \in Seq(S)
  PROVE /\ s \o t \in Seq(S) /\ Len(s \o t) = Len(s) + Len(t)
        /\ \A i \in 1 .. Len(s) + Len(t) : (s \o t)[i] =
             IF i <= Len(s) THEN s[i] ELSE t[i - Len(s)]
<1>1. s \o t \in Seq(S) /\ Len(s \o t) = Len(s) + Len(t)
  OBVIOUS
<1>2. \A i \in 1 .. Len(s) + Len(t) : (s \o t)[i] =
         IF i <= Len(s) THEN s[i] ELSE t[i - Len(s)]
  OBVIOUS
<1> QED BY <1>1, <1>2

\* The same, with the lengths that Completed needs.
LEMMA JoinedIs ==
  ASSUME NEW S, NEW s \in Seq(S), NEW t \in Seq(S), Len(s) = 3, Len(t) = 8
  PROVE /\ s \o t \in Seq(S) /\ Len(s \o t) = 11
        /\ \A i \in 1..11 :
             (s \o t)[i] = IF i <= 3 THEN s[i] ELSE t[i - 3]
<1> DEFINE J == s \o t
<1>1. /\ J \in Seq(S) /\ Len(J) = Len(s) + Len(t)
      /\ \A i \in 1 .. Len(s) + Len(t) :
           J[i] = IF i <= Len(s) THEN s[i] ELSE t[i - Len(s)]
  BY Joined, Zenon
<1> HIDE DEF J
<1>2. /\ J \in Seq(S) /\ Len(J) = 11
      /\ \A i \in 1..11 : J[i] = IF i <= 3 THEN s[i] ELSE t[i - 3]
  BY <1>1
<1> QED BY <1>2 DEF J

\* What a completed call leaves to be done, written out.
LEMMA CompletedIs == Completed =
  <<Persist, A("worker_completed"), T("worker_completed"), Evid,
    A("validating"), T("validating"), <<"check", "gates">>,
    A("reviewing"), T("reviewing"), <<"review", "create">>, Verd>>
<1> DEFINE F == <<Persist, A("worker_completed"), T("worker_completed")>>
           R == <<Persist, A("worker_completed"), T("worker_completed"), Evid,
    A("validating"), T("validating"), <<"check", "gates">>,
    A("reviewing"), T("reviewing"), <<"review", "create">>, Verd>>
<1>1. F \in Seq(Updates) /\ Len(F) = 3
  BY DEF Updates, AttNext, TaskNext, A, T, Persist
<1>2. Post \in Seq(Updates) /\ Len(Post) = 8
  BY PostOK DEF Post
<1>3. R \in Seq(Updates) /\ Len(R) = 11
  BY DEF Updates, AttNext, TaskNext, A, T, Persist, Evid, Verd
<1>4. /\ F \o Post \in Seq(Updates) /\ Len(F \o Post) = 11
      /\ \A i \in 1..11 : (F \o Post)[i] = IF i <= 3 THEN F[i] ELSE Post[i - 3]
  BY <1>1, <1>2, JoinedIs
<1>5. \A i \in 1..11 : (F \o Post)[i] = R[i]
  BY <1>4 DEF Post, Evid, Verd
<1>6. F \o Post = R
  BY <1>3, <1>4, <1>5, SeqEqual
<1> QED BY <1>6 DEF Completed

\* The updates after a call that was completed.
LEMMA CompletedItems == Items(Completed) = Items(Post) \cup {Persist,
  A("worker_completed"), T("worker_completed")}
  BY CompletedIs, PostItems DEF Items

\* It is in order as well.
LEMMA CompletedOK == Completed \in Seq(Updates) /\ Ordered(Completed)
  BY CompletedIs DEF Updates, AttNext, TaskNext, Ordered, A, T, Evid, Verd,
    Persist, Pause, Retried, Wipe

\* Every list the scheduler ever takes up is in order.
LEMMA ListsOK == \A list \in Lists : list \in Seq(Updates) /\ Ordered(list)
<1> USE DEF Updates, AttNext, TaskNext, Ordered, A, T, Wipe, Verd, Persist,
            Pause, Unlock, Retried
<1>1. Missing \in Seq(Updates) /\ Ordered(Missing)
  BY DEF Missing
<1>2. Lost \in Seq(Updates) /\ Ordered(Lost)
  BY DEF Lost
<1>3. Decision \in Seq(Updates) /\ Ordered(Decision)
  BY DEF Decision
<1>4. Blocked \in Seq(Updates) /\ Ordered(Blocked)
  BY DEF Blocked
<1>5. Failed \in Seq(Updates) /\ Ordered(Failed)
  BY DEF Failed
<1>6. OverBudget \in Seq(Updates) /\ Ordered(OverBudget)
  BY DEF OverBudget
<1>7. Unverifiable \in Seq(Updates) /\ Ordered(Unverifiable)
  BY DEF Unverifiable
<1>8. GatesFailed \in Seq(Updates) /\ Ordered(GatesFailed)
  BY DEF GatesFailed
<1>9. Verdict("approved") \in Seq(Updates) /\ Ordered(Verdict("approved"))
  BY DEF Verdict
<1>10. /\ Verdict("rework_required") \in Seq(Updates)
       /\ Ordered(Verdict("rework_required"))
  BY DEF Verdict
<1>11. Unavailable \in Seq(Updates) /\ Ordered(Unavailable)
  BY DEF Unavailable
<1>12. Catch \in Seq(Updates) /\ Ordered(Catch)
  BY DEF Catch
<1>13. <<Pause>> \in Seq(Updates) /\ Ordered(<<Pause>>)
  OBVIOUS
<1>14. <<Unlock>> \in Seq(Updates) /\ Ordered(<<Unlock>>)
  OBVIOUS
<1>15. <<>> \in Seq(Updates) /\ Ordered(<<>>)
  OBVIOUS
<1> HIDE DEF Updates, AttNext, TaskNext, Ordered, A, T, Wipe, Verd, Persist,
            Pause, Unlock, Retried
<1> QED
  BY <1>1, <1>2, <1>3, <1>4, <1>5, <1>6, <1>7, <1>8, <1>9, <1>10, <1>11, <1>12,
    <1>13, <1>14, <1>15, PostOK,
     CompletedOK DEF Lists

\* What is left to do when no evidence was found.
LEMMA MissingItems ==
  Items(Missing) = {A("failed"), T("waiting_decision"), Wipe, Pause, Unlock}
  BY DEF Items, Missing

\* What is left to do when the evidence of a kept attempt is lost.
LEMMA LostItems ==
  Items(Lost) = {A("failed"), T("waiting_decision"), Unlock}
  BY DEF Items, Lost

\* What is left to do when a decision is needed.
LEMMA DecisionItems ==
  Items(Decision) = {Persist, A("rework_required"), T("waiting_decision"),
    Pause, Unlock}
  BY DEF Items, Decision

\* What is left to do when the worker is blocked.
LEMMA BlockedItems ==
  Items(Blocked) = {Persist, A("failed"), T("waiting_decision"), Pause, Unlock}
  BY DEF Items, Blocked

\* What is left to do when the worker has failed.
LEMMA FailedItems ==
  Items(Failed) = {Persist, A("failed"), T("rework_required"), Unlock}
  BY DEF Items, Failed

\* What is left to do when the budget is exceeded.
LEMMA OverBudgetItems ==
  Items(OverBudget) = {Pause, Persist, A("worker_completed"),
    T("worker_completed")}
  BY DEF Items, OverBudget

\* What is left to do when the evidence is not verifiable.
LEMMA UnverifiableItems ==
  Items(Unverifiable) = {A("failed"), T("waiting_decision"), Pause, Unlock}
  BY DEF Items, Unverifiable

\* What is left to do when a gate has failed.
LEMMA GatesFailedItems ==
  Items(GatesFailed) = {A("failed"), T("rework_required"), Unlock}
  BY DEF Items, GatesFailed

\* What is left to do after a verdict.
LEMMA VerdictItems == \A v : Items(Verdict(v)) = {A(v), T(v), Unlock}
  BY DEF Items, Verdict

\* What is left to do when the reviewer is unavailable.
LEMMA UnavailableItems ==
  Items(Unavailable) = {<<"review", "retry">>, Pause, Unlock}
  BY DEF Items, Unavailable

\* What is left to do when something has thrown.
LEMMA CatchItems ==
  Items(Catch) = {<<"latest", "failed">>, <<"still", "rework_required">>,
    Unlock}
  BY DEF Items, Catch

\* What is left to do for a kept attempt that cannot be carried on.
LEMMA PauseItems == Items(<<Pause>>) = {Pause}
  BY DEF Items

\* What is left to do when the catch block gives up.
LEMMA UnlockItems == Items(<<Unlock>>) = {Unlock}
  BY DEF Items

\* Nothing is left to do.
LEMMA NoItems == Items(<<>>) = {}
  BY DEF Items

\* A list without its head.
LEMMA TailOf == ASSUME NEW list \in Seq(Updates), list # <<>>
  PROVE /\ Tail(list) \in Seq(Updates) /\ Len(Tail(list)) = Len(list) - 1
        /\ Head(list) = list[1] /\ 1 \in DOMAIN list
        /\ \A i \in DOMAIN Tail(list) :
             i + 1 \in DOMAIN list /\ Tail(list)[i] = list[i + 1]
        /\ \A i \in DOMAIN list :
             \/ i = 1
             \/ i - 1 \in DOMAIN Tail(list) /\ Tail(list)[i-1] = list[i]
  BY HeadTailProperties

\* The updates of a list and of its tail.
LEMMA TailItems == ASSUME NEW list \in Seq(Updates), list # <<>>
  PROVE /\ Items(Tail(list)) \subseteq Items(list)
        /\ Items(list) = Items(Tail(list)) \cup {Head(list)}
        /\ Items(list) \subseteq Updates
<1>1. Items(Tail(list)) \subseteq Items(list)
  BY TailOf DEF Items
<1>2. Head(list) \in Items(list)
  BY TailOf DEF Items
<1>4. ASSUME NEW x \in Items(list)
  PROVE x = Head(list) \/ x \in Items(Tail(list))
  <2>1. PICK i \in DOMAIN list : x = list[i]
    BY DEF Items
  <2> QED BY ZenonT(30), <2>1, TailOf DEF Items
<1>3. Items(list) \subseteq Updates
  BY ElementOfSeq DEF Items
<1> QED BY <1>1, <1>2, <1>3, <1>4

\* The rest of a list in order is in order.
LEMMA TailOrdered == ASSUME NEW list \in Seq(Updates), list # <<>>,
  Ordered(list)
  PROVE Ordered(Tail(list))
  BY TailOf DEF Ordered

-----------------------------------------------------------------------------
(* Who changes what                                                        *)

\* Who may change what.
LEMMA Frames ==
  ASSUME [Next]_vars
  PROVE /\ \/ UNCHANGED callVars
           \/ Dispatch \/ WorkerCalls \/ CallReturns \/ Crash \/ Person
        /\ \/ UNCHANGED att
           \/ UpdateAttempt \/ CatchAttempt \/ UpdateResult \/ Review
           \/ Dispatch \/ AutoAdopts \/ RecoverAdopts \/ ReconcileApplies
           \/ Resume
        /\ \/ UNCHANGED task
           \/ UpdateTask \/ CatchTask \/ Review \/ Dispatch \/ RetryBlocked
           \/ AutoAdopts \/ RecoverAdopts
        /\ \/ UNCHANGED stage
           \/ PauseStage \/ RetryBlocked \/ Finish \/ AutoAdopts
           \/ RecoverAdopts \/ Resume
        /\ \/ UNCHANGED locked
           \/ ReleaseLocks \/ Dispatch \/ AutoAdopts \/ RecoverAdopts
           \/ ReconcileApplies \/ Resume
        /\ UNCHANGED review \/ Review \/ Dispatch
        /\ UNCHANGED from \/ Dispatch \/ ResumeKept
        /\ UNCHANGED given \/ Dispatch \/ CallReturns \/ ResumeKept
        /\ UNCHANGED auto \/ AutoLooks \/ AutoGates \/ AutoAdopts \/ Crash
        /\ UNCHANGED rec \/ RecoverLooks \/ RecoverGates \/ RecoverAdopts
        /\ UNCHANGED plan \/ ReconcileLooks \/ ReconcileApplies
        /\ UNCHANGED used \/ RecoverLooks \/ ReconcileLooks \/ Crash
        /\ \/ UNCHANGED sched
           \/ Done \/ Dispatch \/ Drained \/ CallReturns \/ ResumeKept
           \/ AutoLooks \/ AutoGates \/ AutoAdopts \/ Resume \/ Crash
<1>1. CASE UpdateAttempt \/ UpdateTask \/ CatchAttempt \/ CatchTask
  BY <1>1 DEF UpdateAttempt, UpdateTask, CatchAttempt, CatchTask, working,
     callVars
<1>2. CASE UpdateResult \/ PauseStage \/ ReleaseLocks
  BY <1>2 DEF UpdateResult, PauseStage, ReleaseLocks, working, callVars
<1>3. CASE Check \/ Review
  BY <1>3 DEF Check, Review, working, records, callVars
<1>4. CASE Done \/ Drained \/ RetryBlocked \/ Finish
  BY <1>4 DEF Done, Drained, RetryBlocked, Finish, records, scheduler,
     callVars
<1>5. CASE Dispatch
  BY <1>5 DEF Dispatch
<1>6. CASE WorkerCalls \/ CallReturns
  BY <1>6 DEF WorkerCalls, CallReturns, records, scheduler
<1>7. CASE ResumeKept
  BY <1>7 DEF ResumeKept, records, callVars
<1>8. CASE AutoLooks \/ AutoGates \/ AutoAdopts
  BY <1>8 DEF AutoLooks, AutoGates, AutoAdopts, records, callVars
<1>9. CASE RecoverLooks \/ RecoverGates \/ RecoverAdopts
  BY <1>9 DEF RecoverLooks, RecoverGates, RecoverAdopts, records, scheduler,
     callVars
<1>10. CASE ReconcileLooks \/ ReconcileApplies \/ Resume
  BY <1>10 DEF ReconcileLooks, ReconcileApplies, Resume, records, scheduler,
     callVars
<1>11. CASE Crash \/ Person
  BY <1>11 DEF Crash, Person, records, scheduler
<1>12. CASE UNCHANGED vars
  BY <1>12 DEF vars, scheduler, records, callVars
<1> QED
  BY <1>1, <1>2, <1>3, <1>4, <1>5, <1>6, <1>7, <1>8, <1>9, <1>10, <1>11,
     <1>12 DEF Next

-----------------------------------------------------------------------------
(* The types, and the order of the updates                                 *)

\* No step takes an update out of its order.
LEMMA TodoKept ==
  ASSUME TypeOK, OrderInv, [Next]_vars
  PROVE /\ todo' \in Seq(Updates) /\ Ordered(todo')
        /\ sched' # "writes" => todo' = <<>>
<1>0. todo \in Seq(Updates) /\ Ordered(todo)
  BY DEF TypeOK, OrderInv
<1>a. todo # <<>> => Tail(todo) \in Seq(Updates) /\ Ordered(Tail(todo))
  BY <1>0, TailOf, TailOrdered
<1>b. sched # "writes" => todo = <<>>
  BY DEF OrderInv
<1>c. \A list \in Lists : list \in Seq(Updates) /\ Ordered(list)
  BY ListsOK
<1> SUFFICES \/ todo' = todo /\ (sched' = sched \/ todo = <<>>)
             \/ sched' = "writes" /\ todo # <<>> /\ todo' = Tail(todo)
             \/ sched' = "writes" /\ todo' \in Lists
             \/ todo' = <<>>
  BY <1>0, <1>a, <1>b, <1>c DEF Lists
<1>1. CASE UpdateAttempt \/ UpdateTask \/ CatchAttempt \/ CatchTask
  BY <1>1 DEF UpdateAttempt, UpdateTask, CatchAttempt, CatchTask, Next1, Rest,
     Throws, working, Lists
<1>2. CASE UpdateResult \/ PauseStage \/ ReleaseLocks \/ Check
  BY <1>2 DEF UpdateResult, PauseStage, ReleaseLocks, Check, Next1, Rest,
     working, Lists
<1>3. CASE Review
  BY <1>3 DEF Review, Next1, Rest, Throws, working, Lists, Verdict
<1>4. CASE Done \/ Dispatch \/ RetryBlocked \/ Finish \/ Drained
  BY <1>4, <1>b DEF Done, Dispatch, RetryBlocked, Finish, Drained, Writes,
     scheduler, Lists
<1>5. CASE CallReturns
  <2>1. PICK outcome \in Outcome :
    /\ sched = "call"
    /\ CASE outcome = "missing" -> sched' = "auto" /\ UNCHANGED todo
         [] outcome = "threw" -> Writes(Catch)
         [] outcome = "decision" -> Writes(Decision)
         [] outcome = "blocked" -> Writes(Blocked)
         [] outcome = "failed" -> Writes(Failed)
         [] outcome = "completed" -> Writes(Completed) \/ Writes(OverBudget)
    BY <1>5 DEF CallReturns
  <2>2. todo = <<>>
    BY <2>1, <1>b
  <2>3. CASE outcome = "missing"
    BY <2>1, <2>2, <2>3
  <2>4. CASE outcome # "missing"
    BY <2>1, <2>4 DEF Outcome, Writes, Lists
  <2> QED BY <2>3, <2>4
<1>6. CASE ResumeKept
  BY <1>6, <1>b DEF ResumeKept, Writes, Lists
<1>7. CASE AutoLooks \/ AutoGates
  BY <1>7, <1>b DEF AutoLooks, AutoGates, NotAdopted, Writes, Lists
<1>8. CASE AutoAdopts
  BY <1>8, <1>b DEF AutoAdopts, NotAdopted, Writes, Lists
<1>9. CASE \/ WorkerCalls \/ RecoverLooks \/ RecoverGates \/ RecoverAdopts
           \/ ReconcileLooks \/ ReconcileApplies \/ Person \/ UNCHANGED vars
  BY <1>9 DEF WorkerCalls, RecoverLooks, RecoverGates, RecoverAdopts,
     ReconcileLooks, ReconcileApplies, Person, scheduler, vars
<1>10. CASE Resume \/ Crash
  BY <1>10, <1>b DEF Resume, Crash, Lists
<1> QED
  BY <1>1, <1>2, <1>3, <1>4, <1>5, <1>6, <1>7, <1>8, <1>9, <1>10 DEF Next

AttSet == [num : 0..MaxAttempts, status : DOMAIN AttNext,
           result : Commits \cup {None}, source : {"pi", "manual", "auto"},
           adopted : Commits \cup {None}]
ReviewSet == [verdict : {"none", "asked", "approved", "rework_required",
                         "failed"}, through : Commits \cup {None}]
PlanSet == [num : 0..MaxAttempts, unlock : BOOLEAN,
            attempt : {"keep", "interrupt", "by-review"}]

\* A commit is within the bound on commits.
LEMMA Committed ==
  ASSUME tree \in Tree, tree.head < MaxCommits
  PROVE [head |-> tree.head + 1, dirty |-> FALSE] \in Tree
<1>1. tree.head \in 0..MaxCommits
  BY DEF Tree
<1>2. tree.head + 1 \in 0..MaxCommits
  BY <1>1, CallAssumption
<1> QED BY <1>2 DEF Tree

\* An edit leaves the commits as they are.
LEMMA Edited ==
  ASSUME tree \in Tree
  PROVE /\ [tree EXCEPT !.dirty = TRUE] \in Tree
        /\ [tree EXCEPT !.dirty = ~@] \in Tree
<1>1. \A d \in BOOLEAN : [tree EXCEPT !.dirty = d] \in Tree
  BY DEF Tree
<1>2. (~tree.dirty) \in BOOLEAN
  OBVIOUS
<1> QED BY <1>1, <1>2

\* Whoever takes a step, the call keeps its type.
LEMMA CallKept ==
  ASSUME CallTypeOK, [Next]_vars
  PROVE CallTypeOK'
<1> USE DEF CallTypeOK, Call, Tree, Outcome
<1>1. CASE UNCHANGED callVars
  BY <1>1 DEF callVars
<1>2. CASE Dispatch
  <2>1. CASE Begin
    BY <2>1 DEF Begin
  <2> QED BY <1>1, <1>2, <2>1 DEF Dispatch, Writes
<1>3. CASE WorkerCalls
  <2>1. CASE Spawn \/ Understood
    BY <2>1 DEF Spawn, Understood
  <2>2. CASE WorkerGoes
    BY <2>2 DEF WorkerGoes
  <2>3. CASE Works
    <3>1. tree' \in Tree
      BY <2>3, Committed, Edited DEF Works
    <3> QED BY <2>3, <3>1 DEF Works
  <2> QED BY <1>3, <2>1, <2>2, <2>3 DEF WorkerCalls
<1>4. CASE CallReturns
  BY <1>4 DEF CallReturns, Returns
<1>5. CASE Crash
  BY <1>5, <1>1 DEF Crash
<1>6. CASE Person
  <2>1. tree' \in Tree
    BY <1>6, Committed, Edited DEF Person
  <2> QED BY <1>6, <2>1 DEF Person
<1> QED BY <1>1, <1>2, <1>3, <1>4, <1>5, <1>6, Frames

\* What a recovery has read keeps its type.
LEMMA SnapshotsKept ==
  ASSUME TypeOK, [Next]_vars
  PROVE auto' \in Snapshot /\ rec' \in Snapshot
<1>1. Idle \in Snapshot
  BY RecoveryAssumption DEF Idle, Snapshot, AttNext, TaskNext
<1>2. stage # "done" => Seen \in Snapshot
  BY DEF TypeOK, CallTypeOK, Tree, Commits, Seen, Snapshot
<1>3. \A s \in Snapshot : [s EXCEPT !.at = "adopt"] \in Snapshot
  BY DEF Snapshot
<1>4. auto \in Snapshot /\ rec \in Snapshot
  BY DEF TypeOK
<1>5. auto' \in Snapshot
  <2>1. CASE AutoLooks
    BY <2>1, <1>2, <1>4 DEF AutoLooks
  <2>2. CASE AutoGates
    BY <2>2, <1>1, <1>3, <1>4 DEF AutoGates
  <2>3. CASE AutoAdopts \/ Crash
    BY <2>3, <1>1 DEF AutoAdopts, Crash
  <2> QED BY <2>1, <2>2, <2>3, <1>4, Frames
<1>6. rec' \in Snapshot
  <2>1. CASE RecoverLooks
    BY <2>1, <1>2 DEF RecoverLooks
  <2>2. CASE RecoverGates
    BY <2>2, <1>1, <1>3, <1>4 DEF RecoverGates
  <2>3. CASE RecoverAdopts
    BY <2>3, <1>1 DEF RecoverAdopts
  <2> QED BY <2>1, <2>2, <2>3, <1>4, Frames
<1> QED BY <1>5, <1>6

\* An adoption leaves the types in order.
LEMMA AdoptType ==
  ASSUME att \in AttSet, NEW s \in Snapshot, NEW source \in {"manual", "auto"},
         Adopt(s, source)
  PROVE att' \in AttSet /\ stage' = "paused" /\ task' = "worker_completed"
        /\ locked' = TRUE
  BY DEF Adopt, AttSet, Snapshot, AttNext

\* So does an action of a reconciliation.
LEMMA ApplyType ==
  ASSUME att \in AttSet, NEW p, Apply(p)
  PROVE att' \in AttSet
<1>1. \/ att' = att
      \/ att' = [att EXCEPT !.status = "interrupted"]
      \/ att' = [att EXCEPT !.status = review.verdict]
           /\ review.verdict \in {"approved", "rework_required"}
  BY DEF Apply
<1> QED BY <1>1 DEF AttSet, AttNext

\* The attempt keeps its type.
LEMMA AttKept ==
  ASSUME TypeOK, [Next]_vars
  PROVE att' \in AttSet
<1>1. att \in AttSet /\ given \in Commits \cup {None} /\ auto \in Snapshot
      /\ rec \in Snapshot
  BY DEF TypeOK, AttSet
<1>2. CASE UpdateAttempt
  <2>1. att' = att \/ \E to \in AttNext[att.status] :
          att' = [att EXCEPT !.status = to]
    BY <1>2 DEF UpdateAttempt
  <2> QED BY <2>1, <1>1 DEF AttSet, AttNext
<1>3. CASE CatchAttempt
  BY <1>3, <1>1 DEF CatchAttempt, AttSet, AttNext
<1>4. CASE UpdateResult
  BY <1>4, <1>1 DEF UpdateResult, AttSet
<1>5. CASE Review
  BY <1>5, <1>1 DEF Review, AttSet, AttNext
<1>6. CASE Dispatch
  <2>1. /\ att.num < MaxAttempts
        /\ \/ att' = att
           \/ att' =
                [NoAttempt EXCEPT !.num = att.num + 1, !.status = "running"]
    BY <1>6 DEF Dispatch
  <2>2. att.num < MaxAttempts => att.num + 1 \in 0..MaxAttempts
    BY <1>1, RecoveryAssumption DEF AttSet
  <2>3. NoAttempt \in AttSet
    BY RecoveryAssumption DEF AttSet, AttNext, NoAttempt
  <2> QED BY <1>1, <2>1, <2>2, <2>3 DEF AttSet, AttNext
<1>7. CASE AutoAdopts
  BY <1>7, <1>1, AdoptType DEF AutoAdopts
<1>8. CASE RecoverAdopts
  BY <1>8, <1>1, AdoptType DEF RecoverAdopts
<1>9. CASE ReconcileApplies
  BY <1>9, <1>1, ApplyType DEF ReconcileApplies
<1>10. CASE Resume
  BY <1>10, <1>1, ApplyType DEF Resume
<1> QED
  BY <1>1, <1>2, <1>3, <1>4, <1>5, <1>6, <1>7, <1>8, <1>9, <1>10, Frames

\* The task keeps its type.
LEMMA TaskKept ==
  ASSUME TypeOK, [Next]_vars
  PROVE task' \in DOMAIN TaskNext
<1>1. task \in DOMAIN TaskNext /\ att \in AttSet /\ auto \in Snapshot
      /\ rec \in Snapshot
  BY DEF TypeOK, AttSet
<1>2. CASE UpdateTask
  <2>1. task' = task \/ task' \in TaskNext[task]
    BY <1>2 DEF UpdateTask
  <2> QED BY <2>1, <1>1 DEF TaskNext
<1>3. CASE CatchTask
  BY <1>3, <1>1 DEF CatchTask, TaskNext
<1>4. CASE Review \/ Dispatch \/ RetryBlocked
  BY <1>4, <1>1 DEF Review, Dispatch, RetryBlocked, TaskNext
<1>7. CASE AutoAdopts
  BY <1>7, <1>1, AdoptType DEF AutoAdopts, TaskNext
<1>8. CASE RecoverAdopts
  BY <1>8, <1>1, AdoptType DEF RecoverAdopts, TaskNext
<1> QED BY <1>1, <1>2, <1>3, <1>4, <1>7, <1>8, Frames

\* The stage and the locks keep theirs.
LEMMA StageKept ==
  ASSUME TypeOK, [Next]_vars
  PROVE stage' \in {"running", "paused", "done"} /\ locked' \in BOOLEAN
<1>1. stage \in {"running", "paused", "done"} /\ locked \in BOOLEAN
  BY DEF TypeOK
<1>2. stage' \in {"running", "paused", "done"}
  <2>1. CASE PauseStage \/ RetryBlocked \/ Finish \/ Resume
    BY <2>1 DEF PauseStage, RetryBlocked, Finish, Resume
  <2>2. CASE AutoAdopts \/ RecoverAdopts
    BY <2>2, <1>1 DEF AutoAdopts, RecoverAdopts, Adopt
  <2> QED BY <2>1, <2>2, <1>1, Frames
<1>3. locked' \in BOOLEAN
  <2>1. CASE ReleaseLocks \/ Dispatch
    BY <2>1 DEF ReleaseLocks, Dispatch
  <2>2. CASE AutoAdopts \/ RecoverAdopts
    BY <2>2, <1>1 DEF AutoAdopts, RecoverAdopts, Adopt
  <2>3. CASE ReconcileApplies \/ Resume
    BY <2>3 DEF ReconcileApplies, Resume, Apply
  <2> QED BY <2>1, <2>2, <2>3, <1>1, Frames
<1> QED BY <1>2, <1>3

\* Everything else keeps its type.
LEMMA RestKept ==
  ASSUME TypeOK, [Next]_vars
  PROVE /\ review' \in ReviewSet /\ given' \in Commits \cup {None}
        /\ from' \in {"fresh", "resume"}
        /\ sched' \in {"off", "loop", "call", "auto", "writes"}
        /\ plan' \in PlanSet
        /\ used' \in [recovers : 0..MaxRecovers, troubles : 0..MaxTroubles]
<1>1. /\ review \in ReviewSet /\ given \in Commits \cup {None}
      /\ from \in {"fresh", "resume"}
      /\ sched \in {"off", "loop", "call", "auto", "writes"}
      /\ plan \in PlanSet /\ tree \in Tree /\ att \in AttSet
      /\ used \in [recovers : 0..MaxRecovers, troubles : 0..MaxTroubles]
  BY DEF TypeOK, CallTypeOK, ReviewSet, PlanSet, AttSet
<1>2. review' \in ReviewSet
  <2>1. CASE Review
    BY <2>1, <1>1 DEF Review, ReviewSet, Tree, Commits
  <2>2. CASE Dispatch
    BY <2>2, <1>1 DEF Dispatch, ReviewSet, NoReview
  <2> QED BY <2>1, <2>2, <1>1, Frames
<1>3. given' \in Commits \cup {None} /\ from' \in {"fresh", "resume"}
  <2>1. CASE Dispatch
    BY <2>1, <1>1 DEF Dispatch
  <2>2. CASE CallReturns
    <3>1. given' = None \/ given' \in 0..tree.head
      BY <2>2 DEF CallReturns
    <3>2. from' = from
      BY <2>2 DEF CallReturns
    <3> QED BY <3>1, <3>2, <1>1, CallAssumption DEF Tree, Commits
  <2>3. CASE ResumeKept
    BY <2>3, <1>1 DEF ResumeKept, AttSet
  <2> QED BY <2>1, <2>2, <2>3, <1>1, Frames
<1>4. sched' \in {"off", "loop", "call", "auto", "writes"}
  <2>1. CASE CallReturns
    <3>1. PICK outcome \in Outcome :
      CASE outcome = "missing" -> sched' = "auto" /\ UNCHANGED todo
         [] outcome = "threw" -> Writes(Catch)
         [] outcome = "decision" -> Writes(Decision)
         [] outcome = "blocked" -> Writes(Blocked)
         [] outcome = "failed" -> Writes(Failed)
         [] outcome = "completed" -> Writes(Completed) \/ Writes(OverBudget)
      BY <2>1 DEF CallReturns
    <3> QED BY <3>1 DEF Outcome, Writes
  <2>2. CASE Done \/ Dispatch \/ Drained \/ ResumeKept \/ Resume \/ Crash
    BY <2>2, <1>1 DEF Done, Dispatch, Drained, ResumeKept, Resume, Crash,
                      Writes
  <2>3. CASE AutoLooks \/ AutoGates \/ AutoAdopts
    BY <2>3, <1>1 DEF AutoLooks, AutoGates, AutoAdopts, NotAdopted, Writes
  <2> QED BY <2>1, <2>2, <2>3, <1>1, Frames
<1>5. plan' \in PlanSet
  <2>1. CASE ReconcileLooks
    <3>1. PICK stale \in BOOLEAN : plan' = Actions(stale)
      BY <2>1 DEF ReconcileLooks
    <3>2. Actions(stale).attempt \in {"keep", "interrupt", "by-review"}
      BY DEF Actions
    <3>3. Actions(stale).num = att.num /\ Actions(stale).unlock \in BOOLEAN
      BY DEF Actions
    <3>4. Actions(stale) = [num |-> Actions(stale).num,
             attempt |-> Actions(stale).attempt,
             unlock |-> Actions(stale).unlock]
      BY DEF Actions
    <3> QED BY <3>1, <3>2, <3>3, <3>4, <1>1 DEF PlanSet, AttSet
  <2>2. CASE ReconcileApplies
    BY <2>2, RecoveryAssumption DEF ReconcileApplies, NoPlan, PlanSet
  <2> QED BY <2>1, <2>2, <1>1, Frames
<1>6. used' \in [recovers : 0..MaxRecovers, troubles : 0..MaxTroubles]
  <2>1. CASE RecoverLooks \/ ReconcileLooks \/ Crash
    BY <2>1, <1>1, RecoveryAssumption DEF RecoverLooks, ReconcileLooks, Crash
  <2> QED BY <2>1, <1>1, Frames
<1> QED BY <1>2, <1>3, <1>4, <1>5, <1>6

\* TypeOK is inductive, given the order of the updates.
LEMMA TypeKept ==
  ASSUME TypeOK, OrderInv, [Next]_vars
  PROVE TypeOK'
<1>1. CallTypeOK'
  BY CallKept DEF TypeOK
<1> QED
  BY <1>1, TodoKept, SnapshotsKept, AttKept, TaskKept, StageKept, RestKept
  DEF TypeOK, AttSet, ReviewSet, PlanSet

-----------------------------------------------------------------------------
(* What the actions do                                                     *)

\* What adoptRecoveryAtomically writes.
LEMMA AdoptDoes ==
  ASSUME att \in AttSet, NEW s \in Snapshot, NEW source \in {"manual", "auto"},
         Adopt(s, source)
  PROVE /\ att'.num = att.num /\ att'.status = "worker_completed"
        /\ att'.result = s.commit /\ att'.source = source
        /\ att'.adopted = s.commit
        /\ task' = "worker_completed" /\ stage' = "paused"
  BY DEF Adopt, AttSet

\* What executeAtomicAction writes on an attempt.
LEMMA ApplyDoes ==
  ASSUME att \in AttSet, NEW p, Apply(p)
  PROVE /\ att'.num = att.num /\ att'.result = att.result
        /\ att'.source = att.source /\ att'.adopted = att.adopted
        /\ \/ att'.status = att.status
           \/ /\ att'.status = "interrupted"
              /\ att.status \notin {"approved", "failed"}
           \/ /\ att'.status = review.verdict
              /\ review.verdict \in {"approved", "rework_required"}
              /\ review.verdict \in AttNext[att.status]
<1>1. \/ att' = att
      \/ /\ att' = [att EXCEPT !.status = "interrupted"]
         /\ att.status \notin {"approved", "failed"}
      \/ /\ att' = [att EXCEPT !.status = review.verdict]
         /\ review.verdict \in {"approved", "rework_required"}
         /\ review.verdict \in AttNext[att.status]
  BY DEF Apply
<1> QED BY <1>1 DEF AttSet

\* A dispatch takes a new attempt, or throws and changes nothing.
LEMMA DispatchDoes ==
  ASSUME att \in AttSet, Dispatch
  PROVE /\ sched = "loop" /\ stage' = stage /\ stage = "running"
        /\ att.status \in {"failed", "rework_required", "interrupted"}
        /\ auto' = auto /\ rec' = rec /\ plan' = plan
        /\ \/ /\ att'.num = att.num + 1 /\ att'.status = "running"
              /\ att'.result = None /\ att'.adopted = None
              /\ att'.source = "pi" /\ task' = "running"
              /\ review' = NoReview /\ sched' = "call" /\ from' = "fresh"
              /\ given' = None /\ todo' = todo /\ call' = "reads"
              /\ tree'.head = tree.head
           \/ /\ att' = att /\ task' = task /\ review' = review
              /\ sched' = "writes" /\ todo' = Catch /\ from' = from
              /\ given' = given /\ call' = call /\ worker' = worker
              /\ tree' = tree
<1>1. /\ sched = "loop" /\ stage' = stage /\ stage = "running"
      /\ att.status \in {"failed", "rework_required", "interrupted"}
      /\ auto' = auto /\ rec' = rec /\ plan' = plan
  BY DEF Dispatch
<1>2. CASE /\ Begin
           /\ att' = [NoAttempt EXCEPT !.num = att.num + 1,
                                       !.status = "running"]
           /\ task' = "running" /\ review' = NoReview /\ sched' = "call"
           /\ from' = "fresh" /\ given' = None /\ UNCHANGED todo
  BY <1>1, <1>2 DEF NoAttempt, Begin
<1>3. CASE /\ Writes(Catch)
           /\ UNCHANGED <<callVars, att, task, review, from, given>>
  BY <1>1, <1>3 DEF Writes, callVars
<1> QED BY <1>2, <1>3 DEF Dispatch

\* Commits are never taken back.
LEMMA HeadGrows ==
  ASSUME TypeOK, [Next]_vars
  PROVE tree.head \in Int /\ tree'.head \in Int /\ tree'.head >= tree.head
<1>1. tree \in Tree /\ tree.head \in Int /\ att \in AttSet
  BY DEF TypeOK, CallTypeOK, Tree, AttSet
<1>2. CASE UNCHANGED callVars
  BY <1>1, <1>2 DEF callVars
<1>3. CASE Dispatch
  BY <1>1, <1>3, DispatchDoes
<1>4. CASE WorkerCalls
  <2>1. \/ tree' = tree \/ tree' = [tree EXCEPT !.dirty = TRUE]
        \/ tree' = [head |-> tree.head + 1, dirty |-> FALSE]
    BY <1>4 DEF WorkerCalls, Spawn, WorkerGoes, Understood, Works
  <2> QED BY <2>1, <1>1 DEF Tree
<1>5. CASE CallReturns
  BY <1>1, <1>5 DEF CallReturns, Returns
<1>6. CASE Crash
  BY <1>1, <1>6 DEF Crash, callVars
<1>7. CASE Person
  <2>1. \/ tree' = [tree EXCEPT !.dirty = ~@]
        \/ tree' = [head |-> tree.head + 1, dirty |-> FALSE]
    BY <1>7 DEF Person
  <2> QED BY <2>1, <1>1 DEF Tree
<1> QED BY <1>2, <1>3, <1>4, <1>5, <1>6, <1>7, Frames

\* The numbers an attempt, a result and a snapshot are made of.
LEMMA Numbers ==
  ASSUME TypeOK
  PROVE /\ att.num \in Int /\ att.result \in Int /\ att.adopted \in Int
        /\ given \in Int /\ tree.head \in Int
        /\ auto.num \in Int /\ auto.commit \in Int
        /\ rec.num \in Int /\ rec.commit \in Int
        /\ att \in AttSet /\ auto \in Snapshot /\ rec \in Snapshot
  BY DEF TypeOK, AttSet, Snapshot, Commits, None, CallTypeOK, Tree

\* What an attempt, and what is known of it, may become.
LEMMA NumGrows ==
  ASSUME TypeOK, [Next]_vars
  PROVE /\ att'.num \in Int /\ att'.num >= att.num
        /\ att'.num # att.num =>
             /\ Dispatch /\ att'.num = att.num + 1 /\ att'.status = "running"
             /\ att'.source = "pi" /\ att'.result = None /\ att'.adopted = None
<1>1. att \in AttSet /\ att.num \in Int /\ auto \in Snapshot
      /\ rec \in Snapshot
  BY Numbers
<1>2. CASE UpdateAttempt
  BY <1>1, <1>2 DEF UpdateAttempt, AttSet
<1>3. CASE CatchAttempt \/ UpdateResult
  BY <1>1, <1>3 DEF CatchAttempt, UpdateResult, AttSet
<1>4. CASE Review
  BY <1>1, <1>4 DEF Review, AttSet
<1>5. CASE Dispatch
  BY <1>1, <1>5, DispatchDoes
<1>6. CASE AutoAdopts
  BY <1>1, <1>6, AdoptDoes DEF AutoAdopts
<1>7. CASE RecoverAdopts
  BY <1>1, <1>7, AdoptDoes DEF RecoverAdopts
<1>8. CASE ReconcileApplies
  BY <1>1, <1>8, ApplyDoes DEF ReconcileApplies
<1>9. CASE Resume
  BY <1>1, <1>9, ApplyDoes DEF Resume
<1> QED BY <1>1, <1>2, <1>3, <1>4, <1>5, <1>6, <1>7, <1>8, <1>9, Frames

-----------------------------------------------------------------------------
(* The snapshots and the call                                              *)

\* A snapshot stays one of the past.
LEMMA SnapKept ==
  ASSUME TypeOK, SnapInv, [Next]_vars
  PROVE SnapInv'
<1> USE DEF None
<1>1. /\ auto.num <= att.num /\ rec.num <= att.num
      /\ auto.at # "idle" => auto.commit # None /\ auto.commit <= tree.head
      /\ rec.at # "idle" => rec.commit # None /\ rec.commit <= tree.head
      /\ auto.at # "idle" => sched = "auto"
      /\ att.result <= tree.head /\ att.adopted <= tree.head
      /\ given <= tree.head
  BY DEF SnapInv
<1>2. /\ att.num \in Int /\ att.result \in Int /\ att.adopted \in Int
      /\ given \in Int /\ tree.head \in Int
      /\ auto.num \in Int /\ auto.commit \in Int
      /\ rec.num \in Int /\ rec.commit \in Int
      /\ att \in AttSet /\ auto \in Snapshot /\ rec \in Snapshot
  BY Numbers
<1>3. tree'.head \in Int /\ tree'.head >= tree.head
  BY HeadGrows
<1>4. att'.num \in Int /\ att'.num >= att.num
  BY NumGrows
<1>5. att.num >= 0 /\ tree.head >= 0
  BY RecoveryAssumption DEF TypeOK, CallTypeOK, Tree
<1>6. auto'.num <= att'.num
      /\ (auto'.at # "idle" =>
            auto'.commit # None /\ auto'.commit <= tree'.head)
  <2>1. CASE AutoLooks
    BY <2>1, <1>1, <1>2, <1>3, <1>4, <1>5 DEF AutoLooks, Seen, callVars
  <2>2. CASE AutoGates
    <3>1. auto' = Idle \/ auto' = [auto EXCEPT !.at = "adopt"]
      BY <2>2 DEF AutoGates
    <3>2. auto.at # "idle"
      BY <2>2 DEF AutoGates
    <3> QED BY <3>1, <3>2, <1>1, <1>2, <1>3, <1>4, <1>5 DEF Idle, Snapshot
  <2>3. CASE AutoAdopts \/ Crash
    BY <2>3, <1>2, <1>4, <1>5 DEF AutoAdopts, Crash, Idle
  <2> QED BY <2>1, <2>2, <2>3, <1>1, <1>2, <1>3, <1>4, Frames
<1>7. rec'.num <= att'.num
      /\ (rec'.at # "idle" => rec'.commit # None /\ rec'.commit <= tree'.head)
  <2>1. CASE RecoverLooks
    BY <2>1, <1>1, <1>2, <1>3, <1>4, <1>5 DEF RecoverLooks, Seen, callVars
  <2>2. CASE RecoverGates
    <3>1. rec' = Idle \/ rec' = [rec EXCEPT !.at = "adopt"]
      BY <2>2 DEF RecoverGates
    <3>2. rec.at # "idle"
      BY <2>2 DEF RecoverGates
    <3> QED BY <3>1, <3>2, <1>1, <1>2, <1>3, <1>4, <1>5 DEF Idle, Snapshot
  <2>3. CASE RecoverAdopts
    BY <2>3, <1>2, <1>4, <1>5 DEF RecoverAdopts, Idle
  <2> QED BY <2>1, <2>2, <2>3, <1>1, <1>2, <1>3, <1>4, Frames
<1>8. auto'.at # "idle" => sched' = "auto"
  <2>1. CASE AutoLooks
    BY <2>1, <1>1 DEF AutoLooks, Idle
  <2>2. CASE AutoGates
    BY <2>2 DEF AutoGates, Idle
  <2>3. CASE AutoAdopts \/ Crash
    BY <2>3 DEF AutoAdopts, Crash, Idle
  <2>4. CASE UNCHANGED auto /\ ~(AutoLooks \/ AutoGates \/ AutoAdopts \/ Crash)
    <3>1. sched = "auto" => sched' = sched
      <4>1. CASE Done \/ Dispatch \/ Drained \/ CallReturns \/ ResumeKept
              \/ Resume
        BY <4>1 DEF Done, Dispatch, Drained, CallReturns, ResumeKept, Resume
      <4> QED BY <4>1, <2>4, Frames
    <3> QED BY <3>1, <2>4, <1>1
  <2> QED BY <2>1, <2>2, <2>3, <2>4, Frames
<1>9. att'.result <= tree'.head /\ att'.adopted <= tree'.head
  <2>1. CASE UpdateAttempt
    BY <2>1, <1>1, <1>2, <1>3 DEF UpdateAttempt, AttSet
  <2>2. CASE CatchAttempt
    BY <2>2, <1>1, <1>2, <1>3 DEF CatchAttempt, AttSet
  <2>3. CASE UpdateResult
    BY <2>3, <1>1, <1>2, <1>3, <1>5 DEF UpdateResult, AttSet
  <2>4. CASE Review
    BY <2>4, <1>1, <1>2, <1>3 DEF Review, AttSet
  <2>5. CASE Dispatch
    BY <2>5, <1>1, <1>2, <1>3, <1>5, DispatchDoes
  <2>6. CASE AutoAdopts
    <3>1. att' = att \/ Adopt(auto, "auto")
      BY <2>6 DEF AutoAdopts
    <3>2. auto.at # "idle"
      BY <2>6 DEF AutoAdopts
    <3> QED BY <3>1, <3>2, <1>1, <1>2, <1>3, AdoptDoes
  <2>7. CASE RecoverAdopts
    <3>1. att' = att \/ Adopt(rec, "manual")
      BY <2>7 DEF RecoverAdopts
    <3>2. rec.at # "idle"
      BY <2>7 DEF RecoverAdopts
    <3> QED BY <3>1, <3>2, <1>1, <1>2, <1>3, AdoptDoes
  <2>8. CASE ReconcileApplies
    BY <2>8, <1>1, <1>2, <1>3, ApplyDoes DEF ReconcileApplies
  <2>9. CASE Resume
    BY <2>9, <1>1, <1>2, <1>3, ApplyDoes DEF Resume
  <2> QED
    BY <2>1, <2>2, <2>3, <2>4, <2>5, <2>6, <2>7, <2>8, <2>9, <1>1, <1>2, <1>3,
       Frames
<1>10. given' <= tree'.head
  <2>1. CASE Dispatch
    BY <2>1, <1>1, <1>2, <1>3, <1>5, DispatchDoes
  <2>2. CASE CallReturns
    <3>1. given' = None \/ given' \in 0..tree.head
      BY <2>2 DEF CallReturns
    <3> QED BY <3>1, <1>2, <1>3, <1>5
  <2>3. CASE ResumeKept
    BY <2>3, <1>1, <1>2, <1>3 DEF ResumeKept
  <2> QED BY <2>1, <2>2, <2>3, <1>1, <1>2, <1>3, Frames
<1> QED BY <1>6, <1>7, <1>8, <1>9, <1>10 DEF SnapInv

\* What the adoption by the scheduler itself finds.
LEMMA AutoFinds ==
  ASSUME CallInv, SnapInv, AutoAdopts, MayAdopt(auto)
  PROVE /\ att.source = "pi" /\ auto.num = att.num /\ Same(auto)
        /\ Same(rec) => rec.task = "running"
<1>1. auto.num = att.num /\ auto.task = task /\ auto.at # "idle"
      /\ sched = "auto"
  BY DEF AutoAdopts, MayAdopt, Current
<1>2. task = "running"
  BY <1>1 DEF CallInv, Same
<1> QED BY <1>1, <1>2 DEF CallInv, Same

\* While the worker is called, its attempt and its task wait for it.
LEMMA CallInvKept ==
  ASSUME TypeOK, OrderInv, SnapInv, CallInv, NoResult, [Next]_vars
  PROVE CallInv'
<1> SUFFICES ASSUME sched' \in {"call", "auto"} PROVE CallInv'
  BY DEF CallInv
<1>1. /\ att \in AttSet /\ auto \in Snapshot /\ rec \in Snapshot
      /\ att.num \in Int /\ auto.num \in Int /\ rec.num \in Int
  BY Numbers
<1>2. auto.num <= att.num /\ rec.num <= att.num
      /\ (auto.at # "idle" => sched = "auto")
      /\ (rec.at # "idle" => rec.commit # None)
  BY DEF SnapInv
<1>a. CASE Dispatch
  <2>1. /\ att'.num = att.num + 1 /\ att'.status = "running"
        /\ att'.source = "pi" /\ task' = "running"
        /\ review' = NoReview /\ from' = "fresh" /\ auto' = auto /\ rec' = rec
    BY <1>1, <1>a, DispatchDoes
  <2>2. ~Same(rec)' /\ ~Same(auto)'
    BY <2>1, <1>1, <1>2 DEF Same
  <2> QED BY <2>1, <2>2 DEF CallInv, NoReview
<1>b. CASE ResumeKept
  \* an attempt that is kept has its result
  BY <1>b DEF ResumeKept, Kept, NoResult, Writes
<1>c. ASSUME sched \in {"call", "auto"} PROVE CallInv'
  <2>1. /\ from = "fresh" /\ review.verdict = "none"
        /\ IF att.source = "pi"
           THEN /\ task = "running" /\ att.status \in {"running", "interrupted"}
                /\ Same(rec) => rec.task = "running"
           ELSE task = "worker_completed" /\ att.result # None
        /\ Same(auto) => auto.task = "running"
    BY <1>c DEF CallInv
  <2>2. CASE UNCHANGED <<att, task, review, from, auto, rec>>
    BY <2>1, <2>2 DEF CallInv, Same
  <2>3. CASE AutoLooks
    <3>1. \/ auto' = auto
          \/ auto' = Seen /\ att.result = None
      BY <2>3 DEF AutoLooks
    <3>2. UNCHANGED <<att, task, review, from, rec>>
      BY <2>3 DEF AutoLooks, records
    <3> QED BY <3>1, <3>2, <2>1 DEF CallInv, Same, Seen
  <2>4. CASE AutoGates
    <3>1. auto' = [auto EXCEPT !.at = "adopt"]
      BY <2>4 DEF AutoGates, NotAdopted, Writes
    <3>2. UNCHANGED <<att, task, review, from, rec>>
      BY <2>4 DEF AutoGates, records
    <3>3. auto.at = "gates"
      BY <2>4 DEF AutoGates
    <3> QED BY <3>1, <3>2, <3>3, <2>1, <1>1 DEF CallInv, Same, Snapshot
  <2>5. CASE AutoAdopts
    BY <2>5 DEF AutoAdopts, Writes, NotAdopted
  <2>6. CASE RecoverLooks
    BY <2>6, <2>1 DEF RecoverLooks, CallInv, Same, Seen, records, scheduler
  <2>7. CASE RecoverGates
    <3>1. rec' = Idle \/ rec' = [rec EXCEPT !.at = "adopt"]
      BY <2>7 DEF RecoverGates
    <3>2. UNCHANGED <<att, task, review, from, auto>> /\ rec.at = "gates"
      BY <2>7 DEF RecoverGates, records, scheduler
    <3> QED BY <3>1, <3>2, <2>1, <1>1 DEF CallInv, Same, Snapshot, Idle
  <2>8. CASE RecoverAdopts
    <3>1. rec' = Idle /\ UNCHANGED <<review, from, auto>> /\ rec.at # "idle"
      BY <2>8 DEF RecoverAdopts, scheduler
    <3>2. \/ att' = att /\ task' = task
          \/ /\ att'.num = att.num /\ att'.source = "manual"
             /\ att'.result = rec.commit /\ task' = "worker_completed"
      BY <2>8, <1>1, AdoptDoes DEF RecoverAdopts
    <3> QED BY <3>1, <3>2, <2>1, <1>2 DEF CallInv, Same, Idle
  <2>9. CASE ReconcileApplies
    <3>1. UNCHANGED <<task, review, from, auto, rec>>
      BY <2>9 DEF ReconcileApplies, scheduler
    <3>2. /\ att'.num = att.num /\ att'.result = att.result
          /\ att'.source = att.source
          /\ att'.status \in {att.status, "interrupted"}
      BY <2>9, <1>1, <2>1, ApplyDoes DEF ReconcileApplies
    <3> QED BY <3>1, <3>2, <2>1 DEF CallInv, Same
  <2>10. sched # "writes" /\ sched # "loop" /\ sched # "off"
    BY <1>c
  <2>11. ~(UpdateAttempt \/ UpdateTask \/ CatchAttempt \/ CatchTask
             \/ UpdateResult \/ Review \/ Dispatch \/ RetryBlocked
             \/ ResumeKept \/ Resume)
    BY <2>10 DEF UpdateAttempt, UpdateTask, CatchAttempt, CatchTask,
         UpdateResult, Review, Dispatch, RetryBlocked, ResumeKept, Resume,
         Next1
  <2>12. ~Crash
    BY DEF Crash
  <2> QED
    BY <2>2, <2>3, <2>4, <2>5, <2>6, <2>7, <2>8, <2>9, <2>11, <2>12, Frames
<1>d. sched \in {"call", "auto"} \/ Dispatch \/ ResumeKept
  <2>1. CASE Done \/ Drained \/ Resume \/ Crash
    BY <2>1 DEF Done, Drained, Resume, Crash
  <2>2. CASE CallReturns \/ AutoLooks \/ AutoGates \/ AutoAdopts
    BY <2>2 DEF CallReturns, AutoLooks, AutoGates, AutoAdopts
  <2> QED BY <2>1, <2>2, Frames
<1> QED BY <1>a, <1>b, <1>c, <1>d

-----------------------------------------------------------------------------
(* New lists of updates                                                    *)

\* The updates whose place among the others matters.
Marked == {A("worker_completed"), A("approved"), Persist, Wipe, Verd, Retried}

\* The lists without any update of note.
LEMMA PlainItems ==
  ASSUME NEW list \in {Lost, Unverifiable, GatesFailed,
                       Verdict("rework_required"), Catch, <<Pause>>,
                       <<Unlock>>, <<>>}
  PROVE Items(list) \cap Marked = {}
<1> USE DEF Marked, A, T, Persist, Wipe, Verd, Retried, Pause, Unlock
<1>1. Items(Lost) \cap Marked = {} /\ Items(Unverifiable) \cap Marked = {}
  BY LostItems, UnverifiableItems
<1>2. /\ Items(GatesFailed) \cap Marked = {}
      /\ Items(Verdict("rework_required")) \cap Marked = {}
  BY GatesFailedItems, VerdictItems
<1>3. Items(Catch) \cap Marked = {} /\ Items(<<Pause>>) \cap Marked = {}
  BY CatchItems, PauseItems
<1>4. Items(<<Unlock>>) \cap Marked = {} /\ Items(<<>>) \cap Marked = {}
  BY UnlockItems, NoItems
<1> HIDE DEF Marked, A, T, Persist, Wipe, Verd, Retried, Pause, Unlock
<1> QED BY <1>1, <1>2, <1>3, <1>4

\* The updates of note are different ones.
LEMMA MarksDiffer ==
  /\ Persist \notin {A("worker_completed"), A("approved"), Wipe, Verd, Retried}
  /\ A("worker_completed") \notin {A("approved"), Wipe, Verd, Retried}
  /\ A("approved") \notin {Wipe, Verd, Retried}
  /\ Wipe \notin {Verd, Retried} /\ Verd # Retried
BY DEF A, T, Persist, Wipe, Verd, Retried

\* The updates of note in each of the other lists.
LEMMA MarkedItems ==
  /\ Items(Missing) \cap Marked = {Wipe} /\ A("failed") \in Items(Missing)
  /\ \A list \in {Decision, Blocked, Failed} :
       Items(list) \cap Marked = {Persist}
  /\ Items(OverBudget) \cap Marked = {Persist, A("worker_completed")}
  /\ Items(Completed) \cap Marked = {Persist, A("worker_completed"), Verd}
  /\ Items(Post) \cap Marked = {Verd}
  /\ \A list \in {Post, Completed} :
       Evid \in Items(list) /\ A("reviewing") \in Items(list)
  /\ Items(Verdict("approved")) \cap Marked = {A("approved")}
  /\ Items(Unavailable) \cap Marked = {Retried}
<1> USE DEF Marked, A, T, Persist, Wipe, Verd, Retried, Pause, Unlock, Evid
<1>1. Items(Missing) \cap Marked = {Wipe} /\ A("failed") \in Items(Missing)
  BY MissingItems
<1>2. \A list \in {Decision, Blocked, Failed} :
       Items(list) \cap Marked = {Persist}
  BY DecisionItems, BlockedItems, FailedItems
<1>3. Items(OverBudget) \cap Marked = {Persist, A("worker_completed")}
  BY OverBudgetItems
<1>4. Items(Completed) \cap Marked = {Persist, A("worker_completed"), Verd}
  BY CompletedItems, PostItems
<1>5. Items(Post) \cap Marked = {Verd}
  BY PostItems
<1>6. \A list \in {Post, Completed} :
       Evid \in Items(list) /\ A("reviewing") \in Items(list)
  BY CompletedItems, PostItems
<1>7. Items(Verdict("approved")) \cap Marked = {A("approved")}
  BY VerdictItems
<1>8. Items(Unavailable) \cap Marked = {Retried}
  BY UnavailableItems
<1> HIDE DEF Marked, A, T, Persist, Wipe, Verd, Retried, Pause, Unlock, Evid
<1> QED BY <1>1, <1>2, <1>3, <1>4, <1>5, <1>6, <1>7, <1>8

\* The next update is made, and the others are left as they are.
Advances ==
  sched = "writes" /\ sched' = "writes" /\ todo # <<>> /\ todo' = Tail(todo)

\* What is left after an update, and before it.
LEMMA Advanced ==
  ASSUME TypeOK, Advances
  PROVE /\ Left' \subseteq Left /\ Left = Left' \cup {Head(todo)}
        /\ Head(todo) = todo[1] /\ Head(todo) \in Updates
<1>1. todo \in Seq(Updates) /\ todo # <<>> /\ todo' = Tail(todo)
  BY DEF TypeOK, Advances
<1>2. Left = Items(todo) /\ Left' = Items(Tail(todo))
  BY <1>1 DEF Left
<1>3. Head(todo) = todo[1] /\ Head(todo) \in Items(todo)
  BY <1>1, TailOf, TailItems
<1> QED BY <1>1, <1>2, <1>3, TailItems

\* What a list that is new may hold, and who wrote it.
Fresh ==
  /\ Persist \in Left' => CallReturns /\ given' # None
  /\ A("worker_completed") \in Left' => Persist \in Left'
  /\ Wipe \in Left' => A("failed") \in Left'
  /\ Verd \in Left' => /\ CallReturns \/ ResumeKept
                       /\ Evid \in Left' /\ A("reviewing") \in Left'
  /\ A("approved") \in Left' =>
       /\ Review /\ Head(todo) = Verd
       /\ review' = [verdict |-> "approved", through |-> tree.head]
  /\ Retried \in Left' =>
       Review /\ review'.verdict = "failed" /\ Verd \notin Left'

\* A new list without any update of note says nothing.
LEMMA PlainFresh ==
  ASSUME Left' \cap Marked = {} PROVE Fresh
BY DEF Fresh, Marked

\* Each step leaves the updates alone, makes the next one or brings a
\* new list.
LEMMA NewList ==
  ASSUME TypeOK, [Next]_vars
  PROVE todo' = todo \/ Advances \/ Fresh
<1> USE DEF Left
<1>p. ASSUME todo' \in {Lost, Unverifiable, GatesFailed,
                       Verdict("rework_required"), Catch, <<Pause>>,
                       <<Unlock>>, <<>>}
      PROVE Fresh
  BY <1>p, PlainItems, PlainFresh
<1>m. ASSUME todo' = Missing PROVE Fresh
  BY <1>m, MarkedItems, MarksDiffer DEF Fresh, Marked
<1>n. ASSUME NotAdopted PROVE Fresh
  BY <1>n, <1>p, <1>m DEF NotAdopted, Writes
<1>1. CASE UpdateAttempt
  BY <1>1, <1>p DEF UpdateAttempt, Rest, Throws, Next1, working, Advances
<1>2. CASE UpdateTask
  BY <1>2, <1>p DEF UpdateTask, Rest, Throws, Next1, working, Advances
<1>3. CASE CatchAttempt
  BY <1>3, <1>p DEF CatchAttempt, Rest, Next1, working, Advances
<1>4. CASE CatchTask \/ UpdateResult \/ PauseStage \/ ReleaseLocks
  BY <1>4 DEF CatchTask, UpdateResult, PauseStage, ReleaseLocks, Rest, Next1,
              working, Advances
<1>5. CASE Check
  BY <1>5, <1>p DEF Check, Rest, Next1, working, Advances
<1>6. CASE Review
  <2>1. CASE Head(todo)[2] = "create"
    BY <1>6, <2>1 DEF Review, Rest, Next1, working, Advances
  <2>2. CASE Head(todo)[2] = "result"
    <3>1. PICK v \in {"approved", "rework_required", "failed"} :
            /\ review' = [verdict |-> v, through |-> tree.head]
            /\ todo' = IF v = "failed" THEN Unavailable ELSE Verdict(v)
      BY <1>6, <2>2 DEF Review
    <3>2. Head(todo) = Verd
      <4>1. Head(todo) \in Updates /\ Head(todo)[1] = "review"
        BY <1>6, TailOf, ElementOfSeq DEF Review, Next1, TypeOK
      <4> QED BY <4>1, <2>2 DEF Updates, Verd
    <3>3. CASE v = "approved"
      BY <3>1, <3>2, <3>3, <1>6, MarkedItems, MarksDiffer DEF Fresh, Marked
    <3>4. CASE v = "rework_required"
      BY <3>1, <3>4, <1>p
    <3>5. CASE v = "failed"
      BY <3>1, <3>5, <1>6, MarkedItems, MarksDiffer DEF Fresh, Marked
    <3> QED BY <3>3, <3>4, <3>5
  <2>3. CASE Head(todo)[2] \notin {"create", "result"}
    BY <1>6, <2>3, <1>p DEF Review, Rest, Throws, Next1, working, Advances
  <2> QED BY <2>1, <2>2, <2>3
<1>7. CASE Dispatch
  BY <1>7, <1>p DEF Dispatch, Writes
<1>8. CASE CallReturns
  <2>1. PICK outcome \in Outcome :
      /\ IF outcome \in {"missing", "threw"} THEN given' = None
                                             ELSE given' \in 0..tree.head
      /\ CASE outcome = "missing" -> sched' = "auto" /\ UNCHANGED todo
           [] outcome = "threw" -> Writes(Catch)
           [] outcome = "decision" -> Writes(Decision)
           [] outcome = "blocked" -> Writes(Blocked)
           [] outcome = "failed" -> Writes(Failed)
           [] outcome = "completed" -> Writes(Completed) \/ Writes(OverBudget)
    BY <1>8 DEF CallReturns
  <2>2. CASE outcome = "missing"
    BY <2>1, <2>2
  <2>3. CASE outcome = "threw"
    BY <2>1, <2>3, <1>p DEF Writes
  <2>4. CASE outcome \in {"decision", "blocked", "failed"}
    <3>1. todo' \in {Decision, Blocked, Failed}
      BY <2>1, <2>4 DEF Writes
    <3>2. given' # None
      BY <2>1, <2>4 DEF None
    <3> QED BY <3>1, <3>2, <1>8, MarkedItems, MarksDiffer DEF Fresh, Marked
  <2>5. CASE outcome = "completed"
    <3>1. todo' = Completed \/ todo' = OverBudget
      BY <2>1, <2>5 DEF Writes
    <3>2. given' # None
      BY <2>1, <2>5 DEF None
    <3>3. CASE todo' = Completed
      BY <3>2, <3>3, <1>8, MarkedItems, MarksDiffer DEF Fresh, Marked
    <3>4. CASE todo' = OverBudget
      BY <3>2, <3>4, <1>8, MarkedItems, MarksDiffer DEF Fresh, Marked
    <3> QED BY <3>1, <3>3, <3>4
  <2> QED BY <2>1, <2>2, <2>3, <2>4, <2>5 DEF Outcome
<1>9. CASE ResumeKept
  <2>1. todo' = todo \/ todo' = Post \/ todo' = <<Pause>>
    BY <1>9 DEF ResumeKept, Writes
  <2>2. CASE todo' = Post
    BY <2>2, <1>9, MarkedItems, MarksDiffer DEF Fresh, Marked
  <2> QED BY <2>1, <2>2, <1>p
<1>10. CASE AutoLooks \/ AutoGates
  BY <1>10, <1>n DEF AutoLooks, AutoGates
<1>11. CASE AutoAdopts
  BY <1>11, <1>n, <1>p DEF AutoAdopts, Writes
<1>12. CASE Crash
  BY <1>12, <1>p DEF Crash
<1>13. CASE Done \/ RetryBlocked \/ Finish \/ Drained \/ WorkerCalls
  BY <1>13 DEF Done, RetryBlocked, Finish, Drained, WorkerCalls, scheduler
<1>14. CASE RecoverLooks \/ RecoverGates \/ RecoverAdopts \/ Resume
  BY <1>14 DEF RecoverLooks, RecoverGates, RecoverAdopts, Resume, scheduler
<1>15. CASE ReconcileLooks \/ ReconcileApplies \/ Person \/ UNCHANGED vars
  BY <1>15 DEF ReconcileLooks, ReconcileApplies, Person, scheduler, vars
<1> QED
  BY <1>1, <1>2, <1>3, <1>4, <1>5, <1>6, <1>7, <1>8, <1>9, <1>10, <1>11,
     <1>12, <1>13, <1>14, <1>15 DEF Next

\* No status is terminal, or the same, and has a next one.
LEMMA Exclusive ==
  \A s \in DOMAIN AttNext : \A to \in AttNext[s] : s \notin Terminal \cup {to}
BY DEF AttNext, Terminal

\* What the scheduler may write on the attempt.
LEMMA UpdateDoes ==
  ASSUME TypeOK, UpdateAttempt
  PROVE \E to \in {"worker_completed", "validating", "reviewing", "approved",
                   "rework_required", "failed"} :
          /\ Head(todo) = A(to) /\ sched = "writes" /\ todo # <<>>
          /\ UNCHANGED <<task, stage, review, sched, from, given, auto, rec,
                         callVars>>
          /\ att'.num = att.num /\ att'.result = att.result
          /\ att'.source = att.source /\ att'.adopted = att.adopted
          /\ \/ /\ Advances /\ att' = att
                /\ att.status \in Terminal \cup {to}
             \/ /\ Advances /\ att.status \notin Terminal
                /\ att'.status = to /\ to \in AttNext[att.status]
             \/ todo' = Catch /\ att' = att
<1>1. /\ sched = "writes" /\ todo # <<>> /\ Head(todo)[1] = "attempt"
      /\ UNCHANGED <<task, stage, review, sched, from, given, auto, rec,
                     callVars>>
  BY DEF UpdateAttempt, Next1, working
<1>2. Head(todo) \in Updates
  BY <1>1, TailItems, TailOf, ElementOfSeq DEF TypeOK
<1>3. PICK to \in {"worker_completed", "validating", "reviewing", "approved",
                   "rework_required", "failed"} :
        Head(todo) = A(to) /\ to = Head(todo)[2]
  BY <1>1, <1>2 DEF Updates, AttNext, A
<1>x. to \in AttNext[att.status] => att.status \notin Terminal \cup {to}
  BY Exclusive, Numbers DEF AttSet
<1>4. \/ /\ Advances /\ att' = att
         /\ att.status \in Terminal \cup {to}
      \/ /\ Advances /\ att.status \notin Terminal
         /\ att' = [att EXCEPT !.status = to] /\ to \in AttNext[att.status]
      \/ todo' = Catch /\ att' = att
  BY <1>1, <1>3, <1>x DEF UpdateAttempt, Advances, Rest, Throws
<1>5. att \in AttSet
  BY Numbers
<1> QED BY <1>1, <1>3, <1>4, <1>5 DEF AttSet

\* What the review may write on attempt and task.
LEMMA ReviewDoes ==
  ASSUME TypeOK, Review
  PROVE /\ sched = "writes" /\ todo # <<>> /\ Head(todo)[1] = "review"
        /\ UNCHANGED <<stage, sched, from, given, auto, rec, callVars>>
        /\ att'.num = att.num /\ att'.result = att.result
        /\ att'.source = att.source /\ att'.adopted = att.adopted
        /\ \/ /\ Advances /\ review'.verdict = "asked"
              /\ Head(todo) = <<"review", "create">>
              /\ att' = att /\ task' = task
           \/ /\ Head(todo) = Verd /\ review'.through = tree.head
              /\ review'.verdict \in {"approved", "rework_required", "failed"}
              /\ att' = att /\ task' = task
           \/ /\ Head(todo) = Retried /\ review' = review
              /\ \/ /\ Advances /\ att'.status = "worker_completed"
                    /\ task' = "worker_completed"
                    /\ att.status \in {"reviewing", "worker_completed"}
                 \/ todo' = Catch /\ att' = att /\ task' = task
<1>1. /\ sched = "writes" /\ todo # <<>> /\ Head(todo)[1] = "review"
      /\ UNCHANGED <<stage, sched, from, given, auto, rec, callVars>>
  BY DEF Review, Next1, working
<1>2. Head(todo) \in Updates
  BY <1>1, TailItems, TailOf, ElementOfSeq DEF TypeOK
<1>3. Head(todo) \in {<<"review", "create">>, Verd, Retried}
  BY <1>1, <1>2 DEF Updates, Verd, Retried
<1>4. att \in AttSet
  BY Numbers
<1>5. CASE Head(todo) = <<"review", "create">>
  <2>1. /\ Advances /\ review'.verdict = "asked" /\ att' = att /\ task' = task
    BY <1>5, <1>1 DEF Review, Advances, Rest
  <2> QED BY <2>1, <1>1, <1>5
<1>6. CASE Head(todo) = Verd
  <2>1. /\ review'.through = tree.head /\ att' = att /\ task' = task
        /\ review'.verdict \in {"approved", "rework_required", "failed"}
    BY <1>6, <1>1 DEF Review, Verd
  <2> QED BY <2>1, <1>1, <1>6
<1>7. CASE Head(todo) = Retried
  <2>1. /\ review' = review
        /\ \/ /\ Advances /\ att' = [att EXCEPT !.status = "worker_completed"]
              /\ task' = "worker_completed"
              /\ att.status \in {"reviewing", "worker_completed"}
           \/ todo' = Catch /\ att' = att /\ task' = task
    BY <1>7, <1>1 DEF Review, Retried, Advances, Rest, Throws
  <2> QED BY <2>1, <1>1, <1>4, <1>7 DEF AttSet
<1> QED BY <1>3, <1>5, <1>6, <1>7

\* What the catch block writes on the attempt.
LEMMA CatchDoes ==
  ASSUME TypeOK, CatchAttempt
  PROVE /\ sched = "writes" /\ att'.num = att.num /\ att'.result = att.result
        /\ att'.source = att.source /\ att'.adopted = att.adopted
        /\ UNCHANGED <<task, stage, review, sched, from, given, auto, rec,
                       callVars>>
        /\ \/ att' = att
           \/ att'.status = "failed" /\ att.status \notin Terminal
        /\ Head(todo)[1] = "latest" /\ todo # <<>>
<1>1. att \in AttSet
  BY Numbers
<1>x. "failed" \in AttNext[att.status] => att.status \notin Terminal
  BY <1>1, Exclusive DEF AttSet
<1>2. \/ att' = att
      \/ att' = [att EXCEPT !.status = "failed"] /\ att.status \notin Terminal
  BY <1>x DEF CatchAttempt
<1>3. /\ sched = "writes" /\ Head(todo)[1] = "latest" /\ todo # <<>>
      /\ UNCHANGED <<task, stage, review, sched, from, given, auto, rec,
                     callVars>>
  BY DEF CatchAttempt, Next1, working
<1> QED BY <1>1, <1>2, <1>3 DEF AttSet

\* What becomes of the result of the attempt.
LEMMA ResultDoes ==
  ASSUME TypeOK, UpdateResult
  PROVE /\ Advances /\ att'.num = att.num /\ att'.status = att.status
        /\ att'.source = att.source /\ att'.adopted = att.adopted
        /\ UNCHANGED <<task, stage, review, sched, from, given, auto, rec,
                       callVars>>
        /\ \/ Head(todo) = Wipe /\ att'.result = None
           \/ Head(todo) = Persist /\ att'.result = given
<1>1. att \in AttSet
  BY Numbers
<1>2. /\ Advances /\ Head(todo)[1] = "result"
      /\ att' = [att EXCEPT !.result =
                   IF Head(todo) = Wipe THEN None ELSE given]
      /\ UNCHANGED <<task, stage, review, sched, from, given, auto, rec,
                     callVars>>
  BY DEF UpdateResult, Next1, working, Advances, Rest
<1>3. Head(todo) \in Updates
  BY <1>2, Advanced
<1>4. Head(todo) = Wipe \/ Head(todo) = Persist
  BY <1>2, <1>3 DEF Updates, Wipe, Persist
<1> QED BY <1>1, <1>2, <1>4, MarksDiffer DEF AttSet

-----------------------------------------------------------------------------
(* What the order of the updates decides                                   *)

\* Who may bring the scheduler to its updates.
LEMMA SchedFrame ==
  ASSUME [Next]_vars, sched' = "writes", sched # "writes"
  PROVE \/ Dispatch \/ CallReturns \/ ResumeKept \/ AutoLooks \/ AutoGates
        \/ AutoAdopts
<1>1. CASE Done \/ Drained \/ Resume \/ Crash
  BY <1>1 DEF Done, Drained, Resume, Crash
<1> QED BY <1>1, Frames

\* What the order of the updates says of the next one.
LEMMA FirstThings ==
  ASSUME TypeOK, OrderInv, todo # <<>>
  PROVE /\ Persist \in Left => Head(todo) \in {Persist, Pause}
        /\ Head(todo) = Wipe =>
             A("failed") \notin Left /\ A("worker_completed") \notin Left
        /\ Head(todo) = Verd => Left = {Verd}
        /\ A("approved") \in Left => Head(todo) = A("approved")
        /\ Retried \in Left => Head(todo) = Retried
<1>1. todo \in Seq(Updates) /\ Head(todo) = todo[1] /\ 1 \in DOMAIN todo
      /\ DOMAIN todo = 1..Len(todo)
  BY TailOf, LenProperties DEF TypeOK
<1>2. ASSUME Persist \in Left PROVE Head(todo) \in {Persist, Pause}
  <2>1. PICK i \in DOMAIN todo : todo[i] = Persist
    BY <1>2 DEF Left, Items
  <2> QED BY <2>1, <1>1 DEF OrderInv, Ordered
<1>3. ASSUME Head(todo) = Wipe
      PROVE A("failed") \notin Left /\ A("worker_completed") \notin Left
  <2>1. \A j \in DOMAIN todo :
          /\ todo[j] # A("worker_completed")
          /\ todo[j] = A("failed") => j < 1
    BY <1>1, <1>3 DEF OrderInv, Ordered
  <2>2. Len(todo) \in Nat
    BY <1>1, LenProperties
  <2>3. \A j \in DOMAIN todo : ~(j < 1)
    BY <1>1, <2>2
  <2>4. \A j \in DOMAIN todo :
          todo[j] # A("worker_completed") /\ todo[j] # A("failed")
    BY <2>1, <2>3
  <2> QED BY <2>4 DEF Left, Items
<1>4. ASSUME Head(todo) = Verd PROVE Left = {Verd}
  <2>1. Len(todo) = 1
    BY <1>1, <1>4 DEF OrderInv, Ordered
  <2> QED BY <2>1, <1>1, <1>4 DEF Left, Items
<1>5. ASSUME A("approved") \in Left PROVE Head(todo) = A("approved")
  <2>1. PICK i \in DOMAIN todo : todo[i] = A("approved")
    BY <1>5 DEF Left, Items
  <2> QED BY <2>1, <1>1 DEF OrderInv, Ordered
<1>6. ASSUME Retried \in Left PROVE Head(todo) = Retried
  <2>1. PICK i \in DOMAIN todo : todo[i] = Retried
    BY <1>6 DEF Left, Items
  <2> QED BY <2>1, <1>1 DEF OrderInv, Ordered
<1> QED BY <1>2, <1>3, <1>4, <1>5, <1>6

\* An attempt whose evidence is gone is never carried on.
LEMMA NoResultKept ==
  ASSUME TypeOK, OrderInv, SnapInv, CallInv, NoResult, ToComplete, ToWipe,
         [Next]_vars
  PROVE NoResult'
<1>1. att \in AttSet /\ auto \in Snapshot /\ rec \in Snapshot
  BY Numbers
<1>2. CASE UpdateAttempt
  <2>1. PICK to \in {"worker_completed", "validating", "reviewing", "approved",
                   "rework_required", "failed"} :
          /\ Head(todo) = A(to) /\ sched = "writes" /\ todo # <<>>
          /\ stage' = stage /\ sched' = sched /\ att'.result = att.result
          /\ \/ att'.status = att.status
             \/ /\ Advances /\ att'.status = to /\ to \in AttNext[att.status]
    BY <1>2, UpdateDoes
  <2>2. CASE att'.status = att.status
    BY <2>1, <2>2 DEF NoResult
  <2>3. CASE Advances /\ att'.status = to /\ to \in AttNext[att.status]
    <3>1. A(to) \in Left /\ Persist \notin Left
      BY <2>1, <2>3, Advanced, FirstThings DEF A, Persist, Pause
    <3>2. CASE to = "worker_completed"
      BY <3>1, <3>2, <2>1, <2>3 DEF NoResult, ToComplete
    <3>3. CASE to = "validating"
      BY <3>3, <2>1, <2>3, <1>1 DEF NoResult, AttNext, AttSet
    <3>4. CASE to = "reviewing"
      BY <3>4, <2>1, <2>3, <1>1 DEF NoResult, AttNext, AttSet
    <3> QED BY <3>2, <3>3, <3>4, <2>1, <2>3 DEF NoResult
  <2> QED BY <2>1, <2>2, <2>3
<1>3. CASE CatchAttempt
  BY <1>3, CatchDoes DEF NoResult
<1>4. CASE UpdateResult
  <2>1. CASE Head(todo) = Wipe
    <3>1. Wipe \in Left /\ A("failed") \notin Left
      BY <2>1, <1>4, ResultDoes, Advanced, FirstThings DEF Advances
    <3>2. stage # "running" \/ att.status \in Terminal
      BY <3>1 DEF ToWipe
    <3> QED BY <3>2, <1>4, ResultDoes DEF NoResult, Terminal
  <2>2. CASE att'.result = given /\ Head(todo) = Persist
    BY <2>2, <1>4, ResultDoes, Advanced DEF NoResult, ToComplete
  <2> QED BY <2>1, <2>2, <1>4, ResultDoes
<1>5. CASE Review
  BY <1>5, ReviewDoes DEF NoResult
<1>6. CASE Dispatch
  BY <1>1, <1>6, DispatchDoes DEF NoResult
<1>7. CASE AutoAdopts
  <2>1. CASE Adopt(auto, "auto")
    BY <2>1, <1>1, AdoptDoes DEF NoResult
  <2>2. CASE NotAdopted /\ UNCHANGED <<att, stage>>
    BY <2>2, <1>7 DEF NoResult, CallInv, AutoAdopts
  <2> QED BY <2>1, <2>2, <1>7 DEF AutoAdopts
<1>8. CASE RecoverAdopts
  <2>1. CASE Adopt(rec, "manual")
    BY <2>1, <1>1, AdoptDoes DEF NoResult
  <2>2. CASE UNCHANGED <<att, stage, sched>>
    BY <2>2 DEF NoResult
  <2> QED BY <2>1, <2>2, <1>8 DEF RecoverAdopts, scheduler
<1>9. CASE ReconcileApplies
  <2>1. UNCHANGED <<stage, sched>> /\ Apply(plan)
    BY <1>9 DEF ReconcileApplies, scheduler
  <2> QED BY <2>1, <1>1, ApplyDoes DEF NoResult
<1>10. CASE Resume
  <2>1. PICK p \in {Actions(stale) : stale \in BOOLEAN} : Apply(p)
    BY <1>10 DEF Resume
  <2>2. sched' = "loop" /\ ~Blocking
    BY <1>10 DEF Resume
  <2> QED BY <2>1, <2>2, <1>1, ApplyDoes DEF NoResult, Blocking
<1>11. CASE UNCHANGED att
  <2>1. CASE UNCHANGED <<stage, sched>>
    BY <1>11, <2>1 DEF NoResult
  <2>2. CASE PauseStage \/ RetryBlocked \/ Finish
    BY <2>2, <1>11 DEF PauseStage, RetryBlocked, Finish, NoResult, scheduler,
       working
  <2>3. CASE Done \/ Drained \/ Crash
    BY <2>3, <1>11 DEF Done, Drained, Crash, NoResult, records
  <2>4. CASE CallReturns
    <3>1. sched = "call" /\ UNCHANGED <<att, stage>>
      BY <2>4 DEF CallReturns, records
    <3> QED BY <3>1 DEF NoResult, CallInv
  <2>5. CASE ResumeKept
    BY <2>5, <1>11 DEF ResumeKept, NoResult, Kept, records
  <2>6. CASE AutoLooks \/ AutoGates
    <3>1. sched = "auto" /\ UNCHANGED <<att, stage>>
      BY <2>6 DEF AutoLooks, AutoGates, records
    <3> QED BY <3>1 DEF NoResult, CallInv
  <2> QED
    BY <1>6, <1>7, <1>8, <1>10, <2>1, <2>2, <2>3, <2>4, <2>5, <2>6, Frames
<1> QED
  BY <1>2, <1>3, <1>4, <1>5, <1>6, <1>7, <1>8, <1>9, <1>10, <1>11, Frames

\* Whoever acts while the scheduler has updates to make.
LEMMA InWrites ==
  ASSUME [Next]_vars, sched = "writes"
  PROVE /\ UNCHANGED <<from, given>>
        /\ stage' = "running" => stage = "running"
        /\ \/ att' = att \/ UpdateAttempt \/ CatchAttempt \/ UpdateResult
           \/ Review \/ RecoverAdopts \/ ReconcileApplies
        /\ review' = review \/ Review
        /\ task' = task \/ UpdateTask \/ CatchTask \/ Review \/ RecoverAdopts
        /\ sched' = "writes" \/ todo' = <<>>
<1>1. ~(Dispatch \/ RetryBlocked \/ Finish \/ Drained \/ CallReturns
          \/ ResumeKept \/ AutoLooks \/ AutoGates \/ AutoAdopts \/ Resume)
  BY DEF Dispatch, RetryBlocked, Finish, Drained, CallReturns, ResumeKept,
         AutoLooks, AutoGates, AutoAdopts, Resume
<1>2. CASE PauseStage
  BY <1>1, <1>2, Frames DEF PauseStage, working
<1>3. CASE RecoverAdopts
  BY <1>1, <1>3, Frames DEF RecoverAdopts, Adopt, scheduler
<1>4. CASE Done \/ Crash
  BY <1>1, <1>4, Frames DEF Done, Crash, records
<1> QED BY <1>1, <1>2, <1>3, <1>4, Frames

\* The update that is made next decides which action makes it.
LEMMA HeadKinds ==
  ASSUME TypeOK, [Next]_vars, Advances
  PROVE /\ Head(todo)[1] = "attempt" => UpdateAttempt
        /\ Head(todo)[1] = "result" => UpdateResult
        /\ Head(todo)[1] = "check" => Check
        /\ Head(todo)[1] = "review" => Review
        /\ Head(todo)[1] \in {"task", "stage", "locks", "latest", "still"} =>
             UNCHANGED review /\ (att' = att \/ CatchAttempt)
<1>1. sched = "writes" /\ todo # <<>> /\ todo' = Tail(todo) /\ todo' # todo
  <2>1. Len(Tail(todo)) = Len(todo) - 1 /\ Len(todo) \in Nat
    BY TailOf, LenProperties DEF Advances, TypeOK
  <2>2. Tail(todo) # todo
    BY <2>1
  <2> QED BY <2>2 DEF Advances
<1>2. CASE UpdateAttempt \/ UpdateTask \/ CatchAttempt \/ CatchTask
  BY <1>2 DEF UpdateAttempt, UpdateTask, CatchAttempt, CatchTask, Next1
<1>3. CASE UpdateResult \/ PauseStage \/ ReleaseLocks \/ Check \/ Review
  BY <1>3 DEF UpdateResult, PauseStage, ReleaseLocks, Check, Review, Next1,
     records
<1>4. CASE \/ Done \/ Dispatch \/ RetryBlocked \/ Finish \/ Drained
           \/ WorkerCalls \/ CallReturns \/ ResumeKept \/ AutoLooks
           \/ AutoGates \/ AutoAdopts \/ RecoverLooks \/ RecoverGates
           \/ RecoverAdopts \/ ReconcileLooks \/ ReconcileApplies \/ Resume
           \/ Person
  BY <1>4, <1>1 DEF Done, Dispatch, RetryBlocked, Finish, Drained,
     WorkerCalls, CallReturns, ResumeKept, AutoLooks, AutoGates, AutoAdopts,
     RecoverLooks, RecoverGates, RecoverAdopts, ReconcileLooks,
     ReconcileApplies, Resume, Person, scheduler
<1>5. ~Crash
  BY DEF Crash, Advances
<1> QED BY <1>1, <1>2, <1>3, <1>4, <1>5 DEF Next, vars, scheduler

\* There is nothing to be done but by a scheduler that writes.
LEMMA NoneLeft ==
  ASSUME OrderInv, sched # "writes" PROVE Left = {}
BY NoItems DEF OrderInv, Left

\* A result is lost only by an update of it.
LEMMA AttResult ==
  ASSUME TypeOK, SnapInv, [Next]_vars, sched = "writes"
  PROVE \/ att'.result = att.result \/ UpdateResult
        \/ att'.result # None
<1>1. att \in AttSet /\ rec \in Snapshot
  BY Numbers
<1>2. CASE RecoverAdopts
  BY <1>1, <1>2, AdoptDoes DEF RecoverAdopts, SnapInv
<1>3. CASE ReconcileApplies
  BY <1>1, <1>3, ApplyDoes DEF ReconcileApplies
<1>4. CASE UpdateAttempt
  BY <1>4, UpdateDoes
<1>5. CASE CatchAttempt
  BY <1>5, CatchDoes
<1>6. CASE Review
  BY <1>6, ReviewDoes
<1> QED BY <1>2, <1>3, <1>4, <1>5, <1>6, InWrites

\* An attempt is completed with a result, or about to be.
LEMMA ToCompleteKept ==
  ASSUME TypeOK, OrderInv, SnapInv, ToComplete, [Next]_vars
  PROVE ToComplete'
<1>1. CASE Fresh
  BY <1>1 DEF Fresh, ToComplete
<1>2. CASE todo' = todo /\ sched # "writes"
  BY <1>2, NoneLeft DEF Left, ToComplete
<1>3. CASE todo' = todo /\ sched = "writes"
  <2>1. ~UpdateResult
    BY <1>3, ResultDoes, TailOf, LenProperties DEF Advances, TypeOK
  <2>2. Left' = Left
    BY <1>3 DEF Left
  <2> QED BY <1>3, <2>1, <2>2, AttResult, InWrites DEF ToComplete
<1>4. CASE Advances
  <2>1. /\ Left' \subseteq Left /\ Left = Left' \cup {Head(todo)}
        /\ given' = given
    BY <1>4, Advanced, InWrites DEF Advances
  <2>2. CASE UpdateResult
    <3>1. CASE Head(todo) = Persist /\ att'.result = given
      BY <3>1, <2>1 DEF ToComplete
    <3>2. CASE Head(todo) = Wipe
      <4>1. Persist \notin Left
        BY <3>2, <1>4, FirstThings DEF Advances, Wipe, Pause, Persist
      <4>2. A("worker_completed") \notin Left
        BY <3>2, <1>4, FirstThings DEF Advances
      <4> QED BY <4>1, <4>2, <2>1 DEF ToComplete
    <3> QED BY <3>1, <3>2, <2>2, ResultDoes
  <2>3. CASE ~UpdateResult
    <3>1. Head(todo) # Persist
      BY <2>3, <1>4, HeadKinds DEF Persist
    <3> QED BY <3>1, <2>1, <2>3, <1>4, AttResult DEF ToComplete, Advances
  <2> QED BY <2>2, <2>3
<1> QED BY <1>1, <1>2, <1>3, <1>4, NewList

\* A result is taken away only where the attempt ends or the stage rests.
LEMMA ToWipeKept ==
  ASSUME TypeOK, OrderInv, ToWipe, [Next]_vars
  PROVE ToWipe'
<1>1. CASE Fresh
  BY <1>1 DEF Fresh, ToWipe
<1>2. CASE todo' = todo /\ sched # "writes"
  BY <1>2, NoneLeft DEF Left, ToWipe
<1>3. att \in AttSet /\ rec \in Snapshot
  BY Numbers
<1>4. ASSUME sched = "writes"
      PROVE stage' = "running" =>
              /\ stage = "running"
              /\ att.status \in Terminal => att'.status \in Terminal
  <2>1. stage' = "running" => stage = "running"
    BY <1>4, InWrites
  <2>2. CASE UpdateAttempt
    BY <2>1, <2>2, UpdateDoes
  <2>3. CASE CatchAttempt
    BY <2>1, <2>3, CatchDoes
  <2>4. CASE UpdateResult
    BY <2>1, <2>4, ResultDoes
  <2>5. CASE Review
    BY <2>1, <2>5, ReviewDoes DEF Terminal
  <2>6. CASE RecoverAdopts
    BY <2>1, <2>6, <1>3, AdoptDoes DEF RecoverAdopts
  <2>7. CASE ReconcileApplies
    BY <2>1, <2>7, <1>3, ApplyDoes DEF ReconcileApplies, Terminal, AttNext
  <2> QED BY <1>4, <2>1, <2>2, <2>3, <2>4, <2>5, <2>6, <2>7, InWrites
<1>5. CASE todo' = todo /\ sched = "writes"
  BY <1>4, <1>5 DEF Left, ToWipe
<1>6. CASE Advances
  <2>1. /\ Left' \subseteq Left /\ Left = Left' \cup {Head(todo)}
        /\ sched = "writes" /\ todo # <<>> /\ todo' = Tail(todo)
    BY <1>6, Advanced DEF Advances
  <2>2. CASE Head(todo) = A("failed")
    <3>1. UpdateAttempt
      BY <2>2, <1>6, HeadKinds DEF A
    <3>2. CASE todo' = Catch
      BY <3>2, PlainItems DEF ToWipe, Marked, Left
    <3> QED BY <3>1, <3>2, <2>2, UpdateDoes DEF ToWipe, A, Terminal
  <2> QED BY <2>1, <2>2, <1>4 DEF ToWipe
<1> QED BY <1>1, <1>2, <1>5, <1>6, NewList

-----------------------------------------------------------------------------
(* Status, source and result of an attempt                                 *)

\* How an attempt that no one adopts goes on.
LEMMA StatusStep ==
  ASSUME TypeOK, [Next]_vars, att'.num = att.num, att'.source = "pi"
  PROVE /\ att.source = "pi"
        /\ \/ att'.status = att.status
           \/ att'.status = "interrupted"
           \/ att'.status = "failed" /\ CatchAttempt
           \/ /\ att'.status = review.verdict
              /\ review.verdict \in {"approved", "rework_required"}
              /\ review.verdict \in AttNext[att.status]
              /\ ReconcileApplies \/ Resume
           \/ /\ Review /\ Advances /\ Head(todo) = Retried
              /\ att'.status = "worker_completed"
              /\ att.status \in {"reviewing", "worker_completed"}
           \/ /\ UpdateAttempt /\ Advances /\ Head(todo) = A(att'.status)
              /\ att'.status \in AttNext[att.status]
              /\ att'.status # "running"
<1>1. att \in AttSet /\ rec \in Snapshot /\ auto \in Snapshot
      /\ att.num \in Int
  BY Numbers
<1>2. CASE UpdateAttempt
  BY <1>2, UpdateDoes
<1>3. CASE CatchAttempt
  BY <1>3, CatchDoes
<1>4. CASE UpdateResult
  BY <1>4, ResultDoes
<1>5. CASE Review
  BY <1>5, ReviewDoes
<1>6. CASE Dispatch
  BY <1>1, <1>6, DispatchDoes
<1>7. CASE AutoAdopts
  BY <1>1, <1>7, AdoptDoes DEF AutoAdopts
<1>8. CASE RecoverAdopts
  BY <1>1, <1>8, AdoptDoes DEF RecoverAdopts
<1>9. CASE ReconcileApplies
  BY <1>1, <1>9, ApplyDoes DEF ReconcileApplies
<1>10. CASE Resume
  BY <1>1, <1>10, ApplyDoes DEF Resume
<1> QED
  BY <1>2, <1>3, <1>4, <1>5, <1>6, <1>7, <1>8, <1>9, <1>10, Frames

\* A result that is yet to be written has no review, and one whose
\* review is to be asked for again has failed to get it.
LEMMA NotesKept ==
  ASSUME TypeOK, OrderInv, CallInv, RetriedInv, PersistInv, [Next]_vars
  PROVE RetriedInv' /\ PersistInv'
<1>1. CASE Fresh
  <2>1. Persist \in Left' => review'.verdict = "none"
    <3>1. ASSUME Persist \in Left' PROVE review' = review /\ sched = "call"
      BY <1>1, <3>1 DEF Fresh, CallReturns, records
    <3> QED BY <3>1 DEF CallInv
  <2> QED BY <1>1, <2>1 DEF Fresh, RetriedInv, PersistInv
<1>2. CASE sched # "writes" /\ todo' = todo
  BY <1>2, NoneLeft DEF Left, RetriedInv, PersistInv
<1>3. CASE sched = "writes" /\ Left' \subseteq Left /\ ~Review
  BY <1>3, InWrites DEF RetriedInv, PersistInv
<1>4. CASE Review /\ ~Fresh
  <2>1. todo # <<>> /\ Head(todo)[1] = "review" /\ Left' \subseteq Left
    BY <1>4, ReviewDoes, NewList, Advanced DEF Left
  <2>2. Persist \notin Left
    BY <2>1, FirstThings DEF Persist, Pause
  <2>3. Retried \in Left => Head(todo) = Retried
    BY <2>1, FirstThings
  <2>4. Head(todo) = Retried => review' = review
    BY <1>4, ReviewDoes DEF Retried, Verd
  <2> QED BY <2>1, <2>2, <2>3, <2>4 DEF RetriedInv, PersistInv
<1>5. todo' = todo => Left' = Left
  BY DEF Left
<1> QED
  BY <1>1, <1>2, <1>3, <1>4, <1>5, NewList, Advanced DEF Advances

\* A verdict of approval finds the attempt past its checks.
LEMMA JudgedKept ==
  ASSUME TypeOK, OrderInv, CallInv, RetriedInv, JudgedInv, [Next]_vars
  PROVE JudgedInv'
<1> SUFFICES ASSUME att'.source = "pi" PROVE JudgedInv'
  BY DEF JudgedInv
<1>1. att \in AttSet
  BY Numbers
<1>2. CASE att'.num # att.num
  <2>1. Dispatch
    BY <1>2, NumGrows
  <2>2. review' = NoReview /\ todo' = todo /\ sched = "loop"
    BY <1>1, <1>2, <2>1, DispatchDoes
  <2> QED BY <2>2, NoneLeft DEF JudgedInv, NoReview, Left
<1>3. CASE att'.num = att.num
  <2>1. att.source = "pi"
    BY <1>3, StatusStep
  \* from later statuses there is no way back but by a second review
  <2>2. \/ att.status \notin Early => att'.status \notin Early
        \/ Review /\ Advances /\ Head(todo) = Retried
    BY <1>1, <1>3, StatusStep DEF Early, AttNext, AttSet
  <2>3. CASE Review /\ Advances /\ Head(todo) = Retried
    <3>1. review'.verdict = "failed"
      <4>1. Retried \in Left
        BY <2>3, Advanced
      <4> QED BY <2>3, <4>1, ReviewDoes DEF RetriedInv, Retried, Verd
    <3>2. Verd \notin Left'
      BY <2>3, Advanced DEF RetriedInv
    <3> QED BY <3>1, <3>2 DEF JudgedInv
  <2>4. CASE ~(Review /\ Advances /\ Head(todo) = Retried)
    <3>1. review'.verdict = "approved" => att'.status \notin Early
      <4>1. CASE review' = review
        BY <2>1, <2>2, <2>4, <4>1 DEF JudgedInv
      <4>2. CASE Review /\ Head(todo) = Verd
        <5>1. Left = {Verd} /\ att' = att
          BY <4>2, FirstThings, ReviewDoes DEF Verd, Retried
        <5>2. A("reviewing") # Verd
          BY DEF A, Verd
        <5> QED BY <5>1, <5>2, <2>1 DEF JudgedInv
      <4>3. CASE Review /\ Head(todo) # Verd
        BY <4>3, <4>1, ReviewDoes
      <4>4. CASE Dispatch
        BY <4>1, <1>1, <1>3, <4>4, DispatchDoes, Numbers
      <4> QED BY <4>1, <4>2, <4>3, <4>4, Frames
    <3>2. ASSUME Verd \in Left' PROVE A("reviewing") \in Left'
                                        \/ att'.status \notin Early
      <4>1. CASE Fresh
        BY <3>2, <4>1 DEF Fresh
      <4>2. CASE todo' = todo
        BY <3>2, <4>2, <2>1, <2>2, <2>4 DEF JudgedInv, Left
      <4>3. CASE Advances
        <5>1. Left' \subseteq Left /\ Left = Left' \cup {Head(todo)}
          BY <4>3, Advanced
        <5>2. CASE Head(todo) = A("reviewing")
          <6>1. UpdateAttempt
            BY <4>3, <5>2, HeadKinds DEF A
          <6>2. todo' # Catch
            BY <3>2, PlainItems DEF Marked, Left
          <6> QED
            BY <6>1, <6>2, <5>2, UpdateDoes DEF A, Early, Terminal
        <5> QED BY <5>1, <5>2, <3>2, <2>1, <2>2, <2>4 DEF JudgedInv
      <4> QED BY <4>1, <4>2, <4>3, NewList
    <3> QED BY <3>1, <3>2 DEF JudgedInv
  <2> QED BY <2>3, <2>4
<1> QED BY <1>2, <1>3

\* No task goes back to its worker but by a new attempt.
LEMMA AdoptedKept ==
  ASSUME TypeOK, AdoptedInv, [Next]_vars PROVE AdoptedInv'
<1>1. att \in AttSet /\ rec \in Snapshot /\ auto \in Snapshot
      /\ task \in DOMAIN TaskNext
  BY Numbers DEF TypeOK
<1>2. CASE UNCHANGED task
  <2>1. CASE att'.source = att.source
    BY <1>2, <2>1 DEF AdoptedInv
  <2>2. CASE UpdateAttempt
    BY <2>1, <2>2, UpdateDoes
  <2>3. CASE CatchAttempt
    BY <2>1, <2>3, CatchDoes
  <2>4. CASE UpdateResult
    BY <2>1, <2>4, ResultDoes
  <2>5. CASE Review
    BY <2>1, <2>5, ReviewDoes
  <2>6. CASE Dispatch
    BY <2>1, <2>6, <1>1, DispatchDoes DEF AdoptedInv
  <2>7. CASE AutoAdopts
    BY <2>1, <2>7, <1>1, AdoptDoes DEF AutoAdopts, AdoptedInv
  <2>8. CASE RecoverAdopts
    BY <2>1, <2>8, <1>1, AdoptDoes DEF RecoverAdopts, AdoptedInv
  <2>9. CASE ReconcileApplies
    BY <2>1, <2>9, <1>1, ApplyDoes DEF ReconcileApplies
  <2>10. CASE Resume
    BY <2>1, <2>10, <1>1, ApplyDoes DEF Resume
  <2> QED
    BY <2>1, <2>2, <2>3, <2>4, <2>5, <2>6, <2>7, <2>8, <2>9, <2>10, Frames
<1>3. CASE UpdateTask
  <2>1. todo \in Seq(Updates) /\ todo # <<>> /\ Head(todo)[1] = "task"
    BY <1>3 DEF UpdateTask, Next1, TypeOK
  <2>2. Head(todo) \in Updates
    BY <2>1, TailOf, TailItems
  <2>3. Head(todo)[2] # "running"
    BY <2>1, <2>2 DEF Updates
  <2>4. task' = task \/ task' = Head(todo)[2]
    BY <1>3 DEF UpdateTask
  <2>5. att' = att
    BY <1>3 DEF UpdateTask
  <2> QED BY <2>3, <2>4, <2>5 DEF AdoptedInv
<1>4. CASE CatchTask
  BY <1>4 DEF CatchTask, AdoptedInv
<1>5. CASE Review
  BY <1>5, ReviewDoes DEF AdoptedInv
<1>6. CASE Dispatch
  BY <1>1, <1>6, DispatchDoes DEF AdoptedInv
<1>7. CASE RetryBlocked
  BY <1>7 DEF RetryBlocked, AdoptedInv
<1>8. CASE AutoAdopts
  BY <1>1, <1>2, <1>8, AdoptDoes DEF AutoAdopts, AdoptedInv
<1>9. CASE RecoverAdopts
  BY <1>1, <1>2, <1>9, AdoptDoes DEF RecoverAdopts, AdoptedInv
<1> QED BY <1>2, <1>3, <1>4, <1>5, <1>6, <1>7, <1>8, <1>9, Frames

\* What is carried on after a resume is never with a worker.
LEMMA ResumedKept ==
  ASSUME TypeOK, CallInv, ResumedInv, [Next]_vars PROVE ResumedInv'
<1> SUFFICES ASSUME from' = "resume", sched' = "writes"
             PROVE att'.status # "running"
  BY DEF ResumedInv
<1>1. att \in AttSet /\ rec \in Snapshot
  BY Numbers
<1>2. CASE sched = "writes"
  <2>1. from = "resume" /\ att.status # "running"
    BY <1>2, InWrites DEF ResumedInv
  <2>2. CASE UpdateAttempt
    BY <2>1, <2>2, UpdateDoes
  <2>3. CASE CatchAttempt
    BY <2>1, <2>3, CatchDoes
  <2>4. CASE UpdateResult
    BY <2>1, <2>4, ResultDoes
  <2>5. CASE Review
    BY <2>1, <2>5, ReviewDoes
  <2>6. CASE RecoverAdopts
    BY <1>1, <2>1, <2>6, AdoptDoes DEF RecoverAdopts
  <2>7. CASE ReconcileApplies
    BY <1>1, <2>1, <2>7, ApplyDoes DEF ReconcileApplies
  <2> QED BY <1>2, <2>1, <2>2, <2>3, <2>4, <2>5, <2>6, <2>7, InWrites
<1>3. CASE sched # "writes"
  <2>1. CASE Dispatch
    BY <1>1, <2>1, DispatchDoes
  <2>2. CASE ResumeKept
    BY <2>2 DEF ResumeKept, Kept, records
  <2>3. CASE CallReturns \/ AutoLooks \/ AutoGates \/ AutoAdopts
    BY <2>3 DEF CallReturns, AutoLooks, AutoGates, AutoAdopts, CallInv
  <2> QED BY <1>3, <2>1, <2>2, <2>3, SchedFrame
<1> QED BY <1>2, <1>3

\* The result is written first.
LEMMA PersistFirstKept ==
  ASSUME TypeOK, OrderInv, CallInv, PersistInv, PersistFirst, [Next]_vars
  PROVE PersistFirst'
<1> SUFFICES ASSUME att'.source = "pi", Persist \in Left'
             PROVE att'.status \in {"running", "interrupted"}
  BY DEF PersistFirst
<1>1. CASE Fresh
  <2>1. sched = "call" /\ att' = att
    BY <1>1 DEF Fresh, CallReturns, records
  <2> QED BY <2>1 DEF CallInv
<1>2. CASE Left' \subseteq Left
  <2>1. Persist \in Left /\ sched = "writes" /\ todo # <<>>
    BY <1>2, NoneLeft, NoItems DEF Left
  <2>2. Head(todo) \in {Persist, Pause} /\ review.verdict = "none"
    BY <2>1, FirstThings DEF PersistInv
  <2>3. att'.num = att.num
    <3>1. ~Dispatch
      BY <2>1 DEF Dispatch
    <3> QED BY <3>1, NumGrows
  <2>4. /\ att.source = "pi"
        /\ \/ att'.status = att.status
           \/ att'.status = "interrupted"
    BY <2>2, <2>3, StatusStep, CatchDoes DEF Retried, A, Persist, Pause
  <2> QED BY <2>1, <2>4 DEF PersistFirst
<1> QED BY <1>1, <1>2, NewList, Advanced DEF Left

\* Who else but `recover attempt' may put a commit in place of another.
LEMMA SourceStep ==
  ASSUME TypeOK, [Next]_vars, att'.num = att.num, ~RecoverAdopts
  PROVE \/ att'.source = att.source /\ att'.adopted = att.adopted
        \/ AutoAdopts /\ MayAdopt(auto) /\ att'.source = "auto"
<1>1. att \in AttSet /\ rec \in Snapshot /\ auto \in Snapshot
      /\ att.num \in Int
  BY Numbers
<1>2. CASE UpdateAttempt
  BY <1>2, UpdateDoes
<1>3. CASE CatchAttempt
  BY <1>3, CatchDoes
<1>4. CASE UpdateResult
  BY <1>4, ResultDoes
<1>5. CASE Review
  BY <1>5, ReviewDoes
<1>6. CASE Dispatch
  BY <1>1, <1>6, DispatchDoes
<1>7. CASE AutoAdopts
  BY <1>1, <1>7, AdoptDoes DEF AutoAdopts
<1>8. CASE ReconcileApplies
  BY <1>1, <1>8, ApplyDoes DEF ReconcileApplies
<1>9. CASE Resume
  BY <1>1, <1>9, ApplyDoes DEF Resume
<1> QED
  BY <1>2, <1>3, <1>4, <1>5, <1>6, <1>7, <1>8, <1>9, Frames

\* What becomes of the result of the worker's own attempt.
LEMMA ResultStep ==
  ASSUME TypeOK, [Next]_vars, att'.num = att.num, att'.source = "pi"
  PROVE \/ att'.result = att.result
        \/ UpdateResult /\ att'.result = None
        \/ UpdateResult /\ Head(todo) = Persist
<1>1. att \in AttSet /\ rec \in Snapshot /\ auto \in Snapshot
      /\ att.num \in Int
  BY Numbers
<1>2. CASE UpdateAttempt
  BY <1>2, UpdateDoes
<1>3. CASE CatchAttempt
  BY <1>3, CatchDoes
<1>4. CASE UpdateResult
  BY <1>4, ResultDoes
<1>5. CASE Review
  BY <1>5, ReviewDoes
<1>6. CASE Dispatch
  BY <1>1, <1>6, DispatchDoes
<1>7. CASE AutoAdopts
  BY <1>1, <1>7, AdoptDoes DEF AutoAdopts
<1>8. CASE RecoverAdopts
  BY <1>1, <1>8, AdoptDoes DEF RecoverAdopts
<1>9. CASE ReconcileApplies
  BY <1>1, <1>9, ApplyDoes DEF ReconcileApplies
<1>10. CASE Resume
  BY <1>1, <1>10, ApplyDoes DEF Resume
<1> QED
  BY <1>2, <1>3, <1>4, <1>5, <1>6, <1>7, <1>8, <1>9, <1>10, Frames

\* What `recover attempt' has read is not left behind unnoticed.
LEMMA SeenKept ==
  ASSUME TypeOK, SnapInv, CallInv, PersistFirst, SeenInv, [Next]_vars
  PROVE SeenInv'
<1> SUFFICES ASSUME Same(rec)' PROVE SeenInv'
  BY DEF SeenInv
<1>1. /\ att \in AttSet /\ rec \in Snapshot /\ auto \in Snapshot
      /\ att.num \in Int /\ rec.num \in Int /\ rec.num <= att.num
      /\ att.result \in Int /\ att.adopted \in Int /\ given \in Int
      /\ tree.head \in Int /\ rec.commit \in Int /\ rec.commit >= None
      /\ tree.head >= att.result /\ tree.head >= att.adopted
      /\ tree.head >= given
  BY Numbers DEF SnapInv, Snapshot, Commits, None
<1>2. att'.num = att.num
  <2>1. CASE att'.num # att.num
    <3>1. Dispatch
      BY <2>1, NumGrows
    <3>2. rec' = rec /\ att'.num = att.num + 1
      BY <1>1, <2>1, <3>1, DispatchDoes
    <3> QED BY <3>2, <1>1 DEF Same
  <2> QED BY <2>1
<1>3. CASE RecoverLooks
  <2>1. rec' = Seen /\ UNCHANGED <<att, from, given>>
    BY <1>3 DEF RecoverLooks, records, scheduler
  <2> QED BY <2>1, <1>1 DEF SeenInv, Seen
<1>4. CASE RecoverAdopts
  BY <1>4 DEF RecoverAdopts, Same, Idle
<1>5. CASE ~(RecoverLooks \/ RecoverAdopts)
  <2>1. Same(rec) /\ rec'.commit = rec.commit /\ rec'.task = rec.task
        /\ rec'.status = rec.status
    <3>1. CASE RecoverGates
      <4>1. rec' = Idle \/ rec' = [rec EXCEPT !.at = "adopt"]
        BY <3>1 DEF RecoverGates
      <4>2. rec.at = "gates"
        BY <3>1 DEF RecoverGates
      <4> QED BY <4>1, <4>2, <1>1, <1>2 DEF Same, Idle, Snapshot
    <3>2. CASE rec' = rec
      BY <3>2, <1>2 DEF Same
    <3> QED BY <3>1, <3>2, <1>5, Frames
  <2>2. att'.source = "manual" => rec.commit >= att'.adopted
    BY <1>2, <1>5, <2>1, SourceStep DEF SeenInv
  <2>3. att'.source = "auto" =>
          rec.commit >= att'.adopted \/ rec.task = "running"
    BY <1>2, <1>5, <2>1, SourceStep, AutoFinds DEF SeenInv
  <2>4. ASSUME att'.source = "pi"
        PROVE /\ att'.status = "running" => rec.status = "running"
              /\ att'.status \in {"worker_completed", "validating", "reviewing"}
                   => rec.status = "running" \/ rec.commit >= att'.result
              /\ from' = "resume" =>
                   rec.status = "running" \/ rec.commit >= given'
    <3>1. att.source = "pi"
      BY <1>2, <2>4, StatusStep
    <3>2. /\ att.status = "running" => rec.status = "running"
          /\ att.status \in {"worker_completed", "validating", "reviewing"} =>
              rec.status = "running" \/ rec.commit >= att.result
          /\ from = "resume" => rec.status = "running" \/ rec.commit >= given
      BY <3>1, <2>1 DEF SeenInv
    <3>3. \/ att'.status = att.status
          \/ att'.status \in {"interrupted", "failed", "approved",
                              "rework_required"}
          \/ /\ att'.status = "worker_completed" /\ Review
             /\ att.status \in {"reviewing", "worker_completed"}
          \/ /\ UpdateAttempt /\ att'.status # "running"
             /\ att'.status \in AttNext[att.status]
      BY <1>2, <2>4, StatusStep
    <3>4. att'.status = "running" => att.status = "running"
      BY <3>3
    <3>5. att'.status \in {"worker_completed", "validating", "reviewing"} =>
            att.status \in {"running", "worker_completed", "validating",
                            "reviewing"}
      BY <3>3, <1>1 DEF AttNext, AttSet
    <3>6. ASSUME att'.status \in {"worker_completed", "validating",
                                  "reviewing"}
          PROVE rec.status = "running" \/ rec.commit >= att'.result
      <4>1. CASE att'.result = att.result
        BY <4>1, <3>2, <3>5, <3>6
      <4>2. CASE UpdateResult /\ att'.result = None
        BY <4>2, <1>1
      <4>3. CASE UpdateResult /\ Head(todo) = Persist
        <5>1. Persist \in Left /\ att'.status = att.status
          BY <4>3, ResultDoes, Advanced
        <5> QED BY <5>1, <3>1, <3>6 DEF PersistFirst
      <4> QED BY <4>1, <4>2, <4>3, <1>2, <2>4, ResultStep
    <3>7. ASSUME from' = "resume"
          PROVE rec.status = "running" \/ rec.commit >= given'
      <4>1. CASE Dispatch
        BY <4>1, <1>1, <1>2, <3>2, <3>7, DispatchDoes
      <4>2. CASE ResumeKept
        BY <4>2, <3>2 DEF ResumeKept, Kept
      <4>3. CASE CallReturns
        BY <4>3, <3>7 DEF CallReturns, CallInv
      <4> QED BY <4>1, <4>2, <4>3, <3>2, <3>7, Frames
    <3> QED BY <3>2, <3>4, <3>6, <3>7
  <2> QED BY <2>1, <2>2, <2>3, <2>4 DEF SeenInv
<1> QED BY <1>3, <1>4, <1>5

-----------------------------------------------------------------------------
(* What is reviewed                                                        *)

\* A worker that dies with its scheduler works during the call alone.
LEMMA AloneKept ==
  ASSUME ~Orphans, Alone, [Next]_vars PROVE Alone'
<1> USE DEF Open
<1>1. CASE Dispatch
  <2>1. CASE Begin /\ sched' = "call"
    BY <2>1 DEF Alone
  <2>2. CASE UNCHANGED callVars /\ sched = "loop"
    BY <2>2 DEF Alone, callVars
  <2> QED BY <1>1, <2>1, <2>2 DEF Dispatch
<1>2. CASE WorkerCalls
  <2>1. Open' => Open
    BY <1>2 DEF WorkerCalls, Spawn, WorkerGoes, Understood, Works
  <2>2. sched' = sched
    BY <1>2 DEF WorkerCalls, scheduler
  <2> QED BY <2>1, <2>2 DEF Alone
<1>3. CASE CallReturns
  BY <1>3 DEF CallReturns, Returns, Outcome, Alone
<1>4. CASE Crash
  <2>1. CASE Open
    BY <1>4, <2>1 DEF Crash, Alone
  <2>2. CASE ~Open
    BY <1>4, <2>2 DEF Crash, Alone, callVars
  <2> QED BY <2>1, <2>2
<1>5. CASE Person
  BY <1>5 DEF Person, Alone
<1>6. CASE UNCHANGED callVars
  <2>1. CASE sched = "call" /\ sched' # "call"
    <3>1. CASE Done \/ Dispatch \/ Drained \/ ResumeKept \/ AutoLooks
               \/ AutoGates \/ AutoAdopts \/ Resume
      BY <2>1, <3>1 DEF Done, Dispatch, Drained, ResumeKept, AutoLooks,
         AutoGates, AutoAdopts, Resume
    <3> QED BY <1>3, <1>4, <2>1, <3>1, Frames
  <2>2. CASE ~(sched = "call" /\ sched' # "call")
    BY <1>6, <2>2 DEF Alone, callVars
  <2> QED BY <2>1, <2>2
<1> QED BY <1>1, <1>2, <1>3, <1>4, <1>5, <1>6, Frames

\* Nobody changes the worktree while the updates are made.
LEMMA TreeStays ==
  ASSUME ~Orphans, Alone, [Next]_vars, sched = "writes"
  PROVE tree' = tree
<1>1. ~Open
  BY DEF Alone
<1>2. CASE WorkerCalls
  BY <1>1, <1>2 DEF WorkerCalls, Spawn, WorkerGoes, Understood, Works, Open
<1>3. CASE Crash
  BY <1>1, <1>3 DEF Crash, callVars
<1>4. ~(Dispatch \/ CallReturns \/ Person)
  BY DEF Dispatch, CallReturns, Person
<1> QED BY <1>2, <1>3, <1>4, Frames DEF callVars

\* What is reviewed, and what is approved, is the commit of the result.
LEMMA ClaimedKept ==
  ASSUME ~Orphans, TypeOK, OrderInv, CallInv, JudgedInv, Alone, Claimed,
         [Next]_vars
  PROVE Claimed'
<1>0. att \in AttSet /\ att.num \in Int
  BY Numbers
<1>1. ASSUME sched = "writes" PROVE given' = given /\ tree' = tree
  BY <1>1, InWrites, TreeStays
<1>2. ASSUME Verd \in Left' PROVE Evid \in Left' \/ given' = tree'.head
  <2>1. CASE Fresh
    BY <1>2, <2>1 DEF Fresh
  <2>2. CASE todo' = todo
    <3>1. Left' = Left
      BY <2>2 DEF Left
    <3>2. sched = "writes"
      BY <3>1, <1>2, NoneLeft
    <3> QED BY <3>1, <3>2, <1>1, <1>2 DEF Claimed
  <2>3. CASE Advances
    <3>1. Left' \subseteq Left /\ Left = Left' \cup {Head(todo)}
          /\ sched = "writes"
      BY <2>3, Advanced DEF Advances
    <3>2. CASE Head(todo) = Evid
      <4>1. Check
        BY <2>3, <3>2, HeadKinds DEF Evid
      <4>2. todo' = Unverifiable \/ given = tree.head
        BY <4>1, <3>2 DEF Check, Evid, Evidence
      <4>3. todo' # Unverifiable
        BY <1>2, PlainItems DEF Left, Marked
      <4> QED BY <4>2, <4>3, <3>1, <1>1
    <3> QED BY <3>1, <3>2, <1>1, <1>2 DEF Claimed
  <2> QED BY <2>1, <2>2, <2>3, NewList
<1>3. ASSUME A("approved") \in Left'
      PROVE /\ review'.verdict = "approved"
            /\ review'.through = given' /\ given' = tree'.head
  <2>1. CASE Fresh
    <3>1. /\ Review /\ Head(todo) = Verd
          /\ review' = [verdict |-> "approved", through |-> tree.head]
      BY <1>3, <2>1 DEF Fresh
    <3>2. sched = "writes" /\ todo # <<>>
      BY <3>1, ReviewDoes
    <3>3. Left = {Verd}
      BY <3>1, <3>2, FirstThings
    <3>4. given = tree.head
      BY <3>3 DEF Claimed, Verd, Evid
    <3> QED BY <3>1, <3>2, <3>4, <1>1
  <2>2. CASE Left' \subseteq Left
    <3>1. A("approved") \in Left /\ sched = "writes" /\ todo # <<>>
      BY <1>3, <2>2, NoneLeft, NoItems DEF Left
    <3>2. Head(todo) = A("approved")
      BY <3>1, FirstThings
    <3>3. ~Review
      BY <3>2, ReviewDoes DEF A
    <3> QED BY <3>1, <3>3, <1>1, InWrites DEF Claimed
  <2> QED BY <2>1, <2>2, NewList, Advanced DEF Left
<1>4. ASSUME att'.source = "pi", review'.verdict = "approved"
      PROVE review'.through = given'
  <2>1. CASE att'.num # att.num
    <3>1. review' = NoReview
      BY <1>0, <2>1, NumGrows, DispatchDoes
    <3> QED BY <3>1, <1>4 DEF NoReview
  <2>2. CASE att'.num = att.num
    <3>1. att.source = "pi"
      BY <1>4, <2>2, StatusStep
    <3>2. CASE Review
      <4>1. CASE Head(todo) = Verd
        <5>1. Left = {Verd} /\ sched = "writes"
          BY <3>2, <4>1, ReviewDoes, FirstThings
        <5>2. given = tree.head
          BY <5>1 DEF Claimed, Verd, Evid
        <5>3. review'.through = tree.head
          BY <3>2, <4>1, ReviewDoes DEF Verd, Retried
        <5> QED BY <5>1, <5>2, <5>3, <1>1
      <4>2. CASE Head(todo) # Verd
        <5>1. review' = review /\ given' = given
          BY <3>2, <4>2, <1>4, ReviewDoes
        <5> QED BY <5>1, <3>1, <1>4 DEF Claimed
      <4> QED BY <4>1, <4>2
    <3>3. CASE Dispatch
      BY <3>3, <1>0, <1>4, <2>2, <3>1, DispatchDoes DEF Claimed
    <3>4. CASE review' = review /\ ~Dispatch
      <4>1. CASE given' = given
        BY <4>1, <3>1, <3>4, <1>4 DEF Claimed
      <4>2. CASE CallReturns
        BY <4>2, <3>4, <1>4 DEF CallReturns, CallInv
      <4>3. CASE ResumeKept
        BY <4>3, <3>1, <3>4, <1>4 DEF ResumeKept, Kept, JudgedInv, Early
      <4> QED BY <4>1, <4>2, <4>3, <3>4, Frames
    <3> QED BY <3>2, <3>3, <3>4, Frames
  <2> QED BY <2>1, <2>2
<1> QED BY <1>2, <1>3, <1>4 DEF Claimed

\* What is carried on after a resume is the commit that was adopted.
LEMMA MatchedKept ==
  ASSUME ~Orphans, TypeOK, OrderInv, SnapInv, CallInv, AdoptedInv, ResumedInv,
         SeenInv, Alone, Matched, [Next]_vars
  PROVE Matched'
<1> SUFFICES ASSUME sched' = "writes", from' = "resume", att'.source # "pi",
                    Verd \in Left' \/ A("approved") \in Left',
                    given' = tree'.head
             PROVE att'.adopted = given'
  BY DEF Matched
<1>0. att \in AttSet /\ att.num \in Int /\ rec \in Snapshot
  BY Numbers
<1>1. CASE sched # "writes"
  <2>1. Left = {}
    BY <1>1, NoneLeft
  <2>2. ~Review /\ ~Advances /\ todo' # todo
    BY <1>1, <2>1, ReviewDoes DEF Advances, Left
  <2>3. CallReturns \/ ResumeKept
    BY <2>2, NewList DEF Fresh
  <2>4. CASE CallReturns
    BY <2>4 DEF CallReturns, CallInv
  <2>5. CASE ResumeKept
    <3>1. todo' # <<Pause>>
      BY PlainItems DEF Left, Marked
    <3>2. Proof /\ given' = att.result /\ att' = att
      BY <2>2, <2>5, <3>1 DEF ResumeKept, Writes, records
    <3> QED BY <3>2 DEF Proof
  <2> QED BY <2>3, <2>4, <2>5
<1>2. CASE sched = "writes"
  <2>1. given' = given /\ from' = from /\ tree' = tree
    BY <1>2, InWrites, TreeStays
  <2>2. Verd \in Left \/ A("approved") \in Left
    <3>1. CASE Fresh
      <4>1. ~CallReturns /\ ~ResumeKept
        BY <1>2 DEF CallReturns, ResumeKept
      <4>2. Review /\ Head(todo) = Verd
        BY <3>1, <4>1 DEF Fresh
      <4> QED BY <4>2, ReviewDoes, FirstThings
    <3> QED BY <3>1, NewList, Advanced DEF Left
  <2>3. att'.num = att.num
    <3>1. ~Dispatch
      BY <1>2 DEF Dispatch
    <3> QED BY <3>1, NumGrows
  <2>4. CASE att'.source = att.source /\ att'.adopted = att.adopted
    BY <2>1, <2>2, <2>4, <1>2 DEF Matched
  <2>5. CASE RecoverAdopts /\ MayAdopt(rec) /\ Adopt(rec, "manual")
    <3>1. att'.adopted = rec.commit
      BY <2>5, <1>0, AdoptDoes
    <3>2. Same(rec) /\ rec.status = att.status /\ rec.task = task
      BY <2>5 DEF RecoverAdopts, MayAdopt, Current, Same
    <3>3. rec.commit <= tree.head /\ rec.commit \in Int /\ tree.head \in Int
      BY <3>2, Numbers DEF SnapInv, Same
    <3>4. rec.commit >= given
      <4>1. CASE att.source = "pi"
        BY <4>1, <3>2, <2>1, <1>2 DEF SeenInv, ResumedInv
      <4>2. CASE att.source # "pi"
        <5>1. att.adopted = given
          BY <4>2, <2>1, <2>2, <1>2 DEF Matched
        <5>2. rec.task # "running"
          BY <3>2, <4>2 DEF AdoptedInv
        <5>3. att.source \in {"manual", "auto"}
          BY <4>2, <1>0 DEF AttSet
        <5> QED BY <5>1, <5>2, <5>3, <3>2 DEF SeenInv
      <4> QED BY <4>1, <4>2
    <3>5. given = tree.head
      BY <2>1
    <3>6. rec.commit = given
      BY <3>3, <3>4, <3>5
    <3> QED BY <3>1, <3>6, <2>1
  <2>6. CASE RecoverAdopts /\ att' = att
    BY <2>4, <2>6
  <2>7. ~AutoAdopts
    BY <1>2 DEF AutoAdopts
  <2> QED BY <2>3, <2>4, <2>5, <2>6, <2>7, SourceStep DEF RecoverAdopts
<1> QED BY <1>1, <1>2

-----------------------------------------------------------------------------
(* The theorems                                                            *)

\* The invariant holds at the start.
LEMMA Starts == Init => IInv
<1> SUFFICES ASSUME Init PROVE IInv
  OBVIOUS
<1> USE DEF Init
<1>1. Left = {}
  BY NoItems DEF Left
<1>2. TypeOK
  <2>1. CallTypeOK
    BY CallAssumption DEF CallInit, CallTypeOK, Call, Tree
  <2>2. Idle \in Snapshot
    BY RecoveryAssumption DEF Idle, Snapshot, AttNext, TaskNext
  <2>3. NoAttempt \in AttSet
    BY RecoveryAssumption DEF AttSet, AttNext, NoAttempt
  <2>4. NoPlan \in PlanSet /\ NoReview \in ReviewSet
    BY RecoveryAssumption DEF NoPlan, PlanSet, NoReview, ReviewSet
  <2>5. todo \in Seq(Updates)
    BY EmptySeq
  <2>6. used \in [recovers : 0..MaxRecovers, troubles : 0..MaxTroubles]
    BY RecoveryAssumption
  <2>7. "pending" \in DOMAIN TaskNext
    BY DEF TaskNext
  <2> QED BY <2>1, <2>2, <2>3, <2>4, <2>5, <2>6, <2>7
          DEF TypeOK, AttSet, PlanSet, ReviewSet
<1>3. OrderInv
  BY DEF OrderInv, Ordered
<1>4. SnapInv
  BY DEF SnapInv, Idle, NoAttempt, None, CallInit
<1>5. CallInv /\ SeenInv
  BY DEF CallInv, SeenInv, Same, Idle
<1>6. NoResult /\ JudgedInv /\ AdoptedInv
  BY <1>1 DEF NoResult, JudgedInv, AdoptedInv, NoAttempt, NoReview
<1>7. /\ ToComplete /\ ToWipe /\ RetriedInv /\ PersistInv
      /\ ResumedInv /\ PersistFirst
  BY <1>1 DEF ToComplete, ToWipe, RetriedInv, PersistInv, ResumedInv,
     PersistFirst
<1>8. ClaimInv
  BY <1>1 DEF ClaimInv, Alone, Claimed, Matched, CallInit, Open, NoReview
<1> QED BY <1>2, <1>3, <1>4, <1>5, <1>6, <1>7, <1>8 DEF IInv, BaseInv

\* Every step keeps it.
LEMMA Steps == ASSUME IInv, [Next]_vars PROVE IInv'
<1> USE DEF IInv, BaseInv
<1>1. TypeOK' /\ OrderInv' /\ SnapInv' /\ CallInv'
  <2>1. OrderInv'
    BY TodoKept DEF OrderInv
  <2> QED BY <2>1, TypeKept, SnapKept, CallInvKept
<1>2. NoResult' /\ ToComplete' /\ ToWipe'
  BY NoResultKept, ToCompleteKept, ToWipeKept
<1>3. RetriedInv' /\ PersistInv' /\ JudgedInv'
  BY NotesKept, JudgedKept
<1>4. AdoptedInv' /\ ResumedInv' /\ PersistFirst' /\ SeenInv'
  BY AdoptedKept, ResumedKept, PersistFirstKept, SeenKept
<1>5. ~Orphans => ClaimInv'
  BY AloneKept, ClaimedKept, MatchedKept DEF ClaimInv
<1> QED BY <1>1, <1>2, <1>3, <1>4, <1>5

\* The scheduler, `recover attempt' and the reconciliation keep the records
\* in order, whoever is between which of their steps.
THEOREM Invariant == Spec => []IInv
BY Starts, Steps, PTL DEF Spec

\* TypeOK holds, and the updates of the scheduler are among those it has.
THEOREM TypeCorrect == Spec => []TypeOK
<1>1. IInv => TypeOK
  BY DEF IInv, BaseInv
<1> QED BY <1>1, Invariant, PTL

\* autoAdoptVerifiableCommitEvidence never puts a commit of its own choice in
\* the place of the one that a person has adopted for the same attempt: it has
\* read a task that was running, and no adoption leaves one.
THEOREM NeverOverrides == Spec => AutoNeverOverrides
<1>1. ASSUME IInv, [Next]_vars, att.source = "manual", att'.source = "auto"
      PROVE att'.num # att.num
  <2> SUFFICES ASSUME att'.num = att.num PROVE FALSE
    OBVIOUS
  <2>1. att \in AttSet /\ rec \in Snapshot
    BY <1>1, Numbers DEF IInv, BaseInv
  <2>2. ~RecoverAdopts
    BY <1>1, <2>1, AdoptDoes DEF RecoverAdopts
  <2>3. AutoAdopts /\ MayAdopt(auto)
    BY <1>1, <2>2, SourceStep DEF IInv, BaseInv
  <2> QED BY <1>1, <2>3, AutoFinds DEF IInv, BaseInv
<1>2. IInv /\ [Next]_vars =>
        [att.source = "manual" /\ att'.source = "auto"
         => att'.num # att.num]_vars
  BY <1>1
<1> QED BY <1>2, Invariant, PTL DEF Spec, AutoNeverOverrides

\* An attempt that the scheduler approves has the review that says so, of the
\* commit that is claimed and is the HEAD of the worktree.
LEMMA ApprovedByUpdate ==
  ASSUME IInv, ~Orphans, Approves, UpdateAttempt
  PROVE /\ A("approved") \in Left /\ sched = "writes"
        /\ review.through = given /\ given = tree.head
<1>1. TypeOK /\ Claimed
  BY DEF IInv, BaseInv, ClaimInv
<1>2. Head(todo) = A("approved") /\ sched = "writes" /\ Advances
  BY <1>1, UpdateDoes DEF Approves
<1>3. A("approved") \in Left
  BY <1>1, <1>2, Advanced
<1> QED BY <1>1, <1>2, <1>3 DEF Claimed

\* What is approved has been reviewed through the commit that the result it
\* was given claims, for workers that end with their scheduler; the same of an
\* attempt of the worker's own that a reconciliation approves.
THEOREM ClaimedReviewed ==
  ASSUME ~Orphans
  PROVE  Spec => ApprovedIsClaimed
<1>1. ASSUME IInv, [Next]_vars, Approves, UpdateAttempt \/ att.source = "pi"
      PROVE review.through = given
  <2>1. CASE UpdateAttempt
    BY <1>1, <2>1, ApprovedByUpdate
  <2>2. CASE ~UpdateAttempt
    <3>1. TypeOK /\ Claimed /\ att \in AttSet
      BY <1>1, Numbers DEF IInv, BaseInv, ClaimInv
    <3>2. att'.source = "pi" /\ att'.num = att.num
      <4>1. att'.num = att.num
        BY <1>1, <3>1, NumGrows DEF Approves
      <4>2. ~RecoverAdopts
        BY <1>1, <3>1, AdoptDoes, Numbers DEF RecoverAdopts, Approves
      <4>3. ~AutoAdopts
        BY <1>1, <3>1, AdoptDoes, Numbers DEF AutoAdopts, Approves
      <4> QED BY <1>1, <3>1, <4>1, <4>2, <4>3, <2>2, SourceStep
    <3>3. review.verdict = "approved"
      BY <1>1, <2>2, <3>1, <3>2, StatusStep DEF Approves
    <3> QED BY <1>1, <2>2, <3>1, <3>3 DEF Claimed
  <2> QED BY <2>1, <2>2
<1>2. IInv /\ [Next]_vars =>
        [Approves /\ (UpdateAttempt \/ att.source = "pi")
         => review.through = given]_vars
  BY <1>1
<1> QED BY <1>2, Invariant, PTL DEF Spec, ApprovedIsClaimed

\* An adopted attempt that the scheduler approves after a resume has been
\* approved for the commit that was adopted, whatever a late adoption or a
\* person did to attempt and worktree in the meantime.
THEOREM AdoptedReviewed ==
  ASSUME ~Orphans
  PROVE  Spec => AdoptedIsReviewed
<1>1. ASSUME IInv, [Next]_vars, Approves, UpdateAttempt, from = "resume",
             att.source # "pi"
      PROVE review.through = att.adopted
  <2>1. Matched
    BY <1>1 DEF IInv, ClaimInv
  <2> QED BY <1>1, <2>1, ApprovedByUpdate DEF Matched
<1>2. IInv /\ [Next]_vars =>
        [Approves /\ UpdateAttempt /\ from = "resume" /\ att.source # "pi"
         => review.through = att.adopted]_vars
  BY <1>1
<1> QED BY <1>2, Invariant, PTL DEF Spec, AdoptedIsReviewed
=============================================================================
