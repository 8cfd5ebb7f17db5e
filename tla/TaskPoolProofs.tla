---------------------------- MODULE TaskPoolProofs ----------------------------
(***************************************************************************)
(* Theorems about TaskPool, for any tasks, dependencies, clashes of paths, *)
(* diffs and any number of attempts and crashes.                           *)
(***************************************************************************)
EXTENDS TaskPool, TLAPS, FiniteSetTheorems

-----------------------------------------------------------------------------
(* The inductive invariant: one part for the loop, one for each task. *)

\* A coroutine between the creation of its attempt and its last update works on
\* the latest attempt of its task.
Inside == {"prepare", "work", "result", "persist", "post", "gates", "review",
           "asked", "retry", "verdict", "settle", "pausing"}
Placed(t) ==
  /\ pc[t] = "create" => num[t] = Len(att[t]) + 1
  /\ pc[t] \in Inside => att[t] # <<>> /\ num[t] = Len(att[t])

\* Where a coroutine goes on once its updates are made.
Going(t) == IF pc[t] \in {"settle", "pausing"} THEN loc[t].next ELSE pc[t]

\* What a coroutine takes its attempt to be; a cancel may have ended it.
Expects == [prepare |-> "running", work |-> "running", result |-> "running",
            persist |-> "running", keep |-> "worker_completed",
            post |-> "worker_completed", gates |-> "validating",
            review |-> "reviewing", asked |-> "reviewing",
            retry |-> "reviewing", verdict |-> "reviewing"]
InWork == {"validating", "reviewing"}
Expected(t) ==
  /\ Going(t) \in DOMAIN Expects =>
       \/ LatestIs(t, {Expects[Going(t)]})
       \/ stage = "canceled" /\ LatestIs(t, {"canceled", "interrupted"})
  /\ Going(t) = "release" => ~LatestIs(t, InWork)
  /\ pc[t] = "verdict" => Latest(t).review \in {"approved", "rework_required"}
  /\ pc[t] = "settle" =>
       /\ loc[t].next \in {"post", "gates", "review", "release", "keep"}
       /\ loc[t].next # "release" => loc[t].reason = "none"
       /\ LatestIs(t, InWork \cup {"worker_completed"}) =>
            loc[t].to = Latest(t).status
  /\ pc[t] = "pausing" =>
       loc[t].next \in {"persist", "release"} /\ loc[t].reason # "none"

\* From its dispatch to its worker's end a task holds its locks; an idle one
\* holds none but for the review it waits for.
Locked(t) ==
  /\ pc[t] \in {"create", "prepare", "work"} => t \in lock
  /\ pc[t] = "begin" => Kept(t) \/ t \in lock
  /\ crashes = 0 /\ stage # "canceled" /\ t \in lock
     /\ pc[t] \in {"idle", "chosen"} => Kept(t)

\* What an attempt has changed is claimed once it is validated.
Claimed(t) ==
  LatestIs(t, InWork \cup {"review_skipped", "approved"}) =>
    Latest(t).files \subseteq claim[t]

Reviewed(t) ==
  /\ LatestIs(t, {"approved"}) => Latest(t).review = "approved"
  /\ LatestIs(t, {"review_skipped"}) => t \in LowRisk /\ Len(att[t]) = 1

\* All attempts but the latest are within the limit, and so is the latest when
\* another is about to follow. Before the second crash no task may begin again
\* whose attempt is in validation or review.
Before(t) == {i \in 1..(Len(att[t]) - 1) : att[t][i].status \notin Uncounted}
Limit     == MaxRework + Repeats
Spent(t)  == Cardinality(Counted(t)) <= Limit
Restart   == {"pending", "ready", "rework_required", "waiting_decision",
              "running"}
Budgeted(t) ==
  /\ Cardinality(Before(t)) <= Limit
  /\ pc[t] = "create" => Spent(t)
  /\ pc[t] \in {"chosen", "begin"} => ~Accepted(t)
  /\ pc[t] \in {"chosen", "begin"} /\ Ended(t) => Spent(t)
  /\ pc[t] \in {"idle", "chosen", "begin"} /\ LatestIs(t, InWork) =>
       Spent(t) \/ (crashes <= 1 /\ task[t] \notin Restart)
  /\ crashes = 0 /\ LatestIs(t, InWork) => task[t] \notin Restart
  /\ crashes = 0 /\ Kept(t) => task[t] \notin Restart
                               \/ pc[t] \in {"settle", "catch"}

TaskInv(t) == /\ Placed(t) /\ Expected(t) /\ Locked(t) /\ Claimed(t)
              /\ Reviewed(t) /\ Budgeted(t)

\* The loop ends, begins and pauses without coroutines, and a pause has a
\* paused stage.
LoopInv ==
  /\ main \in {"off", "crashed", "start", "integration", "integrate",
               "deadlock"} => \A t \in Tasks : pc[t] = "idle"
  /\ \A t \in done : pc[t] = "idle"
  /\ stage = "paused" => pause # "none"
  /\ pause # "none" => stage \in {"paused", "canceled"}
  /\ main = "start" => pause = "none"
  /\ NoHalfState

\* Locks that are held do not clash, and claims of independent tasks do not
\* overlap.
SharedInv ==
  /\ \A t, u \in lock : <<t, u>> \notin Clash
  /\ \A t, u \in Tasks : t # u /\ ~Serial(t, u) => claim[t] \cap claim[u] = {}

IInv == TypeOK /\ LoopInv /\ SharedInv /\ \A t \in Tasks : TaskInv(t)

-----------------------------------------------------------------------------
(* Attempts. *)

\* The names of statuses.
LEMMA Names ==
  /\ DOMAIN AttNext = {"running", "worker_completed", "validating", "reviewing",
                       "review_skipped", "rework_required", "approved",
                       "failed", "interrupted", "canceled"}
  /\ DOMAIN TaskNext = {"pending", "ready", "running", "worker_completed",
                        "validating", "reviewing", "review_skipped", "approved",
                        "rework_required", "waiting_decision", "canceled"}
  /\ DOMAIN Expects = {"prepare", "work", "result", "persist", "keep", "post",
                       "gates", "review", "asked", "retry", "verdict"}
BY DEF AttNext, TaskNext, Expects

\* The fields of an attempt, and an attempt with other values in them.
LEMMA Fields ==
  ASSUME NEW a \in Attempt
  PROVE  /\ a.status \in DOMAIN AttNext /\ a.files \subseteq Paths
         /\ NewAttempt \in Attempt
         /\ \A c \in {"none", "alive", "gone"} :
              LET b == [a EXCEPT !.child = c] IN
              /\ b \in Attempt /\ b.status = a.status
              /\ b.files = a.files /\ b.review = a.review
BY Names DEF Attempt, NewAttempt

\* An update leaves a terminal status alone, and what is in work, completed,
\* skipped or approved keeps its files and its review.
LEMMA Becoming ==
  ASSUME NEW a \in Attempt, NEW status \in DOMAIN AttNext
  PROVE  LET b == Became(a, status) IN
         /\ b \in Attempt
         /\ b.status = IF a.status \in Terminal THEN a.status ELSE status
         /\ b.status \in InWork \cup {"running", "worker_completed",
                                      "review_skipped", "approved"}
              => b.files = a.files /\ b.review = a.review
<1> DEFINE s == Written(Terminal, a.status, status)
<1>1. s \in DOMAIN AttNext
  BY Fields DEF Written
<1>2. CASE s \in Terminal \ {"approved"}
  <2> DEFINE c == IF a.child = "alive" THEN "alive" ELSE "none"
             b == [NewAttempt EXCEPT !.status = s, !.why = a.why, !.child = c]
  <2>1. Became(a, status) = b
    BY <1>2 DEF Became, Terminal
  <2>2. c \in {"none", "alive"}
    OBVIOUS
  <2> HIDE DEF c, s
  <2>3. b \in Attempt /\ b.status = s
    BY <1>1, <2>2 DEF Attempt, NewAttempt
  <2> USE DEF s
  <2> HIDE DEF b
  <2> QED BY <1>2, <2>1, <2>3 DEF Written, InWork, Terminal
<1>3. CASE s = "rework_required"
  <2> DEFINE b == [a EXCEPT !.status = s, !.review = "none", !.files = {}]
  <2>1. Became(a, status) = b
    BY <1>3 DEF Became, Terminal
  <2>2. b \in Attempt /\ b.status = s
    BY <1>1 DEF Attempt
  <2> HIDE DEF b
  <2> QED BY <1>3, <2>1, <2>2 DEF Written, InWork, Terminal
<1>4. CASE s \notin Terminal \ {"approved"} /\ s # "rework_required"
  <2> DEFINE b == [a EXCEPT !.status = s]
  <2>1. Became(a, status) = b
    BY <1>4 DEF Became
  <2>2. b \in Attempt /\ b.status = s /\ b.files = a.files
                      /\ b.review = a.review
    BY <1>1 DEF Attempt
  <2> HIDE DEF b
  <2> QED BY <1>4, <2>1, <2>2 DEF Written, InWork, Terminal
<1> QED
  BY <1>2, <1>3, <1>4

\* What the invariant says of the numbers of attempts: they are finite, and the
\* latest attempt counts at most once.
LEMMA Numbers ==
  ASSUME TypeOK, NEW t \in Tasks
  PROVE  /\ att[t] \in Seq(Attempt) /\ Len(att[t]) \in Nat
         /\ att[t] # <<>> => Len(att[t]) \in 1..Len(att[t])
                             /\ Latest(t) \in Attempt
         /\ Cardinality(Before(t)) \in Nat /\ Cardinality(Counted(t)) \in Nat
         /\ Cardinality(Counted(t)) <= Cardinality(Before(t)) + 1
         /\ att[t] = <<>> => Cardinality(Counted(t)) = 0
         /\ LatestIs(t, Uncounted) => Counted(t) = Before(t)
<1> DEFINE n == Len(att[t])
<1>1. att[t] \in Seq(Attempt) /\ n \in Nat
  BY DEF TypeOK
<1>2. att[t] # <<>> => n \in 1..n /\ Latest(t) \in Attempt
  BY <1>1 DEF Latest
<1>3. IsFiniteSet(1..n) /\ IsFiniteSet(1..(n - 1))
  BY SMTT(20), <1>1, FS_Interval
<1>4. /\ IsFiniteSet(Before(t)) /\ Cardinality(Before(t)) \in Nat
      /\ IsFiniteSet(Counted(t)) /\ Cardinality(Counted(t)) \in Nat
  <2>1. Before(t) \subseteq 1..(n - 1) /\ Counted(t) \subseteq 1..n
    BY DEF Before, Counted
  <2> QED BY <1>3, <2>1, FS_Subset, FS_CardinalityType
<1>5. Cardinality(Counted(t)) <= Cardinality(Before(t)) + 1
  <2>1. Counted(t) \subseteq Before(t) \cup {n}
    BY <1>1 DEF Before, Counted
  <2> DEFINE B == Before(t)
  <2> HIDE DEF B
  <2>2. IsFiniteSet(B) /\ Cardinality(B) \in Nat
    BY <1>4 DEF B
  <2>3. /\ IsFiniteSet(B \cup {n})
        /\ Cardinality(B \cup {n}) = IF n \in B THEN Cardinality(B)
                                     ELSE Cardinality(B) + 1
    BY <2>2, FS_AddElement
  <2>4. Cardinality(Counted(t)) <= Cardinality(B \cup {n})
    BY <2>1, <2>3, FS_Subset DEF B
  <2> QED BY <1>4, <2>2, <2>3, <2>4 DEF B
<1>6. att[t] = <<>> => Counted(t) = {}
  BY DEF Counted
<1>7. LatestIs(t, Uncounted) => Counted(t) = Before(t)
  BY <1>1 DEF Counted, Before, LatestIs, Latest
<1> QED
  BY <1>1, <1>2, <1>4, <1>5, <1>6, <1>7, FS_EmptySet

\* The latest attempt of t becomes a, and nothing else changes in att.
Puts(t, a) == att' = [att EXCEPT ![t] = [@ EXCEPT ![Len(att[t])] = a]]

\* It is still the latest, and those before it stay.
LEMMA Put ==
  ASSUME TypeOK, NEW t \in Tasks, att[t] # <<>>, NEW a \in Attempt, Puts(t, a)
  PROVE  /\ att' = [att EXCEPT ![t] = att'[t]] /\ att'[t] \in Seq(Attempt)
         /\ att'[t] # <<>> /\ Len(att'[t]) = Len(att[t]) /\ Latest(t)' = a
         /\ Before(t)' = Before(t)
<1> DEFINE n == Len(att[t])
           s == [att[t] EXCEPT ![n] = a]
<1>1. att[t] \in Seq(Attempt) /\ n \in Nat /\ n \in 1..n
  BY Numbers
<1>2. s \in Seq(Attempt) /\ Len(s) = n /\ s[n] = a
      /\ \A i \in 1..(n - 1) : s[i] = att[t][i]
  BY <1>1
<1>3. att' = [att EXCEPT ![t] = s] /\ att'[t] = s
  BY DEF Puts, TypeOK
<1> HIDE DEF s
<1>4. s # <<>>
  BY <1>1, <1>2
<1>5. Before(t)' = Before(t)
  BY <1>1, <1>2, <1>3 DEF Before
<1> QED
  BY <1>2, <1>3, <1>4, <1>5 DEF Latest

-----------------------------------------------------------------------------
(* A step of one task. *)

\* What such a step may change: only what belongs to the task, except that it
\* may pause the stage or turn the loop.
Acts(t) ==
  /\ pc' = [pc EXCEPT ![t] = pc'[t]] /\ pc'[t] \in Step
  /\ num' = [num EXCEPT ![t] = num'[t]] /\ num'[t] \in Nat
  /\ loc' = [loc EXCEPT ![t] = loc'[t]] /\ loc'[t] \in Loc
  /\ task' = [task EXCEPT ![t] = task'[t]] /\ task'[t] \in DOMAIN TaskNext
  /\ att' = [att EXCEPT ![t] = att'[t]] /\ att'[t] \in Seq(Attempt)
  /\ claim' = [claim EXCEPT ![t] = claim'[t]] /\ claim'[t] \subseteq Paths
  /\ lock' \subseteq lock \cup {t} /\ lock \ {t} \subseteq lock'
  /\ done' = done /\ crashes' = crashes /\ pause' \in Reason
  /\ main' \in {main, "retry", "failed"}
  /\ stage' \in {stage, "paused"}
  /\ (stage' = "canceled") <=> (stage = "canceled")

\* A task of which nothing changes keeps its invariant.
LEMMA Untouched ==
  ASSUME NEW u \in Tasks, TaskInv(u),
         pc'[u] = pc[u], num'[u] = num[u], loc'[u] = loc[u],
         task'[u] = task[u], att'[u] = att[u], claim'[u] = claim[u],
         crashes' = crashes, u \in lock' <=> u \in lock,
         (stage' = "canceled") <=> (stage = "canceled")
  PROVE  TaskInv(u)'
<1>1. /\ Latest(u)' = Latest(u) /\ Counted(u)' = Counted(u)
      /\ Before(u)' = Before(u) /\ Limit' = Limit
  BY DEF Latest, Counted, Before, Limit, Repeats
<1>2. Placed(u)' /\ Expected(u)'
  BY <1>1 DEF TaskInv, Placed, Expected, Going, LatestIs
<1>3. Locked(u)' /\ Claimed(u)' /\ Reviewed(u)'
  BY <1>1 DEF TaskInv, Locked, Claimed, Reviewed, LatestIs, Kept
<1>4. Budgeted(u)'
  BY <1>1 DEF TaskInv, Budgeted, Spent, Kept, Accepted, Ended, LatestIs
<1> QED
  BY <1>2, <1>3, <1>4 DEF TaskInv

\* It keeps the types, and the invariant of every other task.
LEMMA Acted ==
  ASSUME TypeOK, NEW t \in Tasks, Acts(t), \A u \in Tasks : TaskInv(u),
         TaskInv(t)'
  PROVE  TypeOK' /\ \A u \in Tasks : TaskInv(u)'
<1>1. TypeOK'
  <2>1. /\ pc' \in [Tasks -> Step] /\ num' \in [Tasks -> Nat]
        /\ loc' \in [Tasks -> Loc] /\ task' \in [Tasks -> DOMAIN TaskNext]
    BY DEF TypeOK, Acts
  <2>2. att' \in [Tasks -> Seq(Attempt)] /\ claim' \in [Tasks -> SUBSET Paths]
    BY DEF TypeOK, Acts
  <2> QED BY <2>1, <2>2 DEF TypeOK, Acts
<1>2. ASSUME NEW u \in Tasks, u # t PROVE TaskInv(u)'
  <2>1. /\ pc'[u] = pc[u] /\ num'[u] = num[u] /\ loc'[u] = loc[u]
        /\ task'[u] = task[u] /\ att'[u] = att[u] /\ claim'[u] = claim[u]
        /\ crashes' = crashes
        /\ u \in lock' <=> u \in lock
        /\ (stage' = "canceled") <=> (stage = "canceled")
    BY <1>2 DEF TypeOK, Acts
  <2> QED BY <2>1, Untouched
<1> QED
  BY <1>1, <1>2

\* A report either throws or becomes an update of the latest attempt.
LEMMA Reported ==
  ASSUME TypeOK, NEW t \in Tasks, TaskInv(t), pc[t] \in Inside,
         NEW status \in DOMAIN AttNext, NEW to, NEW why, NEW reason, NEW next,
         Report(t, status, to, why, reason, next)
  PROVE  /\ UNCHANGED <<num, stage, pause, task>>
         /\ \/ Throw(t) /\ att' = att
            \/ /\ pc' = [pc EXCEPT ![t] = "settle"]
               /\ loc' = [loc EXCEPT ![t] = [to |-> to, why |-> why,
                                             reason |-> reason, next |-> next]]
               /\ Puts(t, Became(Latest(t), status))
<1>1. att[t] # <<>> /\ num[t] = Len(att[t]) /\ Mine(t) = Latest(t)
  BY DEF TaskInv, Placed, Latest, Mine
<1> QED
  BY <1>1 DEF Report, Puts, Mine

\* What a coroutine may report of its attempt, given where it goes on.
Fits(t, status, to, reason, next) ==
  /\ next \in {"post", "gates", "review", "release", "keep"}
  /\ next # "release" => status = Expects[next] /\ reason = "none"
  /\ next = "release" => status \notin InWork
  /\ status \in InWork \cup {"worker_completed"} => to = status
  /\ status = "approved" => Latest(t).review = "approved"
  /\ status = "review_skipped" => t \in LowRisk /\ Len(att[t]) = 1
  /\ status \in InWork \cup {"review_skipped", "approved"} =>
       Latest(t).files \subseteq claim'[t]
  /\ crashes = 0 /\ status \in InWork => task[t] \notin Restart

\* A report that fits keeps the invariant of its task.
LEMMA Reports ==
  ASSUME TypeOK, NEW t \in Tasks, TaskInv(t),
         pc[t] \in DOMAIN Expects \ {"keep"},
         NEW status \in DOMAIN AttNext, NEW to \in DOMAIN TaskNext,
         NEW why \in {"none", "retry", "product"}, NEW reason \in Reason,
         NEW next \in Step,
         Report(t, status, to, why, reason, next),
         Fits(t, status, to, reason, next),
         UNCHANGED <<loop, lock>>,
         claim' = [claim EXCEPT ![t] = claim'[t]],
         claim[t] \subseteq claim'[t], claim'[t] \subseteq Paths
  PROVE  Acts(t) /\ TaskInv(t)'
<1> DEFINE a == Latest(t)
           b == Became(a, status)
<1>1. /\ att[t] # <<>> /\ num[t] = Len(att[t]) /\ pc[t] \in Inside
      /\ a \in Attempt /\ Latest(t) = a /\ Len(att[t]) \in Nat
  BY Names, Numbers DEF TaskInv, Placed, Inside
<1>2. \/ a.status = Expects[pc[t]]
      \/ stage = "canceled" /\ a.status \in {"canceled", "interrupted"}
  BY <1>1, Names DEF TaskInv, Expected, Going, LatestIs
<1>3. UNCHANGED <<main, done, crashes, lock, num, stage, pause, task>>
  BY <1>1, Reported DEF loop
<1>4. Limit' = Limit /\ Cardinality(Before(t)) <= Limit
  BY <1>3 DEF TaskInv, Budgeted, Limit, Repeats
<1>5. CASE Throw(t) /\ att' = att
  <2>1. /\ pc' = [pc EXCEPT ![t] = "catch"] /\ pc'[t] = "catch"
        /\ loc' = [loc EXCEPT ![t] = NoLoc] /\ loc'[t] = NoLoc
    BY <1>5 DEF Throw, TypeOK
  <2>2. Acts(t)
    BY <1>3, <1>5, <2>1, Names DEF Acts, TypeOK, Step, Loc, NoLoc, Reason
  <2>3. Latest(t)' = a /\ Before(t)' = Before(t)
    BY <1>5 DEF Latest, Before
  <2>4. Placed(t)' /\ Expected(t)' /\ Locked(t)'
    BY <1>3, <2>1, Names DEF Placed, Expected, Going, Locked, Inside
  <2>5. Claimed(t)' /\ Reviewed(t)'
    BY <1>1, <1>5, <2>3 DEF TaskInv, Claimed, Reviewed, LatestIs
  <2>6. Budgeted(t)'
    BY <1>1, <1>3, <1>4, <1>5, <2>1, <2>3 DEF TaskInv, Budgeted, LatestIs
  <2> QED BY <2>2, <2>4, <2>5, <2>6 DEF TaskInv
<1>6. CASE /\ pc' = [pc EXCEPT ![t] = "settle"]
           /\ loc' = [loc EXCEPT ![t] = [to |-> to, why |-> why,
                                         reason |-> reason, next |-> next]]
           /\ Puts(t, b)
  <2>1. /\ b \in Attempt
        /\ b.status = IF a.status \in Terminal THEN a.status ELSE status
        /\ b.status \in InWork \cup {"running", "worker_completed",
                                     "review_skipped", "approved"}
             => b.files = a.files /\ b.review = a.review
    BY <1>1, Becoming
  <2>2. \/ b.status = status
        \/ stage = "canceled" /\ b.status \in {"canceled", "interrupted"}
    BY <1>2, <2>1, Names DEF Terminal, Expects
  <2> HIDE DEF a, b
  <2>3. /\ att' = [att EXCEPT ![t] = att'[t]] /\ att'[t] \in Seq(Attempt)
        /\ att'[t] # <<>> /\ Len(att'[t]) = Len(att[t]) /\ Latest(t)' = b
        /\ Before(t)' = Before(t)
    BY <1>1, <1>6, <2>1, Put
  <2>4. /\ pc'[t] = "settle" /\ loc'[t].to = to /\ loc'[t].reason = reason
        /\ loc'[t].next = next /\ loc'[t] \in Loc
    BY <1>6 DEF TypeOK, Loc
  <2>5. Acts(t)
    BY <1>3, <1>6, <2>3, <2>4 DEF Acts, TypeOK, Step
  <2>6. Placed(t)' /\ Locked(t)'
    BY <1>1, <1>3, <2>3, <2>4 DEF Placed, Locked, Inside
  <2>7. Expected(t)'
    <3>1. next \in DOMAIN Expects =>
            \/ b.status = Expects[next]
            \/ stage = "canceled" /\ b.status \in {"canceled", "interrupted"}
      BY <2>2, Names DEF Fits
    <3>2. next = "release" => b.status \notin InWork
      BY <2>2 DEF Fits, InWork
    <3>3. b.status \in InWork \cup {"worker_completed"} => to = b.status
      BY <2>2 DEF Fits, InWork
    <3> QED
      BY <1>3, <2>3, <2>4, <3>1, <3>2, <3>3
      DEF Expected, Going, LatestIs, Fits
  <2>8. Claimed(t)' /\ Reviewed(t)'
    BY <1>1, <2>1, <2>2, <2>3
    DEF Claimed, Reviewed, LatestIs, Fits, InWork, a
  <2>9. Budgeted(t)'
    BY <1>3, <1>4, <2>2, <2>3, <2>4
    DEF Budgeted, LatestIs, Fits, InWork, Kept
  <2> QED BY <2>5, <2>6, <2>7, <2>8, <2>9 DEF TaskInv
<1> QED
  BY <1>1, <1>5, <1>6, Reported

-----------------------------------------------------------------------------
(* The steps that report an outcome. *)

\* An attempt that fails, is sent back, interrupted or canceled.
LEMMA Refuses ==
  ASSUME TypeOK, NEW t \in Tasks, TaskInv(t),
         pc[t] \in DOMAIN Expects \ {"keep"},
         NEW status \in {"failed", "rework_required", "interrupted", "canceled"},
         NEW to \in DOMAIN TaskNext, NEW why \in {"none", "retry", "product"},
         NEW reason \in Reason,
         Report(t, status, to, why, reason, "release"),
         UNCHANGED <<loop, held>>
  PROVE  Acts(t) /\ TaskInv(t)'
<1>1. status \in DOMAIN AttNext /\ "release" \in Step
  BY Names DEF Step
<1>2. Fits(t, status, to, reason, "release")
  BY DEF Fits, InWork
<1>3. UNCHANGED <<loop, lock, claim>>
  BY DEF held
<1>4. claim \in [Tasks -> SUBSET Paths]
  BY DEF TypeOK
<1>5. claim' = [claim EXCEPT ![t] = claim'[t]] /\ claim[t] \subseteq claim'[t]
      /\ claim'[t] \subseteq Paths
  BY <1>3, <1>4
<1> QED
  BY <1>1, <1>2, <1>3, <1>5, Reports

\* An attempt that goes on.
LEMMA GoesOn ==
  ASSUME TypeOK, NEW t \in Tasks, TaskInv(t),
         pc[t] \in DOMAIN Expects \ {"keep"},
         NEW status \in {"worker_completed", "validating", "reviewing",
                         "review_skipped", "approved"},
         NEW reason \in Reason, NEW next \in Step,
         Report(t, status, status, "none", reason, next),
         Fits(t, status, status, reason, next),
         UNCHANGED <<loop, lock>>,
         claim' = [claim EXCEPT ![t] = claim'[t]],
         claim[t] \subseteq claim'[t], claim'[t] \subseteq Paths
  PROVE  Acts(t) /\ TaskInv(t)'
<1>1. status \in DOMAIN AttNext /\ status \in DOMAIN TaskNext
  BY Names
<1>2. "none" \in {"none", "retry", "product"}
  OBVIOUS
<1> QED
  BY <1>1, <1>2, Reports

\* Claims that stay as they are.
LEMMA ClaimStays ==
  ASSUME TypeOK, NEW t \in Tasks, UNCHANGED claim
  PROVE  claim' = [claim EXCEPT ![t] = claim'[t]] /\ claim[t] \subseteq claim'[t]
         /\ claim'[t] \subseteq Paths
BY DEF TypeOK

\* The reports that end a coroutine.
LEMMA EndingSteps ==
  ASSUME TypeOK, NEW t \in Tasks, TaskInv(t),
         \/ StopIfCanceled(t) \/ PrepareFails(t) \/ Unfit(t) \/ GatesFail(t)
         \/ NothingToReview(t)
  PROVE  Acts(t) /\ TaskInv(t)'
<1>1. /\ pc[t] \in DOMAIN Expects \ {"keep"} /\ UNCHANGED <<loop, held>>
  BY Names DEF StopIfCanceled, Checkpoints, PrepareFails, Unfit, GatesFail,
               NothingToReview
<1>2. PICK status \in {"failed", "rework_required", "interrupted", "canceled"},
           to \in {"rework_required", "waiting_decision", "canceled"},
           why \in {"none", "retry"}, reason \in {"none", "other"} :
        Report(t, status, to, why, reason, "release")
  BY DEF StopIfCanceled, PrepareFails, Unfit, GatesFail, NothingToReview
<1> QED
  <2>1. to \in DOMAIN TaskNext /\ why \in {"none", "retry", "product"}
        /\ reason \in Reason
    BY Names DEF Reason
  <2> QED BY <1>1, <1>2, <2>1, Refuses

\* The result of a worker, or what stands for it.
LEMMA ResultSteps ==
  ASSUME TypeOK, NEW t \in Tasks, TaskInv(t),
         NoResult(t) \/ Persist(t) \/ ResultIs(t)
  PROVE  Acts(t) /\ TaskInv(t)'
<1>1. /\ pc[t] \in {"result", "persist"} /\ UNCHANGED <<loop, lock, claim>>
      /\ pc[t] \in DOMAIN Expects \ {"keep"} /\ UNCHANGED <<loop, held>>
  BY Names DEF NoResult, Persist, ResultIs, Passes, held
<1>2. CASE \E status \in {"failed", "rework_required"},
              to \in {"rework_required", "waiting_decision"},
              why \in {"none", "retry", "product"}, reason \in Reason :
             Report(t, status, to, why, reason, "release")
  <2>1. PICK status \in {"failed", "rework_required"},
             to \in {"rework_required", "waiting_decision"},
             why \in {"none", "retry", "product"}, reason \in Reason :
               Report(t, status, to, why, reason, "release")
    BY <1>2
  <2>2. to \in DOMAIN TaskNext
    BY Names
  <2> QED BY <1>1, <2>1, <2>2, Refuses
<1>3. CASE \E next \in {"keep", "post"} :
             Report(t, "worker_completed", "worker_completed", "none", "none",
                    next)
  <2>1. PICK next \in {"keep", "post"} :
          Report(t, "worker_completed", "worker_completed", "none", "none",
                 next)
    BY <1>3
  <2>2. Fits(t, "worker_completed", "worker_completed", "none", next)
    BY DEF Fits, Expects, InWork
  <2>3. next \in Step /\ "none" \in Reason
    BY DEF Step, Reason
  <2> QED
    BY <1>1, <2>1, <2>2, <2>3, ClaimStays, GoesOn
<1> QED
  BY <1>2, <1>3 DEF NoResult, Persist, ResultIs, Reason

\* Validation: what an attempt has changed is claimed.
LEMMA ClaimSteps ==
  ASSUME TypeOK, NEW t \in Tasks, TaskInv(t), Claim(t)
  PROVE  Acts(t) /\ TaskInv(t)'
<1>1. /\ pc[t] = "post" /\ pc[t] \in DOMAIN Expects \ {"keep"}
      /\ UNCHANGED <<loop, lock>>
      /\ Report(t, "validating", "validating", "none", "none", "gates")
      /\ claim' = [claim EXCEPT ![t] = @ \cup Mine(t).files]
  BY Names DEF Claim, Passes
<1>2. /\ att[t] # <<>> /\ Mine(t) = Latest(t) /\ Latest(t) \in Attempt
  BY <1>1, Numbers DEF TaskInv, Placed, Inside, Mine, Latest
<1>3. Latest(t).files \subseteq Paths
  BY <1>2, Fields
<1>4. /\ claim' = [claim EXCEPT ![t] = claim'[t]]
      /\ claim'[t] = claim[t] \cup Latest(t).files
      /\ claim[t] \subseteq claim'[t] /\ claim'[t] \subseteq Paths
  BY <1>1, <1>2, <1>3 DEF TypeOK
<1>5. crashes = 0 => task[t] \notin Restart
  <2>1. stage # "canceled"
    BY DEF Claim, Passes
  <2>2. Kept(t)
    BY <1>1, <2>1 DEF TaskInv, Expected, Going, Kept, Expects
  <2> QED BY <1>1, <2>2 DEF TaskInv, Budgeted
<1>6. Fits(t, "validating", "validating", "none", "gates")
  BY <1>4, <1>5 DEF Fits, Expects, InWork
<1>7. "gates" \in Step /\ "none" \in Reason
  BY DEF Step, Reason
<1> QED
  BY <1>1, <1>4, <1>6, <1>7, GoesOn

\* The gates have passed: the attempt asks for its review or skips it.
LEMMA AskSteps ==
  ASSUME TypeOK, NEW t \in Tasks, TaskInv(t), AskForReview(t)
  PROVE  Acts(t) /\ TaskInv(t)'
<1>1. /\ pc[t] = "gates" /\ pc[t] \in DOMAIN Expects \ {"keep"}
      /\ UNCHANGED <<loop, lock, claim>> /\ stage # "canceled"
  BY Names DEF AskForReview, Passes, held
<1>2. att[t] # <<>> /\ num[t] = Len(att[t]) /\ LatestIs(t, {"validating"})
  <2>1. att[t] # <<>> /\ num[t] = Len(att[t])
    BY <1>1 DEF TaskInv, Placed, Inside
  <2>2. LatestIs(t, {"validating"})
    BY <1>1 DEF TaskInv, Expected, Going, Expects
  <2> QED BY <2>1, <2>2
<1>3. /\ Latest(t).files \subseteq claim[t]
      /\ crashes = 0 => task[t] \notin Restart
  BY <1>1, <1>2 DEF TaskInv, Claimed, Budgeted, LatestIs, InWork
<1>4. CASE MaySkip(t)
  <2>1. Report(t, "review_skipped", "review_skipped", "none", "none", "release")
    BY <1>4 DEF AskForReview
  <2>2. Fits(t, "review_skipped", "review_skipped", "none", "release")
    BY <1>1, <1>2, <1>3, <1>4 DEF Fits, InWork, MaySkip
  <2>3. "release" \in Step /\ "none" \in Reason
    BY DEF Step, Reason
  <2> QED BY <1>1, <2>1, <2>2, <2>3, ClaimStays, GoesOn
<1>5. CASE ~MaySkip(t)
  <2>1. Report(t, "reviewing", "reviewing", "none", "none", "review")
    BY <1>5 DEF AskForReview
  <2>2. Fits(t, "reviewing", "reviewing", "none", "review")
    BY <1>1, <1>3 DEF Fits, InWork, Expects
  <2>3. "review" \in Step /\ "none" \in Reason
    BY DEF Step, Reason
  <2> QED BY <1>1, <2>1, <2>2, <2>3, ClaimStays, GoesOn
<1> QED
  BY <1>4, <1>5

\* A verdict becomes the attempt's status.
LEMMA VerdictSteps ==
  ASSUME TypeOK, NEW t \in Tasks, TaskInv(t), Verdict(t)
  PROVE  Acts(t) /\ TaskInv(t)'
<1>1. /\ pc[t] = "verdict" /\ pc[t] \in DOMAIN Expects \ {"keep"}
      /\ UNCHANGED <<loop, lock, claim>> /\ UNCHANGED <<loop, held>>
      /\ stage # "canceled"
  BY Names DEF Verdict, Passes, held
<1>2. /\ att[t] # <<>> /\ num[t] = Len(att[t]) /\ LatestIs(t, {"reviewing"})
      /\ Mine(t) = Latest(t)
      /\ Mine(t).review \in {"approved", "rework_required"}
  <2>1. att[t] # <<>> /\ num[t] = Len(att[t])
    BY <1>1 DEF TaskInv, Placed, Inside
  <2>2. LatestIs(t, {"reviewing"})
        /\ Latest(t).review \in {"approved", "rework_required"}
    BY <1>1 DEF TaskInv, Expected, Going, Expects
  <2>3. Mine(t) = Latest(t)
    BY <2>1 DEF Mine, Latest
  <2> QED BY <2>1, <2>2, <2>3
<1>3. PICK reason \in {"none", "other"} :
        Report(t, Mine(t).review, Mine(t).review, "none", reason, "release")
  BY DEF Verdict
<1>4. reason \in Reason /\ "release" \in Step
  BY DEF Reason, Step
<1>5. CASE Mine(t).review = "approved"
  <2>1. Latest(t).files \subseteq claim[t]
    BY <1>1, <1>2 DEF TaskInv, Claimed, LatestIs, InWork
  <2>2. Fits(t, "approved", "approved", reason, "release")
    BY <1>1, <1>2, <1>5, <2>1 DEF Fits, InWork
  <2> QED BY <1>1, <1>3, <1>4, <1>5, <2>2, ClaimStays, GoesOn
<1>6. CASE Mine(t).review = "rework_required"
  <2>1. "rework_required" \in DOMAIN TaskNext
    BY Names
  <2> QED BY <1>1, <1>3, <1>4, <1>6, <2>1, Refuses
<1> QED
  BY <1>2, <1>5, <1>6

-----------------------------------------------------------------------------
(* The steps that leave the attempts alone. *)

\* Attempts that stay as they are.
LEMMA SameAttempts ==
  ASSUME TypeOK, NEW t \in Tasks, UNCHANGED att
  PROVE  /\ att' = [att EXCEPT ![t] = att'[t]] /\ att'[t] \in Seq(Attempt)
         /\ att'[t] = att[t] /\ Latest(t)' = Latest(t)
         /\ Before(t)' = Before(t) /\ Counted(t)' = Counted(t)
BY DEF TypeOK, Latest, Before, Counted

\* The number of attempts allowed does not shrink, and does not change without
\* a crash.
LEMMA Limits ==
  ASSUME TypeOK
  PROVE  /\ Limit \in Nat /\ Limit >= MaxRework
         /\ crashes' = crashes => Limit' = Limit
BY PoolAssumption DEF TypeOK, Limit, Repeats

\* A task is chosen when its attempts allow it.
LEMMA ChooseSteps ==
  ASSUME TypeOK, NEW t \in Tasks, TaskInv(t), Choose(t)
  PROVE  Acts(t) /\ TaskInv(t)'
<1>1. /\ pc[t] = "idle" /\ ~Accepted(t)
      /\ Ended(t) => MayRetry(t)
      /\ UNCHANGED <<main, done, crashes, num, loc, stage, pause, task, att,
                     lock, claim>>
      /\ pc' = [pc EXCEPT ![t] = "chosen"]
  BY DEF Choose, Go, loop, held
<1>2. pc'[t] = "chosen"
  BY <1>1 DEF TypeOK
<1>3. Acts(t)
  BY <1>1, <1>2, SameAttempts DEF Acts, TypeOK, Step
<1>4. Placed(t)' /\ Expected(t)' /\ Locked(t)' /\ Claimed(t)' /\ Reviewed(t)'
  <2>1. Placed(t)' /\ Expected(t)'
    BY <1>2, Names DEF Placed, Expected, Going, Inside
  <2>2. Locked(t)'
    BY <1>1, <1>2, SameAttempts DEF TaskInv, Locked, Kept, LatestIs
  <2>3. Claimed(t)' /\ Reviewed(t)'
    BY <1>1, SameAttempts DEF TaskInv, Claimed, Reviewed, LatestIs
  <2> QED BY <2>1, <2>2, <2>3
<1>5. Ended(t) => Spent(t)
  <2>1. SUFFICES ASSUME Ended(t) PROVE Spent(t)
    OBVIOUS
  <2> DEFINE C == Charged(t)
             D == Counted(t)
  <2>2. Cardinality(C) < MaxRework + 1
    BY <1>1, <2>1 DEF MayRetry
  <2>3. D \subseteq C /\ C \subseteq 1..Len(att[t])
    BY DEF Charged, Counted, Uncounted
  <2>4. Len(att[t]) \in Nat /\ Cardinality(D) \in Nat
    BY Numbers
  <2> HIDE DEF C, D
  <2>5. IsFiniteSet(C) /\ Cardinality(C) \in Nat
    <3>1. IsFiniteSet(1..Len(att[t]))
      BY <2>4, FS_Interval
    <3> QED BY <2>3, <3>1, FS_Subset, FS_CardinalityType
  <2>6. Cardinality(D) <= Cardinality(C)
    BY <2>3, <2>5, FS_Subset
  <2> QED
    BY <2>2, <2>4, <2>5, <2>6, Limits, PoolAssumption DEF Spent, D
<1>6. Budgeted(t)'
  BY <1>1, <1>2, <1>5, SameAttempts, Limits
  DEF TaskInv, Budgeted, Spent, Accepted, Ended, Kept, LatestIs
<1> QED
  BY <1>3, <1>4, <1>6 DEF TaskInv

\* A slot and the locks, or back to the loop.
LEMMA DispatchSteps ==
  ASSUME TypeOK, NEW t \in Tasks, TaskInv(t), Dispatch(t)
  PROVE  Acts(t) /\ TaskInv(t)'
<1>1. /\ pc[t] = "chosen"
      /\ UNCHANGED <<main, done, crashes, num, loc, stage, pause, task, att,
                     claim>>
      /\ \/ /\ pc' = [pc EXCEPT ![t] = "begin"]
            /\ lock' = IF Kept(t) THEN lock ELSE lock \cup {t}
         \/ pc' = [pc EXCEPT ![t] = "idle"] /\ lock' = lock
  BY DEF Dispatch, loop
<1>2. \/ /\ pc'[t] = "begin"
         /\ lock' = IF Kept(t) THEN lock ELSE lock \cup {t}
      \/ pc'[t] = "idle" /\ lock' = lock
  BY <1>1 DEF TypeOK
<1>3. Acts(t)
  BY <1>1, <1>2, SameAttempts DEF Acts, TypeOK, Step
<1>4. Placed(t)' /\ Expected(t)'
  BY <1>2, Names DEF Placed, Expected, Going, Inside
<1>5. Locked(t)'
  BY <1>1, <1>2, SameAttempts DEF TaskInv, Locked, Kept, LatestIs
<1>6. Claimed(t)' /\ Reviewed(t)'
  BY <1>1, SameAttempts DEF TaskInv, Claimed, Reviewed, LatestIs
<1>7. Budgeted(t)'
  BY <1>1, <1>2, SameAttempts, Limits
  DEF TaskInv, Budgeted, Spent, Accepted, Ended, Kept, LatestIs
<1> QED
  BY <1>3, <1>4, <1>5, <1>6, <1>7 DEF TaskInv

\* A task that may not be retried waits for a decision.
LEMMA BlockedSteps ==
  ASSUME TypeOK, NEW t \in Tasks, TaskInv(t), RetryBlocked(t)
  PROVE  Acts(t) /\ TaskInv(t)'
<1>1. /\ pc[t] = "idle" /\ Ended(t) /\ main' \in {"retry", "failed"}
      /\ UNCHANGED <<done, crashes, pc, num, loc, stage, pause, att, lock,
                     claim>>
      /\ task' = [task EXCEPT ![t] = task'[t]] /\ task'[t] \in DOMAIN TaskNext
  BY Names DEF RetryBlocked, CanStart, own, held, Written, TypeOK
<1>2. Acts(t)
  BY <1>1, SameAttempts DEF Acts, TypeOK, Step
<1>3. Placed(t)' /\ Expected(t)'
  BY <1>1, Names DEF Placed, Expected, Going, Inside
<1>4. Locked(t)'
  BY <1>1, SameAttempts DEF TaskInv, Locked, Kept, LatestIs
<1>5. Claimed(t)' /\ Reviewed(t)'
  BY <1>1, SameAttempts DEF TaskInv, Claimed, Reviewed, LatestIs
<1>6. ~Kept(t) /\ ~LatestIs(t, InWork)
  BY <1>1 DEF Ended, Kept, LatestIs, InWork
<1>7. Budgeted(t)'
  BY <1>1, <1>6, SameAttempts, Limits
  DEF TaskInv, Budgeted, Spent, Kept, LatestIs
<1> QED
  BY <1>2, <1>3, <1>4, <1>5, <1>7 DEF TaskInv

\* A coroutine ends; only what waits for its review keeps its locks.
LEMMA LeaveSteps ==
  ASSUME TypeOK, NEW t \in Tasks, TaskInv(t), Leave(t)
  PROVE  Acts(t) /\ TaskInv(t)'
<1>1. /\ pc[t] \in {"release", "keep"}
      /\ pc' = [pc EXCEPT ![t] = "idle"] /\ num' = [num EXCEPT ![t] = 0]
      /\ lock' = IF pc[t] = "release" THEN lock \ {t} ELSE lock
      /\ UNCHANGED <<main, done, crashes, loc, stage, pause, task, att, claim>>
  BY DEF Leave, loop
<1>2. pc'[t] = "idle" /\ num'[t] = 0
  BY <1>1 DEF TypeOK
<1>3. Acts(t)
  BY <1>1, <1>2, SameAttempts DEF Acts, TypeOK, Step
<1>4. Placed(t)' /\ Expected(t)'
  BY <1>2, Names DEF Placed, Expected, Going, Inside
<1>5. /\ pc[t] = "keep" /\ stage # "canceled" => Kept(t)
      /\ ~LatestIs(t, InWork)
  BY <1>1 DEF TaskInv, Expected, Going, Expects, Kept, LatestIs, InWork
<1>6. Locked(t)'
  BY <1>1, <1>2, <1>5, SameAttempts DEF Locked, Kept, LatestIs
<1>7. Claimed(t)' /\ Reviewed(t)'
  BY <1>1, SameAttempts DEF TaskInv, Claimed, Reviewed, LatestIs
<1>8. Budgeted(t)'
  BY <1>1, <1>2, <1>5, SameAttempts, Limits
  DEF TaskInv, Budgeted, Spent, Kept, LatestIs
<1> QED
  BY <1>3, <1>4, <1>6, <1>7, <1>8 DEF TaskInv

\* A new attempt begins only within the limit.
LEMMA BeginSteps ==
  ASSUME TypeOK, NEW t \in Tasks, TaskInv(t), Begin(t)
  PROVE  Acts(t) /\ TaskInv(t)'
<1>1. /\ pc[t] = "begin" /\ ~Kept(t)
      /\ UNCHANGED <<main, done, crashes, loc, stage, pause, att, lock, claim>>
  BY DEF Begin, loop, held
<1>2. \/ /\ task[t] \in Restart
         /\ task' = [task EXCEPT ![t] = "running"]
         /\ num' = [num EXCEPT ![t] = Len(att[t]) + 1]
         /\ pc' = [pc EXCEPT ![t] = "create"]
      \/ pc' = [pc EXCEPT ![t] = "catch"] /\ UNCHANGED <<task, num>>
  BY DEF Begin, Restart
<1>3. \/ /\ task[t] \in Restart /\ pc'[t] = "create"
         /\ num'[t] = Len(att[t]) + 1
      \/ pc'[t] = "catch" /\ UNCHANGED <<task, num>>
  BY <1>2 DEF TypeOK
<1>4. Acts(t)
  <2>1. Len(att[t]) \in Nat /\ "running" \in DOMAIN TaskNext
    BY Names, Numbers
  <2> QED BY <1>1, <1>2, <2>1, SameAttempts DEF Acts, TypeOK, Step
<1>5. Placed(t)' /\ Expected(t)'
  BY <1>3, SameAttempts, Names, <1>1 DEF Placed, Expected, Going, Inside
<1>6. Locked(t)'
  BY <1>1, <1>3, SameAttempts DEF TaskInv, Locked, Kept, LatestIs
<1>7. Claimed(t)' /\ Reviewed(t)'
  BY <1>1, SameAttempts DEF TaskInv, Claimed, Reviewed, LatestIs
<1>8. task[t] \in Restart => Spent(t)
  <2>1. SUFFICES ASSUME task[t] \in Restart PROVE Spent(t)
    OBVIOUS
  <2>2. Cardinality(Before(t)) <= Limit /\ ~Accepted(t)
    BY <1>1 DEF TaskInv, Budgeted
  <2>3. CASE att[t] = <<>>
    BY <2>3, Numbers, Limits DEF Spent
  <2>4. CASE LatestIs(t, Uncounted)
    BY <2>2, <2>4, Numbers DEF Spent
  <2>5. CASE LatestIs(t, InWork) \/ Ended(t)
    BY <1>1, <2>1, <2>5 DEF TaskInv, Budgeted
  <2>6. att[t] # <<>> => Latest(t).status \in DOMAIN AttNext
    BY Numbers, Fields
  <2> QED
    BY <1>1, <2>2, <2>3, <2>4, <2>5, <2>6, Names
    DEF Accepted, Kept, Ended, LatestIs, Uncounted, InWork
<1>9. Budgeted(t)'
  <2>1. LatestIs(t, InWork) /\ crashes = 0 => task[t] \notin Restart
    BY DEF TaskInv, Budgeted
  <2> QED
    BY <1>1, <1>3, <1>8, <2>1, SameAttempts, Limits
    DEF TaskInv, Budgeted, Spent, Kept, LatestIs
<1> QED
  BY <1>4, <1>5, <1>6, <1>7, <1>9 DEF TaskInv

\* An attempt that waits for its review goes on, or the stage pauses.
LEMMA BeginKeptSteps ==
  ASSUME TypeOK, NEW t \in Tasks, TaskInv(t), BeginKept(t)
  PROVE  Acts(t) /\ TaskInv(t)'
<1> DEFINE l == [NoLoc EXCEPT !.reason = "other", !.next = "release"]
<1>1. /\ pc[t] = "begin" /\ Kept(t) /\ num' = [num EXCEPT ![t] = Len(att[t])]
      /\ UNCHANGED <<main, done, crashes, stage, pause, task, att, lock, claim>>
  BY DEF BeginKept, loop, held
<1>2. \/ pc' = [pc EXCEPT ![t] = "post"] /\ loc' = loc
      \/ pc' = [pc EXCEPT ![t] = "pausing"] /\ loc' = [loc EXCEPT ![t] = l]
  BY DEF BeginKept
<1>3. l \in Loc /\ l.reason = "other" /\ l.next = "release"
  BY Names DEF NoLoc, Loc, Reason, Step
<1> HIDE DEF l
<1>4. \/ pc'[t] = "post"
      \/ pc'[t] = "pausing" /\ loc'[t] = l
  BY <1>2 DEF TypeOK
<1>5. num'[t] = Len(att[t]) /\ Len(att[t]) \in Nat /\ att[t] # <<>>
  BY <1>1, Numbers DEF TypeOK, Kept, LatestIs
<1>6. Acts(t)
  BY <1>1, <1>2, <1>3, <1>5, SameAttempts DEF Acts, TypeOK, Step
<1>7. LatestIs(t, {"worker_completed"})
  BY <1>1 DEF Kept
<1>8. Placed(t)'
  BY <1>1, <1>4, <1>5, SameAttempts DEF Placed, Inside
<1>9. Expected(t)'
  <2>1. CASE pc'[t] = "post"
    BY <1>1, <1>7, <2>1, SameAttempts DEF Expected, Going, LatestIs, Expects
  <2>2. CASE pc'[t] = "pausing" /\ loc'[t] = l
    BY <1>1, <1>3, <1>7, <2>2, SameAttempts, Names
    DEF Expected, Going, LatestIs, InWork
  <2> QED BY <1>4, <2>1, <2>2
<1>10. Locked(t)' /\ Claimed(t)' /\ Reviewed(t)'
  BY <1>1, <1>4, SameAttempts
  DEF TaskInv, Locked, Claimed, Reviewed, LatestIs
<1>11. Budgeted(t)'
  BY <1>1, <1>4, <1>7, SameAttempts, Limits
  DEF TaskInv, Budgeted, Spent, Kept, LatestIs, InWork
<1> QED
  BY <1>6, <1>8, <1>9, <1>10, <1>11 DEF TaskInv

\* A pause that comes without a change of status.
LEMMA PauseThenSteps ==
  ASSUME TypeOK, NEW t \in Tasks, TaskInv(t),
         TokensExceeded(t) \/ ClaimRefused(t)
  PROVE  Acts(t) /\ TaskInv(t)'
<1>1. PICK next \in {"persist", "release"} :
        /\ pc[t] = IF next = "persist" THEN "result" ELSE "post"
        /\ PauseThen(t, "other", next) /\ UNCHANGED <<loop, held>>
  BY DEF TokensExceeded, ClaimRefused, Passes
<1> DEFINE l == [NoLoc EXCEPT !.reason = "other", !.next = next]
<1>2. /\ pc' = [pc EXCEPT ![t] = "pausing"] /\ loc' = [loc EXCEPT ![t] = l]
      /\ UNCHANGED <<main, done, crashes, num, stage, pause, task, att, lock,
                     claim>>
  BY <1>1 DEF PauseThen, loop, held
<1>3. l \in Loc /\ l.reason = "other" /\ l.next = next
  BY <1>1, Names DEF NoLoc, Loc, Reason, Step
<1> HIDE DEF l
<1>4. pc'[t] = "pausing" /\ loc'[t] = l
  BY <1>2 DEF TypeOK
<1>5. Acts(t)
  BY <1>2, <1>3, <1>4, SameAttempts DEF Acts, TypeOK, Step
<1>6. Placed(t)'
  BY <1>1, <1>2, <1>4, SameAttempts DEF TaskInv, Placed, Inside
<1>7. \/ LatestIs(t, {IF next = "persist" THEN "running"
                                          ELSE "worker_completed"})
      \/ stage = "canceled" /\ LatestIs(t, {"canceled", "interrupted"})
  BY <1>1 DEF TaskInv, Expected, Going, Expects
<1>8. Expected(t)'
  BY <1>2, <1>3, <1>4, <1>7, SameAttempts, Names
  DEF Expected, Going, LatestIs, Expects, InWork
<1>9. Locked(t)' /\ Claimed(t)' /\ Reviewed(t)'
  BY <1>2, <1>4, SameAttempts
  DEF TaskInv, Locked, Claimed, Reviewed, LatestIs
<1>10. Budgeted(t)'
  BY <1>1, <1>2, <1>4, SameAttempts, Limits
  DEF TaskInv, Budgeted, Spent, Kept, LatestIs
<1> QED
  BY <1>5, <1>6, <1>8, <1>9, <1>10 DEF TaskInv

-----------------------------------------------------------------------------
(* The steps that mark the latest attempt. *)

\* An attempt that keeps its status and what was read of it so far.
Marks(t, a) ==
  /\ a \in Attempt /\ Puts(t, a) /\ a.status = Latest(t).status
  /\ LatestIs(t, InWork \cup {"review_skipped", "approved"}) =>
       a.files = Latest(t).files
  /\ LatestIs(t, {"approved"}) => a.review = Latest(t).review

\* It keeps what the invariant says of attempts.
LEMMA Marked ==
  ASSUME TypeOK, NEW t \in Tasks, TaskInv(t), att[t] # <<>>, NEW a, Marks(t, a)
  PROVE  /\ att' = [att EXCEPT ![t] = att'[t]] /\ att'[t] \in Seq(Attempt)
         /\ att'[t] # <<>> /\ Len(att'[t]) = Len(att[t]) /\ Latest(t)' = a
         /\ Before(t)' = Before(t) /\ a.status = Latest(t).status
         /\ UNCHANGED claim => Claimed(t)'
         /\ Reviewed(t)'
<1>1. /\ att' = [att EXCEPT ![t] = att'[t]] /\ att'[t] \in Seq(Attempt)
      /\ att'[t] # <<>> /\ Len(att'[t]) = Len(att[t]) /\ Latest(t)' = a
      /\ Before(t)' = Before(t) /\ a.status = Latest(t).status
  BY Put DEF Marks
<1>2. UNCHANGED claim => Claimed(t)'
  BY <1>1 DEF Marks, TaskInv, Claimed, LatestIs
<1>3. Reviewed(t)'
  BY <1>1 DEF Marks, TaskInv, Reviewed, LatestIs
<1> QED
  BY <1>1, <1>2, <1>3

\* Updates of one or two fields of the attempt a coroutine works on.
LEMMA Updates ==
  ASSUME TypeOK, NEW t \in Tasks, att[t] # <<>>, num[t] = Len(att[t]),
         NEW x, NEW y
  PROVE  /\ att' = [att EXCEPT ![t][num[t]].child = x]
              => Puts(t, [Latest(t) EXCEPT !.child = x])
         /\ att' = [att EXCEPT ![t][num[t]].review = x]
              => Puts(t, [Latest(t) EXCEPT !.review = x])
         /\ att' = [att EXCEPT ![t][num[t]].status = x]
              => Puts(t, [Latest(t) EXCEPT !.status = x])
         /\ att' = [att EXCEPT ![t][num[t]].why = x]
              => Puts(t, [Latest(t) EXCEPT !.why = x])
         /\ att' = [att EXCEPT ![t][num[t]] =
                                  [@ EXCEPT !.child = x, !.files = y]]
              => Puts(t, [Latest(t) EXCEPT !.child = x, !.files = y])
<1> DEFINE n == num[t]
<1>1. Latest(t) = att[t][n] /\ n = Len(att[t])
  BY DEF Latest
<1> HIDE DEF n
<1>2. /\ att' = [att EXCEPT ![t][n].child = x]
           => Puts(t, [att[t][n] EXCEPT !.child = x])
      /\ att' = [att EXCEPT ![t][n].review = x]
           => Puts(t, [att[t][n] EXCEPT !.review = x])
      /\ att' = [att EXCEPT ![t][n].status = x]
           => Puts(t, [att[t][n] EXCEPT !.status = x])
      /\ att' = [att EXCEPT ![t][n].why = x]
           => Puts(t, [att[t][n] EXCEPT !.why = x])
  BY <1>1, Zenon DEF Puts
<1>3. att' = [att EXCEPT ![t][n] = [@ EXCEPT !.child = x, !.files = y]]
        => Puts(t, [att[t][n] EXCEPT !.child = x, !.files = y])
  BY <1>1, Zenon DEF Puts
<1> QED
  BY <1>1, <1>2, <1>3 DEF n

\* A coroutine at work is on the latest attempt.
LEMMA AtWork ==
  ASSUME TypeOK, NEW t \in Tasks, TaskInv(t), pc[t] \in Inside
  PROVE  /\ att[t] # <<>> /\ num[t] = Len(att[t]) /\ Len(att[t]) \in Nat
         /\ Latest(t) \in Attempt /\ Mine(t) = Latest(t)
         /\ pc[t] \in DOMAIN Expects =>
              \/ LatestIs(t, {Expects[pc[t]]})
              \/ stage = "canceled" /\ LatestIs(t, {"canceled", "interrupted"})
<1>1. att[t] # <<>> /\ num[t] = Len(att[t])
  BY DEF TaskInv, Placed
<1>2. Len(att[t]) \in Nat /\ Latest(t) \in Attempt /\ Mine(t) = Latest(t)
  BY <1>1, Numbers DEF Mine, Latest
<1>3. pc[t] \in DOMAIN Expects =>
              \/ LatestIs(t, {Expects[pc[t]]})
              \/ stage = "canceled" /\ LatestIs(t, {"canceled", "interrupted"})
  BY Names DEF TaskInv, Expected, Going
<1> QED
  BY <1>1, <1>2, <1>3

\* The worker starts and ends, the review is asked for and comes back.
LEMMA MarkSteps ==
  ASSUME TypeOK, NEW t \in Tasks, TaskInv(t),
         Spawn(t) \/ WorkerEnds(t) \/ CreateReview(t) \/ RecordReview(t)
  PROVE  Acts(t) /\ TaskInv(t)'
<1>1. /\ pc[t] \in {"prepare", "work", "review", "asked"}
      /\ pc[t] \in Inside /\ pc[t] \in DOMAIN Expects
      /\ UNCHANGED <<main, done, crashes, num, loc, stage, pause, task, lock,
                     claim>>
  BY Names DEF Spawn, WorkerEnds, CreateReview, RecordReview, Go, loop, held,
               Inside
<1>2. /\ att[t] # <<>> /\ num[t] = Len(att[t]) /\ Latest(t) \in Attempt
      /\ \/ LatestIs(t, {Expects[pc[t]]})
         \/ stage = "canceled" /\ LatestIs(t, {"canceled", "interrupted"})
  BY <1>1, AtWork
<1>3. PICK p \in {"work", "result", "asked", "retry", "verdict"}, a \in Attempt :
        /\ Marks(t, a) /\ pc' = [pc EXCEPT ![t] = p]
        /\ Expects[p] = Expects[pc[t]]
        /\ p = "work" => pc[t] = "prepare"
        /\ p = "verdict" => a.review \in {"approved", "rework_required"}
  <2> DEFINE b == Latest(t)
  <2>1. CASE Spawn(t)
    <3> DEFINE a == [b EXCEPT !.child = "alive"]
    <3>1. a \in Attempt /\ a.status = b.status /\ a.files = b.files
                        /\ a.review = b.review
      BY <1>2 DEF Attempt
    <3>2. Puts(t, a)
      BY <1>2, <2>1, Updates DEF Spawn
    <3>3. pc[t] = "prepare" /\ pc' = [pc EXCEPT ![t] = "work"]
      BY <2>1 DEF Spawn, Go
    <3> HIDE DEF a, b
    <3>4. Marks(t, a)
      BY <3>1, <3>2 DEF Marks, b
    <3> QED BY <3>1, <3>3, <3>4 DEF Expects
  <2>2. CASE WorkerEnds(t)
    <3>1. PICK f \in Diffs[t] :
            att' = [att EXCEPT ![t][num[t]] =
                                 [@ EXCEPT !.child = "gone", !.files = f]]
      BY <2>2 DEF WorkerEnds
    <3> DEFINE a == [b EXCEPT !.child = "gone", !.files = f]
    <3>2. f \subseteq Paths
      BY PoolAssumption
    <3>3. a \in Attempt /\ a.status = b.status /\ a.review = b.review
      BY <1>2, <3>2 DEF Attempt
    <3>4. Puts(t, a)
      BY <1>2, <3>1, Updates
    <3>5. pc[t] = "work" /\ pc' = [pc EXCEPT ![t] = "result"]
      BY <2>2 DEF WorkerEnds, Go
    <3>6. ~LatestIs(t, InWork \cup {"review_skipped", "approved"})
      BY <1>2, <3>5 DEF Expects, LatestIs, InWork
    <3> HIDE DEF a, b
    <3>7. Marks(t, a)
      BY <3>3, <3>4, <3>6 DEF Marks, b
    <3> QED BY <3>3, <3>5, <3>7 DEF Expects
  <2>3. CASE CreateReview(t) \/ RecordReview(t)
    <3>1. PICK v \in {"running", "failed", "approved", "rework_required"} :
            /\ att' = [att EXCEPT ![t][num[t]].review = v]
            /\ \/ v = "running" /\ pc[t] = "review"
                  /\ pc' = [pc EXCEPT ![t] = "asked"]
               \/ v = "failed" /\ pc[t] = "asked"
                  /\ pc' = [pc EXCEPT ![t] = "retry"]
               \/ v \in {"approved", "rework_required"} /\ pc[t] = "asked"
                  /\ pc' = [pc EXCEPT ![t] = "verdict"]
      BY <2>3 DEF CreateReview, RecordReview, Go
    <3> DEFINE a == [b EXCEPT !.review = v]
    <3>2. /\ a \in Attempt /\ a.status = b.status /\ a.files = b.files
          /\ a.review = v
      BY <1>2 DEF Attempt
    <3>3. Puts(t, a)
      BY <1>2, <3>1, Updates
    <3>4. ~LatestIs(t, {"approved"})
      BY <1>2, <3>1 DEF Expects, LatestIs
    <3> HIDE DEF a, b
    <3>5. Marks(t, a)
      BY <3>2, <3>3, <3>4 DEF Marks, b
    <3> QED BY <3>1, <3>2, <3>5 DEF Expects
  <2> QED BY <2>1, <2>2, <2>3
<1>4. pc'[t] = p
  BY <1>3 DEF TypeOK
<1>5. /\ att' = [att EXCEPT ![t] = att'[t]] /\ att'[t] \in Seq(Attempt)
      /\ att'[t] # <<>> /\ Len(att'[t]) = Len(att[t]) /\ Latest(t)' = a
      /\ Before(t)' = Before(t) /\ a.status = Latest(t).status
      /\ Claimed(t)' /\ Reviewed(t)'
  BY <1>1, <1>2, <1>3, Marked
<1>6. Acts(t)
  BY <1>1, <1>3, <1>4, <1>5 DEF Acts, TypeOK, Step
<1>7. Placed(t)' /\ Locked(t)'
  BY <1>1, <1>2, <1>3, <1>4, <1>5 DEF TaskInv, Placed, Locked
<1>8. Expected(t)'
  BY <1>1, <1>2, <1>3, <1>4, <1>5 DEF Expected, Going, LatestIs
<1>9. Budgeted(t)'
  BY <1>1, <1>2, <1>3, <1>4, <1>5, Limits
  DEF TaskInv, Budgeted, LatestIs, Kept, Inside
<1> QED
  BY <1>5, <1>6, <1>7, <1>8, <1>9 DEF TaskInv

-----------------------------------------------------------------------------
(* The steps that bring task and attempt together. *)

\* An update that throws leaves everything to the catch block.
LEMMA Thrown ==
  ASSUME TypeOK, NEW t \in Tasks, TaskInv(t), Throw(t), pc[t] \in Inside,
         UNCHANGED <<main, done, crashes, num, stage, pause, task, att, lock,
                     claim>>
  PROVE  Acts(t) /\ TaskInv(t)'
<1>1. /\ pc' = [pc EXCEPT ![t] = "catch"] /\ pc'[t] = "catch"
      /\ loc' = [loc EXCEPT ![t] = NoLoc] /\ loc'[t] = NoLoc /\ NoLoc \in Loc
  BY Names DEF Throw, TypeOK, NoLoc, Loc, Reason, Step
<1>2. Acts(t)
  BY <1>1, SameAttempts DEF Acts, TypeOK, Step
<1>3. Placed(t)' /\ Expected(t)' /\ Locked(t)'
  BY <1>1, Names DEF Placed, Expected, Going, Locked, Inside
<1>4. Claimed(t)' /\ Reviewed(t)'
  BY SameAttempts DEF TaskInv, Claimed, Reviewed, LatestIs
<1>5. Budgeted(t)'
  BY <1>1, SameAttempts, Limits DEF TaskInv, Budgeted, LatestIs, Inside
<1> QED
  BY <1>2, <1>3, <1>4, <1>5 DEF TaskInv

\* A review that is not available sends its attempt back to where it waits.
LEMMA RetryReviewSteps ==
  ASSUME TypeOK, NEW t \in Tasks, TaskInv(t), RetryReview(t)
  PROVE  Acts(t) /\ TaskInv(t)'
<1> DEFINE l == [NoLoc EXCEPT !.reason = "other", !.next = "release"]
           b == Latest(t)
           a == [b EXCEPT !.status = "worker_completed"]
<1>1. /\ pc[t] = "retry" /\ pc[t] \in Inside
      /\ UNCHANGED <<main, done, crashes, num, stage, pause, lock, claim>>
  BY DEF RetryReview, loop, held, Inside
<1>2. /\ att[t] # <<>> /\ num[t] = Len(att[t]) /\ b \in Attempt
      /\ Mine(t) = b /\ Len(att[t]) \in Nat
  BY <1>1, AtWork
<1>3. l \in Loc /\ l.reason = "other" /\ l.next = "release" /\ NoLoc \in Loc
  BY Names DEF NoLoc, Loc, Reason, Step
<1>4. a \in Attempt /\ a.status = "worker_completed"
  BY <1>2, Names DEF Attempt
<1>5. CASE /\ Mine(t).status = task[t]
           /\ task[t] \in {"reviewing", "worker_completed"}
  <2>1. /\ att' = [att EXCEPT ![t][num[t]].status = "worker_completed"]
        /\ task' = [task EXCEPT ![t] = "worker_completed"]
        /\ pc' = [pc EXCEPT ![t] = "pausing"]
        /\ loc' = [loc EXCEPT ![t] = l]
    BY <1>5 DEF RetryReview
  <2>2. Puts(t, a)
    BY <1>2, <2>1, Updates
  <2> HIDE DEF a, b, l
  <2>3. /\ pc'[t] = "pausing" /\ loc'[t] = l /\ task'[t] = "worker_completed"
        /\ "worker_completed" \in DOMAIN TaskNext
    BY <2>1, Names DEF TypeOK
  <2>4. /\ att' = [att EXCEPT ![t] = att'[t]] /\ att'[t] \in Seq(Attempt)
        /\ att'[t] # <<>> /\ Len(att'[t]) = Len(att[t]) /\ Latest(t)' = a
        /\ Before(t)' = Before(t)
    BY <1>2, <1>4, <2>2, Put
  <2>5. Acts(t)
    BY <1>1, <1>3, <2>1, <2>3, <2>4 DEF Acts, TypeOK, Step
  <2>6. Placed(t)' /\ Locked(t)' /\ Claimed(t)' /\ Reviewed(t)'
    BY <1>1, <1>2, <1>4, <2>3, <2>4
    DEF Placed, Locked, Claimed, Reviewed, LatestIs, InWork
  <2>7. Expected(t)'
    BY <1>3, <1>4, <2>3, <2>4, Names DEF Expected, Going, LatestIs, InWork
  <2>8. Budgeted(t)'
    BY <1>1, <1>4, <2>3, <2>4, Limits
    DEF TaskInv, Budgeted, LatestIs, Kept, InWork, Restart
  <2> QED BY <2>5, <2>6, <2>7, <2>8 DEF TaskInv
<1>6. CASE Throw(t) /\ UNCHANGED <<att, task>>
  BY <1>1, <1>6, Thrown
<1> QED
  BY <1>5, <1>6 DEF RetryReview

\* The task follows its attempt, or its update throws.
LEMMA SettleSteps ==
  ASSUME TypeOK, NEW t \in Tasks, TaskInv(t), Settle(t)
  PROVE  Acts(t) /\ TaskInv(t)'
<1> DEFINE l == loc[t]
           b == Latest(t)
           m == [NoLoc EXCEPT !.reason = l.reason, !.next = l.next]
<1>1. /\ pc[t] = "settle" /\ pc[t] \in Inside
      /\ UNCHANGED <<main, done, crashes, num, stage, pause, lock, claim>>
  BY DEF Settle, loop, held, Inside
<1>2. /\ att[t] # <<>> /\ num[t] = Len(att[t]) /\ b \in Attempt
      /\ Len(att[t]) \in Nat
  BY <1>1, AtWork
<1>3. /\ l \in Loc /\ NoLoc \in Loc /\ l.to \in DOMAIN TaskNext
      /\ l.why \in {"none", "retry", "product"}
      /\ l.reason \in Reason /\ l.next \in Step
  BY Names DEF NoLoc, Loc, Reason, Step, TypeOK
<1>4. m \in Loc /\ m.reason = l.reason /\ m.next = l.next
  BY <1>3, Names DEF NoLoc, Loc
<1>5. /\ l.next \in {"post", "gates", "review", "release", "keep"}
      /\ l.next # "release" => l.reason = "none"
      /\ LatestIs(t, InWork \cup {"worker_completed"}) => l.to = b.status
      /\ l.next = "release" => ~LatestIs(t, InWork)
      /\ l.next \in DOMAIN Expects =>
           \/ LatestIs(t, {Expects[l.next]})
           \/ stage = "canceled" /\ LatestIs(t, {"canceled", "interrupted"})
  BY <1>1 DEF TaskInv, Expected, Going
<1>6. CASE TaskAllowed(task[t], l.to)
  <2>1. PICK a \in Attempt : Marks(t, a) \/ (att' = att /\ a = b)
    <3>1. CASE l.why = "none"
      BY <1>2, <1>6, <3>1 DEF Settle
    <3>2. CASE l.why # "none"
      <4> DEFINE a == [b EXCEPT !.why = l.why]
      <4>1. /\ a \in Attempt /\ a.status = b.status /\ a.files = b.files
            /\ a.review = b.review
        BY <1>2, <1>3, <3>2 DEF Attempt
      <4>2. att' = [att EXCEPT ![t][num[t]].why = l.why]
        BY <1>6, <3>2 DEF Settle
      <4>3. Puts(t, a)
        BY <1>2, <4>2, Updates
      <4> HIDE DEF a, b
      <4>4. Marks(t, a)
        BY <4>1, <4>3 DEF Marks, b
      <4> QED BY <4>1, <4>4
    <3> QED BY <3>1, <3>2
  <2>2. /\ att' = [att EXCEPT ![t] = att'[t]] /\ att'[t] \in Seq(Attempt)
        /\ att'[t] # <<>> /\ Len(att'[t]) = Len(att[t]) /\ Latest(t)' = a
        /\ Before(t)' = Before(t) /\ a.status = b.status
        /\ Claimed(t)' /\ Reviewed(t)'
    <3>1. CASE Marks(t, a)
      BY <1>1, <1>2, <3>1, Marked
    <3>2. CASE att' = att /\ a = b
      BY <1>1, <1>2, <3>2, SameAttempts
      DEF TaskInv, Claimed, Reviewed, LatestIs
    <3> QED BY <2>1, <3>1, <3>2
  <2>3. /\ task' = [task EXCEPT ![t] = Written({"canceled"}, task[t], l.to)]
        /\ \/ /\ l.reason = "none" /\ pc' = [pc EXCEPT ![t] = l.next]
              /\ loc' = [loc EXCEPT ![t] = NoLoc]
           \/ /\ l.reason # "none" /\ pc' = [pc EXCEPT ![t] = "pausing"]
              /\ loc' = [loc EXCEPT ![t] = m]
    BY <1>6, Zenon DEF Settle
  <2> HIDE DEF l, m, b
  <2>4. /\ task'[t] \in {"canceled", l.to} /\ task'[t] \in DOMAIN TaskNext
        /\ task' = [task EXCEPT ![t] = task'[t]]
    BY <1>3, <2>3, Names DEF Written, TypeOK
  <2>5. \/ l.reason = "none" /\ pc'[t] = l.next /\ loc'[t] = NoLoc
        \/ l.reason # "none" /\ pc'[t] = "pausing" /\ loc'[t] = m
    BY <2>3 DEF TypeOK
  <2>6. Acts(t)
    BY <1>1, <1>3, <1>4, <2>2, <2>3, <2>4, <2>5 DEF Acts, TypeOK, Step
  <2>7. Placed(t)' /\ Locked(t)'
    BY <1>1, <1>2, <1>5, <2>2, <2>5 DEF Placed, Locked
  <2>8. Expected(t)'
    <3>1. CASE l.reason = "none"
      BY <1>1, <1>2, <1>5, <2>2, <2>5, <3>1
      DEF Expected, Going, LatestIs, b
    <3>2. CASE l.reason # "none"
      BY <1>1, <1>2, <1>4, <1>5, <2>2, <2>5, <3>2, Names
      DEF Expected, Going, LatestIs, b
    <3> QED BY <3>1, <3>2
  <2>9. Budgeted(t)'
    <3>1. LatestIs(t, InWork \cup {"worker_completed"}) => task'[t] \notin Restart
      BY <1>5, <2>4 DEF LatestIs, InWork, Restart, b
    <3> QED
      BY <1>1, <1>2, <1>5, <2>2, <2>5, <3>1, Limits
      DEF TaskInv, Budgeted, LatestIs, Kept, InWork, b
  <2> QED BY <2>2, <2>6, <2>7, <2>8, <2>9 DEF TaskInv
<1>7. CASE ~TaskAllowed(task[t], l.to)
  <2>1. Throw(t) /\ UNCHANGED <<task, att>>
    BY <1>7 DEF Settle
  <2> QED BY <1>1, <2>1, Thrown
<1> QED
  BY <1>6, <1>7

\* The pause is recorded, or throws.
LEMMA RecordPauseSteps ==
  ASSUME TypeOK, NEW t \in Tasks, TaskInv(t), RecordPause(t)
  PROVE  Acts(t) /\ TaskInv(t)'
<1> DEFINE b == Latest(t)
<1>1. /\ pc[t] = "pausing" /\ pc[t] \in Inside
      /\ UNCHANGED <<main, done, crashes, num, task, lock, claim>>
  BY DEF RecordPause, loop, held, Inside
<1>2. /\ att[t] # <<>> /\ num[t] = Len(att[t]) /\ b \in Attempt
      /\ Len(att[t]) \in Nat
  BY <1>1, AtWork
<1>3. CASE PauseThrows
  BY <1>1, <1>3, Thrown DEF RecordPause
<1>4. CASE ~PauseThrows
  <2>1. /\ pc' = [pc EXCEPT ![t] = loc[t].next]
        /\ loc' = [loc EXCEPT ![t] = NoLoc] /\ PauseStage(loc[t].reason)
        /\ \/ att' = att
           \/ att' = [att EXCEPT ![t][num[t]].why = "asked"]
    BY <1>4 DEF RecordPause
  <2>2. /\ loc[t].next \in {"persist", "release"} /\ loc[t].reason \in Reason
        /\ pc'[t] = loc[t].next /\ NoLoc \in Loc /\ loc'[t] = NoLoc
    <3>1. loc[t].next \in {"persist", "release"} /\ loc[t] \in Loc
      BY <1>1 DEF TaskInv, Expected, TypeOK
    <3>2. NoLoc \in Loc
      BY Names DEF NoLoc, Loc, Reason, Step
    <3> QED BY <2>1, <3>1, <3>2 DEF TypeOK, Loc
  <2>3. /\ stage' \in {stage, "paused"} /\ pause' \in Reason
        /\ (stage' = "canceled") <=> (stage = "canceled")
    BY <1>4, <2>1, <2>2 DEF PauseStage, PauseThrows, TypeOK
  <2>4. PICK a \in Attempt : Marks(t, a) \/ (att' = att /\ a = b)
    <3>1. CASE att' = att
      BY <1>2, <3>1
    <3>2. CASE att' = [att EXCEPT ![t][num[t]].why = "asked"]
      <4> DEFINE a == [b EXCEPT !.why = "asked"]
      <4>1. /\ a \in Attempt /\ a.status = b.status /\ a.files = b.files
            /\ a.review = b.review
        BY <1>2 DEF Attempt
      <4>2. Puts(t, a)
        BY <1>2, <3>2, Updates
      <4> HIDE DEF a, b
      <4>3. Marks(t, a)
        BY <4>1, <4>2 DEF Marks, b
      <4> QED BY <4>1, <4>3
    <3> QED BY <2>1, <3>1, <3>2
  <2>5. /\ att' = [att EXCEPT ![t] = att'[t]] /\ att'[t] \in Seq(Attempt)
        /\ att'[t] # <<>> /\ Len(att'[t]) = Len(att[t]) /\ Latest(t)' = a
        /\ Before(t)' = Before(t) /\ a.status = b.status
        /\ Claimed(t)' /\ Reviewed(t)'
    <3>1. CASE Marks(t, a)
      BY <1>1, <1>2, <3>1, Marked
    <3>2. CASE att' = att /\ a = b
      BY <1>1, <1>2, <3>2, SameAttempts
      DEF TaskInv, Claimed, Reviewed, LatestIs
    <3> QED BY <2>4, <3>1, <3>2
  <2>6. Acts(t)
    BY <1>1, <2>1, <2>2, <2>3, <2>5 DEF Acts, TypeOK, Step
  <2>7. Placed(t)' /\ Locked(t)'
    BY <1>1, <1>2, <2>2, <2>5 DEF Placed, Locked
  <2>8. Expected(t)'
    BY <1>1, <2>2, <2>3, <2>5, Names
    DEF TaskInv, Expected, Going, LatestIs
  <2>9. Budgeted(t)'
    BY <1>1, <1>2, <2>2, <2>5, Limits DEF TaskInv, Budgeted, LatestIs, Kept
  <2> QED BY <2>5, <2>6, <2>7, <2>8, <2>9 DEF TaskInv
<1> QED
  BY <1>3, <1>4

\* The catch block fails what is in work, and lets go.
LEMMA CatchSteps ==
  ASSUME TypeOK, NEW t \in Tasks, TaskInv(t), Catch(t)
  PROVE  Acts(t) /\ TaskInv(t)'
<1> DEFINE b == Latest(t)
           open == att[t] # <<>> /\ Latest(t).status \notin Terminal
           fails == open /\ "failed" \in AttNext[Latest(t).status]
<1>1. /\ pc[t] = "catch" /\ pc' = [pc EXCEPT ![t] = "release"]
      /\ pc'[t] = "release"
      /\ UNCHANGED <<main, done, crashes, num, loc, stage, pause, lock, claim>>
  BY DEF Catch, Go, loop, held, TypeOK
<1>2. /\ task' = [task EXCEPT ![t] = task'[t]] /\ task'[t] \in DOMAIN TaskNext
  BY Names DEF Catch, TypeOK
<1>3. /\ att' = [att EXCEPT ![t] = att'[t]] /\ att'[t] \in Seq(Attempt)
      /\ Len(att'[t]) = Len(att[t]) /\ Before(t)' = Before(t)
      /\ Claimed(t)' /\ Reviewed(t)'
      /\ ~LatestIs(t, InWork \cup {"worker_completed"})'
  <2>1. CASE fails
    <3> DEFINE c == Became(b, "failed")
               a == [c EXCEPT !.why = "retry"]
    <3>1. b \in Attempt /\ att[t] # <<>> /\ b.status \notin Terminal
      BY <2>1, Numbers
    <3>2. c \in Attempt /\ c.status = "failed"
      BY <3>1, Becoming, Names
    <3> HIDE DEF c
    <3>3. a \in Attempt /\ a.status = "failed"
      BY <3>2 DEF Attempt
    <3>4. Puts(t, a)
      BY <2>1, Zenon DEF Catch, Puts, Latest, c
    <3> HIDE DEF a, b
    <3>5. /\ att' = [att EXCEPT ![t] = att'[t]] /\ att'[t] \in Seq(Attempt)
          /\ Len(att'[t]) = Len(att[t]) /\ Before(t)' = Before(t)
          /\ Latest(t)' = a
      BY <3>1, <3>3, <3>4, Put
    <3> QED
      BY <3>3, <3>5 DEF Claimed, Reviewed, LatestIs, InWork
  <2>2. CASE ~fails
    <3>1. UNCHANGED att
      BY <2>2 DEF Catch
    <3>2. ~LatestIs(t, InWork \cup {"worker_completed"})
      BY <2>2 DEF LatestIs, InWork, Terminal, AttNext
    <3> QED
      BY <1>1, <3>1, <3>2, SameAttempts
      DEF TaskInv, Claimed, Reviewed, LatestIs
  <2> QED BY <2>1, <2>2
<1>4. Acts(t)
  BY <1>1, <1>2, <1>3 DEF Acts, TypeOK, Step
<1>5. Placed(t)' /\ Expected(t)' /\ Locked(t)'
  BY <1>1, <1>3, Names
  DEF Placed, Expected, Going, Locked, Inside, LatestIs
<1>6. Budgeted(t)'
  BY <1>1, <1>3, Limits DEF TaskInv, Budgeted, LatestIs, Kept
<1> QED
  BY <1>3, <1>4, <1>5, <1>6 DEF TaskInv

\* A new attempt joins those that count.
LEMMA CreateSteps ==
  ASSUME TypeOK, NEW t \in Tasks, TaskInv(t), CreateAttempt(t)
  PROVE  Acts(t) /\ TaskInv(t)'
<1> DEFINE n == Len(att[t])
           past == [i \in DOMAIN att[t] |-> Past(att[t][i])]
<1>1. /\ pc[t] = "create" /\ pc' = [pc EXCEPT ![t] = "prepare"]
      /\ pc'[t] = "prepare"
      /\ UNCHANGED <<main, done, crashes, num, loc, stage, pause, task, lock,
                     claim>>
      /\ att' = [att EXCEPT ![t] = Append(past, NewAttempt)]
  BY DEF CreateAttempt, Go, loop, held, TypeOK
<1>2. att[t] \in Seq(Attempt) /\ n \in Nat /\ NewAttempt \in Attempt
  BY Numbers, Names DEF Attempt, NewAttempt
<1>3. \A a \in Attempt : Past(a) \in Attempt /\ Past(a).status = a.status
  BY DEF Past, NewAttempt, Attempt
<1>4. /\ past \in Seq(Attempt) /\ Len(past) = n
      /\ \A i \in 1..n : past[i].status = att[t][i].status
  <2>1. past \in [1..n -> Attempt]
    BY <1>2, <1>3
  <2>2. past \in Seq(Attempt) /\ Len(past) = n
    BY <1>2, <2>1
  <2> QED BY <1>2, <1>3, <2>2
<1> HIDE DEF past
<1>5. /\ att'[t] = Append(past, NewAttempt) /\ att'[t] \in Seq(Attempt)
      /\ Len(att'[t]) = n + 1 /\ att'[t][n + 1] = NewAttempt
      /\ \A i \in 1..n : att'[t][i].status = att[t][i].status
      /\ att' = [att EXCEPT ![t] = att'[t]] /\ att'[t] # <<>>
  <2>1. att'[t] = Append(past, NewAttempt)
    BY <1>1 DEF TypeOK
  <2> DEFINE q == Append(past, NewAttempt)
  <2>2. /\ q \in Seq(Attempt) /\ Len(q) = n + 1 /\ q[n + 1] = NewAttempt
        /\ \A i \in 1..n : q[i] = past[i]
    BY <1>2, <1>4
  <2>3. q # <<>>
    BY <1>2, <2>2
  <2> HIDE DEF q
  <2> QED BY <1>1, <1>4, <2>1, <2>2, <2>3 DEF q
<1>6. Latest(t)' = NewAttempt /\ NewAttempt.status = "running"
  BY <1>5 DEF Latest, NewAttempt
<1>7. Before(t)' = Counted(t)
  BY <1>2, <1>5 DEF Before, Counted
<1>8. Acts(t)
  BY <1>1, <1>5 DEF Acts, TypeOK, Step
<1>9. Placed(t)' /\ Locked(t)'
  BY <1>1, <1>2, <1>5 DEF TaskInv, Placed, Locked
<1>10. Expected(t)' /\ Claimed(t)' /\ Reviewed(t)'
  BY <1>1, <1>5, <1>6, Names
  DEF Expected, Claimed, Reviewed, Going, LatestIs, Expects, InWork
<1>11. Budgeted(t)'
  BY <1>1, <1>6, <1>7, Limits
  DEF TaskInv, Budgeted, Spent, LatestIs, Kept, InWork
<1> QED
  BY <1>8, <1>9, <1>10, <1>11 DEF TaskInv

\* Every step of a task keeps what the invariant says of it.
LEMMA TaskSteps ==
  ASSUME TypeOK, NEW t \in Tasks, TaskInv(t), TaskStep(t)
  PROVE  Acts(t) /\ TaskInv(t)'
BY ChooseSteps, DispatchSteps, BlockedSteps, SettleSteps, RecordPauseSteps,
   CatchSteps, LeaveSteps, EndingSteps, BeginSteps, BeginKeptSteps, CreateSteps,
   MarkSteps, ResultSteps, PauseThenSteps, ClaimSteps, AskSteps,
   RetryReviewSteps, VerdictSteps
DEF TaskStep

\* A task moves only while the loop runs, and leaves the stage to a pause.
LEMMA Moves ==
  ASSUME IInv, NEW t \in Tasks, TaskStep(t)
  PROVE  /\ main \in {"loop", "retry", "failed"}
         /\ pc[t] # "idle" \/ t \notin done \/ pc' = pc
         /\ UNCHANGED <<stage, pause>> \/ RecordPause(t)
<1>1. pc[t] # "idle" \/ Choose(t) \/ RetryBlocked(t)
  <2>1. CASE \/ Dispatch(t) \/ Settle(t) \/ RecordPause(t) \/ Catch(t)
             \/ Leave(t) \/ StopIfCanceled(t) \/ Begin(t) \/ BeginKept(t)
             \/ CreateAttempt(t) \/ PrepareFails(t) \/ Spawn(t) \/ WorkerEnds(t)
             \/ NoResult(t)
    BY <2>1 DEF Dispatch, Settle, RecordPause, Catch, Leave, StopIfCanceled,
                Checkpoints, Begin, BeginKept, CreateAttempt, PrepareFails,
                Spawn, WorkerEnds, NoResult, Go
  <2>2. CASE \/ TokensExceeded(t) \/ Persist(t) \/ ResultIs(t) \/ Unfit(t)
             \/ ClaimRefused(t) \/ Claim(t) \/ GatesFail(t) \/ AskForReview(t)
             \/ CreateReview(t) \/ RecordReview(t) \/ NothingToReview(t)
             \/ RetryReview(t) \/ Verdict(t)
    BY <2>2 DEF TokensExceeded, Persist, ResultIs, Unfit, ClaimRefused, Claim,
                GatesFail, AskForReview, CreateReview, RecordReview,
                NothingToReview, RetryReview, Verdict, Go, Passes
  <2> QED BY <2>1, <2>2 DEF TaskStep
<1>2. Choose(t) \/ RetryBlocked(t) =>
        main = "loop" /\ (t \notin done \/ pc' = pc)
  BY DEF Choose, RetryBlocked, Looking, CanStart, own
<1>3. pc[t] # "idle" => main \in {"loop", "retry", "failed"}
  BY DEF IInv, TypeOK, LoopInv
<1>4. UNCHANGED <<stage, pause>> \/ RecordPause(t)
  <2>1. CASE \/ Choose(t) \/ Dispatch(t) \/ RetryBlocked(t) \/ Settle(t)
             \/ Catch(t) \/ Leave(t) \/ Begin(t) \/ BeginKept(t)
             \/ CreateAttempt(t) \/ Spawn(t) \/ WorkerEnds(t)
             \/ TokensExceeded(t) \/ ClaimRefused(t) \/ CreateReview(t)
             \/ RecordReview(t) \/ RetryReview(t)
    BY <2>1 DEF Choose, Dispatch, RetryBlocked, Settle, Catch, Leave, Begin,
                BeginKept, CreateAttempt, Spawn, WorkerEnds, TokensExceeded,
                ClaimRefused, CreateReview, RecordReview, RetryReview, PauseThen
  <2>2. CASE \/ StopIfCanceled(t) \/ PrepareFails(t) \/ NoResult(t)
             \/ Persist(t) \/ ResultIs(t) \/ Unfit(t) \/ Claim(t)
             \/ GatesFail(t) \/ AskForReview(t) \/ NothingToReview(t)
             \/ Verdict(t)
    BY <2>2 DEF StopIfCanceled, PrepareFails, NoResult, Persist, ResultIs,
                Unfit, Claim, GatesFail, AskForReview, NothingToReview, Verdict,
                Report
  <2> QED BY <2>1, <2>2 DEF TaskStep
<1> QED
  BY <1>1, <1>2, <1>3, <1>4

\* What the invariant says of the loop survives every step of a task.
LEMMA LoopOfTaskSteps ==
  ASSUME IInv, NEW t \in Tasks, TaskStep(t), Acts(t)
  PROVE  LoopInv'
<1>1. main \in {"loop", "retry", "failed"} /\ main' \in {main, "retry", "failed"}
  BY Moves DEF Acts
<1>2. \A u \in done' : pc'[u] = "idle"
  <2>1. done' = done /\ \A u \in done : pc[u] = "idle"
    BY DEF IInv, LoopInv, Acts
  <2>2. \A u \in Tasks \ {t} : pc'[u] = pc[u]
    BY DEF IInv, TypeOK, Acts
  <2>3. done \subseteq Tasks
    BY DEF IInv, TypeOK
  <2> QED BY <2>1, <2>2, <2>3, Moves
<1>3. /\ stage' = "paused" => pause' # "none"
      /\ pause' # "none" => stage' \in {"paused", "canceled"}
  <2>1. CASE UNCHANGED <<stage, pause>>
    BY <2>1 DEF IInv, LoopInv
  <2>2. CASE RecordPause(t)
    <3>1. loc[t].reason # "none"
      BY <2>2 DEF IInv, TaskInv, Expected, RecordPause
    <3>2. UNCHANGED <<stage, pause>> \/ PauseStage(loc[t].reason)
      BY <2>2 DEF RecordPause
    <3> QED BY <3>1, <3>2 DEF IInv, LoopInv, PauseStage
  <2> QED BY <2>1, <2>2, Moves
<1> QED
  BY <1>1, <1>2, <1>3 DEF LoopInv, NoHalfState

\* Locks are taken beside those of other tasks, and claims checked against
\* theirs.
LEMMA SharedOfTaskSteps ==
  ASSUME IInv, NEW t \in Tasks, TaskStep(t), Acts(t)
  PROVE  SharedInv'
<1>1. \A u, v \in lock' : <<u, v>> \notin Clash
  <2>1. lock' \subseteq lock \/ (lock' = lock \cup {t} /\ ~LockedByOther(t))
    <3>1. CASE Dispatch(t)
      BY <3>1 DEF Dispatch
    <3>2. CASE Leave(t)
      BY <3>2 DEF Leave
    <3>3. CASE ~Dispatch(t) /\ ~Leave(t)
      BY <3>3 DEF TaskStep, Choose, RetryBlocked, Settle, RecordPause, Catch,
                  StopIfCanceled, Begin, BeginKept, CreateAttempt, PrepareFails,
                  Spawn, WorkerEnds, NoResult, TokensExceeded, Persist,
                  ResultIs, Unfit, ClaimRefused, Claim, GatesFail, AskForReview,
                  CreateReview, RecordReview, NothingToReview, RetryReview,
                  Verdict, held
    <3> QED BY <3>1, <3>2, <3>3
  <2>2. \A u, v : <<u, v>> \in Clash => u # v /\ <<v, u>> \in Clash
    BY PoolAssumption
  <2> QED BY <2>1, <2>2 DEF IInv, SharedInv, LockedByOther
<1>2. ASSUME NEW u \in Tasks, NEW v \in Tasks, u # v, ~Serial(u, v)
      PROVE  claim'[u] \cap claim'[v] = {}
  <2>1. claim[u] \cap claim[v] = {}
    BY <1>2 DEF IInv, SharedInv
  <2>2. CASE Claim(t)
    <3>1. /\ ~ClaimConflict(t, Mine(t).files)
          /\ claim' = [claim EXCEPT ![t] = claim[t] \cup Mine(t).files]
      BY <2>2 DEF Claim
    <3>2. \A w \in Tasks \ {t} : ~Serial(t, w) =>
            Mine(t).files \cap claim[w] = {}
      BY <3>1 DEF ClaimConflict
    <3>3. Serial(u, v) <=> Serial(v, u)
      BY DEF Serial
    <3>4. /\ claim'[t] = claim[t] \cup Mine(t).files
          /\ \A w \in Tasks \ {t} : claim'[w] = claim[w]
      BY <3>1 DEF IInv, TypeOK
    <3> HIDE DEF Mine
    <3>5. CASE u = t
      BY <1>2, <2>1, <3>2, <3>4, <3>5
    <3>6. CASE v = t
      BY <1>2, <2>1, <3>2, <3>3, <3>4, <3>6
    <3> QED BY <2>1, <3>4, <3>5, <3>6
  <2>3. CASE ~Claim(t)
    <3>1. UNCHANGED claim
      BY <2>3 DEF TaskStep, Choose, RetryBlocked, Dispatch, Leave, Settle,
                  RecordPause, Catch, StopIfCanceled, Begin, BeginKept,
                  CreateAttempt, PrepareFails, Spawn, WorkerEnds, NoResult,
                  TokensExceeded, Persist, ResultIs, Unfit, ClaimRefused,
                  GatesFail, AskForReview, CreateReview, RecordReview,
                  NothingToReview, RetryReview, Verdict, held
    <3> QED BY <2>1, <3>1
  <2> QED BY <2>2, <2>3
<1> QED
  BY <1>1, <1>2 DEF SharedInv, Serial

-----------------------------------------------------------------------------
(* The steps of the loop and of the other actors. *)

\* What these may do to an attempt: nothing that is read of it, the end of a
\* worker, or the verdict of its review.
Echo(a, b) ==
  /\ b \in Attempt
  /\ \/ b.status = a.status /\ b.files = a.files /\ b.review = a.review
     \/ a.status = "running" /\ b.status \in {"interrupted", "canceled"}
     \/ /\ a.status = "reviewing" /\ b.status = "approved"
        /\ b.files = a.files /\ b.review = "approved"
     \/ a.status = "reviewing" /\ b.status = "rework_required"
Echoes(t) ==
  /\ att'[t] \in Seq(Attempt) /\ Len(att'[t]) = Len(att[t])
  /\ \A i \in 1..Len(att[t]) : Echo(att[t][i], att'[t][i])

\* An attempt is its own echo, and so is one whose worker has ended.
LEMMA EchoOf ==
  ASSUME NEW a \in Attempt
  PROVE  /\ Echo(a, a)
         /\ Echo(a, [a EXCEPT !.child = "gone"])
         /\ a.status = "running" => Echo(a, Became(a, "interrupted"))
         /\ a.status = "running" =>
              Echo(a, Became([a EXCEPT !.child = "gone"], "canceled"))
         /\ a.status = "reviewing" /\ a.review \in {"approved",
                                                    "rework_required"}
              => Echo(a, Became(a, a.review))
         /\ Echo(a, [a EXCEPT !.why = "answered"])
<1> DEFINE g == [a EXCEPT !.child = "gone"]
           w == [a EXCEPT !.why = "answered"]
<1>1. /\ g \in Attempt /\ g.status = a.status /\ g.files = a.files
      /\ g.review = a.review
  BY Fields
<1>2. /\ w \in Attempt /\ w.status = a.status /\ w.files = a.files
      /\ w.review = a.review
  BY DEF Attempt
<1>3. Echo(a, a) /\ Echo(a, g) /\ Echo(a, w)
  <2> HIDE DEF g, w
  <2> QED BY <1>1, <1>2 DEF Echo
<1>4. a.status = "running" => Echo(a, Became(a, "interrupted"))
  BY Becoming, Names DEF Echo, Terminal
<1>5. a.status = "running" => Echo(a, Became(g, "canceled"))
  <2> HIDE DEF g
  <2> QED BY <1>1, Becoming, Names DEF Echo, Terminal
<1>6. a.status = "reviewing" /\ a.review \in {"approved", "rework_required"}
        => Echo(a, Became(a, a.review))
  BY Becoming, Names DEF Echo, Terminal
<1> QED
  BY <1>3, <1>4, <1>5, <1>6

\* What the invariant reads of attempts, after such a step.
LEMMA Echoed ==
  ASSUME TypeOK, NEW t \in Tasks, Echoes(t)
  PROVE  /\ att'[t] # <<>> <=> att[t] # <<>>
         /\ Len(att'[t]) = Len(att[t])
         /\ att[t] # <<>> => Echo(Latest(t), Latest(t)')
         /\ Before(t)' = Before(t) /\ Counted(t)' = Counted(t)
<1> DEFINE n == Len(att[t])
<1>1. att[t] \in Seq(Attempt) /\ n \in Nat /\ (att[t] # <<>> => n \in 1..n)
  BY Numbers
<1>2. att'[t] \in Seq(Attempt) /\ Len(att'[t]) = n
      /\ \A i \in 1..n : Echo(att[t][i], att'[t][i])
  BY DEF Echoes
<1>3. att'[t] # <<>> <=> att[t] # <<>>
  BY <1>1, <1>2
<1>4. att[t] # <<>> => Echo(Latest(t), Latest(t)')
  BY <1>1, <1>2, <1>3 DEF Latest
<1>5. \A i \in 1..n : att'[t][i].status \in Uncounted
                        <=> att[t][i].status \in Uncounted
  BY <1>2 DEF Echo, Uncounted
<1>6. Before(t)' = Before(t) /\ Counted(t)' = Counted(t)
  BY <1>1, <1>2, <1>5 DEF Before, Counted
<1> QED
  BY <1>2, <1>3, <1>4, <1>6

\* A task whose coroutine does not run keeps its invariant.
LEMMA Rests ==
  ASSUME TypeOK, NEW t \in Tasks, TaskInv(t), Echoes(t), pc[t] = "idle",
         UNCHANGED <<pc, task, claim, crashes>>, lock' \subseteq lock,
         (stage' = "canceled") <=> (stage = "canceled")
  PROVE  TaskInv(t)'
<1>1. Placed(t)' /\ Expected(t)'
  BY Names DEF Placed, Expected, Going, Inside
<1>2. Locked(t)'
  BY Echoed DEF TaskInv, Locked, Kept, LatestIs, Echo
<1>3. Claimed(t)' /\ Reviewed(t)'
  BY Echoed DEF TaskInv, Claimed, Reviewed, LatestIs, Echo, InWork
<1>4. Budgeted(t)'
  BY Echoed, Limits
  DEF TaskInv, Budgeted, Spent, Accepted, Ended, Kept, LatestIs, Echo, InWork
<1> QED
  BY <1>1, <1>2, <1>3, <1>4 DEF TaskInv

\* A worker ends on its own, or by a cancel of the stage.
LEMMA Interrupts ==
  ASSUME TypeOK, NEW t \in Tasks, TaskInv(t), Echoes(t),
         UNCHANGED <<pc, num, loc, task, claim, crashes, lock>>,
         \/ UNCHANGED stage
         \/ stage' = "canceled" /\ stage # "canceled",
         att[t] # <<>> =>
           \/ /\ Latest(t)'.status = Latest(t).status
              /\ Latest(t)'.files = Latest(t).files
              /\ Latest(t)'.review = Latest(t).review
           \/ /\ stage # "canceled" /\ stage' = "canceled"
              /\ Latest(t).status = "running"
              /\ Latest(t)'.status \in {"interrupted", "canceled"}
  PROVE  TaskInv(t)'
<1>1. Placed(t)'
  BY Echoed DEF TaskInv, Placed
<1>2. Expected(t)'
  <2>1. Going(t)' = Going(t)
    BY DEF Going
  <2>2. Going(t) \in DOMAIN Expects =>
          \/ LatestIs(t, {Expects[Going(t)]})'
          \/ stage' = "canceled" /\ LatestIs(t, {"canceled", "interrupted"})'
    <3>1. SUFFICES ASSUME Going(t) \in DOMAIN Expects
                   PROVE  \/ LatestIs(t, {Expects[Going(t)]})'
                          \/ /\ stage' = "canceled"
                             /\ LatestIs(t, {"canceled", "interrupted"})'
      OBVIOUS
    <3> DEFINE e == Expects[Going(t)]
    <3>2. \/ LatestIs(t, {e})
          \/ stage = "canceled" /\ LatestIs(t, {"canceled", "interrupted"})
      BY <3>1 DEF TaskInv, Expected
    <3>3. e' = e
      BY <2>1 DEF Expects
    <3> HIDE DEF e
    <3>4. \/ LatestIs(t, {e})'
          \/ stage' = "canceled" /\ LatestIs(t, {"canceled", "interrupted"})'
      BY <3>2, <3>3, Echoed DEF LatestIs
    <3> QED BY <3>4 DEF e
  <2>3. Going(t) = "release" => ~LatestIs(t, InWork)'
    BY Echoed DEF TaskInv, Expected, LatestIs, InWork
  <2>4. pc[t] = "verdict" => Latest(t)'.review \in {"approved",
                                                    "rework_required"}
    <3>1. SUFFICES ASSUME pc[t] = "verdict"
                   PROVE  Latest(t)'.review \in {"approved", "rework_required"}
      OBVIOUS
    <3>2. pc[t] \in Inside
      BY <3>1 DEF Inside
    <3>3. att[t] # <<>> /\ Latest(t).status # "running"
          /\ Latest(t).review \in {"approved", "rework_required"}
      BY <3>1, <3>2, AtWork, Names DEF TaskInv, Expected, LatestIs, Expects
    <3> QED BY <3>3
  <2>5. pc[t] = "settle" =>
          /\ loc[t].next \in {"post", "gates", "review", "release", "keep"}
          /\ loc[t].next # "release" => loc[t].reason = "none"
          /\ LatestIs(t, InWork \cup {"worker_completed"})' =>
               loc[t].to = Latest(t)'.status
    BY Echoed DEF TaskInv, Expected, LatestIs, InWork
  <2>6. pc[t] = "pausing" =>
          loc[t].next \in {"persist", "release"} /\ loc[t].reason # "none"
    BY DEF TaskInv, Expected
  <2> QED BY <2>1, <2>2, <2>3, <2>4, <2>5, <2>6 DEF Expected
<1>3. Locked(t)'
  BY Echoed DEF TaskInv, Locked, Kept, LatestIs
<1>4. Claimed(t)' /\ Reviewed(t)'
  BY Echoed DEF TaskInv, Claimed, Reviewed, LatestIs, InWork
<1>5. Budgeted(t)'
  BY Echoed, Limits
  DEF TaskInv, Budgeted, Spent, Accepted, Ended, Kept, LatestIs, InWork
<1> QED
  BY <1>1, <1>2, <1>3, <1>4, <1>5 DEF TaskInv

\* The loop counts, ends and pauses.
LEMMA LoopSteps ==
  ASSUME IInv, CountDone \/ Deadlock \/ Finish \/ LoopPauses \/ Drained
  PROVE  IInv'
<1>1. UNCHANGED <<pc, num, loc, task, att, lock, claim, crashes>>
  BY DEF CountDone, Deadlock, Finish, LoopPauses, Drained, own, held
<1>2. /\ done' \subseteq Tasks /\ \A t \in done' : pc[t] = "idle"
  BY DEF CountDone, Deadlock, Finish, LoopPauses, Drained, CanStart, IInv,
         TypeOK, LoopInv
<1>3. \/ UNCHANGED <<stage, pause>>
      \/ LoopPauses /\ stage' = "paused" /\ pause = "none" /\ pause' = "other"
         /\ stage # "canceled"
  BY DEF CountDone, Deadlock, Finish, LoopPauses, Drained, PauseStage,
         PauseThrows
<1>4. main' \in {"off", "loop", "integration", "integrate", "deadlock", "failed"}
  BY DEF CountDone, Deadlock, Finish, LoopPauses, Drained, Looking
<1>5. TypeOK'
  BY <1>1, <1>2, <1>3, <1>4 DEF IInv, TypeOK, Reason
<1>6. LoopInv'
  <2>1. main' \in {"off", "integration", "integrate", "deadlock"} =>
          \A t \in Tasks : pc[t] = "idle"
    BY DEF CountDone, Deadlock, Finish, LoopPauses, Drained, Looking, IInv,
           LoopInv
  <2>2. main' = "off" =>
          stage' = "canceled" \/ (stage' = "paused" /\ pause' # "none")
    <3>1. CASE LoopPauses
      BY <3>1 DEF LoopPauses, PauseThrows, PauseStage, IInv, LoopInv, TypeOK
    <3>2. CASE Drained
      BY <3>2 DEF Drained, IInv, LoopInv
    <3> QED
      BY <3>1, <3>2 DEF CountDone, Deadlock, Finish, Looking
  <2> QED
    BY <1>1, <1>2, <1>3, <1>4, <2>1, <2>2 DEF IInv, LoopInv, NoHalfState
<1>7. SharedInv'
  BY <1>1 DEF IInv, SharedInv, Serial
<1>8. \A t \in Tasks : TaskInv(t)'
  BY <1>1, <1>3, Untouched DEF IInv
<1> QED
  BY <1>5, <1>6, <1>7, <1>8 DEF IInv

\* Resume begins a new run with the attempts of the last.
LEMMA ResumeSteps ==
  ASSUME IInv, Resume
  PROVE  IInv'
<1>1. /\ main \in {"off", "crashed"} /\ main' = "start" /\ pause' = "none"
      /\ stage' \in {stage, "ready"} /\ stage' # "paused" /\ stage # "canceled"
      /\ UNCHANGED <<done, crashes, pc, num, loc, task, lock, claim>>
  BY DEF Resume, own, held
<1>2. \A t \in Tasks : pc[t] = "idle"
  BY <1>1 DEF IInv, LoopInv
<1>3. att' \in [Tasks -> Seq(Attempt)] /\ \A t \in Tasks : Echoes(t)
  <2>1. ASSUME NEW t \in Tasks
        PROVE  att'[t] \in Seq(Attempt) /\ Echoes(t)
    <3> DEFINE F(i) == IF att[t][i].why = "asked" /\ pause = "product"
                       THEN [att[t][i] EXCEPT !.why = "answered"]
                       ELSE att[t][i]
    <3>1. att[t] \in Seq(Attempt) /\ Len(att[t]) \in Nat
      BY Numbers DEF IInv
    <3>2. att'[t] = [i \in 1..Len(att[t]) |-> F(i)]
      BY DEF Resume
    <3>3. ASSUME NEW i \in 1..Len(att[t]) PROVE Echo(att[t][i], F(i))
      <4>1. att[t][i] \in Attempt
        BY <3>1
      <4> QED BY <4>1, EchoOf
    <3> HIDE DEF F
    <3>4. \A i \in 1..Len(att[t]) : F(i) \in Attempt
      BY <3>3 DEF Echo
    <3>5. att'[t] \in Seq(Attempt) /\ Len(att'[t]) = Len(att[t])
      BY <3>1, <3>2, <3>4
    <3> QED BY <3>2, <3>3, <3>5 DEF Echoes
  <2>2. att' = [t \in Tasks |-> att'[t]]
    BY DEF Resume
  <2> QED BY <2>1, <2>2
<1>4. TypeOK'
  BY <1>1, <1>3 DEF IInv, TypeOK, Reason
<1>5. LoopInv' /\ SharedInv'
  BY <1>1, <1>2 DEF IInv, LoopInv, SharedInv, NoHalfState, Serial, TypeOK
<1>6. \A t \in Tasks : TaskInv(t)'
  BY <1>1, <1>2, <1>3, Rests DEF IInv
<1> QED
  BY <1>4, <1>5, <1>6 DEF IInv

\* A run starts with what reconciliation makes of the last.
LEMMA StartSteps ==
  ASSUME IInv, StartRun
  PROVE  IInv'
<1>1. /\ main = "start" /\ UNCHANGED <<crashes, pc, num, loc, pause, task, claim>>
      /\ \/ main' = "off" /\ stage = "canceled"
            /\ UNCHANGED <<done, stage, att, lock>>
         \/ main' = "loop" /\ done' = {} /\ stage # "canceled"
            /\ stage' = "running" /\ lock' \subseteq lock
  BY DEF StartRun, own
<1>2. /\ \A t \in Tasks : pc[t] = "idle"
      /\ pause = "none"
  BY <1>1 DEF IInv, LoopInv
<1>3. att' \in [Tasks -> Seq(Attempt)] /\ \A t \in Tasks : Echoes(t)
  <2>1. CASE UNCHANGED att
    <3>1. att' = att /\ att \in [Tasks -> Seq(Attempt)]
      BY <2>1 DEF IInv, TypeOK
    <3>2. ASSUME NEW t \in Tasks PROVE Echoes(t)
      <4>1. \A i \in 1..Len(att[t]) : att[t][i] \in Attempt
        BY <3>1
      <4> QED BY <3>1, <4>1, EchoOf DEF Echoes
    <3> QED BY <3>1, <3>2
  <2>2. CASE \E stale \in BOOLEAN :
               att' = [t \in Tasks |-> [i \in 1..Len(att[t]) |->
                                          Reconciled(att[t][i], stale)]]
    <3>1. PICK stale \in BOOLEAN :
            att' = [t \in Tasks |-> [i \in 1..Len(att[t]) |->
                                       Reconciled(att[t][i], stale)]]
      BY <2>2
    <3>2. ASSUME NEW t \in Tasks
          PROVE  att'[t] \in Seq(Attempt) /\ Echoes(t)
      <4> DEFINE F(i) == Reconciled(att[t][i], stale)
      <4>1. att[t] \in Seq(Attempt) /\ Len(att[t]) \in Nat
        BY Numbers DEF IInv
      <4>2. att'[t] = [i \in 1..Len(att[t]) |-> F(i)]
        BY <3>1
      <4>3. ASSUME NEW i \in 1..Len(att[t]) PROVE Echo(att[t][i], F(i))
        <5>1. att[t][i] \in Attempt
          BY <4>1
        <5> QED BY <5>1, EchoOf DEF Reconciled
      <4> HIDE DEF F
      <4>4. \A i \in 1..Len(att[t]) : F(i) \in Attempt
        BY <4>3 DEF Echo
      <4>5. att'[t] \in Seq(Attempt) /\ Len(att'[t]) = Len(att[t])
        BY <4>1, <4>2, <4>4
      <4> QED BY <4>2, <4>3, <4>5 DEF Echoes
    <3>3. att' = [t \in Tasks |-> att'[t]]
      BY <3>1
    <3> QED BY <3>2, <3>3
  <2> QED BY <2>1, <2>2 DEF StartRun
<1>4. TypeOK'
  BY <1>1, <1>3 DEF IInv, TypeOK
<1>5. LoopInv' /\ SharedInv'
  BY <1>1, <1>2 DEF IInv, LoopInv, SharedInv, NoHalfState, Serial, TypeOK
<1>6. \A t \in Tasks : TaskInv(t)'
  BY <1>1, <1>2, <1>3, Rests DEF IInv
<1> QED
  BY <1>4, <1>5, <1>6 DEF IInv

\* A crash leaves no coroutine. It may leave tasks that begin again although
\* their attempt was in work, which the bound on their attempts makes room for.
LEMMA CrashSteps ==
  ASSUME IInv, Crash
  PROVE  IInv'
<1>1. /\ main' = "crashed" /\ done' = {} /\ crashes' = crashes + 1
      /\ stage # "canceled" /\ crashes \in Nat /\ crashes' \in 0..MaxCrashes
      /\ pc' = [t \in Tasks |-> "idle"] /\ num' = [t \in Tasks |-> 0]
      /\ loc' = [t \in Tasks |-> NoLoc]
      /\ UNCHANGED <<stage, pause, task, lock, claim>>
  BY PoolAssumption DEF Crash, held, IInv, TypeOK
<1>2. att' \in [Tasks -> Seq(Attempt)]
      /\ \A t \in Tasks : /\ Echoes(t)
                          /\ att[t] # <<>> =>
                               /\ Latest(t)'.status = Latest(t).status
                               /\ Latest(t)'.files = Latest(t).files
                               /\ Latest(t)'.review = Latest(t).review
  <2>1. PICK dead \in SUBSET {t \in Tasks : pc[t] = "work"} :
          att' = [t \in Tasks |->
                    IF t \in dead THEN [att[t] EXCEPT ![num[t]].child = "gone"]
                    ELSE att[t]]
    BY DEF Crash
  <2>2. ASSUME NEW t \in Tasks
        PROVE  /\ att'[t] \in Seq(Attempt) /\ Echoes(t)
               /\ att[t] # <<>> =>
                    /\ Latest(t)'.status = Latest(t).status
                    /\ Latest(t)'.files = Latest(t).files
                    /\ Latest(t)'.review = Latest(t).review
    <3>1. att[t] \in Seq(Attempt) /\ Len(att[t]) \in Nat
      BY Numbers DEF IInv
    <3>2. CASE t \notin dead
      <4>1. att'[t] = att[t]
        BY <2>1, <3>2
      <4>2. \A i \in 1..Len(att[t]) : att[t][i] \in Attempt
        BY <3>1
      <4> QED BY <3>1, <4>1, <4>2, EchoOf DEF Echoes, Latest
    <3>3. CASE t \in dead
      <4> DEFINE n == Len(att[t])
                 a == [att[t][n] EXCEPT !.child = "gone"]
      <4>1. att[t] # <<>> /\ num[t] = n /\ att[t][n] \in Attempt /\ n \in 1..n
        BY <3>1, <3>3 DEF IInv, TaskInv, Placed, Inside
      <4>2. att'[t] = [att[t] EXCEPT ![n] = a]
        BY <2>1, <3>3, <4>1
      <4>3. /\ Echo(att[t][n], a) /\ a \in Attempt
            /\ a.status = att[t][n].status /\ a.files = att[t][n].files
            /\ a.review = att[t][n].review
        BY <4>1, EchoOf, Fields
      <4> HIDE DEF a
      <4>4. /\ att'[t] \in Seq(Attempt) /\ Len(att'[t]) = n /\ att'[t][n] = a
            /\ \A i \in 1..n : i # n => att'[t][i] = att[t][i]
        BY <3>1, <4>1, <4>2, <4>3
      <4>5. \A i \in 1..n : att[t][i] \in Attempt
        BY <3>1
      <4>6. Echoes(t)
        BY <4>3, <4>4, <4>5, EchoOf DEF Echoes
      <4>7. Latest(t)' = a /\ Latest(t) = att[t][n]
        BY <3>1, <4>1, <4>4 DEF Latest
      <4> QED BY <4>3, <4>4, <4>6, <4>7
    <3> QED BY <3>2, <3>3
  <2>3. att' = [t \in Tasks |-> att'[t]]
    BY <2>1
  <2> QED BY <2>2, <2>3
<1>3. TypeOK'
  <2>1. NoLoc \in Loc
    BY Names DEF NoLoc, Loc, Reason, Step
  <2> QED BY <1>1, <1>2, <2>1 DEF IInv, TypeOK, Step
<1>4. LoopInv' /\ SharedInv'
  BY <1>1 DEF IInv, LoopInv, SharedInv, NoHalfState, Serial
<1>5. ASSUME NEW t \in Tasks PROVE TaskInv(t)'
  <2>1. TaskInv(t) /\ TypeOK /\ pc'[t] = "idle" /\ Echoes(t)
    BY <1>1, <1>2 DEF IInv
  <2>2. /\ att'[t] # <<>> <=> att[t] # <<>>
        /\ Len(att'[t]) = Len(att[t])
        /\ Before(t)' = Before(t) /\ Counted(t)' = Counted(t)
    BY <2>1, Echoed
  <2>3. Limit' >= Limit /\ (crashes >= 1 => Limit' = Limit + 1)
        /\ Limit \in Nat /\ Limit' \in Nat
    BY <1>1, PoolAssumption DEF Limit, Repeats
  <2>4. Placed(t)' /\ Expected(t)' /\ Locked(t)'
    BY <1>1, <2>1, Names DEF Placed, Expected, Going, Inside, Locked
  <2>5. Claimed(t)' /\ Reviewed(t)'
    BY <1>1, <1>2, <2>1, <2>2 DEF TaskInv, Claimed, Reviewed, LatestIs
  <2>6. Budgeted(t)'
    <3>1. Cardinality(Before(t)) <= Limit /\ Cardinality(Before(t)) \in Nat
          /\ Cardinality(Counted(t)) \in Nat
          /\ Cardinality(Counted(t)) <= Cardinality(Before(t)) + 1
      BY <2>1, Numbers DEF TaskInv, Budgeted
    <3>2. Cardinality(Before(t)') <= Limit'
      BY <2>2, <2>3, <3>1
    <3>3. LatestIs(t, InWork)' => Spent(t)' \/ (crashes' <= 1
                                                /\ task'[t] \notin Restart)
      <4>1. CASE crashes = 0
        BY <1>1, <1>2, <2>1, <2>2, <4>1 DEF TaskInv, Budgeted, LatestIs
      <4>2. CASE crashes >= 1
        BY <2>2, <2>3, <3>1, <4>2 DEF Spent
      <4> QED BY <1>1, <4>1, <4>2
    <3> QED BY <1>1, <2>1, <3>2, <3>3 DEF Budgeted
  <2> QED BY <2>4, <2>5, <2>6 DEF TaskInv
<1> QED
  BY <1>3, <1>4, <1>5 DEF IInv

\* A cancel ends the workers and leaves everything else to the coroutines.
LEMMA CancelSteps ==
  ASSUME IInv, Cancel
  PROVE  IInv'
<1>1. /\ main \notin {"off", "crashed", "failed", "integrate"}
      /\ stage # "canceled" /\ stage' = "canceled"
      /\ UNCHANGED <<main, done, crashes, pc, num, loc, pause, task, lock,
                     claim>>
  BY DEF Cancel, loop, own, held
<1>2. ASSUME NEW t \in Tasks
      PROVE  /\ att'[t] \in Seq(Attempt) /\ Echoes(t)
             /\ att[t] # <<>> =>
                  \/ Latest(t)' = Latest(t)
                  \/ /\ Latest(t).status = "running"
                     /\ Latest(t)'.status \in {"interrupted", "canceled"}
  <2> DEFINE F(i) == Canceled(att[t][i])
  <2>1. att[t] \in Seq(Attempt) /\ Len(att[t]) \in Nat
    BY Numbers DEF IInv
  <2>2. att'[t] = [i \in 1..Len(att[t]) |-> F(i)]
    BY DEF Cancel
  <2>3. ASSUME NEW i \in 1..Len(att[t])
        PROVE  /\ Echo(att[t][i], F(i))
               /\ \/ F(i) = att[t][i]
                  \/ /\ att[t][i].status = "running"
                     /\ F(i).status \in {"interrupted", "canceled"}
    <3>1. att[t][i] \in Attempt
      BY <2>1
    <3>2. CASE att[t][i].status # "running"
      BY <3>1, <3>2, EchoOf DEF Canceled
    <3>3. CASE att[t][i].status = "running"
      <4> DEFINE g == [att[t][i] EXCEPT !.child = "gone"]
      <4>1. F(i) \in {Became(g, "canceled"), Became(att[t][i], "interrupted")}
        BY <3>3 DEF Canceled
      <4>2. g \in Attempt /\ g.status = "running"
        BY <3>1, <3>3, Fields
      <4>3. /\ Became(g, "canceled").status = "canceled"
            /\ Became(att[t][i], "interrupted").status = "interrupted"
        <5> HIDE DEF g
        <5> QED BY <3>1, <3>3, <4>2, Becoming, Names DEF Terminal
      <4> QED BY <3>1, <3>3, <4>1, <4>3, EchoOf
    <3> QED BY <3>2, <3>3
  <2> HIDE DEF F
  <2>4. \A i \in 1..Len(att[t]) : F(i) \in Attempt
    BY <2>3 DEF Echo
  <2>5. att'[t] \in Seq(Attempt) /\ Len(att'[t]) = Len(att[t])
    BY <2>1, <2>2, <2>4
  <2>6. Echoes(t)
    BY <2>2, <2>3, <2>5 DEF Echoes
  <2>7. att[t] # <<>> => Latest(t)' = F(Len(att[t]))
                         /\ Len(att[t]) \in 1..Len(att[t])
    BY SMTT(20), <2>1, <2>2, <2>5 DEF Latest
  <2> QED BY <2>3, <2>5, <2>6, <2>7 DEF Latest
<1>3. TypeOK'
  <2>1. att' = [t \in Tasks |-> att'[t]]
    BY DEF Cancel
  <2>2. att' \in [Tasks -> Seq(Attempt)]
    BY <1>2, <2>1
  <2> QED BY <1>1, <2>2 DEF IInv, TypeOK
<1>4. LoopInv' /\ SharedInv'
  BY <1>1 DEF IInv, LoopInv, SharedInv, NoHalfState, Serial
<1>5. \A t \in Tasks : TaskInv(t)'
  BY <1>1, <1>2, Interrupts DEF IInv
<1> QED
  BY <1>3, <1>4, <1>5 DEF IInv

\* A worker ends after its coroutine has gone.
LEMMA ExitSteps ==
  ASSUME IInv, NEW u \in Tasks, WorkerExits(u)
  PROVE  IInv'
<1>1. PICK i \in 1..Len(att[u]) : att' = [att EXCEPT ![u][i].child = "gone"]
  BY DEF WorkerExits
<1>2. UNCHANGED <<main, done, crashes, pc, num, loc, stage, pause, task, lock,
                  claim>>
  BY DEF WorkerExits, loop, own, held
<1> DEFINE a == [att[u][i] EXCEPT !.child = "gone"]
           s == [att[u] EXCEPT ![i] = a]
<1>3. att[u] \in Seq(Attempt) /\ Len(att[u]) \in Nat /\ att[u][i] \in Attempt
  BY Numbers DEF IInv
<1>4. /\ Echo(att[u][i], a) /\ a \in Attempt
      /\ a.status = att[u][i].status /\ a.files = att[u][i].files
      /\ a.review = att[u][i].review
  BY <1>3, EchoOf, Fields
<1>5. att' = [att EXCEPT ![u] = s]
  BY <1>1, Zenon
<1> HIDE DEF a
<1>6. /\ s \in Seq(Attempt) /\ Len(s) = Len(att[u]) /\ s[i] = a
      /\ \A j \in 1..Len(att[u]) : j # i => s[j] = att[u][j]
  BY <1>3, <1>4
<1> HIDE DEF s
<1>7. att' \in [Tasks -> Seq(Attempt)]
  BY <1>5, <1>6 DEF IInv, TypeOK
<1>8. ASSUME NEW t \in Tasks
      PROVE  /\ Echoes(t)
             /\ att[t] # <<>> =>
                  /\ Latest(t)'.status = Latest(t).status
                  /\ Latest(t)'.files = Latest(t).files
                  /\ Latest(t)'.review = Latest(t).review
  <2>1. att[t] \in Seq(Attempt) /\ Len(att[t]) \in Nat
        /\ \A j \in 1..Len(att[t]) : att[t][j] \in Attempt
    BY Numbers DEF IInv
  <2>2. CASE t # u
    <3>1. att'[t] = att[t]
      BY <1>5, <2>2 DEF IInv, TypeOK
    <3> QED BY <2>1, <3>1, EchoOf DEF Echoes, Latest
  <2>3. CASE t = u
    <3>1. att'[t] = s
      BY <1>5, <2>3 DEF IInv, TypeOK
    <3>2. Echoes(t)
      BY <1>4, <1>6, <2>1, <2>3, <3>1, EchoOf DEF Echoes
    <3>3. ASSUME att[t] # <<>>
          PROVE  /\ Latest(t)'.status = Latest(t).status
                 /\ Latest(t)'.files = Latest(t).files
                 /\ Latest(t)'.review = Latest(t).review
      <4>1. Len(att[t]) \in 1..Len(att[t]) /\ s # <<>>
        BY <1>6, <2>1, <2>3, <3>3
      <4>2. Latest(t)' = s[Len(att[t])] /\ Latest(t) = att[t][Len(att[t])]
        BY <1>6, <2>3, <3>1, <3>3, <4>1 DEF Latest
      <4> QED BY <1>4, <1>6, <2>3, <4>1, <4>2
    <3> QED BY <3>2, <3>3
  <2> QED BY <2>2, <2>3
<1>9. TypeOK' /\ LoopInv' /\ SharedInv'
  BY <1>2, <1>7 DEF IInv, TypeOK, LoopInv, SharedInv, NoHalfState, Serial
<1>10. \A t \in Tasks : TaskInv(t)'
  BY <1>2, <1>8, Interrupts DEF IInv
<1> QED
  BY <1>9, <1>10 DEF IInv

-----------------------------------------------------------------------------
(* The theorems. *)

\* A stage that has not begun has no attempt, no lock and no claim.
LEMMA InitInvariant == Init => IInv
<1> SUFFICES ASSUME Init PROVE IInv
  OBVIOUS
<1>1. NoLoc \in Loc
  BY Names DEF NoLoc, Loc, Reason, Step
<1>2. TypeOK
  <2>1. <<>> \in Seq(Attempt) /\ "pending" \in DOMAIN TaskNext
    BY Names
  <2> QED BY <1>1, <2>1, PoolAssumption DEF Init, TypeOK, Step, Reason
<1>3. LoopInv /\ SharedInv
  BY DEF Init, LoopInv, NoHalfState, SharedInv
<1>4. ASSUME NEW t \in Tasks PROVE TaskInv(t)
  <2>1. att[t] = <<>> /\ pc[t] = "idle" /\ t \notin lock /\ Len(att[t]) = 0
    BY DEF Init
  <2>2. Before(t) = {} /\ Limit \in Nat
    BY <1>2, <2>1, Limits DEF Before
  <2>3. Cardinality(Before(t)) <= Limit
    BY <2>2, FS_EmptySet
  <2> QED
    BY <2>1, <2>3, Names
    DEF TaskInv, Placed, Expected, Going, Locked, Claimed, Reviewed, Budgeted,
        LatestIs, Inside, Accepted, Ended, Kept
<1> QED
  BY <1>2, <1>3, <1>4 DEF IInv

\* Every step keeps the invariant, and so does a step that changes nothing.
LEMMA NextInvariant == IInv /\ [Next]_vars => IInv'
<1> SUFFICES ASSUME IInv, [Next]_vars PROVE IInv'
  OBVIOUS
<1>1. ASSUME NEW t \in Tasks, TaskStep(t) PROVE IInv'
  <2>1. Acts(t) /\ TaskInv(t)'
    BY <1>1, TaskSteps DEF IInv
  <2>2. TypeOK' /\ \A u \in Tasks : TaskInv(u)'
    BY <2>1, Acted DEF IInv
  <2> QED BY <1>1, <2>1, <2>2, LoopOfTaskSteps, SharedOfTaskSteps DEF IInv
<1>2. ASSUME NEW t \in Tasks, WorkerExits(t) PROVE IInv'
  BY <1>2, ExitSteps
<1>3. CASE CountDone \/ Deadlock \/ Finish \/ LoopPauses \/ Drained
  BY <1>3, LoopSteps
<1>4. CASE Resume \/ StartRun \/ Crash \/ Cancel
  BY <1>4, ResumeSteps, StartSteps, CrashSteps, CancelSteps
<1>5. ASSUME UNCHANGED vars PROVE IInv'
  <2>1. UNCHANGED <<main, done, pc, num, loc, stage, pause, task, att, lock,
                    claim, crashes>>
    BY <1>5 DEF vars
  <2>2. TypeOK' /\ LoopInv' /\ SharedInv'
    BY <2>1 DEF IInv, TypeOK, LoopInv, SharedInv, NoHalfState, Serial
  <2> QED BY <2>1, <2>2, Untouched DEF IInv
<1> QED
  BY <1>1, <1>2, <1>3, <1>4, <1>5 DEF Next

\* The invariant of the pool holds in every state, whatever the tasks, their
\* dependencies and clashes, the slots, and the numbers of attempts and crashes.
THEOREM Invariant == Spec => []IInv
<1>1. Init => IInv
  BY InitInvariant
<1>2. IInv /\ [Next]_vars => IInv'
  BY NextInvariant
<1> QED
  BY <1>1, <1>2, PTL DEF Spec

\* Every variable has its type.
THEOREM TypeCorrect == Spec => []TypeOK
<1>1. IInv => TypeOK
  BY DEF IInv
<1> QED
  BY <1>1, Invariant, PTL

\* Tasks whose paths overlap never work at the same time: a worker has the
\* locks of its task from its dispatch to its end.
THEOREM OneWriter == Spec => []WritersExclusive
<1>1. IInv => WritersExclusive
  BY DEF IInv, TaskInv, Locked, SharedInv, WritersExclusive
<1> QED
  BY <1>1, Invariant, PTL

\* Accepted attempts of independent tasks have changed different paths, because
\* what an attempt has changed was claimed before it could be accepted.
THEOREM DisjointWork == Spec => []AcceptedDisjoint
<1>1. IInv => AcceptedDisjoint
  <2> SUFFICES ASSUME IInv, NEW t \in Tasks, NEW u \in Tasks, t # u,
                      ~Serial(t, u), Accepted(t), Accepted(u)
               PROVE  Latest(t).files \cap Latest(u).files = {}
    BY DEF AcceptedDisjoint
  <2>1. Latest(t).files \subseteq claim[t] /\ Latest(u).files \subseteq claim[u]
    BY DEF IInv, TaskInv, Claimed, Accepted, LatestIs
  <2>2. claim[t] \cap claim[u] = {}
    BY DEF IInv, SharedInv
  <2> QED BY <2>1, <2>2
<1> QED
  BY <1>1, Invariant, PTL

\* An approved attempt has an approving review of its own, whatever crashes,
\* resumes and reconciliations it has come through.
THEOREM ReviewedWork == Spec => []AcceptedIsReviewed
<1>1. IInv => AcceptedIsReviewed
  BY DEF IInv, TaskInv, Reviewed, AcceptedIsReviewed
<1> QED
  BY <1>1, Invariant, PTL

\* A scheduler that ends without a crash leaves no lock behind but those of
\* attempts that wait for their review.
THEOREM NoLockLost == Spec => []LocksAccounted
<1>1. IInv => LocksAccounted
  BY DEF IInv, TypeOK, LoopInv, TaskInv, Locked, LocksAccounted
<1> QED
  BY <1>1, Invariant, PTL

\* The retry budget holds but for the attempts that crashes after the first may
\* repeat.
THEOREM RetriesEnd == Spec => []RetryBounded
<1>1. IInv => RetryBounded
  <2> SUFFICES ASSUME IInv, NEW t \in Tasks
               PROVE  Cardinality(Counted(t)) <= MaxRework + 1 + Repeats
    BY DEF RetryBounded
  <2>1. /\ Cardinality(Counted(t)) \in Nat /\ Cardinality(Before(t)) \in Nat
        /\ Cardinality(Counted(t)) <= Cardinality(Before(t)) + 1
    BY Numbers DEF IInv
  <2>2. Cardinality(Before(t)) <= MaxRework + Repeats
    BY DEF IInv, TaskInv, Budgeted, Limit
  <2>3. MaxRework \in Nat /\ Repeats \in Nat
    BY PoolAssumption DEF IInv, TypeOK, Repeats
  <2> QED BY <2>1, <2>2, <2>3
<1> QED
  BY <1>1, Invariant, PTL

\* Without a second crash the retry budget is what the policy says.
THEOREM BudgetKept ==
  ASSUME MaxCrashes <= 1
  PROVE  Spec => []AttemptsLimited
<1>1. TypeOK /\ RetryBounded => AttemptsLimited
  BY PoolAssumption DEF TypeOK, RetryBounded, AttemptsLimited, Repeats
<1> QED
  BY <1>1, TypeCorrect, RetriesEnd, PTL

\* A scheduler that ends by itself leaves a stage that is canceled, or paused
\* with a PauseRecord.
THEOREM EndsPaused == Spec => []NoHalfState
<1>1. IInv => NoHalfState
  BY DEF IInv, LoopInv
<1> QED
  BY <1>1, Invariant, PTL
=============================================================================
