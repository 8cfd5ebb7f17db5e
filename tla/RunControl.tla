----------------------------- MODULE RunControl -----------------------------
(***************************************************************************)
(* The commands that steer one run with governance on - submit, approve,   *)
(* resume, revoke, cancel - and the schedulers that approve and resume     *)
(* start.  Every command is a process of its own; they share the rows of   *)
(* runs, stages, approval_decisions, pause_records, path_locks and the     *)
(* token budget's events in SQLite, and between a command's reads and its  *)
(* writes any other process may take a step.                               *)
(*                                                                         *)
(* One stage; what a worker and a review do is one step here (TaskPool,    *)
(* StageIntegration), as are the two or three updates that start a stage.  *)
(* Left out: preflight findings (TaskPool, StageIntegration), the call     *)
(* quota (CostLedger), other runs of the project, clashing lock paths.     *)
(***************************************************************************)
EXTENDS Integers, Sequences, FiniteSets

CONSTANTS Tasks,
          Shells,       \* terminals in which commands are typed
          Loop,         \* the scheduler's own loop, beside the tasks
          MaxCommands,  \* bound: commands typed after submit
          MaxTroubles,  \* bound: workers that end with a question
          MaxRisks,     \* bound: findings of a plan that need an approval
          MaxCrashes    \* bound: processes killed

ASSUME ControlAssumption ==
         /\ IsFiniteSet(Tasks) /\ Tasks # {} /\ Loop \notin Tasks
         /\ Shells # {} /\ MaxCommands \in Nat /\ MaxTroubles \in Nat
         /\ MaxRisks \in Nat /\ MaxCrashes \in Nat

VARIABLES
  run,       \* runs.status
  stage,     \* stages.status
  planned,   \* whether the stage has the tasks of the plan
  decision,  \* approval_decisions, in the order of their creation
  pause,     \* the open pause_record
  budget,    \* token budget: used up, and stopped by its last event
  task,      \* what the tasks have come to
  lock,      \* tasks whose path locks are held
  blocked,   \* whether the accepted tasks are merge_blocked
  shell,     \* what runs in a terminal
  work,      \* coroutines of the scheduler in a terminal
  bounds     \* pauses, commands, troubles and crashes so far

store == <<run, stage, planned, decision, pause, budget, task, lock, blocked>>
vars  == <<store, shell, work, bounds>>

Actors == Tasks \cup {Loop}

\* A decision's type, and whether it opens the plan's, the dispatch's or the
\* merge's gate.
Gate == [plan |-> "G1", budget |-> "G2", scope |-> "G2", product |-> "G2",
         merge |-> "G3"]
Type == DOMAIN Gate \cup {"none"}

Decision == [type : DOMAIN Gate, about : Actors,
             status : {"pending", "approved", "revoked"}]
Pause    == [id : Nat, type : Type, on : Nat]
NoPause  == [id |-> 0, type |-> "none", on |-> 0]

Command == {"idle", "plan", "risks", "grant", "gate", "approved", "ready",
            "granting", "answered", "resolve", "resumed", "start", "loop",
            "pick", "await", "canceling"}
\* on: the decision a command approves, or how many workers a scheduler waits
\* for; saw: the pause resume has read; live: whether the run was running or
\* waiting when resume read it.
Shell   == [at : Command, on : Nat, saw : Pause, live : BOOLEAN]
Idle    == [at |-> "idle", on |-> 0, saw |-> NoPause, live |-> FALSE]
Moves(s, at) == shell' = [shell EXCEPT ![s].at = at]
Ends(s)      == shell' = [shell EXCEPT ![s] = Idle]

\* passed, over: not dispatched, or ended, in the round that is under way.
Work  == [at : {"idle", "passed", "over", "busy", "asking", "deciding",
                "recording"},
          type : Type, on : Nat]
NoWork == [at |-> "idle", type |-> "none", on |-> 0]
Free   == [c \in Actors |-> NoWork]
Out(s, at) == {t \in Tasks : work[s][t].at = at}
Active(s)  == {t \in Tasks : work[s][t].at \notin {"idle", "passed", "over"}}

-----------------------------------------------------------------------------
(* The rows. *)

RunNext == [planning         |-> {"running", "failed", "canceled"},
            running          |-> {"waiting_decision", "completed", "failed",
                                  "canceled"},
            waiting_decision |-> {"running", "failed", "canceled"},
            completed |-> {}, failed |-> {}, canceled |-> {}]
RunEnded == {"completed", "failed", "canceled"}

\* updateRunStatus: the same status is fine, a terminal one stays, and an
\* illegal transition throws.
RunMay(to)    == run \in RunEnded \cup {to} \/ to \in RunNext[run]
RunBecomes(to) == run' = IF run \in RunEnded THEN run ELSE to
\* failRunForConvergenceAtomically overrides all but a cancel.
RunFails == run' = IF run = "canceled" THEN run ELSE "failed"

Pausable == {"pending", "ready", "running", "integration"}

Is(d, status)  == decision[d].status = status
Pending(ds)    == {d \in ds : Is(d, "pending")}
All            == DOMAIN decision
OfGate(g)      == {d \in All : Gate[decision[d].type] = g}
About(c)       == {d \in All : decision[d].about = c}
First(ds)      == CHOOSE d \in ds : \A e \in ds : d <= e
Last(ds)       == CHOOSE d \in ds : \A e \in ds : d >= e
Create(type, about) ==
  decision' = Append(decision, [type |-> type, about |-> about,
                                status |-> "pending"])
Decide(d, status) == decision' = [decision EXCEPT ![d].status = status]

\* checkG1Approvable, checkG2Approvable, checkG3Approvable: a gate is open
\* unless a decision of it is pending.
PlanGateOpen   == Pending(OfGate("G1")) = {}
TaskGateOpen(t) == Pending(OfGate("G2") \cap About(t)) = {}
MergeGate      == Pending(OfGate("G3"))

\* isBudgetPaused, preCheckBudget: a stop event ends only with a raised limit.
BudgetPaused == budget.stopped
TokensLeft   == ~budget.used

Types(s) == /\ shell[s].at = "idle" /\ bounds.commands < MaxCommands
            /\ bounds' = [bounds EXCEPT !.commands = @ + 1]

-----------------------------------------------------------------------------
(* submit *)

Submit(s) ==
  /\ run = "none" /\ run' = "planning" /\ Moves(s, "plan")
  /\ UNCHANGED <<stage, planned, decision, pause, budget, task, lock, blocked,
                 work, bounds>>

\* Mutant: a plan that failed fails its stage.
PlanFailsStage(s) ==
  /\ shell[s].at = "plan" /\ Ends(s) /\ stage' = "failed"
  /\ UNCHANGED <<run, planned, decision, pause, budget, task, lock, blocked,
                 work, bounds>>

\* No reservation, no tokens, no plan or an invalid one: "Plan is NOT
\* approvable". The run stays in planning.
PlanFails(s) ==
  /\ shell[s].at = "plan" /\ Ends(s)
  /\ \E stop \in BOOLEAN : budget' = [budget EXCEPT !.stopped = @ \/ stop]
  /\ UNCHANGED <<run, stage, planned, decision, pause, task, lock, blocked,
                 work, bounds>>

\* persistPlanToStore; it throws if approve has made a default stage.
PlanWritten(s) ==
  /\ shell[s].at = "plan"
  /\ IF stage = "none"
     THEN stage' = "pending" /\ planned' = TRUE /\ Moves(s, "risks")
     ELSE Ends(s) /\ UNCHANGED <<stage, planned>>
  /\ UNCHANGED <<run, decision, pause, budget, task, lock, blocked, work,
                 bounds>>

\* createG1Approvals, one finding after the other.
Risk(s) ==
  /\ shell[s].at = "risks"
  /\ \/ /\ Cardinality(OfGate("G1")) < MaxRisks
        /\ Create("plan", Loop) /\ UNCHANGED shell
     \/ Ends(s) /\ UNCHANGED decision
  /\ UNCHANGED <<run, stage, planned, pause, budget, task, lock, blocked, work,
                 bounds>>

-----------------------------------------------------------------------------
(* approve *)

\* With --approve <d>, or without.
Approve(s) ==
  /\ run = "planning" /\ Types(s)
  /\ \/ \E d \in Pending(OfGate("G1")) :
          shell' = [shell EXCEPT ![s] = [Idle EXCEPT !.at = "grant", !.on = d]]
     \/ PlanGateOpen /\ Moves(s, "approved")
  /\ UNCHANGED <<store, work>>

\* The decision was pending when it was read; the update does not ask again.
Grant(s) ==
  /\ shell[s].at = "grant"
  /\ Decide(shell[s].on, "approved") /\ Moves(s, "gate")
  /\ UNCHANGED <<run, stage, planned, pause, budget, task, lock, blocked, work,
                 bounds>>

RecheckGate(s) ==
  /\ shell[s].at = "gate"
  /\ IF PlanGateOpen THEN Moves(s, "approved") ELSE Ends(s)
  /\ UNCHANGED <<store, work, bounds>>

StartApproved(s) ==
  /\ shell[s].at = "approved"
  /\ RunMay("running") /\ RunBecomes("running") /\ Moves(s, "ready")
  /\ UNCHANGED <<stage, planned, decision, pause, budget, task, lock, blocked,
                 work, bounds>>

\* A run without stages gets an empty one; a stage that cannot become ready
\* throws, and the command ends.
ReadyStage(s) ==
  /\ shell[s].at = "ready"
  /\ CASE stage \in {"none", "pending"} -> stage' = "ready" /\ Moves(s, "start")
       [] stage \in {"ready", "completed", "canceled"} ->
            UNCHANGED stage /\ Moves(s, "start")
       [] OTHER -> UNCHANGED stage /\ Ends(s)
  /\ UNCHANGED <<run, planned, decision, pause, budget, task, lock, blocked,
                 work, bounds>>

-----------------------------------------------------------------------------
(* revoke and cancel *)

\* Any decision that is not revoked yet.
Revoke(s) ==
  /\ Types(s)
  /\ \E d \in All : ~Is(d, "revoked") /\ Decide(d, "revoked")
  /\ UNCHANGED <<run, stage, planned, pause, budget, task, lock, blocked,
                 shell, work>>

\* The stage first; the run after the workers have been killed, which takes
\* seconds.
Cancel(s) ==
  /\ run \notin {"none", "completed", "canceled"} /\ Types(s)
  /\ stage' = IF stage \in {"none", "completed"} THEN stage ELSE "canceled"
  /\ Moves(s, "canceling")
  /\ UNCHANGED <<run, planned, decision, pause, budget, task, lock, blocked,
                 work>>

\* waiting_decision: a worker that could not be verified dead.
CancelRun(s) ==
  /\ shell[s].at = "canceling" /\ Ends(s)
  /\ \/ RunBecomes("canceled")
     \/ lock # {} /\ RunBecomes("waiting_decision")
  /\ UNCHANGED <<stage, planned, decision, pause, budget, task, lock, blocked,
                 work, bounds>>

-----------------------------------------------------------------------------
(* resume *)

\* The pause must be confirmed by its id; that of a product decision, by
\* approving that decision and no other.
Resume(s) ==
  /\ run # "none" /\ Types(s)
  /\ LET seen == IF stage = "paused" THEN pause ELSE NoPause IN
     /\ stage = "paused" => pause # NoPause
     /\ \E d \in Pending(All) \cup {0}, raise \in BOOLEAN :
          /\ seen.type = "product" => d = seen.on
          /\ shell' = [shell EXCEPT ![s] =
               [at   |-> CASE d # 0 -> "granting"
                           [] d = 0 /\ raise -> "answered"
                           [] OTHER -> "resolve",
                on   |-> d, saw |-> seen,
                live |-> run \in {"running", "waiting_decision"}]]
  /\ UNCHANGED <<store, work>>

GrantAny(s) ==
  /\ shell[s].at = "granting"
  /\ Decide(shell[s].on, "approved") /\ Moves(s, "answered")
  /\ UNCHANGED <<run, stage, planned, pause, budget, task, lock, blocked, work,
                 bounds>>

\* Every pending decision must be answered before the limit is raised: the one
\* that is used up, or another.
Answered(s) ==
  /\ shell[s].at = "answered"
  /\ IF Pending(All) # {}
     THEN Ends(s) /\ UNCHANGED budget
     ELSE /\ Moves(s, "resolve")
          /\ \/ shell[s].on # 0 /\ UNCHANGED budget
             \/ \E used \in {FALSE, budget.used} :
                  budget' = [used |-> used, stopped |-> FALSE]
  /\ UNCHANGED <<run, stage, planned, decision, pause, task, lock, blocked,
                 work, bounds>>

\* Mutant: the decision's status is not asked for.
ResolvableUnasked(p) ==
  /\ pause = p /\ stage = "paused"
  /\ p.type # "none" => p.on \in All /\ decision[p.on].type = p.type

\* resolveStagePause: one transaction over pause, decision and stage.
Resolvable(p) ==
  /\ pause = p /\ stage = "paused"
  /\ p.type # "none" => /\ p.on \in All /\ Is(p.on, "approved")
                        /\ decision[p.on].type = p.type

\* Mutant: the stage is made ready, its pause stays open.
ResolveStageOnly(s) ==
  /\ shell[s].at = "resolve" /\ shell[s].saw # NoPause
  /\ Pending(All) = {} /\ Resolvable(shell[s].saw)
  /\ stage' = "ready" /\ Moves(s, "resumed")
  /\ UNCHANGED <<run, planned, decision, pause, budget, task, lock, blocked,
                 work, bounds>>

\* Nothing may be pending by now; without a pause the run must have been live.
Resolve(s) ==
  /\ shell[s].at = "resolve"
  /\ LET p == shell[s].saw IN
     CASE p = NoPause ->
            /\ IF shell[s].live THEN Moves(s, "resumed") ELSE Ends(s)
            /\ UNCHANGED <<stage, pause>>
       [] p # NoPause /\ Pending(All) = {} /\ Resolvable(p) ->
            stage' = "ready" /\ pause' = NoPause /\ Moves(s, "resumed")
       [] OTHER -> Ends(s) /\ UNCHANGED <<stage, pause>>
  /\ UNCHANGED <<run, planned, decision, budget, task, lock, blocked, work,
                 bounds>>

Resumed(s) ==
  /\ shell[s].at = "resumed"
  /\ RunMay("running") /\ RunBecomes("running") /\ Moves(s, "start")
  /\ UNCHANGED <<stage, planned, decision, pause, budget, task, lock, blocked,
                 work, bounds>>

-----------------------------------------------------------------------------
(* A scheduler: startRun and the loop of the stage. *)

\* processRun once its stages are behind it; completing an illegal run throws.
RunDone ==
  IF stage \in {"completed", "canceled"}
  THEN IF RunMay("completed") THEN RunBecomes("completed") ELSE RunFails
  ELSE UNCHANGED run

\* A run that has ended or is stopped by its budget is left alone, silently.
StartRun(s) ==
  /\ shell[s].at = "start"
  /\ IF run \in RunEnded \/ BudgetPaused \/ stage = "paused"
     THEN Ends(s) /\ UNCHANGED <<run, stage>>
     ELSE /\ stage' = IF stage \in {"pending", "ready"} THEN "running"
                      ELSE stage
          /\ IF planned /\ stage \notin {"completed", "canceled"}
             THEN Moves(s, "loop") /\ UNCHANGED run
             ELSE Ends(s) /\ RunDone
  /\ UNCHANGED <<planned, decision, pause, budget, task, lock, blocked, work,
                 bounds>>

Stopped == stage \in {"paused", "canceled"} \/ run = "canceled"
Open(t) == task[t] # "accepted"

\* Mutant: only a paused stage ends the loop.
DrainedPaused(s) ==
  /\ shell[s].at = "loop" /\ stage = "paused" /\ Active(s) = {} /\ Ends(s)
  /\ UNCHANGED <<store, work, bounds>>

\* A paused or canceled stage: the workers that are out are awaited.
Drained(s) ==
  /\ shell[s].at = "loop" /\ Stopped /\ Active(s) = {} /\ Ends(s)
  /\ UNCHANGED <<store, work, bounds>>

\* The stage is read before a round of dispatches, not before each of them.
Look(s) ==
  /\ shell[s].at = "loop" /\ ~Stopped /\ Moves(s, "pick")
  /\ UNCHANGED <<store, work, bounds>>

Runnable(s, t) == shell[s].at = "pick" /\ work[s][t].at = "idle" /\ Open(t)

\* A kept result needs neither tokens nor a new lock.
Dispatch(s, t) ==
  /\ Runnable(s, t) /\ TaskGateOpen(t)
  /\ task[t] = "kept" \/ TokensLeft
  /\ lock' = lock \cup {t}
  /\ work' = [work EXCEPT ![s][t].at = "busy"]
  /\ UNCHANGED <<run, stage, planned, decision, pause, budget, task, blocked,
                 shell, bounds>>

\* A closed gate, or no tokens for the attempt: that is asked.
PassOver(s, t) ==
  /\ Runnable(s, t)
  /\ \/ ~TaskGateOpen(t) /\ UNCHANGED decision
     \/ /\ TaskGateOpen(t) /\ task[t] = "open" /\ ~TokensLeft
        /\ Create("budget", t)
  /\ work' = [work EXCEPT ![s][t].at = "passed"]
  /\ UNCHANGED <<run, stage, planned, pause, budget, task, lock, blocked, shell,
                 bounds>>

Asking(type, d) == [at |-> "asking", type |-> type, on |-> d]
Asks(s, c, type, d) == work' = [work EXCEPT ![s][c] = Asking(type, d)]

\* After a round: wait for the first worker to end; or, if a task was passed
\* over and none was dispatched, pause for the first decision of the run that
\* is pending by then.
RoundEnds(s) ==
  /\ shell[s].at = "pick" /\ work[s][Loop].at = "idle"
  /\ \A t \in Tasks : ~Runnable(s, t)
  /\ LET rest == [c \in Actors |-> IF c \in Out(s, "passed") \cup Out(s, "over")
                                   THEN NoWork ELSE work[s][c]]
         d    == Pending(All)
     IN \/ /\ Active(s) \cup Out(s, "over") # {}
           /\ work' = [work EXCEPT ![s] = rest]
           /\ IF Active(s) = {} THEN Moves(s, "loop")
              ELSE shell' = [shell EXCEPT ![s].at = "await",
                                          ![s].on = Cardinality(Active(s))]
        \/ /\ Active(s) \cup Out(s, "over") = {} /\ Out(s, "passed") # {}
           /\ work' = [work EXCEPT ![s][Loop] =
                          IF d = {} THEN Asking("product", 0)
                          ELSE Asking(decision[First(d)].type, First(d))]
           /\ UNCHANGED shell
  /\ UNCHANGED <<store, bounds>>

Settled(s) ==
  /\ shell[s].at = "await" /\ Cardinality(Active(s)) < shell[s].on
  /\ shell' = [shell EXCEPT ![s].at = "loop", ![s].on = 0]
  /\ UNCHANGED <<store, work, bounds>>

\* What becomes of a worker and its result; after a cancel it is dropped.
Leaves(s, t, kept) ==
  /\ work' = [work EXCEPT ![s][t] =
                IF shell[s].at = "pick" THEN [NoWork EXCEPT !.at = "over"]
                ELSE NoWork]
  /\ lock' = IF kept THEN lock ELSE lock \ {t}
WorkerEnds(s, t) ==
  /\ work[s][t].at = "busy"
  /\ \/ /\ Leaves(s, t, FALSE)
        /\ task' = IF Stopped /\ stage # "paused" THEN task
                   ELSE [task EXCEPT ![t] = "accepted"]
        /\ UNCHANGED <<budget, decision, bounds>>
     \/ /\ ~(Stopped /\ stage # "paused") /\ bounds.troubles < MaxTroubles
        /\ bounds' = [bounds EXCEPT !.troubles = @ + 1]
        /\ \/ \* Tokens are exceeded: the result is kept for the resume.
              /\ budget' = [used |-> TRUE, stopped |-> TRUE]
              /\ task' = [task EXCEPT ![t] = "kept"]
              /\ Asks(s, t, "budget", 0) /\ UNCHANGED decision
           \/ \* A product decision, which may have exceeded them, too.
              /\ \E ex \in BOOLEAN :
                   budget' = [used |-> budget.used \/ ex,
                              stopped |-> budget.stopped \/ ex]
              /\ Asks(s, t, "product", 0) /\ UNCHANGED <<decision, task>>
           \/ \* More paths than estimated.
              /\ Create("scope", t) /\ Asks(s, t, "scope", Len(decision) + 1)
              /\ UNCHANGED <<budget, task>>
           \/ \* Anything else that a person has to look at.
              Asks(s, t, "none", 0) /\ UNCHANGED <<budget, decision, task>>
        /\ UNCHANGED lock
  /\ UNCHANGED <<run, stage, planned, pause, blocked, shell>>

\* integrate: pending decisions, a large diff, then the merge. After a pause
\* the accepted tasks are merge_blocked and only a target that already holds
\* the reviewed tree lets the stage end (StageIntegration).
UnansweredTasks == Pending(OfGate("G2") \cap UNION {About(t) : t \in Tasks})
Integrate(s) ==
  /\ shell[s].at = "pick" /\ \A t \in Tasks : work[s][t].at = "idle" /\ ~Open(t)
  /\ work[s][Loop].at = "idle"
  /\ LET asked == IF UnansweredTasks # {} THEN UnansweredTasks ELSE MergeGate
     IN \/ /\ blocked /\ Asks(s, Loop, "none", 0)
           /\ UNCHANGED <<run, stage, decision, blocked, shell>>
        \/ /\ ~blocked /\ asked # {}
           /\ Asks(s, Loop, decision[First(asked)].type, First(asked))
           /\ blocked' = TRUE /\ UNCHANGED <<run, stage, decision, shell>>
        \/ /\ ~blocked /\ asked = {}
           /\ Create("merge", Loop) /\ Asks(s, Loop, "merge", Len(decision) + 1)
           /\ blocked' = TRUE /\ UNCHANGED <<run, stage, shell>>
        \/ /\ ~blocked /\ asked = {} /\ ~Stopped
           /\ stage' = "completed" /\ RunMay("completed")
           /\ RunBecomes("completed") /\ Ends(s)
           /\ UNCHANGED <<decision, blocked, work>>
  /\ UNCHANGED <<planned, pause, budget, task, lock, bounds>>

-----------------------------------------------------------------------------
(* recordStagePause, in the coroutine of a task or in the loop. *)

Kept(t) == t \in Tasks /\ task[t] = "kept"
Gone(s, c) == IF c = Loop
              THEN /\ work' = [work EXCEPT ![s] = Free]
                   /\ Ends(s) /\ UNCHANGED lock
              ELSE Leaves(s, c, Kept(c)) /\ UNCHANGED shell

\* Mutant: any pending decision is taken up, whatever its type.
LinkAny(s, c) ==
  LET w == work[s][c]
      fit == {d \in Pending(All) : decision[d].about \in {Loop, c}}
  IN CASE w.type = "none" \/ w.on # 0 -> w.on
       [] w.type # "none" /\ w.on = 0 /\ fit # {} -> Last(fit)
       [] OTHER -> 0

\* A decision that is still pending is taken up.
Link(s, c) ==
  LET w == work[s][c]
      fit == {d \in Pending(All) : /\ decision[d].type = w.type
                                   /\ decision[d].about \in {Loop, c}}
  IN CASE w.type = "none" \/ w.on # 0 -> w.on
       [] w.type # "none" /\ w.on = 0 /\ fit # {} -> Last(fit)
       [] OTHER -> 0

\* The pause of another coroutine answers for this one; a decision that is
\* missing is created before the pause is recorded.
AskPause(s, c) ==
  /\ work[s][c].at = "asking"
  /\ IF pause # NoPause THEN Gone(s, c)
     ELSE /\ work' = [work EXCEPT
                ![s][c].at = IF work[s][c].type # "none" /\ Link(s, c) = 0
                             THEN "deciding" ELSE "recording",
                ![s][c].on = Link(s, c)]
          /\ UNCHANGED <<lock, shell>>
  /\ UNCHANGED <<run, stage, planned, decision, pause, budget, task, blocked,
                 bounds>>

CreateDecision(s, c) ==
  /\ work[s][c].at = "deciding"
  /\ Create(work[s][c].type, Loop)
  /\ work' = [work EXCEPT ![s][c].at = "recording", ![s][c].on = Len(decision')]
  /\ UNCHANGED <<run, stage, planned, pause, budget, task, lock, blocked, shell,
                 bounds>>

\* createStagePause throws beside an open pause and on a stage that cannot be
\* paused; in the loop that fails the run.
RecordPause(s, c) ==
  /\ work[s][c].at = "recording"
  /\ IF pause = NoPause /\ stage \in Pausable
     THEN /\ stage' = "paused"
          /\ pause' = [id   |-> bounds.pauses + 1, type |-> work[s][c].type,
                       on   |-> work[s][c].on]
          /\ bounds' = [bounds EXCEPT !.pauses = @ + 1]
          /\ UNCHANGED run
     ELSE /\ IF c = Loop THEN RunFails ELSE UNCHANGED run
          /\ UNCHANGED <<stage, pause, bounds>>
  /\ Gone(s, c)
  /\ UNCHANGED <<planned, decision, budget, task, blocked>>

\* The process in a terminal is killed; its locks stay.
Crash(s) ==
  /\ shell[s].at # "idle" /\ bounds.crashes < MaxCrashes
  /\ bounds' = [bounds EXCEPT !.crashes = @ + 1]
  /\ Ends(s) /\ work' = [work EXCEPT ![s] = Free]
  /\ UNCHANGED store

-----------------------------------------------------------------------------
Init ==
  /\ run = "none" /\ stage = "none" /\ planned = FALSE /\ decision = <<>>
  /\ pause = NoPause /\ budget = [used |-> FALSE, stopped |-> FALSE]
  /\ task = [t \in Tasks |-> "open"] /\ lock = {} /\ blocked = FALSE
  /\ shell = [s \in Shells |-> Idle] /\ work = [s \in Shells |-> Free]
  /\ bounds = [pauses |-> 0, commands |-> 0, troubles |-> 0,
               crashes |-> 0]

CommandStep(s) ==
  \/ PlanFails(s) \/ PlanWritten(s) \/ Risk(s)
  \/ Grant(s) \/ RecheckGate(s) \/ StartApproved(s) \/ ReadyStage(s)
  \/ CancelRun(s)
  \/ GrantAny(s) \/ Answered(s) \/ Resolve(s) \/ Resumed(s)
SchedulerStep(s) ==
  \/ StartRun(s) \/ Drained(s) \/ Look(s) \/ RoundEnds(s) \/ Settled(s)
  \/ Integrate(s) \/ \E t \in Tasks : Dispatch(s, t) \/ PassOver(s, t)
Coroutine(s, c) ==
  \/ c \in Tasks /\ WorkerEnds(s, c)
  \/ AskPause(s, c) \/ CreateDecision(s, c) \/ RecordPause(s, c)

Next == \E s \in Shells :
          \/ Submit(s) \/ Approve(s) \/ Revoke(s) \/ Cancel(s) \/ Resume(s)
          \/ CommandStep(s) \/ SchedulerStep(s) \/ Crash(s)
          \/ \E c \in Actors : Coroutine(s, c)

\* A process runs on, its workers end (a worker has a timeout), and so does the
\* list of a plan's findings; what is typed or killed is nobody's duty.
Fairness == \A s \in Shells :
              /\ WF_vars(CommandStep(s)) /\ WF_vars(SchedulerStep(s))
              /\ \A c \in Actors : WF_vars(Coroutine(s, c))

Spec     == Init /\ [][Next]_vars
FairSpec == Spec /\ Fairness

-----------------------------------------------------------------------------
(* Properties. *)

\* Every variable has its type.
TypeOK ==
  /\ run \in DOMAIN RunNext \cup {"none"}
  /\ stage \in Pausable \cup {"none", "paused", "completed", "canceled"}
  /\ planned \in BOOLEAN /\ blocked \in BOOLEAN
  /\ decision \in Seq(Decision) /\ pause \in Pause
  /\ budget \in [used : BOOLEAN, stopped : BOOLEAN]
  /\ task \in [Tasks -> {"open", "kept", "accepted"}] /\ lock \subseteq Tasks
  /\ shell \in [Shells -> Shell] /\ work \in [Shells -> [Actors -> Work]]
  /\ bounds \in [pauses : Nat, commands : 0..MaxCommands,
                 troubles : 0..MaxTroubles, crashes : 0..MaxCrashes]

\* A paused stage has its PauseRecord, and an open PauseRecord its paused
\* stage, unless the stage has been canceled: shells, coroutines and crashes
\* never part the two.
PausedHasRecord ==
  /\ stage = "paused" => pause # NoPause
  /\ pause # NoPause => stage \in {"paused", "canceled"}

\* The decision an open protected pause waits for exists and is of the type
\* that resolving the pause will ask for.
PauseAnswerable ==
  pause.type # "none" =>
    pause.on \in All /\ decision[pause.on].type = pause.type

\* Whatever the shells do, a protected pause closes only while its decision is
\* granted, and at most one is open.
Consent == INSTANCE PauseConsent WITH
             Decisions <- Nat \ {0}, NoDecision <- 0,
             open    <- pause.id,
             hangsOn <- pause.on,
             granted <- {d \in All : Is(d, "approved")},
             opened  <- bounds.pauses
ImplementsConsent == Consent!CSpec

\* Every command ends, a scheduler's as well: it completes the stage, pauses
\* it, or finds it paused or canceled.
CommandsEnd == \A s \in Shells : shell[s].at # "idle" ~> shell[s].at = "idle"

-----------------------------------------------------------------------------
(* What the documentation says and the code does not do. *)

\* A plan whose approval has been revoked is not started.
RevokedPlanNotStarted ==
  [][run = "planning" /\ run' = "running" =>
       \A d \in OfGate("G1") : ~Is(d, "revoked")]_vars

\* A task that a worker writes for holds its path locks.
LockedWhileWorking ==
  \A s \in Shells, t \in Tasks : work[s][t].at = "busy" => t \in lock

\* A product decision that has been approved is not left with its pause open
\* once the command that approved it is over.
AnsweredPauseResolves ==
  (\A s \in Shells : shell[s].at = "idle") /\ stage = "paused"
    => ~(pause.type = "product" /\ Is(pause.on, "approved"))
=============================================================================
