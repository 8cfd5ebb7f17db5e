# Verification of Bridge (`brainctl`)

Bridge runs a "Brain" (Codex) that plans and reviews, and "Pi" workers that
implement tasks in Git worktrees, under budgets, gates and human approvals.
This directory holds TLA+ models of its code (`src/src`), the TLC runs that
check them and the proofs TLAPS checks. Paths below are relative to the
repository.

## 1. Inventory

All state that matters lives in one SQLite database (`state/sqlite-store.ts`,
one synchronous connection per process, write transactions `BEGIN IMMEDIATE`)
and in the project's Git repository. Everything else is the local state of the
process that runs a command.

| Component (code) | State | Operations | Hard behaviour |
| --- | --- | --- | --- |
| Cost ledger (`state/sqlite-store.ts`, `core/cost-heartbeat.ts`) | `cost_reservations` | reserve, mark spawned, heartbeat, finalize, reconcile stale, write off | several processes; crash between reservation, spawn and settlement; a lease that lapses under a live call |
| Stage scheduler and task pool (`core/stage-scheduler.ts`, `core/post-worker-handler.ts`) | runs, stages, tasks, attempts | start, process stage, dispatch, execute a task, integrate, converge | a pool of coroutines; state read before an await; cancel and resume from other processes |
| Stage integration (`core/stage-integration.ts`, `core/stage-review.ts`) | `integration_batches`, integration branch and worktree, target branch | open batch, merge branches, gates, review, merge, settle, merge tasks, complete | crash between Git and SQLite; the user's commits; refusals that must leave a way out |
| Path locks and actual-path claims (`state/sqlite-store.ts`, `state/actual-path-claims.ts`, `core/path-ownership.ts`) | `path_locks`, `actual_path_claims` | acquire all or nothing, preserve, release; claim | overlap by path prefix; locks held across crashes; locks freed too early |
| Pauses and resume (`core/pause-service.ts`, `cli/commands/resume.ts`) | `pause_records`, `approvals` | create, resolve, preflight | pause without a record; two tasks pausing at once |
| Cancel (`cli/commands/cancel.ts`) | run, stage, attempts | cancel in its own process | races with the scheduler |
| Reconciliation (`core/reconciliation/*`, `cli/commands/reconcile.ts`) | reads all of it | classify findings, apply safe actions | decisions made on what was read earlier |
| Attempt recovery (`cli/commands/recover.ts`) | attempts, provenance | adopt a commit a worker left behind, by hand or by the scheduler | what is read, then minutes of gates, then written |
| Retry policy (`core/retry-policy.ts`) | - | classify a failure; retry budget | pure |
| Governance (`core/decision-gate.ts`, `core/token-*.ts`, `cli/commands/approve.ts`, `revoke.ts`) | `approval_decisions` G1-G3, token budget | ask, approve, revoke; gates before a plan, a dispatch, a merge | a decision, its pause and its gate in three processes |
| Pi worker and guard (`adapters/pi-*`) | guard probe cache | self-check, guard probe, question turns, implementing turn | processes that ignore a signal, tools that outlive their worker, output in any chunks |
| Codex adapters (`adapters/codex-*`) | - | plan, answer, review | timeouts, killed children |
| Planning and submit (`cli/commands/submit.ts`, `core/orchestrator.ts`) | run, plan | plan, validate, persist | quota and token pre-checks |
| State store and migrations (`state/*`) | the database | versioned migrations | one transaction per version |
| Adaptive concurrency (`core/budget-tracker.ts`) | limit, samples | sample, raise, lower | limits at their boundaries |
| Review cache (`core/review-cache.ts`) | cached verdicts | look up, store, expire | stale verdicts |
| Garbage collection (`core/gc-service.ts`, `git/worktree-manager.ts`) | branches, worktrees | list, verify again, remove, prune, drop branches | a scheduler, `recover`, an orphan or the user in between |
| Quality gates, privacy, configuration, status, audit, dashboard | - | run commands, transform data, print | no shared state |

How they interact. `brainctl submit` reserves planning quota, calls the Brain
and stores the plan. `run start` creates a `StageScheduler`; it reconciles,
then processes the stages in order: dispatch tasks whose dependencies are met
and whose path locks it gets; each task coroutine reserves quota, calls the Pi
worker, runs gates, claims the actual paths, has the attempt reviewed; when all
tasks can be integrated the stage is integrated. Anything that cannot go on
records a pause and ends the process. `resume` checks the state in a preflight,
resolves the pause and starts a new scheduler. `cancel`, `reconcile --apply`,
`budget write-off` run in processes of their own at any time and meet the
scheduler only through SQLite and Git.

What makes the components correct. Ledger: never more than the budget counted,
no call without its reservation, nothing spent is handed back, no reservation
stays open for ever. Integration: a completed stage holds exactly what was
reviewed, merged once; every refusal leaves a paused stage that can be resumed.
Pool: two tasks that may write the same path never run together; a task starts
after its dependencies; work that was paid for is not run again because of a
crash. Pauses: each pause has a record, is answered at most once and only by
the decision it names, and every command ends. Worker: the worktree changes only
while the worker implements, and a call returns. Recovery: what is approved is
what was adopted and reviewed. Reconciliation: a report repairs, it takes
nothing from a live attempt and shuts no run. Collection: nothing is removed
that is not merged, edited or in use. Retry: no failure is retried past its
limit.

## 2. Modules

| Module | What it is |
| --- | --- |
| `CallBudget` | the abstract specification of a quota ledger: hold, free, never above the limit |
| `CostLedger` | the ledger with all its callers: planning, guard probe, Pi worker, task and stage reviews, reconciliation, write-off, crash |
| `MCCostLedger` | instances for TLC |
| `CostLedgerProofs` | type correctness, the safety invariants and the refinement, proved for any calls, costs and limit |
| `StageIntegration` | from the end of a stage's task loop to the completed stage, with crash, resume, cancel, reconcile and the user in the repository |
| `MCStageIntegration` | instances for TLC |
| `StageIntegrationProofs` | a completed stage holds what was reviewed, is merged once, is left in order |
| `TaskPool` | the loop of a stage and a coroutine per task, with pauses, resume, cancel, crash and reconciliation |
| `TaskPoolProofs` | exclusion, claims, reviews, locks, retry budget and orderly ends, for any tasks |
| `PauseConsent` | the abstract specification of a pause: one at a time, closed only by the decision it hangs on |
| `RunControl` | `submit`, `approve`, `resume`, `revoke`, `cancel` and the schedulers they start, each a process; implements `PauseConsent` |
| `RunControlProofs` | a pause and its record, its decision, and the refinement of `PauseConsent` |
| `WorkerCall` | the abstract specification of a worker call: reads, then writes, then returns |
| `PiSession` | one worker call: guard, probe, turns, their processes, streams and timeouts; implements `WorkerCall` |
| `PiSessionProofs` | the refinement of `WorkerCall`, and that only an understood task is implemented |
| `Recovery` | a task whose work is adopted by `recover` or by the scheduler; built on `WorkerCall` |
| `RecoveryProofs` | what is approved was reviewed as it was claimed and adopted; adoptions by a person stand |
| `Reconciliation` | what a crash leaves, its findings, the preflight and the safe actions |
| `ReconciliationProofs` | what a report may do, and what has landed when a stage completes |
| `GarbageCollection` | `gc` and the cleanup after a merge, beside everybody who makes worktrees and branches |
| `GarbageCollectionProofs` | what the collector takes, for any number of attempts and batches |
| `MCTaskPool`, `MCRunControl`, `MCPiSession`, `MCRecovery`, `MCReconciliation`, `MCGarbageCollection` | instances for TLC |

How they fit. `CallBudget` and `CostLedger` are the money, `PauseConsent` and
`RunControl` the commands around a run, `TaskPool` and `StageIntegration` the two
halves of a stage, `WorkerCall` and `PiSession` what happens inside one
`executeTask`, `Recovery`, `Reconciliation` and `GarbageCollection` what is done
about leftovers. What is one step in one module is taken apart in another, and
each module's head says which.

### CostLedger

One row per reservation id (`row`), and for each call where its code stands
(`pc`). Ids are the primary keys the callers build: an attempt's Pi call, the
review of an attempt, the stage review, the planning call of a run, and the
guard probe, whose id is one per run. An action is one transaction or one await
of the caller: `Reserve`/`Refuse` (`reserveCost`), `Spawn` (the child exists:
`markCostReservationSpawned`, heartbeat timer), `Prompt` (money is spent),
`AskCodex`/`NextRound`/`ReadyToImplement` (the clarification rounds),
`Return`, `Settle` (`finalizeCostReservation`), `Heartbeat`, `LeaseExpires`,
`StaleDecide`/`StaleSettle` (`reconcileStaleCostReservations`, which decides on
the rows it has read and settles each in a transaction of its own), `WriteOff`,
`OwnerEnds`, `Crash`. `used` is a history variable: what the provider has been
asked for. `lapsed` collects the ids whose lease ran out although their call
was alive, so that the invariants can say what they depend on.

Abstractions. Time is a lease that is live or expired. A call's process is
assumed to die with its parent. The settlement with a confirmed cost exists in
the store, but no production caller uses it, so it is left out; so is the
adoption by `recover` of an attempt whose owner had ended. `used` counts quota
units in the reservation's own unit: one provider turn costs at most what
`costBudget` says it does.

### StageIntegration

`pc` is where the coroutine of `processStage`/`integrate` stands, `loc` its
local variables: the record it read before the stage was started (`snap`), the
tasks it read as approved, those with a skipped review, the target commit it
has seen. `stage`, `pause`, `task`, `att`, `ver`, `batches` are the rows;
`target` is the target branch. A commit has an identity and a tree, since the
code compares both: hashes in `checkIdempotentIntegration` and the base check,
trees in `detectAlreadyMergedReviewedTree` and before settling. Other actors are
`Resume`, `ReconcileRead`/`ReconcileApply` (which completes the batch it read
some time ago), `Cancel`, `Crash` and the user (`UserCommits`, `UserMerges`,
`UserResets`).

Abstractions. The work of an attempt is one change. The task loop before
integration is `Init`, and the second attempt of a task sent to rework is one
action (`Rework`). Gates, reviews and Git commands have nondeterministic
outcomes. A dirty worktree is one of the reasons `CheckTarget` may refuse.
Approvals needed before a pause is resolved are taken as given, and no retry
budget runs out.

### TaskPool

`main` is where the loop of `processStage` stands, `pc[t]` where the coroutine
`execTask` of a task stands, `loc[t]` the updates it has yet to make, `num[t]`
the attempt it works on, `done` the loop's local set. `stage`, `pause`, `task`,
`att`, `lock`, `claim` are the rows. An outcome of a step is written in the
order of the code: `Report` updates the attempt, `Settle` the task and the exit
reason, `RecordPause` the pause, `Leave` releases the locks; what an update
throws (`state-machine.ts`) goes to `Catch`. `CanStart`, `Choose`, `Dispatch`,
`RetryBlocked`, `Deadlock`, `Finish` are the loop; `Begin` to `ResultIs` the
attempt and its worker; `Unfit` to `Verdict` the `PostWorkerHandler`; `BeginKept`
is `resumeFromWorkerCompleted`. Around them are `Resume` with its preflight
(`Blocking`), `StartRun` with the automatic reconciliation (`Reconciled`,
`Orphaned`), `Cancel`, `Crash`, and workers that outlive their scheduler.

Abstractions. Paths are model values, and overlap of lock paths is the constant
`Clash`: two tasks with disjoint estimates still clash when both touch a
protected path. `why` is what `classifyFailure` makes of an exit reason, chosen
by the outcome. The stage ends in `integrate`, where `StageIntegration` begins.
A kept attempt has its evidence; the ways to lose it are in `Recovery`.

### RunControl and PauseConsent

`shell[s]` is the process in a terminal and where its command stands; `work[s]`
are the coroutines of a scheduler in it. `run`, `stage`, `decision`, `pause`,
`budget`, `lock` are the rows. Each read or write of a command that another
process can see is an action: `Approve`/`Grant`/`RecheckGate`/`StartApproved`,
`Resume`/`GrantAny`/`Answered`/`Resolve`/`Resumed`, `Revoke`, `Cancel`/
`CancelRun`, `Submit`/`PlanWritten`/`Risk`. A scheduler is `StartRun`, `Look`,
`Dispatch`/`PassOver`, `RoundEnds`, `Settled`, `Integrate`, `Drained`; a coroutine
that pauses goes through `AskPause`, `CreateDecision`, `RecordPause`, the three
awaits of `requestDecision` and `recordStagePause`. `PauseConsent` sees of this
the open pause, the decision it hangs on and the decisions that are granted.

Abstractions. What a worker and a review do is one step. One stage; findings of
the preflight are in the other modules. `mark_stage_paused` of a report, which
makes no PauseRecord, is in `Reconciliation` only: `PausedHasRecord` is about
the commands and the scheduler.

### PiSession and WorkerCall

`at` is where `executeTask` stands, `turn` which turn it is in, `heard` what the
chunks of the turn have come to, `marker` the file the guard leaves, `lead` and
`helper` the process of the turn and a tool of it that holds the output open,
`sig` what the group was sent. `OnChunk` is the stream observer: what a line is,
whether a tool call was in it, whether the observer asked to terminate before
the rest of the chunk. `OnTimeout`, `KillTree`, `LeadEnds`, `ToolEnds` are the
ways a turn ends; `ClarificationEnds` decides on another question to Codex
(`SpawnCodex`, `CodexMoves`, `StopCodex`, `CodexAnswers`), the implementation or a
return; `CleanUp` is the `finally` that removes the session directory.
`WorkerCall` is what the scheduler may rely on, and `Recovery` relies on it.

### Recovery

`att` is the latest attempt with the commit its result claims and its
provenance; `todo` the updates the scheduler has yet to make, one action each,
with `Catch` for what throws; `auto` and `rec` what the scheduler's own adoption
and `recover attempt` have read; `plan` what a reconciliation is going to do.
`AutoLooks`/`AutoGates`/`AutoAdopts` and `RecoverLooks`/`RecoverGates`/
`RecoverAdopts` are the read, the gates with the second look at the worktree, and
the transaction that compares what was read (`Current`). `ResumeKept` takes an
adopted attempt up, with its proof (`Proof`). `Person` works in the worktree of
a task nobody works on.

### Reconciliation

The scheduler is a line of writes (`sched`): `Begin`, `Lease`, `MakeTree`, `Spawn`,
`SavePid`, ... `Verdict`, `Integrate` ... `Clean`, each of which a crash can cut
off. `Findings` is `classifyFacts`, `SafeAction` the mapping of a finding to an
action, `Blocked` the preflight, `After` what `executeAtomicAction` writes, on
the state of that moment. `ReconcileReads` and `ReconcileApplies` are the two
halves of the command; `Fresh` says that nothing happened between them.
Around it are orphaned workers, leases that end, cancel of the stage and the
run, and a person in the repository.

### GarbageCollection

A branch is the set of commits it holds. `gc` and the cleanup after a merge (the
two `Removers`) each have a `job`: a list, the entry they are at, how often they
have tried. `Inventory` and `StageCleans` fill the list; `Reverify` looks at an
entry again, `TakeUp` does not; `Prune` prunes. A registered worktree then goes
through `cleanupRedundantWorktree`: `Check` is what it asks once, before the first
try. Each try of `git worktree remove` is a step (`Remove`, `Refuse`, and
`HalfRemove`, which leaves a directory git has given up), and between two tries
the code waits half a second to two, in which anybody acts and after which only
Git looks again. `Leftover` deletes what is no longer registered after the last
try, `DropBranch` runs `branch -d`, which compares with HEAD. `Recycle` deletes an
abandoned directory, or that of the integrations. `GiveUp` and `Die` end an
entry and a process anywhere. Attempts, batches, `recover`, workers that outlive
their attempt, and a user who commits, merges, checks out and removes
directories act in between. `git worktree remove` itself, which looks for edits
and deletes, is one step, and so are the deletions by `rmSync`.

## 3. Runs

| Run | Question | Answer |
| --- | --- | --- |
| `ledger` | Is the quota ever overdrawn, lost, or taken from a live call? | No: two workers, planning and probe under a limit of 8 that cannot hold them all, with crashes, late heartbeats, two-step reconciliation, write-off. The ledger implements `CallBudget`. |
| `ledger_live` | Does a leased reservation stay open for ever? | No, under fair callers. |
| `integration` | Does a completed stage hold what was reviewed, merged once, and does no end of the scheduler leave it half-way? | Yes, with up to three batches, a crash between any two steps, resume, `reconcile --apply`, cancel and the user in the repository. |
| `pool` | Do exclusion, claims, review, retry budget and an orderly end survive every interleaving? | Yes, three tasks in a pool of two. |
| `pool_review` | Are the locks of an attempt that waits for its review kept, as a comment says? | Not when the reviewer was unavailable. |
| `control` | Do pauses, their stage and their decisions stay together, whatever is typed in two terminals? | Yes; the commands implement `PauseConsent`. |
| `control_live` | Does every command end? | Yes, under fair processes, with a crash. |
| `session` | Does a worker write only when it has understood, and does its call return? | Yes; it implements `WorkerCall`. |
| `attempt` | Is what is approved what was claimed, adopted and reviewed, and whose adoption counts? | Yes, with a crash or a reconciliation, one `recover` and a person in the worktree. |
| `reconcile` | Does a report repair without taking from a live attempt, shutting the run or completing what has not landed? | Yes, if it is applied at once; see section 5 for one that is older. |
| `gc` | Does every commit stay on a branch, and does the collector keep edits, unmerged commits and running attempts? | Commits and running attempts: yes. A directory may go with edits if Git had given it up, and with unmerged commits if its worker was alive at the last check (No. 21). |
| `gc_live` | Does it verify every precondition again, as its head says? | Not for integration directories. |

A further nineteen configurations are kept beside these runs. Each checks one
property that a document, a comment or a message of the repository suggests and
that the code does not have; TLC prints a behaviour that violates it
(`tlc -config <file> <module>`). They are numbered as in section 5.

| Configuration | Property | No. |
| --- | --- | --- |
| `MCTaskPoolRetries.cfg` | `AttemptsLimited` (one task, no rework, two crashes) | 3 |
| `MCRecoveryJudged.cfg` | `JudgedAnew` | 4 |
| `MCCostLedgerStuck.cfg` | `StuckRowsSettle` | 5 |
| `MCCostLedgerWriteOff.cfg` | `LiveCallNotWrittenOff` | 6 |
| `MCStageIntegrationLegal.cfg` | `ConvergesLegally` | 7 |
| `MCStageIntegrationResume.cfg` | `PausesResume` | 8 |
| `MCStageIntegrationObstruction.cfg` | `ObstructionGone` | 9 |
| `MCTaskPoolAsked.cfg` | `ProductDecisionAsked` | 10 |
| `MCRunControlStuck.cfg` | `AnsweredPauseResolves` | 10 |
| `MCRunControlRevoked.cfg` | `RevokedPlanNotStarted` | 11 |
| `MCRunControlTwoPools.cfg` | `LockedWhileWorking` | 12 |
| `MCPiSessionSame.cfg` | `SameSession` | 13 |
| `MCPiSessionProbe.cfg` | `ProbeRetriable` | 14 |
| `MCPiSessionBeats.cfg` | `HeartbeatCleared` | 15 |
| `MCPiSessionHangs.cfg` | `SessionReturns`, with stubborn tools | 16 |
| `MCRecoveryAdopted.cfg` | `AdoptionStands` | 17 |
| `MCRecoveryOrphan.cfg` | `ApprovedIsClaimed`, with orphans | 18 |
| `MCRecoveryReconciled.cfg` | `InterruptedEnds` | 19 |
| `MCReconciliationTrusted.cfg` | `CompletedStaysTrusted` | 20 |

No. 21 has no file of its own: write `NeverRecycled` for `LiveBatchKept` in
`MCGarbageCollectionLive.cfg`.

What the passing properties say is in the comments of the modules. In short:
`WithinBudget`, `SpentIsAccounted`, `LiveCallIsReserved`, `WorstCaseCovers` and
`SpawnVetoesRelease` relate what was spent to what is counted;
`CompletedIsReviewed`, `OneMerge` and `SkippedTasksAreReviewed` relate the target
branch to the reviews; `NoReviewOfLandedWork` forbids paying twice;
`WritersExclusive` and `AcceptedDisjoint` are the two layers of path ownership,
`LocksAccounted` and `NoHalfState` say how a scheduler may end, `RetryBounded` and
`AcceptedIsReviewed` how attempts may follow each other; `PausedHasRecord`,
`PauseAnswerable` and `ImplementsConsent` tie a pause to its stage, its decision
and its answer; `ImplementsCall` and `ImplementsUnderstood` say when a worker may
write, `SessionReturns` that it lets go; `ApprovedIsClaimed` and
`AdoptedIsReviewed` relate an approval to the commit it is for (`JudgedAnew`, which
the code does not have, any verdict),
`AutoNeverOverrides` two adoptions; `LiveAttemptKept`, `ApplyNeverBlocks` and
`CompletedHasLanded` bound what a report may do; `NoCommitLost` and
`PaidWorkKept` what the removal of a worktree may cost, which takes seconds and
looks only once.

Each property of a passing run has a mutant of the code's definition that violates it
(`PROJECT.json`); mutated operators stand before the definition they replace
and carry the word "Mutant".

### Bounds

- Ledger: `MaxPi = MaxCodex = 1`, up to two callers of a kind. Prices differ
  (a worker reserves 6 units, the other calls 1), so refusals,
  exact fits and releases all occur at `Limit = 8`. Callers of one kind run the
  same code, and the interactions are between one call and the sum, or between
  one call and the reconciliation; the invariants are proved for any number.
- Integration: two tasks, one of them with a skipped review; three batches, so
  that a refused batch can be followed by one that is overtaken by a crash and
  one that finishes; one commit by the user in addition to those of the stage.
- Pool: `a` clashes with `b`, `c` depends on `b` and may change a path `a` has
  claimed: each relation two tasks can have occurs once. `MaxRework = 1` with
  three attempts of `b`, so that the budget runs out with and without an
  interrupted attempt. One crash, or a cancel, at any point; what further
  crashes cost is said by No. 3 and the theorem `RetriesEnd`. A task that has
  reached its bound of attempts is not dispatched again; the run says nothing
  of what it would do.
- Control: two terminals, so that any two processes overlap, a third command
  waiting for one of them; two tasks, so that one may pause the stage while the
  other works; one worker that ends with a question (`MaxTroubles`), one finding
  of the plan that needs an approval (`MaxRisks`). `control_live` has one task and
  two commands but a crash (`MaxCrashes`).
- Session: two calls, so that a second meets the caches and the reservation of
  the first; two chunks a turn, so that something may stand before and after
  the chunk at which the observer stops; one commit.
- Attempt: two attempts, one `recover`, one crash or reconciliation, two commits:
  enough for an adoption that is overtaken by a late result, by the person's
  commit or by a second attempt. `Orphans` is off, that is, a worker dies with
  its scheduler; No. 18 is what happens otherwise.
- Reconcile: two attempts and two batches, one crash, one thing done by hand,
  and one step (`MaxAge`) between the two halves of the command. `VIEW` leaves
  out what nobody reads again of an attempt that has ended and is not the
  latest; all properties read the latest attempt only.
- Collection: two attempts, so that there is an older one whose branch the newer
  begins with; one batch, and two in `gc_live`, which is about the second; two
  tries of four, that is, one wait, as whatever happens in three waits may happen
  in one; one step of the user or failed removal, two in `gc_live`. The theorems
  hold for any of these. One run: a second one whose batches are judged with the
  integration directories of the first is left out.

Symmetry is used in safety runs only.

### Fairness

`ledger_live` assumes weak fairness of each caller's steps, because the
calls have timeouts and the steps between them are local; of the expiry of a
lease whose heartbeats have ended, because that is a clock; and of
reconciliation, which runs at each start of a scheduler and by hand: a run that
nobody ever resumes is out of the property's scope. Nothing is assumed of the
user's write-off or of crashes.

`control_live` assumes weak fairness of the steps of each process and coroutine:
the event loop runs on, and a worker ends because it has a timeout (`session`).
Nothing that is typed and no crash is a duty.

`session` assumes weak fairness of the steps of `executeTask`, of its timers and
of the SIGKILL that follows a SIGTERM; and that a tool which holds the output
open ends once its group was sent a signal, or once the Codex it belongs to has
ended. The second is not the code's to guarantee: without it (`Stubborn`) the
call hangs, No. 16.

No strong fairness is used. The other runs check safety only.

Runs with `CHECK_DEADLOCK FALSE`: a completed or canceled stage, a ledger whose
calls have all ended, a terminal in which nothing more is typed, a collector
with nothing to collect have nothing left to do.

## 4. Proofs

Eight modules hold the proofs, one for each component with state. Every invariant
and every safety action property that a passing run checks is stated by a
theorem, for every value of the constants; so are the refinements. What the
proofs assume of the constants are the named assumptions of the modules:
`LedgerAssumption` (finite, disjoint sets of calls, prices and a limit),
`IntegrationAssumption` and `NoneAssumption` (finite tasks; the value for "no
commit" is not a commit), `PoolAssumption` (finite tasks, a symmetric clash of
lock paths), `ControlAssumption`, `SessionAssumption`, `CallAssumption`,
`RecoveryAssumption`, `ReconciliationAssumption` and
`GarbageCollectionAssumption` (finite sets, natural numbers as bounds). TLC
evaluates each of them in a run.

Each component has an inductive invariant `IInv`, the theorem `Invariant`
(`Spec => []IInv`) and, from it, the theorems below. Each `IInv` was an invariant
of the component's run before it was proved.

| Module | Theorem | States |
| --- | --- | --- |
| `CostLedgerProofs` | `TypeCorrect` | `TypeOK` |
| | `LedgerImplementsBudget` | the ledger implements `CallBudget` |
| | `BudgetIsKept` | `WithinBudget` |
| | `LiveCallsStayReserved` | `LiveCallIsReserved` |
| | `SpendingIsAccounted` | `SpentIsAccounted` |
| | `WorstCaseIsReserved` | `WorstCaseCovers` |
| | `SpawnIsAVeto` | `SpawnVetoesRelease` |
| `StageIntegrationProofs` | `TypeCorrect` | `TypeOK` |
| | `CompletionReviewed` | `CompletedIsReviewed` |
| | `MergedOnce` | `OneMerge` |
| | `EndsWhole` | `NoHalfState` |
| | `SkippedReviewed` | `SkippedTasksAreReviewed` |
| | `ReviewPaidOnce` | `NoReviewOfLandedWork` |
| `TaskPoolProofs` | `TypeCorrect` | `TypeOK` |
| | `OneWriter` | `WritersExclusive` |
| | `DisjointWork` | `AcceptedDisjoint` |
| | `ReviewedWork` | `AcceptedIsReviewed` |
| | `NoLockLost` | `LocksAccounted` |
| | `RetriesEnd` | `RetryBounded` |
| | `BudgetKept` | `AttemptsLimited`, with at most one crash |
| | `EndsPaused` | `NoHalfState` |
| `RunControlProofs` | `TypeCorrect` | `TypeOK` |
| | `RecordSafe` | `PausedHasRecord` |
| | `Answerable` | `PauseAnswerable` |
| | `ConsentRefined` | `RunControl` implements `PauseConsent` |
| `PiSessionProofs` | `TypeCorrect` | `TypeOK` |
| | `CallRefined` | `PiSession` implements `WorkerCall` |
| | `UnderstoodFirst` | `ImplementsUnderstood` |
| `RecoveryProofs` | `TypeCorrect` | `TypeOK` |
| | `NeverOverrides` | `AutoNeverOverrides` |
| | `ClaimedReviewed` | `ApprovedIsClaimed`, without orphans |
| | `AdoptedReviewed` | `AdoptedIsReviewed`, without orphans |
| `ReconciliationProofs` | `TypeCorrect` | `TypeOK` |
| | `LandedFirst` | `CompletedHasLanded` |
| | `LiveAttempts` | `LiveAttemptKept` |
| | `ApplyOpens` | `ApplyNeverBlocks` |
| `GarbageCollectionProofs` | `TypeCorrect` | `TypeOK`, which no run repeats |
| | `NoneLost` | `NoCommitLost` |
| | `WorkKept` | `PaidWorkKept` |

Two theorems have a hypothesis about a constant, `~Orphans`, which says that a
worker ends with its scheduler. It is needed: with orphans the property is false
(section 5, No. 18). `RecoveryProofs!Invariant` is proved for both values, and
`NeverOverrides` holds for both. `BudgetKept` speaks of the states with at most one
crash, because with two the property is false (No. 3).

### CostLedgerProofs

`TypeOK` is inductive. For the refinement each action either takes the quota of
one absent id when it fits, or gives one id back, or leaves the held and freed
sets alone (`BudgetStep`); the sum is the cardinality of a set of units
(`TotalAdd`, `TotalMonotone`), so no induction over data is needed.
`WithinBudget` follows from the same steps. That a live call keeps its row is not
inductive: `StaleSettle` acts on a verdict reached earlier. `LedgerInv` adds
`RowInv` (an absent row has no owner, lease, spending or verdict; a call in
flight has a row; the probing call owns the open probe row) and `LeaseInv` (a
call that can spend beats its lease, and while it has not lapsed there is
neither an expired lease nor a verdict for it). `WorstCaseCovers` needs `WorkInv`:
what a worker may have used when it begins each of its rounds.

### StageIntegrationProofs

The centre is `BatchOK`: a batch that records where it landed has been reviewed
completely, landed with the tree that was reviewed, which is the one of the
latest work of every task, and all attempts are approved, so that no task gets
another attempt. It needs to be known that the newest batch, once reviewed,
holds the latest work (`LastInv`), where the scheduler stands with it (`PcInv`),
when tasks may be blocked (`BlockInv`), which status the stage has where
(`StageInv`) and that a merge commit is made only when there is none (`GitInv`).
One lemma per action, since every crash, every step of the user and every
`reconcile --apply` may come between any two of them.

### TaskPoolProofs

`LoopInv` is about the loop (it ends and pauses without coroutines), `SharedInv`
about locks and claims (those that are held do not overlap), `TaskInv` about one
coroutine: which attempt it works on (`Placed`), what it takes the status of
that attempt to be (`Expected`), that it holds its locks until its worker has
ended (`Locked`), that what is validated is claimed (`Claimed`), what approved it
(`Reviewed`) and what the attempts have spent (`Budgeted`). Exclusion of workers
then follows from locks that do not clash. `Budgeted` counts all attempts but the
latest, which is counted when the next is about to be created, and says which
statuses a crash may leave with a task that can begin again: that is where a
second crash costs an attempt.

### RunControlProofs

`WorkLinked` says what each coroutine brings to the three awaits of a pause,
`ShellLinked` what a command that approves has read, `PauseLinked` that the open
pause names a decision of its own type that exists. The refinement maps a step
to one of `PauseConsent` or to a stutter; the case that matters is a second
coroutine that pauses while a pause is open, which must get the record there is.

### PiSessionProofs

Where `executeTask` stands decides what the process of the turn, its tools, the
signals, the heartbeats and the last return value can be. `ImplementsUnderstood`
needs `HeardInv`, that the chunks of an implementing turn are never taken for a
question; heartbeats that outlive their turn are bounded by the turns that were
begun (`BeatInv`), which is what makes `TypeOK` hold for any number of calls.

### RecoveryProofs

The scheduler makes its updates one after the other, with anybody in between.
What is left to be done, and in which order (`Ordered`), says what must already
hold: a result is written first (`PersistFirst`), an attempt is completed with one
(`ToComplete`), a result is taken away only where the attempt ends or the stage
rests (`ToWipe`), an approval is written only for the commit just reviewed
(`Claimed`). `NewList` is the lemma all of them use: a step leaves the list alone,
makes its first update or brings a new list, of which `Fresh` says what it may
hold and who wrote it. `SeenInv` is the strengthening that `AdoptedIsReviewed` turns
on: `recover` may adopt while a resume carries an earlier adoption on, and only
a commit that is no older than the one under review; since that one is the HEAD
when it is reviewed, it is the same.

### ReconciliationProofs

A report that is applied at once (`Fresh`) is the report of the state it is
applied to (`FreshInv`); whoever else takes a step makes it older. So
`LiveAttemptKept` is about the findings of that very state, and needs of the
reachable states only what the scheduler's place says of the latest attempt
(`SchedInv`). `ApplyNeverBlocks` compares the findings before and after, kind by
kind, with `AttemptInv`, which says what a post-worker status implies of worker,
result and branch as long as no person has touched the repository.
`CompletedHasLanded` needs `LandedInv` only: a batch records a merge, and a stage
is completed, after the merge.

### GarbageCollectionProofs

What a remover has listed and checked stays true while others work because some
things are never undone (`Later`): a directory or registration that is gone, a
worker that has ended, an attempt that has; and only its worker, in a registered
worktree, adds a commit to an attempt. `Fits` is what is known of an entry of a
list, `JobFits` what is known at each point a remover can be at, `Sound` what is
true of any attempt. Every step is shown to satisfy `Follows`, that is, `Later` of
every attempt, and `Grows`, that the target branch and the other one lose nothing;
`JobStays` then carries over what every remover relies on, `Undisturbed` and
`Disturbed` conclude. A checked worktree holds at most what the target branch has
and what its worker, if it was alive at the check, has committed since; that is
the strongest that survives a wait, and `PaidWorkKept` says no more. `NoneLost`
needs `Later` and `Grows` only: a branch that goes is in HEAD at that moment.
Integration directories are left out of `PaidWorkKept`; they are `gc_live`.

### Only model-checked

Liveness (`LeasedRowsSettle`, `CommandsEnd`, `SessionReturns`) needs fairness,
which is out of the prover's reach. The violation runs and the configurations
kept beside them are counterexamples, found by TLC. That the mutants violate
their properties is TLC's too. No operator of the models is recursive, so no
theorem about them needs an induction over data.


## 5. Where code and promises differ

The first two are violation runs, quoted in `PROJECT.json` under `findings`; the
others are reproduced by the configurations of section 3.

1. `pool_review`: a review that was not available is to be retried, but the
   locks of its task are released and every resume insists on them
   (`post-worker-handler.ts:776`, against the comment at
   `stage-scheduler.ts:1890`).
2. `gc_live`: an integration directory is not verified again, and it holds the
   worktrees of all batches (`gc-service.ts:492`, `:178`, against `:7-8`). The
   main checkout must be clean, so `.brainctl-dev` must be ignored by Git.
3. The retry budget allows the first attempt and
   `maxReworkCount` more, but it is asked only after a failure
   (`stage-scheduler.ts:979`, against the comment at `retry-policy.ts:6`). Two
   crashes, one between the writes of a completion (`:1756`) and one between
   those of a validation (`post-worker-handler.ts:413`), leave a running task
   whose attempt is in validation, and the next resume begins another attempt.
   With one crash the limit holds, and each further crash costs one attempt at
   most: both are proved.
4. A commit adopted after a rejection is still to be reviewed
   (`recover.ts:99`), but the verdict on the rejected work can be put on it.
   The status `reviewing` is written before the review it stands for is recorded
   (`post-worker-handler.ts:562-566`); a reconciliation in between, by hand or at
   the resume after a crash, takes the latest review of the task
   (`sqlite-store.ts:2317`) and rejects the commit unseen. With a report that
   was read before a review and is applied after it, an approval gets there as
   well: the report interrupts the attempt in review, a crash follows, a resume
   fails the task, and the attempt is adopted with another commit (two attempts
   and `MaxTroubles = 3`, beyond the bounds of the configuration).
5. After a crash, planning and probe reservations count against the budget for
   ever: they have no lease (`sqlite-store.ts:1781`, against `budget.ts:103`).
6. A call that lost its lease can be written off while it spends
   (`sqlite-store.ts:1802`, against the comment at `:1710`).
7. Convergence after a resume takes `running -> completed`, which throws: it
   works on the record read before the stage was started
   (`stage-integration.ts:842`, against the comment at `:838`).
8. A stage refused after its final review cannot be resumed: the approved
   attempts have no evidence of their own (`reconcile.ts:543`, against
   `docs/SYSTEM-DESIGN.md:74`).
9. A crash between the merge and its record leaves a stage that can never
   finish (`stage-integration.ts:793`, against `stage-scheduler.ts:1244`).
10. The second of two simultaneous pauses gets the record of the first, and the
   answer to its product decision is never heard (`stage-scheduler.ts:298`,
   against the comment at `:94`).
11. A gate asks only whether a decision is pending: a plan whose approval was
   revoked is started (`decision-gate.ts:248`).
12. A resume typed while the first scheduler still waits for its workers starts
    a second pool; locks ignore their own task, and whoever ends first releases
    them under the other (`stage-scheduler.ts:957`).
13. The session directory is removed while the implementing turn, which was
    started with it, runs (`pi-rpc-worker.ts:894`, `:948`, against
    `docs/HANDOFF-2026-07-29-BRIDGE-CLARIFICATION.md:5`).
14. The guard probe's reservation id is one per run: a call that is paused to be
    retried throws on the retry (`stage-scheduler.ts:1540`, against
    `pi-rpc-worker.ts:829`).
15. Each turn starts a heartbeat and overwrites the handle of the one before,
    which fires for ever (`stage-scheduler.ts:1494`, against `:1606`).
16. A tool that ignores SIGTERM and holds the output open keeps the call from
    returning: SIGKILL is not sent once the worker itself has an exit code
    (`pi-rpc-worker.ts:472`).
17. An attempt that `recover` has adopted while a scheduler works on it does not
    stay adopted: the scheduler's next update goes on from there.
18. A worker that outlives its scheduler may commit between the check of the
    evidence and the review, and the approval is then for a commit no result
    claims.
19. A report interrupts an attempt whose turn has ended and whose next has not
    begun (its pid is gone), and its task is accepted all the same.
20. A stage that completed without a change becomes untrusted once the cleanup
    has deleted its branch (`classifier.ts:242`, against the comment above it).
21. The removal of a worktree is tried four times over three and a half seconds,
    and only Git looks again after the first (`worktree-manager.ts:273-284`,
    against `gc-service.ts:7-11`). A worker that outlived its attempt may commit
    after the check of the branch (`worktree-manager.ts:358`), or edit, make the
    first try fail and commit before the next: its directory goes with a commit
    the target branch lacks. The branch stays, so `NoCommitLost` holds, but
    `recover attempt` has no worktree any more. A recovery in a wait loses the
    directory of an attempt that is reviewed again. And when Git has given a
    directory up, what is in it counts as clean (`gc-service.ts:134-142`,
    `worktree-manager.ts:220-222`), so edits made by a process that was still
    there are deleted with it.

Seen while reading, and in the models, but promised by no property: the messages
for `review_missing` (`classifier.ts:525`) and for a batch whose branch is
missing (`:622`) announce an action no mapping has; a batch reported as "Do not
auto-merge" is marked completed by `--apply`; locks of a canceled run are kept;
`mark_attempt_*` writes past the transition table; a crash between the creation
of an attempt and its lease is `no_pid_recorded` for ever; a worker that has no
recorded pid loses its lock when its lease is stale, and a second attempt may
then run beside the first; a report that is older than the dispatch it did not
see releases the lock that was taken again; a skipped review whose event was
not written is `review_evidence_missing` for ever; `mark_stage_paused` makes no
PauseRecord; a stage canceled before its run began leaves a run that is marked
completed; a directory whose path contains `int/` is taken for an integration
directory; branches of batches and batches in conflict are never collected.

## 6. Not modelled

`PROJECT.json` lists every component with its status. Left out on purpose:
quality gates, privacy, configuration, status, audit and dashboard (commands,
data transformations and output without shared state), parsing of provider
output and validation of plans (outcomes in the models), risk rules and token
arithmetic (outcomes), the migration runner (one transaction per version), the
recycle bin. The review cache is an LRU map in one process and the adaptive
limit a number between one and the configured maximum: both are sequential, and
the models that meet them hold for any verdict and any such number (a cached
verdict is a verdict, `MaxParallel` a bound). Normalization and overlap of paths
and the classification of exit reasons are parameters of `TaskPool`.

Left out for size: runs of several stages, several runs of one project (whose
integration directories `gc` judges together), the locks of other tasks that
refuse an adoption, expiry of approvals, which nothing in the code ever sets,
and reconciliation findings about governance, which depend on it.

## 7. Plan

The models are in place, and the safety properties of all runs are proved. What
is left, in this order:

1. Properties that no run asks yet and that the proofs have shown: that a kept
   attempt is never carried on without its result (`NoResult`), that a report is
   what it was as long as nobody else has moved (`FreshInv`), that a batch which
   landed holds the latest work of every task (`BatchOK`).
2. Lemmas that several proofs repeat, the frames and the effects of actions
   above all, stated once per module.
3. The configurations of section 3 in the other direction: for each, the
   weakest hypothesis under which the property holds, as `~Orphans` is for the
   two theorems of `RecoveryProofs`, and a proof of it.

The runs take between a few seconds and three minutes each, the proofs of a
module between one and six.
