----------------------------- MODULE CostLedger -----------------------------
(***************************************************************************)
(* The call-quota ledger of one run (table cost_reservations) and the      *)
(* calls that use it: planning, the guard's inference probe, the Pi worker *)
(* of a task attempt, the Codex review of a task and of a stage.           *)
(*                                                                         *)
(* The rows are written by several processes: the scheduler (one coroutine *)
(* per call), a later scheduler or `brainctl reconcile --apply` that       *)
(* settles the rows a dead process left behind, `brainctl cancel`, and the *)
(* user's `brainctl budget write-off`.  One action is one transaction on   *)
(* the ledger or one await of a caller.                                    *)
(*                                                                         *)
(* Time is abstract: a lease is "live" until it is "expired".  A call that *)
(* is alive and, once its child runs, has a heartbeat timer keeps its      *)
(* lease; if it does not (suspended machine, heartbeat writes that fail)   *)
(* the id is recorded in lapsed.                                           *)
(***************************************************************************)
EXTENDS Integers, FiniteSets

CONSTANTS PiCalls,            \* Pi worker calls, one per task attempt
          ReviewCalls,        \* Codex reviews of a task
          StageReviewCalls,   \* Codex reviews of a stage
          PlanCall,           \* the planning call of brainctl submit
          ProbeId,            \* reservation id of the guard probe: one per run
          MaxPi, MaxCodex,    \* costBudget.maxPiCallCost, .maxCodexCallCost
          Limit,              \* costBudget.limit
          None                \* no owner

Calls  == PiCalls \cup ReviewCalls \cup StageReviewCalls \cup {PlanCall}
Ids    == Calls \cup {ProbeId}
Leased == Ids \ {PlanCall, ProbeId}   \* rows inserted with a lease

ASSUME LedgerAssumption ==
         /\ IsFiniteSet(Calls)
         /\ ProbeId \notin Calls /\ None \notin Calls
         /\ PlanCall \notin PiCalls \cup ReviewCalls \cup StageReviewCalls
         /\ PiCalls \cap (ReviewCalls \cup StageReviewCalls) = {}
         /\ ReviewCalls \cap StageReviewCalls = {}
         /\ MaxPi \in Nat \ {0} /\ MaxCodex \in Nat \ {0}
         /\ Limit \in Nat \ {0}

\* The worst case of a Pi worker is four Pi turns and two Codex answers.
Cost == [id \in Ids |-> IF id \in PiCalls THEN 4 * MaxPi + 2 * MaxCodex
                        ELSE IF id = ProbeId THEN MaxPi ELSE MaxCodex]

VARIABLES
  row,      \* the ledger: [status, spawned, lease, owner] of each id
  pc,       \* where the code of each call stands
  round,    \* Pi calls: 1, 2 clarify, 3 final confirmation, 4 implementation
  used,     \* quota the provider has really been asked for under an id
  beating,  \* the heartbeat timer of a call is running
  active,   \* the owning attempt (or run) is in a non-terminal status
  probed,   \* guard_probe_cache holds a pass for the Pi version
  verdict,  \* outcome reconciliation has decided for a row, before writing it
  lapsed    \* ids whose lease expired while their call was alive

vars == <<row, pc, round, used, beating, active, probed, verdict, lapsed>>

Statuses == {"absent", "reserved", "unavailable", "released", "written_off"}
Leases   == {"none", "live", "expired"}
PCs      == {"idle", "reserved", "probing", "spawn", "prompt", "reply",
             "answer", "returned", "done", "refused", "dead"}
InFlight == PCs \ {"idle", "done", "refused", "dead"}

Row == [status : Statuses, spawned : BOOLEAN, lease : Leases,
        owner : Calls \cup {None}]

Absent == [status |-> "absent", spawned |-> FALSE, lease |-> "none",
           owner |-> None]

\* The rows the SQL SUM counts (no caller settles with a confirmed cost).
Held  == {id \in Ids : row[id].status \in {"reserved", "unavailable"}}
Freed == {id \in Ids : row[id].status \in {"released", "written_off"}}

Budget == INSTANCE CallBudget WITH held <- Held, freed <- Freed

\* The call that id was reserved for is still being driven by its process.
Alive(id) == /\ row[id].owner \in Calls
             /\ IF id = ProbeId THEN pc[row[id].owner] = "probing"
                                ELSE pc[id] \in InFlight

\* Mutant: the SUM counts open reservations only.
FitsOpenOnly(id) ==
  Cost[id] <= Limit - Budget!Total({i \in Ids : row[i].status = "reserved"})

Fits(id) == Cost[id] <= Limit - Budget!Total(Held)

-----------------------------------------------------------------------------
(* Transactions on the ledger. *)

\* reserveCost: the INSERT of a new row.
Insert(id, c, lease) ==
  row' = [row EXCEPT ![id] = [status |-> "reserved", spawned |-> FALSE,
                              lease |-> lease, owner |-> c]]

\* Mutants of the settlement: of a settled row; without the spawn veto.
CanFinalizeSettled(id, outcome) ==
  row[id].status # "absent" /\ (outcome = "released" => ~row[id].spawned)
CanFinalizeSpawned(id, outcome) == row[id].status = "reserved"

\* finalizeCostReservation: the row as it is left by a settlement (the lease
\* of a settled row is not read any more).
CanFinalize(id, outcome) == /\ row[id].status = "reserved"
                            /\ outcome = "released" => ~row[id].spawned
Finalized(id, outcome) ==
  IF CanFinalize(id, outcome)
  THEN [row EXCEPT ![id] = [@ EXCEPT !.status = outcome, !.lease = "none"]]
  ELSE row

\* markCostReservationSpawned: callers ignore whether it changed a row.
MarkedSpawned(c) ==
  IF row[c].status = "reserved" /\ ~row[c].spawned
  THEN [row EXCEPT ![c].spawned = TRUE] ELSE row

Go(c, from, to) == pc[c] = from /\ pc' = [pc EXCEPT ![c] = to]

-----------------------------------------------------------------------------
Init ==
  /\ row = [id \in Ids |-> Absent]
  /\ pc = [c \in Calls |-> "idle"]
  /\ round = [c \in PiCalls |-> 0]
  /\ used = [id \in Ids |-> 0]
  /\ beating = [c \in Calls |-> FALSE]
  /\ active = [c \in Calls |-> TRUE]
  /\ probed = FALSE
  /\ verdict = [id \in Ids |-> "none"]
  /\ lapsed = {}

\* A call asks for its quota.  The scheduler runs once the run has a plan.
Reserve(c) ==
  /\ c # PlanCall => pc[PlanCall] = "done"
  /\ row[c].status = "absent"
  /\ Fits(c)
  /\ Go(c, "idle", "reserved")
  /\ Insert(c, c, IF c \in Leased THEN "live" ELSE "none")
  /\ UNCHANGED <<round, used, beating, active, probed, verdict, lapsed>>

\* The cost gate refuses: the caller stops without calling the provider.
Refuse(c) ==
  /\ c # PlanCall => pc[PlanCall] = "done"
  /\ ~Fits(c)
  /\ Go(c, "idle", "refused")
  /\ UNCHANGED <<row, round, used, beating, active, probed, verdict, lapsed>>

\* submit: the token pre-check refuses after the quota was reserved.
PlanTokensRefused ==
  /\ Go(PlanCall, "reserved", "refused")
  /\ UNCHANGED <<row, round, used, beating, active, probed, verdict, lapsed>>

\* submit: the Brain is called; the planning row is never marked as spawned.
CallBrain ==
  /\ Go(PlanCall, "reserved", "reply")
  /\ used' = [used EXCEPT ![PlanCall] = @ + MaxCodex]
  /\ UNCHANGED <<row, round, beating, active, probed, verdict, lapsed>>

\* Task review: the privacy gate blocks the spawn and gives the quota back.
PrivacyBlocked(c) ==
  /\ c \in ReviewCalls
  /\ Go(c, "reserved", "done")
  /\ row' = Finalized(c, "released")
  /\ UNCHANGED <<round, used, beating, active, probed, verdict, lapsed>>

\* Pi worker: the guard self-check (no inference) fails; nothing is spawned.
GuardCheckFails(c) ==
  /\ c \in PiCalls
  /\ Go(c, "reserved", "returned")
  /\ UNCHANGED <<row, round, used, beating, active, probed, verdict, lapsed>>

\* Pi worker: this Pi version is known to block; go on to the clarification.
GuardKnown(c) ==
  /\ c \in PiCalls /\ probed
  /\ Go(c, "reserved", "spawn")
  /\ round' = [round EXCEPT ![c] = 1]
  /\ UNCHANGED <<row, used, beating, active, probed, verdict, lapsed>>

\* Pi worker: reserve the probe.  Its id is one per run, so the INSERT throws
\* when the run has a probe row already, whatever became of that row.
ReserveProbe(c) ==
  /\ c \in PiCalls /\ ~probed
  /\ IF Fits(ProbeId) /\ row[ProbeId].status = "absent"
     THEN Go(c, "reserved", "probing") /\ Insert(ProbeId, c, "none")
     ELSE Go(c, "reserved", "returned") /\ UNCHANGED row
  /\ UNCHANGED <<round, used, beating, active, probed, verdict, lapsed>>

\* The probe's prompt reaches the provider.
ProbeSent(c) ==
  /\ row[ProbeId].owner = c /\ pc[c] = "probing"
  /\ used[ProbeId] = 0
  /\ used' = [used EXCEPT ![ProbeId] = MaxPi]
  /\ UNCHANGED <<row, pc, round, beating, active, probed, verdict, lapsed>>

\* Mutant: the probe is released whatever it has sent.
ProbeSettleReleased(c) ==
  /\ Go(c, "probing", "returned")
  /\ row' = Finalized(ProbeId, "released")
  /\ UNCHANGED <<round, used, beating, active, probed, verdict, lapsed>>

\* The probe ends: `released` only with evidence that it never reached the
\* provider; it passes only when the guard was seen to block a tool call.
ProbeSettle(c) ==
  /\ \E outcome \in {"released", "unavailable"}, pass \in BOOLEAN :
       /\ outcome = "released" => used[ProbeId] = 0
       /\ pass => used[ProbeId] > 0
       /\ Go(c, "probing", IF pass THEN "spawn" ELSE "returned")
       /\ row' = Finalized(ProbeId, outcome)
       /\ probed' = (probed \/ pass)
       /\ round' = IF pass THEN [round EXCEPT ![c] = 1] ELSE round
  /\ UNCHANGED <<used, beating, active, verdict, lapsed>>

\* Mutant: no heartbeat timer is started.
SpawnSilently(c) ==
  /\ c # PlanCall
  /\ Go(c, IF c \in PiCalls THEN "spawn" ELSE "reserved", "prompt")
  /\ row' = MarkedSpawned(c)
  /\ UNCHANGED <<round, used, beating, active, probed, verdict, lapsed>>

\* The child process exists: mark the row, start the heartbeat timer.  A worker
\* does this for each of its turns.
Spawn(c) ==
  /\ c # PlanCall
  /\ Go(c, IF c \in PiCalls THEN "spawn" ELSE "reserved", "prompt")
  /\ row' = MarkedSpawned(c)
  /\ beating' = [beating EXCEPT ![c] = TRUE]
  /\ UNCHANGED <<round, used, active, probed, verdict, lapsed>>

\* The prompt is written only after the spawn was recorded: money is spent.
Prompt(c) ==
  /\ Go(c, "prompt", "reply")
  /\ used' = [used EXCEPT ![c] = @ + IF c \in PiCalls THEN MaxPi ELSE MaxCodex]
  /\ UNCHANGED <<row, round, beating, active, probed, verdict, lapsed>>

\* Mutant: the final confirmation may ask Codex as well.
AskCodexAtFinal(c) ==
  /\ c \in PiCalls /\ round[c] \in 1..3
  /\ Go(c, "reply", "answer")
  /\ used' = [used EXCEPT ![c] = @ + MaxCodex]
  /\ UNCHANGED <<row, round, beating, active, probed, verdict, lapsed>>

\* Pi has questions (rounds 1 and 2 only): Codex answers them.
AskCodex(c) ==
  /\ c \in PiCalls /\ round[c] \in 1..2
  /\ Go(c, "reply", "answer")
  /\ used' = [used EXCEPT ![c] = @ + MaxCodex]
  /\ UNCHANGED <<row, round, beating, active, probed, verdict, lapsed>>

\* Codex answered every question: the next clarification round.
NextRound(c) ==
  /\ c \in PiCalls
  /\ Go(c, "answer", "spawn")
  /\ round' = [round EXCEPT ![c] = @ + 1]
  /\ UNCHANGED <<row, used, beating, active, probed, verdict, lapsed>>

\* Pi reports at least 95% understanding: the implementation turn.
ReadyToImplement(c) ==
  /\ c \in PiCalls /\ round[c] \in 1..3
  /\ Go(c, "reply", "spawn")
  /\ round' = [round EXCEPT ![c] = 4]
  /\ UNCHANGED <<row, used, beating, active, probed, verdict, lapsed>>

\* The call ends, with a result, a pause or an exception; the finally block
\* stops the heartbeat.
Return(c) ==
  /\ pc[c] \in {"reply", "answer"}
  /\ pc' = [pc EXCEPT ![c] = "returned"]
  /\ beating' = [beating EXCEPT ![c] = FALSE]
  /\ round' = IF c \in PiCalls THEN [round EXCEPT ![c] = 0] ELSE round
  /\ UNCHANGED <<row, used, active, probed, verdict, lapsed>>

\* What a call has cost is not known, so its whole reservation stays counted.
Settle(c) ==
  /\ Go(c, "returned", "done")
  /\ row' = Finalized(c, "unavailable")
  /\ UNCHANGED <<round, used, beating, active, probed, verdict, lapsed>>

\* The timer of a call fires, late, and renews the lease of an open row.
Heartbeat(c) ==
  /\ beating[c]
  /\ row[c].status = "reserved" /\ row[c].lease = "expired"
  /\ row' = [row EXCEPT ![c].lease = "live"]
  /\ UNCHANGED <<pc, round, used, beating, active, probed, verdict, lapsed>>

-----------------------------------------------------------------------------
(* Everything else that happens to the rows. *)

\* The process driving the calls dies with all of its calls and timers.
Crash ==
  /\ \E c \in Calls : pc[c] \in InFlight
  /\ pc' = [c \in Calls |-> IF pc[c] \in InFlight THEN "dead" ELSE pc[c]]
  /\ beating' = [c \in Calls |-> FALSE]
  /\ round' = [c \in PiCalls |-> 0]
  /\ UNCHANGED <<row, used, active, probed, verdict, lapsed>>

\* The attempt or run owning a call ends: cancelled, interrupted, failed or
\* approved, by this process or by another (reconciliation looks at it only
\* while a row with a lease is open).
OwnerEnds(c) ==
  /\ c \in Leased /\ active[c] /\ row[c].status = "reserved"
  /\ active' = [active EXCEPT ![c] = FALSE]
  /\ UNCHANGED <<row, pc, round, used, beating, probed, verdict, lapsed>>

\* The lease runs out: always when nobody drives the call or when a running
\* call has no timer, and otherwise only if its heartbeats did not arrive.
KeepsLease(id) == Alive(id) /\ (pc[id] \in {"reply", "answer"} => beating[id])
LeaseExpires(id) ==
  /\ row[id].status = "reserved" /\ row[id].lease = "live"
  /\ row' = [row EXCEPT ![id].lease = "expired"]
  /\ lapsed' = IF KeepsLease(id) THEN lapsed \cup {id} ELSE lapsed
  /\ UNCHANGED <<pc, round, used, beating, active, probed, verdict>>

\* Mutants of the settlement of stale rows: only of owners that have ended;
\* of a row that was not selected.
StaleDecideEnded(id) ==
  /\ verdict[id] = "none" /\ row[id].status = "reserved"
  /\ row[id].lease = "expired" /\ ~active[row[id].owner]
  /\ verdict' = [verdict EXCEPT ![id] =
                   IF row[id].spawned THEN "unavailable" ELSE "released"]
  /\ UNCHANGED <<row, pc, round, used, beating, active, probed, lapsed>>
StaleSettleAny(id) ==
  /\ row' = Finalized(id, verdict[id])
  /\ verdict' = [verdict EXCEPT ![id] = "none"]
  /\ UNCHANGED <<pc, round, used, beating, active, probed, lapsed>>

\* reconcileStaleCostReservations, per row: select it and decide ...
StaleDecide(id) ==
  /\ verdict[id] = "none"
  /\ row[id].status = "reserved" /\ row[id].lease = "expired"
  /\ verdict' = [verdict EXCEPT ![id] =
       IF ~row[id].spawned /\ ~active[row[id].owner]
       THEN "released" ELSE "unavailable"]
  /\ UNCHANGED <<row, pc, round, used, beating, active, probed, lapsed>>

\* ... then settle it, in a transaction of its own.
StaleSettle(id) ==
  /\ verdict[id] # "none"
  /\ row' = Finalized(id, verdict[id])
  /\ verdict' = [verdict EXCEPT ![id] = "none"]
  /\ UNCHANGED <<pc, round, used, beating, active, probed, lapsed>>

\* The user decides that an unavailable reservation no longer counts.
WriteOff(id) ==
  /\ row[id].status = "unavailable"
  /\ row' = [row EXCEPT ![id].status = "written_off"]
  /\ UNCHANGED <<pc, round, used, beating, active, probed, verdict, lapsed>>

-----------------------------------------------------------------------------
CallStep(c) ==
  \/ Spawn(c) \/ Prompt(c) \/ AskCodex(c) \/ NextRound(c)
  \/ ReadyToImplement(c) \/ Return(c) \/ Settle(c)
  \/ PrivacyBlocked(c) \/ GuardCheckFails(c) \/ GuardKnown(c)
  \/ ReserveProbe(c) \/ ProbeSettle(c)

Reconcile(id) == StaleDecide(id) \/ StaleSettle(id)

Next ==
  \/ \E c \in Calls : \/ Reserve(c) \/ Refuse(c) \/ CallStep(c)
                      \/ ProbeSent(c) \/ Heartbeat(c) \/ OwnerEnds(c)
  \/ PlanTokensRefused \/ CallBrain \/ Crash
  \/ \E id \in Ids : \/ LeaseExpires(id) \/ Reconcile(id)
                     \/ WriteOff(id)

Spec == Init /\ [][Next]_vars

\* A call is bounded by its timeout, so it goes on or dies; time passes; and
\* reconciliation runs at every scheduler start and on request, so it is
\* assumed to come back as long as there is something for it to do.
Fairness ==
  /\ \A c \in Calls : WF_vars(CallStep(c))
  /\ \A id \in Ids : WF_vars(LeaseExpires(id)) /\ WF_vars(Reconcile(id))

FairSpec == Spec /\ Fairness

-----------------------------------------------------------------------------
\* The state of the ledger and of its callers is well-formed.
TypeOK ==
  /\ row \in [Ids -> Row]
  /\ pc \in [Calls -> PCs]
  /\ round \in [PiCalls -> Nat]
  /\ used \in [Ids -> Nat]
  /\ beating \in [Calls -> BOOLEAN]
  /\ active \in [Calls -> BOOLEAN]
  /\ probed \in BOOLEAN
  /\ verdict \in [Ids -> {"none", "released", "unavailable"}]
  /\ lapsed \subseteq Ids

\* Whatever the callers, reconciliation and the user do, and in whatever
\* order, the reservations that count never exceed costBudget.limit.
WithinBudget == Budget!WithinBudget

\* The ledger is a budget: quota is taken at most once per id, only when it
\* fits, and never again after it was given back.
ImplementsBudget == Budget!Spec

\* The worst case reserved for a call covers every provider request made
\* under it: the clarification rounds of a worker are bounded.
WorstCaseCovers == \A id \in Ids : used[id] <= Cost[id]

\* Money that was spent stays counted until the user writes it off: it is
\* never `released`, if the call kept its lease while it was alive.
SpentIsAccounted ==
  \A id \in Ids \ lapsed :
    used[id] > 0 => row[id].status \in {"reserved", "unavailable", "written_off"}

\* Nobody settles the row of a call that is alive and keeps its lease, so
\* reconciliation and write-off only see calls that have ended.
LiveCallIsReserved ==
  \A id \in Ids \ lapsed : Alive(id) => row[id].status = "reserved"

\* Evidence of a spawn wins over a verdict reached before it was recorded,
\* even for a call that has lost its lease.
SpawnVetoesRelease ==
  \A id \in Ids : row[id].status = "released" => ~row[id].spawned

\* What makes the three invariants above inductive: how a row, its call and
\* its lease belong together.
RowInv ==
  /\ \A id \in Ids : row[id].status = "absent" =>
        /\ row[id].lease = "none" /\ row[id].owner = None /\ ~row[id].spawned
        /\ used[id] = 0 /\ verdict[id] = "none"
  /\ \A id \in Ids : row[id].status # "absent" => row[id].owner \in Calls
  /\ \A id \in Ids \ Leased : row[id].lease = "none" /\ verdict[id] = "none"
  /\ \A c \in Calls :
       /\ row[c].owner \in {None, c}
       /\ pc[c] \in InFlight => row[c].status # "absent"
       /\ pc[c] \in {"idle", "reserved"} => used[c] = 0
       /\ pc[c] = "probing" =>
            row[ProbeId].owner = c /\ row[ProbeId].status = "reserved"

LeaseInv ==
  /\ \A c \in Leased :
       pc[c] \in {"prompt", "reply", "answer"} =>
         beating[c] /\ (c \notin lapsed => row[c].spawned)
  /\ \A id \in Ids \ lapsed :
       Alive(id) => row[id].lease # "expired" /\ verdict[id] = "none"
  /\ \A c \in Leased \ lapsed : used[c] > 0 => row[c].spawned

LedgerInv == RowInv /\ LeaseInv /\ LiveCallIsReserved /\ SpentIsAccounted

\* What makes WorstCaseCovers inductive: what a worker may have used when it
\* begins a round.
UsedBefore == [r \in 1..4 |-> CASE r = 1 -> 0
                                [] r = 2 -> MaxPi + MaxCodex
                                [] r = 3 -> 2 * MaxPi + 2 * MaxCodex
                                [] r = 4 -> 3 * MaxPi + 2 * MaxCodex]
WorkInv ==
  /\ \A c \in PiCalls :
       /\ pc[c] \in {"idle", "refused", "reserved", "probing"} => used[c] = 0
       /\ pc[c] \in {"spawn", "prompt", "reply", "answer"} => round[c] \in 1..4
       /\ pc[c] \in {"spawn", "prompt"} => used[c] <= UsedBefore[round[c]]
       /\ pc[c] = "reply" => used[c] <= UsedBefore[round[c]] + MaxPi
       /\ pc[c] = "answer" => /\ round[c] \in 1..2
                              /\ used[c] <= UsedBefore[round[c]] + MaxPi + MaxCodex
  /\ \A c \in Calls \ PiCalls :
       /\ pc[c] \notin {"probing", "spawn", "answer"}
       /\ pc[c] \in {"idle", "refused", "reserved", "prompt"} => used[c] = 0

\* A reservation with a lease does not stay open for ever, whether its call
\* returns or its process dies.
LeasedRowsSettle ==
  \A id \in Leased :
    row[id].status = "reserved" ~> row[id].status # "reserved"

\* sqlite-store.ts:1710-1711: "`reserved`/`spawned` are refused so a live
\* call can never be written off".
LiveCallNotWrittenOff ==
  \A id \in Ids : row[id].status = "written_off" => ~Alive(id)

\* budget.ts:103: a reservation stuck in the reserved phase is turned into
\* unavailable or released by `brainctl reconcile --apply`.
StuckRowsSettle ==
  \A id \in Ids :
    (row[id].status = "reserved" /\ ~Alive(id)) ~> row[id].status # "reserved"
=============================================================================
