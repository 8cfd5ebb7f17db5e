----------------------------- MODULE WorkerCall -----------------------------
(***************************************************************************)
(* What the scheduler may rely on in one call of a worker                  *)
(* (PiRpcWorker.executeTask): the worktree changes only while the worker   *)
(* implements, never while it works out what is asked and never after the  *)
(* call has returned.  PiSession implements this; Recovery is built on it. *)
(***************************************************************************)
EXTENDS Naturals

CONSTANT MaxCommits   \* bound: commits on the branch of the task

ASSUME CallAssumption == MaxCommits \in Nat

VARIABLES
  call,     \* where the call is: reading, writing, or what it returned
  worker,   \* the process whose pid the attempt has on record
  tree      \* the worktree: commits since the base, uncommitted edits

callVars == <<call, worker, tree>>

Outcome == {"missing", "completed", "decision", "blocked", "failed", "threw"}
Call    == {"idle", "reads", "writes"} \cup Outcome
Tree    == [head : 0..MaxCommits, dirty : BOOLEAN]

CallTypeOK ==
  /\ call \in Call
  /\ worker \in {"none", "up", "gone"}
  /\ tree \in Tree

Open == call \in {"reads", "writes"}

CallInit == call = "idle" /\ worker = "none"
              /\ tree = [head |-> 0, dirty |-> FALSE]

\* A call starts in a clean worktree of the branch of the task.
Begin ==
  /\ ~Open
  /\ call' = "reads" /\ worker' = "none"
  /\ tree' = [tree EXCEPT !.dirty = FALSE]

\* Every turn is a process of its own, or one that could not be started.
Spawn ==
  /\ Open /\ worker # "up" /\ worker' \in {"up", "gone"}
  /\ UNCHANGED <<call, tree>>

Vanish == worker = "up" /\ worker' = "gone" /\ UNCHANGED <<call, tree>>

Understood ==
  /\ call = "reads" /\ worker # "up"
  /\ call' = "writes" /\ UNCHANGED <<worker, tree>>

\* The worker, or a tool it left running, edits files or commits.
Works ==
  /\ call = "writes" /\ worker # "none"
  /\ \/ tree.head < MaxCommits
          /\ tree' = [head |-> tree.head + 1, dirty |-> FALSE]
     \/ ~tree.dirty /\ tree' = [tree EXCEPT !.dirty = TRUE]
  /\ UNCHANGED <<call, worker>>

\* Only a worker that was let to write can have done the work.
Returns(outcome) ==
  /\ Open /\ (outcome = "completed" => call = "writes" /\ worker = "gone")
  /\ call' = outcome /\ UNCHANGED <<worker, tree>>

CallNext ==
  \/ Begin \/ Spawn \/ Vanish \/ Understood \/ Works
  \/ \E outcome \in Outcome : Returns(outcome)

CallSpec == CallInit /\ [][CallNext]_callVars
=============================================================================
