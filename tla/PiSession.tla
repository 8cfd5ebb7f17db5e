------------------------------ MODULE PiSession ------------------------------
(***************************************************************************)
(* One worker call: the checks of the read-only guard, at most three turns *)
(* in which the worker says what it has understood and Codex answers it,   *)
(* and the turn that implements - each turn a process with its output      *)
(* stream, its termination and its timeout.  What it promises the caller   *)
(* is WorkerCall.                                                          *)
(*                                                                         *)
(* The content of a message is what the parser makes of it.  Left out: the *)
(* wording of prompts, the capture limits of the streams, aborts.          *)
(***************************************************************************)
EXTENDS Naturals, Sequences

CONSTANTS
  Stubborn,     \* whether a tool may outlive the worker or Codex it is of
  MaxCalls,     \* bound: calls of the worker in a run
  MaxChunks,    \* bound: chunks of output in a turn
  MaxCommits    \* bound: commits on the branch of the task

ASSUME SessionAssumption ==
  /\ Stubborn \in BOOLEAN /\ MaxCalls \in Nat
  /\ MaxChunks \in Nat /\ MaxCommits \in Nat

VARIABLES
  at,       \* where executeTask is
  turn,     \* 1, 2: questions; 3: the last word; 4: the implementation
  heard,    \* what the chunks of this turn have come to
  marker,   \* the file the guard leaves when it blocks a tool
  lead,     \* the process of the turn
  helper,   \* a tool of its process group that holds the output open
  sig,      \* what the group has been sent
  chunks,   \* chunks of this turn so far
  codex,    \* the process that answers the questions, and a tool of it
  session,  \* whether the directory of the turns' common session is there
  tree,     \* the worktree
  ret,      \* what the last call returned
  calls,    \* calls so far
  guard,    \* the self-check of the guard, cached in the process
  probe,    \* the one cost reservation a run has for its probe
  proven,   \* whether the probe's pass is cached
  beats,    \* heartbeat intervals that still fire
  held      \* whether the scheduler holds the handle of one

process == <<lead, helper, sig, chunks>>
checks  == <<guard, probe, proven>>
timers  == <<beats, held>>
book    == <<calls, checks, timers, session>>
stream  == <<heard, marker>>
vars    == <<at, turn, stream, process, codex, tree, ret, book>>

\* What a clarification and a result can be, by what is done about them:
\* silent is a protected matter with no question, vague a low confidence.
Clarification == {"ready", "asks", "protected", "silent", "vague"}
Result  == {"completed", "decision", "blocked", "failed"}
Outcome == Result \cup {"missing", "threw", "unprobed", "collided"}

\* said: what was parsed; fault: a violation of the tool policy, or a result
\* block that is no result; stop: whether the observer asked to terminate;
\* rest: a valid result in the captured output that no observer was shown.
Nothing == [said |-> "none", fault |-> FALSE, stop |-> FALSE, rest |-> "none"]
Heard   == [said : Clarification \cup Result \cup {"none"}, fault : BOOLEAN,
            stop : BOOLEAN, rest : Result \cup {"none"}]
UpLead == lead = "up"    \* 'exit' in place of 'close'
Up == lead = "up" \/ helper = "up"

\* stopped: why it was killed, if it was.
Answerer == [lead : {"none", "up", "done", "killed"}, tool : BOOLEAN,
             stopped : {"none", "timeout", "max_buffer"}]
NoAnswerer == [lead |-> "none", tool |-> FALSE, stopped |-> "none"]

TypeOK ==
  /\ at \in {"idle", "check", "probe", "probing", "spawn", "hook", "listen",
             "codex", "returned"}
  /\ turn \in 0..4 /\ heard \in Heard /\ marker \in BOOLEAN
  /\ lead \in {"none", "up", "exited", "killed"} /\ helper \in {"none", "up"}
  /\ sig \in {"none", "term", "kill", "over"} /\ chunks \in 0..MaxChunks
  /\ codex \in Answerer /\ session \in BOOLEAN
  /\ tree \in [head : 0..MaxCommits, dirty : BOOLEAN]
  /\ ret \in Outcome \cup {"none"} /\ calls \in 0..MaxCalls
  /\ guard \in {"unknown", "ok", "bad"} /\ proven \in BOOLEAN
  /\ probe \in {"none", "active", "unavailable", "released"}
  /\ beats \in 0..(4 * MaxCalls) /\ held \in BOOLEAN

Init ==
  /\ at = "idle" /\ turn = 0 /\ heard = Nothing /\ marker = FALSE
  /\ lead = "none" /\ helper = "none" /\ sig = "none" /\ chunks = 0
  /\ codex = NoAnswerer /\ session = FALSE
  /\ tree = [head |-> 0, dirty |-> FALSE]
  /\ ret = "none" /\ calls = 0
  /\ guard = "unknown" /\ probe = "none" /\ proven = FALSE
  /\ beats = 0 /\ held = FALSE

-----------------------------------------------------------------------------
(* The checks of the guard                                                 *)

Return(outcome) == at' = "returned" /\ ret' = outcome

\* A pause for clarification asks the user if it has questions to show.
Pause(asks) == Return(IF asks THEN "decision" ELSE "failed")

ExecuteTask ==
  /\ at = "idle" /\ calls < MaxCalls
  /\ at' = "check" /\ calls' = calls + 1 /\ ret' = "none"
  /\ turn' = 0 /\ heard' = Nothing /\ marker' = FALSE
  /\ lead' = "none" /\ helper' = "none" /\ sig' = "none" /\ chunks' = 0
  /\ tree' = [tree EXCEPT !.dirty = FALSE]
  /\ UNCHANGED <<codex, session, checks, timers>>

\* Whatever the first check comes to is kept for the life of the process.
Checked == IF guard = "unknown" THEN {"ok", "bad"} ELSE {guard}

SelfCheck ==
  /\ at = "check"
  /\ \E result \in Checked :
       /\ guard' = result
       /\ IF result = "ok" THEN at' = "probe" /\ UNCHANGED ret ELSE Pause(FALSE)
  /\ UNCHANGED <<codex, turn, stream, process, tree, calls, probe, proven>>
  /\ UNCHANGED <<session, timers>>

\* Its reservation is a row with a fixed key, so the second one throws.
ReserveProbe ==
  /\ at = "probe"
  /\ \/ proven /\ at' = "spawn" /\ turn' = 1 /\ UNCHANGED <<ret, probe>>
     \/ ~proven /\ probe = "none" /\ probe' = "active" /\ at' = "probing"
          /\ UNCHANGED <<turn, ret>>
     \/ ~proven /\ probe # "none" /\ Return("collided")
          /\ UNCHANGED <<turn, probe>>
     \/ ~proven /\ probe = "none" /\ Pause(FALSE)   \* the budget refuses
          /\ UNCHANGED <<turn, probe>>
  /\ UNCHANGED <<codex, stream, process, tree, calls, guard, proven, timers>>
  /\ UNCHANGED session

\* The guard blocked, it did not, no tool was called, nothing was sent.
ProbeOutcome == {"pass", "ineffective", "unavailable", "unsent"}

\* Only a probe that provably sent nothing is given back.
Settled(outcome) == IF outcome = "unsent" THEN "released" ELSE "unavailable"

Probe ==
  /\ at = "probing"
  /\ \E outcome \in ProbeOutcome :
       /\ probe' = Settled(outcome)
       /\ proven' = (outcome = "pass")
       /\ CASE outcome = "pass" -> at' = "spawn" /\ turn' = 1 /\ UNCHANGED ret
            [] outcome = "ineffective" -> Pause(FALSE) /\ UNCHANGED turn
            [] OTHER -> Return("unprobed") /\ UNCHANGED turn
  /\ UNCHANGED <<codex, session, stream, process, tree, calls, guard, timers>>

-----------------------------------------------------------------------------
(* A turn: its process, its output, its end                                *)

SpawnTurn ==
  /\ at = "spawn"
  /\ heard' = Nothing /\ sig' = "none" /\ chunks' = 0 /\ helper' = "none"
  /\ \/ lead' = "up" /\ at' = "hook"
     \/ lead' = "exited" /\ at' = "listen"   \* it cannot be started
  /\ session' = (session \/ turn = 1)
  /\ UNCHANGED <<codex, turn, marker, tree, ret, calls, checks, timers>>

\* The finally of runWithClarification removes the session before a pause is
\* returned, but does not wait for the implementation it has returned.
CleanUp ==
  /\ turn = 4 /\ session /\ lead # "none" /\ at \in {"hook", "listen"}
  /\ session' = FALSE
  /\ UNCHANGED <<codex, at, turn, stream, process, tree, ret, calls, checks>>
  /\ UNCHANGED timers

\* The hook starts a heartbeat and writes the pid.  When it throws, before or
\* after the heartbeat, the child is left without a prompt, a listener or a
\* timeout.
OnSpawn ==
  /\ at = "hook"
  /\ \/ at' = "listen" /\ beats' = beats + 1 /\ held' = TRUE /\ UNCHANGED ret
     \/ /\ \/ beats' = beats + 1 /\ held' = TRUE
           \/ UNCHANGED timers
        /\ Return(IF turn = 4 THEN "missing" ELSE "threw")
  /\ session' = (session /\ at' = "listen")
  /\ UNCHANGED <<codex, turn, stream, process, tree, calls, checks>>

\* A tool that is refused: by its line, or by the guard before there is one.
Refused == {"forbidden", "blocked-tool"}

Event ==
  IF turn < 4 THEN Clarification \cup Refused \cup {"noise"}
              ELSE Result \cup {"bad-block", "message-end", "noise"}

\* A line of a turn of questions, and one of the turn that implements.
HearClarification(h, e) ==
  CASE e \in Clarification -> [h EXCEPT !.said = e, !.stop = TRUE]
    [] e = "forbidden" -> [h EXCEPT !.fault = TRUE, !.stop = TRUE]
    [] OTHER -> h

HearResult(h, e) ==
  CASE e \in Result -> [h EXCEPT !.said = e, !.stop = TRUE]
    [] e = "bad-block" -> [h EXCEPT !.fault = TRUE]
    [] e = "message-end" -> [h EXCEPT !.stop = h.fault]
    [] OTHER -> h

\* After a line that stops the process the rest of its chunk is not looked at,
\* but it is captured.
Consume(h, e) ==
  CASE h.stop -> [h EXCEPT !.rest = IF e \in Result THEN e ELSE @]
    [] ~h.stop /\ turn < 4 -> HearClarification(h, e)
    [] OTHER -> HearResult(h, e)

ConsumeChunk(chunk) ==
  LET first == Consume(heard, chunk[1])
  IN  IF Len(chunk) = 1 THEN first ELSE Consume(first, chunk[2])

\* Chunks are heard until the stream closes, also after a termination.
OnChunk ==
  /\ at = "listen" /\ lead = "up" /\ chunks < MaxChunks
  /\ \E chunk \in [1..1 -> Event] \cup [1..2 -> Event] :
       LET h == ConsumeChunk(chunk) IN
       /\ heard' = [h EXCEPT !.stop = FALSE]
       /\ marker' = (marker \/ \E i \in DOMAIN chunk : chunk[i] \in Refused)
       /\ sig' = IF h.stop /\ sig = "none" THEN "term" ELSE sig
  /\ chunks' = chunks + 1
  /\ UNCHANGED <<codex, at, turn, lead, helper, tree, ret, book>>

\* A tool of the implementation runs on its own and inherits the stream.
StartTool ==
  /\ at = "listen" /\ turn = 4 /\ lead = "up" /\ helper = "none" /\ sig = "none"
  /\ helper' = "up"
  /\ UNCHANGED <<codex, at, turn, stream, lead, sig, chunks, tree, ret, book>>

\* What a tool does it does whether or not anybody listens.
Works ==
  /\ turn = 4 /\ (helper = "up" \/ (at = "listen" /\ lead = "up"))
  /\ \/ tree.head < MaxCommits
          /\ tree' = [head |-> tree.head + 1, dirty |-> FALSE]
     \/ ~tree.dirty /\ tree' = [tree EXCEPT !.dirty = TRUE]
  /\ UNCHANGED <<codex, at, turn, stream, process, ret, book>>

OnTimeout ==
  /\ at = "listen" /\ Up /\ sig = "none" /\ sig' = "term"
  /\ UNCHANGED <<codex, at, turn, stream, lead, helper, chunks, tree, ret>>
  /\ UNCHANGED book

\* The worker handles SIGTERM and exits, dies of it, or ends by itself.
LeadEnds ==
  /\ lead = "up" /\ at = "listen"
  /\ lead' \in IF sig = "none" THEN {"exited"} ELSE {"exited", "killed"}
  /\ UNCHANGED <<codex, at, turn, stream, helper, sig, chunks, tree, ret, book>>

ToolEnds ==
  /\ helper = "up" /\ helper' = "none"
  /\ UNCHANGED <<codex, at, turn, stream, lead, sig, chunks, tree, ret, book>>

\* A worker that ignores SIGTERM is left to itself.
KillTreeNever ==
  /\ sig = "term" /\ sig' = "over"
  /\ UNCHANGED <<codex, at, turn, stream, lead, helper, chunks, tree, ret>>
  /\ UNCHANGED book

\* Three seconds after SIGTERM, unless the leader has an exit code by then.
KillTree ==
  /\ sig = "term"
  /\ IF lead = "exited"
     THEN sig' = "over" /\ UNCHANGED <<lead, helper>>
     ELSE sig' = "kill" /\ lead' = "killed" /\ helper' = "none"
  /\ UNCHANGED <<codex, at, turn, stream, chunks, tree, ret, book>>

-----------------------------------------------------------------------------
(* What a turn comes to when its stream is closed                          *)

\* A line without its newline is consumed at the close.
LastLine == IF chunks = 0 THEN {"noise"} ELSE Event

Implement == at' = "spawn" /\ turn' = 4 /\ UNCHANGED ret

ViolatedSeen(h, m) == h.fault    \* the marker is not looked for
Violated(h, m) == h.fault \/ m

\* A turn in which a tool was blocked, seen on the stream or not, and a turn
\* without a question the user could answer, count as failed.
ClarificationEnds ==
  /\ at = "listen" /\ turn \in 1..3 /\ ~Up
  /\ \E line \in LastLine :
       LET h == Consume(heard, line)
           violated == Violated(h, marker')
       IN
       /\ heard' = [h EXCEPT !.stop = FALSE]
       /\ marker' = (marker \/ line \in Refused)
       /\ \/ /\ violated \/ h.said \in {"none", "silent", "vague"}
             /\ Pause(FALSE) /\ UNCHANGED turn
          \/ /\ ~violated
             /\ h.said = "protected" \/ (h.said = "asks" /\ turn = 3)
             /\ Pause(TRUE) /\ UNCHANGED turn
          \/ ~violated /\ h.said = "ready" /\ Implement
          \/ /\ ~violated /\ h.said = "asks" /\ turn < 3
             /\ at' = "codex" /\ UNCHANGED <<turn, ret>>
  /\ session' = (session /\ at' # "returned")
  /\ UNCHANGED <<codex, process, tree, calls, checks, timers>>

SpawnCodex ==
  /\ at = "codex" /\ codex = NoAnswerer
  /\ codex' = [NoAnswerer EXCEPT !.lead = "up"]
  /\ UNCHANGED <<at, turn, stream, process, tree, ret, book>>

\* It starts a tool, it ends, or a tool of it ends.
CodexMoves ==
  /\ at = "codex"
  /\ \/ codex.lead = "up" /\ codex' \in {[codex EXCEPT !.tool = TRUE],
                                        [codex EXCEPT !.lead = "done"]}
     \/ codex.tool /\ codex' = [codex EXCEPT !.tool = FALSE]
  /\ UNCHANGED <<at, turn, stream, process, tree, ret, book>>

\* Its timeout, or too much output, kills the process but not its tools.
StopCodex ==
  /\ at = "codex" /\ codex.stopped = "none" /\ codex.lead # "none"
  /\ codex.lead = "up" \/ codex.tool
  /\ \E why \in {"timeout", "max_buffer"} :
       codex' = [codex EXCEPT !.stopped = why,
                              !.lead = IF @ = "up" THEN "killed" ELSE @]
  /\ UNCHANGED <<at, turn, stream, process, tree, ret, book>>

\* It is heard when its output is closed: every question is answered, or the
\* questions go to the user - because Codex says so, answers too few, exits
\* with an error, was killed or took too long.
CodexAnswers ==
  /\ at = "codex" /\ codex.lead \in {"done", "killed"} /\ ~codex.tool
  /\ codex' = NoAnswerer
  /\ \/ codex.lead = "done" /\ codex.stopped # "timeout"
          /\ at' = "spawn" /\ turn' = turn + 1 /\ UNCHANGED ret
     \/ Pause(TRUE) /\ UNCHANGED turn
  /\ session' = (session /\ at' # "returned")
  /\ UNCHANGED <<stream, process, tree, calls, checks, timers>>

\* The result that was heard, else one that is in the captured output.
Extracted(h) ==
  CASE h.said # "none" -> h.said
    [] h.said = "none" /\ h.rest # "none" -> h.rest
    [] OTHER -> "missing"

ImplementationEnds ==
  /\ at = "listen" /\ turn = 4 /\ ~Up /\ ~session
  /\ \E line \in LastLine :
       LET h == Consume(heard, line) IN
       /\ heard' = [h EXCEPT !.stop = FALSE]
       /\ Return(Extracted(h))
  /\ UNCHANGED <<codex, turn, marker, process, tree, book>>

\* The interval is counted as cleared when there was none.
FinallyAgain ==
  /\ at = "returned"
  /\ at' = "idle" /\ held' = FALSE /\ beats' = beats - 1
  /\ UNCHANGED <<codex, turn, stream, process, tree, ret, calls, checks>>
  /\ UNCHANGED session

\* The finally of the scheduler clears the interval it has the handle of.
Finally ==
  /\ at = "returned"
  /\ at' = "idle" /\ held' = FALSE
  /\ beats' = IF held THEN beats - 1 ELSE beats
  /\ UNCHANGED <<codex, turn, stream, process, tree, ret, calls, checks>>
  /\ UNCHANGED session

Next ==
  \/ ExecuteTask \/ SelfCheck \/ ReserveProbe \/ Probe \/ SpawnTurn \/ CleanUp
  \/ OnSpawn \/ OnChunk \/ StartTool \/ Works \/ OnTimeout \/ LeadEnds
  \/ ToolEnds \/ KillTree \/ ClarificationEnds \/ SpawnCodex
  \/ CodexMoves \/ StopCodex \/ CodexAnswers \/ ImplementationEnds \/ Finally

Spec == Init /\ [][Next]_vars

\* The program runs on and its timers fire; SIGKILL kills; and a tool obeys
\* SIGTERM, or ends some time after the Codex it is of, unless it is stubborn.
FairSpec ==
  /\ Spec
  /\ WF_vars(SelfCheck) /\ WF_vars(ReserveProbe) /\ WF_vars(Probe)
  /\ WF_vars(SpawnTurn) /\ WF_vars(CleanUp) /\ WF_vars(OnSpawn)
  /\ WF_vars(OnTimeout)
  /\ WF_vars(KillTree) /\ WF_vars(ClarificationEnds)
  /\ WF_vars(SpawnCodex) /\ WF_vars(StopCodex) /\ WF_vars(CodexAnswers)
  /\ WF_vars(ImplementationEnds) /\ WF_vars(Finally)
  /\ WF_vars(~Stubborn /\ sig # "none" /\ ToolEnds)
  /\ WF_vars(~Stubborn /\ codex.lead # "up" /\ CodexMoves)

-----------------------------------------------------------------------------
(* Properties                                                              *)

\* The call as its caller sees it.
CallState ==
  CASE at = "idle" /\ ret = "none" -> "idle"
    [] at \in {"idle", "returned"} /\ ret # "none" ->
         (IF ret = "unprobed" THEN "failed" ELSE
          IF ret = "collided" THEN "threw" ELSE ret)
    [] at \notin {"idle", "returned"} /\ turn = 4 -> "writes"
    [] OTHER -> "reads"

Worker == CASE lead \in {"none", "up"} -> lead
            [] OTHER -> "gone"

Contract == INSTANCE WorkerCall WITH call <- CallState, worker <- Worker

\* PiRpcWorker.executeTask: the worktree changes only in the turn that
\* implements, never after the call has returned, and a completed result is of
\* a process that has ended.
ImplementsCall == Contract!CallSpec

\* runWithClarification: no turn implements unless the last word of the worker
\* was that it is ready, and no tool was blocked in any turn before - whichever
\* chunk the tool call arrived in, and whether or not its line was looked at.
ImplementsUnderstood ==
  [][turn' = 4 /\ turn # 4 => heard'.said = "ready" /\ ~marker']_vars

\* executeTask returns, whatever the worker prints, ignores or leaves running.
SessionReturns == at # "idle" ~> at = "idle"

\* HANDOFF-2026-07-29-BRIDGE-CLARIFICATION.md:5: the turns, the one that
\* implements included, are of the same temporary session.
SameSession == turn = 4 /\ Up => session

\* pi-rpc-worker.ts:830 pauses a call whose probe proved nothing to be retried;
\* stage-scheduler.ts:1540 keys the probe's reservation by the run.
ProbeRetriable == ret # "collided"

\* stage-scheduler.ts:1606: the heartbeat timer must be cleared on every exit.
HeartbeatCleared == at = "idle" => beats = 0
=============================================================================
