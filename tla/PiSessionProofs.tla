--------------------------- MODULE PiSessionProofs ---------------------------
(***************************************************************************)
(* What holds of every call of the worker, for any number of calls, chunks *)
(* and commits: where executeTask is decides what the process of the turn, *)
(* its tools and the last return value can be.  The session implements     *)
(* WorkerCall from there, step by step, and no turn implements anything    *)
(* that was not understood.                                                *)
(***************************************************************************)
EXTENDS PiSession, SequenceTheorems, TLAPS

-----------------------------------------------------------------------------
(* The inductive invariant                                                 *)

Ended == at \in {"idle", "returned"}

\* Turns of this call that have had their process, and so at most one
\* heartbeat; of a call that has ended, as many as there can be.
Begun == CASE Ended -> 4
           [] at \in {"spawn", "hook"} -> turn - 1
           [] OTHER -> turn

\* Every call starts a heartbeat per turn at most, and the scheduler holds the
\* handle of one only while there is one.
BeatInv ==
  /\ beats \in Nat /\ beats <= 4 * (calls - 1) + Begun
  /\ held => at # "idle" /\ beats > 0

\* A call has no result until it has ended, and every call that has ended, has.
ReturnInv ==
  /\ ~Ended => ret = "none" /\ calls > 0
  /\ at = "returned" => ret # "none" /\ calls > 0
  /\ at = "idle" /\ ret = "none" => calls = 0 /\ lead = "none"

\* Which turn it is, and what has become of its process.
TurnInv ==
  /\ at \in {"check", "probe", "probing"} => turn = 0 /\ lead = "none"
  /\ at \in {"spawn", "hook", "listen"} => turn \in 1..4
  /\ at = "codex" => turn \in 1..2
  /\ at \in {"spawn", "codex"} => lead # "up"
  /\ at = "hook" => lead = "up"
  /\ at = "listen" => lead # "none"

\* A process that was signalled exists, and one that is neither waited for nor
\* listened to was never signalled.
SignalInv ==
  /\ sig # "none" => lead # "none"
  /\ sig # "none" /\ at # "listen" => lead # "up"
  /\ helper = "up" => at = "listen" /\ turn = 4

\* The turn that implements has heard results, if anything.
HeardInv == turn = 4 /\ at \in {"hook", "listen"} =>
              heard.said \in Result \cup {"none"}

IInv == /\ TypeOK /\ BeatInv /\ ReturnInv /\ TurnInv /\ SignalInv /\ HeardInv

-----------------------------------------------------------------------------
(* What is made of a line                                                  *)

\* A line leaves the state of a turn well-formed, and while a turn implements
\* nothing is taken for its answer but a result.
LEMMA ConsumeType ==
  ASSUME turn \in 1..4, NEW h \in Heard, NEW e \in Event
  PROVE  /\ Consume(h, e) \in Heard
         /\ turn = 4 /\ h.said \in Result \cup {"none"} =>
              Consume(h, e).said \in Result \cup {"none"}
<1>1. CASE h.stop
  <2>1. Consume(h, e) = [h EXCEPT !.rest = IF e \in Result THEN e ELSE @]
    BY <1>1 DEF Consume
  <2> QED BY <2>1 DEF Heard
<1>2. CASE ~h.stop /\ turn < 4
  <2>1. Consume(h, e) = HearClarification(h, e)
    BY <1>2 DEF Consume
  <2>2. HearClarification(h, e) \in Heard
    BY DEF HearClarification, Heard, Clarification
  <2> QED BY <1>2, <2>1, <2>2
<1>3. CASE ~h.stop /\ turn = 4
  <2>1. Consume(h, e) = HearResult(h, e)
    BY <1>3 DEF Consume
  <2>2. /\ HearResult(h, e) \in Heard
        /\ HearResult(h, e).said \in Result \cup {h.said}
    BY DEF HearResult, Heard, Result
  <2> QED BY <2>1, <2>2
<1> QED BY <1>1, <1>2, <1>3

\* The same of a chunk, which has a line or two.
LEMMA ChunkType ==
  ASSUME turn \in 1..4, heard \in Heard,
         NEW chunk \in [1..1 -> Event] \cup [1..2 -> Event]
  PROVE  /\ ConsumeChunk(chunk) \in Heard
         /\ turn = 4 /\ heard.said \in Result \cup {"none"} =>
              ConsumeChunk(chunk).said \in Result \cup {"none"}
<1> DEFINE first == Consume(heard, chunk[1])
<1>1. /\ first \in Heard
      /\ turn = 4 /\ heard.said \in Result \cup {"none"} =>
           first.said \in Result \cup {"none"}
  BY ConsumeType
<1>2. CASE Len(chunk) = 1
  <2>1. ConsumeChunk(chunk) = first
    BY <1>2 DEF ConsumeChunk
  <2> QED BY <1>1, <2>1
<1>3. CASE Len(chunk) # 1
  <2>1. ConsumeChunk(chunk) = Consume(first, chunk[2])
    BY <1>3 DEF ConsumeChunk
  <2>2. CASE chunk \in [1..2 -> Event]
    <3>1. chunk[2] \in Event
      BY <2>2
    <3> HIDE DEF first
    <3> QED BY <1>1, <2>1, <3>1, ConsumeType
  <2>3. CASE chunk \in [1..1 -> Event]
    <3> DEFINE S == Event
    <3>1. chunk \in [1..1 -> S]
      BY <2>3
    <3> HIDE DEF S
    <3>2. chunk \in Seq(S) /\ DOMAIN chunk = 1..1
      BY <3>1, SeqDef
    <3>3. Len(chunk) = 1
      BY <3>2, LenProperties
    <3> QED BY <1>3, <3>3
  <2> QED BY <2>2, <2>3
<1> QED BY <1>2, <1>3

\* What a turn that implements is taken to have come to is an outcome.
LEMMA ExtractedType ==
  ASSUME NEW h \in Heard, h.said \in Result \cup {"none"}
  PROVE  Extracted(h) \in Result \cup {"missing"}
BY DEF Extracted, Heard

-----------------------------------------------------------------------------
(* The steps of a session                                                  *)

\* At the start no call has been made and nothing runs.
LEMMA InitKeeps == Init => IInv
<1> SUFFICES ASSUME Init PROVE IInv
  OBVIOUS
<1>1. TypeOK
  <2>1. heard \in Heard
    BY DEF Init, Nothing, Heard
  <2>2. codex \in Answerer
    BY DEF Init, NoAnswerer, Answerer
  <2>3. tree \in [head : 0..MaxCommits, dirty : BOOLEAN]
    BY SessionAssumption DEF Init
  <2>4. beats \in 0..(4 * MaxCalls) /\ calls \in 0..MaxCalls
    BY SessionAssumption DEF Init
  <2>5. turn \in 0..4 /\ chunks \in 0..MaxChunks
    BY SessionAssumption DEF Init
  <2> QED BY <2>1, <2>2, <2>3, <2>4, <2>5, Zenon DEF Init, TypeOK
<1>2. BeatInv
  BY DEF Init, BeatInv, Begun, Ended
<1> QED
  BY <1>1, <1>2
  DEF Init, IInv, ReturnInv, TurnInv, SignalInv, HeardInv, Ended

\* A call starts with nothing of the last one.
LEMMA ExecuteTaskKeeps == ASSUME IInv, ExecuteTask PROVE IInv'
<1> USE DEF ExecuteTask, vars, process, checks, timers, book, stream
<1>1. TypeOK'
  <2>1. tree' \in [head : 0..MaxCommits, dirty : BOOLEAN]
    BY SessionAssumption DEF IInv, TypeOK
  <2>2. heard' \in Heard /\ marker' \in BOOLEAN
    BY DEF Nothing, Heard
  <2> QED
    BY <2>1, <2>2, SessionAssumption
    DEF IInv, TypeOK, BeatInv, Begun, Ended, ReturnInv
<1>2. BeatInv'
  BY SessionAssumption
  DEF IInv, TypeOK, BeatInv, Begun, Ended, ReturnInv, TurnInv
<1>3. ReturnInv' /\ TurnInv' /\ SignalInv' /\ HeardInv'
  BY DEF IInv, TypeOK, ReturnInv, TurnInv, SignalInv, HeardInv, Ended, Up
<1> QED BY <1>1, <1>2, <1>3 DEF IInv

\* The session goes while the last turn runs.
LEMMA CleanUpKeeps == ASSUME IInv, CleanUp PROVE IInv'
<1> USE DEF CleanUp, vars, process, checks, timers, book, stream
<1>1. TypeOK'
  <2>1. session' \in BOOLEAN
    OBVIOUS
  <2> QED
    BY <2>1, SessionAssumption
    DEF IInv, TypeOK, BeatInv, Begun, Ended, ReturnInv
<1>2. BeatInv'
  BY SessionAssumption
  DEF IInv, TypeOK, BeatInv, Begun, Ended, ReturnInv, TurnInv
<1>3. ReturnInv' /\ TurnInv' /\ SignalInv' /\ HeardInv'
  BY DEF IInv, TypeOK, ReturnInv, TurnInv, SignalInv, HeardInv, Ended, Up
<1> QED BY <1>1, <1>2, <1>3 DEF IInv

\* The hook starts the one heartbeat of its turn.
LEMMA OnSpawnKeeps == ASSUME IInv, OnSpawn PROVE IInv'
<1> USE DEF OnSpawn, vars, process, checks, timers, book, stream
<1>1. TypeOK'
  <2>1. session' \in BOOLEAN /\ held' \in BOOLEAN
    BY Zenon DEF IInv, TypeOK
  <2>2. beats' \in 0..(4 * MaxCalls)
    BY SessionAssumption
    DEF IInv, TypeOK, BeatInv, Begun, Ended, ReturnInv, TurnInv
  <2>3. ret' \in Outcome \cup {"none"}
    BY DEF IInv, TypeOK, Return, Outcome
  <2> QED
    BY <2>1, <2>2, <2>3, SessionAssumption
    DEF IInv, TypeOK, BeatInv, Begun, Ended, ReturnInv, Return
<1>2. BeatInv'
  BY SessionAssumption
  DEF IInv, TypeOK, BeatInv, Begun, Ended, ReturnInv, TurnInv, Return, Outcome
<1>3. ReturnInv' /\ TurnInv' /\ SignalInv' /\ HeardInv'
  BY DEF IInv, TypeOK, ReturnInv, TurnInv, SignalInv, HeardInv, Ended, Up,
         Return, Outcome
<1> QED BY <1>1, <1>2, <1>3 DEF IInv

\* Only the worktree changes.
LEMMA WorksKeeps == ASSUME IInv, Works PROVE IInv'
<1> USE DEF Works, vars, process, checks, timers, book, stream
<1>1. TypeOK'
  <2> DEFINE T == [head : 0..MaxCommits, dirty : BOOLEAN]
  <2>1. ASSUME tree.head < MaxCommits,
               tree' = [head |-> tree.head + 1, dirty |-> FALSE]
        PROVE  tree' \in T
    <3>1. tree.head + 1 \in 0..MaxCommits
      BY <2>1, SessionAssumption DEF IInv, TypeOK
    <3> QED BY <2>1, <3>1
  <2>2. ASSUME tree' = [tree EXCEPT !.dirty = TRUE]
        PROVE  tree' \in T
    BY <2>2 DEF IInv, TypeOK
  <2>3. tree' \in T
    BY <2>1, <2>2
  <2> QED
    BY <2>3, SessionAssumption
    DEF IInv, TypeOK, BeatInv, Begun, Ended, ReturnInv
<1>2. BeatInv'
  BY SessionAssumption
  DEF IInv, TypeOK, BeatInv, Begun, Ended, ReturnInv, TurnInv
<1>3. ReturnInv' /\ TurnInv' /\ SignalInv' /\ HeardInv'
  BY DEF IInv, TypeOK, ReturnInv, TurnInv, SignalInv, HeardInv, Ended, Up
<1> QED BY <1>1, <1>2, <1>3 DEF IInv

\* Codex is started between two turns,
LEMMA SpawnCodexKeeps == ASSUME IInv, SpawnCodex PROVE IInv'
<1> USE DEF SpawnCodex, vars, process, checks, timers, book, stream
<1>1. TypeOK'
  <2>1. codex' \in Answerer
    BY DEF IInv, TypeOK, NoAnswerer, Answerer
  <2> QED
    BY <2>1, SessionAssumption
    DEF IInv, TypeOK, BeatInv, Begun, Ended, ReturnInv
<1>2. BeatInv'
  BY SessionAssumption
  DEF IInv, TypeOK, BeatInv, Begun, Ended, ReturnInv, TurnInv
<1>3. ReturnInv' /\ TurnInv' /\ SignalInv' /\ HeardInv'
  BY DEF IInv, TypeOK, ReturnInv, TurnInv, SignalInv, HeardInv, Ended, Up
<1> QED BY <1>1, <1>2, <1>3 DEF IInv

\* ends and runs tools,
LEMMA CodexMovesKeeps == ASSUME IInv, CodexMoves PROVE IInv'
<1> USE DEF CodexMoves, vars, process, checks, timers, book, stream
<1>1. TypeOK'
  <2>1. codex' \in Answerer
    BY DEF IInv, TypeOK, Answerer
  <2> QED
    BY <2>1, SessionAssumption
    DEF IInv, TypeOK, BeatInv, Begun, Ended, ReturnInv
<1>2. BeatInv'
  BY SessionAssumption
  DEF IInv, TypeOK, BeatInv, Begun, Ended, ReturnInv, TurnInv
<1>3. ReturnInv' /\ TurnInv' /\ SignalInv' /\ HeardInv'
  BY DEF IInv, TypeOK, ReturnInv, TurnInv, SignalInv, HeardInv, Ended, Up
<1> QED BY <1>1, <1>2, <1>3 DEF IInv

\* and is stopped, and none of it touches the process of a turn.
LEMMA StopCodexKeeps == ASSUME IInv, StopCodex PROVE IInv'
<1> USE DEF StopCodex, vars, process, checks, timers, book, stream
<1>1. TypeOK'
  <2>1. codex' \in Answerer
    BY DEF IInv, TypeOK, Answerer
  <2> QED
    BY <2>1, SessionAssumption
    DEF IInv, TypeOK, BeatInv, Begun, Ended, ReturnInv
<1>2. BeatInv'
  BY SessionAssumption
  DEF IInv, TypeOK, BeatInv, Begun, Ended, ReturnInv, TurnInv
<1>3. ReturnInv' /\ TurnInv' /\ SignalInv' /\ HeardInv'
  BY DEF IInv, TypeOK, ReturnInv, TurnInv, SignalInv, HeardInv, Ended, Up
<1> QED BY <1>1, <1>2, <1>3 DEF IInv

\* An answer opens the next turn, which is not the one that implements.
LEMMA CodexAnswersKeeps == ASSUME IInv, CodexAnswers PROVE IInv'
<1> USE DEF CodexAnswers, vars, process, checks, timers, book, stream
<1>1. TypeOK'
  <2>1. codex' \in Answerer
    BY DEF NoAnswerer, Answerer
  <2>2. session' \in BOOLEAN
    BY Zenon DEF IInv, TypeOK
  <2> QED
    BY <2>1, <2>2, SessionAssumption
    DEF IInv, TypeOK, BeatInv, Begun, Ended, ReturnInv,
        TurnInv, Return, Pause, Outcome, Result
<1>2. BeatInv'
  BY SessionAssumption
  DEF IInv, TypeOK, BeatInv, Begun, Ended, ReturnInv, TurnInv, Return, Pause,
      Outcome, Result
<1>3. ReturnInv' /\ TurnInv' /\ SignalInv' /\ HeardInv'
  BY DEF IInv, TypeOK, ReturnInv, TurnInv, SignalInv, HeardInv, Ended, Up,
         Return, Pause, Outcome, Result
<1> QED BY <1>1, <1>2, <1>3 DEF IInv

\* The scheduler clears the heartbeat it has the handle of, if there is one.
LEMMA FinallyKeeps == ASSUME IInv, Finally PROVE IInv'
<1> USE DEF Finally, vars, process, checks, timers, book, stream
<1>1. TypeOK'
  <2>1. held' \in BOOLEAN
    BY Zenon
  <2> QED
    BY <2>1, SessionAssumption
    DEF IInv, TypeOK, BeatInv, Begun, Ended, ReturnInv
<1>2. BeatInv'
  BY SessionAssumption
  DEF IInv, TypeOK, BeatInv, Begun, Ended, ReturnInv, TurnInv
<1>3. ReturnInv' /\ TurnInv' /\ SignalInv' /\ HeardInv'
  BY DEF IInv, TypeOK, ReturnInv, TurnInv, SignalInv, HeardInv, Ended, Up
<1> QED BY <1>1, <1>2, <1>3 DEF IInv

\* A check of the guard comes before any process.
LEMMA SelfCheckKeeps == ASSUME IInv, SelfCheck PROVE IInv'
<1> USE DEF SelfCheck, vars, process, checks, timers, book, stream
<1>1. TypeOK'
  BY SessionAssumption DEF IInv, TypeOK, BeatInv, Begun, Ended, ReturnInv,
                           Return, Pause, Checked, Outcome, Result
<1>2. BeatInv'
  BY SessionAssumption
  DEF IInv, TypeOK, BeatInv, Begun, Ended, ReturnInv, TurnInv, Return, Pause,
      Checked, Outcome, Result
<1>3. ReturnInv' /\ TurnInv' /\ SignalInv' /\ HeardInv'
  BY DEF IInv, TypeOK, ReturnInv, TurnInv, SignalInv, HeardInv, Ended, Up,
         Return, Pause, Checked, Outcome, Result
<1> QED BY <1>1, <1>2, <1>3 DEF IInv

\* So does the reservation of the probe,
LEMMA ReserveProbeKeeps == ASSUME IInv, ReserveProbe PROVE IInv'
<1> USE DEF ReserveProbe, vars, process, checks, timers, book, stream
<1>1. TypeOK'
  BY SessionAssumption DEF IInv, TypeOK, BeatInv, Begun, Ended, ReturnInv,
                           Return, Pause, Outcome, Result
<1>2. BeatInv'
  BY SessionAssumption
  DEF IInv, TypeOK, BeatInv, Begun, Ended, ReturnInv, TurnInv, Return, Pause,
      Outcome, Result
<1>3. ReturnInv' /\ TurnInv' /\ SignalInv' /\ HeardInv'
  BY DEF IInv, TypeOK, ReturnInv, TurnInv, SignalInv, HeardInv, Ended, Up,
         Return, Pause, Outcome, Result
<1> QED BY <1>1, <1>2, <1>3 DEF IInv

\* and the probe.
LEMMA ProbeKeeps == ASSUME IInv, Probe PROVE IInv'
<1> USE DEF Probe, vars, process, checks, timers, book, stream
<1>1. TypeOK'
  BY SessionAssumption DEF IInv, TypeOK, BeatInv, Begun, Ended, ReturnInv,
                           Return, Pause, ProbeOutcome, Settled, Outcome,
                           Result
<1>2. BeatInv'
  BY SessionAssumption
  DEF IInv, TypeOK, BeatInv, Begun, Ended, ReturnInv, TurnInv, Return, Pause,
      ProbeOutcome, Settled, Outcome, Result
<1>3. ReturnInv' /\ TurnInv' /\ SignalInv' /\ HeardInv'
  BY DEF IInv, TypeOK, ReturnInv, TurnInv, SignalInv, HeardInv, Ended, Up,
         Return, Pause, ProbeOutcome, Settled, Outcome, Result
<1> QED BY <1>1, <1>2, <1>3 DEF IInv

\* A turn starts with nothing heard and nothing signalled.
LEMMA SpawnTurnKeeps == ASSUME IInv, SpawnTurn PROVE IInv'
<1> USE DEF SpawnTurn, vars, process, checks, timers, book, stream
<1>1. TypeOK'
  BY SessionAssumption DEF IInv, TypeOK, BeatInv, Begun, Ended, ReturnInv,
                           Nothing, Heard
<1>2. BeatInv'
  BY SessionAssumption
  DEF IInv, TypeOK, BeatInv, Begun, Ended, ReturnInv, TurnInv, Nothing, Heard
<1>3. ReturnInv' /\ TurnInv' /\ SignalInv' /\ HeardInv'
  BY DEF IInv, TypeOK, ReturnInv, TurnInv, SignalInv, HeardInv, Ended, Up,
         Nothing, Heard
<1> QED BY <1>1, <1>2, <1>3 DEF IInv

\* Tools are of the turn that implements.
LEMMA StartToolKeeps == ASSUME IInv, StartTool PROVE IInv'
<1> USE DEF StartTool, vars, process, checks, timers, book, stream
<1>1. TypeOK'
  BY SessionAssumption DEF IInv, TypeOK, BeatInv, Begun, Ended, ReturnInv
<1>2. BeatInv'
  BY SessionAssumption
  DEF IInv, TypeOK, BeatInv, Begun, Ended, ReturnInv, TurnInv
<1>3. ReturnInv' /\ TurnInv' /\ SignalInv' /\ HeardInv'
  BY DEF IInv, TypeOK, ReturnInv, TurnInv, SignalInv, HeardInv, Ended, Up
<1> QED BY <1>1, <1>2, <1>3 DEF IInv

\* What is signalled has been started,
LEMMA OnTimeoutKeeps == ASSUME IInv, OnTimeout PROVE IInv'
<1> USE DEF OnTimeout, vars, process, checks, timers, book, stream
<1>1. TypeOK'
  BY SessionAssumption DEF IInv, TypeOK, BeatInv, Begun, Ended, ReturnInv, Up
<1>2. BeatInv'
  BY SessionAssumption
  DEF IInv, TypeOK, BeatInv, Begun, Ended, ReturnInv, TurnInv, Up
<1>3. ReturnInv' /\ TurnInv' /\ SignalInv' /\ HeardInv'
  BY DEF IInv, TypeOK, ReturnInv, TurnInv, SignalInv, HeardInv, Ended, Up, Up
<1> QED BY <1>1, <1>2, <1>3 DEF IInv

\* and what has ended is not started again.
LEMMA LeadEndsKeeps == ASSUME IInv, LeadEnds PROVE IInv'
<1> USE DEF LeadEnds, vars, process, checks, timers, book, stream
<1>1. TypeOK'
  BY SessionAssumption DEF IInv, TypeOK, BeatInv, Begun, Ended, ReturnInv
<1>2. BeatInv'
  BY SessionAssumption
  DEF IInv, TypeOK, BeatInv, Begun, Ended, ReturnInv, TurnInv
<1>3. ReturnInv' /\ TurnInv' /\ SignalInv' /\ HeardInv'
  BY DEF IInv, TypeOK, ReturnInv, TurnInv, SignalInv, HeardInv, Ended, Up
<1> QED BY <1>1, <1>2, <1>3 DEF IInv

\* The same of a tool.
LEMMA ToolEndsKeeps == ASSUME IInv, ToolEnds PROVE IInv'
<1> USE DEF ToolEnds, vars, process, checks, timers, book, stream
<1>1. TypeOK'
  BY SessionAssumption DEF IInv, TypeOK, BeatInv, Begun, Ended, ReturnInv
<1>2. BeatInv'
  BY SessionAssumption
  DEF IInv, TypeOK, BeatInv, Begun, Ended, ReturnInv, TurnInv
<1>3. ReturnInv' /\ TurnInv' /\ SignalInv' /\ HeardInv'
  BY DEF IInv, TypeOK, ReturnInv, TurnInv, SignalInv, HeardInv, Ended, Up
<1> QED BY <1>1, <1>2, <1>3 DEF IInv

\* SIGKILL ends all of the group.
LEMMA KillTreeKeeps == ASSUME IInv, KillTree PROVE IInv'
<1> USE DEF KillTree, vars, process, checks, timers, book, stream
<1>1. TypeOK'
  BY SessionAssumption DEF IInv, TypeOK, BeatInv, Begun, Ended, ReturnInv
<1>2. BeatInv'
  BY SessionAssumption
  DEF IInv, TypeOK, BeatInv, Begun, Ended, ReturnInv, TurnInv
<1>3. ReturnInv' /\ TurnInv' /\ SignalInv' /\ HeardInv'
  BY DEF IInv, TypeOK, ReturnInv, TurnInv, SignalInv, HeardInv, Ended, Up
<1> QED BY <1>1, <1>2, <1>3 DEF IInv

\* A chunk is heard; a chunk that stops the turn sends SIGTERM.
LEMMA OnChunkKeeps == ASSUME IInv, OnChunk PROVE IInv'
<1> USE DEF vars, process, checks, timers, book, stream
<1>1. PICK chunk \in [1..1 -> Event] \cup [1..2 -> Event] :
        LET h == ConsumeChunk(chunk) IN
        /\ heard' = [h EXCEPT !.stop = FALSE]
        /\ marker' = (marker \/ \E i \in DOMAIN chunk : chunk[i] \in Refused)
        /\ sig' = IF h.stop /\ sig = "none" THEN "term" ELSE sig
  BY Zenon DEF OnChunk
<1>2. /\ at = "listen" /\ lead = "up" /\ chunks < MaxChunks
      /\ chunks' = chunks + 1
      /\ UNCHANGED <<codex, at, turn, lead, helper, tree, ret, book>>
  BY DEF OnChunk
<1> DEFINE h == ConsumeChunk(chunk)
<1>3. /\ h \in Heard
      /\ turn = 4 => h.said \in Result \cup {"none"}
  BY <1>2, ChunkType DEF IInv, TypeOK, TurnInv, HeardInv
<1>4. /\ heard' = [h EXCEPT !.stop = FALSE]
      /\ marker' \in BOOLEAN
      /\ sig' \in {sig, "term"} /\ (sig' = "none" => sig = "none")
  BY <1>1
<1> HIDE DEF h
<1>5. /\ heard' \in Heard
      /\ turn = 4 => heard'.said \in Result \cup {"none"}
  BY <1>3, <1>4 DEF Heard
<1>6. chunks' \in 0..MaxChunks
  BY <1>2, SessionAssumption DEF IInv, TypeOK
<1>7. TypeOK'
  BY <1>2, <1>4, <1>5, <1>6 DEF IInv, TypeOK
<1>8. BeatInv'
  BY <1>2 DEF IInv, BeatInv, Begun, Ended
<1>9. ReturnInv' /\ TurnInv' /\ SignalInv' /\ HeardInv'
  BY <1>2, <1>4, <1>5 DEF IInv, ReturnInv, TurnInv, SignalInv, HeardInv, Ended
<1> QED BY <1>7, <1>8, <1>9 DEF IInv

\* The last line of a turn that asks is heard, and decides what comes next.
LEMMA ClarificationEndsKeeps == ASSUME IInv, ClarificationEnds PROVE IInv'
<1> USE DEF vars, process, checks, timers, book, stream
<1>1. PICK line \in LastLine :
        LET h == Consume(heard, line)
            violated == Violated(h, marker')
        IN
        /\ heard' = [h EXCEPT !.stop = FALSE]
        /\ marker' = (marker \/ line \in Refused)
        /\ \/ /\ violated \/ h.said \in {"none", "silent", "vague"}
              /\ Pause(FALSE) /\ UNCHANGED turn
           \/ /\ ~violated
              /\ h.said = "protected" \/ (h.said = "asks" /\ turn = 3)
              /\ Pause(TRUE) /\ UNCHANGED turn
           \/ ~violated /\ h.said = "ready" /\ Implement
           \/ /\ ~violated /\ h.said = "asks" /\ turn < 3
              /\ at' = "codex" /\ UNCHANGED <<turn, ret>>
  BY Zenon DEF ClarificationEnds
<1>2. /\ at = "listen" /\ turn \in 1..3 /\ ~Up
      /\ session' = (session /\ at' # "returned")
      /\ UNCHANGED <<codex, process, tree, calls, checks, timers>>
  BY DEF ClarificationEnds
<1>3. line \in Event
  BY <1>2 DEF LastLine, Event
<1>4. Consume(heard, line) \in Heard
  BY <1>2, <1>3, ConsumeType DEF IInv, TypeOK
<1>5. heard' = [Consume(heard, line) EXCEPT !.stop = FALSE]
  BY <1>1
<1>6. heard' \in Heard
  BY <1>4, <1>5 DEF Heard
<1>7. marker' \in BOOLEAN /\ session' \in BOOLEAN
  BY <1>1, <1>2, Zenon
<1>8. \/ at' = "returned" /\ ret' \in {"decision", "failed"} /\ turn' = turn
      \/ at' = "spawn" /\ turn' = 4 /\ ret' = ret
      \/ at' = "codex" /\ turn < 3 /\ turn' = turn /\ ret' = ret
  BY <1>1 DEF Pause, Return, Implement
<1>9. TypeOK'
  BY <1>2, <1>6, <1>7, <1>8 DEF IInv, TypeOK, Outcome, Result
<1>10. BeatInv'
  BY <1>2, <1>8 DEF IInv, TypeOK, BeatInv, Begun, Ended
<1>11. ReturnInv' /\ TurnInv' /\ SignalInv' /\ HeardInv'
  BY <1>2, <1>8
  DEF IInv, ReturnInv, TurnInv, SignalInv, HeardInv, Ended, Up
<1> QED BY <1>9, <1>10, <1>11 DEF IInv

\* The turn that implements returns what its process came to.
LEMMA ImplementationReturns ==
  ASSUME IInv, ImplementationEnds
  PROVE  /\ at = "listen" /\ turn = 4 /\ ~Up
         /\ at' = "returned" /\ ret' \in Result \cup {"missing"}
         /\ heard' \in Heard
         /\ UNCHANGED <<codex, turn, marker, process, tree, book>>
<1>1. PICK line \in LastLine :
        LET h == Consume(heard, line) IN
        /\ heard' = [h EXCEPT !.stop = FALSE]
        /\ Return(Extracted(h))
  BY Zenon DEF ImplementationEnds
<1>2. /\ at = "listen" /\ turn = 4 /\ ~Up
      /\ UNCHANGED <<codex, turn, marker, process, tree, book>>
  BY DEF ImplementationEnds
<1> DEFINE h == Consume(heard, line)
<1>3. line \in Event
  BY <1>2 DEF LastLine, Event
<1>4. h \in Heard /\ h.said \in Result \cup {"none"}
  BY <1>2, <1>3, ConsumeType DEF IInv, TypeOK, HeardInv
<1>5. heard' = [h EXCEPT !.stop = FALSE] /\ Return(Extracted(h))
  BY <1>1
<1> HIDE DEF h
<1>6. heard' \in Heard
  BY <1>4, <1>5 DEF Heard
<1>7. at' = "returned" /\ ret' \in Result \cup {"missing"}
  BY <1>4, <1>5, ExtractedType DEF Return
<1> QED BY <1>2, <1>6, <1>7

\* The end of the turn that implements is the end of the call.
LEMMA ImplementationEndsKeeps == ASSUME IInv, ImplementationEnds PROVE IInv'
<1> USE DEF vars, process, checks, timers, book, stream
<1>1. /\ at = "listen" /\ turn = 4 /\ ~Up
      /\ at' = "returned" /\ ret' \in Result \cup {"missing"}
      /\ heard' \in Heard
      /\ UNCHANGED <<codex, turn, marker, process, tree, book>>
  BY ImplementationReturns
<1>2. TypeOK'
  BY <1>1 DEF IInv, TypeOK, Outcome, Result
<1>3. BeatInv'
  BY <1>1 DEF IInv, BeatInv, Begun, Ended
<1>4. ReturnInv' /\ TurnInv' /\ SignalInv' /\ HeardInv'
  BY <1>1 DEF IInv, ReturnInv, TurnInv, SignalInv, HeardInv, Ended, Up, Result
<1> QED BY <1>2, <1>3, <1>4 DEF IInv

\* Every step keeps the invariant.
LEMMA StepKeeps == IInv /\ [Next]_vars => IInv'
<1> SUFFICES ASSUME IInv, [Next]_vars PROVE IInv'
  OBVIOUS
<1>1. CASE UNCHANGED vars
  BY <1>1
  DEF vars, process, checks, timers, book, stream, IInv, TypeOK, BeatInv,
      Begun, Ended, ReturnInv, TurnInv, SignalInv, HeardInv
<1>2. CASE Next
  BY <1>2, ExecuteTaskKeeps, SelfCheckKeeps, ReserveProbeKeeps, ProbeKeeps,
     SpawnTurnKeeps, CleanUpKeeps, OnSpawnKeeps, OnChunkKeeps, StartToolKeeps,
     WorksKeeps, OnTimeoutKeeps, LeadEndsKeeps, ToolEndsKeeps, KillTreeKeeps,
     ClarificationEndsKeeps, SpawnCodexKeeps, CodexMovesKeeps, StopCodexKeeps,
     CodexAnswersKeeps, ImplementationEndsKeeps, FinallyKeeps
  DEF Next
<1> QED BY <1>1, <1>2

-----------------------------------------------------------------------------
(* Theorems                                                                *)

\* In every reachable state the process of the turn, its tools, the heartbeats
\* and the last return value are what the place of executeTask says they are.
THEOREM Invariant == Spec => []IInv
BY InitKeeps, StepKeeps, PTL DEF Spec

\* A session keeps its types: no more heartbeats than turns of all calls.
THEOREM TypeCorrect == Spec => []TypeOK
<1>1. IInv => TypeOK
  BY DEF IInv
<1> QED
  BY <1>1, Invariant, PTL

\* No turn implements unless the last word of the worker was that it is ready,
\* and no tool was blocked in any turn before.
THEOREM UnderstoodFirst == Spec => ImplementsUnderstood
<1>1. IInv /\ [Next]_vars =>
        [turn' = 4 /\ turn # 4 => heard'.said = "ready" /\ ~marker']_vars
  <2> SUFFICES ASSUME IInv, Next, turn' = 4, turn # 4
               PROVE  heard'.said = "ready" /\ ~marker'
    OBVIOUS
  <2>1. ClarificationEnds
    <3>0. turn \in 0..3 /\ turn' = 4
      BY DEF IInv, TypeOK
    <3>1. ASSUME CodexAnswers PROVE FALSE
      <4>1. turn \in 1..2 /\ turn' \in {turn, turn + 1}
        BY <3>1 DEF IInv, TurnInv, CodexAnswers
      <4> QED BY <3>0, <4>1
    <3>2. ASSUME Probe PROVE FALSE
      <4>1. turn' \in {turn, 1}
        BY <3>2 DEF Probe, ProbeOutcome
      <4> QED BY <3>0, <4>1
    <3>3. ASSUME ReserveProbe PROVE FALSE
      <4>1. turn' \in {turn, 1}
        BY <3>3 DEF ReserveProbe
      <4> QED BY <3>0, <4>1
    <3>4. ASSUME OnChunk PROVE FALSE
      BY <3>4, Zenon DEF OnChunk
    <3>5. ASSUME ImplementationEnds PROVE FALSE
      BY <3>5, Zenon DEF ImplementationEnds
    <3>6. ASSUME ExecuteTask PROVE FALSE
      BY <3>0, <3>6 DEF ExecuteTask
    <3> QED
      BY <3>1, <3>2, <3>3, <3>4, <3>5, <3>6, Zenon
      DEF Next, SelfCheck, SpawnTurn, CleanUp, OnSpawn, StartTool,
          Works, OnTimeout, LeadEnds, ToolEnds, KillTree, SpawnCodex,
          CodexMoves, StopCodex, Finally
  <2>2. PICK line \in LastLine :
          LET h == Consume(heard, line)
              violated == Violated(h, marker')
          IN
          /\ heard' = [h EXCEPT !.stop = FALSE]
          /\ \/ turn' = turn
             \/ ~violated /\ h.said = "ready"
    BY <2>1, Zenon DEF ClarificationEnds
  <2>3. line \in Event
    BY <2>1 DEF LastLine, Event, ClarificationEnds
  <2>4. Consume(heard, line) \in Heard
    BY <2>1, <2>3, ConsumeType DEF IInv, TypeOK, ClarificationEnds
  <2> QED BY <2>2, <2>4 DEF Violated, Heard
<1> QED
  BY <1>1, Invariant, PTL DEF Spec, ImplementsUnderstood

-----------------------------------------------------------------------------
(* A session implements WorkerCall                                         *)

\* A step that keeps the place, the process and the worktree is none of a call.
LEMMA Stutters ==
  ASSUME UNCHANGED <<at, turn, ret, lead, tree>>
  PROVE  UNCHANGED Contract!callVars
BY DEF Contract!callVars, CallState, Worker

\* A session that has not returned is an open call, and reads or writes.
LEMMA OpenCall ==
  ASSUME IInv, ~Ended
  PROVE  /\ CallState = IF turn = 4 THEN "writes" ELSE "reads"
         /\ Contract!Open
BY DEF IInv, TypeOK, ReturnInv, Ended, CallState, Contract!Open

\* The call while it is open, wherever the step leaves it.
LEMMA OpenThen ==
  ASSUME at' \notin {"idle", "returned"}
  PROVE  CallState' = IF turn' = 4 THEN "writes" ELSE "reads"
BY DEF CallState

\* A call that ends returns an outcome of the contract, and its work is done
\* by the process that was let to write.
LEMMA Ends ==
  ASSUME IInv, ~Ended, at' = "returned", UNCHANGED <<lead, tree>>,
         \/ ret' \in Outcome \ {"completed"}
         \/ ret' = "completed" /\ turn = 4 /\ at = "listen" /\ lead # "up"
  PROVE  Contract!CallNext
<1> DEFINE outcome == IF ret' = "unprobed" THEN "failed" ELSE
                      IF ret' = "collided" THEN "threw" ELSE ret'
<1>1. /\ outcome \in Contract!Outcome /\ ret' # "none"
      /\ outcome = "completed" => ret' = "completed"
  BY DEF Outcome, Result, Contract!Outcome
<1>2. CallState' = outcome
  <2>1. ret' # "none" /\ at' = "returned"
    BY <1>1
  <2> QED BY <2>1 DEF CallState
<1>3. Worker' = Worker
  BY DEF Worker
<1>4. Contract!Open
  BY OpenCall
<1>5. outcome = "completed" => CallState = "writes" /\ Worker = "gone"
  BY <1>1, OpenCall DEF IInv, TurnInv, Worker
<1> HIDE DEF outcome
<1>6. Contract!Returns(outcome)
  BY <1>2, <1>3, <1>4, <1>5 DEF Contract!Returns
<1> QED BY <1>1, <1>6 DEF Contract!CallNext

\* A turn that ends without the call goes on reading, or begins to write once
\* its process has ended.
LEMMA GoesOn ==
  ASSUME IInv, ~Ended, at' \notin {"idle", "returned"}, turn # 4,
         lead # "up", UNCHANGED <<lead, tree>>
  PROVE  [Contract!CallNext]_(Contract!callVars)
<1>1. CallState = "reads" /\ Contract!Open
  BY OpenCall
<1>2. Worker' = Worker /\ Worker # "up"
  BY DEF Worker
<1>3. CASE turn' = 4
  <2>1. CallState' = "writes"
    BY <1>3, OpenThen
  <2> QED BY <1>1, <1>2, <2>1 DEF Contract!CallNext, Contract!Understood
<1>4. CASE turn' # 4
  <2>1. CallState' = "reads"
    BY <1>4, OpenThen
  <2> QED BY <1>1, <1>2, <2>1 DEF Contract!callVars
<1> QED BY <1>3, <1>4

\* A call begins once the one before it has returned.
LEMMA BeginsCall == ASSUME IInv, ExecuteTask PROVE Contract!CallNext
<1>1. /\ at = "idle" /\ at' = "check" /\ turn' = 0 /\ lead' = "none"
      /\ tree' = [tree EXCEPT !.dirty = FALSE]
  BY DEF ExecuteTask
<1>2. ~Contract!Open
  BY <1>1 DEF IInv, TypeOK, Outcome, Result, CallState, Contract!Open
<1>3. CallState' = "reads"
  BY <1>1, OpenThen
<1>4. Worker' = "none"
  BY <1>1 DEF Worker
<1> QED BY <1>1, <1>2, <1>3, <1>4 DEF Contract!CallNext, Contract!Begin

\* A new turn is a new process, which may be none from the start.
LEMMA SpawnsWorker == ASSUME IInv, SpawnTurn PROVE Contract!CallNext
<1>1. /\ at = "spawn" /\ at' \in {"hook", "listen"}
      /\ lead' \in {"up", "exited"} /\ UNCHANGED <<turn, tree>>
  BY DEF SpawnTurn
<1>2. Contract!Open /\ CallState' = CallState
  BY <1>1, OpenCall, OpenThen DEF Ended
<1>3. Worker # "up" /\ Worker' \in {"up", "gone"}
  BY <1>1 DEF IInv, TurnInv, Worker
<1> QED BY <1>1, <1>2, <1>3 DEF Contract!CallNext, Contract!Spawn

\* Only the turn that implements changes the worktree, and it has a process.
LEMMA WorksWrites == ASSUME IInv, Works PROVE Contract!CallNext
<1>1. /\ turn = 4 /\ at = "listen"
      /\ \/ /\ tree.head < MaxCommits
            /\ tree' = [head |-> tree.head + 1, dirty |-> FALSE]
         \/ ~tree.dirty /\ tree' = [tree EXCEPT !.dirty = TRUE]
      /\ UNCHANGED <<at, turn, lead, ret>>
  BY DEF Works, process, IInv, SignalInv
<1>2. CallState = "writes"
  BY <1>1, OpenCall DEF Ended
<1>3. Worker # "none"
  BY <1>1 DEF IInv, TypeOK, TurnInv, Worker
<1>4. UNCHANGED <<CallState, Worker>>
  BY <1>1 DEF CallState, Worker
<1> QED
  BY <1>1, <1>2, <1>3, <1>4 DEF Contract!CallNext, Contract!Works

\* The end of the process is all a step that changes nothing but the process
\* can come to.
LEMMA ProcessEnds ==
  ASSUME lead' \in {lead, "exited", "killed"}, lead # "none",
         UNCHANGED <<at, turn, ret, tree>>
  PROVE  [Contract!CallNext]_(Contract!callVars)
<1>1. CallState' = CallState
  BY DEF CallState
<1>2. CASE Worker' = Worker
  BY <1>1, <1>2 DEF Contract!callVars
<1>3. CASE Worker' # Worker
  <2>1. Worker = "up" /\ Worker' = "gone"
    BY <1>3 DEF Worker
  <2> QED BY <1>1, <2>1 DEF Contract!CallNext, Contract!Vanish
<1> QED BY <1>2, <1>3

\* The scheduler forgets nothing of a call that has returned.
LEMMA ForgetsNothing ==
  ASSUME IInv, Finally PROVE UNCHANGED Contract!callVars
<1>1. /\ at = "returned" /\ at' = "idle" /\ ret # "none"
      /\ UNCHANGED <<turn, ret, lead, tree>>
  BY DEF Finally, process, IInv, ReturnInv
<1>2. CallState' = CallState
  BY <1>1 DEF CallState
<1> QED BY <1>1, <1>2 DEF Contract!callVars, Worker

\* Every step of a session is a step of the call or none.
LEMMA CallStep == IInv /\ [Next]_vars => [Contract!CallNext]_(Contract!callVars)
<1> SUFFICES ASSUME IInv, [Next]_vars
             PROVE  [Contract!CallNext]_(Contract!callVars)
  OBVIOUS
<1> USE DEF process, checks, timers, book, stream
<1>1. CASE UNCHANGED vars
  BY <1>1, Stutters DEF vars
<1>2. CASE ExecuteTask
  BY <1>2, BeginsCall
<1>3. CASE SelfCheck
  <2>1. CASE at' = "probe"
    BY <1>3, <2>1, GoesOn DEF SelfCheck, IInv, TurnInv, Ended
  <2>2. CASE at' # "probe"
    <3>1. at' = "returned" /\ ret' = "failed" /\ UNCHANGED <<lead, tree>>
      BY <1>3, <2>2 DEF SelfCheck, Pause, Return
    <3> QED BY <1>3, <3>1, Ends DEF SelfCheck, Ended, Outcome, Result
  <2> QED BY <2>1, <2>2
<1>4. CASE ReserveProbe
  <2>1. /\ at = "probe" /\ UNCHANGED <<lead, tree>>
        /\ \/ at' \in {"spawn", "probing"}
           \/ at' = "returned" /\ ret' \in {"failed", "collided"}
    BY <1>4 DEF ReserveProbe, Pause, Return
  <2>2. turn # 4 /\ lead # "up" /\ ~Ended
    BY <2>1 DEF IInv, TurnInv, Ended
  <2> QED BY <2>1, <2>2, GoesOn, Ends DEF Outcome, Result
<1>5. CASE Probe
  <2>1. /\ at = "probing" /\ UNCHANGED <<lead, tree>>
        /\ \/ at' = "spawn"
           \/ at' = "returned" /\ ret' \in {"failed", "unprobed"}
    BY <1>5 DEF Probe, ProbeOutcome, Pause, Return
  <2>2. turn # 4 /\ lead # "up" /\ ~Ended
    BY <2>1 DEF IInv, TurnInv, Ended
  <2> QED BY <2>1, <2>2, GoesOn, Ends DEF Outcome, Result
<1>6. CASE SpawnTurn
  BY <1>6, SpawnsWorker
<1>7. CASE OnSpawn
  <2>1. /\ at = "hook" /\ UNCHANGED <<turn, lead, tree>>
        /\ \/ at' = "listen" /\ ret' = ret
           \/ at' = "returned" /\ ret' \in {"missing", "threw"}
    BY <1>7 DEF OnSpawn, Return
  <2>2. CASE at' = "listen"
    <3>1. CallState' = CallState
      BY <2>1, <2>2, OpenCall, OpenThen DEF Ended
    <3> QED BY <2>1, <3>1 DEF Contract!callVars, Worker
  <2>3. CASE at' # "listen"
    BY <2>1, <2>3, Ends DEF Ended, Outcome, Result
  <2> QED BY <2>2, <2>3
<1>8. CASE OnChunk
  BY <1>8, Stutters DEF OnChunk
<1>9. CASE CleanUp \/ StartTool \/ OnTimeout \/ ToolEnds
  BY <1>9, Stutters DEF CleanUp, StartTool, OnTimeout, ToolEnds
<1>10. CASE SpawnCodex \/ CodexMoves \/ StopCodex
  BY <1>10, Stutters DEF SpawnCodex, CodexMoves, StopCodex
<1>11. CASE Works
  BY <1>11, WorksWrites
<1>12. CASE LeadEnds
  BY <1>12, ProcessEnds DEF LeadEnds
<1>13. CASE KillTree
  BY <1>13, ProcessEnds DEF KillTree, IInv, SignalInv
<1>14. CASE ClarificationEnds
  <2>1. /\ at = "listen" /\ turn \in 1..3 /\ ~Up /\ UNCHANGED <<lead, tree>>
        /\ \/ at' \in {"spawn", "codex"}
           \/ at' = "returned" /\ ret' \in {"decision", "failed"}
    <3>1. /\ at = "listen" /\ turn \in 1..3 /\ ~Up
          /\ UNCHANGED <<lead, tree>>
      BY <1>14 DEF ClarificationEnds
    <3>2. Pause(TRUE) \/ Pause(FALSE) \/ Implement \/ at' = "codex"
      BY <1>14, Zenon DEF ClarificationEnds
    <3> QED BY <3>1, <3>2 DEF Pause, Return, Implement
  <2> QED BY <2>1, GoesOn, Ends DEF Ended, Up, Outcome, Result
<1>15. CASE CodexAnswers
  <2>1. /\ at = "codex" /\ UNCHANGED <<lead, tree>>
        /\ \/ at' = "spawn"
           \/ at' = "returned" /\ ret' = "decision"
    BY <1>15 DEF CodexAnswers, Pause, Return
  <2>2. turn # 4 /\ lead # "up" /\ ~Ended
    BY <2>1 DEF IInv, TurnInv, Ended
  <2> QED BY <2>1, <2>2, GoesOn, Ends DEF Outcome, Result
<1>16. CASE ImplementationEnds
  <2>1. /\ at = "listen" /\ turn = 4 /\ lead # "up"
        /\ at' = "returned" /\ ret' \in Result \cup {"missing"}
        /\ UNCHANGED <<lead, tree>>
    BY <1>16, ImplementationReturns DEF Up
  <2> QED BY <2>1, Ends DEF Ended, Outcome
<1>17. CASE Finally
  BY <1>17, ForgetsNothing
<1> QED
  BY <1>1, <1>2, <1>3, <1>4, <1>5, <1>6, <1>7, <1>8, <1>9, <1>10, <1>11,
     <1>12, <1>13, <1>14, <1>15, <1>16, <1>17
  DEF Next

\* PiRpcWorker.executeTask keeps the contract of a call: the worktree changes
\* only in the turn that implements, never after the call has returned, and a
\* completed result is of a process that has ended.
THEOREM CallRefined == Spec => ImplementsCall
<1>1. Init => Contract!CallInit
  BY DEF Init, Contract!CallInit, CallState, Worker
<1> QED
  BY <1>1, CallStep, Invariant, PTL
  DEF Spec, ImplementsCall, Contract!CallSpec
=============================================================================
