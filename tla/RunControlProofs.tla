-------------------------- MODULE RunControlProofs --------------------------
(***************************************************************************)
(* Theorems about RunControl, for any tasks, any number of terminals and   *)
(* any number of commands, questions, findings and crashes.                *)
(***************************************************************************)
EXTENDS RunControl, TLAPS, FiniteSetTheorems, NaturalsInduction,
        WellFoundedInduction

-----------------------------------------------------------------------------
(* The inductive invariant. *)

\* Among decisions ds, one that exists and is of a type.
Known(d, type, ds) == d \in DOMAIN ds /\ ds[d].type = type

\* What a coroutine brings to recordStagePause: no decision with a plain
\* pause, and otherwise, at the latest when the pause is written, a decision of
\* the pause's own type.
Linked(w, ds) ==
  /\ w.type = "none" => w.on = 0
  /\ w.at = "asking" /\ w.on # 0 => Known(w.on, w.type, ds)
  /\ w.at = "deciding" => w.type # "none"
  /\ w.at = "recording" /\ w.type # "none" => Known(w.on, w.type, ds)
WorkLinked == \A s \in Shells, c \in Actors : Linked(work[s][c], decision)

\* A command approves a decision that exists.
ShellLinked ==
  \A s \in Shells : shell[s].at \in {"grant", "granting"} => shell[s].on \in All

\* The open pause has a number, and a plain one hangs on nothing.
PauseLinked ==
  /\ pause.id = 0 => pause = NoPause
  /\ pause.type = "none" => pause.on = 0
  /\ PauseAnswerable

IInv == TypeOK /\ WorkLinked /\ ShellLinked /\ PauseLinked /\ PausedHasRecord

-----------------------------------------------------------------------------
(* Decisions. *)

\* The names of decision types and of run states.
LEMMA Names ==
  /\ DOMAIN Gate = {"plan", "budget", "scope", "product", "merge"}
  /\ DOMAIN RunNext = {"planning", "running", "waiting_decision", "completed",
                       "failed", "canceled"}
BY DEF Gate, RunNext

\* A decision is known by its place, a positive number.
LEMMA Places ==
  ASSUME TypeOK
  PROVE  /\ All = 1..Len(decision) /\ Len(decision) \in Nat
         /\ All \subseteq Nat \ {0}
         /\ \A d \in All : decision[d] \in Decision
BY DEF TypeOK, All

\* A nonempty set of numbers has a least one.
LEMMA Least ==
  ASSUME NEW S \in SUBSET Nat, S # {}
  PROVE  \E x \in S : \A y \in S : x <= y
<1> DEFINE R == {p \in Nat \X Nat : p[1] < p[2]}
<1>1. IsWellFoundedOn(R, Nat)
  BY NatLessThanWellFounded DEF OpToRel
<1> HIDE DEF R
<1>2. PICK x \in S : \A y \in S : <<y, x>> \notin R
  BY <1>1, WFMin
<1>3. \A y \in S : ~(y < x)
  BY <1>2 DEF R
<1> QED
  BY <1>3

\* A nonempty set of decisions has a first and a last member, and these are
\* what First and Last choose.
LEMMA FirstLast ==
  ASSUME TypeOK, NEW ds \in SUBSET All, ds # {}
  PROVE  First(ds) \in ds /\ Last(ds) \in ds
<1> DEFINE n == Len(decision)
           back == {n - d : d \in ds}
<1>1. n \in Nat /\ ds \subseteq 1..n
  BY Places
<1>2. \E d \in ds : \A e \in ds : d <= e
  BY <1>1, Least
<1>3. \E d \in ds : \A e \in ds : d >= e
  <2>1. back \subseteq Nat
    BY <1>1
  <2>2. PICK x \in back : \A y \in back : x <= y
    <3>1. back # {}
      OBVIOUS
    <3> HIDE DEF back
    <3> QED BY <2>1, <3>1, Least
  <2>3. PICK d \in ds : x = n - d
    BY <2>2
  <2>4. \A e \in ds : n - d <= n - e
    BY <2>2, <2>3
  <2> QED
    BY <1>1, <2>4
<1> QED
  BY <1>2, <1>3 DEF First, Last

\* A new decision is pending, comes last, and changes no other.
LEMMA Created ==
  ASSUME TypeOK, NEW type \in DOMAIN Gate, NEW about \in Actors,
         Create(type, about)
  PROVE  /\ decision' \in Seq(Decision)
         /\ All' = All \cup {Len(decision) + 1}
         /\ Len(decision') = Len(decision) + 1
         /\ \A d \in All : decision'[d] = decision[d]
         /\ decision'[Len(decision) + 1].type = type
         /\ decision'[Len(decision) + 1].status = "pending"
         /\ Len(decision) + 1 \notin All
<1> DEFINE new == [type |-> type, about |-> about, status |-> "pending"]
<1>1. new \in Decision /\ decision' = Append(decision, new)
  BY DEF Decision, Create
<1>2. decision \in Seq(Decision)
  BY DEF TypeOK
<1> HIDE DEF new
<1>3. /\ decision' \in Seq(Decision) /\ Len(decision') = Len(decision) + 1
      /\ \A d \in 1..Len(decision) : decision'[d] = decision[d]
      /\ decision'[Len(decision) + 1] = new
      /\ DOMAIN decision' = 1..(Len(decision) + 1)
  BY <1>1, <1>2
<1> QED
  BY <1>3, Places DEF All, new

\* Answering a decision changes its status and nothing else.
LEMMA Decided ==
  ASSUME TypeOK, NEW d \in All, NEW status \in {"approved", "revoked"},
         Decide(d, status)
  PROVE  /\ decision' \in Seq(Decision) /\ All' = All
         /\ Len(decision') = Len(decision)
         /\ \A e \in All : decision'[e].type = decision[e].type
         /\ \A e \in All \ {d} : decision'[e] = decision[e]
         /\ decision'[d].status = status
<1>1. decision \in Seq(Decision) /\ d \in 1..Len(decision)
  BY Places DEF TypeOK
<1>2. decision[d] \in Decision
  BY Places
<1>3. [decision[d] EXCEPT !.status = status] \in Decision
  BY <1>2 DEF Decision
<1>4. decision' = [decision EXCEPT
                     ![d] = [decision[d] EXCEPT !.status = status]]
  BY DEF Decide
<1>5. decision' \in Seq(Decision) /\ Len(decision') = Len(decision)
  BY <1>1, <1>3, <1>4
<1>6. DOMAIN decision' = DOMAIN decision
  BY <1>4
<1>7. \A e \in All \ {d} : decision'[e] = decision[e]
  BY <1>4 DEF All
<1>8. decision'[d] = [decision[d] EXCEPT !.status = status]
  BY <1>4 DEF All
<1> QED
  BY <1>2, <1>5, <1>6, <1>7, <1>8 DEF All, Decision

-----------------------------------------------------------------------------
(* Types. *)

\* The null records have their types.
LEMMA Nulls == /\ Idle \in Shell /\ NoPause \in Pause /\ NoWork \in Work
               /\ Free \in [Actors -> Work]
BY DEF Idle, Shell, Command, NoPause, Pause, NoWork, Work, Free, Type

\* What becomes of the command in a terminal, the rest of the terminals aside.
LEMMA ShellMoves ==
  ASSUME TypeOK, NEW s \in Shells, NEW at \in Command, Moves(s, at)
  PROVE  /\ shell' \in [Shells -> Shell]
         /\ \A r \in Shells \ {s} : shell'[r] = shell[r]
         /\ shell'[s].at = at /\ shell'[s].on = shell[s].on
<1>1. shell \in [Shells -> Shell] /\ shell[s] \in Shell
  BY DEF TypeOK
<1>2. shell' = [shell EXCEPT ![s] = [shell[s] EXCEPT !.at = at]]
  BY DEF Moves
<1>3. [shell[s] EXCEPT !.at = at] \in Shell
  BY <1>1 DEF Shell
<1> QED
  BY <1>1, <1>2, <1>3 DEF Shell

\* A command that has ended.
LEMMA ShellEnds ==
  ASSUME TypeOK, NEW s \in Shells, Ends(s)
  PROVE  /\ shell' \in [Shells -> Shell]
         /\ \A r \in Shells \ {s} : shell'[r] = shell[r]
         /\ shell'[s] = Idle
BY Nulls DEF TypeOK, Ends

\* A coroutine that takes a step, the others aside.
Becomes(s, c, w) == work' = [work EXCEPT ![s][c] = w]
LEMMA WorkSet ==
  ASSUME TypeOK, NEW s \in Shells, NEW c \in Actors, NEW w \in Work,
         Becomes(s, c, w)
  PROVE  /\ work' \in [Shells -> [Actors -> Work]]
         /\ work'[s][c] = w
         /\ \A r \in Shells, d \in Actors :
              ~(r = s /\ d = c) => work'[r][d] = work[r][d]
<1>1. work \in [Shells -> [Actors -> Work]] /\ work[s] \in [Actors -> Work]
  BY DEF TypeOK
<1>2. work' = [work EXCEPT ![s] = [work[s] EXCEPT ![c] = w]]
  BY DEF Becomes
<1>3. [work[s] EXCEPT ![c] = w] \in [Actors -> Work]
  BY <1>1
<1> QED
  BY <1>1, <1>2, <1>3

\* A coroutine that only goes on to another place.
LEMMA WorkAt ==
  ASSUME TypeOK, NEW s \in Shells, NEW c \in Actors,
         NEW at \in {"passed", "busy"},
         work' = [work EXCEPT ![s][c].at = at]
  PROVE  /\ work' \in [Shells -> [Actors -> Work]]
         /\ work'[s][c].at = at /\ work'[s][c].type = work[s][c].type
         /\ work'[s][c].on = work[s][c].on
         /\ \A r \in Shells, d \in Actors :
              ~(r = s /\ d = c) => work'[r][d] = work[r][d]
<1> DEFINE w == [work[s][c] EXCEPT !.at = at]
<1>1. work[s][c] \in Work
  BY DEF TypeOK
<1>2. w \in Work /\ w.at = at /\ w.type = work[s][c].type
      /\ w.on = work[s][c].on
  BY <1>1 DEF Work
<1>3. work \in [Shells -> [Actors -> Work]] /\ work[s] \in [Actors -> Work]
  BY DEF TypeOK
<1>4. work' = [work EXCEPT ![s] = [work[s] EXCEPT ![c] = w]]
  OBVIOUS
<1> HIDE DEF w
<1>5. /\ [work[s] EXCEPT ![c] = w] \in [Actors -> Work]
      /\ [work[s] EXCEPT ![c] = w][c] = w
      /\ \A d \in Actors \ {c} : [work[s] EXCEPT ![c] = w][d] = work[s][d]
  BY <1>2, <1>3
<1>6. /\ work' \in [Shells -> [Actors -> Work]]
      /\ work'[s] = [work[s] EXCEPT ![c] = w]
      /\ \A r \in Shells \ {s} : work'[r] = work[r]
  BY <1>3, <1>4, <1>5
<1> QED
  BY <1>2, <1>5, <1>6

\* All coroutines of a terminal at once.
LEMMA WorkAll ==
  ASSUME TypeOK, NEW s \in Shells, NEW f \in [Actors -> Work],
         work' = [work EXCEPT ![s] = f]
  PROVE  /\ work' \in [Shells -> [Actors -> Work]] /\ work'[s] = f
         /\ \A r \in Shells \ {s} : work'[r] = work[r]
BY DEF TypeOK

\* The members of a set of tasks are counted by a number.
LEMMA ActiveCount == ASSUME NEW s PROVE Cardinality(Active(s)) \in Nat
<1>1. IsFiniteSet(Active(s))
  BY ControlAssumption, FS_Subset DEF Active
<1> QED
  BY <1>1, FS_CardinalityType

\* What a coroutine asks recordStagePause for is well typed.
LEMMA AskingType ==
  ASSUME NEW type \in Type, NEW d \in Nat
  PROVE  Asking(type, d) \in Work
BY DEF Asking, Work

\* The decision a pause is linked to is one of the coroutine's type that is
\* pending, or the one it came with.
LEMMA LinkFits ==
  ASSUME TypeOK, NEW s \in Shells, NEW c \in Actors
  PROVE  LET w == work[s][c]
         IN /\ Link(s, c) \in Nat
            /\ w.type = "none" \/ w.on # 0 => Link(s, c) = w.on
            /\ w.type # "none" /\ w.on = 0 /\ Link(s, c) # 0 =>
                 Link(s, c) \in All /\ decision[Link(s, c)].type = w.type
<1> DEFINE w == work[s][c]
           fit == {d \in Pending(All) : /\ decision[d].type = w.type
                                        /\ decision[d].about \in {Loop, c}}
<1>1. w \in Work /\ w.on \in Nat
  BY DEF TypeOK, Work
<1>2. fit \subseteq All /\ All \subseteq Nat
  BY Places DEF Pending
<1>3. CASE w.type = "none" \/ w.on # 0
  <2>1. Link(s, c) = w.on
    BY <1>3 DEF Link
  <2> QED
    BY <1>1, <1>3, <2>1
<1>4. CASE w.type # "none" /\ w.on = 0 /\ fit # {}
  <2>1. Link(s, c) = Last(fit)
    BY <1>4 DEF Link
  <2>2. Last(fit) \in fit
    BY <1>2, <1>4, FirstLast
  <2> QED
    BY <1>1, <1>2, <1>4, <2>1, <2>2
<1>5. CASE w.type # "none" /\ w.on = 0 /\ fit = {}
  <2>1. Link(s, c) = 0
    BY <1>5 DEF Link
  <2> QED
    BY <1>1, <1>5, <2>1
<1> QED
  BY <1>3, <1>4, <1>5

\* A worker or a coroutine of the loop that is gone.
LEMMA Going ==
  ASSUME TypeOK, NEW s \in Shells, NEW c \in Actors, NEW kept \in BOOLEAN,
         \/ c \in Tasks /\ Leaves(s, c, kept) /\ UNCHANGED shell
         \/ Gone(s, c)
  PROVE  /\ shell' \in [Shells -> Shell]
         /\ work' \in [Shells -> [Actors -> Work]] /\ lock' \subseteq Tasks
         /\ \A r \in Shells : shell'[r] = shell[r] \/ shell'[r] = Idle
         /\ \A r \in Shells, d \in Actors :
              \/ work'[r][d] = work[r][d]
              \/ /\ work'[r][d].at \in {"idle", "over"}
                 /\ work'[r][d].type = "none" /\ work'[r][d].on = 0
<1>1. ASSUME c \in Tasks, NEW k \in BOOLEAN, Leaves(s, c, k), UNCHANGED shell
      PROVE  /\ shell' \in [Shells -> Shell]
             /\ work' \in [Shells -> [Actors -> Work]] /\ lock' \subseteq Tasks
             /\ \A r \in Shells : shell'[r] = shell[r] \/ shell'[r] = Idle
             /\ \A r \in Shells, d \in Actors :
                  \/ work'[r][d] = work[r][d]
                  \/ /\ work'[r][d].at \in {"idle", "over"}
                     /\ work'[r][d].type = "none" /\ work'[r][d].on = 0
  <2> DEFINE w == IF shell[s].at = "pick" THEN [NoWork EXCEPT !.at = "over"]
                  ELSE NoWork
  <2>1. w \in Work /\ w.at \in {"idle", "over"} /\ w.type = "none" /\ w.on = 0
    BY Nulls DEF NoWork, Work
  <2>2. Becomes(s, c, w) /\ c \in Actors
    BY <1>1 DEF Leaves, Actors, Becomes
  <2> HIDE DEF w
  <2>3. /\ work' \in [Shells -> [Actors -> Work]] /\ work'[s][c] = w
        /\ \A r \in Shells, d \in Actors :
             ~(r = s /\ d = c) => work'[r][d] = work[r][d]
    BY <2>1, <2>2, WorkSet
  <2>4. lock' \subseteq Tasks /\ shell' \in [Shells -> Shell]
    BY <1>1 DEF TypeOK, Leaves
  <2> QED
    BY <1>1, <2>1, <2>3, <2>4
<1>2. CASE Gone(s, c) /\ c = Loop
  <2>1. work' = [work EXCEPT ![s] = Free] /\ Ends(s) /\ UNCHANGED lock
    BY <1>2 DEF Gone
  <2>2. /\ work' \in [Shells -> [Actors -> Work]] /\ work'[s] = Free
        /\ \A r \in Shells \ {s} : work'[r] = work[r]
    BY <2>1, Nulls, WorkAll
  <2>3. \A d \in Actors : Free[d].at = "idle" /\ Free[d].type = "none"
                          /\ Free[d].on = 0
    BY DEF Free, NoWork
  <2> QED
    BY <2>1, <2>2, <2>3, ShellEnds DEF TypeOK
<1>3. CASE Gone(s, c) /\ c # Loop
  BY <1>1, <1>3 DEF Gone, Actors, Kept
<1> QED
  BY <1>1, <1>2, <1>3

\* The counters stay within their bounds.
LEMMA Counted ==
  ASSUME TypeOK
  PROVE  LET B == [pauses : Nat, commands : 0..MaxCommands,
                   troubles : 0..MaxTroubles, crashes : 0..MaxCrashes]
         IN /\ \A s : Types(s) => bounds' \in B
            /\ [bounds EXCEPT !.pauses = @ + 1] \in B
            /\ bounds.troubles < MaxTroubles =>
                 [bounds EXCEPT !.troubles = @ + 1] \in B
            /\ bounds.crashes < MaxCrashes =>
                 [bounds EXCEPT !.crashes = @ + 1] \in B
<1> DEFINE B == [pauses : Nat, commands : 0..MaxCommands,
                 troubles : 0..MaxTroubles, crashes : 0..MaxCrashes]
<1>1. bounds \in B
  BY DEF TypeOK
<1>2. \A s : Types(s) => bounds' \in B
  BY <1>1, ControlAssumption DEF Types
<1>3. [bounds EXCEPT !.pauses = @ + 1] \in B
  BY <1>1
<1>4. bounds.troubles < MaxTroubles => [bounds EXCEPT !.troubles = @ + 1] \in B
  BY <1>1, ControlAssumption
<1>5. bounds.crashes < MaxCrashes => [bounds EXCEPT !.crashes = @ + 1] \in B
  BY <1>1, ControlAssumption
<1> QED
  BY <1>2, <1>3, <1>4, <1>5

\* Every step keeps the types.
LEMMA TypeStep ==
  ASSUME IInv, [Next]_vars
  PROVE  TypeOK'
<1>0. TypeOK /\ WorkLinked /\ ShellLinked
  BY DEF IInv
<1> USE <1>0, ControlAssumption, Names, Nulls
<1>1. ASSUME NEW s \in Shells, Submit(s) PROVE TypeOK'
  BY <1>1, ShellMoves DEF Submit, TypeOK, Command
<1>2. ASSUME NEW s \in Shells, Approve(s) PROVE TypeOK'
  <2>1. ASSUME NEW d \in Pending(OfGate("G1")),
               shell' = [shell EXCEPT ![s] = [Idle EXCEPT !.at = "grant",
                                                          !.on = d]]
        PROVE  shell' \in [Shells -> Shell]
    <3>1. d \in Nat
      BY Places DEF Pending, OfGate
    <3>2. [Idle EXCEPT !.at = "grant", !.on = d] \in Shell
      BY <3>1 DEF Idle, Shell, Command
    <3> QED
      BY <2>1, <3>2 DEF TypeOK
  <2>2. shell' \in [Shells -> Shell]
    BY <1>2, <2>1, ShellMoves DEF Approve, Command
  <2> QED
    BY <1>2, <2>2, Counted DEF Approve, store, TypeOK
<1>3. ASSUME NEW s \in Shells, Revoke(s) PROVE TypeOK'
  <2>1. PICK d \in All : Decide(d, "revoked")
    BY <1>3 DEF Revoke
  <2>2. decision' \in Seq(Decision)
    BY <2>1, Decided
  <2> QED
    BY <1>3, <2>2, Counted DEF Revoke, TypeOK
<1>4. ASSUME NEW s \in Shells, Cancel(s) PROVE TypeOK'
  <2>1. shell' \in [Shells -> Shell]
    BY <1>4, ShellMoves DEF Cancel, Command
  <2> QED
    BY <1>4, <2>1, Counted DEF Cancel, TypeOK
<1>5. ASSUME NEW s \in Shells, Resume(s) PROVE TypeOK'
  <2> DEFINE seen == IF stage = "paused" THEN pause ELSE NoPause
  <2>1. seen \in Pause
    BY DEF TypeOK
  <2>2. PICK d \in Pending(All) \cup {0}, raise \in BOOLEAN :
          shell' = [shell EXCEPT ![s] =
               [at   |-> CASE d # 0 -> "granting"
                           [] d = 0 /\ raise -> "answered"
                           [] OTHER -> "resolve",
                on   |-> d, saw |-> seen,
                live |-> run \in {"running", "waiting_decision"}]]
    BY <1>5 DEF Resume
  <2>3. d \in Nat
    BY Places DEF Pending
  <2> DEFINE at == CASE d # 0 -> "granting" [] d = 0 /\ raise -> "answered"
                     [] OTHER -> "resolve"
             new == [at |-> at, on |-> d, saw |-> seen,
                     live |-> run \in {"running", "waiting_decision"}]
  <2>4. at \in Command
    BY DEF Command
  <2> HIDE DEF at, seen
  <2>5. new \in Shell
    BY <2>1, <2>3, <2>4 DEF Shell
  <2>6. shell' = [shell EXCEPT ![s] = new]
    BY <2>2 DEF at
  <2> HIDE DEF new
  <2>7. shell' \in [Shells -> Shell]
    BY <2>5, <2>6 DEF TypeOK
  <2> QED
    BY <1>5, <2>7, Counted DEF Resume, store, TypeOK
<1>6. ASSUME NEW s \in Shells, PlanFails(s) PROVE TypeOK'
  BY SMTT(20), <1>6, ShellEnds DEF PlanFails, TypeOK
<1>7. ASSUME NEW s \in Shells, PlanWritten(s) PROVE TypeOK'
  BY <1>7, ShellEnds, ShellMoves DEF PlanWritten, TypeOK, Command, Pausable
<1>8. ASSUME NEW s \in Shells, Risk(s) PROVE TypeOK'
  <2>1. Loop \in Actors
    BY DEF Actors
  <2>2. decision' \in Seq(Decision) /\ shell' \in [Shells -> Shell]
    BY <1>8, <2>1, Created, ShellEnds DEF Risk, TypeOK
  <2> QED
    BY <1>8, <2>2 DEF Risk, TypeOK
<1>9. ASSUME NEW s \in Shells, Grant(s) \/ GrantAny(s)
      PROVE  TypeOK'
  <2>1. decision' \in Seq(Decision) /\ shell' \in [Shells -> Shell]
    BY <1>9, Decided, ShellMoves DEF Grant, GrantAny, Command, ShellLinked
  <2> QED
    BY <1>9, <2>1 DEF Grant, GrantAny, TypeOK
<1>10. ASSUME NEW s \in Shells, RecheckGate(s) PROVE TypeOK'
  BY <1>10, ShellEnds, ShellMoves DEF RecheckGate, TypeOK, Command, store
<1>11. ASSUME NEW s \in Shells, StartApproved(s) \/ Resumed(s) PROVE TypeOK'
  BY <1>11, ShellMoves DEF StartApproved, Resumed, RunBecomes, TypeOK, Command
<1>12. ASSUME NEW s \in Shells, ReadyStage(s) PROVE TypeOK'
  BY <1>12, ShellEnds, ShellMoves DEF ReadyStage, TypeOK, Command, Pausable
<1>13. ASSUME NEW s \in Shells, CancelRun(s) PROVE TypeOK'
  BY <1>13, ShellEnds DEF CancelRun, RunBecomes, TypeOK
<1>14. ASSUME NEW s \in Shells, Answered(s) PROVE TypeOK'
  <2>1. shell' \in [Shells -> Shell]
    BY <1>14, ShellEnds, ShellMoves DEF Answered, Command
  <2>2. budget' \in [used : BOOLEAN, stopped : BOOLEAN]
    <3>1. \A u, v \in BOOLEAN : [used |-> u, stopped |-> v]
                                  \in [used : BOOLEAN, stopped : BOOLEAN]
      OBVIOUS
    <3>2. budget.used \in BOOLEAN
      BY DEF TypeOK
    <3> QED
      BY ZenonT(30), <1>14, <3>1, <3>2 DEF Answered, TypeOK
  <2> QED
    BY <1>14, <2>1, <2>2 DEF Answered, TypeOK
<1>15. ASSUME NEW s \in Shells, Resolve(s) PROVE TypeOK'
  BY <1>15, ShellEnds, ShellMoves DEF Resolve, TypeOK, Command, Pausable
<1>16. ASSUME NEW s \in Shells, StartRun(s) PROVE TypeOK'
  BY <1>16, ShellEnds, ShellMoves
  DEF StartRun, RunDone, RunBecomes, RunFails, TypeOK, Command, Pausable
<1>17. ASSUME NEW s \in Shells, Drained(s) \/ Look(s) PROVE TypeOK'
  BY <1>17, ShellEnds, ShellMoves DEF Drained, Look, TypeOK, Command, store
<1>18. ASSUME NEW s \in Shells, RoundEnds(s) PROVE TypeOK'
  <2> DEFINE rest == [c \in Actors |->
                        IF c \in Out(s, "passed") \cup Out(s, "over")
                        THEN NoWork ELSE work[s][c]]
             d    == Pending(All)
             asked == IF d = {} THEN Asking("product", 0)
                      ELSE Asking(decision[First(d)].type, First(d))
  <2>1. rest \in [Actors -> Work]
    BY DEF TypeOK
  <2>2. asked \in Work
    <3>1. CASE d = {}
      BY <3>1, AskingType DEF Type
    <3>2. CASE d # {}
      <4>1. First(d) \in All
        BY <3>2, FirstLast DEF Pending
      <4>2. First(d) \in Nat /\ decision[First(d)].type \in Type
        BY <4>1, Places DEF Decision, Type
      <4> HIDE DEF d
      <4> QED
        BY <3>2, <4>2, AskingType
    <3> QED
      BY <3>1, <3>2
  <2> HIDE DEF rest, asked
  <2>3. CASE work' = [work EXCEPT ![s] = rest]
             /\ (Moves(s, "loop")
                 \/ shell' = [shell EXCEPT ![s].at = "await",
                                           ![s].on = Cardinality(Active(s))])
    <3>1. work' \in [Shells -> [Actors -> Work]]
      BY <2>1, <2>3, WorkAll
    <3>2. shell[s] \in Shell
      BY DEF TypeOK
    <3>3. \A n \in Nat : [shell[s] EXCEPT !.at = "await", !.on = n] \in Shell
      BY <3>2 DEF Shell, Command
    <3>4. ASSUME Moves(s, "loop") PROVE shell' \in [Shells -> Shell]
      BY <3>4, ShellMoves DEF Command
    <3>5. ASSUME shell' = [shell EXCEPT ![s].at = "await",
                                      ![s].on = Cardinality(Active(s))]
          PROVE  shell' \in [Shells -> Shell]
      <4> DEFINE n == Cardinality(Active(s))
                 x == [shell[s] EXCEPT !.at = "await", !.on = n]
      <4>1. shell' = [shell EXCEPT ![s] = x]
        BY <3>5 DEF TypeOK
      <4>2. x \in Shell
        BY <3>3, ActiveCount
      <4> HIDE DEF x
      <4> QED BY <4>1, <4>2 DEF TypeOK
    <3>6. shell' \in [Shells -> Shell]
      BY <2>3, <3>4, <3>5
    <3> QED
      BY <1>18, <3>1, <3>6 DEF RoundEnds, TypeOK, store
  <2>4. CASE Becomes(s, Loop, asked) /\ UNCHANGED shell
    <3>1. work' \in [Shells -> [Actors -> Work]]
      BY <2>2, <2>4, WorkSet DEF Actors
    <3> QED
      BY <1>18, <2>4, <3>1 DEF RoundEnds, TypeOK, store
  <2> QED
    BY <1>18, <2>3, <2>4 DEF RoundEnds, Becomes, rest, asked
<1>19. ASSUME NEW s \in Shells, Settled(s) PROVE TypeOK'
  <2>1. [shell[s] EXCEPT !.at = "loop", !.on = 0] \in Shell
    <3>1. shell[s] \in Shell
      BY DEF TypeOK
    <3> QED
      BY <3>1 DEF Shell, Command
  <2>2. shell' \in [Shells -> Shell]
    BY <1>19, <2>1 DEF Settled, TypeOK
  <2> QED
    BY <1>19, <2>2 DEF Settled, TypeOK, store
<1>20. ASSUME NEW s \in Shells, Integrate(s) PROVE TypeOK'
  <2> DEFINE W == [Shells -> [Actors -> Work]]
  <2>1. Loop \in Actors /\ Len(decision) + 1 \in Nat
    BY Places DEF Actors
  <2>2. \A type \in Type, d \in Nat : Asks(s, Loop, type, d) => work' \in W
    BY <2>1, AskingType, WorkSet DEF Asks, Becomes
  <2>3. \A ds \in SUBSET All : ds # {} =>
          First(ds) \in Nat /\ decision[First(ds)].type \in Type
    BY FirstLast, Places DEF Decision, Type
  <2>4. UnansweredTasks \subseteq All /\ MergeGate \subseteq All
    BY DEF UnansweredTasks, MergeGate, Pending, OfGate
  <2>5. work' \in W
    BY <1>20, <2>1, <2>2, <2>3, <2>4 DEF Integrate, Type, TypeOK
  <2>6. decision' \in Seq(Decision)
    BY <1>20, <2>1, Created DEF Integrate, TypeOK
  <2>7. shell' \in [Shells -> Shell]
    BY <1>20, ShellEnds DEF Integrate, TypeOK
  <2> QED
    BY <1>20, <2>5, <2>6, <2>7 DEF Integrate, RunBecomes, TypeOK, Pausable
<1>21. ASSUME NEW s \in Shells, NEW t \in Tasks, Dispatch(s, t)
       PROVE  TypeOK'
  <2>1. work' \in [Shells -> [Actors -> Work]]
    BY <1>21, WorkAt DEF Dispatch, Actors
  <2> QED
    BY <1>21, <2>1 DEF Dispatch, TypeOK
<1>22. ASSUME NEW s \in Shells, NEW t \in Tasks, PassOver(s, t)
       PROVE  TypeOK'
  <2>1. work' \in [Shells -> [Actors -> Work]]
    BY <1>22, WorkAt DEF PassOver, Actors
  <2>2. decision' \in Seq(Decision)
    BY <1>22, Created DEF PassOver, Actors, TypeOK
  <2> QED
    BY <1>22, <2>1, <2>2 DEF PassOver, TypeOK
<1>23. ASSUME NEW s \in Shells, NEW t \in Tasks, WorkerEnds(s, t)
       PROVE  TypeOK'
  <2> DEFINE W == [Shells -> [Actors -> Work]]
  <2>1. t \in Actors /\ Len(decision) + 1 \in Nat
    BY Places DEF Actors
  <2>2. CASE Leaves(s, t, FALSE) /\ UNCHANGED <<budget, decision, bounds>>
    <3>1. work' \in W /\ lock' \subseteq Tasks
      BY <1>23, <2>1, <2>2, Going DEF WorkerEnds
    <3>2. task' \in [Tasks -> {"open", "kept", "accepted"}]
      BY <1>23, <2>2 DEF WorkerEnds, TypeOK
    <3> QED
      BY <1>23, <2>2, <3>1, <3>2 DEF WorkerEnds, TypeOK
  <2>3. CASE /\ bounds.troubles < MaxTroubles
             /\ bounds' = [bounds EXCEPT !.troubles = @ + 1]
             /\ \E type \in Type, d \in Nat : Asks(s, t, type, d)
             /\ \/ UNCHANGED task
                \/ task' = [task EXCEPT ![t] = "kept"]
             /\ UNCHANGED lock
    <3>1. \A type \in Type, d \in Nat : Asks(s, t, type, d) => work' \in W
      BY <2>1, AskingType, WorkSet DEF Asks, Becomes
    <3>2. work' \in W
      BY <2>3, <3>1
    <3>3. decision' \in Seq(Decision)
      BY <1>23, <2>1, Created DEF WorkerEnds, TypeOK
    <3>4. task' \in [Tasks -> {"open", "kept", "accepted"}]
      BY <2>3 DEF TypeOK
    <3>5. budget' \in [used : BOOLEAN, stopped : BOOLEAN]
      <4>1. \A u, v \in BOOLEAN : [used |-> u, stopped |-> v]
                                    \in [used : BOOLEAN, stopped : BOOLEAN]
        OBVIOUS
      <4>2. budget.used \in BOOLEAN /\ budget.stopped \in BOOLEAN
        BY DEF TypeOK
      <4>3. \A ex \in BOOLEAN : /\ (budget.used \/ ex) \in BOOLEAN
                                /\ (budget.stopped \/ ex) \in BOOLEAN
        BY <4>2
      <4> QED
        BY <1>23, <4>1, <4>3 DEF WorkerEnds, TypeOK
    <3> QED
      BY <1>23, <2>3, <3>2, <3>3, <3>4, <3>5, Counted DEF WorkerEnds, TypeOK
  <2> QED
    BY <1>23, <2>1, <2>2, <2>3 DEF WorkerEnds, Type
<1>24. ASSUME NEW s \in Shells, NEW c \in Actors, AskPause(s, c)
       PROVE  TypeOK'
  <2>1. CASE Gone(s, c)
    BY <1>24, <2>1, Going DEF AskPause, TypeOK
  <2>2. CASE pause = NoPause
    <3> DEFINE at == IF work[s][c].type # "none" /\ Link(s, c) = 0
                     THEN "deciding" ELSE "recording"
               w  == [work[s][c] EXCEPT !.at = at, !.on = Link(s, c)]
    <3>1. work[s][c] \in Work /\ Link(s, c) \in Nat
      BY LinkFits DEF TypeOK
    <3>2. w \in Work
      BY <3>1 DEF Work
    <3>3. Becomes(s, c, w)
      <4>1. work' = [work EXCEPT ![s][c].at = at, ![s][c].on = Link(s, c)]
        BY <1>24, <2>2 DEF AskPause
      <4> HIDE DEF at
      <4> QED BY ZenonT(30), <4>1 DEF Becomes
    <3> HIDE DEF w
    <3>4. work' \in [Shells -> [Actors -> Work]]
      BY <3>2, <3>3, WorkSet
    <3> QED
      BY <1>24, <2>2, <3>4 DEF AskPause, TypeOK
  <2> QED
    BY <1>24, <2>1, <2>2 DEF AskPause
<1>25. ASSUME NEW s \in Shells, NEW c \in Actors, CreateDecision(s, c)
       PROVE  TypeOK'
  <2> DEFINE w == [work[s][c] EXCEPT !.at = "recording", !.on = Len(decision')]
  <2>1. work[s][c] \in Work /\ work[s][c].type \in DOMAIN Gate
        /\ Loop \in Actors
    BY SMTT(20), <1>0, <1>25 DEF CreateDecision, WorkLinked, Linked, TypeOK, Work,
       Type, Actors
  <2>2. decision' \in Seq(Decision) /\ Len(decision') \in Nat
    BY <1>25, <2>1, Created, Places DEF CreateDecision
  <2>3. w \in Work
    BY <2>1, <2>2 DEF Work
  <2>4. Becomes(s, c, w)
    BY ZenonT(30), <1>25 DEF CreateDecision, Becomes
  <2> HIDE DEF w
  <2>5. work' \in [Shells -> [Actors -> Work]]
    BY <2>3, <2>4, WorkSet
  <2> QED
    BY <1>25, <2>2, <2>5 DEF CreateDecision, TypeOK
<1>26. ASSUME NEW s \in Shells, NEW c \in Actors, RecordPause(s, c)
       PROVE  TypeOK'
  <2>1. /\ shell' \in [Shells -> Shell] /\ lock' \subseteq Tasks
        /\ work' \in [Shells -> [Actors -> Work]]
    BY <1>26, Going DEF RecordPause
  <2>2. bounds.pauses + 1 \in Nat /\ work[s][c] \in Work
    BY DEF TypeOK
  <2>3. [id |-> bounds.pauses + 1, type |-> work[s][c].type,
         on |-> work[s][c].on] \in Pause
    BY <2>2 DEF Work, Pause
  <2> QED
    BY ZenonT(30), <1>26, <2>1, <2>3, Counted DEF RecordPause, RunFails, TypeOK
<1>27. ASSUME NEW s \in Shells, Crash(s) PROVE TypeOK'
  <2>1. shell' \in [Shells -> Shell]
    BY <1>27, ShellEnds DEF Crash
  <2>2. work' \in [Shells -> [Actors -> Work]]
    BY <1>27, WorkAll DEF Crash
  <2> QED
    BY <1>27, <2>1, <2>2, Counted DEF Crash, TypeOK, store
<1>28. CASE UNCHANGED vars
  BY <1>28 DEF vars, store, TypeOK
<1> QED
  BY <1>1, <1>2, <1>3, <1>4, <1>5, <1>6, <1>7, <1>8, <1>9, <1>10, <1>11, <1>12,
     <1>13, <1>14, <1>15, <1>16, <1>17, <1>18, <1>19, <1>20, <1>21, <1>22,
     <1>23, <1>24, <1>25, <1>26, <1>27, <1>28
  DEF Next, CommandStep, SchedulerStep, Coroutine, Actors

-----------------------------------------------------------------------------
(* Decisions, coroutines and commands stay together. *)

\* What a step may do to the decisions: nothing, create one, or answer one.
LEMMA DecisionCases ==
  ASSUME IInv, [Next]_vars
  PROVE  \/ UNCHANGED decision
         \/ \E type \in DOMAIN Gate, about \in Actors : Create(type, about)
         \/ \E d \in All, status \in {"approved", "revoked"} :
              Decide(d, status)
<1> DEFINE Goal ==
      \/ UNCHANGED decision
      \/ \E type \in DOMAIN Gate, about \in Actors : Create(type, about)
      \/ \E d \in All, status \in {"approved", "revoked"} : Decide(d, status)
<1>0. TypeOK /\ ShellLinked /\ WorkLinked /\ Loop \in Actors
  BY DEF IInv, Actors
<1>1. ASSUME NEW s \in Shells, Risk(s) PROVE Goal
  BY <1>0, <1>1, Names DEF Risk
<1>2. ASSUME NEW s \in Shells, Grant(s) \/ GrantAny(s) PROVE Goal
  BY <1>0, <1>2 DEF Grant, GrantAny, ShellLinked
<1>3. ASSUME NEW s \in Shells, Revoke(s) PROVE Goal
  BY <1>3 DEF Revoke
<1>4. ASSUME NEW s \in Shells, NEW t \in Tasks, PassOver(s, t) PROVE Goal
  BY <1>4, Names DEF PassOver, Actors
<1>5. ASSUME NEW s \in Shells, NEW t \in Tasks, WorkerEnds(s, t) PROVE Goal
  BY <1>5, Names DEF WorkerEnds, Actors
<1>6. ASSUME NEW s \in Shells, Integrate(s) PROVE Goal
  BY <1>0, <1>6, Names DEF Integrate
<1>7. ASSUME NEW s \in Shells, NEW c \in Actors, CreateDecision(s, c)
      PROVE  Goal
  <2>1. work[s][c].type \in DOMAIN Gate
    BY <1>0, <1>7 DEF CreateDecision, WorkLinked, Linked, TypeOK, Work, Type
  <2> QED
    BY <1>0, <1>7, <2>1 DEF CreateDecision
<1>8. ASSUME NEW s \in Shells,
              \/ Submit(s) \/ Approve(s) \/ Cancel(s) \/ Resume(s)
              \/ PlanFails(s) \/ PlanWritten(s) \/ RecheckGate(s)
              \/ StartApproved(s) \/ ReadyStage(s) \/ CancelRun(s)
              \/ Answered(s) \/ Resolve(s) \/ Resumed(s) \/ StartRun(s)
              \/ Drained(s) \/ Look(s) \/ RoundEnds(s) \/ Settled(s)
              \/ (\E t \in Tasks : Dispatch(s, t))
              \/ (\E c \in Actors : AskPause(s, c) \/ RecordPause(s, c))
              \/ Crash(s)
      PROVE  Goal
  BY <1>8 DEF Submit, Approve, Cancel, Resume, PlanFails, PlanWritten,
     RecheckGate, StartApproved, ReadyStage, CancelRun, Answered, Resolve,
     Resumed, StartRun, Drained, Look, RoundEnds, Settled, Dispatch, AskPause,
     RecordPause, Crash, store
<1>9. ASSUME UNCHANGED vars PROVE Goal
  BY <1>9 DEF vars, store
<1> HIDE DEF Goal
<1>10. Goal
  BY <1>1, <1>2, <1>3, <1>4, <1>5, <1>6, <1>7, <1>8, <1>9
  DEF Next, CommandStep, SchedulerStep, Coroutine, Actors
<1> QED
  BY <1>10 DEF Goal

\* Decisions are never deleted, and none changes its type.
LEMMA DecisionsKept ==
  ASSUME IInv, [Next]_vars
  PROVE  /\ All \subseteq All'
         /\ \A d \in All : decision'[d].type = decision[d].type
<1>0. TypeOK
  BY DEF IInv
<1>1. CASE UNCHANGED decision
  BY <1>1 DEF All
<1>2. ASSUME NEW type \in DOMAIN Gate, NEW about \in Actors,
             Create(type, about)
      PROVE  /\ All \subseteq All'
             /\ \A d \in All : decision'[d].type = decision[d].type
  BY <1>0, <1>2, Created
<1>3. ASSUME NEW d \in All, NEW status \in {"approved", "revoked"},
             Decide(d, status)
      PROVE  /\ All \subseteq All'
             /\ \A e \in All : decision'[e].type = decision[e].type
  BY <1>0, <1>3, Decided
<1> QED
  BY <1>1, <1>2, <1>3, DecisionCases

\* A coroutine that stays as it is keeps its decision.
LEMMA LinkedKept ==
  ASSUME IInv, [Next]_vars
  PROVE  \A w : Linked(w, decision) => Linked(w, decision')
BY DecisionsKept DEF Linked, Known, All

\* Every step keeps the coroutines linked.
LEMMA WorkStep ==
  ASSUME IInv, [Next]_vars
  PROVE  WorkLinked'
<1>0. TypeOK /\ WorkLinked /\ Loop \in Actors
  BY DEF IInv, Actors
<1>1. \A s \in Shells, c \in Actors : Linked(work[s][c], decision')
  BY <1>0, LinkedKept DEF WorkLinked
<1>2. \A w : w.at \notin {"asking", "deciding", "recording"}
             /\ (w.type = "none" => w.on = 0) => Linked(w, decision')
  BY DEF Linked
<1>3. ASSUME NEW s \in Shells, NEW c \in Actors, NEW w \in Work,
             Becomes(s, c, w), Linked(w, decision')
      PROVE  WorkLinked'
  <2>1. /\ work'[s][c] = w
        /\ \A r \in Shells, d \in Actors :
             ~(r = s /\ d = c) => work'[r][d] = work[r][d]
    BY <1>0, <1>3, WorkSet
  <2> QED
    BY <1>1, <1>3, <2>1 DEF WorkLinked
<1>4. ASSUME NEW s \in Shells, NEW c \in Actors, NEW type \in Type,
             NEW d \in Nat, Asks(s, c, type, d), type = "none" => d = 0,
             d # 0 => Known(d, type, decision')
      PROVE  WorkLinked'
  <2>1. Linked(Asking(type, d), decision')
    BY <1>4 DEF Linked, Asking
  <2>2. Becomes(s, c, Asking(type, d))
    BY <1>4 DEF Asks, Becomes
  <2> QED
    BY <1>3, <2>1, <2>2, AskingType
<1>5. ASSUME NEW s \in Shells, NEW f \in [Actors -> Work],
             work' = [work EXCEPT ![s] = f],
             \A c \in Actors : Linked(f[c], decision')
      PROVE  WorkLinked'
  <2>1. work'[s] = f /\ \A r \in Shells \ {s} : work'[r] = work[r]
    BY <1>0, <1>5, WorkAll
  <2> QED
    BY <1>1, <1>5, <2>1 DEF WorkLinked
<1>6. Linked(NoWork, decision')
  BY DEF Linked, NoWork
<1>7. ASSUME NEW s \in Shells, NEW t \in Tasks, Dispatch(s, t) \/ PassOver(s, t)
      PROVE  WorkLinked'
  <2> DEFINE at == work'[s][t].at
  <2>1. t \in Actors
    BY DEF Actors
  <2>2. /\ work'[s][t].at \in {"passed", "busy"}
        /\ work'[s][t].type = work[s][t].type
        /\ work'[s][t].on = work[s][t].on
        /\ \A r \in Shells, d \in Actors :
             ~(r = s /\ d = t) => work'[r][d] = work[r][d]
    BY <1>0, <1>7, <2>1, WorkAt DEF Dispatch, PassOver
  <2>3. Linked(work'[s][t], decision')
    BY <1>0, <2>1, <2>2 DEF WorkLinked, Linked
  <2> QED
    BY <1>1, <2>2, <2>3 DEF WorkLinked
<1>8. ASSUME NEW s \in Shells, RoundEnds(s) PROVE WorkLinked'
  <2> DEFINE rest == [c \in Actors |->
                        IF c \in Out(s, "passed") \cup Out(s, "over")
                        THEN NoWork ELSE work[s][c]]
             d    == Pending(All)
  <2>1. /\ rest \in [Actors -> Work]
        /\ \A c \in Actors : Linked(rest[c], decision')
    BY <1>0, <1>1, <1>6, Nulls DEF TypeOK
  <2>2. CASE Asks(s, Loop, "product", 0)
    BY <1>0, <1>4, <2>2 DEF Type, Gate
  <2>3. CASE d # {} /\ Asks(s, Loop, decision[First(d)].type, First(d))
    <3>1. First(d) \in All
      BY <1>0, <2>3, FirstLast DEF Pending
    <3>2. First(d) \in Nat \ {0} /\ decision[First(d)].type \in DOMAIN Gate
      BY <1>0, <3>1, Places DEF Decision
    <3>3. Known(First(d), decision[First(d)].type, decision')
      BY <3>1, DecisionsKept DEF Known, All
    <3>4. decision[First(d)].type \in Type /\ decision[First(d)].type # "none"
      BY <3>2, Names DEF Type
    <3> HIDE DEF d
    <3> QED
      BY <1>0, <1>4, <2>3, <3>2, <3>3, <3>4
  <2>4. CASE work' = [work EXCEPT ![s] = rest]
    <3> HIDE DEF rest
    <3> QED BY <1>5, <2>1, <2>4
  <2>5. \/ work' = [work EXCEPT ![s] = rest]
        \/ work' = [work EXCEPT ![s][Loop] =
                          IF d = {} THEN Asking("product", 0)
                          ELSE Asking(decision[First(d)].type, First(d))]
    BY <1>8 DEF RoundEnds
  <2> HIDE DEF rest, d
  <2> QED
    BY <2>2, <2>3, <2>4, <2>5 DEF Asks
<1>9. ASSUME NEW s \in Shells, Integrate(s) PROVE WorkLinked'
  <2>1. ASSUME NEW ds \in SUBSET All, ds # {},
               Asks(s, Loop, decision[First(ds)].type, First(ds))
        PROVE  WorkLinked'
    <3>1. First(ds) \in All
      BY <1>0, <2>1, FirstLast
    <3>2. First(ds) \in Nat \ {0} /\ decision[First(ds)].type \in DOMAIN Gate
      BY <1>0, <3>1, Places DEF Decision
    <3>3. Known(First(ds), decision[First(ds)].type, decision')
      BY <3>1, DecisionsKept DEF Known, All
    <3> QED
      BY <1>0, <1>4, <2>1, <3>2, <3>3, Names DEF Type
  <2>2. CASE Create("merge", Loop) /\ Asks(s, Loop, "merge", Len(decision) + 1)
    <3>1. Known(Len(decision) + 1, "merge", decision')
      BY <1>0, <2>2, Created, Names DEF Known, All
    <3> QED
      BY <1>0, <1>4, <2>2, <3>1, Names, Places DEF Type
  <2>3. CASE Asks(s, Loop, "none", 0)
    BY <1>0, <1>4, <2>3 DEF Type
  <2>4. CASE UNCHANGED <<decision, work>>
    BY <1>0, <2>4 DEF WorkLinked
  <2>5. UnansweredTasks \subseteq All /\ MergeGate \subseteq All
    BY DEF UnansweredTasks, MergeGate, Pending, OfGate
  <2> QED
    BY <1>9, <2>1, <2>2, <2>3, <2>4, <2>5 DEF Integrate
<1>10. ASSUME NEW s \in Shells, NEW c \in Actors,
              \/ c \in Tasks /\ Leaves(s, c, FALSE) /\ UNCHANGED shell
              \/ Gone(s, c)
       PROVE  WorkLinked'
  BY <1>0, <1>1, <1>2, <1>10, Going DEF WorkLinked
<1>11. ASSUME NEW s \in Shells, NEW t \in Tasks, WorkerEnds(s, t)
       PROVE  WorkLinked'
  <2>1. t \in Actors
    BY DEF Actors
  <2>2. CASE Create("scope", t) /\ Asks(s, t, "scope", Len(decision) + 1)
    <3>1. Known(Len(decision) + 1, "scope", decision')
      BY <1>0, <2>1, <2>2, Created, Names DEF Known, All
    <3> QED
      BY <1>0, <1>4, <2>1, <2>2, <3>1, Names, Places DEF Type
  <2>3. CASE Leaves(s, t, FALSE) /\ UNCHANGED shell
    BY <1>10, <2>1, <2>3
  <2>4. CASE \E type \in {"budget", "product", "none"} : Asks(s, t, type, 0)
    BY <1>4, <2>1, <2>4, Names DEF Type
  <2> QED
    BY <1>11, <2>2, <2>3, <2>4 DEF WorkerEnds
<1>12. ASSUME NEW s \in Shells, NEW c \in Actors, AskPause(s, c)
       PROVE  WorkLinked'
  <2>1. CASE pause = NoPause
    <3> DEFINE at == IF work[s][c].type # "none" /\ Link(s, c) = 0
                     THEN "deciding" ELSE "recording"
               w  == [work[s][c] EXCEPT !.at = at, !.on = Link(s, c)]
    <3>1. work[s][c] \in Work /\ Link(s, c) \in Nat
      BY <1>0, LinkFits DEF TypeOK
    <3>2. w \in Work /\ w.at = at /\ w.on = Link(s, c)
          /\ w.type = work[s][c].type
      BY <3>1 DEF Work
    <3>3. Becomes(s, c, w)
      <4>1. work' = [work EXCEPT ![s][c].at = at, ![s][c].on = Link(s, c)]
        BY <1>12, <2>1 DEF AskPause
      <4> HIDE DEF at
      <4> QED BY <4>1 DEF Becomes
    <3>4. UNCHANGED decision /\ work[s][c].at = "asking"
      BY <1>12 DEF AskPause
    <3>5. Linked(work[s][c], decision)
      BY <1>0 DEF WorkLinked
    <3> HIDE DEF w
    <3>6. w.type = "none" => w.on = 0
      BY <1>0, <3>2, <3>5, LinkFits DEF Linked
    <3>7. w.type # "none" /\ w.on # 0 => Known(w.on, w.type, decision)
      <4>1. work[s][c].on # 0 => Known(work[s][c].on, work[s][c].type, decision)
        BY <3>4, <3>5 DEF Linked
      <4> QED
        BY <1>0, <3>2, <4>1, LinkFits DEF Known, All
    <3>8. Linked(w, decision')
      BY <3>2, <3>4, <3>6, <3>7 DEF Linked
    <3> QED
      BY <1>3, <3>2, <3>3, <3>8
  <2> QED
    BY <1>10, <1>12, <2>1 DEF AskPause
<1>13. ASSUME NEW s \in Shells, NEW c \in Actors, CreateDecision(s, c)
       PROVE  WorkLinked'
  <2> DEFINE w == [work[s][c] EXCEPT !.at = "recording", !.on = Len(decision')]
  <2>1. work[s][c] \in Work /\ work[s][c].type \in DOMAIN Gate
    BY <1>0, <1>13 DEF CreateDecision, WorkLinked, Linked, TypeOK, Work, Type
  <2>2. /\ Len(decision') \in Nat /\ Len(decision') # 0
        /\ Known(Len(decision'), work[s][c].type, decision')
    BY <1>0, <1>13, <2>1, Created, Places DEF CreateDecision, Known, All
  <2>3. /\ w \in Work /\ w.at = "recording" /\ w.on = Len(decision')
        /\ w.type = work[s][c].type
    BY <2>1, <2>2 DEF Work
  <2>4. Becomes(s, c, w)
    BY <1>13 DEF CreateDecision, Becomes
  <2> HIDE DEF w
  <2>5. w.type # "none"
    BY <2>1, <2>3, Names
  <2>6. Linked(w, decision')
    BY <2>2, <2>3, <2>5 DEF Linked
  <2> QED
    BY <1>3, <2>3, <2>4, <2>6
<1>14. ASSUME NEW s \in Shells, NEW c \in Actors, RecordPause(s, c)
       PROVE  WorkLinked'
  BY <1>10, <1>14 DEF RecordPause
<1>15. ASSUME NEW s \in Shells, Crash(s) PROVE WorkLinked'
  BY <1>5, <1>6, <1>15, Nulls DEF Crash, Free
<1>16. ASSUME NEW s \in Shells,
              \/ Submit(s) \/ Approve(s) \/ Revoke(s) \/ Cancel(s) \/ Resume(s)
              \/ CommandStep(s) \/ StartRun(s) \/ Drained(s) \/ Look(s)
              \/ Settled(s)
       PROVE  WorkLinked'
  <2>1. UNCHANGED work
    BY <1>16 DEF Submit, Approve, Revoke, Cancel, Resume, CommandStep,
       PlanFails, PlanWritten, Risk, Grant, RecheckGate, StartApproved,
       ReadyStage, CancelRun, GrantAny, Answered, Resolve, Resumed, StartRun,
       Drained, Look, Settled
  <2> QED
    BY <1>1, <2>1 DEF WorkLinked
<1>17. CASE UNCHANGED vars
  BY <1>0, <1>17 DEF vars, store, WorkLinked
<1> QED
  BY <1>7, <1>8, <1>9, <1>11, <1>12, <1>13, <1>14, <1>15, <1>16, <1>17
  DEF Next, SchedulerStep, Coroutine, Actors

\* Every step keeps the decisions that commands are about to approve.
LEMMA ShellStep ==
  ASSUME IInv, [Next]_vars
  PROVE  ShellLinked'
<1> DEFINE Goal == ShellLinked'
<1>0. TypeOK /\ ShellLinked
  BY DEF IInv
<1>1. \A s \in Shells : shell[s].at \in {"grant", "granting"} =>
                          shell[s].on \in All'
  BY <1>0, DecisionsKept DEF ShellLinked
<1>2. ASSUME NEW s \in Shells, NEW at \in Command \ {"grant", "granting"},
             Moves(s, at)
      PROVE  Goal
  BY <1>0, <1>1, <1>2, ShellMoves DEF ShellLinked
<1>3. ASSUME NEW s \in Shells, Ends(s) PROVE Goal
  <2>1. shell'[s].at = "idle"
    BY <1>0, <1>3, ShellEnds DEF Idle
  <2> QED
    BY <1>0, <1>1, <1>3, <2>1, ShellEnds DEF ShellLinked
<1>4. ASSUME UNCHANGED shell PROVE Goal
  BY <1>1, <1>4 DEF ShellLinked
<1>5. ASSUME NEW s \in Shells, NEW x, shell' = [shell EXCEPT ![s] = x],
             x.at \in {"grant", "granting"} => x.on \in All'
      PROVE  Goal
  <2>1. shell'[s] = x /\ \A r \in Shells \ {s} : shell'[r] = shell[r]
    BY <1>0, <1>5 DEF TypeOK
  <2> QED
    BY <1>1, <1>5, <2>1 DEF ShellLinked
<1> HIDE DEF Goal
<1>6. ASSUME NEW s \in Shells, Approve(s) PROVE Goal
  <2>1. ASSUME NEW d \in Pending(OfGate("G1")),
               shell' = [shell EXCEPT ![s] = [Idle EXCEPT !.at = "grant",
                                                          !.on = d]]
        PROVE  Goal
    <3> DEFINE x == [Idle EXCEPT !.at = "grant", !.on = d]
    <3>1. x.on = d /\ d \in All'
      BY DecisionsKept DEF Idle, Pending, OfGate
    <3>2. shell' = [shell EXCEPT ![s] = x]
      BY <2>1
    <3> HIDE DEF x
    <3> QED BY <1>5, <3>1, <3>2
  <2> QED
    BY <1>2, <1>6, <2>1 DEF Approve, Command
<1>7. ASSUME NEW s \in Shells, Resume(s) PROVE Goal
  <2> DEFINE seen == IF stage = "paused" THEN pause ELSE NoPause
  <2>1. PICK d \in Pending(All) \cup {0}, raise \in BOOLEAN :
          shell' = [shell EXCEPT ![s] =
               [at   |-> CASE d # 0 -> "granting"
                           [] d = 0 /\ raise -> "answered"
                           [] OTHER -> "resolve",
                on   |-> d, saw |-> seen,
                live |-> run \in {"running", "waiting_decision"}]]
    BY <1>7 DEF Resume
  <2> DEFINE at == CASE d # 0 -> "granting" [] d = 0 /\ raise -> "answered"
                     [] OTHER -> "resolve"
             x  == [at |-> at, on |-> d, saw |-> seen,
                    live |-> run \in {"running", "waiting_decision"}]
  <2>2. at \in {"grant", "granting"} => d \in All'
    <3>1. d # 0 => d \in All'
      BY DecisionsKept DEF Pending
    <3>2. d = 0 => at \in {"answered", "resolve"}
      OBVIOUS
    <3> QED BY <3>1, <3>2
  <2> HIDE DEF at, seen
  <2>3. x.at \in {"grant", "granting"} => x.on \in All'
    BY <2>2
  <2>4. shell' = [shell EXCEPT ![s] = x]
    BY <2>1 DEF at
  <2> HIDE DEF x
  <2> QED BY <1>5, <2>3, <2>4
<1>8. ASSUME NEW s \in Shells, CommandStep(s) PROVE Goal
  <2>1. \/ UNCHANGED shell \/ Ends(s)
        \/ \E at \in Command \ {"grant", "granting"} : Moves(s, at)
    BY <1>8 DEF CommandStep, PlanFails, PlanWritten, Risk, Grant, RecheckGate,
       StartApproved, ReadyStage, CancelRun, GrantAny, Answered, Resolve,
       Resumed, Command
  <2> QED
    BY <1>2, <1>3, <1>4, <2>1
<1>9. ASSUME NEW s \in Shells,
             \/ Submit(s) \/ Revoke(s) \/ Cancel(s) \/ StartRun(s)
             \/ Drained(s) \/ Look(s) \/ Integrate(s) \/ Crash(s)
             \/ \E t \in Tasks : Dispatch(s, t) \/ PassOver(s, t)
      PROVE  Goal
  <2>1. \/ UNCHANGED shell \/ Ends(s)
        \/ \E at \in Command \ {"grant", "granting"} : Moves(s, at)
    BY <1>9 DEF Submit, Revoke, Cancel, StartRun, Drained, Look, Integrate,
       Crash, Dispatch, PassOver, Command
  <2> QED
    BY <1>2, <1>3, <1>4, <2>1
<1>10. ASSUME NEW s \in Shells, RoundEnds(s) \/ Settled(s) PROVE Goal
  <2>1. ASSUME NEW at \in {"await", "loop"}, NEW n,
               shell' = [shell EXCEPT ![s].at = at, ![s].on = n]
        PROVE  Goal
    <3> DEFINE x == [shell[s] EXCEPT !.at = at, !.on = n]
    <3>1. x.at = at
      BY <1>0 DEF TypeOK, Shell
    <3>2. shell' = [shell EXCEPT ![s] = x]
      BY <2>1, <1>0 DEF TypeOK
    <3> HIDE DEF x
    <3> QED BY <1>5, <3>1, <3>2
  <2> QED
    BY <1>2, <1>4, <1>10, <2>1 DEF RoundEnds, Settled, Command
<1>11. ASSUME NEW s \in Shells, NEW c \in Actors,
              WorkerEnds(s, c) \/ AskPause(s, c) \/ CreateDecision(s, c)
              \/ RecordPause(s, c)
       PROVE  Goal
  BY <1>3, <1>4, <1>11 DEF WorkerEnds, AskPause, CreateDecision, RecordPause,
     Gone
<1>12. ASSUME UNCHANGED vars PROVE Goal
  BY <1>4, <1>12 DEF vars
<1>13. Goal
  BY <1>4, <1>6, <1>7, <1>8, <1>9, <1>10, <1>11, <1>12
  DEF Next, SchedulerStep, Coroutine
<1> QED
  BY <1>13 DEF Goal

\* What a step may do to the open pause: nothing, close it, or open one that a
\* coroutine asks for.
Closes == /\ pause # NoPause /\ stage = "paused" /\ Resolvable(pause)
          /\ stage' = "ready" /\ pause' = NoPause
          /\ UNCHANGED <<decision, bounds>>
Opens(s, c) ==
  /\ work[s][c].at = "recording" /\ pause = NoPause /\ stage' = "paused"
  /\ pause' = [id |-> bounds.pauses + 1, type |-> work[s][c].type,
               on |-> work[s][c].on]
  /\ bounds' = [bounds EXCEPT !.pauses = @ + 1] /\ UNCHANGED decision
LEMMA PauseCases ==
  ASSUME IInv, [Next]_vars
  PROVE  \/ /\ pause' = pause /\ bounds'.pauses = bounds.pauses
            /\ \/ stage' \in {stage, "canceled"}
               \/ /\ stage \notin {"paused", "canceled"}
                  /\ stage' # "paused"
         \/ Closes
         \/ \E s \in Shells, c \in Actors : Opens(s, c)
<1> DEFINE Goal ==
      \/ /\ pause' = pause /\ bounds'.pauses = bounds.pauses
         /\ \/ stage' \in {stage, "canceled"}
            \/ /\ stage \notin {"paused", "canceled"}
               /\ stage' # "paused"
      \/ Closes
      \/ \E s \in Shells, c \in Actors : Opens(s, c)
<1>0. TypeOK
  BY DEF IInv
<1>1. /\ \A s : Types(s) => bounds'.pauses = bounds.pauses
      /\ [bounds EXCEPT !.troubles = @ + 1].pauses = bounds.pauses
      /\ [bounds EXCEPT !.crashes = @ + 1].pauses = bounds.pauses
  BY <1>0 DEF TypeOK, Types
<1>2. ASSUME NEW s \in Shells, Resolve(s) PROVE Goal
  BY <1>2 DEF Resolve, Resolvable, Closes
<1>3. ASSUME NEW s \in Shells, NEW c \in Actors, RecordPause(s, c) PROVE Goal
  BY <1>3 DEF RecordPause, Opens
<1>4. ASSUME NEW s \in Shells,
             \/ Approve(s) \/ Revoke(s) \/ Cancel(s) \/ Resume(s) \/ Crash(s)
             \/ \E t \in Tasks : WorkerEnds(s, t)
      PROVE  Goal
  BY <1>1, <1>4 DEF Approve, Revoke, Cancel, Resume, Crash, WorkerEnds, store
<1>5. ASSUME NEW s \in Shells,
             \/ Submit(s) \/ PlanFails(s) \/ PlanWritten(s) \/ Risk(s)
             \/ Grant(s) \/ RecheckGate(s) \/ StartApproved(s) \/ ReadyStage(s)
             \/ CancelRun(s) \/ GrantAny(s) \/ Answered(s) \/ Resumed(s)
      PROVE  Goal
  BY <1>5 DEF Submit, PlanFails, PlanWritten, Risk, Grant, RecheckGate,
     StartApproved, ReadyStage, CancelRun, GrantAny, Answered, Resumed, store
<1>6. ASSUME NEW s \in Shells, SchedulerStep(s) PROVE Goal
  BY <1>6 DEF SchedulerStep, StartRun, Drained, Look, RoundEnds, Settled,
     Integrate, Stopped, Dispatch, PassOver, store
<1>7. ASSUME NEW s \in Shells, NEW c \in Actors,
             AskPause(s, c) \/ CreateDecision(s, c)
      PROVE  Goal
  BY <1>7 DEF AskPause, CreateDecision
<1>8. ASSUME UNCHANGED vars PROVE Goal
  BY <1>8 DEF vars, store
<1> HIDE DEF Goal
<1>9. Goal
  BY <1>2, <1>3, <1>4, <1>5, <1>6, <1>7, <1>8
  DEF Next, CommandStep, Coroutine
<1> QED
  BY <1>9 DEF Goal

\* Every step keeps the open pause linked to its decision.
LEMMA PauseStep ==
  ASSUME IInv, [Next]_vars
  PROVE  PauseLinked'
<1>0. TypeOK /\ PauseLinked /\ WorkLinked
  BY DEF IInv
<1>1. ASSUME pause' = pause PROVE PauseLinked'
  BY <1>0, <1>1, DecisionsKept DEF PauseLinked, PauseAnswerable
<1>2. ASSUME Closes PROVE PauseLinked'
  BY <1>2 DEF Closes, PauseLinked, PauseAnswerable, NoPause
<1>3. ASSUME NEW s \in Shells, NEW c \in Actors, Opens(s, c)
      PROVE  PauseLinked'
  <2>1. bounds.pauses \in Nat
    BY <1>0 DEF TypeOK
  <2>2. Linked(work[s][c], decision)
    BY <1>0 DEF WorkLinked
  <2>3. /\ pause'.id = bounds.pauses + 1 /\ pause'.type = work[s][c].type
        /\ pause'.on = work[s][c].on /\ decision' = decision
        /\ work[s][c].at = "recording"
    BY <1>3 DEF Opens
  <2> QED
    BY <2>1, <2>2, <2>3 DEF PauseLinked, PauseAnswerable, Linked, Known, All
<1> QED
  BY <1>1, <1>2, <1>3, PauseCases

\* Every step keeps the pause and its stage together.
LEMMA RecordStep ==
  ASSUME IInv, [Next]_vars
  PROVE  PausedHasRecord'
<1>0. TypeOK /\ PausedHasRecord
  BY DEF IInv
<1>1. ASSUME pause' = pause,
             \/ stage' \in {stage, "canceled"}
             \/ stage \notin {"paused", "canceled"} /\ stage' # "paused"
      PROVE  PausedHasRecord'
  BY <1>0, <1>1 DEF PausedHasRecord
<1>2. ASSUME Closes PROVE PausedHasRecord'
  BY <1>2 DEF Closes, PausedHasRecord
<1>3. ASSUME NEW s \in Shells, NEW c \in Actors, Opens(s, c)
      PROVE  PausedHasRecord'
  <2>1. bounds.pauses + 1 # 0
    BY <1>0 DEF TypeOK
  <2> QED
    BY <1>3, <2>1 DEF Opens, PausedHasRecord, NoPause
<1> QED
  BY <1>1, <1>2, <1>3, PauseCases

\* No command has been typed yet.
LEMMA InitIInv == Init => IInv
<1> SUFFICES ASSUME Init PROVE IInv
  OBVIOUS
<1> USE ControlAssumption, Names, Nulls DEF Init
<1>1. decision \in Seq(Decision) /\ All = {}
  BY DEF All
<1>2. TypeOK
  <2>1. shell \in [Shells -> Shell] /\ work \in [Shells -> [Actors -> Work]]
    OBVIOUS
  <2>2. bounds \in [pauses : Nat, commands : 0..MaxCommands,
                    troubles : 0..MaxTroubles, crashes : 0..MaxCrashes]
    OBVIOUS
  <2>3. budget \in [used : BOOLEAN, stopped : BOOLEAN]
    OBVIOUS
  <2>4. task \in [Tasks -> {"open", "kept", "accepted"}] /\ lock \subseteq Tasks
    OBVIOUS
  <2> QED
    BY <1>1, <2>1, <2>2, <2>3, <2>4 DEF TypeOK
<1>3. WorkLinked
  BY DEF WorkLinked, Linked, Free, NoWork
<1>4. ShellLinked
  BY DEF ShellLinked, Idle
<1>5. PauseLinked
  BY DEF PauseLinked, PauseAnswerable, NoPause
<1>6. PausedHasRecord
  BY DEF PausedHasRecord
<1> QED
  BY <1>2, <1>3, <1>4, <1>5, <1>6 DEF IInv

\* The invariant holds throughout, whatever is typed and killed.
THEOREM Invariant == Spec => []IInv
<1>1. IInv /\ [Next]_vars => IInv'
  BY TypeStep, WorkStep, ShellStep, PauseStep, RecordStep DEF IInv
<1> QED
  BY <1>1, InitIInv, PTL DEF Spec

\* The rows, commands and coroutines keep their types.
THEOREM TypeCorrect == Spec => []TypeOK
<1>1. IInv => TypeOK
  BY DEF IInv
<1> QED
  BY <1>1, Invariant, PTL

\* A paused stage has its open PauseRecord, and an open PauseRecord a paused or
\* canceled stage: createStagePause and resolveStagePause are transactions, and
\* no other command reopens a paused stage.
THEOREM RecordSafe == Spec => []PausedHasRecord
<1>1. IInv => PausedHasRecord
  BY DEF IInv
<1> QED
  BY <1>1, Invariant, PTL

\* The decision an open protected pause waits for exists and has the type that
\* resolveStagePause asks for.
THEOREM Answerable == Spec => []PauseAnswerable
<1>1. IInv => PauseAnswerable
  BY DEF IInv, PauseLinked
<1> QED
  BY <1>1, Invariant, PTL

-----------------------------------------------------------------------------
(* A pause ends with consent. *)

Granted == {d \in All : Is(d, "approved")}

\* What a step makes of the granted decisions.
LEMMA GrantedCases ==
  ASSUME IInv, [Next]_vars
  PROVE  \/ Granted' = Granted
         \/ \E d \in (Nat \ {0}) \ Granted : Granted' = Granted \cup {d}
         \/ \E d \in Granted : Granted' = Granted \ {d}
<1>0. TypeOK
  BY DEF IInv
<1>1. CASE UNCHANGED decision
  BY <1>1 DEF Granted, Is, All
<1>2. ASSUME NEW type \in DOMAIN Gate, NEW about \in Actors,
             Create(type, about)
      PROVE  Granted' = Granted
  BY <1>0, <1>2, Created DEF Granted, Is
<1>3. ASSUME NEW d \in All, Decide(d, "approved")
      PROVE  d \in Nat \ {0} /\ Granted' = Granted \cup {d}
  BY <1>0, <1>3, Decided, Places DEF Granted, Is
<1>4. ASSUME NEW d \in All, Decide(d, "revoked")
      PROVE  Granted' = Granted \ {d}
  BY <1>0, <1>4, Decided DEF Granted, Is
<1>5. \A d : d \in Granted => Granted \cup {d} = Granted
  OBVIOUS
<1>6. \A d : d \notin Granted => Granted \ {d} = Granted
  OBVIOUS
<1>7. \A d \in All : Decide(d, "approved") =>
        \/ Granted' = Granted
        \/ d \in (Nat \ {0}) \ Granted /\ Granted' = Granted \cup {d}
  BY <1>3, <1>5
<1>8. \A d \in All : Decide(d, "revoked") =>
        \/ Granted' = Granted
        \/ d \in Granted /\ Granted' = Granted \ {d}
  BY <1>4, <1>6
<1> HIDE DEF Granted
<1> QED
  BY <1>1, <1>2, <1>7, <1>8, DecisionCases

\* Every step of the commands and schedulers is one that PauseConsent allows.
LEMMA ConsentStep ==
  ASSUME IInv, [Next]_vars
  PROVE  [Consent!CNext]_(Consent!cvars)
<1>0. TypeOK /\ PauseLinked
  BY DEF IInv
<1>1. ASSUME UNCHANGED <<decision>> PROVE Granted' = Granted
  BY <1>1 DEF Granted, Is, All
<1>2. CASE pause' = pause /\ bounds'.pauses = bounds.pauses
  <2>1. \/ Granted' = Granted
        \/ Consent!Grant \/ Consent!Withdraw
    BY GrantedCases DEF Consent!Grant, Consent!Withdraw, Granted
  <2> QED
    BY <1>2, <2>1 DEF Consent!CNext, Consent!cvars, Granted
<1>3. CASE Closes
  <2>1. pause.id # 0 /\ (pause.on # 0 => pause.on \in Granted)
    BY <1>0, <1>3 DEF Closes, PauseLinked, Resolvable, Granted
  <2>2. Consent!ClosePause
    BY <1>1, <1>3, <2>1 DEF Closes, Consent!ClosePause, Granted, NoPause
  <2> QED
    BY <2>2 DEF Consent!CNext
<1>4. ASSUME NEW s \in Shells, NEW c \in Actors, Opens(s, c)
      PROVE  Consent!OpenPause
  <2>1. bounds'.pauses = bounds.pauses + 1 /\ work[s][c].on \in Nat
    BY <1>0, <1>4 DEF Opens, TypeOK, Work
  <2> QED
    BY <1>1, <1>4, <2>1 DEF Opens, Consent!OpenPause, Granted, NoPause
<1> QED
  BY <1>2, <1>3, <1>4, PauseCases DEF Consent!CNext

\* Whatever is typed, in however many terminals, at most one pause is open, and
\* a protected pause closes only while the decision it hangs on is granted.
THEOREM ConsentRefined == Spec => ImplementsConsent
<1>1. Init => Consent!CInit
  BY DEF Init, Consent!CInit, NoPause, Is, All
<1>2. IInv /\ [Next]_vars => [Consent!CNext]_(Consent!cvars)
  BY ConsentStep
<1> QED
  BY <1>1, <1>2, Invariant, PTL
  DEF Spec, ImplementsConsent, Consent!CSpec
=============================================================================
