---------------------------- MODULE PauseConsent ----------------------------
(***************************************************************************)
(* What a pause of a stage promises, whatever shells and schedulers do: at *)
(* most one pause is open, a protected pause hangs on a decision, and it   *)
(* closes only while that decision is granted.  A closed pause is never    *)
(* opened again.                                                           *)
(***************************************************************************)
EXTENDS Naturals

CONSTANTS Decisions,
          NoDecision   \* no member of Decisions: what a plain pause hangs on

VARIABLES
  open,      \* number of the open pause, 0 if there is none
  hangsOn,   \* the decision of the open pause
  granted,   \* decisions that are granted
  opened     \* pauses opened so far

cvars == <<open, hangsOn, granted, opened>>

CInit == open = 0 /\ hangsOn = NoDecision /\ granted = {} /\ opened = 0

OpenPause ==
  /\ open = 0
  /\ opened' = opened + 1 /\ open' = opened'
  /\ hangsOn' \in Decisions \cup {NoDecision}
  /\ UNCHANGED granted

ClosePause ==
  /\ open # 0
  /\ hangsOn # NoDecision => hangsOn \in granted
  /\ open' = 0 /\ hangsOn' = NoDecision
  /\ UNCHANGED <<granted, opened>>

\* One decision more, one less.
Grant    == \E d \in granted' : d \in Decisions \ granted
                             /\ granted' = granted \cup {d}
Withdraw == \E d \in granted : granted' = granted \ {d}

CNext == \/ OpenPause \/ ClosePause
         \/ (Grant \/ Withdraw) /\ UNCHANGED <<open, hangsOn, opened>>

CSpec == CInit /\ [][CNext]_cvars
=============================================================================
