----------------------------- MODULE CallBudget -----------------------------
(***************************************************************************)
(* What the cost ledger promises, whoever calls it and in whatever order:  *)
(* every provider call takes its worst-case quota out of the run's budget  *)
(* at most once, the quota of all the calls that still count never exceeds *)
(* the budget, and quota that was given back is not taken a second time.   *)
(*                                                                         *)
(* CostLedger implements this module (INSTANCE ... WITH in CostLedger).    *)
(***************************************************************************)
EXTENDS Integers, FiniteSets

CONSTANTS Ids,      \* reservation ids (the primary key of cost_reservations)
          Cost,     \* Cost[id]: the quota units reserved under id
          Limit     \* the run's costBudget.limit

(* Ids is finite, Cost \in [Ids -> Nat \ {0}] and Limit \in Nat \ {0};    *)
(* CostLedger assumes so much of the constants it substitutes for these.   *)

VARIABLES held,     \* ids whose quota counts against the budget
          freed     \* ids whose quota was given back

vars == <<held, freed>>

\* The quota units taken by the reservations S; the SQL SUM of the ledger.
Units(S) == UNION { {id} \X (1..Cost[id]) : id \in S }
Total(S) == Cardinality(Units(S))

Init == held = {} /\ freed = {}

Hold(id) == /\ id \notin held \cup freed
            /\ Cost[id] <= Limit - Total(held)
            /\ held' = held \cup {id}
            /\ UNCHANGED freed

Free(id) == /\ id \in held
            /\ held' = held \ {id}
            /\ freed' = freed \cup {id}

Next == \E id \in Ids : Hold(id) \/ Free(id)

Spec == Init /\ [][Next]_vars

\* The calls that count never take more than the run may spend.
WithinBudget == Total(held) <= Limit
=============================================================================
