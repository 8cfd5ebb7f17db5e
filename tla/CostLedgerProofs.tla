-------------------------- MODULE CostLedgerProofs --------------------------
(***************************************************************************)
(* Theorems about CostLedger, for every set of calls, every price and      *)
(* every budget.                                                           *)
(***************************************************************************)
EXTENDS CostLedger, TLAPS, FiniteSetTheorems

-----------------------------------------------------------------------------
(* The sum of the ledger. *)

\* Every reservation takes a positive, finite amount.
LEMMA CostType == Cost \in [Ids -> Nat \ {0}]
BY LedgerAssumption, SMT DEF Cost

\* The abstract budget counts with the same Cardinality.
LEMMA SameCardinality == \A S : Budget!Cardinality(S) = Cardinality(S)
BY DEF Budget!Cardinality, Cardinality

\* The units of one reservation are as many as its cost.
LEMMA OneCost ==
  ASSUME NEW id \in Ids
  PROVE  /\ IsFiniteSet({id} \X (1..Cost[id]))
         /\ Cardinality({id} \X (1..Cost[id])) = Cost[id]
<1>1. Cost[id] \in Nat \ {0}
  BY CostType
<1>2. IsFiniteSet(1..Cost[id]) /\ Cardinality(1..Cost[id]) = Cost[id]
  BY SMTT(20), <1>1, FS_Interval
<1>3. IsFiniteSet({id}) /\ Cardinality({id}) = 1
  BY FS_Singleton
<1> DEFINE C == 1..Cost[id]
<1>4. IsFiniteSet(C) /\ Cardinality(C) = Cost[id]
  BY <1>2
<1> HIDE DEF C
<1>5. IsFiniteSet({id} \X C) /\ Cardinality({id} \X C) = 1 * Cardinality(C)
  BY <1>3, <1>4, FS_Product
<1> QED
  BY <1>1, <1>4, <1>5 DEF C

\* The units of any reservations are finitely many.
LEMMA UnitsFinite ==
  ASSUME NEW S \in SUBSET Ids
  PROVE  IsFiniteSet(Budget!Units(S)) /\ Budget!Total(S) \in Nat
<1> DEFINE U(id) == {id} \X (1..Cost[id])
           T == {U(id) : id \in S}
           f == [id \in S |-> U(id)]
<1>1. IsFiniteSet(Ids)
  BY LedgerAssumption, FS_AddElement DEF Ids
<1>2. IsFiniteSet(S)
  BY <1>1, FS_Subset
<1>3. f \in Surjection(S, T)
  BY DEF Surjection
<1>4. IsFiniteSet(T)
  <2> HIDE DEF f, T
  <2> QED BY <1>2, <1>3, FS_Surjection
<1>5. \A t \in T : IsFiniteSet(t)
  BY OneCost
<1>6. IsFiniteSet(UNION T)
  <2> HIDE DEF T
  <2> QED BY <1>4, <1>5, FS_UNION
<1> QED
  BY <1>6, FS_CardinalityType, SameCardinality DEF Budget!Units, Budget!Total

\* Adding a reservation adds its cost.
LEMMA TotalAdd ==
  ASSUME NEW S \in SUBSET Ids, NEW id \in Ids \ S
  PROVE  Budget!Total(S \cup {id}) = Budget!Total(S) + Cost[id]
<1> DEFINE V == {id} \X (1..Cost[id])
<1>1. Budget!Units(S \cup {id}) = Budget!Units(S) \cup V
  BY DEF Budget!Units
<1>2. Budget!Units(S) \cap V = {}
  BY DEF Budget!Units
<1>3. IsFiniteSet(V) /\ Cardinality(V) = Cost[id]
  BY OneCost
<1>4. IsFiniteSet(Budget!Units(S)) /\ Cardinality(Budget!Units(S)) \in Nat
  BY UnitsFinite, SameCardinality DEF Budget!Total
<1>5. Cost[id] \in Nat
  BY CostType
<1> HIDE DEF V
<1>6. Cardinality(Budget!Units(S) \cup V)
        = Cardinality(Budget!Units(S)) + Cardinality(V) - Cardinality({})
  BY <1>2, <1>3, <1>4, FS_Union
<1>7. Cardinality({}) = 0
  BY FS_EmptySet
<1>8. Budget!Total(S \cup {id}) = Cardinality(Budget!Units(S \cup {id}))
  BY SameCardinality DEF Budget!Total
<1>9. Budget!Total(S) = Cardinality(Budget!Units(S))
  BY SameCardinality DEF Budget!Total
<1>10. Budget!Total(S \cup {id}) = Budget!Total(S) + Cost[id] - 0
  BY <1>1, <1>3, <1>6, <1>7, <1>8, <1>9, Zenon
<1> QED
  BY <1>5, <1>10, UnitsFinite

\* Fewer reservations take no more.
LEMMA TotalMonotone ==
  ASSUME NEW S \in SUBSET Ids, NEW T \in SUBSET S
  PROVE  Budget!Total(T) <= Budget!Total(S)
<1>1. Budget!Units(T) \subseteq Budget!Units(S)
  BY DEF Budget!Units
<1> QED
  BY <1>1, UnitsFinite, FS_Subset, SameCardinality DEF Budget!Total
-----------------------------------------------------------------------------
(* Types. *)

\* What the ledger's transactions make of its rows are rows again.
LEMMA RowTypes ==
  ASSUME TypeOK
  PROVE  /\ \A id \in Ids, o \in {"released", "unavailable"} :
              Finalized(id, o) \in [Ids -> Row]
         /\ \A c \in Calls : MarkedSpawned(c) \in [Ids -> Row]
         /\ \A id \in Ids, s \in Statuses :
              [row EXCEPT ![id].status = s] \in [Ids -> Row]
         /\ \A id \in Ids, l \in Leases :
              [row EXCEPT ![id].lease = l] \in [Ids -> Row]
         /\ \A id \in Ids, c \in Calls, l \in Leases :
              [row EXCEPT ![id] = [status |-> "reserved", spawned |-> FALSE,
                                   lease |-> l, owner |-> c]] \in [Ids -> Row]
<1> USE DEF TypeOK, Row, Statuses, Leases
<1>1. \A id \in Ids, o \in {"released", "unavailable"} :
              Finalized(id, o) \in [Ids -> Row]
  <2> SUFFICES ASSUME NEW id \in Ids, NEW o \in {"released", "unavailable"}
               PROVE  Finalized(id, o) \in [Ids -> Row]
    OBVIOUS
  <2> DEFINE r == [row[id] EXCEPT !.status = o, !.lease = "none"]
  <2>0. row[id] \in Row
    OBVIOUS
  <2>1. r \in Row
    BY <2>0
  <2> QED
    BY <2>1 DEF Finalized
<1>2. \A c \in Calls : MarkedSpawned(c) \in [Ids -> Row]
  <2> SUFFICES ASSUME NEW c \in Calls
               PROVE  MarkedSpawned(c) \in [Ids -> Row]
    OBVIOUS
  <2>1. c \in Ids
    BY DEF Ids
  <2>2. [row EXCEPT ![c].spawned = TRUE] \in [Ids -> Row]
    BY <2>1
  <2> QED
    BY <2>2 DEF MarkedSpawned
<1>3. /\ \A id \in Ids, s \in Statuses :
              [row EXCEPT ![id].status = s] \in [Ids -> Row]
      /\ \A id \in Ids, l \in Leases :
              [row EXCEPT ![id].lease = l] \in [Ids -> Row]
  OBVIOUS
<1>4. \A id \in Ids, c \in Calls, l \in Leases :
              [row EXCEPT ![id] = [status |-> "reserved", spawned |-> FALSE,
                                   lease |-> l, owner |-> c]] \in [Ids -> Row]
  OBVIOUS
<1> QED
  BY <1>1, <1>2, <1>3, <1>4

\* The typing invariant is inductive by itself: every operation leaves rows,
\* program counters and counters of their types.
THEOREM TypeCorrect == Spec => []TypeOK
<1>1. Init => TypeOK
  <2> SUFFICES ASSUME Init PROVE TypeOK
    OBVIOUS
  <2>1. Absent \in Row
    BY DEF Absent, Row, Statuses, Leases
  <2>2. row \in [Ids -> Row]
    BY <2>1 DEF Init
  <2> QED
    BY <2>2 DEF Init, TypeOK, PCs
<1>2. TypeOK /\ [Next]_vars => TypeOK'
  <2> SUFFICES ASSUME TypeOK, [Next]_vars PROVE TypeOK'
    OBVIOUS
  <2> USE RowTypes
  <2>0. MaxPi \in Nat /\ MaxCodex \in Nat /\ PiCalls \subseteq Calls
        /\ Calls \subseteq Ids /\ PlanCall \in Calls /\ ProbeId \in Ids
    BY LedgerAssumption DEF Calls, Ids
  <2>1. ASSUME NEW c \in Calls, Reserve(c) PROVE TypeOK'
    BY <2>0, <2>1 DEF Reserve, Go, Insert, TypeOK, PCs, Leases
  <2>2. ASSUME NEW c \in Calls, Refuse(c) PROVE TypeOK'
    BY <2>2 DEF Refuse, Go, TypeOK, PCs
  <2>3. CASE PlanTokensRefused
    BY <2>0, <2>3 DEF PlanTokensRefused, Go, TypeOK, PCs
  <2>4. CASE CallBrain
    BY <2>0, <2>4 DEF CallBrain, Go, TypeOK, PCs
  <2>5. ASSUME NEW c \in Calls, PrivacyBlocked(c) PROVE TypeOK'
    BY <2>0, <2>5 DEF PrivacyBlocked, Go, TypeOK, PCs
  <2>6. ASSUME NEW c \in Calls, GuardCheckFails(c) PROVE TypeOK'
    BY <2>6 DEF GuardCheckFails, Go, TypeOK, PCs
  <2>7. ASSUME NEW c \in Calls, GuardKnown(c) PROVE TypeOK'
    BY <2>7 DEF GuardKnown, Go, TypeOK, PCs
  <2>8. ASSUME NEW c \in Calls, ReserveProbe(c) PROVE TypeOK'
    <3>1. \/ Go(c, "reserved", "probing") /\ Insert(ProbeId, c, "none")
          \/ Go(c, "reserved", "returned") /\ UNCHANGED row
      BY <2>8 DEF ReserveProbe
    <3>2. row' \in [Ids -> Row]
      <4>1. row \in [Ids -> Row] /\ "none" \in Leases
        BY DEF TypeOK, Leases
      <4>2. row' = row \/ Insert(ProbeId, c, "none")
        BY <3>1
      <4>3. ASSUME Insert(ProbeId, c, "none") PROVE row' \in [Ids -> Row]
        <5>1. \A l \in Leases :
                [row EXCEPT ![ProbeId] =
                   [status |-> "reserved", spawned |-> FALSE,
                    lease |-> l, owner |-> c]] \in [Ids -> Row]
          BY <2>0
        <5> QED
          BY <4>1, <4>3, <5>1 DEF Insert
      <4> QED
        BY <4>1, <4>2, <4>3
    <3>3. pc' \in [Calls -> PCs]
      BY <3>1 DEF Go, TypeOK, PCs
    <3> QED
      BY <2>8, <3>2, <3>3 DEF ReserveProbe, TypeOK
  <2>9. ASSUME NEW c \in Calls, ProbeSent(c) PROVE TypeOK'
    BY <2>0, <2>9 DEF ProbeSent, TypeOK
  <2>10. ASSUME NEW c \in Calls, ProbeSettle(c) PROVE TypeOK'
    <3> PICK outcome \in {"released", "unavailable"}, pass \in BOOLEAN :
          /\ Go(c, "probing", IF pass THEN "spawn" ELSE "returned")
          /\ row' = Finalized(ProbeId, outcome)
          /\ probed' = (probed \/ pass)
          /\ round' = IF pass THEN [round EXCEPT ![c] = 1] ELSE round
      BY <2>10 DEF ProbeSettle
    <3>1. UNCHANGED <<used, beating, active, verdict, lapsed>>
      BY <2>10 DEF ProbeSettle
    <3>2. row' \in [Ids -> Row]
      BY <2>0
    <3>3. pc' \in [Calls -> PCs]
      BY DEF Go, TypeOK, PCs
    <3> QED
      BY <3>1, <3>2, <3>3 DEF TypeOK
  <2>11. ASSUME NEW c \in Calls, Spawn(c) PROVE TypeOK'
    BY <2>11 DEF Spawn, Go, TypeOK, PCs
  <2>12. ASSUME NEW c \in Calls, Prompt(c) PROVE TypeOK'
    BY <2>0, <2>12 DEF Prompt, Go, TypeOK, PCs
  <2>13. ASSUME NEW c \in Calls, AskCodex(c) PROVE TypeOK'
    BY <2>0, <2>13 DEF AskCodex, Go, TypeOK, PCs
  <2>14. ASSUME NEW c \in Calls, NextRound(c) PROVE TypeOK'
    BY <2>14 DEF NextRound, Go, TypeOK, PCs
  <2>15. ASSUME NEW c \in Calls, ReadyToImplement(c) PROVE TypeOK'
    BY <2>15 DEF ReadyToImplement, Go, TypeOK, PCs
  <2>16. ASSUME NEW c \in Calls, Return(c) PROVE TypeOK'
    BY <2>16 DEF Return, TypeOK, PCs
  <2>17. ASSUME NEW c \in Calls, Settle(c) PROVE TypeOK'
    BY <2>0, <2>17 DEF Settle, Go, TypeOK, PCs
  <2>18. ASSUME NEW c \in Calls, Heartbeat(c) PROVE TypeOK'
    BY <2>0, <2>18 DEF Heartbeat, TypeOK, Leases
  <2>19. CASE Crash
    BY <2>19 DEF Crash, TypeOK, PCs
  <2>20. ASSUME NEW c \in Calls, OwnerEnds(c) PROVE TypeOK'
    BY <2>20 DEF OwnerEnds, TypeOK
  <2>21. ASSUME NEW id \in Ids, LeaseExpires(id) PROVE TypeOK'
    BY <2>21 DEF LeaseExpires, TypeOK, Leases
  <2>22. ASSUME NEW id \in Ids, StaleDecide(id) PROVE TypeOK'
    BY <2>22 DEF StaleDecide, TypeOK
  <2>23. ASSUME NEW id \in Ids, StaleSettle(id) PROVE TypeOK'
    BY <2>23 DEF StaleSettle, TypeOK
  <2>24. ASSUME NEW id \in Ids, WriteOff(id) PROVE TypeOK'
    BY <2>24 DEF WriteOff, TypeOK, Statuses
  <2>25. CASE UNCHANGED vars
    BY <2>25 DEF vars, TypeOK
  <2> QED
    BY <2>1, <2>2, <2>3, <2>4, <2>5, <2>6, <2>7, <2>8, <2>9, <2>10, <2>11,
       <2>12, <2>13, <2>14, <2>15, <2>16, <2>17, <2>18, <2>19, <2>20, <2>21,
       <2>22, <2>23, <2>24, <2>25
       DEF Next, CallStep, Reconcile
<1> QED
  BY <1>1, <1>2, PTL DEF Spec
-----------------------------------------------------------------------------
(* The budget. *)

\* How the reservations that count change with the status of one row.
LEMMA StatusChange ==
  ASSUME TypeOK, NEW id \in Ids, row' \in [Ids -> Row],
         \A i \in Ids \ {id} : row'[i] = row[i]
  PROVE  /\ (\/ row'[id].status = row[id].status
             \/ row[id].status = "reserved" /\ row'[id].status = "unavailable")
              => Held' = Held /\ Freed' = Freed
         /\ row[id].status = "absent" /\ row'[id].status = "reserved"
              => Held' = Held \cup {id} /\ Freed' = Freed
         /\ (\/ row[id].status = "reserved" /\ row'[id].status = "released"
             \/ row[id].status = "unavailable" /\ row'[id].status = "written_off")
              => /\ id \in Held
                 /\ Held' = Held \ {id} /\ Freed' = Freed \cup {id}
BY DEF Held, Freed

\* Settling a row leaves the budget as it is or gives the row's quota back.
LEMMA FinalizedBudget ==
  ASSUME TypeOK, NEW id \in Ids, NEW o \in {"released", "unavailable"},
         row' = Finalized(id, o)
  PROVE  (Held' = Held /\ Freed' = Freed) \/ Budget!Free(id)
<1>1. row' \in [Ids -> Row] /\ row \in [Ids -> Row]
  BY RowTypes DEF TypeOK
<1>2. CASE CanFinalize(id, o)
  <2>1. row' = [row EXCEPT ![id] = [@ EXCEPT !.status = o, !.lease = "none"]]
    BY <1>2 DEF Finalized
  <2>2. \A i \in Ids \ {id} : row'[i] = row[i]
    BY <1>1, <2>1
  <2>3. row[id] \in Row
    BY <1>1
  <2>4. row'[id].status = o
    BY <1>1, <2>1, <2>3 DEF Row
  <2>5. row[id].status = "reserved"
    BY <1>2 DEF CanFinalize
  <2>6. CASE o = "unavailable"
    BY <1>1, <2>2, <2>4, <2>5, <2>6, StatusChange
  <2>7. CASE o = "released"
    BY <1>1, <2>2, <2>4, <2>5, <2>7, StatusChange DEF Budget!Free
  <2> QED
    BY <2>6, <2>7
<1>3. CASE ~CanFinalize(id, o)
  BY <1>3 DEF Finalized, Held, Freed
<1> QED
  BY <1>2, <1>3

\* Inserting a row that fits takes its quota.
LEMMA InsertBudget ==
  ASSUME TypeOK, NEW id \in Ids, NEW c \in Calls, NEW l \in Leases,
         row[id].status = "absent", Fits(id), Insert(id, c, l)
  PROVE  Budget!Hold(id)
<1>1. row' \in [Ids -> Row] /\ row \in [Ids -> Row]
  BY RowTypes DEF TypeOK, Insert
<1>2. \A i \in Ids \ {id} : row'[i] = row[i]
  BY <1>1 DEF Insert
<1>3. row'[id].status = "reserved"
  BY <1>1 DEF Insert
<1>4. Held' = Held \cup {id} /\ Freed' = Freed
  BY <1>1, <1>2, <1>3, StatusChange
<1>5. id \notin Held \cup Freed
  BY DEF Held, Freed
<1> QED
  BY <1>4, <1>5 DEF Budget!Hold, Fits

\* Every step of the ledger is a step of the budget or leaves it alone.
LEMMA BudgetStep ==
  ASSUME TypeOK, [Next]_vars
  PROVE  (Held' = Held /\ Freed' = Freed)
         \/ \E id \in Ids : Budget!Hold(id) \/ Budget!Free(id)
<1>0. PiCalls \subseteq Calls /\ Calls \subseteq Ids /\ PlanCall \in Calls
      /\ ProbeId \in Ids
  BY DEF Calls, Ids
<1> DEFINE Goal == (Held' = Held /\ Freed' = Freed)
                   \/ \E id \in Ids : Budget!Hold(id) \/ Budget!Free(id)
<1>1. ASSUME row' = row PROVE Goal
  BY <1>1 DEF Held, Freed
<1>2. ASSUME NEW id \in Ids, NEW o \in {"released", "unavailable"},
             row' = Finalized(id, o)
      PROVE  Goal
  BY <1>2, FinalizedBudget
<1>3. ASSUME NEW id \in Ids, row' \in [Ids -> Row],
             \A i \in Ids \ {id} : row'[i] = row[i],
             row'[id].status = row[id].status
      PROVE  Goal
  BY <1>3, StatusChange
<1>4. ASSUME NEW c \in Calls, Reserve(c) PROVE Goal
  <2>1. Budget!Hold(c)
    BY <1>0, <1>4, InsertBudget DEF Reserve, Leases
  <2> QED
    BY <1>0, <2>1
<1>5. ASSUME NEW c \in Calls, ReserveProbe(c) PROVE Goal
  <2>1. CASE Fits(ProbeId) /\ row[ProbeId].status = "absent"
    <3>1. Insert(ProbeId, c, "none")
      BY <1>5, <2>1 DEF ReserveProbe
    <3>2. Budget!Hold(ProbeId)
      BY <1>0, <2>1, <3>1, InsertBudget DEF Leases
    <3> QED
      BY <1>0, <3>2
  <2>2. CASE ~(Fits(ProbeId) /\ row[ProbeId].status = "absent")
    BY <1>1, <1>5, <2>2 DEF ReserveProbe
  <2> QED
    BY <2>1, <2>2
<1>6. ASSUME NEW c \in Calls, PrivacyBlocked(c) \/ Settle(c) PROVE Goal
  BY <1>0, <1>2, <1>6 DEF PrivacyBlocked, Settle
<1>7. ASSUME NEW c \in Calls, ProbeSettle(c) PROVE Goal
  BY <1>0, <1>2, <1>7 DEF ProbeSettle
<1>8. ASSUME NEW c \in Calls, Spawn(c) PROVE Goal
  <2>1. row' = MarkedSpawned(c) /\ row' \in [Ids -> Row] /\ row \in [Ids -> Row]
    BY <1>8, RowTypes DEF Spawn, TypeOK
  <2>2. row[c] \in Row
    BY <1>0, <2>1
  <2>3. /\ \A i \in Ids \ {c} : row'[i] = row[i]
        /\ row'[c].status = row[c].status
    BY <1>0, <2>1, <2>2 DEF MarkedSpawned, Row
  <2> QED
    BY <1>0, <1>3, <2>1, <2>3
<1>9. ASSUME NEW id \in Ids, NEW l \in Leases,
             row' = [row EXCEPT ![id].lease = l]
      PROVE  Goal
  <2>1. row' \in [Ids -> Row] /\ row \in [Ids -> Row]
    BY <1>9, RowTypes DEF TypeOK
  <2>2. row[id] \in Row
    BY <2>1
  <2>3. /\ \A i \in Ids \ {id} : row'[i] = row[i]
        /\ row'[id].status = row[id].status
    BY <1>9, <2>1, <2>2 DEF Row
  <2> QED
    BY <1>3, <2>1, <2>3
<1>10. ASSUME NEW c \in Calls, Heartbeat(c) PROVE Goal
  BY <1>0, <1>9, <1>10 DEF Heartbeat, Leases
<1>11. ASSUME NEW id \in Ids, LeaseExpires(id) PROVE Goal
  BY <1>9, <1>11 DEF LeaseExpires, Leases
<1>12. ASSUME NEW id \in Ids, StaleSettle(id) PROVE Goal
  <2>1. verdict[id] \in {"released", "unavailable"}
    BY <1>12 DEF StaleSettle, TypeOK
  <2> QED
    BY <1>2, <1>12, <2>1 DEF StaleSettle
<1>13. ASSUME NEW id \in Ids, WriteOff(id) PROVE Goal
  <2>1. row' = [row EXCEPT ![id].status = "written_off"]
    BY <1>13 DEF WriteOff
  <2>2. row' \in [Ids -> Row] /\ row \in [Ids -> Row]
    BY <2>1, RowTypes DEF TypeOK, Statuses
  <2>3. /\ \A i \in Ids \ {id} : row'[i] = row[i]
        /\ row'[id].status = "written_off"
    BY <2>1, <2>2 DEF Row
  <2>4. Budget!Free(id)
    BY <1>13, <2>2, <2>3, StatusChange DEF WriteOff, Budget!Free
  <2> QED
    BY <2>4
<1>14. ASSUME NEW c \in Calls,
              \/ Refuse(c) \/ GuardCheckFails(c) \/ GuardKnown(c)
              \/ ProbeSent(c) \/ Prompt(c) \/ AskCodex(c) \/ NextRound(c)
              \/ ReadyToImplement(c) \/ Return(c) \/ OwnerEnds(c)
       PROVE  Goal
  BY <1>1, <1>14 DEF Refuse, GuardCheckFails, GuardKnown, ProbeSent, Prompt,
     AskCodex, NextRound, ReadyToImplement, Return, OwnerEnds
<1>15. CASE PlanTokensRefused \/ CallBrain \/ Crash \/ UNCHANGED vars
  BY <1>1, <1>15 DEF PlanTokensRefused, CallBrain, Crash, vars
<1>16. ASSUME NEW id \in Ids, StaleDecide(id) PROVE Goal
  BY <1>1, <1>16 DEF StaleDecide
<1> QED
  BY <1>4, <1>5, <1>6, <1>7, <1>8, <1>10, <1>11, <1>12, <1>13, <1>14, <1>15,
     <1>16 DEF Next, CallStep, Reconcile

\* The ledger implements the budget: each id takes its quota at most once,
\* only when it fits, and never after it was given back.
THEOREM LedgerImplementsBudget == Spec => ImplementsBudget
<1>1. Init => Budget!Init
  BY DEF Init, Budget!Init, Held, Freed, Absent
<1>2. TypeOK /\ [Next]_vars => [Budget!Next]_(Budget!vars)
  BY BudgetStep DEF Budget!Next, Budget!vars
<1> QED
  BY <1>1, <1>2, TypeCorrect, PTL DEF Spec, ImplementsBudget, Budget!Spec

\* However the calls, reconciliation and the user interleave, the reservations
\* that count never exceed the budget of the run.
THEOREM BudgetIsKept == Spec => []WithinBudget
<1>1. Init => WithinBudget
  <2> SUFFICES ASSUME Init PROVE WithinBudget
    OBVIOUS
  <2>1. Held = {}
    BY DEF Init, Held, Absent
  <2>2. Budget!Total({}) = 0
    <3>1. Budget!Units({}) = {}
      BY DEF Budget!Units
    <3> QED
      BY <3>1, FS_EmptySet, SameCardinality DEF Budget!Total
  <2> QED
    BY <2>1, <2>2, LedgerAssumption DEF WithinBudget, Budget!WithinBudget
<1>2. TypeOK /\ WithinBudget /\ [Next]_vars => WithinBudget'
  <2> SUFFICES ASSUME TypeOK, WithinBudget, [Next]_vars PROVE WithinBudget'
    OBVIOUS
  <2>1. Held \in SUBSET Ids
    BY DEF Held
  <2>2. Budget!Total(Held) \in Nat /\ Limit \in Nat
    BY <2>1, UnitsFinite, LedgerAssumption
  <2>3. WithinBudget' <=> Budget!Total(Held') <= Limit
    BY DEF WithinBudget, Budget!WithinBudget, Budget!Total, Budget!Units
  <2>4. CASE Held' = Held /\ Freed' = Freed
    BY <2>3, <2>4 DEF WithinBudget, Budget!WithinBudget
  <2>5. ASSUME NEW id \in Ids, Budget!Hold(id) PROVE WithinBudget'
    <3>1. /\ id \in Ids \ Held /\ Held' = Held \cup {id}
          /\ Cost[id] <= Limit - Budget!Total(Held)
      BY <2>5 DEF Budget!Hold
    <3>2. Budget!Total(Held \cup {id}) = Budget!Total(Held) + Cost[id]
      BY <2>1, <3>1, TotalAdd
    <3>3. Cost[id] \in Nat
      BY CostType
    <3> QED
      BY <2>2, <2>3, <3>1, <3>2, <3>3
  <2>6. ASSUME NEW id \in Ids, Budget!Free(id) PROVE WithinBudget'
    <3>1. Held' \in SUBSET Held
      BY <2>6 DEF Budget!Free
    <3>2. Budget!Total(Held') <= Budget!Total(Held)
      BY <2>1, <3>1, TotalMonotone
    <3>3. Budget!Total(Held') \in Nat
      BY <2>1, <3>1, UnitsFinite
    <3> QED
      BY <2>2, <2>3, <3>2, <3>3 DEF WithinBudget, Budget!WithinBudget
  <2> QED
    BY <2>4, <2>5, <2>6, BudgetStep
<1> QED
  BY <1>1, <1>2, TypeCorrect, PTL DEF Spec
-----------------------------------------------------------------------------
(* Calls and their rows. *)

\* What each transaction changes in its row, and that it changes no other.
LEMMA FinalizedRow ==
  ASSUME TypeOK, NEW id \in Ids, NEW o \in {"released", "unavailable"},
         row' = Finalized(id, o)
  PROVE  /\ row' \in [Ids -> Row]
         /\ \A i \in Ids \ {id} : row'[i] = row[i]
         /\ row'[id].owner = row[id].owner /\ row'[id].spawned = row[id].spawned
         /\ \/ CanFinalize(id, o) /\ row'[id].status = o /\ row'[id].lease = "none"
            \/ ~CanFinalize(id, o) /\ row'[id] = row[id]
<1>1. row \in [Ids -> Row] /\ row[id] \in Row /\ row' \in [Ids -> Row]
  BY RowTypes DEF TypeOK
<1>2. CASE CanFinalize(id, o)
  <2>1. row' = [row EXCEPT ![id] = [@ EXCEPT !.status = o, !.lease = "none"]]
    BY <1>2 DEF Finalized
  <2> QED
    BY <1>1, <1>2, <2>1 DEF Row
<1>3. CASE ~CanFinalize(id, o)
  BY <1>1, <1>3 DEF Finalized
<1> QED
  BY <1>2, <1>3

\* reserveCost writes one new row and leaves the others alone.
LEMMA InsertedRow ==
  ASSUME TypeOK, NEW id \in Ids, NEW c \in Calls, NEW l \in Leases,
         Insert(id, c, l)
  PROVE  /\ row' \in [Ids -> Row]
         /\ \A i \in Ids \ {id} : row'[i] = row[i]
         /\ row'[id].status = "reserved" /\ row'[id].spawned = FALSE
         /\ row'[id].lease = l /\ row'[id].owner = c
BY RowTypes DEF Insert, TypeOK

\* Marking a row as spawned changes its evidence flag and nothing else.
LEMMA MarkedRow ==
  ASSUME TypeOK, NEW c \in Calls, row' = MarkedSpawned(c)
  PROVE  /\ row' \in [Ids -> Row]
         /\ \A i \in Ids \ {c} : row'[i] = row[i]
         /\ row'[c].status = row[c].status /\ row'[c].lease = row[c].lease
         /\ row'[c].owner = row[c].owner
         /\ row[c].status = "reserved" => row'[c].spawned = TRUE
         /\ row[c].status # "reserved" => row'[c].spawned = row[c].spawned
<1>1. row \in [Ids -> Row] /\ c \in Ids /\ row[c] \in Row
  BY DEF TypeOK, Ids
<1>2. row' \in [Ids -> Row]
  BY RowTypes
<1> QED
  BY <1>1, <1>2 DEF MarkedSpawned, Row

\* Expiring or renewing a lease changes the lease and nothing else.
LEMMA LeaseRow ==
  ASSUME TypeOK, NEW id \in Ids, NEW l \in Leases,
         row' = [row EXCEPT ![id].lease = l]
  PROVE  /\ row' \in [Ids -> Row]
         /\ \A i \in Ids \ {id} : row'[i] = row[i]
         /\ row'[id].status = row[id].status /\ row'[id].lease = l
         /\ row'[id].owner = row[id].owner /\ row'[id].spawned = row[id].spawned
<1>1. row \in [Ids -> Row] /\ row[id] \in Row
  BY DEF TypeOK
<1>2. row' \in [Ids -> Row]
  BY RowTypes
<1> QED
  BY <1>1, <1>2 DEF Row

\* LedgerInv is inductive: while a call keeps its lease nobody else settles
\* its row, so its spending stays on the books.
LEMMA LedgerStep ==
  ASSUME TypeOK, LedgerInv, [Next]_vars
  PROVE  LedgerInv'
<1>0. PiCalls \subseteq Calls /\ Calls \subseteq Ids /\ PlanCall \in Calls
      /\ ProbeId \in Ids /\ ProbeId \notin Calls /\ None \notin Calls
      /\ Leased = Calls \ {PlanCall}
      /\ MaxPi \in Nat \ {0} /\ MaxCodex \in Nat \ {0}
  BY LedgerAssumption DEF Calls, Ids, Leased
<1> USE DEF TypeOK, LedgerInv, RowInv, LeaseInv, LiveCallIsReserved,
            SpentIsAccounted, Alive, InFlight, PCs, Absent, Go
<1>1. ASSUME NEW c \in Calls, Reserve(c) PROVE LedgerInv'
  <2> DEFINE l == IF c \in Leased THEN "live" ELSE "none"
  <2>1. Insert(c, c, l) /\ l \in Leases
    BY <1>1 DEF Reserve, Leases
  <2>0. c \in Ids /\ row[c].status = "absent"
    BY <1>0, <1>1 DEF Reserve
  <2> HIDE DEF l
  <2>2. /\ row' \in [Ids -> Row]
        /\ \A i \in Ids \ {c} : row'[i] = row[i]
        /\ row'[c].status = "reserved" /\ row'[c].spawned = FALSE
        /\ row'[c].lease = l /\ row'[c].owner = c
    BY <2>0, <2>1, InsertedRow
  <2>3. row'[c].lease # "expired" /\ (c \notin Leased => row'[c].lease = "none")
    BY <2>2 DEF l
  <2>5. RowInv'
    BY SMTT(20), <1>0, <1>1, <2>2, <2>3 DEF Reserve
  <2>6. LeaseInv'
    BY SMTT(20), <1>0, <1>1, <2>2, <2>3 DEF Reserve
  <2>7. LiveCallIsReserved'
    BY <1>0, <1>1, <2>2, <2>3 DEF Reserve
  <2>8. SpentIsAccounted'
    BY <1>0, <1>1, <2>2, <2>3 DEF Reserve
  <2> QED
    BY <2>5, <2>6, <2>7, <2>8
<1>2. ASSUME NEW c \in Calls, Refuse(c) PROVE LedgerInv'
  BY <1>0, <1>2 DEF Refuse
<1>3. ASSUME NEW c \in Calls, PrivacyBlocked(c) PROVE LedgerInv'
  <2>1. row' = Finalized(c, "released")
    BY <1>3 DEF PrivacyBlocked
  <2>2. /\ row' \in [Ids -> Row]
        /\ \A i \in Ids \ {c} : row'[i] = row[i]
        /\ row'[c].owner = row[c].owner /\ row'[c].spawned = row[c].spawned
        /\ \/ CanFinalize(c, "released") /\ row'[c].status = "released" /\ row'[c].lease = "none"
           \/ ~CanFinalize(c, "released") /\ row'[c] = row[c]
    BY <1>0, <2>1, FinalizedRow
  <2>5. RowInv'
    <3>1. \A i \in Ids : row'[i].status = "absent" =>
            /\ row'[i].lease = "none" /\ row'[i].owner = None /\ ~row'[i].spawned
            /\ used'[i] = 0 /\ verdict'[i] = "none"
      BY SMTT(20), <1>0, <1>3, <2>2 DEF PrivacyBlocked, CanFinalize
    <3>2. \A i \in Ids : row'[i].status # "absent" => row'[i].owner \in Calls
      BY <1>0, <1>3, <2>2 DEF PrivacyBlocked, CanFinalize
    <3>3. \A i \in Ids \ Leased : row'[i].lease = "none" /\ verdict'[i] = "none"
      BY <1>0, <1>3, <2>2 DEF PrivacyBlocked, CanFinalize
    <3>4. \A d \in Calls :
            /\ row'[d].owner \in {None, d}
            /\ pc'[d] \in InFlight => row'[d].status # "absent"
            /\ pc'[d] \in {"idle", "reserved"} => used'[d] = 0
      BY <1>0, <1>3, <2>2 DEF PrivacyBlocked, CanFinalize
    <3>5. \A d \in Calls : pc'[d] = "probing" =>
            row'[ProbeId].owner = d /\ row'[ProbeId].status = "reserved"
      BY <1>0, <1>3, <2>2 DEF PrivacyBlocked, CanFinalize
    <3> QED
      BY <3>1, <3>2, <3>3, <3>4, <3>5
  <2>6. LeaseInv'
    BY <1>0, <1>3, <2>2 DEF PrivacyBlocked, CanFinalize
  <2>7. LiveCallIsReserved'
    BY <1>0, <1>3, <2>2 DEF PrivacyBlocked, CanFinalize
  <2>8. SpentIsAccounted'
    BY <1>0, <1>3, <2>2 DEF PrivacyBlocked, CanFinalize
  <2> QED
    BY <2>5, <2>6, <2>7, <2>8
<1>4. ASSUME NEW c \in Calls, GuardCheckFails(c) PROVE LedgerInv'
  BY <1>0, <1>4 DEF GuardCheckFails
<1>5. ASSUME NEW c \in Calls, GuardKnown(c) PROVE LedgerInv'
  BY <1>0, <1>5 DEF GuardKnown
<1>6. ASSUME NEW c \in Calls, ReserveProbe(c) PROVE LedgerInv'
  <2>1. \/ /\ Go(c, "reserved", "probing")
           /\ Insert(ProbeId, c, "none") /\ row[ProbeId].status = "absent"
        \/ Go(c, "reserved", "returned") /\ row' = row
    BY <1>6 DEF ReserveProbe
  <2>2. CASE Go(c, "reserved", "returned") /\ row' = row
    BY <1>0, <1>6, <2>2 DEF ReserveProbe
  <2>3. CASE /\ Go(c, "reserved", "probing")
             /\ Insert(ProbeId, c, "none") /\ row[ProbeId].status = "absent"
    <3>1. /\ row' \in [Ids -> Row]
          /\ \A i \in Ids \ {ProbeId} : row'[i] = row[i]
          /\ row'[ProbeId].status = "reserved" /\ row'[ProbeId].spawned = FALSE
          /\ row'[ProbeId].lease = "none" /\ row'[ProbeId].owner = c
      BY <1>0, <2>3, InsertedRow DEF Leases
    <3>2. UNCHANGED <<round, used, beating, active, probed, verdict, lapsed>>
      BY <1>6 DEF ReserveProbe
    <3>3. RowInv'
      <4>1. \A i \in Ids : row'[i].status = "absent" =>
              /\ row'[i].lease = "none" /\ row'[i].owner = None /\ ~row'[i].spawned
              /\ used'[i] = 0 /\ verdict'[i] = "none"
        BY <1>0, <2>3, <3>1, <3>2
      <4>2. \A i \in Ids : row'[i].status # "absent" => row'[i].owner \in Calls
        BY <1>0, <2>3, <3>1, <3>2
      <4>3. \A i \in Ids \ Leased : row'[i].lease = "none" /\ verdict'[i] = "none"
        BY <1>0, <2>3, <3>1, <3>2
      <4>4. \A d \in Calls :
              /\ row'[d].owner \in {None, d}
              /\ pc'[d] \in InFlight => row'[d].status # "absent"
              /\ pc'[d] \in {"idle", "reserved"} => used'[d] = 0
        BY <1>0, <2>3, <3>1, <3>2
      <4>5. \A d \in Calls : pc'[d] = "probing" =>
              row'[ProbeId].owner = d /\ row'[ProbeId].status = "reserved"
        BY <1>0, <2>3, <3>1, <3>2
      <4> QED
        BY <4>1, <4>2, <4>3, <4>4, <4>5
    <3>4. LeaseInv'
      BY <1>0, <2>3, <3>1, <3>2
    <3>5. LiveCallIsReserved'
      BY <1>0, <2>3, <3>1, <3>2
    <3>6. SpentIsAccounted'
      BY <1>0, <2>3, <3>1, <3>2
    <3> QED
      BY <3>3, <3>4, <3>5, <3>6
  <2> QED
    BY <2>1, <2>2, <2>3
<1>7. ASSUME NEW c \in Calls, ProbeSent(c) PROVE LedgerInv'
  BY <1>0, <1>7 DEF ProbeSent
<1>8. ASSUME NEW c \in Calls, ProbeSettle(c) PROVE LedgerInv'
  <2> PICK outcome \in {"released", "unavailable"}, pass \in BOOLEAN :
        /\ outcome = "released" => used[ProbeId] = 0
        /\ Go(c, "probing", IF pass THEN "spawn" ELSE "returned")
        /\ row' = Finalized(ProbeId, outcome)
    BY <1>8 DEF ProbeSettle
  <2>1. /\ row' \in [Ids -> Row]
        /\ \A i \in Ids \ {ProbeId} : row'[i] = row[i]
        /\ row'[ProbeId].owner = row[ProbeId].owner
        /\ row'[ProbeId].spawned = row[ProbeId].spawned
        /\ \/ /\ CanFinalize(ProbeId, outcome)
              /\ row'[ProbeId].status = outcome /\ row'[ProbeId].lease = "none"
           \/ ~CanFinalize(ProbeId, outcome) /\ row'[ProbeId] = row[ProbeId]
    BY <1>0, FinalizedRow
  <2>2. UNCHANGED <<used, beating, active, verdict, lapsed>>
    BY <1>8 DEF ProbeSettle
  <2>3. pc' \in [Calls -> PCs] /\ pc[c] = "probing"
        /\ pc'[c] \in {"spawn", "returned"} /\ \A d \in Calls \ {c} : pc'[d] = pc[d]
    OBVIOUS
  <2>4. \A d \in Calls \ {c} : pc[d] # "probing"
    BY <1>0, <2>3
  <2>5. RowInv'
    BY <1>0, <2>1, <2>2, <2>3, <2>4
  <2>6. LeaseInv'
    BY <1>0, <2>1, <2>2, <2>3, <2>4
  <2>7. LiveCallIsReserved'
    BY <1>0, <2>1, <2>2, <2>3, <2>4
  <2>8. SpentIsAccounted'
    BY <1>0, <2>1, <2>2, <2>3, <2>4 DEF CanFinalize
  <2> QED
    BY <2>5, <2>6, <2>7, <2>8
<1>9. ASSUME NEW c \in Calls, Spawn(c) PROVE LedgerInv'
  <2>0. c \notin lapsed => row[c].status = "reserved"
    BY <1>0, <1>9 DEF Spawn
  <2>1. row' = MarkedSpawned(c)
    BY <1>9 DEF Spawn
  <2>2. /\ row' \in [Ids -> Row]
        /\ \A i \in Ids \ {c} : row'[i] = row[i]
        /\ row'[c].status = row[c].status /\ row'[c].lease = row[c].lease
        /\ row'[c].owner = row[c].owner
        /\ row[c].status = "reserved" => row'[c].spawned = TRUE
        /\ row[c].status # "reserved" => row'[c].spawned = row[c].spawned
    BY <2>1, MarkedRow
  <2>5. RowInv'
    <3>1. \A i \in Ids : row'[i].status = "absent" =>
            /\ row'[i].lease = "none" /\ row'[i].owner = None /\ ~row'[i].spawned
            /\ used'[i] = 0 /\ verdict'[i] = "none"
      BY <1>0, <1>9, <2>0, <2>2 DEF Spawn
    <3>2. \A i \in Ids : row'[i].status # "absent" => row'[i].owner \in Calls
      BY <1>0, <1>9, <2>0, <2>2 DEF Spawn
    <3>3. \A i \in Ids \ Leased : row'[i].lease = "none" /\ verdict'[i] = "none"
      BY <1>0, <1>9, <2>0, <2>2 DEF Spawn
    <3>4. \A d \in Calls :
            /\ row'[d].owner \in {None, d}
            /\ pc'[d] \in InFlight => row'[d].status # "absent"
            /\ pc'[d] \in {"idle", "reserved"} => used'[d] = 0
      BY <1>0, <1>9, <2>0, <2>2 DEF Spawn
    <3>5. \A d \in Calls : pc'[d] = "probing" =>
            row'[ProbeId].owner = d /\ row'[ProbeId].status = "reserved"
      BY <1>0, <1>9, <2>0, <2>2 DEF Spawn
    <3> QED
      BY <3>1, <3>2, <3>3, <3>4, <3>5
  <2>6. LeaseInv'
    BY <1>0, <1>9, <2>0, <2>2 DEF Spawn
  <2>7. LiveCallIsReserved'
    BY <1>0, <1>9, <2>0, <2>2 DEF Spawn
  <2>8. SpentIsAccounted'
    BY <1>0, <1>9, <2>0, <2>2 DEF Spawn
  <2> QED
    BY <2>5, <2>6, <2>7, <2>8
<1>10. ASSUME NEW c \in Calls, Prompt(c) PROVE LedgerInv'
  <2>1. c \notin lapsed => row[c].status = "reserved"
    BY <1>0, <1>10 DEF Prompt
  <2>5. RowInv'
    BY <1>0, <1>10, <2>1 DEF Prompt
  <2>6. LeaseInv'
    BY <1>0, <1>10, <2>1 DEF Prompt
  <2>7. LiveCallIsReserved'
    BY <1>0, <1>10, <2>1 DEF Prompt
  <2>8. SpentIsAccounted'
    BY <1>0, <1>10, <2>1 DEF Prompt
  <2> QED
    BY <2>5, <2>6, <2>7, <2>8
<1>11. ASSUME NEW c \in Calls, AskCodex(c) PROVE LedgerInv'
  <2>1. c \notin lapsed => row[c].status = "reserved"
    BY <1>0, <1>11 DEF AskCodex
  <2>5. RowInv'
    BY <1>0, <1>11, <2>1 DEF AskCodex
  <2>6. LeaseInv'
    BY <1>0, <1>11, <2>1 DEF AskCodex
  <2>7. LiveCallIsReserved'
    BY <1>0, <1>11, <2>1 DEF AskCodex
  <2>8. SpentIsAccounted'
    BY <1>0, <1>11, <2>1 DEF AskCodex
  <2> QED
    BY <2>5, <2>6, <2>7, <2>8
<1>12. ASSUME NEW c \in Calls, NextRound(c) PROVE LedgerInv'
  BY <1>0, <1>12 DEF NextRound
<1>13. ASSUME NEW c \in Calls, ReadyToImplement(c) PROVE LedgerInv'
  BY <1>0, <1>13 DEF ReadyToImplement
<1>14. ASSUME NEW c \in Calls, Return(c) PROVE LedgerInv'
  BY <1>0, <1>14 DEF Return
<1>15. ASSUME NEW c \in Calls, Settle(c) PROVE LedgerInv'
  <2>1. row' = Finalized(c, "unavailable")
    BY <1>15 DEF Settle
  <2>2. /\ row' \in [Ids -> Row]
        /\ \A i \in Ids \ {c} : row'[i] = row[i]
        /\ row'[c].owner = row[c].owner /\ row'[c].spawned = row[c].spawned
        /\ \/ CanFinalize(c, "unavailable") /\ row'[c].status = "unavailable" /\ row'[c].lease = "none"
           \/ ~CanFinalize(c, "unavailable") /\ row'[c] = row[c]
    BY <1>0, <2>1, FinalizedRow
  <2>5. RowInv'
    <3>1. \A i \in Ids : row'[i].status = "absent" =>
            /\ row'[i].lease = "none" /\ row'[i].owner = None /\ ~row'[i].spawned
            /\ used'[i] = 0 /\ verdict'[i] = "none"
      BY <1>0, <1>15, <2>2 DEF Settle, CanFinalize
    <3>2. \A i \in Ids : row'[i].status # "absent" => row'[i].owner \in Calls
      BY <1>0, <1>15, <2>2 DEF Settle, CanFinalize
    <3>3. \A i \in Ids \ Leased : row'[i].lease = "none" /\ verdict'[i] = "none"
      BY <1>0, <1>15, <2>2 DEF Settle, CanFinalize
    <3>4. \A d \in Calls :
            /\ row'[d].owner \in {None, d}
            /\ pc'[d] \in InFlight => row'[d].status # "absent"
            /\ pc'[d] \in {"idle", "reserved"} => used'[d] = 0
      BY <1>0, <1>15, <2>2 DEF Settle, CanFinalize
    <3>5. \A d \in Calls : pc'[d] = "probing" =>
            row'[ProbeId].owner = d /\ row'[ProbeId].status = "reserved"
      BY <1>0, <1>15, <2>2 DEF Settle, CanFinalize
    <3> QED
      BY <3>1, <3>2, <3>3, <3>4, <3>5
  <2>6. LeaseInv'
    BY <1>0, <1>15, <2>2 DEF Settle, CanFinalize
  <2>7. LiveCallIsReserved'
    BY <1>0, <1>15, <2>2 DEF Settle, CanFinalize
  <2>8. SpentIsAccounted'
    BY <1>0, <1>15, <2>2 DEF Settle, CanFinalize
  <2> QED
    BY <2>5, <2>6, <2>7, <2>8
<1>16. ASSUME NEW c \in Calls, Heartbeat(c) PROVE LedgerInv'
  <2>1. row' = [row EXCEPT ![c].lease = "live"] /\ "live" \in Leases
    BY <1>16 DEF Heartbeat, Leases
  <2>2. /\ row' \in [Ids -> Row]
        /\ \A i \in Ids \ {c} : row'[i] = row[i]
        /\ row'[c].status = row[c].status /\ row'[c].lease = "live"
        /\ row'[c].owner = row[c].owner /\ row'[c].spawned = row[c].spawned
    BY <1>0, <2>1, LeaseRow
  <2>5. RowInv'
    BY <1>0, <1>16, <2>2 DEF Heartbeat
  <2>6. LeaseInv'
    BY <1>0, <1>16, <2>2 DEF Heartbeat
  <2>7. LiveCallIsReserved'
    BY <1>0, <1>16, <2>2 DEF Heartbeat
  <2>8. SpentIsAccounted'
    BY <1>0, <1>16, <2>2 DEF Heartbeat
  <2> QED
    BY <2>5, <2>6, <2>7, <2>8
<1>17. ASSUME NEW c \in Calls, OwnerEnds(c) PROVE LedgerInv'
  BY <1>0, <1>17 DEF OwnerEnds
<1>18. ASSUME NEW id \in Ids, LeaseExpires(id) PROVE LedgerInv'
  <2>1. row' = [row EXCEPT ![id].lease = "expired"] /\ "expired" \in Leases
    BY <1>18 DEF LeaseExpires, Leases
  <2>2. /\ row' \in [Ids -> Row]
        /\ \A i \in Ids \ {id} : row'[i] = row[i]
        /\ row'[id].status = row[id].status /\ row'[id].lease = "expired"
        /\ row'[id].owner = row[id].owner /\ row'[id].spawned = row[id].spawned
    BY <2>1, LeaseRow
  <2>5. RowInv'
    BY <1>0, <1>18, <2>2 DEF LeaseExpires, KeepsLease
  <2>6. LeaseInv'
    BY <1>0, <1>18, <2>2 DEF LeaseExpires, KeepsLease
  <2>7. LiveCallIsReserved'
    BY <1>0, <1>18, <2>2 DEF LeaseExpires, KeepsLease
  <2>8. SpentIsAccounted'
    BY <1>0, <1>18, <2>2 DEF LeaseExpires, KeepsLease
  <2> QED
    BY <2>5, <2>6, <2>7, <2>8
<1>19. ASSUME NEW id \in Ids, StaleDecide(id) PROVE LedgerInv'
  BY <1>0, <1>19 DEF StaleDecide
<1>20. ASSUME NEW id \in Ids, StaleSettle(id) PROVE LedgerInv'
  <2>1. row' = Finalized(id, verdict[id]) /\ verdict[id] \in {"released", "unavailable"}
    BY <1>20 DEF StaleSettle
  <2>2. /\ row' \in [Ids -> Row]
        /\ \A i \in Ids \ {id} : row'[i] = row[i]
        /\ row'[id].owner = row[id].owner /\ row'[id].spawned = row[id].spawned
        /\ \/ CanFinalize(id, verdict[id]) /\ row'[id].status = verdict[id] /\ row'[id].lease = "none"
           \/ ~CanFinalize(id, verdict[id]) /\ row'[id] = row[id]
    BY <2>1, FinalizedRow
  <2>5. RowInv'
    <3>1. \A i \in Ids : row'[i].status = "absent" =>
            /\ row'[i].lease = "none" /\ row'[i].owner = None /\ ~row'[i].spawned
            /\ used'[i] = 0 /\ verdict'[i] = "none"
      BY <1>0, <1>20, <2>1, <2>2 DEF StaleSettle, CanFinalize
    <3>2. \A i \in Ids : row'[i].status # "absent" => row'[i].owner \in Calls
      BY <1>0, <1>20, <2>1, <2>2 DEF StaleSettle, CanFinalize
    <3>3. \A i \in Ids \ Leased : row'[i].lease = "none" /\ verdict'[i] = "none"
      BY <1>0, <1>20, <2>1, <2>2 DEF StaleSettle, CanFinalize
    <3>4. \A d \in Calls :
            /\ row'[d].owner \in {None, d}
            /\ pc'[d] \in InFlight => row'[d].status # "absent"
            /\ pc'[d] \in {"idle", "reserved"} => used'[d] = 0
      BY <1>0, <1>20, <2>1, <2>2 DEF StaleSettle, CanFinalize
    <3>5. \A d \in Calls : pc'[d] = "probing" =>
            row'[ProbeId].owner = d /\ row'[ProbeId].status = "reserved"
      BY <1>0, <1>20, <2>1, <2>2 DEF StaleSettle, CanFinalize
    <3> QED
      BY <3>1, <3>2, <3>3, <3>4, <3>5
  <2>6. LeaseInv'
    <3>1. \A d \in Leased :
            pc'[d] \in {"prompt", "reply", "answer"} =>
              beating'[d] /\ (d \notin lapsed' => row'[d].spawned)
      BY <1>0, <1>20, <2>1, <2>2 DEF StaleSettle, CanFinalize
    <3>2. \A i \in Ids \ lapsed' :
            Alive(i)' => row'[i].lease # "expired" /\ verdict'[i] = "none"
      <4> SUFFICES ASSUME NEW i \in Ids \ lapsed', Alive(i)'
                   PROVE  row'[i].lease # "expired" /\ verdict'[i] = "none"
        OBVIOUS
      <4>1. CASE i = id
        BY <4>1, <1>0, <1>20, <2>1, <2>2 DEF StaleSettle, CanFinalize
      <4>2. CASE i # id
        BY <4>2, <1>0, <1>20, <2>1, <2>2 DEF StaleSettle, CanFinalize
      <4> QED
        BY <4>1, <4>2
    <3>3. \A d \in Leased \ lapsed' : used'[d] > 0 => row'[d].spawned
      BY <1>0, <1>20, <2>1, <2>2 DEF StaleSettle, CanFinalize
    <3> QED
      BY <3>1, <3>2, <3>3
  <2>7. LiveCallIsReserved'
    BY <1>0, <1>20, <2>1, <2>2 DEF StaleSettle, CanFinalize
  <2>8. SpentIsAccounted'
    BY <1>0, <1>20, <2>1, <2>2 DEF StaleSettle, CanFinalize
  <2> QED
    BY <2>5, <2>6, <2>7, <2>8
<1>21. ASSUME NEW id \in Ids, WriteOff(id) PROVE LedgerInv'
  <2>1. row' = [row EXCEPT ![id].status = "written_off"]
    BY <1>21 DEF WriteOff
  <2>2. row' \in [Ids -> Row] /\ row[id] \in Row
    BY ZenonT(30), <2>1, RowTypes DEF Statuses
  <2>3. /\ \A i \in Ids \ {id} : row'[i] = row[i]
        /\ row'[id].status = "written_off" /\ row'[id].lease = row[id].lease
        /\ row'[id].owner = row[id].owner /\ row'[id].spawned = row[id].spawned
    BY <2>1, <2>2 DEF Row
  <2>5. RowInv'
    BY <1>0, <1>21, <2>2, <2>3 DEF WriteOff
  <2>6. LeaseInv'
    BY <1>0, <1>21, <2>2, <2>3 DEF WriteOff
  <2>7. LiveCallIsReserved'
    BY <1>0, <1>21, <2>2, <2>3 DEF WriteOff
  <2>8. SpentIsAccounted'
    BY <1>0, <1>21, <2>2, <2>3 DEF WriteOff
  <2> QED
    BY <2>5, <2>6, <2>7, <2>8
<1>22. CASE PlanTokensRefused
  BY <1>0, <1>22 DEF PlanTokensRefused
<1>23. CASE CallBrain
  <2>1. PlanCall \notin lapsed => row[PlanCall].status = "reserved"
    BY <1>0, <1>23 DEF CallBrain
  <2>5. RowInv'
    BY <1>0, <1>23, <2>1 DEF CallBrain
  <2>6. LeaseInv'
    BY <1>0, <1>23, <2>1 DEF CallBrain
  <2>7. LiveCallIsReserved'
    BY <1>0, <1>23, <2>1 DEF CallBrain
  <2>8. SpentIsAccounted'
    BY <1>0, <1>23, <2>1 DEF CallBrain
  <2> QED
    BY <2>5, <2>6, <2>7, <2>8
<1>24. CASE Crash
  <2>1. \A d \in Calls : pc'[d] \notin InFlight
    BY <1>24 DEF Crash
  <2>2. \A i \in Ids : ~Alive(i)'
    <3>1. ~Alive(ProbeId)'
      BY <2>1
    <3>2. \A i \in Calls : ~Alive(i)'
      BY <1>0, <2>1
    <3> QED
      BY <3>1, <3>2 DEF Ids
  <2>5. RowInv'
    BY <1>0, <1>24, <2>1, <2>2 DEF Crash
  <2>6. LeaseInv'
    BY <1>0, <1>24, <2>1, <2>2 DEF Crash
  <2>7. LiveCallIsReserved'
    BY <1>0, <1>24, <2>1, <2>2 DEF Crash
  <2>8. SpentIsAccounted'
    BY <1>0, <1>24, <2>1, <2>2 DEF Crash
  <2> QED
    BY <2>5, <2>6, <2>7, <2>8
<1>25. CASE UNCHANGED vars
  BY <1>0, <1>25 DEF vars
<1> QED
  BY <1>1, <1>2, <1>3, <1>4, <1>5, <1>6, <1>7, <1>8, <1>9, <1>10, <1>11, <1>12, <1>13, <1>14, <1>15, <1>16, <1>17, <1>18, <1>19, <1>20, <1>21, <1>22, <1>23, <1>24, <1>25
     DEF Next, CallStep, Reconcile

\* The strengthening of SpentIsAccounted and LiveCallIsReserved holds always.
LEMMA LedgerInvariant == Spec => []LedgerInv
<1>1. Init => LedgerInv
  <2> SUFFICES ASSUME Init PROVE LedgerInv
    OBVIOUS
  <2> USE LedgerAssumption DEF Init, Absent, Alive, InFlight, Ids, Calls, Leased
  <2>1. RowInv
    BY DEF RowInv
  <2>2. LeaseInv
    BY DEF LeaseInv
  <2>3. LiveCallIsReserved /\ SpentIsAccounted
    BY DEF LiveCallIsReserved, SpentIsAccounted
  <2> QED
    BY <2>1, <2>2, <2>3 DEF LedgerInv
<1> QED
  BY <1>1, LedgerStep, TypeCorrect, PTL DEF Spec

\* A call that keeps its lease has an open row for as long as it is alive, so
\* neither reconciliation nor a write-off can take the row away from it.
THEOREM LiveCallsStayReserved == Spec => []LiveCallIsReserved
<1>1. LedgerInv => LiveCallIsReserved
  BY DEF LedgerInv
<1> QED
  BY <1>1, LedgerInvariant, PTL

\* Money that was spent by a call that kept its lease is never released.
THEOREM SpendingIsAccounted == Spec => []SpentIsAccounted
<1>1. LedgerInv => SpentIsAccounted
  BY DEF LedgerInv
<1> QED
  BY <1>1, LedgerInvariant, PTL

-----------------------------------------------------------------------------
(* The worst case of a worker. *)

\* The rounds of a worker keep its use of the provider below its reservation.
LEMMA WorkStep ==
  ASSUME TypeOK, WorkInv, [Next]_vars
  PROVE  WorkInv'
<1>0. PiCalls \subseteq Calls /\ Calls \subseteq Ids /\ PlanCall \in Calls \ PiCalls
      /\ ProbeId \notin Calls /\ MaxPi \in Nat /\ MaxCodex \in Nat
  BY LedgerAssumption DEF Calls, Ids
<1>b. /\ UsedBefore[1] = 0 /\ UsedBefore[2] = MaxPi + MaxCodex
      /\ UsedBefore[3] = 2 * MaxPi + 2 * MaxCodex
      /\ UsedBefore[4] = 3 * MaxPi + 2 * MaxCodex
  BY DEF UsedBefore
<1> USE DEF TypeOK, WorkInv, Go, PCs
<1>1. ASSUME NEW c \in Calls, Reserve(c) PROVE WorkInv'
  BY <1>0, <1>b, <1>1 DEF Reserve
<1>2. ASSUME NEW c \in Calls, Refuse(c) PROVE WorkInv'
  BY <1>0, <1>b, <1>2 DEF Refuse
<1>3. ASSUME NEW c \in Calls, PrivacyBlocked(c) PROVE WorkInv'
  BY <1>0, <1>b, <1>3 DEF PrivacyBlocked
<1>4. ASSUME NEW c \in Calls, GuardCheckFails(c) PROVE WorkInv'
  BY <1>0, <1>b, <1>4 DEF GuardCheckFails
<1>5. ASSUME NEW c \in Calls, GuardKnown(c) PROVE WorkInv'
  BY <1>0, <1>b, <1>5 DEF GuardKnown
<1>6. ASSUME NEW c \in Calls, ReserveProbe(c) PROVE WorkInv'
  BY <1>0, <1>b, <1>6 DEF ReserveProbe
<1>7. ASSUME NEW c \in Calls, ProbeSent(c) PROVE WorkInv'
  BY <1>0, <1>b, <1>7 DEF ProbeSent
<1>8. ASSUME NEW c \in Calls, ProbeSettle(c) PROVE WorkInv'
  BY <1>0, <1>b, <1>8 DEF ProbeSettle
<1>9. ASSUME NEW c \in Calls, Spawn(c) PROVE WorkInv'
  BY <1>0, <1>b, <1>9 DEF Spawn
<1>10. ASSUME NEW c \in Calls, Prompt(c) PROVE WorkInv'
  BY <1>0, <1>b, <1>10 DEF Prompt
<1>11. ASSUME NEW c \in Calls, AskCodex(c) PROVE WorkInv'
  BY <1>0, <1>b, <1>11 DEF AskCodex
<1>12. ASSUME NEW c \in Calls, NextRound(c) PROVE WorkInv'
  BY <1>0, <1>b, <1>12 DEF NextRound
<1>13. ASSUME NEW c \in Calls, ReadyToImplement(c) PROVE WorkInv'
  BY <1>0, <1>b, <1>13 DEF ReadyToImplement
<1>14. ASSUME NEW c \in Calls, Return(c) PROVE WorkInv'
  BY <1>0, <1>b, <1>14 DEF Return
<1>15. ASSUME NEW c \in Calls, Settle(c) PROVE WorkInv'
  BY <1>0, <1>b, <1>15 DEF Settle
<1>16. CASE PlanTokensRefused
  BY <1>0, <1>16 DEF PlanTokensRefused
<1>17. CASE CallBrain
  BY <1>0, <1>17 DEF CallBrain
<1>18. CASE Crash
  BY <1>0, <1>18 DEF Crash, InFlight
<1>19. CASE UNCHANGED vars
  BY <1>0, <1>19 DEF vars
<1>20. ASSUME UNCHANGED <<pc, round, used>> PROVE WorkInv'
  BY <1>20
<1>21. ASSUME NEW c \in Calls, Heartbeat(c) \/ OwnerEnds(c) PROVE WorkInv'
  BY <1>20, <1>21 DEF Heartbeat, OwnerEnds
<1>22. ASSUME NEW id \in Ids,
       LeaseExpires(id) \/ StaleDecide(id) \/ StaleSettle(id) \/ WriteOff(id)
       PROVE  WorkInv'
  BY <1>20, <1>22 DEF LeaseExpires, StaleDecide, StaleSettle, WriteOff
<1> QED
  BY <1>1, <1>2, <1>3, <1>4, <1>5, <1>6, <1>7, <1>8, <1>9, <1>10, <1>11, <1>12, <1>13, <1>14, <1>15, <1>16, <1>17, <1>18, <1>19, <1>20, <1>21, <1>22
     DEF Next, CallStep, Reconcile

\* The reservation of a call covers every request made to a provider under it,
\* the clarification rounds and Codex answers of a worker included.
THEOREM WorstCaseIsReserved == Spec => []WorstCaseCovers
<1>0. PiCalls \subseteq Calls /\ Calls \subseteq Ids /\ PlanCall \in Calls \ PiCalls
      /\ ProbeId \in Ids /\ ProbeId \notin Calls
      /\ MaxPi \in Nat \ {0} /\ MaxCodex \in Nat \ {0}
  BY LedgerAssumption DEF Calls, Ids
<1>c. /\ Cost[ProbeId] = MaxPi
      /\ \A c \in PiCalls : Cost[c] = 4 * MaxPi + 2 * MaxCodex
      /\ \A c \in Calls \ PiCalls : Cost[c] = MaxCodex
  BY <1>0 DEF Cost
<1>b. /\ UsedBefore[1] = 0 /\ UsedBefore[2] = MaxPi + MaxCodex
      /\ UsedBefore[3] = 2 * MaxPi + 2 * MaxCodex
      /\ UsedBefore[4] = 3 * MaxPi + 2 * MaxCodex
  BY DEF UsedBefore
<1>1. Init => WorkInv /\ WorstCaseCovers
  <2> SUFFICES ASSUME Init PROVE WorkInv /\ WorstCaseCovers
    OBVIOUS
  <2>1. WorkInv
    BY <1>0 DEF Init, WorkInv
  <2>2. \A id \in Ids : used[id] = 0 /\ Cost[id] \in Nat
    BY CostType DEF Init
  <2> QED
    BY <2>1, <2>2 DEF WorstCaseCovers
<1>2. TypeOK /\ WorkInv /\ WorstCaseCovers /\ [Next]_vars => WorstCaseCovers'
  <2> SUFFICES ASSUME TypeOK, WorkInv, WorstCaseCovers, [Next]_vars
               PROVE  WorstCaseCovers'
    OBVIOUS
  <2>1. ASSUME used' = used PROVE WorstCaseCovers'
    BY <2>1 DEF WorstCaseCovers
  <2>2. ASSUME NEW id \in Ids, NEW n, used' = [used EXCEPT ![id] = n],
               n <= Cost[id]
        PROVE  WorstCaseCovers'
    BY <2>2 DEF WorstCaseCovers, TypeOK
  <2>3. CASE CallBrain
    <3>1. used[PlanCall] = 0
      BY <1>0, <2>3 DEF CallBrain, Go, WorkInv
    <3>2. used' = [used EXCEPT ![PlanCall] = used[PlanCall] + MaxCodex]
      BY <2>3 DEF CallBrain
    <3>3. PlanCall \in Ids /\ Cost[PlanCall] = MaxCodex
      BY <1>0, <1>c
    <3>4. used[PlanCall] + MaxCodex <= Cost[PlanCall]
      BY <1>0, <3>1, <3>3
    <3> QED
      BY <2>2, <3>2, <3>3, <3>4
  <2>4. ASSUME NEW c \in Calls, ProbeSent(c) PROVE WorstCaseCovers'
    <3>1. used' = [used EXCEPT ![ProbeId] = MaxPi]
      BY <2>4 DEF ProbeSent
    <3>2. MaxPi <= Cost[ProbeId]
      BY <1>0, <1>c
    <3> QED
      BY <1>0, <2>2, <3>1, <3>2
  <2>5. ASSUME NEW c \in Calls, Prompt(c) PROVE WorstCaseCovers'
    <3>0. c \in Ids /\ pc[c] = "prompt" /\ used[c] \in Nat
      BY <1>0, <2>5 DEF Prompt, Go, TypeOK
    <3>1. CASE c \in PiCalls
      <4>1. used[c] + MaxPi <= Cost[c]
        BY <1>0, <1>b, <1>c, <3>0, <3>1 DEF WorkInv
      <4>2. used' = [used EXCEPT ![c] = used[c] + MaxPi]
        BY <2>5, <3>1 DEF Prompt
      <4> QED
        BY <2>2, <3>0, <4>1, <4>2
    <3>2. CASE c \notin PiCalls
      <4>1. used[c] + MaxCodex <= Cost[c]
        BY <1>0, <1>c, <3>0, <3>2 DEF WorkInv
      <4>2. used' = [used EXCEPT ![c] = used[c] + MaxCodex]
        BY <2>5, <3>2 DEF Prompt
      <4> QED
        BY <2>2, <3>0, <4>1, <4>2
    <3> QED
      BY <3>1, <3>2
  <2>6. ASSUME NEW c \in Calls, AskCodex(c) PROVE WorstCaseCovers'
    <3>0. c \in PiCalls /\ c \in Ids /\ pc[c] = "reply" /\ used[c] \in Nat
          /\ round[c] \in 1..2
      BY <1>0, <2>6 DEF AskCodex, Go, TypeOK
    <3>1. used[c] + MaxCodex <= Cost[c]
      BY <1>0, <1>b, <1>c, <3>0 DEF WorkInv
    <3>2. used' = [used EXCEPT ![c] = used[c] + MaxCodex]
      BY <2>6 DEF AskCodex
    <3> QED
      BY <2>2, <3>0, <3>1, <3>2
  <2>7. ASSUME NEW c \in Calls,
               \/ Reserve(c) \/ Refuse(c) \/ Spawn(c) \/ NextRound(c)
               \/ ReadyToImplement(c) \/ Return(c) \/ Settle(c)
               \/ PrivacyBlocked(c) \/ GuardCheckFails(c) \/ GuardKnown(c)
               \/ ReserveProbe(c) \/ ProbeSettle(c) \/ Heartbeat(c)
               \/ OwnerEnds(c)
        PROVE  WorstCaseCovers'
    BY <2>1, <2>7 DEF Reserve, Refuse, Spawn, NextRound, ReadyToImplement,
       Return, Settle, PrivacyBlocked, GuardCheckFails, GuardKnown,
       ReserveProbe, ProbeSettle, Heartbeat, OwnerEnds
  <2>8. ASSUME NEW id \in Ids,
               \/ LeaseExpires(id) \/ StaleDecide(id) \/ StaleSettle(id)
               \/ WriteOff(id)
        PROVE  WorstCaseCovers'
    BY <2>1, <2>8 DEF LeaseExpires, StaleDecide, StaleSettle, WriteOff
  <2>9. CASE PlanTokensRefused \/ Crash \/ UNCHANGED vars
    BY <2>1, <2>9 DEF PlanTokensRefused, Crash, vars
  <2> QED
    BY <2>3, <2>4, <2>5, <2>6, <2>7, <2>8, <2>9 DEF Next, CallStep, Reconcile
<1>3. TypeOK /\ WorkInv /\ [Next]_vars => WorkInv'
  BY WorkStep
<1> QED
  BY <1>1, <1>2, <1>3, TypeCorrect, PTL DEF Spec

\* A row with evidence of a spawn is never released, not even by a verdict
\* that reconciliation reached before the spawn was recorded.
THEOREM SpawnIsAVeto == Spec => []SpawnVetoesRelease
<1>1. Init => SpawnVetoesRelease
  BY DEF Init, SpawnVetoesRelease, Absent
<1>2. TypeOK /\ SpawnVetoesRelease /\ [Next]_vars => SpawnVetoesRelease'
  <2> SUFFICES ASSUME TypeOK, SpawnVetoesRelease, [Next]_vars
               PROVE  SpawnVetoesRelease'
    OBVIOUS
  <2>0. PiCalls \subseteq Calls /\ Calls \subseteq Ids /\ ProbeId \in Ids
    BY DEF Calls, Ids
  <2>1. ASSUME row' = row PROVE SpawnVetoesRelease'
    BY <2>1 DEF SpawnVetoesRelease
  <2>2. ASSUME NEW id \in Ids, \A i \in Ids \ {id} : row'[i] = row[i],
               row'[id].status = "released" => ~row'[id].spawned
        PROVE  SpawnVetoesRelease'
    BY <2>2 DEF SpawnVetoesRelease
  <2>3. ASSUME NEW id \in Ids, NEW o \in {"released", "unavailable"},
               row' = Finalized(id, o)
        PROVE  SpawnVetoesRelease'
    BY <2>2, <2>3, FinalizedRow DEF CanFinalize, SpawnVetoesRelease
  <2>4. ASSUME NEW id \in Ids, NEW c \in Calls, NEW l \in Leases,
               Insert(id, c, l)
        PROVE  SpawnVetoesRelease'
    BY <2>2, <2>4, InsertedRow
  <2>5. ASSUME NEW id \in Ids, NEW l \in Leases,
               row' = [row EXCEPT ![id].lease = l]
        PROVE  SpawnVetoesRelease'
    BY <2>2, <2>5, LeaseRow DEF SpawnVetoesRelease
  <2>6. ASSUME NEW c \in Calls, Reserve(c) PROVE SpawnVetoesRelease'
    BY <2>0, <2>4, <2>6 DEF Reserve, Leases
  <2>7. ASSUME NEW c \in Calls, ReserveProbe(c) PROVE SpawnVetoesRelease'
    BY <2>0, <2>1, <2>4, <2>7 DEF ReserveProbe, Leases
  <2>8. ASSUME NEW c \in Calls, Spawn(c) PROVE SpawnVetoesRelease'
    <3>1. c \in Leased /\ c \in Ids
      BY <2>8, LedgerAssumption DEF Spawn, Leased, Calls, Ids
    <3>2. row' = MarkedSpawned(c)
      BY <2>8 DEF Spawn
    <3>3. CASE row[c].status = "reserved" /\ ~row[c].spawned
      <4>1. row' = [row EXCEPT ![c].spawned = TRUE] /\ row \in [Ids -> Row]
        BY <3>2, <3>3 DEF MarkedSpawned, TypeOK
      <4>2. /\ \A i \in Ids \ {c} : row'[i] = row[i]
            /\ row'[c].status = "reserved"
        BY <3>1, <3>3, <4>1 DEF Row
      <4> QED
        BY <2>2, <3>1, <4>2
    <3>4. CASE ~(row[c].status = "reserved" /\ ~row[c].spawned)
      <4>1. row' = row
        BY <3>2, <3>4 DEF MarkedSpawned
      <4> QED
        BY <2>1, <4>1
    <3> QED
      BY <3>3, <3>4
  <2>9. ASSUME NEW c \in Calls, PrivacyBlocked(c) \/ Settle(c) \/ ProbeSettle(c)
        PROVE  SpawnVetoesRelease'
    BY <2>0, <2>3, <2>9 DEF PrivacyBlocked, Settle, ProbeSettle
  <2>10. ASSUME NEW id \in Ids, StaleSettle(id) PROVE SpawnVetoesRelease'
    <3>1. verdict[id] \in {"released", "unavailable"}
      BY <2>10 DEF StaleSettle, TypeOK
    <3> QED
      BY <2>3, <2>10, <3>1 DEF StaleSettle
  <2>11. ASSUME NEW c \in Calls, Heartbeat(c) PROVE SpawnVetoesRelease'
    BY <2>0, <2>5, <2>11 DEF Heartbeat, Leases
  <2>12. ASSUME NEW id \in Ids, LeaseExpires(id) PROVE SpawnVetoesRelease'
    BY <2>5, <2>12 DEF LeaseExpires, Leases
  <2>13. ASSUME NEW id \in Ids, WriteOff(id) PROVE SpawnVetoesRelease'
    <3>1. row' = [row EXCEPT ![id].status = "written_off"] /\ row \in [Ids -> Row]
      BY <2>13 DEF WriteOff, TypeOK
    <3>2. /\ \A i \in Ids \ {id} : row'[i] = row[i]
          /\ row'[id].status = "written_off"
      BY <3>1 DEF Row
    <3> QED
      BY <2>2, <3>2
  <2>14. ASSUME NEW c \in Calls,
                \/ Refuse(c) \/ GuardCheckFails(c) \/ GuardKnown(c)
                \/ ProbeSent(c) \/ Prompt(c) \/ AskCodex(c) \/ NextRound(c)
                \/ ReadyToImplement(c) \/ Return(c) \/ OwnerEnds(c)
         PROVE  SpawnVetoesRelease'
    BY <2>1, <2>14 DEF Refuse, GuardCheckFails, GuardKnown, ProbeSent, Prompt,
       AskCodex, NextRound, ReadyToImplement, Return, OwnerEnds
  <2>15. ASSUME NEW id \in Ids, StaleDecide(id) PROVE SpawnVetoesRelease'
    BY <2>1, <2>15 DEF StaleDecide
  <2>16. CASE PlanTokensRefused \/ CallBrain \/ Crash \/ UNCHANGED vars
    BY <2>1, <2>16 DEF PlanTokensRefused, CallBrain, Crash, vars
  <2> QED
    BY <2>6, <2>7, <2>8, <2>9, <2>10, <2>11, <2>12, <2>13, <2>14, <2>15, <2>16
       DEF Next, CallStep, Reconcile
<1> QED
  BY <1>1, <1>2, TypeCorrect, PTL DEF Spec
=============================================================================
