----------------------------- MODULE MCTaskPool -----------------------------
(***************************************************************************)
(* TaskPool with a task a, a task b whose locks overlap those of a and a   *)
(* task c that depends on b and may change a path that a has claimed; b    *)
(* and c may skip the review of their first attempt.                       *)
(***************************************************************************)
EXTENDS TaskPool

CONSTANTS a, b, c, pa, pb, ps

DepsOf == [t \in Tasks |-> IF t = c THEN {b} ELSE {}]
EstOf == [t \in Tasks |-> IF t = a THEN {pa} ELSE {pb}]
DiffsOf == [t \in Tasks |-> CASE t = a -> {{pa, ps}}
                               [] t = b -> {{pb}}
                               [] t = c -> {{pb}, {pb, ps}}]
AttemptsOf == [t \in Tasks |-> IF t = b THEN 3 ELSE 1]
ClashOf == {<<a, b>>, <<b, a>>} \cap (Tasks \X Tasks)
=============================================================================
