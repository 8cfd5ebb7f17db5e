--------------------------- MODULE MCReconciliation ---------------------------
EXTENDS Reconciliation

\* Of an attempt that has ended and is not the latest, nothing is read again
\* but its status and its review: states that differ in the rest are one.
View ==
  LET forget(i) == i < N /\ att[i].status \in Terminal
  IN <<run, stage, pause, merged, lock, batch, log, world, sched, command, used,
       [i \in DOMAIN att |->
          IF forget(i) THEN [NewAttempt EXCEPT !.status = att[i].status,
                                               !.review = att[i].review]
          ELSE att[i]]>>
=============================================================================
