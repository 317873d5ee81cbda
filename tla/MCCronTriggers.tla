--------------------------- MODULE MCCronTriggers ---------------------------
(***************************************************************************)
(* Small instances of CronTriggers for TLC.                                *)
(***************************************************************************)
EXTENDS CronTriggers, TLC
CONSTANTS t1, w1, q1, q2, f1

\* Bounds: one trigger of either kind is created, for triggers have nothing in
\* common but the agent; and after the restart there is one request or fire at
\* a time, which with loadAll makes two.
Small ==
  /\ row[t1] = "new" \/ workflow[w1] = "new"
  /\ restarts > 0 => Cardinality({x \in Workers : pc[x] # "idle"}) < 2
=============================================================================
