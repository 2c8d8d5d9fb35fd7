--------------------------- MODULE MCAlertConsumer ---------------------------
(* The task on its own, with any number of rebalances: four messages and three *)
(* processes.                                                                  *)
EXTENDS AlertConsumer
=============================================================================
