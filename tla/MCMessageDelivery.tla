------------------------- MODULE MCMessageDelivery -------------------------
(* Values for the constants of MessageDelivery under TLC.                  *)
EXTENDS MessageDelivery, TLC

CONSTANTS scheduled, admin

\* OUTGOING_MAX_RETRIES of every job instance.
BudgetsTwo == [j \in Sweeper |-> 2]
BudgetsOne == [j \in Sweeper |-> 1]

\* Provider ids are opaque.
CopySymmetry == Permutations(Copy)
=============================================================================
