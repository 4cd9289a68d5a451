-------------------------------- MODULE Budgets --------------------------------
(***************************************************************************)
(* What is lent between the cameras and the models of Win11: the tasks and *)
(* frames an L2 window may cost L3, and the frames, leases and copies of   *)
(* the materials store. Different threads move them, each under a lock of  *)
(* its own, and neither reads what the other keeps.                        *)
(***************************************************************************)
EXTENDS L3Budget, MaterialsStore

BudgetsSpec == BudgetSpec /\ MatSpec
-------------------------------------------------------------------------------
\* What is lent is counted: the tasks of a window within its budget, the frames and the
\* copies of the materials store within its bytes, and its materials are what they say.
BudgetsKept == NeverOversold /\ StoreExact /\ MaterialsHonest
================================================================================
