--------------------------- MODULE MCOrderLifecycle ---------------------------
(* The orders and levels of the model-checking runs of OrderLifecycle.       *)
EXTENDS OrderLifecycle

CONSTANTS o1, o2, low, high

One == {o1}
Two == {o1, o2}
OneLevel == {low}
TwoLevels == {low, high}
=============================================================================
