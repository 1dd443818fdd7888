----------------------------- MODULE PlanRegister -----------------------------
(* What the route-plan owner promises its callers, apart from files, hashes    *)
(* and crashes: one current plan with a revision.  A mutation installs a legal *)
(* plan under the very next revision, in one step, and whatever any caller or  *)
(* hash reader is ever shown was the current plan at that moment.              *)
EXTENDS Integers

CONSTANTS Plans,      \* the legal plans, every one with a revision
          EmptyPlan   \* the plan of a new vehicle, at revision 0

VARIABLES current,    \* the plan the vehicle is following
          shown       \* every plan a caller or a hash reader has been shown

vars == <<current, shown>>

\* A vehicle that has never had a plan has the empty one.
Init == current = EmptyPlan /\ shown = {}

Mutate == /\ current' \in Plans
          /\ current'.revision = current.revision + 1
          /\ UNCHANGED shown

Show == shown' = shown \union {current} /\ UNCHANGED current

Next == Mutate \/ Show

Spec == Init /\ [][Next]_vars
===============================================================================
