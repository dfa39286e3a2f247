----------------------------- MODULE MCDocSync -----------------------------
(***************************************************************************)
(* DocSync on small instances: o is the passage the document starts with,  *)
(* l1 and l2 are typed into the vault file, p1 and p2 by other clients.    *)
(***************************************************************************)
EXTENDS DocSync, FiniteSets

CONSTANTS o, l1, l2, p1, p2

\* CONSTRAINT: no more than MaxFlows of the document's flows go on at once.
MaxFlows == 2
FewFlows == OutsideWindows /\ Cardinality({t \in Tasks : task[t] # Idle}) <= MaxFlows
=============================================================================
