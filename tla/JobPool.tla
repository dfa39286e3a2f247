------------------------------ MODULE JobPool ------------------------------
(***************************************************************************)
(* What a transfer lane promises, with everything else forgotten: jobs     *)
(* named by a key wait, then run, then are gone; a key that waits or runs  *)
(* is not accepted a second time; and at most Limit jobs run at once.      *)
(* TransferQueue's lanes (TransferLanes) and the background poller are     *)
(* both such a pool.                                                       *)
(***************************************************************************)
EXTENDS Naturals, FiniteSets

CONSTANTS
  Keys,    \* what a job is known by: the guid of the document it moves
  Limit    \* how many jobs may run at once

VARIABLES
  waiting, \* keys accepted and not started
  running  \* keys started and not finished

poolVars == <<waiting, running>>

Init == waiting = {} /\ running = {}

(***************************************************************************)
(* New keys may be accepted, and waiting ones started, in one step: the    *)
(* code drains the queue inside the call that adds to it.                  *)
(***************************************************************************)
Advance ==
  \E new \in SUBSET (Keys \ (waiting \cup running)) :
    \E go \in SUBSET (waiting \cup new) :
      /\ waiting' = (waiting \cup new) \ go
      /\ running' = running \cup go
      /\ go # {} => Cardinality(running') <= Limit

Finish ==
  \E k \in running :
    /\ running' = running \ {k}
    /\ UNCHANGED waiting

\* The owner is torn down: what it tracked is forgotten.
Close == waiting' = {} /\ running' = {}

Next == Advance \/ Finish \/ Close

Spec == Init /\ [][Next]_poolVars
=============================================================================
