---------------------------- MODULE TokenSource ----------------------------
(***************************************************************************)
(* What a document may expect of RelayCredentialCache: a token it is given *)
(* is one that need not be renewed yet, and whoever asks for one gets an   *)
(* answer.                                                                 *)
(***************************************************************************)
EXTENDS Naturals

CONSTANTS Docs

Ages == {"none", "fresh", "due", "expired"}

VARIABLES
  asked, \* [Docs -> open requests]
  held   \* [Docs -> the age of the token the document was last given]

sourceVars == <<asked, held>>

Init == asked = [d \in Docs |-> 0] /\ held = [d \in Docs |-> "none"]

Ask(d) ==
  /\ asked' = [asked EXCEPT ![d] = @ + 1]
  /\ UNCHANGED held

Given(d) == held' = [held EXCEPT ![d] = "fresh"]

Answer(d) ==
  /\ asked[d] > 0
  /\ asked' = [asked EXCEPT ![d] = @ - 1]
  /\ Given(d)

Refuse(d) ==
  /\ asked[d] > 0
  /\ asked' = [asked EXCEPT ![d] = @ - 1]
  /\ UNCHANGED held

\* Unasked, or at once out of the cache.
Renew(d) == Given(d) /\ UNCHANGED asked

Older(age) == CASE age = "fresh" -> "due" [] age = "due" -> "expired" [] OTHER -> age

Grow(d) ==
  /\ held' = [held EXCEPT ![d] = Older(@)]
  /\ UNCHANGED asked

\* The application starts anew, with what is stored.
Restart ==
  /\ asked' = [d \in Docs |-> 0]
  /\ held' \in [Docs -> Ages]

Settle(d) == Answer(d) \/ Refuse(d)

Next ==
  \/ \E d \in Docs : Ask(d) \/ Settle(d) \/ Renew(d) \/ Grow(d)
  \/ Restart

Fairness == \A d \in Docs : WF_sourceVars(Settle(d))

Spec == Init /\ [][Next]_sourceVars /\ Fairness
=============================================================================
