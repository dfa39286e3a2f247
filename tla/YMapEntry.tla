----------------------------- MODULE YMapEntry ------------------------------
(***************************************************************************)
(* One key of a Y.Map, as every client that holds a replica sees it.  A    *)
(* write is named by the clients that wrote the key before it, itself      *)
(* last: it is later than the writes it was made over, and of concurrent   *)
(* ones the one of the greater client is kept.                             *)
(***************************************************************************)
EXTENDS Naturals, Sequences

Later(s, t) ==
  \/ Len(s) > Len(t) /\ SubSeq(s, 1, Len(t)) = t
  \/ \E i \in 1..Len(s) : i <= Len(t) /\ s[i] > t[i] /\ \A j \in 1..(i - 1) : s[j] = t[j]
=============================================================================
