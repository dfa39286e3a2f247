-------------------------- MODULE MCTransferLanes --------------------------
(***************************************************************************)
(* A small instance of TransferLanes: a share of three documents, two      *)
(* slots, and a document whose runs may hang.  A call is a triple          *)
(* <<lane, item, n>>.  A behaviour is about three of the five calls: an    *)
(* upload of each document, or two uploads of one and its download, or     *)
(* those two and another's upload.  The others were answered before.       *)
(***************************************************************************)
EXTENDS TransferLanes

CONSTANTS d1, d2, d3, s1

ThreeItems == {d1, d2, d3}
UploadOfEach == {<<"sync", d1, 1>>, <<"sync", d2, 1>>, <<"sync", d3, 1>>}
TwoUploads == {<<"sync", d2, 1>>, <<"sync", d2, 2>>}
ADownload == <<"download", d2, 1>>

FiveCalls == UploadOfEach \cup TwoUploads \cup {ADownload}
OneShareOf == [i \in Items |-> s1]
PathRank == [i \in Items |-> CASE i = d1 -> 1 [] i = d2 -> 2 [] i = d3 -> 3]
CallItem == [c \in Calls |-> c[2]]
CallLane == [c \in Calls |-> c[1]]

MCInit ==
  /\ queue = [l \in Lanes |-> {}]
  /\ active = [l \in Lanes |-> {}]
  /\ settled = {}
  /\ inFlight = [l \in Lanes |-> {}]
  /\ waiter = [l \in Lanes |-> [i \in Items |-> NoCall]]
  /\ \E about \in {UploadOfEach, TwoUploads \cup {ADownload},
                   TwoUploads \cup {<<"sync", d3, 1>>}} :
       promise = [c \in Calls |-> IF c \in about THEN "unused" ELSE "resolved"]
  /\ batch = [s \in Shares |-> NoBatch]
  /\ todo = {}
  /\ rebatched = {}
  /\ online \in SUBSET Shares
  /\ paused = TRUE
  /\ down = FALSE

MCSpec == MCInit /\ [][Next]_vars /\ Fairness
=============================================================================
