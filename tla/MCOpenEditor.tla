---------------------------- MODULE MCOpenEditor ----------------------------
(* OpenEditor for TLC: what happens besides the typing of one passage by the *)
(* user and one by a peer, in four mixtures.                                 *)
EXTENDS OpenEditor

Budget(opens, drops, refreshes, deletes, logins, failures) ==
  [opens |-> opens, drops |-> drops, refreshes |-> refreshes, deletes |-> deletes,
   logins |-> logins, failures |-> failures]

MCBudgets ==
  {Budget(2, 0, 0, 0, 0, 0),
   Budget(1, 1, 0, 1, 0, 0),
   Budget(1, 0, 1, 0, 0, 1),
   Budget(1, 0, 0, 0, 2, 0)}
=============================================================================
