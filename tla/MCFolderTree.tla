---------------------------- MODULE MCFolderTree ----------------------------
EXTENDS FolderTree

CONSTANTS A, B, C, x, y

AllKinds == {"create", "rename", "delete"}

\* A document in one folder with another folder beside it, and a folder with two.
TwoUsers(tree) ==
  [tree |-> tree, users |-> Clients, kinds |-> AllKinds, ops |-> 3,
   at |-> {<<A>>, <<B>>, <<A, x>>, <<B, x>>}]

\* Folders come and go, and their paths are used again.
ThreeFolders(users, kinds, ops) ==
  [tree |-> {<<A>>}, users |-> users, kinds |-> kinds, ops |-> ops,
   at |-> {<<A>>, <<B>>, <<C>>}]

\* One user makes, moves and makes again a folder and what is in it.
MadeAgain(c) ==
  [tree |-> {<<A>>}, users |-> {c}, kinds |-> AllKinds, ops |-> 4,
   at |-> {<<A>>, <<B>>, <<A, x>>}]

MCPlans ==
  {TwoUsers({<<A>>, <<A, x>>, <<B>>}), TwoUsers({<<A>>, <<A, x>>, <<A, y>>}),
   ThreeFolders(Clients, AllKinds, 3), ThreeFolders({1}, {"create", "rename"}, 4), MadeAgain(1)}
=============================================================================
