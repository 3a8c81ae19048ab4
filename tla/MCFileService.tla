---------------------------- MODULE MCFileService ----------------------------
(***************************************************************************)
(* Instances of FileService for TLC.                                       *)
(***************************************************************************)
EXTENDS FileService, TLC

\* Two commands per client, whichever they are.
AllPairs == [1 .. 2 -> Commands]

OneWrite == {<<Write>>}

\* No client and no server is distinguished.
Symmetry == Permutations(Clients) \union Permutations(Servers)

=============================================================================
