----------------------------- MODULE MCOwnQueue -----------------------------
(***************************************************************************)
(* Instances of OwnQueue for TLC.                                          *)
(***************************************************************************)
EXTENDS OwnQueue, TLC

\* No file is distinguished.
Symmetry == Permutations(Files)

=============================================================================
