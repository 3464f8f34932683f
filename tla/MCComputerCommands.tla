------------------------- MODULE MCComputerCommands -------------------------
(***************************************************************************)
(* Nodes, users and package contents are interchangeable where no fairness *)
(* tells them apart.                                                       *)
(***************************************************************************)
EXTENDS ComputerCommands, TLC

Symmetry == Permutations(Node) \cup Permutations(User) \cup Permutations(Sha)
=============================================================================
