------------------------------- MODULE MCCliApp -------------------------------
(***************************************************************************)
(* CliApp for TLC: the slots of commands are interchangeable.              *)
(***************************************************************************)
EXTENDS CliApp

Symmetry == Permutations(Slots)
===============================================================================
