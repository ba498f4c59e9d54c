------------------------------ MODULE MCRouterNet ------------------------------
(* A small instance of RouterNet for TLC.                                  *)
EXTENDS RouterNet, TLC

Symmetry == Permutations(Readers)
===============================================================================
