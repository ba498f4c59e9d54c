------------------------------- MODULE MCSession -------------------------------
(* A small instance of Session for TLC. Neither the devices nor the        *)
(* requests under way can be told apart, and no property is about what     *)
(* must happen: symmetry is sound.                                         *)
EXTENDS Session, TLC

Symmetry == Permutations(Devices) \cup Permutations(Slots)
===============================================================================
