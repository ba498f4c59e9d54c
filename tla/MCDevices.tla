------------------------------- MODULE MCDevices -------------------------------
(* A small instance of Devices for TLC.                                    *)
EXTENDS Devices, TLC

CONSTANTS q1, q2

MCSlots == {q1, q2}
Symmetry == Permutations(MCSlots)
===============================================================================
