------------------------------ MODULE MCReminder ------------------------------
(* A small instance of Reminder for TLC.                                   *)
EXTENDS Reminder, TLC

CONSTANTS n1, n2, ann

MCOwner == [n \in Notes |-> ann]

(* A reminder that may expire, and a second one or a notification that is  *)
(* delivered at once.                                                      *)
MCPlans == (n1 :> {<<1, Never>>}) @@ (n2 :> {<<0, 0>>, <<Never, Never>>})
===============================================================================
