-------------------------------- MODULE MCChat ---------------------------------
(* Small instances of Chat for TLC.                                        *)
EXTENDS Chat, TLC

CONSTANTS r1, r2, r3, ann

(* One member at several screens: the requests compete for the messages    *)
(* they may change.                                                        *)
MCUser == [r \in Requests |-> ann]

MCOps == (r1 :> {"ask", "edit", "seen"}) @@ (r2 :> {"ask", "seen"})
           @@ (r3 :> {"send", "delete", "clear"})
================================================================================
