-------------------------------- MODULE MCWsHub --------------------------------
(* Small instances of WsHub for TLC.                                       *)
EXTENDS WsHub, TLC

CONSTANTS k1, k2, ann, ben, m1, m2, family, dm

(* Ben and Ann are connected once each, and each sends a message.          *)
MCOwner == (k1 :> ann) @@ (k2 :> ben)
MCAuthor == (m1 :> ann) @@ (m2 :> ben)
=============================================================================
