------------------------------- MODULE MCSseHub --------------------------------
(* Small instances of SseHub for TLC.                                      *)
EXTENDS SseHub

CONSTANTS c1, c2, ticker, api

MCMaxEvents == [s \in Senders |-> IF s = Ticker THEN 2 ELSE 1]
================================================================================
