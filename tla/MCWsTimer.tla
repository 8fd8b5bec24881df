----------------------------- MODULE MCWsTimer -----------------------------
(* Instances of WsTimer for TLC.                                           *)
EXTENDS WsTimer, TLC

CONSTANTS t1, t2, w1, w2

\* One window for each of two threads, one for one of them, none.
Owner2 == w1 :> t1 @@ w2 :> t2
Owner1 == w1 :> t1
NoOwner == <<>>
=============================================================================
