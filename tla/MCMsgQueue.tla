---------------------------- MODULE MCMsgQueue ----------------------------
(* Instances of MsgQueue for TLC.                                           *)
EXTENDS MsgQueue, TLC

CONSTANTS t1, t2, t3, w1, w2, w3

\* One window for each of two or three threads.
Owner2 == w1 :> t1 @@ w2 :> t2
Owner3 == w1 :> t1 @@ w2 :> t2 @@ w3 :> t3

\* Threads may be renamed with the one window that each owns.
OwnWindows(q) == [w \in Windows |-> CHOOSE v \in Windows : Owner[v] = q[Owner[w]]]
NodesAndPairs ==
  {p @@ q @@ OwnWindows(q) : p \in Permutations(Nodes), q \in Permutations(Threads)}
=============================================================================
