----------------------------- MODULE MCWinPaint -----------------------------
(* Instances of WinPaint for TLC.                                          *)
EXTENDS WinPaint, TLC

CONSTANTS t1, t2, root, popup, c1, c2

\* The desktop, owned by one thread; a popup of the other with a small window
\* over the frame of a larger one.
TreeA == root :> <<popup>> @@ popup :> <<c2, c1>> @@ c1 :> <<>> @@ c2 :> <<>>
OwnerA == root :> t2 @@ popup :> t1 @@ c1 :> t1 @@ c2 :> t1
WindowA == root :> 0..2 @@ popup :> 0..2 @@ c1 :> 1..2 @@ c2 :> 1..1
ClientA == root :> 0..2 @@ popup :> 0..2 @@ c1 :> 2..2 @@ c2 :> 1..1
RectsA == {0..2, 1..1, 2..2}
=============================================================================
