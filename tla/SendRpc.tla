------------------------------ MODULE SendRpc ------------------------------
(***************************************************************************)
(* What SendMessage between threads promises, without queues, flags,       *)
(* semaphores or frames: each thread has a stack of calls in progress,     *)
(* because it may call again while it serves others; each call is answered *)
(* once; a call returns only after it was answered itself, and the calls   *)
(* of a thread return in the reverse of the order they were made in.       *)
(***************************************************************************)
EXTENDS Sequences

CONSTANTS Threads, CallIds

VARIABLES
  stack,     \* the calls in progress of each thread, the latest first
  answered   \* the calls in progress that have been answered

vars == <<stack, answered>>

InProgress ==
  {c \in CallIds : \E t \in Threads : \E i \in DOMAIN stack[t] : stack[t][i] = c}

Init == stack = [t \in Threads |-> <<>>] /\ answered = {}

Send(t, c) ==
  /\ c \notin InProgress
  /\ stack' = [stack EXCEPT ![t] = <<c>> \o @]
  /\ UNCHANGED answered

\* One call by its receiver, or all those to a window that is destroyed.
Answer(C) ==
  /\ C \subseteq InProgress \ answered
  /\ answered' = answered \cup C
  /\ UNCHANGED stack

Return(t) ==
  /\ stack[t] # <<>>
  /\ Head(stack[t]) \in answered
  /\ stack' = [stack EXCEPT ![t] = Tail(@)]
  /\ answered' = answered \ {Head(stack[t])}

Next ==
  \/ \E t \in Threads, c \in CallIds : Send(t, c)
  \/ \E C \in SUBSET CallIds : Answer(C)
  \/ \E t \in Threads : Return(t)

Spec == Init /\ [][Next]_vars
=============================================================================
