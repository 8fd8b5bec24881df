------------------------------ MODULE MsgQueue ------------------------------
(***************************************************************************)
(* The message queues of the window system (kernel/msgqueue.c, message.c   *)
(* and wsthread.c), in the multi-threaded build (__MT_PLX_GUI).            *)
(*                                                                         *)
(* Every thread that owns windows has a THREADINFO: a queue of sent        *)
(* messages, a queue of posted messages, a stack of the messages it sent   *)
(* and waits for, the flags of dwState, and a semaphore it blocks on.  All *)
(* of it is guarded by one monitor, and the code between ENTERMONITOR and  *)
(* LEAVEMONITOR is one action here.  What runs outside the monitor is      *)
(* between actions: the window procedures, the wait on the semaphore, and  *)
(* the look-up of a handle that the API functions make before they enter.  *)
(*                                                                         *)
(* A window procedure may call anything, so a thread is a stack of frames; *)
(* the top one is what it is executing:                                    *)
(*   app      the thread's own code, outside any message loop              *)
(*   get      WS_GetMessage for GetMessage (it may block)                  *)
(*   peek     WS_GetMessage for PeekMessage (it never blocks)              *)
(*   proc n   the window procedure, called by MSQ_ReplyMessage for node n  *)
(*   wait n   MSQ_SendMessage, waiting for the reply to its own node n     *)
(*   destroy w  WND_Destroy: the window procedure is handling WM_DESTROY   *)
(*   exit     WS_ThreadExit, destroying the windows of the thread          *)
(* Procedures that the thread calls on its own windows (SendMessage within *)
(* a thread, DispatchMessage of a posted message) are plain calls that     *)
(* change nothing here, and are part of the frame that makes them.         *)
(***************************************************************************)
EXTENDS Naturals, Sequences, FiniteSets

CONSTANTS
  Threads,   \* the threads that use the window system
  Windows,   \* the windows they will ever create
  Owner,     \* the thread that creates each window (WINOBJ.dwThreadId)
  Nodes,     \* room for message nodes: GetMsgObj fails when all are in use
  Calls,     \* the functions the applications call, a subset of AllCalls
  MaxLoops,  \* bound: how many message loops a thread nests (modal dialogs)
  NULL       \* no node, no window, no call

\* "modal": a window procedure may run a message loop of its own.
AllCalls == {"send", "notify", "post", "postthread", "peek", "destroy", "quit",
             "modal"}

ASSUME OwnerAssumption == Owner \in [Windows -> Threads]
ASSUME CallsAssumption == Calls \subseteq AllCalls
ASSUME MaxLoopsAssumption == MaxLoops \in Nat \ {0}
ASSUME DistinctAssumption ==
  /\ NULL \notin Nodes \cup Windows \cup Threads
  /\ NULL \notin [op : AllCalls, win : Windows]
  /\ Nodes \cap Windows = {} /\ Windows \cap Threads = {}

VARIABLES
  info,     \* the threads that have a THREADINFO (the list ThreadInfoHead)
  window,   \* none, live, destroying (bDestroying) or gone, for each window
  node,     \* the contents of the message nodes (SENDMSG and POSTMSG)
  sendQ,    \* SendMsgQue of each thread, as the set of its nodes
  postQ,    \* PostMsgQue of each thread, as the set of its nodes
  ahead,    \* for each queued node, the nodes ahead of it in its queue
  replies,  \* ReplyMsgStack of each thread, the top first
  dwState,  \* the flags QS_SENDMESSAGE, QS_POSTMESSAGE and QS_QUIT
  bBlock,   \* NO, INGETMESSAGE or INSENDMESSAGE
  sem,      \* the count of sem_message
  blocked,  \* the thread left the monitor for BLOCK and has not come back
  frames,   \* the call stack of each thread, the top first
  call,     \* an API call that has looked its window up, not yet entered
  fault     \* what the code dereferenced after it was freed, if anything

vars == <<info, window, node, sendQ, postQ, ahead, replies, dwState, bBlock,
          sem, blocked, frames, call, fault>>

-----------------------------------------------------------------------------
(* Nodes, frames and queues.                                               *)

Free == [type |-> "FREE", src |-> NULL, dst |-> NULL]

NodeRecords ==
  [type : {"NOTIFY", "SEND", "REPLY", "POST"}, src : Threads,
   dst : Windows \cup Threads] \cup {Free}

Frame(kind, arg) == [kind |-> kind, arg |-> arg]
App == Frame("app", NULL)

Frames == [kind : {"app", "get", "peek", "proc", "wait", "destroy", "exit"},
           arg : Nodes \cup Windows \cup {NULL}]

Top(t) == Head(frames[t])
Push(t, f) == frames' = [frames EXCEPT ![t] = <<f>> \o @]
Return(t) == frames' = [frames EXCEPT ![t] = Tail(@)]

\* A queue is the set of its nodes and, for each, the ones ahead of it:
\* what the pNext chain tells apart.
First(q) == {n \in q : ahead[n] = {}}
Enqueue(q, n) == ahead' = [ahead EXCEPT ![n] = q]
Dequeue(S) == ahead' = [n \in Nodes |-> IF n \in S THEN {} ELSE ahead[n] \ S]

FreeNodes == {n \in Nodes : node[n].type = "FREE"}
Loops(t) == {i \in DOMAIN frames[t] : frames[t][i].kind = "get"}

-----------------------------------------------------------------------------
(* Mutants: what a slip in the operator named after Bug_ would make of it. *)
(* The properties are tested against them, nothing else uses them.         *)

\* Wakes the threads in GetMessage only, or the wrong ones.
Bug_ISBLOCK(t) == bBlock[t] = "INGETMESSAGE"
Bug_ISBLOCKINGET(t) == bBlock[t] = "INSENDMESSAGE"
\* Does not reset bBlock before it releases the semaphore.
Bug_Wake(S) ==
  /\ UNCHANGED bBlock
  /\ sem' = [t \in Threads |-> IF t \in S THEN sem[t] + 1 ELSE sem[t]]
\* Looks for waiters that are in GetMessage.
Bug_WaitersFor(S) ==
  {t \in info : /\ bBlock[t] = "INGETMESSAGE"
                /\ replies[t] # <<>> /\ Head(replies[t]) \in S}
\* Does not wait for the count.
Bug_BLOCK(t) == sem' = [sem EXCEPT ![t] = @ - 1]
\* Queues the message behind the ones already waited for.
Bug_MSQ_InsertReplyMsg(t, n) == replies' = [replies EXCEPT ![t] = Append(@, n)]
\* Takes the top for answered.
Bug_ReplyReady(t) == replies[t] # <<>>
\* Stops at the first message for another window.
Bug_QueuedFor(w, q) ==
  {n \in q : \A m \in ahead[n] \cup {n} : node[m].dst = w}
\* Clears the flag though messages are left.
Bug_MSQ_GetSendMsg(t, n) ==
  /\ n \in First(sendQ[t])
  /\ sendQ' = [sendQ EXCEPT ![t] = @ \ {n}]
  /\ Dequeue({n})
  /\ dwState' = [dwState EXCEPT ![t] = @ \ {"QS_SENDMESSAGE"}]
\* Forgets the windows of the thread.
Bug_HasWindows(t) == FALSE

-----------------------------------------------------------------------------
(* Blocking and waking.                                                    *)

ISBLOCK(t) == bBlock[t] # "NO"
ISBLOCKINGET(t) == bBlock[t] = "INGETMESSAGE"
ISBLOCKINSEND(t) == bBlock[t] = "INSENDMESSAGE"

\* SEMAPHORE_WAIT and, for every thread of S, SEMAPHORE_RELEASE after its
\* bBlock was reset.
BLOCK(t) == sem[t] > 0 /\ sem' = [sem EXCEPT ![t] = @ - 1]
Wake(S) ==
  /\ bBlock' = [t \in Threads |-> IF t \in S THEN "NO" ELSE bBlock[t]]
  /\ sem' = [t \in Threads |-> IF t \in S THEN sem[t] + 1 ELSE sem[t]]

\* The threads blocked in SendMessage on one of the nodes S.
WaitersFor(S) ==
  {t \in info : /\ ISBLOCKINSEND(t)
                /\ replies[t] # <<>> /\ Head(replies[t]) \in S}

\* The nodes of queue q that are for window w.
QueuedFor(w, q) == {n \in q : node[n].dst = w}

\* Application code is running in t: its own, or a window procedure.
Running(t) == /\ Top(t).kind \in {"app", "proc", "destroy"}
              /\ call[t] = NULL

-----------------------------------------------------------------------------
Init ==
  /\ info = {}
  /\ window = [w \in Windows |-> "none"]
  /\ node = [n \in Nodes |-> Free]
  /\ sendQ = [t \in Threads |-> {}]
  /\ postQ = [t \in Threads |-> {}]
  /\ ahead = [n \in Nodes |-> {}]
  /\ replies = [t \in Threads |-> <<>>]
  /\ dwState = [t \in Threads |-> {}]
  /\ bBlock = [t \in Threads |-> "NO"]
  /\ sem = [t \in Threads |-> 0]
  /\ blocked = [t \in Threads |-> FALSE]
  /\ frames = [t \in Threads |-> <<App>>]
  /\ call = [t \in Threads |-> NULL]
  /\ fault = "none"

-----------------------------------------------------------------------------
(* Calls that look a window up outside the monitor and then enter it.      *)

\* SendMessage, SendNotifyMessage and PostMessage: WOT_GetObj finds the
\* window; the call enters the monitor in a later step.
LookUp(t, op, w) ==
  /\ Running(t)
  /\ op \in Calls \cap {"send", "notify", "post"}
  /\ window[w] \in {"live", "destroying"}
  /\ op \in {"send", "notify"} => Owner[w] # t
  /\ op = "send" => t \in info
  /\ call' = [call EXCEPT ![t] = [op |-> op, win |-> w]]
  /\ UNCHANGED <<info, window, node, sendQ, postQ, ahead, replies, dwState,
                 bBlock, sem, blocked, frames, fault>>

\* The pending call of t, in the monitor, with its window still there.
Entered(t, op, w) ==
  /\ call[t] = [op |-> op, win |-> w]
  /\ window[w] # "gone"
  /\ call' = [call EXCEPT ![t] = NULL]

\* The window was destroyed after the look-up: pWin points to freed memory.
EnterWithGoneWindow(t, w) ==
  /\ \E op \in Calls : call[t] = [op |-> op, win |-> w]
  /\ window[w] = "gone"
  /\ fault' = "window"
  /\ UNCHANGED <<info, window, node, sendQ, postQ, ahead, replies, dwState,
                 bBlock, sem, blocked, frames, call>>

\* GetMsgObj returns NULL: the call gives up.
GetMsgObjFails(t) ==
  /\ FreeNodes = {}
  /\ \E op \in Calls, w \in Windows : Entered(t, op, w)
  /\ UNCHANGED <<info, window, node, sendQ, postQ, ahead, replies, dwState,
                 bBlock, sem, blocked, frames, fault>>

\* Node n, now [type, t, w], goes to the end of the send queue of thread u,
\* which is woken if it is blocked for any reason.
MSQ_InsertSendMsg(u, n, type, t, w) ==
  /\ node' = [node EXCEPT ![n] = [type |-> type, src |-> t, dst |-> w]]
  /\ sendQ' = [sendQ EXCEPT ![u] = @ \cup {n}]
  /\ Enqueue(sendQ[u], n)
  /\ dwState' = [dwState EXCEPT ![u] = @ \cup {"QS_SENDMESSAGE"}]
  /\ Wake({u} \cap {v \in Threads : ISBLOCK(v)})

\* Node n goes to the end of the post queue of thread u, which is woken only
\* if it is blocked in GetMessage.
MSQ_InsertPostMsg(u, n, t, dst) ==
  /\ node' = [node EXCEPT ![n] = [type |-> "POST", src |-> t, dst |-> dst]]
  /\ postQ' = [postQ EXCEPT ![u] = @ \cup {n}]
  /\ Enqueue(postQ[u], n)
  /\ dwState' = [dwState EXCEPT ![u] = @ \cup {"QS_POSTMESSAGE"}]
  /\ Wake({u} \cap {v \in Threads : ISBLOCKINGET(v)})

MSQ_InsertReplyMsg(t, n) == replies' = [replies EXCEPT ![t] = <<n>> \o @]

\* To a window of another thread: the node is pushed on the sender's own
\* reply stack and queued for the owner, and the sender starts to wait.
MSQ_SendMessage(t, w, n) ==
  /\ Entered(t, "send", w)
  /\ n \in FreeNodes
  /\ MSQ_InsertSendMsg(Owner[w], n, "SEND", t, w)
  /\ MSQ_InsertReplyMsg(t, n)
  /\ Push(t, Frame("wait", n))
  /\ UNCHANGED <<info, window, postQ, blocked, fault>>

MSQ_SendNotifyMessage(t, w, n) ==
  /\ Entered(t, "notify", w)
  /\ n \in FreeNodes
  /\ MSQ_InsertSendMsg(Owner[w], n, "NOTIFY", t, w)
  /\ UNCHANGED <<info, window, postQ, replies, blocked, frames, fault>>

MSQ_PostMessage(t, w, n) ==
  /\ Entered(t, "post", w)
  /\ n \in FreeNodes
  /\ MSQ_InsertPostMsg(Owner[w], n, t, w)
  /\ UNCHANGED <<info, window, sendQ, replies, blocked, frames, fault>>

\* PostThreadMessage finds the thread inside the monitor; it does nothing
\* when the thread has no THREADINFO.
MSQ_PostThreadMessage(t, u, n) ==
  /\ Running(t)
  /\ "postthread" \in Calls
  /\ u \in info
  /\ n \in FreeNodes
  /\ MSQ_InsertPostMsg(u, n, t, u)
  /\ UNCHANGED <<info, window, sendQ, replies, blocked, frames, call, fault>>

-----------------------------------------------------------------------------
(* Waiting: the loops of WS_GetMessage and of MSQ_SendMessage.             *)

InLoop(t, kinds) == Top(t).kind \in kinds /\ ~blocked[t]

\* GetMessage is called by AppRun, and by the loops of modal dialogs and menus.
GetMessage(t) ==
  /\ Running(t)
  /\ t \in info
  /\ Len(frames[t]) > 1 => /\ "modal" \in Calls
                           /\ Cardinality(Loops(t)) < MaxLoops
  /\ Push(t, Frame("get", NULL))
  /\ UNCHANGED <<info, window, node, sendQ, postQ, ahead, replies, dwState,
                 bBlock, sem, blocked, call, fault>>

PeekMessage(t) ==
  /\ Running(t)
  /\ t \in info
  /\ "peek" \in Calls
  /\ Push(t, Frame("peek", NULL))
  /\ UNCHANGED <<info, window, node, sendQ, postQ, ahead, replies, dwState,
                 bBlock, sem, blocked, call, fault>>

\* The top of the reply stack has been answered.
ReplyReady(t) ==
  replies[t] # <<>> /\ node[Head(replies[t])].type = "REPLY"

\* MSQ_GetSendMsg: take node n off the send queue of t.
MSQ_GetSendMsg(t, n) ==
  /\ n \in First(sendQ[t])
  /\ sendQ' = [sendQ EXCEPT ![t] = @ \ {n}]
  /\ Dequeue({n})
  /\ dwState' = [dwState EXCEPT ![t] =
                   IF sendQ[t] = {n} THEN @ \ {"QS_SENDMESSAGE"} ELSE @]

\* MSQ_ReplyMessage up to its LEAVEMONITOR: the window procedure starts.  A
\* thread that waits for a reply serves others first, but not before taking
\* the reply itself; one in GetMessage serves whatever its flag announces.
HandleSendMsg(t, n) ==
  /\ \/ InLoop(t, {"wait"}) /\ ~ReplyReady(t)
     \/ InLoop(t, {"get", "peek"}) /\ "QS_SENDMESSAGE" \in dwState[t]
  /\ MSQ_GetSendMsg(t, n)
  /\ Push(t, Frame("proc", n))
  /\ UNCHANGED <<info, window, node, postQ, replies, bBlock, sem, blocked,
                 call, fault>>

\* MSQ_ReplyMessage after the window procedure returned: a notification is
\* released; a sent message is marked, and its sender woken if it is blocked
\* on this very message.
MSQ_ReplyMessage(t) ==
  /\ Running(t)
  /\ Top(t).kind = "proc"
  /\ LET n == Top(t).arg IN
       \/ /\ node[n].type = "NOTIFY"
          /\ node' = [node EXCEPT ![n] = Free]
          /\ UNCHANGED <<bBlock, sem>>
       \/ /\ node[n].type = "SEND"
          /\ node' = [node EXCEPT ![n].type = "REPLY"]
          /\ Wake(WaitersFor({n}) \cap {node[n].src})
  /\ Return(t)
  /\ UNCHANGED <<info, window, sendQ, postQ, ahead, replies, dwState, blocked,
                 call, fault>>

\* MSQ_SendMessage takes the answered node off its stack, releases it and
\* returns.
TakeReply(t) ==
  /\ InLoop(t, {"wait"})
  /\ ReplyReady(t)
  /\ node' = [node EXCEPT ![Head(replies[t])] = Free]
  /\ replies' = [replies EXCEPT ![t] = Tail(@)]
  /\ Return(t)
  /\ UNCHANGED <<info, window, sendQ, postQ, ahead, dwState, bBlock, sem,
                 blocked, call, fault>>

\* GetMessage returns a posted message, which the caller will dispatch.
MSQ_GetPostMsg(t, n) ==
  /\ InLoop(t, {"get", "peek"})
  /\ "QS_SENDMESSAGE" \notin dwState[t]
  /\ "QS_POSTMESSAGE" \in dwState[t]
  /\ n \in First(postQ[t])
  /\ postQ' = [postQ EXCEPT ![t] = @ \ {n}]
  /\ Dequeue({n})
  /\ dwState' = [dwState EXCEPT ![t] =
                   IF postQ[t] = {n} THEN @ \ {"QS_POSTMESSAGE"} ELSE @]
  /\ node' = [node EXCEPT ![n] = Free]
  /\ Return(t)
  /\ UNCHANGED <<info, window, sendQ, replies, bBlock, sem, blocked, call,
                 fault>>

\* Nothing to do: PeekMessage returns FALSE.
PeekNothing(t) ==
  /\ InLoop(t, {"peek"})
  /\ dwState[t] = {}
  /\ Return(t)
  /\ UNCHANGED <<info, window, node, sendQ, postQ, ahead, replies, dwState,
                 bBlock, sem, blocked, call, fault>>

\* Nothing to do: mark the thread blocked, leave the monitor, BLOCK.
Block(t) ==
  /\ \/ /\ InLoop(t, {"get"})
        /\ dwState[t] = {}
        /\ bBlock' = [bBlock EXCEPT ![t] = "INGETMESSAGE"]
     \/ /\ InLoop(t, {"wait"})
        /\ ~ReplyReady(t)
        /\ sendQ[t] = {}
        /\ bBlock' = [bBlock EXCEPT ![t] = "INSENDMESSAGE"]
  /\ blocked' = [blocked EXCEPT ![t] = TRUE]
  /\ UNCHANGED <<info, window, node, sendQ, postQ, ahead, replies, dwState,
                 sem, frames, call, fault>>

\* The semaphore lets the thread go; it enters the monitor and looks again.
Unblock(t) ==
  /\ blocked[t]
  /\ BLOCK(t)
  /\ blocked' = [blocked EXCEPT ![t] = FALSE]
  /\ UNCHANGED <<info, window, node, sendQ, postQ, ahead, replies, dwState,
                 bBlock, frames, call, fault>>

-----------------------------------------------------------------------------
(* The life of windows and threads.                                        *)

\* WND_Create, which also gives its thread a THREADINFO at the first window.
CreateWindow(t, w) ==
  /\ Running(t)
  /\ Owner[w] = t
  /\ window[w] = "none"
  /\ window' = [window EXCEPT ![w] = "live"]
  /\ info' = info \cup {t}
  /\ UNCHANGED <<node, sendQ, postQ, ahead, replies, dwState, bBlock, sem,
                 blocked, frames, call, fault>>

\* Marks the window and calls its procedure with WM_DESTROY.
WND_Destroy(t, w) ==
  /\ Owner[w] = t
  /\ window[w] = "live"
  /\ window' = [window EXCEPT ![w] = "destroying"]
  /\ Push(t, Frame("destroy", w))
  /\ UNCHANGED <<info, node, sendQ, postQ, ahead, replies, dwState, bBlock,
                 sem, blocked, call, fault>>

\* DestroyWindow does nothing outside the thread of the window.
DestroyWindow(t, w) == Running(t) /\ "destroy" \in Calls /\ WND_Destroy(t, w)

\* Each window of a thread that exits.
WND_DestroyWindowsByThreadId(t, w) == Top(t).kind = "exit" /\ WND_Destroy(t, w)

\* The window procedure has returned: the window goes, with its messages.
\* MSQ_DeleteSendMsg marks the sent messages queued for the window as
\* answered and wakes their senders; a message whose sender has no THREADINFO
\* any more is released.  MSQ_DeletePostMsg releases the posted ones.
DestroyAWindow(t) ==
  /\ Running(t)
  /\ Top(t).kind = "destroy"
  /\ LET w == Top(t).arg
         sent == QueuedFor(w, sendQ[t])
         posted == QueuedFor(w, postQ[t])
         answered == {n \in sent : node[n].src \in info}
     IN /\ window' = [window EXCEPT ![w] = "gone"]
        /\ node' = [n \in Nodes |->
                      IF n \in answered THEN [node[n] EXCEPT !.type = "REPLY"]
                      ELSE IF n \in sent \cup posted THEN Free
                      ELSE node[n]]
        /\ Wake(WaitersFor(answered))
        /\ sendQ' = [sendQ EXCEPT ![t] = @ \ sent]
        /\ postQ' = [postQ EXCEPT ![t] = @ \ posted]
        /\ Dequeue(sent \cup posted)
        /\ dwState' = [dwState EXCEPT ![t] = @ \
             ({f \in {"QS_SENDMESSAGE"} : sent = sendQ[t]}
              \cup {f \in {"QS_POSTMESSAGE"} : posted = postQ[t]})]
  /\ Return(t)
  /\ UNCHANGED <<info, replies, blocked, call, fault>>

PostQuitMessage(t) ==
  /\ Running(t)
  /\ "quit" \in Calls
  /\ t \in info
  /\ dwState' = [dwState EXCEPT ![t] = @ \cup {"QS_QUIT"}]
  /\ UNCHANGED <<info, window, node, sendQ, postQ, ahead, replies, bBlock, sem,
                 blocked, frames, call, fault>>

\* QS_QUIT in WS_GetMessage, with nothing sent or posted left.
Quits(t) == InLoop(t, {"get", "peek"}) /\ dwState[t] = {"QS_QUIT"}

\* WS_ThreadExit starts, in the outermost message loop of the thread.
WS_ThreadExit(t) ==
  /\ Quits(t)
  /\ Len(frames[t]) = 2
  /\ dwState' = [dwState EXCEPT ![t] = {}]
  /\ frames' = [frames EXCEPT ![t] = <<Frame("exit", NULL)>> \o Tail(@)]
  /\ UNCHANGED <<info, window, node, sendQ, postQ, ahead, replies, bBlock, sem,
                 blocked, call, fault>>

\* WS_ThreadExit in a nested loop frees the THREADINFO that the frames below
\* hold a pointer to.
QuitInNestedLoop(t) ==
  /\ Quits(t)
  /\ Len(frames[t]) > 2
  /\ fault' = "thread"
  /\ UNCHANGED <<info, window, node, sendQ, postQ, ahead, replies, dwState,
                 bBlock, sem, blocked, frames, call>>

HasWindows(t) ==
  \E w \in Windows : Owner[w] = t /\ window[w] \in {"live", "destroying"}

\* All windows are gone: the THREADINFO goes, with whatever is still posted
\* to the thread itself, and GetMessage returns FALSE.
THREADINFO_Destroy(t) ==
  /\ Top(t).kind = "exit"
  /\ ~HasWindows(t)
  /\ info' = info \ {t}
  /\ postQ' = [postQ EXCEPT ![t] = {}]
  /\ Dequeue(postQ[t])
  /\ dwState' = [dwState EXCEPT ![t] = {}]
  /\ Return(t)
  /\ UNCHANGED <<window, node, sendQ, replies, bBlock, sem, blocked, call,
                 fault>>

-----------------------------------------------------------------------------
Kernel(t) ==
  \/ \E n \in Nodes : HandleSendMsg(t, n) \/ MSQ_GetPostMsg(t, n)
  \/ \E w \in Windows, n \in Nodes :
       \/ MSQ_SendMessage(t, w, n)
       \/ MSQ_SendNotifyMessage(t, w, n)
       \/ MSQ_PostMessage(t, w, n)
  \/ \E w \in Windows :
       EnterWithGoneWindow(t, w) \/ WND_DestroyWindowsByThreadId(t, w)
  \/ GetMsgObjFails(t)
  \/ TakeReply(t) \/ PeekNothing(t) \/ Block(t) \/ Unblock(t)
  \/ WS_ThreadExit(t) \/ QuitInNestedLoop(t) \/ THREADINFO_Destroy(t)

Application(t) ==
  \/ \E op \in Calls, w \in Windows : LookUp(t, op, w)
  \/ \E u \in Threads, n \in Nodes : MSQ_PostThreadMessage(t, u, n)
  \/ GetMessage(t) \/ PeekMessage(t)
  \/ \E w \in Windows : CreateWindow(t, w) \/ DestroyWindow(t, w)
  \/ MSQ_ReplyMessage(t) \/ DestroyAWindow(t) \/ PostQuitMessage(t)

\* Once freed memory has been used, nothing more is claimed.
Next == fault = "none" /\ \E t \in Threads : Kernel(t) \/ Application(t)

Spec == Init /\ [][Next]_vars

\* The scheduler runs every thread; a window procedure makes finitely many
\* calls and returns; a thread that has windows keeps calling GetMessage.
Fairness ==
  \A t \in Threads :
    /\ WF_vars(fault = "none" /\ Kernel(t))
    /\ SF_vars(fault = "none" /\ (MSQ_ReplyMessage(t) \/ DestroyAWindow(t)))
    /\ SF_vars(fault = "none" /\ GetMessage(t))

FairSpec == Spec /\ Fairness

-----------------------------------------------------------------------------
TypeOK ==
  /\ info \subseteq Threads
  /\ window \in [Windows -> {"none", "live", "destroying", "gone"}]
  /\ node \in [Nodes -> NodeRecords]
  /\ sendQ \in [Threads -> SUBSET Nodes]
  /\ postQ \in [Threads -> SUBSET Nodes]
  /\ ahead \in [Nodes -> SUBSET Nodes]
  /\ replies \in [Threads -> Seq(Nodes)]
  /\ dwState \in
       [Threads -> SUBSET {"QS_SENDMESSAGE", "QS_POSTMESSAGE", "QS_QUIT"}]
  /\ bBlock \in [Threads -> {"NO", "INGETMESSAGE", "INSENDMESSAGE"}]
  /\ sem \in [Threads -> Nat]
  /\ blocked \in [Threads -> BOOLEAN]
  /\ frames \in [Threads -> Seq(Frames)]
  /\ call \in [Threads -> [op : Calls, win : Windows] \cup {NULL}]
  /\ fault \in {"none", "window", "thread"}

-----------------------------------------------------------------------------
(* Safety.                                                                 *)

\* Where the frames of thread t wait in SendMessage, and for which nodes.
WaitsAt(t) == {i \in DOMAIN frames[t] : frames[t][i].kind = "wait"}
Waits(t, n) == \E i \in WaitsAt(t) : frames[t][i].arg = n

\* A thread that sleeps on its semaphore has nothing to do: every insertion,
\* reply and deletion that gives it work while it sleeps also wakes it, under
\* every interleaving of the blocking sequence with the wakers (BLOCK is
\* called after LEAVEMONITOR).
NoLostWakeup ==
  \A t \in Threads : blocked[t] /\ sem[t] = 0 =>
    /\ sendQ[t] = {}
    /\ Top(t).kind = "get" => dwState[t] = {}
    /\ Top(t).kind = "wait" => ~ReplyReady(t)

\* A thread is woken once for each time it blocks: of the several wakers that
\* may race for a sleeping thread only the first releases the semaphore, so
\* no count is left over to make a later BLOCK fall through.
OneWakeup ==
  \A t \in Threads :
    /\ bBlock[t] # "NO" => blocked[t] /\ sem[t] = 0
    /\ blocked[t] /\ bBlock[t] = "NO" => sem[t] = 1
    /\ ~blocked[t] => sem[t] = 0

\* The flags GetMessage decides on say exactly which queues have messages.  A
\* flag left set would make its loop spin in the monitor, one lost would leave
\* a message behind.
FlagsMatchQueues ==
  \A t \in Threads :
    /\ "QS_SENDMESSAGE" \in dwState[t] <=> sendQ[t] # {}
    /\ "QS_POSTMESSAGE" \in dwState[t] <=> postQ[t] # {}

\* The reply stack is the stack of SendMessage calls of the thread, whatever
\* it sends from within the procedures it runs while it waits: a call returns
\* with the reply to its own message (ASSERT(pMsg == pSendMsg)).
RepliesMatchWaits ==
  \A t \in Threads :
    /\ \A k, l \in DOMAIN replies[t] : replies[t][k] = replies[t][l] => k = l
    /\ \A k \in DOMAIN replies[t] : Waits(t, replies[t][k])
    /\ \A i \in WaitsAt(t) :
         \E k \in DOMAIN replies[t] : replies[t][k] = frames[t][i].arg
    /\ \A i, j \in WaitsAt(t), k, l \in DOMAIN replies[t] :
         /\ replies[t][k] = frames[t][i].arg
         /\ replies[t][l] = frames[t][j].arg
         => (i < j <=> k < l)

\* The queues and the procedures that hold a node.
ProcsOf(t, n) == {i \in DOMAIN frames[t] : frames[t][i] = Frame("proc", n)}
Holders(n) ==
  {<<t, 0>> : t \in {u \in Threads : n \in sendQ[u] \cup postQ[u]}}
  \cup UNION {{<<t, i>> : i \in ProcsOf(t, n)} : t \in Threads}

\* A message sent and not yet answered is in one place, one queue or one
\* running procedure, and its sender waits for it; an answered or a free node
\* is in none.  So no node is handled twice, answered twice or reused while
\* somebody can still reach it.
HeldOnce ==
  \A n \in Nodes :
    /\ node[n].type \in {"SEND", "NOTIFY"} => Cardinality(Holders(n)) = 1
    /\ node[n].type \in {"REPLY", "FREE"} => Holders(n) = {}
    /\ node[n].type = "SEND" =>
         Waits(node[n].src, n)
    /\ node[n].type = "FREE" =>
         \A t \in Threads : \A i \in DOMAIN replies[t] : replies[t][i] # n

\* A queued message is for a window that still exists, of the thread whose
\* queue it is in, and that thread has its THREADINFO (MSQ_ReplyMessage uses
\* the window it looks up without a check).
QueuedForLiveWindow ==
  \A t \in Threads : \A n \in sendQ[t] \cup postQ[t] :
    /\ t \in info
    /\ node[n].dst \in Windows => /\ Owner[node[n].dst] = t
                                  /\ window[node[n].dst] # "gone"

\* Threads that send to each other do not deadlock: when every thread sleeps
\* for good, no one is in SendMessage, unless a window procedure that should
\* answer is itself in a nested message loop.
SleepsForGood(t) == blocked[t] /\ sem[t] = 0
InNestedLoop(t) ==
  \E i, j \in DOMAIN frames[t] :
    i < j /\ frames[t][i].kind = "get" /\ frames[t][j].kind = "proc"
NoSendDeadlock ==
  (\A t \in info : SleepsForGood(t) /\ ~InNestedLoop(t)) =>
    \A t \in info : Top(t).kind = "get"

\* A THREADINFO is freed only when nobody waits for an answer of its thread,
\* and the thread itself waits for none.
ExitLeavesNoSender ==
  [][\A t \in info \ info' :
       /\ replies[t] = <<>>
       /\ \A n \in Nodes : node[n].type = "SEND" =>
            node[n].dst \notin {w \in Windows : Owner[w] = t}]_vars

-----------------------------------------------------------------------------
(* Refinement.                                                             *)

\* SendMessage is a remote procedure call (module SendRpc): its calls are the
\* frames that wait, and they are answered when their nodes are.
\* The k-th of them from the top has k waits down to itself.
WaitFrame(t, k) ==
  CHOOSE i \in WaitsAt(t) : Cardinality({j \in WaitsAt(t) : j <= i}) = k
rpcStack ==
  [t \in Threads |->
     [k \in 1 .. Cardinality(WaitsAt(t)) |-> frames[t][WaitFrame(t, k)].arg]]
rpcAnswered ==
  {n \in Nodes : node[n].type = "REPLY" /\ \E t \in Threads : Waits(t, n)}

Rpc == INSTANCE SendRpc WITH
         CallIds <- Nodes, stack <- rpcStack, answered <- rpcAnswered

\* Nested, crossing and aborted calls, whatever the interleaving, behave as
\* that abstract call.
ImplementsRpc == Rpc!Spec

-----------------------------------------------------------------------------
(* Liveness.                                                               *)

\* Every SendMessage returns once the threads stop starting new calls: its
\* message is served though the receiver may be waiting itself, for the sender
\* or for others, and the reply is noticed though it may come while the sender
\* serves somebody else.  Threads that go on sending to each other from their
\* window procedures can keep a call from returning for ever: the stacks of
\* frames grow and shrink above it without reaching it.
CallsStop == <>[][\A t \in Threads : call[t] = NULL => call'[t] = NULL]_vars
SendReturns ==
  CallsStop =>
    \A t \in Threads, n \in Nodes :
      Waits(t, n) ~> (~Waits(t, n) \/ fault # "none")

\* A posted message is taken by its thread, or deleted with its window, once
\* nobody starts calls that go before it and as long as its thread lives.
PostDelivered ==
  CallsStop =>
    \A t \in Threads, n \in Nodes :
      n \in postQ[t] ~> (n \notin postQ[t] \/ fault # "none")
=============================================================================
