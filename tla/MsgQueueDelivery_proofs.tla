---------------------- MODULE MsgQueueDelivery_proofs ----------------------
(***************************************************************************)
(* Messages between threads, proved of module MsgQueue: no wake-up is lost *)
(* (NoLostWakeup), the flags match the queues (FlagsMatchQueues), a queued *)
(* message is for a window that is there (QueuedForLiveWindow), it has one *)
(* holder (HeldOnce), the reply stacks match the frames that wait          *)
(* (RepliesMatchWaits), and a thread that exits leaves nobody waiting      *)
(* (ExitLeavesNoSender).  From these: threads that send to each other do   *)
(* not deadlock (NoSendDeadlock), and their calls are those of the         *)
(* abstract specification SendRpc (ImplementsRpc).                         *)
(*                                                                         *)
(* None of them is inductive.  A message passes from a send queue to a     *)
(* window procedure to the top of a reply stack, so what each of these     *)
(* holds has to be known of the others: the inductive invariant is         *)
(* DeliveryInv, one part for each of them.  Its parts speak of frames and  *)
(* stack entries by their index (Proc, Wait, Reply), and the steps are     *)
(* sorted by what they do to those (MessageStep): most shift them, a send, *)
(* the start of a window procedure and the two kinds of return change one. *)
(***************************************************************************)
EXTENDS MsgQueue_proofs, FiniteSetTheorems, WellFoundedInduction

-----------------------------------------------------------------------------
(* What the stacks hold.                                                   *)

\* Frame i of thread t is the window procedure of message n, or the wait for
\* the answer to it; entry k of the reply stack of t is n.
Proc(t, i, n) == i \in 1 .. Len(frames[t]) /\ frames[t][i] = Frame("proc", n)
Wait(t, i, n) == i \in 1 .. Len(frames[t]) /\ frames[t][i] = Frame("wait", n)
Reply(t, k, n) == k \in 1 .. Len(replies[t]) /\ replies[t][k] = n

\* Calls and returns that concern no message shift the frames that do.
Shifted(s) ==
  \A u \in Threads, i \in Int, m \in Nodes :
    /\ Proc(u, i, m)' <=> Proc(u, i - s[u], m)
    /\ Wait(u, i, m)' <=> Wait(u, i - s[u], m)
Quiet == \E s \in [Threads -> Int] : Shifted(s)

\* The frames of the other threads.
Aside(t) ==
  \A u \in Threads, i \in Int, m \in Nodes : u # t =>
    /\ Proc(u, i, m)' <=> Proc(u, i, m)
    /\ Wait(u, i, m)' <=> Wait(u, i, m)

\* A window procedure is called for n, or a wait for n starts.
ProcCalled(t, n) ==
  /\ Aside(t)
  /\ \A i \in Int, m \in Nodes :
       /\ Proc(t, i, m)' <=> (i = 1 /\ m = n) \/ Proc(t, i - 1, m)
       /\ Wait(t, i, m)' <=> Wait(t, i - 1, m)
WaitCalled(t, n) ==
  /\ Aside(t)
  /\ \A i \in Int, m \in Nodes :
       /\ Proc(t, i, m)' <=> Proc(t, i - 1, m)
       /\ Wait(t, i, m)' <=> (i = 1 /\ m = n) \/ Wait(t, i - 1, m)

\* The top frame of t returns.
Returned(t) ==
  /\ Aside(t)
  /\ \A i \in Int, m \in Nodes :
       /\ Proc(t, i, m)' <=> i # 0 /\ Proc(t, i + 1, m)
       /\ Wait(t, i, m)' <=> i # 0 /\ Wait(t, i + 1, m)

\* Frames are counted from 1.
LEMMA Positive ==
  ASSUME TypeOK, NEW t \in Threads, NEW i \in Int, NEW n
  PROVE  /\ Proc(t, i, n) => i >= 1
         /\ Wait(t, i, n) => i >= 1
         /\ Reply(t, i, n) => i >= 1
PROOF
  <1>1. Len(frames[t]) \in Nat /\ Len(replies[t]) \in Nat BY DEF TypeOK
  <1> QED BY <1>1 DEF Proc, Wait, Reply

\* No frame changes.
LEMMA QuietSame == ASSUME UNCHANGED frames PROVE Quiet
PROOF
  <1> DEFINE s == [u \in Threads |-> 0]
  <1>1. s \in [Threads -> Int] OBVIOUS
  <1>2. Shifted(s) BY DEF Shifted, Proc, Wait
  <1> QED BY <1>1, <1>2 DEF Quiet

\* A call, frame by frame.
LEMMA PushedFrames ==
  ASSUME TypeOK, NEW t \in Threads, NEW f \in Frames, Push(t, f)
  PROVE  /\ \A u \in Threads : u # t => frames'[u] = frames[u]
         /\ Len(frames'[t]) = Len(frames[t]) + 1
         /\ frames'[t][1] = f
         /\ \A i \in 2 .. Len(frames'[t]) : frames'[t][i] = frames[t][i - 1]
PROOF
  <1>1. frames[t] \in Seq(Frames) BY DEF TypeOK
  <1>2. frames'[t] = <<f>> \o frames[t] BY DEF Push, TypeOK
  <1>3. \A u \in Threads : u # t => frames'[u] = frames[u] BY DEF Push, TypeOK
  <1>4. /\ Len(frames'[t]) = Len(frames[t]) + 1
        /\ frames'[t][1] = f
        /\ \A i \in 1 .. Len(frames[t]) : frames'[t][i + 1] = frames[t][i]
    BY <1>1, <1>2, PushSeq
  <1>5. \A i \in 2 .. Len(frames'[t]) :
          i - 1 \in 1 .. Len(frames[t]) /\ (i - 1) + 1 = i
    BY <1>1, <1>4
  <1> QED BY <1>3, <1>4, <1>5

\* A return, frame by frame.
LEMMA PoppedFrames ==
  ASSUME TypeInv, NEW t \in Threads, Return(t)
  PROVE  /\ \A u \in Threads : u # t => frames'[u] = frames[u]
         /\ Len(frames'[t]) = Len(frames[t]) - 1
         /\ \A i \in 1 .. Len(frames'[t]) : frames'[t][i] = frames[t][i + 1]
         /\ frames[t][1] = Top(t)
         /\ Len(frames[t]) >= 1
PROOF
  <1>1. frames[t] \in Seq(Frames) /\ frames[t] # <<>>
    BY DEF TypeInv, TypeOK, BottomInv
  <1>2. frames'[t] = Tail(frames[t]) BY DEF Return, TypeInv, TypeOK
  <1>3. \A u \in Threads : u # t => frames'[u] = frames[u]
    BY DEF Return, TypeInv, TypeOK
  <1> QED BY <1>1, <1>2, <1>3, PopSeq DEF Top

\* A call of a window procedure.
LEMMA ProcPush ==
  ASSUME TypeOK, NEW t \in Threads, NEW n \in Nodes, Push(t, Frame("proc", n))
  PROVE  ProcCalled(t, n)
PROOF
  <1>1. Frame("proc", n) \in Frames BY FrameType
  <1>2. /\ \A u \in Threads : u # t => frames'[u] = frames[u]
        /\ Len(frames'[t]) = Len(frames[t]) + 1
        /\ frames'[t][1] = Frame("proc", n)
        /\ \A i \in 2 .. Len(frames'[t]) : frames'[t][i] = frames[t][i - 1]
    BY <1>1, PushedFrames
  <1>3. Aside(t) BY <1>2 DEF Aside, Proc, Wait
  <1>4. Len(frames[t]) \in Nat BY DEF TypeOK
  <1>5. \A m : /\ Frame("proc", n) = Frame("proc", m) <=> n = m
               /\ Frame("proc", n) # Frame("wait", m)
    BY DEF Frame
  <1> SUFFICES ASSUME NEW i \in Int, NEW m \in Nodes
               PROVE  /\ Proc(t, i, m)' <=> (i = 1 /\ m = n) \/ Proc(t, i - 1, m)
                      /\ Wait(t, i, m)' <=> Wait(t, i - 1, m)
    BY <1>3 DEF ProcCalled
  <1>6. CASE i = 1 BY <1>2, <1>4, <1>5, <1>6 DEF Proc, Wait
  <1>7. CASE i # 1 BY <1>2, <1>4, <1>7 DEF Proc, Wait
  <1> QED BY <1>6, <1>7

\* A call of SendMessage that waits.
LEMMA WaitPush ==
  ASSUME TypeOK, NEW t \in Threads, NEW n \in Nodes, Push(t, Frame("wait", n))
  PROVE  WaitCalled(t, n)
PROOF
  <1>1. Frame("wait", n) \in Frames BY FrameType
  <1>2. /\ \A u \in Threads : u # t => frames'[u] = frames[u]
        /\ Len(frames'[t]) = Len(frames[t]) + 1
        /\ frames'[t][1] = Frame("wait", n)
        /\ \A i \in 2 .. Len(frames'[t]) : frames'[t][i] = frames[t][i - 1]
    BY <1>1, PushedFrames
  <1>3. Aside(t) BY <1>2 DEF Aside, Proc, Wait
  <1>4. Len(frames[t]) \in Nat BY DEF TypeOK
  <1>5. \A m : /\ Frame("wait", n) = Frame("wait", m) <=> n = m
               /\ Frame("wait", n) # Frame("proc", m)
    BY DEF Frame
  <1> SUFFICES ASSUME NEW i \in Int, NEW m \in Nodes
               PROVE  /\ Proc(t, i, m)' <=> Proc(t, i - 1, m)
                      /\ Wait(t, i, m)' <=> (i = 1 /\ m = n) \/ Wait(t, i - 1, m)
    BY <1>3 DEF WaitCalled
  <1>6. CASE i = 1 BY <1>2, <1>4, <1>5, <1>6 DEF Proc, Wait
  <1>7. CASE i # 1 BY <1>2, <1>4, <1>7 DEF Proc, Wait
  <1> QED BY <1>6, <1>7

\* A return shifts the frames below.
LEMMA ReturnPop ==
  ASSUME TypeInv, NEW t \in Threads, Return(t)
  PROVE  Returned(t)
PROOF
  <1>1. /\ \A u \in Threads : u # t => frames'[u] = frames[u]
        /\ Len(frames'[t]) = Len(frames[t]) - 1
        /\ \A i \in 1 .. Len(frames'[t]) : frames'[t][i] = frames[t][i + 1]
    BY PoppedFrames
  <1>2. Aside(t) BY <1>1 DEF Aside, Proc, Wait
  <1>3. Len(frames[t]) \in Nat BY DEF TypeInv, TypeOK
  <1> SUFFICES ASSUME NEW i \in Int, NEW m \in Nodes
               PROVE  /\ Proc(t, i, m)' <=> i # 0 /\ Proc(t, i + 1, m)
                      /\ Wait(t, i, m)' <=> i # 0 /\ Wait(t, i + 1, m)
    BY <1>2 DEF Returned
  <1>4. CASE i \in 1 .. Len(frames'[t])
    <2>1. i # 0 /\ i + 1 \in 1 .. Len(frames[t]) BY <1>1, <1>3, <1>4
    <2> QED BY <1>1, <1>4, <2>1 DEF Proc, Wait
  <1>5. CASE i \notin 1 .. Len(frames'[t])
    <2>1. i = 0 \/ i + 1 \notin 1 .. Len(frames[t]) BY <1>1, <1>3, <1>5
    <2> QED BY <1>5, <2>1 DEF Proc, Wait
  <1> QED BY <1>4, <1>5

\* What is called without a message leaves the frames that have one.
LEMMA QuietPush ==
  ASSUME TypeOK, NEW t \in Threads, NEW f \in Frames,
         f.kind \notin {"proc", "wait"}, Push(t, f)
  PROVE  Quiet
PROOF
  <1>1. /\ \A u \in Threads : u # t => frames'[u] = frames[u]
        /\ Len(frames'[t]) = Len(frames[t]) + 1
        /\ frames'[t][1] = f
        /\ \A i \in 2 .. Len(frames'[t]) : frames'[t][i] = frames[t][i - 1]
    BY PushedFrames
  <1>2. Len(frames[t]) \in Nat BY DEF TypeOK
  <1>3. \A m : f # Frame("proc", m) /\ f # Frame("wait", m) BY DEF Frame
  <1> DEFINE s == [u \in Threads |-> IF u = t THEN 1 ELSE 0]
  <1>4. s \in [Threads -> Int] OBVIOUS
  <1>5. ASSUME NEW u \in Threads, NEW i \in Int, NEW m \in Nodes
        PROVE  /\ Proc(u, i, m)' <=> Proc(u, i - s[u], m)
               /\ Wait(u, i, m)' <=> Wait(u, i - s[u], m)
    <2>1. CASE u # t BY <1>1, <2>1 DEF Proc, Wait
    <2>2. CASE u = t /\ i = 1 BY <1>1, <1>2, <1>3, <2>2 DEF Proc, Wait
    <2>3. CASE u = t /\ i # 1 BY <1>1, <1>2, <2>3 DEF Proc, Wait
    <2> QED BY <2>1, <2>2, <2>3
  <1> HIDE DEF s
  <1> QED BY <1>4, <1>5 DEF Quiet, Shifted

\* So does the return from such a call.
LEMMA QuietReturn ==
  ASSUME TypeInv, NEW t \in Threads, Top(t).kind \notin {"proc", "wait"}, Return(t)
  PROVE  Quiet
PROOF
  <1>1. Returned(t) BY ReturnPop
  <1>2. \A m \in Nodes : ~Proc(t, 1, m) /\ ~Wait(t, 1, m)
    BY TopType DEF Proc, Wait, Frame
  <1> DEFINE s == [u \in Threads |-> IF u = t THEN -1 ELSE 0]
  <1>3. s \in [Threads -> Int] OBVIOUS
  <1>4. ASSUME NEW u \in Threads, NEW i \in Int, NEW m \in Nodes
        PROVE  /\ Proc(u, i, m)' <=> Proc(u, i - s[u], m)
               /\ Wait(u, i, m)' <=> Wait(u, i - s[u], m)
    <2>1. CASE u # t BY <1>1, <2>1 DEF Returned, Aside
    <2>2. CASE u = t
      <3>1. i - s[u] = i + 1 BY <2>2
      <3>2. i = 0 => i + 1 = 1 OBVIOUS
      <3> HIDE DEF s
      <3> QED BY <1>1, <1>2, <2>2, <3>1, <3>2 DEF Returned
    <2> QED BY <2>1, <2>2
  <1> HIDE DEF s
  <1> QED BY <1>3, <1>4 DEF Quiet, Shifted

\* WS_ThreadExit takes the place of the message loop.
LEMMA QuietExit ==
  ASSUME TypeInv, NEW t \in Threads, WS_ThreadExit(t)
  PROVE  /\ Quiet
         /\ \A u \in Threads : u # t => frames'[u] = frames[u]
         /\ Len(frames[t]) = 2
         /\ Len(frames'[t]) = 2
         /\ frames'[t][1] = Frame("exit", NULL)
         /\ frames'[t][2] = frames[t][2]
PROOF
  <1>1. frames[t] \in Seq(Frames) /\ frames[t] # <<>> /\ Len(frames[t]) = 2
    BY DEF WS_ThreadExit, TypeInv, TypeOK, BottomInv
  <1>2. Tail(frames[t]) \in Seq(Frames) /\ Len(Tail(frames[t])) = 1
        /\ Tail(frames[t])[1] = frames[t][2]
    BY <1>1, PopSeq
  <1>3. Frame("exit", NULL) \in Frames BY FrameType
  <1> DEFINE f == <<Frame("exit", NULL)>> \o Tail(frames[t])
  <1>4. Len(f) = 2 /\ f[1] = Frame("exit", NULL) /\ f[2] = frames[t][2]
    BY <1>2, <1>3, PushSeq
  <1>5. frames'[t] = f BY DEF WS_ThreadExit, TypeInv, TypeOK
  <1>6. \A u \in Threads : u # t => frames'[u] = frames[u]
    BY DEF WS_ThreadExit, TypeInv, TypeOK
  <1>7. \A m : /\ frames[t][1] # Frame("proc", m)
               /\ frames[t][1] # Frame("wait", m)
    BY TopType DEF WS_ThreadExit, Quits, InLoop, Frame
  <1>8. \A m : /\ frames'[t][1] # Frame("proc", m)
               /\ frames'[t][1] # Frame("wait", m)
    BY <1>4, <1>5 DEF Frame
  <1> HIDE DEF f
  <1> DEFINE s == [u \in Threads |-> 0]
  <1>9. s \in [Threads -> Int] OBVIOUS
  <1>10. ASSUME NEW u \in Threads, NEW i \in Int, NEW m \in Nodes
         PROVE  /\ Proc(u, i, m)' <=> Proc(u, i - s[u], m)
                /\ Wait(u, i, m)' <=> Wait(u, i - s[u], m)
    <2>1. i - s[u] = i OBVIOUS
    <2>2. CASE u # t BY <1>6, <2>1, <2>2 DEF Proc, Wait
    <2>3. CASE u = t
      BY <1>1, <1>4, <1>5, <1>7, <1>8, <2>1, <2>3 DEF Proc, Wait
    <2> QED BY <2>2, <2>3
  <1> HIDE DEF s
  <1> QED BY <1>1, <1>4, <1>5, <1>6, <1>9, <1>10 DEF Quiet, Shifted

-----------------------------------------------------------------------------
(* The parts of the inductive invariant.                                   *)

Alive(w) == window[w] \in {"live", "destroying"}
IsFor(n, t) == node[n].dst \in Windows /\ Owner[node[n].dst] = t

\* The threads of the windows that are there, and of those that execute
\* anything but their own code, have a THREADINFO; a pending call is for a
\* window that was created.
LifeInv ==
  /\ \A w \in Windows : Alive(w) => Owner[w] \in info
  /\ \A t \in Threads :
       /\ Len(frames[t]) > 1 => t \in info
       /\ call[t] # NULL => /\ window[call[t].win] # "none"
                            /\ call[t].op = "send" => t \in info

\* WS_ThreadExit is called by the outermost loop; a thread destroys its own
\* windows; window procedures and waits are for message nodes.
FrameInv ==
  \A t \in Threads : \A i \in 1 .. Len(frames[t]) :
    /\ frames[t][i].kind = "exit" => i = Len(frames[t]) - 1
    /\ frames[t][i].kind = "destroy" =>
         frames[t][i].arg \in Windows /\ Owner[frames[t][i].arg] = t
    /\ frames[t][i].kind \in {"proc", "wait"} => frames[t][i].arg \in Nodes

\* A queue holds messages of its kind for windows of its thread that are there;
\* what was posted to the thread itself names the thread.
QueueInv ==
  \A t \in Threads, n \in Nodes :
    /\ n \in sendQ[t] => /\ t \in info
                         /\ node[n].type \in {"SEND", "NOTIFY"}
                         /\ IsFor(n, t)
                         /\ Alive(node[n].dst)
    /\ n \in postQ[t] => /\ t \in info
                         /\ node[n].type = "POST"
                         /\ \/ node[n].dst = t
                            \/ IsFor(n, t) /\ Alive(node[n].dst)

\* A message that a window procedure is handling is one for its thread, in no
\* queue, and no other procedure of the thread handles it.
ProcInv ==
  \A t \in Threads, i \in Int, n \in Nodes : Proc(t, i, n) =>
    /\ node[n].type \in {"SEND", "NOTIFY"}
    /\ IsFor(n, t)
    /\ n \notin sendQ[t]
    /\ \A j \in Int : Proc(t, j, n) => j = i

\* What was sent and not answered is queued or handled by its receiver.
InHand(t, n) == n \in sendQ[t] \/ \E i \in Int : Proc(t, i, n)
SentInv ==
  \A n \in Nodes : node[n].type \in {"SEND", "NOTIFY"} =>
    \E u \in Threads : IsFor(n, u) /\ InHand(u, n)

\* A reply stack holds what its thread sent, and all of it that is not answered.
StackInv ==
  /\ \A t \in Threads, k \in Int, n \in Nodes : Reply(t, k, n) =>
       node[n].type \in {"SEND", "REPLY"} /\ node[n].src = t
  /\ \A n \in Nodes : node[n].type = "SEND" =>
       \E k \in Int : Reply(node[n].src, k, n)

\* The reply stack lists the waits of its thread in their order: what
\* RepliesMatchWaits says, entry by entry.
MatchInv ==
  \A t \in Threads :
    /\ \A k, l \in Int, n \in Nodes : Reply(t, k, n) /\ Reply(t, l, n) => k = l
    /\ \A k \in Int, n \in Nodes : Reply(t, k, n) => \E i \in Int : Wait(t, i, n)
    /\ \A i \in Int, n \in Nodes : Wait(t, i, n) => \E k \in Int : Reply(t, k, n)
    /\ \A i, j, k, l \in Int, n, m \in Nodes :
         Wait(t, i, n) /\ Wait(t, j, m) /\ Reply(t, k, n) /\ Reply(t, l, m) =>
           (i < j <=> k < l)

\* A thread whose bBlock is set has nothing to do.
SleepInv ==
  \A t \in Threads :
    /\ bBlock[t] # "NO" => sendQ[t] = {}
    /\ bBlock[t] = "INGETMESSAGE" => dwState[t] = {}
    /\ bBlock[t] = "INSENDMESSAGE" => ~ReplyReady(t)

-----------------------------------------------------------------------------
(* The steps.                                                              *)

\* What the steps do to the frames, the nodes, the send queues and the reply
\* stacks: the operations on messages, and the others.
MessageStep ==
  \/ Quiet /\ UNCHANGED <<node, sendQ, replies>>
  \/ \E t \in Threads, w \in Windows, n \in Nodes :
       \/ MSQ_SendMessage(t, w, n) /\ WaitCalled(t, n)
       \/ MSQ_SendNotifyMessage(t, w, n) /\ Quiet
  \/ \E t, u \in Threads, d \in Windows \cup Threads, n \in FreeNodes :
       MSQ_InsertPostMsg(u, n, t, d) /\ UNCHANGED <<sendQ, replies>> /\ Quiet
  \/ \E t \in Threads, n \in Nodes :
       \/ HandleSendMsg(t, n) /\ ProcCalled(t, n)
       \/ MSQ_GetPostMsg(t, n) /\ Quiet
  \/ \E t \in Threads :
       \/ MSQ_ReplyMessage(t) /\ Returned(t)
       \/ TakeReply(t) /\ Returned(t)
       \/ DestroyAWindow(t) /\ Quiet

\* Every step is one of them.
LEMMA Steps == TypeInv /\ [Next]_vars => MessageStep
PROOF
  <1> SUFFICES ASSUME TypeInv, [Next]_vars PROVE MessageStep
    OBVIOUS
  <1>a. TypeOK BY DEF TypeInv
  <1>0. Quiet /\ UNCHANGED <<node, sendQ, replies>> => MessageStep
    BY DEF MessageStep
  <1>1. CASE UNCHANGED vars
    <2>1. UNCHANGED <<frames, node, sendQ, replies>> BY <1>1 DEF vars
    <2> QED BY <1>0, <2>1, QuietSame
  <1>2. ASSUME NEW t \in Threads, NEW op \in Calls, NEW w \in Windows,
               LookUp(t, op, w)
        PROVE  MessageStep
    BY <1>0, <1>2, QuietSame DEF LookUp
  <1>3. ASSUME NEW t \in Threads, NEW w \in Windows, EnterWithGoneWindow(t, w)
        PROVE  MessageStep
    BY <1>0, <1>3, QuietSame DEF EnterWithGoneWindow
  <1>4. ASSUME NEW t \in Threads, GetMsgObjFails(t) PROVE MessageStep
    BY <1>0, <1>4, QuietSame DEF GetMsgObjFails
  <1>5. ASSUME NEW t \in Threads, NEW w \in Windows, NEW n \in Nodes,
               MSQ_SendMessage(t, w, n)
        PROVE  MessageStep
    <2>1. WaitCalled(t, n) BY <1>a, <1>5, WaitPush DEF MSQ_SendMessage
    <2> QED BY <1>5, <2>1 DEF MessageStep
  <1>6. ASSUME NEW t \in Threads, NEW w \in Windows, NEW n \in Nodes,
               MSQ_SendNotifyMessage(t, w, n)
        PROVE  MessageStep
    <2>1. Quiet BY <1>6, QuietSame DEF MSQ_SendNotifyMessage
    <2> QED BY <1>6, <2>1 DEF MessageStep
  <1>7. ASSUME NEW t \in Threads, NEW w \in Windows, NEW n \in Nodes,
               MSQ_PostMessage(t, w, n)
        PROVE  MessageStep
    <2>1. Quiet BY <1>7, QuietSame DEF MSQ_PostMessage
    <2>2. /\ MSQ_InsertPostMsg(Owner[w], n, t, w) /\ n \in FreeNodes
          /\ UNCHANGED <<sendQ, replies>>
      BY <1>7 DEF MSQ_PostMessage
    <2>3. Owner[w] \in Threads BY OwnerAssumption
    <2> QED BY <2>1, <2>2, <2>3 DEF MessageStep
  <1>8. ASSUME NEW t \in Threads, NEW u \in Threads, NEW n \in Nodes,
               MSQ_PostThreadMessage(t, u, n)
        PROVE  MessageStep
    <2>1. Quiet BY <1>8, QuietSame DEF MSQ_PostThreadMessage
    <2>2. /\ MSQ_InsertPostMsg(u, n, t, u) /\ n \in FreeNodes
          /\ UNCHANGED <<sendQ, replies>>
      BY <1>8 DEF MSQ_PostThreadMessage
    <2> QED BY <2>1, <2>2 DEF MessageStep
  <1>9. ASSUME NEW t \in Threads, GetMessage(t) PROVE MessageStep
    <2>1. Push(t, Frame("get", NULL)) /\ Frame("get", NULL) \in Frames
      BY <1>9, FrameType DEF GetMessage
    <2>2. Frame("get", NULL).kind = "get" BY DEF Frame
    <2>3. Quiet BY <1>a, <2>1, <2>2, QuietPush
    <2> QED BY <1>0, <1>9, <2>3 DEF GetMessage
  <1>10. ASSUME NEW t \in Threads, PeekMessage(t) PROVE MessageStep
    <2>1. Push(t, Frame("peek", NULL)) /\ Frame("peek", NULL) \in Frames
      BY <1>10, FrameType DEF PeekMessage
    <2>2. Frame("peek", NULL).kind = "peek" BY DEF Frame
    <2>3. Quiet BY <1>a, <2>1, <2>2, QuietPush
    <2> QED BY <1>0, <1>10, <2>3 DEF PeekMessage
  <1>11. ASSUME NEW t \in Threads, NEW n \in Nodes, HandleSendMsg(t, n)
         PROVE  MessageStep
    <2>1. ProcCalled(t, n) BY <1>a, <1>11, ProcPush DEF HandleSendMsg
    <2> QED BY <1>11, <2>1 DEF MessageStep
  <1>12. ASSUME NEW t \in Threads, MSQ_ReplyMessage(t) PROVE MessageStep
    <2>1. Returned(t) BY <1>12, ReturnPop DEF MSQ_ReplyMessage
    <2> QED BY <1>12, <2>1 DEF MessageStep
  <1>13. ASSUME NEW t \in Threads, TakeReply(t) PROVE MessageStep
    <2>1. Returned(t) BY <1>13, ReturnPop DEF TakeReply
    <2> QED BY <1>13, <2>1 DEF MessageStep
  <1>14. ASSUME NEW t \in Threads, NEW n \in Nodes, MSQ_GetPostMsg(t, n)
         PROVE  MessageStep
    <2>1. Quiet BY <1>14, QuietReturn DEF MSQ_GetPostMsg, InLoop
    <2> QED BY <1>14, <2>1 DEF MessageStep
  <1>15. ASSUME NEW t \in Threads, PeekNothing(t) PROVE MessageStep
    <2>1. Quiet BY <1>15, QuietReturn DEF PeekNothing, InLoop
    <2> QED BY <1>0, <1>15, <2>1 DEF PeekNothing
  <1>16. ASSUME NEW t \in Threads, Block(t) PROVE MessageStep
    BY <1>0, <1>16, QuietSame DEF Block
  <1>17. ASSUME NEW t \in Threads, Unblock(t) PROVE MessageStep
    BY <1>0, <1>17, QuietSame DEF Unblock
  <1>18. ASSUME NEW t \in Threads, NEW w \in Windows, CreateWindow(t, w)
         PROVE  MessageStep
    BY <1>0, <1>18, QuietSame DEF CreateWindow
  <1>19. ASSUME NEW t \in Threads, NEW w \in Windows, WND_Destroy(t, w)
         PROVE  MessageStep
    <2>1. Push(t, Frame("destroy", w)) /\ Frame("destroy", w) \in Frames
      BY <1>19, FrameType DEF WND_Destroy
    <2>2. Frame("destroy", w).kind = "destroy" BY DEF Frame
    <2>3. Quiet BY <1>a, <2>1, <2>2, QuietPush
    <2> QED BY <1>0, <1>19, <2>3 DEF WND_Destroy
  <1>20. ASSUME NEW t \in Threads, DestroyAWindow(t) PROVE MessageStep
    <2>1. Quiet BY <1>20, QuietReturn DEF DestroyAWindow
    <2> QED BY <1>20, <2>1 DEF MessageStep
  <1>21. ASSUME NEW t \in Threads, PostQuitMessage(t) PROVE MessageStep
    BY <1>0, <1>21, QuietSame DEF PostQuitMessage
  <1>22. ASSUME NEW t \in Threads, WS_ThreadExit(t) PROVE MessageStep
    BY <1>0, <1>22, QuietExit DEF WS_ThreadExit
  <1>23. ASSUME NEW t \in Threads, QuitInNestedLoop(t) PROVE MessageStep
    BY <1>0, <1>23, QuietSame DEF QuitInNestedLoop
  <1>24. ASSUME NEW t \in Threads, THREADINFO_Destroy(t) PROVE MessageStep
    <2>1. Quiet BY <1>24, QuietReturn DEF THREADINFO_Destroy
    <2> QED BY <1>0, <1>24, <2>1 DEF THREADINFO_Destroy
  <1> QED
    BY <1>1, <1>2, <1>3, <1>4, <1>5, <1>6, <1>7, <1>8, <1>9, <1>10, <1>11,
       <1>12, <1>13, <1>14, <1>15, <1>16, <1>17, <1>18, <1>19, <1>20, <1>21,
       <1>22, <1>23, <1>24
    DEF Next, Kernel, Application, DestroyWindow, WND_DestroyWindowsByThreadId

\* The insertion of a sent message, node by node.
LEMMA InsertSendEffect ==
  ASSUME TypeOK, NEW u \in Threads, NEW n \in Nodes, NEW k, NEW t, NEW w,
         MSQ_InsertSendMsg(u, n, k, t, w)
  PROVE  /\ node'[n] = [type |-> k, src |-> t, dst |-> w]
         /\ \A m \in Nodes : m # n => node'[m] = node[m]
         /\ \A v \in Threads : v # u => sendQ'[v] = sendQ[v]
         /\ sendQ'[u] = sendQ[u] \cup {n}
  BY DEF MSQ_InsertSendMsg, TypeOK

\* The same for a message to window w.
LEMMA SendEffect ==
  ASSUME TypeOK, NEW w \in Windows, NEW n \in Nodes, NEW k, NEW t,
         MSQ_InsertSendMsg(Owner[w], n, k, t, w)
  PROVE  /\ node'[n] = [type |-> k, src |-> t, dst |-> w]
         /\ \A m \in Nodes : m # n => node'[m] = node[m]
         /\ \A v \in Threads : v # Owner[w] => sendQ'[v] = sendQ[v]
         /\ sendQ'[Owner[w]] = sendQ[Owner[w]] \cup {n}
PROOF
  <1> DEFINE u == Owner[w]
  <1>1. u \in Threads BY OwnerAssumption
  <1>2. MSQ_InsertSendMsg(u, n, k, t, w) OBVIOUS
  <1> HIDE DEF u
  <1>3. /\ node'[n] = [type |-> k, src |-> t, dst |-> w]
        /\ \A m \in Nodes : m # n => node'[m] = node[m]
        /\ \A v \in Threads : v # u => sendQ'[v] = sendQ[v]
        /\ sendQ'[u] = sendQ[u] \cup {n}
    BY <1>1, <1>2, InsertSendEffect
  <1> QED BY <1>3 DEF u

\* The insertion of a posted message.
LEMMA InsertPostEffect ==
  ASSUME TypeOK, NEW u \in Threads, NEW n \in Nodes, NEW t, NEW d,
         MSQ_InsertPostMsg(u, n, t, d)
  PROVE  /\ node'[n] = [type |-> "POST", src |-> t, dst |-> d]
         /\ \A m \in Nodes : m # n => node'[m] = node[m]
         /\ \A v \in Threads : v # u => postQ'[v] = postQ[v]
         /\ postQ'[u] = postQ[u] \cup {n}
  BY DEF MSQ_InsertPostMsg, TypeOK

\* A message is taken off a send queue.
LEMMA HandleEffect ==
  ASSUME TypeOK, NEW t \in Threads, NEW n \in Nodes, HandleSendMsg(t, n)
  PROVE  /\ n \in sendQ[t]
         /\ sendQ'[t] = sendQ[t] \ {n}
         /\ \A v \in Threads : v # t => sendQ'[v] = sendQ[v]
         /\ UNCHANGED <<node, replies>>
  BY DEF HandleSendMsg, MSQ_GetSendMsg, First, TypeOK

\* A posted message is taken and released.
LEMMA GetPostEffect ==
  ASSUME TypeOK, NEW t \in Threads, NEW n \in Nodes, MSQ_GetPostMsg(t, n)
  PROVE  /\ n \in postQ[t]
         /\ postQ'[t] = postQ[t] \ {n}
         /\ \A v \in Threads : v # t => postQ'[v] = postQ[v]
         /\ node'[n] = Free
         /\ \A m \in Nodes : m # n => node'[m] = node[m]
         /\ UNCHANGED <<sendQ, replies>>
  BY DEF MSQ_GetPostMsg, First, TypeOK

\* A window procedure returns: its message is answered, or released when it is
\* a notification.
LEMMA ReplyEffect ==
  ASSUME TypeInv, FrameInv, NEW t \in Threads, MSQ_ReplyMessage(t)
  PROVE  \E n \in Nodes :
           /\ n = Top(t).arg
           /\ Proc(t, 1, n)
           /\ \/ node[n].type = "NOTIFY" /\ node'[n] = Free
              \/ /\ node[n].type = "SEND"
                 /\ node'[n] = [node[n] EXCEPT !.type = "REPLY"]
                 /\ node'[n].type = "REPLY"
                 /\ node'[n].src = node[n].src
           /\ \A m \in Nodes : m # n => node'[m] = node[m]
           /\ UNCHANGED <<sendQ, postQ, replies>>
PROOF
  <1> DEFINE n == Top(t).arg
  <1>1. Top(t) = frames[t][1] /\ Top(t) \in Frames /\ Top(t).kind = "proc"
    BY TopType DEF MSQ_ReplyMessage
  <1>2. 1 \in 1 .. Len(frames[t])
    BY TwoOrMore, EmptySeq DEF TypeInv, TypeOK, BottomInv
  <1>3. n \in Nodes BY <1>1, <1>2 DEF FrameInv
  <1>4. Proc(t, 1, n) BY <1>1, <1>2 DEF Proc, Frame, Frames
  <1>5. /\ node \in [Nodes -> NodeRecords]
        /\ UNCHANGED <<sendQ, postQ, replies>>
    BY DEF TypeInv, TypeOK, MSQ_ReplyMessage
  <1>6. \/ node[n].type = "NOTIFY" /\ node' = [node EXCEPT ![n] = Free]
        \/ node[n].type = "SEND" /\ node' = [node EXCEPT ![n].type = "REPLY"]
    BY DEF MSQ_ReplyMessage
  <1>7. node[n].type = "SEND" =>
          /\ [node[n] EXCEPT !.type = "REPLY"].type = "REPLY"
          /\ [node[n] EXCEPT !.type = "REPLY"].src = node[n].src
    BY <1>3, <1>5 DEF NodeRecords, Free
  <1> HIDE DEF n
  <1>8. /\ \/ node[n].type = "NOTIFY" /\ node'[n] = Free
           \/ /\ node[n].type = "SEND"
              /\ node'[n] = [node[n] EXCEPT !.type = "REPLY"]
        /\ \A m \in Nodes : m # n => node'[m] = node[m]
    BY <1>3, <1>5, <1>6
  <1> QED BY <1>3, <1>4, <1>5, <1>7, <1>8 DEF n

\* The first wait of a thread is for the top of its reply stack.
LEMMA TopReply ==
  ASSUME TypeOK, MatchInv, NEW t \in Threads, replies[t] # <<>>,
         NEW n \in Nodes, Wait(t, 1, n)
  PROVE  Reply(t, 1, n) /\ Head(replies[t]) = n
PROOF
  <1>1. replies[t] \in Seq(Nodes) BY DEF TypeOK
  <1>2. /\ Len(replies[t]) >= 1 /\ replies[t][1] \in Nodes
        /\ Head(replies[t]) = replies[t][1]
    BY <1>1, PopSeq
  <1> DEFINE m == replies[t][1]
  <1>3. Reply(t, 1, m) /\ m \in Nodes BY <1>1, <1>2 DEF Reply
  <1> HIDE DEF m
  <1>4. PICK i \in Int : Wait(t, i, m) BY <1>3 DEF MatchInv
  <1>5. PICK k \in Int : Reply(t, k, n) BY DEF MatchInv
  <1>6. i >= 1 /\ k >= 1 BY <1>4, <1>5, Positive
  <1>7. 1 < i <=> k < 1 BY <1>3, <1>4, <1>5 DEF MatchInv
  <1>8. i = 1 BY <1>6, <1>7
  <1>9. m = n BY <1>4, <1>8 DEF Wait, Frame
  <1> QED BY <1>2, <1>3, <1>9 DEF m

\* SendMessage returns: the top of the reply stack is popped and released.
LEMMA TakeEffect ==
  ASSUME TypeInv, FrameInv, MatchInv, NEW t \in Threads, TakeReply(t)
  PROVE  \E n \in Nodes :
           /\ Wait(t, 1, n)
           /\ Reply(t, 1, n)
           /\ node[n].type = "REPLY"
           /\ node'[n] = Free
           /\ \A m \in Nodes : m # n => node'[m] = node[m]
           /\ \A u \in Threads : u # t => replies'[u] = replies[u]
           /\ \A k \in Int, m \in Nodes :
                Reply(t, k, m)' <=> k # 0 /\ Reply(t, k + 1, m)
           /\ UNCHANGED <<sendQ, postQ>>
PROOF
  <1> DEFINE n == Top(t).arg
  <1>1. Top(t) = frames[t][1] /\ Top(t) \in Frames /\ Top(t).kind = "wait"
    BY TopType DEF TakeReply, InLoop
  <1>2. 1 \in 1 .. Len(frames[t])
    BY TwoOrMore, EmptySeq DEF TypeInv, TypeOK, BottomInv
  <1>3. n \in Nodes BY <1>1, <1>2 DEF FrameInv
  <1>4. Wait(t, 1, n) BY <1>1, <1>2 DEF Wait, Frame, Frames
  <1> HIDE DEF n
  <1>5. replies[t] # <<>> /\ node[Head(replies[t])].type = "REPLY"
    BY DEF TakeReply, ReplyReady
  <1>6. TypeOK BY DEF TypeInv
  <1>7. Reply(t, 1, n) /\ Head(replies[t]) = n BY <1>3, <1>4, <1>5, <1>6, TopReply
  <1>8. /\ node'[n] = Free
        /\ \A m \in Nodes : m # n => node'[m] = node[m]
        /\ UNCHANGED <<sendQ, postQ>>
    BY <1>3, <1>6, <1>7 DEF TakeReply, TypeOK
  <1>9. /\ \A u \in Threads : u # t => replies'[u] = replies[u]
        /\ replies'[t] = Tail(replies[t])
    BY <1>6 DEF TakeReply, TypeOK
  <1>10. replies[t] \in Seq(Nodes) BY <1>6 DEF TypeOK
  <1>11. /\ Len(replies'[t]) = Len(replies[t]) - 1
         /\ \A k \in 1 .. Len(replies[t]) - 1 : replies'[t][k] = replies[t][k + 1]
         /\ Len(replies[t]) \in Nat
    BY <1>5, <1>9, <1>10, PopSeq
  <1>12. ASSUME NEW k \in Int, NEW m \in Nodes
         PROVE  Reply(t, k, m)' <=> k # 0 /\ Reply(t, k + 1, m)
    <2>1. CASE k \in 1 .. Len(replies[t]) - 1
      BY <1>11, <2>1 DEF Reply
    <2>2. CASE k \notin 1 .. Len(replies[t]) - 1
      <3>1. k = 0 \/ k + 1 \notin 1 .. Len(replies[t]) BY <1>11, <2>2
      <3> QED BY <1>11, <2>2, <3>1 DEF Reply
    <2> QED BY <2>1, <2>2
  <1> QED BY <1>3, <1>4, <1>5, <1>7, <1>8, <1>9, <1>12

\* The messages of a window are answered or released with it.
LEMMA DestroyEffect ==
  ASSUME TypeInv, FrameInv, NEW t \in Threads, DestroyAWindow(t)
  PROVE  \E w \in Windows :
           /\ w = Top(t).arg
           /\ Owner[w] = t
           /\ window' = [window EXCEPT ![w] = "gone"]
           /\ \A n \in Nodes :
                \/ /\ n \in sendQ[t] /\ node[n].dst = w /\ node[n].src \in info
                   /\ node[n].type # "FREE" =>
                        node'[n].type = "REPLY" /\ node'[n].src = node[n].src
                \/ /\ n \in sendQ[t] \cup postQ[t] /\ node[n].dst = w
                   /\ n \in sendQ[t] => node[n].src \notin info
                   /\ node'[n] = Free
                \/ /\ n \notin sendQ[t] \cup postQ[t] \/ node[n].dst # w
                   /\ node'[n] = node[n]
           /\ sendQ'[t] = {n \in sendQ[t] : node[n].dst # w}
           /\ postQ'[t] = {n \in postQ[t] : node[n].dst # w}
           /\ \A u \in Threads : u # t => sendQ'[u] = sendQ[u] /\ postQ'[u] = postQ[u]
           /\ UNCHANGED <<info, replies>>
PROOF
  <1> DEFINE w == Top(t).arg
             sent == QueuedFor(w, sendQ[t])
             posted == QueuedFor(w, postQ[t])
             answered == {n \in sent : node[n].src \in info}
  <1>1. Top(t) = frames[t][1] /\ Top(t).kind = "destroy"
    BY TopType DEF DestroyAWindow
  <1>2. 1 \in 1 .. Len(frames[t])
    BY TwoOrMore, EmptySeq DEF TypeInv, TypeOK, BottomInv
  <1>3. w \in Windows /\ Owner[w] = t BY <1>1, <1>2 DEF FrameInv
  <1>4. /\ window' = [window EXCEPT ![w] = "gone"]
        /\ node' = [n \in Nodes |->
                      IF n \in answered THEN [node[n] EXCEPT !.type = "REPLY"]
                      ELSE IF n \in sent \cup posted THEN Free
                      ELSE node[n]]
        /\ sendQ' = [sendQ EXCEPT ![t] = sendQ[t] \ sent]
        /\ postQ' = [postQ EXCEPT ![t] = postQ[t] \ posted]
        /\ UNCHANGED <<info, replies>>
    BY DEF DestroyAWindow
  <1>5. TypeOK BY DEF TypeInv
  <1>6. /\ sendQ'[t] = {n \in sendQ[t] : node[n].dst # w}
        /\ postQ'[t] = {n \in postQ[t] : node[n].dst # w}
        /\ \A u \in Threads : u # t => sendQ'[u] = sendQ[u] /\ postQ'[u] = postQ[u]
    BY <1>4, <1>5 DEF QueuedFor, TypeOK
  <1>7. ASSUME NEW n \in Nodes
        PROVE  \/ /\ n \in sendQ[t] /\ node[n].dst = w /\ node[n].src \in info
                  /\ node[n].type # "FREE" =>
                       node'[n].type = "REPLY" /\ node'[n].src = node[n].src
               \/ /\ n \in sendQ[t] \cup postQ[t] /\ node[n].dst = w
                  /\ n \in sendQ[t] => node[n].src \notin info
                  /\ node'[n] = Free
               \/ /\ n \notin sendQ[t] \cup postQ[t] \/ node[n].dst # w
                  /\ node'[n] = node[n]
    <2>1. /\ n \in answered <=> n \in sendQ[t] /\ node[n].dst = w /\ node[n].src \in info
          /\ n \in sent \cup posted <=> n \in sendQ[t] \cup postQ[t] /\ node[n].dst = w
      BY DEF QueuedFor
    <2>2. node'[n] = IF n \in answered THEN [node[n] EXCEPT !.type = "REPLY"]
                     ELSE IF n \in sent \cup posted THEN Free
                     ELSE node[n]
      BY <1>4
    <2>3. node[n].type # "FREE" =>
            /\ [node[n] EXCEPT !.type = "REPLY"].type = "REPLY"
            /\ [node[n] EXCEPT !.type = "REPLY"].src = node[n].src
      BY <1>5 DEF TypeOK, NodeRecords, Free
    <2> HIDE DEF w, sent, posted, answered
    <2> QED BY <2>1, <2>2, <2>3
  <1> QED BY <1>3, <1>4, <1>6, <1>7

-----------------------------------------------------------------------------
(* A message has one holder.                                               *)

\* The window procedures of a thread, when none is called and none returns.
ProcsMoved ==
  \E s \in [Threads -> Int] :
    \A u \in Threads, i \in Int, m \in Nodes :
      Proc(u, i, m)' <=> Proc(u, i - s[u], m)

\* They only move.
LEMMA MovedQuiet == Quiet => ProcsMoved
  BY DEF Quiet, Shifted, ProcsMoved

\* A send pushes a frame above them.
LEMMA MovedByWait ==
  ASSUME NEW t \in Threads, NEW n \in Nodes, WaitCalled(t, n)
  PROVE  ProcsMoved
PROOF
  <1> DEFINE s == [u \in Threads |-> IF u = t THEN 1 ELSE 0]
  <1>1. s \in [Threads -> Int] OBVIOUS
  <1>2. s[t] = 1 /\ \A u \in Threads : u # t => s[u] = 0 OBVIOUS
  <1> HIDE DEF s
  <1>3. ASSUME NEW u \in Threads, NEW i \in Int, NEW m \in Nodes
        PROVE  Proc(u, i, m)' <=> Proc(u, i - s[u], m)
    <2>1. i - 0 = i OBVIOUS
    <2>2. CASE u = t BY <1>2, <2>2 DEF WaitCalled
    <2>3. CASE u # t BY <1>2, <2>1, <2>3 DEF WaitCalled, Aside
    <2> QED BY <2>2, <2>3
  <1> QED BY <1>1, <1>3 DEF ProcsMoved

\* A return that ends none of them takes a frame from above them.
LEMMA MovedByReturn ==
  ASSUME NEW t \in Threads, Returned(t), \A m \in Nodes : ~Proc(t, 1, m)
  PROVE  ProcsMoved
PROOF
  <1> DEFINE s == [u \in Threads |-> IF u = t THEN -1 ELSE 0]
  <1>1. s \in [Threads -> Int] OBVIOUS
  <1>2. s[t] = -1 /\ \A u \in Threads : u # t => s[u] = 0 OBVIOUS
  <1> HIDE DEF s
  <1>3. ASSUME NEW u \in Threads, NEW i \in Int, NEW m \in Nodes
        PROVE  Proc(u, i, m)' <=> Proc(u, i - s[u], m)
    <2>1. i - 0 = i /\ i - (-1) = i + 1 /\ (i = 0 => i + 1 = 1) OBVIOUS
    <2>2. CASE u = t BY <1>2, <2>1, <2>2 DEF Returned
    <2>3. CASE u # t BY <1>2, <2>1, <2>3 DEF Returned, Aside
    <2> QED BY <2>2, <2>3
  <1> QED BY <1>1, <1>3 DEF ProcsMoved

\* ProcInv holds on if the nodes of the procedures stay as they are and out of
\* the queues.
LEMMA ProcKept ==
  ASSUME ProcInv, ProcsMoved,
         \A u \in Threads, i \in Int, m \in Nodes : Proc(u, i, m) =>
           node'[m] = node[m] /\ (m \in sendQ'[u] => m \in sendQ[u])
  PROVE  ProcInv'
PROOF
  <1>1. PICK s \in [Threads -> Int] :
          \A u \in Threads, i \in Int, m \in Nodes :
            Proc(u, i, m)' <=> Proc(u, i - s[u], m)
    BY DEF ProcsMoved
  <1> SUFFICES ASSUME NEW u \in Threads, NEW i \in Int, NEW m \in Nodes,
                      Proc(u, i, m)'
               PROVE  /\ node'[m].type \in {"SEND", "NOTIFY"}
                      /\ IsFor(m, u)'
                      /\ m \notin sendQ'[u]
                      /\ \A j \in Int : Proc(u, j, m)' => j = i
    BY DEF ProcInv
  <1>2. s[u] \in Int OBVIOUS
  <1>3. i - s[u] \in Int /\ Proc(u, i - s[u], m) BY <1>1, <1>2
  <1>4. /\ node[m].type \in {"SEND", "NOTIFY"} /\ IsFor(m, u) /\ m \notin sendQ[u]
        /\ node'[m] = node[m] /\ m \notin sendQ'[u]
    BY <1>3 DEF ProcInv
  <1>5. ASSUME NEW j \in Int, Proc(u, j, m)' PROVE j = i
    <2>1. j - s[u] \in Int /\ Proc(u, j - s[u], m) BY <1>1, <1>2, <1>5
    <2>2. j - s[u] = i - s[u] BY <1>3, <2>1 DEF ProcInv
    <2> QED BY <1>2, <2>2
  <1> QED BY <1>4, <1>5 DEF IsFor

\* Messages that are free, answered or posted have no window procedure.
LEMMA NoProc ==
  ASSUME ProcInv, NEW n \in Nodes, node[n].type \in {"FREE", "REPLY", "POST"},
         NEW u \in Threads, NEW i \in Int
  PROVE  ~Proc(u, i, n)
  BY DEF ProcInv

\* Every step keeps ProcInv.
LEMMA ProcStep ==
  ASSUME TypeInv, FrameInv, QueueInv, ProcInv, MatchInv, MessageStep
  PROVE  ProcInv'
PROOF
  <1>a. TypeOK BY DEF TypeInv
  <1>1. CASE Quiet /\ UNCHANGED <<node, sendQ, replies>>
    BY <1>1, MovedQuiet, ProcKept
  <1>2. ASSUME NEW t \in Threads, NEW w \in Windows, NEW n \in Nodes,
               NEW k \in {"SEND", "NOTIFY"}, n \in FreeNodes, ProcsMoved,
               MSQ_InsertSendMsg(Owner[w], n, k, t, w)
        PROVE  ProcInv'
    <2>1. /\ \A m \in Nodes : m # n => node'[m] = node[m]
          /\ \A v \in Threads : v # Owner[w] => sendQ'[v] = sendQ[v]
          /\ sendQ'[Owner[w]] = sendQ[Owner[w]] \cup {n}
      BY <1>a, <1>2, SendEffect
    <2>2. \A u \in Threads, i \in Int : ~Proc(u, i, n)
      BY <1>2, NoProc DEF FreeNodes
    <2> QED BY <1>2, <2>1, <2>2, ProcKept
  <1>3. ASSUME NEW t \in Threads, NEW w \in Windows, NEW n \in Nodes,
               MSQ_SendMessage(t, w, n), WaitCalled(t, n)
        PROVE  ProcInv'
    BY <1>2, <1>3, MovedByWait DEF MSQ_SendMessage
  <1>4. ASSUME NEW t \in Threads, NEW w \in Windows, NEW n \in Nodes,
               MSQ_SendNotifyMessage(t, w, n), Quiet
        PROVE  ProcInv'
    BY <1>2, <1>4, MovedQuiet DEF MSQ_SendNotifyMessage
  <1>5. ASSUME NEW t \in Threads, NEW u \in Threads,
               NEW d \in Windows \cup Threads, NEW n \in FreeNodes,
               MSQ_InsertPostMsg(u, n, t, d), UNCHANGED <<sendQ, replies>>, Quiet
        PROVE  ProcInv'
    <2>1. n \in Nodes /\ node[n].type = "FREE" BY DEF FreeNodes
    <2>2. \A m \in Nodes : m # n => node'[m] = node[m]
      BY <1>a, <1>5, <2>1, InsertPostEffect
    <2>3. \A v \in Threads, i \in Int : ~Proc(v, i, n) BY <2>1, NoProc
    <2> QED BY <1>5, <2>2, <2>3, MovedQuiet, ProcKept
  <1>6. ASSUME NEW t \in Threads, NEW n \in Nodes,
               HandleSendMsg(t, n), ProcCalled(t, n)
        PROVE  ProcInv'
    <2>1. /\ n \in sendQ[t]
          /\ sendQ'[t] = sendQ[t] \ {n}
          /\ \A v \in Threads : v # t => sendQ'[v] = sendQ[v]
          /\ UNCHANGED node
      BY <1>a, <1>6, HandleEffect
    <2>2. node[n].type \in {"SEND", "NOTIFY"} /\ IsFor(n, t)
      BY <2>1 DEF QueueInv
    <2>3. \A i \in Int : ~Proc(t, i, n) BY <2>1 DEF ProcInv
    <2> SUFFICES ASSUME NEW u \in Threads, NEW i \in Int, NEW m \in Nodes,
                        Proc(u, i, m)'
                 PROVE  /\ node'[m].type \in {"SEND", "NOTIFY"}
                        /\ IsFor(m, u)'
                        /\ m \notin sendQ'[u]
                        /\ \A j \in Int : Proc(u, j, m)' => j = i
      BY DEF ProcInv
    <2>4. CASE u # t
      BY <1>6, <2>1, <2>4 DEF ProcInv, IsFor, ProcCalled, Aside
    <2>5. CASE u = t /\ m = n
      BY <1>6, <2>1, <2>2, <2>3, <2>5 DEF IsFor, ProcCalled
    <2>6. CASE u = t /\ m # n
      <3>1. i - 1 \in Int /\ Proc(t, i - 1, m) BY <1>6, <2>6 DEF ProcCalled
      <3>2. /\ node'[m].type \in {"SEND", "NOTIFY"}
            /\ IsFor(m, u)'
            /\ m \notin sendQ'[u]
        BY <2>1, <2>6, <3>1 DEF ProcInv, IsFor
      <3>3. ASSUME NEW j \in Int, Proc(t, j, m)' PROVE j = i
        <4>1. j - 1 \in Int /\ Proc(t, j - 1, m) BY <1>6, <2>6, <3>3 DEF ProcCalled
        <4>2. j - 1 = i - 1 BY <3>1, <4>1 DEF ProcInv
        <4> QED BY <4>2
      <3> QED BY <2>6, <3>2, <3>3
    <2> QED BY <2>4, <2>5, <2>6
  <1>7. ASSUME NEW t \in Threads, NEW n \in Nodes, MSQ_GetPostMsg(t, n), Quiet
        PROVE  ProcInv'
    <2>1. /\ n \in postQ[t]
          /\ \A m \in Nodes : m # n => node'[m] = node[m]
          /\ UNCHANGED sendQ
      BY <1>a, <1>7, GetPostEffect
    <2>2. node[n].type = "POST" BY <2>1 DEF QueueInv
    <2>3. \A v \in Threads, i \in Int : ~Proc(v, i, n) BY <2>2, NoProc
    <2> QED BY <1>7, <2>1, <2>3, MovedQuiet, ProcKept
  <1>8. ASSUME NEW t \in Threads, MSQ_ReplyMessage(t), Returned(t)
        PROVE  ProcInv'
    <2>1. PICK n \in Nodes :
            /\ Proc(t, 1, n)
            /\ \A m \in Nodes : m # n => node'[m] = node[m]
            /\ UNCHANGED sendQ
      BY <1>8, ReplyEffect
    <2> SUFFICES ASSUME NEW u \in Threads, NEW i \in Int, NEW m \in Nodes,
                        Proc(u, i, m)'
                 PROVE  /\ node'[m].type \in {"SEND", "NOTIFY"}
                        /\ IsFor(m, u)'
                        /\ m \notin sendQ'[u]
                        /\ \A j \in Int : Proc(u, j, m)' => j = i
      BY DEF ProcInv
    <2>2. CASE u # t
      <3>1. Proc(u, i, m) BY <1>8, <2>2 DEF Returned, Aside
      <3>2. m # n BY <2>1, <2>2, <3>1 DEF ProcInv, IsFor
      <3> QED BY <1>8, <2>1, <2>2, <3>1, <3>2 DEF Returned, Aside, ProcInv, IsFor
    <2>3. CASE u = t
      <3>1. i # 0 /\ i + 1 \in Int /\ Proc(t, i + 1, m)
        BY <1>8, <2>3 DEF Returned
      <3>2. i + 1 # 1 BY <3>1
      <3>3. m # n BY <2>1, <3>1, <3>2 DEF ProcInv
      <3>4. /\ node'[m].type \in {"SEND", "NOTIFY"}
            /\ IsFor(m, u)'
            /\ m \notin sendQ'[u]
        BY <2>1, <2>3, <3>1, <3>3 DEF ProcInv, IsFor
      <3>5. ASSUME NEW j \in Int, Proc(t, j, m)' PROVE j = i
        <4>1. j + 1 \in Int /\ Proc(t, j + 1, m) BY <1>8, <3>5 DEF Returned
        <4>2. j + 1 = i + 1 BY <3>1, <4>1 DEF ProcInv
        <4> QED BY <4>2
      <3> QED BY <2>3, <3>4, <3>5
    <2> QED BY <2>2, <2>3
  <1>9. ASSUME NEW t \in Threads, TakeReply(t), Returned(t)
        PROVE  ProcInv'
    <2>1. PICK n \in Nodes :
            /\ Wait(t, 1, n)
            /\ node[n].type = "REPLY"
            /\ \A m \in Nodes : m # n => node'[m] = node[m]
            /\ UNCHANGED sendQ
      BY <1>9, TakeEffect
    <2>2. \A m \in Nodes : ~Proc(t, 1, m) BY <2>1 DEF Proc, Wait, Frame
    <2>3. \A v \in Threads, i \in Int : ~Proc(v, i, n) BY <2>1, NoProc
    <2> QED BY <1>9, <2>1, <2>2, <2>3, MovedByReturn, ProcKept
  <1>10. ASSUME NEW t \in Threads, DestroyAWindow(t), Quiet
         PROVE  ProcInv'
    <2>1. PICK w \in Windows :
            /\ Owner[w] = t
            /\ \A n \in Nodes :
                 n \notin sendQ[t] \cup postQ[t] => node'[n] = node[n]
            /\ sendQ'[t] = {n \in sendQ[t] : node[n].dst # w}
            /\ \A u \in Threads : u # t => sendQ'[u] = sendQ[u]
      BY <1>10, DestroyEffect
    <2>2. ASSUME NEW u \in Threads, NEW i \in Int, NEW m \in Nodes, Proc(u, i, m)
          PROVE  m \notin sendQ[t] \cup postQ[t]
      <3>1. m \notin postQ[t] BY <2>2 DEF QueueInv, ProcInv
      <3>2. m \notin sendQ[t] BY <2>2 DEF QueueInv, ProcInv, IsFor
      <3> QED BY <3>1, <3>2
    <2> QED BY <1>10, <2>1, <2>2, MovedQuiet, ProcKept
  <1> QED
    BY <1>1, <1>3, <1>4, <1>5, <1>6, <1>7, <1>8, <1>9, <1>10 DEF MessageStep

\* What is with its receiver stays there if no procedure returns and it is not
\* taken off the queue.
LEMMA InHandKept ==
  ASSUME ProcsMoved, NEW u \in Threads, NEW m \in Nodes, InHand(u, m),
         m \in sendQ[u] => m \in sendQ'[u]
  PROVE  InHand(u, m)'
PROOF
  <1>1. CASE m \in sendQ[u] BY <1>1 DEF InHand
  <1>2. ASSUME NEW i \in Int, Proc(u, i, m) PROVE InHand(u, m)'
    <2>1. PICK s \in [Threads -> Int] :
            \A v \in Threads, j \in Int, n \in Nodes :
              Proc(v, j, n)' <=> Proc(v, j - s[v], n)
      BY DEF ProcsMoved
    <2>2. s[u] \in Int OBVIOUS
    <2>3. i + s[u] \in Int /\ (i + s[u]) - s[u] = i BY <2>2
    <2>4. Proc(u, i + s[u], m)' BY <1>2, <2>1, <2>3
    <2> QED BY <2>3, <2>4 DEF InHand
  <1> QED BY <1>1, <1>2 DEF InHand

\* Every step keeps SentInv.
LEMMA SentStep ==
  ASSUME TypeInv, FrameInv, QueueInv, ProcInv, SentInv, MatchInv, MessageStep
  PROVE  SentInv'
PROOF
  <1>a. TypeOK BY DEF TypeInv
  <1>1. ASSUME ProcsMoved,
               \A m \in Nodes : node'[m].type \in {"SEND", "NOTIFY"} =>
                 /\ node'[m] = node[m]
                 /\ \A u \in Threads : m \in sendQ[u] => m \in sendQ'[u]
        PROVE  SentInv'
    <2> SUFFICES ASSUME NEW m \in Nodes, node'[m].type \in {"SEND", "NOTIFY"}
                 PROVE  \E u \in Threads : IsFor(m, u)' /\ InHand(u, m)'
      BY DEF SentInv
    <2>1. node'[m] = node[m] BY <1>1
    <2>2. PICK u \in Threads : IsFor(m, u) /\ InHand(u, m) BY <2>1 DEF SentInv
    <2>3. InHand(u, m)' BY <1>1, <2>2, InHandKept
    <2> QED BY <2>1, <2>2, <2>3 DEF IsFor
  <1>2. CASE Quiet /\ UNCHANGED <<node, sendQ, replies>>
    BY <1>1, <1>2, MovedQuiet
  <1>3. ASSUME NEW t \in Threads, NEW w \in Windows, NEW n \in Nodes,
               NEW k \in {"SEND", "NOTIFY"}, ProcsMoved,
               MSQ_InsertSendMsg(Owner[w], n, k, t, w)
        PROVE  SentInv'
    <2>1. /\ \A m \in Nodes : m # n => node'[m] = node[m]
          /\ \A v \in Threads : v # Owner[w] => sendQ'[v] = sendQ[v]
          /\ sendQ'[Owner[w]] = sendQ[Owner[w]] \cup {n}
          /\ node'[n] = [type |-> k, src |-> t, dst |-> w]
      BY <1>a, <1>3, SendEffect
    <2> SUFFICES ASSUME NEW m \in Nodes, node'[m].type \in {"SEND", "NOTIFY"}
                 PROVE  \E u \in Threads : IsFor(m, u)' /\ InHand(u, m)'
      BY DEF SentInv
    <2>2. CASE m = n
      <3>1. Owner[w] \in Threads BY OwnerAssumption
      <3>2. IsFor(m, Owner[w])' /\ InHand(Owner[w], m)'
        BY <2>1, <2>2 DEF IsFor, InHand
      <3> QED BY <3>1, <3>2
    <2>3. CASE m # n
      <3>1. node'[m] = node[m] BY <2>1, <2>3
      <3>2. PICK u \in Threads : IsFor(m, u) /\ InHand(u, m)
        BY <3>1 DEF SentInv
      <3>3. m \in sendQ[u] => m \in sendQ'[u] BY <2>1
      <3>4. InHand(u, m)' BY <1>3, <3>2, <3>3, InHandKept
      <3> QED BY <3>1, <3>2, <3>4 DEF IsFor
    <2> QED BY <2>2, <2>3
  <1>4. ASSUME NEW t \in Threads, NEW w \in Windows, NEW n \in Nodes,
               MSQ_SendMessage(t, w, n), WaitCalled(t, n)
        PROVE  SentInv'
    BY <1>3, <1>4, MovedByWait DEF MSQ_SendMessage
  <1>5. ASSUME NEW t \in Threads, NEW w \in Windows, NEW n \in Nodes,
               MSQ_SendNotifyMessage(t, w, n), Quiet
        PROVE  SentInv'
    BY <1>3, <1>5, MovedQuiet DEF MSQ_SendNotifyMessage
  <1>6. ASSUME NEW t \in Threads, NEW u \in Threads,
               NEW d \in Windows \cup Threads, NEW n \in FreeNodes,
               MSQ_InsertPostMsg(u, n, t, d), UNCHANGED <<sendQ, replies>>, Quiet
        PROVE  SentInv'
    <2>1. n \in Nodes BY DEF FreeNodes
    <2>2. /\ \A m \in Nodes : m # n => node'[m] = node[m]
          /\ node'[n] = [type |-> "POST", src |-> t, dst |-> d]
      BY <1>a, <1>6, <2>1, InsertPostEffect
    <2>3. node'[n].type = "POST" BY <2>2
    <2> QED BY <1>1, <1>6, <2>2, <2>3, MovedQuiet
  <1>7. ASSUME NEW t \in Threads, NEW n \in Nodes,
               HandleSendMsg(t, n), ProcCalled(t, n)
        PROVE  SentInv'
    <2>1. /\ n \in sendQ[t]
          /\ sendQ'[t] = sendQ[t] \ {n}
          /\ \A v \in Threads : v # t => sendQ'[v] = sendQ[v]
          /\ UNCHANGED node
      BY <1>a, <1>7, HandleEffect
    <2> SUFFICES ASSUME NEW m \in Nodes, node'[m].type \in {"SEND", "NOTIFY"}
                 PROVE  \E u \in Threads : IsFor(m, u)' /\ InHand(u, m)'
      BY DEF SentInv
    <2>2. PICK u \in Threads : InHand(u, m) /\ IsFor(m, u) /\ IsFor(m, u)'
      BY <2>1 DEF SentInv, IsFor
    <2>3. InHand(u, m)'
      <3>1. CASE m = n /\ m \in sendQ[u]
        <4>1. u = t BY <2>1, <2>2, <3>1 DEF QueueInv, IsFor
        <4>2. Proc(t, 1, n)' BY <1>7 DEF ProcCalled
        <4> QED BY <3>1, <4>1, <4>2 DEF InHand
      <3>2. CASE m # n /\ m \in sendQ[u] BY <2>1, <2>2, <3>2 DEF InHand
      <3>3. ASSUME NEW i \in Int, Proc(u, i, m) PROVE InHand(u, m)'
        <4>1. CASE u = t
          <5>1. i + 1 \in Int /\ (i + 1) - 1 = i OBVIOUS
          <5>2. Proc(t, i + 1, m)' BY <1>7, <3>3, <4>1, <5>1 DEF ProcCalled
          <5> QED BY <4>1, <5>1, <5>2 DEF InHand
        <4>2. CASE u # t
          <5>1. Proc(u, i, m)' BY <1>7, <2>2, <3>3, <4>2 DEF ProcCalled, Aside
          <5> QED BY <5>1 DEF InHand
        <4> QED BY <4>1, <4>2
      <3> QED BY <2>2, <3>1, <3>2, <3>3 DEF InHand
    <2> QED BY <2>2, <2>3
  <1>8. ASSUME NEW t \in Threads, NEW n \in Nodes, MSQ_GetPostMsg(t, n), Quiet
        PROVE  SentInv'
    <2>1. /\ node'[n].type = "FREE"
          /\ \A m \in Nodes : m # n => node'[m] = node[m]
          /\ UNCHANGED sendQ
      BY <1>a, <1>8, GetPostEffect DEF Free
    <2> QED BY <1>1, <1>8, <2>1, MovedQuiet
  <1>9. ASSUME NEW t \in Threads, MSQ_ReplyMessage(t), Returned(t)
        PROVE  SentInv'
    <2>1. PICK n \in Nodes :
            /\ Proc(t, 1, n)
            /\ node'[n] = Free \/ node'[n].type = "REPLY"
            /\ \A m \in Nodes : m # n => node'[m] = node[m]
            /\ UNCHANGED sendQ
      BY <1>9, ReplyEffect
    <2> SUFFICES ASSUME NEW m \in Nodes, node'[m].type \in {"SEND", "NOTIFY"}
                 PROVE  \E u \in Threads : IsFor(m, u)' /\ InHand(u, m)'
      BY DEF SentInv
    <2>2. m # n /\ node'[m] = node[m] BY <2>1 DEF Free
    <2>3. PICK u \in Threads : InHand(u, m) /\ IsFor(m, u)'
      BY <2>2 DEF SentInv, IsFor
    <2>4. InHand(u, m)'
      <3>1. CASE m \in sendQ[u] BY <2>1, <3>1 DEF InHand
      <3>2. ASSUME NEW i \in Int, Proc(u, i, m) PROVE InHand(u, m)'
        <4>1. CASE u = t
          <5>1. i # 1 BY <2>1, <2>2, <3>2, <4>1 DEF Proc, Frame
          <5>2. i - 1 \in Int /\ i - 1 # 0 /\ (i - 1) + 1 = i BY <5>1
          <5>3. Proc(t, i - 1, m)' BY <1>9, <3>2, <4>1, <5>2 DEF Returned
          <5> QED BY <4>1, <5>2, <5>3 DEF InHand
        <4>2. CASE u # t
          <5>1. Proc(u, i, m)' BY <1>9, <2>3, <3>2, <4>2 DEF Returned, Aside
          <5> QED BY <5>1 DEF InHand
        <4> QED BY <4>1, <4>2
      <3> QED BY <2>3, <3>1, <3>2 DEF InHand
    <2> QED BY <2>3, <2>4
  <1>10. ASSUME NEW t \in Threads, TakeReply(t), Returned(t)
         PROVE  SentInv'
    <2>1. PICK n \in Nodes :
            /\ Wait(t, 1, n)
            /\ node'[n].type = "FREE"
            /\ \A m \in Nodes : m # n => node'[m] = node[m]
            /\ UNCHANGED sendQ
      BY <1>10, TakeEffect DEF Free
    <2>2. \A m \in Nodes : ~Proc(t, 1, m) BY <2>1 DEF Proc, Wait, Frame
    <2> QED BY <1>1, <1>10, <2>1, <2>2, MovedByReturn
  <1>11. ASSUME NEW t \in Threads, DestroyAWindow(t), Quiet
         PROVE  SentInv'
    <2>1. PICK w \in Windows :
            /\ \A n \in Nodes :
                 \/ /\ n \in sendQ[t]
                    /\ node[n].type # "FREE" => node'[n].type = "REPLY"
                 \/ node'[n] = Free
                 \/ n \notin sendQ[t] \cup postQ[t] \/ node[n].dst # w
            /\ \A n \in Nodes :
                 \/ n \in sendQ[t] \cup postQ[t] /\ node[n].dst = w
                 \/ node'[n] = node[n]
            /\ sendQ'[t] = {n \in sendQ[t] : node[n].dst # w}
            /\ \A u \in Threads : u # t => sendQ'[u] = sendQ[u]
      BY <1>11, DestroyEffect
    <2>2. ASSUME NEW m \in Nodes, node'[m].type \in {"SEND", "NOTIFY"}
          PROVE  /\ node'[m] = node[m]
                 /\ \A u \in Threads : m \in sendQ[u] => m \in sendQ'[u]
      <3>1. m \in sendQ[t] => node[m].type # "FREE" BY DEF QueueInv
      <3>2. node'[m] # Free BY <2>2 DEF Free
      <3>3. m \notin sendQ[t] \cup postQ[t] \/ node[m].dst # w
        BY <2>1, <2>2, <3>1, <3>2
      <3> QED BY <2>1, <3>3
    <2> QED BY <1>1, <1>11, <2>2, MovedQuiet
  <1> QED
    BY <1>2, <1>4, <1>5, <1>6, <1>7, <1>8, <1>9, <1>10, <1>11 DEF MessageStep

-----------------------------------------------------------------------------
(* The reply stack and the waits.                                          *)

\* The waits of a thread, when none starts and none ends.
WaitsMoved ==
  \E s \in [Threads -> Int] :
    \A u \in Threads, i \in Int, m \in Nodes :
      Wait(u, i, m)' <=> Wait(u, i - s[u], m)

\* They only move.
LEMMA WaitsMovedQuiet == Quiet => WaitsMoved
  BY DEF Quiet, Shifted, WaitsMoved

\* The start of a window procedure pushes a frame above them.
LEMMA WaitsMovedByProc ==
  ASSUME NEW t \in Threads, NEW n \in Nodes, ProcCalled(t, n)
  PROVE  WaitsMoved
PROOF
  <1> DEFINE s == [u \in Threads |-> IF u = t THEN 1 ELSE 0]
  <1>1. s \in [Threads -> Int] OBVIOUS
  <1>2. s[t] = 1 /\ \A u \in Threads : u # t => s[u] = 0 OBVIOUS
  <1> HIDE DEF s
  <1>3. ASSUME NEW u \in Threads, NEW i \in Int, NEW m \in Nodes
        PROVE  Wait(u, i, m)' <=> Wait(u, i - s[u], m)
    <2>1. i - 0 = i OBVIOUS
    <2>2. CASE u = t BY <1>2, <2>2 DEF ProcCalled
    <2>3. CASE u # t BY <1>2, <2>1, <2>3 DEF ProcCalled, Aside
    <2> QED BY <2>2, <2>3
  <1> QED BY <1>1, <1>3 DEF WaitsMoved

\* A return that ends none of them takes a frame from above them.
LEMMA WaitsMovedByReturn ==
  ASSUME NEW t \in Threads, Returned(t), \A m \in Nodes : ~Wait(t, 1, m)
  PROVE  WaitsMoved
PROOF
  <1> DEFINE s == [u \in Threads |-> IF u = t THEN -1 ELSE 0]
  <1>1. s \in [Threads -> Int] OBVIOUS
  <1>2. s[t] = -1 /\ \A u \in Threads : u # t => s[u] = 0 OBVIOUS
  <1> HIDE DEF s
  <1>3. ASSUME NEW u \in Threads, NEW i \in Int, NEW m \in Nodes
        PROVE  Wait(u, i, m)' <=> Wait(u, i - s[u], m)
    <2>1. i - 0 = i /\ i - (-1) = i + 1 /\ (i = 0 => i + 1 = 1) OBVIOUS
    <2>2. CASE u = t BY <1>2, <2>1, <2>2 DEF Returned
    <2>3. CASE u # t BY <1>2, <2>1, <2>3 DEF Returned, Aside
    <2> QED BY <2>2, <2>3
  <1> QED BY <1>1, <1>3 DEF WaitsMoved

\* MSQ_InsertReplyMsg, entry by entry.
LEMMA StackPush ==
  ASSUME TypeOK, NEW t \in Threads, NEW n \in Nodes, MSQ_InsertReplyMsg(t, n)
  PROVE  /\ \A u \in Threads : u # t => replies'[u] = replies[u]
         /\ \A k \in Int, m \in Nodes :
              Reply(t, k, m)' <=> (k = 1 /\ m = n) \/ Reply(t, k - 1, m)
PROOF
  <1>1. replies[t] \in Seq(Nodes) BY DEF TypeOK
  <1>2. replies'[t] = <<n>> \o replies[t] BY DEF MSQ_InsertReplyMsg, TypeOK
  <1>3. \A u \in Threads : u # t => replies'[u] = replies[u]
    BY DEF MSQ_InsertReplyMsg, TypeOK
  <1>4. /\ Len(replies'[t]) = Len(replies[t]) + 1
        /\ replies'[t][1] = n
        /\ \A k \in 1 .. Len(replies[t]) : replies'[t][k + 1] = replies[t][k]
        /\ Len(replies[t]) \in Nat
    BY <1>1, <1>2, PushSeq
  <1>5. ASSUME NEW k \in Int, NEW m \in Nodes
        PROVE  Reply(t, k, m)' <=> (k = 1 /\ m = n) \/ Reply(t, k - 1, m)
    <2>1. CASE k = 1 BY <1>4, <2>1 DEF Reply
    <2>2. CASE k - 1 \in 1 .. Len(replies[t])
      <3>1. (k - 1) + 1 = k /\ k # 1 /\ k \in 1 .. Len(replies'[t]) BY <1>4, <2>2
      <3>2. replies'[t][k] = replies[t][k - 1] BY <1>4, <2>2, <3>1
      <3> QED BY <2>2, <3>1, <3>2 DEF Reply
    <2>3. CASE k # 1 /\ k - 1 \notin 1 .. Len(replies[t])
      <3>1. k \notin 1 .. Len(replies'[t]) BY <1>4, <2>3
      <3> QED BY <2>3, <3>1 DEF Reply
    <2> QED BY <2>1, <2>2, <2>3
  <1> QED BY <1>3, <1>5

\* A thread that waits for a reply has a THREADINFO.
LEMMA WaiterAlive ==
  ASSUME TypeInv, LifeInv, MatchInv, NEW t \in Threads, NEW k \in Int,
         NEW n \in Nodes, Reply(t, k, n)
  PROVE  t \in info
PROOF
  <1>1. PICK i \in Int : Wait(t, i, n) BY DEF MatchInv
  <1>2. Len(frames[t]) \in Nat BY DEF TypeInv, TypeOK
  <1>3. frames[t][Len(frames[t])].kind = "app" BY DEF TypeInv, BottomInv
  <1>4. i \in 1 .. Len(frames[t]) /\ frames[t][i].kind = "wait"
    BY <1>1 DEF Wait, Frame
  <1>5. Len(frames[t]) > 1 BY <1>2, <1>3, <1>4
  <1> QED BY <1>5 DEF LifeInv

\* The order of the waits is that of the stack as long as both only move.
LEMMA MatchKept ==
  ASSUME TypeOK, MatchInv, WaitsMoved, UNCHANGED replies
  PROVE  MatchInv'
PROOF
  <1>1. PICK s \in [Threads -> Int] :
          \A u \in Threads, i \in Int, m \in Nodes :
            Wait(u, i, m)' <=> Wait(u, i - s[u], m)
    BY DEF WaitsMoved
  <1>2. \A u \in Threads, k \in Int, m \in Nodes : Reply(u, k, m)' <=> Reply(u, k, m)
    BY DEF Reply
  <1> SUFFICES ASSUME NEW t \in Threads
               PROVE
    /\ \A k, l \in Int, n \in Nodes : Reply(t, k, n)' /\ Reply(t, l, n)' => k = l
    /\ \A k \in Int, n \in Nodes : Reply(t, k, n)' => \E i \in Int : Wait(t, i, n)'
    /\ \A i \in Int, n \in Nodes : Wait(t, i, n)' => \E k \in Int : Reply(t, k, n)'
    /\ \A i, j, k, l \in Int, n, m \in Nodes :
         Wait(t, i, n)' /\ Wait(t, j, m)' /\ Reply(t, k, n)' /\ Reply(t, l, m)' =>
           (i < j <=> k < l)
    BY DEF MatchInv
  <1>3. s[t] \in Int OBVIOUS
  <1>4. \A k, l \in Int, n \in Nodes : Reply(t, k, n)' /\ Reply(t, l, n)' => k = l
    BY <1>2 DEF MatchInv
  <1>5. ASSUME NEW k \in Int, NEW n \in Nodes, Reply(t, k, n)'
        PROVE  \E i \in Int : Wait(t, i, n)'
    <2>1. PICK i \in Int : Wait(t, i, n) BY <1>2, <1>5 DEF MatchInv
    <2>2. i + s[t] \in Int /\ (i + s[t]) - s[t] = i BY <1>3
    <2> QED BY <1>1, <2>1, <2>2
  <1>6. ASSUME NEW i \in Int, NEW n \in Nodes, Wait(t, i, n)'
        PROVE  \E k \in Int : Reply(t, k, n)'
    <2>1. i - s[t] \in Int /\ Wait(t, i - s[t], n) BY <1>1, <1>3, <1>6
    <2> QED BY <1>2, <2>1 DEF MatchInv
  <1>7. ASSUME NEW i \in Int, NEW j \in Int, NEW k \in Int, NEW l \in Int,
               NEW n \in Nodes, NEW m \in Nodes, Wait(t, i, n)', Wait(t, j, m)',
               Reply(t, k, n)', Reply(t, l, m)'
        PROVE  i < j <=> k < l
    <2>1. /\ i - s[t] \in Int /\ Wait(t, i - s[t], n)
          /\ j - s[t] \in Int /\ Wait(t, j - s[t], m)
      BY <1>1, <1>3, <1>7
    <2>2. i - s[t] < j - s[t] <=> k < l BY <1>2, <1>7, <2>1 DEF MatchInv
    <2> QED BY <1>3, <2>2
  <1> QED BY <1>4, <1>5, <1>6, <1>7

\* Every step keeps MatchInv.
LEMMA MatchStep ==
  ASSUME TypeInv, FrameInv, MatchInv, StackInv, MessageStep
  PROVE  MatchInv'
PROOF
  <1>a. TypeOK BY DEF TypeInv
  <1>1. CASE Quiet /\ UNCHANGED <<node, sendQ, replies>>
    BY <1>a, <1>1, WaitsMovedQuiet, MatchKept
  <1>2. ASSUME NEW t \in Threads, NEW w \in Windows, NEW n \in Nodes,
               MSQ_SendMessage(t, w, n), WaitCalled(t, n)
        PROVE  MatchInv'
    <2>1. /\ \A u \in Threads : u # t => replies'[u] = replies[u]
          /\ \A k \in Int, m \in Nodes :
               Reply(t, k, m)' <=> (k = 1 /\ m = n) \/ Reply(t, k - 1, m)
      BY <1>a, <1>2, StackPush DEF MSQ_SendMessage
    <2>2. node[n].type = "FREE" BY <1>2 DEF MSQ_SendMessage, FreeNodes
    <2>3. \A k \in Int : ~Reply(t, k, n) BY <2>2 DEF StackInv
    <2>4. \A i \in Int : ~Wait(t, i, n) BY <2>3 DEF MatchInv
    <2> SUFFICES ASSUME NEW u \in Threads
                 PROVE
      /\ \A k, l \in Int, m \in Nodes : Reply(u, k, m)' /\ Reply(u, l, m)' => k = l
      /\ \A k \in Int, m \in Nodes : Reply(u, k, m)' => \E i \in Int : Wait(u, i, m)'
      /\ \A i \in Int, m \in Nodes : Wait(u, i, m)' => \E k \in Int : Reply(u, k, m)'
      /\ \A i, j, k, l \in Int, m, o \in Nodes :
           Wait(u, i, m)' /\ Wait(u, j, o)' /\ Reply(u, k, m)' /\ Reply(u, l, o)' =>
             (i < j <=> k < l)
      BY DEF MatchInv
    <2>5. CASE u # t
      <3>1. \A k \in Int, m \in Nodes : /\ Reply(u, k, m)' <=> Reply(u, k, m)
                                        /\ Wait(u, k, m)' <=> Wait(u, k, m)
        BY <1>2, <2>1, <2>5 DEF WaitCalled, Aside, Reply
      <3> QED BY <3>1 DEF MatchInv
    <2>6. CASE u = t
      <3>1. \A k \in Int, m \in Nodes :
              /\ Reply(t, k, m)' <=> (k = 1 /\ m = n) \/ Reply(t, k - 1, m)
              /\ Wait(t, k, m)' <=> (k = 1 /\ m = n) \/ Wait(t, k - 1, m)
        BY <1>2, <2>1 DEF WaitCalled
      <3>2. \A k \in Int, m \in Nodes :
              (Reply(t, k - 1, m) \/ Wait(t, k - 1, m)) => k > 1 /\ m # n
        BY <1>a, <2>3, <2>4, Positive
      <3>3. \A k \in Int : k - 1 \in Int /\ k + 1 \in Int /\ (k + 1) - 1 = k
        OBVIOUS
      <3>4. \A k, l \in Int, m \in Nodes : Reply(t, k, m)' /\ Reply(t, l, m)' => k = l
        <4>1. \A k, l \in Int, m \in Nodes :
                Reply(t, k - 1, m) /\ Reply(t, l - 1, m) => k - 1 = l - 1
          BY <3>3 DEF MatchInv
        <4> QED BY <3>1, <3>2, <4>1
      <3>5. \A k \in Int, m \in Nodes : Reply(t, k, m)' => \E i \in Int : Wait(t, i, m)'
        <4>1. \A k \in Int, m \in Nodes :
                Reply(t, k - 1, m) => \E i \in Int : Wait(t, i, m)
          BY <3>3 DEF MatchInv
        <4>2. \A i \in Int, m \in Nodes : Wait(t, i, m) => Wait(t, i + 1, m)'
          BY <3>1, <3>3
        <4>3. Wait(t, 1, n)' BY <3>1
        <4> QED BY <3>1, <3>3, <4>1, <4>2, <4>3
      <3>6. \A i \in Int, m \in Nodes : Wait(t, i, m)' => \E k \in Int : Reply(t, k, m)'
        <4>1. \A i \in Int, m \in Nodes :
                Wait(t, i - 1, m) => \E k \in Int : Reply(t, k, m)
          BY <3>3 DEF MatchInv
        <4>2. \A k \in Int, m \in Nodes : Reply(t, k, m) => Reply(t, k + 1, m)'
          BY <3>1, <3>3
        <4>3. Reply(t, 1, n)' BY <3>1
        <4> QED BY <3>1, <3>3, <4>1, <4>2, <4>3
      <3>7. ASSUME NEW i \in Int, NEW j \in Int, NEW k \in Int, NEW l \in Int,
                   NEW m \in Nodes, NEW o \in Nodes, Wait(t, i, m)', Wait(t, j, o)',
                   Reply(t, k, m)', Reply(t, l, o)'
            PROVE  i < j <=> k < l
        <4>1. CASE m = n BY <3>1, <3>2, <3>7, <4>1
        <4>2. CASE o = n BY <3>1, <3>2, <3>7, <4>2
        <4>3. CASE m # n /\ o # n
          <5>1. /\ Wait(t, i - 1, m) /\ Wait(t, j - 1, o)
                /\ Reply(t, k - 1, m) /\ Reply(t, l - 1, o)
            BY <3>1, <3>7, <4>3
          <5>2. i - 1 < j - 1 <=> k - 1 < l - 1 BY <3>3, <5>1 DEF MatchInv
          <5> QED BY <5>2
        <4> QED BY <4>1, <4>2, <4>3
      <3> QED BY <2>6, <3>4, <3>5, <3>6, <3>7
    <2> QED BY <2>5, <2>6
  <1>3. ASSUME NEW t \in Threads, NEW w \in Windows, NEW n \in Nodes,
               MSQ_SendNotifyMessage(t, w, n), Quiet
        PROVE  MatchInv'
    BY <1>a, <1>3, WaitsMovedQuiet, MatchKept DEF MSQ_SendNotifyMessage
  <1>4. CASE UNCHANGED replies /\ Quiet
    BY <1>a, <1>4, WaitsMovedQuiet, MatchKept
  <1>5. ASSUME NEW t \in Threads, NEW n \in Nodes,
               HandleSendMsg(t, n), ProcCalled(t, n)
        PROVE  MatchInv'
    BY <1>a, <1>5, WaitsMovedByProc, MatchKept DEF HandleSendMsg
  <1>6. ASSUME NEW t \in Threads, NEW n \in Nodes, MSQ_GetPostMsg(t, n), Quiet
        PROVE  MatchInv'
    BY <1>4, <1>6 DEF MSQ_GetPostMsg
  <1>7. ASSUME NEW t \in Threads, MSQ_ReplyMessage(t), Returned(t)
        PROVE  MatchInv'
    <2>1. PICK n \in Nodes : Proc(t, 1, n) /\ UNCHANGED replies
      BY <1>7, ReplyEffect
    <2>2. \A m \in Nodes : ~Wait(t, 1, m) BY <2>1 DEF Proc, Wait, Frame
    <2> QED BY <1>a, <1>7, <2>1, <2>2, WaitsMovedByReturn, MatchKept
  <1>8. ASSUME NEW t \in Threads, TakeReply(t), Returned(t)
        PROVE  MatchInv'
    <2>1. PICK n \in Nodes :
            /\ Wait(t, 1, n) /\ Reply(t, 1, n)
            /\ \A u \in Threads : u # t => replies'[u] = replies[u]
            /\ \A k \in Int, m \in Nodes :
                 Reply(t, k, m)' <=> k # 0 /\ Reply(t, k + 1, m)
      BY <1>8, TakeEffect
    <2> SUFFICES ASSUME NEW u \in Threads
                 PROVE
      /\ \A k, l \in Int, m \in Nodes : Reply(u, k, m)' /\ Reply(u, l, m)' => k = l
      /\ \A k \in Int, m \in Nodes : Reply(u, k, m)' => \E i \in Int : Wait(u, i, m)'
      /\ \A i \in Int, m \in Nodes : Wait(u, i, m)' => \E k \in Int : Reply(u, k, m)'
      /\ \A i, j, k, l \in Int, m, o \in Nodes :
           Wait(u, i, m)' /\ Wait(u, j, o)' /\ Reply(u, k, m)' /\ Reply(u, l, o)' =>
             (i < j <=> k < l)
      BY DEF MatchInv
    <2>2. CASE u # t
      <3>1. \A k \in Int, m \in Nodes : /\ Reply(u, k, m)' <=> Reply(u, k, m)
                                        /\ Wait(u, k, m)' <=> Wait(u, k, m)
        BY <1>8, <2>1, <2>2 DEF Returned, Aside, Reply
      <3> QED BY <3>1 DEF MatchInv
    <2>3. CASE u = t
      <3>1. \A k \in Int, m \in Nodes :
              /\ Reply(t, k, m)' <=> k # 0 /\ Reply(t, k + 1, m)
              /\ Wait(t, k, m)' <=> k # 0 /\ Wait(t, k + 1, m)
        BY <1>8, <2>1 DEF Returned
      <3>2. \A k \in Int : k + 1 \in Int /\ k - 1 \in Int /\ (k - 1) + 1 = k
        OBVIOUS
      \* n is in no other place, and what is not n is not at the top
      <3>3. /\ \A k \in Int : Reply(t, k, n) => k = 1
            /\ \A m \in Nodes : Reply(t, 1, m) \/ Wait(t, 1, m) => m = n
        BY <2>1 DEF MatchInv, Reply, Wait, Frame
      <3>4. ASSUME NEW i \in Int, Wait(t, i, n) PROVE i = 1
        <4>1. 1 < i <=> 1 < 1 BY <2>1, <3>4 DEF MatchInv
        <4>2. i >= 1 BY <1>a, <3>4, Positive
        <4> QED BY <4>1, <4>2
      <3>5. \A k, l \in Int, m \in Nodes : Reply(t, k, m)' /\ Reply(t, l, m)' => k = l
        <4>1. \A k, l \in Int, m \in Nodes :
                Reply(t, k + 1, m) /\ Reply(t, l + 1, m) => k + 1 = l + 1
          BY <3>2 DEF MatchInv
        <4> QED BY <3>1, <4>1
      <3>6. ASSUME NEW k \in Int, NEW m \in Nodes, Reply(t, k, m)'
            PROVE  \E i \in Int : Wait(t, i, m)'
        <4>1. k # 0 /\ Reply(t, k + 1, m) /\ k + 1 \in Int BY <3>1, <3>6
        <4>2. m # n BY <3>3, <4>1
        <4>3. PICK i \in Int : Wait(t, i, m) BY <4>1 DEF MatchInv
        <4>4. i # 1 BY <3>3, <4>2, <4>3
        <4>5. i - 1 \in Int /\ i - 1 # 0 /\ (i - 1) + 1 = i BY <4>4
        <4>6. Wait(t, i - 1, m)' BY <3>1, <4>3, <4>5
        <4> QED BY <4>5, <4>6
      <3>7. ASSUME NEW i \in Int, NEW m \in Nodes, Wait(t, i, m)'
            PROVE  \E k \in Int : Reply(t, k, m)'
        <4>1. i # 0 /\ Wait(t, i + 1, m) /\ i + 1 \in Int BY <3>1, <3>7
        <4>2. m # n BY <3>4, <4>1
        <4>3. PICK k \in Int : Reply(t, k, m) BY <4>1 DEF MatchInv
        <4>4. k # 1 BY <3>3, <4>2, <4>3
        <4>5. k - 1 \in Int /\ k - 1 # 0 /\ (k - 1) + 1 = k BY <4>4
        <4>6. Reply(t, k - 1, m)' BY <3>1, <4>3, <4>5
        <4> QED BY <4>5, <4>6
      <3>8. ASSUME NEW i \in Int, NEW j \in Int, NEW k \in Int, NEW l \in Int,
                   NEW m \in Nodes, NEW o \in Nodes, Wait(t, i, m)', Wait(t, j, o)',
                   Reply(t, k, m)', Reply(t, l, o)'
            PROVE  i < j <=> k < l
        <4>1. /\ Wait(t, i + 1, m) /\ Wait(t, j + 1, o)
              /\ Reply(t, k + 1, m) /\ Reply(t, l + 1, o)
          BY <3>1, <3>8
        <4>2. i + 1 < j + 1 <=> k + 1 < l + 1 BY <3>2, <4>1 DEF MatchInv
        <4> QED BY <4>2
      <3> QED BY <2>3, <3>5, <3>6, <3>7, <3>8
    <2> QED BY <2>2, <2>3
  <1>9. ASSUME NEW t \in Threads, DestroyAWindow(t), Quiet
        PROVE  MatchInv'
    BY <1>4, <1>9 DEF DestroyAWindow
  <1> QED
    BY <1>1, <1>2, <1>3, <1>4, <1>5, <1>6, <1>7, <1>8, <1>9 DEF MessageStep

\* StackInv holds on if what is on a stack stays what it is, or is answered,
\* and nothing new is sent.
LEMMA StackKept ==
  ASSUME TypeOK, StackInv, UNCHANGED replies,
         \A t \in Threads, k \in Int, m \in Nodes : Reply(t, k, m) =>
           \/ node'[m] = node[m]
           \/ node'[m].type = "REPLY" /\ node'[m].src = node[m].src,
         \A m \in Nodes : node'[m].type = "SEND" => node'[m] = node[m]
  PROVE  StackInv'
PROOF
  <1>1. \A t, k, m : Reply(t, k, m)' <=> Reply(t, k, m) BY DEF Reply
  <1>2. ASSUME NEW t \in Threads, NEW k \in Int, NEW m \in Nodes, Reply(t, k, m)'
        PROVE  node'[m].type \in {"SEND", "REPLY"} /\ node'[m].src = t
    BY <1>1, <1>2 DEF StackInv
  <1>3. ASSUME NEW m \in Nodes, node'[m].type = "SEND"
        PROVE  \E k \in Int : k \in 1 .. Len(replies'[node'[m].src])
                              /\ replies'[node'[m].src][k] = m
    <2>1. node'[m] = node[m] /\ node[m].type = "SEND" BY <1>3
    <2>2. PICK k \in Int : Reply(node[m].src, k, m) BY <2>1 DEF StackInv
    <2> QED BY <2>1, <2>2 DEF Reply
  <1> QED BY <1>2, <1>3 DEF StackInv, Reply

\* A free node that becomes a notification or a posted message was on no stack.
LEMMA StackFree ==
  ASSUME TypeOK, StackInv, UNCHANGED replies, NEW n \in Nodes,
         node[n].type \in {"FREE", "NOTIFY", "POST"}, node'[n].type # "SEND",
         \A m \in Nodes : m # n => node'[m] = node[m]
  PROVE  StackInv'
PROOF
  <1>1. \A t \in Threads, k \in Int : ~Reply(t, k, n) BY DEF StackInv
  <1> QED BY <1>1, StackKept

\* Every step keeps StackInv.
LEMMA StackStep ==
  ASSUME TypeInv, LifeInv, FrameInv, QueueInv, MatchInv, StackInv, MessageStep
  PROVE  StackInv'
PROOF
  <1>a. TypeOK BY DEF TypeInv
  <1>1. CASE UNCHANGED <<node, replies>> BY <1>a, <1>1, StackKept
  <1>2. ASSUME NEW t \in Threads, NEW w \in Windows, NEW n \in Nodes,
               MSQ_SendMessage(t, w, n)
        PROVE  StackInv'
    <2>1. /\ \A u \in Threads : u # t => replies'[u] = replies[u]
          /\ \A k \in Int, m \in Nodes :
               Reply(t, k, m)' <=> (k = 1 /\ m = n) \/ Reply(t, k - 1, m)
      BY <1>a, <1>2, StackPush DEF MSQ_SendMessage
    <2>2. node[n].type = "FREE" BY <1>2 DEF MSQ_SendMessage, FreeNodes
    <2>3. \A u \in Threads, k \in Int : ~Reply(u, k, n) BY <2>2 DEF StackInv
    <2>4. /\ \A m \in Nodes : m # n => node'[m] = node[m]
          /\ node'[n] = [type |-> "SEND", src |-> t, dst |-> w]
      BY <1>a, <1>2, SendEffect DEF MSQ_SendMessage
    <2>5. node'[n].type = "SEND" /\ node'[n].src = t BY <2>4
    <2>6. \A u \in Threads, k \in Int, m \in Nodes :
            u # t => (Reply(u, k, m)' <=> Reply(u, k, m))
      BY <2>1 DEF Reply
    <2>7. ASSUME NEW u \in Threads, NEW k \in Int, NEW m \in Nodes, Reply(u, k, m)'
          PROVE  node'[m].type \in {"SEND", "REPLY"} /\ node'[m].src = u
      <3>1. CASE u # t
        <4>1. Reply(u, k, m) BY <2>6, <2>7, <3>1
        <4> QED BY <2>3, <2>4, <4>1 DEF StackInv
      <3>2. CASE u = t /\ m = n BY <2>5, <3>2
      <3>3. CASE u = t /\ m # n
        <4>1. k - 1 \in Int /\ Reply(t, k - 1, m) BY <2>1, <2>7, <3>3
        <4> QED BY <2>4, <3>3, <4>1 DEF StackInv
      <3> QED BY <3>1, <3>2, <3>3
    <2>8. ASSUME NEW m \in Nodes, NEW u \in Threads, u = node'[m].src,
                 node'[m].type = "SEND"
          PROVE  \E k \in Int : Reply(u, k, m)'
      <3>1. CASE m = n
        <4>1. u = t /\ Reply(t, 1, n)' BY <2>1, <2>5, <2>8, <3>1
        <4> QED BY <3>1, <4>1
      <3>2. CASE m # n
        <4>1. PICK k \in Int : Reply(u, k, m) BY <2>4, <2>8, <3>2 DEF StackInv
        <4>2. CASE u # t
          <5>1. Reply(u, k, m)' BY <2>6, <4>1, <4>2
          <5> QED BY <5>1
        <4>3. CASE u = t
          <5>1. k + 1 \in Int /\ (k + 1) - 1 = k OBVIOUS
          <5>2. Reply(t, k + 1, m)' BY <2>1, <4>1, <4>3, <5>1
          <5> QED BY <4>3, <5>1, <5>2
        <4> QED BY <4>2, <4>3
      <3> QED BY <3>1, <3>2
    <2>9. ASSUME NEW m \in Nodes, node'[m].type = "SEND" PROVE node'[m].src \in Threads
      <3>1. CASE m = n BY <2>5, <3>1
      <3>2. CASE m # n
        <4>1. node'[m] = node[m] BY <2>4, <3>2
        <4> QED BY <1>a, <2>9, <4>1 DEF TypeOK, NodeRecords, Free
      <3> QED BY <3>1, <3>2
    <2> QED BY <2>7, <2>8, <2>9 DEF StackInv, Reply
  <1>3. ASSUME NEW t \in Threads, NEW w \in Windows, NEW n \in Nodes,
               MSQ_SendNotifyMessage(t, w, n)
        PROVE  StackInv'
    <2>1. node[n].type = "FREE" /\ UNCHANGED replies
      BY <1>3 DEF MSQ_SendNotifyMessage, FreeNodes
    <2>2. /\ \A m \in Nodes : m # n => node'[m] = node[m]
          /\ node'[n] = [type |-> "NOTIFY", src |-> t, dst |-> w]
      BY <1>a, <1>3, SendEffect DEF MSQ_SendNotifyMessage
    <2>3. node'[n].type = "NOTIFY" BY <2>2
    <2> QED BY <1>a, <2>1, <2>2, <2>3, StackFree
  <1>4. ASSUME NEW t \in Threads, NEW u \in Threads,
               NEW d \in Windows \cup Threads, NEW n \in FreeNodes,
               MSQ_InsertPostMsg(u, n, t, d), UNCHANGED <<sendQ, replies>>
        PROVE  StackInv'
    <2>1. n \in Nodes /\ node[n].type = "FREE" BY DEF FreeNodes
    <2>2. /\ \A m \in Nodes : m # n => node'[m] = node[m]
          /\ node'[n] = [type |-> "POST", src |-> t, dst |-> d]
      BY <1>a, <1>4, <2>1, InsertPostEffect
    <2>3. node'[n].type = "POST" BY <2>2
    <2> QED BY <1>a, <1>4, <2>1, <2>2, <2>3, StackFree
  <1>5. ASSUME NEW t \in Threads, NEW n \in Nodes, MSQ_GetPostMsg(t, n)
        PROVE  StackInv'
    <2>1. /\ n \in postQ[t] /\ node'[n] = Free
          /\ \A m \in Nodes : m # n => node'[m] = node[m]
          /\ UNCHANGED replies
      BY <1>a, <1>5, GetPostEffect
    <2>2. node[n].type = "POST" /\ node'[n].type = "FREE"
      BY <2>1 DEF QueueInv, Free
    <2> QED BY <1>a, <2>1, <2>2, StackFree
  <1>6. ASSUME NEW t \in Threads, MSQ_ReplyMessage(t) PROVE StackInv'
    <2>1. PICK n \in Nodes :
            /\ \/ node[n].type = "NOTIFY" /\ node'[n] = Free
               \/ /\ node[n].type = "SEND"
                  /\ node'[n].type = "REPLY"
                  /\ node'[n].src = node[n].src
            /\ \A m \in Nodes : m # n => node'[m] = node[m]
            /\ UNCHANGED replies
      BY <1>6, ReplyEffect
    <2>2. CASE node[n].type = "NOTIFY" /\ node'[n] = Free
      <3>1. node'[n].type = "FREE" BY <2>2 DEF Free
      <3> QED BY <1>a, <2>1, <2>2, <3>1, StackFree
    <2>3. CASE /\ node[n].type = "SEND"
               /\ node'[n].type = "REPLY"
               /\ node'[n].src = node[n].src
      BY <1>a, <2>1, <2>3, StackKept
    <2> QED BY <2>1, <2>2, <2>3
  <1>7. ASSUME NEW t \in Threads, TakeReply(t) PROVE StackInv'
    <2>1. PICK n \in Nodes :
            /\ Reply(t, 1, n)
            /\ node[n].type = "REPLY"
            /\ node'[n] = Free
            /\ \A m \in Nodes : m # n => node'[m] = node[m]
            /\ \A u \in Threads : u # t => replies'[u] = replies[u]
            /\ \A k \in Int, m \in Nodes :
                 Reply(t, k, m)' <=> k # 0 /\ Reply(t, k + 1, m)
      BY <1>7, TakeEffect
    <2>2. node'[n].type = "FREE" BY <2>1 DEF Free
    <2>3. \A u \in Threads, k \in Int, m \in Nodes :
            u # t => (Reply(u, k, m)' <=> Reply(u, k, m))
      BY <2>1 DEF Reply
    <2>4. ASSUME NEW u \in Threads, NEW k \in Int, NEW m \in Nodes, Reply(u, k, m)'
          PROVE  node'[m].type \in {"SEND", "REPLY"} /\ node'[m].src = u
      <3>1. CASE u # t
        <4>1. Reply(u, k, m) BY <2>3, <2>4, <3>1
        <4>2. m # n BY <2>1, <3>1, <4>1 DEF StackInv
        <4> QED BY <2>1, <4>1, <4>2 DEF StackInv
      <3>2. CASE u = t
        <4>1. k # 0 /\ k + 1 \in Int /\ Reply(t, k + 1, m) BY <2>1, <2>4, <3>2
        <4>2. k + 1 # 1 BY <4>1
        <4>3. m # n BY <2>1, <4>1, <4>2 DEF MatchInv
        <4> QED BY <2>1, <3>2, <4>1, <4>3 DEF StackInv
      <3> QED BY <3>1, <3>2
    <2>5. ASSUME NEW m \in Nodes, NEW u \in Threads, u = node'[m].src,
                 node'[m].type = "SEND"
          PROVE  \E k \in Int : Reply(u, k, m)'
      <3>1. m # n /\ node'[m] = node[m] BY <2>1, <2>2, <2>5
      <3>2. PICK k \in Int : Reply(u, k, m) BY <2>5, <3>1 DEF StackInv
      <3>3. CASE u # t
        <4>1. Reply(u, k, m)' BY <2>3, <3>2, <3>3
        <4> QED BY <4>1
      <3>4. CASE u = t
        <4>1. k # 1 BY <2>1, <3>1, <3>2, <3>4 DEF Reply
        <4>2. k - 1 \in Int /\ k - 1 # 0 /\ (k - 1) + 1 = k BY <4>1
        <4>3. Reply(t, k - 1, m)' BY <2>1, <3>2, <3>4, <4>2
        <4> QED BY <3>4, <4>2, <4>3
      <3> QED BY <3>3, <3>4
    <2>6. ASSUME NEW m \in Nodes, node'[m].type = "SEND" PROVE node'[m].src \in Threads
      <3>1. node'[m] = node[m] BY <2>1, <2>2, <2>6
      <3> QED BY <1>a, <2>6, <3>1 DEF TypeOK, NodeRecords, Free
    <2> QED BY <2>4, <2>5, <2>6 DEF StackInv, Reply
  <1>8. ASSUME NEW t \in Threads, DestroyAWindow(t) PROVE StackInv'
    <2>1. PICK w \in Windows :
            /\ \A n \in Nodes :
                 \/ /\ n \in sendQ[t] /\ node[n].dst = w /\ node[n].src \in info
                    /\ node[n].type # "FREE" =>
                         node'[n].type = "REPLY" /\ node'[n].src = node[n].src
                 \/ /\ n \in sendQ[t] \cup postQ[t] /\ node[n].dst = w
                    /\ n \in sendQ[t] => node[n].src \notin info
                    /\ node'[n] = Free
                 \/ /\ n \notin sendQ[t] \cup postQ[t] \/ node[n].dst # w
                    /\ node'[n] = node[n]
            /\ UNCHANGED replies
      BY <1>8, DestroyEffect
    <2>2. ASSUME NEW m \in Nodes, node'[m].type = "SEND" PROVE node'[m] = node[m]
      BY <2>1, <2>2 DEF Free, QueueInv
    <2>3. ASSUME NEW u \in Threads, NEW k \in Int, NEW m \in Nodes, Reply(u, k, m)
          PROVE  \/ node'[m] = node[m]
                 \/ node'[m].type = "REPLY" /\ node'[m].src = node[m].src
      <3>1. node[m].type \in {"SEND", "REPLY"} /\ node[m].src = u
        BY <2>3 DEF StackInv
      <3>2. u \in info BY <2>3, WaiterAlive
      <3>3. m \notin postQ[t] BY <3>1 DEF QueueInv
      <3> QED BY <2>1, <3>1, <3>2, <3>3
    <2> QED BY <1>a, <2>1, <2>2, <2>3, StackKept
  <1> QED
    BY <1>1, <1>2, <1>3, <1>4, <1>5, <1>6, <1>7, <1>8
    DEF MessageStep, HandleSendMsg

-----------------------------------------------------------------------------
(* Windows, threads and frames.                                            *)

\* A call keeps FrameInv when what it pushes is right.
LEMMA FramePush ==
  ASSUME TypeInv, FrameInv, NEW t \in Threads, NEW f \in Frames, Push(t, f),
         f.kind # "exit",
         f.kind = "destroy" => f.arg \in Windows /\ Owner[f.arg] = t,
         f.kind \in {"proc", "wait"} => f.arg \in Nodes
  PROVE  FrameInv'
PROOF
  <1>1. /\ \A u \in Threads : u # t => frames'[u] = frames[u]
        /\ Len(frames'[t]) = Len(frames[t]) + 1
        /\ frames'[t][1] = f
        /\ \A i \in 2 .. Len(frames'[t]) : frames'[t][i] = frames[t][i - 1]
    BY PushedFrames DEF TypeInv
  <1>2. Len(frames[t]) \in Nat BY DEF TypeInv, TypeOK
  <1> SUFFICES ASSUME NEW u \in Threads, NEW i \in 1 .. Len(frames'[u])
               PROVE
      /\ frames'[u][i].kind = "exit" => i = Len(frames'[u]) - 1
      /\ frames'[u][i].kind = "destroy" =>
           frames'[u][i].arg \in Windows /\ Owner[frames'[u][i].arg] = u
      /\ frames'[u][i].kind \in {"proc", "wait"} => frames'[u][i].arg \in Nodes
    BY DEF FrameInv
  <1>3. CASE u # t BY <1>1, <1>3 DEF FrameInv
  <1>4. CASE u = t /\ i = 1 BY <1>1, <1>4
  <1>5. CASE u = t /\ i # 1
    <2>1. i - 1 \in 1 .. Len(frames[t]) /\ frames'[t][i] = frames[t][i - 1]
      BY <1>1, <1>2, <1>5
    <2>2. i - 1 = Len(frames[t]) - 1 => i = Len(frames'[t]) - 1
      BY <1>1, <1>2, <1>5
    <2> QED BY <1>5, <2>1, <2>2 DEF FrameInv
  <1> QED BY <1>3, <1>4, <1>5

\* So does a return.
LEMMA FrameReturn ==
  ASSUME TypeInv, FrameInv, NEW t \in Threads, Return(t)
  PROVE  FrameInv'
PROOF
  <1>1. /\ \A u \in Threads : u # t => frames'[u] = frames[u]
        /\ Len(frames'[t]) = Len(frames[t]) - 1
        /\ \A i \in 1 .. Len(frames'[t]) : frames'[t][i] = frames[t][i + 1]
    BY PoppedFrames
  <1>2. Len(frames[t]) \in Nat BY DEF TypeInv, TypeOK
  <1> SUFFICES ASSUME NEW u \in Threads, NEW i \in 1 .. Len(frames'[u])
               PROVE
      /\ frames'[u][i].kind = "exit" => i = Len(frames'[u]) - 1
      /\ frames'[u][i].kind = "destroy" =>
           frames'[u][i].arg \in Windows /\ Owner[frames'[u][i].arg] = u
      /\ frames'[u][i].kind \in {"proc", "wait"} => frames'[u][i].arg \in Nodes
    BY DEF FrameInv
  <1>3. CASE u # t BY <1>1, <1>3 DEF FrameInv
  <1>4. CASE u = t
    <2>1. i + 1 \in 1 .. Len(frames[t]) /\ frames'[t][i] = frames[t][i + 1]
      BY <1>1, <1>2, <1>4
    <2>2. i + 1 = Len(frames[t]) - 1 => i = Len(frames'[t]) - 1
      BY <1>1, <1>2, <1>4
    <2> QED BY <1>4, <2>1, <2>2 DEF FrameInv
  <1> QED BY <1>3, <1>4

\* And WS_ThreadExit, which comes from the outermost loop.
LEMMA FrameExit ==
  ASSUME TypeInv, FrameInv, NEW t \in Threads, WS_ThreadExit(t)
  PROVE  FrameInv'
PROOF
  <1>1. /\ \A u \in Threads : u # t => frames'[u] = frames[u]
        /\ Len(frames[t]) = 2 /\ Len(frames'[t]) = 2
        /\ frames'[t][1] = Frame("exit", NULL)
        /\ frames'[t][2] = frames[t][2]
    BY QuietExit
  <1>2. frames'[t][1].kind = "exit" BY <1>1 DEF Frame
  <1> SUFFICES ASSUME NEW u \in Threads, NEW i \in 1 .. Len(frames'[u])
               PROVE
      /\ frames'[u][i].kind = "exit" => i = Len(frames'[u]) - 1
      /\ frames'[u][i].kind = "destroy" =>
           frames'[u][i].arg \in Windows /\ Owner[frames'[u][i].arg] = u
      /\ frames'[u][i].kind \in {"proc", "wait"} => frames'[u][i].arg \in Nodes
    BY DEF FrameInv
  <1>3. CASE u # t BY <1>1, <1>3 DEF FrameInv
  <1>4. CASE u = t /\ i = 1 BY <1>1, <1>2, <1>4
  <1>5. CASE u = t /\ i = 2 BY <1>1, <1>5 DEF FrameInv
  <1>6. u = t => i = 1 \/ i = 2 BY <1>1
  <1> QED BY <1>3, <1>4, <1>5, <1>6

\* Every step keeps FrameInv.
LEMMA FrameStep == TypeInv /\ FrameInv /\ [Next]_vars => FrameInv'
PROOF
  <1> SUFFICES ASSUME TypeInv, FrameInv, [Next]_vars PROVE FrameInv'
    OBVIOUS
  <1>0. CASE UNCHANGED frames BY <1>0 DEF FrameInv
  <1>1. ASSUME NEW t \in Threads, NEW k \in {"get", "peek"}, Push(t, Frame(k, NULL))
        PROVE  FrameInv'
    <2>1. Frame(k, NULL) \in Frames BY FrameType
    <2>2. Frame(k, NULL).kind = k BY DEF Frame
    <2> QED BY <1>1, <2>1, <2>2, FramePush
  <1>2. ASSUME NEW t \in Threads, NEW n \in Nodes, NEW k \in {"proc", "wait"},
               Push(t, Frame(k, n))
        PROVE  FrameInv'
    <2>1. Frame(k, n) \in Frames BY FrameType
    <2>2. Frame(k, n).kind = k /\ Frame(k, n).arg = n BY DEF Frame
    <2> QED BY <1>2, <2>1, <2>2, FramePush
  <1>3. ASSUME NEW t \in Threads, NEW w \in Windows, WND_Destroy(t, w)
        PROVE  FrameInv'
    <2>1. Frame("destroy", w) \in Frames BY FrameType
    <2>2. /\ Frame("destroy", w).kind = "destroy" /\ Frame("destroy", w).arg = w
          /\ Owner[w] = t
      BY <1>3 DEF Frame, WND_Destroy
    <2> QED BY <1>3, <2>1, <2>2, FramePush DEF WND_Destroy
  <1>4. ASSUME NEW t \in Threads,
               \/ GetMessage(t)
               \/ PeekMessage(t)
               \/ MSQ_ReplyMessage(t)
               \/ DestroyAWindow(t)
               \/ PostQuitMessage(t)
        PROVE  FrameInv'
    BY <1>0, <1>1, <1>4, FrameReturn
    DEF GetMessage, PeekMessage, MSQ_ReplyMessage, DestroyAWindow, PostQuitMessage
  <1>5. ASSUME NEW t \in Threads,
               \/ GetMsgObjFails(t)
               \/ TakeReply(t)
               \/ PeekNothing(t)
               \/ Block(t)
               \/ Unblock(t)
               \/ WS_ThreadExit(t)
               \/ QuitInNestedLoop(t)
               \/ THREADINFO_Destroy(t)
        PROVE  FrameInv'
    BY <1>0, <1>5, FrameReturn, FrameExit
    DEF GetMsgObjFails, TakeReply, PeekNothing, Block, Unblock, QuitInNestedLoop,
        THREADINFO_Destroy
  <1>6. ASSUME NEW t \in Threads, NEW n \in Nodes,
               HandleSendMsg(t, n) \/ MSQ_GetPostMsg(t, n)
        PROVE  FrameInv'
    BY <1>2, <1>6, FrameReturn DEF HandleSendMsg, MSQ_GetPostMsg
  <1>7. ASSUME NEW t \in Threads, NEW w \in Windows, NEW n \in Nodes,
               \/ MSQ_SendMessage(t, w, n)
               \/ MSQ_SendNotifyMessage(t, w, n)
               \/ MSQ_PostMessage(t, w, n)
        PROVE  FrameInv'
    BY <1>0, <1>2, <1>7
    DEF MSQ_SendMessage, MSQ_SendNotifyMessage, MSQ_PostMessage
  <1>8. ASSUME NEW t \in Threads, NEW w \in Windows,
               \/ EnterWithGoneWindow(t, w)
               \/ CreateWindow(t, w)
               \/ \E op \in Calls : LookUp(t, op, w)
        PROVE  FrameInv'
    BY <1>0, <1>8 DEF EnterWithGoneWindow, CreateWindow, LookUp
  <1>9. ASSUME NEW t \in Threads, NEW u \in Threads, NEW n \in Nodes,
               MSQ_PostThreadMessage(t, u, n)
        PROVE  FrameInv'
    BY <1>0, <1>9 DEF MSQ_PostThreadMessage
  <1>10. CASE UNCHANGED vars BY <1>0, <1>10 DEF vars
  <1> QED
    BY <1>3, <1>4, <1>5, <1>6, <1>7, <1>8, <1>9, <1>10
    DEF Next, Kernel, Application, DestroyWindow, WND_DestroyWindowsByThreadId

\* The window of a call that enters the monitor, and is not gone, is there.
LEMMA EnteredWindow ==
  ASSUME TypeOK, LifeInv, NEW t \in Threads, NEW w \in Windows, NEW op \in AllCalls,
         Entered(t, op, w)
  PROVE  Alive(w) /\ Owner[w] \in info /\ (op = "send" => t \in info)
PROOF
  <1>1. call[t] = [op |-> op, win |-> w] /\ window[w] # "gone" BY DEF Entered
  <1>2. call[t] # NULL BY <1>1, PendingCall
  <1>3. call[t].op = op /\ call[t].win = w BY <1>1
  <1>4. window[w] # "none" /\ (op = "send" => t \in info) BY <1>2, <1>3 DEF LifeInv
  <1>5. window[w] \in {"none", "live", "destroying", "gone"} BY DEF TypeOK
  <1>6. Alive(w) BY <1>1, <1>4, <1>5 DEF Alive
  <1> QED BY <1>4, <1>6 DEF LifeInv

\* A thread that is not at the bottom of its stack has a THREADINFO.
LEMMA LoopAlive ==
  ASSUME TypeInv, LifeInv, NEW t \in Threads, Top(t).kind # "app"
  PROVE  t \in info
PROOF
  <1>1. frames[t] \in Seq(Frames) /\ frames[t] # <<>>
        /\ frames[t][Len(frames[t])].kind = "app"
    BY DEF TypeInv, TypeOK, BottomInv
  <1>2. Len(frames[t]) # 1 BY <1>1, TopType
  <1>3. Len(frames[t]) > 1 BY <1>1, <1>2, EmptySeq, TwoOrMore
  <1> QED BY <1>3 DEF LifeInv

\* A thread whose THREADINFO goes has no other frame than its own code.
LEMMA ExitFrames ==
  ASSUME TypeInv, FrameInv, NEW t \in Threads, Top(t).kind = "exit"
  PROVE  /\ Len(frames[t]) = 2
         /\ \A i \in Int, n \in Nodes : ~Proc(t, i, n) /\ ~Wait(t, i, n)
PROOF
  <1>1. frames[t] \in Seq(Frames) /\ frames[t] # <<>>
        /\ frames[t][Len(frames[t])].kind = "app"
    BY DEF TypeInv, TypeOK, BottomInv
  <1>2. Len(frames[t]) \in Nat /\ Len(frames[t]) # 0 BY <1>1, EmptySeq
  <1>3. 1 \in 1 .. Len(frames[t]) /\ frames[t][1].kind = "exit"
    BY <1>2, TopType
  <1>4. Len(frames[t]) = 2
    <2>1. 1 = Len(frames[t]) - 1 BY <1>3 DEF FrameInv
    <2> QED BY <1>2, <2>1
  <1>5. \A i \in 1 .. 2 : i = 1 \/ i = 2 OBVIOUS
  <1>6. \A i \in 1 .. 2 : frames[t][i].kind \notin {"proc", "wait"}
    BY <1>1, <1>3, <1>4, <1>5
  <1> QED BY <1>4, <1>6 DEF Proc, Wait, Frame

\* It has nothing sent to it, and has sent nothing that is not answered.
LEMMA ExitClean ==
  ASSUME TypeInv, FrameInv, QueueInv, MatchInv, NEW t \in Threads,
         THREADINFO_Destroy(t)
  PROVE  /\ sendQ[t] = {}
         /\ replies[t] = <<>>
         /\ \A w \in Windows : Owner[w] = t => ~Alive(w)
PROOF
  <1>1. Top(t).kind = "exit" /\ ~HasWindows(t) BY DEF THREADINFO_Destroy
  <1>2. \A w \in Windows : Owner[w] = t => ~Alive(w)
    BY <1>1 DEF HasWindows, Alive
  <1>3. sendQ[t] = {} BY <1>2 DEF QueueInv, IsFor, TypeInv, TypeOK
  <1>4. replies[t] = <<>>
    <2> SUFFICES ASSUME replies[t] # <<>> PROVE FALSE
      OBVIOUS
    <2>1. replies[t] \in Seq(Nodes) BY DEF TypeInv, TypeOK
    <2>2. replies[t][1] \in Nodes /\ Len(replies[t]) >= 1 BY <2>1, PopSeq
    <2>3. Reply(t, 1, replies[t][1]) BY <2>1, <2>2 DEF Reply
    <2>4. \E i \in Int : Wait(t, i, replies[t][1]) BY <2>2, <2>3 DEF MatchInv
    <2> QED BY <1>1, <2>2, <2>4, ExitFrames
  <1> QED BY <1>2, <1>3, <1>4

\* Every step keeps LifeInv.
LEMMA LifeStep ==
  TypeInv /\ BlockInv /\ LifeInv /\ FrameInv /\ [Next]_vars => LifeInv'
PROOF
  <1> SUFFICES ASSUME TypeInv, BlockInv, LifeInv, FrameInv, [Next]_vars PROVE LifeInv'
    OBVIOUS
  <1>a. TypeOK BY DEF TypeInv
  \* steps that leave the calls alone but for the one that enters
  <1>1. ASSUME UNCHANGED <<info, window>>,
               \A t \in Threads : Len(frames'[t]) > 1 => t \in info,
               \A t \in Threads : call'[t] # NULL => call'[t] = call[t]
        PROVE  LifeInv'
    BY <1>1 DEF LifeInv, Alive
  <1>2. ASSUME UNCHANGED <<info, window, frames>>,
               \A t \in Threads : call'[t] # NULL => call'[t] = call[t]
        PROVE  LifeInv'
    BY <1>2 DEF LifeInv, Alive
  <1>3. ASSUME NEW t \in Threads, t \in info, NEW f \in Frames, Push(t, f)
        PROVE  \A u \in Threads : Len(frames'[u]) > 1 => u \in info
    BY <1>3, <1>a, PushedFrames DEF LifeInv
  <1>4. ASSUME NEW t \in Threads, Return(t)
        PROVE  \A u \in Threads : Len(frames'[u]) > 1 => u \in info
    <2>1. /\ \A u \in Threads : u # t => frames'[u] = frames[u]
          /\ Len(frames'[t]) = Len(frames[t]) - 1
          /\ Len(frames[t]) \in Nat
      BY <1>4, <1>a, PoppedFrames DEF TypeOK
    <2>2. Len(frames'[t]) > 1 => Len(frames[t]) > 1 BY <2>1
    <2> QED BY <2>1, <2>2 DEF LifeInv
  <1>5. ASSUME NEW t \in Threads, Top(t).kind # "app" PROVE t \in info
    BY <1>5, LoopAlive
  <1>6. CASE UNCHANGED vars BY <1>2, <1>6 DEF vars
  <1>7. ASSUME NEW t \in Threads, NEW op \in Calls, NEW w \in Windows,
               LookUp(t, op, w)
        PROVE  LifeInv'
    <2>1. /\ call' = [call EXCEPT ![t] = [op |-> op, win |-> w]]
          /\ window[w] \in {"live", "destroying"}
          /\ op = "send" => t \in info
          /\ UNCHANGED <<info, window, frames>>
      BY <1>7 DEF LookUp
    <2>2. call'[t] = [op |-> op, win |-> w] BY <1>a, <2>1 DEF TypeOK
    <2>3. call'[t].op = op /\ call'[t].win = w BY <2>2
    <2>4. \A u \in Threads : u # t => call'[u] = call[u] BY <1>a, <2>1 DEF TypeOK
    <2> QED BY <2>1, <2>3, <2>4 DEF LifeInv, Alive
  <1>8. ASSUME NEW t \in Threads, NEW w \in Windows, EnterWithGoneWindow(t, w)
        PROVE  LifeInv'
    BY <1>2, <1>8 DEF EnterWithGoneWindow
  <1>9. ASSUME NEW t \in Threads, NEW op, NEW w, Entered(t, op, w)
        PROVE  \A u \in Threads : call'[u] # NULL => call'[u] = call[u]
    BY <1>9, <1>a DEF Entered, TypeOK
  <1>10. ASSUME NEW t \in Threads, GetMsgObjFails(t) PROVE LifeInv'
    BY <1>2, <1>9, <1>10 DEF GetMsgObjFails
  <1>11. ASSUME NEW t \in Threads, NEW w \in Windows, NEW n \in Nodes,
                MSQ_SendMessage(t, w, n)
         PROVE  LifeInv'
    <2>1. Entered(t, "send", w) /\ UNCHANGED <<info, window>>
          /\ Push(t, Frame("wait", n))
      BY <1>11 DEF MSQ_SendMessage
    <2>2. t \in info BY <1>a, <2>1, EnteredWindow DEF AllCalls
    <2>3. Frame("wait", n) \in Frames BY FrameType
    <2> QED BY <1>1, <1>3, <1>9, <2>1, <2>2, <2>3
  <1>12. ASSUME NEW t \in Threads, NEW w \in Windows, NEW n \in Nodes,
                MSQ_SendNotifyMessage(t, w, n) \/ MSQ_PostMessage(t, w, n)
         PROVE  LifeInv'
    BY <1>2, <1>9, <1>12 DEF MSQ_SendNotifyMessage, MSQ_PostMessage
  <1>13. ASSUME NEW t \in Threads, NEW u \in Threads, NEW n \in Nodes,
                MSQ_PostThreadMessage(t, u, n)
         PROVE  LifeInv'
    BY <1>2, <1>13 DEF MSQ_PostThreadMessage
  <1>14. ASSUME NEW t \in Threads, GetMessage(t) \/ PeekMessage(t) PROVE LifeInv'
    <2>1. PICK k \in {"get", "peek"} : Push(t, Frame(k, NULL))
      BY <1>14 DEF GetMessage, PeekMessage
    <2>2. Frame(k, NULL) \in Frames BY FrameType
    <2>3. t \in info /\ UNCHANGED <<info, window, call>>
      BY <1>14 DEF GetMessage, PeekMessage
    <2> QED BY <1>1, <1>3, <2>1, <2>2, <2>3
  <1>15. ASSUME NEW t \in Threads, NEW n \in Nodes, HandleSendMsg(t, n)
         PROVE  LifeInv'
    <2>1. Frame("proc", n) \in Frames BY FrameType
    <2>2. t \in info BY <1>5, <1>15 DEF HandleSendMsg, InLoop
    <2> QED BY <1>1, <1>3, <1>15, <2>1, <2>2 DEF HandleSendMsg
  <1>16. ASSUME NEW t \in Threads,
                \/ MSQ_ReplyMessage(t)
                \/ TakeReply(t)
                \/ PeekNothing(t)
                \/ \E n \in Nodes : MSQ_GetPostMsg(t, n)
         PROVE  LifeInv'
    <2>1. Return(t) /\ UNCHANGED <<info, window, call>>
      BY <1>16 DEF MSQ_ReplyMessage, TakeReply, PeekNothing, MSQ_GetPostMsg
    <2> QED BY <1>1, <1>4, <2>1
  <1>17. ASSUME NEW t \in Threads,
                \/ Block(t)
                \/ Unblock(t)
                \/ PostQuitMessage(t)
                \/ QuitInNestedLoop(t)
         PROVE  LifeInv'
    BY <1>2, <1>17 DEF Block, Unblock, PostQuitMessage, QuitInNestedLoop
  <1>18. ASSUME NEW t \in Threads, NEW w \in Windows, CreateWindow(t, w)
         PROVE  LifeInv'
    <2>1. /\ Owner[w] = t /\ window' = [window EXCEPT ![w] = "live"]
          /\ info' = info \cup {t} /\ UNCHANGED <<frames, call>>
      BY <1>18 DEF CreateWindow
    <2>2. window'[w] = "live" /\ \A v \in Windows : v # w => window'[v] = window[v]
      BY <1>a, <2>1 DEF TypeOK
    <2>3. \A u \in Threads : call[u] # NULL => call[u].win \in Windows
      BY <1>a DEF TypeOK
    <2> QED BY <2>1, <2>2, <2>3 DEF LifeInv, Alive
  <1>19. ASSUME NEW t \in Threads, NEW w \in Windows, WND_Destroy(t, w)
         PROVE  LifeInv'
    <2>1. /\ Owner[w] = t /\ window[w] = "live"
          /\ window' = [window EXCEPT ![w] = "destroying"]
          /\ Push(t, Frame("destroy", w)) /\ UNCHANGED <<info, call>>
      BY <1>19 DEF WND_Destroy
    <2>2. window'[w] = "destroying"
          /\ \A v \in Windows : v # w => window'[v] = window[v]
      BY <1>a, <2>1 DEF TypeOK
    <2>3. \A u \in Threads : call[u] # NULL => call[u].win \in Windows
      BY <1>a DEF TypeOK
    <2>4. t \in info BY <2>1 DEF LifeInv, Alive
    <2>5. Frame("destroy", w) \in Frames BY FrameType
    <2>6. \A u \in Threads : Len(frames'[u]) > 1 => u \in info
      BY <1>3, <2>1, <2>4, <2>5
    <2> QED BY <2>1, <2>2, <2>3, <2>4, <2>6 DEF LifeInv, Alive
  <1>20. ASSUME NEW t \in Threads, DestroyAWindow(t) PROVE LifeInv'
    <2>1. PICK w \in Windows :
            window' = [window EXCEPT ![w] = "gone"] /\ UNCHANGED info
      BY <1>20, DestroyEffect
    <2>2. window'[w] = "gone" /\ \A v \in Windows : v # w => window'[v] = window[v]
      BY <1>a, <2>1 DEF TypeOK
    <2>3. \A u \in Threads : call[u] # NULL => call[u].win \in Windows
      BY <1>a DEF TypeOK
    <2>4. Return(t) /\ UNCHANGED call BY <1>20 DEF DestroyAWindow
    <2>5. \A u \in Threads : Len(frames'[u]) > 1 => u \in info BY <1>4, <2>4
    <2> QED BY <2>1, <2>2, <2>3, <2>4, <2>5 DEF LifeInv, Alive
  <1>21. ASSUME NEW t \in Threads, WS_ThreadExit(t) PROVE LifeInv'
    <2>1. /\ \A u \in Threads : u # t => frames'[u] = frames[u]
          /\ Len(frames[t]) = 2 /\ Len(frames'[t]) = 2
      BY <1>21, QuietExit
    <2>2. \A u \in Threads : Len(frames'[u]) > 1 => u \in info
      BY <2>1 DEF LifeInv
    <2> QED BY <1>1, <1>21, <2>2 DEF WS_ThreadExit
  <1>22. ASSUME NEW t \in Threads, THREADINFO_Destroy(t) PROVE LifeInv'
    <2>1. /\ Top(t).kind = "exit" /\ ~HasWindows(t) /\ info' = info \ {t}
          /\ Return(t) /\ UNCHANGED <<window, call>>
      BY <1>22 DEF THREADINFO_Destroy
    <2>2. Len(frames[t]) = 2 BY <2>1, ExitFrames
    <2>3. /\ Len(frames'[t]) = Len(frames[t]) - 1
          /\ \A u \in Threads : u # t => frames'[u] = frames[u]
      BY <2>1, PoppedFrames
    <2>4. Len(frames'[t]) = 1 BY <2>2, <2>3
    <2>5. call[t] = NULL BY <2>1 DEF BlockInv
    <2>6. \A w \in Windows : Alive(w)' => Owner[w] \in info'
      BY <2>1 DEF LifeInv, Alive, HasWindows
    <2>7. ASSUME NEW u \in Threads
          PROVE  /\ Len(frames'[u]) > 1 => u \in info'
                 /\ call'[u] # NULL => /\ window'[call'[u].win] # "none"
                                       /\ call'[u].op = "send" => u \in info'
      <3>1. CASE u = t
        <4>1. ~(1 > 1) OBVIOUS
        <4>2. Len(frames'[u]) = 1 BY <2>4, <3>1
        <4>3. call'[u] = NULL BY <2>1, <2>5, <3>1
        <4> QED BY <4>1, <4>2, <4>3, Zenon
      <3>2. CASE u # t BY <2>1, <2>3, <3>2 DEF LifeInv
      <3> QED BY <3>1, <3>2
    <2> QED BY <2>6, <2>7 DEF LifeInv
  <1> QED
    BY <1>6, <1>7, <1>8, <1>10, <1>11, <1>12, <1>13, <1>14, <1>15, <1>16, <1>17,
       <1>18, <1>19, <1>20, <1>21, <1>22
    DEF Next, Kernel, Application, DestroyWindow, WND_DestroyWindowsByThreadId

-----------------------------------------------------------------------------
(* What is queued.                                                         *)

\* QueueInv holds on for what stays queued as it is, if its window stays.
LEMMA QueueKept ==
  ASSUME QueueInv,
         \A t \in Threads, n \in Nodes : n \in sendQ'[t] =>
           n \in sendQ[t] /\ node'[n] = node[n] /\ t \in info',
         \A t \in Threads, n \in Nodes : n \in postQ'[t] =>
           n \in postQ[t] /\ node'[n] = node[n] /\ t \in info',
         \A w \in Windows : Alive(w) /\ window'[w] \notin {"live", "destroying"} =>
           \A t \in Threads, n \in Nodes :
             n \in sendQ'[t] \cup postQ'[t] => node[n].dst # w
  PROVE  QueueInv'
PROOF
  <1> SUFFICES ASSUME NEW t \in Threads, NEW n \in Nodes
               PROVE
      /\ n \in sendQ'[t] => /\ t \in info'
                            /\ node'[n].type \in {"SEND", "NOTIFY"}
                            /\ node'[n].dst \in Windows /\ Owner[node'[n].dst] = t
                            /\ window'[node'[n].dst] \in {"live", "destroying"}
      /\ n \in postQ'[t] => /\ t \in info'
                            /\ node'[n].type = "POST"
                            /\ \/ node'[n].dst = t
                               \/ /\ node'[n].dst \in Windows /\ Owner[node'[n].dst] = t
                                  /\ window'[node'[n].dst] \in {"live", "destroying"}
    BY DEF QueueInv, IsFor, Alive
  <1>1. CASE n \in sendQ'[t]
    <2>1. /\ n \in sendQ[t] /\ node'[n] = node[n] /\ t \in info' BY <1>1
    <2>2. /\ node[n].type \in {"SEND", "NOTIFY"}
          /\ node[n].dst \in Windows /\ Owner[node[n].dst] = t
          /\ Alive(node[n].dst)
      BY <2>1 DEF QueueInv, IsFor
    <2>3. window'[node[n].dst] \in {"live", "destroying"} BY <1>1, <2>2
    <2>4. n \in postQ'[t] => FALSE BY <2>1, <2>2 DEF QueueInv
    <2> QED BY <2>1, <2>2, <2>3, <2>4
  <1>2. CASE n \in postQ'[t]
    <2>1. /\ n \in postQ[t] /\ node'[n] = node[n] /\ t \in info' BY <1>2
    <2>2. /\ node[n].type = "POST"
          /\ \/ node[n].dst = t
             \/ /\ node[n].dst \in Windows /\ Owner[node[n].dst] = t
                /\ Alive(node[n].dst)
      BY <2>1 DEF QueueInv, IsFor
    <2>3. node[n].dst \in Windows /\ Alive(node[n].dst) =>
            window'[node[n].dst] \in {"live", "destroying"}
      BY <1>2
    <2>4. n \in sendQ'[t] => FALSE BY <2>1, <2>2 DEF QueueInv
    <2> QED BY <2>1, <2>2, <2>3, <2>4
  <1> QED BY <1>1, <1>2

\* An insertion keeps it: the node was free, the window is there.
LEMMA QueueSend ==
  ASSUME TypeOK, QueueInv, NEW t \in Threads, NEW w \in Windows,
         NEW n \in FreeNodes, NEW k \in {"SEND", "NOTIFY"},
         MSQ_InsertSendMsg(Owner[w], n, k, t, w), Alive(w), Owner[w] \in info,
         UNCHANGED <<info, window, postQ>>
  PROVE  QueueInv'
PROOF
  <1>1. n \in Nodes /\ node[n].type = "FREE" BY DEF FreeNodes
  <1>2. /\ node'[n] = [type |-> k, src |-> t, dst |-> w]
        /\ \A m \in Nodes : m # n => node'[m] = node[m]
        /\ \A v \in Threads : v # Owner[w] => sendQ'[v] = sendQ[v]
        /\ sendQ'[Owner[w]] = sendQ[Owner[w]] \cup {n}
    BY <1>1, SendEffect
  <1>3. node'[n].type = k /\ node'[n].dst = w BY <1>2
  <1>4. \A u \in Threads : n \notin sendQ[u] \cup postQ[u] BY <1>1 DEF QueueInv
  <1> SUFFICES ASSUME NEW u \in Threads, NEW m \in Nodes
               PROVE
      /\ m \in sendQ'[u] => /\ u \in info
                            /\ node'[m].type \in {"SEND", "NOTIFY"}
                            /\ node'[m].dst \in Windows /\ Owner[node'[m].dst] = u
                            /\ window[node'[m].dst] \in {"live", "destroying"}
      /\ m \in postQ[u] => /\ u \in info
                            /\ node'[m].type = "POST"
                            /\ \/ node'[m].dst = u
                               \/ /\ node'[m].dst \in Windows /\ Owner[node'[m].dst] = u
                                  /\ window[node'[m].dst] \in {"live", "destroying"}
    BY DEF QueueInv, IsFor, Alive
  <1>5. CASE m = n BY <1>2, <1>3, <1>4, <1>5 DEF Alive
  <1>6. CASE m # n
    <2>1. node'[m] = node[m] /\ (m \in sendQ'[u] => m \in sendQ[u])
      BY <1>2, <1>6
    <2> QED BY <2>1 DEF QueueInv, IsFor, Alive
  <1> QED BY <1>5, <1>6

\* A posted message is for its thread, or for a window of it that is there.
LEMMA QueuePost ==
  ASSUME TypeOK, QueueInv, NEW t \in Threads, NEW u \in Threads,
         NEW d \in Windows \cup Threads, NEW n \in FreeNodes,
         MSQ_InsertPostMsg(u, n, t, d), u \in info,
         d # u => d \in Windows /\ Owner[d] = u /\ Alive(d),
         UNCHANGED <<info, window, sendQ>>
  PROVE  QueueInv'
PROOF
  <1>1. n \in Nodes /\ node[n].type = "FREE" BY DEF FreeNodes
  <1>2. /\ node'[n] = [type |-> "POST", src |-> t, dst |-> d]
        /\ \A m \in Nodes : m # n => node'[m] = node[m]
        /\ \A v \in Threads : v # u => postQ'[v] = postQ[v]
        /\ postQ'[u] = postQ[u] \cup {n}
    BY <1>1, InsertPostEffect
  <1>3. node'[n].type = "POST" /\ node'[n].dst = d BY <1>2
  <1>4. \A v \in Threads : n \notin sendQ[v] \cup postQ[v] BY <1>1 DEF QueueInv
  <1> SUFFICES ASSUME NEW v \in Threads, NEW m \in Nodes
               PROVE
      /\ m \in sendQ[v] => /\ v \in info
                           /\ node'[m].type \in {"SEND", "NOTIFY"}
                           /\ node'[m].dst \in Windows /\ Owner[node'[m].dst] = v
                           /\ window[node'[m].dst] \in {"live", "destroying"}
      /\ m \in postQ'[v] => /\ v \in info
                            /\ node'[m].type = "POST"
                            /\ \/ node'[m].dst = v
                               \/ /\ node'[m].dst \in Windows /\ Owner[node'[m].dst] = v
                                  /\ window[node'[m].dst] \in {"live", "destroying"}
    BY DEF QueueInv, IsFor, Alive
  <1>5. CASE m = n BY <1>2, <1>3, <1>4, <1>5 DEF Alive
  <1>6. CASE m # n
    <2>1. node'[m] = node[m] /\ (m \in postQ'[v] => m \in postQ[v])
      BY <1>2, <1>6
    <2> QED BY <2>1 DEF QueueInv, IsFor, Alive
  <1> QED BY <1>5, <1>6

\* A message is in the post queue of one thread.
LEMMA OnePostQueue ==
  ASSUME QueueInv, NEW t \in Threads, NEW u \in Threads, NEW n \in Nodes,
         n \in postQ[t], n \in postQ[u]
  PROVE  t = u
PROOF
  <1>1. /\ node[n].dst # t => node[n].dst \in Windows /\ Owner[node[n].dst] = t
        /\ node[n].dst # u => node[n].dst \in Windows /\ Owner[node[n].dst] = u
    BY DEF QueueInv, IsFor
  <1>2. Windows \cap Threads = {} BY DistinctAssumption
  <1> QED BY <1>1, <1>2

\* Every step keeps QueueInv.
LEMMA QueueStep ==
  TypeInv /\ LifeInv /\ FrameInv /\ QueueInv /\ ProcInv /\ MatchInv /\ [Next]_vars
    => QueueInv'
PROOF
  <1> SUFFICES ASSUME TypeInv, LifeInv, FrameInv, QueueInv, ProcInv, MatchInv,
                      [Next]_vars
               PROVE  QueueInv'
    OBVIOUS
  <1>a. TypeOK BY DEF TypeInv
  <1>0. CASE UNCHANGED <<info, window, node, sendQ, postQ>>
    BY <1>0 DEF QueueInv, IsFor, Alive
  <1>1. CASE UNCHANGED vars BY <1>0, <1>1 DEF vars
  <1>2. ASSUME NEW t \in Threads, NEW w \in Windows, NEW n \in Nodes,
               MSQ_SendMessage(t, w, n)
        PROVE  QueueInv'
    <2>1. Entered(t, "send", w) /\ MSQ_InsertSendMsg(Owner[w], n, "SEND", t, w)
          /\ n \in FreeNodes /\ UNCHANGED <<info, window, postQ>>
      BY <1>2 DEF MSQ_SendMessage
    <2>2. Alive(w) /\ Owner[w] \in info BY <1>a, <2>1, EnteredWindow DEF AllCalls
    <2> QED BY <1>a, <2>1, <2>2, QueueSend
  <1>3. ASSUME NEW t \in Threads, NEW w \in Windows, NEW n \in Nodes,
               MSQ_SendNotifyMessage(t, w, n)
        PROVE  QueueInv'
    <2>1. Entered(t, "notify", w) /\ MSQ_InsertSendMsg(Owner[w], n, "NOTIFY", t, w)
          /\ n \in FreeNodes /\ UNCHANGED <<info, window, postQ>>
      BY <1>3 DEF MSQ_SendNotifyMessage
    <2>2. Alive(w) /\ Owner[w] \in info BY <1>a, <2>1, EnteredWindow DEF AllCalls
    <2> QED BY <1>a, <2>1, <2>2, QueueSend
  <1>4. ASSUME NEW t \in Threads, NEW w \in Windows, NEW n \in Nodes,
               MSQ_PostMessage(t, w, n)
        PROVE  QueueInv'
    <2>1. Entered(t, "post", w) /\ MSQ_InsertPostMsg(Owner[w], n, t, w)
          /\ n \in FreeNodes /\ UNCHANGED <<info, window, sendQ>>
      BY <1>4 DEF MSQ_PostMessage
    <2>2. Alive(w) /\ Owner[w] \in info BY <1>a, <2>1, EnteredWindow DEF AllCalls
    <2>3. Owner[w] \in Threads BY OwnerAssumption
    <2> QED BY <1>a, <2>1, <2>2, <2>3, QueuePost
  <1>5. ASSUME NEW t \in Threads, NEW u \in Threads, NEW n \in Nodes,
               MSQ_PostThreadMessage(t, u, n)
        PROVE  QueueInv'
    <2>1. u \in info /\ MSQ_InsertPostMsg(u, n, t, u) /\ n \in FreeNodes
          /\ UNCHANGED <<info, window, sendQ>>
      BY <1>5 DEF MSQ_PostThreadMessage
    <2> QED BY <1>a, <2>1, QueuePost
  <1>6. ASSUME NEW t \in Threads, NEW n \in Nodes, HandleSendMsg(t, n)
        PROVE  QueueInv'
    <2>1. /\ \A v \in Threads, m \in Nodes : m \in sendQ'[v] => m \in sendQ[v]
          /\ UNCHANGED node
      BY <1>a, <1>6, HandleEffect
    <2>2. UNCHANGED <<info, window, postQ>> BY <1>6 DEF HandleSendMsg
    <2>3. \A v \in Threads, m \in Nodes : m \in sendQ[v] \cup postQ[v] => v \in info
      BY DEF QueueInv
    <2> QED BY <2>1, <2>2, <2>3, QueueKept DEF Alive
  <1>7. ASSUME NEW t \in Threads, NEW n \in Nodes, MSQ_GetPostMsg(t, n)
        PROVE  QueueInv'
    <2>1. /\ n \in postQ[t]
          /\ postQ'[t] = postQ[t] \ {n}
          /\ \A v \in Threads : v # t => postQ'[v] = postQ[v]
          /\ \A m \in Nodes : m # n => node'[m] = node[m]
          /\ UNCHANGED sendQ
      BY <1>a, <1>7, GetPostEffect
    <2>2. UNCHANGED <<info, window>> BY <1>7 DEF MSQ_GetPostMsg
    <2>3. \A v \in Threads : n \notin postQ'[v] /\ n \notin sendQ[v]
      <3>1. node[n].type = "POST" BY <2>1 DEF QueueInv
      <3>2. \A v \in Threads : n \notin sendQ[v] BY <3>1 DEF QueueInv
      <3>3. \A v \in Threads : n \notin postQ'[v] BY <2>1, OnePostQueue
      <3> QED BY <3>2, <3>3
    <2>4. \A v \in Threads, m \in Nodes : m \in sendQ[v] \cup postQ[v] => v \in info
      BY DEF QueueInv
    <2> QED BY <2>1, <2>2, <2>3, <2>4, QueueKept DEF Alive
  <1>8. ASSUME NEW t \in Threads, MSQ_ReplyMessage(t) PROVE QueueInv'
    <2>1. PICK n \in Nodes :
            /\ Proc(t, 1, n)
            /\ \A m \in Nodes : m # n => node'[m] = node[m]
            /\ UNCHANGED <<sendQ, postQ>>
      BY <1>8, ReplyEffect
    <2>2. UNCHANGED <<info, window>> BY <1>8 DEF MSQ_ReplyMessage
    <2>3. \A v \in Threads : n \notin sendQ[v] /\ n \notin postQ[v]
      BY <2>1 DEF ProcInv, QueueInv, IsFor
    <2>4. \A v \in Threads, m \in Nodes : m \in sendQ[v] \cup postQ[v] => v \in info
      BY DEF QueueInv
    <2> QED BY <2>1, <2>2, <2>3, <2>4, QueueKept DEF Alive
  <1>9. ASSUME NEW t \in Threads, TakeReply(t) PROVE QueueInv'
    <2>1. PICK n \in Nodes :
            /\ node[n].type = "REPLY"
            /\ \A m \in Nodes : m # n => node'[m] = node[m]
            /\ UNCHANGED <<sendQ, postQ>>
      BY <1>9, TakeEffect
    <2>2. UNCHANGED <<info, window>> BY <1>9 DEF TakeReply
    <2>3. \A v \in Threads : n \notin sendQ[v] /\ n \notin postQ[v]
      BY <2>1 DEF QueueInv
    <2>4. \A v \in Threads, m \in Nodes : m \in sendQ[v] \cup postQ[v] => v \in info
      BY DEF QueueInv
    <2> QED BY <2>1, <2>2, <2>3, <2>4, QueueKept DEF Alive
  <1>10. ASSUME NEW t \in Threads, DestroyAWindow(t) PROVE QueueInv'
    <2>1. PICK w \in Windows :
            /\ Owner[w] = t
            /\ window' = [window EXCEPT ![w] = "gone"]
            /\ \A n \in Nodes :
                 n \notin sendQ[t] \cup postQ[t] \/ node[n].dst # w =>
                   node'[n] = node[n]
            /\ sendQ'[t] = {n \in sendQ[t] : node[n].dst # w}
            /\ postQ'[t] = {n \in postQ[t] : node[n].dst # w}
            /\ \A u \in Threads : u # t => sendQ'[u] = sendQ[u] /\ postQ'[u] = postQ[u]
            /\ UNCHANGED info
      BY <1>10, DestroyEffect
    <2>2. Windows \cap Threads = {} BY DistinctAssumption
    <2>3. ASSUME NEW u \in Threads, NEW n \in Nodes, n \in sendQ'[u] \cup postQ'[u]
          PROVE  /\ node[n].dst # w
                 /\ n \in sendQ'[u] => n \in sendQ[u]
                 /\ n \in postQ'[u] => n \in postQ[u]
                 /\ u \in info
      <3>1. CASE u = t BY <2>1, <2>3, <3>1 DEF QueueInv
      <3>2. CASE u # t BY <2>1, <2>2, <2>3, <3>2 DEF QueueInv, IsFor
      <3> QED BY <3>1, <3>2
    <2>4. \A v \in Windows : v # w => window'[v] = window[v]
      BY <1>a, <2>1 DEF TypeOK
    <2> QED BY <2>1, <2>3, <2>4, QueueKept DEF Alive
  <1>11. ASSUME NEW t \in Threads, NEW w \in Windows,
                CreateWindow(t, w) \/ WND_Destroy(t, w)
         PROVE  QueueInv'
    <2>1. /\ window'[w] \in {"live", "destroying"}
          /\ \A v \in Windows : v # w => window'[v] = window[v]
          /\ info \subseteq info'
          /\ UNCHANGED <<node, sendQ, postQ>>
      BY <1>a, <1>11 DEF CreateWindow, WND_Destroy, TypeOK
    <2>2. \A v \in Threads, m \in Nodes : m \in sendQ[v] \cup postQ[v] => v \in info
      BY DEF QueueInv
    <2> QED BY <2>1, <2>2, QueueKept DEF Alive
  <1>12. ASSUME NEW t \in Threads, THREADINFO_Destroy(t) PROVE QueueInv'
    <2>1. sendQ[t] = {} BY <1>12, ExitClean
    <2>2. /\ info' = info \ {t} /\ postQ'[t] = {}
          /\ \A u \in Threads : u # t => postQ'[u] = postQ[u]
          /\ UNCHANGED <<window, node, sendQ>>
      BY <1>a, <1>12 DEF THREADINFO_Destroy, TypeOK
    <2>3. \A v \in Threads, m \in Nodes : m \in sendQ[v] \cup postQ[v] => v \in info
      BY DEF QueueInv
    <2> QED BY <2>1, <2>2, <2>3, QueueKept DEF Alive
  <1>13. ASSUME NEW t \in Threads,
                \/ GetMessage(t) \/ PeekMessage(t) \/ PostQuitMessage(t)
                \/ GetMsgObjFails(t) \/ PeekNothing(t) \/ Block(t) \/ Unblock(t)
                \/ WS_ThreadExit(t) \/ QuitInNestedLoop(t)
         PROVE  QueueInv'
    BY <1>0, <1>13
    DEF GetMessage, PeekMessage, PostQuitMessage, GetMsgObjFails, PeekNothing,
        Block, Unblock, WS_ThreadExit, QuitInNestedLoop
  <1>14. ASSUME NEW t \in Threads, NEW w \in Windows,
                \/ EnterWithGoneWindow(t, w)
                \/ \E op \in Calls : LookUp(t, op, w)
         PROVE  QueueInv'
    BY <1>0, <1>14 DEF EnterWithGoneWindow, LookUp
  <1> QED
    BY <1>1, <1>2, <1>3, <1>4, <1>5, <1>6, <1>7, <1>8, <1>9, <1>10, <1>11, <1>12,
       <1>13, <1>14
    DEF Next, Kernel, Application, DestroyWindow, WND_DestroyWindowsByThreadId
-----------------------------------------------------------------------------
(* The flags.                                                              *)

\* A step changes them for one thread.
LEMMA FlagsKept ==
  ASSUME FlagsMatchQueues, NEW t \in Threads,
         \A u \in Threads : u # t =>
           dwState'[u] = dwState[u] /\ sendQ'[u] = sendQ[u] /\ postQ'[u] = postQ[u],
         "QS_SENDMESSAGE" \in dwState'[t] <=> sendQ'[t] # {},
         "QS_POSTMESSAGE" \in dwState'[t] <=> postQ'[t] # {}
  PROVE  FlagsMatchQueues'
PROOF
  <1> SUFFICES ASSUME NEW u \in Threads
               PROVE  /\ "QS_SENDMESSAGE" \in dwState'[u] <=> sendQ'[u] # {}
                      /\ "QS_POSTMESSAGE" \in dwState'[u] <=> postQ'[u] # {}
    BY DEF FlagsMatchQueues
  <1>1. CASE u = t BY <1>1
  <1>2. CASE u # t BY <1>2 DEF FlagsMatchQueues
  <1> QED BY <1>1, <1>2

\* Every step keeps the flags and the queues together.
LEMMA FlagStep ==
  TypeInv /\ FrameInv /\ QueueInv /\ MatchInv /\ FlagsMatchQueues /\ [Next]_vars
    => FlagsMatchQueues'
PROOF
  <1> SUFFICES ASSUME TypeInv, FrameInv, QueueInv, MatchInv, FlagsMatchQueues,
                      [Next]_vars
               PROVE  FlagsMatchQueues'
    OBVIOUS
  <1>a. TypeOK BY DEF TypeInv
  <1>b. \A u \in Threads : /\ "QS_SENDMESSAGE" \in dwState[u] <=> sendQ[u] # {}
                           /\ "QS_POSTMESSAGE" \in dwState[u] <=> postQ[u] # {}
    BY DEF FlagsMatchQueues
  <1>0. CASE UNCHANGED <<dwState, sendQ, postQ>> BY <1>0 DEF FlagsMatchQueues
  <1>1. CASE UNCHANGED vars BY <1>0, <1>1 DEF vars
  <1>2. ASSUME NEW t \in Threads, NEW w \in Windows, NEW n \in Nodes,
               MSQ_SendMessage(t, w, n) \/ MSQ_SendNotifyMessage(t, w, n)
        PROVE  FlagsMatchQueues'
    <2>1. PICK u \in Threads :
            /\ sendQ' = [sendQ EXCEPT ![u] = @ \cup {n}]
            /\ dwState' = [dwState EXCEPT ![u] = @ \cup {"QS_SENDMESSAGE"}]
            /\ postQ' = postQ
      BY <1>2, OwnerAssumption
      DEF MSQ_SendMessage, MSQ_SendNotifyMessage, MSQ_InsertSendMsg
    <2>2. /\ \A v \in Threads : v # u =>
               dwState'[v] = dwState[v] /\ sendQ'[v] = sendQ[v] /\ postQ'[v] = postQ[v]
          /\ dwState'[u] = dwState[u] \cup {"QS_SENDMESSAGE"}
          /\ sendQ'[u] = sendQ[u] \cup {n} /\ postQ'[u] = postQ[u]
      BY <1>a, <2>1 DEF TypeOK
    <2> QED BY <1>b, <2>2, FlagsKept
  <1>3. ASSUME NEW t \in Threads, NEW n \in Nodes,
               \/ \E w \in Windows : MSQ_PostMessage(t, w, n)
               \/ \E u \in Threads : MSQ_PostThreadMessage(t, u, n)
        PROVE  FlagsMatchQueues'
    <2>1. PICK u \in Threads :
            /\ postQ' = [postQ EXCEPT ![u] = @ \cup {n}]
            /\ dwState' = [dwState EXCEPT ![u] = @ \cup {"QS_POSTMESSAGE"}]
            /\ sendQ' = sendQ
      BY <1>3, OwnerAssumption
      DEF MSQ_PostMessage, MSQ_PostThreadMessage, MSQ_InsertPostMsg
    <2>2. /\ \A v \in Threads : v # u =>
               dwState'[v] = dwState[v] /\ sendQ'[v] = sendQ[v] /\ postQ'[v] = postQ[v]
          /\ dwState'[u] = dwState[u] \cup {"QS_POSTMESSAGE"}
          /\ postQ'[u] = postQ[u] \cup {n} /\ sendQ'[u] = sendQ[u]
      BY <1>a, <2>1 DEF TypeOK
    <2> QED BY <1>b, <2>2, FlagsKept
  <1>4. ASSUME NEW t \in Threads, NEW n \in Nodes, HandleSendMsg(t, n)
        PROVE  FlagsMatchQueues'
    <2>1. /\ \A v \in Threads : v # t =>
               dwState'[v] = dwState[v] /\ sendQ'[v] = sendQ[v] /\ postQ'[v] = postQ[v]
          /\ dwState'[t] = IF sendQ[t] = {n} THEN dwState[t] \ {"QS_SENDMESSAGE"}
                                             ELSE dwState[t]
          /\ sendQ'[t] = sendQ[t] \ {n} /\ postQ'[t] = postQ[t]
          /\ n \in sendQ[t]
      BY <1>a, <1>4 DEF HandleSendMsg, MSQ_GetSendMsg, First, TypeOK
    <2>2. sendQ'[t] # {} <=> sendQ[t] # {n} BY <2>1
    <2> QED BY <1>b, <2>1, <2>2, FlagsKept
  <1>5. ASSUME NEW t \in Threads, NEW n \in Nodes, MSQ_GetPostMsg(t, n)
        PROVE  FlagsMatchQueues'
    <2>1. /\ \A v \in Threads : v # t =>
               dwState'[v] = dwState[v] /\ sendQ'[v] = sendQ[v] /\ postQ'[v] = postQ[v]
          /\ dwState'[t] = IF postQ[t] = {n} THEN dwState[t] \ {"QS_POSTMESSAGE"}
                                             ELSE dwState[t]
          /\ postQ'[t] = postQ[t] \ {n} /\ sendQ'[t] = sendQ[t]
          /\ n \in postQ[t]
      BY <1>a, <1>5 DEF MSQ_GetPostMsg, First, TypeOK
    <2>2. postQ'[t] # {} <=> postQ[t] # {n} BY <2>1
    <2> QED BY <1>b, <2>1, <2>2, FlagsKept
  <1>6. ASSUME NEW t \in Threads, DestroyAWindow(t) PROVE FlagsMatchQueues'
    <2> DEFINE sent == QueuedFor(Top(t).arg, sendQ[t])
               posted == QueuedFor(Top(t).arg, postQ[t])
               off == {f \in {"QS_SENDMESSAGE"} : sent = sendQ[t]}
                      \cup {f \in {"QS_POSTMESSAGE"} : posted = postQ[t]}
    <2>1. /\ \A v \in Threads : v # t =>
               dwState'[v] = dwState[v] /\ sendQ'[v] = sendQ[v] /\ postQ'[v] = postQ[v]
          /\ dwState'[t] = dwState[t] \ off
          /\ sendQ'[t] = sendQ[t] \ sent
          /\ postQ'[t] = postQ[t] \ posted
      BY <1>a, <1>6 DEF DestroyAWindow, TypeOK
    <2>2. /\ "QS_SENDMESSAGE" \in off <=> sent = sendQ[t]
          /\ "QS_POSTMESSAGE" \in off <=> posted = postQ[t]
      OBVIOUS
    <2>3. sent \subseteq sendQ[t] /\ posted \subseteq postQ[t] BY DEF QueuedFor
    <2> HIDE DEF sent, posted, off
    <2>4. /\ sendQ'[t] = {} <=> sent = sendQ[t]
          /\ postQ'[t] = {} <=> posted = postQ[t]
      BY <2>1, <2>3
    <2>5. /\ sendQ'[t] # {} => sendQ[t] # {}
          /\ postQ'[t] # {} => postQ[t] # {}
      BY <2>1
    <2>6. /\ "QS_SENDMESSAGE" \in dwState'[t] <=> sendQ'[t] # {}
          /\ "QS_POSTMESSAGE" \in dwState'[t] <=> postQ'[t] # {}
      BY <1>b, <2>1, <2>2, <2>4, <2>5
    <2> QED BY <2>1, <2>6, FlagsKept
  <1>7. ASSUME NEW t \in Threads, PostQuitMessage(t) PROVE FlagsMatchQueues'
    <2>1. /\ \A v \in Threads : v # t => dwState'[v] = dwState[v]
          /\ dwState'[t] = dwState[t] \cup {"QS_QUIT"}
          /\ UNCHANGED <<sendQ, postQ>>
      BY <1>a, <1>7 DEF PostQuitMessage, TypeOK
    <2> QED BY <1>b, <2>1, FlagsKept
  <1>8. ASSUME NEW t \in Threads, WS_ThreadExit(t) PROVE FlagsMatchQueues'
    <2>1. /\ \A v \in Threads : v # t => dwState'[v] = dwState[v]
          /\ dwState[t] = {"QS_QUIT"} /\ dwState'[t] = {}
          /\ UNCHANGED <<sendQ, postQ>>
      BY <1>a, <1>8 DEF WS_ThreadExit, Quits, TypeOK
    <2>2. sendQ[t] = {} /\ postQ[t] = {} BY <1>b, <2>1
    <2> QED BY <2>1, <2>2, FlagsKept
  <1>9. ASSUME NEW t \in Threads, THREADINFO_Destroy(t) PROVE FlagsMatchQueues'
    <2>1. sendQ[t] = {} BY <1>9, ExitClean
    <2>2. /\ \A v \in Threads : v # t =>
               dwState'[v] = dwState[v] /\ postQ'[v] = postQ[v]
          /\ postQ'[t] = {} /\ dwState'[t] = {} /\ UNCHANGED sendQ
      BY <1>a, <1>9 DEF THREADINFO_Destroy, TypeOK
    <2> QED BY <2>1, <2>2, FlagsKept
  <1>10. ASSUME NEW t \in Threads,
                \/ GetMessage(t) \/ PeekMessage(t) \/ MSQ_ReplyMessage(t)
                \/ TakeReply(t) \/ GetMsgObjFails(t) \/ PeekNothing(t)
                \/ Block(t) \/ Unblock(t) \/ QuitInNestedLoop(t)
         PROVE  FlagsMatchQueues'
    BY <1>0, <1>10
    DEF GetMessage, PeekMessage, MSQ_ReplyMessage, TakeReply, GetMsgObjFails,
        PeekNothing, Block, Unblock, QuitInNestedLoop
  <1>11. ASSUME NEW t \in Threads, NEW w \in Windows,
                \/ EnterWithGoneWindow(t, w) \/ CreateWindow(t, w)
                \/ WND_Destroy(t, w) \/ \E op \in Calls : LookUp(t, op, w)
         PROVE  FlagsMatchQueues'
    BY <1>0, <1>11 DEF EnterWithGoneWindow, CreateWindow, WND_Destroy, LookUp
  <1> QED
    BY <1>1, <1>2, <1>3, <1>4, <1>5, <1>6, <1>7, <1>8, <1>9, <1>10, <1>11
    DEF Next, Kernel, Application, DestroyWindow, WND_DestroyWindowsByThreadId
-----------------------------------------------------------------------------
(* Who sleeps has nothing to do.                                           *)

\* A thread that runs has not marked itself as blocked.
LEMMA AwakeUnmarked ==
  ASSUME TypeInv, BlockInv, NEW t \in Threads,
         \/ Running(t) \/ ~blocked[t] \/ call[t] # NULL
  PROVE  bBlock[t] = "NO"
PROOF
  <1>1. bBlock[t] \in {"NO", "INGETMESSAGE", "INSENDMESSAGE"}
    BY DEF TypeInv, TypeOK
  <1> QED BY <1>1 DEF BlockInv, OneWakeup, Running

\* The marks that Wake(S) leaves are those of the threads outside S.
LEMMA WakeMarks ==
  ASSUME NEW S, Wake(S), NEW u \in Threads, bBlock'[u] # "NO"
  PROVE  u \notin S /\ bBlock'[u] = bBlock[u]
  BY DEF Wake

\* SleepInv holds on if the threads that stay marked get no work.
LEMMA SleepKept ==
  ASSUME SleepInv,
         \A u \in Threads : bBlock'[u] # "NO" =>
           /\ bBlock'[u] = bBlock[u]
           /\ sendQ'[u] \subseteq sendQ[u]
           /\ bBlock[u] = "INGETMESSAGE" => dwState'[u] \subseteq dwState[u]
           /\ bBlock[u] = "INSENDMESSAGE" =>
                /\ replies'[u] = replies[u]
                /\ replies[u] # <<>> /\ node'[Head(replies[u])].type = "REPLY" =>
                     node[Head(replies[u])].type = "REPLY"
  PROVE  SleepInv'
PROOF
  <1> SUFFICES ASSUME NEW u \in Threads, bBlock'[u] # "NO"
               PROVE  /\ sendQ'[u] = {}
                      /\ bBlock'[u] = "INGETMESSAGE" => dwState'[u] = {}
                      /\ bBlock'[u] = "INSENDMESSAGE" =>
                           ~(/\ replies'[u] # <<>>
                             /\ node'[Head(replies'[u])].type = "REPLY")
    BY DEF SleepInv, ReplyReady
  <1>1. sendQ[u] = {} /\ sendQ'[u] = {} BY DEF SleepInv
  <1>2. bBlock'[u] = "INGETMESSAGE" => dwState'[u] = {} BY DEF SleepInv
  <1>3. CASE bBlock'[u] = "INSENDMESSAGE"
    <2>1. bBlock[u] = "INSENDMESSAGE" /\ replies'[u] = replies[u] BY <1>3
    <2>2. ~(replies[u] # <<>> /\ node[Head(replies[u])].type = "REPLY")
      BY <2>1 DEF SleepInv, ReplyReady
    <2> QED BY <1>1, <1>2, <2>1, <2>2
  <1> QED BY <1>1, <1>2, <1>3

\* Answers wake the thread that waits for them: the top of its reply stack is
\* a message of its own.
LEMMA WaiterWoken ==
  ASSUME TypeInv, LifeInv, MatchInv, StackInv, NEW u \in Threads,
         bBlock[u] = "INSENDMESSAGE", replies[u] # <<>>
  PROVE  /\ Head(replies[u]) \in Nodes
         /\ node[Head(replies[u])].src = u
         /\ \A S : Head(replies[u]) \in S => u \in WaitersFor(S)
PROOF
  <1>1. replies[u] \in Seq(Nodes) BY DEF TypeInv, TypeOK
  <1>2. /\ Len(replies[u]) >= 1 /\ replies[u][1] \in Nodes
        /\ Head(replies[u]) = replies[u][1]
    BY <1>1, PopSeq
  <1>3. Reply(u, 1, Head(replies[u])) BY <1>1, <1>2 DEF Reply
  <1>4. node[Head(replies[u])].src = u
    <2> DEFINE n == Head(replies[u])
    <2>1. n \in Nodes /\ Reply(u, 1, n) BY <1>2, <1>3
    <2> HIDE DEF n
    <2>2. node[n].src = u BY <2>1 DEF StackInv
    <2> QED BY <2>2 DEF n
  <1>5. u \in info BY <1>2, <1>3, WaiterAlive
  <1> QED BY <1>2, <1>4, <1>5 DEF WaitersFor, ISBLOCKINSEND
\* Every step keeps SleepInv: whoever gives work to a marked thread, by an
\* insertion or an answer, wakes it and takes the mark away.
LEMMA SleepStep ==
  /\ TypeInv /\ BlockInv /\ LifeInv /\ FrameInv /\ QueueInv /\ MatchInv
  /\ StackInv /\ FlagsMatchQueues /\ SleepInv /\ [Next]_vars
  => SleepInv'
PROOF
  <1> SUFFICES ASSUME TypeInv, BlockInv, LifeInv, FrameInv, QueueInv, MatchInv,
                      StackInv, FlagsMatchQueues, SleepInv, [Next]_vars
               PROVE  SleepInv'
    OBVIOUS
  <1>a. TypeOK BY DEF TypeInv
  <1>b. \A u \in Threads : bBlock[u] = "INSENDMESSAGE" /\ replies[u] # <<>> =>
          Head(replies[u]) \in Nodes
    BY WaiterWoken
  <1>0. CASE UNCHANGED <<sendQ, replies, node, dwState, bBlock>>
    BY <1>0 DEF SleepInv, ReplyReady
  <1>1. CASE UNCHANGED vars BY <1>0, <1>1 DEF vars
  <1>2. ASSUME NEW t \in Threads, NEW w \in Windows, NEW n \in Nodes,
               MSQ_SendMessage(t, w, n) \/ MSQ_SendNotifyMessage(t, w, n)
        PROVE  SleepInv'
    <2>1. call[t] # NULL
      BY <1>2, PendingCall DEF MSQ_SendMessage, MSQ_SendNotifyMessage, Entered, AllCalls
    <2>2. bBlock[t] = "NO" BY <2>1, AwakeUnmarked
    <2>3. Owner[w] \in Threads /\ t # NULL BY OwnerAssumption, DistinctAssumption
    <2>4. PICK k \in {"SEND", "NOTIFY"} : MSQ_InsertSendMsg(Owner[w], n, k, t, w)
      BY <1>2 DEF MSQ_SendMessage, MSQ_SendNotifyMessage
    <2>5. \A u \in Threads : u # t => replies'[u] = replies[u]
      BY <1>a, <1>2 DEF MSQ_SendMessage, MSQ_SendNotifyMessage, MSQ_InsertReplyMsg,
                        TypeOK
    <2>6. /\ node'[n] = [type |-> k, src |-> t, dst |-> w]
          /\ \A m \in Nodes : m # n => node'[m] = node[m]
          /\ \A v \in Threads : v # Owner[w] => sendQ'[v] = sendQ[v]
      BY <1>a, <2>3, <2>4, InsertSendEffect
    <2>7. node'[n].type # "REPLY" BY <2>6
    <2>8. \A v \in Threads : v # Owner[w] => dwState'[v] = dwState[v]
      BY <1>a, <2>4 DEF MSQ_InsertSendMsg, TypeOK
    <2>9. Wake({Owner[w]} \cap {v \in Threads : ISBLOCK(v)})
      BY <2>4 DEF MSQ_InsertSendMsg
    <2>10. ASSUME NEW u \in Threads, bBlock'[u] # "NO"
           PROVE  u # Owner[w] /\ u # t /\ bBlock'[u] = bBlock[u]
      <3>1. /\ u \notin {Owner[w]} \cap {v \in Threads : ISBLOCK(v)}
            /\ bBlock'[u] = bBlock[u]
        BY <2>9, <2>10, WakeMarks
      <3> QED BY <2>2, <2>10, <3>1 DEF ISBLOCK
    <2>11. \A m \in Nodes : node'[m].type = "REPLY" => node[m].type = "REPLY"
      BY <2>6, <2>7
    <2> QED BY <1>b, <2>5, <2>6, <2>8, <2>10, <2>11, SleepKept
  <1>3. ASSUME NEW t \in Threads, NEW n \in Nodes,
               \/ \E w \in Windows : MSQ_PostMessage(t, w, n)
               \/ \E u \in Threads : MSQ_PostThreadMessage(t, u, n)
        PROVE  SleepInv'
    <2>1. PICK u \in Threads, d \in Windows \cup Threads :
            MSQ_InsertPostMsg(u, n, t, d) /\ UNCHANGED <<sendQ, replies>>
      BY <1>3, OwnerAssumption DEF MSQ_PostMessage, MSQ_PostThreadMessage
    <2>2. /\ node'[n] = [type |-> "POST", src |-> t, dst |-> d]
          /\ \A m \in Nodes : m # n => node'[m] = node[m]
      BY <1>a, <2>1, InsertPostEffect
    <2>3. node'[n].type # "REPLY" BY <2>2
    <2>4. \A v \in Threads : v # u => dwState'[v] = dwState[v]
      BY <1>a, <2>1 DEF MSQ_InsertPostMsg, TypeOK
    <2>5. Wake({u} \cap {v \in Threads : ISBLOCKINGET(v)})
      BY <2>1 DEF MSQ_InsertPostMsg
    <2>6. ASSUME NEW v \in Threads, bBlock'[v] # "NO"
          PROVE  /\ bBlock'[v] = bBlock[v]
                 /\ bBlock[v] = "INGETMESSAGE" => v # u
      <3>1. /\ v \notin {u} \cap {x \in Threads : ISBLOCKINGET(x)}
            /\ bBlock'[v] = bBlock[v]
        BY <2>5, <2>6, WakeMarks
      <3> QED BY <3>1 DEF ISBLOCKINGET
    <2>7. \A m \in Nodes : node'[m].type = "REPLY" => node[m].type = "REPLY"
      BY <2>2, <2>3
    <2> QED BY <1>b, <2>1, <2>4, <2>6, <2>7, SleepKept
  <1>4. ASSUME NEW t \in Threads, NEW n \in Nodes, HandleSendMsg(t, n)
        PROVE  SleepInv'
    <2>1. /\ sendQ'[t] = sendQ[t] \ {n}
          /\ \A v \in Threads : v # t => sendQ'[v] = sendQ[v]
          /\ UNCHANGED <<node, replies>>
      BY <1>a, <1>4, HandleEffect
    <2>2. /\ \A v \in Threads : dwState'[v] \subseteq dwState[v]
          /\ UNCHANGED bBlock
      BY <1>a, <1>4 DEF HandleSendMsg, MSQ_GetSendMsg, TypeOK
    <2> QED BY <2>1, <2>2, SleepKept
  <1>5. ASSUME NEW t \in Threads, NEW n \in Nodes, MSQ_GetPostMsg(t, n)
        PROVE  SleepInv'
    <2>1. /\ node'[n] = Free
          /\ \A m \in Nodes : m # n => node'[m] = node[m]
          /\ UNCHANGED <<sendQ, replies>>
      BY <1>a, <1>5, GetPostEffect
    <2>2. /\ \A v \in Threads : dwState'[v] \subseteq dwState[v]
          /\ UNCHANGED bBlock
      BY <1>a, <1>5 DEF MSQ_GetPostMsg, TypeOK
    <2>3. \A m \in Nodes : node'[m].type = "REPLY" => node[m].type = "REPLY"
      BY <2>1 DEF Free
    <2> QED BY <1>b, <2>1, <2>2, <2>3, SleepKept
  <1>6. ASSUME NEW t \in Threads, MSQ_ReplyMessage(t) PROVE SleepInv'
    <2>1. PICK n \in Nodes :
            /\ n = Top(t).arg
            /\ \A m \in Nodes : m # n => node'[m] = node[m]
            /\ node[n].type = "NOTIFY" => node'[n] = Free
            /\ UNCHANGED <<sendQ, replies>>
      BY <1>6, ReplyEffect
    <2>2. UNCHANGED dwState BY <1>6 DEF MSQ_ReplyMessage
    <2>3. \/ node[n].type = "NOTIFY" /\ UNCHANGED bBlock
          \/ Wake(WaitersFor({n}) \cap {node[n].src})
      BY <1>6, <2>1 DEF MSQ_ReplyMessage
    <2>4. CASE node[n].type = "NOTIFY" /\ UNCHANGED bBlock
      <3>1. \A m \in Nodes : node'[m].type = "REPLY" => node[m].type = "REPLY"
        BY <2>1, <2>4 DEF Free
      <3> QED BY <1>b, <2>1, <2>2, <2>4, <3>1, SleepKept
    <2>5. CASE Wake(WaitersFor({n}) \cap {node[n].src})
      <3>1. ASSUME NEW u \in Threads, bBlock'[u] # "NO"
            PROVE  /\ bBlock'[u] = bBlock[u]
                   /\ bBlock[u] = "INSENDMESSAGE" /\ replies[u] # <<>> =>
                        Head(replies[u]) # n
        <4>1. /\ u \notin WaitersFor({n}) \cap {node[n].src}
              /\ bBlock'[u] = bBlock[u]
          BY <2>5, <3>1, WakeMarks
        <4> QED BY <4>1, WaiterWoken
      <3> QED BY <1>b, <2>1, <2>2, <3>1, SleepKept
    <2> QED BY <2>3, <2>4, <2>5
  <1>7. ASSUME NEW t \in Threads, TakeReply(t) PROVE SleepInv'
    <2>1. PICK n \in Nodes :
            /\ node'[n] = Free
            /\ \A m \in Nodes : m # n => node'[m] = node[m]
            /\ \A u \in Threads : u # t => replies'[u] = replies[u]
            /\ UNCHANGED sendQ
      BY <1>7, TakeEffect
    <2>2. UNCHANGED <<dwState, bBlock>> /\ ~blocked[t]
      BY <1>7 DEF TakeReply, InLoop
    <2>3. bBlock[t] = "NO" BY <2>2, AwakeUnmarked
    <2>4. \A m \in Nodes : node'[m].type = "REPLY" => node[m].type = "REPLY"
      BY <2>1 DEF Free
    <2> QED BY <1>b, <2>1, <2>2, <2>3, <2>4, SleepKept
  <1>8. ASSUME NEW t \in Threads, Block(t) PROVE SleepInv'
    <2>1. /\ \A u \in Threads : u # t => bBlock'[u] = bBlock[u]
          /\ \/ bBlock'[t] = "INGETMESSAGE" /\ dwState[t] = {}
             \/ bBlock'[t] = "INSENDMESSAGE" /\ ~ReplyReady(t) /\ sendQ[t] = {}
          /\ UNCHANGED <<sendQ, replies, node, dwState>>
      BY <1>a, <1>8 DEF Block, TypeOK
    <2>2. dwState[t] = {} => sendQ[t] = {} BY DEF FlagsMatchQueues
    <2> SUFFICES ASSUME NEW u \in Threads
                 PROVE  /\ bBlock'[u] # "NO" => sendQ[u] = {}
                        /\ bBlock'[u] = "INGETMESSAGE" => dwState[u] = {}
                        /\ bBlock'[u] = "INSENDMESSAGE" => ~ReplyReady(u)
      BY <2>1 DEF SleepInv, ReplyReady
    <2>3. CASE u = t BY <2>1, <2>2, <2>3
    <2>4. CASE u # t BY <2>1, <2>4 DEF SleepInv
    <2> QED BY <2>3, <2>4
  <1>9. ASSUME NEW t \in Threads, DestroyAWindow(t) PROVE SleepInv'
    <2> DEFINE sent == QueuedFor(Top(t).arg, sendQ[t])
               posted == QueuedFor(Top(t).arg, postQ[t])
               answered == {n \in sent : node[n].src \in info}
    <2>1. /\ \A v \in Threads : sendQ'[v] \subseteq sendQ[v]
          /\ \A v \in Threads : dwState'[v] \subseteq dwState[v]
          /\ UNCHANGED replies
      BY <1>a, <1>9 DEF DestroyAWindow, TypeOK
    <2>2. /\ node' = [n \in Nodes |->
                        IF n \in answered THEN [node[n] EXCEPT !.type = "REPLY"]
                        ELSE IF n \in sent \cup posted THEN Free
                        ELSE node[n]]
          /\ Wake(WaitersFor(answered))
      BY <1>9 DEF DestroyAWindow
    <2> HIDE DEF sent, posted, answered
    <2>3. \A n \in Nodes : n \notin answered /\ node'[n].type = "REPLY" =>
            node[n].type = "REPLY"
      BY <2>2 DEF Free
    <2>4. ASSUME NEW u \in Threads, bBlock'[u] # "NO"
          PROVE  /\ bBlock'[u] = bBlock[u]
                 /\ bBlock[u] = "INSENDMESSAGE" /\ replies[u] # <<>> =>
                      Head(replies[u]) \notin answered
      <3>1. u \notin WaitersFor(answered) /\ bBlock'[u] = bBlock[u]
        BY <2>2, <2>4, WakeMarks
      <3> QED BY <3>1, WaiterWoken
    <2> QED BY <1>b, <2>1, <2>3, <2>4, SleepKept
  <1>10. ASSUME NEW t \in Threads, PostQuitMessage(t) PROVE SleepInv'
    <2>1. Running(t) /\ UNCHANGED <<sendQ, replies, node, bBlock>>
      BY <1>10 DEF PostQuitMessage
    <2>2. \A v \in Threads : v # t => dwState'[v] = dwState[v]
      BY <1>a, <1>10 DEF PostQuitMessage, TypeOK
    <2>3. bBlock[t] = "NO" BY <2>1, AwakeUnmarked
    <2> QED BY <2>1, <2>2, <2>3, SleepKept
  <1>11. ASSUME NEW t \in Threads, WS_ThreadExit(t) \/ THREADINFO_Destroy(t)
         PROVE  SleepInv'
    <2>1. /\ UNCHANGED <<sendQ, replies, node, bBlock>>
          /\ \A v \in Threads : dwState'[v] \subseteq dwState[v]
      BY <1>a, <1>11 DEF WS_ThreadExit, THREADINFO_Destroy, TypeOK
    <2> QED BY <2>1, SleepKept
  <1>12. ASSUME NEW t \in Threads,
                \/ GetMessage(t) \/ PeekMessage(t) \/ GetMsgObjFails(t)
                \/ PeekNothing(t) \/ Unblock(t) \/ QuitInNestedLoop(t)
         PROVE  SleepInv'
    BY <1>0, <1>12
    DEF GetMessage, PeekMessage, GetMsgObjFails, PeekNothing, Unblock,
        QuitInNestedLoop
  <1>13. ASSUME NEW t \in Threads, NEW w \in Windows,
                \/ EnterWithGoneWindow(t, w) \/ CreateWindow(t, w)
                \/ WND_Destroy(t, w) \/ \E op \in Calls : LookUp(t, op, w)
         PROVE  SleepInv'
    BY <1>0, <1>13 DEF EnterWithGoneWindow, CreateWindow, WND_Destroy, LookUp
  <1> QED
    BY <1>1, <1>2, <1>3, <1>4, <1>5, <1>6, <1>7, <1>8, <1>9, <1>10, <1>11, <1>12,
       <1>13
    DEF Next, Kernel, Application, DestroyWindow, WND_DestroyWindowsByThreadId
-----------------------------------------------------------------------------
(* The invariant, and what follows from it.                                *)

\* Its parts, each with those it needs to be kept.
DeliveryInv ==
  /\ TypeInv /\ BlockInv /\ LifeInv /\ FrameInv /\ QueueInv /\ ProcInv /\ SentInv
  /\ MatchInv /\ StackInv /\ FlagsMatchQueues /\ SleepInv

\* At the start nothing is sent and every thread executes its own code.
LEMMA InitDelivery == Init => DeliveryInv
PROOF
  <1> SUFFICES ASSUME Init PROVE DeliveryInv
    OBVIOUS
  <1>1. TypeInv BY InitTypeInv
  <1>2. /\ \A t \in Threads : Len(frames[t]) = 1 /\ frames[t][1] = App
        /\ \A t \in Threads : Len(replies[t]) = 0
        /\ \A n \in Nodes : node[n] = Free
        /\ \A t \in Threads : sendQ[t] = {} /\ postQ[t] = {} /\ dwState[t] = {}
        /\ \A t \in Threads : bBlock[t] = "NO" /\ sem[t] = 0 /\ blocked[t] = FALSE
        /\ \A t \in Threads : call[t] = NULL
        /\ \A w \in Windows : window[w] = "none"
    BY DEF Init
  <1>3. App.kind = "app" /\ \A n : App # Frame("proc", n) /\ App # Frame("wait", n)
    BY DEF App, Frame
  <1>4. \A t \in Threads, i \in Int, n \in Nodes :
          ~Proc(t, i, n) /\ ~Wait(t, i, n) /\ ~Reply(t, i, n)
    BY <1>2, <1>3 DEF Proc, Wait, Reply
  <1>5. BlockInv BY DEF Init, BlockInv, OneWakeup, Top, App, Frame
  <1>6. LifeInv
    <2>1. ~(1 > 1) OBVIOUS
    <2>2. \A t \in Threads : ~(Len(frames[t]) > 1) BY <1>2, <2>1
    <2> QED BY <1>2, <2>2 DEF LifeInv, Alive
  <1>7. FrameInv BY <1>2, <1>3 DEF FrameInv
  <1>8. QueueInv BY <1>2 DEF QueueInv
  <1>9. ProcInv BY <1>4 DEF ProcInv
  <1>10. \A n \in Nodes : node[n].type = "FREE" BY <1>2 DEF Free
  <1>11. SentInv BY <1>10 DEF SentInv
  <1>12. MatchInv BY <1>4 DEF MatchInv
  <1>13. StackInv BY <1>4, <1>10 DEF StackInv
  <1>14. FlagsMatchQueues BY <1>2 DEF FlagsMatchQueues
  <1>15. SleepInv BY <1>2 DEF SleepInv
  <1> QED
    BY <1>1, <1>5, <1>6, <1>7, <1>8, <1>9, <1>11, <1>12, <1>13, <1>14, <1>15
    DEF DeliveryInv

\* Every step keeps all of it.
THEOREM DeliveryStep == DeliveryInv /\ [Next]_vars => DeliveryInv'
PROOF
  <1> SUFFICES ASSUME DeliveryInv, [Next]_vars PROVE DeliveryInv'
    OBVIOUS
  <1>1. TypeInv /\ BlockInv /\ LifeInv /\ FrameInv /\ QueueInv /\ ProcInv /\ SentInv
        /\ MatchInv /\ StackInv /\ FlagsMatchQueues /\ SleepInv
    BY DEF DeliveryInv
  <1>2. MessageStep BY <1>1, Steps
  <1>3. TypeInv' /\ BlockInv' /\ FrameInv' BY <1>1, TypeStep, BlockStep, FrameStep
  <1>4. LifeInv' BY <1>1, LifeStep
  <1>5. QueueInv' BY <1>1, QueueStep
  <1>6. ProcInv' BY <1>1, <1>2, ProcStep
  <1>7. SentInv' BY <1>1, <1>2, SentStep
  <1>8. MatchInv' BY <1>1, <1>2, MatchStep
  <1>9. StackInv' BY <1>1, <1>2, StackStep
  <1>10. FlagsMatchQueues' BY <1>1, FlagStep
  <1>11. SleepInv' BY <1>1, SleepStep
  <1> QED
    BY <1>3, <1>4, <1>5, <1>6, <1>7, <1>8, <1>9, <1>10, <1>11 DEF DeliveryInv

\* So it holds in every state.
THEOREM DeliveryCorrect == Spec => []DeliveryInv
  BY InitDelivery, DeliveryStep, PTL DEF Spec

\* The flags GetMessage decides on say exactly which queues have messages
\* (QS_SENDMESSAGE and QS_POSTMESSAGE in dwState).
THEOREM FlagsCorrect == Spec => []FlagsMatchQueues
PROOF
  <1>1. DeliveryInv => FlagsMatchQueues BY DEF DeliveryInv
  <1> QED BY <1>1, DeliveryCorrect, PTL

\* A thread that sleeps on its semaphore has no message to serve and no reply to
\* take, whatever the order of its blocking sequence and of its wakers.
THEOREM NoWakeupLost == Spec => []NoLostWakeup
PROOF
  <1>1. ASSUME DeliveryInv PROVE NoLostWakeup
    <2> SUFFICES ASSUME NEW t \in Threads, blocked[t], sem[t] = 0
                 PROVE  /\ sendQ[t] = {}
                        /\ Top(t).kind = "get" => dwState[t] = {}
                        /\ Top(t).kind = "wait" => ~ReplyReady(t)
      BY DEF NoLostWakeup
    <2>1. bBlock[t] # "NO" BY <1>1 DEF DeliveryInv, BlockInv, OneWakeup
    <2>2. /\ bBlock[t] \in {"NO", "INGETMESSAGE", "INSENDMESSAGE"}
          /\ bBlock[t] = "INGETMESSAGE" => Top(t).kind = "get"
          /\ bBlock[t] = "INSENDMESSAGE" => Top(t).kind = "wait"
      BY <1>1 DEF DeliveryInv, TypeInv, TypeOK, BlockInv
    <2>3. SleepInv BY <1>1 DEF DeliveryInv
    <2> QED BY <2>1, <2>2, <2>3 DEF SleepInv
  <1> QED BY <1>1, DeliveryCorrect, PTL

\* A queued message is for a window of the thread whose queue it is in, and both
\* are still there.
THEOREM QueuesCorrect == Spec => []QueuedForLiveWindow
PROOF
  <1>1. ASSUME DeliveryInv PROVE QueuedForLiveWindow
    <2> SUFFICES ASSUME NEW t \in Threads, NEW n \in Nodes, n \in sendQ[t] \cup postQ[t]
                 PROVE  /\ t \in info
                        /\ node[n].dst \in Windows => /\ Owner[node[n].dst] = t
                                                      /\ window[node[n].dst] # "gone"
      BY <1>1 DEF QueuedForLiveWindow, DeliveryInv, TypeInv, TypeOK
    <2>1. Windows \cap Threads = {} BY DistinctAssumption
    <2>2. QueueInv BY <1>1 DEF DeliveryInv
    <2> QED BY <2>1, <2>2 DEF QueueInv, IsFor, Alive
  <1> QED BY <1>1, DeliveryCorrect, PTL

\* The reply stack of a thread is the stack of its waits, entry by entry.
THEOREM RepliesCorrect == Spec => []RepliesMatchWaits
PROOF
  <1>1. ASSUME DeliveryInv PROVE RepliesMatchWaits
    <2>a. TypeOK /\ FrameInv /\ MatchInv BY <1>1 DEF DeliveryInv, TypeInv
    <2> SUFFICES ASSUME NEW t \in Threads
                 PROVE
        /\ \A k, l \in DOMAIN replies[t] : replies[t][k] = replies[t][l] => k = l
        /\ \A k \in DOMAIN replies[t] : Waits(t, replies[t][k])
        /\ \A i \in WaitsAt(t) :
             \E k \in DOMAIN replies[t] : replies[t][k] = frames[t][i].arg
        /\ \A i, j \in WaitsAt(t), k, l \in DOMAIN replies[t] :
             /\ replies[t][k] = frames[t][i].arg
             /\ replies[t][l] = frames[t][j].arg
             => (i < j <=> k < l)
      BY DEF RepliesMatchWaits
    <2>1. ASSUME NEW k \in DOMAIN replies[t]
          PROVE  replies[t][k] \in Nodes /\ Reply(t, k, replies[t][k]) /\ k \in Int
      BY <2>a DEF TypeOK, Reply
    <2>2. ASSUME NEW i \in WaitsAt(t)
          PROVE  frames[t][i].arg \in Nodes /\ Wait(t, i, frames[t][i].arg) /\ i \in Int
      <3>1. /\ i \in 1 .. Len(frames[t]) /\ frames[t][i] \in Frames
            /\ frames[t][i].kind = "wait"
        BY <2>a DEF WaitsAt, TypeOK
      <3>2. frames[t][i].arg \in Nodes BY <2>a, <3>1 DEF FrameInv
      <3>3. frames[t][i] = Frame("wait", frames[t][i].arg)
        BY <3>1 DEF Frames, Frame
      <3>4. i \in Int BY <2>a, <3>1 DEF TypeOK
      <3> QED BY <3>1, <3>2, <3>3, <3>4 DEF Wait
    <2>3. ASSUME NEW i \in Int, NEW n \in Nodes, Wait(t, i, n)
          PROVE  i \in WaitsAt(t) /\ frames[t][i].arg = n
      BY <2>a, <2>3 DEF Wait, WaitsAt, Frame, TypeOK
    <2>4. ASSUME NEW k \in Int, NEW n \in Nodes, Reply(t, k, n)
          PROVE  k \in DOMAIN replies[t] /\ replies[t][k] = n
      BY <2>a, <2>4 DEF Reply, TypeOK
    <2>5. \A k, l \in DOMAIN replies[t] : replies[t][k] = replies[t][l] => k = l
      BY <2>a, <2>1 DEF MatchInv
    <2>6. ASSUME NEW k \in DOMAIN replies[t] PROVE Waits(t, replies[t][k])
      <3>1. PICK i \in Int : Wait(t, i, replies[t][k]) BY <2>a, <2>1 DEF MatchInv
      <3> QED BY <2>1, <2>3, <3>1 DEF Waits
    <2>7. ASSUME NEW i \in WaitsAt(t)
          PROVE  \E k \in DOMAIN replies[t] : replies[t][k] = frames[t][i].arg
      <3>1. PICK k \in Int : Reply(t, k, frames[t][i].arg)
        BY <2>a, <2>2 DEF MatchInv
      <3> QED BY <2>2, <2>4, <3>1
    <2>8. ASSUME NEW i \in WaitsAt(t), NEW j \in WaitsAt(t),
                 NEW k \in DOMAIN replies[t], NEW l \in DOMAIN replies[t],
                 replies[t][k] = frames[t][i].arg,
                 replies[t][l] = frames[t][j].arg
          PROVE  i < j <=> k < l
      <3> DEFINE n == frames[t][i].arg
                 m == frames[t][j].arg
      <3>1. /\ i \in Int /\ j \in Int /\ k \in Int /\ l \in Int
            /\ n \in Nodes /\ m \in Nodes
            /\ Wait(t, i, n) /\ Wait(t, j, m) /\ Reply(t, k, n) /\ Reply(t, l, m)
        BY <2>1, <2>2, <2>8
      <3> HIDE DEF n, m
      <3> QED BY <2>a, <3>1 DEF MatchInv
    <2> QED BY <2>5, <2>6, <2>7, <2>8
  <1> QED BY <1>1, DeliveryCorrect, PTL
\* The holders of a message, one by one.
LEMMA HoldersAre ==
  ASSUME TypeOK, NEW n \in Nodes
  PROVE  \A x : x \in Holders(n) <=>
           \/ \E t \in Threads : n \in sendQ[t] \cup postQ[t] /\ x = <<t, 0>>
           \/ \E t \in Threads, i \in Int : Proc(t, i, n) /\ x = <<t, i>>
PROOF
  <1>1. \A t \in Threads : \A i : i \in ProcsOf(t, n) <=> i \in Int /\ Proc(t, i, n)
    BY DEF ProcsOf, Proc, TypeOK
  <1>2. \A x : x \in Holders(n) <=>
           \/ \E t \in Threads : n \in sendQ[t] \cup postQ[t] /\ x = <<t, 0>>
           \/ \E t \in Threads : \E i \in ProcsOf(t, n) : x = <<t, i>>
    BY DEF Holders
  <1> QED BY <1>1, <1>2

\* A message that was sent and not answered is in one queue or one window
\* procedure, and its sender waits for it; an answered or free node is nowhere.
THEOREM HolderUnique == Spec => []HeldOnce
PROOF
  <1>1. ASSUME DeliveryInv PROVE HeldOnce
    <2>a. /\ TypeOK /\ FrameInv /\ QueueInv /\ ProcInv /\ SentInv /\ MatchInv
          /\ StackInv
      BY <1>1 DEF DeliveryInv, TypeInv
    <2> SUFFICES ASSUME NEW n \in Nodes
                 PROVE
        /\ node[n].type \in {"SEND", "NOTIFY"} => Cardinality(Holders(n)) = 1
        /\ node[n].type \in {"REPLY", "FREE"} => Holders(n) = {}
        /\ node[n].type = "SEND" => Waits(node[n].src, n)
        /\ node[n].type = "FREE" =>
             \A t \in Threads : \A i \in DOMAIN replies[t] : replies[t][i] # n
      BY DEF HeldOnce
    <2>1. ASSUME node[n].type \in {"SEND", "NOTIFY"}
          PROVE  Cardinality(Holders(n)) = 1
      <3>1. PICK u \in Threads : IsFor(n, u) /\ InHand(u, n)
        BY <2>a, <2>1 DEF SentInv
      <3>2. ASSUME NEW t \in Threads, n \in sendQ[t] \cup postQ[t]
            PROVE  t = u /\ n \in sendQ[u]
        <4>1. n \notin postQ[t] BY <2>a, <2>1 DEF QueueInv
        <4>2. IsFor(n, t) BY <2>a, <3>2, <4>1 DEF QueueInv
        <4> QED BY <3>1, <3>2, <4>1, <4>2 DEF IsFor
      <3>3. ASSUME NEW t \in Threads, NEW i \in Int, Proc(t, i, n)
            PROVE  t = u /\ n \notin sendQ[u]
        <4>1. IsFor(n, t) /\ n \notin sendQ[t] BY <2>a, <3>3 DEF ProcInv
        <4> QED BY <3>1, <4>1 DEF IsFor
      <3>4. CASE n \in sendQ[u]
        <4>1. Holders(n) = {<<u, 0>>} BY <2>a, <3>2, <3>3, <3>4, HoldersAre
        <4> QED BY <4>1, FS_Singleton
      <3>5. ASSUME NEW i \in Int, Proc(u, i, n)
            PROVE  Cardinality(Holders(n)) = 1
        <4>1. \A j \in Int : Proc(u, j, n) => j = i BY <2>a, <3>5 DEF ProcInv
        <4>2. n \notin sendQ[u] BY <3>3, <3>5
        <4>3. Holders(n) = {<<u, i>>}
          BY <2>a, <3>2, <3>3, <3>5, <4>1, <4>2, HoldersAre
        <4> QED BY <4>3, FS_Singleton
      <3> QED BY <3>1, <3>4, <3>5 DEF InHand
    <2>2. ASSUME node[n].type \in {"REPLY", "FREE"} PROVE Holders(n) = {}
      <3>1. \A t \in Threads : n \notin sendQ[t] \cup postQ[t]
        BY <2>a, <2>2 DEF QueueInv
      <3>2. \A t \in Threads, i \in Int : ~Proc(t, i, n) BY <2>a, <2>2 DEF ProcInv
      <3> QED BY <2>a, <3>1, <3>2, HoldersAre
    <2>3. ASSUME node[n].type = "SEND" PROVE Waits(node[n].src, n)
      <3>1. node[n].src \in Threads BY <2>a, <2>3 DEF TypeOK, NodeRecords, Free
      <3>2. PICK k \in Int : Reply(node[n].src, k, n) BY <2>a, <2>3 DEF StackInv
      <3>3. PICK i \in Int : Wait(node[n].src, i, n) BY <2>a, <3>1, <3>2 DEF MatchInv
      <3>4. ASSUME NEW t \in Threads, Wait(t, i, n) PROVE Waits(t, n)
        <4>1. frames[t] \in Seq(Frames) BY <2>a DEF TypeOK
        <4>2. i \in DOMAIN frames[t] /\ frames[t][i] = Frame("wait", n)
          BY <3>4, <4>1 DEF Wait
        <4> QED BY <4>2 DEF Waits, WaitsAt, Frame
      <3> QED BY <3>1, <3>3, <3>4
    <2>4. ASSUME node[n].type = "FREE", NEW t \in Threads, NEW i \in DOMAIN replies[t]
          PROVE  replies[t][i] # n
      <3>1. i \in 1 .. Len(replies[t]) /\ i \in Int BY <2>a DEF TypeOK
      <3>2. ~Reply(t, i, n) BY <2>a, <2>4, <3>1 DEF StackInv
      <3> QED BY <3>1, <3>2 DEF Reply
    <2> QED BY <2>1, <2>2, <2>3, <2>4
  <1> QED BY <1>1, DeliveryCorrect, PTL

\* Only THREADINFO_Destroy frees a THREADINFO.
LEMMA InfoFreed ==
  ASSUME [Next]_vars, NEW t \in info \ info', TypeInv
  PROVE  THREADINFO_Destroy(t)
PROOF
  <1>1. t \in Threads BY DEF TypeInv, TypeOK
  <1>2. CASE UNCHANGED vars BY <1>2 DEF vars
  <1>3. ASSUME NEW u \in Threads, THREADINFO_Destroy(u)
        PROVE  THREADINFO_Destroy(t)
    <2>1. info' = info \ {u} BY <1>3 DEF THREADINFO_Destroy
    <2>2. t = u BY <2>1
    <2> QED BY <1>3, <2>2
  <1>4. ASSUME NEW u \in Threads, NEW n \in Nodes,
               \/ HandleSendMsg(u, n) \/ MSQ_GetPostMsg(u, n)
               \/ \E v \in Threads : MSQ_PostThreadMessage(u, v, n)
        PROVE  FALSE
    BY <1>4 DEF HandleSendMsg, MSQ_GetPostMsg, MSQ_PostThreadMessage
  <1>5. ASSUME NEW u \in Threads, NEW w \in Windows, NEW n \in Nodes,
               \/ MSQ_SendMessage(u, w, n) \/ MSQ_SendNotifyMessage(u, w, n)
               \/ MSQ_PostMessage(u, w, n)
        PROVE  FALSE
    BY <1>5 DEF MSQ_SendMessage, MSQ_SendNotifyMessage, MSQ_PostMessage
  <1>6. ASSUME NEW u \in Threads, NEW w \in Windows,
               \/ EnterWithGoneWindow(u, w) \/ CreateWindow(u, w)
               \/ WND_Destroy(u, w) \/ \E op \in Calls : LookUp(u, op, w)
        PROVE  FALSE
    BY <1>6 DEF EnterWithGoneWindow, CreateWindow, WND_Destroy, LookUp
  <1>7. ASSUME NEW u \in Threads,
               \/ GetMsgObjFails(u) \/ TakeReply(u) \/ PeekNothing(u) \/ Block(u)
               \/ Unblock(u) \/ WS_ThreadExit(u) \/ QuitInNestedLoop(u)
               \/ GetMessage(u) \/ PeekMessage(u) \/ MSQ_ReplyMessage(u)
               \/ DestroyAWindow(u) \/ PostQuitMessage(u)
        PROVE  FALSE
    BY <1>7
    DEF GetMsgObjFails, TakeReply, PeekNothing, Block, Unblock, WS_ThreadExit,
        QuitInNestedLoop, GetMessage, PeekMessage, MSQ_ReplyMessage,
        DestroyAWindow, PostQuitMessage
  <1> QED
    BY <1>2, <1>3, <1>4, <1>5, <1>6, <1>7
    DEF Next, Kernel, Application, DestroyWindow, WND_DestroyWindowsByThreadId

\* A thread that exits leaves nobody waiting for it, and waits for nobody.
THEOREM ExitCorrect == Spec => ExitLeavesNoSender
PROOF
  <1>1. ASSUME DeliveryInv, [Next]_vars
        PROVE  [\A t \in info \ info' :
                  /\ replies[t] = <<>>
                  /\ \A n \in Nodes : node[n].type = "SEND" =>
                       node[n].dst \notin {w \in Windows : Owner[w] = t}]_vars
    <2>a. /\ TypeInv /\ FrameInv /\ QueueInv /\ SentInv /\ MatchInv
      BY <1>1 DEF DeliveryInv
    <2> SUFFICES ASSUME NEW t \in info \ info'
                 PROVE  /\ replies[t] = <<>>
                        /\ \A n \in Nodes : node[n].type = "SEND" =>
                             node[n].dst \notin {w \in Windows : Owner[w] = t}
      OBVIOUS
    <2>1. THREADINFO_Destroy(t) /\ t \in Threads
      BY <1>1, <2>a, InfoFreed DEF TypeInv, TypeOK
    <2>2. sendQ[t] = {} /\ replies[t] = <<>> BY <2>a, <2>1, ExitClean
    <2>3. \A i \in Int, n \in Nodes : ~Proc(t, i, n)
      BY <2>a, <2>1, ExitFrames DEF THREADINFO_Destroy
    <2>4. ASSUME NEW n \in Nodes, node[n].type = "SEND"
          PROVE  node[n].dst \notin {w \in Windows : Owner[w] = t}
      <3>1. PICK u \in Threads : IsFor(n, u) /\ InHand(u, n)
        BY <2>a, <2>4 DEF SentInv
      <3>2. u # t BY <2>2, <2>3, <3>1 DEF InHand
      <3> QED BY <3>1, <3>2 DEF IsFor
    <2> QED BY <2>2, <2>4
  <1> QED BY <1>1, InitDelivery, DeliveryStep, PTL DEF Spec, ExitLeavesNoSender

-----------------------------------------------------------------------------
(***************************************************************************)
(* Calls.  A thread asleep in SendMessage waits for a message that its     *)
(* receiver has in hand.  The receiver sleeps too, so it holds the message *)
(* in a window procedure, below a SendMessage of its own.  Messages sent   *)
(* from a window procedure are later than the message the procedure        *)
(* handles (OrderInv): following the waits from thread to thread meets     *)
(* ever later messages, and there are finitely many (NoSendDeadlock).      *)
(*                                                                         *)
(* The calls of a thread are its frames that wait; that they are also the  *)
(* entries of its reply stack, in order, is what makes each step of the    *)
(* message queues a step of SendRpc (ImplementsRpc): the insertion in the  *)
(* reply stack is Send, its removal Return, and what marks nodes as        *)
(* answered is Answer.                                                     *)
(***************************************************************************)

-----------------------------------------------------------------------------
(* The order of the messages.                                              *)

\* The messages in use can be numbered, up to b, so that what is sent from
\* above a window procedure has a greater number than what the procedure handles.
Numbered(r, b) ==
  /\ \A n \in Nodes : r[n] \in 0 .. b
  /\ \A t \in Threads, i, j \in Int, n, m \in Nodes :
       Proc(t, i, n) /\ Wait(t, j, m) /\ j < i => r[n] < r[m]
OrderInv == \E b \in Nat : \E r \in [Nodes -> Int] : Numbered(r, b)

\* Nobody waits for a free node, and no window procedure handles one.
LEMMA FreeUnused ==
  ASSUME DeliveryInv, NEW n \in FreeNodes
  PROVE  /\ n \in Nodes
         /\ \A t \in Threads, i \in Int : ~Proc(t, i, n) /\ ~Wait(t, i, n)
PROOF
  <1>a. ProcInv /\ MatchInv /\ StackInv BY DEF DeliveryInv
  <1>1. n \in Nodes /\ node[n].type = "FREE" BY DEF FreeNodes
  <1>2. \A t \in Threads, i \in Int : ~Proc(t, i, n) BY <1>a, <1>1 DEF ProcInv
  <1>3. \A t \in Threads, k \in Int : ~Reply(t, k, n) BY <1>a, <1>1 DEF StackInv
  <1>4. \A t \in Threads, i \in Int : ~Wait(t, i, n) BY <1>a, <1>1, <1>3 DEF MatchInv
  <1> QED BY <1>1, <1>2, <1>4

\* Frames that shift keep their order.
LEMMA OrderShifted ==
  ASSUME Quiet, OrderInv
  PROVE  OrderInv'
PROOF
  <1>1. PICK b \in Nat : \E r \in [Nodes -> Int] : Numbered(r, b) BY DEF OrderInv
  <1>2. PICK r \in [Nodes -> Int] : Numbered(r, b) BY <1>1
  <1>3. PICK s \in [Threads -> Int] : Shifted(s) BY DEF Quiet
  <1>4. ASSUME NEW t \in Threads, NEW i \in Int, NEW j \in Int,
               NEW n \in Nodes, NEW m \in Nodes,
               Proc(t, i, n)', Wait(t, j, m)', j < i
        PROVE  r[n] < r[m]
    <2>1. PICK d \in Int : d = s[t] OBVIOUS
    <2>2. Proc(t, i - d, n) /\ Wait(t, j - d, m) BY <1>3, <1>4, <2>1 DEF Shifted
    <2>3. i - d \in Int /\ j - d \in Int /\ j - d < i - d BY <1>4
    <2> QED BY <1>2, <2>2, <2>3 DEF Numbered
  <1>5. Numbered(r, b)' BY <1>2, <1>4 DEF Numbered
  <1> QED BY <1>5 DEF OrderInv

\* A message to send gets a new greatest number.
LEMMA OrderSend ==
  ASSUME DeliveryInv, OrderInv, NEW t \in Threads, NEW n \in FreeNodes,
         WaitCalled(t, n)
  PROVE  OrderInv'
PROOF
  <1>1. PICK b \in Nat : \E r \in [Nodes -> Int] : Numbered(r, b) BY DEF OrderInv
  <1>2. PICK r \in [Nodes -> Int] : Numbered(r, b) BY <1>1
  <1>3. /\ n \in Nodes
        /\ \A u \in Threads, i \in Int : ~Proc(u, i, n) /\ ~Wait(u, i, n)
    BY FreeUnused
  <1> DEFINE q == [r EXCEPT ![n] = b + 1]
  <1>4. /\ q \in [Nodes -> Int] /\ q[n] = b + 1
        /\ \A m \in Nodes : m # n => q[m] = r[m]
    BY <1>3
  <1> HIDE DEF q
  <1>5. \A m \in Nodes : r[m] \in 0 .. b BY <1>2 DEF Numbered
  <1>6. ASSUME NEW m \in Nodes PROVE q[m] \in 0 .. b + 1
    <2>1. CASE m = n BY <1>4, <2>1
    <2>2. CASE m # n BY <1>4, <1>5, <2>2
    <2> QED BY <2>1, <2>2
  <1>7. ASSUME NEW u \in Threads, NEW i \in Int, NEW j \in Int,
               NEW l \in Nodes, NEW m \in Nodes,
               Proc(u, i, l)', Wait(u, j, m)', j < i
        PROVE  q[l] < q[m]
    <2>1. CASE u # t
      <3>1. Proc(u, i, l) /\ Wait(u, j, m)
        BY <1>7, <2>1 DEF WaitCalled, Aside
      <3>2. l # n /\ m # n /\ r[l] < r[m] BY <1>2, <1>3, <1>7, <3>1 DEF Numbered
      <3> QED BY <1>4, <3>2
    <2>2. CASE u = t
      <3>1. Proc(t, i - 1, l) BY <1>7, <2>2 DEF WaitCalled
      <3>2. i - 1 \in Int /\ l # n BY <1>3, <3>1
      <3>3. (j = 1 /\ m = n) \/ Wait(t, j - 1, m) BY <1>7, <2>2 DEF WaitCalled
      <3>4. CASE m = n
        <4>1. q[l] = r[l] /\ r[l] \in 0 .. b /\ q[m] = b + 1
          BY <1>4, <1>5, <3>2, <3>4
        <4> QED BY <4>1
      <3>5. CASE m # n
        <4>1. Wait(t, j - 1, m) /\ j - 1 \in Int /\ j - 1 < i - 1
          BY <1>7, <3>3, <3>5
        <4>2. r[l] < r[m] BY <1>2, <3>1, <3>2, <4>1 DEF Numbered
        <4> QED BY <1>4, <3>2, <3>5, <4>2
      <3> QED BY <3>4, <3>5
    <2> QED BY <2>1, <2>2
  <1>8. Numbered(q, b + 1)' BY <1>6, <1>7 DEF Numbered
  <1>9. b + 1 \in Nat OBVIOUS
  <1> QED BY <1>4, <1>8, <1>9 DEF OrderInv

\* A message to handle is above everything its thread waits for.
LEMMA OrderHandle ==
  ASSUME TypeOK, OrderInv, NEW t \in Threads, NEW n \in Nodes, ProcCalled(t, n)
  PROVE  OrderInv'
PROOF
  <1>1. PICK b \in Nat : \E r \in [Nodes -> Int] : Numbered(r, b) BY DEF OrderInv
  <1>2. PICK r \in [Nodes -> Int] : Numbered(r, b) BY <1>1
  <1>3. ASSUME NEW u \in Threads, NEW i \in Int, NEW j \in Int,
               NEW l \in Nodes, NEW m \in Nodes,
               Proc(u, i, l)', Wait(u, j, m)', j < i
        PROVE  r[l] < r[m]
    <2>1. CASE u # t
      <3>1. Proc(u, i, l) /\ Wait(u, j, m)
        BY <1>3, <2>1 DEF ProcCalled, Aside
      <3> QED BY <1>2, <1>3, <3>1 DEF Numbered
    <2>2. CASE u = t
      <3>1. Wait(t, j - 1, m) /\ j - 1 \in Int BY <1>3, <2>2 DEF ProcCalled
      <3>2. j - 1 >= 1 BY <3>1, Positive
      <3>3. Proc(t, i - 1, l) BY <1>3, <2>2, <3>2 DEF ProcCalled
      <3>4. i - 1 \in Int /\ j - 1 < i - 1 BY <1>3
      <3> QED BY <1>2, <3>1, <3>3, <3>4 DEF Numbered
    <2> QED BY <2>1, <2>2
  <1>4. Numbered(r, b)' BY <1>2, <1>3 DEF Numbered
  <1> QED BY <1>4 DEF OrderInv

\* A return leaves the order of the frames below.
LEMMA OrderReturned ==
  ASSUME OrderInv, NEW t \in Threads, Returned(t)
  PROVE  OrderInv'
PROOF
  <1>1. PICK b \in Nat : \E r \in [Nodes -> Int] : Numbered(r, b) BY DEF OrderInv
  <1>2. PICK r \in [Nodes -> Int] : Numbered(r, b) BY <1>1
  <1>3. ASSUME NEW u \in Threads, NEW i \in Int, NEW j \in Int,
               NEW l \in Nodes, NEW m \in Nodes,
               Proc(u, i, l)', Wait(u, j, m)', j < i
        PROVE  r[l] < r[m]
    <2>1. CASE u # t
      <3>1. Proc(u, i, l) /\ Wait(u, j, m)
        BY <1>3, <2>1 DEF Returned, Aside
      <3> QED BY <1>2, <1>3, <3>1 DEF Numbered
    <2>2. CASE u = t
      <3>1. Proc(t, i + 1, l) /\ Wait(t, j + 1, m)
        BY <1>3, <2>2 DEF Returned
      <3>2. i + 1 \in Int /\ j + 1 \in Int /\ j + 1 < i + 1 BY <1>3
      <3> QED BY <1>2, <3>1, <3>2 DEF Numbered
    <2> QED BY <2>1, <2>2
  <1>4. Numbered(r, b)' BY <1>2, <1>3 DEF Numbered
  <1> QED BY <1>4 DEF OrderInv

\* Every step keeps an order.
LEMMA OrderStep ==
  ASSUME DeliveryInv, OrderInv, MessageStep
  PROVE  OrderInv'
PROOF
  <1>a. TypeOK BY DEF DeliveryInv, TypeInv
  <1>1. CASE Quiet BY <1>1, OrderShifted
  <1>2. ASSUME NEW t \in Threads, NEW w \in Windows, NEW n \in Nodes,
               MSQ_SendMessage(t, w, n), WaitCalled(t, n)
        PROVE  OrderInv'
    <2>1. n \in FreeNodes BY <1>2 DEF MSQ_SendMessage
    <2> QED BY <1>2, <2>1, OrderSend
  <1>3. ASSUME NEW t \in Threads, NEW n \in Nodes, ProcCalled(t, n)
        PROVE  OrderInv'
    BY <1>a, <1>3, OrderHandle
  <1>4. ASSUME NEW t \in Threads, Returned(t) PROVE OrderInv'
    BY <1>4, OrderReturned
  <1> QED BY <1>1, <1>2, <1>3, <1>4 DEF MessageStep

\* At the start there is nothing to order.
LEMMA InitOrder == Init => OrderInv
PROOF
  <1> SUFFICES ASSUME Init PROVE OrderInv
    OBVIOUS
  <1>1. \A t \in Threads : Len(frames[t]) = 1 /\ frames[t][1] = App BY DEF Init
  <1>2. \A t \in Threads, i \in Int, n \in Nodes : ~Proc(t, i, n)
    BY <1>1 DEF Proc, App, Frame
  <1> DEFINE r == [n \in Nodes |-> 0]
  <1>3. r \in [Nodes -> Int] /\ \A n \in Nodes : r[n] \in 0 .. 0 OBVIOUS
  <1> HIDE DEF r
  <1>4. Numbered(r, 0) BY <1>2, <1>3 DEF Numbered
  <1> QED BY <1>3, <1>4 DEF OrderInv
-----------------------------------------------------------------------------
(* No deadlock.                                                            *)

\* Numbers with a bound have a greatest one.
LEMMA Greatest ==
  ASSUME NEW b \in Nat, NEW S \in SUBSET (0 .. b), S # {}
  PROVE  \E x \in S : \A y \in S : y <= x
PROOF
  <1> DEFINE T == {k \in 0 .. b : b - k \in S}
             Less == {p \in Nat \X Nat : p[1] < p[2]}
  <1>1. IsWellFoundedOn(Less, Nat) BY NatLessThanWellFounded DEF OpToRel
  <1>2. T \subseteq Nat /\ T # {}
    <2>1. PICK x \in S : TRUE OBVIOUS
    <2>2. b - x \in 0 .. b /\ b - (b - x) = x BY <2>1
    <2> QED BY <2>2
  <1>3. PICK k \in T : \A y \in T : ~(<<y, k>> \in Less)
    <2> HIDE DEF T, Less
    <2> QED BY <1>1, <1>2, WFMin
  <1>4. \A y \in T : ~(y < k) BY <1>2, <1>3
  <1>5. b - k \in S /\ k \in 0 .. b BY <1>3
  <1>6. ASSUME NEW y \in S PROVE y <= b - k
    <2>1. y \in 0 .. b /\ b - y \in 0 .. b /\ b - (b - y) = y OBVIOUS
    <2>2. b - y \in T BY <2>1
    <2>3. ~(b - y < k) BY <1>4, <2>2
    <2> HIDE DEF T, Less
    <2> QED BY <1>5, <2>1, <2>3
  <1> QED BY <1>5, <1>6

\* Whom a thread asleep in SendMessage waits for: a thread that holds the
\* message in a window procedure and sleeps in a later SendMessage.
LEMMA WaitsForLater ==
  ASSUME DeliveryInv, \A t \in info : SleepsForGood(t) /\ ~InNestedLoop(t),
         NEW b \in Nat, NEW r \in [Nodes -> Int], Numbered(r, b),
         NEW t \in info, NEW n \in Nodes, Wait(t, 1, n)
  PROVE  \E u \in info, m \in Nodes : Wait(u, 1, m) /\ r[n] < r[m]
PROOF
  <1>a. /\ TypeOK /\ TypeInv /\ BlockInv /\ LifeInv /\ FrameInv /\ QueueInv
        /\ SentInv /\ MatchInv /\ StackInv /\ SleepInv
    BY DEF DeliveryInv, TypeInv
  <1>b. \A u \in info : /\ u \in Threads
                        /\ blocked[u] /\ bBlock[u] # "NO"
                        /\ Top(u).kind \in {"get", "wait"}
                        /\ Top(u) = frames[u][1]
                        /\ 1 \in 1 .. Len(frames[u])
    BY <1>a, TopType, EmptySeq, TwoOrMore
    DEF BlockInv, OneWakeup, SleepsForGood, TypeInv, TypeOK, BottomInv
  <1>1. node[n].type = "SEND"
    <2>1. PICK k \in Int : Reply(t, k, n) BY <1>a, <1>b DEF MatchInv
    <2>2. node[n].type \in {"SEND", "REPLY"} BY <1>a, <1>b, <2>1 DEF StackInv
    <2>3. replies[t] # <<>> BY <1>a, <1>b, <2>1, EmptySeq DEF Reply, TypeOK
    <2>4. Head(replies[t]) = n BY <1>a, <1>b, <2>3, TopReply
    <2>5. Top(t).kind = "wait" BY <1>b DEF Wait, Frame
    <2>6. bBlock[t] = "INSENDMESSAGE"
      BY <1>a, <1>b, <2>5 DEF BlockInv, TypeOK
    <2>7. ~ReplyReady(t) BY <1>a, <1>b, <2>6 DEF SleepInv
    <2> QED BY <2>2, <2>3, <2>4, <2>7 DEF ReplyReady
  <1>2. PICK u \in Threads : IsFor(n, u) /\ InHand(u, n) BY <1>a, <1>1 DEF SentInv
  <1>3. u \in info
    <2>1. CASE n \in sendQ[u] BY <1>a, <1>2, <2>1 DEF QueueInv
    <2>2. ASSUME NEW i \in Int, Proc(u, i, n) PROVE u \in info
      <3>1. Top(u).kind # "app" => u \in info BY <1>a, LoopAlive
      <3>2. i \in 1 .. Len(frames[u]) /\ frames[u][i].kind = "proc"
        BY <2>2 DEF Proc, Frame
      <3>3. Len(frames[u]) \in Nat /\ frames[u][Len(frames[u])].kind = "app"
        BY <1>a, <1>2 DEF TypeInv, TypeOK, BottomInv
      <3>4. Len(frames[u]) > 1 BY <3>2, <3>3
      <3> QED BY <1>a, <1>2, <3>4 DEF LifeInv
    <2> QED BY <1>2, <2>1, <2>2 DEF InHand
  <1>4. sendQ[u] = {} BY <1>a, <1>b, <1>3 DEF SleepInv
  <1>5. PICK i \in Int : Proc(u, i, n) BY <1>2, <1>4 DEF InHand
  <1>6. i \in 1 .. Len(frames[u]) /\ frames[u][i].kind = "proc"
    BY <1>5 DEF Proc, Frame
  <1>7. 1 < i
    <2>1. i # 1 BY <1>b, <1>3, <1>6
    <2> QED BY <1>5, <1>6, <2>1
  <1>8. Top(u).kind # "get"
    <2>1. 1 \in DOMAIN frames[u] /\ i \in DOMAIN frames[u]
      BY <1>a, <1>b, <1>3, <1>6 DEF TypeOK
    <2>2. ~InNestedLoop(u) BY <1>3
    <2> QED BY <1>b, <1>3, <1>6, <1>7, <2>1, <2>2 DEF InNestedLoop
  <1>9. PICK m \in Nodes : Wait(u, 1, m)
    <2>1. frames[u][1].kind = "wait" /\ 1 \in 1 .. Len(frames[u])
          /\ frames[u][1] \in Frames
      BY <1>a, <1>b, <1>3, <1>8, TopType
    <2>2. frames[u][1].arg \in Nodes BY <1>a, <1>2, <2>1 DEF FrameInv
    <2>3. frames[u][1] = Frame("wait", frames[u][1].arg)
      BY <2>1 DEF Frames, Frame
    <2> QED BY <2>1, <2>2, <2>3 DEF Wait
  <1>10. r[n] < r[m] BY <1>2, <1>5, <1>7, <1>9 DEF Numbered
  <1> QED BY <1>3, <1>9, <1>10

\* Threads that send to each other do not deadlock: when every thread sleeps
\* for good, outside nested loops, no one is in SendMessage.
THEOREM DeadlockFree == Spec => []NoSendDeadlock
PROOF
  <1>1. ASSUME DeliveryInv, OrderInv PROVE NoSendDeadlock
    <2> SUFFICES ASSUME \A t \in info : SleepsForGood(t) /\ ~InNestedLoop(t),
                        NEW t \in info, Top(t).kind # "get"
                 PROVE  FALSE
      BY DEF NoSendDeadlock
    <2>1. PICK b \in Nat : \E r \in [Nodes -> Int] : Numbered(r, b)
      BY <1>1 DEF OrderInv
    <2>2. PICK r \in [Nodes -> Int] : Numbered(r, b) BY <2>1
    <2> DEFINE S == {k \in 0 .. b : \E u \in info, n \in Nodes :
                                      Wait(u, 1, n) /\ r[n] = k}
    <2>3. S # {}
      <3>1. t \in Threads BY <1>1 DEF DeliveryInv, TypeInv, TypeOK
      <3>2. TypeInv /\ BlockInv /\ FrameInv BY <1>1 DEF DeliveryInv
      <3>3. Top(t) = frames[t][1] /\ Top(t) \in Frames /\ 1 \in 1 .. Len(frames[t])
        BY <3>1, <3>2, TopType, EmptySeq, TwoOrMore DEF TypeInv, TypeOK, BottomInv
      <3>4. frames[t][1].kind = "wait"
        BY <3>1, <3>2, <3>3 DEF BlockInv, SleepsForGood
      <3>5. frames[t][1].arg \in Nodes BY <3>1, <3>2, <3>3, <3>4 DEF FrameInv
      <3>6. Wait(t, 1, frames[t][1].arg)
        BY <3>3, <3>4 DEF Wait, Frame, Frames
      <3>7. r[frames[t][1].arg] \in 0 .. b BY <2>2, <3>5 DEF Numbered
      <3> QED BY <3>5, <3>6, <3>7
    <2>4. PICK x \in S : \A y \in S : y <= x
      <3> HIDE DEF S
      <3>1. S \in SUBSET (0 .. b) BY DEF S
      <3> QED BY <2>3, <3>1, Greatest
    <2>5. PICK u \in info, n \in Nodes : Wait(u, 1, n) /\ r[n] = x BY <2>4
    <2>6. PICK v \in info, m \in Nodes : Wait(v, 1, m) /\ r[n] < r[m]
      BY <1>1, <2>2, <2>5, WaitsForLater
    <2>7. r[m] \in 0 .. b BY <2>2 DEF Numbered
    <2>8. r[m] \in S BY <2>6, <2>7
    <2>9. x \in 0 .. b BY <2>4
    <2> HIDE DEF S
    <2>10. r[m] <= x BY <2>4, <2>8
    <2> QED BY <2>5, <2>6, <2>7, <2>9, <2>10
  <1>2. DeliveryInv /\ OrderInv /\ [Next]_vars => OrderInv'
    BY Steps, OrderStep DEF DeliveryInv
  <1> QED BY <1>1, <1>2, InitOrder, InitDelivery, DeliveryStep, PTL DEF Spec
-----------------------------------------------------------------------------
(* The frames that wait, counted.                                          *)

\* The k-th frame that waits is the one for entry k of the reply stack.
LEMMA StackIsReplies ==
  ASSUME DeliveryInv
  PROVE  rpcStack = replies
PROOF
  <1>a. TypeOK /\ FrameInv /\ MatchInv BY DEF DeliveryInv, TypeInv
  <1>1. ASSUME NEW t \in Threads
        PROVE  [k \in 1 .. Cardinality(WaitsAt(t)) |-> frames[t][WaitFrame(t, k)].arg]
                 = replies[t]
    <2> DEFINE L == Len(replies[t])
               Down(i) == {j \in WaitsAt(t) : j <= i}
    <2>1. replies[t] \in Seq(Nodes) /\ L \in Nat /\ frames[t] \in Seq(Frames)
      BY <1>a DEF TypeOK
    <2>2. ASSUME NEW i
          PROVE  i \in WaitsAt(t) <=> i \in Int /\ \E n \in Nodes : Wait(t, i, n)
      <3>1. ASSUME i \in WaitsAt(t)
            PROVE  i \in Int /\ \E n \in Nodes : Wait(t, i, n)
        <4>1. /\ i \in 1 .. Len(frames[t]) /\ frames[t][i] \in Frames
              /\ frames[t][i].kind = "wait"
          BY <2>1, <3>1 DEF WaitsAt
        <4>2. frames[t][i].arg \in Nodes BY <1>a, <4>1 DEF FrameInv
        <4>3. frames[t][i] = Frame("wait", frames[t][i].arg)
          BY <4>1 DEF Frames, Frame
        <4> QED BY <2>1, <4>1, <4>2, <4>3 DEF Wait
      <3>2. ASSUME NEW n \in Nodes, Wait(t, i, n) PROVE i \in WaitsAt(t)
        BY <2>1, <3>2 DEF Wait, WaitsAt, Frame
      <3> QED BY <3>1, <3>2
    <2>3. \A k \in 1 .. L : Reply(t, k, replies[t][k]) /\ replies[t][k] \in Nodes
      BY <2>1 DEF Reply
    <2>4. \A k \in Int, n \in Nodes : Reply(t, k, n) => k \in 1 .. L /\ replies[t][k] = n
      BY DEF Reply
    <2>5. \A k \in 1 .. L : \E i \in Int : Wait(t, i, replies[t][k])
      BY <1>a, <2>1, <2>3 DEF MatchInv
    <2> DEFINE f == [k \in 1 .. L |-> CHOOSE i \in Int : Wait(t, i, replies[t][k])]
    <2>6. \A k \in 1 .. L : f[k] \in Int /\ Wait(t, f[k], replies[t][k])
      BY <2>5
    <2> HIDE DEF f
    <2>7. ASSUME NEW k \in 1 .. L, NEW l \in 1 .. L PROVE k < l <=> f[k] < f[l]
      <3>1. k \in Int /\ l \in Int BY <2>1
      <3> QED BY <1>a, <2>3, <2>6, <3>1 DEF MatchInv
    <2>8. ASSUME NEW i \in WaitsAt(t) PROVE \E k \in 1 .. L : f[k] = i
      <3>1. PICK n \in Nodes : Wait(t, i, n) /\ i \in Int BY <2>2
      <3>2. PICK k \in Int : Reply(t, k, n) BY <1>a, <3>1 DEF MatchInv
      <3>3. k \in 1 .. L /\ replies[t][k] = n BY <2>4, <3>2
      <3>4. f[k] \in Int /\ Wait(t, f[k], n) BY <2>6, <3>3
      <3>5. ~(f[k] < i) /\ ~(i < f[k])
        BY <1>a, <3>1, <3>2, <3>4 DEF MatchInv
      <3>6. f[k] = i BY <3>1, <3>4, <3>5
      <3> QED BY <3>3, <3>6
    <2>9. \A k \in 1 .. L : f[k] \in WaitsAt(t) /\ frames[t][f[k]].arg = replies[t][k]
      <3> SUFFICES ASSUME NEW k \in 1 .. L
                   PROVE  f[k] \in WaitsAt(t) /\ frames[t][f[k]].arg = replies[t][k]
        OBVIOUS
      <3>1. f[k] \in WaitsAt(t) BY <2>2, <2>3, <2>6
      <3>2. frames[t][f[k]] = Frame("wait", replies[t][k]) BY <2>6 DEF Wait
      <3> QED BY <3>1, <3>2 DEF Frame
    <2>10. ASSUME NEW k \in 0 .. L, NEW S, S \subseteq WaitsAt(t),
                  \A l \in 1 .. L : f[l] \in S <=> l <= k
           PROVE  Cardinality(S) = k
      <3> DEFINE g == [l \in 1 .. k |-> f[l]]
      <3>1. k \in Nat /\ \A l \in 1 .. k : l \in 1 .. L /\ l <= k BY <2>1
      <3>2. g \in [1 .. k -> S] BY <2>10, <3>1
      <3>3. ASSUME NEW l \in 1 .. k, NEW m \in 1 .. k, g[l] = g[m] PROVE l = m
        <4>1. f[l] = f[m] /\ l \in 1 .. L /\ m \in 1 .. L BY <3>1, <3>3
        <4>2. ~(f[l] < f[m]) /\ ~(f[m] < f[l]) BY <2>6, <4>1
        <4>3. ~(l < m) /\ ~(m < l) BY <2>7, <4>1, <4>2
        <4> QED BY <3>1, <4>3
      <3>4. ASSUME NEW i \in S PROVE \E l \in 1 .. k : g[l] = i
        <4>1. PICK l \in 1 .. L : f[l] = i BY <2>8, <2>10
        <4>2. l \in 1 .. k BY <2>10, <3>1, <4>1
        <4> QED BY <4>1, <4>2
      <3> HIDE DEF g
      <3>5. ExistsBijection(1 .. k, S)
        BY <3>2, <3>3, <3>4
        DEF ExistsBijection, Bijection, Injection, IsInjective, Surjection
      <3> QED BY <3>1, <3>5, FS_CountingElements
    <2>11. Cardinality(WaitsAt(t)) = L
      <3>1. L \in 0 .. L /\ \A l \in 1 .. L : l <= L BY <2>1
      <3> QED BY <2>9, <2>10, <3>1
    <2>12. ASSUME NEW k \in 1 .. L PROVE Cardinality(Down(f[k])) = k
      <3>1. k \in 0 .. L BY <2>1
      <3>2. \A l \in 1 .. L : f[l] \in Down(f[k]) <=> l <= k
        <4> SUFFICES ASSUME NEW l \in 1 .. L PROVE f[l] <= f[k] <=> l <= k
          BY <2>9
        <4>1. k < l <=> f[k] < f[l] BY <2>7
        <4>2. f[l] \in Int /\ f[k] \in Int BY <2>6
        <4> QED BY <2>1, <4>1, <4>2
      <3>3. Down(f[k]) \subseteq WaitsAt(t) OBVIOUS
      <3> HIDE DEF Down
      <3> QED BY <2>10, <3>1, <3>2, <3>3
    <2>13. ASSUME NEW k \in 1 .. L PROVE WaitFrame(t, k) = f[k]
      <3>1. f[k] \in WaitsAt(t) /\ Cardinality(Down(f[k])) = k BY <2>9, <2>12
      <3>2. ASSUME NEW i \in WaitsAt(t), Cardinality(Down(i)) = k PROVE i = f[k]
        <4>1. PICK l \in 1 .. L : f[l] = i BY <2>8
        <4>2. l = k BY <2>12, <3>2, <4>1
        <4> QED BY <4>1, <4>2
      <3> QED BY <3>1, <3>2 DEF WaitFrame
    <2>14. replies[t] = [k \in 1 .. L |-> replies[t][k]] BY <2>1
    <2>15. [k \in 1 .. Cardinality(WaitsAt(t)) |-> frames[t][WaitFrame(t, k)].arg]
             = [k \in 1 .. L |-> replies[t][k]]
      <3> HIDE DEF L
      <3> QED BY <2>9, <2>11, <2>13
    <2> QED BY <2>14, <2>15
  <1>2. replies = [t \in Threads |-> replies[t]] BY <1>a DEF TypeOK
  <1> QED BY <1>1, <1>2 DEF rpcStack
-----------------------------------------------------------------------------
(* SendMessage is a remote procedure call.                                 *)

\* Message n is on the reply stack of thread t.
OnStack(t, n) == \E k \in Int : Reply(t, k, n)

\* The calls in progress and the answered ones, in terms of the reply stacks.
RpcView ==
  /\ rpcStack = replies
  /\ Rpc!InProgress = {n \in Nodes : \E t \in Threads : OnStack(t, n)}
  /\ rpcAnswered = {n \in Nodes : /\ node[n].type = "REPLY"
                                  /\ \E t \in Threads : OnStack(t, n)}

\* What is in progress is on a stack, what is answered is marked.
LEMMA RpcCalls == DeliveryInv => RpcView
PROOF
  <1> SUFFICES ASSUME DeliveryInv PROVE RpcView
    OBVIOUS
  <1>a. TypeOK /\ FrameInv /\ MatchInv BY DEF DeliveryInv, TypeInv
  <1>1. ASSUME NEW t \in Threads, NEW n \in Nodes
        PROVE  (\E i \in DOMAIN replies[t] : replies[t][i] = n) <=> OnStack(t, n)
    BY <1>a DEF OnStack, Reply, TypeOK
  <1>2. ASSUME NEW t \in Threads, NEW n \in Nodes
        PROVE  Waits(t, n) <=> OnStack(t, n)
    <2>1. ASSUME Waits(t, n) PROVE OnStack(t, n)
      <3>1. PICK i \in WaitsAt(t) : frames[t][i].arg = n BY <2>1 DEF Waits
      <3>2. /\ i \in 1 .. Len(frames[t]) /\ i \in Int /\ frames[t][i] \in Frames
            /\ frames[t][i].kind = "wait"
        BY <1>a DEF WaitsAt, TypeOK
      <3>3. Wait(t, i, n) BY <3>1, <3>2 DEF Wait, Frame, Frames
      <3> QED BY <1>a, <3>2, <3>3 DEF MatchInv, OnStack
    <2>2. ASSUME OnStack(t, n) PROVE Waits(t, n)
      <3>1. PICK k \in Int : Reply(t, k, n) BY <2>2 DEF OnStack
      <3>2. PICK i \in Int : Wait(t, i, n) BY <1>a, <3>1 DEF MatchInv
      <3>3. i \in DOMAIN frames[t] /\ frames[t][i] = Frame("wait", n)
        BY <1>a, <3>2 DEF Wait, TypeOK
      <3> QED BY <3>3 DEF Waits, WaitsAt, Frame
    <2> QED BY <2>1, <2>2
  <1>3. rpcStack = replies BY StackIsReplies
  <1>4. Rpc!InProgress = {n \in Nodes : \E t \in Threads : OnStack(t, n)}
    BY <1>1, <1>3 DEF Rpc!InProgress
  <1>5. rpcAnswered = {n \in Nodes : /\ node[n].type = "REPLY"
                                     /\ \E t \in Threads : OnStack(t, n)}
    BY <1>2 DEF rpcAnswered
  <1> QED BY <1>3, <1>4, <1>5 DEF RpcView

\* So it is after a step.
LEMMA RpcCallsNext == DeliveryInv' => RpcView'
  BY RpcCalls, PTL

\* A step that leaves the reply stacks alone answers the calls whose nodes it
\* marks, if there are any.
LEMMA RpcAnswer ==
  ASSUME DeliveryInv, DeliveryInv', UNCHANGED replies,
         \A n \in Nodes : node[n].type = "REPLY" => node'[n].type = "REPLY"
  PROVE  Rpc!Next
PROOF
  <1> DEFINE C == {n \in Nodes : node[n].type = "SEND" /\ node'[n].type = "REPLY"}
  <1>a. TypeOK /\ StackInv BY DEF DeliveryInv, TypeInv
  <1>1. rpcStack = replies /\ rpcStack' = replies'
    BY RpcCalls, RpcCallsNext DEF RpcView
  <1>2. \A t \in Threads, n \in Nodes : OnStack(t, n)' <=> OnStack(t, n)
    BY DEF OnStack, Reply
  <1>3. \A t \in Threads, n \in Nodes : OnStack(t, n) =>
          node[n].type \in {"SEND", "REPLY"}
    BY <1>a DEF StackInv, OnStack
  <1>4. \A n \in Nodes : node[n].type = "SEND" => \E t \in Threads : OnStack(t, n)
    <2> SUFFICES ASSUME NEW n \in Nodes, node[n].type = "SEND"
                 PROVE  \E t \in Threads : OnStack(t, n)
      OBVIOUS
    <2>1. node[n].src \in Threads BY <1>a DEF TypeOK, NodeRecords, Free
    <2>2. \E k \in Int : Reply(node[n].src, k, n) BY <1>a DEF StackInv
    <2> QED BY <2>1, <2>2 DEF OnStack
  <1>5. /\ Rpc!InProgress = {n \in Nodes : \E t \in Threads : OnStack(t, n)}
        /\ rpcAnswered = {n \in Nodes : /\ node[n].type = "REPLY"
                                        /\ \E t \in Threads : OnStack(t, n)}
    BY RpcCalls DEF RpcView
  <1>6. rpcAnswered' = {n \in Nodes : /\ node'[n].type = "REPLY"
                                      /\ \E t \in Threads : OnStack(t, n)'}
    BY RpcCallsNext DEF RpcView
  <1>7. C \subseteq Rpc!InProgress \ rpcAnswered BY <1>4, <1>5
  <1>8. rpcAnswered' = rpcAnswered \cup C BY <1>2, <1>3, <1>4, <1>5, <1>6
  <1>9. C \in SUBSET Nodes OBVIOUS
  <1> HIDE DEF C
  <1>10. Rpc!Answer(C) BY <1>1, <1>7, <1>8 DEF Rpc!Answer
  <1> QED BY <1>9, <1>10 DEF Rpc!Next

\* A new message is a new call.
LEMMA RpcSend ==
  ASSUME DeliveryInv, DeliveryInv', NEW t \in Threads, NEW w \in Windows,
         NEW n \in Nodes, MSQ_SendMessage(t, w, n)
  PROVE  Rpc!Next
PROOF
  <1>a. TypeOK /\ StackInv BY DEF DeliveryInv, TypeInv
  <1>1. rpcStack = replies /\ rpcStack' = replies'
    BY RpcCalls, RpcCallsNext DEF RpcView
  <1>2. /\ MSQ_InsertReplyMsg(t, n) /\ node[n].type = "FREE"
        /\ MSQ_InsertSendMsg(Owner[w], n, "SEND", t, w)
    BY DEF MSQ_SendMessage, FreeNodes
  <1>3. /\ node'[n] = [type |-> "SEND", src |-> t, dst |-> w]
        /\ \A m \in Nodes : m # n => node'[m] = node[m]
    BY <1>a, <1>2, SendEffect
  <1>4. node'[n].type = "SEND" BY <1>3
  <1>5. /\ \A u \in Threads : u # t => replies'[u] = replies[u]
        /\ \A k \in Int, m \in Nodes :
             Reply(t, k, m)' <=> (k = 1 /\ m = n) \/ Reply(t, k - 1, m)
    BY <1>a, <1>2, StackPush
  <1>6. ASSUME NEW u \in Threads, NEW m \in Nodes, m # n
        PROVE  OnStack(u, m)' <=> OnStack(u, m)
    <2>1. CASE u # t BY <1>5, <2>1 DEF OnStack, Reply
    <2>2. CASE u = t
      <3>1. \A k \in Int : k - 1 \in Int /\ k + 1 \in Int /\ (k + 1) - 1 = k
        OBVIOUS
      <3>2. \A k \in Int : Reply(t, k, m)' <=> Reply(t, k - 1, m)
        BY <1>5, <1>6
      <3>3. ASSUME NEW k \in Int, Reply(t, k, m) PROVE Reply(t, k + 1, m)'
        BY <3>1, <3>2, <3>3
      <3> QED BY <2>2, <3>1, <3>2, <3>3 DEF OnStack
    <2> QED BY <2>1, <2>2
  <1>7. /\ Rpc!InProgress = {m \in Nodes : \E u \in Threads : OnStack(u, m)}
        /\ rpcAnswered = {m \in Nodes : /\ node[m].type = "REPLY"
                                        /\ \E u \in Threads : OnStack(u, m)}
    BY RpcCalls DEF RpcView
  <1>8. rpcAnswered' = {m \in Nodes : /\ node'[m].type = "REPLY"
                                      /\ \E u \in Threads : OnStack(u, m)'}
    BY RpcCallsNext DEF RpcView
  <1>9. n \notin Rpc!InProgress
    <2>1. \A u \in Threads : ~OnStack(u, n) BY <1>a, <1>2 DEF StackInv, OnStack
    <2> QED BY <1>7, <2>1
  <1>10. rpcAnswered' = rpcAnswered
    BY <1>2, <1>3, <1>4, <1>6, <1>7, <1>8
  <1>11. replies' = [replies EXCEPT ![t] = <<n>> \o @]
    BY <1>2 DEF MSQ_InsertReplyMsg
  <1>12. Rpc!Send(t, n) BY <1>1, <1>9, <1>10, <1>11 DEF Rpc!Send
  <1> QED BY <1>12 DEF Rpc!Next

\* SendMessage returns with the answer to its own message.
LEMMA RpcReturn ==
  ASSUME DeliveryInv, DeliveryInv', NEW t \in Threads, TakeReply(t)
  PROVE  Rpc!Next
PROOF
  <1>a. TypeInv /\ TypeOK /\ FrameInv /\ MatchInv /\ StackInv
    BY DEF DeliveryInv, TypeInv
  <1>1. rpcStack = replies /\ rpcStack' = replies'
    BY RpcCalls, RpcCallsNext DEF RpcView
  <1>2. PICK n \in Nodes :
          /\ Wait(t, 1, n)
          /\ Reply(t, 1, n)
          /\ node[n].type = "REPLY"
          /\ node'[n] = Free
          /\ \A m \in Nodes : m # n => node'[m] = node[m]
          /\ \A u \in Threads : u # t => replies'[u] = replies[u]
          /\ \A k \in Int, m \in Nodes :
               Reply(t, k, m)' <=> k # 0 /\ Reply(t, k + 1, m)
    BY <1>a, TakeEffect
  <1>3. replies[t] # <<>> /\ replies' = [replies EXCEPT ![t] = Tail(@)]
    BY DEF TakeReply, ReplyReady
  <1>4. Head(replies[t]) = n BY <1>a, <1>2, <1>3, TopReply
  <1>5. node'[n].type # "REPLY" BY <1>2 DEF Free
  <1>6. ASSUME NEW u \in Threads, NEW m \in Nodes, m # n
        PROVE  OnStack(u, m)' <=> OnStack(u, m)
    <2>1. CASE u # t BY <1>2, <2>1 DEF OnStack, Reply
    <2>2. CASE u = t
      <3>1. ASSUME NEW k \in Int, Reply(t, k, m)' PROVE OnStack(t, m)
        <4>1. k + 1 \in Int /\ Reply(t, k + 1, m) BY <1>2, <3>1
        <4> QED BY <4>1 DEF OnStack
      <3>2. ASSUME NEW k \in Int, Reply(t, k, m) PROVE OnStack(t, m)'
        <4>1. k # 1 BY <1>2, <1>6, <3>2 DEF Reply
        <4>2. k - 1 \in Int /\ k - 1 # 0 /\ (k - 1) + 1 = k BY <4>1
        <4>3. Reply(t, k - 1, m)' BY <1>2, <3>2, <4>2
        <4> QED BY <4>2, <4>3 DEF OnStack
      <3> QED BY <2>2, <3>1, <3>2 DEF OnStack
    <2> QED BY <2>1, <2>2
  <1>7. rpcAnswered = {m \in Nodes : /\ node[m].type = "REPLY"
                                     /\ \E u \in Threads : OnStack(u, m)}
    BY RpcCalls DEF RpcView
  <1>8. rpcAnswered' = {m \in Nodes : /\ node'[m].type = "REPLY"
                                      /\ \E u \in Threads : OnStack(u, m)'}
    BY RpcCallsNext DEF RpcView
  <1>9. n \in rpcAnswered BY <1>2, <1>7 DEF OnStack
  <1>10. rpcAnswered' = rpcAnswered \ {n}
    BY <1>2, <1>5, <1>6, <1>7, <1>8
  <1>11. Rpc!Return(t) BY <1>1, <1>3, <1>4, <1>9, <1>10 DEF Rpc!Return
  <1> QED BY <1>11 DEF Rpc!Next
\* Every step is a step of the abstract calls.
LEMMA RpcStep ==
  ASSUME DeliveryInv, DeliveryInv', MessageStep
  PROVE  Rpc!Next
PROOF
  <1>a. TypeInv /\ TypeOK /\ FrameInv /\ QueueInv /\ ProcInv
    BY DEF DeliveryInv, TypeInv
  <1>1. CASE UNCHANGED <<node, replies>> BY <1>1, RpcAnswer
  <1>2. ASSUME NEW n \in FreeNodes, UNCHANGED replies,
               \A m \in Nodes : m # n => node'[m] = node[m]
        PROVE  Rpc!Next
    <2>1. node[n].type # "REPLY" BY DEF FreeNodes
    <2>2. \A m \in Nodes : node[m].type = "REPLY" => node'[m].type = "REPLY"
      BY <1>2, <2>1
    <2> QED BY <1>2, <2>2, RpcAnswer
  <1>3. ASSUME NEW t \in Threads, NEW w \in Windows, NEW n \in Nodes,
               MSQ_SendNotifyMessage(t, w, n)
        PROVE  Rpc!Next
    <2>1. /\ n \in FreeNodes /\ UNCHANGED replies
          /\ MSQ_InsertSendMsg(Owner[w], n, "NOTIFY", t, w)
      BY <1>3 DEF MSQ_SendNotifyMessage
    <2>2. \A m \in Nodes : m # n => node'[m] = node[m]
      BY <1>a, <2>1, SendEffect
    <2> QED BY <1>2, <2>1, <2>2
  <1>4. ASSUME NEW t \in Threads, NEW u \in Threads, NEW d \in Windows \cup Threads,
               NEW n \in FreeNodes, MSQ_InsertPostMsg(u, n, t, d), UNCHANGED replies
        PROVE  Rpc!Next
    <2>1. n \in Nodes BY DEF FreeNodes
    <2>2. \A m \in Nodes : m # n => node'[m] = node[m]
      BY <1>a, <1>4, <2>1, InsertPostEffect
    <2> QED BY <1>2, <1>4, <2>2
  <1>5. ASSUME NEW t \in Threads, NEW n \in Nodes, HandleSendMsg(t, n)
        PROVE  Rpc!Next
    BY <1>1, <1>5 DEF HandleSendMsg
  <1>6. ASSUME NEW t \in Threads, NEW n \in Nodes, MSQ_GetPostMsg(t, n)
        PROVE  Rpc!Next
    <2>1. /\ n \in postQ[t] /\ UNCHANGED replies
          /\ \A m \in Nodes : m # n => node'[m] = node[m]
      BY <1>a, <1>6, GetPostEffect
    <2>2. node[n].type # "REPLY" BY <1>a, <2>1 DEF QueueInv
    <2>3. \A m \in Nodes : node[m].type = "REPLY" => node'[m].type = "REPLY"
      BY <2>1, <2>2
    <2> QED BY <2>1, <2>3, RpcAnswer
  <1>7. ASSUME NEW t \in Threads, MSQ_ReplyMessage(t) PROVE Rpc!Next
    <2>1. PICK n \in Nodes :
            /\ node[n].type \in {"NOTIFY", "SEND"}
            /\ \A m \in Nodes : m # n => node'[m] = node[m]
            /\ UNCHANGED replies
      BY <1>a, <1>7, ReplyEffect
    <2>2. \A m \in Nodes : node[m].type = "REPLY" => node'[m].type = "REPLY"
      BY <2>1
    <2> QED BY <2>1, <2>2, RpcAnswer
  <1>8. ASSUME NEW t \in Threads, DestroyAWindow(t) PROVE Rpc!Next
    <2>1. PICK w \in Windows :
            /\ \A n \in Nodes :
                 n \notin sendQ[t] \cup postQ[t] => node'[n] = node[n]
            /\ UNCHANGED replies
      BY <1>a, <1>8, DestroyEffect
    <2>2. \A n \in Nodes : node[n].type = "REPLY" => n \notin sendQ[t] \cup postQ[t]
      BY <1>a DEF QueueInv
    <2>3. \A n \in Nodes : node[n].type = "REPLY" => node'[n].type = "REPLY"
      BY <2>1, <2>2
    <2> QED BY <2>1, <2>3, RpcAnswer
  <1>9. ASSUME NEW t \in Threads, TakeReply(t) PROVE Rpc!Next
    BY <1>9, RpcReturn
  <1>10. ASSUME NEW t \in Threads, NEW w \in Windows, NEW n \in Nodes,
                MSQ_SendMessage(t, w, n)
         PROVE  Rpc!Next
    BY <1>10, RpcSend
  <1> QED
    BY <1>1, <1>3, <1>4, <1>5, <1>6, <1>7, <1>8, <1>9, <1>10 DEF MessageStep

\* SendMessage between threads implements the abstract remote call SendRpc:
\* whatever nests, crosses or is cut short by DestroyWindow, every call is
\* answered once and returns after its own answer, the latest first.
THEOREM RpcImplemented == Spec => ImplementsRpc
PROOF
  <1>1. Init => Rpc!Init
    <2> SUFFICES ASSUME Init PROVE Rpc!Init
      OBVIOUS
    <2>1. RpcView BY InitDelivery, RpcCalls
    <2>2. replies = [t \in Threads |-> <<>>] /\ \A n \in Nodes : node[n] = Free
      BY DEF Init
    <2>3. \A n \in Nodes : node[n].type # "REPLY" BY <2>2 DEF Free
    <2>4. rpcAnswered = {} BY <2>1, <2>3 DEF RpcView
    <2> QED BY <2>1, <2>2, <2>4 DEF RpcView, Rpc!Init
  <1>2. DeliveryInv /\ [Next]_vars /\ DeliveryInv' => Rpc!Next
    BY Steps, RpcStep DEF DeliveryInv
  <1>3. Rpc!Next => [Rpc!Next]_(Rpc!vars) OBVIOUS
  <1> QED
    BY <1>1, <1>2, <1>3, DeliveryCorrect, PTL DEF Spec, ImplementsRpc, Rpc!Spec
=============================================================================
