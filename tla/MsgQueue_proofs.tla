-------------------------- MODULE MsgQueue_proofs --------------------------
(***************************************************************************)
(* Proofs about MsgQueue, for any threads, windows, nodes and calls:       *)
(*   TypeCorrect    the type invariant;                                    *)
(*   WakeupCorrect  the semaphore protocol between BLOCK and its wakers.   *)
(* TypeOK is not inductive: an action that returns from a frame needs to   *)
(* know that there is a frame below.  TypeInv adds that (BottomInv).       *)
(* OneWakeup needs to know in which frames a thread blocks (BlockInv), and *)
(* of every action that wakes, that it wakes blocked threads only.         *)
(***************************************************************************)
EXTENDS MsgQueue, SequenceTheorems, TLAPS

\* The oldest frame of a thread is its own code: WS_GetMessage and the window
\* procedures return to it, it does not return.
BottomInv ==
  \A t \in Threads :
    /\ frames[t] # <<>>
    /\ frames[t][Len(frames[t])].kind = "app"

\* A length other than 0 and 1 is greater than 1.
LEMMA TwoOrMore == \A n \in Nat : n # 0 /\ n # 1 => n > 1
  OBVIOUS

\* A sequence with an element put before it, by its length and its elements.
LEMMA PushSeq ==
  ASSUME NEW S, NEW s \in Seq(S), NEW x \in S
  PROVE  /\ <<x>> \o s \in Seq(S)
         /\ Len(<<x>> \o s) = Len(s) + 1
         /\ Head(<<x>> \o s) = x
         /\ (<<x>> \o s)[1] = x
         /\ \A i \in 1..Len(s) : (<<x>> \o s)[i + 1] = s[i]
         /\ <<x>> \o s # <<>>
  OBVIOUS

\* A sequence without its head, by its length and its elements.
LEMMA PopSeq ==
  ASSUME NEW S, NEW s \in Seq(S), s # <<>>
  PROVE  /\ Tail(s) \in Seq(S)
         /\ Head(s) = s[1]
         /\ Head(s) \in S
         /\ Len(s) >= 1
         /\ Len(Tail(s)) = Len(s) - 1
         /\ \A i \in 1..Len(s) - 1 : Tail(s)[i] = s[i + 1]
         /\ Len(s) > 1 => Tail(s) # <<>>
PROOF
  <1>1. Len(s) \in Nat \ {0} BY EmptySeq
  <1>2. Head(s) = s[1] BY Z3
  <1>3. /\ Tail(s) \in Seq(S) /\ Head(s) \in S
        /\ Len(Tail(s)) = Len(s) - 1
        /\ \A i \in 1..Len(Tail(s)) : Tail(s)[i] = s[i + 1]
    BY HeadTailProperties
  <1>4. Len(s) > 1 => Tail(s) # <<>>
    <2>1. Tail(s) = <<>> => Len(Tail(s)) = 0 BY EmptySeq
    <2> QED BY <1>1, <1>3, <2>1
  <1> QED BY <1>1, <1>2, <1>3, <1>4

\* A call keeps the types of the frames and the frame at the bottom.
LEMMA PushFrame ==
  ASSUME TypeOK, BottomInv, NEW t \in Threads, NEW f \in Frames, Push(t, f)
  PROVE  /\ frames' \in [Threads -> Seq(Frames)]
         /\ BottomInv'
PROOF
  <1>1. frames[t] \in Seq(Frames) BY DEF TypeOK
  <1>2. frames' = [frames EXCEPT ![t] = <<f>> \o frames[t]] BY DEF Push
  <1>3. \A u \in Threads : u # t => frames'[u] = frames[u] BY <1>2 DEF TypeOK
  <1>4. frames'[t] = <<f>> \o frames[t] BY <1>2 DEF TypeOK
  <1>5. <<f>> \o frames[t] \in Seq(Frames) BY <1>1, PushSeq
  <1>6. frames' \in [Threads -> Seq(Frames)] BY <1>2, <1>5 DEF TypeOK
  <1>7. Len(frames'[t]) = Len(frames[t]) + 1 /\ frames'[t] # <<>>
    BY <1>1, <1>4, PushSeq
  <1>8. frames[t] # <<>> /\ Len(frames[t]) \in 1..Len(frames[t])
    BY <1>1 DEF BottomInv
  <1>9. frames'[t][Len(frames'[t])] = frames[t][Len(frames[t])]
    BY <1>1, <1>4, <1>7, <1>8, PushSeq
  <1> QED BY <1>3, <1>6, <1>7, <1>8, <1>9 DEF BottomInv

\* So does the return from any frame that is not a thread's own code.
LEMMA PopFrame ==
  ASSUME TypeOK, BottomInv, NEW t \in Threads, Top(t).kind # "app", Return(t)
  PROVE  /\ frames' \in [Threads -> Seq(Frames)]
         /\ BottomInv'
PROOF
  <1>1. frames[t] \in Seq(Frames) /\ frames[t] # <<>> BY DEF TypeOK, BottomInv
  <1>2. frames' = [frames EXCEPT ![t] = Tail(frames[t])] BY DEF Return
  <1>3. \A u \in Threads : u # t => frames'[u] = frames[u] BY <1>2 DEF TypeOK
  <1>4. frames'[t] = Tail(frames[t]) BY <1>2 DEF TypeOK
  <1>5. Len(frames[t]) > 1
    <2>1. frames[t][1].kind # "app" BY <1>1, PopSeq DEF Top
    <2>2. Len(frames[t]) # 1 BY <2>1 DEF BottomInv
    <2>3. Len(frames[t]) \in Nat /\ Len(frames[t]) # 0 BY <1>1, EmptySeq
    <2> QED BY <2>2, <2>3, TwoOrMore, Zenon
  <1>6. Tail(frames[t]) \in Seq(Frames) /\ Tail(frames[t]) # <<>>
        /\ Len(Tail(frames[t])) = Len(frames[t]) - 1
    BY <1>1, <1>5, PopSeq
  <1>7. frames' \in [Threads -> Seq(Frames)] BY <1>2, <1>6 DEF TypeOK
  <1>8. frames'[t][Len(frames'[t])] = frames[t][Len(frames[t])]
    BY <1>1, <1>4, <1>5, <1>6, PopSeq
  <1> QED BY <1>3, <1>4, <1>6, <1>7, <1>8 DEF BottomInv

\* The inductive type invariant.
TypeInv == TypeOK /\ BottomInv

\* It holds before the first window is created.
LEMMA InitTypeInv == Init => TypeInv
  BY EmptySeq DEF Init, TypeInv, TypeOK, BottomInv, NodeRecords, Free, App, Frame, Frames

\* Waking any threads keeps the types of bBlock and of the semaphores.
LEMMA TypeWake ==
  ASSUME TypeOK, NEW S, S \subseteq Threads, Wake(S)
  PROVE  /\ bBlock' \in [Threads -> {"NO", "INGETMESSAGE", "INSENDMESSAGE"}]
         /\ sem' \in [Threads -> Nat]
  BY DEF TypeOK, Wake

\* What SendMessage, SendNotifyMessage and PostMessage write into a node is a
\* node record.
LEMMA NodeRecord ==
  ASSUME NEW t \in Threads, NEW d \in Windows \cup Threads,
         NEW k \in {"NOTIFY", "SEND", "REPLY", "POST"}
  PROVE  [type |-> k, src |-> t, dst |-> d] \in NodeRecords
  BY DEF NodeRecords

\* Inserting a message in a send queue keeps the types.
LEMMA InsertSendType ==
  ASSUME TypeOK, NEW t \in Threads, NEW u \in Threads, NEW n \in Nodes,
         NEW w \in Windows, NEW k \in {"SEND", "NOTIFY"},
         MSQ_InsertSendMsg(u, n, k, t, w)
  PROVE  /\ node' \in [Nodes -> NodeRecords]
         /\ sendQ' \in [Threads -> SUBSET Nodes]
         /\ ahead' \in [Nodes -> SUBSET Nodes]
         /\ dwState' \in
              [Threads -> SUBSET {"QS_SENDMESSAGE", "QS_POSTMESSAGE", "QS_QUIT"}]
         /\ bBlock' \in [Threads -> {"NO", "INGETMESSAGE", "INSENDMESSAGE"}]
         /\ sem' \in [Threads -> Nat]
PROOF
  <1>1. [type |-> k, src |-> t, dst |-> w] \in NodeRecords BY NodeRecord
  <1>2. node' \in [Nodes -> NodeRecords]
    BY <1>1 DEF MSQ_InsertSendMsg, TypeOK
  <1>3. /\ sendQ' \in [Threads -> SUBSET Nodes]
        /\ ahead' \in [Nodes -> SUBSET Nodes]
        /\ dwState' \in
              [Threads -> SUBSET {"QS_SENDMESSAGE", "QS_POSTMESSAGE", "QS_QUIT"}]
    BY DEF MSQ_InsertSendMsg, Enqueue, TypeOK
  <1>4. Wake({u} \cap {v \in Threads : ISBLOCK(v)}) BY DEF MSQ_InsertSendMsg
  <1>5. {u} \cap {v \in Threads : ISBLOCK(v)} \subseteq Threads OBVIOUS
  <1> QED BY <1>2, <1>3, <1>4, <1>5, TypeWake

\* Inserting a message in a post queue keeps the types.
LEMMA InsertPostType ==
  ASSUME TypeOK, NEW t \in Threads, NEW u \in Threads, NEW n \in Nodes,
         NEW d \in Windows \cup Threads, MSQ_InsertPostMsg(u, n, t, d)
  PROVE  /\ node' \in [Nodes -> NodeRecords]
         /\ postQ' \in [Threads -> SUBSET Nodes]
         /\ ahead' \in [Nodes -> SUBSET Nodes]
         /\ dwState' \in
              [Threads -> SUBSET {"QS_SENDMESSAGE", "QS_POSTMESSAGE", "QS_QUIT"}]
         /\ bBlock' \in [Threads -> {"NO", "INGETMESSAGE", "INSENDMESSAGE"}]
         /\ sem' \in [Threads -> Nat]
PROOF
  <1>1. [type |-> "POST", src |-> t, dst |-> d] \in NodeRecords BY NodeRecord
  <1>2. node' \in [Nodes -> NodeRecords]
    BY <1>1 DEF MSQ_InsertPostMsg, TypeOK
  <1>3. /\ postQ' \in [Threads -> SUBSET Nodes]
        /\ ahead' \in [Nodes -> SUBSET Nodes]
        /\ dwState' \in
              [Threads -> SUBSET {"QS_SENDMESSAGE", "QS_POSTMESSAGE", "QS_QUIT"}]
    BY DEF MSQ_InsertPostMsg, Enqueue, TypeOK
  <1>4. Wake({u} \cap {v \in Threads : ISBLOCKINGET(v)}) BY DEF MSQ_InsertPostMsg
  <1>5. {u} \cap {v \in Threads : ISBLOCKINGET(v)} \subseteq Threads OBVIOUS
  <1> QED BY <1>2, <1>3, <1>4, <1>5, TypeWake

\* A released node is a node record.
LEMMA FreeRecord == Free \in NodeRecords
  BY DEF NodeRecords

\* A node record marked as answered is a node record.
LEMMA ReplyRecord ==
  ASSUME NEW r \in NodeRecords, r # Free
  PROVE  [r EXCEPT !.type = "REPLY"] \in NodeRecords
PROOF
  <1>1. r \in [type : {"NOTIFY", "SEND", "REPLY", "POST"}, src : Threads,
               dst : Windows \cup Threads]
    BY DEF NodeRecords
  <1>2. [r EXCEPT !.type = "REPLY"] \in
          [type : {"NOTIFY", "SEND", "REPLY", "POST"}, src : Threads,
           dst : Windows \cup Threads]
    BY <1>1
  <1> QED BY <1>2 DEF NodeRecords

\* What the calls push is a frame.
LEMMA FrameType ==
  ASSUME NEW a \in Nodes \cup Windows \cup {NULL},
         NEW k \in {"app", "get", "peek", "proc", "wait", "destroy", "exit"}
  PROVE  Frame(k, a) \in Frames
  BY DEF Frame, Frames

\* The frame a thread is executing is a frame, and one of its frames.
LEMMA TopType ==
  ASSUME TypeInv, NEW t \in Threads
  PROVE  Top(t) \in Frames /\ Top(t) = frames[t][1]
  <1>1. frames[t] \in Seq(Frames) /\ frames[t] # <<>>
    BY DEF TypeInv, TypeOK, BottomInv
  <1> QED BY <1>1, PopSeq DEF Top

\* A step that neither calls nor returns keeps the frame at the bottom.
LEMMA SameBottom == ASSUME BottomInv, UNCHANGED frames PROVE BottomInv'
  BY DEF BottomInv

\* Every step, of the kernel or of an application, keeps the type invariant.
THEOREM TypeStep == TypeInv /\ [Next]_vars => TypeInv'
PROOF
  <1> SUFFICES ASSUME TypeInv, [Next]_vars PROVE TypeInv'
    OBVIOUS
  <1> USE DEF TypeInv
  <1>1. CASE UNCHANGED vars
    BY <1>1 DEF vars, TypeOK, BottomInv
  <1>2. ASSUME NEW t \in Threads, NEW op \in Calls, NEW w \in Windows,
               LookUp(t, op, w)
        PROVE  TypeInv'
    BY <1>2, SameBottom DEF LookUp, TypeOK
  <1>3. ASSUME NEW t \in Threads, NEW w \in Windows, EnterWithGoneWindow(t, w)
        PROVE  TypeInv'
    BY <1>3, SameBottom DEF EnterWithGoneWindow, TypeOK
  <1>4. ASSUME NEW t \in Threads, GetMsgObjFails(t)
        PROVE  TypeInv'
    BY <1>4, SameBottom DEF GetMsgObjFails, Entered, TypeOK
  <1>5. ASSUME NEW t \in Threads, NEW w \in Windows, NEW n \in Nodes,
               MSQ_SendMessage(t, w, n)
        PROVE  TypeInv'
    <2>1. Owner[w] \in Threads BY OwnerAssumption
    <2>2. MSQ_InsertSendMsg(Owner[w], n, "SEND", t, w)
      BY <1>5 DEF MSQ_SendMessage
    <2>3. /\ frames' \in [Threads -> Seq(Frames)]
          /\ BottomInv'
      BY <1>5, PushFrame, FrameType DEF MSQ_SendMessage
    <2>4. replies' \in [Threads -> Seq(Nodes)]
      <3>1. replies[t] \in Seq(Nodes) BY DEF TypeOK
      <3>2. <<n>> \o replies[t] \in Seq(Nodes) BY <3>1, PushSeq
      <3> QED BY <1>5, <3>2 DEF MSQ_SendMessage, MSQ_InsertReplyMsg, TypeOK
    <2>5. call' \in [Threads -> [op : Calls, win : Windows] \cup {NULL}]
      BY <1>5 DEF MSQ_SendMessage, Entered, TypeOK
    <2>6. UNCHANGED <<info, window, postQ, blocked, fault>>
      BY <1>5 DEF MSQ_SendMessage
    <2> QED BY <2>1, <2>2, <2>3, <2>4, <2>5, <2>6, InsertSendType DEF TypeOK
  <1>6. ASSUME NEW t \in Threads, NEW w \in Windows, NEW n \in Nodes,
               MSQ_SendNotifyMessage(t, w, n)
        PROVE  TypeInv'
    <2>1. Owner[w] \in Threads BY OwnerAssumption
    <2>2. MSQ_InsertSendMsg(Owner[w], n, "NOTIFY", t, w)
      BY <1>6 DEF MSQ_SendNotifyMessage
    <2>3. call' \in [Threads -> [op : Calls, win : Windows] \cup {NULL}]
      BY <1>6 DEF MSQ_SendNotifyMessage, Entered, TypeOK
    <2>4. UNCHANGED <<info, window, postQ, replies, blocked, frames, fault>>
      BY <1>6 DEF MSQ_SendNotifyMessage
    <2> QED BY <2>1, <2>2, <2>3, <2>4, InsertSendType, SameBottom DEF TypeOK
  <1>7. ASSUME NEW t \in Threads, NEW w \in Windows, NEW n \in Nodes,
               MSQ_PostMessage(t, w, n)
        PROVE  TypeInv'
    <2>1. Owner[w] \in Threads BY OwnerAssumption
    <2>2. MSQ_InsertPostMsg(Owner[w], n, t, w)
      BY <1>7 DEF MSQ_PostMessage
    <2>3. call' \in [Threads -> [op : Calls, win : Windows] \cup {NULL}]
      BY <1>7 DEF MSQ_PostMessage, Entered, TypeOK
    <2>4. UNCHANGED <<info, window, sendQ, replies, blocked, frames, fault>>
      BY <1>7 DEF MSQ_PostMessage
    <2> QED BY <2>1, <2>2, <2>3, <2>4, InsertPostType, SameBottom DEF TypeOK
  <1>8. ASSUME NEW t \in Threads, NEW u \in Threads, NEW n \in Nodes,
               MSQ_PostThreadMessage(t, u, n)
        PROVE  TypeInv'
    <2>1. MSQ_InsertPostMsg(u, n, t, u) BY <1>8 DEF MSQ_PostThreadMessage
    <2>2. UNCHANGED <<info, window, sendQ, replies, blocked, frames, call, fault>>
      BY <1>8 DEF MSQ_PostThreadMessage
    <2> QED BY <2>1, <2>2, InsertPostType, SameBottom DEF TypeOK
  <1>9. ASSUME NEW t \in Threads, GetMessage(t)
        PROVE  TypeInv'
    <2>1. frames' \in [Threads -> Seq(Frames)] /\ BottomInv'
      BY <1>9, PushFrame, FrameType DEF GetMessage
    <2> QED BY <1>9, <2>1 DEF GetMessage, TypeOK
  <1>10. ASSUME NEW t \in Threads, PeekMessage(t)
         PROVE  TypeInv'
    <2>1. frames' \in [Threads -> Seq(Frames)] /\ BottomInv'
      BY <1>10, PushFrame, FrameType DEF PeekMessage
    <2> QED BY <1>10, <2>1 DEF PeekMessage, TypeOK
  <1>11. ASSUME NEW t \in Threads, NEW n \in Nodes, HandleSendMsg(t, n)
         PROVE  TypeInv'
    <2>1. frames' \in [Threads -> Seq(Frames)] /\ BottomInv'
      BY <1>11, PushFrame, FrameType DEF HandleSendMsg
    <2>2. /\ sendQ' \in [Threads -> SUBSET Nodes]
          /\ ahead' \in [Nodes -> SUBSET Nodes]
          /\ dwState' \in [Threads ->
               SUBSET {"QS_SENDMESSAGE", "QS_POSTMESSAGE", "QS_QUIT"}]
      BY <1>11 DEF HandleSendMsg, MSQ_GetSendMsg, Dequeue, TypeOK
    <2> QED BY <1>11, <2>1, <2>2 DEF HandleSendMsg, TypeOK
  <1>12. ASSUME NEW t \in Threads, MSQ_ReplyMessage(t)
         PROVE  TypeInv'
    <2>1. frames' \in [Threads -> Seq(Frames)] /\ BottomInv'
      BY <1>12, PopFrame DEF MSQ_ReplyMessage
    <2>2. /\ node' \in [Nodes -> NodeRecords]
          /\ bBlock' \in [Threads -> {"NO", "INGETMESSAGE", "INSENDMESSAGE"}]
          /\ sem' \in [Threads -> Nat]
      <3> DEFINE n == Top(t).arg
      <3>1. CASE /\ node' = [node EXCEPT ![n] = Free]
                 /\ UNCHANGED <<bBlock, sem>>
        BY <3>1, FreeRecord DEF TypeOK
      <3>2. CASE /\ node[n].type = "SEND"
                 /\ node' = [node EXCEPT ![n].type = "REPLY"]
                 /\ Wake(WaitersFor({n}) \cap {node[n].src})
        <4>1. n \in Nodes => [node[n] EXCEPT !.type = "REPLY"] \in NodeRecords
          <5>1. n \in Nodes => node[n] \in NodeRecords BY DEF TypeOK
          <5>2. node[n] # Free BY <3>2 DEF Free
          <5> QED BY <5>1, <5>2, ReplyRecord
        <4>2. node' \in [Nodes -> NodeRecords] BY <3>2, <4>1 DEF TypeOK
        <4>3. WaitersFor({n}) \cap {node[n].src} \subseteq Threads
          BY DEF WaitersFor, TypeOK
        <4> QED BY <3>2, <4>2, <4>3, TypeWake
      <3> QED BY <1>12, <3>1, <3>2 DEF MSQ_ReplyMessage
    <2> QED BY <1>12, <2>1, <2>2 DEF MSQ_ReplyMessage, TypeOK
  <1>13. ASSUME NEW t \in Threads, TakeReply(t)
         PROVE  TypeInv'
    <2>1. frames' \in [Threads -> Seq(Frames)] /\ BottomInv'
      BY <1>13, PopFrame DEF TakeReply, InLoop
    <2>2. replies' \in [Threads -> Seq(Nodes)]
      <3>1. replies[t] \in Seq(Nodes) BY DEF TypeOK
      <3>2. Tail(replies[t]) \in Seq(Nodes)
        BY <1>13, <3>1, PopSeq DEF TakeReply, ReplyReady
      <3> QED BY <1>13, <3>2 DEF TakeReply, TypeOK
    <2>3. node' \in [Nodes -> NodeRecords]
      BY <1>13, FreeRecord DEF TakeReply, TypeOK
    <2> QED BY <1>13, <2>1, <2>2, <2>3 DEF TakeReply, TypeOK
  <1>14. ASSUME NEW t \in Threads, NEW n \in Nodes, MSQ_GetPostMsg(t, n)
         PROVE  TypeInv'
    <2>1. frames' \in [Threads -> Seq(Frames)] /\ BottomInv'
      BY <1>14, PopFrame DEF MSQ_GetPostMsg, InLoop
    <2>2. /\ postQ' \in [Threads -> SUBSET Nodes]
          /\ ahead' \in [Nodes -> SUBSET Nodes]
          /\ dwState' \in [Threads ->
               SUBSET {"QS_SENDMESSAGE", "QS_POSTMESSAGE", "QS_QUIT"}]
          /\ node' \in [Nodes -> NodeRecords]
      BY <1>14, FreeRecord DEF MSQ_GetPostMsg, Dequeue, TypeOK
    <2> QED BY <1>14, <2>1, <2>2 DEF MSQ_GetPostMsg, TypeOK
  <1>15. ASSUME NEW t \in Threads, PeekNothing(t)
         PROVE  TypeInv'
    <2>1. frames' \in [Threads -> Seq(Frames)] /\ BottomInv'
      BY <1>15, PopFrame DEF PeekNothing, InLoop
    <2> QED BY <1>15, <2>1 DEF PeekNothing, TypeOK
  <1>16. ASSUME NEW t \in Threads, Block(t)
         PROVE  TypeInv'
    BY <1>16, SameBottom DEF Block, TypeOK
  <1>17. ASSUME NEW t \in Threads, Unblock(t)
         PROVE  TypeInv'
    BY <1>17, SameBottom DEF Unblock, BLOCK, TypeOK
  <1>18. ASSUME NEW t \in Threads, NEW w \in Windows, CreateWindow(t, w)
         PROVE  TypeInv'
    BY <1>18, SameBottom DEF CreateWindow, TypeOK
  <1>19. ASSUME NEW t \in Threads, NEW w \in Windows, WND_Destroy(t, w)
         PROVE  TypeInv'
    <2>1. frames' \in [Threads -> Seq(Frames)] /\ BottomInv'
      BY <1>19, PushFrame, FrameType DEF WND_Destroy
    <2> QED BY <1>19, <2>1 DEF WND_Destroy, TypeOK
  <1>20. ASSUME NEW t \in Threads, DestroyAWindow(t)
         PROVE  TypeInv'
    <2> DEFINE w == Top(t).arg
               sent == QueuedFor(w, sendQ[t])
               posted == QueuedFor(w, postQ[t])
               answered == {n \in sent : node[n].src \in info}
    <2>1. frames' \in [Threads -> Seq(Frames)] /\ BottomInv'
      BY <1>20, PopFrame DEF DestroyAWindow
    <2>2. node' \in [Nodes -> NodeRecords]
      <3>1. \A n \in answered : n \in Nodes /\ node[n] # Free
        BY DistinctAssumption DEF TypeOK, Free, QueuedFor
      <3>2. \A n \in answered : [node[n] EXCEPT !.type = "REPLY"] \in NodeRecords
        BY <3>1, ReplyRecord DEF TypeOK
      <3> QED BY <1>20, <3>2, FreeRecord DEF DestroyAWindow, TypeOK
    <2>3. /\ bBlock' \in [Threads -> {"NO", "INGETMESSAGE", "INSENDMESSAGE"}]
          /\ sem' \in [Threads -> Nat]
      <3>1. Wake(WaitersFor(answered)) BY <1>20 DEF DestroyAWindow
      <3>2. WaitersFor(answered) \subseteq Threads BY DEF WaitersFor, TypeOK
      <3> QED BY <3>1, <3>2, TypeWake
    <2>4. /\ window' \in [Windows -> {"none", "live", "destroying", "gone"}]
          /\ sendQ' \in [Threads -> SUBSET Nodes]
          /\ postQ' \in [Threads -> SUBSET Nodes]
          /\ ahead' \in [Nodes -> SUBSET Nodes]
      BY <1>20 DEF DestroyAWindow, Dequeue, TypeOK
    <2>5. dwState' \in [Threads ->
            SUBSET {"QS_SENDMESSAGE", "QS_POSTMESSAGE", "QS_QUIT"}]
      BY <1>20 DEF DestroyAWindow, TypeOK
    <2> QED BY <1>20, <2>1, <2>2, <2>3, <2>4, <2>5 DEF DestroyAWindow, TypeOK
  <1>21. ASSUME NEW t \in Threads, PostQuitMessage(t)
         PROVE  TypeInv'
    BY <1>21, SameBottom DEF PostQuitMessage, TypeOK
  <1>22. ASSUME NEW t \in Threads, WS_ThreadExit(t)
         PROVE  TypeInv'
    <2>1. frames[t] \in Seq(Frames) /\ frames[t] # <<>> /\ Len(frames[t]) = 2
      BY <1>22 DEF WS_ThreadExit, TypeOK, BottomInv
    <2>2. Tail(frames[t]) \in Seq(Frames) /\ Len(Tail(frames[t])) = 1
          /\ Tail(frames[t])[1] = frames[t][2]
      BY <2>1, PopSeq
    <2> DEFINE f == <<Frame("exit", NULL)>> \o Tail(frames[t])
    <2>3. f \in Seq(Frames) /\ Len(f) = 2 /\ f # <<>> /\ f[2] = frames[t][2]
      BY <2>2, PushSeq, FrameType
    <2>4. frames' = [frames EXCEPT ![t] = f] BY <1>22 DEF WS_ThreadExit
    <2>5. frames' \in [Threads -> Seq(Frames)] BY <2>3, <2>4 DEF TypeOK
    <2>6. BottomInv' BY <2>1, <2>3, <2>4 DEF BottomInv, TypeOK
    <2> QED BY <1>22, <2>5, <2>6 DEF WS_ThreadExit, TypeOK
  <1>23. ASSUME NEW t \in Threads, QuitInNestedLoop(t)
         PROVE  TypeInv'
    BY <1>23, SameBottom DEF QuitInNestedLoop, TypeOK
  <1>24. ASSUME NEW t \in Threads, THREADINFO_Destroy(t)
         PROVE  TypeInv'
    <2>1. frames' \in [Threads -> Seq(Frames)] /\ BottomInv'
      BY <1>24, PopFrame DEF THREADINFO_Destroy
    <2> QED BY <1>24, <2>1 DEF THREADINFO_Destroy, Dequeue, TypeOK
  <1> QED
    BY <1>1, <1>2, <1>3, <1>4, <1>5, <1>6, <1>7, <1>8, <1>9, <1>10, <1>11,
       <1>12, <1>13, <1>14, <1>15, <1>16, <1>17, <1>18, <1>19, <1>20, <1>21,
       <1>22, <1>23, <1>24
    DEF Next, Kernel, Application, DestroyWindow, WND_DestroyWindowsByThreadId

\* Every state of the program has the types of TypeOK.
THEOREM TypeCorrect == Spec => []TypeOK
PROOF
  <1>1. TypeInv => TypeOK BY DEF TypeInv
  <1> QED BY InitTypeInv, TypeStep, <1>1, PTL DEF Spec

-----------------------------------------------------------------------------
(* One wake-up for each block.                                             *)

\* A blocked thread is at the top of GetMessage or SendMessage, and bBlock says
\* which until somebody wakes it; one that is entering the monitor runs application
\* code.
BlockInv ==
  /\ OneWakeup
  /\ \A t \in Threads :
       /\ blocked[t] => Top(t).kind \in {"get", "wait"}
       /\ bBlock[t] = "INGETMESSAGE" => Top(t).kind = "get"
       /\ bBlock[t] = "INSENDMESSAGE" => Top(t).kind = "wait"
       /\ call[t] # NULL => Top(t).kind \in {"app", "proc", "destroy"}

\* Wakes nobody, or only threads that are blocked.
WakesBlocked ==
  \/ UNCHANGED <<bBlock, sem>>
  \/ \E S \in SUBSET Threads : Wake(S) /\ \A u \in S : bBlock[u] # "NO"

\* A step that leaves the frames of blocked threads alone and wakes only
\* blocked threads keeps BlockInv: whoever is woken had a semaphore at zero.
LEMMA BlockKept ==
  ASSUME TypeOK, BlockInv, NEW t \in Threads, ~blocked[t],
         \A u \in Threads : u # t => frames'[u] = frames[u],
         \A u \in Threads : u # t => call'[u] = call[u], call'[t] = NULL,
         UNCHANGED blocked, WakesBlocked
  PROVE  BlockInv'
PROOF
  <1>1. \A u \in Threads : u # t => Top(u)' = Top(u) BY DEF Top
  <1>2. bBlock[t] = "NO" /\ sem[t] = 0 BY DEF BlockInv, OneWakeup
  <1>3. CASE UNCHANGED <<bBlock, sem>>
    BY <1>1, <1>2, <1>3 DEF BlockInv, OneWakeup
  <1>4. ASSUME NEW S \in SUBSET Threads, Wake(S), \A u \in S : bBlock[u] # "NO"
        PROVE  BlockInv'
    <2>1. \A u \in S : bBlock'[u] = "NO" /\ sem'[u] = 1 /\ blocked'[u]
      BY <1>4 DEF BlockInv, OneWakeup, Wake
    <2>2. \A u \in Threads \ S : bBlock'[u] = bBlock[u] /\ sem'[u] = sem[u]
      BY <1>4 DEF Wake
    <2>3. t \notin S BY <1>2, <1>4
    <2> SUFFICES ASSUME NEW u \in Threads
                 PROVE  /\ bBlock'[u] # "NO" => blocked'[u] /\ sem'[u] = 0
                        /\ blocked'[u] /\ bBlock'[u] = "NO" => sem'[u] = 1
                        /\ ~blocked'[u] => sem'[u] = 0
                        /\ blocked'[u] => Top(u)'.kind \in {"get", "wait"}
                        /\ bBlock'[u] = "INGETMESSAGE" => Top(u)'.kind = "get"
                        /\ bBlock'[u] = "INSENDMESSAGE" => Top(u)'.kind = "wait"
                        /\ call'[u] # NULL =>
                             Top(u)'.kind \in {"app", "proc", "destroy"}
      BY DEF BlockInv, OneWakeup
    <2>4. CASE u \in S
      BY <2>1, <2>3, <2>4, <1>1 DEF BlockInv, OneWakeup
    <2>5. CASE u \notin S
      BY <2>2, <2>5, <1>1, <1>2 DEF BlockInv, OneWakeup
    <2> QED BY <2>4, <2>5
  <1> QED BY <1>3, <1>4 DEF WakesBlocked

\* A call that waits to enter the monitor is not NULL.
LEMMA PendingCall ==
  ASSUME NEW op \in AllCalls, NEW w \in Windows
  PROVE  [op |-> op, win |-> w] # NULL
  BY DistinctAssumption

\* A call or a return changes the frames of its own thread only.
LEMMA OtherFrames ==
  ASSUME TypeOK, NEW t \in Threads,
         \/ \E f \in Frames : Push(t, f)
         \/ Return(t)
  PROVE  \A u \in Threads : u # t => frames'[u] = frames[u]
  BY DEF TypeOK, Push, Return

\* A step that leaves all of it alone keeps BlockInv.
LEMMA BlockSame ==
  ASSUME BlockInv, UNCHANGED <<bBlock, sem, blocked, frames>>,
         \A u \in Threads : call'[u] # NULL => call[u] # NULL \/ Running(u)
  PROVE  BlockInv'
  BY DEF BlockInv, OneWakeup, Top, Running

\* The insertions wake their receiver only if it is blocked.
LEMMA InsertWakesBlocked ==
  ASSUME NEW t \in Threads, NEW u \in Threads, NEW n, NEW k, NEW d,
         \/ MSQ_InsertSendMsg(u, n, k, t, d)
         \/ MSQ_InsertPostMsg(u, n, t, d)
  PROVE  WakesBlocked
PROOF
  <1>1. CASE MSQ_InsertSendMsg(u, n, k, t, d)
    <2> DEFINE S == {u} \cap {v \in Threads : ISBLOCK(v)}
    <2>1. Wake(S) /\ S \in SUBSET Threads /\ \A v \in S : bBlock[v] # "NO"
      BY <1>1 DEF MSQ_InsertSendMsg, ISBLOCK
    <2> QED BY <2>1 DEF WakesBlocked
  <1>2. CASE MSQ_InsertPostMsg(u, n, t, d)
    <2> DEFINE S == {u} \cap {v \in Threads : ISBLOCKINGET(v)}
    <2>1. Wake(S) /\ S \in SUBSET Threads /\ \A v \in S : bBlock[v] # "NO"
      BY <1>2 DEF MSQ_InsertPostMsg, ISBLOCKINGET
    <2> QED BY <2>1 DEF WakesBlocked
  <1> QED BY <1>1, <1>2

\* So do a reply and the deletion of a window's messages.
LEMMA WaitersBlocked ==
  ASSUME TypeOK, NEW S, NEW R, R \subseteq WaitersFor(S), Wake(R)
  PROVE  WakesBlocked
PROOF
  <1>1. R \in SUBSET Threads /\ \A v \in R : bBlock[v] # "NO"
    BY DEF WaitersFor, ISBLOCKINSEND, TypeOK
  <1> QED BY <1>1 DEF WakesBlocked


\* Every step keeps BlockInv: only threads that are not blocked change their
\* frames, and only blocked ones are woken.
THEOREM BlockStep == TypeInv /\ BlockInv /\ [Next]_vars => BlockInv'
PROOF
  <1> SUFFICES ASSUME TypeInv, BlockInv, [Next]_vars PROVE BlockInv'
    OBVIOUS
  <1>a. TypeOK BY DEF TypeInv
  <1>b. \A t \in Threads : call[t] # NULL \/ Running(t) => ~blocked[t]
    BY DEF BlockInv, Running
  <1>c. \A t \in Threads :
          Top(t).kind \in {"get", "peek", "wait", "exit"} => call[t] = NULL
    BY DEF BlockInv
  <1>1. CASE UNCHANGED vars BY <1>1, BlockSame DEF vars
  <1>2. ASSUME NEW t \in Threads, NEW op \in Calls, NEW w \in Windows,
               LookUp(t, op, w)
        PROVE  BlockInv'
    <2>1. \A u \in Threads : call'[u] # NULL => call[u] # NULL \/ Running(u)
      BY <1>2, <1>a DEF LookUp, TypeOK
    <2> QED BY <1>2, <2>1, BlockSame DEF LookUp
  <1>3. ASSUME NEW t \in Threads, NEW w \in Windows,
               EnterWithGoneWindow(t, w)
        PROVE  BlockInv'
    BY <1>3, <1>a, BlockSame DEF EnterWithGoneWindow
  <1>4. ASSUME NEW t \in Threads,
               GetMsgObjFails(t)
        PROVE  BlockInv'
    <2>1. \A u \in Threads : call'[u] # NULL => call[u] # NULL
      BY <1>4, <1>a DEF GetMsgObjFails, Entered, TypeOK
    <2> QED BY <1>4, <2>1, BlockSame DEF GetMsgObjFails
  <1>5. ASSUME NEW t \in Threads, NEW w \in Windows, NEW n \in Nodes,
               MSQ_SendMessage(t, w, n)
        PROVE  BlockInv'
    <2>1. WakesBlocked
      BY <1>5, OwnerAssumption, InsertWakesBlocked DEF MSQ_SendMessage
    <2>2. \A u \in Threads : u # t => frames'[u] = frames[u]
      BY <1>5, <1>a, FrameType, OtherFrames DEF MSQ_SendMessage
    <2>3. ~blocked[t]
      BY <1>5, <1>b, PendingCall DEF AllCalls, MSQ_SendMessage, Entered
    <2>4. (\A u \in Threads : u # t => call'[u] = call[u]) /\ call'[t] = NULL
      BY <1>5, <1>a DEF MSQ_SendMessage, Entered, TypeOK
    <2>5. UNCHANGED blocked BY <1>5 DEF MSQ_SendMessage
    <2> QED BY <1>a, <2>1, <2>2, <2>3, <2>4, <2>5, BlockKept
  <1>6. ASSUME NEW t \in Threads, NEW w \in Windows, NEW n \in Nodes,
               MSQ_SendNotifyMessage(t, w, n)
        PROVE  BlockInv'
    <2>1. WakesBlocked
      BY <1>6, OwnerAssumption, InsertWakesBlocked DEF MSQ_SendNotifyMessage
    <2>2. \A u \in Threads : u # t => frames'[u] = frames[u]
      BY <1>6, <1>a DEF MSQ_SendNotifyMessage
    <2>3. ~blocked[t]
      BY <1>6, <1>b, PendingCall DEF AllCalls, MSQ_SendNotifyMessage, Entered
    <2>4. (\A u \in Threads : u # t => call'[u] = call[u]) /\ call'[t] = NULL
      BY <1>6, <1>a DEF MSQ_SendNotifyMessage, Entered, TypeOK
    <2>5. UNCHANGED blocked BY <1>6 DEF MSQ_SendNotifyMessage
    <2> QED BY <1>a, <2>1, <2>2, <2>3, <2>4, <2>5, BlockKept
  <1>7. ASSUME NEW t \in Threads, NEW w \in Windows, NEW n \in Nodes,
               MSQ_PostMessage(t, w, n)
        PROVE  BlockInv'
    <2>1. WakesBlocked
      BY <1>7, OwnerAssumption, InsertWakesBlocked DEF MSQ_PostMessage
    <2>2. \A u \in Threads : u # t => frames'[u] = frames[u]
      BY <1>7, <1>a DEF MSQ_PostMessage
    <2>3. ~blocked[t]
      BY <1>7, <1>b, PendingCall DEF AllCalls, MSQ_PostMessage, Entered
    <2>4. (\A u \in Threads : u # t => call'[u] = call[u]) /\ call'[t] = NULL
      BY <1>7, <1>a DEF MSQ_PostMessage, Entered, TypeOK
    <2>5. UNCHANGED blocked BY <1>7 DEF MSQ_PostMessage
    <2> QED BY <1>a, <2>1, <2>2, <2>3, <2>4, <2>5, BlockKept
  <1>8. ASSUME NEW t \in Threads, NEW u \in Threads, NEW n \in Nodes,
               MSQ_PostThreadMessage(t, u, n)
        PROVE  BlockInv'
    <2>1. WakesBlocked
      BY <1>8, InsertWakesBlocked DEF MSQ_PostThreadMessage
    <2>2. ~blocked[t] /\ call[t] = NULL
      BY <1>8, <1>b DEF MSQ_PostThreadMessage, Running
    <2>3. UNCHANGED <<blocked, call, frames>> BY <1>8 DEF MSQ_PostThreadMessage
    <2> QED BY <1>a, <2>1, <2>2, <2>3, BlockKept
  <1>9. ASSUME NEW t \in Threads,
               GetMessage(t)
        PROVE  BlockInv'
    <2>1. \A u \in Threads : u # t => frames'[u] = frames[u]
      BY <1>9, <1>a, FrameType, OtherFrames DEF GetMessage
    <2>2. ~blocked[t] /\ call[t] = NULL
      BY <1>9, <1>b, <1>c DEF GetMessage, Running
    <2>3. UNCHANGED <<blocked, call>> /\ WakesBlocked BY <1>9 DEF GetMessage, WakesBlocked
    <2> QED BY <1>a, <2>1, <2>2, <2>3, BlockKept
  <1>10. ASSUME NEW t \in Threads,
               PeekMessage(t)
        PROVE  BlockInv'
    <2>1. \A u \in Threads : u # t => frames'[u] = frames[u]
      BY <1>10, <1>a, FrameType, OtherFrames DEF PeekMessage
    <2>2. ~blocked[t] /\ call[t] = NULL
      BY <1>10, <1>b, <1>c DEF PeekMessage, Running
    <2>3. UNCHANGED <<blocked, call>> /\ WakesBlocked BY <1>10 DEF PeekMessage, WakesBlocked
    <2> QED BY <1>a, <2>1, <2>2, <2>3, BlockKept
  <1>11. ASSUME NEW t \in Threads, NEW n \in Nodes,
               HandleSendMsg(t, n)
        PROVE  BlockInv'
    <2>1. \A u \in Threads : u # t => frames'[u] = frames[u]
      BY <1>11, <1>a, FrameType, OtherFrames DEF HandleSendMsg
    <2>2. ~blocked[t] /\ call[t] = NULL
      BY <1>11, <1>b, <1>c DEF HandleSendMsg, InLoop
    <2>3. UNCHANGED <<blocked, call>> /\ WakesBlocked BY <1>11 DEF HandleSendMsg, WakesBlocked
    <2> QED BY <1>a, <2>1, <2>2, <2>3, BlockKept
  <1>12. ASSUME NEW t \in Threads,
               MSQ_ReplyMessage(t)
        PROVE  BlockInv'
    <2>1. \A u \in Threads : u # t => frames'[u] = frames[u]
      BY <1>12, <1>a, OtherFrames DEF MSQ_ReplyMessage
    <2>2. ~blocked[t] /\ call[t] = NULL
      BY <1>12, <1>b DEF MSQ_ReplyMessage, Running
    <2>3. WakesBlocked
      <3> DEFINE n == Top(t).arg
      <3>1. CASE UNCHANGED <<bBlock, sem>> BY <3>1 DEF WakesBlocked
      <3>2. CASE Wake(WaitersFor({n}) \cap {node[n].src})
        BY <3>2, <1>a, WaitersBlocked
      <3> QED BY <1>12, <3>1, <3>2 DEF MSQ_ReplyMessage
    <2>4. UNCHANGED <<blocked, call>> BY <1>12 DEF MSQ_ReplyMessage
    <2> QED BY <1>a, <2>1, <2>2, <2>3, <2>4, BlockKept
  <1>13. ASSUME NEW t \in Threads,
               TakeReply(t)
        PROVE  BlockInv'
    <2>1. \A u \in Threads : u # t => frames'[u] = frames[u]
      BY <1>13, <1>a, OtherFrames DEF TakeReply
    <2>2. ~blocked[t] /\ call[t] = NULL
      BY <1>13, <1>b, <1>c DEF TakeReply, InLoop
    <2>3. UNCHANGED <<blocked, call>> /\ WakesBlocked BY <1>13 DEF TakeReply, WakesBlocked
    <2> QED BY <1>a, <2>1, <2>2, <2>3, BlockKept
  <1>14. ASSUME NEW t \in Threads, NEW n \in Nodes,
               MSQ_GetPostMsg(t, n)
        PROVE  BlockInv'
    <2>1. \A u \in Threads : u # t => frames'[u] = frames[u]
      BY <1>14, <1>a, OtherFrames DEF MSQ_GetPostMsg
    <2>2. ~blocked[t] /\ call[t] = NULL
      BY <1>14, <1>b, <1>c DEF MSQ_GetPostMsg, InLoop
    <2>3. UNCHANGED <<blocked, call>> /\ WakesBlocked BY <1>14 DEF MSQ_GetPostMsg, WakesBlocked
    <2> QED BY <1>a, <2>1, <2>2, <2>3, BlockKept
  <1>15. ASSUME NEW t \in Threads,
               PeekNothing(t)
        PROVE  BlockInv'
    <2>1. \A u \in Threads : u # t => frames'[u] = frames[u]
      BY <1>15, <1>a, OtherFrames DEF PeekNothing
    <2>2. ~blocked[t] /\ call[t] = NULL
      BY <1>15, <1>b, <1>c DEF PeekNothing, InLoop
    <2>3. UNCHANGED <<blocked, call>> /\ WakesBlocked BY <1>15 DEF PeekNothing, WakesBlocked
    <2> QED BY <1>a, <2>1, <2>2, <2>3, BlockKept
  <1>16. ASSUME NEW t \in Threads,
               Block(t)
        PROVE  BlockInv'
    <2>1. sem[t] = 0 /\ Top(t).kind \in {"get", "wait"}
      BY <1>16 DEF Block, InLoop, BlockInv, OneWakeup
    <2>2. \A u \in Threads : Top(u)' = Top(u) BY <1>16 DEF Block, Top
    <2> QED BY <1>16, <1>a, <2>1, <2>2 DEF Block, InLoop, BlockInv, OneWakeup, TypeOK
  <1>17. ASSUME NEW t \in Threads,
               Unblock(t)
        PROVE  BlockInv'
    <2>1. bBlock[t] = "NO" /\ sem[t] = 1
      BY <1>17, <1>a DEF Unblock, BLOCK, BlockInv, OneWakeup, TypeOK
    <2>2. \A u \in Threads : Top(u)' = Top(u) BY <1>17 DEF Unblock, Top
    <2> QED
      BY <1>17, <1>a, <2>1, <2>2 DEF Unblock, BLOCK, BlockInv, OneWakeup, TypeOK
  <1>18. ASSUME NEW t \in Threads, NEW w \in Windows,
               CreateWindow(t, w)
        PROVE  BlockInv'
    BY <1>18, <1>a, BlockSame DEF CreateWindow
  <1>19. ASSUME NEW t \in Threads, NEW w \in Windows,
               WND_Destroy(t, w), Running(t) \/ Top(t).kind = "exit"
        PROVE  BlockInv'
    <2>1. \A u \in Threads : u # t => frames'[u] = frames[u]
      BY <1>19, <1>a, FrameType, OtherFrames DEF WND_Destroy
    <2>2. ~blocked[t] /\ call[t] = NULL
      BY <1>19, <1>b, <1>c DEF BlockInv, Running
    <2>3. UNCHANGED <<blocked, call>> /\ WakesBlocked
      BY <1>19 DEF WND_Destroy, WakesBlocked
    <2> QED BY <1>a, <2>1, <2>2, <2>3, BlockKept
  <1>20. ASSUME NEW t \in Threads,
               DestroyAWindow(t)
        PROVE  BlockInv'
    <2>1. \A u \in Threads : u # t => frames'[u] = frames[u]
      BY <1>20, <1>a, OtherFrames DEF DestroyAWindow
    <2>2. ~blocked[t] /\ call[t] = NULL
      BY <1>20, <1>b DEF DestroyAWindow, Running
    <2>3. WakesBlocked BY <1>20, <1>a, WaitersBlocked DEF DestroyAWindow
    <2>4. UNCHANGED <<blocked, call>> BY <1>20 DEF DestroyAWindow
    <2> QED BY <1>a, <2>1, <2>2, <2>3, <2>4, BlockKept
  <1>21. ASSUME NEW t \in Threads,
               PostQuitMessage(t)
        PROVE  BlockInv'
    BY <1>21, <1>a, BlockSame DEF PostQuitMessage
  <1>22. ASSUME NEW t \in Threads,
               WS_ThreadExit(t)
        PROVE  BlockInv'
    <2>1. \A u \in Threads : u # t => frames'[u] = frames[u]
      BY <1>22, <1>a DEF WS_ThreadExit, TypeOK
    <2>2. ~blocked[t] /\ call[t] = NULL
      BY <1>22, <1>c DEF WS_ThreadExit, Quits, InLoop
    <2>3. UNCHANGED <<blocked, call>> /\ WakesBlocked
      BY <1>22 DEF WS_ThreadExit, WakesBlocked
    <2> QED BY <1>a, <2>1, <2>2, <2>3, BlockKept
  <1>23. ASSUME NEW t \in Threads,
               QuitInNestedLoop(t)
        PROVE  BlockInv'
    BY <1>23, <1>a, BlockSame DEF QuitInNestedLoop
  <1>24. ASSUME NEW t \in Threads,
               THREADINFO_Destroy(t)
        PROVE  BlockInv'
    <2>1. \A u \in Threads : u # t => frames'[u] = frames[u]
      BY <1>24, <1>a, OtherFrames DEF THREADINFO_Destroy
    <2>2. ~blocked[t] /\ call[t] = NULL
      BY <1>24, <1>c DEF THREADINFO_Destroy, BlockInv
    <2>3. UNCHANGED <<blocked, call>> /\ WakesBlocked
      BY <1>24 DEF THREADINFO_Destroy, WakesBlocked
    <2> QED BY <1>a, <2>1, <2>2, <2>3, BlockKept
  <1> QED
    BY <1>1, <1>2, <1>3, <1>4, <1>5, <1>6, <1>7, <1>8, <1>9, <1>10, <1>11, <1>12,
       <1>13, <1>14, <1>15, <1>16, <1>17, <1>18, <1>19, <1>20, <1>21, <1>22, <1>23, <1>24
    DEF Next, Kernel, Application, DestroyWindow, WND_DestroyWindowsByThreadId

\* A sleeping thread is woken once: nobody releases its semaphore twice for one
\* block, and no count is left over.
THEOREM WakeupCorrect == Spec => []OneWakeup
PROOF
  <1>1. Init => BlockInv
    BY DEF Init, BlockInv, OneWakeup, Top, App, Frame
  <1>2. BlockInv => OneWakeup BY DEF BlockInv
  <1> QED BY InitTypeInv, TypeStep, BlockStep, <1>1, <1>2, PTL DEF Spec
=============================================================================
