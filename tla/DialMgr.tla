------------------------------ MODULE DialMgr ------------------------------
(***************************************************************************)
(* The dial manager (dialer/dialmgr.c), which shares the dialer among the  *)
(* applications, and its two clients as far as they dial and hang up: the  *)
(* MMS application (MmsProtocol.c), which waits when the line is taken,    *)
(* and the mail application (MailDial.c), which does not.                  *)
(*                                                                         *)
(* The queues of dial requests are sequences of clients: a client always   *)
(* dials the same Info.  A call of a client and the procedure of a message *)
(* are one action each.                                                    *)
(***************************************************************************)
EXTENDS DialCtrl

CONSTANTS
  Info,        \* what each client dials
  Waiters,     \* the clients that pass bWait (MMS); the others are like mail
  HangsUp,     \* the clients whose user hangs up
  QUEUE_SIZE   \* of the rings, one more than they hold (10)

ASSUME InfoAssumption == Info \in [Clients -> Infos]
ASSUME WaitersAssumption == Waiters \subseteq Clients /\ HangsUp \subseteq Clients
ASSUME QueueAssumption == QUEUE_SIZE \in Nat /\ QUEUE_SIZE >= 2

VARIABLES
  nCurrentState,     \* IDLE, DIALING, CONNECTED or HANGUPING
  CurrentDialQueue,  \* the clients of the current dial
  DialWaitQueue,     \* the clients that wait for another one
  nConnectState      \* what each client takes its connection to be

mgrVars == <<nCurrentState, CurrentDialQueue, DialWaitQueue>>
vars == <<dialerVars, mgrVars, nConnectState>>

DialStates == {"IDLE", "DIALING", "CONNECTED", "HANGUPING"}

Full(queue) == Len(queue) >= QUEUE_SIZE - 1
Has(queue, c) == \E i \in DOMAIN queue : queue[i] = c

\* Queue without the first place of c.
Without(queue, c) ==
  LET first == CHOOSE i \in DOMAIN queue :
                 queue[i] = c /\ \A j \in 1..i - 1 : queue[j] # c
  IN SubSeq(queue, 1, first - 1) \o SubSeq(queue, first + 1, Len(queue))

\* A mutant of MessageTo that leaves out the first of the queue.
Bug_MessageTo(queue, msg) ==
  [i \in 1..Len(queue) - 1 |-> Message(queue[i + 1], msg)]

\* PostQueueMessage.
MessageTo(queue, msg) == [i \in DOMAIN queue |-> Message(queue[i], msg)]

-----------------------------------------------------------------------------
\* A mutant of MgrAbnormal that tells the current clients only.
Bug_MgrAbnormal ==
  /\ Got("mgr", "NET_ABNORMAL")
  /\ posted' = Rest \o MessageTo(CurrentDialQueue, "NET_ABNORMAL")
  /\ nCurrentState' = "IDLE"
  /\ CurrentDialQueue' = <<>>
  /\ UNCHANGED <<DialWaitQueue, nConnectState, Run_Info, DialInfo, timers,
                 awake, mac>>

-----------------------------------------------------------------------------
(* DIALMGR_SelConnect.                                                     *)

Shares(c) == nCurrentState \in {"CONNECTED", "DIALING"} /\ SameInfo(Info[c])

\* The call of client c when q is posted; accepted requests leave the client
\* dialling, refused ones idle.
DIALMGR_SelConnect(c, q) ==
  \/ /\ nCurrentState = "IDLE"
     /\ DIALER_SelConnect(Info[c], q)
     /\ nCurrentState' = "DIALING"
     /\ CurrentDialQueue' = Append(CurrentDialQueue, c)
     /\ nConnectState' = [nConnectState EXCEPT ![c] = "DIALING"]
     /\ UNCHANGED DialWaitQueue
  \/ /\ Shares(c)
     /\ ~Full(CurrentDialQueue)
     /\ CurrentDialQueue' = Append(CurrentDialQueue, c)
     /\ posted' = IF nCurrentState = "CONNECTED"
                    THEN Append(q, Message(c, "NETCONNECT")) ELSE q
     /\ nConnectState' = [nConnectState EXCEPT ![c] = "DIALING"]
     /\ UNCHANGED <<nCurrentState, DialWaitQueue, Run_Info, DialInfo, timers,
                    awake, mac>>
  \/ /\ nCurrentState # "IDLE" /\ ~Shares(c)
     /\ c \in Waiters /\ ~Full(DialWaitQueue)
     /\ DialWaitQueue' = Append(DialWaitQueue, c)
     /\ posted' = q
     /\ nConnectState' = [nConnectState EXCEPT ![c] = "DIALING"]
     /\ UNCHANGED <<nCurrentState, CurrentDialQueue, Run_Info, DialInfo,
                    timers, awake, mac>>
  \/ /\ CASE nCurrentState = "IDLE" -> Refuses
          [] Shares(c) -> Full(CurrentDialQueue)
          [] OTHER -> c \notin Waiters \/ Full(DialWaitQueue)
     /\ posted' = q
     /\ nConnectState' = [nConnectState EXCEPT ![c] = "IDLE"]
     /\ UNCHANGED <<mgrVars, Run_Info, DialInfo, timers, awake, mac>>

-----------------------------------------------------------------------------
(* DIALMGR_HangUp.                                                         *)

Sole(c) == Has(CurrentDialQueue, c) /\ Len(CurrentDialQueue) = 1
Listed(c) == Has(CurrentDialQueue, c) \/ Has(DialWaitQueue, c)

\* The only client of the current dial ends it.
HangUpDial(c) ==
  /\ Sole(c)
  /\ \E msg \in HangUpMessages : posted' = Append(posted, Message("ctrl", msg))
  /\ nCurrentState' = "HANGUPING"
  /\ UNCHANGED <<CurrentDialQueue, DialWaitQueue>>

\* One of several, or one that waits, leaves its queue.
LeaveQueue(c) ==
  /\ Listed(c) /\ ~Sole(c)
  /\ posted' = Append(posted, Message(c, "NETBROKEN"))
  /\ IF Has(CurrentDialQueue, c)
       THEN /\ CurrentDialQueue' = Without(CurrentDialQueue, c)
            /\ UNCHANGED DialWaitQueue
       ELSE /\ DialWaitQueue' = Without(DialWaitQueue, c)
            /\ UNCHANGED CurrentDialQueue
  /\ UNCHANGED nCurrentState

HangUpRefused(c) == IF Sole(c) THEN HangUpMessages = {} ELSE ~Listed(c)

-----------------------------------------------------------------------------
(* DialMgrWindowProc.                                                      *)

MgrConnect ==
  /\ Got("mgr", "NETCONNECT")
  /\ IF nCurrentState = "DIALING"
       THEN /\ nCurrentState' = "CONNECTED"
            /\ posted' = Rest \o MessageTo(CurrentDialQueue, "NETCONNECT")
       ELSE Silent /\ UNCHANGED nCurrentState
  /\ UNCHANGED <<CurrentDialQueue, DialWaitQueue, nConnectState, Run_Info,
                 DialInfo, timers, awake, mac>>

\* The clients behind the one that is dialled for that join its dial: the loop
\* compares what it is dialling with the first place of the current queue,
\* where the loop itself puts the first of them.
Joining(waiting) ==
  IF waiting # <<>> /\ Info[Head(waiting)] # DialInfo'.src
    THEN 1 ELSE Len(waiting)

\* Everybody on the current dial is told; then the waiting clients are served:
\* the first k are refused and told too, the next one is dialled for.  It is
\* copied to the current queue, but the tail of the queue does not move.
MgrBroken ==
  /\ Got("mgr", "NETBROKEN")
  /\ \E k \in 0..Len(DialWaitQueue) :
       LET told == Rest \o MessageTo(CurrentDialQueue, "NETBROKEN")
                        \o MessageTo(SubSeq(DialWaitQueue, 1, k), "NETBROKEN")
           waiting == SubSeq(DialWaitQueue, k + 2, Len(DialWaitQueue))
       IN /\ k > 0 => Refuses
          /\ \/ /\ k = Len(DialWaitQueue)
                /\ posted' = told
                /\ nCurrentState' = "IDLE"
                /\ CurrentDialQueue' = <<>>
                /\ DialWaitQueue' = <<>>
                /\ UNCHANGED <<Run_Info, DialInfo, timers, awake, mac>>
             \/ /\ k < Len(DialWaitQueue)
                /\ DIALER_SelConnect(Info[DialWaitQueue[k + 1]], told)
                /\ nCurrentState' = "DIALING"
                /\ CurrentDialQueue' = SubSeq(waiting, 1, Joining(waiting))
                /\ DialWaitQueue' =
                     SubSeq(waiting, Joining(waiting) + 1, Len(waiting))
  /\ UNCHANGED nConnectState

MgrAbnormal ==
  /\ Got("mgr", "NET_ABNORMAL")
  /\ posted' = Rest \o MessageTo(CurrentDialQueue, "NET_ABNORMAL")
                    \o MessageTo(DialWaitQueue, "NET_ABNORMAL")
  /\ nCurrentState' = "IDLE"
  /\ CurrentDialQueue' = <<>>
  /\ DialWaitQueue' = <<>>
  /\ UNCHANGED <<nConnectState, Run_Info, DialInfo, timers, awake, mac>>

DialMgrWindowProc == MgrConnect \/ MgrBroken \/ MgrAbnormal

-----------------------------------------------------------------------------
(* The clients.                                                            *)

Room == Len(posted) < MaxPosted

\* MMS dials when it is idle; mail also when it is on line already, but only
\* after it has found the dialer idle: otherwise it becomes idle itself.
Dial(c) ==
  /\ Room
  /\ \/ /\ c \in Waiters
        /\ nConnectState[c] = "IDLE"
        /\ DIALMGR_SelConnect(c, posted)
     \/ /\ c \notin Waiters
        /\ nConnectState[c] # "DIALING"
        /\ Run_Info.run_state = "INVALID"
        /\ DIALMGR_SelConnect(c, posted)
     \/ /\ c \notin Waiters
        /\ nConnectState[c] # "DIALING"
        /\ Run_Info.run_state # "INVALID"
        /\ nConnectState' = [nConnectState EXCEPT ![c] = "IDLE"]
        /\ UNCHANGED <<dialerVars, mgrVars>>

\* MMS hangs up once; refused, it posts itself the report.
MmsHangUp(c) ==
  /\ Room
  /\ c \in HangsUp \cap Waiters
  /\ nConnectState[c] \in {"DIALING", "CONNECTED"}
  /\ nConnectState' = [nConnectState EXCEPT ![c] = "HANGUPING"]
  /\ \/ HangUpDial(c)
     \/ LeaveQueue(c)
     \/ /\ HangUpRefused(c)
        /\ posted' = Append(posted, Message(c, "NET_ABNORMAL"))
        /\ UNCHANGED mgrVars
  /\ UNCHANGED <<Run_Info, DialInfo, timers, awake, mac>>

\* Mail hangs up whenever the dialer is at work, and waits for the report.
MailHangUp(c) ==
  /\ Room
  /\ c \in HangsUp \ Waiters
  /\ nConnectState[c] # "IDLE"
  /\ Run_Info.run_state \in {"DIAL", "LOGIN", "PPP", "NET"}
  /\ HangUpDial(c) \/ LeaveQueue(c)
  /\ UNCHANGED <<nConnectState, Run_Info, DialInfo, timers, awake, mac>>

\* MMS takes NETCONNECT only while it dials.
ClientConnect(c) ==
  /\ Got(c, "NETCONNECT")
  /\ nConnectState' = [nConnectState EXCEPT ![c] =
       IF c \in Waiters /\ @ # "DIALING" THEN @ ELSE "CONNECTED"]
  /\ Silent
  /\ UNCHANGED <<mgrVars, Run_Info, DialInfo, timers, awake, mac>>

\* NETBROKEN or NET_ABNORMAL: MMS may dial again at once, if it was dialling
\* (a few times) or hanging up (with messages to send).
ClientBroken(c) ==
  /\ Got(c, "NETBROKEN") \/ Got(c, "NET_ABNORMAL")
  /\ \/ /\ nConnectState' = [nConnectState EXCEPT ![c] = "IDLE"]
        /\ Silent
        /\ UNCHANGED <<mgrVars, Run_Info, DialInfo, timers, awake, mac>>
     \/ /\ c \in Waiters
        /\ nConnectState[c] \in {"DIALING", "HANGUPING"}
        /\ DIALMGR_SelConnect(c, Rest)

Client(c) == ClientConnect(c) \/ ClientBroken(c)

-----------------------------------------------------------------------------
Init ==
  /\ DialerInit
  /\ nCurrentState = "IDLE"
  /\ CurrentDialQueue = <<>>
  /\ DialWaitQueue = <<>>
  /\ nConnectState = [c \in Clients |-> "IDLE"]

Dialer == dial_Ctl_Proc /\ UNCHANGED <<mgrVars, nConnectState>>
MacLayer == Mac /\ UNCHANGED <<mgrVars, nConnectState>>
Procs == Dialer \/ DialMgrWindowProc \/ \E c \in Clients : Client(c)
Users == \E c \in Clients : Dial(c) \/ MmsHangUp(c) \/ MailHangUp(c)

Next == Procs \/ MacLayer \/ Users

Spec == Init /\ [][Next]_vars

\* The users end no dial that is being ended already: whoever shares the dial
\* or is refused can otherwise hang up again before the first hang-up is done.
HangUpOnce == \A c \in Clients : HangUpDial(c) => nCurrentState # "HANGUPING"

CalmSpec == Init /\ [][Next /\ HangUpOnce]_vars

\* The thread runs its message loop; a timer that is set fires; scripts end
\* (each of their steps has a time limit); PPP answers, and stops when told to.
FairSpec ==
  /\ Spec
  /\ WF_vars(Procs)
  /\ WF_vars(MacLayer /\ mac.script # "none" /\ mac'.script = "none")
  /\ WF_vars(MacLayer /\ mac.network \in {"starting", "stopping"}
                     /\ mac'.network \in {"up", "down"} /\ mac'.line = mac.line)

TypeOK ==
  /\ DialerTypeOK
  /\ nCurrentState \in DialStates
  /\ CurrentDialQueue \in Seq(Clients)
  /\ DialWaitQueue \in Seq(Clients)
  /\ nConnectState \in [Clients -> DialStates]

-----------------------------------------------------------------------------
(* Safety.                                                                 *)

Posted(to, msgs) == \E i \in DOMAIN posted :
                      posted[i].to = to /\ posted[i].msg \in msgs
Ends == {"NETBROKEN", "NET_ABNORMAL"}

\* Clients wait only for a dial that is in progress: the queue is served when
\* that dial ends, and by nothing else, so whoever waited without one would
\* wait for ever.
WaitersHaveADial == DialWaitQueue # <<>> => nCurrentState # "IDLE"

\* While the manager counts on the dialer, the dialer is at work, or about to
\* start, or its last report is on its way: it never falls idle silently.
ManagerBacked ==
  nCurrentState # "IDLE" =>
    \/ Run_Info.run_state # "INVALID"
    \/ Posted("ctrl", {"START"})
    \/ Posted("mgr", Ends)

\* When the manager says connected, the phone is on line, or hanging up, or
\* the report that it is not is on its way.
ConnectedIsReal ==
  nCurrentState = "CONNECTED" =>
    \/ Run_Info.run_state \in {"NET", "HANGUP"}
    \/ Posted("mgr", Ends)

\* A client that believes to be dialling, on line or hanging up is in one of
\* the queues, or will be told otherwise.
ClientInformed ==
  \A c \in Clients : nConnectState[c] # "IDLE" =>
    Listed(c) \/ Posted(c, Ends)

\* The one MAC device is open exactly while the dialer is at work or about to
\* start: left open, MAC_Open would fail for good; closed, the dial would.
DeviceHeld ==
  mac.open <=> Run_Info.run_state # "INVALID" \/ Posted("ctrl", {"START"})

\* The retry timer runs only between two calls of a dial that was busy.
RetryWaits ==
  "BUSY" \in timers =>
    /\ Run_Info.run_state = "DIAL"
    /\ mac.script = "none"
    /\ Run_Info.rep_times \in 1..RepeatDialTimes

-----------------------------------------------------------------------------
(* Liveness.                                                               *)

\* A dial ends, after whatever retries: the manager is on line or idle again
\* (the counter of busy calls is what bounds the retries).
DialEnds == nCurrentState = "DIALING" ~> nCurrentState # "DIALING"

\* Whoever dials hears how it ended.
ClientTold ==
  \A c \in Clients : nConnectState[c] = "DIALING" ~>
    \E report \in Reports : Got(c, report)
=============================================================================
