----------------------------- MODULE SmsOutbox -----------------------------
(***************************************************************************)
(* The outbox (app_message/sms/smssend.c, with the calls that the list of  *)
(* messages in mu/mulist.c and sms/smsapi.c makes on it) composed with the *)
(* dispatcher that sends for it.                                           *)
(*                                                                         *)
(* Every message of the outbox is a file with a status.  Those to be sent  *)
(* are queued; the head of the queue is with the dispatcher while bBusy.   *)
(* The user acts on what the list shows, which is read from the files when *)
(* the outbox is opened and changed in place while it is open.  Looking    *)
(* elsewhere and coming back is the same as opening it again.              *)
(*                                                                         *)
(* The SIM is present throughout.  The phone may be switched off and on at *)
(* any time: the files and the SIM survive.                                *)
(***************************************************************************)
EXTENDS SmsDispatch

CONSTANTS
  Unsent,    \* the files that are in the outbox when the phone is switched on
  MaxEvents  \* bound: what the user does, messages that arrive and restarts

ASSUME UnsentAssumption == Unsent \subseteq Files
ASSUME BoundAssumption == MaxEvents \in Nat

VARIABLES
  stat,         \* the status of each file
  shown,        \* what the list shows of it
  pSendHeader,  \* the files to be sent
  bBusy,        \* one is with the dispatcher
  events        \* what has happened so far, for the bound

outbox == <<stat, shown, pSendHeader, bBusy>>
vars == <<dispatch, outbox, events>>

\* A file that is not written yet, is in the outbox, was moved to the messages
\* that are sent, or was deleted.
InOutbox == {"UNSENT", "WAITINGSEND", "SENDING", "SUSPENDED"}
Statuses == InOutbox \cup {"NEW", "SENT", "GONE"}

Init ==
  /\ DispatchInit
  /\ stat = [f \in Files |-> IF f \in Unsent THEN "UNSENT" ELSE "NEW"] /\ shown = stat
  /\ pSendHeader = <<>> /\ bBusy = FALSE
  /\ events = 0

-----------------------------------------------------------------------------

\* SMS_SendToDispatch, with the messages posted before it.  A business card
\* that the dispatcher refuses makes the outbox busy all the same.
SMS_SendToDispatch(f, p) ==
  /\ bBusy' = TRUE
  /\ IF f \in NoCentre THEN posted' = p /\ UNCHANGED gAsynSend
     ELSE posted' = Append(p, Asyn(Kind(f))) /\ Load(f)

\* Bug: a message is given to the dispatcher at once.
Bug_Idle == TRUE
Idle == ~bBusy

\* Bug: the last message goes first.
Bug_Queued(f) == <<f>> \o pSendHeader
Queued(f) == Append(pSendHeader, f)

\* SMS_Send of a file with status s.
SMS_Send(f, s) ==
  /\ pSendHeader' = Queued(f)
  /\ IF Idle /\ s \in InOutbox
     THEN /\ stat' = [stat EXCEPT ![f] = "SENDING"]
          /\ shown' = [shown EXCEPT ![f] = "SENDING"]
          /\ SMS_SendToDispatch(f, posted)
     ELSE /\ stat' = [stat EXCEPT ![f] = s]
          /\ shown' = [shown EXCEPT ![f] = "WAITINGSEND"]
          /\ UNCHANGED <<bBusy, posted, gAsynSend>>
  /\ UNCHANGED <<incoming, requests, air, cut>>

Event == events < MaxEvents /\ events' = events + 1

\* The editor writes the file and sends it.
Compose(f) ==
  /\ Event /\ stat[f] = "NEW"
  /\ SMS_Send(f, "WAITINGSEND")

Listed(f, s) == shown[f] \in s

\* sms_resend.
Resend(f) ==
  /\ Event /\ Listed(f, {"UNSENT", "SUSPENDED"})
  /\ SMS_Send(f, stat[f])

\* sms_delete_message.
Delete(f) ==
  /\ Event /\ Listed(f, {"UNSENT", "SUSPENDED"})
  /\ stat' = [stat EXCEPT ![f] = "GONE"] /\ shown' = [shown EXCEPT ![f] = "GONE"]
  /\ UNCHANGED <<dispatch, pSendHeader, bBusy>>

\* The places of a file behind the head.
Waiting(f) == {i \in 2 .. Len(pSendHeader) : pSendHeader[i] = f}

\* SMS_Suspend takes the first of them out.
SMS_Suspend(f) ==
  /\ Event /\ Listed(f, {"WAITINGSEND"})
  /\ IF Waiting(f) # {} /\ stat[f] \in InOutbox
     THEN /\ pSendHeader' = RemoveAt(pSendHeader, CHOOSE i \in Waiting(f) : \A j \in Waiting(f) : i <= j)
          /\ stat' = [stat EXCEPT ![f] = "SUSPENDED"]
          /\ shown' = [shown EXCEPT ![f] = "SUSPENDED"]
     ELSE UNCHANGED <<pSendHeader, stat, shown>>
  /\ UNCHANGED <<dispatch, bBusy>>

\* The list is read from the files again.
OpenOutbox ==
  /\ Event /\ shown # stat
  /\ shown' = stat
  /\ UNCHANGED <<dispatch, stat, pSendHeader, bBusy>>

-----------------------------------------------------------------------------

\* The end of MSG_SMS_SEND, when the queue and the files are q, s and l.
SendNext(q, s, l) ==
  LET f == Head(q) IN
    /\ pSendHeader' = q
    /\ IF q # <<>> /\ s[f] \in InOutbox
       THEN /\ stat' = [s EXCEPT ![f] = "SENDING"]
            /\ shown' = [l EXCEPT ![f] = "SENDING"]
            /\ SMS_SendToDispatch(f, Tail(posted))
       ELSE /\ stat' = s /\ shown' = l
            /\ bBusy' = FALSE /\ posted' = Tail(posted) /\ UNCHANGED gAsynSend

\* Without its file the head stays where it is, and nothing more is sent.
HeadMissing ==
  /\ bBusy' = FALSE /\ posted' = Tail(posted)
  /\ UNCHANGED <<stat, shown, pSendHeader, gAsynSend>>

\* Bug: the head stays in the queue.
Bug_Rest(q) == q
Rest(q) == Tail(q)

\* MSG_SMS_SEND with success: the file at the head becomes a record of the
\* messages sent, unless that cannot be written.
SendSucceeded ==
  /\ posted # <<>> /\ Head(posted) = "sent"
  /\ LET f == Head(pSendHeader)
         to(v, fn) == [fn EXCEPT ![f] = v]
     IN IF stat[f] \notin InOutbox THEN HeadMissing
        ELSE \E saved \in Outcomes("save", Failures) :
               IF saved THEN SendNext(Rest(pSendHeader), to("SENT", stat), to("SENT", shown))
               ELSE SendNext(Rest(pSendHeader), stat, shown)
  /\ UNCHANGED <<incoming, requests, air, cut, events>>

\* MSG_SMS_SEND with a failure.
SendFailed ==
  /\ posted # <<>> /\ Head(posted) = "failed"
  /\ LET f == Head(pSendHeader)
         unsent(fn) == [fn EXCEPT ![f] = "UNSENT"]
     IN IF stat[f] \notin InOutbox THEN HeadMissing
        ELSE SendNext(Rest(pSendHeader), unsent(stat), unsent(shown))
  /\ UNCHANGED <<incoming, requests, air, cut, events>>

\* Bug: only what was being sent is made unsent.
Bug_AfterRestart(s) == IF s = "SENDING" THEN "UNSENT" ELSE s

\* sms_initialization.
AfterRestart(s) == IF s \in {"SENDING", "WAITINGSEND"} THEN "UNSENT" ELSE s

Restart ==
  /\ Event
  /\ DispatchRestart
  /\ stat' = [f \in Files |-> AfterRestart(stat[f])] /\ shown' = stat'
  /\ pSendHeader' = <<>> /\ bBusy' = FALSE

-----------------------------------------------------------------------------

UserAction ==
  \/ \E f \in Files : Compose(f) \/ Resend(f) \/ Delete(f) \/ SMS_Suspend(f)
  \/ OpenOutbox

Dispatcher == (MEAnswer \/ DispatchMessage) /\ UNCHANGED <<outbox, events>>
Outbox == SendSucceeded \/ SendFailed

Next ==
  \/ UserAction \/ Dispatcher \/ Outbox \/ Restart
  \/ Arrive /\ Event /\ UNCHANGED outbox

Spec == Init /\ [][Next]_vars

\* The modem answers and the thread handles its messages.
FairSpec ==
  /\ Spec
  /\ WF_vars(MEAnswer /\ UNCHANGED <<outbox, events>>)
  /\ WF_vars((DispatchMessage /\ UNCHANGED <<outbox, events>>) \/ Outbox)

-----------------------------------------------------------------------------
(* Properties.                                                             *)

Messages == {"recv", "sent", "failed", "asyn_port", "asyn_normal"}
CommandRecords ==
  [cmd : {"read", "delete"}, arg : Indexes] \cup [cmd : Kinds, arg : Files \X Nat]
DatagramRecords == [id : Datagrams, slots : Seq(Nat), arrived : Nat]

TypeOK ==
  /\ toCome \subseteq Incoming /\ handed \subseteq Incoming /\ spilled \subseteq Incoming
  /\ sim \in [Indexes -> Incoming \cup {NULL}]
  /\ g_stQueue \in Seq(Indexes) /\ datagrams \in Seq(DatagramRecords)
  /\ requests \in Seq(CommandRecords) /\ posted \in Seq(Messages)
  /\ gAsynSend \in [Kinds -> [file : Files \cup {NULL}, sum : Nat, sent : Nat]]
  /\ air \subseteq Files \X Nat /\ cut \subseteq Files
  /\ stat \in [Files -> Statuses] /\ shown \in [Files -> Statuses]
  /\ pSendHeader \in Seq(Files) /\ bBusy \in BOOLEAN
  /\ events \in Nat

\* What has arrived is on the SIM, or was handed over, or came when the ring
\* was full: no message is deleted unread, whatever is read and deleted
\* meanwhile, and across a restart.
NothingDeletedUnread ==
  Incoming \ toCome \subseteq ({sim[i] : i \in Indexes} \ {NULL}) \cup handed \cup spilled

Filled(g) == {s \in DOMAIN g.slots : g.slots[s] # 0}

\* A datagram counts its fragments once each, so that a complete one has no
\* hole (the assertion of SMSDISPATCH_Recv), and when its first fragment came
\* first every fragment is in its place.
Reassembled ==
  \A i \in DOMAIN datagrams :
    LET g == datagrams[i] IN
      /\ g.arrived = Cardinality(Filled(g))
      /\ g.slots[1] = 1 => \A s \in Filled(g) : g.slots[s] = s

\* Every complete datagram is announced exactly once until it is taken; a
\* datagram that is not complete is never taken.
AnnouncedOnce ==
  Cardinality({i \in DOMAIN posted : posted[i] = "recv"})
    = Cardinality({i \in DOMAIN datagrams : Complete(datagrams[i])})

\* A business card that the dispatcher refused: nothing will ever end it.
Stuck == \E f \in NoCentre : stat[f] = "SENDING"

SendMessages == {"asyn_port", "asyn_normal", "sent", "failed"}
Cmds(q) == [i \in DOMAIN q |-> q[i].cmd]

\* No element of a sequence, or exactly one, is in a set.
None(s, S) == \A i \in DOMAIN s : s[i] \notin S
One(s, S) == \E i \in DOMAIN s : s[i] \in S /\ \A j \in DOMAIN s : s[j] \in S => j = i

\* The outbox is busy exactly while one send is between it, the dispatcher and
\* the modem: two never overwrite each other's record, though the dispatcher
\* does not look.
OneOutstanding ==
  IF bBusy /\ ~Stuck
  THEN \/ One(posted, SendMessages) /\ None(Cmds(requests), Kinds)
       \/ None(posted, SendMessages) /\ One(Cmds(requests), Kinds)
  ELSE None(posted, SendMessages) /\ None(Cmds(requests), Kinds)

\* The file at the head is no longer there, because the same message was
\* queued twice or deleted while it was queued.
Wedged == pSendHeader # <<>> /\ stat[Head(pSendHeader)] \notin InOutbox

\* The result of a send is booked for the head of the queue, so what is being
\* sent must be the head.
HeadIsSent ==
  \A k \in Kinds : gAsynSend[k].file # NULL /\ ~Wedged =>
    pSendHeader # <<>> /\ gAsynSend[k].file = Head(pSendHeader)

\* A message among those that are sent has been transmitted, every segment of
\* it, but for those whose later segment the modem driver refused.
SentWasTransmitted ==
  \A f \in Files : stat[f] = "SENT" =>
    f \in cut \/ \A n \in 1 .. Segs[f] : <<f, n>> \in air

\* A message that waits or is being sent is in the queue, also after the phone
\* was off: otherwise it would never go, nor let the user send it again.
NoOrphan ==
  \A f \in Files : stat[f] \in {"WAITINGSEND", "SENDING"} => f \in ToSet(pSendHeader)

\* A queued message leaves the queue, unless it is behind one that cannot be.
QueueDrains ==
  \A f \in Files : f \in ToSet(pSendHeader) ~> f \notin ToSet(pSendHeader) \/ Wedged \/ Stuck

\* A message that was announced is read, and a complete datagram is taken.
IncomingHandled ==
  g_stQueue # <<>> \/ (\E i \in DOMAIN datagrams : Complete(datagrams[i]))
    ~> g_stQueue = <<>> /\ \A i \in DOMAIN datagrams : ~Complete(datagrams[i])
=============================================================================
