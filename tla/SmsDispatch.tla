---------------------------- MODULE SmsDispatch ----------------------------
(***************************************************************************)
(* The SMS dispatcher (smsdptch/smsdptch.c) between the modem driver and   *)
(* the messaging application, in the build without TI_MODULE.              *)
(*                                                                         *)
(* A message that arrives is stored on the SIM and announced (WM_CMTI).    *)
(* The dispatcher reads it by its index and hands it over: an ordinary one *)
(* to App_SMSReceive, a fragment of a business card to the datagram it is  *)
(* part of; then it is deleted from the SIM.  A ring remembers the indexes *)
(* that are being read, for an answer does not tell which one it is about. *)
(* Some fragments are delivered without the SIM (WM_CMT).                  *)
(*                                                                         *)
(* A message to be sent is cut into segments; each is given to the modem   *)
(* when the one before has been acknowledged.  There is one record for     *)
(* ordinary messages and one for business cards.                           *)
(*                                                                         *)
(* All of this runs in one thread, so a handler is one action.  The modem  *)
(* driver (external) has one queue of commands and answers them in order,  *)
(* between two handlers; a command may be refused at once or fail.  Posted *)
(* messages are handled in the order in which they were posted.            *)
(***************************************************************************)
EXTENDS Naturals, FiniteSets, Sequences, SequencesExt

CONSTANTS
  Incoming,   \* the messages that arrive
  Datagram,   \* the datagram a message is a fragment of, NULL of an ordinary one
  SeqNo,      \* its place in the datagram
  Frags,      \* the number of fragments of each datagram
  Direct,     \* the fragments that are delivered without the SIM
  Indexes,    \* the places on the SIM
  QUEUE_LEN,  \* the length of the ring
  Files,      \* the messages to be sent, each a file of the outbox
  Segs,       \* the number of segments of each
  Port,       \* the business cards among them
  NoCentre,   \* those of them without a service centre
  Refusals,   \* the commands the modem driver may refuse
  Failures,   \* the commands, and other things, that may fail
  NULL

Datagrams == {Datagram[m] : m \in Incoming} \ {NULL}

ASSUME ArrivalAssumption ==
  /\ \A d \in Datagrams : Frags[d] \in Nat \ {0}
  /\ \A m \in Incoming : Datagram[m] # NULL => SeqNo[m] \in 1 .. Frags[Datagram[m]]
  /\ Direct \subseteq {m \in Incoming : Datagram[m] # NULL}
  /\ QUEUE_LEN \in Nat \ {0}
ASSUME FileAssumption ==
  /\ Segs \in [Files -> Nat \ {0}] /\ Port \subseteq Files /\ NoCentre \subseteq Port
ASSUME NullAssumption == NULL \notin Files \cup Incoming \cup Indexes

VARIABLES
  toCome,      \* the messages that have not arrived
  sim,         \* the message in each place of the SIM
  g_stQueue,   \* the ring: the indexes of the messages being read
  datagrams,   \* pstDatagramLst, the newest first
  requests,    \* the commands given to the modem driver
  posted,      \* the messages posted to the windows of the thread
  gAsynSend,   \* gAsynPortSend and gAsynNormalSend
  handed,      \* the messages handed over; for the properties
  spilled,     \* those that came when the ring was full; likewise
  air,         \* the segments the network has acknowledged; likewise
  cut          \* the messages one of whose later segments was refused; likewise

incoming == <<toCome, sim, g_stQueue, datagrams, handed, spilled>>
outgoing == <<gAsynSend, air, cut>>
queues == <<requests, posted>>
dispatch == <<incoming, outgoing, queues>>

Kinds == {"port", "normal"}
Kind(f) == IF f \in Port THEN "port" ELSE "normal"

\* The WM_ASYN_..._SEND of each kind.
Asyn(k) == IF k = "port" THEN "asyn_port" ELSE "asyn_normal"

\* What the records are cleared to.
Clear == [file |-> NULL, sum |-> 0, sent |-> 0]

DispatchInit ==
  /\ toCome = Incoming
  /\ sim = [i \in Indexes |-> NULL]
  /\ g_stQueue = <<>> /\ datagrams = <<>>
  /\ requests = <<>> /\ posted = <<>>
  /\ gAsynSend = [k \in Kinds |-> Clear]
  /\ handed = {} /\ spilled = {} /\ air = {} /\ cut = {}

-----------------------------------------------------------------------------
(* The modem driver: it takes a command or refuses it, and answers the     *)
(* commands it has taken in order.                                         *)

Command(cmd, arg) == [cmd |-> cmd, arg |-> arg]
Outcomes(what, bad) == {TRUE} \cup (IF what \in bad THEN {FALSE} ELSE {})

\* The queue when a command is given to the driver, which may refuse it.
Given(q, cmd, arg) ==
  {IF ok THEN Append(q, Command(cmd, arg)) ELSE q : ok \in Outcomes(cmd, Refusals)}

Answers(cmd) == requests # <<>> /\ Head(requests).cmd = cmd

-----------------------------------------------------------------------------
(* Messages that arrive.                                                   *)

Full == Len(g_stQueue) = QUEUE_LEN

\* WM_CMTI_COMING, WM_CDSI_COMING: the ring is for the answer, and a message
\* that finds it full is deleted.
WM_CMTI_COMING(m, i) ==
  /\ m \in toCome \ Direct /\ sim[i] = NULL
  /\ toCome' = toCome \ {m}
  /\ sim' = [sim EXCEPT ![i] = m]
  /\ IF Full
     THEN /\ requests' \in Given(requests, "delete", i)
          /\ spilled' = spilled \cup {m}
          /\ UNCHANGED g_stQueue
     ELSE /\ g_stQueue' = Append(g_stQueue, i)
          /\ requests' \in Given(requests, "read", i)
          /\ UNCHANGED spilled
  /\ UNCHANGED <<datagrams, handed, posted, outgoing>>

\* A new datagram keeps the fragment it starts with in its first slot.
NewDatagram(d, k) ==
  [id |-> d, slots |-> [s \in 1 .. Frags[d] |-> IF s = 1 THEN k ELSE 0], arrived |-> 1]

\* Bug: a fragment is counted whether its slot is free or not.
Bug_AddFragment(g, k) == [g EXCEPT !.slots[k] = k, !.arrived = @ + 1]

\* A fragment goes to its own slot; when the slot is taken it is a duplicate.
AddFragment(g, k) ==
  IF g.slots[k] = 0 THEN [g EXCEPT !.slots[k] = k, !.arrived = @ + 1] ELSE g

Complete(g) == g.arrived = Frags[g.id]

\* Bug: a duplicate of the last fragment is announced again.
Bug_Announce(old, new) == IF Complete(new) THEN Append(posted, "recv") ELSE posted
\* Bug: the count is compared before it is increased.
Bug_AnnounceLate(old, new) == IF Complete(old) THEN Append(posted, "recv") ELSE posted

\* The window of the port is told once, when the datagram becomes complete.
Announce(old, new) ==
  IF Complete(new) /\ old # new THEN Append(posted, "recv") ELSE posted

DispatchPortSMS(m) ==
  LET d == Datagram[m]
      k == SeqNo[m]
      known == {i \in DOMAIN datagrams : datagrams[i].id = d}
      n == NewDatagram(d, k)
      i == CHOOSE j \in known : \A l \in known : j <= l
      g == AddFragment(datagrams[i], k)
  IN IF Frags[d] = 1 \/ known = {}
     THEN /\ datagrams' = <<n>> \o datagrams
          /\ posted' = IF Frags[d] = 1 THEN Append(posted, "recv") ELSE posted
     ELSE /\ datagrams' = [datagrams EXCEPT ![i] = g]
          /\ posted' = Announce(datagrams[i], g)

\* App_SMSReceive saves an ordinary message in the inbox and deletes it from
\* the SIM; one that cannot be saved stays there.
App_SMSReceive(m, index, q) ==
  /\ UNCHANGED <<datagrams, posted>>
  /\ \E saved \in Outcomes("inbox", Failures) :
       IF saved
       THEN handed' = handed \cup {m} /\ requests' \in Given(q, "delete", index)
       ELSE handed' = handed /\ requests' = q

\* Bug: the index is taken from the tail.
Bug_Oldest == g_stQueue[Len(g_stQueue)]

\* The index that a successful read is taken to be about.
Oldest == Head(g_stQueue)

RingAfterRead == Tail(g_stQueue)

\* WM_CMTICDSI_READ.
ReadAnswered ==
  /\ Answers("read")
  /\ LET at == Head(requests).arg
         m == sim[at]
         q == Tail(requests)
     IN \E ok \in Outcomes("read", Failures) :
          IF ok /\ m # NULL
          THEN /\ g_stQueue' = RingAfterRead
               /\ IF Datagram[m] = NULL THEN App_SMSReceive(m, Oldest, q)
                  ELSE /\ DispatchPortSMS(m)
                       /\ handed' = handed \cup {m}
                       /\ requests' \in Given(q, "delete", Oldest)
          ELSE /\ requests' = q
               /\ UNCHANGED <<g_stQueue, datagrams, posted, handed>>
  /\ UNCHANGED <<toCome, sim, spilled, outgoing>>

\* WM_SMSDELETED, which does nothing.
DeleteAnswered ==
  /\ Answers("delete")
  /\ requests' = Tail(requests)
  /\ \E ok \in Outcomes("delete", Failures) :
       sim' = IF ok THEN [sim EXCEPT ![Head(requests).arg] = NULL] ELSE sim
  /\ UNCHANGED <<toCome, g_stQueue, datagrams, handed, spilled, posted, outgoing>>

\* WM_CMT_COMING.
WM_CMT_COMING(m) ==
  /\ m \in toCome \cap Direct
  /\ toCome' = toCome \ {m}
  /\ DispatchPortSMS(m)
  /\ handed' = handed \cup {m}
  /\ UNCHANGED <<sim, g_stQueue, spilled, requests, outgoing>>

\* SMSDISPATCH_Recv looks for the first complete datagram.
ToReceive ==
  LET complete == {i \in DOMAIN datagrams : Complete(datagrams[i])} IN
    IF complete = {} THEN 0 ELSE CHOOSE i \in complete : \A j \in complete : i <= j

\* SMS_OnRecvPort takes it to the inbox (an empty message when there is none).
SMS_OnRecvPort ==
  /\ posted # <<>> /\ Head(posted) = "recv"
  /\ posted' = Tail(posted)
  /\ datagrams' = IF ToReceive = 0 THEN datagrams ELSE RemoveAt(datagrams, ToReceive)
  /\ UNCHANGED <<toCome, sim, g_stQueue, handed, spilled, requests, outgoing>>

-----------------------------------------------------------------------------
(* Messages that are sent.                                                 *)

\* SMSDISPATCH_Send and SMSDISPATCH_SendSMS: the record is overwritten, except
\* for the count of segments; bUsed, which they test, is never set.
Load(f) ==
  gAsynSend' = [gAsynSend EXCEPT ![Kind(f)] =
                  [file |-> f, sum |-> Segs[f], sent |-> @.sent]]

\* ME_SMS_Send of the segment after the first n of kind k; when it is refused
\* the outbox gets a message and the record is cleared.
SendSegment(k, n, q, p, refused) ==
  LET r == gAsynSend[k] IN
    \E nq \in Given(q, k, <<r.file, n + 1>>) :
      /\ requests' = nq
      /\ IF nq # q
         THEN /\ gAsynSend' = [gAsynSend EXCEPT ![k].sent = n]
              /\ posted' = p /\ UNCHANGED cut
         ELSE /\ gAsynSend' = [gAsynSend EXCEPT ![k] = Clear]
              /\ posted' = Append(p, refused)
              /\ cut' = IF refused = "sent" THEN cut \cup {r.file} ELSE cut

\* WM_ASYN_PORT_SEND and WM_ASYN_NORMAL_SEND.
WM_ASYN_SEND(k) ==
  /\ posted # <<>> /\ Head(posted) = Asyn(k)
  /\ SendSegment(k, gAsynSend[k].sent, requests, Tail(posted), "failed")
  /\ UNCHANGED <<incoming, air>>

\* Bug: only a failure of the first segment is one.
Bug_Report(k, ok) == IF ok \/ gAsynSend[k].sent > 0 THEN "sent" ELSE "failed"

\* What the outbox is told at the end.
Report(k, ok) == IF ok THEN "sent" ELSE "failed"

\* A later segment of an ordinary message that is refused is reported with the
\* result of the one before it.
LaterRefused(k) == IF k = "normal" THEN "sent" ELSE "failed"

\* WM_PORTSMS_SEND and WM_NORMALSMS_SEND.
SendAnswered(k) ==
  /\ Answers(k)
  /\ LET q == Tail(requests)
         n == gAsynSend[k].sent + 1
         ends(ok) ==
           /\ posted' = Append(posted, Report(k, ok))
           /\ gAsynSend' = [gAsynSend EXCEPT ![k] = Clear]
           /\ requests' = q /\ UNCHANGED cut
     IN \E ok \in Outcomes(k, Failures) :
          /\ air' = IF ok THEN air \cup {Head(requests).arg} ELSE air
          /\ IF ok /\ n # gAsynSend[k].sum
             THEN SendSegment(k, n, q, posted, LaterRefused(k))
             ELSE ends(ok)
  /\ UNCHANGED incoming

-----------------------------------------------------------------------------

\* The phone is switched off and on.
DispatchRestart ==
  /\ g_stQueue' = <<>> /\ datagrams' = <<>>
  /\ requests' = <<>> /\ posted' = <<>>
  /\ gAsynSend' = [k \in Kinds |-> Clear]
  /\ UNCHANGED <<toCome, sim, handed, spilled, air, cut>>

Arrive == \E m \in Incoming : WM_CMT_COMING(m) \/ \E i \in Indexes : WM_CMTI_COMING(m, i)
MEAnswer == ReadAnswered \/ DeleteAnswered \/ \E k \in Kinds : SendAnswered(k)
DispatchMessage == SMS_OnRecvPort \/ \E k \in Kinds : WM_ASYN_SEND(k)
=============================================================================
