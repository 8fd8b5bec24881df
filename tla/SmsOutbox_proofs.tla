-------------------------- MODULE SmsOutbox_proofs --------------------------
(***************************************************************************)
(* Proofs about SmsOutbox, for any messages, files, failures and bounds:   *)
(*   TypeCorrect          the type invariant;                              *)
(*   SendsAreSerial       one send is under way while the outbox is busy;  *)
(*   ResultIsOfTheHead    it is the one at the head of the queue;          *)
(*   SentIsTransmitted    what is booked as sent was transmitted;          *)
(*   WaitingIsQueued      what waits is in the queue, if files of sent     *)
(*                        messages can always be written.                  *)
(* What is under way is a message posted to or by the dispatcher or a      *)
(* command of the modem driver.  SendInv says which record it uses, what   *)
(* has been acknowledged for it, and that no file which the list shows as  *)
(* ready to be sent or deleted is the one being sent.                      *)
(***************************************************************************)
EXTENDS SmsOutbox, SequenceTheorems, WellFoundedInduction, TLAPS

-----------------------------------------------------------------------------
(* Sequences.                                                              *)

Has(s, x) == \E i \in DOMAIN s : s[i] = x

\* What appending an element does to the predicates on sequences.
LEMMA Appended ==
  ASSUME NEW T, NEW s \in Seq(T), NEW x \in T, NEW S
  PROVE  /\ Append(s, x) \in Seq(T)
         /\ None(s, S) /\ x \notin S => None(Append(s, x), S)
         /\ None(s, S) /\ x \in S => One(Append(s, x), S)
         /\ One(s, S) /\ x \notin S => One(Append(s, x), S)
         /\ \A y : Has(Append(s, x), y) <=> Has(s, y) \/ x = y
  <1> DEFINE n == Len(s)  t == Append(s, x)
  <1>1. /\ t \in Seq(T) /\ Len(t) = n + 1 /\ n \in Nat
        /\ DOMAIN s = 1 .. n /\ DOMAIN t = 1 .. n + 1
        /\ t[n + 1] = x /\ \A i \in 1 .. n : t[i] = s[i]
    BY AppendProperties, LenProperties
  <1> HIDE DEF n, t
  <1>2. None(s, S) /\ x \notin S => None(t, S)
    BY <1>1 DEF None
  <1>3. None(s, S) /\ x \in S => One(t, S)
    <2> SUFFICES ASSUME None(s, S), x \in S PROVE One(t, S) OBVIOUS
    <2>1. n + 1 \in DOMAIN t /\ t[n + 1] \in S BY <1>1
    <2>2. \A j \in DOMAIN t : t[j] \in S => j = n + 1 BY <1>1 DEF None
    <2> QED BY <2>1, <2>2 DEF One
  <1>4. One(s, S) /\ x \notin S => One(t, S)
    <2> SUFFICES ASSUME One(s, S), x \notin S PROVE One(t, S) OBVIOUS
    <2>1. PICK i \in DOMAIN s : s[i] \in S /\ \A j \in DOMAIN s : s[j] \in S => j = i
      BY DEF One
    <2>2. i \in DOMAIN t /\ t[i] \in S BY <1>1, <2>1
    <2>3. \A j \in DOMAIN t : t[j] \in S => j = i BY <1>1, <2>1
    <2> QED BY <2>2, <2>3 DEF One
  <1>5. ASSUME NEW y PROVE Has(t, y) <=> Has(s, y) \/ x = y
    BY <1>1 DEF Has
  <1> QED BY <1>1, <1>2, <1>3, <1>4, <1>5 DEF t

\* What taking the first element does to them.
LEMMA Taken ==
  ASSUME NEW T, NEW s \in Seq(T), s # <<>>, NEW S
  PROVE  /\ Tail(s) \in Seq(T) /\ Head(s) \in T
         /\ None(s, S) => None(Tail(s), S) /\ Head(s) \notin S
         /\ One(s, S) /\ Head(s) \in S => None(Tail(s), S)
         /\ One(s, S) /\ Head(s) \notin S => One(Tail(s), S)
         /\ \A y : Has(s, y) <=> Has(Tail(s), y) \/ Head(s) = y
  <1> DEFINE n == Len(s)  t == Tail(s)
  <1>1. /\ t \in Seq(T) /\ Head(s) \in T /\ Len(t) = n - 1 /\ n \in Nat \ {0}
        /\ DOMAIN s = 1 .. n /\ DOMAIN t = 1 .. n - 1
        /\ s[1] = Head(s) /\ \A i \in 1 .. n - 1 : t[i] = s[i + 1]
    BY HeadTailProperties, LenProperties, EmptySeq
  <1> HIDE DEF n, t
  <1>2. None(s, S) => None(t, S) /\ Head(s) \notin S
    BY <1>1 DEF None
  <1>3. One(s, S) /\ Head(s) \in S => None(t, S)
    <2> SUFFICES ASSUME One(s, S), Head(s) \in S, NEW i \in DOMAIN t, t[i] \in S PROVE FALSE
      BY DEF None
    <2>1. i + 1 \in DOMAIN s /\ 1 \in DOMAIN s /\ s[i + 1] \in S /\ s[1] \in S /\ i + 1 # 1
      BY <1>1
    <2> QED BY <2>1 DEF One
  <1>4. One(s, S) /\ Head(s) \notin S => One(t, S)
    <2> SUFFICES ASSUME One(s, S), Head(s) \notin S PROVE One(t, S) OBVIOUS
    <2>1. PICK i \in DOMAIN s : s[i] \in S /\ \A j \in DOMAIN s : s[j] \in S => j = i
      BY DEF One
    <2>2. i - 1 \in DOMAIN t /\ t[i - 1] \in S
      <3>1. i # 1 BY <1>1, <2>1
      <3>2. i - 1 \in 1 .. n - 1 /\ (i - 1) + 1 = i BY <1>1, <3>1
      <3> QED BY <1>1, <2>1, <3>2
    <2>3. \A j \in DOMAIN t : t[j] \in S => j = i - 1
      <3> SUFFICES ASSUME NEW j \in DOMAIN t, t[j] \in S PROVE j = i - 1 OBVIOUS
      <3>1. j + 1 \in DOMAIN s /\ s[j + 1] \in S BY <1>1
      <3>2. j + 1 = i BY <2>1, <3>1
      <3> QED BY <1>1, <3>2
    <2> QED BY <2>2, <2>3 DEF One
  <1>5. ASSUME NEW y PROVE Has(s, y) <=> Has(t, y) \/ Head(s) = y
    <2>1. Has(s, y) => Has(t, y) \/ Head(s) = y
      <3> SUFFICES ASSUME NEW i \in DOMAIN s, s[i] = y, Head(s) # y PROVE Has(t, y) BY DEF Has
      <3>1. i # 1 BY <1>1
      <3>2. i - 1 \in DOMAIN t /\ (i - 1) + 1 = i BY <1>1, <3>1
      <3>3. t[i - 1] = y BY <1>1, <3>2
      <3> QED BY <3>2, <3>3 DEF Has
    <2>2. Has(t, y) => Has(s, y)
      <3> SUFFICES ASSUME NEW i \in DOMAIN t, t[i] = y PROVE Has(s, y) BY DEF Has
      <3>1. i + 1 \in DOMAIN s /\ s[i + 1] = y BY <1>1
      <3> QED BY <3>1 DEF Has
    <2>3. Has(s, Head(s))
      <3>1. 1 \in DOMAIN s /\ s[1] = Head(s) BY <1>1
      <3> QED BY <3>1 DEF Has
    <2> QED BY <2>1, <2>2, <2>3
  <1> QED BY <1>1, <1>2, <1>3, <1>4, <1>5 DEF t

\* What None and One say of the elements.
LEMMA Only ==
  ASSUME NEW s, NEW S
  PROVE  /\ None(s, S) => \A x \in S : ~Has(s, x)
         /\ One(s, S) => \A x \in S, y \in S : Has(s, x) /\ Has(s, y) => x = y
         /\ One(s, S) => ~None(s, S)
  BY DEF None, One, Has

\* The commands of a queue of requests.
CmdNames == {"read", "delete"} \cup Kinds

\* The names of the commands in a queue form a sequence of the same length.
LEMMA CmdsType ==
  ASSUME NEW q \in Seq(CommandRecords)
  PROVE  /\ Cmds(q) \in Seq(CmdNames) /\ Len(Cmds(q)) = Len(q)
         /\ Cmds(q) = <<>> <=> q = <<>>
         /\ \A c \in CommandRecords : Has(q, c) => Has(Cmds(q), c.cmd)
  <1> DEFINE n == Len(q)
  <1>1. n \in Nat /\ DOMAIN q = 1 .. n /\ \A i \in 1 .. n : q[i] \in CommandRecords
    BY LenProperties, ElementOfSeq
  <1>2. \A c \in CommandRecords : c.cmd \in CmdNames
    BY DEF CommandRecords, CmdNames
  <1>3. Cmds(q) \in [1 .. n -> CmdNames] BY <1>1, <1>2 DEF Cmds
  <1>4. Cmds(q) \in Seq(CmdNames) BY <1>1, <1>3, SeqDef
  <1>5. Len(Cmds(q)) = n BY <1>1, <1>3, <1>4, LenProperties
  <1>6. Cmds(q) = <<>> <=> q = <<>> BY <1>1, <1>4, <1>5, EmptySeq
  <1>7. \A c \in CommandRecords : Has(q, c) => Has(Cmds(q), c.cmd)
    BY DEF Has, Cmds
  <1> QED BY <1>4, <1>5, <1>6, <1>7

\* Naming the commands commutes with appending one.
LEMMA CmdsAppend ==
  ASSUME NEW q \in Seq(CommandRecords), NEW c \in CommandRecords
  PROVE  Cmds(Append(q, c)) = Append(Cmds(q), c.cmd)
  <1> DEFINE n == Len(q)  a == Append(q, c)  u == Cmds(a)  v == Append(Cmds(q), c.cmd)
  <1>1. n \in Nat /\ DOMAIN q = 1 .. n BY LenProperties
  <1>2. a \in Seq(CommandRecords) /\ Len(a) = n + 1 /\ DOMAIN a = 1 .. n + 1
        /\ a[n + 1] = c /\ \A i \in 1 .. n : a[i] = q[i]
    BY AppendProperties, LenProperties
  <1>3. c.cmd \in CmdNames BY DEF CommandRecords, CmdNames
  <1>4. Cmds(q) \in Seq(CmdNames) /\ u \in Seq(CmdNames) BY <1>2, CmdsType
  <1>5. DOMAIN Cmds(q) = 1 .. n /\ DOMAIN u = 1 .. n + 1 BY <1>1, <1>2 DEF Cmds
  <1>6. Len(Cmds(q)) = n /\ Len(u) = n + 1 BY <1>1, <1>4, <1>5, LenProperties
  <1>7. v \in Seq(CmdNames) /\ Len(v) = n + 1 /\ v[n + 1] = c.cmd
        /\ \A i \in 1 .. n : v[i] = Cmds(q)[i]
    BY <1>3, <1>4, <1>6, AppendProperties
  <1>8. \A i \in 1 .. n + 1 : u[i] = a[i].cmd BY <1>2 DEF Cmds
  <1>9. \A i \in 1 .. n : Cmds(q)[i] = q[i].cmd BY <1>1 DEF Cmds
  <1> HIDE DEF u, v, a, n
  <1>10. \A i \in 1 .. n + 1 : u[i] = v[i]
    <2> TAKE i \in 1 .. n + 1
    <2>1. CASE i = n + 1 BY <2>1, <1>1, <1>2, <1>7, <1>8
    <2>2. CASE i \in 1 .. n BY <2>2, <1>1, <1>2, <1>7, <1>8, <1>9
    <2> QED BY <2>1, <2>2, <1>1
  <1>11. u = v BY <1>4, <1>6, <1>7, <1>10, SeqEqual
  <1> QED BY <1>11 DEF u, v, a

\* Naming the commands commutes with taking the first.
LEMMA CmdsTail ==
  ASSUME NEW q \in Seq(CommandRecords), q # <<>>
  PROVE  Cmds(Tail(q)) = Tail(Cmds(q)) /\ Head(Cmds(q)) = Head(q).cmd
  <1> DEFINE n == Len(q)  a == Tail(q)  u == Cmds(a)  v == Tail(Cmds(q))
  <1>1. n \in Nat \ {0} /\ DOMAIN q = 1 .. n BY LenProperties, EmptySeq
  <1>2. a \in Seq(CommandRecords) /\ Len(a) = n - 1 /\ DOMAIN a = 1 .. n - 1
        /\ \A i \in 1 .. n - 1 : a[i] = q[i + 1]
    BY HeadTailProperties, LenProperties
  <1>4. Cmds(q) \in Seq(CmdNames) /\ u \in Seq(CmdNames) /\ Cmds(q) # <<>>
    BY <1>2, CmdsType
  <1>5. DOMAIN Cmds(q) = 1 .. n /\ DOMAIN u = 1 .. n - 1 BY <1>1, <1>2 DEF Cmds
  <1>6. Len(Cmds(q)) = n /\ Len(u) = n - 1 BY <1>2, CmdsType
  <1>7. v \in Seq(CmdNames) /\ Len(v) = n - 1 /\ \A i \in 1 .. n - 1 : v[i] = Cmds(q)[i + 1]
    BY <1>4, <1>6, HeadTailProperties
  <1>8. \A i \in 1 .. n - 1 : u[i] = a[i].cmd BY <1>2 DEF Cmds
  <1>9. \A i \in 1 .. n : Cmds(q)[i] = q[i].cmd BY <1>1 DEF Cmds
  <1>10. Head(Cmds(q)) = Head(q).cmd
    <2>1. 1 \in 1 .. n BY <1>1
    <2> QED BY <2>1, <1>9
  <1> HIDE DEF u, v, a, n
  <1>11. \A i \in 1 .. n - 1 : u[i] = v[i]
    <2> TAKE i \in 1 .. n - 1
    <2>1. i + 1 \in 1 .. n BY <1>1
    <2> QED BY <2>1, <1>2, <1>7, <1>8, <1>9
  <1>12. u = v BY <1>4, <1>6, <1>7, <1>11, SeqEqual
  <1> QED BY <1>10, <1>12 DEF u, v, a

-----------------------------------------------------------------------------
(* The inductive invariant.                                                *)

\* The list shows what the files say, except that a queued one is shown as
\* waiting; so what is being sent can be neither deleted nor sent again.
ShownInv ==
  \A f \in Files :
    \/ shown[f] = stat[f]
    \/ shown[f] = "WAITINGSEND" /\ stat[f] \in InOutbox \ {"SENDING"}

\* What is queued was written.
QueuedExist == \A f \in ToSet(pSendHeader) : stat[f] # "NEW"

\* The outbox stops only when the queue is empty or its head has no file.
BusyInv ==
  IF bBusy
  THEN pSendHeader # <<>> /\ (Wedged \/ stat[Head(pSendHeader)] = "SENDING")
  ELSE ~Stuck /\ (pSendHeader = <<>> \/ Wedged)

\* A record is in use while its kind is posted to the dispatcher or with the
\* modem driver.
Carried(k) == Has(posted, Asyn(k)) \/ Has(Cmds(requests), k)

RecordInv ==
  \A k \in Kinds :
    LET r == gAsynSend[k] IN
    IF Carried(k)
    THEN /\ r.file \in Files /\ r.sum = Segs[r.file] /\ r.sent < r.sum
         /\ \A n \in 1 .. r.sent : <<r.file, n>> \in air
         /\ ~Wedged => r.file = Head(pSendHeader)
    ELSE r = Clear

\* The command that is with the modem is the next segment.
RequestInv ==
  \A c \in CommandRecords :
    Has(requests, c) /\ c.cmd \in Kinds =>
      c.arg = <<gAsynSend[c.cmd].file, gAsynSend[c.cmd].sent + 1>>

\* A success is reported when every segment has been acknowledged, or one was
\* refused.
Transmitted(f) == f \in cut \/ \A n \in 1 .. Segs[f] : <<f, n>> \in air
ReportInv == Has(posted, "sent") /\ ~Wedged => Transmitted(Head(pSendHeader))

OutboxInv == ShownInv /\ QueuedExist /\ BusyInv
SendInv == OneOutstanding /\ RecordInv /\ RequestInv /\ ReportInv

-----------------------------------------------------------------------------
(* What arrives and is received does not touch what is sent.               *)

Same(s, t, S) ==
  /\ None(s, S) => None(t, S)
  /\ One(s, S) => One(t, S)
  /\ \A x \in S : Has(t, x) <=> Has(s, x)

SameCommands(q, r) ==
  /\ Same(Cmds(q), Cmds(r), Kinds)
  /\ \A c \in CommandRecords : c.cmd \in Kinds /\ Has(r, c) => Has(q, c)

\* A command that is not a send is appended.
LEMMA CommandAppended ==
  ASSUME NEW q \in Seq(CommandRecords), NEW c \in CommandRecords, c.cmd \notin Kinds
  PROVE  Append(q, c) \in Seq(CommandRecords) /\ SameCommands(q, Append(q, c))
  <1>1. Cmds(q) \in Seq(CmdNames) /\ c.cmd \in CmdNames
    BY CmdsType DEF CommandRecords, CmdNames
  <1>2. Same(Cmds(q), Append(Cmds(q), c.cmd), Kinds) BY <1>1, Appended DEF Same
  <1>3. /\ Append(q, c) \in Seq(CommandRecords)
        /\ \A x : Has(Append(q, c), x) <=> Has(q, x) \/ c = x
    BY Appended
  <1> QED BY <1>2, <1>3, CmdsAppend DEF SameCommands

\* A command that is not a send is answered.
LEMMA CommandTaken ==
  ASSUME NEW q \in Seq(CommandRecords), q # <<>>, Head(q).cmd \notin Kinds
  PROVE  Tail(q) \in Seq(CommandRecords) /\ SameCommands(q, Tail(q))
  <1>1. Cmds(q) \in Seq(CmdNames) /\ Cmds(q) # <<>> BY CmdsType
  <1>2. Head(Cmds(q)) \notin Kinds BY CmdsTail
  <1>3. Same(Cmds(q), Tail(Cmds(q)), Kinds) BY <1>1, <1>2, Taken DEF Same
  <1>4. /\ Tail(q) \in Seq(CommandRecords)
        /\ \A x : Has(q, x) <=> Has(Tail(q), x) \/ Head(q) = x
    BY Taken
  <1> QED BY <1>3, <1>4, CmdsTail DEF SameCommands

\* The driver is given a command that is not a send, or refuses it.
LEMMA GivenOther ==
  ASSUME NEW q \in Seq(CommandRecords), NEW cmd \in {"read", "delete"}, NEW arg \in Indexes,
         NEW r \in Given(q, cmd, arg)
  PROVE  r \in Seq(CommandRecords) /\ SameCommands(q, r)
  <1>1. r = q \/ r = Append(q, Command(cmd, arg)) BY DEF Given
  <1>2. CASE r = q BY <1>2 DEF SameCommands, Same
  <1>3. CASE r = Append(q, Command(cmd, arg))
    <2>1. Command(cmd, arg) \in CommandRecords /\ Command(cmd, arg).cmd \notin Kinds
      BY DEF Command, CommandRecords, Kinds
    <2> QED BY <1>3, <2>1, CommandAppended
  <1> QED BY <1>1, <1>2, <1>3

\* Changes that do not touch the sends compose.
LEMMA SameTransitive ==
  ASSUME NEW q, NEW r, NEW s, SameCommands(q, r), SameCommands(r, s)
  PROVE  SameCommands(q, s)
  BY DEF SameCommands, Same

\* The messages about datagrams that arrived are not about what is sent.
LEMMA PostedRecv ==
  ASSUME posted \in Seq(Messages),
         \/ posted' = posted
         \/ posted' = Append(posted, "recv")
         \/ posted # <<>> /\ Head(posted) = "recv" /\ posted' = Tail(posted)
  PROVE  posted' \in Seq(Messages) /\ Same(posted, posted', SendMessages)
  <1>1. "recv" \in Messages /\ "recv" \notin SendMessages BY DEF Messages, SendMessages
  <1>2. CASE posted' = posted BY <1>2 DEF Same
  <1>3. CASE posted' = Append(posted, "recv") BY <1>1, <1>3, Appended DEF Same
  <1>4. CASE posted # <<>> /\ Head(posted) = "recv" /\ posted' = Tail(posted)
    BY <1>1, <1>4, Taken DEF Same
  <1> QED BY <1>2, <1>3, <1>4

\* What changes neither the outbox nor the sends under way keeps the invariant.
LEMMA Neutral ==
  ASSUME OutboxInv, SendInv,
         Same(posted, posted', SendMessages), SameCommands(requests, requests'),
         UNCHANGED <<outbox, outgoing>>
  PROVE  OutboxInv' /\ SendInv'
  <1> USE DEF outbox, outgoing
  <1>1. OutboxInv' /\ (Stuck' <=> Stuck) /\ (Wedged' <=> Wedged)
    BY DEF OutboxInv, ShownInv, QueuedExist, BusyInv, Stuck, Wedged
  <1>2. OneOutstanding' BY <1>1 DEF SendInv, OneOutstanding, Same, SameCommands
  <1>3. \A k \in Kinds : Carried(k)' <=> Carried(k)
    BY DEF Carried, Same, SameCommands, Kinds, Asyn, SendMessages
  <1>4. RecordInv' BY <1>1, <1>3 DEF SendInv, RecordInv
  <1>5. RequestInv' BY DEF SendInv, RequestInv, SameCommands
  <1>6. ReportInv'
    <2>1. Has(posted', "sent") <=> Has(posted, "sent") BY DEF Same, SendMessages
    <2> QED BY <1>1, <2>1 DEF SendInv, ReportInv, Transmitted
  <1> QED BY <1>1, <1>2, <1>4, <1>5, <1>6 DEF SendInv

-----------------------------------------------------------------------------
(* What is under way.                                                      *)

\* No send is with the modem, nor in a sequence p of posted messages.
Quiet(p) == None(p, SendMessages) /\ None(Cmds(requests), Kinds)
AllClear == \A k \in Kinds : gAsynSend[k] = Clear

\* The messages of a send, and those of each kind, are distinct.
LEMMA AsynFacts ==
  /\ \A k \in Kinds : Asyn(k) \in SendMessages \ {"sent", "failed"} /\ Asyn(k) \in Messages
  /\ \A j \in Kinds, k \in Kinds : Asyn(j) = Asyn(k) => j = k
  /\ {"sent", "failed"} \subseteq SendMessages /\ SendMessages \subseteq Messages
  BY DEF Kinds, Asyn, SendMessages, Messages

\* When nothing is under way no record is in use.
LEMMA QuietFacts ==
  ASSUME RecordInv, Quiet(posted)
  PROVE  AllClear /\ (\A k \in Kinds : ~Carried(k)) /\ ~Has(posted, "sent")
  <1>1. \A x \in SendMessages : ~Has(posted, x) BY Only DEF Quiet
  <1>2. \A k \in Kinds : ~Has(Cmds(requests), k) BY Only DEF Quiet
  <1>3. \A k \in Kinds : ~Carried(k) BY <1>1, <1>2, AsynFacts DEF Carried
  <1>4. AllClear BY <1>3 DEF AllClear, RecordInv
  <1> QED BY <1>1, <1>3, <1>4, AsynFacts

\* When nothing is under way the invariant says only that the records are clear.
LEMMA QuietNext ==
  ASSUME requests' \in Seq(CommandRecords), Quiet(posted)', AllClear', ~bBusy' \/ Stuck'
  PROVE  SendInv'
  <1>1. \A x \in SendMessages : ~Has(posted', x) BY Only DEF Quiet
  <1>2. \A k \in Kinds : ~Has(Cmds(requests'), k) BY Only DEF Quiet
  <1>3. OneOutstanding' BY DEF OneOutstanding, Quiet
  <1>4. RecordInv' BY <1>1, <1>2, AsynFacts DEF RecordInv, Carried, AllClear
  <1>5. RequestInv' BY <1>2, CmdsType DEF RequestInv
  <1>6. ReportInv' BY <1>1, AsynFacts DEF ReportInv
  <1> QED BY <1>3, <1>4, <1>5, <1>6 DEF SendInv

\* The result of a send is the only thing under way.
LEMMA ResultFacts ==
  ASSUME posted \in Seq(Messages), OutboxInv, SendInv,
         posted # <<>>, Head(posted) \in {"sent", "failed"}
  PROVE  /\ bBusy /\ ~Stuck /\ pSendHeader # <<>>
         /\ Tail(posted) \in Seq(Messages) /\ Quiet(Tail(posted)) /\ AllClear
  <1>1. Head(posted) \in SendMessages BY AsynFacts
  <1>2. Tail(posted) \in Seq(Messages) /\ ~None(posted, SendMessages)
        /\ Has(posted, Head(posted))
    BY <1>1, Taken
  <1>3. bBusy /\ ~Stuck /\ One(posted, SendMessages) /\ None(Cmds(requests), Kinds)
    BY <1>2 DEF SendInv, OneOutstanding
  <1>4. None(Tail(posted), SendMessages) BY <1>1, <1>3, Taken
  <1>5. \A k \in Kinds : ~Has(posted, Asyn(k))
    BY <1>1, <1>2, <1>3, Only, AsynFacts
  <1>6. \A k \in Kinds : ~Has(Cmds(requests), k) BY <1>3, Only
  <1>7. AllClear BY <1>5, <1>6 DEF SendInv, RecordInv, Carried, AllClear
  <1> QED BY <1>2, <1>3, <1>4, <1>7 DEF Quiet, OutboxInv, BusyInv

\* The files in a queue when one is appended and when the head is taken.
LEMMA QueueFacts ==
  ASSUME NEW q \in Seq(Files)
  PROVE  /\ \A f \in Files : Append(q, f) \in Seq(Files) /\ Append(q, f) # <<>>
               /\ (q # <<>> => Head(Append(q, f)) = Head(q))
               /\ (q = <<>> => Head(Append(q, f)) = f)
               /\ ToSet(Append(q, f)) = ToSet(q) \cup {f}
         /\ q # <<>> => /\ Head(q) \in Files /\ Head(q) \in ToSet(q)
                        /\ Tail(q) \in Seq(Files)
                        /\ ToSet(q) = ToSet(Tail(q)) \cup {Head(q)}
         /\ ToSet(q) \subseteq Files
  <1>1. ASSUME NEW f \in Files
        PROVE  /\ Append(q, f) \in Seq(Files) /\ Append(q, f) # <<>>
               /\ (q # <<>> => Head(Append(q, f)) = Head(q))
               /\ (q = <<>> => Head(Append(q, f)) = f)
               /\ ToSet(Append(q, f)) = ToSet(q) \cup {f}
    <2> DEFINE n == Len(q)  a == Append(q, f)
    <2>1. /\ a \in Seq(Files) /\ Len(a) = n + 1 /\ n \in Nat
          /\ a[n + 1] = f /\ \A i \in 1 .. n : a[i] = q[i]
          /\ DOMAIN a = 1 .. n + 1 /\ DOMAIN q = 1 .. n
      BY AppendProperties, LenProperties
    <2>2. a # <<>> BY <2>1, EmptySeq
    <2>3. Head(a) = a[1] BY <2>1, <2>2, HeadTailProperties
    <2>4. q # <<>> => n # 0 /\ Head(q) = q[1] BY EmptySeq, HeadTailProperties
    <2>5. q = <<>> => n = 0 BY EmptySeq
    <2> HIDE DEF n, a
    <2>6. ToSet(a) = ToSet(q) \cup {f} BY <2>1 DEF ToSet
    <2>7. q # <<>> => Head(a) = Head(q) BY <2>1, <2>3, <2>4
    <2>8. q = <<>> => Head(a) = f BY <2>1, <2>3, <2>5
    <2> QED BY <2>1, <2>2, <2>6, <2>7, <2>8 DEF a
  <1>2. ASSUME q # <<>>
        PROVE  /\ Head(q) \in Files /\ Head(q) \in ToSet(q) /\ Tail(q) \in Seq(Files)
               /\ ToSet(q) = ToSet(Tail(q)) \cup {Head(q)}
    <2>1. /\ Tail(q) \in Seq(Files) /\ Head(q) \in Files
          /\ \A y : Has(q, y) <=> Has(Tail(q), y) \/ Head(q) = y
      BY <1>2, Taken
    <2>2. \A s : ToSet(s) = {s[i] : i \in DOMAIN s} BY DEF ToSet
    <2>3. \A s, y : y \in ToSet(s) <=> Has(s, y) BY <2>2 DEF Has
    <2> QED BY <2>1, <2>3
  <1>3. ToSet(q) \subseteq Files BY LenProperties, ElementOfSeq DEF ToSet
  <1> QED BY <1>1, <1>2, <1>3

-----------------------------------------------------------------------------
(* The outbox.                                                             *)

\* A file is given to the dispatcher while nothing is under way.
LEMMA Started ==
  ASSUME NEW f \in Files, NEW p \in Seq(Messages), TypeOK,
         Quiet(p), AllClear, SMS_SendToDispatch(f, p), UNCHANGED <<requests, air, cut>>,
         Stuck' <=> f \in NoCentre,
         ~Wedged' => Head(pSendHeader') = f
  PROVE  SendInv' /\ bBusy'
  <1>1. bBusy' BY DEF SMS_SendToDispatch
  <1>2. CASE f \in NoCentre
    <2>1. posted' = p /\ gAsynSend' = gAsynSend /\ Stuck' BY <1>2 DEF SMS_SendToDispatch
    <2>2. requests' \in Seq(CommandRecords) /\ Quiet(posted)' /\ AllClear'
      BY <2>1 DEF Quiet, AllClear, TypeOK
    <2> QED BY <1>1, <2>1, <2>2, QuietNext
  <1>3. CASE f \notin NoCentre
    <2> DEFINE k == Kind(f)  x == Asyn(k)
    <2>1. k \in Kinds /\ x \in Messages /\ x \in SendMessages /\ x # "sent"
      BY AsynFacts DEF Kind, Kinds
    <2>2. posted' = Append(p, x) /\ Load(f) BY <1>3 DEF SMS_SendToDispatch
    <2>3. /\ gAsynSend'[k] = [file |-> f, sum |-> Segs[f], sent |-> 0]
          /\ \A j \in Kinds \ {k} : gAsynSend'[j] = Clear
      <3>1. k \in DOMAIN gAsynSend /\ gAsynSend[k].sent = 0
        BY <2>1 DEF TypeOK, AllClear, Clear
      <3> QED BY <2>2, <3>1 DEF Load, AllClear, TypeOK
    <2> HIDE DEF k, x
    <2>4. \A y \in SendMessages : ~Has(p, y) BY Only DEF Quiet
    <2>5. \A j \in Kinds : ~Has(Cmds(requests'), j) BY Only DEF Quiet
    <2>6. One(posted', SendMessages) /\ \A y : Has(posted', y) <=> Has(p, y) \/ x = y
      BY <2>1, <2>2, Appended DEF Quiet
    <2>7. OneOutstanding' BY <1>1, <1>3, <2>6 DEF OneOutstanding, Quiet
    <2>8. \A j \in Kinds : Carried(j)' <=> j = k
      BY <2>1, <2>4, <2>5, <2>6, AsynFacts DEF Carried, x
    <2>9. RecordInv'
      <3>1. Segs[f] \in Nat \ {0} BY FileAssumption
      <3>2. gAsynSend'[k].sent < gAsynSend'[k].sum BY <2>3, <3>1
      <3>3. \A n \in 1 .. gAsynSend'[k].sent : FALSE BY <2>3
      <3> QED BY <2>3, <2>8, <3>2, <3>3 DEF RecordInv
    <2>10. RequestInv' BY <2>5, CmdsType DEF RequestInv, TypeOK
    <2>11. ReportInv' BY <2>1, <2>4, <2>6, AsynFacts DEF ReportInv
    <2> QED BY <1>1, <2>7, <2>9, <2>10, <2>11 DEF SendInv
  <1> QED BY <1>2, <1>3

\* The user changes the queue and the files, not what is under way.
LEMMA Kept ==
  ASSUME requests \in Seq(CommandRecords), OutboxInv, SendInv,
         UNCHANGED <<posted, requests, gAsynSend, air, cut, bBusy>>,
         Stuck' <=> Stuck,
         bBusy => (Wedged' <=> Wedged) /\ Head(pSendHeader') = Head(pSendHeader)
  PROVE  SendInv'
  <1>1. CASE bBusy
    <2>1. OneOutstanding' BY DEF SendInv, OneOutstanding
    <2>2. \A k \in Kinds : Carried(k)' <=> Carried(k) BY DEF Carried
    <2>3. RecordInv' BY <1>1, <2>2 DEF SendInv, RecordInv
    <2>4. RequestInv' BY DEF SendInv, RequestInv
    <2>5. ReportInv' BY <1>1 DEF SendInv, ReportInv, Transmitted
    <2> QED BY <2>1, <2>3, <2>4, <2>5 DEF SendInv
  <1>2. CASE ~bBusy
    <2>1. Quiet(posted) BY <1>2 DEF SendInv, OneOutstanding, Quiet
    <2>2. AllClear BY <2>1, QuietFacts DEF SendInv
    <2>3. Quiet(posted)' /\ AllClear' /\ ~bBusy' /\ requests' \in Seq(CommandRecords)
      BY <1>2, <2>1, <2>2 DEF Quiet, AllClear
    <2> QED BY <2>3, QuietNext
  <1> QED BY <1>1, <1>2

\* SMS_Send of a new file or of one that is ready to be sent again.
LEMMA SendStep ==
  ASSUME TypeOK, OutboxInv, SendInv, NEW f \in Files,
         NEW s \in {"UNSENT", "SUSPENDED", "WAITINGSEND"},
         stat[f] = "NEW" \/ (stat[f] \in {"UNSENT", "SUSPENDED"} /\ s = stat[f]),
         SMS_Send(f, s)
  PROVE  OutboxInv' /\ SendInv'
  <1> USE DEF OutboxInv
  <1>1. /\ stat \in [Files -> Statuses] /\ shown \in [Files -> Statuses]
        /\ pSendHeader \in Seq(Files) /\ posted \in Seq(Messages)
        /\ requests \in Seq(CommandRecords)
    BY DEF TypeOK
  <1>2. /\ pSendHeader' = Append(pSendHeader, f) /\ pSendHeader' # <<>>
        /\ pSendHeader # <<>> => Head(pSendHeader') = Head(pSendHeader)
        /\ pSendHeader = <<>> => Head(pSendHeader') = f
        /\ ToSet(pSendHeader') = ToSet(pSendHeader) \cup {f}
        /\ pSendHeader # <<>> => Head(pSendHeader) \in Files /\ Head(pSendHeader) \in ToSet(pSendHeader)
    BY <1>1, QueueFacts DEF SMS_Send, Queued
  <1>3. UNCHANGED <<requests, air, cut>> BY DEF SMS_Send, incoming
  <1>4. ToSet(pSendHeader) \subseteq Files BY <1>1, QueueFacts
  <1>5. pSendHeader # <<>> => Head(pSendHeader) # f
    BY <1>2 DEF BusyInv, QueuedExist, Wedged, InOutbox
  <1>6. NoCentre \subseteq Files /\ s \in InOutbox BY FileAssumption DEF InOutbox
  <1>7. CASE bBusy
    <2>1. /\ stat' = [stat EXCEPT ![f] = s] /\ shown' = [shown EXCEPT ![f] = "WAITINGSEND"]
          /\ UNCHANGED <<bBusy, posted, gAsynSend>>
      BY <1>7 DEF SMS_Send, Idle
    <2>2. pSendHeader # <<>> /\ Head(pSendHeader') = Head(pSendHeader)
          /\ stat'[Head(pSendHeader)] = stat[Head(pSendHeader)]
      BY <1>1, <1>2, <1>5, <1>7, <2>1 DEF BusyInv
    <2>3. Wedged' <=> Wedged BY <1>2, <2>2 DEF Wedged
    <2>4. Stuck' <=> Stuck BY <1>1, <1>6, <2>1 DEF Stuck
    <2>5. ShownInv' BY <1>1, <1>6, <2>1 DEF ShownInv
    <2>6. QueuedExist' BY <1>1, <1>2, <1>4, <2>1 DEF QueuedExist
    <2>7. BusyInv' BY <1>2, <1>7, <2>1, <2>2, <2>3 DEF BusyInv
    <2> QED BY <1>1, <1>3, <2>1, <2>2, <2>3, <2>4, <2>5, <2>6, <2>7, Kept
  <1>8. CASE ~bBusy
    <2>1. /\ stat' = [stat EXCEPT ![f] = "SENDING"] /\ shown' = [shown EXCEPT ![f] = "SENDING"]
          /\ SMS_SendToDispatch(f, posted)
      BY <1>6, <1>8 DEF SMS_Send, Idle
    <2>2. Quiet(posted) BY <1>8 DEF SendInv, OneOutstanding, Quiet
    <2>3. AllClear BY <2>2, QuietFacts DEF SendInv
    <2>4. Stuck' <=> f \in NoCentre BY <1>1, <1>6, <1>8, <2>1 DEF Stuck, BusyInv
    <2>5. Wedged' \/ (pSendHeader = <<>> /\ Head(pSendHeader') = f /\ stat'[f] = "SENDING")
      BY <1>1, <1>2, <1>5, <1>8, <2>1 DEF Wedged, BusyInv
    <2>6. SendInv' /\ bBusy' BY <1>1, <1>3, <2>1, <2>2, <2>3, <2>4, <2>5, Started
    <2>7. ShownInv' BY <1>1, <2>1 DEF ShownInv
    <2>8. QueuedExist' BY <1>1, <1>2, <1>4, <2>1 DEF QueuedExist
    <2>9. BusyInv' BY <1>2, <2>5, <2>6 DEF BusyInv
    <2> QED BY <2>6, <2>7, <2>8, <2>9
  <1> QED BY <1>7, <1>8

\* A message that is written and sent.
LEMMA ComposeStep ==
  ASSUME TypeOK, OutboxInv, SendInv, NEW f \in Files, Compose(f)
  PROVE  OutboxInv' /\ SendInv'
  BY SendStep DEF Compose

\* A message that is sent again.
LEMMA ResendStep ==
  ASSUME TypeOK, OutboxInv, SendInv, NEW f \in Files, Resend(f)
  PROVE  OutboxInv' /\ SendInv'
  <1>1. shown[f] \in {"UNSENT", "SUSPENDED"} BY DEF Resend, Listed
  <1>2. stat[f] = shown[f] BY <1>1 DEF OutboxInv, ShownInv
  <1> QED BY <1>1, <1>2, SendStep DEF Resend

\* A message that is deleted from the list, which does not take it off the queue.
LEMMA DeleteStep ==
  ASSUME TypeOK, OutboxInv, SendInv, NEW f \in Files, Delete(f)
  PROVE  OutboxInv' /\ SendInv'
  <1> USE DEF OutboxInv
  <1>1. /\ stat \in [Files -> Statuses] /\ shown \in [Files -> Statuses]
        /\ pSendHeader \in Seq(Files) /\ requests \in Seq(CommandRecords)
    BY DEF TypeOK
  <1>2. /\ stat' = [stat EXCEPT ![f] = "GONE"] /\ shown' = [shown EXCEPT ![f] = "GONE"]
        /\ shown[f] \in {"UNSENT", "SUSPENDED"}
        /\ UNCHANGED <<posted, requests, gAsynSend, air, cut, bBusy, pSendHeader>>
    BY DEF Delete, Listed, dispatch, outgoing, queues
  <1>3. stat[f] = shown[f] BY <1>2 DEF ShownInv
  <1>4. pSendHeader # <<>> => Head(pSendHeader) \in Files BY <1>1, QueueFacts
  <1>5. pSendHeader # <<>> /\ (Wedged \/ stat[Head(pSendHeader)] = "SENDING") =>
          Head(pSendHeader) # f /\ (Wedged' <=> Wedged)
    BY <1>1, <1>2, <1>3, <1>4 DEF Wedged, InOutbox
  <1>6. Stuck' <=> Stuck BY <1>1, <1>2, <1>3, FileAssumption DEF Stuck
  <1>7. ShownInv' BY <1>1, <1>2 DEF ShownInv
  <1>8. QueuedExist'
    <2>1. ToSet(pSendHeader) \subseteq Files BY <1>1, QueueFacts
    <2> QED BY <1>1, <1>2, <2>1 DEF QueuedExist
  <1>9. BusyInv' BY <1>1, <1>2, <1>4, <1>5, <1>6 DEF BusyInv
  <1>10. bBusy => (Wedged' <=> Wedged) BY <1>5 DEF BusyInv
  <1> QED BY <1>1, <1>2, <1>6, <1>7, <1>8, <1>9, <1>10, Kept

\* The list is read again.
LEMMA OpenStep ==
  ASSUME TypeOK, OutboxInv, SendInv, OpenOutbox
  PROVE  OutboxInv' /\ SendInv'
  <1> USE DEF OutboxInv
  <1>1. /\ shown' = stat
        /\ UNCHANGED <<posted, requests, gAsynSend, air, cut, bBusy, pSendHeader, stat>>
    BY DEF OpenOutbox, dispatch, outgoing, queues
  <1>2. (Stuck' <=> Stuck) /\ (Wedged' <=> Wedged) BY <1>1 DEF Stuck, Wedged
  <1>3. ShownInv' /\ QueuedExist' /\ BusyInv'
    BY <1>1, <1>2 DEF ShownInv, QueuedExist, BusyInv
  <1> QED BY <1>1, <1>2, <1>3, Kept DEF TypeOK

\* A sequence without its i-th element.
LEMMA RemoveAtFacts ==
  ASSUME NEW T, NEW q \in Seq(T), NEW i \in 1 .. Len(q)
  PROVE  /\ RemoveAt(q, i) \in Seq(T) /\ Len(RemoveAt(q, i)) = Len(q) - 1
         /\ \A j \in 1 .. Len(q) - 1 : RemoveAt(q, i)[j] = IF j < i THEN q[j] ELSE q[j + 1]
  <1> DEFINE n == Len(q)  a == SubSeq(q, 1, i - 1)  b == SubSeq(q, i + 1, n)  r == a \o b
  <1>1. n \in Nat /\ i \in Nat /\ 1 <= i /\ i <= n /\ \A j \in 1 .. n : q[j] \in T
    BY LenProperties, ElementOfSeq
  <1> HIDE DEF n
  <1>2. a \in Seq(T) /\ Len(a) = i - 1 /\ \A j \in 1 .. i - 1 : a[j] = q[j]
    BY <1>1, SubSeqProperties
  <1>3. b \in Seq(T) /\ Len(b) = n - i /\ \A j \in 1 .. n - i : b[j] = q[i + j]
    <2>1. \A j \in i + 1 .. n : q[j] \in T BY <1>1
    <2>2. i + 1 \in Int /\ n \in Int BY <1>1
    <2>3. /\ b \in Seq(T) /\ Len(b) = IF i + 1 <= n THEN n - (i + 1) + 1 ELSE 0
          /\ \A j \in 1 .. n - (i + 1) + 1 : b[j] = q[i + 1 + j - 1]
      BY <2>1, <2>2, SubSeqProperties
    <2>4. n - (i + 1) + 1 = n - i BY <1>1
    <2>5. Len(b) = n - i BY <1>1, <2>3, <2>4
    <2>6. ASSUME NEW j \in 1 .. n - i PROVE b[j] = q[i + j]
      <3>1. i + 1 + j - 1 = i + j BY <1>1
      <3> QED BY <2>3, <2>4, <3>1
    <2> QED BY <2>3, <2>5, <2>6
  <1> HIDE DEF a, b
  <1>4. /\ r \in Seq(T) /\ Len(r) = (i - 1) + (n - i)
        /\ \A j \in 1 .. (i - 1) + (n - i) : r[j] = IF j <= i - 1 THEN a[j] ELSE b[j - (i - 1)]
    <2>1. /\ r \in Seq(T) /\ Len(r) = Len(a) + Len(b)
          /\ \A j \in 1 .. Len(a) + Len(b) : r[j] = IF j <= Len(a) THEN a[j] ELSE b[j - Len(a)]
      BY <1>2, <1>3, ConcatProperties
    <2> HIDE DEF r
    <2> QED BY <1>2, <1>3, <2>1
  <1>5. (i - 1) + (n - i) = n - 1 BY <1>1
  <1> HIDE DEF r
  <1>6. \A j \in 1 .. n - 1 : r[j] = IF j < i THEN q[j] ELSE q[j + 1]
    <2> TAKE j \in 1 .. n - 1
    <2>1. CASE j < i
      <3>1. j <= i - 1 /\ j \in 1 .. i - 1 BY <1>1, <2>1
      <3> QED BY <1>2, <1>4, <1>5, <2>1, <3>1
    <2>2. CASE ~(j < i)
      <3>1. ~(j <= i - 1) /\ j - (i - 1) \in 1 .. n - i /\ i + (j - (i - 1)) = j + 1
        BY <1>1, <2>2
      <3>2. r[j] = b[j - (i - 1)] BY <1>4, <1>5, <3>1
      <3>3. b[j - (i - 1)] = q[j + 1] BY <1>3, <3>1
      <3> QED BY <2>2, <3>2, <3>3
    <2> QED BY <2>1, <2>2
  <1>7. RemoveAt(q, i) = r BY DEF RemoveAt, r, a, b, n
  <1> QED BY <1>4, <1>5, <1>6, <1>7 DEF n

\* Taking a waiting file out of the queue leaves the head and the other files.
LEMMA RemoveQueued ==
  ASSUME NEW q \in Seq(Files), NEW i \in 2 .. Len(q)
  PROVE  /\ RemoveAt(q, i) \in Seq(Files) /\ RemoveAt(q, i) # <<>>
         /\ q # <<>> /\ Head(RemoveAt(q, i)) = Head(q)
         /\ ToSet(RemoveAt(q, i)) \subseteq ToSet(q)
         /\ \A f \in ToSet(q) \ {q[i]} : f \in ToSet(RemoveAt(q, i))
  <1> DEFINE n == Len(q)  r == RemoveAt(q, i)
  <1>1. n \in Nat /\ DOMAIN q = 1 .. n BY LenProperties
  <1>2. i \in Nat /\ 2 <= i /\ i <= n /\ i \in 1 .. Len(q) BY <1>1
  <1>3. /\ r \in Seq(Files) /\ Len(r) = n - 1
        /\ \A j \in 1 .. n - 1 : r[j] = IF j < i THEN q[j] ELSE q[j + 1]
    BY <1>2, RemoveAtFacts
  <1> HIDE DEF n, r
  <1>4. DOMAIN r = 1 .. n - 1 BY <1>3, LenProperties
  <1>5. r # <<>> /\ q # <<>>
    <2>1. 1 \in DOMAIN r /\ 1 \in DOMAIN q BY <1>1, <1>2, <1>4
    <2> QED BY <2>1
  <1>6. Head(r) = r[1] /\ Head(q) = q[1] BY <1>3, <1>5, HeadTailProperties
  <1>7. r[1] = q[1] BY <1>1, <1>2, <1>3
  <1>8. \A j \in DOMAIN r : r[j] \in ToSet(q)
    <2> TAKE j \in DOMAIN r
    <2>1. j \in DOMAIN q /\ j + 1 \in DOMAIN q BY <1>1, <1>4
    <2>2. q[j] \in ToSet(q) /\ q[j + 1] \in ToSet(q) BY <2>1 DEF ToSet
    <2> QED BY <1>3, <1>4, <2>2
  <1>9. \A f \in ToSet(q) \ {q[i]} : f \in ToSet(r)
    <2> TAKE f \in ToSet(q) \ {q[i]}
    <2>1. PICK j \in DOMAIN q : q[j] = f BY DEF ToSet
    <2>2. CASE j < i
      <3>1. j \in 1 .. n - 1 /\ r[j] = f BY <1>1, <1>2, <1>3, <2>1, <2>2
      <3> QED BY <1>4, <3>1 DEF ToSet
    <2>3. CASE j > i
      <3>1. j - 1 \in 1 .. n - 1 /\ ~(j - 1 < i) /\ (j - 1) + 1 = j BY <1>1, <1>2, <2>3
      <3>2. r[j - 1] = f BY <1>3, <2>1, <3>1
      <3> QED BY <1>4, <3>1, <3>2 DEF ToSet
    <2>4. j # i BY <2>1
    <2> QED BY <1>1, <1>2, <2>2, <2>3, <2>4
  <1>10. ToSet(r) \subseteq ToSet(q) BY <1>8 DEF ToSet
  <1> QED BY <1>3, <1>5, <1>6, <1>7, <1>9, <1>10 DEF r

\* A set of natural numbers that is not empty has a least one.
LEMMA Least ==
  ASSUME NEW T, T \subseteq Nat, T # {}
  PROVE  \E x \in T : \A y \in T : x <= y
  <1> DEFINE R == OpToRel(<, Nat)
  <1>1. IsWellFoundedOn(R, Nat) BY NatLessThanWellFounded
  <1>2. \A x \in Nat, y \in Nat : y < x => <<y, x>> \in R BY DEF OpToRel
  <1> HIDE DEF R
  <1>3. PICK x \in T : \A y \in T : ~(<<y, x>> \in R) BY <1>1, WFMin
  <1>4. \A y \in T : ~(y < x) BY <1>2, <1>3
  <1> QED BY <1>4

\* The place of a file that is taken out.
LEMMA SuspendPlace ==
  ASSUME pSendHeader \in Seq(Files), NEW f \in Files, Waiting(f) # {}
  PROVE  LET i == CHOOSE x \in Waiting(f) : \A y \in Waiting(f) : x <= y
         IN i \in 2 .. Len(pSendHeader) /\ pSendHeader[i] = f
  <1>1. Len(pSendHeader) \in Nat BY LenProperties
  <1>2. Waiting(f) \subseteq Nat BY <1>1 DEF Waiting
  <1>3. \E x \in Waiting(f) : \A y \in Waiting(f) : x <= y BY <1>2, Least
  <1> QED BY <1>3 DEF Waiting

\* A message that is suspended leaves its place behind the head.
LEMMA SuspendStep ==
  ASSUME TypeOK, OutboxInv, SendInv, NEW f \in Files, SMS_Suspend(f)
  PROVE  OutboxInv' /\ SendInv'
  <1> USE DEF OutboxInv
  <1>1. /\ stat \in [Files -> Statuses] /\ shown \in [Files -> Statuses]
        /\ pSendHeader \in Seq(Files) /\ requests \in Seq(CommandRecords)
    BY DEF TypeOK
  <1>2. shown[f] = "WAITINGSEND" /\ UNCHANGED <<posted, requests, gAsynSend, air, cut, bBusy>>
    BY DEF SMS_Suspend, Listed, dispatch, outgoing, queues
  <1>3. CASE UNCHANGED <<pSendHeader, stat, shown>>
    <2>1. (Stuck' <=> Stuck) /\ (Wedged' <=> Wedged) BY <1>3 DEF Stuck, Wedged
    <2>2. ShownInv' /\ QueuedExist' /\ BusyInv'
      BY <1>2, <1>3, <2>1 DEF ShownInv, QueuedExist, BusyInv
    <2> QED BY <1>1, <1>2, <1>3, <2>1, <2>2, Kept
  <1>4. CASE ~UNCHANGED <<pSendHeader, stat, shown>>
    <2> DEFINE i == CHOOSE x \in Waiting(f) : \A y \in Waiting(f) : x <= y
    <2>1. /\ Waiting(f) # {} /\ stat[f] \in InOutbox
          /\ pSendHeader' = RemoveAt(pSendHeader, i)
          /\ stat' = [stat EXCEPT ![f] = "SUSPENDED"]
          /\ shown' = [shown EXCEPT ![f] = "SUSPENDED"]
      BY <1>4 DEF SMS_Suspend
    <2>2. i \in 2 .. Len(pSendHeader) BY <1>1, <2>1, SuspendPlace
    <2> HIDE DEF i
    <2>3. /\ pSendHeader # <<>> /\ pSendHeader' # <<>>
          /\ Head(pSendHeader') = Head(pSendHeader)
          /\ ToSet(pSendHeader') \subseteq ToSet(pSendHeader)
      BY <1>1, <2>1, <2>2, RemoveQueued
    <2>4. Head(pSendHeader) \in Files /\ ToSet(pSendHeader) \subseteq Files
      BY <1>1, <2>3, QueueFacts
    <2>5. stat[f] # "SENDING" /\ Head(pSendHeader) # f
      BY <1>2, <2>1, <2>3 DEF ShownInv, BusyInv, Wedged
    <2>6. Wedged' <=> Wedged BY <1>1, <2>1, <2>3, <2>4, <2>5 DEF Wedged
    <2>7. Stuck' <=> Stuck BY <1>1, <2>1, <2>5, FileAssumption DEF Stuck
    <2>8. ShownInv' BY <1>1, <2>1 DEF ShownInv
    <2>9. QueuedExist' BY <1>1, <2>1, <2>3, <2>4 DEF QueuedExist
    <2>10. BusyInv' BY <1>1, <1>2, <2>1, <2>3, <2>4, <2>5, <2>6, <2>7 DEF BusyInv
    <2> QED BY <1>1, <1>2, <2>3, <2>6, <2>7, <2>8, <2>9, <2>10, Kept
  <1> QED BY <1>3, <1>4

-----------------------------------------------------------------------------
(* The result of a send, and the next one.                                 *)

\* The next file of the queue is sent, when nothing is under way.
LEMMA NextStep ==
  ASSUME NEW q \in Seq(Files), NEW s \in [Files -> Statuses], NEW l \in [Files -> Statuses],
         TypeOK, Tail(posted) \in Seq(Messages), Quiet(Tail(posted)), AllClear,
         \A f \in NoCentre : s[f] # "SENDING",
         \A f \in Files : l[f] = s[f] \/ (l[f] = "WAITINGSEND" /\ s[f] \in InOutbox \ {"SENDING"}),
         \A f \in ToSet(q) : s[f] # "NEW",
         SendNext(q, s, l), UNCHANGED <<requests, air, cut>>
  PROVE  OutboxInv' /\ SendInv'
  <1> DEFINE f == Head(q)
  <1>1. pSendHeader' = q BY DEF SendNext
  <1>2. q # <<>> => f \in Files BY QueueFacts
  <1>3. ToSet(q) \subseteq Files BY QueueFacts
  <1>4. NoCentre \subseteq Files BY FileAssumption
  <1>5. CASE q # <<>> /\ s[f] \in InOutbox
    <2>1. /\ stat' = [s EXCEPT ![f] = "SENDING"] /\ shown' = [l EXCEPT ![f] = "SENDING"]
          /\ SMS_SendToDispatch(f, Tail(posted))
      BY <1>5 DEF SendNext
    <2> HIDE DEF f
    <2>2. Stuck' <=> f \in NoCentre BY <1>2, <1>4, <1>5, <2>1 DEF Stuck
    <2>3. SendInv' /\ bBusy' BY <1>1, <1>2, <1>5, <2>1, <2>2, Started DEF f
    <2>4. ShownInv' BY <1>2, <1>5, <2>1 DEF ShownInv
    <2>5. QueuedExist' BY <1>1, <1>2, <1>3, <1>5, <2>1 DEF QueuedExist
    <2>6. stat'[f] = "SENDING" BY <1>2, <1>5, <2>1
    <2>7. BusyInv' BY <1>1, <1>5, <2>3, <2>6 DEF BusyInv, f
    <2> QED BY <2>3, <2>4, <2>5, <2>7 DEF OutboxInv
  <1>6. CASE ~(q # <<>> /\ s[f] \in InOutbox)
    <2>1. /\ stat' = s /\ shown' = l /\ ~bBusy' /\ posted' = Tail(posted)
          /\ UNCHANGED gAsynSend
      BY <1>6 DEF SendNext
    <2>2. requests' \in Seq(CommandRecords) /\ Quiet(posted)' /\ AllClear'
      BY <2>1 DEF TypeOK, Quiet, AllClear
    <2>3. SendInv' BY <2>1, <2>2, QuietNext
    <2>4. ShownInv' /\ QueuedExist' BY <1>1, <2>1 DEF ShownInv, QueuedExist
    <2>5. ~Stuck' BY <2>1 DEF Stuck
    <2>6. BusyInv' BY <1>1, <1>6, <2>1, <2>5 DEF BusyInv, Wedged
    <2> QED BY <2>3, <2>4, <2>6 DEF OutboxInv
  <1> QED BY <1>5, <1>6

\* A result for a head without a file.
LEMMA MissingStep ==
  ASSUME TypeOK, OutboxInv, SendInv, posted # <<>>, Head(posted) \in {"sent", "failed"},
         Wedged, HeadMissing, UNCHANGED <<requests, air, cut>>
  PROVE  OutboxInv' /\ SendInv'
  <1>1. /\ ~Stuck /\ pSendHeader # <<>> /\ Quiet(Tail(posted)) /\ AllClear
    BY ResultFacts DEF TypeOK
  <1>2. /\ ~bBusy' /\ posted' = Tail(posted)
        /\ UNCHANGED <<stat, shown, pSendHeader, gAsynSend>>
    BY DEF HeadMissing
  <1>3. requests' \in Seq(CommandRecords) /\ Quiet(posted)' /\ AllClear'
    BY <1>1, <1>2 DEF TypeOK, Quiet, AllClear
  <1>4. SendInv' BY <1>2, <1>3, QuietNext
  <1>5. ~Stuck' /\ Wedged' BY <1>1, <1>2 DEF Stuck, Wedged
  <1>6. ShownInv' /\ QueuedExist' /\ BusyInv'
    BY <1>1, <1>2, <1>5 DEF OutboxInv, ShownInv, QueuedExist, BusyInv
  <1> QED BY <1>4, <1>6 DEF OutboxInv

\* The queue after a result that is booked, when the file at its head gets
\* status v.
LEMMA BookedStep ==
  ASSUME TypeOK, OutboxInv, SendInv, posted # <<>>, Head(posted) \in {"sent", "failed"},
         ~Wedged, NEW v \in {"SENT", "UNSENT", "SENDING"},
         SendNext(Rest(pSendHeader), [stat EXCEPT ![Head(pSendHeader)] = v],
                  [shown EXCEPT ![Head(pSendHeader)] = v]),
         UNCHANGED <<requests, air, cut>>
  PROVE  OutboxInv' /\ SendInv'
  <1> DEFINE f == Head(pSendHeader)
             s == [stat EXCEPT ![f] = v]
             l == [shown EXCEPT ![f] = v]
             q == Tail(pSendHeader)
  <1>1. /\ bBusy /\ ~Stuck /\ pSendHeader # <<>>
        /\ Tail(posted) \in Seq(Messages) /\ Quiet(Tail(posted)) /\ AllClear
    BY ResultFacts DEF TypeOK
  <1>2. /\ stat \in [Files -> Statuses] /\ shown \in [Files -> Statuses]
        /\ pSendHeader \in Seq(Files)
    BY DEF TypeOK
  <1>3. f \in Files /\ q \in Seq(Files) /\ ToSet(pSendHeader) = ToSet(q) \cup {f}
        /\ ToSet(pSendHeader) \subseteq Files
    BY <1>1, <1>2, QueueFacts
  <1>4. stat[f] = "SENDING" BY <1>1 DEF OutboxInv, BusyInv
  <1>5. v \in Statuses BY DEF Statuses, InOutbox
  <1>6. s \in [Files -> Statuses] /\ l \in [Files -> Statuses] BY <1>2, <1>5
  <1> HIDE DEF f
  <1>7. \A g \in NoCentre : s[g] # "SENDING"
    <2>1. f \notin NoCentre /\ NoCentre \subseteq Files BY <1>1, <1>4, FileAssumption DEF Stuck
    <2> QED BY <1>1, <1>2, <2>1 DEF Stuck
  <1>8. \A g \in Files :
          l[g] = s[g] \/ (l[g] = "WAITINGSEND" /\ s[g] \in InOutbox \ {"SENDING"})
    BY <1>2, <1>3 DEF OutboxInv, ShownInv
  <1>9. \A g \in ToSet(q) : s[g] # "NEW"
    BY <1>2, <1>3 DEF OutboxInv, QueuedExist
  <1>10. SendNext(q, s, l) BY DEF Rest, f
  <1> HIDE DEF s, l, q
  <1> QED BY <1>1, <1>3, <1>6, <1>7, <1>8, <1>9, <1>10, NextStep

\* A result is for a file that was being sent, or its file has gone.
LEMMA NotWedged ==
  ASSUME TypeOK, OutboxInv, SendInv, posted # <<>>, Head(posted) \in {"sent", "failed"}
  PROVE  /\ Wedged <=> stat[Head(pSendHeader)] \notin InOutbox
         /\ ~Wedged => stat[Head(pSendHeader)] = "SENDING" /\ shown[Head(pSendHeader)] = "SENDING"
  <1>1. bBusy /\ pSendHeader # <<>> BY ResultFacts DEF TypeOK
  <1>2. Head(pSendHeader) \in Files BY <1>1, QueueFacts DEF TypeOK
  <1> QED BY <1>1, <1>2 DEF OutboxInv, BusyInv, ShownInv, Wedged

\* A success is booked.
LEMMA SucceededStep ==
  ASSUME TypeOK, OutboxInv, SendInv, SendSucceeded
  PROVE  OutboxInv' /\ SendInv'
  <1> DEFINE f == Head(pSendHeader)
  <1>1. posted # <<>> /\ Head(posted) \in {"sent", "failed"} /\ UNCHANGED <<requests, air, cut>>
    BY DEF SendSucceeded
  <1>2. CASE Wedged
    <2>1. HeadMissing BY <1>1, <1>2, NotWedged DEF SendSucceeded
    <2> QED BY <1>1, <1>2, <2>1, MissingStep
  <1>3. CASE ~Wedged
    <2>1. stat[f] \in InOutbox /\ stat[f] = "SENDING" /\ shown[f] = "SENDING"
      BY <1>1, <1>3, NotWedged
    <2>2. \/ SendNext(Rest(pSendHeader), [stat EXCEPT ![f] = "SENT"], [shown EXCEPT ![f] = "SENT"])
          \/ SendNext(Rest(pSendHeader), stat, shown)
      BY <2>1 DEF SendSucceeded
    <2>3. CASE SendNext(Rest(pSendHeader), [stat EXCEPT ![f] = "SENT"], [shown EXCEPT ![f] = "SENT"])
      BY <1>1, <1>3, <2>3, BookedStep
    <2>4. CASE SendNext(Rest(pSendHeader), stat, shown)
      <3>1. stat = [stat EXCEPT ![f] = "SENDING"] /\ shown = [shown EXCEPT ![f] = "SENDING"]
        BY <2>1 DEF TypeOK
      <3>2. SendNext(Rest(pSendHeader), [stat EXCEPT ![f] = "SENDING"], [shown EXCEPT ![f] = "SENDING"])
        BY <2>4, <3>1
      <3> QED BY <1>1, <1>3, <3>2, BookedStep
    <2> QED BY <2>2, <2>3, <2>4
  <1> QED BY <1>2, <1>3

\* A failure is booked.
LEMMA FailedStep ==
  ASSUME TypeOK, OutboxInv, SendInv, SendFailed
  PROVE  OutboxInv' /\ SendInv'
  <1> DEFINE f == Head(pSendHeader)
  <1>1. posted # <<>> /\ Head(posted) \in {"sent", "failed"} /\ UNCHANGED <<requests, air, cut>>
    BY DEF SendFailed
  <1>2. CASE Wedged
    <2>1. HeadMissing BY <1>1, <1>2, NotWedged DEF SendFailed
    <2> QED BY <1>1, <1>2, <2>1, MissingStep
  <1>3. CASE ~Wedged
    <2>1. stat[f] \in InOutbox BY <1>1, <1>3, NotWedged
    <2>2. SendNext(Rest(pSendHeader), [stat EXCEPT ![f] = "UNSENT"], [shown EXCEPT ![f] = "UNSENT"])
      BY <2>1 DEF SendFailed
    <2> QED BY <1>1, <1>3, <2>2, BookedStep
  <1> QED BY <1>2, <1>3

-----------------------------------------------------------------------------
(* The segments.                                                           *)

\* A segment is given to the modem, or refused.
LEMMA SegmentStep ==
  ASSUME TypeOK, OutboxInv, NEW k \in Kinds, NEW n \in Nat,
         NEW q \in Seq(CommandRecords), NEW p \in Seq(Messages), NEW r \in {"sent", "failed"},
         None(p, SendMessages), None(Cmds(q), Kinds), bBusy, ~Stuck,
         \A j \in Kinds \ {k} : gAsynSend[j] = Clear,
         gAsynSend[k].file \in Files, gAsynSend[k].sum = Segs[gAsynSend[k].file],
         n < gAsynSend[k].sum, \A i \in 1 .. n : <<gAsynSend[k].file, i>> \in air',
         ~Wedged => gAsynSend[k].file = Head(pSendHeader),
         SendSegment(k, n, q, p, r), UNCHANGED outbox
  PROVE  SendInv'
  <1> DEFINE f == gAsynSend[k].file  c == Command(k, <<f, n + 1>>)
  <1>1. c \in CommandRecords /\ c.cmd = k /\ c.arg = <<f, n + 1>> /\ k \in CmdNames
    BY DEF Command, CommandRecords, CmdNames
  <1>2. /\ bBusy' /\ ~Stuck' /\ (Wedged' <=> Wedged)
        /\ pSendHeader' = pSendHeader
    BY DEF outbox, Stuck, Wedged
  <1>3. \A x \in SendMessages : ~Has(p, x) BY Only
  <1>4. \A j \in Kinds : ~Has(Cmds(q), j) BY Only
  <1>5. Cmds(q) \in Seq(CmdNames) BY CmdsType
  <1>6. CASE requests' = Append(q, c) /\ requests' # q
    <2>1. gAsynSend' = [gAsynSend EXCEPT ![k].sent = n] /\ posted' = p
      BY <1>6 DEF SendSegment
    <2>2. /\ gAsynSend'[k].file = f /\ gAsynSend'[k].sum = Segs[f] /\ gAsynSend'[k].sent = n
          /\ \A j \in Kinds \ {k} : gAsynSend'[j] = Clear
      BY <2>1 DEF TypeOK
    <2> HIDE DEF c
    <2>3. Cmds(requests') = Append(Cmds(q), k) BY <1>1, <1>6, CmdsAppend
    <2>4. /\ One(Cmds(requests'), Kinds)
          /\ \A y : Has(Cmds(requests'), y) <=> Has(Cmds(q), y) \/ k = y
      BY <1>1, <1>5, <2>3, Appended
    <2>5. \A y : Has(requests', y) <=> Has(q, y) \/ c = y BY <1>1, <1>6, Appended
    <2>6. OneOutstanding' BY <1>2, <2>1, <2>4 DEF OneOutstanding
    <2>7. \A j \in Kinds : Carried(j)' <=> j = k
      BY <1>3, <1>4, <2>1, <2>4, AsynFacts DEF Carried
    <2>8. RecordInv' BY <1>2, <2>2, <2>7 DEF RecordInv
    <2>9. \A d \in CommandRecords : d.cmd \in Kinds => ~Has(q, d) BY <1>4, CmdsType
    <2>10. RequestInv' BY <1>1, <2>2, <2>5, <2>9 DEF RequestInv
    <2>11. ReportInv' BY <1>3, <2>1, AsynFacts DEF ReportInv
    <2> QED BY <2>6, <2>8, <2>10, <2>11 DEF SendInv
  <1>7. CASE requests' = q
    <2>1. /\ gAsynSend' = [gAsynSend EXCEPT ![k] = Clear] /\ posted' = Append(p, r)
          /\ r = "sent" => f \in cut'
      BY <1>7 DEF SendSegment
    <2>2. AllClear' BY <2>1 DEF TypeOK, AllClear
    <2>3. r \in Messages /\ r \in SendMessages BY AsynFacts
    <2>4. /\ One(posted', SendMessages)
          /\ \A y : Has(posted', y) <=> Has(p, y) \/ r = y
      BY <2>1, <2>3, Appended
    <2>5. OneOutstanding' BY <1>2, <1>7, <2>4 DEF OneOutstanding
    <2>6. \A j \in Kinds : ~Carried(j)'
      BY <1>3, <1>4, <1>7, <2>4, AsynFacts DEF Carried
    <2>7. RecordInv' BY <2>2, <2>6 DEF RecordInv, AllClear
    <2>8. RequestInv' BY <1>4, <1>7, CmdsType DEF RequestInv
    <2>9. ReportInv' BY <1>2, <1>3, <2>1, <2>4, AsynFacts DEF ReportInv, Transmitted
    <2> QED BY <2>5, <2>7, <2>8, <2>9 DEF SendInv
  <1>8. requests' = q \/ requests' = Append(q, c) BY DEF SendSegment, Given
  <1> QED BY <1>6, <1>7, <1>8

\* The dispatcher starts on a message it was given.
LEMMA AsynStep ==
  ASSUME TypeOK, OutboxInv, SendInv, NEW k \in Kinds, WM_ASYN_SEND(k), UNCHANGED outbox
  PROVE  OutboxInv' /\ SendInv'
  <1>1. /\ posted # <<>> /\ Head(posted) = Asyn(k) /\ Asyn(k) \in SendMessages
        /\ SendSegment(k, gAsynSend[k].sent, requests, Tail(posted), "failed")
        /\ air' = air
    BY AsynFacts DEF WM_ASYN_SEND
  <1>2. /\ Tail(posted) \in Seq(Messages) /\ Has(posted, Asyn(k)) /\ ~None(posted, SendMessages)
    BY <1>1, Taken DEF TypeOK
  <1>3. bBusy /\ ~Stuck /\ One(posted, SendMessages) /\ None(Cmds(requests), Kinds)
    BY <1>2 DEF SendInv, OneOutstanding
  <1>4. None(Tail(posted), SendMessages) BY <1>1, <1>3, Taken DEF TypeOK
  <1>5. \A j \in Kinds : ~Has(Cmds(requests), j) BY <1>3, Only
  <1>6. \A j \in Kinds : Carried(j) <=> j = k
    BY <1>1, <1>2, <1>3, <1>5, Only, AsynFacts DEF Carried
  <1>7. /\ gAsynSend[k].file \in Files /\ gAsynSend[k].sum = Segs[gAsynSend[k].file]
        /\ gAsynSend[k].sent < gAsynSend[k].sum
        /\ \A i \in 1 .. gAsynSend[k].sent : <<gAsynSend[k].file, i>> \in air
        /\ ~Wedged => gAsynSend[k].file = Head(pSendHeader)
        /\ \A j \in Kinds \ {k} : gAsynSend[j] = Clear
    BY <1>6 DEF SendInv, RecordInv
  <1>8. gAsynSend[k].sent \in Nat /\ requests \in Seq(CommandRecords) BY DEF TypeOK
  <1>9. SendInv' BY <1>1, <1>2, <1>3, <1>4, <1>7, <1>8, SegmentStep
  <1>10. OutboxInv'
    BY DEF OutboxInv, outbox, ShownInv, QueuedExist, BusyInv, Stuck, Wedged
  <1> QED BY <1>9, <1>10

\* The modem driver has acknowledged a segment or failed.
LEMMA AnsweredStep ==
  ASSUME TypeOK, OutboxInv, SendInv, NEW k \in Kinds, SendAnswered(k), UNCHANGED outbox
  PROVE  OutboxInv' /\ SendInv'
  <1> DEFINE f == gAsynSend[k].file  n == gAsynSend[k].sent + 1  q == Tail(requests)
  <1>1. requests # <<>> /\ Head(requests).cmd = k /\ requests \in Seq(CommandRecords)
        /\ posted \in Seq(Messages)
    BY DEF SendAnswered, Answers, TypeOK
  <1>2. Cmds(requests) \in Seq(CmdNames) /\ Cmds(requests) # <<>> /\ Head(Cmds(requests)) = k
        /\ Cmds(q) = Tail(Cmds(requests))
    BY <1>1, CmdsType, CmdsTail
  <1>3. /\ q \in Seq(CommandRecords) /\ Head(requests) \in CommandRecords
        /\ Has(requests, Head(requests)) /\ Has(Cmds(requests), k)
        /\ ~None(Cmds(requests), Kinds)
    BY <1>1, <1>2, Taken
  <1>4. bBusy /\ ~Stuck /\ None(posted, SendMessages) /\ One(Cmds(requests), Kinds)
    BY <1>3 DEF SendInv, OneOutstanding
  <1>5. None(Cmds(q), Kinds) BY <1>2, <1>4, Taken
  <1>6. \A x \in SendMessages : ~Has(posted, x) BY <1>4, Only
  <1>7. \A j \in Kinds : Carried(j) <=> j = k
    BY <1>3, <1>4, <1>6, Only, AsynFacts DEF Carried
  <1>8. /\ f \in Files /\ gAsynSend[k].sum = Segs[f] /\ gAsynSend[k].sent < gAsynSend[k].sum
        /\ \A i \in 1 .. gAsynSend[k].sent : <<f, i>> \in air
        /\ ~Wedged => f = Head(pSendHeader)
        /\ \A j \in Kinds \ {k} : gAsynSend[j] = Clear
    BY <1>7 DEF SendInv, RecordInv
  <1>9. Head(requests).arg = <<f, n>> BY <1>1, <1>3 DEF SendInv, RequestInv
  <1>10. gAsynSend[k].sent \in Nat /\ n \in Nat /\ gAsynSend[k].sum \in Nat BY DEF TypeOK
  <1>11. OutboxInv' /\ (Wedged' <=> Wedged) /\ pSendHeader' = pSendHeader
        /\ bBusy' /\ ~Stuck'
    BY <1>4 DEF OutboxInv, outbox, ShownInv, QueuedExist, BusyInv, Stuck, Wedged
  <1>12. PICK ok \in BOOLEAN :
           /\ air' = IF ok THEN air \cup {Head(requests).arg} ELSE air
           /\ IF ok /\ n # gAsynSend[k].sum
              THEN SendSegment(k, n, q, posted, LaterRefused(k))
              ELSE /\ posted' = Append(posted, Report(k, ok))
                   /\ gAsynSend' = [gAsynSend EXCEPT ![k] = Clear]
                   /\ requests' = q /\ UNCHANGED cut
    BY DEF SendAnswered, Outcomes
  <1>13. ok => \A i \in 1 .. n : <<f, i>> \in air'
    <2> SUFFICES ASSUME ok, NEW i \in 1 .. n PROVE <<f, i>> \in air' OBVIOUS
    <2>1. i = n \/ i \in 1 .. gAsynSend[k].sent BY <1>10
    <2> QED BY <1>8, <1>9, <1>12, <2>1
  <1> HIDE DEF f, q
  <1>14. CASE ok /\ n # gAsynSend[k].sum
    <2>1. LaterRefused(k) \in {"sent", "failed"} BY DEF LaterRefused
    <2>2. n < gAsynSend[k].sum BY <1>8, <1>10, <1>14
    <2>3. SendInv'
      BY <1>1, <1>3, <1>4, <1>5, <1>8, <1>10, <1>12, <1>13, <1>14, <2>1, <2>2, SegmentStep DEF f
    <2> QED BY <1>11, <2>3
  <1>15. CASE ~(ok /\ n # gAsynSend[k].sum)
    <2> DEFINE r == Report(k, ok)
    <2>1. posted' = Append(posted, r) /\ requests' = q /\ cut' = cut
          /\ gAsynSend' = [gAsynSend EXCEPT ![k] = Clear]
      BY <1>12, <1>15
    <2>2. r \in {"sent", "failed"} /\ (r = "sent" => ok) BY DEF Report
    <2>3. r \in SendMessages /\ r \in Messages BY <2>2, AsynFacts
    <2> HIDE DEF r
    <2>4. /\ One(posted', SendMessages)
          /\ \A y : Has(posted', y) <=> Has(posted, y) \/ r = y
      BY <1>1, <1>4, <2>1, <2>3, Appended
    <2>5. AllClear' BY <1>8, <2>1 DEF AllClear, TypeOK
    <2>6. OneOutstanding' BY <1>5, <1>11, <2>1, <2>4 DEF OneOutstanding
    <2>7. \A j \in Kinds : ~Has(Cmds(requests'), j) BY <1>5, <2>1, Only
    <2>8. \A j \in Kinds : ~Carried(j)' BY <1>6, <2>2, <2>4, <2>7, AsynFacts DEF Carried
    <2>9. RecordInv' BY <2>5, <2>8 DEF RecordInv, AllClear
    <2>10. RequestInv' BY <1>3, <2>1, <2>7, CmdsType DEF RequestInv
    <2>11. ReportInv'
      <3> SUFFICES ASSUME Has(posted', "sent"), ~Wedged' PROVE Transmitted(Head(pSendHeader))'
        BY DEF ReportInv
      <3>1. ok BY <1>6, <2>2, <2>4, AsynFacts
      <3>2. n = Segs[f] BY <1>8, <1>15, <3>1
      <3>3. Head(pSendHeader') = f BY <1>8, <1>11
      <3> QED BY <1>13, <3>1, <3>2, <3>3 DEF Transmitted
    <2> QED BY <1>11, <2>6, <2>9, <2>10, <2>11 DEF SendInv
  <1> QED BY <1>14, <1>15

-----------------------------------------------------------------------------
(* A restart.                                                              *)

\* Nothing is under way after the phone was off.
LEMMA RestartStep ==
  ASSUME TypeOK, Restart
  PROVE  OutboxInv' /\ SendInv'
  <1>1. /\ requests' = <<>> /\ posted' = <<>> /\ pSendHeader' = <<>> /\ ~bBusy'
        /\ gAsynSend' = [k \in Kinds |-> Clear]
        /\ stat' = [f \in Files |-> AfterRestart(stat[f])] /\ shown' = stat'
    BY DEF Restart, DispatchRestart
  <1>2. requests' \in Seq(CommandRecords) /\ AllClear' BY <1>1 DEF AllClear
  <1>3. Cmds(requests') = <<>> BY <1>2, <1>1, CmdsType
  <1>4. Quiet(posted)' BY <1>1, <1>3 DEF Quiet, None
  <1>5. SendInv' BY <1>1, <1>2, <1>4, QuietNext
  <1>6. ShownInv' BY <1>1 DEF ShownInv
  <1>7. QueuedExist' BY <1>1 DEF QueuedExist, ToSet
  <1>8. ~Stuck' BY <1>1, FileAssumption DEF Stuck, AfterRestart
  <1>9. BusyInv' BY <1>1, <1>8 DEF BusyInv
  <1> QED BY <1>5, <1>6, <1>7, <1>9 DEF OutboxInv

-----------------------------------------------------------------------------
(* Messages that arrive.  Every read that is under way has an index in the *)
(* ring, so that the head of the ring is one when the answer comes.        *)

Reads(q) == {i \in DOMAIN q : q[i].cmd = "read"}

\* The reads in q can be paired, in order, with indexes of a ring of n.
Paired(q, n) ==
  \E h \in [Reads(q) -> 1 .. n] : \A i, j \in Reads(q) : i < j => h[i] < h[j]

RingInv == Paired(requests, Len(g_stQueue))
TypeInv == TypeOK /\ RingInv

\* A command is given that is not a read, or one for which the ring grows.
LEMMA PairedAppend ==
  ASSUME NEW q \in Seq(CommandRecords), NEW c \in CommandRecords, NEW n \in Nat,
         Paired(q, n), NEW m \in Nat, IF c.cmd = "read" THEN n < m ELSE n <= m
  PROVE  Paired(Append(q, c), m)
  <1> DEFINE a == Append(q, c)  l == Len(q)
  <1>1. /\ l \in Nat /\ DOMAIN q = 1 .. l /\ DOMAIN a = 1 .. l + 1
        /\ a[l + 1] = c /\ \A i \in 1 .. l : a[i] = q[i]
    BY AppendProperties, LenProperties
  <1> HIDE DEF a, l
  <1>2. PICK h \in [Reads(q) -> 1 .. n] : \A i, j \in Reads(q) : i < j => h[i] < h[j]
    BY DEF Paired
  <1>3. Reads(q) \subseteq 1 .. l BY <1>1 DEF Reads
  <1>4. Reads(a) = Reads(q) \cup (IF c.cmd = "read" THEN {l + 1} ELSE {})
    BY <1>1 DEF Reads
  <1> DEFINE g == [i \in Reads(a) |-> IF i \in Reads(q) THEN h[i] ELSE m]
  <1>5. g \in [Reads(a) -> 1 .. m]
    <2> SUFFICES ASSUME NEW i \in Reads(a)
                 PROVE (IF i \in Reads(q) THEN h[i] ELSE m) \in 1 .. m
      OBVIOUS
    <2>1. CASE i \in Reads(q)
      <3>1. h[i] \in 1 .. n BY <1>2, <2>1
      <3> QED BY <2>1, <3>1
    <2>2. CASE i \notin Reads(q) BY <1>4, <2>2
    <2> QED BY <2>1, <2>2
  <1>6. \A i, j \in Reads(a) : i < j => g[i] < g[j]
    <2> SUFFICES ASSUME NEW i \in Reads(a), NEW j \in Reads(a), i < j PROVE g[i] < g[j]
      OBVIOUS
    <2>1. i \in Reads(q) /\ (j \in Reads(q) \/ (j = l + 1 /\ c.cmd = "read"))
      BY <1>1, <1>3, <1>4
    <2>2. g[i] = h[i] /\ h[i] \in 1 .. n BY <1>2, <2>1
    <2>3. CASE j \in Reads(q)
      <3>1. g[j] = h[j] BY <2>3
      <3> QED BY <1>2, <2>1, <2>2, <2>3, <3>1
    <2>4. CASE j \notin Reads(q)
      <3>1. g[j] = m BY <2>4
      <3> QED BY <2>1, <2>2, <2>4, <3>1
    <2> QED BY <2>3, <2>4
  <1> QED BY <1>5, <1>6 DEF Paired, a

\* A command is answered; a read that succeeds takes an index off the ring.
LEMMA PairedTail ==
  ASSUME NEW q \in Seq(CommandRecords), q # <<>>, NEW n \in Nat, Paired(q, n),
         NEW m \in Nat, m = n \/ (Head(q).cmd = "read" /\ m = n - 1)
  PROVE  Paired(Tail(q), m)
  <1> DEFINE a == Tail(q)  l == Len(q)
  <1>1. /\ l \in Nat \ {0} /\ DOMAIN q = 1 .. l /\ DOMAIN a = 1 .. l - 1
        /\ q[1] = Head(q) /\ \A i \in 1 .. l - 1 : a[i] = q[i + 1]
    BY HeadTailProperties, LenProperties, EmptySeq
  <1> HIDE DEF a, l
  <1>2. PICK h \in [Reads(q) -> 1 .. n] : \A i, j \in Reads(q) : i < j => h[i] < h[j]
    BY DEF Paired
  <1>3. Reads(a) \subseteq Nat /\ \A i \in Reads(a) : i + 1 \in Reads(q) /\ 1 < i + 1
    BY <1>1 DEF Reads
  <1>4. Head(q).cmd = "read" => 1 \in Reads(q) BY <1>1 DEF Reads
  <1> DEFINE g == [i \in Reads(a) |-> h[i + 1] - (n - m)]
  <1>5. g \in [Reads(a) -> 1 .. m]
    <2> SUFFICES ASSUME NEW i \in Reads(a) PROVE h[i + 1] - (n - m) \in 1 .. m OBVIOUS
    <2>1. h[i + 1] \in 1 .. n BY <1>2, <1>3
    <2>2. CASE m = n BY <2>1, <2>2
    <2>3. CASE Head(q).cmd = "read" /\ m = n - 1
      <3>1. h[1] \in 1 .. n /\ h[1] < h[i + 1] BY <1>2, <1>3, <1>4, <2>3
      <3> QED BY <2>1, <2>3, <3>1
    <2> QED BY <2>2, <2>3
  <1>6. \A i, j \in Reads(a) : i < j => g[i] < g[j]
    <2> SUFFICES ASSUME NEW i \in Reads(a), NEW j \in Reads(a), i < j PROVE g[i] < g[j]
      OBVIOUS
    <2>1. i + 1 \in Reads(q) /\ j + 1 \in Reads(q) /\ i + 1 < j + 1 BY <1>3
    <2>2. h[i + 1] \in 1 .. n /\ h[j + 1] \in 1 .. n /\ h[i + 1] < h[j + 1] BY <1>2, <2>1
    <2> QED BY <2>2
  <1> QED BY <1>5, <1>6 DEF Paired, a

\* A read that is answered has an index.
LEMMA PairedHead ==
  ASSUME NEW q \in Seq(CommandRecords), q # <<>>, Head(q).cmd = "read",
         NEW n \in Nat, Paired(q, n)
  PROVE  n > 0
  <1>1. 1 \in Reads(q)
    <2>1. 1 \in DOMAIN q /\ q[1] = Head(q) BY HeadTailProperties, LenProperties, EmptySeq
    <2> QED BY <2>1 DEF Reads
  <1>2. PICK h \in [Reads(q) -> 1 .. n] : TRUE BY DEF Paired
  <1>3. h[1] \in 1 .. n BY <1>1, <1>2
  <1> QED BY <1>3

\* The reads stay within the ring when a command is given or refused.
LEMMA PairedGiven ==
  ASSUME NEW q \in Seq(CommandRecords), NEW c \in CommandRecords, NEW r,
         r = q \/ r = Append(q, c),
         NEW n \in Nat, Paired(q, n), NEW m \in Nat, IF c.cmd = "read" THEN n < m ELSE n <= m
  PROVE  Paired(r, m)
  <1>1. CASE r = q
    <2>1. PICK h \in [Reads(q) -> 1 .. n] : \A i, j \in Reads(q) : i < j => h[i] < h[j]
      BY DEF Paired
    <2>2. n <= m OBVIOUS
    <2>3. \A x \in 1 .. n : x \in 1 .. m BY <2>2
    <2>4. h \in [Reads(q) -> 1 .. m] BY <2>1, <2>3
    <2> QED BY <1>1, <2>1, <2>4 DEF Paired
  <1>2. CASE r = Append(q, c) BY <1>2, PairedAppend
  <1> QED BY <1>1, <1>2

\* The types of what the ring and the commands about the SIM are made of.
LEMMA IndexFacts ==
  ASSUME TypeOK
  PROVE  /\ Len(g_stQueue) \in Nat
         /\ g_stQueue # <<>> => /\ Head(g_stQueue) \in Indexes /\ Tail(g_stQueue) \in Seq(Indexes)
                                /\ Len(Tail(g_stQueue)) = Len(g_stQueue) - 1
         /\ \A i \in Indexes : /\ Append(g_stQueue, i) \in Seq(Indexes)
                               /\ Len(Append(g_stQueue, i)) = Len(g_stQueue) + 1
                               /\ Command("read", i) \in CommandRecords
                               /\ Command("delete", i) \in CommandRecords
         /\ \A i : Command("read", i).cmd = "read" /\ Command("delete", i).cmd = "delete"
         /\ g_stQueue = <<>> => Len(g_stQueue) = 0
  BY LenProperties, HeadTailProperties, AppendProperties, EmptySeq
     DEF TypeOK, Command, CommandRecords

\* A datagram that takes a fragment is still one.
LEMMA FragmentType ==
  ASSUME NEW o \in DatagramRecords, NEW k \in Nat
  PROVE  [o EXCEPT !.slots[k] = k, !.arrived = @ + 1] \in DatagramRecords
  <1> DEFINE t == [o.slots EXCEPT ![k] = k]
             a == [o EXCEPT !.slots = t]
             n == o.arrived + 1
             e == [a EXCEPT !.arrived = n]
  <1>1. o.slots \in Seq(Nat) /\ o.arrived \in Nat /\ o.id \in Datagrams
    BY DEF DatagramRecords
  <1>2. PICK l \in Nat : o.slots \in [1 .. l -> Nat] BY <1>1, SeqDef
  <1>3. t \in [1 .. l -> Nat] BY <1>2
  <1>4. t \in Seq(Nat) BY <1>3, SeqDef
  <1> HIDE DEF t
  <1>5. a \in DatagramRecords BY <1>1, <1>4 DEF DatagramRecords
  <1>6. n \in Nat BY <1>1
  <1> HIDE DEF a, n
  <1>7. e \in DatagramRecords BY <1>5, <1>6 DEF DatagramRecords
  <1>8. e = [o EXCEPT !.slots[k] = k, !.arrived = @ + 1]
    BY DEF t, a, n, e
  <1> QED BY <1>7, <1>8

\* A fragment changes the datagrams and may post one message.
LEMMA DispatchPortType ==
  ASSUME TypeOK, NEW m \in Incoming, Datagram[m] # NULL, DispatchPortSMS(m)
  PROVE  /\ datagrams' \in Seq(DatagramRecords)
         /\ posted' = posted \/ posted' = Append(posted, "recv")
  <1> DEFINE d == Datagram[m]
             k == SeqNo[m]
             known == {x \in DOMAIN datagrams : datagrams[x].id = d}
             n == NewDatagram(d, k)
             i == CHOOSE j \in known : \A l \in known : j <= l
             g == AddFragment(datagrams[i], k)
  <1>1. d \in Datagrams /\ Frags[d] \in Nat \ {0} /\ k \in Nat
    <2>1. d \in Datagrams BY DEF Datagrams
    <2>2. Frags[d] \in Nat \ {0} /\ k \in 1 .. Frags[d] BY <2>1, ArrivalAssumption
    <2> QED BY <2>1, <2>2
  <1>2. datagrams \in Seq(DatagramRecords) /\ Len(datagrams) \in Nat
        /\ DOMAIN datagrams = 1 .. Len(datagrams)
    BY LenProperties DEF TypeOK
  <1>3. CASE Frags[d] = 1 \/ known = {}
    <2>1. datagrams' = <<n>> \o datagrams
          /\ (posted' = posted \/ posted' = Append(posted, "recv"))
      BY <1>3 DEF DispatchPortSMS
    <2>2. n \in DatagramRecords
      <3> DEFINE s == [x \in 1 .. Frags[d] |-> IF x = 1 THEN k ELSE 0]
      <3>1. s \in [1 .. Frags[d] -> Nat] BY <1>1
      <3>2. s \in Seq(Nat) BY <1>1, <3>1, SeqDef
      <3>3. n = [id |-> d, slots |-> s, arrived |-> 1] BY DEF NewDatagram
      <3> HIDE DEF s, n, d
      <3> QED BY <1>1, <3>2, <3>3 DEF DatagramRecords
    <2> HIDE DEF n
    <2>3. <<n>> \in Seq(DatagramRecords) BY <2>2
    <2> QED BY <1>2, <2>1, <2>3, ConcatProperties
  <1>4. CASE ~(Frags[d] = 1 \/ known = {})
    <2>1. datagrams' = [datagrams EXCEPT ![i] = g] /\ posted' = Announce(datagrams[i], g)
      BY <1>4 DEF DispatchPortSMS
    <2>2. i \in 1 .. Len(datagrams)
      <3>1. known \subseteq Nat /\ known # {} BY <1>2, <1>4
      <3> HIDE DEF known
      <3>2. \E j \in known : \A l \in known : j <= l BY <3>1, Least
      <3>3. i \in known BY <3>2
      <3> QED BY <1>2, <3>3 DEF known
    <2> HIDE DEF i, k
    <2>3. datagrams[i] \in DatagramRecords BY <1>2, <2>2, ElementOfSeq
    <2>4. g \in DatagramRecords
      <3>1. AddFragment(datagrams[i], k) = datagrams[i]
            \/ AddFragment(datagrams[i], k)
                 = [datagrams[i] EXCEPT !.slots[k] = k, !.arrived = @ + 1]
        BY DEF AddFragment
      <3> QED BY <1>1, <2>3, <3>1, FragmentType
    <2> HIDE DEF g
    <2>5. datagrams' \in Seq(DatagramRecords) BY <1>2, <2>1, <2>2, <2>4, ExceptSeq
    <2> QED BY <2>1, <2>5 DEF Announce
  <1> QED BY <1>3, <1>4

\* The place of the datagram that is taken.
LEMMA ToReceiveType ==
  ASSUME TypeOK
  PROVE  ToReceive = 0 \/ ToReceive \in 1 .. Len(datagrams)
  <1> DEFINE complete == {i \in DOMAIN datagrams : Complete(datagrams[i])}
  <1>1. Len(datagrams) \in Nat /\ DOMAIN datagrams = 1 .. Len(datagrams)
    BY LenProperties DEF TypeOK
  <1>2. complete \subseteq Nat /\ complete \subseteq 1 .. Len(datagrams) BY <1>1
  <1>3. ToReceive = IF complete = {} THEN 0
                    ELSE CHOOSE i \in complete : \A j \in complete : i <= j
    BY DEF ToReceive
  <1> HIDE DEF complete
  <1>4. complete # {} => \E i \in complete : \A j \in complete : i <= j BY <1>2, Least
  <1> QED BY <1>2, <1>3, <1>4

IInv == TypeInv /\ OutboxInv /\ SendInv

\* A message that is announced.
LEMMA CMTIStep ==
  ASSUME IInv, NEW m \in Incoming, NEW i \in Indexes, WM_CMTI_COMING(m, i),
         UNCHANGED outbox, events' \in Nat
  PROVE  IInv'
  <1> USE DEF IInv, TypeInv
  <1>1. requests \in Seq(CommandRecords) /\ posted \in Seq(Messages) BY DEF TypeOK
  <1>2. UNCHANGED <<datagrams, handed, posted, outgoing>>
        /\ toCome' = toCome \ {m} /\ sim' = [sim EXCEPT ![i] = m]
    BY DEF WM_CMTI_COMING
  <1>3. /\ requests' \in Seq(CommandRecords) /\ SameCommands(requests, requests')
        /\ g_stQueue' \in Seq(Indexes) /\ spilled' \subseteq Incoming /\ RingInv'
    <2>1. CASE Full
      <3>1. /\ requests' \in Given(requests, "delete", i) /\ g_stQueue' = g_stQueue
            /\ spilled' = spilled \cup {m}
        BY <2>1 DEF WM_CMTI_COMING
      <3>2. requests' \in Seq(CommandRecords) /\ SameCommands(requests, requests')
        BY <1>1, <3>1, GivenOther
      <3>3. requests' = requests \/ requests' = Append(requests, Command("delete", i))
        BY <3>1 DEF Given
      <3>4. Paired(requests', Len(g_stQueue)) BY <1>1, <3>3, IndexFacts, PairedGiven DEF RingInv
      <3> QED BY <3>1, <3>2, <3>4 DEF TypeOK, RingInv
    <2>2. CASE ~Full
      <3>1. /\ requests' \in Given(requests, "read", i) /\ g_stQueue' = Append(g_stQueue, i)
            /\ spilled' = spilled
        BY <2>2 DEF WM_CMTI_COMING
      <3>2. requests' \in Seq(CommandRecords) /\ SameCommands(requests, requests')
        BY <1>1, <3>1, GivenOther
      <3>3. requests' = requests \/ requests' = Append(requests, Command("read", i))
        BY <3>1 DEF Given
      <3>4. Len(g_stQueue) \in Nat /\ Len(g_stQueue') \in Nat /\ Len(g_stQueue) < Len(g_stQueue')
            /\ g_stQueue' \in Seq(Indexes)
            /\ Command("read", i) \in CommandRecords /\ Command("read", i).cmd = "read"
        BY <3>1, IndexFacts
      <3>5. Paired(requests', Len(g_stQueue')) BY <1>1, <3>3, <3>4, PairedGiven DEF RingInv
      <3> QED BY <3>1, <3>2, <3>4, <3>5 DEF TypeOK, RingInv
    <2> QED BY <2>1, <2>2
  <1>4. Same(posted, posted', SendMessages) BY <1>2 DEF Same
  <1>5. OutboxInv' /\ SendInv' BY <1>2, <1>3, <1>4, Neutral
  <1>6. TypeOK' BY <1>2, <1>3 DEF TypeOK, outgoing, outbox
  <1> QED BY <1>3, <1>5, <1>6

\* A fragment that is delivered without the SIM.
LEMMA CMTStep ==
  ASSUME IInv, NEW m \in Incoming, WM_CMT_COMING(m), UNCHANGED outbox, events' \in Nat
  PROVE  IInv'
  <1> USE DEF IInv, TypeInv
  <1>1. Datagram[m] # NULL BY ArrivalAssumption DEF WM_CMT_COMING
  <1>2. /\ DispatchPortSMS(m) /\ handed' = handed \cup {m} /\ toCome' = toCome \ {m}
        /\ UNCHANGED <<sim, g_stQueue, spilled, requests, outgoing>>
    BY DEF WM_CMT_COMING
  <1>3. datagrams' \in Seq(DatagramRecords) /\ (posted' = posted \/ posted' = Append(posted, "recv"))
    BY <1>1, <1>2, DispatchPortType
  <1>4. posted' \in Seq(Messages) /\ Same(posted, posted', SendMessages)
    BY <1>3, PostedRecv DEF TypeOK
  <1>5. SameCommands(requests, requests') BY <1>2 DEF SameCommands, Same
  <1>6. OutboxInv' /\ SendInv' BY <1>2, <1>4, <1>5, Neutral
  <1>7. TypeOK' BY <1>2, <1>3, <1>4 DEF TypeOK, outgoing, outbox
  <1>8. RingInv' BY <1>2 DEF RingInv
  <1> QED BY <1>6, <1>7, <1>8

\* A datagram that is taken to the inbox.
LEMMA RecvStep ==
  ASSUME IInv, SMS_OnRecvPort, UNCHANGED <<outbox, events>>
  PROVE  IInv'
  <1> USE DEF IInv, TypeInv
  <1>1. /\ posted # <<>> /\ Head(posted) = "recv" /\ posted' = Tail(posted)
        /\ datagrams' = IF ToReceive = 0 THEN datagrams ELSE RemoveAt(datagrams, ToReceive)
        /\ UNCHANGED <<toCome, sim, g_stQueue, handed, spilled, requests, outgoing>>
    BY DEF SMS_OnRecvPort
  <1>2. posted' \in Seq(Messages) /\ Same(posted, posted', SendMessages)
    BY <1>1, PostedRecv DEF TypeOK
  <1>3. datagrams' \in Seq(DatagramRecords)
    BY <1>1, ToReceiveType, RemoveAtFacts DEF TypeOK
  <1>4. SameCommands(requests, requests') BY <1>1 DEF SameCommands, Same
  <1>5. OutboxInv' /\ SendInv' BY <1>1, <1>2, <1>4, Neutral
  <1>6. TypeOK' BY <1>1, <1>2, <1>3 DEF TypeOK, outgoing, outbox
  <1>7. RingInv' BY <1>1 DEF RingInv
  <1> QED BY <1>5, <1>6, <1>7

\* A read is answered.
LEMMA ReadStep ==
  ASSUME IInv, ReadAnswered, UNCHANGED <<outbox, events>>
  PROVE  IInv'
  <1> DEFINE at == Head(requests).arg  m == sim[at]  q == Tail(requests)
  <1> USE DEF IInv, TypeInv
  <1>1. /\ requests # <<>> /\ Head(requests).cmd = "read"
        /\ requests \in Seq(CommandRecords) /\ posted \in Seq(Messages)
        /\ UNCHANGED <<toCome, sim, spilled, outgoing>>
    BY DEF ReadAnswered, Answers, TypeOK
  <1>2. "read" \notin Kinds /\ "read" # "delete" BY DEF Kinds
  <1>3. q \in Seq(CommandRecords) /\ SameCommands(requests, q)
        /\ Head(requests) \in CommandRecords
    BY <1>1, <1>2, CommandTaken, Taken
  <1>4. at \in Indexes BY <1>1, <1>2, <1>3 DEF CommandRecords
  <1>5. m \in Incoming \cup {NULL} BY <1>4 DEF TypeOK
  <1>6. /\ Len(g_stQueue) \in Nat /\ Len(g_stQueue) > 0 /\ g_stQueue # <<>>
        /\ Paired(q, Len(g_stQueue)) /\ Paired(q, Len(g_stQueue) - 1)
    <2>1. Len(g_stQueue) \in Nat /\ Paired(requests, Len(g_stQueue))
      BY IndexFacts DEF RingInv
    <2>2. Len(g_stQueue) > 0 BY <1>1, <2>1, PairedHead
    <2>3. Len(g_stQueue) - 1 \in Nat BY <2>1, <2>2
    <2> QED BY <1>1, <2>1, <2>2, <2>3, PairedTail, IndexFacts
  <1> DEFINE Shrinks == m # NULL /\ g_stQueue' = RingAfterRead
             Typed == /\ requests' \in Seq(CommandRecords) /\ SameCommands(requests, requests')
                      /\ g_stQueue' \in Seq(Indexes) /\ RingInv'
                      /\ datagrams' \in Seq(DatagramRecords) /\ handed' \subseteq Incoming
                      /\ posted' = posted \/ posted' = Append(posted, "recv")
  <1>7. \/ /\ Shrinks /\ App_SMSReceive(m, Oldest, q)
        \/ /\ Shrinks /\ Datagram[m] # NULL /\ DispatchPortSMS(m)
           /\ handed' = handed \cup {m} /\ requests' \in Given(q, "delete", Oldest)
        \/ requests' = q /\ UNCHANGED <<g_stQueue, datagrams, posted, handed>>
    BY DEF ReadAnswered
  <1> HIDE DEF q, m
  <1>8. ASSUME Shrinks, requests' = q \/ requests' \in Given(q, "delete", Oldest)
        PROVE  /\ requests' \in Seq(CommandRecords) /\ SameCommands(requests, requests')
               /\ g_stQueue' \in Seq(Indexes) /\ RingInv' /\ m \in Incoming
    <2>1. /\ g_stQueue' \in Seq(Indexes) /\ Len(g_stQueue') = Len(g_stQueue) - 1
          /\ Len(g_stQueue') \in Nat /\ Oldest \in Indexes
      BY <1>6, <1>8, IndexFacts DEF RingAfterRead, Oldest
    <2>2. requests' \in Seq(CommandRecords) /\ SameCommands(q, requests')
      <3>1. CASE requests' = q BY <1>3, <3>1 DEF SameCommands, Same
      <3>2. CASE requests' \in Given(q, "delete", Oldest) BY <1>3, <2>1, <3>2, GivenOther
      <3> QED BY <1>8, <3>1, <3>2
    <2>3. requests' = q \/ requests' = Append(q, Command("delete", Oldest))
      BY <1>8 DEF Given
    <2>4. Command("delete", Oldest) \in CommandRecords
          /\ Command("delete", Oldest).cmd # "read"
      BY <1>2, <2>1, IndexFacts
    <2>5. Paired(requests', Len(g_stQueue'))
      BY <1>3, <1>6, <2>1, <2>3, <2>4, PairedGiven
    <2>6. m \in Incoming BY <1>5, <1>8
    <2> QED BY <1>3, <2>1, <2>2, <2>5, <2>6, SameTransitive DEF RingInv
  <1>9. ASSUME Shrinks, App_SMSReceive(m, Oldest, q) PROVE Typed
    <2>1. /\ UNCHANGED <<datagrams, posted>> /\ handed' \subseteq handed \cup {m}
          /\ requests' = q \/ requests' \in Given(q, "delete", Oldest)
      BY <1>9 DEF App_SMSReceive
    <2>2. Typed BY <1>8, <1>9, <2>1 DEF TypeOK
    <2> QED BY <2>2
  <1>10. ASSUME Shrinks, Datagram[m] # NULL, DispatchPortSMS(m),
                handed' = handed \cup {m}, requests' \in Given(q, "delete", Oldest)
         PROVE  Typed
    <2>1. m \in Incoming BY <1>8, <1>10
    <2>2. datagrams' \in Seq(DatagramRecords) /\ (posted' = posted \/ posted' = Append(posted, "recv"))
      BY <1>10, <2>1, DispatchPortType
    <2>3. Typed BY <1>8, <1>10, <2>1, <2>2 DEF TypeOK
    <2> QED BY <2>3
  <1>11. ASSUME requests' = q, UNCHANGED <<g_stQueue, datagrams, posted, handed>> PROVE Typed
    <2>1. RingInv' BY <1>6, <1>11 DEF RingInv
    <2> QED BY <1>3, <1>11, <2>1 DEF TypeOK
  <1>12. Typed BY <1>7, <1>9, <1>10, <1>11
  <1>13. posted' \in Seq(Messages) /\ Same(posted, posted', SendMessages)
    BY <1>1, <1>12, PostedRecv
  <1>14. OutboxInv' /\ SendInv' BY <1>1, <1>12, <1>13, Neutral
  <1>15. TypeOK' BY <1>1, <1>12, <1>13 DEF TypeOK, outgoing, outbox
  <1> QED BY <1>12, <1>14, <1>15

\* The answer to a delete.
LEMMA DeletedStep ==
  ASSUME IInv, DeleteAnswered, UNCHANGED <<outbox, events>>
  PROVE  IInv'
  <1> USE DEF IInv, TypeInv
  <1>1. /\ requests # <<>> /\ Head(requests).cmd = "delete" /\ requests' = Tail(requests)
        /\ requests \in Seq(CommandRecords)
        /\ UNCHANGED <<toCome, g_stQueue, datagrams, handed, spilled, posted, outgoing>>
    BY DEF DeleteAnswered, Answers, TypeOK
  <1>2. Head(requests).cmd \notin Kinds BY <1>1 DEF Kinds
  <1>3. requests' \in Seq(CommandRecords) /\ SameCommands(requests, requests')
    BY <1>1, <1>2, CommandTaken
  <1>4. RingInv' BY <1>1, IndexFacts, PairedTail DEF RingInv
  <1>5. sim' \in [Indexes -> Incoming \cup {NULL}]
    <2>1. sim' = sim \/ sim' = [sim EXCEPT ![Head(requests).arg] = NULL]
      BY DEF DeleteAnswered
    <2> QED BY <2>1 DEF TypeOK
  <1>6. Same(posted, posted', SendMessages) BY <1>1 DEF Same
  <1>7. OutboxInv' /\ SendInv' BY <1>1, <1>3, <1>6, Neutral
  <1>8. TypeOK' BY <1>1, <1>3, <1>5 DEF TypeOK, outgoing, outbox
  <1> QED BY <1>4, <1>7, <1>8

-----------------------------------------------------------------------------
(* The types of what is sent.                                              *)

Record == [file : Files \cup {NULL}, sum : Nat, sent : Nat]

\* The type of a cleared record.
LEMMA ClearType == Clear \in Record
  BY DEF Clear, Record

\* The types when a file is given to the dispatcher.
LEMMA StartedType ==
  ASSUME TypeOK, NEW f \in Files, NEW p \in Seq(Messages), SMS_SendToDispatch(f, p)
  PROVE  /\ posted' \in Seq(Messages) /\ bBusy' \in BOOLEAN
         /\ gAsynSend' \in [Kinds -> Record]
  <1>1. gAsynSend \in [Kinds -> Record] BY DEF TypeOK, Record
  <1>2. Kind(f) \in Kinds /\ Asyn(Kind(f)) \in Messages BY AsynFacts DEF Kind, Kinds
  <1>3. CASE f \in NoCentre BY <1>1, <1>3 DEF SMS_SendToDispatch
  <1>4. CASE f \notin NoCentre
    <2>1. posted' = Append(p, Asyn(Kind(f))) /\ Load(f) BY <1>4 DEF SMS_SendToDispatch
    <2> DEFINE r == [file |-> f, sum |-> Segs[f], sent |-> gAsynSend[Kind(f)].sent]
    <2>2. r \in Record
      <3>1. gAsynSend[Kind(f)].sent \in Nat BY <1>1, <1>2 DEF Record
      <3>2. Segs[f] \in Nat BY FileAssumption
      <3> QED BY <3>1, <3>2 DEF Record
    <2>3. gAsynSend' = [gAsynSend EXCEPT ![Kind(f)] = r] BY <2>1 DEF Load
    <2> HIDE DEF r
    <2>4. gAsynSend' \in [Kinds -> Record] BY <1>1, <2>2, <2>3
    <2> QED BY <1>2, <2>1, <2>4, Appended DEF SMS_SendToDispatch
  <1> QED BY <1>3, <1>4

\* The types when a segment is given to the driver.
LEMMA SegmentType ==
  ASSUME TypeOK, NEW k \in Kinds, NEW n \in Nat,
         NEW q \in Seq(CommandRecords), NEW p \in Seq(Messages), NEW r \in {"sent", "failed"},
         gAsynSend[k].file \in Files, Paired(q, Len(g_stQueue)),
         SendSegment(k, n, q, p, r)
  PROVE  /\ requests' \in Seq(CommandRecords) /\ posted' \in Seq(Messages)
         /\ gAsynSend' \in [Kinds -> Record] /\ cut' \subseteq Files
         /\ Paired(requests', Len(g_stQueue))
  <1> DEFINE f == gAsynSend[k].file  c == Command(k, <<f, n + 1>>)
  <1>1. gAsynSend \in [Kinds -> Record] /\ cut \subseteq Files BY DEF TypeOK, Record
  <1>2. c \in CommandRecords /\ c.cmd # "read" BY DEF Command, CommandRecords, Kinds
  <1>3. requests' = q \/ requests' = Append(q, c) BY DEF SendSegment, Given
  <1> HIDE DEF c
  <1>4. requests' \in Seq(CommandRecords) BY <1>2, <1>3, Appended
  <1>5. Paired(requests', Len(g_stQueue)) BY <1>2, <1>3, IndexFacts, PairedGiven
  <1>6. r \in Messages BY AsynFacts
  <1>7. CASE gAsynSend' = [gAsynSend EXCEPT ![k].sent = n] /\ posted' = p /\ cut' = cut
    <2>1. [gAsynSend[k] EXCEPT !.sent = n] \in Record BY <1>1 DEF Record
    <2>2. gAsynSend' \in [Kinds -> Record] BY <1>1, <1>7, <2>1
    <2> QED BY <1>1, <1>4, <1>5, <1>7, <2>2
  <1>8. CASE /\ gAsynSend' = [gAsynSend EXCEPT ![k] = Clear] /\ posted' = Append(p, r)
             /\ cut' = IF r = "sent" THEN cut \cup {f} ELSE cut
    <2>1. gAsynSend' \in [Kinds -> Record] BY <1>1, <1>8, ClearType
    <2>2. posted' \in Seq(Messages) BY <1>6, <1>8, Appended
    <2> QED BY <1>1, <1>4, <1>5, <1>8, <2>1, <2>2
  <1> QED BY <1>7, <1>8 DEF SendSegment

\* The types when a file is queued.
LEMMA SendType ==
  ASSUME TypeOK, NEW f \in Files, NEW s \in Statuses, SMS_Send(f, s), events' \in Nat
  PROVE  TypeOK'
  <1>1. /\ stat \in [Files -> Statuses] /\ shown \in [Files -> Statuses]
        /\ pSendHeader \in Seq(Files) /\ posted \in Seq(Messages)
    BY DEF TypeOK
  <1>2. pSendHeader' \in Seq(Files) BY <1>1, QueueFacts DEF SMS_Send, Queued
  <1>3. UNCHANGED <<incoming, requests, air, cut>> BY DEF SMS_Send
  <1>4. "SENDING" \in Statuses /\ "WAITINGSEND" \in Statuses BY DEF Statuses, InOutbox
  <1>5. stat' \in [Files -> Statuses] /\ shown' \in [Files -> Statuses]
    BY <1>1, <1>4 DEF SMS_Send
  <1>6. posted' \in Seq(Messages) /\ bBusy' \in BOOLEAN /\ gAsynSend' \in [Kinds -> Record]
    <2>1. CASE SMS_SendToDispatch(f, posted) BY <1>1, <2>1, StartedType
    <2>2. CASE UNCHANGED <<bBusy, posted, gAsynSend>> BY <2>2 DEF TypeOK, Record
    <2> QED BY <2>1, <2>2 DEF SMS_Send
  <1> QED BY <1>2, <1>3, <1>5, <1>6 DEF TypeOK, incoming, Record

\* The types when the next file of the queue is sent.
LEMMA NextType ==
  ASSUME TypeOK, Tail(posted) \in Seq(Messages), NEW q \in Seq(Files),
         NEW s \in [Files -> Statuses], NEW l \in [Files -> Statuses],
         SendNext(q, s, l), UNCHANGED <<incoming, requests, air, cut, events>>
  PROVE  TypeOK'
  <1> DEFINE f == Head(q)
  <1>1. q # <<>> => f \in Files BY QueueFacts
  <1>2. pSendHeader' \in Seq(Files) BY DEF SendNext
  <1>3. "SENDING" \in Statuses BY DEF Statuses, InOutbox
  <1>4. CASE q # <<>> /\ s[f] \in InOutbox
    <2>1. /\ stat' = [s EXCEPT ![f] = "SENDING"] /\ shown' = [l EXCEPT ![f] = "SENDING"]
          /\ SMS_SendToDispatch(f, Tail(posted))
      BY <1>4 DEF SendNext
    <2>2. posted' \in Seq(Messages) /\ bBusy' \in BOOLEAN /\ gAsynSend' \in [Kinds -> Record]
      BY <1>1, <1>4, <2>1, StartedType
    <2>3. stat' \in [Files -> Statuses] /\ shown' \in [Files -> Statuses] BY <1>3, <2>1
    <2> QED BY <1>2, <2>2, <2>3 DEF TypeOK, incoming, Record
  <1>5. CASE ~(q # <<>> /\ s[f] \in InOutbox)
    <2>1. stat' = s /\ shown' = l /\ bBusy' = FALSE /\ posted' = Tail(posted) /\ UNCHANGED gAsynSend
      BY <1>5 DEF SendNext
    <2> QED BY <1>2, <2>1 DEF TypeOK, incoming
  <1> QED BY <1>4, <1>5

\* The types when a result is booked.
LEMMA ResultType ==
  ASSUME TypeOK, OutboxInv, SendInv, SendSucceeded \/ SendFailed
  PROVE  TypeOK' /\ UNCHANGED <<requests, g_stQueue>>
  <1> DEFINE f == Head(pSendHeader)
             to(v, fn) == [fn EXCEPT ![f] = v]
  <1>1. /\ posted # <<>> /\ Head(posted) \in {"sent", "failed"}
        /\ UNCHANGED <<incoming, requests, air, cut, events>>
    BY DEF SendSucceeded, SendFailed
  <1>2. pSendHeader # <<>> /\ Tail(posted) \in Seq(Messages) BY <1>1, ResultFacts DEF TypeOK
  <1>3. f \in Files /\ Tail(pSendHeader) \in Seq(Files) BY <1>2, QueueFacts DEF TypeOK
  <1>4. \/ HeadMissing
        \/ SendNext(Rest(pSendHeader), stat, shown)
        \/ \E v \in {"SENT", "UNSENT"} : SendNext(Rest(pSendHeader), to(v, stat), to(v, shown))
    BY DEF SendSucceeded, SendFailed
  <1>5. ASSUME NEW v \in {"SENT", "UNSENT"}
        PROVE  to(v, stat) \in [Files -> Statuses] /\ to(v, shown) \in [Files -> Statuses]
    BY DEF TypeOK, Statuses, InOutbox
  <1> HIDE DEF to
  <1>6. TypeOK'
    <2>1. CASE HeadMissing BY <1>1, <1>2, <2>1 DEF HeadMissing, TypeOK, incoming
    <2>2. CASE SendNext(Rest(pSendHeader), stat, shown)
      BY <1>1, <1>2, <1>3, <2>2, NextType DEF Rest, TypeOK
    <2>3. CASE \E v \in {"SENT", "UNSENT"} : SendNext(Rest(pSendHeader), to(v, stat), to(v, shown))
      <3>1. PICK v \in {"SENT", "UNSENT"} : SendNext(Rest(pSendHeader), to(v, stat), to(v, shown))
        BY <2>3
      <3> QED BY <1>1, <1>2, <1>3, <1>5, <3>1, NextType DEF Rest
    <2> QED BY <1>4, <2>1, <2>2, <2>3
  <1> QED BY <1>1, <1>6 DEF incoming

\* The types when the dispatcher starts on a message.
LEMMA AsynType ==
  ASSUME IInv, NEW k \in Kinds, WM_ASYN_SEND(k), UNCHANGED <<outbox, events>>
  PROVE  TypeInv'
  <1> USE DEF IInv, TypeInv
  <1>1. /\ posted # <<>> /\ Head(posted) = Asyn(k) /\ UNCHANGED <<incoming, air>>
        /\ SendSegment(k, gAsynSend[k].sent, requests, Tail(posted), "failed")
    BY DEF WM_ASYN_SEND
  <1>2. Tail(posted) \in Seq(Messages) /\ Has(posted, Asyn(k))
    BY <1>1, Taken DEF TypeOK
  <1>3. gAsynSend[k].file \in Files BY <1>2 DEF SendInv, RecordInv, Carried
  <1>4. gAsynSend[k].sent \in Nat /\ requests \in Seq(CommandRecords) BY DEF TypeOK
  <1>5. /\ requests' \in Seq(CommandRecords) /\ posted' \in Seq(Messages)
        /\ gAsynSend' \in [Kinds -> Record] /\ cut' \subseteq Files
        /\ Paired(requests', Len(g_stQueue))
    BY <1>1, <1>2, <1>3, <1>4, SegmentType DEF RingInv
  <1>6. TypeOK' BY <1>1, <1>5 DEF TypeOK, incoming, outbox, Record
  <1>7. RingInv' BY <1>1, <1>5 DEF RingInv, incoming
  <1> QED BY <1>6, <1>7

\* The types when a segment is answered.
LEMMA AnsweredType ==
  ASSUME IInv, NEW k \in Kinds, SendAnswered(k), UNCHANGED <<outbox, events>>
  PROVE  TypeInv'
  <1> DEFINE n == gAsynSend[k].sent + 1  q == Tail(requests)
  <1> USE DEF IInv, TypeInv
  <1>1. /\ requests # <<>> /\ Head(requests).cmd = k /\ requests \in Seq(CommandRecords)
        /\ posted \in Seq(Messages) /\ UNCHANGED incoming
    BY DEF SendAnswered, Answers, TypeOK
  <1>2. q \in Seq(CommandRecords) /\ Head(requests) \in CommandRecords
        /\ Has(requests, Head(requests))
    BY <1>1, Taken
  <1>3. Has(Cmds(requests), k) BY <1>1, <1>2, CmdsType
  <1>4. gAsynSend[k].file \in Files BY <1>3 DEF SendInv, RecordInv, Carried
  <1>5. Head(requests).arg \in Files \X Nat BY <1>1, <1>2 DEF CommandRecords, Kinds
  <1>6. Paired(q, Len(g_stQueue)) BY <1>1, IndexFacts, PairedTail DEF RingInv
  <1>7. n \in Nat /\ gAsynSend \in [Kinds -> Record] /\ cut \subseteq Files
    BY DEF TypeOK, Record
  <1>8. PICK ok \in BOOLEAN :
           /\ air' = IF ok THEN air \cup {Head(requests).arg} ELSE air
           /\ IF ok /\ n # gAsynSend[k].sum
              THEN SendSegment(k, n, q, posted, LaterRefused(k))
              ELSE /\ posted' = Append(posted, Report(k, ok))
                   /\ gAsynSend' = [gAsynSend EXCEPT ![k] = Clear]
                   /\ requests' = q /\ UNCHANGED cut
    BY DEF SendAnswered, Outcomes
  <1>9. air' \subseteq Files \X Nat BY <1>5, <1>8 DEF TypeOK
  <1> HIDE DEF q, n
  <1>10. /\ requests' \in Seq(CommandRecords) /\ posted' \in Seq(Messages)
         /\ gAsynSend' \in [Kinds -> Record] /\ cut' \subseteq Files
         /\ Paired(requests', Len(g_stQueue))
    <2>1. CASE SendSegment(k, n, q, posted, LaterRefused(k))
      <3>1. LaterRefused(k) \in {"sent", "failed"} BY DEF LaterRefused
      <3> QED BY <1>1, <1>2, <1>4, <1>6, <1>7, <2>1, <3>1, SegmentType
    <2>2. CASE /\ posted' = Append(posted, Report(k, ok))
               /\ gAsynSend' = [gAsynSend EXCEPT ![k] = Clear]
               /\ requests' = q /\ UNCHANGED cut
      <3>1. Report(k, ok) \in Messages BY AsynFacts DEF Report
      <3>2. posted' \in Seq(Messages) BY <1>1, <2>2, <3>1, Appended
      <3>3. gAsynSend' \in [Kinds -> Record] BY <1>7, <2>2, ClearType
      <3> QED BY <1>2, <1>6, <1>7, <2>2, <3>2, <3>3
    <2> QED BY <1>8, <2>1, <2>2
  <1>11. TypeOK' BY <1>1, <1>9, <1>10 DEF TypeOK, incoming, outbox, Record
  <1>12. RingInv' BY <1>1, <1>10 DEF RingInv, incoming
  <1> QED BY <1>11, <1>12

\* The types after what the user does.
LEMMA UserType ==
  ASSUME TypeOK, OutboxInv, UserAction
  PROVE  TypeOK' /\ UNCHANGED <<requests, g_stQueue>>
  <1>1. /\ stat \in [Files -> Statuses] /\ shown \in [Files -> Statuses]
        /\ pSendHeader \in Seq(Files) /\ events \in Nat
        /\ {"GONE", "SUSPENDED", "UNSENT", "WAITINGSEND"} \subseteq Statuses
    BY DEF TypeOK, Statuses, InOutbox
  <1>2. Event => events' \in Nat BY <1>1 DEF Event
  <1>3. ASSUME NEW f \in Files, Compose(f) PROVE TypeOK' /\ UNCHANGED <<requests, g_stQueue>>
    BY <1>1, <1>2, <1>3, SendType DEF Compose, SMS_Send, incoming
  <1>4. ASSUME NEW f \in Files, Resend(f) PROVE TypeOK' /\ UNCHANGED <<requests, g_stQueue>>
    <2>1. stat[f] \in Statuses BY <1>1
    <2> QED BY <1>2, <1>4, <2>1, SendType DEF Resend, SMS_Send, incoming
  <1>5. ASSUME NEW f \in Files, Delete(f) PROVE TypeOK' /\ UNCHANGED <<requests, g_stQueue>>
    <2>1. stat' \in [Files -> Statuses] /\ shown' \in [Files -> Statuses]
      BY <1>1, <1>5 DEF Delete
    <2> QED BY <1>2, <1>5, <2>1 DEF Delete, TypeOK, dispatch, incoming, outgoing, queues
  <1>6. ASSUME NEW f \in Files, SMS_Suspend(f) PROVE TypeOK' /\ UNCHANGED <<requests, g_stQueue>>
    <2>1. stat' \in [Files -> Statuses] /\ shown' \in [Files -> Statuses]
      BY <1>1, <1>6 DEF SMS_Suspend
    <2>2. pSendHeader' \in Seq(Files)
      <3> DEFINE i == CHOOSE x \in Waiting(f) : \A y \in Waiting(f) : x <= y
      <3>1. CASE Waiting(f) # {} /\ pSendHeader' = RemoveAt(pSendHeader, i)
        <4>1. i \in 2 .. Len(pSendHeader) BY <1>1, <3>1, SuspendPlace
        <4> HIDE DEF i
        <4> QED BY <1>1, <3>1, <4>1, RemoveQueued
      <3>2. CASE UNCHANGED pSendHeader BY <1>1, <3>2
      <3> QED BY <1>6, <3>1, <3>2 DEF SMS_Suspend
    <2> QED BY <1>2, <1>6, <2>1, <2>2
            DEF SMS_Suspend, TypeOK, dispatch, incoming, outgoing, queues
  <1>7. ASSUME OpenOutbox PROVE TypeOK' /\ UNCHANGED <<requests, g_stQueue>>
    BY <1>2, <1>7 DEF OpenOutbox, TypeOK, dispatch, incoming, outgoing, queues
  <1> QED BY <1>3, <1>4, <1>5, <1>6, <1>7 DEF UserAction

\* With no command there is no read.
LEMMA NoReads == Paired(<<>>, 0)
  <1>1. Reads(<<>>) = {} BY DEF Reads
  <1>2. \E h \in [{} -> 1 .. 0] : TRUE
    <2>1. [i \in {} |-> i] \in [{} -> 1 .. 0] OBVIOUS
    <2> QED BY <2>1
  <1> QED BY <1>1, <1>2 DEF Paired

\* The types after the phone was off.
LEMMA RestartType ==
  ASSUME TypeOK, Restart
  PROVE  TypeInv'
  <1>1. /\ g_stQueue' = <<>> /\ datagrams' = <<>> /\ requests' = <<>> /\ posted' = <<>>
        /\ gAsynSend' = [k \in Kinds |-> Clear]
        /\ UNCHANGED <<toCome, sim, handed, spilled, air, cut>>
        /\ stat' = [f \in Files |-> AfterRestart(stat[f])] /\ shown' = stat'
        /\ pSendHeader' = <<>> /\ bBusy' = FALSE /\ events' = events + 1
    BY DEF Restart, DispatchRestart, Event
  <1>2. stat' \in [Files -> Statuses]
    <2>1. \A f \in Files : AfterRestart(stat[f]) \in Statuses
      BY DEF TypeOK, AfterRestart, Statuses, InOutbox
    <2> QED BY <1>1, <2>1
  <1>3. gAsynSend' \in [Kinds -> Record] BY <1>1, ClearType
  <1>4. /\ g_stQueue' \in Seq(Indexes) /\ datagrams' \in Seq(DatagramRecords)
        /\ requests' \in Seq(CommandRecords) /\ posted' \in Seq(Messages)
        /\ pSendHeader' \in Seq(Files)
    BY <1>1, EmptySeq
  <1>5. events' \in Nat /\ bBusy' \in BOOLEAN
    <2>1. events \in Nat BY DEF TypeOK
    <2>2. events' = events + 1 /\ bBusy' = FALSE BY <1>1
    <2>3. events' \in Nat BY <2>1, <2>2
    <2> QED BY <2>2, <2>3
  <1>6. gAsynSend' \in [Kinds -> [file : Files \cup {NULL}, sum : Nat, sent : Nat]]
    BY <1>3 DEF Record
  <1>7. /\ toCome' \subseteq Incoming /\ handed' \subseteq Incoming /\ spilled' \subseteq Incoming
        /\ sim' \in [Indexes -> Incoming \cup {NULL}]
        /\ air' \subseteq Files \X Nat /\ cut' \subseteq Files
    BY <1>1 DEF TypeOK
  <1>8. shown' \in [Files -> Statuses] BY <1>1, <1>2
  <1> HIDE DEF Kinds, Statuses, Messages, CommandRecords, DatagramRecords
  <1>9. TypeOK' BY <1>2, <1>4, <1>5, <1>6, <1>7, <1>8 DEF TypeOK
  <1>10. RingInv' BY <1>1, NoReads, EmptySeq DEF RingInv
  <1> QED BY <1>9, <1>10 DEF TypeInv

-----------------------------------------------------------------------------
(* The invariant is inductive.                                             *)

\* The invariant holds at first.
LEMMA InitInv ==
  ASSUME Init
  PROVE  IInv
  <1> USE DEF Init, DispatchInit
  <1>1. stat \in [Files -> Statuses] BY DEF Statuses, InOutbox
  <1>2. gAsynSend \in [Kinds -> Record] BY ClearType
  <1>3. TypeOK
    <2>1. /\ g_stQueue \in Seq(Indexes) /\ datagrams \in Seq(DatagramRecords)
          /\ requests \in Seq(CommandRecords) /\ posted \in Seq(Messages)
          /\ pSendHeader \in Seq(Files)
      BY EmptySeq
    <2>2. sim \in [Indexes -> Incoming \cup {NULL}] OBVIOUS
    <2>3. gAsynSend \in [Kinds -> [file : Files \cup {NULL}, sum : Nat, sent : Nat]]
      BY <1>2 DEF Record
    <2>4. /\ toCome \subseteq Incoming /\ handed \subseteq Incoming /\ spilled \subseteq Incoming
          /\ air \subseteq Files \X Nat /\ cut \subseteq Files
          /\ events \in Nat /\ bBusy \in BOOLEAN
      OBVIOUS
    <2>5. shown \in [Files -> Statuses] BY <1>1
    <2> QED BY <1>1, <2>1, <2>2, <2>3, <2>4, <2>5 DEF TypeOK
  <1>4. RingInv BY NoReads, EmptySeq DEF RingInv
  <1>5. Cmds(requests) = <<>> BY <1>3, CmdsType DEF TypeOK
  <1>6. \A x : ~Has(posted, x) /\ ~Has(Cmds(requests), x) /\ ~Has(requests, x)
    BY <1>5 DEF Has
  <1>7. ~Stuck BY FileAssumption DEF Stuck
  <1>8. OneOutstanding BY <1>5 DEF OneOutstanding, None
  <1>9. RecordInv BY <1>6 DEF RecordInv, Carried
  <1>10. RequestInv /\ ReportInv BY <1>6 DEF RequestInv, ReportInv
  <1>11. OutboxInv BY <1>7 DEF OutboxInv, ShownInv, QueuedExist, BusyInv, ToSet
  <1> QED BY <1>3, <1>4, <1>8, <1>9, <1>10, <1>11 DEF IInv, TypeInv, SendInv

\* Every step keeps the invariant.
LEMMA NextInv ==
  ASSUME IInv, [Next]_vars
  PROVE  IInv'
  <1> USE DEF IInv
  <1>1. TypeOK /\ RingInv BY DEF TypeInv
  <1>2. CASE UserAction
    <2>1. OutboxInv' /\ SendInv'
      BY <1>1, <1>2, ComposeStep, ResendStep, DeleteStep, SuspendStep, OpenStep DEF UserAction
    <2>2. TypeOK' /\ UNCHANGED <<requests, g_stQueue>> BY <1>1, <1>2, UserType
    <2> QED BY <1>1, <2>1, <2>2 DEF TypeInv, RingInv
  <1>3. CASE Dispatcher
    <2>1. UNCHANGED <<outbox, events>> BY <1>3 DEF Dispatcher
    <2>2. CASE ReadAnswered BY <2>1, <2>2, ReadStep
    <2>3. CASE DeleteAnswered BY <2>1, <2>3, DeletedStep
    <2>4. CASE SMS_OnRecvPort BY <2>1, <2>4, RecvStep
    <2>5. ASSUME NEW k \in Kinds, SendAnswered(k) PROVE IInv'
      BY <1>1, <2>1, <2>5, AnsweredStep, AnsweredType
    <2>6. ASSUME NEW k \in Kinds, WM_ASYN_SEND(k) PROVE IInv'
      BY <1>1, <2>1, <2>6, AsynStep, AsynType
    <2> QED BY <1>3, <2>2, <2>3, <2>4, <2>5, <2>6 DEF Dispatcher, MEAnswer, DispatchMessage
  <1>4. CASE Outbox
    <2>1. OutboxInv' /\ SendInv' BY <1>1, <1>4, SucceededStep, FailedStep DEF Outbox
    <2>2. TypeOK' /\ UNCHANGED <<requests, g_stQueue>> BY <1>1, <1>4, ResultType DEF Outbox
    <2> QED BY <1>1, <2>1, <2>2 DEF TypeInv, RingInv
  <1>5. CASE Restart BY <1>1, <1>5, RestartStep, RestartType
  <1>6. CASE Arrive /\ Event /\ UNCHANGED outbox
    <2>1. events' \in Nat BY <1>1, <1>6 DEF Event, TypeOK
    <2> QED BY <1>6, <2>1, CMTIStep, CMTStep DEF Arrive
  <1>7. CASE UNCHANGED vars
    <2> USE <1>7 DEF vars, dispatch, incoming, outgoing, queues, outbox
    <2>1. TypeOK' BY <1>1 DEF TypeOK
    <2>2. RingInv' BY <1>1 DEF RingInv
    <2>3. SameCommands(requests, requests') /\ Same(posted, posted', SendMessages)
      BY DEF SameCommands, Same
    <2>4. OutboxInv' /\ SendInv' BY <2>3, Neutral
    <2> QED BY <2>1, <2>2, <2>4 DEF TypeInv
  <1> QED BY <1>2, <1>3, <1>4, <1>5, <1>6, <1>7 DEF Next

\* The inductive invariant holds in every reachable state.
LEMMA Invariant == Spec => []IInv
  <1>1. Init => IInv BY InitInv
  <1>2. IInv /\ [Next]_vars => IInv' BY NextInv
  <1> QED BY <1>1, <1>2, PTL DEF Spec

\* Every reachable state of the dispatcher and the outbox is well typed; in
\* particular an index is in the ring when one is taken off it.
THEOREM TypeCorrect == Spec => []TypeOK
  <1>1. IInv => TypeOK BY DEF IInv, TypeInv
  <1> QED BY <1>1, Invariant, PTL

\* While the outbox is busy one send is under way, and never two: the record of
\* a send is never overwritten, although the dispatcher does not look.
THEOREM SendsAreSerial == Spec => []OneOutstanding
  <1>1. IInv => OneOutstanding BY DEF IInv, SendInv
  <1> QED BY <1>1, Invariant, PTL

\* What the dispatcher sends is the file at the head of the queue, to which the
\* outbox will book the result.
THEOREM ResultIsOfTheHead == Spec => []HeadIsSent
  <1>1. ASSUME IInv PROVE HeadIsSent
    <2> SUFFICES ASSUME NEW k \in Kinds, gAsynSend[k].file # NULL, ~Wedged
                 PROVE  pSendHeader # <<>> /\ gAsynSend[k].file = Head(pSendHeader)
      BY DEF HeadIsSent
    <2>1. Carried(k) BY <1>1 DEF IInv, SendInv, RecordInv, Clear
    <2>2. gAsynSend[k].file = Head(pSendHeader)
      BY <1>1, <2>1 DEF IInv, SendInv, RecordInv
    <2>3. ~None(posted, SendMessages) \/ ~None(Cmds(requests), Kinds)
      BY <2>1, Only, AsynFacts DEF Carried
    <2>4. bBusy BY <1>1, <2>3 DEF IInv, SendInv, OneOutstanding
    <2> QED BY <1>1, <2>2, <2>4 DEF IInv, OutboxInv, BusyInv
  <1> QED BY <1>1, Invariant, PTL

-----------------------------------------------------------------------------
(* What is booked as sent was transmitted.                                 *)

\* What the network has acknowledged, and what was cut, stays so.
LEMMA AirGrows ==
  ASSUME Next
  PROVE  air \subseteq air' /\ cut \subseteq cut'
  <1> USE DEF dispatch, incoming, outgoing, queues
  <1>1. CASE UserAction
    BY <1>1 DEF UserAction, Compose, Resend, Delete, SMS_Suspend, OpenOutbox, SMS_Send
  <1>2. CASE Dispatcher
    <2>1. CASE ReadAnswered BY <2>1 DEF ReadAnswered
    <2>2. CASE DeleteAnswered BY <2>2 DEF DeleteAnswered
    <2>3. CASE SMS_OnRecvPort BY <2>3 DEF SMS_OnRecvPort
    <2>4. ASSUME NEW k \in Kinds, SendAnswered(k) PROVE air \subseteq air' /\ cut \subseteq cut'
      BY <2>4 DEF SendAnswered, SendSegment
    <2>5. ASSUME NEW k \in Kinds, WM_ASYN_SEND(k) PROVE air \subseteq air' /\ cut \subseteq cut'
      BY <2>5 DEF WM_ASYN_SEND, SendSegment
    <2> QED BY <1>2, <2>1, <2>2, <2>3, <2>4, <2>5 DEF Dispatcher, MEAnswer, DispatchMessage
  <1>3. CASE Outbox BY <1>3 DEF Outbox, SendSucceeded, SendFailed
  <1>4. CASE Restart BY <1>4 DEF Restart, DispatchRestart
  <1>5. CASE Arrive BY <1>5 DEF Arrive, WM_CMT_COMING, WM_CMTI_COMING
  <1> QED BY <1>1, <1>2, <1>3, <1>4, <1>5 DEF Next

\* The only file that becomes one of those sent is the head, when all of it is
\* transmitted.
LEMMA BecomesSent ==
  ASSUME IInv, Next, NEW f \in Files, stat'[f] = "SENT"
  PROVE  stat[f] = "SENT" \/ Transmitted(f)
  <1>1. stat \in [Files -> Statuses] /\ pSendHeader \in Seq(Files) /\ posted \in Seq(Messages)
    BY DEF IInv, TypeInv, TypeOK
  <1>2. CASE UserAction
    <2>1. ASSUME NEW g \in Files, Compose(g) PROVE stat[f] = "SENT"
      BY <1>1, <2>1 DEF Compose, SMS_Send
    <2>2. ASSUME NEW g \in Files, Resend(g) PROVE stat[f] = "SENT"
      BY <1>1, <2>2 DEF Resend, SMS_Send
    <2>3. ASSUME NEW g \in Files, Delete(g) PROVE stat[f] = "SENT"
      BY <1>1, <2>3 DEF Delete
    <2>4. ASSUME NEW g \in Files, SMS_Suspend(g) PROVE stat[f] = "SENT"
      BY <1>1, <2>4 DEF SMS_Suspend
    <2>5. CASE OpenOutbox BY <2>5 DEF OpenOutbox
    <2> QED BY <1>2, <2>1, <2>2, <2>3, <2>4, <2>5 DEF UserAction
  <1>3. CASE UNCHANGED outbox BY <1>3 DEF outbox
  <1>4. ASSUME NEW q, NEW s \in [Files -> Statuses], NEW l, SendNext(q, s, l)
        PROVE  s[f] = "SENT"
    BY <1>4 DEF SendNext
  <1>5. CASE SendSucceeded
    <2> DEFINE h == Head(pSendHeader)
               to(v, fn) == [fn EXCEPT ![h] = v]
    <2>1. \/ HeadMissing
          \/ SendNext(Rest(pSendHeader), stat, shown)
          \/ stat[h] \in InOutbox /\ SendNext(Rest(pSendHeader), to("SENT", stat), to("SENT", shown))
      BY <1>5 DEF SendSucceeded
    <2>2. CASE HeadMissing BY <2>2 DEF HeadMissing
    <2>3. CASE SendNext(Rest(pSendHeader), stat, shown) BY <1>1, <1>4, <2>3
    <2>4. CASE stat[h] \in InOutbox /\ SendNext(Rest(pSendHeader), to("SENT", stat), to("SENT", shown))
      <3>1. to("SENT", stat) \in [Files -> Statuses] BY <1>1 DEF Statuses
      <3>2. to("SENT", stat)[f] = "SENT" BY <1>4, <2>4, <3>1
      <3>3. stat[f] = "SENT" \/ f = h BY <1>1, <3>2
      <3>4. posted # <<>> /\ Head(posted) = "sent" BY <1>5 DEF SendSucceeded
      <3>5. Has(posted, "sent") BY <1>1, <3>4, Taken
      <3>6. Transmitted(h) BY <2>4, <3>5 DEF IInv, SendInv, ReportInv, Wedged
      <3> QED BY <3>3, <3>6
    <2> QED BY <2>1, <2>2, <2>3, <2>4
  <1>6. CASE SendFailed
    <2> DEFINE h == Head(pSendHeader)
               unsent(fn) == [fn EXCEPT ![h] = "UNSENT"]
    <2>1. HeadMissing \/ SendNext(Rest(pSendHeader), unsent(stat), unsent(shown))
      BY <1>6 DEF SendFailed
    <2>2. CASE HeadMissing BY <2>2 DEF HeadMissing
    <2>3. CASE SendNext(Rest(pSendHeader), unsent(stat), unsent(shown))
      <3>1. unsent(stat) \in [Files -> Statuses] BY <1>1 DEF Statuses, InOutbox
      <3>2. unsent(stat)[f] = "SENT" BY <1>4, <2>3, <3>1
      <3> QED BY <1>1, <3>2
    <2> QED BY <2>1, <2>2, <2>3
  <1>7. CASE Restart
    BY <1>1, <1>7 DEF Restart, AfterRestart
  <1>8. UserAction \/ UNCHANGED outbox \/ SendSucceeded \/ SendFailed \/ Restart
    BY DEF Next, Outbox, Dispatcher, outbox
  <1> QED BY <1>2, <1>3, <1>5, <1>6, <1>7, <1>8

\* Every segment of a message in the folder of sent messages was acknowledged by
\* the network, but for those whose later segment the driver refused.
THEOREM SentIsTransmitted == Spec => []SentWasTransmitted
  <1>1. Init => SentWasTransmitted
    BY DEF Init, SentWasTransmitted
  <1>2. ASSUME IInv, SentWasTransmitted, [Next]_vars PROVE SentWasTransmitted'
    <2>1. CASE UNCHANGED vars
      BY <1>2, <2>1 DEF SentWasTransmitted, vars, dispatch, outgoing, outbox
    <2>2. CASE Next
      <3> SUFFICES ASSUME NEW f \in Files, stat'[f] = "SENT"
                   PROVE  f \in cut' \/ \A n \in 1 .. Segs[f] : <<f, n>> \in air'
        BY DEF SentWasTransmitted
      <3>1. f \in cut \/ \A n \in 1 .. Segs[f] : <<f, n>> \in air
        BY <1>2, <2>2, BecomesSent DEF SentWasTransmitted, Transmitted
      <3> QED BY <2>2, <3>1, AirGrows
    <2> QED BY <1>2, <2>1, <2>2
  <1> QED BY <1>1, <1>2, Invariant, PTL DEF Spec

-----------------------------------------------------------------------------
(* What waits is in the queue.                                             *)

Ready(s, q) == \A f \in Files : s[f] \in {"WAITINGSEND", "SENDING"} => f \in ToSet(q)

\* The next file is at the head of the queue when it is sent.
LEMMA NextReady ==
  ASSUME NEW q \in Seq(Files), NEW s \in [Files -> Statuses], NEW l,
         Ready(s, q), SendNext(q, s, l)
  PROVE  NoOrphan'
  <1>1. pSendHeader' = q BY DEF SendNext
  <1>2. q # <<>> => Head(q) \in ToSet(q) BY QueueFacts
  <1>3. \/ stat' = s
        \/ q # <<>> /\ stat' = [s EXCEPT ![Head(q)] = "SENDING"]
    BY DEF SendNext
  <1> QED BY <1>1, <1>2, <1>3 DEF NoOrphan, Ready

\* A file leaves the queue only when it is given another status.
LEMMA OrphanStep ==
  ASSUME "save" \notin Failures, IInv, NoOrphan, [Next]_vars
  PROVE  NoOrphan'
  <1>1. /\ stat \in [Files -> Statuses] /\ pSendHeader \in Seq(Files)
        /\ posted \in Seq(Messages)
    BY DEF IInv, TypeInv, TypeOK
  <1>2. CASE UNCHANGED outbox BY <1>2 DEF NoOrphan, outbox
  <1>3. ASSUME NEW f \in Files, NEW s \in Statuses, SMS_Send(f, s) PROVE NoOrphan'
    <2>1. ToSet(pSendHeader') = ToSet(pSendHeader) \cup {f}
      BY <1>1, <1>3, QueueFacts DEF SMS_Send, Queued
    <2>2. \A g \in Files \ {f} : stat'[g] = stat[g] BY <1>1, <1>3 DEF SMS_Send
    <2> QED BY <2>1, <2>2 DEF NoOrphan
  <1>4. CASE UserAction
    <2>1. ASSUME NEW f \in Files, Compose(f) PROVE NoOrphan'
      <3>1. "WAITINGSEND" \in Statuses BY DEF Statuses, InOutbox
      <3> QED BY <1>3, <2>1, <3>1 DEF Compose
    <2>2. ASSUME NEW f \in Files, Resend(f) PROVE NoOrphan'
      BY <1>1, <1>3, <2>2 DEF Resend
    <2>3. ASSUME NEW f \in Files, Delete(f) PROVE NoOrphan'
      BY <1>1, <2>3 DEF Delete, NoOrphan
    <2>4. ASSUME NEW f \in Files, SMS_Suspend(f) PROVE NoOrphan'
      <3> DEFINE i == CHOOSE x \in Waiting(f) : \A y \in Waiting(f) : x <= y
      <3>1. CASE /\ Waiting(f) # {} /\ pSendHeader' = RemoveAt(pSendHeader, i)
                 /\ stat' = [stat EXCEPT ![f] = "SUSPENDED"]
        <4>1. i \in 2 .. Len(pSendHeader) /\ pSendHeader[i] = f
          BY <1>1, <3>1, SuspendPlace
        <4> HIDE DEF i
        <4>2. \A g \in ToSet(pSendHeader) \ {f} : g \in ToSet(pSendHeader')
          BY <1>1, <3>1, <4>1, RemoveQueued
        <4> QED BY <1>1, <3>1, <4>2 DEF NoOrphan
      <3>2. CASE UNCHANGED <<pSendHeader, stat>> BY <3>2 DEF NoOrphan
      <3> QED BY <2>4, <3>1, <3>2 DEF SMS_Suspend
    <2>5. CASE OpenOutbox BY <2>5 DEF OpenOutbox, NoOrphan
    <2> QED BY <1>4, <2>1, <2>2, <2>3, <2>4, <2>5 DEF UserAction
  <1>5. CASE Outbox
    <2> DEFINE h == Head(pSendHeader)
               to(v, fn) == [fn EXCEPT ![h] = v]
    <2>1. posted # <<>> /\ Head(posted) \in {"sent", "failed"}
      BY <1>5 DEF Outbox, SendSucceeded, SendFailed
    <2>2. pSendHeader # <<>> BY <1>1, <2>1, ResultFacts DEF IInv
    <2>3. /\ Tail(pSendHeader) \in Seq(Files)
          /\ ToSet(pSendHeader) = ToSet(Tail(pSendHeader)) \cup {h}
      BY <1>1, <2>2, QueueFacts
    <2>4. Outcomes("save", Failures) = {TRUE} BY DEF Outcomes
    <2>5. \/ HeadMissing
          \/ SendNext(Rest(pSendHeader), to("SENT", stat), to("SENT", shown))
          \/ SendNext(Rest(pSendHeader), to("UNSENT", stat), to("UNSENT", shown))
      BY <1>5, <2>4 DEF Outbox, SendSucceeded, SendFailed
    <2>6. CASE HeadMissing BY <2>6 DEF HeadMissing, NoOrphan
    <2>7. ASSUME NEW v \in {"SENT", "UNSENT"},
                 SendNext(Rest(pSendHeader), to(v, stat), to(v, shown))
          PROVE  NoOrphan'
      <3>1. to(v, stat) \in [Files -> Statuses] BY <1>1 DEF Statuses, InOutbox
      <3>2. Ready(to(v, stat), Tail(pSendHeader))
        BY <1>1, <2>3 DEF NoOrphan, Ready
      <3> HIDE DEF to
      <3> QED BY <2>3, <2>7, <3>1, <3>2, NextReady DEF Rest
    <2> QED BY <2>5, <2>6, <2>7
  <1>6. CASE Restart BY <1>1, <1>6 DEF Restart, AfterRestart, NoOrphan
  <1> QED BY <1>2, <1>4, <1>5, <1>6 DEF Next, Dispatcher, vars, outbox

\* A message that waits or is being sent is in the queue, also after the phone
\* was off, when the files of sent messages can be written.
THEOREM WaitingIsQueued ==
  ASSUME "save" \notin Failures
  PROVE  Spec => []NoOrphan
  <1>1. Init => NoOrphan BY DEF Init, NoOrphan
  <1>2. IInv /\ NoOrphan /\ [Next]_vars => NoOrphan' BY OrphanStep
  <1> QED BY <1>1, <1>2, Invariant, PTL DEF Spec
=============================================================================
