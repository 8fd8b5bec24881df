------------------------ MODULE DialMgrDevice_proofs ------------------------
(***************************************************************************)
(* Proofs about the one MAC device, for any clients, numbers to dial and   *)
(* bounds:                                                                 *)
(*   DeviceSafe      the device is open exactly while it is needed;        *)
(*   ConnectionReal  the manager is connected only while the phone is;     *)
(*   RetrySafe       the retry timer runs only between two busy calls.     *)
(*                                                                         *)
(* None of the three holds under every fault: Calm and CalmSpec say under  *)
(* which they do.  The invariant proved is CalmInv.  DeviceInv says, for   *)
(* each state of the dialer, what the MAC layer does and which timers run. *)
(* It is not inductive without PostedInv, which is about the messages on   *)
(* their way: each fits the state in which it will be handled (Fits), they *)
(* come in the order in which the dialer expects them (Ordered), and what  *)
(* it waits for is on its way (Announced).                                 *)
(***************************************************************************)
EXTENDS DialMgr_proofs

-----------------------------------------------------------------------------
(* The messages of a queue, and an order among them.                       *)

Members(q) == {q[i] : i \in DOMAIN q}

LEMMA MembersAppend ==
  ASSUME NEW q \in Seq(Messages), NEW m \in Messages
  PROVE  Members(Append(q, m)) = Members(q) \cup {m}
  <1>1. /\ Append(q, m) \in Seq(Messages)
        /\ Len(Append(q, m)) = Len(q) + 1
        /\ \A i \in 1..Len(q) : Append(q, m)[i] = q[i]
        /\ Append(q, m)[Len(q) + 1] = m
    BY AppendProperties
  <1>2. /\ Len(q) \in Nat /\ DOMAIN q = 1..Len(q)
        /\ DOMAIN Append(q, m) = 1..Len(q) + 1
    BY <1>1, LenProperties
  <1>3. \A i \in 1..Len(q) + 1 : i \in 1..Len(q) \/ i = Len(q) + 1
    BY <1>2
  <1>4. Members(Append(q, m)) \subseteq Members(q) \cup {m}
    BY <1>1, <1>2, <1>3 DEF Members
  <1>5. \A i \in 1..Len(q) : i \in 1..Len(q) + 1
    BY <1>2
  <1>6. Len(q) + 1 \in 1..Len(q) + 1
    BY <1>2
  <1>7. Members(q) \cup {m} \subseteq Members(Append(q, m))
    BY <1>1, <1>2, <1>5, <1>6 DEF Members
  <1> QED BY <1>4, <1>7

LEMMA MembersTail ==
  ASSUME NEW q \in Seq(Messages), q # <<>>
  PROVE  Members(q) = Members(Tail(q)) \cup {Head(q)}
  <1>1. /\ Tail(q) \in Seq(Messages) /\ Head(q) = q[1]
        /\ Len(Tail(q)) = Len(q) - 1
        /\ \A j \in 1..Len(Tail(q)) : Tail(q)[j] = q[j + 1]
    BY HeadTailProperties
  <1>2. /\ Len(q) \in Nat /\ DOMAIN q = 1..Len(q) /\ Len(q) # 0
        /\ DOMAIN Tail(q) = 1..Len(q) - 1
    BY <1>1, LenProperties, EmptySeq
  <1>3. \A i \in 1..Len(q) : i = 1 \/ (i - 1 \in 1..Len(q) - 1 /\ (i - 1) + 1 = i)
    BY <1>2
  <1>4. Members(q) \subseteq Members(Tail(q)) \cup {Head(q)}
    <2> SUFFICES ASSUME NEW i \in DOMAIN q
                 PROVE  q[i] \in Members(Tail(q)) \cup {Head(q)}
      BY DEF Members
    <2>1. CASE i = 1 BY <1>1, <2>1
    <2>2. CASE i # 1
      <3>1. Tail(q)[i - 1] = q[i] /\ i - 1 \in DOMAIN Tail(q)
        BY <1>1, <1>2, <1>3, <2>2
      <3> QED BY <3>1 DEF Members
    <2> QED BY <2>1, <2>2
  <1>5. \A j \in 1..Len(q) - 1 : j + 1 \in 1..Len(q)
    BY <1>2
  <1>6. 1 \in 1..Len(q) BY <1>2
  <1>7. Members(Tail(q)) \cup {Head(q)} \subseteq Members(q)
    BY <1>1, <1>2, <1>5, <1>6 DEF Members
  <1> QED BY <1>4, <1>7

LEMMA MembersConcat ==
  ASSUME NEW q \in Seq(Messages), NEW r \in Seq(Messages)
  PROVE  Members(q \o r) = Members(q) \cup Members(r)
  <1>1. /\ q \o r \in Seq(Messages)
        /\ Len(q \o r) = Len(q) + Len(r)
        /\ \A i \in 1..Len(q) + Len(r) :
             (q \o r)[i] = IF i <= Len(q) THEN q[i] ELSE r[i - Len(q)]
    BY ConcatProperties
  <1>2. /\ Len(q) \in Nat /\ DOMAIN q = 1..Len(q)
        /\ Len(r) \in Nat /\ DOMAIN r = 1..Len(r)
        /\ DOMAIN (q \o r) = 1..Len(q) + Len(r)
    BY <1>1, LenProperties
  <1>3. \A i \in 1..Len(q) + Len(r) :
          IF i <= Len(q) THEN i \in 1..Len(q) ELSE i - Len(q) \in 1..Len(r)
    BY <1>2
  <1>4. Members(q \o r) \subseteq Members(q) \cup Members(r)
    BY <1>1, <1>2, <1>3 DEF Members
  <1>5. \A i \in 1..Len(q) : i \in 1..Len(q) + Len(r) /\ i <= Len(q)
    BY <1>2
  <1>6. Members(q) \subseteq Members(q \o r)
    BY <1>1, <1>2, <1>5 DEF Members
  <1>7. \A i \in 1..Len(r) : /\ Len(q) + i \in 1..Len(q) + Len(r)
                             /\ ~(Len(q) + i <= Len(q))
                             /\ (Len(q) + i) - Len(q) = i
    BY <1>2
  <1>8. \A i \in 1..Len(r) : (q \o r)[Len(q) + i] = r[i]
    BY <1>1, <1>7
  <1>9. Members(r) \subseteq Members(q \o r)
    BY <1>2, <1>7, <1>8 DEF Members
  <1> QED BY <1>4, <1>6, <1>9

LEMMA MembersTyped ==
  ASSUME NEW q \in Seq(Messages)
  PROVE  Members(q) \subseteq Messages
  BY ElementOfSeq, LenProperties DEF Members

-----------------------------------------------------------------------------
(* Which messages may be posted, in which state and in which order.         *)

Closing == {"PPP_CLOSED", "PPP_FAILURE"}
Stops == {"HANGUP", "RUNCANCEL"}
OnLine == {"PPP", "NET"}
Core(m) == m.to \in {"ctrl", "mgr"}

\* A message for the dialer fits its state: each script has one result, which
\* it leaves behind when it ends; PPP speaks only while it is used; a stop is
\* requested once, and before the network is down.
FitsCtrl(msg) ==
  /\ msg \notin {"LINE_UP", "LINE_DOWN"}
  /\ msg = "START" =>
       /\ Run_Info.run_state = "INVALID"
       /\ mac.open /\ nCurrentState = "DIALING"
  /\ msg \in ScriptResults =>
       /\ Run_Info.run_state \in {"DIAL", "LOGIN", "HANGUP"}
       /\ mac.script = "none" /\ "BUSY" \notin timers
       /\ msg = "DP_SUCCESS" /\ Run_Info.run_state = "DIAL" => mac.line
  /\ msg \in {"PPP_SUCCESS", "PPP_RE_NEGO"} \cup Closing =>
       Run_Info.run_state \in OnLine
  /\ msg \in Closing => mac.network = "down"
  /\ msg = "PPP_FAILURE" => "STOP" \notin timers
  /\ msg \in Stops =>
       /\ nCurrentState = "HANGUPING" /\ HangsUp # {}
       /\ Run_Info.run_state \in OnLine => mac.network \in {"starting", "up"}
  /\ msg = "HANGUP" => Run_Info.run_state = "NET"

\* The manager is told of a connection that is, or that is about to be
\* reported as broken, and of the end of a dial when the device is closed.
FitsMgr(msg) ==
  /\ nCurrentState # "IDLE"
  /\ msg = "NETCONNECT" => Run_Info.run_state \in {"NET", "HANGUP", "INVALID"}
  /\ msg \in Ends => Run_Info.run_state = "INVALID" /\ ~mac.open

Fits(m) ==
  /\ m.to = "ctrl" => FitsCtrl(m.msg)
  /\ m.to = "mgr" => FitsMgr(m.msg)

\* Message n may come after m: START is alone, nothing comes after the end of
\* a dial or of PPP, and no two scripts end, nor two stops come, in a row.
Follows(m, n) ==
  /\ Core(m) /\ Core(n) => m.msg # "START" /\ n.msg # "START"
  /\ m.to = "mgr" /\ m.msg \in Ends => ~Core(n)
  /\ m.to = "ctrl" /\ n.to = "ctrl" =>
       /\ ~(m.msg \in ScriptResults /\ n.msg \in ScriptResults)
       /\ m.msg \notin Closing
       /\ ~(m.msg \in Stops /\ n.msg \in Stops)

Ordered(q) == \A i, j \in DOMAIN q : i < j => Follows(q[i], q[j])

LEMMA OrderedAppend ==
  ASSUME NEW q \in Seq(Messages), NEW m \in Messages, Ordered(q),
         \A n \in Members(q) : Follows(n, m)
  PROVE  Ordered(Append(q, m))
  <1>1. /\ Append(q, m) \in Seq(Messages)
        /\ Len(Append(q, m)) = Len(q) + 1
        /\ \A i \in 1..Len(q) : Append(q, m)[i] = q[i]
        /\ Append(q, m)[Len(q) + 1] = m
    BY AppendProperties
  <1>2. /\ Len(q) \in Nat /\ DOMAIN q = 1..Len(q)
        /\ DOMAIN Append(q, m) = 1..Len(q) + 1
    BY <1>1, LenProperties
  <1> SUFFICES ASSUME NEW i \in 1..Len(q) + 1, NEW j \in 1..Len(q) + 1, i < j
               PROVE  Follows(Append(q, m)[i], Append(q, m)[j])
    BY <1>2 DEF Ordered
  <1>3. i \in 1..Len(q) /\ (j \in 1..Len(q) \/ j = Len(q) + 1)
    BY <1>2
  <1>4. q[i] \in Members(q) BY <1>2, <1>3 DEF Members
  <1>5. CASE j \in 1..Len(q)
    BY <1>1, <1>2, <1>3, <1>5 DEF Ordered
  <1>6. CASE j = Len(q) + 1
    BY <1>1, <1>3, <1>4, <1>6
  <1> QED BY <1>3, <1>5, <1>6

LEMMA OrderedTail ==
  ASSUME NEW q \in Seq(Messages), q # <<>>, Ordered(q)
  PROVE  /\ Ordered(Tail(q))
         /\ \A n \in Members(Tail(q)) : Follows(Head(q), n)
  <1>1. /\ Tail(q) \in Seq(Messages) /\ Head(q) = q[1]
        /\ Len(Tail(q)) = Len(q) - 1
        /\ \A j \in 1..Len(Tail(q)) : Tail(q)[j] = q[j + 1]
    BY HeadTailProperties
  <1>2. /\ Len(q) \in Nat /\ DOMAIN q = 1..Len(q) /\ Len(q) # 0
        /\ DOMAIN Tail(q) = 1..Len(q) - 1
    BY <1>1, LenProperties, EmptySeq
  <1>3. \A j \in 1..Len(q) - 1 : j + 1 \in 1..Len(q) /\ 1 < j + 1
    BY <1>2
  <1>4. 1 \in 1..Len(q) BY <1>2
  <1>5. ASSUME NEW i \in 1..Len(q) - 1, NEW j \in 1..Len(q) - 1, i < j
        PROVE  Follows(Tail(q)[i], Tail(q)[j])
    <2>1. i + 1 < j + 1 BY <1>2, <1>5
    <2>2. Follows(q[i + 1], q[j + 1])
      BY <1>2, <1>3, <2>1 DEF Ordered
    <2> QED BY <1>1, <1>2, <2>2
  <1>6. ASSUME NEW j \in 1..Len(q) - 1
        PROVE  Follows(Head(q), Tail(q)[j])
    <2>1. Follows(q[1], q[j + 1])
      BY <1>2, <1>3, <1>4 DEF Ordered
    <2> QED BY <1>1, <1>2, <2>1
  <1> QED BY <1>2, <1>5, <1>6 DEF Ordered, Members

\* Reports to the clients come in any order.
LEMMA OrderedConcat ==
  ASSUME NEW q \in Seq(Messages), NEW r \in Seq(Messages), Ordered(q),
         \A n \in Members(r) : ~Core(n)
  PROVE  Ordered(q \o r)
  <1>1. /\ q \o r \in Seq(Messages)
        /\ Len(q \o r) = Len(q) + Len(r)
        /\ \A i \in 1..Len(q) + Len(r) :
             (q \o r)[i] = IF i <= Len(q) THEN q[i] ELSE r[i - Len(q)]
    BY ConcatProperties
  <1>2. /\ Len(q) \in Nat /\ DOMAIN q = 1..Len(q)
        /\ Len(r) \in Nat /\ DOMAIN r = 1..Len(r)
        /\ DOMAIN (q \o r) = 1..Len(q) + Len(r)
    BY <1>1, LenProperties
  <1>3. \A m, n : ~Core(n) => Follows(m, n)
    BY DEF Follows, Core
  <1> SUFFICES ASSUME NEW i \in 1..Len(q) + Len(r),
                      NEW j \in 1..Len(q) + Len(r), i < j
               PROVE  Follows((q \o r)[i], (q \o r)[j])
    BY <1>2 DEF Ordered
  <1>4. CASE j <= Len(q)
    <2>1. i \in 1..Len(q) /\ j \in 1..Len(q) /\ i <= Len(q)
      BY <1>2, <1>4
    <2>2. Follows(q[i], q[j]) BY <1>2, <2>1 DEF Ordered
    <2> QED BY <1>1, <1>4, <2>1, <2>2
  <1>5. CASE ~(j <= Len(q))
    <2>1. j - Len(q) \in 1..Len(r) BY <1>2, <1>5
    <2>2. r[j - Len(q)] \in Members(r) BY <1>2, <2>1 DEF Members
    <2>3. (q \o r)[j] = r[j - Len(q)] BY <1>1, <1>5
    <2> QED BY <1>3, <2>2, <2>3
  <1> QED BY <1>4, <1>5

-----------------------------------------------------------------------------
(* The invariant.                                                          *)

\* Scripts start and the carrier holds; and a dial has one reason to end:
\* either its users, or PPP and the clock.
Calm ==
  /\ "explain" \notin Faults /\ "line" \notin Faults
  /\ \/ HangsUp = {}
     \/ "ppp" \notin Faults /\ "closed" \notin Faults /\ ~AutoDisconn

DeviceInv ==
  /\ Run_Info.run_state = "INVALID" =>
       mac.script = "none" /\ mac.network = "down" /\ timers = {}
  /\ Run_Info.run_state # "INVALID" => mac.open /\ nCurrentState # "IDLE"
  /\ Run_Info.run_state = "DIAL" =>
       /\ mac.network = "down" /\ mac.script \in {"none", "DIAL"}
       /\ timers \subseteq {"BUSY"} /\ (mac.script = "DIAL" => timers = {})
       /\ timers # {} => Run_Info.rep_times >= 1
  /\ Run_Info.run_state = "LOGIN" =>
       /\ mac.network = "down" /\ mac.script \in {"none", "LOGIN"}
       /\ timers = {} /\ mac.line
  /\ Run_Info.run_state \in OnLine =>
       /\ mac.script = "none" /\ mac.line
       /\ timers \subseteq {"TEST", "STOP"}
       /\ "TEST" \in timers => DialInfo.AutoHangup
       /\ "STOP" \in timers => mac.network \in {"stopping", "down"}
       /\ HangsUp # {} /\ nCurrentState # "HANGUPING" =>
            mac.network \in {"starting", "up"}
  /\ Run_Info.run_state = "HANGUP" =>
       /\ mac.network = "down" /\ mac.script \in {"none", "HANGUP", "STOP"}
       /\ timers = {}
  /\ Run_Info.run_state \in {"DIAL", "LOGIN", "PPP"} =>
       nCurrentState \in {"DIALING", "HANGUPING"}
  /\ HangsUp # {} => ~DialInfo.AutoHangup

\* An open device has a dial to come, a network that is down has been reported.
Announced ==
  /\ mac.open /\ Run_Info.run_state = "INVALID" =>
       Message("ctrl", "START") \in Members(posted)
  /\ Run_Info.run_state \in OnLine /\ mac.network = "down" =>
       \E msg \in Closing : Message("ctrl", msg) \in Members(posted)

PostedInv ==
  /\ \A m \in Members(posted) : Fits(m)
  /\ Ordered(posted)
  /\ Announced

CalmInv == DeviceInv /\ PostedInv

LEMMA Kinds ==
  \A m \in Messages : /\ m.to = "ctrl" => m.msg \in CtrlMessages
                      /\ m.to = "mgr" => m.msg \in Reports
  BY NamesAssumption DEF Messages

LEMMA RestFacts ==
  ASSUME posted \in Seq(Messages), PostedInv
  PROVE  /\ Rest \in Seq(Messages) /\ Ordered(Rest)
         /\ Members(Rest) \subseteq Messages
         /\ \A m \in Members(Rest) : Fits(m)
         /\ posted = <<>> => Members(Rest) = {} /\ Members(posted) = {}
         /\ posted # <<>> =>
              /\ Members(posted) = Members(Rest) \cup {Head(posted)}
              /\ Fits(Head(posted)) /\ Head(posted) \in Messages
              /\ \A n \in Members(Rest) : Follows(Head(posted), n)
  <1>1. CASE posted = <<>>
    <2>1. Rest = <<>> /\ <<>> \in Seq(Messages) BY <1>1, EmptySeq DEF Rest
    <2>2. Members(<<>>) = {} BY DEF Members
    <2>3. Ordered(<<>>) BY DEF Ordered
    <2> QED BY <1>1, <2>1, <2>2, <2>3
  <1>2. CASE posted # <<>>
    <2>1. Rest = Tail(posted) BY <1>2 DEF Rest
    <2>2. Rest \in Seq(Messages) /\ Head(posted) \in Messages
      BY <1>2, <2>1, HeadTailProperties
    <2>3. Members(posted) = Members(Rest) \cup {Head(posted)}
      BY <1>2, <2>1, MembersTail
    <2>4. Ordered(Rest) /\ \A n \in Members(Rest) : Follows(Head(posted), n)
      BY <1>2, <2>1, OrderedTail DEF PostedInv
    <2>5. Members(Rest) \subseteq Messages BY <2>2, MembersTyped
    <2> QED BY <1>2, <2>2, <2>3, <2>4, <2>5 DEF PostedInv
  <1> QED BY <1>1, <1>2

\* A handler that posts nothing.
LEMMA SilentPosted ==
  ASSUME posted \in Seq(Messages), PostedInv, Silent,
         \A m \in Members(Rest) : Fits(m)'
  PROVE  Announced' => PostedInv'
  <1>1. posted' = Rest BY DEF Silent
  <1>2. Ordered(Rest) BY RestFacts
  <1>3. (\A m \in Members(posted) : Fits(m))' BY <1>1
  <1>4. Ordered(posted)' BY <1>1, <1>2 DEF Ordered
  <1> QED BY <1>1, <1>3, <1>4 DEF PostedInv

\* A handler that ends with a report to the manager.
LEMMA ReportPosted ==
  ASSUME posted \in Seq(Messages), PostedInv, NEW report \in Reports,
         REPORTBACK(report), Run_Info.run_state # "INVALID",
         \A m \in Members(Rest) : Fits(m)',
         Fits(Message("mgr", report))'
  PROVE  /\ Announced' => PostedInv'
         /\ Members(posted') = Members(Rest) \cup {Message("mgr", report)}
  <1> DEFINE m == Message("mgr", report)
  <1>1. Rest \in Seq(Messages) /\ Ordered(Rest)
        /\ \A n \in Members(Rest) : Fits(n)
    BY RestFacts
  <1>2. m \in Messages /\ m.to = "mgr" /\ m.msg = report
        /\ report # "START" /\ m.to # "ctrl"
    BY MessageTypes DEF Message, Reports
  <1>3. posted' = Append(Rest, m) BY DEF REPORTBACK
  <1>4. Fits(m)' OBVIOUS
  <1> HIDE DEF m
  <1>5. Members(posted') = Members(Rest) \cup {m}
    BY <1>1, <1>2, <1>3, MembersAppend
  <1>6. ASSUME NEW n \in Members(Rest) PROVE Follows(n, m)
    <2>1. Fits(n) BY <1>1
    <2>2. n.to = "ctrl" => n.msg # "START"
      BY <2>1 DEF Fits, FitsCtrl
    <2>3. n.to = "mgr" => n.msg \notin Ends /\ n.msg # "START"
      <3>1. n \in Messages BY <1>1, MembersTyped
      <3> QED BY <2>1, <3>1, Kinds DEF Fits, FitsMgr, Reports
    <2> QED BY <1>2, <2>2, <2>3 DEF Follows, Core
  <1>7. Ordered(Append(Rest, m))
    BY <1>1, <1>2, <1>6, OrderedAppend
  <1>8. Ordered(posted)' BY <1>3, <1>7 DEF Ordered
  <1>9. (\A n \in Members(posted) : Fits(n))' BY <1>4, <1>5
  <1> QED BY <1>5, <1>8, <1>9 DEF PostedInv, m

\* The dialer hangs up: at most a cancel comes too late.
LEMMA HangupCalm ==
  ASSUME Calm, DialInv, CalmInv, NEW run \in RunInfos, NEW ts,
         Run_Info.run_state \in {"DIAL", "LOGIN", "PPP", "NET"},
         mac.script = "none", ts \subseteq {"TEST"},
         "TEST" \in ts => DialInfo.AutoHangup,
         \A m \in Members(Rest) : m.to = "ctrl" => m.msg = "RUNCANCEL",
         OperateHangup(run, ts), UNCHANGED nCurrentState
  PROVE  CalmInv'
  <1>1. posted \in Seq(Messages) /\ mac \in Macs /\ PostedInv /\ DeviceInv
    BY DEF DialInv, TypeOK, DialerTypeOK, CalmInv
  <1>2. mac.open BY <1>1 DEF DeviceInv
  <1>3. /\ Run_Info' = [run EXCEPT !.stg_track = "BEGIN",
                                   !.run_state = "HANGUP"]
        /\ mac' = [mac EXCEPT !.network = "down", !.script =
                     IF run.Mac_LineStatus = "CONNECTED" THEN "HANGUP"
                                                         ELSE "STOP"]
        /\ Silent
    BY <1>2 DEF OperateHangup, CanExplain, ExplainFails, Calm
  <1>4. timers' = {} /\ DialInfo' = DialInfo
    BY DEF OperateHangup
  <1>5. Run_Info'.run_state = "HANGUP"
    BY <1>3 DEF RunInfos
  <1>6. /\ mac'.open /\ mac'.network = "down"
        /\ mac'.script \in {"none", "HANGUP", "STOP"}
    BY <1>1, <1>2, <1>3 DEF Macs
  <1>7. nCurrentState' # "IDLE" BY <1>1 DEF DeviceInv
  <1>8. DeviceInv'
    BY <1>1, <1>4, <1>5, <1>6, <1>7 DEF DeviceInv, OnLine
  <1>9. ASSUME NEW m \in Members(Rest) PROVE Fits(m)'
    <2>1. Fits(m) BY <1>1, RestFacts
    <2>2. m.to = "ctrl" => FitsCtrl(m.msg)'
      <3>1. SUFFICES ASSUME m.to = "ctrl" PROVE FitsCtrl(m.msg)'
        OBVIOUS
      <3>2. m.msg = "RUNCANCEL" BY <3>1
      <3> QED BY <1>5, <2>1, <3>1, <3>2
          DEF Fits, FitsCtrl, ScriptResults, Closing, Stops, OnLine
    <2>3. m.to = "mgr" => FitsMgr(m.msg)'
      BY <1>5, <1>7, <2>1 DEF Fits, FitsMgr
    <2> QED BY <2>2, <2>3 DEF Fits
  <1>10. Announced' BY <1>5 DEF Announced, OnLine
  <1>11. PostedInv' BY <1>1, <1>3, <1>9, <1>10, SilentPosted
  <1> QED BY <1>8, <1>11 DEF CalmInv

\* The network is told to stop.
LEMMA StopCalm ==
  ASSUME DialInv, CalmInv, NEW ts, Run_Info.run_state \in OnLine,
         mac.network # "down", ts \subseteq timers,
         HangsUp # {} => nCurrentState = "HANGUPING",
         \A m \in Members(Rest) : m.to = "ctrl" =>
           m.msg \notin Stops \cup {"PPP_FAILURE"},
         StopNetwork(ts), UNCHANGED nCurrentState
  PROVE  CalmInv'
  <1>1. posted \in Seq(Messages) /\ mac \in Macs /\ PostedInv /\ DeviceInv
    BY DEF DialInv, TypeOK, DialerTypeOK, CalmInv
  <1>2. /\ mac' = [mac EXCEPT !.network =
                     IF @ \in {"starting", "up"} THEN "stopping" ELSE @]
        /\ timers' = ts \cup {"STOP"}
        /\ Silent /\ UNCHANGED <<Run_Info, DialInfo>>
    BY DEF StopNetwork
  <1>3. /\ mac'.network = "stopping" /\ mac'.open = mac.open
        /\ mac'.script = mac.script /\ mac'.line = mac.line
    BY <1>1, <1>2 DEF Macs
  <1>4. DeviceInv'
    BY <1>1, <1>2, <1>3 DEF DeviceInv, OnLine
  <1>5. ASSUME NEW m \in Members(Rest) PROVE Fits(m)'
    <2>1. Fits(m) BY <1>1, RestFacts
    <2>2. m.to = "ctrl" => FitsCtrl(m.msg)'
      <3>1. SUFFICES ASSUME m.to = "ctrl" PROVE FitsCtrl(m.msg)'
        OBVIOUS
      <3>2. FitsCtrl(m.msg) /\ m.msg \notin Stops \cup {"PPP_FAILURE"}
        BY <2>1, <3>1 DEF Fits
      <3>3. m.msg \notin ScriptResults \cup Closing
        BY <3>2 DEF FitsCtrl, OnLine
      <3> QED BY <1>2, <1>3, <3>2, <3>3 DEF FitsCtrl, Stops
    <2>3. m.to = "mgr" => FitsMgr(m.msg)'
      BY <1>2, <1>3, <2>1 DEF Fits, FitsMgr
    <2> QED BY <2>2, <2>3 DEF Fits
  <1>6. Announced' BY <1>1, <1>2, <1>3 DEF Announced, OnLine
  <1>7. PostedInv' BY <1>1, <1>2, <1>5, <1>6, SilentPosted
  <1> QED BY <1>4, <1>7 DEF CalmInv

\* The dialer gives up, or has hung up.
LEMMA ClosedCalm ==
  ASSUME DialInv, CalmInv, Run_Info.run_state # "INVALID",
         \A m \in Members(Rest) : m.to = "ctrl" => m.msg = "RUNCANCEL",
         Run_Info'.run_state = "INVALID", mac' = ClosedMac, timers' = {},
         NEW report \in Ends, REPORTBACK(report),
         UNCHANGED <<DialInfo, nCurrentState>>
  PROVE  CalmInv'
  <1>1. posted \in Seq(Messages) /\ PostedInv /\ DeviceInv
    BY DEF DialInv, TypeOK, DialerTypeOK, CalmInv
  <1>2. /\ mac'.open = FALSE /\ mac'.script = "none"
        /\ mac'.network = "down"
    BY DEF ClosedMac
  <1>3. nCurrentState' # "IDLE" BY <1>1 DEF DeviceInv
  <1>4. DeviceInv'
    BY <1>1, <1>2, <1>3 DEF DeviceInv, OnLine
  <1>5. ASSUME NEW m \in Members(Rest) PROVE Fits(m)'
    <2>1. Fits(m) BY <1>1, RestFacts
    <2>2. m.to = "ctrl" => FitsCtrl(m.msg)'
      <3>1. SUFFICES ASSUME m.to = "ctrl" PROVE FitsCtrl(m.msg)'
        OBVIOUS
      <3>2. m.msg = "RUNCANCEL" BY <3>1
      <3> QED BY <2>1, <3>1, <3>2
          DEF Fits, FitsCtrl, ScriptResults, Closing, Stops, OnLine
    <2>3. m.to = "mgr" => FitsMgr(m.msg)'
      BY <1>2, <1>3, <2>1 DEF Fits, FitsMgr
    <2> QED BY <2>2, <2>3 DEF Fits
  <1>6. Fits(Message("mgr", report))'
    BY <1>2, <1>3 DEF Fits, FitsMgr, Message, Ends
  <1>7. report \in Reports BY DEF Ends, Reports
  <1>8. Announced' BY <1>2 DEF Announced, OnLine
  <1>9. PostedInv' BY <1>1, <1>5, <1>6, <1>7, <1>8, ReportPosted
  <1> QED BY <1>4, <1>9 DEF CalmInv

\* A call begins.
LEMMA DialCalm ==
  ASSUME Calm, DialInv, CalmInv, mac.open, mac.script = "none",
         mac.network = "down", nCurrentState \in {"DIALING", "HANGUPING"},
         \A m \in Members(Rest) : ~Core(m),
         OperateDial({}), UNCHANGED nCurrentState
  PROVE  CalmInv'
  <1>1. posted \in Seq(Messages) /\ mac \in Macs /\ PostedInv /\ DeviceInv
        /\ Run_Info \in RunInfos
    BY DEF DialInv, TypeOK, DialerTypeOK, CalmInv
  <1>2. /\ Run_Info'.run_state = "DIAL"
        /\ mac' = [mac EXCEPT !.script = "DIAL"]
        /\ timers' = {} /\ Silent /\ UNCHANGED DialInfo
    BY <1>1 DEF OperateDial, CanExplain, ExplainFails, Calm, RunInfos
  <1>3. /\ mac'.open /\ mac'.network = "down" /\ mac'.script = "DIAL"
    BY <1>1, <1>2 DEF Macs
  <1>4. DeviceInv'
    BY <1>1, <1>2, <1>3 DEF DeviceInv, OnLine
  <1>5. \A m \in Members(Rest) : Fits(m)'
    BY DEF Fits, Core
  <1>6. Announced' BY <1>2 DEF Announced, OnLine
  <1>7. PostedInv' BY <1>1, <1>2, <1>5, <1>6, SilentPosted
  <1> QED BY <1>4, <1>7 DEF CalmInv

\* Negotiation begins.
LEMMA NegotiationCalm ==
  ASSUME DialInv, CalmInv, NEW run \in RunInfos,
         Run_Info.run_state \in {"DIAL", "LOGIN"},
         mac.script = "none", mac.line, timers = {},
         \A m \in Members(Rest) : m.to = "ctrl" => m.msg = "RUNCANCEL",
         StartNegotiation(run), UNCHANGED nCurrentState
  PROVE  CalmInv'
  <1>1. posted \in Seq(Messages) /\ mac \in Macs /\ PostedInv /\ DeviceInv
    BY DEF DialInv, TypeOK, DialerTypeOK, CalmInv
  <1>2. /\ Run_Info'.run_state = "PPP"
        /\ mac' = [mac EXCEPT !.network = "starting"]
        /\ timers' = IF DialInfo.AutoHangup THEN {"TEST"} ELSE {}
        /\ Silent /\ UNCHANGED DialInfo
    BY DEF StartNegotiation, RunInfos
  <1>3. /\ mac'.network = "starting" /\ mac'.open = mac.open
        /\ mac'.script = "none" /\ mac'.line
    BY <1>1, <1>2 DEF Macs
  <1>4. DeviceInv'
    BY <1>1, <1>2, <1>3 DEF DeviceInv, OnLine
  <1>5. ASSUME NEW m \in Members(Rest) PROVE Fits(m)'
    <2>1. Fits(m) BY <1>1, RestFacts
    <2>2. m.to = "ctrl" => FitsCtrl(m.msg)'
      <3>1. SUFFICES ASSUME m.to = "ctrl" PROVE FitsCtrl(m.msg)'
        OBVIOUS
      <3>2. m.msg = "RUNCANCEL" BY <3>1
      <3> QED BY <1>3, <2>1, <3>1, <3>2
          DEF Fits, FitsCtrl, ScriptResults, Closing, Stops, OnLine
    <2>3. m.to = "mgr" => FitsMgr(m.msg)'
      <3>1. SUFFICES ASSUME m.to = "mgr" PROVE FALSE
        OBVIOUS
      <3>2. m \in Messages BY <1>1, RestFacts
      <3> QED BY <2>1, <3>1, <3>2, Kinds DEF Fits, FitsMgr, Ends, Reports
    <2> QED BY <2>2, <2>3 DEF Fits
  <1>6. Announced' BY <1>2, <1>3 DEF Announced
  <1>7. PostedInv' BY <1>1, <1>2, <1>5, <1>6, SilentPosted
  <1> QED BY <1>4, <1>7 DEF CalmInv

\* Behind the result of a script, only a cancel can be on its way.
LEMMA AfterResult ==
  ASSUME DialInv, CalmInv, NEW result \in ScriptResults, Got("ctrl", result)
  PROVE  /\ Run_Info.run_state \in {"DIAL", "LOGIN", "HANGUP"}
         /\ mac.script = "none" /\ timers = {} /\ mac.open
         /\ result = "DP_SUCCESS" /\ Run_Info.run_state = "DIAL" => mac.line
         /\ \A m \in Members(Rest) : m.to = "ctrl" => m.msg = "RUNCANCEL"
  <1>1. posted \in Seq(Messages) /\ PostedInv /\ DeviceInv
    BY DEF DialInv, TypeOK, DialerTypeOK, CalmInv
  <1>2. posted # <<>> /\ Head(posted).to = "ctrl" /\ Head(posted).msg = result
    BY DEF Got, Message
  <1>3. FitsCtrl(result) BY <1>1, <1>2, RestFacts DEF Fits
  <1>4. /\ Run_Info.run_state \in {"DIAL", "LOGIN", "HANGUP"}
        /\ mac.script = "none" /\ "BUSY" \notin timers
        /\ result = "DP_SUCCESS" /\ Run_Info.run_state = "DIAL" => mac.line
    BY <1>3 DEF FitsCtrl
  <1>5. timers = {} /\ mac.open
    BY <1>1, <1>4 DEF DeviceInv
  <1>6. ASSUME NEW m \in Members(Rest), m.to = "ctrl" PROVE m.msg = "RUNCANCEL"
    <2>1. Fits(m) /\ m \in Messages /\ Follows(Head(posted), m)
      BY <1>1, <1>2, RestFacts
    <2>2. FitsCtrl(m.msg) BY <1>6, <2>1 DEF Fits
    <2>3. m.msg \in CtrlMessages BY <1>6, <2>1, Kinds
    <2>4. m.msg # "START" /\ m.msg \notin ScriptResults
      BY <1>2, <1>6, <2>1 DEF Follows, Core
    <2> QED BY <1>4, <2>2, <2>3, <2>4
        DEF FitsCtrl, CtrlMessages, OnLine, Closing
  <1> QED BY <1>4, <1>5, <1>6

-----------------------------------------------------------------------------
(* The messages of the dialer.                                             *)

LEMMA DialEndCalm ==
  ASSUME Calm, DialInv, CalmInv, NEW result \in ScriptResults,
         DialEnd(result), UNCHANGED nCurrentState
  PROVE  CalmInv'
  <1> DEFINE run == [Run_Info EXCEPT !.Mac_LineStatus = "CONNECTED"]
             login == [run EXCEPT !.stg_track = "INVALID"]
             busy == [run EXCEPT !.stg_track = "NOTPASS", !.rep_times = @ + 1]
             failed == [run EXCEPT !.stg_track = "NOTPASS"]
  <1>1. /\ posted \in Seq(Messages) /\ mac \in Macs /\ PostedInv /\ DeviceInv
        /\ Run_Info \in RunInfos /\ Run_Info.run_state = "DIAL"
        /\ Run_Info.rep_times \in 0..RepeatDialTimes
    BY RepeatAssumption
    DEF DialEnd, DialInv, TypeOK, DialerTypeOK, CalmInv, RunInfos, CountInv
  <1>2. /\ mac.script = "none" /\ timers = {} /\ mac.open
        /\ result = "DP_SUCCESS" => mac.line
        /\ \A m \in Members(Rest) : m.to = "ctrl" => m.msg = "RUNCANCEL"
    BY <1>1, AfterResult DEF DialEnd
  <1>3. run \in RunInfos /\ run.run_state = "DIAL"
        /\ run.rep_times = Run_Info.rep_times
    BY <1>1 DEF RunInfos
  <1>4. login \in RunInfos BY <1>3 DEF RunInfos
  <1>5. failed \in RunInfos BY <1>3 DEF RunInfos
  <1>6. /\ busy.rep_times = Run_Info.rep_times + 1
        /\ busy.run_state = "DIAL" /\ busy.stg_track = "NOTPASS"
        /\ busy.Mac_LineStatus = run.Mac_LineStatus
        /\ busy.ReNegFlag = run.ReNegFlag
    BY <1>3 DEF RunInfos
  <1>7. Run_Info.rep_times + 1 \in 0..RepeatDialTimes + 1
        /\ Run_Info.rep_times + 1 >= 1
    BY <1>1, RepeatAssumption
  <1>8. busy \in RunInfos BY <1>3, <1>6, <1>7 DEF RunInfos
  <1> HIDE DEF run, login, busy, failed
  <1>10. CASE Abandon /\ UNCHANGED <<DialInfo, timers, awake>>
    <2>1. Run_Info'.run_state = "INVALID" /\ mac' = ClosedMac /\ timers' = {}
          /\ REPORTBACK("NET_ABNORMAL") /\ DialInfo' = DialInfo
      BY <1>1, <1>2, <1>10 DEF Abandon, RunInfos
    <2> QED BY <1>1, <1>2, <2>1, ClosedCalm DEF Ends
  <1>11. CASE StartNegotiation(login) /\ result = "DP_SUCCESS"
    BY <1>1, <1>2, <1>4, <1>11, NegotiationCalm
  <1>12. CASE /\ Run_Info' = [login EXCEPT !.run_state = "LOGIN"]
              /\ mac' = [mac EXCEPT !.script = "LOGIN"]
              /\ Silent
              /\ result = "DP_SUCCESS"
              /\ UNCHANGED <<DialInfo, timers, awake>>
    <2>1. Run_Info'.run_state = "LOGIN" BY <1>4, <1>12 DEF RunInfos
    <2>2. /\ mac'.network = mac.network /\ mac'.open = mac.open
          /\ mac'.script = "LOGIN" /\ mac'.line = mac.line
      BY <1>1, <1>12 DEF Macs
    <2>3. DeviceInv'
      BY <1>1, <1>2, <1>12, <2>1, <2>2 DEF DeviceInv, OnLine
    <2>4. ASSUME NEW m \in Members(Rest) PROVE Fits(m)'
      <3>1. Fits(m) /\ m \in Messages BY <1>1, RestFacts
      <3>2. m.to = "ctrl" => FitsCtrl(m.msg)'
        <4>1. SUFFICES ASSUME m.to = "ctrl" PROVE FitsCtrl(m.msg)'
          OBVIOUS
        <4>2. m.msg = "RUNCANCEL" BY <1>2, <4>1
        <4> QED BY <2>1, <3>1, <4>1, <4>2
            DEF Fits, FitsCtrl, ScriptResults, Closing, Stops, OnLine
      <3>3. m.to # "mgr"
        BY <1>1, <3>1, Kinds DEF Fits, FitsMgr, Ends, Reports
      <3> QED BY <3>2, <3>3 DEF Fits
    <2>5. Announced' BY <2>1 DEF Announced, OnLine
    <2>6. PostedInv' BY <1>1, <1>12, <2>4, <2>5, SilentPosted
    <2> QED BY <2>3, <2>6 DEF CalmInv
  <1>13. CASE ExplainFails
    BY <1>2, <1>13 DEF ExplainFails, CanExplain, Calm
  <1>14. CASE /\ Run_Info' = busy
              /\ timers' = timers \cup {"BUSY"}
              /\ Silent
              /\ UNCHANGED <<DialInfo, awake, mac>>
    <2>1. Run_Info'.run_state = "DIAL" /\ Run_Info'.rep_times >= 1
          /\ timers' = {"BUSY"}
      BY <1>2, <1>6, <1>7, <1>14
    <2>2. DeviceInv'
      BY <1>1, <1>2, <1>14, <2>1 DEF DeviceInv, OnLine
    <2>3. ASSUME NEW m \in Members(Rest) PROVE Fits(m)'
      <3>1. Fits(m) /\ m \in Messages BY <1>1, RestFacts
      <3>2. m.to = "ctrl" => FitsCtrl(m.msg)'
        <4>1. SUFFICES ASSUME m.to = "ctrl" PROVE FitsCtrl(m.msg)'
          OBVIOUS
        <4>2. m.msg = "RUNCANCEL" BY <1>2, <4>1
        <4> QED BY <2>1, <3>1, <4>1, <4>2
            DEF Fits, FitsCtrl, ScriptResults, Closing, Stops, OnLine
      <3>3. m.to # "mgr"
        BY <1>1, <3>1, Kinds DEF Fits, FitsMgr, Ends, Reports
      <3> QED BY <3>2, <3>3 DEF Fits
    <2>4. Announced' BY <2>1 DEF Announced, OnLine
    <2>5. PostedInv' BY <1>1, <1>14, <2>3, <2>4, SilentPosted
    <2> QED BY <2>2, <2>5 DEF CalmInv
  <1>15. CASE OperateHangup(busy, timers)
    BY <1>1, <1>2, <1>8, <1>15, HangupCalm
  <1>16. CASE OperateHangup(failed, timers)
    BY <1>1, <1>2, <1>5, <1>16, HangupCalm
  <1> QED
    BY <1>10, <1>11, <1>12, <1>13, <1>14, <1>15, <1>16
    DEF DialEnd, run, login, busy, failed

LEMMA LoginEndCalm ==
  ASSUME Calm, DialInv, CalmInv, NEW result \in ScriptResults,
         LoginEnd(result), UNCHANGED nCurrentState
  PROVE  CalmInv'
  <1>1. /\ posted \in Seq(Messages) /\ mac \in Macs /\ PostedInv /\ DeviceInv
        /\ Run_Info \in RunInfos /\ Run_Info.run_state = "LOGIN"
    BY DEF LoginEnd, DialInv, TypeOK, DialerTypeOK, CalmInv
  <1>2. /\ mac.script = "none" /\ timers = {} /\ mac.open /\ mac.line
        /\ \A m \in Members(Rest) : m.to = "ctrl" => m.msg = "RUNCANCEL"
    BY <1>1, AfterResult DEF LoginEnd, DeviceInv
  <1>3. CASE Abandon /\ UNCHANGED <<DialInfo, timers, awake>>
    <2>1. Run_Info'.run_state = "INVALID" /\ mac' = ClosedMac /\ timers' = {}
          /\ REPORTBACK("NET_ABNORMAL") /\ DialInfo' = DialInfo
      BY <1>1, <1>2, <1>3 DEF Abandon, RunInfos
    <2> QED BY <1>1, <1>2, <2>1, ClosedCalm DEF Ends
  <1>4. CASE StartNegotiation(Run_Info)
    BY <1>1, <1>2, <1>4, NegotiationCalm
  <1>5. CASE OperateHangup(Run_Info, timers)
    BY <1>1, <1>2, <1>5, HangupCalm
  <1> QED BY <1>3, <1>4, <1>5 DEF LoginEnd

LEMMA ExplainEndCalm ==
  ASSUME Calm, DialInv, CalmInv, NEW result \in ScriptResults,
         ExplainEnd(result), UNCHANGED nCurrentState
  PROVE  CalmInv'
  <1>1. CASE DialEnd(result) BY <1>1, DialEndCalm
  <1>2. CASE LoginEnd(result) BY <1>2, LoginEndCalm
  <1>3. CASE /\ Run_Info.run_state = "HANGUP"
             /\ Got("ctrl", result)
             /\ HangupEnd(timers)
    <2>1. timers = {}
          /\ \A m \in Members(Rest) : m.to = "ctrl" => m.msg = "RUNCANCEL"
      BY <1>3, AfterResult
    <2>2. Run_Info \in RunInfos BY DEF DialInv, TypeOK, DialerTypeOK
    <2>3. Run_Info'.run_state = "INVALID" /\ mac' = ClosedMac /\ timers' = {}
          /\ REPORTBACK("NETBROKEN") /\ DialInfo' = DialInfo
      BY <1>3, <2>1, <2>2 DEF HangupEnd, RunInfos
    <2> QED BY <1>3, <2>1, <2>3, ClosedCalm DEF Ends
  <1>4. CASE /\ Run_Info.run_state \notin {"DIAL", "LOGIN", "HANGUP"}
             /\ Got("ctrl", result)
    BY <1>4, AfterResult
  <1> QED BY <1>1, <1>2, <1>3, <1>4 DEF ExplainEnd

\* A message that changes nothing the invariant speaks of, but may kill a timer.
LEMMA QuietCalm ==
  ASSUME DialInv, CalmInv, posted # <<>>, Silent,
         Head(posted) # Message("ctrl", "START"),
         \A msg \in Closing : Head(posted) # Message("ctrl", msg),
         Run_Info'.run_state = Run_Info.run_state,
         Run_Info'.rep_times = Run_Info.rep_times,
         timers' \subseteq timers,
         UNCHANGED <<DialInfo, mac, nCurrentState>>
  PROVE  CalmInv'
  <1>1. posted \in Seq(Messages) /\ PostedInv /\ DeviceInv
    BY DEF DialInv, TypeOK, DialerTypeOK, CalmInv
  <1>2. DeviceInv' BY <1>1 DEF DeviceInv, OnLine
  <1>3. ASSUME NEW m \in Members(Rest) PROVE Fits(m)'
    <2>1. Fits(m) BY <1>1, RestFacts
    <2> QED BY <2>1 DEF Fits, FitsCtrl, FitsMgr
  <1>4. Members(posted) = Members(Rest) \cup {Head(posted)} /\ posted' = Rest
    BY <1>1, RestFacts DEF Silent
  <1>5. Announced
    BY <1>1 DEF PostedInv
  <1>6. Announced' BY <1>4, <1>5 DEF Announced
  <1>7. PostedInv' BY <1>1, <1>3, <1>6, SilentPosted
  <1> QED BY <1>2, <1>7 DEF CalmInv

\* Behind a request to stop there is no other, and PPP has not failed.
LEMMA AfterStop ==
  ASSUME DialInv, CalmInv, NEW stop \in Stops, Got("ctrl", stop)
  PROVE  /\ nCurrentState = "HANGUPING"
         /\ Run_Info.run_state \in OnLine => mac.network \in {"starting", "up"}
         /\ stop = "HANGUP" => Run_Info.run_state = "NET"
         /\ \A m \in Members(Rest) : m.to = "ctrl" =>
              m.msg \notin Stops \cup {"START", "LINE_UP", "LINE_DOWN"}
  <1>1. posted \in Seq(Messages) /\ PostedInv
    BY DEF DialInv, TypeOK, DialerTypeOK, CalmInv
  <1>2. posted # <<>> /\ Head(posted).to = "ctrl" /\ Head(posted).msg = stop
    BY DEF Got, Message
  <1>3. FitsCtrl(stop) BY <1>1, <1>2, RestFacts DEF Fits
  <1>4. ASSUME NEW m \in Members(Rest), m.to = "ctrl"
        PROVE  m.msg \notin Stops \cup {"START", "LINE_UP", "LINE_DOWN"}
    <2>1. Fits(m) /\ Follows(Head(posted), m) BY <1>1, <1>2, RestFacts
    <2> QED BY <1>2, <1>4, <2>1 DEF Follows, Core, Fits, FitsCtrl
  <1> QED BY <1>3, <1>4 DEF FitsCtrl

LEMMA HangUpCalm ==
  ASSUME DialInv, CalmInv, HangUp, UNCHANGED nCurrentState
  PROVE  CalmInv'
  <1>1. Got("ctrl", "HANGUP") /\ StopNetwork(timers) BY DEF HangUp
  <1>2. /\ nCurrentState = "HANGUPING" /\ Run_Info.run_state = "NET"
        /\ mac.network \in {"starting", "up"}
        /\ \A m \in Members(Rest) : m.to = "ctrl" => m.msg \notin Stops
    BY <1>1, AfterStop DEF Stops, OnLine
  <1>3. \A m \in Members(Rest) : m.to = "ctrl" => m.msg # "PPP_FAILURE"
    <2>1. \A m \in Members(Rest) : Fits(m)
      BY RestFacts DEF DialInv, TypeOK, DialerTypeOK, CalmInv
    <2> QED BY <1>2, <2>1 DEF Fits, FitsCtrl, Closing
  <1> QED BY <1>1, <1>2, <1>3, StopCalm DEF OnLine

LEMMA RunCancelCalm ==
  ASSUME DialInv, CalmInv, RunCancel, UNCHANGED nCurrentState
  PROVE  CalmInv'
  <1>1. /\ posted \in Seq(Messages) /\ mac \in Macs /\ PostedInv /\ DeviceInv
        /\ Run_Info \in RunInfos
    BY DEF DialInv, TypeOK, DialerTypeOK, CalmInv
  <1>2. Got("ctrl", "RUNCANCEL") /\ posted # <<>>
        /\ Head(posted) = Message("ctrl", "RUNCANCEL")
    BY DEF RunCancel, Got
  <1>3. /\ Head(posted) # Message("ctrl", "START")
        /\ \A msg \in Closing : Head(posted) # Message("ctrl", msg)
    BY <1>2 DEF Message, Closing
  <1>4. /\ nCurrentState = "HANGUPING"
        /\ Run_Info.run_state \in OnLine => mac.network \in {"starting", "up"}
        /\ \A m \in Members(Rest) : m.to = "ctrl" =>
             m.msg \notin Stops \cup {"START", "LINE_UP", "LINE_DOWN"}
    BY <1>2, AfterStop DEF Stops
  <1>5. ASSUME Run_Info.run_state \in {"DIAL", "LOGIN"},
               NEW ts \in SUBSET timers, OperateStop(ts)
        PROVE  CalmInv'
    <2>1. CASE mac.script = "none"
      BY <1>2, <1>3, <1>5, <2>1, QuietCalm DEF OperateStop
    <2>2. CASE mac.script # "none"
      <3>1. timers' = {} /\ Silent /\ DialInfo' = DialInfo
            /\ Run_Info'.run_state = "HANGUP"
        BY <1>1, <1>5, <2>2 DEF OperateStop, DeviceInv, RunInfos
      <3>2. mac'.network = mac.network /\ mac'.open = mac.open
            /\ mac'.script = "STOP"
        BY <1>1, <1>5, <2>2 DEF OperateStop, Macs
      <3>3. DeviceInv'
        BY <1>1, <1>4, <1>5, <3>1, <3>2 DEF DeviceInv, OnLine
      <3>4. ASSUME NEW m \in Members(Rest) PROVE Fits(m)'
        <4>1. Fits(m) /\ m \in Messages BY <1>1, RestFacts
        <4>2. m.to # "ctrl"
          <5>1. SUFFICES ASSUME m.to = "ctrl" PROVE FALSE
            OBVIOUS
          <5>2. FitsCtrl(m.msg) /\ m.msg \in CtrlMessages
            BY <4>1, <5>1, Kinds DEF Fits
          <5>3. m.msg \notin ScriptResults BY <2>2, <5>2 DEF FitsCtrl
          <5>4. m.msg \notin {"PPP_SUCCESS", "PPP_RE_NEGO"} \cup Closing
            BY <1>5, <5>2 DEF FitsCtrl, OnLine
          <5> QED BY <1>4, <5>1, <5>2, <5>3, <5>4
              DEF CtrlMessages, Stops, Closing
        <4>3. m.to # "mgr"
          BY <1>5, <4>1, Kinds DEF Fits, FitsMgr, Ends, Reports
        <4> QED BY <4>2, <4>3 DEF Fits
      <3>5. Announced' BY <3>1 DEF Announced, OnLine
      <3>6. PostedInv' BY <1>1, <3>1, <3>4, <3>5, SilentPosted
      <3> QED BY <3>3, <3>6 DEF CalmInv
    <2> QED BY <2>1, <2>2
  <1>6. CASE Run_Info.run_state = "PPP" /\ StopNetwork(timers)
    <2>1. mac.network \in {"starting", "up"} BY <1>4, <1>6 DEF OnLine
    <2>2. \A m \in Members(Rest) : m.to = "ctrl" => m.msg # "PPP_FAILURE"
      <3>1. \A m \in Members(Rest) : Fits(m) BY <1>1, RestFacts
      <3> QED BY <2>1, <3>1 DEF Fits, FitsCtrl, Closing
    <2> QED BY <1>4, <1>6, <2>1, <2>2, StopCalm DEF OnLine
  <1>7. CASE Silent /\ UNCHANGED <<Run_Info, DialInfo, timers, awake, mac>>
    BY <1>2, <1>3, <1>7, QuietCalm
  <1> QED BY <1>5, <1>6, <1>7 DEF RunCancel

LEMMA NegotiateEndCalm ==
  ASSUME Calm, DialInv, CalmInv, NegotiateEnd, UNCHANGED nCurrentState
  PROVE  CalmInv'
  <1>1. /\ posted \in Seq(Messages) /\ mac \in Macs /\ PostedInv /\ DeviceInv
        /\ Run_Info \in RunInfos
    BY DEF DialInv, TypeOK, DialerTypeOK, CalmInv
  <1>2. posted # <<>> /\ Head(posted).to = "ctrl"
        /\ Head(posted).msg \in {"PPP_CLOSED", "PPP_RE_NEGO", "PPP_SUCCESS",
                                 "PPP_FAILURE"}
    BY DEF NegotiateEnd, Got, Message
  <1>3. FitsCtrl(Head(posted).msg)
        /\ \A m \in Members(Rest) : Follows(Head(posted), m) /\ Fits(m)
    BY <1>1, <1>2, RestFacts DEF Fits
  <1>4. /\ Run_Info.run_state \in OnLine /\ mac.script = "none"
        /\ timers \subseteq {"TEST", "STOP"}
        /\ "TEST" \in timers => DialInfo.AutoHangup
    BY <1>1, <1>2, <1>3 DEF FitsCtrl, Closing, DeviceInv
  <1>5. ASSUME Head(posted).msg \in Closing
        PROVE  \A m \in Members(Rest) : m.to = "ctrl" => m.msg = "RUNCANCEL"
    BY <1>2, <1>3, <1>5 DEF Follows
  <1>6. CASE /\ Got("ctrl", "PPP_CLOSED")
             /\ OperateHangup(Run_Info, timers \ {"STOP"})
    <2>1. Head(posted).msg \in Closing BY <1>6 DEF Got, Message, Closing
    <2>2. /\ timers \ {"STOP"} \subseteq {"TEST"}
          /\ "TEST" \in timers \ {"STOP"} => DialInfo.AutoHangup
          /\ Run_Info.run_state \in {"DIAL", "LOGIN", "PPP", "NET"}
      BY <1>4 DEF OnLine
    <2>3. \A m \in Members(Rest) : m.to = "ctrl" => m.msg = "RUNCANCEL"
      BY <1>5, <2>1
    <2>4. Run_Info \in RunInfos /\ mac.script = "none"
          /\ OperateHangup(Run_Info, timers \ {"STOP"})
      BY <1>1, <1>4, <1>6
    <2> QED BY <2>2, <2>3, <2>4, HangupCalm
  <1>7. CASE /\ Got("ctrl", "PPP_FAILURE")
             /\ OperateHangup([Run_Info EXCEPT !.ReNegFlag = FALSE], timers)
    <2>1. Head(posted).msg = "PPP_FAILURE" /\ Head(posted).msg \in Closing
      BY <1>7 DEF Got, Message, Closing
    <2>2. "STOP" \notin timers BY <1>3, <2>1 DEF FitsCtrl
    <2>3. /\ timers \subseteq {"TEST"}
          /\ "TEST" \in timers => DialInfo.AutoHangup
          /\ Run_Info.run_state \in {"DIAL", "LOGIN", "PPP", "NET"}
      BY <1>4, <2>2 DEF OnLine
    <2>4. [Run_Info EXCEPT !.ReNegFlag = FALSE] \in RunInfos
      BY <1>1 DEF RunInfos
    <2> QED BY <1>4, <1>5, <1>7, <2>1, <2>3, <2>4, HangupCalm
  <1>8. ASSUME Head(posted).msg \in {"PPP_RE_NEGO", "PPP_SUCCESS"}
        PROVE  /\ Head(posted) # Message("ctrl", "START")
               /\ \A msg \in Closing : Head(posted) # Message("ctrl", msg)
    BY <1>8 DEF Message, Closing
  <1>9. CASE /\ Got("ctrl", "PPP_RE_NEGO")
             /\ Run_Info' = [Run_Info EXCEPT !.ReNegFlag = TRUE]
             /\ Silent
             /\ UNCHANGED <<DialInfo, timers, awake, mac>>
    <2>1. Head(posted).msg = "PPP_RE_NEGO" BY <1>9 DEF Got, Message
    <2>2. Run_Info'.run_state = Run_Info.run_state
          /\ Run_Info'.rep_times = Run_Info.rep_times
      BY <1>1, <1>9 DEF RunInfos
    <2> QED BY <1>2, <1>8, <1>9, <2>1, <2>2, QuietCalm
  <1>10. CASE /\ Got("ctrl", "PPP_SUCCESS")
              /\ Run_Info' = [Run_Info EXCEPT !.ReNegFlag = FALSE]
              /\ Silent
              /\ UNCHANGED <<DialInfo, timers, awake, mac>>
    <2>1. Head(posted).msg = "PPP_SUCCESS" BY <1>10 DEF Got, Message
    <2>2. Run_Info'.run_state = Run_Info.run_state
          /\ Run_Info'.rep_times = Run_Info.rep_times
      BY <1>1, <1>10 DEF RunInfos
    <2> QED BY <1>2, <1>8, <1>10, <2>1, <2>2, QuietCalm
  <1>11. CASE /\ Got("ctrl", "PPP_SUCCESS")
              /\ Run_Info' = [Run_Info EXCEPT !.run_state = "NET"]
              /\ REPORTBACK("NETCONNECT")
              /\ UNCHANGED <<DialInfo, timers, awake, mac>>
    <2>1. Head(posted).msg = "PPP_SUCCESS" BY <1>11 DEF Got, Message
    <2>2. /\ Run_Info'.run_state = "NET" /\ REPORTBACK("NETCONNECT")
          /\ mac' = mac /\ timers' = timers /\ DialInfo' = DialInfo
          /\ nCurrentState' = nCurrentState
      BY <1>1, <1>11 DEF RunInfos
    <2>3. DeviceInv' BY <1>1, <1>4, <2>2 DEF DeviceInv, OnLine
    <2>4. nCurrentState' # "IDLE" BY <1>1, <1>4, <2>2 DEF DeviceInv, OnLine
    <2>5. ASSUME NEW m \in Members(Rest) PROVE Fits(m)'
      <3>1. Fits(m) /\ Follows(Head(posted), m) BY <1>3
      <3>2. m.to = "ctrl" => FitsCtrl(m.msg)'
        BY <1>2, <1>4, <2>2, <3>1
        DEF Fits, FitsCtrl, Follows, Core, OnLine
      <3>3. m.to = "mgr" => FitsMgr(m.msg)'
        BY <1>4, <2>2, <3>1 DEF Fits, FitsMgr, OnLine
      <3> QED BY <3>2, <3>3 DEF Fits
    <2>6. Fits(Message("mgr", "NETCONNECT"))'
      BY <2>2, <2>4 DEF Fits, FitsMgr, Message, Ends
    <2>7. /\ Announced' => PostedInv'
          /\ Members(posted') = Members(Rest) \cup {Message("mgr", "NETCONNECT")}
      BY <1>1, <1>4, <2>2, <2>5, <2>6, ReportPosted DEF Reports, OnLine
    <2>8. Announced'
      <3>1. Members(posted) = Members(Rest) \cup {Head(posted)} /\ Announced
        BY <1>1, <1>2, RestFacts DEF PostedInv
      <3> QED BY <1>4, <1>8, <2>1, <2>2, <2>7, <3>1 DEF Announced
    <2> QED BY <2>3, <2>7, <2>8 DEF CalmInv
  <1> QED BY <1>6, <1>7, <1>9, <1>10, <1>11 DEF NegotiateEnd

LEMMA TimerCalm ==
  ASSUME Calm, DialInv, CalmInv, TestTimer \/ BusyTimer \/ StopTimer,
         UNCHANGED nCurrentState
  PROVE  CalmInv'
  <1>1. /\ posted \in Seq(Messages) /\ mac \in Macs /\ PostedInv /\ DeviceInv
        /\ Run_Info \in RunInfos
        /\ Run_Info.run_state \in
             {"INVALID", "DIAL", "LOGIN", "PPP", "NET", "HANGUP"}
    BY DEF DialInv, TypeOK, DialerTypeOK, CalmInv, RunInfos
  <1>2. posted = <<>> BY DEF TestTimer, BusyTimer, StopTimer, Fires
  <1>3. Members(Rest) = {} /\ Members(posted) = {}
    BY <1>1, <1>2, RestFacts
  <1>4. "TEST" \in timers \/ "STOP" \in timers =>
          /\ Run_Info.run_state \in OnLine /\ mac.script = "none"
          /\ timers \subseteq {"TEST", "STOP"}
          /\ "TEST" \in timers => DialInfo.AutoHangup
          /\ mac.network # "down"
    BY <1>1, <1>3 DEF DeviceInv, OnLine, PostedInv, Announced
  <1>5. CASE TestTimer
    <2>1. "TEST" \in timers /\ DialInfo.AutoHangup
          /\ StopNetwork(timers \ {"TEST"})
      BY <1>4, <1>5 DEF TestTimer, Fires
    <2>2. HangsUp = {} BY <1>1, <2>1 DEF DeviceInv
    <2> QED BY <1>3, <1>4, <2>1, <2>2, StopCalm
  <1>6. CASE BusyTimer
    <2>1. "BUSY" \in timers /\ OperateDial(timers \ {"BUSY"})
      BY <1>6 DEF BusyTimer, Fires
    <2>2. /\ Run_Info.run_state = "DIAL" /\ timers \ {"BUSY"} = {}
          /\ mac.open /\ mac.script = "none" /\ mac.network = "down"
          /\ nCurrentState \in {"DIALING", "HANGUPING"}
      BY <1>1, <2>1 DEF DeviceInv, OnLine
    <2> QED BY <1>3, <2>1, <2>2, DialCalm
  <1>7. CASE StopTimer
    <2>1. "STOP" \in timers /\ OperateHangup(Run_Info, timers \ {"STOP"})
      BY <1>7 DEF StopTimer, Fires
    <2> QED BY <1>1, <1>3, <1>4, <2>1, HangupCalm DEF OnLine
  <1> QED BY <1>5, <1>6, <1>7

LEMMA DialerCalm ==
  ASSUME Calm, DialInv, CalmInv, Dialer
  PROVE  CalmInv'
  <1>1. UNCHANGED nCurrentState BY DEF Dialer, mgrVars
  <1>2. /\ posted \in Seq(Messages) /\ PostedInv /\ DeviceInv
    BY DEF DialInv, TypeOK, DialerTypeOK, CalmInv
  <1>3. CASE Start
    <2>1. posted # <<>> /\ Head(posted).to = "ctrl"
          /\ Head(posted).msg = "START" /\ OperateDial(timers)
      BY <1>3 DEF Start, Got, Message
    <2>2. /\ FitsCtrl("START")
          /\ \A m \in Members(Rest) : Follows(Head(posted), m)
      BY <1>2, <2>1, RestFacts DEF Fits
    <2>3. /\ mac.open /\ mac.script = "none" /\ mac.network = "down"
          /\ timers = {} /\ nCurrentState \in {"DIALING", "HANGUPING"}
      BY <1>2, <2>2 DEF FitsCtrl, DeviceInv
    <2>4. \A m \in Members(Rest) : ~Core(m)
      BY <2>1, <2>2 DEF Follows, Core
    <2> QED BY <1>1, <2>1, <2>3, <2>4, DialCalm
  <1>4. CASE HangUp BY <1>1, <1>4, HangUpCalm
  <1>5. CASE RunCancel BY <1>1, <1>5, RunCancelCalm
  <1>6. CASE \E result \in ScriptResults : ExplainEnd(result)
    BY <1>1, <1>6, ExplainEndCalm
  <1>7. CASE NegotiateEnd BY <1>1, <1>7, NegotiateEndCalm
  <1>8. CASE MacLineStatus
    <2>1. posted # <<>> /\ Head(posted).to = "ctrl"
          /\ Head(posted).msg \in {"LINE_UP", "LINE_DOWN"}
      BY <1>8 DEF MacLineStatus, Got, Message
    <2> QED BY <1>2, <2>1, RestFacts DEF Fits, FitsCtrl
  <1>9. CASE TestTimer \/ BusyTimer \/ StopTimer BY <1>1, <1>9, TimerCalm
  <1> QED BY <1>3, <1>4, <1>5, <1>6, <1>7, <1>8, <1>9 DEF Dialer, dial_Ctl_Proc

-----------------------------------------------------------------------------
(* The MAC layer.                                                          *)

\* A message is posted to the end of the queue.
LEMMA AppendPosted ==
  ASSUME NEW q \in Seq(Messages), Ordered(q), NEW m \in Messages,
         posted' = Append(q, m),
         \A n \in Members(q) : Fits(n)' /\ Follows(n, m), Fits(m)'
  PROVE  /\ Members(posted') = Members(q) \cup {m}
         /\ Announced' => PostedInv'
  <1>1. Members(posted') = Members(q) \cup {m} BY MembersAppend
  <1>2. Ordered(Append(q, m)) BY OrderedAppend
  <1>3. Ordered(posted)' BY <1>2 DEF Ordered
  <1>4. (\A n \in Members(posted) : Fits(n))' BY <1>1
  <1> QED BY <1>1, <1>3, <1>4 DEF PostedInv

LEMMA ScriptEndsCalm ==
  ASSUME DialInv, CalmInv, MacScriptEnds, UNCHANGED nCurrentState
  PROVE  CalmInv'
  <1>1. /\ posted \in Seq(Messages) /\ mac \in Macs /\ PostedInv /\ DeviceInv
        /\ Run_Info.run_state \in
             {"INVALID", "DIAL", "LOGIN", "PPP", "NET", "HANGUP"}
    BY DEF DialInv, TypeOK, DialerTypeOK, CalmInv, RunInfos
  <1>2. PICK result \in ResultsOf(mac.script) :
          /\ MacPosts(result)
          /\ mac' = [mac EXCEPT !.script = "none", !.line =
                       IF mac.script = "DIAL" THEN result = "DP_SUCCESS"
                       ELSE @ /\ mac.script = "LOGIN"]
    BY DEF MacScriptEnds
  <1>3. mac.script # "none" BY DEF MacScriptEnds
  <1>4. result \in ScriptResults
    BY DEF ResultsOf, ScriptResults
  <1>5. /\ Run_Info' = Run_Info /\ DialInfo' = DialInfo /\ timers' = timers
        /\ nCurrentState' = nCurrentState
        /\ posted' = Append(posted, Message("ctrl", result))
    BY <1>2 DEF MacPosts
  <1>6. /\ mac'.script = "none" /\ mac'.open = mac.open
        /\ mac'.network = mac.network
        /\ mac.script = "DIAL" => mac'.line = (result = "DP_SUCCESS")
        /\ mac.script = "LOGIN" => mac'.line = mac.line
    BY <1>1, <1>2 DEF Macs
  <1>7. /\ Run_Info.run_state \in {"DIAL", "LOGIN", "HANGUP"}
        /\ Run_Info.run_state = "DIAL" => mac.script = "DIAL"
        /\ Run_Info.run_state = "LOGIN" => mac.script = "LOGIN"
        /\ timers = {}
    BY <1>1, <1>3 DEF DeviceInv, OnLine
  <1>8. DeviceInv' BY <1>1, <1>5, <1>6, <1>7 DEF DeviceInv, OnLine
  <1> DEFINE m == Message("ctrl", result)
  <1>9. m \in Messages /\ m.to = "ctrl" /\ m.msg = result
    BY <1>4, MessageTypes DEF CtrlMessages, Message
  <1>10. Fits(m)'
    <2>1. FitsCtrl(result)'
      BY <1>4, <1>5, <1>6, <1>7
      DEF FitsCtrl, ScriptResults, Closing, Stops, OnLine
    <2> QED BY <2>1 DEF Fits, Message
  <1> HIDE DEF m
  <1>11. ASSUME NEW n \in Members(posted) PROVE Fits(n)' /\ Follows(n, m)
    <2>1. Fits(n) /\ n \in Messages BY <1>1, MembersTyped DEF PostedInv
    <2>2. n.to = "ctrl" =>
            n.msg \notin {"START"} \cup ScriptResults \cup Closing
      BY <1>3, <1>7, <2>1 DEF Fits, FitsCtrl, OnLine
    <2>3. n.to = "mgr" => n.msg # "START" /\ n.msg \notin Ends
      BY <1>7, <2>1, Kinds DEF Fits, FitsMgr, Reports
    <2>4. Follows(n, m)
      BY <1>4, <1>9, <2>2, <2>3 DEF Follows, Core, ScriptResults, Stops
    <2>5. n.to = "ctrl" => FitsCtrl(n.msg)'
      BY <1>5, <1>6, <1>7, <2>1, <2>2 DEF Fits, FitsCtrl, OnLine, Closing
    <2>6. n.to = "mgr" => FitsMgr(n.msg)'
      BY <1>5, <1>6, <1>7, <2>1 DEF Fits, FitsMgr
    <2> QED BY <2>4, <2>5, <2>6 DEF Fits
  <1>12. Announced' BY <1>5, <1>7 DEF Announced, OnLine
  <1>13. Ordered(posted) BY <1>1 DEF PostedInv
  <1>14. posted' = Append(posted, m) BY <1>5 DEF m
  <1>15. PostedInv'
    BY <1>1, <1>9, <1>10, <1>11, <1>12, <1>13, <1>14, AppendPosted
  <1> QED BY <1>8, <1>15 DEF CalmInv

\* PPP comes up, begins again, fails or is closed.
LEMMA NetworkCalm ==
  ASSUME DialInv, CalmInv, mac.network # "down", UNCHANGED nCurrentState,
         NEW network \in {"down", "starting", "up"},
         NEW msg \in {"PPP_SUCCESS", "PPP_RE_NEGO"} \cup Closing,
         network = "down" <=> msg \in Closing,
         msg = "PPP_FAILURE" => mac.network = "starting",
         network = "down" => mac.network = "stopping" \/ HangsUp = {},
         network # "down" => mac.network \in {"starting", "up"},
         mac' = [mac EXCEPT !.network = network], MacPosts(msg)
  PROVE  CalmInv'
  <1>1. /\ posted \in Seq(Messages) /\ mac \in Macs /\ PostedInv /\ DeviceInv
        /\ Run_Info.run_state \in
             {"INVALID", "DIAL", "LOGIN", "PPP", "NET", "HANGUP"}
    BY DEF DialInv, TypeOK, DialerTypeOK, CalmInv, RunInfos
  <1>2. /\ Run_Info' = Run_Info /\ DialInfo' = DialInfo /\ timers' = timers
        /\ nCurrentState' = nCurrentState
        /\ posted' = Append(posted, Message("ctrl", msg))
    BY DEF MacPosts
  <1>3. /\ mac'.script = mac.script /\ mac'.open = mac.open
        /\ mac'.network = network /\ mac'.line = mac.line
    BY <1>1 DEF Macs
  <1>4. Run_Info.run_state \in OnLine
    BY <1>1 DEF DeviceInv, OnLine
  <1>5. /\ mac.network \in {"starting", "up"} => "STOP" \notin timers
        /\ mac.network = "stopping" /\ HangsUp # {} =>
             nCurrentState = "HANGUPING"
    BY <1>1, <1>4 DEF DeviceInv
  <1>6. DeviceInv'
    BY <1>1, <1>2, <1>3, <1>4, <1>5 DEF DeviceInv, OnLine
  <1> DEFINE m == Message("ctrl", msg)
  <1>7. m \in Messages /\ m.to = "ctrl" /\ m.msg = msg
    BY MessageTypes DEF CtrlMessages, Message, Closing
  <1>8. /\ msg \notin ScriptResults \cup Stops
        /\ msg \notin {"START", "LINE_UP", "LINE_DOWN"}
    BY DEF Closing, ScriptResults, Stops
  <1>9. Fits(m)'
    <2>1. FitsCtrl(msg)'
      BY <1>2, <1>3, <1>4, <1>5, <1>8 DEF FitsCtrl, Stops
    <2> QED BY <2>1 DEF Fits, Message
  <1> HIDE DEF m
  <1>10. ASSUME NEW n \in Members(posted) PROVE Fits(n)' /\ Follows(n, m)
    <2>1. Fits(n) /\ n \in Messages BY <1>1, MembersTyped DEF PostedInv
    <2>2. n.to = "ctrl" =>
            n.msg \notin {"START"} \cup ScriptResults \cup Closing
      BY <1>4, <2>1 DEF Fits, FitsCtrl, OnLine
    <2>3. n.to = "mgr" => n.msg # "START" /\ n.msg \notin Ends
      BY <1>4, <2>1, Kinds DEF Fits, FitsMgr, Reports, OnLine
    <2>4. Follows(n, m)
      BY <1>7, <1>8, <2>2, <2>3 DEF Follows, Core
    <2>5. ASSUME n.to = "ctrl" PROVE FitsCtrl(n.msg)'
      <3>1. FitsCtrl(n.msg) BY <2>1, <2>5 DEF Fits
      <3>2. n.msg \in Stops => network # "down"
        BY <1>4, <3>1 DEF FitsCtrl
      <3> QED BY <1>2, <1>3, <1>4, <2>2, <2>5, <3>1, <3>2
          DEF FitsCtrl, Closing
    <2>6. n.to = "mgr" => FitsMgr(n.msg)'
      BY <1>2, <1>3, <2>1 DEF Fits, FitsMgr
    <2> QED BY <2>4, <2>5, <2>6 DEF Fits
  <1>11. Ordered(posted) BY <1>1 DEF PostedInv
  <1>12. posted' = Append(posted, m) BY <1>2 DEF m
  <1>13. /\ Members(posted') = Members(posted) \cup {m}
         /\ Announced' => PostedInv'
    BY <1>1, <1>7, <1>9, <1>10, <1>11, <1>12, AppendPosted
  <1>14. network = "down" => Message("ctrl", msg) \in Members(posted')
    BY <1>13 DEF m
  <1>15. Announced'
    BY <1>2, <1>3, <1>4, <1>14 DEF Announced, OnLine
  <1> QED BY <1>6, <1>13, <1>15 DEF CalmInv

LEMMA MacCalm ==
  ASSUME Calm, DialInv, CalmInv, MacLayer
  PROVE  CalmInv'
  <1>1. UNCHANGED nCurrentState BY DEF MacLayer, mgrVars
  <1>2. DeviceInv /\ Run_Info.run_state \in
          {"INVALID", "DIAL", "LOGIN", "PPP", "NET", "HANGUP"}
    BY DEF DialInv, TypeOK, DialerTypeOK, CalmInv, RunInfos
  <1>3. mac.network # "down" => mac.line
    BY <1>2 DEF DeviceInv, OnLine
  <1>4. CASE MacScriptEnds BY <1>1, <1>4, ScriptEndsCalm
  <1>5. CASE MacNegotiates
    BY <1>1, <1>3, <1>5, NetworkCalm DEF MacNegotiates, Closing, Calm
  <1>6. CASE MacNetworkCloses
    BY <1>1, <1>6, NetworkCalm DEF MacNetworkCloses, Closing, Calm
  <1>7. ~MacLine BY DEF MacLine, Calm
  <1> QED BY <1>4, <1>5, <1>6, <1>7 DEF MacLayer, Mac

-----------------------------------------------------------------------------
(* The manager and the clients.                                            *)

\* Reports to clients can be taken from the queue and posted to it.
Keeps(q) ==
  /\ q \in Seq(Messages) /\ Ordered(q)
  /\ \A m \in Members(q) : Fits(m)
  /\ \A m \in Members(posted) : Core(m) => m \in Members(q)

LEMMA KeepsPosted ==
  ASSUME DialInv, CalmInv
  PROVE  Keeps(posted)
  BY DEF DialInv, TypeOK, DialerTypeOK, CalmInv, PostedInv, Keeps

LEMMA KeepsRest ==
  ASSUME DialInv, CalmInv, NEW c \in Clients, NEW msg, Got(c, msg)
  PROVE  Keeps(Rest)
  <1>1. posted \in Seq(Messages) /\ PostedInv
    BY DEF DialInv, TypeOK, DialerTypeOK, CalmInv
  <1>2. posted # <<>> /\ ~Core(Head(posted))
    BY NamesAssumption DEF Got, Message, Core
  <1> QED BY <1>1, <1>2, RestFacts DEF Keeps

LEMMA KeepsAppend ==
  ASSUME NEW q, Keeps(q), NEW c \in Clients, NEW msg \in Reports
  PROVE  Keeps(Append(q, Message(c, msg)))
  <1> DEFINE m == Message(c, msg)
  <1>1. m \in Messages /\ ~Core(m)
    BY NamesAssumption, MessageTypes DEF Message, Core
  <1> HIDE DEF m
  <1>2. q \in Seq(Messages) /\ Ordered(q) BY DEF Keeps
  <1>3. \A n \in Members(q) : Follows(n, m)
    BY <1>1 DEF Follows, Core
  <1>4. Ordered(Append(q, m)) BY <1>1, <1>2, <1>3, OrderedAppend
  <1>5. Members(Append(q, m)) = Members(q) \cup {m}
    BY <1>1, <1>2, MembersAppend
  <1>6. Append(q, m) \in Seq(Messages) BY <1>1, <1>2, AppendProperties
  <1>7. Fits(m) BY <1>1 DEF Fits, Core
  <1>8. Keeps(Append(q, m)) BY <1>4, <1>5, <1>6, <1>7 DEF Keeps
  <1> QED BY <1>8 DEF m

LEMMA ReportsCalm ==
  ASSUME CalmInv, NEW q, Keeps(q), posted' = q,
         UNCHANGED <<Run_Info, DialInfo, timers, mac, nCurrentState>>
  PROVE  CalmInv'
  <1>1. DeviceInv /\ Announced BY DEF CalmInv, PostedInv
  <1>2. DeviceInv' BY <1>1 DEF DeviceInv
  <1>3. \A m : Fits(m)' <=> Fits(m)
    BY DEF Fits, FitsCtrl, FitsMgr
  <1>4. (\A m \in Members(posted) : Fits(m))' BY <1>3 DEF Keeps
  <1>5. Ordered(posted)' BY DEF Keeps, Ordered
  <1>6. \A msg : Core(Message("ctrl", msg)) BY DEF Core, Message
  <1>7. \A msg : Message("ctrl", msg) \in Members(posted) =>
                 Message("ctrl", msg) \in Members(posted')
    BY <1>6 DEF Keeps
  <1>8. Announced' BY <1>1, <1>7 DEF Announced
  <1> QED BY <1>2, <1>4, <1>5, <1>8 DEF CalmInv, PostedInv

\* A dial can begin when nothing of an earlier one is on its way.
LEMMA SelConnectCalm ==
  ASSUME Calm, DialInv, CalmInv, NEW q \in Seq(Messages), Ordered(q),
         \A m \in Members(q) : ~Core(m), NEW src,
         DIALER_SelConnect(src, q), nCurrentState' = "DIALING"
  PROVE  CalmInv'
  <1>1. /\ mac \in Macs /\ DeviceInv BY DEF DialInv, TypeOK, DialerTypeOK, CalmInv
  <1>2. /\ Run_Info.run_state = "INVALID" /\ Run_Info' = Run_Info
        /\ timers' = timers /\ mac' = [mac EXCEPT !.open = TRUE]
        /\ DialInfo' = GetEnvelope(src)
        /\ posted' = Append(q, Message("ctrl", "START"))
    BY DEF DIALER_SelConnect, Accepts
  <1>3. /\ mac'.open /\ mac'.script = mac.script
        /\ mac'.network = mac.network
    BY <1>1, <1>2 DEF Macs
  <1>4. HangsUp # {} => ~DialInfo'.AutoHangup
    BY <1>1, <1>2 DEF GetEnvelope, DeviceInv, Calm
  <1>5. DeviceInv' BY <1>1, <1>2, <1>3, <1>4 DEF DeviceInv, OnLine
  <1> DEFINE m == Message("ctrl", "START")
  <1>6. m \in Messages BY MessageTypes DEF CtrlMessages
  <1>7. Fits(m)'
    BY <1>2, <1>3 DEF Fits, FitsCtrl, Message, ScriptResults, Closing, Stops
  <1> HIDE DEF m
  <1>8. \A n \in Members(q) : Fits(n)' /\ Follows(n, m)
    BY DEF Fits, Follows, Core
  <1>9. posted' = Append(q, m) BY <1>2 DEF m
  <1>10. /\ Members(posted') = Members(q) \cup {m}
         /\ Announced' => PostedInv'
    BY <1>6, <1>7, <1>8, <1>9, AppendPosted
  <1>11. Message("ctrl", "START") \in Members(posted') BY <1>10 DEF m
  <1>12. Announced' BY <1>2, <1>11 DEF Announced, OnLine
  <1> QED BY <1>5, <1>10, <1>12 DEF CalmInv

LEMMA MgrSelConnectCalm ==
  ASSUME Calm, DialInv, CalmInv, NEW c \in Clients, NEW q, Keeps(q),
         DIALMGR_SelConnect(c, q)
  PROVE  CalmInv'
  <1>1. CASE /\ nCurrentState = "IDLE"
             /\ DIALER_SelConnect(Info[c], q)
             /\ nCurrentState' = "DIALING"
    <2>1. Run_Info.run_state = "INVALID"
      BY <1>1 DEF DIALER_SelConnect, Accepts
    <2>2. q \in Seq(Messages) /\ Ordered(q)
          /\ \A m \in Members(q) : Fits(m) /\ m \in Messages
      BY MembersTyped DEF Keeps
    <2>3. ASSUME NEW m \in Members(q) PROVE ~Core(m)
      <3>1. m.to # "mgr" BY <1>1, <2>2 DEF Fits, FitsMgr
      <3>2. m.to # "ctrl"
        <4>1. SUFFICES ASSUME m.to = "ctrl" PROVE FALSE
          OBVIOUS
        <4>2. FitsCtrl(m.msg) /\ m.msg \in CtrlMessages
          BY <2>2, <4>1, Kinds DEF Fits
        <4> QED BY <1>1, <2>1, <4>2
            DEF FitsCtrl, CtrlMessages, Closing, Stops, OnLine
      <3> QED BY <3>1, <3>2 DEF Core
    <2> QED BY <1>1, <2>2, <2>3, SelConnectCalm
  <1>2. CASE /\ UNCHANGED <<nCurrentState, Run_Info, DialInfo, timers, mac>>
             /\ posted' \in {q, Append(q, Message(c, "NETCONNECT"))}
    <2>1. Keeps(Append(q, Message(c, "NETCONNECT")))
      BY KeepsAppend DEF Reports
    <2> QED BY <1>2, <2>1, ReportsCalm
  <1> QED BY <1>1, <1>2 DEF DIALMGR_SelConnect, mgrVars

LEMMA HangUpDialCalm ==
  ASSUME DialInv, CalmInv, NEW c \in HangsUp, HangUpDial(c),
         nCurrentState # "HANGUPING",
         UNCHANGED <<Run_Info, DialInfo, timers, mac>>
  PROVE  CalmInv'
  <1>1. /\ posted \in Seq(Messages) /\ PostedInv /\ DeviceInv
    BY DEF DialInv, TypeOK, DialerTypeOK, CalmInv
  <1>2. PICK msg \in HangUpMessages : posted' = Append(posted, Message("ctrl", msg))
    BY DEF HangUpDial
  <1>3. nCurrentState' = "HANGUPING" BY DEF HangUpDial
  <1>4. /\ Run_Info.run_state \in {"DIAL", "LOGIN", "PPP", "NET"}
        /\ msg \in Stops
        /\ msg = "HANGUP" => Run_Info.run_state = "NET"
    BY <1>2 DEF HangUpMessages, Stops
  <1>5. HangsUp # {} OBVIOUS
  <1>6. Run_Info.run_state \in OnLine => mac.network \in {"starting", "up"}
    BY <1>1, <1>5 DEF DeviceInv
  <1>7. DeviceInv' BY <1>1, <1>3, <1>4 DEF DeviceInv, OnLine
  <1> DEFINE m == Message("ctrl", msg)
  <1>8. m \in Messages /\ m.to = "ctrl" /\ m.msg = msg
    BY <1>4, MessageTypes DEF CtrlMessages, Message, Stops
  <1>9. Fits(m)'
    <2>1. FitsCtrl(msg)'
      BY <1>3, <1>4, <1>5, <1>6
      DEF FitsCtrl, Stops, ScriptResults, Closing
    <2> QED BY <2>1 DEF Fits, Message
  <1> HIDE DEF m
  <1>10. ASSUME NEW n \in Members(posted) PROVE Fits(n)' /\ Follows(n, m)
    <2>1. Fits(n) /\ n \in Messages BY <1>1, MembersTyped DEF PostedInv
    <2>2. n.to = "ctrl" => n.msg \notin {"START"} \cup Closing \cup Stops
      BY <1>4, <1>6, <2>1 DEF Fits, FitsCtrl, OnLine
    <2>3. n.to = "mgr" => n.msg # "START" /\ n.msg \notin Ends
      BY <1>4, <2>1, Kinds DEF Fits, FitsMgr, Reports
    <2>4. Follows(n, m)
      BY <1>4, <1>8, <2>2, <2>3 DEF Follows, Core, Stops, ScriptResults
    <2>5. n.to = "ctrl" => FitsCtrl(n.msg)'
      BY <2>1, <2>2 DEF Fits, FitsCtrl, Stops
    <2>6. n.to = "mgr" => FitsMgr(n.msg)'
      BY <1>3, <2>1 DEF Fits, FitsMgr
    <2> QED BY <2>4, <2>5, <2>6 DEF Fits
  <1>11. Ordered(posted) BY <1>1 DEF PostedInv
  <1>12. posted' = Append(posted, m) BY <1>2 DEF m
  <1>13. Announced' => PostedInv'
    BY <1>1, <1>8, <1>9, <1>10, <1>11, <1>12, AppendPosted
  <1>14. Announced' BY <1>4, <1>6 DEF Announced
  <1> QED BY <1>7, <1>13, <1>14 DEF CalmInv

LEMMA ClientCalm ==
  ASSUME Calm, DialInv, CalmInv, NEW c \in Clients, Client(c)
  PROVE  CalmInv'
  <1>1. Keeps(Rest)
    BY KeepsRest DEF Client, ClientConnect, ClientBroken
  <1>2. CASE Silent /\ UNCHANGED <<mgrVars, Run_Info, DialInfo, timers, mac>>
    <2>1. posted' = Rest BY <1>2 DEF Silent
    <2> QED BY <1>1, <1>2, <2>1, ReportsCalm DEF mgrVars
  <1>3. CASE DIALMGR_SelConnect(c, Rest)
    BY <1>1, <1>3, MgrSelConnectCalm
  <1> QED BY <1>2, <1>3 DEF Client, ClientConnect, ClientBroken

LEMMA UserCalm ==
  ASSUME Calm, DialInv, CalmInv, HangUpOnce, NEW c \in Clients,
         Dial(c) \/ MmsHangUp(c) \/ MailHangUp(c)
  PROVE  CalmInv'
  <1>1. Keeps(posted) BY KeepsPosted
  <1>2. CASE DIALMGR_SelConnect(c, posted)
    BY <1>1, <1>2, MgrSelConnectCalm
  <1>3. CASE UNCHANGED <<dialerVars, mgrVars>>
    BY <1>1, <1>3, ReportsCalm DEF dialerVars, mgrVars
  <1>4. CASE Dial(c) BY <1>2, <1>3, <1>4 DEF Dial
  <1>5. CASE /\ c \in HangsUp /\ HangUpDial(c)
             /\ UNCHANGED <<Run_Info, DialInfo, timers, mac>>
    BY <1>5, HangUpDialCalm DEF HangUpOnce
  <1>6. CASE /\ \E msg \in Reports : posted' = Append(posted, Message(c, msg))
             /\ UNCHANGED <<Run_Info, DialInfo, timers, mac, nCurrentState>>
    <2>1. PICK msg \in Reports : posted' = Append(posted, Message(c, msg))
      BY <1>6
    <2>2. Keeps(Append(posted, Message(c, msg))) BY <1>1, KeepsAppend
    <2> QED BY <1>6, <2>1, <2>2, ReportsCalm
  <1>7. CASE MmsHangUp(c) \/ MailHangUp(c)
    BY <1>5, <1>6, <1>7
    DEF MmsHangUp, MailHangUp, LeaveQueue, Reports, mgrVars
  <1> QED BY <1>4, <1>7

\* What the manager tells the clients.
LEMMA ToldClients ==
  ASSUME NEW queue \in Seq(Clients), NEW msg \in Reports
  PROVE  /\ MessageTo(queue, msg) \in Seq(Messages)
         /\ \A m \in Members(MessageTo(queue, msg)) : ~Core(m) /\ Fits(m)
  <1>1. MessageTo(queue, msg) \in Seq(Messages) BY MessageToType
  <1>2. \A i \in DOMAIN queue : queue[i] \notin {"ctrl", "mgr"}
    BY ElementOfSeq, LenProperties, NamesAssumption
  <1>3. \A i \in DOMAIN queue : ~Core(Message(queue[i], msg))
    BY <1>2 DEF Core, Message
  <1>4. \A m \in Members(MessageTo(queue, msg)) : ~Core(m)
    BY <1>3 DEF Members, MessageTo
  <1> QED BY <1>1, <1>4 DEF Fits, Core

LEMMA MgrConnectCalm ==
  ASSUME DialInv, CalmInv, MgrConnect
  PROVE  CalmInv'
  <1>1. /\ posted \in Seq(Messages) /\ PostedInv /\ DeviceInv
        /\ CurrentDialQueue \in Seq(Clients)
    BY DEF DialInv, TypeOK, DialerTypeOK, CalmInv
  <1>2. posted # <<>> /\ Head(posted) = Message("mgr", "NETCONNECT")
    BY DEF MgrConnect, Got
  <1>3. Head(posted).to = "mgr" /\ Head(posted).msg = "NETCONNECT"
    BY <1>2 DEF Message
  <1>4. CASE nCurrentState # "DIALING"
    <2>1. Silent /\ UNCHANGED <<Run_Info, DialInfo, timers, mac, nCurrentState>>
      BY <1>4 DEF MgrConnect
    <2>2. /\ Head(posted) # Message("ctrl", "START")
          /\ \A msg \in Closing : Head(posted) # Message("ctrl", msg)
      BY <1>2 DEF Message
    <2> QED BY <1>2, <2>1, <2>2, QuietCalm
  <1>5. CASE nCurrentState = "DIALING"
    <2> DEFINE told == MessageTo(CurrentDialQueue, "NETCONNECT")
    <2>1. /\ nCurrentState' = "CONNECTED" /\ posted' = Rest \o told
          /\ Run_Info' = Run_Info /\ DialInfo' = DialInfo
          /\ timers' = timers /\ mac' = mac
      BY <1>5 DEF MgrConnect
    <2>2. told \in Seq(Messages) /\ \A m \in Members(told) : ~Core(m)
      BY <1>1, ToldClients DEF Reports
    <2> HIDE DEF told
    <2>3. Run_Info.run_state \in {"NET", "HANGUP", "INVALID"}
      BY <1>1, <1>2, <1>3, RestFacts DEF Fits, FitsMgr
    <2>4. DeviceInv'
      BY <1>1, <1>5, <2>1, <2>3 DEF DeviceInv, OnLine
    <2>5. /\ Rest \in Seq(Messages) /\ Ordered(Rest)
          /\ \A m \in Members(Rest) : Fits(m) /\ Follows(Head(posted), m)
          /\ Members(posted) = Members(Rest) \cup {Head(posted)}
      BY <1>1, <1>2, RestFacts
    <2>6. Members(posted') = Members(Rest) \cup Members(told)
      BY <2>1, <2>2, <2>5, MembersConcat
    <2>7. ASSUME NEW m \in Members(Rest) PROVE Fits(m)'
      <3>1. Fits(m) /\ Follows(Head(posted), m) BY <2>5
      <3>2. m.to = "ctrl" => m.msg \notin {"START"} \cup Stops
        BY <1>3, <1>5, <3>1 DEF Follows, Core, Fits, FitsCtrl
      <3>3. m.to = "ctrl" => FitsCtrl(m.msg)'
        BY <2>1, <3>1, <3>2 DEF Fits, FitsCtrl, Stops
      <3>4. m.to = "mgr" => FitsMgr(m.msg)'
        BY <2>1, <3>1 DEF Fits, FitsMgr
      <3> QED BY <3>3, <3>4 DEF Fits
    <2>8. \A m \in Members(told) : Fits(m)'
      BY <2>2 DEF Fits, Core
    <2>9. (\A m \in Members(posted) : Fits(m))'
      BY <2>6, <2>7, <2>8
    <2>10. Ordered(Rest \o told) BY <2>2, <2>5, OrderedConcat
    <2>11. Ordered(posted)' BY <2>1, <2>10 DEF Ordered
    <2>12. Announced BY <1>1 DEF PostedInv
    <2>13. \A msg : Head(posted) # Message("ctrl", msg)
      BY <1>2 DEF Message
    <2>14. Announced'
      BY <2>1, <2>5, <2>6, <2>12, <2>13 DEF Announced
    <2> QED BY <2>4, <2>9, <2>11, <2>14 DEF CalmInv, PostedInv
  <1> QED BY <1>4, <1>5

\* When the manager hears of the end of a dial, the device is closed and
\* nothing else about it is on its way.
LEMMA AfterEnd ==
  ASSUME DialInv, CalmInv, NEW end \in Ends, Got("mgr", end)
  PROVE  /\ Run_Info.run_state = "INVALID" /\ ~mac.open
         /\ Rest \in Seq(Messages) /\ Ordered(Rest)
         /\ \A m \in Members(Rest) : ~Core(m)
  <1>1. posted \in Seq(Messages) /\ PostedInv
    BY DEF DialInv, TypeOK, DialerTypeOK, CalmInv
  <1>2. posted # <<>> /\ Head(posted).to = "mgr" /\ Head(posted).msg = end
    BY DEF Got, Message
  <1> QED BY <1>1, <1>2, RestFacts DEF Fits, FitsMgr, Follows

LEMMA ToldAll ==
  ASSUME NEW q \in Seq(Messages), Ordered(q), \A m \in Members(q) : ~Core(m),
         NEW r \in Seq(Clients), NEW s \in Seq(Clients), NEW msg \in Reports
  PROVE  LET told == q \o MessageTo(r, msg) \o MessageTo(s, msg)
         IN /\ told \in Seq(Messages) /\ Ordered(told)
            /\ \A m \in Members(told) : ~Core(m)
  <1> DEFINE first == MessageTo(r, msg)
  <1> DEFINE second == MessageTo(s, msg)
  <1>1. /\ first \in Seq(Messages) /\ \A m \in Members(first) : ~Core(m)
        /\ second \in Seq(Messages) /\ \A m \in Members(second) : ~Core(m)
    BY ToldClients
  <1> HIDE DEF first, second
  <1>2. /\ q \o first \in Seq(Messages)
        /\ q \o first \o second \in Seq(Messages)
    BY <1>1, ConcatProperties
  <1>3. Ordered(q \o first) BY <1>1, OrderedConcat
  <1>4. Ordered(q \o first \o second) BY <1>1, <1>2, <1>3, OrderedConcat
  <1>5. Members(q \o first \o second)
          = Members(q) \cup Members(first) \cup Members(second)
    BY <1>1, <1>2, MembersConcat
  <1> QED BY <1>1, <1>2, <1>4, <1>5 DEF first, second

LEMMA EndCalm ==
  ASSUME DialInv, CalmInv, Run_Info.run_state = "INVALID", ~mac.open,
         NEW q \in Seq(Messages), Ordered(q),
         \A m \in Members(q) : ~Core(m), posted' = q,
         UNCHANGED <<Run_Info, DialInfo, timers, mac>>
  PROVE  CalmInv'
  <1>1. DeviceInv' BY DEF CalmInv, DeviceInv, OnLine
  <1>2. (\A m \in Members(posted) : Fits(m))' BY DEF Fits, Core
  <1>3. Ordered(posted)' BY DEF Ordered
  <1>4. Announced' BY DEF Announced, OnLine
  <1> QED BY <1>1, <1>2, <1>3, <1>4 DEF CalmInv, PostedInv

LEMMA MgrBrokenCalm ==
  ASSUME Calm, DialInv, CalmInv, MgrBroken
  PROVE  CalmInv'
  <1>1. /\ CurrentDialQueue \in Seq(Clients) /\ DialWaitQueue \in Seq(Clients)
        /\ Len(DialWaitQueue) \in Nat
    BY LenProperties DEF DialInv, TypeOK
  <1>2. /\ Run_Info.run_state = "INVALID" /\ ~mac.open
        /\ Rest \in Seq(Messages) /\ Ordered(Rest)
        /\ \A m \in Members(Rest) : ~Core(m)
    BY AfterEnd DEF MgrBroken, Ends
  <1> DEFINE told(k) == Rest \o MessageTo(CurrentDialQueue, "NETBROKEN")
                        \o MessageTo(SubSeq(DialWaitQueue, 1, k), "NETBROKEN")
  <1>3. PICK k \in 0..Len(DialWaitQueue) :
          \/ /\ posted' = told(k)
             /\ UNCHANGED <<Run_Info, DialInfo, timers, awake, mac>>
          \/ /\ DIALER_SelConnect(Info[DialWaitQueue[k + 1]], told(k))
             /\ nCurrentState' = "DIALING"
    BY DEF MgrBroken
  <1>4. SubSeq(DialWaitQueue, 1, k) \in Seq(Clients)
    BY <1>1, SubQueue
  <1>5. /\ told(k) \in Seq(Messages) /\ Ordered(told(k))
        /\ \A m \in Members(told(k)) : ~Core(m)
    BY <1>1, <1>2, <1>4, ToldAll DEF Reports
  <1> HIDE DEF told
  <1>6. CASE /\ posted' = told(k)
             /\ UNCHANGED <<Run_Info, DialInfo, timers, awake, mac>>
    BY <1>2, <1>5, <1>6, EndCalm
  <1>7. CASE /\ DIALER_SelConnect(Info[DialWaitQueue[k + 1]], told(k))
             /\ nCurrentState' = "DIALING"
    BY <1>5, <1>7, SelConnectCalm
  <1> QED BY <1>3, <1>6, <1>7

LEMMA MgrAbnormalCalm ==
  ASSUME DialInv, CalmInv, MgrAbnormal
  PROVE  CalmInv'
  <1>1. CurrentDialQueue \in Seq(Clients) /\ DialWaitQueue \in Seq(Clients)
    BY DEF DialInv, TypeOK
  <1>2. /\ Run_Info.run_state = "INVALID" /\ ~mac.open
        /\ Rest \in Seq(Messages) /\ Ordered(Rest)
        /\ \A m \in Members(Rest) : ~Core(m)
    BY AfterEnd DEF MgrAbnormal, Ends
  <1> DEFINE told == Rest \o MessageTo(CurrentDialQueue, "NET_ABNORMAL")
                          \o MessageTo(DialWaitQueue, "NET_ABNORMAL")
  <1>3. /\ told \in Seq(Messages) /\ Ordered(told)
        /\ \A m \in Members(told) : ~Core(m)
    BY <1>1, <1>2, ToldAll DEF Reports
  <1>4. posted' = told /\ UNCHANGED <<Run_Info, DialInfo, timers, mac>>
    BY DEF MgrAbnormal
  <1> HIDE DEF told
  <1> QED BY <1>2, <1>3, <1>4, EndCalm

-----------------------------------------------------------------------------
(* The theorems.                                                           *)

LEMMA InitCalmInv == Init => CalmInv
  <1> SUFFICES ASSUME Init PROVE CalmInv
    OBVIOUS
  <1>1. /\ Run_Info.run_state = "INVALID" /\ mac.script = "none"
        /\ mac.network = "down" /\ ~mac.open /\ timers = {}
        /\ ~DialInfo.AutoHangup /\ posted = <<>>
    BY DEF Init, DialerInit, ClosedMac
  <1>2. DeviceInv BY <1>1 DEF DeviceInv, OnLine
  <1>3. Members(posted) = {} BY <1>1 DEF Members
  <1>4. Ordered(posted) BY <1>1 DEF Ordered
  <1>5. Announced BY <1>1 DEF Announced, OnLine
  <1> QED BY <1>2, <1>3, <1>4, <1>5 DEF CalmInv, PostedInv

LEMMA StepCalmInv ==
  ASSUME Calm
  PROVE  DialInv /\ CalmInv /\ [Next /\ HangUpOnce]_vars => CalmInv'
  <1> SUFFICES ASSUME DialInv, CalmInv, [Next /\ HangUpOnce]_vars
               PROVE  CalmInv'
    OBVIOUS
  <1>1. CASE Dialer BY <1>1, DialerCalm
  <1>2. CASE MgrConnect BY <1>2, MgrConnectCalm
  <1>3. CASE MgrBroken BY <1>3, MgrBrokenCalm
  <1>4. CASE MgrAbnormal BY <1>4, MgrAbnormalCalm
  <1>5. CASE \E c \in Clients : Client(c) BY <1>5, ClientCalm
  <1>6. CASE MacLayer BY <1>6, MacCalm
  <1>7. CASE Users /\ HangUpOnce BY <1>7, UserCalm DEF Users
  <1>8. CASE UNCHANGED vars
    <2>1. Keeps(posted) BY KeepsPosted
    <2> QED BY <1>8, <2>1, ReportsCalm DEF vars, dialerVars, mgrVars
  <1> QED BY <1>1, <1>2, <1>3, <1>4, <1>5, <1>6, <1>7, <1>8
      DEF Next, Procs, DialMgrWindowProc

LEMMA AlwaysCalmInv ==
  ASSUME Calm
  PROVE  CalmSpec => [](DialInv /\ CalmInv)
  <1>1. Init => DialInv /\ CalmInv BY InitDialInv, InitCalmInv
  <1>2. DialInv /\ CalmInv /\ [Next /\ HangUpOnce]_vars
          => (DialInv /\ CalmInv)'
    BY StepDialInv, StepCalmInv
  <1> QED BY <1>1, <1>2, PTL DEF CalmSpec

LEMMA StartMember ==
  Posted("ctrl", {"START"}) <=> \E m \in Members(posted) :
                                   m.to = "ctrl" /\ m.msg = "START"
  BY DEF Posted, Members

\* Unless the dialer is asked to stop a dial twice, or is asked while PPP fails
\* by itself: the one MAC device is open exactly while a dial is at work or
\* about to start.  Every path of dialctrl.c that ends in INVALID closes it,
\* and DIALER_SelConnect opens it for no other dial.
THEOREM DeviceSafe ==
  ASSUME Calm
  PROVE  CalmSpec => []DeviceHeld
  <1>1. ASSUME DialInv, CalmInv PROVE DeviceHeld
    <2>1. DeviceInv /\ Announced /\ \A m \in Members(posted) : Fits(m)
      BY <1>1 DEF CalmInv, PostedInv
    <2>2. Posted("ctrl", {"START"}) => mac.open
      BY <2>1, StartMember DEF Fits, FitsCtrl
    <2>3. mac.open /\ Run_Info.run_state = "INVALID"
            => Posted("ctrl", {"START"})
      BY <2>1, StartMember DEF Announced, Message
    <2> QED BY <2>1, <2>2, <2>3 DEF DeviceHeld, DeviceInv
  <1> QED BY <1>1, AlwaysCalmInv, PTL

\* Under the same conditions the manager says CONNECTED (DialMgrWindowProc)
\* only when the phone is on line, hangs up, or reports that it is not.
THEOREM ConnectionReal ==
  ASSUME Calm
  PROVE  CalmSpec => []ConnectedIsReal
  <1>1. ASSUME DialInv, CalmInv PROVE ConnectedIsReal
    <2>1. DeviceInv /\ \A m \in Members(posted) : Fits(m)
      BY <1>1 DEF CalmInv, PostedInv
    <2>2. ManagerBacked /\ Run_Info.run_state \in
            {"INVALID", "DIAL", "LOGIN", "PPP", "NET", "HANGUP"}
      BY <1>1 DEF DialInv, TypeOK, DialerTypeOK, RunInfos
    <2>3. Posted("ctrl", {"START"}) => nCurrentState = "DIALING"
      BY <2>1, StartMember DEF Fits, FitsCtrl
    <2> QED BY <2>1, <2>2, <2>3
        DEF ConnectedIsReal, ManagerBacked, DeviceInv
  <1> QED BY <1>1, AlwaysCalmInv, PTL

\* Under the same conditions the retry timer runs only between two calls of a
\* dial that was busy, at most RepeatDialTimes times: no script is running
\* that it would be fired into.
THEOREM RetrySafe ==
  ASSUME Calm
  PROVE  CalmSpec => []RetryWaits
  <1>1. ASSUME DialInv, CalmInv PROVE RetryWaits
    <2>1. DeviceInv BY <1>1 DEF CalmInv
    <2>2. /\ CountInv /\ Run_Info.rep_times \in 0..RepeatDialTimes + 1
          /\ Run_Info.run_state \in
               {"INVALID", "DIAL", "LOGIN", "PPP", "NET", "HANGUP"}
      BY <1>1 DEF DialInv, TypeOK, DialerTypeOK, RunInfos
    <2> SUFFICES ASSUME "BUSY" \in timers
                 PROVE  /\ Run_Info.run_state = "DIAL"
                        /\ mac.script = "none"
                        /\ Run_Info.rep_times \in 1..RepeatDialTimes
      BY DEF RetryWaits
    <2>3. Run_Info.run_state = "DIAL"
      BY <2>1, <2>2 DEF DeviceInv, OnLine
    <2>4. mac.script = "none" /\ Run_Info.rep_times >= 1
          /\ Run_Info.rep_times <= RepeatDialTimes
      BY <2>1, <2>2, <2>3 DEF DeviceInv, CountInv
    <2> QED BY <2>2, <2>3, <2>4, RepeatAssumption
  <1> QED BY <1>1, AlwaysCalmInv, PTL

\* Where nobody hangs up, nobody hangs up twice: there the three theorems are
\* about every behaviour, whatever PPP and the clock do.
THEOREM NobodyHangsUp ==
  ASSUME HangsUp = {}
  PROVE  Spec => CalmSpec
  <1> DEFINE Inv == nCurrentState # "HANGUPING"
  <1>1. Init => Inv BY DEF Init
  <1>2. Inv /\ [Next]_vars => Inv'
    <2> SUFFICES ASSUME Inv, [Next]_vars PROVE Inv'
      OBVIOUS
    <2>1. CASE UNCHANGED nCurrentState BY <2>1
    <2>2. CASE Dialer \/ MacLayer
      BY <2>1, <2>2 DEF Dialer, MacLayer, mgrVars
    <2>3. CASE MgrConnect \/ MgrAbnormal
      BY <2>3 DEF MgrConnect, MgrAbnormal
    <2>4. CASE MgrBroken BY <2>4 DEF MgrBroken
    <2>5. CASE \E c \in Clients : Client(c) \/ Dial(c)
      <3>1. PICK c \in Clients : Client(c) \/ Dial(c) BY <2>5
      <3>2. \A q : DIALMGR_SelConnect(c, q) => Inv'
        BY DEF DIALMGR_SelConnect, mgrVars
      <3>3. UNCHANGED nCurrentState \/ \E q : DIALMGR_SelConnect(c, q)
        BY <3>1 DEF Client, ClientConnect, ClientBroken, Dial, mgrVars
      <3> QED BY <2>1, <3>2, <3>3
    <2>6. ASSUME NEW c \in Clients, MmsHangUp(c) \/ MailHangUp(c) PROVE FALSE
      BY <2>6 DEF MmsHangUp, MailHangUp
    <2>7. CASE UNCHANGED vars BY <2>1, <2>7 DEF vars, mgrVars
    <2> QED BY <2>2, <2>3, <2>4, <2>5, <2>6, <2>7
        DEF Next, Procs, DialMgrWindowProc, Users
  <1>3. Inv /\ [Next]_vars => [Next /\ HangUpOnce]_vars
    BY DEF HangUpOnce
  <1> QED BY <1>1, <1>2, <1>3, PTL DEF Spec, CalmSpec
=============================================================================
