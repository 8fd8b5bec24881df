--------------------------- MODULE DialMgr_proofs ---------------------------
(***************************************************************************)
(* Proofs about DialMgr, for any clients, any numbers to dial, any faults  *)
(* and any bounds:                                                         *)
(*   TypeCorrect     the type invariant;                                   *)
(*   WaitersServed   clients wait only for a dial in progress;             *)
(*   ManagerServed   the dialer never falls idle behind the manager;       *)
(*   OnlyTheServedIsLost, ClientsInformed                                  *)
(*                   the manager loses no client but the one it dials for  *)
(*                   out of the waiting queue;                             *)
(*   SharersInformed so it loses none where nobody needs to wait.          *)
(* TypeOK bounds the counter of busy calls, which is inductive only with   *)
(* CountInv: it is within its limit while the dialer dials, and the next   *)
(* dial starts from zero unless a busy call precedes it.  The invariant    *)
(* proved is DialInv; its steps by the dialer rest on Answers, what every  *)
(* path through dial_Ctl_Proc does for the manager.  ClientInformed is not *)
(* inductive: a NETCONNECT still in the queue would set a client on line   *)
(* that is on no list.  InformedInv adds that the end of its dial is then  *)
(* behind that NETCONNECT.                                                 *)
(***************************************************************************)
EXTENDS DialMgr, SequenceTheorems, WellFoundedInduction, TLAPS

CountInv ==
  /\ Run_Info.run_state = "DIAL" => Run_Info.rep_times <= RepeatDialTimes
  /\ Run_Info.stg_track = "NOTPASS" => Run_Info.rep_times <= RepeatDialTimes

\* How a step of the dialer may leave it: at work, or with a report to the
\* manager, or as it was, if that message did not start a dial.
Answers ==
  \/ Run_Info'.run_state # "INVALID"
  \/ \E report \in {"NETBROKEN", "NET_ABNORMAL"} : REPORTBACK(report)
  \/ /\ Run_Info'.run_state = Run_Info.run_state
     /\ Silent
     /\ ~Got("ctrl", "START")

-----------------------------------------------------------------------------
(* The queue of messages.                                                  *)

LEMMA RestType ==
  ASSUME posted \in Seq(Messages)
  PROVE  Rest \in Seq(Messages)
  BY EmptySeq, HeadTailProperties DEF Rest

LEMMA MessageTypes ==
  /\ \A msg \in CtrlMessages : Message("ctrl", msg) \in Messages
  /\ \A msg \in Reports : Message("mgr", msg) \in Messages
  /\ \A c \in Clients, msg \in Reports : Message(c, msg) \in Messages
  BY DEF Message, Messages

LEMMA ReportType ==
  ASSUME posted \in Seq(Messages), NEW report \in Reports, REPORTBACK(report)
  PROVE  posted' \in Seq(Messages)
  <1>1. Rest \in Seq(Messages) BY RestType
  <1>2. Message("mgr", report) \in Messages BY MessageTypes
  <1> QED BY <1>1, <1>2, AppendProperties DEF REPORTBACK

LEMMA SilentType ==
  ASSUME posted \in Seq(Messages), Silent
  PROVE  posted' \in Seq(Messages)
  BY RestType DEF Silent

-----------------------------------------------------------------------------
(* The dialer.                                                             *)

LEMMA HangupStep ==
  ASSUME DialerTypeOK, NEW run \in RunInfos,
         NEW ts \in SUBSET {"TEST", "BUSY", "STOP"}, OperateHangup(run, ts)
  PROVE  DialerTypeOK' /\ CountInv' /\ Answers
  <1>1. CASE Silent /\ Run_Info' = [run EXCEPT !.stg_track = "BEGIN",
                                               !.run_state = "HANGUP"]
             /\ mac' = [mac EXCEPT !.network = "down", !.script =
                          IF run.Mac_LineStatus = "CONNECTED" THEN "HANGUP"
                                                              ELSE "STOP"]
    <2>1. posted' \in Seq(Messages) BY <1>1, SilentType DEF DialerTypeOK
    <2> QED BY <1>1, <2>1
        DEF OperateHangup, DialerTypeOK, RunInfos, Macs, CountInv, Answers
  <1>2. CASE REPORTBACK("NET_ABNORMAL")
             /\ Run_Info' = [run EXCEPT !.stg_track = "BEGIN",
                                        !.run_state = "INVALID"]
             /\ mac' = [mac EXCEPT !.network = "down"]
    <2>1. posted' \in Seq(Messages)
      BY <1>2, ReportType DEF DialerTypeOK, Reports
    <2> QED BY <1>2, <2>1
        DEF OperateHangup, DialerTypeOK, RunInfos, Macs, CountInv, Answers
  <1> QED BY <1>1, <1>2 DEF OperateHangup

LEMMA DialStep ==
  ASSUME DialerTypeOK, CountInv,
         NEW ts \in SUBSET {"TEST", "BUSY", "STOP"}, OperateDial(ts)
  PROVE  DialerTypeOK' /\ CountInv' /\ Answers
  <1> DEFINE run == [Run_Info EXCEPT !.rep_times = RepTimes,
                       !.stg_track = "BEGIN", !.ReNegFlag = FALSE]
  <1>1. RepTimes \in 0..RepeatDialTimes
    BY RepeatAssumption DEF RepTimes, CountInv, DialerTypeOK, RunInfos
  <1>2. /\ run.rep_times = RepTimes /\ run.stg_track = "BEGIN"
        /\ run.ReNegFlag = FALSE /\ run.run_state = Run_Info.run_state
        /\ run.Mac_LineStatus = Run_Info.Mac_LineStatus
    BY DEF DialerTypeOK, RunInfos
  <1>3. RepTimes \in 0..RepeatDialTimes + 1 /\ RepTimes <= RepeatDialTimes
    BY <1>1, RepeatAssumption
  <1>4. run \in RunInfos /\ run.stg_track = "BEGIN"
        /\ run.rep_times <= RepeatDialTimes
    BY <1>2, <1>3 DEF DialerTypeOK, RunInfos
  <1> HIDE DEF run
  <1>5. CASE Silent /\ Run_Info' = [run EXCEPT !.run_state = "DIAL"]
             /\ mac' = [mac EXCEPT !.script = "DIAL"]
    <2>1. posted' \in Seq(Messages) BY <1>5, SilentType DEF DialerTypeOK
    <2> QED BY <1>4, <1>5, <2>1
        DEF OperateDial, DialerTypeOK, RunInfos, Macs, CountInv, Answers
  <1>6. CASE REPORTBACK("NET_ABNORMAL") /\ mac' = ClosedMac
             /\ Run_Info' = [run EXCEPT !.run_state = "INVALID"]
    <2>1. posted' \in Seq(Messages)
      BY <1>6, ReportType DEF DialerTypeOK, Reports
    <2> QED BY <1>4, <1>6, <2>1 DEF OperateDial, DialerTypeOK, RunInfos, Macs,
               CountInv, Answers, ClosedMac
  <1> QED BY <1>5, <1>6 DEF OperateDial, run

LEMMA HangupEndStep ==
  ASSUME DialerTypeOK, CountInv,
         NEW ts \in SUBSET {"TEST", "BUSY", "STOP"}, HangupEnd(ts)
  PROVE  DialerTypeOK' /\ CountInv' /\ Answers
  <1>1. posted' \in Seq(Messages)
    BY ReportType DEF HangupEnd, DialerTypeOK, Reports
  <1> QED BY <1>1 DEF HangupEnd, DialerTypeOK, RunInfos, Macs, ClosedMac,
             CountInv, Answers

LEMMA AbandonStep ==
  ASSUME DialerTypeOK, CountInv, Abandon, UNCHANGED <<DialInfo, timers, awake>>
  PROVE  DialerTypeOK' /\ CountInv' /\ Answers
  <1>1. posted' \in Seq(Messages)
    BY ReportType DEF Abandon, DialerTypeOK, Reports
  <1> QED BY <1>1 DEF Abandon, DialerTypeOK, RunInfos, Macs, ClosedMac,
             CountInv, Answers

LEMMA StopNetworkStep ==
  ASSUME DialerTypeOK, CountInv, ~Got("ctrl", "START"),
         NEW ts \in SUBSET {"TEST", "BUSY", "STOP"}, StopNetwork(ts)
  PROVE  DialerTypeOK' /\ CountInv' /\ Answers
  <1>1. posted' \in Seq(Messages)
    BY SilentType DEF StopNetwork, DialerTypeOK
  <1> QED BY <1>1
      DEF StopNetwork, DialerTypeOK, RunInfos, Macs, CountInv, Answers

LEMMA NegotiationStep ==
  ASSUME DialerTypeOK, NEW run \in RunInfos,
         run.stg_track = "NOTPASS" => run.rep_times <= RepeatDialTimes,
         StartNegotiation(run)
  PROVE  DialerTypeOK' /\ CountInv' /\ Answers
  <1>1. posted' \in Seq(Messages)
    BY SilentType DEF StartNegotiation, DialerTypeOK
  <1> QED BY <1>1
      DEF StartNegotiation, DialerTypeOK, RunInfos, Macs, CountInv, Answers

LEMMA OperateStopStep ==
  ASSUME DialerTypeOK, CountInv, ~Got("ctrl", "START"),
         NEW ts \in SUBSET {"TEST", "BUSY", "STOP"}, OperateStop(ts)
  PROVE  DialerTypeOK' /\ CountInv' /\ Answers
  <1>1. posted' \in Seq(Messages)
    BY SilentType DEF OperateStop, DialerTypeOK
  <1> QED BY <1>1
      DEF OperateStop, DialerTypeOK, RunInfos, Macs, CountInv, Answers

\* A message that only changes fields of Run_Info, or nothing.
LEMMA QuietStep ==
  ASSUME DialerTypeOK, ~Got("ctrl", "START"), Silent,
         Run_Info' \in RunInfos, CountInv',
         Run_Info'.run_state = Run_Info.run_state,
         UNCHANGED <<DialInfo, timers, awake, mac>>
  PROVE  DialerTypeOK' /\ CountInv' /\ Answers
  <1>1. posted' \in Seq(Messages) BY SilentType DEF DialerTypeOK
  <1> QED BY <1>1 DEF DialerTypeOK, Answers

LEMMA DialEndStep ==
  ASSUME DialerTypeOK, CountInv, NEW result \in ScriptResults, DialEnd(result)
  PROVE  DialerTypeOK' /\ CountInv' /\ Answers
  <1> DEFINE run == [Run_Info EXCEPT !.Mac_LineStatus = "CONNECTED"]
             login == [run EXCEPT !.stg_track = "INVALID"]
             busy == [run EXCEPT !.stg_track = "NOTPASS", !.rep_times = @ + 1]
             failed == [run EXCEPT !.stg_track = "NOTPASS"]
  <1>1. Run_Info \in RunInfos /\ Run_Info.run_state = "DIAL"
        /\ Run_Info.rep_times \in 0..RepeatDialTimes
    BY RepeatAssumption DEF DialEnd, DialerTypeOK, RunInfos, CountInv
  <1>2. /\ run \in RunInfos
        /\ run.rep_times = Run_Info.rep_times
        /\ run.run_state = "DIAL"
    BY <1>1 DEF RunInfos
  <1>3. login \in RunInfos /\ login.stg_track = "INVALID"
    BY <1>2 DEF RunInfos
  <1>4. /\ busy.rep_times = Run_Info.rep_times + 1
        /\ busy.run_state = "DIAL" /\ busy.stg_track = "NOTPASS"
        /\ busy.Mac_LineStatus = run.Mac_LineStatus
        /\ busy.ReNegFlag = run.ReNegFlag
    BY <1>2 DEF RunInfos
  <1>5. Run_Info.rep_times + 1 \in 0..RepeatDialTimes + 1
    BY <1>1, RepeatAssumption
  <1>6. busy \in RunInfos
    BY <1>2, <1>4, <1>5 DEF RunInfos
  <1>7. failed \in RunInfos
    BY <1>2 DEF RunInfos
  <1>8. ~Got("ctrl", "START")
    BY DEF DialEnd, Got, Message, ScriptResults
  <1>9. timers \in SUBSET {"TEST", "BUSY", "STOP"}
    BY DEF DialerTypeOK
  <1> HIDE DEF run, login, busy, failed
  <1>10. CASE Abandon /\ UNCHANGED <<DialInfo, timers, awake>>
    BY <1>10, AbandonStep
  <1>11. CASE StartNegotiation(login)
    BY <1>11, <1>3, NegotiationStep
  <1>12. CASE /\ Run_Info' = [login EXCEPT !.run_state = "LOGIN"]
              /\ mac' = [mac EXCEPT !.script = "LOGIN"]
              /\ Silent
              /\ UNCHANGED <<DialInfo, timers, awake>>
    <2>1. posted' \in Seq(Messages) BY <1>12, SilentType DEF DialerTypeOK
    <2> QED BY <1>3, <1>12, <2>1
        DEF DialerTypeOK, RunInfos, Macs, CountInv, Answers
  <1>13. CASE /\ Run_Info' = [login EXCEPT !.run_state = "INVALID"]
              /\ mac' = ClosedMac
              /\ REPORTBACK("NET_ABNORMAL")
              /\ UNCHANGED <<DialInfo, timers, awake>>
    <2>1. posted' \in Seq(Messages)
      BY <1>13, ReportType DEF DialerTypeOK, Reports
    <2> QED BY <1>3, <1>13, <2>1
        DEF DialerTypeOK, RunInfos, Macs, ClosedMac, CountInv, Answers
  <1>14. CASE /\ busy.rep_times <= RepeatDialTimes
              /\ Run_Info' = busy
              /\ timers' = timers \cup {"BUSY"}
              /\ Silent
              /\ UNCHANGED <<DialInfo, awake, mac>>
    <2>1. posted' \in Seq(Messages) BY <1>14, SilentType DEF DialerTypeOK
    <2> QED BY <1>4, <1>6, <1>14, <2>1 DEF DialerTypeOK, CountInv, Answers
  <1>15. CASE OperateHangup(busy, timers)
    BY <1>6, <1>9, <1>15, HangupStep
  <1>16. CASE OperateHangup(failed, timers)
    BY <1>7, <1>9, <1>16, HangupStep
  <1> QED
    BY <1>10, <1>11, <1>12, <1>13, <1>14, <1>15, <1>16
    DEF DialEnd, run, login, busy, failed

LEMMA LoginEndStep ==
  ASSUME DialerTypeOK, CountInv, NEW result \in ScriptResults, LoginEnd(result)
  PROVE  DialerTypeOK' /\ CountInv' /\ Answers
  <1>1. Run_Info \in RunInfos /\ timers \in SUBSET {"TEST", "BUSY", "STOP"}
    BY DEF DialerTypeOK
  <1>2. CASE Abandon /\ UNCHANGED <<DialInfo, timers, awake>>
    BY <1>2, AbandonStep
  <1>3. CASE StartNegotiation(Run_Info)
    BY <1>1, <1>3, NegotiationStep DEF CountInv
  <1>4. CASE OperateHangup(Run_Info, timers)
    BY <1>1, <1>4, HangupStep
  <1> QED BY <1>2, <1>3, <1>4 DEF LoginEnd

LEMMA ExplainEndStep ==
  ASSUME DialerTypeOK, CountInv, NEW result \in ScriptResults,
         ExplainEnd(result)
  PROVE  DialerTypeOK' /\ CountInv' /\ Answers
  <1>1. CASE DialEnd(result)
    BY <1>1, DialEndStep
  <1>2. CASE LoginEnd(result)
    BY <1>2, LoginEndStep
  <1>3. CASE HangupEnd(timers)
    BY <1>3, HangupEndStep DEF DialerTypeOK
  <1>4. CASE /\ Got("ctrl", result)
             /\ Silent
             /\ UNCHANGED <<Run_Info, DialInfo, timers, awake, mac>>
    <2>1. ~Got("ctrl", "START") BY <1>4 DEF Got, Message, ScriptResults
    <2>2. Run_Info' \in RunInfos /\ CountInv'
      BY <1>4 DEF DialerTypeOK, CountInv
    <2> QED BY <1>4, <2>1, <2>2, QuietStep
  <1> QED BY <1>1, <1>2, <1>3, <1>4 DEF ExplainEnd

LEMMA NegotiateEndStep ==
  ASSUME DialerTypeOK, CountInv, NegotiateEnd
  PROVE  DialerTypeOK' /\ CountInv' /\ Answers
  <1>1. /\ Run_Info \in RunInfos
        /\ timers \in SUBSET {"TEST", "BUSY", "STOP"}
        /\ timers \ {"STOP"} \in SUBSET {"TEST", "BUSY", "STOP"}
    BY DEF DialerTypeOK
  <1>2. ~Got("ctrl", "START") BY DEF NegotiateEnd, Got, Message
  <1>3. CASE OperateHangup(Run_Info, timers \ {"STOP"})
    BY <1>1, <1>3, HangupStep
  <1>4. CASE /\ Run_Info' = [Run_Info EXCEPT !.ReNegFlag = TRUE]
             /\ Silent
             /\ UNCHANGED <<DialInfo, timers, awake, mac>>
    <2>1. Run_Info' \in RunInfos /\ Run_Info'.run_state = Run_Info.run_state
          /\ CountInv'
      BY <1>1, <1>4 DEF RunInfos, CountInv
    <2> QED BY <1>2, <1>4, <2>1, QuietStep
  <1>5. CASE /\ Run_Info' = [Run_Info EXCEPT !.ReNegFlag = FALSE]
             /\ Silent
             /\ UNCHANGED <<DialInfo, timers, awake, mac>>
    <2>1. Run_Info' \in RunInfos /\ Run_Info'.run_state = Run_Info.run_state
          /\ CountInv'
      BY <1>1, <1>5 DEF RunInfos, CountInv
    <2> QED BY <1>2, <1>5, <2>1, QuietStep
  <1>6. CASE /\ Run_Info' = [Run_Info EXCEPT !.run_state = "NET"]
             /\ REPORTBACK("NETCONNECT")
             /\ UNCHANGED <<DialInfo, timers, awake, mac>>
    <2>1. posted' \in Seq(Messages)
      BY <1>6, ReportType DEF DialerTypeOK, Reports
    <2> QED BY <1>1, <1>6, <2>1
        DEF DialerTypeOK, RunInfos, CountInv, Answers
  <1>7. CASE OperateHangup([Run_Info EXCEPT !.ReNegFlag = FALSE], timers)
    <2>1. [Run_Info EXCEPT !.ReNegFlag = FALSE] \in RunInfos
      BY <1>1 DEF RunInfos
    <2> QED BY <1>1, <1>7, <2>1, HangupStep
  <1> QED BY <1>3, <1>4, <1>5, <1>6, <1>7 DEF NegotiateEnd

LEMMA MacLineStatusStep ==
  ASSUME DialerTypeOK, CountInv, MacLineStatus
  PROVE  DialerTypeOK' /\ CountInv' /\ Answers
  <1>1. Run_Info \in RunInfos BY DEF DialerTypeOK
  <1>2. ~Got("ctrl", "START") BY DEF MacLineStatus, Got, Message
  <1>3. CASE \E status \in {"CONNECTED", "BROKEN"} :
               /\ Run_Info' = [Run_Info EXCEPT !.Mac_LineStatus = status]
               /\ Silent
               /\ UNCHANGED <<DialInfo, timers, awake, mac>>
    <2>1. Run_Info' \in RunInfos /\ Run_Info'.run_state = Run_Info.run_state
          /\ CountInv'
      BY <1>1, <1>3 DEF RunInfos, CountInv
    <2> QED BY <1>2, <1>3, <2>1, QuietStep
  <1>4. CASE \E ts \in SUBSET {"TEST", "BUSY", "STOP"} : HangupEnd(ts)
    BY <1>4, HangupEndStep
  <1>5. timers \ ({"STOP"} \cup {x \in {"TEST"} : DialInfo.AutoHangup})
          \in SUBSET {"TEST", "BUSY", "STOP"}
    BY DEF DialerTypeOK
  <1> QED BY <1>3, <1>4, <1>5 DEF MacLineStatus

LEMMA RunCancelStep ==
  ASSUME DialerTypeOK, CountInv, RunCancel
  PROVE  DialerTypeOK' /\ CountInv' /\ Answers
  <1>1. ~Got("ctrl", "START") BY DEF RunCancel, Got, Message
  <1>2. CASE \E ts \in SUBSET {"TEST", "BUSY", "STOP"} : OperateStop(ts)
    BY <1>1, <1>2, OperateStopStep
  <1>3. CASE \E ts \in SUBSET {"TEST", "BUSY", "STOP"} : StopNetwork(ts)
    BY <1>1, <1>3, StopNetworkStep
  <1>4. CASE Silent /\ UNCHANGED <<Run_Info, DialInfo, timers, awake, mac>>
    <2>1. Run_Info' \in RunInfos /\ CountInv'
      BY <1>4 DEF DialerTypeOK, CountInv
    <2> QED BY <1>1, <1>4, <2>1, QuietStep
  <1>5. timers \in SUBSET {"TEST", "BUSY", "STOP"}
        /\ timers \ {"BUSY"} \in SUBSET {"TEST", "BUSY", "STOP"}
    BY DEF DialerTypeOK
  <1> QED BY <1>2, <1>3, <1>4, <1>5 DEF RunCancel

LEMMA TimerStep ==
  ASSUME DialerTypeOK, CountInv, TestTimer \/ BusyTimer \/ StopTimer
  PROVE  DialerTypeOK' /\ CountInv' /\ Answers
  <1>1. /\ Run_Info \in RunInfos
        /\ \A x : timers \ {x} \in SUBSET {"TEST", "BUSY", "STOP"}
    BY DEF DialerTypeOK
  <1>2. posted = <<>> /\ Rest = <<>> /\ ~Got("ctrl", "START")
    BY DEF TestTimer, BusyTimer, StopTimer, Fires, Rest, Got
  <1>3. CASE StopNetwork(timers \ {"TEST"})
    BY <1>1, <1>2, <1>3, StopNetworkStep
  <1>4. CASE /\ timers' = timers \ {"TEST"}
             /\ UNCHANGED <<Run_Info, DialInfo, awake, mac, posted>>
    BY <1>2, <1>4 DEF DialerTypeOK, CountInv, Answers, Silent
  <1>5. CASE OperateDial(timers \ {"BUSY"})
    BY <1>1, <1>5, DialStep
  <1>6. CASE OperateHangup(Run_Info, timers \ {"STOP"})
    BY <1>1, <1>6, HangupStep
  <1> QED BY <1>3, <1>4, <1>5, <1>6 DEF TestTimer, BusyTimer, StopTimer

LEMMA DialerStep ==
  ASSUME DialerTypeOK, CountInv, dial_Ctl_Proc
  PROVE  DialerTypeOK' /\ CountInv' /\ Answers
  <1>1. timers \in SUBSET {"TEST", "BUSY", "STOP"} BY DEF DialerTypeOK
  <1>2. CASE Start
    BY <1>1, <1>2, DialStep DEF Start
  <1>3. CASE HangUp
    <2>1. ~Got("ctrl", "START") BY <1>3 DEF HangUp, Got, Message
    <2> QED BY <1>1, <1>3, <2>1, StopNetworkStep DEF HangUp
  <1>4. CASE RunCancel BY <1>4, RunCancelStep
  <1>5. CASE \E result \in ScriptResults : ExplainEnd(result)
    BY <1>5, ExplainEndStep
  <1>6. CASE NegotiateEnd BY <1>6, NegotiateEndStep
  <1>7. CASE MacLineStatus BY <1>7, MacLineStatusStep
  <1>8. CASE TestTimer \/ BusyTimer \/ StopTimer BY <1>8, TimerStep
  <1> QED BY <1>2, <1>3, <1>4, <1>5, <1>6, <1>7, <1>8 DEF dial_Ctl_Proc

-----------------------------------------------------------------------------
(* The MAC layer.                                                          *)

LEMMA MacPostsType ==
  ASSUME posted \in Seq(Messages), NEW msg \in CtrlMessages, MacPosts(msg)
  PROVE  posted' \in Seq(Messages)
  <1>1. Message("ctrl", msg) \in Messages BY MessageTypes
  <1> QED BY <1>1, AppendProperties DEF MacPosts

LEMMA MacStep ==
  ASSUME DialerTypeOK, CountInv, Mac
  PROVE  /\ DialerTypeOK' /\ CountInv'
         /\ UNCHANGED <<Run_Info, DialInfo, timers, awake>>
         /\ \E msg \in CtrlMessages : MacPosts(msg)
  <1>1. \E msg \in CtrlMessages : MacPosts(msg)
    <2>1. \A script : ResultsOf(script) \subseteq CtrlMessages
      BY DEF ResultsOf, CtrlMessages, ScriptResults
    <2> QED BY <2>1 DEF Mac, MacScriptEnds, MacNegotiates, MacNetworkCloses,
                        MacLine, CtrlMessages
  <1>2. posted' \in Seq(Messages)
    BY <1>1, MacPostsType DEF DialerTypeOK
  <1>3. UNCHANGED <<Run_Info, DialInfo, timers, awake>>
    BY <1>1 DEF MacPosts
  <1>4. mac' \in Macs
    <2>1. mac \in Macs BY DEF DialerTypeOK
    <2>2. CASE MacScriptEnds
      BY <2>1, <2>2 DEF MacScriptEnds, Macs
    <2>3. CASE MacNegotiates
      BY <2>1, <2>3 DEF MacNegotiates, Macs
    <2>4. CASE MacNetworkCloses
      BY <2>1, <2>4 DEF MacNetworkCloses, Macs
    <2>5. CASE MacLine
      BY <2>1, <2>5 DEF MacLine, Macs
    <2> QED BY <2>2, <2>3, <2>4, <2>5 DEF Mac
  <1> QED BY <1>1, <1>2, <1>3, <1>4 DEF DialerTypeOK, CountInv

-----------------------------------------------------------------------------
(* Messages that stay posted when others are added or taken.               *)

Contains(q, to, msgs) ==
  \E i \in DOMAIN q : q[i].to = to /\ q[i].msg \in msgs

LEMMA AppendKeeps ==
  ASSUME NEW q \in Seq(Messages), NEW m \in Messages, NEW to, NEW msgs
  PROVE  /\ Contains(q, to, msgs) => Contains(Append(q, m), to, msgs)
         /\ m.to = to /\ m.msg \in msgs => Contains(Append(q, m), to, msgs)
  <1>1. /\ Append(q, m) \in Seq(Messages)
        /\ Len(Append(q, m)) = Len(q) + 1
        /\ \A i \in 1..Len(q) : Append(q, m)[i] = q[i]
        /\ Append(q, m)[Len(q) + 1] = m
    BY AppendProperties
  <1>2. /\ Len(q) \in Nat /\ DOMAIN q = 1..Len(q)
        /\ DOMAIN Append(q, m) = 1..Len(q) + 1
    BY <1>1, LenProperties
  <1> QED BY <1>1, <1>2 DEF Contains

LEMMA TailKeeps ==
  ASSUME NEW q \in Seq(Messages), q # <<>>, NEW to, NEW msgs,
         Contains(q, to, msgs), ~(Head(q).to = to /\ Head(q).msg \in msgs)
  PROVE  Contains(Tail(q), to, msgs)
  <1>1. PICK i \in DOMAIN q : q[i].to = to /\ q[i].msg \in msgs
    BY DEF Contains
  <1>2. /\ Tail(q) \in Seq(Messages)
        /\ Len(Tail(q)) = Len(q) - 1
        /\ \A j \in 1..Len(Tail(q)) : Tail(q)[j] = q[j + 1]
    BY HeadTailProperties
  <1>3. /\ Len(q) \in Nat /\ DOMAIN q = 1..Len(q)
        /\ DOMAIN Tail(q) = 1..Len(Tail(q))
    BY <1>2, LenProperties
  <1>4. i # 1 BY <1>1
  <1>5. i - 1 \in DOMAIN Tail(q) /\ Tail(q)[i - 1] = q[i]
    BY <1>2, <1>3, <1>4
  <1> QED BY <1>1, <1>5 DEF Contains

LEMMA ConcatKeeps ==
  ASSUME NEW q \in Seq(Messages), NEW r \in Seq(Messages), NEW to, NEW msgs,
         Contains(q, to, msgs)
  PROVE  Contains(q \o r, to, msgs)
  <1>1. /\ q \o r \in Seq(Messages)
        /\ Len(q \o r) = Len(q) + Len(r)
        /\ \A i \in 1..Len(q) + Len(r) :
             (q \o r)[i] = IF i <= Len(q) THEN q[i] ELSE r[i - Len(q)]
    BY ConcatProperties
  <1>2. /\ Len(q) \in Nat /\ DOMAIN q = 1..Len(q) /\ Len(r) \in Nat
        /\ DOMAIN (q \o r) = 1..Len(q) + Len(r)
    BY <1>1, LenProperties
  <1> QED BY <1>1, <1>2 DEF Contains

LEMMA MessageToType ==
  ASSUME NEW queue \in Seq(Clients), NEW msg \in Reports
  PROVE  MessageTo(queue, msg) \in Seq(Messages)
  <1>1. Len(queue) \in Nat /\ DOMAIN queue = 1..Len(queue)
        /\ \A i \in 1..Len(queue) : queue[i] \in Clients
    BY LenProperties, ElementOfSeq
  <1>2. MessageTo(queue, msg) \in [1..Len(queue) -> Messages]
    BY <1>1, MessageTypes DEF MessageTo
  <1> QED BY <1>1, <1>2, SeqDef

LEMMA SubQueue ==
  ASSUME NEW queue \in Seq(Clients), NEW m \in Nat \ {0}, NEW n \in Int,
         n <= Len(queue)
  PROVE  SubSeq(queue, m, n) \in Seq(Clients)
  <1>1. Len(queue) \in Nat BY LenProperties
  <1>2. \A i \in m..n : queue[i] \in Clients
    BY <1>1, ElementOfSeq
  <1> QED BY <1>2, SubSeqProperties

-----------------------------------------------------------------------------
(* The first place of a client in a queue.                                 *)

LEMMA Least ==
  ASSUME NEW T, T \subseteq Nat, T # {}
  PROVE  \E x \in T : \A y \in T : ~(y < x)
  <1> DEFINE R == OpToRel(<, Nat)
  <1>1. IsWellFoundedOn(R, Nat)
    BY NatLessThanWellFounded
  <1>2. \A x \in Nat, y \in Nat : y < x => <<y, x>> \in R
    BY DEF OpToRel
  <1> HIDE DEF R
  <1>3. PICK x \in T : \A y \in T : ~(<<y, x>> \in R)
    BY <1>1, WFMin
  <1>4. ASSUME NEW y \in T PROVE ~(y < x)
    <2>1. x \in Nat /\ y \in Nat OBVIOUS
    <2>2. <<y, x>> \notin R BY <1>3
    <2>3. y < x => <<y, x>> \in R BY <1>2, <2>1
    <2> QED BY <2>2, <2>3
  <1> QED BY <1>4

LEMMA WithoutType ==
  ASSUME NEW queue \in Seq(Clients), NEW c, Has(queue, c)
  PROVE  Without(queue, c) \in Seq(Clients)
  <1> DEFINE T == {i \in DOMAIN queue : queue[i] = c}
  <1> DEFINE first == CHOOSE i \in DOMAIN queue :
                        queue[i] = c /\ \A j \in 1..i - 1 : queue[j] # c
  <1>1. Len(queue) \in Nat /\ DOMAIN queue = 1..Len(queue)
    BY LenProperties
  <1>2. PICK x \in T : \A y \in T : ~(y < x)
    <2>1. T \subseteq Nat BY <1>1
    <2>2. T # {} BY DEF Has
    <2> QED BY <2>1, <2>2, Least
  <1>3. \A j \in 1..x - 1 : queue[j] # c
    BY <1>1, <1>2
  <1>4. first \in DOMAIN queue
    BY <1>2, <1>3
  <1> HIDE DEF T, first
  <1>5. SubSeq(queue, 1, first - 1) \in Seq(Clients)
    BY <1>1, <1>4, SubQueue
  <1>6. SubSeq(queue, first + 1, Len(queue)) \in Seq(Clients)
    BY <1>1, <1>4, SubQueue
  <1>7. SubSeq(queue, 1, first - 1) \o SubSeq(queue, first + 1, Len(queue))
          \in Seq(Clients)
    BY <1>5, <1>6, ConcatProperties
  <1> QED BY <1>7 DEF Without, first

-----------------------------------------------------------------------------
(* The manager and its clients.                                            *)

DialInv == TypeOK /\ CountInv /\ WaitersHaveADial /\ ManagerBacked

\* ManagerBacked, if q are the messages posted.
Backed(q) ==
  nCurrentState # "IDLE" =>
    \/ Run_Info.run_state # "INVALID"
    \/ Contains(q, "ctrl", {"START"})
    \/ Contains(q, "mgr", Ends)

LEMMA BackedAppend ==
  ASSUME NEW q \in Seq(Messages), NEW m \in Messages, Backed(q)
  PROVE  Backed(Append(q, m))
  BY AppendKeeps DEF Backed

\* A message that neither starts a dial nor reports its end can be taken.
LEMMA BackedRest ==
  ASSUME posted \in Seq(Messages), posted # <<>>, ManagerBacked,
         ~(Head(posted).to = "ctrl" /\ Head(posted).msg = "START"),
         ~(Head(posted).to = "mgr" /\ Head(posted).msg \in Ends)
  PROVE  Backed(Rest)
  <1>1. Contains(posted, "ctrl", {"START"}) => Contains(Rest, "ctrl", {"START"})
    BY TailKeeps DEF Rest
  <1>2. Contains(posted, "mgr", Ends) => Contains(Rest, "mgr", Ends)
    BY TailKeeps DEF Rest
  <1> QED BY <1>1, <1>2 DEF Backed, ManagerBacked, Posted, Contains

LEMMA SelConnectType ==
  ASSUME DialInv, NEW c \in Clients, NEW q, DIALER_SelConnect(Info[c], q),
         posted' \in Seq(Messages)
  PROVE  DialerTypeOK' /\ CountInv'
  <1>1. Info[c] \in Infos /\ Mode[Info[c]] \in {"DATA", "GPRS"}
    BY InfoAssumption, ModeAssumption
  <1>2. /\ DialInfo \in [src : Infos \cup {NULL}, AutoHangup : BOOLEAN]
        /\ mac \in Macs
    BY DEF DialInv, TypeOK, DialerTypeOK
  <1>3. DialInfo' \in [src : Infos \cup {NULL}, AutoHangup : BOOLEAN]
    BY <1>1, <1>2, SettingAssumption DEF DIALER_SelConnect, GetEnvelope
  <1>4. mac' \in Macs
    BY <1>2 DEF DIALER_SelConnect, Macs
  <1> QED BY <1>3, <1>4
      DEF DialInv, TypeOK, DialerTypeOK, CountInv, DIALER_SelConnect

\* A step that leaves the dialer alone and the manager where it was.
LEMMA KeptStep ==
  ASSUME DialInv, UNCHANGED <<Run_Info, DialInfo, timers, awake, mac>>,
         posted' \in Seq(Messages), Backed(posted'),
         nCurrentState' \in DialStates,
         nCurrentState' = "IDLE" <=> nCurrentState = "IDLE",
         CurrentDialQueue' \in Seq(Clients),
         DialWaitQueue' \in Seq(Clients),
         nCurrentState # "IDLE" \/ DialWaitQueue' = <<>>,
         nConnectState' \in [Clients -> DialStates]
  PROVE  DialInv'
  <1>1. DialerTypeOK' /\ CountInv'
    BY DEF DialInv, TypeOK, DialerTypeOK, CountInv
  <1>2. ManagerBacked'
    BY DEF Backed, ManagerBacked, Posted, Contains
  <1> QED BY <1>1, <1>2 DEF DialInv, TypeOK, WaitersHaveADial

LEMMA SelConnectStep ==
  ASSUME DialInv, NEW c \in Clients, NEW q \in Seq(Messages), Backed(q),
         DIALMGR_SelConnect(c, q)
  PROVE  DialInv'
  <1>1. /\ CurrentDialQueue \in Seq(Clients) /\ DialWaitQueue \in Seq(Clients)
        /\ nConnectState \in [Clients -> DialStates]
        /\ Run_Info \in RunInfos /\ mac \in Macs
        /\ nCurrentState \in DialStates
        /\ DialWaitQueue # <<>> => nCurrentState # "IDLE"
    BY DEF DialInv, TypeOK, DialerTypeOK, WaitersHaveADial
  <1>2. /\ Append(CurrentDialQueue, c) \in Seq(Clients)
        /\ Append(DialWaitQueue, c) \in Seq(Clients)
    BY <1>1, AppendProperties
  <1>3. \A state \in {"DIALING", "IDLE"} :
          [nConnectState EXCEPT ![c] = state] \in [Clients -> DialStates]
    BY <1>1 DEF DialStates
  <1>4. CASE /\ nCurrentState = "IDLE"
             /\ DIALER_SelConnect(Info[c], q)
             /\ nCurrentState' = "DIALING"
             /\ CurrentDialQueue' = Append(CurrentDialQueue, c)
             /\ nConnectState' = [nConnectState EXCEPT ![c] = "DIALING"]
             /\ UNCHANGED DialWaitQueue
    <2>1. Message("ctrl", "START") \in Messages
      BY MessageTypes DEF CtrlMessages
    <2>2. posted' \in Seq(Messages) /\ Contains(posted', "ctrl", {"START"})
      BY <1>4, <2>1, AppendKeeps, AppendProperties
      DEF DIALER_SelConnect, Message
    <2>3. DialerTypeOK' /\ CountInv'
      BY <1>1, <1>4, <2>2, SelConnectType
    <2> QED BY <1>1, <1>2, <1>3, <1>4, <2>2, <2>3
        DEF DialInv, TypeOK, DialStates, WaitersHaveADial, ManagerBacked,
            Posted, Contains
  <1>5. CASE /\ Shares(c)
             /\ CurrentDialQueue' = Append(CurrentDialQueue, c)
             /\ posted' = IF nCurrentState = "CONNECTED"
                            THEN Append(q, Message(c, "NETCONNECT")) ELSE q
             /\ nConnectState' = [nConnectState EXCEPT ![c] = "DIALING"]
             /\ UNCHANGED <<nCurrentState, DialWaitQueue, Run_Info, DialInfo,
                            timers, awake, mac>>
    <2>1. Message(c, "NETCONNECT") \in Messages BY MessageTypes DEF Reports
    <2>2. posted' \in Seq(Messages) /\ Backed(posted')
      BY <1>5, <2>1, BackedAppend, AppendProperties
    <2> QED BY <1>1, <1>2, <1>3, <1>5, <2>2, KeptStep
  <1>6. CASE /\ nCurrentState # "IDLE"
             /\ DialWaitQueue' = Append(DialWaitQueue, c)
             /\ posted' = q
             /\ nConnectState' = [nConnectState EXCEPT ![c] = "DIALING"]
             /\ UNCHANGED <<nCurrentState, CurrentDialQueue, Run_Info,
                            DialInfo, timers, awake, mac>>
    BY <1>1, <1>2, <1>3, <1>6, KeptStep
  <1>7. CASE /\ posted' = q
             /\ nConnectState' = [nConnectState EXCEPT ![c] = "IDLE"]
             /\ UNCHANGED <<mgrVars, Run_Info, DialInfo, timers, awake, mac>>
    BY <1>1, <1>3, <1>7, KeptStep DEF mgrVars
  <1> QED BY <1>4, <1>5, <1>6, <1>7 DEF DIALMGR_SelConnect

LEMMA DialLemma ==
  ASSUME DialInv, NEW c \in Clients, Dial(c)
  PROVE  DialInv'
  <1>1. /\ posted \in Seq(Messages) /\ nCurrentState \in DialStates
        /\ CurrentDialQueue \in Seq(Clients) /\ DialWaitQueue \in Seq(Clients)
        /\ nConnectState \in [Clients -> DialStates]
        /\ Backed(posted)
        /\ nCurrentState # "IDLE" \/ DialWaitQueue = <<>>
    BY DEF DialInv, TypeOK, DialerTypeOK, ManagerBacked, Posted, Backed,
           Contains, WaitersHaveADial
  <1>2. CASE DIALMGR_SelConnect(c, posted)
    BY <1>1, <1>2, SelConnectStep
  <1>3. CASE /\ nConnectState' = [nConnectState EXCEPT ![c] = "IDLE"]
             /\ UNCHANGED <<dialerVars, mgrVars>>
    <2>1. nConnectState' \in [Clients -> DialStates]
      BY <1>1, <1>3 DEF DialStates
    <2>2. /\ UNCHANGED <<Run_Info, DialInfo, timers, awake, mac, posted>>
          /\ UNCHANGED <<nCurrentState, CurrentDialQueue, DialWaitQueue>>
      BY <1>3 DEF dialerVars, mgrVars
    <2> QED BY <1>1, <2>1, <2>2, KeptStep
  <1> QED BY <1>2, <1>3 DEF Dial

LEMMA HangUpLemma ==
  ASSUME DialInv, NEW c \in Clients, MmsHangUp(c) \/ MailHangUp(c)
  PROVE  DialInv'
  <1>1. /\ posted \in Seq(Messages) /\ nCurrentState \in DialStates
        /\ CurrentDialQueue \in Seq(Clients) /\ DialWaitQueue \in Seq(Clients)
        /\ nConnectState \in [Clients -> DialStates]
        /\ Backed(posted)
        /\ nCurrentState # "IDLE" \/ DialWaitQueue = <<>>
    BY DEF DialInv, TypeOK, DialerTypeOK, ManagerBacked, Posted, Backed,
           Contains, WaitersHaveADial
  <1>2. /\ UNCHANGED <<Run_Info, DialInfo, timers, awake, mac>>
        /\ nConnectState' \in [Clients -> DialStates]
    BY <1>1 DEF MmsHangUp, MailHangUp, DialStates
  <1>3. CASE HangUpDial(c)
    <2>1. PICK msg \in HangUpMessages :
            posted' = Append(posted, Message("ctrl", msg))
      BY <1>3 DEF HangUpDial
    <2>2. Run_Info.run_state # "INVALID" /\ msg \in CtrlMessages
      BY <2>1 DEF HangUpMessages, CtrlMessages
    <2>3. posted' \in Seq(Messages)
      BY <1>1, <2>1, <2>2, MessageTypes, AppendProperties
    <2>4. CountInv' /\ DialerTypeOK'
      BY <1>2, <2>3 DEF DialInv, TypeOK, DialerTypeOK, CountInv
    <2> QED BY <1>1, <1>2, <1>3, <2>2, <2>4
        DEF HangUpDial, DialInv, TypeOK, DialStates, WaitersHaveADial,
            ManagerBacked
  <1>4. CASE LeaveQueue(c)
    <2>1. Message(c, "NETBROKEN") \in Messages BY MessageTypes DEF Reports
    <2>2. posted' \in Seq(Messages) /\ Backed(posted')
      BY <1>1, <1>4, <2>1, BackedAppend, AppendProperties DEF LeaveQueue
    <2>3. /\ CurrentDialQueue' \in Seq(Clients)
          /\ DialWaitQueue' \in Seq(Clients)
      BY <1>1, <1>4, WithoutType DEF LeaveQueue, Listed
    <2>4. nCurrentState # "IDLE" \/ DialWaitQueue' = <<>>
      <3>1. Has(<<>>, c) = FALSE BY DEF Has
      <3> QED BY <1>1, <1>4, <3>1 DEF LeaveQueue, Listed
    <2> QED BY <1>1, <1>2, <1>4, <2>2, <2>3, <2>4, KeptStep DEF LeaveQueue
  <1>5. CASE /\ posted' = Append(posted, Message(c, "NET_ABNORMAL"))
             /\ UNCHANGED mgrVars
    <2>1. Message(c, "NET_ABNORMAL") \in Messages BY MessageTypes DEF Reports
    <2>2. posted' \in Seq(Messages) /\ Backed(posted')
      BY <1>1, <1>5, <2>1, BackedAppend, AppendProperties
    <2> QED BY <1>1, <1>2, <1>5, <2>2, KeptStep DEF mgrVars
  <1> QED BY <1>3, <1>4, <1>5 DEF MmsHangUp, MailHangUp

\* A report to a client can be taken.
LEMMA ClientRest ==
  ASSUME DialInv, NEW c \in Clients, NEW msg, Got(c, msg)
  PROVE  Rest \in Seq(Messages) /\ Backed(Rest)
  <1>1. posted \in Seq(Messages) /\ posted # <<>> /\ ManagerBacked
    BY DEF DialInv, TypeOK, DialerTypeOK, Got
  <1>2. Head(posted).to \notin {"ctrl", "mgr"}
    BY NamesAssumption DEF Got, Message
  <1> QED BY <1>1, <1>2, BackedRest, RestType

LEMMA ClientStep ==
  ASSUME DialInv, NEW c \in Clients, Client(c)
  PROVE  DialInv'
  <1>1. Rest \in Seq(Messages) /\ Backed(Rest)
    BY ClientRest DEF Client, ClientConnect, ClientBroken
  <1>2. /\ nCurrentState \in DialStates
        /\ CurrentDialQueue \in Seq(Clients) /\ DialWaitQueue \in Seq(Clients)
        /\ nConnectState \in [Clients -> DialStates]
        /\ nCurrentState # "IDLE" \/ DialWaitQueue = <<>>
    BY DEF DialInv, TypeOK, WaitersHaveADial
  <1>3. CASE DIALMGR_SelConnect(c, Rest)
    BY <1>1, <1>3, SelConnectStep
  <1>4. CASE /\ Silent
             /\ UNCHANGED <<mgrVars, Run_Info, DialInfo, timers, awake, mac>>
             /\ nConnectState' \in [Clients -> DialStates]
    BY <1>1, <1>2, <1>4, KeptStep DEF mgrVars, Silent
  <1>5. \A state \in DialStates :
          [nConnectState EXCEPT ![c] = state] \in [Clients -> DialStates]
    BY <1>2
  <1>6. nConnectState[c] \in DialStates
        /\ "CONNECTED" \in DialStates /\ "IDLE" \in DialStates
    BY <1>2 DEF DialStates
  <1> QED BY <1>3, <1>4, <1>5, <1>6 DEF Client, ClientConnect, ClientBroken

LEMMA MgrConnectStep ==
  ASSUME DialInv, MgrConnect
  PROVE  DialInv'
  <1>1. /\ posted \in Seq(Messages) /\ posted # <<>> /\ ManagerBacked
        /\ nCurrentState \in DialStates
        /\ CurrentDialQueue \in Seq(Clients) /\ DialWaitQueue \in Seq(Clients)
        /\ nConnectState \in [Clients -> DialStates]
        /\ nCurrentState # "IDLE" \/ DialWaitQueue = <<>>
    BY DEF DialInv, TypeOK, DialerTypeOK, WaitersHaveADial, MgrConnect, Got
  <1>2. Rest \in Seq(Messages) /\ Backed(Rest)
    <2>1. Head(posted).to = "mgr" /\ Head(posted).msg = "NETCONNECT"
      BY DEF MgrConnect, Got, Message
    <2> QED BY <1>1, <2>1, RestType, BackedRest DEF Ends
  <1>3. MessageTo(CurrentDialQueue, "NETCONNECT") \in Seq(Messages)
    BY <1>1, MessageToType DEF Reports
  <1>4. Backed(Rest \o MessageTo(CurrentDialQueue, "NETCONNECT"))
    BY <1>2, <1>3, ConcatKeeps DEF Backed
  <1>5. posted' \in Seq(Messages) /\ Backed(posted')
    BY <1>2, <1>3, <1>4, ConcatProperties DEF MgrConnect, Silent
  <1> QED BY <1>1, <1>5, KeptStep DEF MgrConnect, DialStates

LEMMA MgrBrokenStep ==
  ASSUME DialInv, MgrBroken
  PROVE  DialInv'
  <1>1. /\ posted \in Seq(Messages)
        /\ CurrentDialQueue \in Seq(Clients) /\ DialWaitQueue \in Seq(Clients)
        /\ nConnectState' \in [Clients -> DialStates]
    BY DEF DialInv, TypeOK, DialerTypeOK, MgrBroken
  <1>2. Len(DialWaitQueue) \in Nat BY <1>1, LenProperties
  <1> DEFINE told(k) == Rest \o MessageTo(CurrentDialQueue, "NETBROKEN")
                        \o MessageTo(SubSeq(DialWaitQueue, 1, k), "NETBROKEN")
  <1> DEFINE waiting(k) == SubSeq(DialWaitQueue, k + 2, Len(DialWaitQueue))
  <1>3. PICK k \in 0..Len(DialWaitQueue) :
          \/ /\ k = Len(DialWaitQueue)
             /\ posted' = told(k)
             /\ nCurrentState' = "IDLE"
             /\ CurrentDialQueue' = <<>>
             /\ DialWaitQueue' = <<>>
             /\ UNCHANGED <<Run_Info, DialInfo, timers, awake, mac>>
          \/ /\ k < Len(DialWaitQueue)
             /\ DIALER_SelConnect(Info[DialWaitQueue[k + 1]], told(k))
             /\ nCurrentState' = "DIALING"
             /\ CurrentDialQueue' =
                  SubSeq(waiting(k), 1, Joining(waiting(k)))
             /\ DialWaitQueue' =
                  SubSeq(waiting(k), Joining(waiting(k)) + 1, Len(waiting(k)))
    BY DEF MgrBroken
  <1>4. told(k) \in Seq(Messages)
    <2>1. SubSeq(DialWaitQueue, 1, k) \in Seq(Clients)
      BY <1>1, <1>2, SubQueue
    <2> DEFINE first == MessageTo(CurrentDialQueue, "NETBROKEN")
    <2> DEFINE second == MessageTo(SubSeq(DialWaitQueue, 1, k), "NETBROKEN")
    <2>2. /\ Rest \in Seq(Messages)
          /\ first \in Seq(Messages) /\ second \in Seq(Messages)
      BY <1>1, <2>1, RestType, MessageToType DEF Reports
    <2> HIDE DEF first, second
    <2>3. Rest \o first \o second \in Seq(Messages)
      BY <2>2, ConcatProperties
    <2> QED BY <2>3 DEF first, second
  <1>5. waiting(k) \in Seq(Clients)
    BY <1>1, <1>2, SubQueue
  <1> HIDE DEF told, waiting
  <1>6. CASE /\ posted' = told(k)
             /\ nCurrentState' = "IDLE"
             /\ CurrentDialQueue' = <<>>
             /\ DialWaitQueue' = <<>>
             /\ UNCHANGED <<Run_Info, DialInfo, timers, awake, mac>>
    <2>1. <<>> \in Seq(Clients) BY EmptySeq
    <2>2. DialerTypeOK' /\ CountInv'
      BY <1>4, <1>6 DEF DialInv, TypeOK, DialerTypeOK, CountInv
    <2> QED BY <1>1, <1>6, <2>1, <2>2
        DEF DialInv, TypeOK, DialStates, WaitersHaveADial, ManagerBacked
  <1>7. CASE /\ k < Len(DialWaitQueue)
             /\ DIALER_SelConnect(Info[DialWaitQueue[k + 1]], told(k))
             /\ nCurrentState' = "DIALING"
             /\ CurrentDialQueue' =
                  SubSeq(waiting(k), 1, Joining(waiting(k)))
             /\ DialWaitQueue' =
                  SubSeq(waiting(k), Joining(waiting(k)) + 1, Len(waiting(k)))
    <2>1. DialWaitQueue[k + 1] \in Clients
      BY <1>1, <1>2, <1>7, ElementOfSeq
    <2>2. Message("ctrl", "START") \in Messages
      BY MessageTypes DEF CtrlMessages
    <2>3. posted' \in Seq(Messages) /\ Contains(posted', "ctrl", {"START"})
      BY <1>4, <1>7, <2>2, AppendKeeps, AppendProperties
      DEF DIALER_SelConnect, Message
    <2>4. DialerTypeOK' /\ CountInv'
      BY <1>7, <2>1, <2>3, SelConnectType
    <2>5. /\ Len(waiting(k)) \in Nat /\ Joining(waiting(k)) \in Nat
          /\ Joining(waiting(k)) <= Len(waiting(k))
      <3>1. /\ Len(waiting(k)) \in Nat
            /\ waiting(k) # <<>> => Len(waiting(k)) \in Nat \ {0}
        BY <1>5, LenProperties, EmptySeq
      <3> QED BY <3>1 DEF Joining
    <2>6. /\ CurrentDialQueue' \in Seq(Clients)
          /\ DialWaitQueue' \in Seq(Clients)
      BY <1>5, <1>7, <2>5, SubQueue
    <2> QED BY <1>1, <1>7, <2>3, <2>4, <2>6
        DEF DialInv, TypeOK, DialStates, WaitersHaveADial, ManagerBacked,
            Posted, Contains
  <1> QED BY <1>3, <1>6, <1>7

LEMMA MgrAbnormalStep ==
  ASSUME DialInv, MgrAbnormal
  PROVE  DialInv'
  <1>1. /\ posted \in Seq(Messages)
        /\ CurrentDialQueue \in Seq(Clients) /\ DialWaitQueue \in Seq(Clients)
    BY DEF DialInv, TypeOK, DialerTypeOK
  <1> DEFINE first == MessageTo(CurrentDialQueue, "NET_ABNORMAL")
  <1> DEFINE second == MessageTo(DialWaitQueue, "NET_ABNORMAL")
  <1>2. /\ Rest \in Seq(Messages)
        /\ first \in Seq(Messages) /\ second \in Seq(Messages)
    BY <1>1, RestType, MessageToType DEF Reports
  <1>3. posted' = Rest \o first \o second BY DEF MgrAbnormal
  <1> HIDE DEF first, second
  <1>4. posted' \in Seq(Messages) BY <1>2, <1>3, ConcatProperties
  <1>5. <<>> \in Seq(Clients) BY EmptySeq
  <1>6. DialerTypeOK' /\ CountInv'
    BY <1>4 DEF MgrAbnormal, DialInv, TypeOK, DialerTypeOK, CountInv
  <1> QED BY <1>5, <1>6 DEF MgrAbnormal, DialInv, TypeOK, DialStates,
                            WaitersHaveADial, ManagerBacked

-----------------------------------------------------------------------------
(* The dialer under its manager.                                           *)

\* The dialer handles timers, when nothing is posted, and its own messages.
LEMMA DialerHead ==
  ASSUME dial_Ctl_Proc
  PROVE  posted = <<>> \/ Head(posted).to = "ctrl"
  <1>1. \A msg : Got("ctrl", msg) => Head(posted).to = "ctrl"
    BY DEF Got, Message
  <1>2. CASE Start \/ HangUp \/ RunCancel \/ NegotiateEnd \/ MacLineStatus
    BY <1>1, <1>2 DEF Start, HangUp, RunCancel, NegotiateEnd, MacLineStatus
  <1>3. CASE \E result \in ScriptResults : ExplainEnd(result)
    BY <1>1, <1>3 DEF ExplainEnd, DialEnd, LoginEnd
  <1>4. CASE TestTimer \/ BusyTimer \/ StopTimer
    BY <1>4 DEF TestTimer, BusyTimer, StopTimer, Fires
  <1> QED BY <1>2, <1>3, <1>4 DEF dial_Ctl_Proc

LEMMA DialerLemma ==
  ASSUME DialInv, Dialer
  PROVE  DialInv'
  <1>1. DialerTypeOK' /\ CountInv' /\ Answers
    BY DialerStep DEF DialInv, TypeOK, Dialer
  <1>2. UNCHANGED <<nCurrentState, CurrentDialQueue, DialWaitQueue,
                    nConnectState>>
    BY DEF Dialer, mgrVars
  <1>3. posted \in Seq(Messages) /\ ManagerBacked
    BY DEF DialInv, TypeOK, DialerTypeOK
  <1>4. ManagerBacked'
    <2>1. CASE Run_Info'.run_state # "INVALID"
      BY <2>1 DEF ManagerBacked
    <2>2. CASE \E report \in {"NETBROKEN", "NET_ABNORMAL"} : REPORTBACK(report)
      <3>1. PICK report \in {"NETBROKEN", "NET_ABNORMAL"} : REPORTBACK(report)
        BY <2>2
      <3>2. Message("mgr", report) \in Messages BY MessageTypes DEF Reports
      <3>3. Contains(posted', "mgr", Ends)
        BY <1>3, <3>1, <3>2, RestType, AppendKeeps
        DEF REPORTBACK, Message, Ends
      <3> QED BY <3>3 DEF ManagerBacked, Posted, Contains
    <2>3. CASE /\ Run_Info'.run_state = Run_Info.run_state
               /\ Silent
               /\ ~Got("ctrl", "START")
      <3>1. posted = <<>> \/ Head(posted).to = "ctrl"
        BY DialerHead DEF Dialer
      <3>2. Backed(Rest)
        <4>1. CASE posted = <<>>
          BY <1>3, <4>1 DEF Backed, ManagerBacked, Posted, Contains, Rest
        <4>2. CASE posted # <<>>
          <5>1. Head(posted) \in Messages
            BY <1>3, <4>2, HeadTailProperties
          <5>2. Head(posted).msg # "START"
            <6>1. SUFFICES ASSUME Head(posted).msg = "START" PROVE FALSE
              OBVIOUS
            <6>2. Head(posted).to = "ctrl" BY <3>1, <4>2
            <6>3. Head(posted) = Message("ctrl", "START")
              BY <5>1, <6>1, <6>2 DEF Messages, Message
            <6> QED BY <2>3, <4>2, <6>3 DEF Got
          <5> QED BY <1>3, <3>1, <4>2, <5>2, BackedRest
        <4> QED BY <4>1, <4>2
      <3> QED BY <1>2, <2>3, <3>2
          DEF Silent, Backed, ManagerBacked, Posted, Contains
    <2> QED BY <1>1, <2>1, <2>2, <2>3 DEF Answers
  <1> QED BY <1>1, <1>2, <1>4 DEF DialInv, TypeOK, WaitersHaveADial

LEMMA MacLemma ==
  ASSUME DialInv, MacLayer
  PROVE  DialInv'
  <1>1. /\ DialerTypeOK' /\ CountInv'
        /\ UNCHANGED <<Run_Info, DialInfo, timers, awake>>
        /\ \E msg \in CtrlMessages : MacPosts(msg)
    BY MacStep DEF DialInv, TypeOK, MacLayer
  <1>2. UNCHANGED <<nCurrentState, CurrentDialQueue, DialWaitQueue,
                    nConnectState>>
    BY DEF MacLayer, mgrVars
  <1>3. posted \in Seq(Messages) /\ Backed(posted)
    BY DEF DialInv, TypeOK, DialerTypeOK, ManagerBacked, Posted, Backed,
           Contains
  <1>4. Backed(posted')
    BY <1>1, <1>3, MessageTypes, BackedAppend DEF MacPosts
  <1>5. ManagerBacked'
    BY <1>1, <1>2, <1>4 DEF Backed, ManagerBacked, Posted, Contains
  <1> QED BY <1>1, <1>2, <1>5 DEF DialInv, TypeOK, WaitersHaveADial

-----------------------------------------------------------------------------
(* The inductive invariant.                                                *)

LEMMA InitDialInv == Init => DialInv
  <1> SUFFICES ASSUME Init PROVE DialInv
    OBVIOUS
  <1>1. <<>> \in Seq(Messages) /\ <<>> \in Seq(Clients)
    BY EmptySeq
  <1>2. DialerTypeOK /\ CountInv
    <2>1. Run_Info \in RunInfos /\ CountInv
      BY RepeatAssumption DEF Init, DialerInit, RunInfos, CountInv
    <2>2. mac \in Macs
      BY DEF Init, DialerInit, Macs, ClosedMac
    <2>3. /\ DialInfo \in [src : Infos \cup {NULL}, AutoHangup : BOOLEAN]
          /\ timers \subseteq {"TEST", "BUSY", "STOP"}
          /\ awake \in BOOLEAN
      BY DEF Init, DialerInit
    <2> QED BY <1>1, <2>1, <2>2, <2>3 DEF Init, DialerInit, DialerTypeOK
  <1> QED BY <1>1, <1>2 DEF Init, DialInv, TypeOK, DialStates,
                            WaitersHaveADial, ManagerBacked

LEMMA StepDialInv == DialInv /\ [Next]_vars => DialInv'
  <1> SUFFICES ASSUME DialInv, [Next]_vars PROVE DialInv'
    OBVIOUS
  <1>1. CASE Dialer BY <1>1, DialerLemma
  <1>2. CASE MgrConnect BY <1>2, MgrConnectStep
  <1>3. CASE MgrBroken BY <1>3, MgrBrokenStep
  <1>4. CASE MgrAbnormal BY <1>4, MgrAbnormalStep
  <1>5. CASE \E c \in Clients : Client(c) BY <1>5, ClientStep
  <1>6. CASE MacLayer BY <1>6, MacLemma
  <1>7. CASE \E c \in Clients : Dial(c) BY <1>7, DialLemma
  <1>8. CASE \E c \in Clients : MmsHangUp(c) \/ MailHangUp(c)
    BY <1>8, HangUpLemma
  <1>9. CASE UNCHANGED vars
    BY <1>9 DEF vars, dialerVars, mgrVars, DialInv, TypeOK, DialerTypeOK,
                CountInv, WaitersHaveADial, ManagerBacked, Posted
  <1> QED BY <1>1, <1>2, <1>3, <1>4, <1>5, <1>6, <1>7, <1>8, <1>9
      DEF Next, Procs, DialMgrWindowProc, Users

LEMMA AlwaysDialInv == Spec => []DialInv
  BY InitDialInv, StepDialInv, PTL DEF Spec

\* Every state of the dialer, its manager and the clients is one of those the
\* code declares: the counter of busy calls never passes its limit by more
\* than the call that gives up.
THEOREM TypeCorrect == Spec => []TypeOK
  <1>1. DialInv => TypeOK BY DEF DialInv
  <1> QED BY <1>1, AlwaysDialInv, PTL

\* Whatever fails, and however many dial and hang up in whatever order, no
\* client is left in the waiting queue once the manager is idle: the next
\* dial is the only thing that would serve it.
THEOREM WaitersServed == Spec => []WaitersHaveADial
  <1>1. DialInv => WaitersHaveADial BY DEF DialInv
  <1> QED BY <1>1, AlwaysDialInv, PTL

\* The manager is never left waiting for a dialer that is idle and owes it
\* nothing: every path of dial_Ctl_Proc that ends in INVALID reports it.
THEOREM ManagerServed == Spec => []ManagerBacked
  <1>1. DialInv => ManagerBacked BY DEF DialInv
  <1> QED BY <1>1, AlwaysDialInv, PTL

-----------------------------------------------------------------------------
(* What a client knows: whoever takes itself to be on line, or finds a      *)
(* NETCONNECT in the queue, is on a list or finds the end behind it.        *)

ToldAfter(q, c, i) ==
  \E j \in DOMAIN q : i < j /\ q[j].to = c /\ q[j].msg \in Ends

\* The clients of L are listed, and f is what each takes its connection to be.
Known(q, L, f) ==
  /\ \A c \in Clients : f[c] # "IDLE" => c \in L \/ Contains(q, c, Ends)
  /\ \A c \in Clients, i \in DOMAIN q :
       q[i].to = c /\ q[i].msg = "NETCONNECT" => c \in L \/ ToldAfter(q, c, i)

\* The clients on a list, as far as those of X go: the others do not matter.
OnList(X) == {c \in Clients : c \in X => Listed(c)}
InformedInv(X) == Known(posted, OnList(X), nConnectState)

\* The clients that leave the lists are told by the messages of r.
LEMMA KnownConcat ==
  ASSUME NEW q \in Seq(Messages), NEW r \in Seq(Messages), NEW L, NEW K, NEW f,
         Known(q, L, f), \A c \in L : c \in K \/ Contains(r, c, Ends),
         \A i \in DOMAIN r :
           r[i].msg = "NETCONNECT" => r[i].to \in K \cup {"ctrl", "mgr"}
  PROVE  Known(q \o r, K, f)
  <1>1. /\ q \o r \in Seq(Messages)
        /\ Len(q \o r) = Len(q) + Len(r)
        /\ \A i \in 1..Len(q) + Len(r) :
             (q \o r)[i] = IF i <= Len(q) THEN q[i] ELSE r[i - Len(q)]
    BY ConcatProperties
  <1>2. /\ Len(q) \in Nat /\ DOMAIN q = 1..Len(q)
        /\ Len(r) \in Nat /\ DOMAIN r = 1..Len(r)
        /\ DOMAIN (q \o r) = 1..Len(q) + Len(r)
    BY <1>1, LenProperties
  <1>3. \A i \in 1..Len(q) : /\ i \in 1..Len(q) + Len(r)
                             /\ (q \o r)[i] = q[i]
    BY <1>1, <1>2
  <1>4. \A i \in 1..Len(r) : /\ Len(q) + i \in 1..Len(q) + Len(r)
                             /\ (q \o r)[Len(q) + i] = r[i]
    BY <1>1, <1>2
  <1>5. ASSUME NEW c, NEW i \in 1..Len(q), Contains(r, c, Ends)
        PROVE  ToldAfter(q \o r, c, i)
    <2>1. PICK j \in 1..Len(r) : r[j].to = c /\ r[j].msg \in Ends
      BY <1>2, <1>5 DEF Contains
    <2> DEFINE k == Len(q) + j
    <2>2. i < k /\ k \in 1..Len(q) + Len(r) /\ (q \o r)[k] = r[j]
      BY <1>2, <1>4
    <2> HIDE DEF k
    <2>3. k \in DOMAIN (q \o r) /\ i < k BY <1>2, <2>2
    <2>4. (q \o r)[k].to = c /\ (q \o r)[k].msg \in Ends
      BY <2>1, <2>2
    <2> QED BY <2>3, <2>4 DEF ToldAfter
  <1>6. ASSUME NEW c \in Clients, f[c] # "IDLE"
        PROVE  c \in K \/ Contains(q \o r, c, Ends)
    <2>1. Contains(q, c, Ends) => Contains(q \o r, c, Ends)
      BY ConcatKeeps
    <2>2. ASSUME Contains(r, c, Ends) PROVE Contains(q \o r, c, Ends)
      <3>1. PICK j \in 1..Len(r) : r[j].to = c /\ r[j].msg \in Ends
        BY <1>2, <2>2 DEF Contains
      <3> DEFINE k == Len(q) + j
      <3>2. k \in 1..Len(q) + Len(r) /\ (q \o r)[k] = r[j]
        BY <1>2, <1>4
      <3> HIDE DEF k
      <3> QED BY <1>2, <3>1, <3>2 DEF Contains
    <2> QED BY <1>6, <2>1, <2>2 DEF Known
  <1>7. ASSUME NEW c \in Clients, NEW i \in 1..Len(q) + Len(r),
               (q \o r)[i].to = c, (q \o r)[i].msg = "NETCONNECT"
        PROVE  c \in K \/ ToldAfter(q \o r, c, i)
    <2>1. CASE i <= Len(q)
      <3>1. i \in 1..Len(q) BY <1>2, <2>1
      <3>2. c \in L \/ ToldAfter(q, c, i)
        BY <1>2, <1>3, <1>7, <3>1 DEF Known
      <3>3. ToldAfter(q, c, i) => ToldAfter(q \o r, c, i)
        BY <1>2, <1>3 DEF ToldAfter
      <3> QED BY <1>5, <3>1, <3>2, <3>3
    <2>2. CASE ~(i <= Len(q))
      <3>1. i - Len(q) \in 1..Len(r) /\ (q \o r)[i] = r[i - Len(q)]
        BY <1>1, <1>2, <2>2
      <3>2. c \in K \cup {"ctrl", "mgr"} BY <1>2, <1>7, <3>1
      <3> QED BY <3>2, NamesAssumption
    <2> QED BY <2>1, <2>2
  <1> QED BY <1>2, <1>6, <1>7 DEF Known

LEMMA KnownAppend ==
  ASSUME NEW q \in Seq(Messages), NEW m \in Messages, NEW L, NEW K, NEW f,
         Known(q, L, f),
         \A c \in L : c \in K \/ (m.to = c /\ m.msg \in Ends),
         m.msg = "NETCONNECT" => m.to \in K \cup {"ctrl", "mgr"}
  PROVE  Known(Append(q, m), K, f)
  <1> DEFINE r == <<m>>
  <1>1. Append(q, m) = q \o r BY DEF r
  <1>2. r \in Seq(Messages) /\ DOMAIN r = {1} /\ r[1] = m
    OBVIOUS
  <1> HIDE DEF r
  <1>3. \A c \in L : c \in K \/ Contains(r, c, Ends)
    BY <1>2 DEF Contains
  <1>4. Known(q \o r, K, f) BY <1>2, <1>3, KnownConcat
  <1> QED BY <1>1, <1>4

\* A message is taken; the end of a dial leaves its client idle.
LEMMA KnownTail ==
  ASSUME NEW q \in Seq(Messages), q # <<>>, NEW L, NEW f, Known(q, L, f)
  PROVE  /\ \A c \in Clients : Head(q) = Message(c, "NETCONNECT") =>
              c \in L \/ Contains(Tail(q), c, Ends)
         /\ (\A c \in Clients : ~(Head(q).to = c /\ Head(q).msg \in Ends)) =>
              Known(Tail(q), L, f)
         /\ \A c \in Clients :
              f \in [Clients -> DialStates] /\ Head(q).to = c =>
                Known(Tail(q), L, [f EXCEPT ![c] = "IDLE"])
  <1>1. /\ Tail(q) \in Seq(Messages) /\ Head(q) = q[1]
        /\ Len(Tail(q)) = Len(q) - 1
        /\ \A j \in 1..Len(Tail(q)) : Tail(q)[j] = q[j + 1]
    BY HeadTailProperties
  <1>2. /\ Len(q) \in Nat /\ DOMAIN q = 1..Len(q) /\ Len(q) # 0
        /\ DOMAIN Tail(q) = 1..Len(q) - 1
    BY <1>1, LenProperties, EmptySeq
  <1>3. \A j \in 1..Len(q) - 1 : j + 1 \in 1..Len(q) /\ Tail(q)[j] = q[j + 1]
    BY <1>1, <1>2
  <1>4. ASSUME NEW c, NEW i \in 1..Len(q), ToldAfter(q, c, i)
        PROVE  \E j \in 1..Len(q) - 1 :
                 i < j + 1 /\ Tail(q)[j].to = c /\ Tail(q)[j].msg \in Ends
    <2>1. PICK j \in 1..Len(q) : i < j /\ q[j].to = c /\ q[j].msg \in Ends
      BY <1>2, <1>4 DEF ToldAfter
    <2>2. j - 1 \in 1..Len(q) - 1 /\ i < (j - 1) + 1 /\ Tail(q)[j - 1] = q[j]
      BY <1>1, <1>2, <2>1
    <2> QED BY <2>1, <2>2
  <1>5. ASSUME NEW c \in Clients, Head(q) = Message(c, "NETCONNECT")
        PROVE  c \in L \/ Contains(Tail(q), c, Ends)
    <2>1. 1 \in 1..Len(q) /\ q[1].to = c /\ q[1].msg = "NETCONNECT"
      BY <1>1, <1>2, <1>5 DEF Message
    <2>2. c \in L \/ ToldAfter(q, c, 1) BY <1>2, <2>1 DEF Known
    <2> QED BY <1>2, <1>4, <2>1, <2>2 DEF Contains
  <1>6. ASSUME NEW c \in Clients, NEW i \in 1..Len(q) - 1,
               Tail(q)[i].to = c, Tail(q)[i].msg = "NETCONNECT"
        PROVE  c \in L \/ ToldAfter(Tail(q), c, i)
    <2>1. c \in L \/ ToldAfter(q, c, i + 1)
      BY <1>2, <1>3, <1>6 DEF Known
    <2>2. ASSUME ToldAfter(q, c, i + 1) PROVE ToldAfter(Tail(q), c, i)
      <3>1. i + 1 \in 1..Len(q) BY <1>2
      <3>2. PICK j \in 1..Len(q) - 1 :
              i + 1 < j + 1 /\ Tail(q)[j].to = c /\ Tail(q)[j].msg \in Ends
        BY <1>4, <2>2, <3>1
      <3>3. i < j BY <1>2, <3>2
      <3> QED BY <1>2, <3>2, <3>3 DEF ToldAfter
    <2> QED BY <2>1, <2>2
  <1>7. ASSUME NEW c, Contains(q, c, Ends), ~(Head(q).to = c /\ Head(q).msg \in Ends)
        PROVE  Contains(Tail(q), c, Ends)
    BY <1>7, TailKeeps
  <1>8. ASSUME \A c \in Clients : ~(Head(q).to = c /\ Head(q).msg \in Ends)
        PROVE  Known(Tail(q), L, f)
    BY <1>2, <1>6, <1>7, <1>8 DEF Known
  <1>9. ASSUME NEW c \in Clients, f \in [Clients -> DialStates], Head(q).to = c
        PROVE  Known(Tail(q), L, [f EXCEPT ![c] = "IDLE"])
    <2>1. \A d \in Clients : [f EXCEPT ![c] = "IDLE"][d] =
                               IF d = c THEN "IDLE" ELSE f[d]
      BY <1>9
    <2> QED BY <1>2, <1>6, <1>7, <1>9, <2>1 DEF Known
  <1> QED BY <1>5, <1>8, <1>9

\* A client becomes idle, or takes itself to be something it is, or will hear
\* that it is not.
LEMMA KnownChange ==
  ASSUME NEW q, NEW L, NEW K, L \subseteq K, NEW f \in [Clients -> DialStates],
         Known(q, L, f), NEW c \in Clients, NEW state,
         state = "IDLE" \/ c \in K \/ Contains(q, c, Ends)
  PROVE  Known(q, K, [f EXCEPT ![c] = state])
  <1>1. \A d \in Clients : [f EXCEPT ![c] = state][d] =
                             IF d = c THEN state ELSE f[d]
    OBVIOUS
  <1> QED BY <1>1 DEF Known

LEMMA HasAppend ==
  ASSUME NEW queue \in Seq(Clients), NEW c \in Clients
  PROVE  \A d : Has(Append(queue, c), d) <=> Has(queue, d) \/ d = c
  <1>1. /\ Append(queue, c) \in Seq(Clients)
        /\ Len(Append(queue, c)) = Len(queue) + 1
        /\ \A i \in 1..Len(queue) : Append(queue, c)[i] = queue[i]
        /\ Append(queue, c)[Len(queue) + 1] = c
    BY AppendProperties
  <1>2. /\ Len(queue) \in Nat /\ DOMAIN queue = 1..Len(queue)
        /\ DOMAIN Append(queue, c) = 1..Len(queue) + 1
    BY <1>1, LenProperties
  <1>3. /\ \A i \in 1..Len(queue) : i \in 1..Len(queue) + 1
        /\ \A i \in 1..Len(queue) + 1 : i \in 1..Len(queue) \/ i = Len(queue) + 1
        /\ Len(queue) + 1 \in 1..Len(queue) + 1
    BY <1>2
  <1> QED BY <1>1, <1>2, <1>3 DEF Has

LEMMA Behind ==
  ASSUME NEW queue \in Seq(Clients), NEW p \in 1..Len(queue)
  PROVE  LET back == SubSeq(queue, p + 1, Len(queue))
         IN /\ Len(back) = Len(queue) - p
            /\ \A i \in 1..Len(queue) - p : back[i] = queue[p + i]
  <1> DEFINE back == SubSeq(queue, p + 1, Len(queue))
  <1> DEFINE n == Len(queue)
  <1>1. n \in Nat BY LenProperties
  <1>2. \A i \in p + 1..n : queue[i] \in Clients
    BY <1>1, ElementOfSeq
  <1>3. /\ Len(back) = IF p + 1 <= n THEN n - (p + 1) + 1 ELSE 0
        /\ \A i \in 1..n - (p + 1) + 1 : back[i] = queue[(p + 1) + i - 1]
    BY <1>1, <1>2, SubSeqProperties
  <1>4. p \in 1..n OBVIOUS
  <1> HIDE DEF back, n
  <1>5. /\ n - (p + 1) + 1 = n - p
        /\ ~(p + 1 <= n) => n - p = 0
        /\ \A i \in Int : (p + 1) + i - 1 = p + i
    BY <1>1, <1>4
  <1>6. Len(back) = n - p BY <1>3, <1>5
  <1>7. \A i \in 1..n - p : i \in Int BY <1>1, <1>4
  <1>8. \A i \in 1..n - p : back[i] = queue[p + i]
    BY <1>3, <1>5, <1>7
  <1> QED BY <1>6, <1>8 DEF back, n

\* Only c leaves its queue.
LEMMA WithoutHas ==
  ASSUME NEW queue \in Seq(Clients), NEW c, Has(queue, c),
         NEW d, d # c, Has(queue, d)
  PROVE  Has(Without(queue, c), d)
  <1> DEFINE T == {i \in DOMAIN queue : queue[i] = c}
  <1> DEFINE first == CHOOSE i \in DOMAIN queue :
                        queue[i] = c /\ \A j \in 1..i - 1 : queue[j] # c
  <1>1. Len(queue) \in Nat /\ DOMAIN queue = 1..Len(queue)
    BY LenProperties
  <1>2. PICK x \in T : \A y \in T : ~(y < x)
    <2>1. T \subseteq Nat BY <1>1
    <2>2. T # {} BY DEF Has
    <2> QED BY <2>1, <2>2, Least
  <1>3. \A j \in 1..x - 1 : queue[j] # c
    BY <1>1, <1>2
  <1>4. first \in DOMAIN queue /\ queue[first] = c
    BY <1>2, <1>3
  <1> DEFINE front == SubSeq(queue, 1, first - 1)
  <1> DEFINE back == SubSeq(queue, first + 1, Len(queue))
  <1>5. Without(queue, c) = front \o back BY DEF Without
  <1> HIDE DEF T, first
  <1>6. first \in 1..Len(queue) BY <1>1, <1>4
  <1>7. front \in Seq(Clients) /\ back \in Seq(Clients)
    BY <1>1, <1>6, SubQueue
  <1>8. /\ Len(front) = first - 1
        /\ \A i \in 1..first - 1 : front[i] = queue[i]
    <2>1. \A i \in 1..first - 1 : queue[i] \in Clients
      BY <1>1, <1>6, ElementOfSeq
    <2> QED BY <1>6, <2>1, SubSeqProperties
  <1>9. /\ Len(back) = Len(queue) - first
        /\ \A i \in 1..Len(queue) - first : back[i] = queue[first + i]
    BY <1>6, Behind
  <1> HIDE DEF front, back
  <1>10. /\ Len(front \o back) = Len(front) + Len(back)
         /\ DOMAIN (front \o back) = 1..Len(front) + Len(back)
         /\ \A i \in 1..Len(front) + Len(back) : (front \o back)[i] =
              IF i <= Len(front) THEN front[i] ELSE back[i - Len(front)]
    BY <1>7, ConcatProperties, LenProperties
  <1>11. PICK i \in 1..Len(queue) : queue[i] = d BY <1>1 DEF Has
  <1>12. i # first BY <1>4, <1>11
  <1>13. CASE i < first
    <2>1. i \in 1..first - 1 /\ i \in 1..Len(front) + Len(back)
          /\ i <= Len(front)
      BY <1>1, <1>6, <1>8, <1>9, <1>11, <1>13
    <2>2. (front \o back)[i] = d BY <1>8, <1>10, <1>11, <2>1
    <2> QED BY <1>5, <1>10, <2>1, <2>2 DEF Has
  <1>14. CASE i > first
    <2> DEFINE k == i - 1
    <2>1. /\ k \in 1..Len(front) + Len(back) /\ ~(k <= Len(front))
          /\ i - first \in 1..Len(queue) - first
          /\ k - Len(front) = i - first /\ first + (i - first) = i
      BY <1>1, <1>6, <1>8, <1>9, <1>11, <1>14
    <2> HIDE DEF k
    <2>2. (front \o back)[k] = back[i - first] BY <1>10, <2>1
    <2>3. back[i - first] = d BY <1>9, <1>11, <2>1
    <2> QED BY <1>5, <1>10, <2>1, <2>2, <2>3 DEF Has
  <1> QED BY <1>1, <1>6, <1>12, <1>13, <1>14

\* What is posted to all clients of a queue.
LEMMA MessageToAll ==
  ASSUME NEW queue \in Seq(Clients), NEW msg \in Reports
  PROVE  /\ MessageTo(queue, msg) \in Seq(Messages)
         /\ \A i \in DOMAIN MessageTo(queue, msg) :
              /\ MessageTo(queue, msg)[i].msg = msg
              /\ Has(queue, MessageTo(queue, msg)[i].to)
         /\ \A c : Has(queue, c) /\ msg \in Ends =>
                     Contains(MessageTo(queue, msg), c, Ends)
  <1>1. MessageTo(queue, msg) \in Seq(Messages) BY MessageToType
  <1>2. DOMAIN MessageTo(queue, msg) = DOMAIN queue BY DEF MessageTo
  <1>3. \A i \in DOMAIN queue : /\ MessageTo(queue, msg)[i].msg = msg
                                /\ MessageTo(queue, msg)[i].to = queue[i]
    BY DEF MessageTo, Message
  <1> QED BY <1>1, <1>2, <1>3 DEF Has, Contains

-----------------------------------------------------------------------------
(* Each step keeps the clients informed.                                   *)

LEMMA DialerPosts ==
  ASSUME dial_Ctl_Proc
  PROVE  Silent \/ \E report \in Reports : REPORTBACK(report)
  <1>1. \A run, ts : OperateHangup(run, ts) =>
          Silent \/ REPORTBACK("NET_ABNORMAL")
    BY DEF OperateHangup
  <1>2. \A ts : OperateDial(ts) => Silent \/ REPORTBACK("NET_ABNORMAL")
    BY DEF OperateDial
  <1>3. \A result : DialEnd(result) => Silent \/ REPORTBACK("NET_ABNORMAL")
    BY <1>1 DEF DialEnd, Abandon, StartNegotiation
  <1>4. \A result : LoginEnd(result) => Silent \/ REPORTBACK("NET_ABNORMAL")
    BY <1>1 DEF LoginEnd, Abandon, StartNegotiation
  <1>5. \A ts : HangupEnd(ts) => REPORTBACK("NETBROKEN")
    BY DEF HangupEnd
  <1>6. CASE Start \/ HangUp \/ RunCancel
    BY <1>2, <1>6 DEF Start, HangUp, RunCancel, StopNetwork, OperateStop, Reports
  <1>7. CASE \E result \in ScriptResults : ExplainEnd(result)
    BY <1>3, <1>4, <1>5, <1>7 DEF ExplainEnd, Reports
  <1>8. CASE NegotiateEnd \/ MacLineStatus
    BY <1>1, <1>5, <1>8 DEF NegotiateEnd, MacLineStatus, Reports
  <1>9. CASE TestTimer
    <2>1. posted = <<>> BY <1>9 DEF TestTimer, Fires
    <2> QED BY <1>9, <2>1 DEF TestTimer, StopNetwork, Silent, Rest
  <1>10. CASE BusyTimer \/ StopTimer
    BY <1>1, <1>2, <1>10 DEF BusyTimer, StopTimer, Reports
  <1> QED BY <1>6, <1>7, <1>8, <1>9, <1>10 DEF dial_Ctl_Proc

LEMMA InformedTypes ==
  ASSUME DialInv
  PROVE  /\ posted \in Seq(Messages) /\ Rest \in Seq(Messages)
         /\ CurrentDialQueue \in Seq(Clients) /\ DialWaitQueue \in Seq(Clients)
         /\ nConnectState \in [Clients -> DialStates]
  BY RestType DEF DialInv, TypeOK, DialerTypeOK

\* A message for the dialer or the manager is taken.
LEMMA KnownRest ==
  ASSUME NEW X, DialInv, InformedInv(X),
         posted = <<>> \/ Head(posted).to \in {"ctrl", "mgr"}
  PROVE  Known(Rest, OnList(X), nConnectState)
  <1>1. CASE posted = <<>> BY <1>1 DEF Rest, InformedInv
  <1>2. CASE posted # <<>>
    <2>1. \A c \in Clients : ~(Head(posted).to = c /\ Head(posted).msg \in Ends)
      BY <1>2, NamesAssumption
    <2> QED BY <1>2, <2>1, InformedTypes, KnownTail DEF Rest, InformedInv
  <1> QED BY <1>1, <1>2

LEMMA InformedDialer ==
  ASSUME NEW X, DialInv, InformedInv(X), Dialer
  PROVE  InformedInv(X)'
  <1>1. Known(Rest, OnList(X), nConnectState)
    BY DialerHead, KnownRest DEF Dialer
  <1>2. OnList(X)' = OnList(X) /\ nConnectState' = nConnectState
    BY DEF Dialer, mgrVars, OnList, Listed, Has
  <1>3. CASE Silent BY <1>1, <1>2, <1>3 DEF Silent, InformedInv
  <1>4. CASE \E report \in Reports : REPORTBACK(report)
    <2>1. PICK report \in Reports : posted' = Append(Rest, Message("mgr", report))
      BY <1>4 DEF REPORTBACK
    <2> DEFINE m == Message("mgr", report)
    <2>2. m \in Messages /\ m.to = "mgr" BY MessageTypes DEF Message
    <2> HIDE DEF m
    <2>3. Known(Append(Rest, m), OnList(X), nConnectState)
      BY <1>1, <2>2, InformedTypes, KnownAppend
    <2> QED BY <1>2, <2>1, <2>3 DEF InformedInv, m
  <1> QED BY <1>3, <1>4, DialerPosts DEF Dialer

LEMMA InformedMac ==
  ASSUME NEW X, DialInv, InformedInv(X), MacLayer
  PROVE  InformedInv(X)'
  <1>1. OnList(X)' = OnList(X) /\ nConnectState' = nConnectState
    BY DEF MacLayer, mgrVars, OnList, Listed, Has
  <1>2. PICK msg \in CtrlMessages : posted' = Append(posted, Message("ctrl", msg))
    BY MacStep DEF DialInv, TypeOK, MacLayer, MacPosts
  <1> DEFINE m == Message("ctrl", msg)
  <1>3. m \in Messages /\ m.to = "ctrl" BY MessageTypes DEF Message
  <1> HIDE DEF m
  <1>4. Known(Append(posted, m), OnList(X), nConnectState)
    BY <1>3, InformedTypes, KnownAppend DEF InformedInv
  <1> QED BY <1>1, <1>2, <1>4 DEF InformedInv, m

LEMMA InformedSelConnect ==
  ASSUME NEW X, DialInv, NEW c \in Clients, NEW q \in Seq(Messages),
         Known(q, OnList(X), [nConnectState EXCEPT ![c] = "IDLE"]),
         DIALMGR_SelConnect(c, q)
  PROVE  InformedInv(X)'
  <1> DEFINE f == [nConnectState EXCEPT ![c] = "IDLE"]
  <1>1. /\ CurrentDialQueue \in Seq(Clients) /\ DialWaitQueue \in Seq(Clients)
        /\ nConnectState \in [Clients -> DialStates]
    BY InformedTypes
  <1>2. f \in [Clients -> DialStates] BY <1>1 DEF DialStates
  <1>3. \A state : [f EXCEPT ![c] = state] = [nConnectState EXCEPT ![c] = state]
    BY <1>1
  <1>4. Known(q, OnList(X), f) OBVIOUS
  <1> HIDE DEF f
  <1>5. CASE nConnectState' = [nConnectState EXCEPT ![c] = "DIALING"]
    <2>1. OnList(X) \subseteq OnList(X)' /\ c \in OnList(X)'
      <3>1. \A d : /\ Has(Append(CurrentDialQueue, c), d)
                        <=> Has(CurrentDialQueue, d) \/ d = c
                   /\ Has(Append(DialWaitQueue, c), d)
                        <=> Has(DialWaitQueue, d) \/ d = c
        BY <1>1, HasAppend
      <3>2. \/ /\ CurrentDialQueue' = Append(CurrentDialQueue, c)
               /\ DialWaitQueue' = DialWaitQueue
            \/ /\ CurrentDialQueue' = CurrentDialQueue
               /\ DialWaitQueue' = Append(DialWaitQueue, c)
            \/ nConnectState' = [nConnectState EXCEPT ![c] = "IDLE"]
        BY DEF DIALMGR_SelConnect
      <3>3. [nConnectState EXCEPT ![c] = "DIALING"][c] = "DIALING"
            /\ [nConnectState EXCEPT ![c] = "IDLE"][c] = "IDLE"
        BY <1>1
      <3>4. \/ /\ CurrentDialQueue' = Append(CurrentDialQueue, c)
               /\ DialWaitQueue' = DialWaitQueue
            \/ /\ CurrentDialQueue' = CurrentDialQueue
               /\ DialWaitQueue' = Append(DialWaitQueue, c)
        BY <1>5, <3>2, <3>3
      <3> QED BY <3>1, <3>4 DEF OnList, Listed
    <2>2. Known(posted', OnList(X)', f)
      <3>1. CASE posted' = q
        BY <1>4, <2>1, <3>1 DEF Known
      <3>2. ASSUME NEW m \in Messages, posted' = Append(q, m), m.to \in {c, "ctrl"}
            PROVE  Known(posted', OnList(X)', f)
        BY <1>4, <2>1, <3>2, KnownAppend
      <3>3. posted' = q \/ \E m \in {Message("ctrl", "START"),
                                     Message(c, "NETCONNECT")} :
                             posted' = Append(q, m)
        BY DEF DIALMGR_SelConnect, DIALER_SelConnect
      <3>4. /\ Message("ctrl", "START") \in Messages
            /\ Message("ctrl", "START").to = "ctrl"
            /\ Message(c, "NETCONNECT") \in Messages
            /\ Message(c, "NETCONNECT").to = c
        BY MessageTypes DEF CtrlMessages, Reports, Message
      <3> QED BY <3>1, <3>2, <3>3, <3>4
    <2>3. Known(posted', OnList(X)', [f EXCEPT ![c] = "DIALING"])
      BY <1>2, <2>1, <2>2, KnownChange
    <2> QED BY <1>3, <1>5, <2>3 DEF InformedInv
  <1>6. CASE /\ posted' = q
             /\ nConnectState' = [nConnectState EXCEPT ![c] = "IDLE"]
             /\ UNCHANGED mgrVars
    <2>1. OnList(X)' = OnList(X) BY <1>6 DEF mgrVars, OnList, Listed, Has
    <2> QED BY <1>4, <1>6, <2>1 DEF InformedInv, f
  <1> QED BY <1>5, <1>6 DEF DIALMGR_SelConnect

LEMMA InformedClient ==
  ASSUME NEW X, DialInv, InformedInv(X), NEW c \in Clients, Client(c)
  PROVE  InformedInv(X)'
  <1>1. /\ posted # <<>> /\ Head(posted).to = c /\ Rest = Tail(posted)
        /\ Rest \in Seq(Messages) /\ posted \in Seq(Messages)
        /\ nConnectState \in [Clients -> DialStates]
    BY InformedTypes
    DEF Client, ClientConnect, ClientBroken, Got, Message, Rest
  <1>2. Known(Rest, OnList(X), [nConnectState EXCEPT ![c] = "IDLE"])
    BY <1>1, KnownTail DEF InformedInv
  <1>3. CASE DIALMGR_SelConnect(c, Rest)
    BY <1>1, <1>2, <1>3, InformedSelConnect
  <1>4. CASE /\ Silent /\ UNCHANGED mgrVars
             /\ nConnectState' = [nConnectState EXCEPT ![c] = "IDLE"]
    <2>1. OnList(X)' = OnList(X) BY <1>4 DEF mgrVars, OnList, Listed, Has
    <2> QED BY <1>2, <1>4, <2>1 DEF InformedInv, Silent
  <1>5. CASE ClientConnect(c)
    <2>1. /\ Head(posted) = Message(c, "NETCONNECT")
          /\ Silent /\ UNCHANGED mgrVars
      BY <1>5 DEF ClientConnect, Got
    <2>2. PICK state : nConnectState' = [nConnectState EXCEPT ![c] = state]
      BY <1>5 DEF ClientConnect
    <2>3. OnList(X)' = OnList(X) BY <2>1 DEF mgrVars, OnList, Listed, Has
    <2>4. \A d \in Clients : ~(Head(posted).to = d /\ Head(posted).msg \in Ends)
      BY <2>1 DEF Message, Ends
    <2>5. /\ Known(Rest, OnList(X), nConnectState)
          /\ c \in OnList(X) \/ Contains(Rest, c, Ends)
      BY <1>1, <2>1, <2>4, KnownTail DEF InformedInv
    <2>6. Known(Rest, OnList(X), [nConnectState EXCEPT ![c] = state])
      BY <1>1, <2>5, KnownChange
    <2> QED BY <2>1, <2>2, <2>3, <2>6 DEF InformedInv, Silent
  <1> QED BY <1>3, <1>4, <1>5 DEF Client, ClientBroken

LEMMA InformedUser ==
  ASSUME NEW X, DialInv, InformedInv(X), NEW c \in Clients,
         Dial(c) \/ MmsHangUp(c) \/ MailHangUp(c)
  PROVE  InformedInv(X)'
  <1>1. /\ posted \in Seq(Messages)
        /\ CurrentDialQueue \in Seq(Clients) /\ DialWaitQueue \in Seq(Clients)
        /\ nConnectState \in [Clients -> DialStates]
        /\ Known(posted, OnList(X), nConnectState)
    BY InformedTypes DEF InformedInv
  <1>2. Known(posted, OnList(X), [nConnectState EXCEPT ![c] = "IDLE"])
    BY <1>1, KnownChange
  <1>3. CASE DIALMGR_SelConnect(c, posted)
    BY <1>1, <1>2, <1>3, InformedSelConnect
  <1>4. CASE /\ nConnectState' = [nConnectState EXCEPT ![c] = "IDLE"]
             /\ UNCHANGED <<dialerVars, mgrVars>>
    <2>1. OnList(X)' = OnList(X) /\ posted' = posted
      BY <1>4 DEF dialerVars, mgrVars, OnList, Listed, Has
    <2> QED BY <1>2, <1>4, <2>1 DEF InformedInv
  <1>5. ASSUME MmsHangUp(c) \/ MailHangUp(c)
        PROVE  /\ HangUpDial(c) \/ LeaveQueue(c) \/
                    (/\ posted' = Append(posted, Message(c, "NET_ABNORMAL"))
                     /\ UNCHANGED mgrVars)
               /\ \/ nConnectState' = nConnectState
                  \/ /\ nConnectState[c] # "IDLE"
                     /\ nConnectState' =
                          [nConnectState EXCEPT ![c] = "HANGUPING"]
    BY <1>5 DEF MmsHangUp, MailHangUp
  <1>6. ASSUME MmsHangUp(c) \/ MailHangUp(c)
        PROVE  Known(posted, OnList(X), nConnectState')
    <2>1. nConnectState[c] # "IDLE" => c \in OnList(X) \/ Contains(posted, c, Ends)
      BY <1>1 DEF Known
    <2>2. ASSUME nConnectState[c] # "IDLE"
          PROVE  Known(posted, OnList(X), [nConnectState EXCEPT ![c] = "HANGUPING"])
      BY <1>1, <2>1, <2>2, KnownChange
    <2> QED BY <1>1, <1>5, <1>6, <2>2
  <1>7. ASSUME NEW msg \in CtrlMessages, MmsHangUp(c) \/ MailHangUp(c),
               posted' = Append(posted, Message("ctrl", msg)),
               OnList(X)' = OnList(X)
        PROVE  InformedInv(X)'
    <2> DEFINE m == Message("ctrl", msg)
    <2>1. m \in Messages /\ m.to = "ctrl" BY MessageTypes DEF Message
    <2> HIDE DEF m
    <2>2. posted' = Append(posted, m) BY <1>7 DEF m
    <2>3. Known(Append(posted, m), OnList(X), nConnectState')
      BY <1>1, <1>6, <1>7, <2>1, KnownAppend
    <2> QED BY <1>7, <2>2, <2>3 DEF InformedInv
  <1>8. ASSUME NEW msg \in Ends, MmsHangUp(c) \/ MailHangUp(c),
               posted' = Append(posted, Message(c, msg)),
               OnList(X) \ {c} \subseteq OnList(X)'
        PROVE  InformedInv(X)'
    <2> DEFINE m == Message(c, msg)
    <2>1. m \in Messages /\ m.to = c /\ m.msg = msg /\ msg # "NETCONNECT"
      BY MessageTypes DEF Message, Ends, Reports
    <2> HIDE DEF m
    <2>2. posted' = Append(posted, m) BY <1>8 DEF m
    <2>3. Known(Append(posted, m), OnList(X)', nConnectState')
      BY <1>1, <1>6, <1>8, <2>1, KnownAppend
    <2> QED BY <2>2, <2>3 DEF InformedInv
  <1>9. CASE MmsHangUp(c) \/ MailHangUp(c)
    <2>1. CASE HangUpDial(c)
      <3>1. PICK msg \in HangUpMessages :
              posted' = Append(posted, Message("ctrl", msg))
        BY <2>1 DEF HangUpDial
      <3>2. msg \in CtrlMessages BY <3>1 DEF HangUpMessages, CtrlMessages
      <3>3. OnList(X)' = OnList(X) BY <2>1 DEF HangUpDial, OnList, Listed, Has
      <3> QED BY <1>7, <1>9, <3>1, <3>2, <3>3
    <2>2. CASE LeaveQueue(c)
      <3>1. posted' = Append(posted, Message(c, "NETBROKEN"))
        BY <2>2 DEF LeaveQueue
      <3>2. ASSUME NEW d \in OnList(X), d # c PROVE d \in OnList(X)'
        <4>1. \/ /\ Has(CurrentDialQueue, c)
                 /\ CurrentDialQueue' = Without(CurrentDialQueue, c)
                 /\ DialWaitQueue' = DialWaitQueue
              \/ /\ Has(DialWaitQueue, c)
                 /\ DialWaitQueue' = Without(DialWaitQueue, c)
                 /\ CurrentDialQueue' = CurrentDialQueue
          BY <2>2 DEF LeaveQueue, Listed
        <4>2. /\ Has(CurrentDialQueue, d) => Has(CurrentDialQueue', d)
              /\ Has(DialWaitQueue, d) => Has(DialWaitQueue', d)
          BY <1>1, <3>2, <4>1, WithoutHas
        <4> QED BY <4>2 DEF OnList, Listed
      <3> QED BY <1>8, <1>9, <3>1, <3>2 DEF Ends
    <2>3. CASE /\ posted' = Append(posted, Message(c, "NET_ABNORMAL"))
               /\ UNCHANGED mgrVars
      <3>1. OnList(X)' = OnList(X) BY <2>3 DEF mgrVars, OnList, Listed, Has
      <3> QED BY <1>8, <1>9, <2>3, <3>1 DEF Ends
    <2> QED BY <1>5, <1>9, <2>1, <2>2, <2>3
  <1> QED BY <1>3, <1>4, <1>9 DEF Dial

\* The clients of a queue hear that they are connected.
LEMMA InformedConnect ==
  ASSUME NEW X, DialInv, InformedInv(X), MgrConnect
  PROVE  InformedInv(X)'
  <1>1. Rest \in Seq(Messages) /\ CurrentDialQueue \in Seq(Clients)
    BY InformedTypes
  <1>2. Head(posted).to = "mgr"
    BY DEF MgrConnect, Got, Message
  <1>3. Known(Rest, OnList(X), nConnectState)
    BY <1>2, KnownRest
  <1>4. OnList(X)' = OnList(X) /\ nConnectState' = nConnectState
    BY DEF MgrConnect, OnList, Listed, Has
  <1> DEFINE told == MessageTo(CurrentDialQueue, "NETCONNECT")
  <1>5. /\ told \in Seq(Messages)
        /\ \A i \in DOMAIN told : Has(CurrentDialQueue, told[i].to)
    BY <1>1, MessageToAll DEF Reports
  <1>6. posted' = Rest \/ posted' = Rest \o told
    BY DEF MgrConnect, Silent
  <1> HIDE DEF told
  <1>7. \A i \in DOMAIN told : told[i].to \in OnList(X)
    <2>1. \A d : Has(CurrentDialQueue, d) => d \in Clients
      BY <1>1, ElementOfSeq, LenProperties DEF Has
    <2> QED BY <1>5, <2>1 DEF OnList, Listed
  <1>8. Known(Rest \o told, OnList(X), nConnectState)
    BY <1>1, <1>3, <1>5, <1>7, KnownConcat
  <1> QED BY <1>3, <1>4, <1>6, <1>8 DEF InformedInv

\* Both queues are emptied, and everybody in them is told why.
LEMMA InformedEnd ==
  ASSUME NEW X, DialInv, InformedInv(X), NEW end \in Ends, Got("mgr", end),
         NEW waiting \in Seq(Clients), \A c : Has(DialWaitQueue, c) => Has(waiting, c),
         posted' = Rest \o MessageTo(CurrentDialQueue, end) \o MessageTo(waiting, end),
         CurrentDialQueue' = <<>>, DialWaitQueue' = <<>>, UNCHANGED nConnectState
  PROVE  InformedInv(X)'
  <1>1. Rest \in Seq(Messages) /\ CurrentDialQueue \in Seq(Clients)
    BY InformedTypes
  <1>2. Head(posted).to = "mgr" BY DEF Got, Message
  <1>3. Known(Rest, OnList(X), nConnectState)
    BY <1>2, KnownRest
  <1> DEFINE first == MessageTo(CurrentDialQueue, end)
  <1> DEFINE second == MessageTo(waiting, end)
  <1> DEFINE W == {c \in Clients : c \in X => Has(waiting, c)}
  <1> DEFINE None == {c \in Clients : c \notin X}
  <1>4. end \in Reports /\ end # "NETCONNECT" BY DEF Ends, Reports
  <1>5. /\ first \in Seq(Messages) /\ second \in Seq(Messages)
        /\ \A i \in DOMAIN first : first[i].msg # "NETCONNECT"
        /\ \A i \in DOMAIN second : second[i].msg # "NETCONNECT"
        /\ \A c : Has(CurrentDialQueue, c) => Contains(first, c, Ends)
        /\ \A c : Has(waiting, c) => Contains(second, c, Ends)
    BY <1>1, <1>4, MessageToAll
  <1>6. posted' = Rest \o first \o second OBVIOUS
  <1> HIDE DEF first, second
  <1>7. \A c \in OnList(X) : c \in W \/ Contains(first, c, Ends)
    BY <1>5 DEF OnList, Listed
  <1>8. Known(Rest \o first, W, nConnectState)
    BY <1>1, <1>3, <1>5, <1>7, KnownConcat
  <1>9. Rest \o first \in Seq(Messages) BY <1>1, <1>5, ConcatProperties
  <1>10. \A c \in W : c \in None \/ Contains(second, c, Ends)
    BY <1>5
  <1>11. Known(Rest \o first \o second, None, nConnectState)
    BY <1>5, <1>8, <1>9, <1>10, KnownConcat
  <1>12. OnList(X)' = None BY DEF OnList, Listed, Has
  <1> QED BY <1>6, <1>11, <1>12 DEF InformedInv

\* The places a to b of a queue.
LEMMA HasSub ==
  ASSUME NEW queue \in Seq(Clients), NEW a \in Nat \ {0}, NEW b \in Int,
         b <= Len(queue), NEW i \in a..b
  PROVE  Has(SubSeq(queue, a, b), queue[i])
  <1> DEFINE part == SubSeq(queue, a, b)
  <1>1. Len(queue) \in Nat BY LenProperties
  <1>2. \A l \in a..b : queue[l] \in Clients BY <1>1, ElementOfSeq
  <1>3. /\ part \in Seq(Clients)
        /\ Len(part) = IF a <= b THEN b - a + 1 ELSE 0
        /\ \A l \in 1..b - a + 1 : part[l] = queue[a + l - 1]
    BY <1>2, SubSeqProperties
  <1> DEFINE l == i - a + 1
  <1>4. a <= b /\ l \in 1..b - a + 1 /\ a + l - 1 = i BY <1>1
  <1> HIDE DEF part, l
  <1>5. DOMAIN part = 1..b - a + 1 BY <1>3, <1>4, LenProperties
  <1>6. part[l] = queue[i] BY <1>3, <1>4
  <1> QED BY <1>4, <1>5, <1>6 DEF Has, part

LEMMA HasParts ==
  ASSUME NEW queue \in Seq(Clients), NEW j \in Nat, j <= Len(queue), NEW c,
         Has(queue, c)
  PROVE  \/ Has(SubSeq(queue, 1, j), c)
         \/ Has(SubSeq(queue, j + 1, Len(queue)), c)
  <1>1. Len(queue) \in Nat /\ DOMAIN queue = 1..Len(queue) BY LenProperties
  <1>2. PICK i \in 1..Len(queue) : queue[i] = c BY <1>1 DEF Has
  <1>3. CASE i <= j
    <2>1. i \in 1..j BY <1>1, <1>3
    <2> QED BY <1>1, <1>2, <2>1, HasSub
  <1>4. CASE ~(i <= j)
    <2>1. i \in j + 1..Len(queue) /\ j + 1 \in Nat \ {0} BY <1>1, <1>4
    <2> QED BY <1>1, <1>2, <2>1, HasSub
  <1> QED BY <1>3, <1>4

\* The manager dials for c, which waits behind k others.
ServesBehind(k, c) ==
  /\ DialWaitQueue[k + 1] = c
  /\ posted' = Append(Rest \o MessageTo(CurrentDialQueue, "NETBROKEN")
                           \o MessageTo(SubSeq(DialWaitQueue, 1, k), "NETBROKEN"),
                      Message("ctrl", "START"))
Serves(c) ==
  MgrBroken /\ \E k \in 0..Len(DialWaitQueue) - 1 : ServesBehind(k, c)

\* Whoever is in front of the client that is served is told, and whoever is
\* behind it stays in one of the queues.
LEMMA InformedServe ==
  ASSUME NEW X, DialInv, InformedInv(X), Got("mgr", "NETBROKEN"),
         NEW k \in 0..Len(DialWaitQueue) - 1, NEW s \in Clients, s \notin X,
         ServesBehind(k, s), UNCHANGED nConnectState,
         NEW j \in Nat, NEW behind,
         behind = SubSeq(DialWaitQueue, k + 2, Len(DialWaitQueue)),
         j <= Len(behind), CurrentDialQueue' = SubSeq(behind, 1, j),
         DialWaitQueue' = SubSeq(behind, j + 1, Len(behind))
  PROVE  InformedInv(X)'
  <1>1. /\ Rest \in Seq(Messages) /\ CurrentDialQueue \in Seq(Clients)
        /\ DialWaitQueue \in Seq(Clients)
        /\ Len(DialWaitQueue) \in Nat
        /\ DOMAIN DialWaitQueue = 1..Len(DialWaitQueue)
    BY InformedTypes, LenProperties
  <1>2. Known(Rest, OnList(X), nConnectState)
    BY KnownRest DEF Got, Message
  <1>3. /\ k \in Nat /\ k \in Int /\ k <= Len(DialWaitQueue)
        /\ k + 2 \in Nat \ {0} /\ Len(DialWaitQueue) \in Int
    BY <1>1
  <1> DEFINE front == SubSeq(DialWaitQueue, 1, k)
  <1>4. front \in Seq(Clients) /\ behind \in Seq(Clients)
    BY <1>1, <1>3, SubQueue
  <1>5. ASSUME NEW c, Has(DialWaitQueue, c)
        PROVE  c = s \/ Has(front, c) \/ Has(behind, c)
    <2>1. PICK i \in 1..Len(DialWaitQueue) : DialWaitQueue[i] = c
      BY <1>1, <1>5 DEF Has
    <2>2. i \in 1..k \/ i = k + 1 \/ i \in k + 2..Len(DialWaitQueue)
      BY <1>1, <1>3
    <2>3. CASE i \in 1..k
      <3>1. 1 \in Nat \ {0} OBVIOUS
      <3>2. Has(SubSeq(DialWaitQueue, 1, k), DialWaitQueue[i])
        BY <1>1, <1>3, <2>3, <3>1, HasSub
      <3> QED BY <2>1, <3>2
    <2>4. CASE i = k + 1 BY <2>1, <2>4 DEF ServesBehind
    <2>5. CASE i \in k + 2..Len(DialWaitQueue)
      <3>1. Len(DialWaitQueue) <= Len(DialWaitQueue) BY <1>1
      <3>2. Has(SubSeq(DialWaitQueue, k + 2, Len(DialWaitQueue)),
                DialWaitQueue[i])
        BY <1>1, <1>3, <2>5, <3>1, HasSub
      <3> QED BY <2>1, <3>2
    <2> QED BY <2>2, <2>3, <2>4, <2>5
  <1> DEFINE first == MessageTo(CurrentDialQueue, "NETBROKEN")
  <1> DEFINE second == MessageTo(front, "NETBROKEN")
  <1> DEFINE start == Message("ctrl", "START")
  <1> DEFINE W == {c \in Clients : c \in X => Has(DialWaitQueue, c)}
  <1>6. posted' = Append(Rest \o first \o second, start)
    BY DEF ServesBehind
  <1>7. /\ first \in Seq(Messages) /\ second \in Seq(Messages)
        /\ \A i \in DOMAIN first : first[i].msg # "NETCONNECT"
        /\ \A i \in DOMAIN second : second[i].msg # "NETCONNECT"
        /\ \A c : Has(CurrentDialQueue, c) => Contains(first, c, Ends)
        /\ \A c : Has(front, c) => Contains(second, c, Ends)
    BY <1>1, <1>4, MessageToAll DEF Reports, Ends
  <1>8. start \in Messages /\ start.to = "ctrl"
    BY MessageTypes DEF CtrlMessages, Message
  <1> HIDE DEF first, second, start, front
  <1>9. \A c \in OnList(X) : c \in W \/ Contains(first, c, Ends)
    BY <1>7 DEF OnList, Listed
  <1>10. Known(Rest \o first, W, nConnectState)
    BY <1>1, <1>2, <1>7, <1>9, KnownConcat
  <1>11. \A c : Has(behind, c) => Has(CurrentDialQueue', c) \/ Has(DialWaitQueue', c)
    BY <1>4, HasParts
  <1>12. OnList(X)' = {c \in Clients : c \in X =>
                         Has(CurrentDialQueue', c) \/ Has(DialWaitQueue', c)}
    BY DEF OnList, Listed, Has
  <1>13. \A c \in W : c \in OnList(X)' \/ Contains(second, c, Ends)
    BY <1>5, <1>7, <1>11, <1>12
  <1>14. Rest \o first \in Seq(Messages)
         /\ (Rest \o first) \o second \in Seq(Messages)
    BY <1>1, <1>7, ConcatProperties
  <1> DEFINE L == OnList(X)'
  <1>15. \A c \in W : c \in L \/ Contains(second, c, Ends) BY <1>13
  <1> HIDE DEF L, W
  <1>16. Known((Rest \o first) \o second, L, nConnectState)
    BY <1>7, <1>10, <1>14, <1>15, KnownConcat
  <1>17. Known(Append((Rest \o first) \o second, start), L, nConnectState)
    BY <1>8, <1>14, <1>16, KnownAppend
  <1> QED BY <1>6, <1>17 DEF InformedInv, L

LEMMA InformedBroken ==
  ASSUME NEW X, DialInv, InformedInv(X), MgrBroken, \A c \in X : ~Serves(c)
  PROVE  InformedInv(X)'
  <1>1. /\ DialWaitQueue \in Seq(Clients) /\ Len(DialWaitQueue) \in Nat
        /\ Got("mgr", "NETBROKEN") /\ UNCHANGED nConnectState
    BY InformedTypes, LenProperties DEF MgrBroken
  <1> DEFINE told(k) == Rest \o MessageTo(CurrentDialQueue, "NETBROKEN")
                         \o MessageTo(SubSeq(DialWaitQueue, 1, k), "NETBROKEN")
  <1> DEFINE behind(k) == SubSeq(DialWaitQueue, k + 2, Len(DialWaitQueue))
  <1>2. PICK k \in 0..Len(DialWaitQueue) :
          \/ /\ k = Len(DialWaitQueue) /\ posted' = told(k)
             /\ CurrentDialQueue' = <<>> /\ DialWaitQueue' = <<>>
          \/ /\ k < Len(DialWaitQueue)
             /\ DIALER_SelConnect(Info[DialWaitQueue[k + 1]], told(k))
             /\ CurrentDialQueue' = SubSeq(behind(k), 1, Joining(behind(k)))
             /\ DialWaitQueue' =
                  SubSeq(behind(k), Joining(behind(k)) + 1, Len(behind(k)))
    BY DEF MgrBroken
  <1>3. CASE /\ k = Len(DialWaitQueue) /\ posted' = told(k)
             /\ CurrentDialQueue' = <<>> /\ DialWaitQueue' = <<>>
    <2> DEFINE waiting == SubSeq(DialWaitQueue, 1, Len(DialWaitQueue))
    <2>1. waiting \in Seq(Clients) BY <1>1, SubQueue
    <2>2. \A c : Has(DialWaitQueue, c) => Has(waiting, c)
      <3>1. \A i \in 1..Len(DialWaitQueue) : Has(waiting, DialWaitQueue[i])
        BY <1>1, HasSub
      <3> QED BY <1>1, <3>1, LenProperties DEF Has
    <2>3. posted' = Rest \o MessageTo(CurrentDialQueue, "NETBROKEN")
                         \o MessageTo(waiting, "NETBROKEN")
      BY <1>3
    <2> HIDE DEF waiting
    <2> QED BY <1>1, <1>3, <2>1, <2>2, <2>3, InformedEnd DEF Ends
  <1>4. CASE /\ k < Len(DialWaitQueue)
             /\ DIALER_SelConnect(Info[DialWaitQueue[k + 1]], told(k))
             /\ CurrentDialQueue' = SubSeq(behind(k), 1, Joining(behind(k)))
             /\ DialWaitQueue' =
                  SubSeq(behind(k), Joining(behind(k)) + 1, Len(behind(k)))
    <2> DEFINE s == DialWaitQueue[k + 1]
    <2>1. /\ k \in 0..Len(DialWaitQueue) - 1
          /\ k + 1 \in 1..Len(DialWaitQueue)
          /\ k + 2 \in Nat \ {0} /\ Len(DialWaitQueue) \in Int
      BY <1>1, <1>4
    <2>2. s \in Clients BY <1>1, <2>1, ElementOfSeq
    <2>3. ServesBehind(k, s) BY <1>4 DEF DIALER_SelConnect, ServesBehind
    <2>4. s \notin X BY <2>1, <2>3 DEF Serves
    <2>5. behind(k) \in Seq(Clients) BY <1>1, <2>1, SubQueue
    <2>6. Joining(behind(k)) \in Nat /\ Joining(behind(k)) <= Len(behind(k))
      <3>1. /\ Len(behind(k)) \in Nat
            /\ behind(k) # <<>> => Len(behind(k)) \in Nat \ {0}
        BY <2>5, LenProperties, EmptySeq
      <3> QED BY <3>1 DEF Joining
    <2> DEFINE j == Joining(behind(k))
    <2> DEFINE b == behind(k)
    <2>7. /\ j \in Nat /\ j <= Len(b)
          /\ b = SubSeq(DialWaitQueue, k + 2, Len(DialWaitQueue))
          /\ CurrentDialQueue' = SubSeq(b, 1, j)
          /\ DialWaitQueue' = SubSeq(b, j + 1, Len(b))
      BY <1>4, <2>6
    <2> HIDE DEF s, j, b
    <2> QED BY <1>1, <2>1, <2>2, <2>3, <2>4, <2>7, InformedServe
  <1> QED BY <1>2, <1>3, <1>4

LEMMA InformedStep ==
  ASSUME NEW X
  PROVE  DialInv /\ InformedInv(X) /\ [Next /\ \A c \in X : ~Serves(c)]_vars
           => InformedInv(X)'
  <1> SUFFICES ASSUME DialInv, InformedInv(X),
                      [Next /\ \A c \in X : ~Serves(c)]_vars
               PROVE  InformedInv(X)'
    OBVIOUS
  <1>1. CASE Dialer BY <1>1, InformedDialer
  <1>2. CASE MgrConnect BY <1>2, InformedConnect
  <1>3. CASE MgrBroken /\ \A c \in X : ~Serves(c) BY <1>3, InformedBroken
  <1>4. CASE MgrAbnormal
    <2>1. DialWaitQueue \in Seq(Clients) BY InformedTypes
    <2> QED BY <1>4, <2>1, InformedEnd DEF MgrAbnormal, Ends
  <1>5. CASE \E c \in Clients : Client(c) BY <1>5, InformedClient
  <1>6. CASE MacLayer BY <1>6, InformedMac
  <1>7. CASE Users BY <1>7, InformedUser DEF Users
  <1>8. CASE UNCHANGED vars
    BY <1>8 DEF vars, dialerVars, mgrVars, InformedInv, OnList, Listed, Has
  <1> QED BY <1>1, <1>2, <1>3, <1>4, <1>5, <1>6, <1>7, <1>8
      DEF Next, Procs, DialMgrWindowProc

LEMMA InitInformed ==
  ASSUME NEW X
  PROVE  Init => InformedInv(X)
  <1> SUFFICES ASSUME Init PROVE InformedInv(X)
    OBVIOUS
  <1>1. posted = <<>> /\ \A c \in Clients : nConnectState[c] = "IDLE"
    BY DEF Init, DialerInit
  <1> QED BY <1>1 DEF InformedInv, Known

\* A client that takes itself to be dialling, on line or hanging up is in a
\* queue of the manager or will be told otherwise, whatever fails and whoever
\* hangs up, unless the manager has dialled for it out of the waiting queue:
\* that step of DialMgrWindowProc loses the client it serves (dialmgr.c:408).
\* No other step does, and it loses no other client.
THEOREM OnlyTheServedIsLost ==
  ASSUME NEW c \in Clients
  PROVE  Spec /\ [][~Serves(c)]_vars =>
           [](nConnectState[c] # "IDLE" => Listed(c) \/ Posted(c, Ends))
  <1> DEFINE Kept == nConnectState[c] # "IDLE" => Listed(c) \/ Posted(c, Ends)
  <1>1. InformedInv({c}) => Kept
    BY DEF InformedInv, Known, OnList, Posted, Contains
  <1>2. Init => InformedInv({c}) BY InitInformed
  <1>3. DialInv /\ InformedInv({c}) /\ [Next]_vars /\ [~Serves(c)]_vars
          => InformedInv({c})'
    <2>1. DialInv /\ InformedInv({c}) /\
            [Next /\ \A d \in {c} : ~Serves(d)]_vars => InformedInv({c})'
      BY InformedStep
    <2>2. [Next]_vars /\ [~Serves(c)]_vars =>
            [Next /\ \A d \in {c} : ~Serves(d)]_vars
      OBVIOUS
    <2> QED BY <2>1, <2>2
  <1> QED BY <1>1, <1>2, <1>3, AlwaysDialInv, PTL DEF Spec

\* So the manager keeps all clients informed as long as it serves nobody who
\* waited.
THEOREM ClientsInformed ==
  Spec /\ [][\A c \in Clients : ~Serves(c)]_vars => []ClientInformed
  <1>1. InformedInv(Clients) => ClientInformed
    BY DEF InformedInv, Known, ClientInformed, OnList, Posted, Contains
  <1>2. Init => InformedInv(Clients) BY InitInformed
  <1>3. DialInv /\ InformedInv(Clients) /\ [Next]_vars
          /\ [\A c \in Clients : ~Serves(c)]_vars => InformedInv(Clients)'
    <2>1. DialInv /\ InformedInv(Clients) /\
            [Next /\ \A c \in Clients : ~Serves(c)]_vars
            => InformedInv(Clients)'
      BY InformedStep
    <2>2. [Next]_vars /\ [\A c \in Clients : ~Serves(c)]_vars =>
            [Next /\ \A c \in Clients : ~Serves(c)]_vars
      OBVIOUS
    <2> QED BY <2>1, <2>2
  <1> QED BY <1>1, <1>2, <1>3, AlwaysDialInv, PTL DEF Spec

-----------------------------------------------------------------------------
(* Where nobody waits, and where nobody hangs up.                          *)

\* Whoever finds the line taken shares the dial or is refused: no client
\* passes bWait, or they all dial the same and nobody hangs up.
NobodyNeedsToWait ==
  Waiters = {} \/ (HangsUp = {} /\ \A c, d \in Clients : Info[c] = Info[d])

NoWaiterInv ==
  /\ DialWaitQueue = <<>>
  /\ Waiters # {} =>
       /\ nCurrentState # "HANGUPING"
       /\ nCurrentState # "IDLE" => \A c \in Clients : SameInfo(Info[c])

NobodyServed == \A c \in Clients : ~Serves(c)

LEMMA DialerKeepsDial ==
  ASSUME dial_Ctl_Proc
  PROVE  DialInfo' = DialInfo
  <1>1. \A run, ts : OperateHangup(run, ts) => DialInfo' = DialInfo
    BY DEF OperateHangup
  <1>2. \A ts : OperateDial(ts) => DialInfo' = DialInfo
    BY DEF OperateDial
  <1>3. \A result : DialEnd(result) => DialInfo' = DialInfo
    BY <1>1 DEF DialEnd, Abandon, StartNegotiation
  <1>4. \A result : LoginEnd(result) => DialInfo' = DialInfo
    BY <1>1 DEF LoginEnd, Abandon, StartNegotiation
  <1>5. \A ts : HangupEnd(ts) => DialInfo' = DialInfo
    BY DEF HangupEnd
  <1>6. CASE Start \/ HangUp \/ RunCancel
    BY <1>2, <1>6 DEF Start, HangUp, RunCancel, StopNetwork, OperateStop
  <1>7. CASE \E result \in ScriptResults : ExplainEnd(result)
    BY <1>3, <1>4, <1>5, <1>7 DEF ExplainEnd
  <1>8. CASE NegotiateEnd \/ MacLineStatus
    BY <1>1, <1>5, <1>8 DEF NegotiateEnd, MacLineStatus
  <1>9. CASE TestTimer \/ BusyTimer \/ StopTimer
    BY <1>1, <1>2, <1>9 DEF TestTimer, StopNetwork, BusyTimer, StopTimer
  <1> QED BY <1>6, <1>7, <1>8, <1>9 DEF dial_Ctl_Proc

LEMMA NoWaiterSelConnect ==
  ASSUME NobodyNeedsToWait, DialInv, NoWaiterInv, NEW c \in Clients, NEW q,
         DIALMGR_SelConnect(c, q)
  PROVE  NoWaiterInv'
  <1>1. CASE /\ nCurrentState = "IDLE" /\ DIALER_SelConnect(Info[c], q)
             /\ nCurrentState' = "DIALING" /\ UNCHANGED DialWaitQueue
    <2>1. DialInfo'.src = Info[c]
      BY <1>1 DEF DIALER_SelConnect, GetEnvelope
    <2> QED BY <1>1, <2>1 DEF NoWaiterInv, NobodyNeedsToWait, SameInfo
  <1>2. CASE /\ UNCHANGED <<nCurrentState, DialWaitQueue, DialInfo>>
    BY <1>2 DEF NoWaiterInv, SameInfo
  <1>3. CASE nCurrentState # "IDLE" /\ ~Shares(c) /\ c \in Waiters
    <2>1. nCurrentState \in {"CONNECTED", "DIALING"} /\ SameInfo(Info[c])
      BY <1>3 DEF NoWaiterInv, DialInv, TypeOK, DialStates
    <2> QED BY <1>3, <2>1 DEF Shares
  <1> QED BY <1>1, <1>2, <1>3 DEF DIALMGR_SelConnect, mgrVars

LEMMA NoWaiterStep ==
  ASSUME NobodyNeedsToWait
  PROVE  DialInv /\ NoWaiterInv /\ [Next]_vars => NoWaiterInv' /\ NobodyServed
  <1> SUFFICES ASSUME DialInv, NoWaiterInv, [Next]_vars
               PROVE  NoWaiterInv' /\ NobodyServed
    OBVIOUS
  <1>1. NobodyServed
    <2>1. Len(DialWaitQueue) = 0 BY EmptySeq DEF NoWaiterInv
    <2> QED BY <2>1 DEF NobodyServed, Serves
  <1> SUFFICES NoWaiterInv' BY <1>1
  <1>2. CASE UNCHANGED <<nCurrentState, DialWaitQueue, DialInfo>>
    BY <1>2 DEF NoWaiterInv, SameInfo
  <1>3. CASE Dialer
    BY <1>2, <1>3, DialerKeepsDial DEF Dialer, mgrVars
  <1>4. CASE MacLayer
    <2>1. UNCHANGED DialInfo
      BY <1>4, MacStep DEF DialInv, TypeOK, MacLayer
    <2> QED BY <1>2, <1>4, <2>1 DEF MacLayer, mgrVars
  <1>5. CASE MgrConnect
    BY <1>5 DEF MgrConnect, NoWaiterInv, SameInfo
  <1>6. CASE MgrBroken
    <2>1. Len(DialWaitQueue) = 0 BY EmptySeq DEF NoWaiterInv
    <2>2. nCurrentState' = "IDLE" /\ DialWaitQueue' = <<>>
      BY <1>6, <2>1 DEF MgrBroken
    <2> QED BY <2>2 DEF NoWaiterInv, SameInfo
  <1>7. CASE MgrAbnormal
    BY <1>7 DEF MgrAbnormal, NoWaiterInv, SameInfo
  <1>8. CASE \E c \in Clients : Client(c) \/ Dial(c)
    <2>1. PICK c \in Clients : Client(c) \/ Dial(c) BY <1>8
    <2>2. \/ UNCHANGED <<nCurrentState, DialWaitQueue, DialInfo>>
          \/ \E q : DIALMGR_SelConnect(c, q)
      BY <2>1 DEF Client, ClientConnect, ClientBroken, Dial, mgrVars, dialerVars
    <2>3. ASSUME NEW q, DIALMGR_SelConnect(c, q) PROVE NoWaiterInv'
      BY <2>3, NoWaiterSelConnect
    <2> QED BY <1>2, <2>2, <2>3
  <1>9. CASE \E c \in Clients : MmsHangUp(c) \/ MailHangUp(c)
    <2>1. PICK c \in Clients : MmsHangUp(c) \/ MailHangUp(c) BY <1>9
    <2>2. Waiters = {}
      BY <2>1 DEF MmsHangUp, MailHangUp, NobodyNeedsToWait
    <2>3. ~Has(DialWaitQueue, c) BY DEF NoWaiterInv, Has
    <2>4. UNCHANGED DialWaitQueue
      BY <2>1, <2>3
      DEF MmsHangUp, MailHangUp, HangUpDial, LeaveQueue, Listed, mgrVars
    <2> QED BY <2>2, <2>4 DEF NoWaiterInv, SameInfo
  <1>10. CASE UNCHANGED vars
    BY <1>2, <1>10 DEF vars, dialerVars, mgrVars
  <1> QED BY <1>1, <1>3, <1>4, <1>5, <1>6, <1>7, <1>8, <1>9, <1>10
      DEF Next, Procs, DialMgrWindowProc, Users

\* While the clients dial the same and leave it to the network to end the
\* dial, or none of them asks to wait, the manager keeps all of them informed,
\* whatever fails: nobody gets into the waiting queue.
THEOREM SharersInformed ==
  ASSUME NobodyNeedsToWait
  PROVE  Spec => []ClientInformed
  <1>1. Init => NoWaiterInv
    BY DEF Init, DialerInit, NoWaiterInv
  <1>2. DialInv /\ NoWaiterInv /\ [Next]_vars => NoWaiterInv' /\ NobodyServed
    BY NoWaiterStep
  <1>3. DialInv /\ NoWaiterInv /\ [Next]_vars => [NobodyServed]_vars
    BY <1>2
  <1>4. Spec => [][NobodyServed]_vars
    BY <1>1, <1>2, <1>3, AlwaysDialInv, PTL DEF Spec
  <1> QED BY <1>4, ClientsInformed, PTL DEF NobodyServed
=============================================================================
