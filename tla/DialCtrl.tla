------------------------------ MODULE DialCtrl ------------------------------
(***************************************************************************)
(* The dialer (dialer/dialctrl.c, dialifce.c): the window dial_Ctl_Proc    *)
(* that takes the phone on line through the MAC layer and off line again.  *)
(*                                                                         *)
(* The dialer, its manager (module DialMgr) and the applications are       *)
(* windows of one thread.  Their procedures run one after the other, each  *)
(* on a message of the one queue `posted`; the procedure of one message is *)
(* one action here.  WM_TIMER is generated only when nothing is posted     *)
(* (WS_GetMessage asks for timers last).  The MAC layer runs in its own    *)
(* tasks and posts WM_DIAL_MACCALLBACK at any time.                        *)
(*                                                                         *)
(* The MAC layer is modelled from how the dialer uses it, from its header  *)
(* and from the dial scripts: one device, which runs one script at a time  *)
(* (dial, login, hang up, stop), and a PPP network above the line.         *)
(* Reports of progress (dialing, negotiating, pausing...) are left out.    *)
(***************************************************************************)
EXTENDS Naturals, Sequences

CONSTANTS
  Clients,          \* the windows that dial
  Infos,            \* what can be dialled: number or APN, user, password
  Mode,             \* "DATA" or "GPRS" for each of them (SelMode)
  RepeatDialTimes,  \* how often a busy number is dialled again (5)
  AutoDisconn,      \* the user's setting: data calls hang up when silent
  Faults,           \* what can go wrong, a subset of AllFaults
  MaxPosted,        \* bound: when this many messages are posted, the MAC
                    \* layer and the users wait
  NULL

\* open: the device cannot be opened;     explain: a script does not start;
\* script: the interpreter gives up;      busy, fail: the call or the login;
\* ppp: the negotiation fails;            renego: PPP negotiates again;
\* closed: PPP is closed by the network;  line: the carrier is lost.
AllFaults == {"open", "explain", "script", "busy", "fail", "ppp", "renego",
              "closed", "line"}

ASSUME ModeAssumption == Mode \in [Infos -> {"DATA", "GPRS"}]
ASSUME RepeatAssumption == RepeatDialTimes \in Nat
ASSUME SettingAssumption == AutoDisconn \in BOOLEAN
ASSUME FaultsAssumption == Faults \subseteq AllFaults
ASSUME NullAssumption == NULL \notin Infos
ASSUME NamesAssumption == Clients \cap {"ctrl", "mgr"} = {}

VARIABLES
  Run_Info,  \* the state of the dialer
  DialInfo,  \* what it is dialling, and whether to hang up when silent
  timers,    \* its timers that are set
  awake,     \* the GPRS_CONNECT flag that keeps the CPU from sleeping
  mac,       \* the MAC device
  posted     \* the messages posted to the thread, for "ctrl" (the dialer),
             \* "mgr" (its manager) or a client

dialerVars == <<Run_Info, DialInfo, timers, awake, mac, posted>>

ScriptResults ==
  {"DP_SUCCESS", "DP_BUSY", "DP_FAILURE", "DP_UNSUPPORTED_LOGIN", "SCR_ERROR"}

CtrlMessages == ScriptResults \cup
  {"START", "HANGUP", "RUNCANCEL", "PPP_CLOSED", "PPP_RE_NEGO", "PPP_SUCCESS",
   "PPP_FAILURE", "LINE_UP", "LINE_DOWN"}

Reports == {"NETCONNECT", "NETBROKEN", "NET_ABNORMAL"}

Messages == [to : {"ctrl"}, msg : CtrlMessages]
            \cup [to : {"mgr"} \cup Clients, msg : Reports]

ClosedMac == [open |-> FALSE, script |-> "none", network |-> "down",
              line |-> FALSE]

-----------------------------------------------------------------------------
(* Messages and timers.                                                    *)

Message(to, msg) == [to |-> to, msg |-> msg]
Got(to, msg) == posted # <<>> /\ Head(posted) = Message(to, msg)
Fires(timer) == posted = <<>> /\ timer \in timers

\* What is left when the handler of a message, or of a timer, starts.
Rest == IF posted = <<>> THEN <<>> ELSE Tail(posted)

\* A handler ends, having posted nothing or a report (REPORTBACK).
Silent == posted' = Rest
REPORTBACK(report) == posted' = Append(Rest, Message("mgr", report))

-----------------------------------------------------------------------------
(* Mutants: what a slip in the operator named after Bug_ would make of it. *)

\* Leaves the device open.
Bug_HangupEnd(ts) ==
  /\ Run_Info' = [Run_Info EXCEPT !.run_state = "INVALID"]
  /\ timers' = ts
  /\ REPORTBACK("NETBROKEN")
  /\ UNCHANGED <<DialInfo, awake, mac>>
\* Does not report.
Bug_Abandon ==
  /\ Run_Info' = [Run_Info EXCEPT !.run_state = "INVALID"]
  /\ mac' = ClosedMac
  /\ Silent
\* Never resets the counter of busy calls, or always does.
Bug_NoReset == Run_Info.rep_times
Bug_Reset == 0

-----------------------------------------------------------------------------
(* Calls to the MAC layer.                                                 *)

\* MAC_ScriptExplain returns RTN_WOULDBLOCK, or fails.
CanExplain == mac.open /\ mac.script = "none"
ExplainFails == ~CanExplain \/ "explain" \in Faults

\* The dialer gives up and closes the device.
Abandon ==
  /\ Run_Info' = [Run_Info EXCEPT !.run_state = "INVALID"]
  /\ mac' = ClosedMac
  /\ REPORTBACK("NET_ABNORMAL")

\* dial_Ctl_StopNetwork.
StopNetwork(ts) ==
  /\ mac' = [mac EXCEPT !.network =
               IF @ \in {"starting", "up"} THEN "stopping" ELSE @]
  /\ timers' = ts \cup {"STOP"}
  /\ Silent
  /\ UNCHANGED <<Run_Info, DialInfo, awake>>

-----------------------------------------------------------------------------
(* dial_Ctl_Operate.                                                       *)

\* The retries are counted over the calls that follow a busy one.
RepTimes == IF Run_Info.stg_track = "NOTPASS" THEN Run_Info.rep_times ELSE 0

OperateDial(ts) ==
  /\ awake' = TRUE
  /\ timers' = ts
  /\ LET run == [Run_Info EXCEPT !.rep_times = RepTimes, !.stg_track = "BEGIN",
                                 !.ReNegFlag = FALSE]
     IN \/ /\ CanExplain
           /\ Run_Info' = [run EXCEPT !.run_state = "DIAL"]
           /\ mac' = [mac EXCEPT !.script = "DIAL"]
           /\ Silent
        \/ /\ ExplainFails
           /\ Run_Info' = [run EXCEPT !.run_state = "INVALID"]
           /\ mac' = ClosedMac
           /\ REPORTBACK("NET_ABNORMAL")
  /\ UNCHANGED DialInfo

\* From any state, with Run_Info and the timers as the caller leaves them.
OperateHangup(run, ts) ==
  /\ awake' = FALSE
  /\ timers' = IF DialInfo.AutoHangup THEN ts \ {"TEST"} ELSE ts
  /\ \/ /\ CanExplain
        /\ Run_Info' = [run EXCEPT !.stg_track = "BEGIN",
                                   !.run_state = "HANGUP"]
        /\ mac' = [mac EXCEPT !.network = "down", !.script =
                     IF run.Mac_LineStatus = "CONNECTED" THEN "HANGUP"
                                                         ELSE "STOP"]
        /\ Silent
     \/ /\ ExplainFails
        /\ Run_Info' = [run EXCEPT !.stg_track = "BEGIN",
                                   !.run_state = "INVALID"]
        /\ mac' = [mac EXCEPT !.network = "down"]
        /\ REPORTBACK("NET_ABNORMAL")
  /\ UNCHANGED DialInfo

\* MAC_StopExplain works only while a script is running.
OperateStop(ts) ==
  /\ awake' = FALSE
  /\ timers' = ts
  /\ IF mac.script # "none"
       THEN /\ Run_Info' = [Run_Info EXCEPT !.stg_track = "BEGIN",
                                            !.run_state = "HANGUP"]
            /\ mac' = [mac EXCEPT !.script = "STOP"]
       ELSE UNCHANGED <<Run_Info, mac>>
  /\ Silent
  /\ UNCHANGED DialInfo

\* dial_Ctl_ScrPar_HangupEnd: the line counts as broken, whatever it is.
HangupEnd(ts) ==
  /\ Run_Info' = [Run_Info EXCEPT !.stg_track = "INVALID",
                    !.run_state = "INVALID", !.ReNegFlag = FALSE,
                    !.Mac_LineStatus = "BROKEN"]
  /\ timers' = ts
  /\ mac' = ClosedMac
  /\ REPORTBACK("NETBROKEN")
  /\ UNCHANGED <<DialInfo, awake>>

\* The successful end of dial_Ctl_ScrPar_LoginEnd.
StartNegotiation(run) ==
  /\ Run_Info' = [run EXCEPT !.run_state = "PPP"]
  /\ timers' = IF DialInfo.AutoHangup THEN timers \cup {"TEST"} ELSE timers
  /\ mac' = [mac EXCEPT !.network = "starting"]
  /\ Silent
  /\ UNCHANGED <<DialInfo, awake>>

-----------------------------------------------------------------------------
(* The window procedure: one action for each message.                      *)

Start == Got("ctrl", "START") /\ OperateDial(timers)

HangUp == Got("ctrl", "HANGUP") /\ StopNetwork(timers)

RunCancel ==
  /\ Got("ctrl", "RUNCANCEL")
  /\ LET ts == IF Run_Info.run_state = "DIAL" /\ Run_Info.rep_times > 0
                 THEN timers \ {"BUSY"} ELSE timers
     IN \/ Run_Info.run_state \in {"DIAL", "LOGIN"} /\ OperateStop(ts)
        \/ Run_Info.run_state = "PPP" /\ StopNetwork(ts)
        \/ /\ Run_Info.run_state \in {"INVALID", "NET", "HANGUP"}
           /\ Silent
           /\ UNCHANGED <<Run_Info, DialInfo, timers, awake, mac>>

\* dial_Ctl_ScrPar_DailEnd.
DialEnd(result) ==
  /\ Run_Info.run_state = "DIAL"
  /\ Got("ctrl", result)
  /\ LET run == [Run_Info EXCEPT !.Mac_LineStatus = "CONNECTED"] IN
     \/ /\ result = "SCR_ERROR"
        /\ Abandon
        /\ UNCHANGED <<DialInfo, timers, awake>>
     \/ /\ result = "DP_SUCCESS"
        /\ Mode[DialInfo.src] = "GPRS"
        /\ StartNegotiation([run EXCEPT !.stg_track = "INVALID"])
     \/ /\ result = "DP_SUCCESS"
        /\ Mode[DialInfo.src] = "DATA"
        /\ LET login == [run EXCEPT !.stg_track = "INVALID"] IN
             \/ /\ CanExplain
                /\ Run_Info' = [login EXCEPT !.run_state = "LOGIN"]
                /\ mac' = [mac EXCEPT !.script = "LOGIN"]
                /\ Silent
             \/ /\ ExplainFails
                /\ Run_Info' = [login EXCEPT !.run_state = "INVALID"]
                /\ mac' = ClosedMac
                /\ REPORTBACK("NET_ABNORMAL")
        /\ UNCHANGED <<DialInfo, timers, awake>>
     \/ /\ result = "DP_BUSY"
        /\ LET busy == [run EXCEPT !.stg_track = "NOTPASS", !.rep_times = @ + 1]
           IN IF busy.rep_times <= RepeatDialTimes
                THEN /\ Run_Info' = busy
                     /\ timers' = timers \cup {"BUSY"}
                     /\ Silent
                     /\ UNCHANGED <<DialInfo, awake, mac>>
                ELSE OperateHangup(busy, timers)
     \/ /\ result \in {"DP_FAILURE", "DP_UNSUPPORTED_LOGIN"}
        /\ OperateHangup([run EXCEPT !.stg_track = "NOTPASS"], timers)

\* dial_Ctl_ScrPar_LoginEnd: a login the script does not know is left to PPP,
\* unless the carrier was lost meanwhile.
LoginEnd(result) ==
  /\ Run_Info.run_state = "LOGIN"
  /\ Got("ctrl", result)
  /\ \/ /\ result = "SCR_ERROR"
        /\ Abandon
        /\ UNCHANGED <<DialInfo, timers, awake>>
     \/ /\ \/ result = "DP_SUCCESS"
           \/ /\ result = "DP_UNSUPPORTED_LOGIN"
              /\ Run_Info.Mac_LineStatus = "CONNECTED"
        /\ StartNegotiation(Run_Info)
     \/ /\ \/ result = "DP_FAILURE"
           \/ /\ result = "DP_UNSUPPORTED_LOGIN"
              /\ Run_Info.Mac_LineStatus = "BROKEN"
        /\ OperateHangup(Run_Info, timers)

\* EXPLAIN_END: the result does not matter when hanging up, and nothing
\* happens in the other states.
ExplainEnd(result) ==
  \/ DialEnd(result)
  \/ LoginEnd(result)
  \/ /\ Run_Info.run_state = "HANGUP"
     /\ Got("ctrl", result)
     /\ HangupEnd(timers)
  \/ /\ Run_Info.run_state \notin {"DIAL", "LOGIN", "HANGUP"}
     /\ Got("ctrl", result)
     /\ Silent
     /\ UNCHANGED <<Run_Info, DialInfo, timers, awake, mac>>

\* dial_Ctl_NegotiateEnd, which looks at no state.
NegotiateEnd ==
  \/ /\ Got("ctrl", "PPP_CLOSED")
     /\ OperateHangup(Run_Info, timers \ {"STOP"})
  \/ /\ Got("ctrl", "PPP_RE_NEGO")
     /\ Run_Info' = [Run_Info EXCEPT !.ReNegFlag = TRUE]
     /\ Silent
     /\ UNCHANGED <<DialInfo, timers, awake, mac>>
  \/ /\ Got("ctrl", "PPP_SUCCESS")
     /\ IF Run_Info.ReNegFlag
          THEN Run_Info' = [Run_Info EXCEPT !.ReNegFlag = FALSE] /\ Silent
          ELSE /\ Run_Info' = [Run_Info EXCEPT !.run_state = "NET"]
               /\ REPORTBACK("NETCONNECT")
     /\ UNCHANGED <<DialInfo, timers, awake, mac>>
  \/ /\ Got("ctrl", "PPP_FAILURE")
     /\ OperateHangup([Run_Info EXCEPT !.ReNegFlag = FALSE], timers)

\* dial_Ctl_MacLineStatus.
MacLineStatus ==
  \/ /\ Got("ctrl", "LINE_UP")
     /\ Run_Info' = [Run_Info EXCEPT !.Mac_LineStatus = "CONNECTED"]
     /\ Silent
     /\ UNCHANGED <<DialInfo, timers, awake, mac>>
  \/ /\ Got("ctrl", "LINE_DOWN")
     /\ IF Run_Info.run_state \in {"PPP", "NET"}
          THEN HangupEnd(timers \ ({"STOP"} \cup
                           {x \in {"TEST"} : DialInfo.AutoHangup}))
          ELSE /\ Run_Info' = [Run_Info EXCEPT !.Mac_LineStatus = "BROKEN"]
               /\ Silent
               /\ UNCHANGED <<DialInfo, timers, awake, mac>>

\* dial_Ctl_AutoLineDown, the tick at which the line was silent for too long;
\* the others change nothing.
TestTimer ==
  /\ Fires("TEST")
  /\ IF DialInfo.AutoHangup
       THEN StopNetwork(timers \ {"TEST"})
       ELSE /\ timers' = timers \ {"TEST"}
            /\ UNCHANGED <<Run_Info, DialInfo, awake, mac, posted>>

\* A mutant of BusyTimer that does not kill the timer.
Bug_BusyTimer == Fires("BUSY") /\ OperateDial(timers)

BusyTimer == Fires("BUSY") /\ OperateDial(timers \ {"BUSY"})

StopTimer == Fires("STOP") /\ OperateHangup(Run_Info, timers \ {"STOP"})

dial_Ctl_Proc ==
  \/ Start \/ HangUp \/ RunCancel
  \/ \E result \in ScriptResults : ExplainEnd(result)
  \/ NegotiateEnd \/ MacLineStatus
  \/ TestTimer \/ BusyTimer \/ StopTimer

-----------------------------------------------------------------------------
(* The interface for the manager.  A call is part of the caller's action:  *)
(* q are the messages posted before it.                                    *)

\* DIALER_SelConnect refuses while the dialer is not idle, and fails when the
\* one device is still open.
Accepts == Run_Info.run_state = "INVALID" /\ ~mac.open
Refuses == ~Accepts \/ "open" \in Faults

\* dial_GetEnvelope: AutoHangupTimeout is set for data calls only.
GetEnvelope(src) ==
  [src |-> src, AutoHangup |->
     IF Mode[src] = "DATA" THEN AutoDisconn ELSE DialInfo.AutoHangup]

DIALER_SelConnect(src, q) ==
  /\ Accepts
  /\ mac' = [mac EXCEPT !.open = TRUE]
  /\ DialInfo' = GetEnvelope(src)
  /\ posted' = Append(q, Message("ctrl", "START"))
  /\ UNCHANGED <<Run_Info, timers, awake>>

\* What DIALER_HangUp and DIALER_DialCancel post, if they accept.
HangUpMessages ==
  CASE Run_Info.run_state = "NET" -> {"HANGUP"}
    [] Run_Info.run_state \in {"DIAL", "LOGIN", "PPP"} -> {"RUNCANCEL"}
    [] OTHER -> {}

\* DIALER_CompareInfo.
SameInfo(src) == src = DialInfo.src

-----------------------------------------------------------------------------
(* The MAC layer.                                                          *)

MacPosts(msg) == /\ Len(posted) < MaxPosted
                 /\ posted' = Append(posted, Message("ctrl", msg))
                 /\ UNCHANGED <<Run_Info, DialInfo, timers, awake>>

\* What the scripts scptDATA.txt and scptGPRS.txt return at each stage.
ResultsOf(script) ==
  {"DP_SUCCESS"} \cup
  {r \in {"DP_FAILURE"} : "fail" \in Faults} \cup
  {r \in {"SCR_ERROR"} : "script" \in Faults} \cup
  {r \in {"DP_BUSY"} : "busy" \in Faults /\ script = "DIAL"
                       /\ Mode[DialInfo.src] = "DATA"} \cup
  {r \in {"DP_UNSUPPORTED_LOGIN"} : "fail" \in Faults /\ script = "LOGIN"}

MacScriptEnds ==
  /\ mac.script # "none"
  /\ \E result \in ResultsOf(mac.script) :
       /\ MacPosts(result)
       /\ mac' = [mac EXCEPT !.script = "none", !.line =
                    IF mac.script = "DIAL" THEN result = "DP_SUCCESS"
                    ELSE @ /\ mac.script = "LOGIN"]

\* PPP needs the line; renegotiation begins when it is up.
MacNegotiates ==
  \/ /\ mac.network = "starting" /\ mac.line
     /\ mac' = [mac EXCEPT !.network = "up"]
     /\ MacPosts("PPP_SUCCESS")
  \/ /\ mac.network = "starting"
     /\ "ppp" \in Faults \/ ~mac.line
     /\ mac' = [mac EXCEPT !.network = "down"]
     /\ MacPosts("PPP_FAILURE")
  \/ /\ mac.network = "up"
     /\ "renego" \in Faults
     /\ mac' = [mac EXCEPT !.network = "starting"]
     /\ MacPosts("PPP_RE_NEGO")

MacNetworkCloses ==
  /\ mac.network = "stopping" \/ (mac.network = "up" /\ "closed" \in Faults)
  /\ mac' = [mac EXCEPT !.network = "down"]
  /\ MacPosts("PPP_CLOSED")

MacLine ==
  /\ "line" \in Faults
  /\ \/ /\ mac.script = "DIAL" /\ ~mac.line
        /\ mac' = [mac EXCEPT !.line = TRUE]
        /\ MacPosts("LINE_UP")
     \/ /\ mac.script # "DIAL" /\ mac.line
        /\ mac' = [mac EXCEPT !.line = FALSE, !.network = "down"]
        /\ MacPosts("LINE_DOWN")

Mac == MacScriptEnds \/ MacNegotiates \/ MacNetworkCloses \/ MacLine

-----------------------------------------------------------------------------
DialerInit ==
  /\ Run_Info = [run_state |-> "INVALID", stg_track |-> "INVALID",
                 rep_times |-> 0, Mac_LineStatus |-> "BROKEN",
                 ReNegFlag |-> FALSE]
  /\ DialInfo = [src |-> NULL, AutoHangup |-> FALSE]
  /\ timers = {}
  /\ awake = FALSE
  /\ mac = ClosedMac
  /\ posted = <<>>

RunInfos ==
  [run_state : {"INVALID", "DIAL", "LOGIN", "PPP", "NET", "HANGUP"},
   stg_track : {"INVALID", "BEGIN", "NOTPASS"},
   rep_times : 0..RepeatDialTimes + 1,
   Mac_LineStatus : {"BROKEN", "CONNECTED"},
   ReNegFlag : BOOLEAN]

Macs == [open : BOOLEAN,
         script : {"none", "DIAL", "LOGIN", "HANGUP", "STOP"},
         network : {"down", "starting", "up", "stopping"},
         line : BOOLEAN]

DialerTypeOK ==
  /\ Run_Info \in RunInfos
  /\ DialInfo \in [src : Infos \cup {NULL}, AutoHangup : BOOLEAN]
  /\ timers \subseteq {"TEST", "BUSY", "STOP"}
  /\ awake \in BOOLEAN
  /\ mac \in Macs
  /\ posted \in Seq(Messages)
=============================================================================
