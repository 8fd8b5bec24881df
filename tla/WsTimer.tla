------------------------------- MODULE WsTimer -------------------------------
(***************************************************************************)
(* The window timers (kernel/wstimer.c) with the part of the system layer  *)
(* they sleep in (hgos/osal.c), in the multi-threaded build.               *)
(*                                                                         *)
(* A timer is an entry of the system-wide TimerList and a slot of the      *)
(* thread it belongs to.  The applications' threads set and kill timers    *)
(* inside the monitor and touch TimerList under sem_timer; the timer task  *)
(* holds sem_timer for a whole pass over TimerList and takes the monitor   *)
(* in the middle of it when a timer is due.  So a call is two actions, one *)
(* that enters the monitor and one that gets sem_timer, does the rest and  *)
(* leaves: call[t] is what the thread holds the monitor for.  The pass is  *)
(* three: it takes sem_timer and reads the clock, it visits TimerList, it  *)
(* sets its time-out and releases sem_timer.                               *)
(*                                                                         *)
(* Time is counted in fractions of the shortest time the task sleeps.      *)
(* Blocking in GetMessage is one step here; MsgQueue shows that no wake-up *)
(* falls between its parts.  The keys that turn into other keys when held  *)
(* (LongKeyTask) only shorten the sleep of the task.                       *)
(***************************************************************************)
EXTENDS Naturals, FiniteSets

CONSTANTS
  Threads,            \* the threads that use the window system
  Windows,            \* their windows
  Owner,              \* the thread of each window (WINOBJ.dwThreadId)
  Events,             \* the timer identifiers an application uses
  Elapses,            \* the periods it asks for
  MAX_TIMERS,         \* entries of TimerList
  MAX_THREAD_TIMERS,  \* slots of a thread
  MinTimeout,         \* the shortest sleep of the task (50 ms)
  MAX_LONG,           \* the time-out when no timer runs
  KeyTimeouts,        \* time-outs LongKeyTask may ask for
  Calls,              \* what the applications do, a subset of AllCalls
  MaxLag, MaxSleep,   \* bounds: time that passes while the task runs, sleeps
  NULL                \* no window, no call, no slot

AllCalls == {"window", "thread", "kill", "destroy", "quit", "key"}

ASSUME OwnerAssumption == Owner \in [Windows -> Threads]
ASSUME TimesAssumption ==
  /\ Events \subseteq Nat \ {0} /\ Elapses \subseteq Nat /\ KeyTimeouts \subseteq Nat
  /\ MinTimeout \in Nat \ {0} /\ MAX_LONG \in Nat
  /\ MaxLag \in Nat /\ MaxSleep \in Nat
ASSUME TablesAssumption == MAX_TIMERS \in Nat \ {0} /\ MAX_THREAD_TIMERS \in Nat \ {0}

Indices == 1 .. MAX_TIMERS             \* a TimerId stands for its index + 1
Slots == 0 .. MAX_THREAD_TIMERS - 1
WindowOrNone == Windows \cup {NULL}

\* What a thread may hold the monitor for.
CallRecords ==
  [op : {"update", "create"}, hWnd : WindowOrNone, uIDEvent : Events,
   uElapse : Elapses, nSlot : Slots]
    \cup [op : {"kill"}, hWnd : WindowOrNone, uIDEvent : Events \cup Indices]
    \cup [op : {"killwindow"}, hWnd : Windows]

ASSUME NullAssumption == NULL \notin Windows \cup Threads \cup CallRecords

VARIABLES
  TimerList,     \* the timers of the system
  TimerInfo,     \* whom the timer in a slot is for, for each thread
  dwSlotMask,    \* the slots in use, for each thread
  dwActiveMask,  \* the slots whose timer is due
  uPreStart,     \* where the search for a due slot starts
  dwState,       \* the threads with QS_TIMER
  blocked,       \* the threads that wait in GetMessage (BLOCK_INGETMESSAGE)
  call,          \* what a thread holds the monitor for
  live,          \* the threads that have a THREADINFO
  window,        \* live, dying (its timers are killed, its handle is not) or gone
  task,          \* start, pass, sleep, wait or crashed
  uTimerTick,    \* the time the pass works with (0 when it is done)
  dwTimeout,     \* the time-out the pass has computed (0 when it is set)
  timer_timeout, \* the time-out of the task's sleep
  timer_event,   \* somebody asked the task to wake
  elapsed,       \* PLXOS_GetElapsedTime: time since it was last read for a pass
  slept,         \* for how long the task has slept (0 when it runs)
  age            \* time since each timer was set or was due last; for the properties

app == <<call, live, window>>
table == <<TimerList, age>>
queue == <<TimerInfo, dwSlotMask, dwActiveMask, uPreStart>>
wake == <<dwState, blocked>>
clock == <<elapsed, slept>>
pass == <<task, uTimerTick, dwTimeout, timer_timeout>>
vars == <<app, table, queue, wake, clock, pass, timer_event>>

-----------------------------------------------------------------------------
(* Slots, the two locks and the sleep of the task.                         *)

Unused == [bUsed |-> FALSE]
TimerRecords == [bUsed : {TRUE}, dwThreadId : Threads, nSlot : Slots,
                 uElapse : Elapses, uMiliSeconds : Nat] \cup {Unused}

\* WS_DestroyTimer and WS_KillWindowTimer clear a slot to this.
NoTimer == [hWnd |-> NULL, uEventId |-> 0, TimerId |-> 0]

Used == {i \in Indices : TimerList[i].bUsed}

\* The task holds sem_timer during its pass, a call only within one action.
SemTimerFree == task \notin {"pass", "sleep"}
MonitorFree == \A t \in Threads : call[t] = NULL

Smaller(a, b) == IF a < b THEN a ELSE b
Larger(a, b) == IF a > b THEN a ELSE b

-----------------------------------------------------------------------------
(* Mutants: what a slip in the operator named after Bug_ would make of it. *)
(* The properties are tested against them, nothing else uses them.         *)

\* Does not wake the task.
Bug_SetTimerEvent(ms) == UNCHANGED timer_event
\* Forgets QS_TIMER.
Bug_Activate(t, s) ==
  /\ dwActiveMask' = [dwActiveMask EXCEPT ![t] = @ \cup {s}]
  /\ blocked' = blocked \ {t}
  /\ UNCHANGED dwState
\* Counts the period from the last reading of the clock.
Bug_NewTimer(t, s, e) == [bUsed |-> TRUE, dwThreadId |-> t, nSlot |-> s,
                          uElapse |-> e, uMiliSeconds |-> e]
\* Starts where it was.
Bug_AfterSame(s) == s
\* Tests the mask of the slots that are due.
Bug_FreeSlots(t) == Slots \ dwActiveMask[t]

-----------------------------------------------------------------------------
(* The steps every part is made of.                                        *)

\* The mask with the bit of slot s cleared.
Without(mask, t, s) == [mask EXCEPT ![t] = @ \ {s}]

\* PLXOS_SetTimerEvent: wake the task if it would sleep past the new time.
SetTimerEvent(ms) == timer_event' = (timer_event \/ ms <= timer_timeout)

\* A slot is due: the message is in the queue, and the thread must not sleep.
Activate(t, s) ==
  /\ dwActiveMask' = [dwActiveMask EXCEPT ![t] = @ \cup {s}]
  /\ dwState' = dwState \cup {t}
  /\ blocked' = blocked \ {t}

Silent == UNCHANGED <<dwActiveMask, wake>>

Init ==
  /\ TimerList = [i \in Indices |-> Unused]
  /\ TimerInfo = [t \in Threads |-> [s \in Slots |-> NoTimer]]
  /\ dwSlotMask = [t \in Threads |-> {}]
  /\ dwActiveMask = [t \in Threads |-> {}]
  /\ uPreStart = [t \in Threads |-> 0]
  /\ dwState = {} /\ blocked = {}
  /\ call = [t \in Threads |-> NULL]
  /\ live = Threads
  /\ window = [w \in Windows |-> "live"]
  /\ task = "start" /\ uTimerTick = 0 /\ dwTimeout = 0
  /\ timer_timeout = 0 /\ timer_event = FALSE
  /\ elapsed = 0 /\ slept = 0
  /\ age = [i \in Indices |-> 0]

-----------------------------------------------------------------------------
(* SetTimer.                                                               *)

\* The thread is running its own code, or a window procedure.
Runs(t) == t \in live /\ t \notin blocked /\ call[t] = NULL

SlotsFor(t, w, id) ==
  {s \in Slots : TimerInfo[t][s].hWnd = w /\ TimerInfo[t][s].uEventId = id}
FreeSlots(t) == Slots \ dwSlotMask[t]
First(S) == CHOOSE s \in S : \A r \in S : s <= r

\* The monitor is taken.  A timer that exists is replaced, otherwise the first
\* free slot is marked before the timer is created.
SetTimer(t, w, id, e) ==
  /\ Runs(t) /\ MonitorFree
  /\ IF w = NULL THEN "thread" \in Calls ELSE "window" \in Calls
  /\ w # NULL => window[w] # "gone" /\ Owner[w] = t
  /\ IF w # NULL /\ SlotsFor(t, w, id) # {}
     THEN /\ call' = [call EXCEPT ![t] = [op |-> "update", hWnd |-> w, uIDEvent |-> id,
                        uElapse |-> e, nSlot |-> First(SlotsFor(t, w, id))]]
          /\ UNCHANGED dwSlotMask
     ELSE /\ FreeSlots(t) # {}
          /\ call' = [call EXCEPT ![t] = [op |-> "create", hWnd |-> w, uIDEvent |-> id,
                        uElapse |-> e, nSlot |-> First(FreeSlots(t))]]
          /\ dwSlotMask' = [dwSlotMask EXCEPT ![t] = @ \cup {First(FreeSlots(t))}]
  /\ UNCHANGED <<table, TimerInfo, dwActiveMask, uPreStart, wake, clock, pass,
                 timer_event, live, window>>

Leave(t) == call' = [call EXCEPT ![t] = NULL]

NewTimer(t, s, e) == [bUsed |-> TRUE, dwThreadId |-> t, nSlot |-> s, uElapse |-> e,
                      uMiliSeconds |-> e + elapsed]

\* CreateTimer and UpdateTimer write the entry under sem_timer.
WriteTimer(i, t, s, e) ==
  /\ TimerList' = [TimerList EXCEPT ![i] = NewTimer(t, s, e)]
  /\ age' = [age EXCEPT ![i] = 0]
  /\ SetTimerEvent(e + elapsed)

\* WS_CreateTimer when UpdateTimer or CreateTimer returns: a timer of no time at
\* all is due at once.
AtOnce(t, s, e) == IF e = 0 THEN Activate(t, s) ELSE Silent

UpdateTimer(t) ==
  /\ call[t] # NULL /\ call[t].op = "update" /\ SemTimerFree
  /\ LET c == call[t] IN
       /\ WriteTimer(TimerInfo[t][c.nSlot].TimerId, t, c.nSlot, c.uElapse)
       /\ AtOnce(t, c.nSlot, c.uElapse)
  /\ Leave(t)
  /\ UNCHANGED <<TimerInfo, dwSlotMask, uPreStart, clock, pass, live, window>>

CreateTimer(t) ==
  /\ call[t] # NULL /\ call[t].op = "create" /\ SemTimerFree
  /\ LET c == call[t]
         unused == Indices \ Used
         i == First(unused)
     IN IF unused = {}
        THEN /\ dwSlotMask' = Without(dwSlotMask, t, c.nSlot)
             /\ UNCHANGED <<table, TimerInfo, timer_event>> /\ Silent
        ELSE /\ WriteTimer(i, t, c.nSlot, c.uElapse)
             /\ TimerInfo' = [TimerInfo EXCEPT ![t][c.nSlot] =
                  [hWnd |-> c.hWnd, TimerId |-> i,
                   uEventId |-> IF c.hWnd = NULL THEN i ELSE c.uIDEvent]]
             /\ AtOnce(t, c.nSlot, c.uElapse)
             /\ UNCHANGED dwSlotMask
  /\ Leave(t)
  /\ UNCHANGED <<uPreStart, clock, pass, live, window>>

-----------------------------------------------------------------------------
(* KillTimer, and the end of a window or a thread.                         *)

\* The thread whose slots WS_DestroyTimer searches: any thread may kill a
\* timer of a window.
Holder(t, w) == IF w = NULL THEN t ELSE Owner[w]

KillTimer(t, w, id) ==
  /\ "kill" \in Calls /\ Runs(t) /\ MonitorFree
  /\ w # NULL => window[w] # "gone" /\ Owner[w] \in live
  /\ SlotsFor(Holder(t, w), w, id) # {}
  /\ call' = [call EXCEPT ![t] = [op |-> "kill", hWnd |-> w, uIDEvent |-> id]]
  /\ UNCHANGED <<table, queue, wake, clock, pass, timer_event, live, window>>

\* DestroyTimer under sem_timer, and the slot.
FreeSlot(t, s) ==
  /\ TimerList' = [TimerList EXCEPT ![TimerInfo[t][s].TimerId] = Unused]
  /\ age' = [age EXCEPT ![TimerInfo[t][s].TimerId] = 0]
  /\ dwSlotMask' = Without(dwSlotMask, t, s)
  /\ dwActiveMask' = Without(dwActiveMask, t, s)
  /\ TimerInfo' = [TimerInfo EXCEPT ![t][s] = NoTimer]
  /\ UNCHANGED uPreStart

DestroyTimer(t) ==
  /\ call[t] # NULL /\ call[t].op = "kill" /\ SemTimerFree
  /\ LET u == Holder(t, call[t].hWnd) IN
       FreeSlot(u, First(SlotsFor(u, call[t].hWnd, call[t].uIDEvent)))
  /\ Leave(t)
  /\ UNCHANGED <<wake, clock, pass, timer_event, live, window>>

\* DestroyAWindow enters; WS_KillWindowTimer frees one slot after the other and
\* leaves sem_timer between two of them.
DestroyAWindow(t, w) ==
  /\ "destroy" \in Calls /\ Runs(t) /\ MonitorFree
  /\ window[w] = "live" /\ Owner[w] = t
  /\ call' = [call EXCEPT ![t] = [op |-> "killwindow", hWnd |-> w]]
  /\ UNCHANGED <<table, queue, wake, clock, pass, timer_event, live, window>>

SlotsOfWindow(t, w) == {s \in dwSlotMask[t] : TimerInfo[t][s].hWnd = w}

WS_KillWindowTimer(t) ==
  /\ call[t] # NULL /\ call[t].op = "killwindow"
  /\ LET S == SlotsOfWindow(t, call[t].hWnd) IN
       IF S = {}
       THEN /\ window' = [window EXCEPT ![call[t].hWnd] = "dying"]
            /\ Leave(t)
            /\ UNCHANGED <<table, queue>>
       ELSE /\ SemTimerFree
            /\ FreeSlot(t, First(S))
            /\ UNCHANGED <<call, window>>
  /\ UNCHANGED <<wake, clock, pass, timer_event, live>>

\* The handlers of WM_NCDESTROY and WM_DATADESTROY have run (they may call
\* SetTimer); the handle is removed from the table.
UnregisterWindow(t, w) ==
  /\ Runs(t) /\ MonitorFree /\ window[w] = "dying" /\ Owner[w] = t
  /\ window' = [window EXCEPT ![w] = "gone"]
  /\ UNCHANGED <<table, queue, wake, clock, pass, timer_event, live, call>>

\* WS_ThreadExit with no window left: the THREADINFO is freed, the timers it
\* set for no window stay in TimerList.
ThreadExit(t) ==
  /\ "quit" \in Calls /\ Runs(t) /\ MonitorFree
  /\ \A w \in Windows : Owner[w] = t => window[w] = "gone"
  /\ live' = live \ {t}
  /\ dwState' = dwState \ {t}
  /\ dwSlotMask' = [dwSlotMask EXCEPT ![t] = {}]
  /\ dwActiveMask' = [dwActiveMask EXCEPT ![t] = {}]
  /\ TimerInfo' = [TimerInfo EXCEPT ![t] = [s \in Slots |-> NoTimer]]
  /\ UNCHANGED <<table, uPreStart, blocked, clock, pass, timer_event, call, window>>

-----------------------------------------------------------------------------
(* WS_GetMessage, as far as timers go.                                     *)

DueSlots(t) == dwSlotMask[t] \cap dwActiveMask[t]

\* Where the next search starts when slot s has been served.
After(s) == (s + 1) % MAX_THREAD_TIMERS

\* The slots from uPreStart on come first, then the others.
NextDue(t) ==
  LET later == {s \in DueSlots(t) : s >= uPreStart[t]}
  IN IF later # {} THEN First(later) ELSE First(DueSlots(t))

\* WS_GetTimerMessage takes the message of one slot.
GetTimerMessage(t) ==
  /\ t \in live /\ t \notin blocked /\ MonitorFree
  /\ t \in dwState /\ DueSlots(t) # {}
  /\ LET s == NextDue(t) IN
       /\ dwActiveMask' = Without(dwActiveMask, t, s)
       /\ uPreStart' = [uPreStart EXCEPT ![t] = After(s)]
       /\ dwState' = IF dwActiveMask[t] = {s} THEN dwState \ {t} ELSE dwState
  /\ UNCHANGED <<table, TimerInfo, dwSlotMask, blocked, clock, pass, timer_event, app>>

\* No timer is due, and nothing else is there: the thread blocks.
Block(t) ==
  /\ t \in live /\ t \notin blocked /\ MonitorFree
  /\ ~(t \in dwState /\ DueSlots(t) # {})
  /\ dwState' = IF dwActiveMask[t] = {} THEN dwState \ {t} ELSE dwState
  /\ blocked' = blocked \cup {t}
  /\ UNCHANGED <<table, queue, clock, pass, timer_event, app>>

\* Some other message wakes it (see MsgQueue).
OtherMessage(t) ==
  /\ t \in blocked /\ MonitorFree
  /\ blocked' = blocked \ {t}
  /\ UNCHANGED <<table, queue, dwState, clock, pass, timer_event, app>>

-----------------------------------------------------------------------------
(* WS_TimerTask.                                                           *)

DueIn(tick) == {i \in Used : TimerList[i].uMiliSeconds <= tick}
Due == DueIn(uTimerTick)

\* TIMER_WAITOBJ, PLXOS_GetElapsedTime(TRUE).
TakeTime ==
  /\ task = "start"
  /\ task' = "pass" /\ uTimerTick' = elapsed /\ elapsed' = 0
  /\ age' = [i \in Indices |-> IF i \in DueIn(elapsed) THEN 0 ELSE age[i]]
  /\ UNCHANGED <<TimerList, queue, wake, slept, dwTimeout, timer_timeout,
                 timer_event, app>>

Visited(i) ==
  IF i \in Due THEN [TimerList[i] EXCEPT !.uMiliSeconds = TimerList[i].uElapse]
  ELSE IF i \in Used THEN [TimerList[i] EXCEPT !.uMiliSeconds = @ - uTimerTick]
  ELSE TimerList[i]

NearestTimeout ==
  LET times == {Visited(i).uMiliSeconds : i \in Used} \cup {MAX_LONG}
  IN First(times)

\* The visit of TimerList.  From the first timer that is due the task holds the
\* monitor; an entry whose thread has gone is a null pointer.
VisitTimers ==
  /\ task = "pass"
  /\ Due # {} => MonitorFree
  /\ IF \E i \in Due : TimerList[i].dwThreadId \notin live
     THEN /\ task' = "crashed"
          /\ UNCHANGED <<TimerList, dwActiveMask, wake, dwTimeout>>
     ELSE LET mine(t) == {TimerList[i].nSlot : i \in {j \in Due : TimerList[j].dwThreadId = t}}
              woken == {TimerList[i].dwThreadId : i \in Due}
          IN /\ task' = "sleep"
             /\ TimerList' = [i \in Indices |-> Visited(i)]
             /\ dwActiveMask' = [t \in Threads |-> dwActiveMask[t] \cup mine(t)]
             /\ dwState' = dwState \cup woken
             /\ blocked' = blocked \ woken
             /\ dwTimeout' = NearestTimeout
  /\ uTimerTick' = 0
  /\ UNCHANGED <<age, TimerInfo, dwSlotMask, uPreStart, clock, timer_timeout,
                 timer_event, app>>

\* LongKeyTask, PLXOS_SetTimerout, TIMER_RELEASEOBJ.
SetTimeout ==
  /\ task = "sleep"
  /\ task' = "wait" /\ dwTimeout' = 0
  /\ \E lk \in KeyTimeouts \cup {MAX_LONG} :
       timer_timeout' = Larger(Smaller(dwTimeout, lk), MinTimeout)
  /\ UNCHANGED <<table, queue, wake, clock, uTimerTick, timer_event, app>>

\* PLXOS_WaitTimerEvent returns.
Wake ==
  /\ task = "wait"
  /\ timer_event \/ slept >= timer_timeout
  /\ task' = "start" /\ timer_event' = FALSE /\ slept' = 0
  /\ UNCHANGED <<table, queue, wake, elapsed, uTimerTick, dwTimeout, timer_timeout, app>>

\* StartLongKey asks for a wake-up.
LongKeyPressed ==
  /\ "key" \in Calls
  /\ \E lk \in KeyTimeouts : SetTimerEvent(lk + elapsed)
  /\ UNCHANGED <<table, queue, wake, clock, pass, app>>

Tick ==
  /\ IF task = "wait" THEN slept < MaxSleep ELSE elapsed < MaxLag
  /\ elapsed' = elapsed + 1
  /\ slept' = IF task = "wait" THEN slept + 1 ELSE slept
  /\ age' = [i \in Indices |-> IF i \in Used THEN age[i] + 1 ELSE 0]
  /\ UNCHANGED <<TimerList, queue, wake, pass, timer_event, app>>

-----------------------------------------------------------------------------

Call(t) ==
  \/ \E w \in WindowOrNone, id \in Events, e \in Elapses : SetTimer(t, w, id, e)
  \/ \E w \in WindowOrNone, id \in Events \cup Indices : KillTimer(t, w, id)
  \/ \E w \in Windows : DestroyAWindow(t, w)
  \/ ThreadExit(t)

Return(t) ==
  \/ UpdateTimer(t) \/ CreateTimer(t) \/ DestroyTimer(t) \/ WS_KillWindowTimer(t)
  \/ \E w \in Windows : UnregisterWindow(t, w)

GetMessage(t) == GetTimerMessage(t) \/ Block(t)

TimerTask == TakeTime \/ VisitTimers \/ SetTimeout \/ Wake

Next ==
  \/ \E t \in Threads : Call(t) \/ Return(t) \/ GetMessage(t) \/ OtherMessage(t)
  \/ TimerTask
  \/ LongKeyPressed
  \/ Tick

Spec == Init /\ [][Next]_vars

\* A thread comes back to its message loop, gets the monitor and sem_timer in
\* the end although others take them again and again, and time passes.
FairSpec ==
  /\ Spec
  /\ \A t \in Threads : SF_vars(Return(t)) /\ SF_vars(GetMessage(t))
  /\ SF_vars(TimerTask)
  /\ WF_vars(Tick)

-----------------------------------------------------------------------------
(* Correctness.                                                            *)

TypeOK ==
  /\ TimerList \in [Indices -> TimerRecords]
  /\ TimerInfo \in [Threads -> [Slots -> [hWnd : WindowOrNone, TimerId : Indices \cup {0},
                                          uEventId : Events \cup Indices \cup {0}]]]
  /\ dwSlotMask \in [Threads -> SUBSET Slots]
  /\ dwActiveMask \in [Threads -> SUBSET Slots]
  /\ uPreStart \in [Threads -> Slots]
  /\ dwState \subseteq Threads /\ blocked \subseteq Threads /\ live \subseteq Threads
  /\ call \in [Threads -> CallRecords \cup {NULL}]
  /\ window \in [Windows -> {"live", "dying", "gone"}]
  /\ task \in {"start", "pass", "sleep", "wait", "crashed"}
  /\ uTimerTick \in Nat /\ dwTimeout \in Nat /\ timer_timeout \in Nat
  /\ timer_event \in BOOLEAN
  /\ elapsed \in Nat /\ slept \in Nat /\ age \in [Indices -> Nat]

Filled(t, s, i) == TimerInfo[t][s].TimerId = i
Creating(t, s) == call[t] # NULL /\ call[t].op = "create" /\ call[t].nSlot = s

\* A timer of a thread that is there has a slot.
TimersHaveSlots ==
  \A i \in Used :
    TimerList[i].dwThreadId \in live =>
      /\ TimerList[i].nSlot \in dwSlotMask[TimerList[i].dwThreadId]
      /\ Filled(TimerList[i].dwThreadId, TimerList[i].nSlot, i)

\* A slot that is taken has a timer, unless it is being created.
SlotsHaveTimers ==
  \A t \in live, s \in Slots :
    IF s \in dwSlotMask[t] /\ ~Creating(t, s)
    THEN \E i \in Used : /\ Filled(t, s, i)
                         /\ TimerList[i].dwThreadId = t /\ TimerList[i].nSlot = s
    ELSE TimerInfo[t][s] = NoTimer

\* The slots of the threads and the system's list describe the same timers: a
\* running timer finds the slot it makes due (the ASSERT of wstimer.c:444), and
\* no slot stays taken without a timer when a call fails or a timer is killed.
SlotsMatchTimers == TimersHaveSlots /\ SlotsHaveTimers

\* A message of a killed timer is never pending, and a thread that has one
\* pending knows it (QS_TIMER) and does not sleep.
DueIsPending ==
  \A t \in live :
    /\ dwActiveMask[t] \subseteq dwSlotMask[t]
    /\ dwActiveMask[t] # {} => t \in dwState /\ t \notin blocked

\* While the task sleeps and nobody has asked it to wake, it does not sleep past
\* any timer, whoever set it at whatever point of the pass (the comment at
\* wstimer.c:472 argues that the old and the new time-out cannot be confused).
NeverOversleeps ==
  task = "wait" /\ ~timer_event =>
    \A i \in Used : timer_timeout <= Larger(TimerList[i].uMiliSeconds, MinTimeout)

\* No timer is due before its period has passed since it was set, or since it
\* was last due, although periods are counted from the last reading of the clock.
NotEarly ==
  [][task = "start" /\ task' = "pass" =>
       \A i \in Due' : age[i] >= TimerList[i].uElapse]_vars

\* The thread waits for sem_timer inside the monitor, the task for the monitor
\* with sem_timer: the locks are taken in opposite orders (wstimer.c:422 and 438
\* against 114 and 738), and neither goes on again.
LockCycle ==
  /\ task = "pass" /\ Due # {}
  /\ \E t \in Threads : call[t] # NULL /\
       (call[t].op = "killwindow" => SlotsOfWindow(t, call[t].hWnd) # {})

\* SetTimer marks the slot first so that the task can make the timer due as soon
\* as it exists (comment at wstimer.c:616): the task always gets through.
TaskGetsThrough == ~LockCycle

Stuck == LockCycle \/ task = "crashed"

\* Every timer that is due is delivered or killed, however often the other timers
\* of the thread are due again: the slots are served in turns (wstimer.c:331).
DueServed ==
  \A t \in Threads, s \in Slots :
    s \in dwActiveMask[t] ~> s \notin dwActiveMask[t] \/ Stuck

\* A timer whose period has passed becomes due, unless it is set anew or killed.
TimerFires ==
  \A i \in Indices :
    (i \in Used /\ age[i] >= TimerList[i].uElapse) ~>
      (age[i] = 0 \/ i \notin Used \/ Stuck)
=============================================================================
