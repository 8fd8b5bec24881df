--------------------------- MODULE WsTimer_proofs ---------------------------
(***************************************************************************)
(* Proofs about WsTimer, for any threads, windows, tables and bounds:      *)
(*   TypeCorrect      the type invariant;                                  *)
(*   TablesAgree      the threads' slots and TimerList describe the same   *)
(*                    timers;                                              *)
(*   PendingIsSeen    a due timer is never killed and its thread awake;    *)
(*   SleepIsBounded   the task does not sleep past a timer;                *)
(*   PeriodsAreKept   no timer is due before its period has passed.        *)
(* CallInv says what a thread may rely on between the two parts of a call, *)
(* while it waits for sem_timer inside the monitor.  PeriodInv relates the *)
(* time a timer has left to its age; during a pass the time that the pass  *)
(* took from the clock is still in what is left.                           *)
(***************************************************************************)
EXTENDS WsTimer, WellFoundedInduction, NaturalsInduction, TLAPS

-----------------------------------------------------------------------------
(* The inductive invariant.                                                *)

\* One thread at a time holds the monitor for a call, and it runs.  What the call
\* is about does not change until it has got sem_timer.
CallInv ==
  \A t \in Threads : call[t] # NULL =>
    /\ t \in live /\ t \notin blocked
    /\ \A u \in Threads : call[u] # NULL => u = t
    /\ LET c == call[t] IN
         /\ c.op = "update" => c.nSlot \in dwSlotMask[t]
         /\ c.op = "create" => c.nSlot \in dwSlotMask[t] \ dwActiveMask[t]
         /\ c.op = "kill" => /\ Holder(t, c.hWnd) \in live
                             /\ SlotsFor(Holder(t, c.hWnd), c.hWnd, c.uIDEvent) # {}
         /\ c.op = "killwindow" => Owner[c.hWnd] = t

\* The time-out the pass has computed is not after any timer.
NearestInv == task = "sleep" => \A i \in Used : dwTimeout <= TimerList[i].uMiliSeconds
SleepInv == NearestInv /\ NeverOversleeps

\* What is left of a period, the time since the clock was read aside, is not less
\* than what has not passed of it.
PeriodInv ==
  task # "crashed" => \A i \in Used :
    IF task = "pass"
    THEN IF i \in Due THEN age[i] >= elapsed
         ELSE TimerList[i].uMiliSeconds + age[i] >= TimerList[i].uElapse + elapsed + uTimerTick
    ELSE TimerList[i].uMiliSeconds + age[i] >= TimerList[i].uElapse + elapsed

IInv == TypeOK /\ CallInv /\ SlotsMatchTimers /\ DueIsPending /\ SleepInv /\ PeriodInv

-----------------------------------------------------------------------------
(* Data.                                                                   *)

\* A set of natural numbers has a first element.
LEMMA FirstIs ==
  ASSUME NEW T, T \subseteq Nat, T # {}
  PROVE  First(T) \in T /\ \A y \in T : First(T) <= y
  <1> DEFINE R == OpToRel(<, Nat)
  <1>1. IsWellFoundedOn(R, Nat) BY NatLessThanWellFounded
  <1>2. \A x \in Nat, y \in Nat : y < x => <<y, x>> \in R BY DEF OpToRel
  <1> HIDE DEF R
  <1>3. PICK x \in T : \A y \in T : ~(<<y, x>> \in R) BY <1>1, WFMin
  <1>4. \A y \in T : ~(y < x) BY <1>2, <1>3
  <1>5. \A y \in T : x <= y BY <1>4
  <1> QED BY <1>5 DEF First

\* Indexes and slots are numbers, and a record is a call.
LEMMA Ranges ==
  /\ Indices \subseteq Nat \ {0} /\ Slots \subseteq Nat /\ 0 \in Slots
  /\ Events \subseteq Nat \ {0} /\ Elapses \subseteq Nat
  /\ \A c \in CallRecords : c # NULL
  BY TimesAssumption, TablesAssumption, NullAssumption DEF Indices, Slots

\* The fields of the timers in use.
LEMMA UsedFacts ==
  ASSUME TypeOK
  PROVE  /\ \A i \in Used : /\ i \in Indices /\ TimerList[i].bUsed
                            /\ TimerList[i].dwThreadId \in Threads
                            /\ TimerList[i].nSlot \in Slots /\ TimerList[i].uElapse \in Elapses
                            /\ TimerList[i].uElapse \in Nat /\ TimerList[i].uMiliSeconds \in Nat
         /\ \A i \in Indices \ Used : TimerList[i] = Unused
  <1>1. \A r \in TimerRecords :
          \/ r = Unused /\ ~r.bUsed
          \/ /\ r.bUsed /\ r.dwThreadId \in Threads /\ r.nSlot \in Slots
             /\ r.uElapse \in Elapses /\ r.uMiliSeconds \in Nat
    <2> SUFFICES ASSUME NEW r \in TimerRecords
                 PROVE  \/ r = Unused /\ ~r.bUsed
                        \/ /\ r.bUsed /\ r.dwThreadId \in Threads /\ r.nSlot \in Slots
                           /\ r.uElapse \in Elapses /\ r.uMiliSeconds \in Nat
      OBVIOUS
    <2>1. CASE r = Unused
      <3>1. Unused.bUsed = FALSE BY DEF Unused
      <3> QED BY <2>1, <3>1
    <2>2. CASE r # Unused
      <3>1. r \in [bUsed : {TRUE}, dwThreadId : Threads, nSlot : Slots,
                   uElapse : Elapses, uMiliSeconds : Nat]
        BY <2>2 DEF TimerRecords
      <3>2. r.bUsed = TRUE BY <3>1
      <3>3. /\ r.dwThreadId \in Threads /\ r.nSlot \in Slots
            /\ r.uElapse \in Elapses /\ r.uMiliSeconds \in Nat
        BY <3>1
      <3> QED BY <3>2, <3>3
    <2> QED BY <2>1, <2>2
  <1>2. \A i \in Indices : TimerList[i] \in TimerRecords BY DEF TypeOK
  <1> QED BY <1>1, <1>2, Ranges DEF Used

\* The timers in use when an entry is written, and when one is freed.
LEMMA UsedWritten ==
  ASSUME TypeOK, NEW i \in Indices, NEW t \in Threads, NEW s \in Slots, NEW e \in Elapses,
         TimerList' = [TimerList EXCEPT ![i] = NewTimer(t, s, e)]
  PROVE  /\ TimerList' \in [Indices -> TimerRecords] /\ Used' = Used \cup {i}
         /\ TimerList'[i] = NewTimer(t, s, e)
         /\ \A j \in Indices \ {i} : TimerList'[j] = TimerList[j]
  <1>1. e + elapsed \in Nat BY Ranges DEF TypeOK
  <1>2. NewTimer(t, s, e) \in TimerRecords /\ NewTimer(t, s, e).bUsed
    BY <1>1 DEF NewTimer, TimerRecords
  <1> HIDE DEF NewTimer
  <1>3. TimerList' \in [Indices -> TimerRecords] BY <1>2 DEF TypeOK
  <1>4. TimerList'[i] = NewTimer(t, s, e) /\ \A j \in Indices \ {i} : TimerList'[j] = TimerList[j]
    BY DEF TypeOK
  <1>5. Used' = Used \cup {i} BY <1>2, <1>4 DEF Used
  <1> QED BY <1>3, <1>4, <1>5

\* The timers in use when an entry is freed.
LEMMA UsedFreed ==
  ASSUME TypeOK, NEW i \in Indices, TimerList' = [TimerList EXCEPT ![i] = Unused]
  PROVE  /\ TimerList' \in [Indices -> TimerRecords] /\ Used' = Used \ {i}
         /\ \A j \in Indices \ {i} : TimerList'[j] = TimerList[j]
  <1>1. Unused \in TimerRecords /\ ~Unused.bUsed BY DEF Unused, TimerRecords
  <1> HIDE DEF Unused
  <1>2. TimerList' \in [Indices -> TimerRecords] BY <1>1 DEF TypeOK
  <1>3. TimerList'[i] = Unused /\ \A j \in Indices \ {i} : TimerList'[j] = TimerList[j]
    BY DEF TypeOK
  <1>4. Used' = Used \ {i} BY <1>1, <1>3 DEF Used
  <1> QED BY <1>2, <1>3, <1>4

\* A slot that is not taken has no timer, one that is taken has its own.
Linked(t, s) ==
  LET i == TimerInfo[t][s].TimerId IN
    i \in Used /\ TimerList[i].dwThreadId = t /\ TimerList[i].nSlot = s

\* A slot that is not empty is taken and has its timer.
LEMMA SlotFacts ==
  ASSUME TypeOK, CallInv, SlotsMatchTimers, NEW t \in Threads, t \in live, NEW s \in Slots,
         TimerInfo[t][s] # NoTimer
  PROVE  s \in dwSlotMask[t] /\ ~Creating(t, s) /\ Linked(t, s)
  <1>1. s \in dwSlotMask[t] /\ ~Creating(t, s) BY DEF SlotsMatchTimers, SlotsHaveTimers
  <1>2. PICK i \in Used : /\ Filled(t, s, i)
                          /\ TimerList[i].dwThreadId = t /\ TimerList[i].nSlot = s
    BY <1>1 DEF SlotsMatchTimers, SlotsHaveTimers
  <1> QED BY <1>1, <1>2 DEF Linked, Filled

-----------------------------------------------------------------------------
(* A call enters the monitor.                                              *)

\* What changes neither TimerList nor the clock keeps the times.
LEMMA TimesKept ==
  ASSUME SleepInv, PeriodInv, UNCHANGED <<table, clock, pass, timer_event>>
  PROVE  SleepInv' /\ PeriodInv'
  <1>1. UNCHANGED <<TimerList, age, elapsed, task, uTimerTick, dwTimeout, timer_timeout, timer_event>>
    BY DEF table, clock, pass
  <1>2. Used' = Used BY <1>1 DEF Used
  <1>3. Due' = Due BY <1>1, <1>2 DEF Due, DueIn
  <1>4. SleepInv' BY <1>1, <1>2 DEF SleepInv, NearestInv, NeverOversleeps
  <1>5. PeriodInv' BY <1>1, <1>2, <1>3 DEF PeriodInv
  <1> QED BY <1>4, <1>5

\* The thread that enters is the only one.
LEMMA Entered ==
  ASSUME call \in [Threads -> CallRecords \cup {NULL}], NEW t \in Threads, MonitorFree, Runs(t),
         NEW c \in CallRecords, call' = [call EXCEPT ![t] = c]
  PROVE  /\ call'[t] = c /\ \A u \in Threads : call'[u] # NULL <=> u = t
         /\ \A u \in Threads, s \in Slots : ~Creating(u, s)
         /\ call' \in [Threads -> CallRecords \cup {NULL}]
  BY Ranges DEF MonitorFree, Creating

\* SetTimer enters the monitor and marks a slot.
LEMMA SetTimerStep ==
  ASSUME IInv, NEW t \in Threads, NEW w \in WindowOrNone, NEW id \in Events, NEW e \in Elapses,
         SetTimer(t, w, id, e)
  PROVE  IInv'
  <1> USE DEF IInv
  <1>1. /\ Runs(t) /\ MonitorFree /\ t \in live /\ t \notin blocked
        /\ UNCHANGED <<table, TimerInfo, dwActiveMask, uPreStart, wake, clock, pass,
                       timer_event, live, window>>
    BY DEF SetTimer, Runs
  <1>2. SleepInv' /\ PeriodInv' BY <1>1, TimesKept
  <1>3. UNCHANGED <<TimerList, age, dwState, blocked, elapsed, slept, task, uTimerTick,
                    dwTimeout, timer_timeout>> /\ Used' = Used
    BY <1>1 DEF table, wake, clock, pass, Used
  <1>4. CASE w # NULL /\ SlotsFor(t, w, id) # {}
    <2> DEFINE s == First(SlotsFor(t, w, id))
               c == [op |-> "update", hWnd |-> w, uIDEvent |-> id, uElapse |-> e, nSlot |-> s]
    <2>1. call' = [call EXCEPT ![t] = c] /\ UNCHANGED dwSlotMask BY <1>4 DEF SetTimer
    <2>2. SlotsFor(t, w, id) \subseteq Nat BY Ranges DEF SlotsFor
    <2>3. s \in SlotsFor(t, w, id) BY <1>4, <2>2, FirstIs
    <2>4. s \in Slots /\ TimerInfo[t][s].hWnd = w BY <2>3 DEF SlotsFor
    <2>5. TimerInfo[t][s] # NoTimer BY <1>4, <2>4 DEF NoTimer
    <2>6. s \in dwSlotMask[t] BY <1>1, <2>4, <2>5, SlotFacts
    <2>7. c \in CallRecords BY <2>4 DEF CallRecords
    <2>8. c.op = "update" /\ c.nSlot = s OBVIOUS
    <2> HIDE DEF s, c
    <2>9. /\ call'[t] = c /\ \A u \in Threads : call'[u] # NULL <=> u = t
          /\ \A u \in Threads, r \in Slots : ~Creating(u, r)
          /\ call' \in [Threads -> CallRecords \cup {NULL}]
      BY <1>1, <2>1, <2>7, Entered DEF TypeOK
    <2>10. \A u \in Threads, r \in Slots : ~Creating(u, r)' BY <2>8, <2>9 DEF Creating
    <2>11. TypeOK' BY <1>1, <1>3, <2>1, <2>9 DEF TypeOK
    <2>12. CallInv' BY <1>1, <1>3, <2>1, <2>6, <2>8, <2>9 DEF CallInv
    <2>13. SlotsMatchTimers'
      <3>1. TimersHaveSlots' BY <1>1, <1>3, <2>1 DEF SlotsMatchTimers, TimersHaveSlots, Filled
      <3>2. SlotsHaveTimers'
        BY <1>1, <1>3, <2>1, <2>9, <2>10 DEF SlotsMatchTimers, SlotsHaveTimers, Filled, TypeOK
      <3> QED BY <3>1, <3>2 DEF SlotsMatchTimers
    <2>14. DueIsPending' BY <1>1, <1>3, <2>1 DEF DueIsPending
    <2> QED BY <1>2, <2>11, <2>12, <2>13, <2>14
  <1>5. CASE ~(w # NULL /\ SlotsFor(t, w, id) # {})
    <2> DEFINE s == First(FreeSlots(t))
               c == [op |-> "create", hWnd |-> w, uIDEvent |-> id, uElapse |-> e, nSlot |-> s]
    <2>1. /\ FreeSlots(t) # {} /\ call' = [call EXCEPT ![t] = c]
          /\ dwSlotMask' = [dwSlotMask EXCEPT ![t] = @ \cup {s}]
      BY <1>5 DEF SetTimer
    <2>2. FreeSlots(t) \subseteq Nat BY Ranges DEF FreeSlots
    <2>3. s \in FreeSlots(t) BY <2>1, <2>2, FirstIs
    <2>4. s \in Slots /\ s \notin dwSlotMask[t] BY <2>3 DEF FreeSlots
    <2>5. TimerInfo[t][s] = NoTimer /\ s \notin dwActiveMask[t]
      BY <1>1, <2>4 DEF SlotsMatchTimers, SlotsHaveTimers, DueIsPending
    <2>6. c \in CallRecords BY <2>4 DEF CallRecords
    <2>7. c.op = "create" /\ c.nSlot = s OBVIOUS
    <2> HIDE DEF s, c
    <2>8. /\ call'[t] = c /\ \A u \in Threads : call'[u] # NULL <=> u = t
          /\ \A u \in Threads, r \in Slots : ~Creating(u, r)
          /\ call' \in [Threads -> CallRecords \cup {NULL}]
      BY <1>1, <2>1, <2>6, Entered DEF TypeOK
    <2>9. \A u \in Threads, r \in Slots : Creating(u, r)' <=> u = t /\ r = s
      BY <2>7, <2>8 DEF Creating
    <2>10. /\ dwSlotMask' \in [Threads -> SUBSET Slots] /\ dwSlotMask'[t] = dwSlotMask[t] \cup {s}
           /\ \A u \in Threads \ {t} : dwSlotMask'[u] = dwSlotMask[u]
      BY <2>1, <2>4 DEF TypeOK
    <2>11. TypeOK' BY <1>1, <1>3, <2>8, <2>10 DEF TypeOK
    <2>12. CallInv' BY <1>1, <1>3, <2>5, <2>7, <2>8, <2>10 DEF CallInv
    <2>13. SlotsMatchTimers'
      <3>1. TimersHaveSlots'
        <4> SUFFICES ASSUME NEW i \in Used, TimerList[i].dwThreadId \in live
                     PROVE  /\ TimerList[i].nSlot \in dwSlotMask'[TimerList[i].dwThreadId]
                            /\ Filled(TimerList[i].dwThreadId, TimerList[i].nSlot, i)
          BY <1>1, <1>3 DEF TimersHaveSlots, Filled
        <4>1. TimerList[i].dwThreadId \in Threads BY UsedFacts
        <4> QED BY <2>10, <4>1 DEF SlotsMatchTimers, TimersHaveSlots
      <3>2. ASSUME NEW u \in Threads, u \in live', NEW r \in Slots
            PROVE  IF r \in dwSlotMask'[u] /\ ~Creating(u, r)'
                   THEN \E i \in Used' : /\ Filled(u, r, i)'
                                         /\ TimerList'[i].dwThreadId = u /\ TimerList'[i].nSlot = r
                   ELSE TimerInfo'[u][r] = NoTimer
        <4>1. CASE u = t /\ r = s BY <1>1, <2>5, <2>9, <4>1
        <4>2. CASE ~(u = t /\ r = s)
          <5>1. ~Creating(u, r)' /\ ~Creating(u, r) BY <2>8, <2>9, <4>2
          <5>2. r \in dwSlotMask'[u] <=> r \in dwSlotMask[u] BY <2>10, <4>2
          <5> QED BY <1>1, <1>3, <3>2, <5>1, <5>2 DEF SlotsMatchTimers, SlotsHaveTimers, Filled
        <4> QED BY <4>1, <4>2
      <3>3. live' \subseteq Threads BY <2>11 DEF TypeOK
      <3>4. SlotsHaveTimers' BY <3>2, <3>3 DEF SlotsHaveTimers
      <3> QED BY <3>1, <3>4 DEF SlotsMatchTimers
    <2>14. DueIsPending' BY <1>1, <1>3, <2>10 DEF DueIsPending, TypeOK
    <2> QED BY <1>2, <2>11, <2>12, <2>13, <2>14
  <1> QED BY <1>4, <1>5

\* What touches neither table keeps their relation.
LEMMA SlotsKept ==
  ASSUME TypeOK, SlotsMatchTimers, UNCHANGED <<TimerList, TimerInfo, dwSlotMask, live>>,
         \A u \in Threads, s \in Slots : Creating(u, s)' <=> Creating(u, s)
  PROVE  SlotsMatchTimers'
  <1>1. Used' = Used /\ live \subseteq Threads BY DEF Used, TypeOK
  <1>2. TimersHaveSlots' BY <1>1 DEF SlotsMatchTimers, TimersHaveSlots, Filled
  <1>3. SlotsHaveTimers' BY <1>1 DEF SlotsMatchTimers, SlotsHaveTimers, Filled
  <1> QED BY <1>2, <1>3 DEF SlotsMatchTimers

\* KillTimer enters the monitor for a timer that exists.
LEMMA KillTimerStep ==
  ASSUME IInv, NEW t \in Threads, NEW w \in WindowOrNone, NEW id \in Events \cup Indices,
         KillTimer(t, w, id)
  PROVE  IInv'
  <1> USE DEF IInv
  <1> DEFINE c == [op |-> "kill", hWnd |-> w, uIDEvent |-> id]
             u == Holder(t, w)
  <1>1. /\ Runs(t) /\ MonitorFree /\ t \in live /\ t \notin blocked
        /\ SlotsFor(u, w, id) # {} /\ call' = [call EXCEPT ![t] = c]
        /\ w # NULL => Owner[w] \in live
        /\ UNCHANGED <<table, queue, wake, clock, pass, timer_event, live, window>>
    BY DEF KillTimer, Runs
  <1>2. c \in CallRecords /\ c.op = "kill" /\ c.hWnd = w /\ c.uIDEvent = id
    BY DEF CallRecords
  <1>3. u \in live BY <1>1 DEF Holder
  <1> HIDE DEF c
  <1>4. /\ call'[t] = c /\ \A v \in Threads : call'[v] # NULL <=> v = t
        /\ \A v \in Threads, s \in Slots : ~Creating(v, s)
        /\ call' \in [Threads -> CallRecords \cup {NULL}]
    BY <1>1, <1>2, Entered DEF TypeOK
  <1>5. \A v \in Threads, s \in Slots : ~Creating(v, s)' BY <1>2, <1>4 DEF Creating
  <1>6. UNCHANGED <<TimerList, age, TimerInfo, dwSlotMask, dwActiveMask, uPreStart, dwState,
                    blocked, elapsed, slept, task, uTimerTick, dwTimeout, timer_timeout,
                    timer_event, live, window>>
    BY <1>1 DEF table, queue, wake, clock, pass
  <1>7. TypeOK' BY <1>4, <1>6 DEF TypeOK
  <1>8. SlotsFor(u, w, id)' = SlotsFor(u, w, id) BY <1>6 DEF SlotsFor, Holder
  <1>9. CallInv' BY <1>1, <1>2, <1>3, <1>4, <1>6, <1>8 DEF CallInv, Holder
  <1>10. SlotsMatchTimers' BY <1>4, <1>5, <1>6, SlotsKept
  <1>11. DueIsPending' BY <1>6 DEF DueIsPending
  <1>12. SleepInv' /\ PeriodInv' BY <1>1, TimesKept
  <1> QED BY <1>7, <1>9, <1>10, <1>11, <1>12

\* The death of a window enters the monitor.
LEMMA DestroyAWindowStep ==
  ASSUME IInv, NEW t \in Threads, NEW w \in Windows, DestroyAWindow(t, w)
  PROVE  IInv'
  <1> USE DEF IInv
  <1> DEFINE c == [op |-> "killwindow", hWnd |-> w]
  <1>1. /\ Runs(t) /\ MonitorFree /\ t \in live /\ t \notin blocked
        /\ Owner[w] = t /\ call' = [call EXCEPT ![t] = c]
        /\ UNCHANGED <<table, queue, wake, clock, pass, timer_event, live, window>>
    BY DEF DestroyAWindow, Runs
  <1>2. c \in CallRecords /\ c.op = "killwindow" /\ c.hWnd = w BY DEF CallRecords
  <1> HIDE DEF c
  <1>3. /\ call'[t] = c /\ \A v \in Threads : call'[v] # NULL <=> v = t
        /\ \A v \in Threads, s \in Slots : ~Creating(v, s)
        /\ call' \in [Threads -> CallRecords \cup {NULL}]
    BY <1>1, <1>2, Entered DEF TypeOK
  <1>4. \A v \in Threads, s \in Slots : ~Creating(v, s)' BY <1>2, <1>3 DEF Creating
  <1>5. UNCHANGED <<TimerList, age, TimerInfo, dwSlotMask, dwActiveMask, uPreStart, dwState,
                    blocked, elapsed, slept, task, uTimerTick, dwTimeout, timer_timeout,
                    timer_event, live, window>>
    BY <1>1 DEF table, queue, wake, clock, pass
  <1>6. TypeOK' BY <1>3, <1>5 DEF TypeOK
  <1>7. CallInv' BY <1>1, <1>2, <1>3, <1>5 DEF CallInv
  <1>8. SlotsMatchTimers' BY <1>3, <1>4, <1>5, SlotsKept
  <1>9. DueIsPending' BY <1>5 DEF DueIsPending
  <1>10. SleepInv' /\ PeriodInv' BY <1>1, TimesKept
  <1> QED BY <1>6, <1>7, <1>8, <1>9, <1>10

-----------------------------------------------------------------------------
(* What needs no second part.                                              *)

\* The handle of a window is removed.
LEMMA UnregisterWindowStep ==
  ASSUME IInv, NEW t \in Threads, NEW w \in Windows, UnregisterWindow(t, w)
  PROVE  IInv'
  <1> USE DEF IInv
  <1>1. /\ window' = [window EXCEPT ![w] = "gone"]
        /\ UNCHANGED <<table, queue, wake, clock, pass, timer_event, live, call>>
    BY DEF UnregisterWindow
  <1>2. UNCHANGED <<TimerList, age, TimerInfo, dwSlotMask, dwActiveMask, uPreStart, dwState,
                    blocked, elapsed, slept, task, uTimerTick, dwTimeout, timer_timeout,
                    timer_event, live, call>>
    BY <1>1 DEF table, queue, wake, clock, pass
  <1>3. TypeOK' BY <1>1, <1>2 DEF TypeOK
  <1>4. CallInv' BY <1>2 DEF CallInv, SlotsFor, Holder
  <1>5. SlotsMatchTimers' BY <1>2, SlotsKept DEF Creating
  <1>6. DueIsPending' BY <1>2 DEF DueIsPending
  <1>7. SleepInv' /\ PeriodInv' BY <1>1, TimesKept
  <1> QED BY <1>3, <1>4, <1>5, <1>6, <1>7

\* The timers of the thread that ends, which nothing frees, have no slot to match.
LEMMA ThreadExitStep ==
  ASSUME IInv, NEW t \in Threads, ThreadExit(t)
  PROVE  IInv'
  <1> USE DEF IInv
  <1>1. /\ MonitorFree /\ live' = live \ {t} /\ dwState' = dwState \ {t}
        /\ dwSlotMask' = [dwSlotMask EXCEPT ![t] = {}]
        /\ dwActiveMask' = [dwActiveMask EXCEPT ![t] = {}]
        /\ TimerInfo' = [TimerInfo EXCEPT ![t] = [s \in Slots |-> NoTimer]]
        /\ UNCHANGED <<table, uPreStart, blocked, clock, pass, timer_event, call, window>>
    BY DEF ThreadExit
  <1>2. UNCHANGED <<TimerList, age, elapsed, slept, task, uTimerTick, dwTimeout, timer_timeout>>
        /\ Used' = Used
    BY <1>1 DEF table, clock, pass, Used
  <1>3. /\ dwSlotMask' \in [Threads -> SUBSET Slots] /\ dwActiveMask' \in [Threads -> SUBSET Slots]
        /\ \A u \in Threads \ {t} : /\ dwSlotMask'[u] = dwSlotMask[u]
                                    /\ dwActiveMask'[u] = dwActiveMask[u]
                                    /\ TimerInfo'[u] = TimerInfo[u]
    BY <1>1 DEF TypeOK
  <1>4. TimerInfo' \in [Threads -> [Slots -> [hWnd : WindowOrNone, TimerId : Indices \cup {0},
                                    uEventId : Events \cup Indices \cup {0}]]]
    <2>1. NoTimer \in [hWnd : WindowOrNone, TimerId : Indices \cup {0},
                       uEventId : Events \cup Indices \cup {0}]
      BY DEF NoTimer, WindowOrNone
    <2> HIDE DEF NoTimer
    <2> QED BY <1>1, <2>1 DEF TypeOK
  <1>5. TypeOK' BY <1>1, <1>2, <1>3, <1>4 DEF TypeOK
  <1>6. CallInv' BY <1>1 DEF CallInv, MonitorFree
  <1>7. TimersHaveSlots'
    <2> SUFFICES ASSUME NEW i \in Used, TimerList[i].dwThreadId \in live'
                 PROVE  /\ TimerList[i].nSlot \in dwSlotMask'[TimerList[i].dwThreadId]
                        /\ Filled(TimerList[i].dwThreadId, TimerList[i].nSlot, i)'
      BY <1>2 DEF TimersHaveSlots, Filled
    <2>1. TimerList[i].dwThreadId \in Threads \ {t} BY <1>1, UsedFacts
    <2> QED BY <1>1, <1>2, <1>3, <2>1 DEF SlotsMatchTimers, TimersHaveSlots, Filled
  <1>8. SlotsHaveTimers'
    <2> SUFFICES ASSUME NEW u \in live', NEW s \in Slots
                 PROVE  IF s \in dwSlotMask'[u] /\ ~Creating(u, s)'
                        THEN \E i \in Used : /\ Filled(u, s, i)'
                                             /\ TimerList[i].dwThreadId = u /\ TimerList[i].nSlot = s
                        ELSE TimerInfo'[u][s] = NoTimer
      BY <1>2 DEF SlotsHaveTimers
    <2>1. u \in Threads \ {t} /\ u \in live BY <1>1 DEF TypeOK
    <2>2. Creating(u, s)' <=> Creating(u, s) BY <1>1 DEF Creating
    <2> QED BY <1>3, <2>1, <2>2 DEF SlotsMatchTimers, SlotsHaveTimers, Filled
  <1>9. DueIsPending'
    <2> SUFFICES ASSUME NEW u \in live'
                 PROVE  /\ dwActiveMask'[u] \subseteq dwSlotMask'[u]
                        /\ dwActiveMask'[u] # {} => u \in dwState' /\ u \notin blocked'
      BY DEF DueIsPending
    <2>1. u \in Threads \ {t} /\ u \in live BY <1>1 DEF TypeOK
    <2> QED BY <1>1, <1>3, <2>1 DEF DueIsPending
  <1>10. SleepInv' /\ PeriodInv' BY <1>1, TimesKept
  <1> QED BY <1>5, <1>6, <1>7, <1>8, <1>9, <1>10 DEF SlotsMatchTimers

-----------------------------------------------------------------------------
(* The message loop.                                                       *)

\* A thread takes the message of a slot.
LEMMA GetTimerMessageStep ==
  ASSUME IInv, NEW t \in Threads, GetTimerMessage(t)
  PROVE  IInv'
  <1> USE DEF IInv
  <1> DEFINE s == NextDue(t)
  <1>1. /\ t \in live /\ t \notin blocked /\ MonitorFree /\ t \in dwState /\ DueSlots(t) # {}
        /\ dwActiveMask' = Without(dwActiveMask, t, s)
        /\ uPreStart' = [uPreStart EXCEPT ![t] = After(s)]
        /\ dwState' = IF dwActiveMask[t] = {s} THEN dwState \ {t} ELSE dwState
        /\ UNCHANGED <<table, TimerInfo, dwSlotMask, blocked, clock, pass, timer_event, app>>
    BY DEF GetTimerMessage
  <1>2. UNCHANGED <<TimerList, age, elapsed, slept, task, uTimerTick, dwTimeout, timer_timeout,
                    call, live, window>>
    BY <1>1 DEF table, clock, pass, app
  <1>3. s \in Slots
    <2>1. DueSlots(t) \subseteq Slots BY DEF DueSlots, TypeOK
    <2>2. DueSlots(t) \subseteq Nat BY <2>1, Ranges
    <2>3. First(DueSlots(t)) \in Slots BY <1>1, <2>1, <2>2, FirstIs
    <2> DEFINE later == {r \in DueSlots(t) : r >= uPreStart[t]}
    <2>4. later # {} => First(later) \in later BY <2>2, FirstIs
    <2> QED BY <2>1, <2>3, <2>4 DEF NextDue
  <1>4. After(s) \in Slots BY <1>3, TablesAssumption DEF After, Slots
  <1> HIDE DEF s
  <1>5. /\ dwActiveMask' \in [Threads -> SUBSET Slots]
        /\ dwActiveMask'[t] = dwActiveMask[t] \ {s}
        /\ \A u \in Threads \ {t} : dwActiveMask'[u] = dwActiveMask[u]
    BY <1>1 DEF Without, TypeOK
  <1>6. TypeOK' BY <1>1, <1>2, <1>4, <1>5 DEF TypeOK
  <1>7. CallInv' BY <1>1, <1>2 DEF CallInv, MonitorFree
  <1>8. SlotsMatchTimers' BY <1>1, <1>2, SlotsKept DEF Creating
  <1>9. DueIsPending' BY <1>1, <1>2, <1>5 DEF DueIsPending, TypeOK
  <1>10. SleepInv' /\ PeriodInv' BY <1>1, TimesKept
  <1> QED BY <1>6, <1>7, <1>8, <1>9, <1>10

\* A thread blocks when none of its slots is due.
LEMMA BlockStep ==
  ASSUME IInv, NEW t \in Threads, Block(t)
  PROVE  IInv'
  <1> USE DEF IInv
  <1>1. /\ t \in live /\ t \notin blocked /\ MonitorFree
        /\ ~(t \in dwState /\ DueSlots(t) # {})
        /\ dwState' = IF dwActiveMask[t] = {} THEN dwState \ {t} ELSE dwState
        /\ blocked' = blocked \cup {t}
        /\ UNCHANGED <<table, queue, clock, pass, timer_event, app>>
    BY DEF Block
  <1>2. UNCHANGED <<TimerList, age, TimerInfo, dwSlotMask, dwActiveMask, uPreStart, elapsed,
                    slept, task, uTimerTick, dwTimeout, timer_timeout, call, live, window>>
    BY <1>1 DEF table, queue, clock, pass, app
  <1>3. dwActiveMask[t] = {} BY <1>1 DEF DueIsPending, DueSlots
  <1>4. TypeOK' BY <1>1, <1>2 DEF TypeOK
  <1>5. CallInv' BY <1>1, <1>2 DEF CallInv, MonitorFree
  <1>6. SlotsMatchTimers' BY <1>2, SlotsKept DEF Creating
  <1>7. DueIsPending' BY <1>1, <1>2, <1>3 DEF DueIsPending
  <1>8. SleepInv' /\ PeriodInv' BY <1>1, TimesKept
  <1> QED BY <1>4, <1>5, <1>6, <1>7, <1>8

\* A thread is woken by something else.
LEMMA OtherMessageStep ==
  ASSUME IInv, NEW t \in Threads, OtherMessage(t)
  PROVE  IInv'
  <1> USE DEF IInv
  <1>1. /\ MonitorFree /\ blocked' = blocked \ {t}
        /\ UNCHANGED <<table, queue, dwState, clock, pass, timer_event, app>>
    BY DEF OtherMessage
  <1>2. UNCHANGED <<TimerList, age, TimerInfo, dwSlotMask, dwActiveMask, uPreStart, elapsed,
                    slept, task, uTimerTick, dwTimeout, timer_timeout, call, live, window>>
    BY <1>1 DEF table, queue, clock, pass, app
  <1>3. TypeOK' BY <1>1, <1>2 DEF TypeOK
  <1>4. CallInv' BY <1>1, <1>2 DEF CallInv, MonitorFree
  <1>5. SlotsMatchTimers' BY <1>2, SlotsKept DEF Creating
  <1>6. DueIsPending' BY <1>1, <1>2 DEF DueIsPending
  <1>7. SleepInv' /\ PeriodInv' BY <1>1, TimesKept
  <1> QED BY <1>3, <1>4, <1>5, <1>6, <1>7

-----------------------------------------------------------------------------
(* The timer task, and time.                                               *)

\* What the task and the clock leave alone.
LEMMA AppKept ==
  ASSUME IInv, UNCHANGED <<queue, wake, app>>, Used' = Used,
         \A i \in Used : /\ TimerList'[i].dwThreadId = TimerList[i].dwThreadId
                         /\ TimerList'[i].nSlot = TimerList[i].nSlot
  PROVE  CallInv' /\ SlotsMatchTimers' /\ DueIsPending'
  <1> USE DEF IInv
  <1>1. UNCHANGED <<TimerInfo, dwSlotMask, dwActiveMask, uPreStart, dwState, blocked,
                    call, live, window>>
    BY DEF queue, wake, app
  <1>2. CallInv' BY <1>1 DEF CallInv, SlotsFor, Holder
  <1>3. TimersHaveSlots' BY <1>1 DEF SlotsMatchTimers, TimersHaveSlots, Filled
  <1>4. SlotsHaveTimers' BY <1>1 DEF SlotsMatchTimers, SlotsHaveTimers, Filled, Creating
  <1>5. DueIsPending' BY <1>1 DEF DueIsPending
  <1> QED BY <1>2, <1>3, <1>4, <1>5 DEF SlotsMatchTimers

\* A pass takes the time from the clock; what is due then has had its period.
LEMMA TakeTimeStep ==
  ASSUME IInv, TakeTime
  PROVE  IInv' /\ \A i \in Due' : age[i] >= TimerList[i].uElapse
  <1> USE DEF IInv
  <1>1. /\ task = "start" /\ task' = "pass" /\ uTimerTick' = elapsed /\ elapsed' = 0
        /\ age' = [i \in Indices |-> IF i \in DueIn(elapsed) THEN 0 ELSE age[i]]
        /\ UNCHANGED <<TimerList, queue, wake, slept, dwTimeout, timer_timeout, timer_event, app>>
    BY DEF TakeTime
  <1>2. Used' = Used BY <1>1 DEF Used
  <1>3. CallInv' /\ SlotsMatchTimers' /\ DueIsPending' BY <1>1, <1>2, AppKept
  <1>4. UNCHANGED <<TimerInfo, dwSlotMask, dwActiveMask, uPreStart, dwState, blocked,
                    call, live, window>>
    BY <1>1 DEF queue, wake, app
  <1>5. \A i \in Indices : age[i] \in Nat BY DEF TypeOK
  <1>6. age' \in [Indices -> Nat] BY <1>1, <1>5
  <1>7. TypeOK' BY <1>1, <1>4, <1>6 DEF TypeOK
  <1>8. SleepInv' BY <1>1 DEF SleepInv, NearestInv, NeverOversleeps
  <1>9. Due' = DueIn(elapsed) BY <1>1, <1>2 DEF Due, DueIn
  <1>10. elapsed \in Nat BY DEF TypeOK
  <1>11. ASSUME NEW i \in Used PROVE i \in Indices /\ TimerList[i].uMiliSeconds + age[i] >= TimerList[i].uElapse + elapsed
    BY <1>1, UsedFacts DEF PeriodInv
  <1>12. PeriodInv'
    <2> SUFFICES ASSUME NEW i \in Used
                 PROVE  IF i \in Due' THEN age'[i] >= elapsed'
                        ELSE TimerList[i].uMiliSeconds + age'[i]
                               >= TimerList[i].uElapse + elapsed' + uTimerTick'
      BY <1>1, <1>2 DEF PeriodInv
    <2>1. i \in Indices /\ age[i] \in Nat /\ TimerList[i].uElapse \in Nat
          /\ TimerList[i].uMiliSeconds \in Nat
      BY <1>5, UsedFacts
    <2>2. CASE i \in Due' BY <1>1, <1>9, <2>1, <2>2
    <2>3. CASE i \notin Due'
      <3>1. age'[i] = age[i] BY <1>1, <1>9, <2>1, <2>3
      <3>2. TimerList[i].uElapse + elapsed' + uTimerTick' = TimerList[i].uElapse + elapsed
        BY <1>1, <1>10, <2>1
      <3> QED BY <1>11, <2>3, <3>1, <3>2
    <2> QED BY <2>2, <2>3
  <1>13. ASSUME NEW i \in Due' PROVE age[i] >= TimerList[i].uElapse
    <2>1. i \in Used /\ TimerList[i].uMiliSeconds <= elapsed BY <1>9 DEF DueIn
    <2>2. i \in Indices /\ age[i] \in Nat /\ TimerList[i].uElapse \in Nat
          /\ TimerList[i].uMiliSeconds \in Nat
      BY <1>5, <2>1, UsedFacts
    <2> QED BY <1>10, <1>11, <2>1, <2>2
  <1> QED BY <1>3, <1>7, <1>8, <1>12, <1>13

\* An entry that is visited, and the time-out that is computed.
LEMMA VisitedFacts ==
  ASSUME TypeOK
  PROVE  /\ \A i \in Used : /\ Visited(i) \in TimerRecords /\ Visited(i).bUsed
                            /\ Visited(i).dwThreadId = TimerList[i].dwThreadId
                            /\ Visited(i).nSlot = TimerList[i].nSlot
                            /\ Visited(i).uElapse = TimerList[i].uElapse
                            /\ Visited(i).uMiliSeconds \in Nat
                            /\ NearestTimeout <= Visited(i).uMiliSeconds
                            /\ i \in Due => Visited(i).uMiliSeconds = TimerList[i].uElapse
                            /\ i \notin Due =>
                                 Visited(i).uMiliSeconds + uTimerTick = TimerList[i].uMiliSeconds
         /\ \A i \in Indices \ Used : Visited(i) = TimerList[i]
         /\ NearestTimeout \in Nat
  <1>1. ASSUME NEW i \in Used
        PROVE  /\ Visited(i) \in TimerRecords /\ Visited(i).bUsed
               /\ Visited(i).dwThreadId = TimerList[i].dwThreadId
               /\ Visited(i).nSlot = TimerList[i].nSlot
               /\ Visited(i).uElapse = TimerList[i].uElapse
               /\ Visited(i).uMiliSeconds \in Nat
               /\ i \in Due => Visited(i).uMiliSeconds = TimerList[i].uElapse
               /\ i \notin Due =>
                    Visited(i).uMiliSeconds + uTimerTick = TimerList[i].uMiliSeconds
    <2> DEFINE r == TimerList[i]
               n == IF i \in Due THEN r.uElapse ELSE r.uMiliSeconds - uTimerTick
    <2>1. /\ i \in Indices /\ r.uElapse \in Nat /\ r.uMiliSeconds \in Nat /\ uTimerTick \in Nat
      BY UsedFacts DEF TypeOK
    <2>2. i \notin Due => ~(r.uMiliSeconds <= uTimerTick) BY DEF Due, DueIn
    <2>3. /\ n \in Nat
          /\ i \in Due => n = r.uElapse
          /\ i \notin Due => n + uTimerTick = r.uMiliSeconds
      BY <2>1, <2>2
    <2>4. Visited(i) = [r EXCEPT !.uMiliSeconds = n] BY DEF Visited
    <2> HIDE DEF n
    <2>5. r \in [bUsed : {TRUE}, dwThreadId : Threads, nSlot : Slots,
                 uElapse : Elapses, uMiliSeconds : Nat]
      <3>1. r \in TimerRecords /\ r.bUsed BY <2>1, UsedFacts DEF TypeOK
      <3>2. r # Unused
        <4>1. Unused.bUsed = FALSE BY DEF Unused
        <4> QED BY <3>1, <4>1
      <3> QED BY <3>1, <3>2 DEF TimerRecords
    <2> HIDE DEF r
    <2>6. /\ Visited(i) \in [bUsed : {TRUE}, dwThreadId : Threads, nSlot : Slots,
                             uElapse : Elapses, uMiliSeconds : Nat]
          /\ Visited(i).dwThreadId = r.dwThreadId /\ Visited(i).nSlot = r.nSlot
          /\ Visited(i).uElapse = r.uElapse /\ Visited(i).uMiliSeconds = n
      BY <2>3, <2>4, <2>5
    <2>7. Visited(i) \in TimerRecords BY <2>6 DEF TimerRecords
    <2>8. Visited(i).bUsed = TRUE BY <2>6
    <2> QED BY <2>3, <2>6, <2>7, <2>8 DEF r
  <1>2. Due \subseteq Used BY DEF Due, DueIn
  <1>3. \A i \in Indices \ Used : Visited(i) = TimerList[i] BY <1>2 DEF Visited
  <1> DEFINE times == {Visited(i).uMiliSeconds : i \in Used} \cup {MAX_LONG}
  <1>4. times \subseteq Nat /\ times # {} BY <1>1, TimesAssumption
  <1>5. NearestTimeout = First(times) BY DEF NearestTimeout
  <1>6. \A i \in Used : Visited(i).uMiliSeconds \in times OBVIOUS
  <1> HIDE DEF times
  <1>7. NearestTimeout \in Nat /\ \A y \in times : NearestTimeout <= y
    BY <1>4, <1>5, FirstIs
  <1> QED BY <1>1, <1>3, <1>6, <1>7

\* A timer that is due finds its slot, and its thread wakes.
LEMMA VisitTimersStep ==
  ASSUME IInv, VisitTimers
  PROVE  IInv'
  <1> USE DEF IInv
  <1>1. /\ task = "pass" /\ (Due # {} => MonitorFree) /\ uTimerTick' = 0
        /\ UNCHANGED <<age, TimerInfo, dwSlotMask, uPreStart, clock, timer_timeout,
                       timer_event, app>>
    BY DEF VisitTimers
  <1>2. UNCHANGED <<elapsed, slept, call, live, window>> BY <1>1 DEF clock, app
  <1>3. CASE task' = "crashed" /\ UNCHANGED <<TimerList, dwActiveMask, wake, dwTimeout>>
    <2>1. UNCHANGED <<dwState, blocked>> /\ Used' = Used BY <1>3 DEF wake, Used
    <2>2. TypeOK' BY <1>1, <1>2, <1>3, <2>1 DEF TypeOK
    <2>3. CallInv' /\ SlotsMatchTimers' /\ DueIsPending'
      BY <1>1, <1>2, <1>3, <2>1, AppKept DEF queue, wake, app
    <2>4. SleepInv' /\ PeriodInv'
      BY <1>3 DEF SleepInv, NearestInv, NeverOversleeps, PeriodInv
    <2> QED BY <2>2, <2>3, <2>4
  <1>4. CASE ~(task' = "crashed" /\ UNCHANGED <<TimerList, dwActiveMask, wake, dwTimeout>>)
    <2> DEFINE mine(t) == {TimerList[i].nSlot : i \in {j \in Due : TimerList[j].dwThreadId = t}}
               woken == {TimerList[i].dwThreadId : i \in Due}
    <2>1. /\ task' = "sleep" /\ TimerList' = [i \in Indices |-> Visited(i)]
          /\ dwActiveMask' = [t \in Threads |-> dwActiveMask[t] \cup mine(t)]
          /\ dwState' = dwState \cup woken /\ blocked' = blocked \ woken
          /\ dwTimeout' = NearestTimeout
      BY <1>4 DEF VisitTimers
    <2>2. Due \subseteq Used /\ Used \subseteq Indices BY DEF Due, DueIn, Used
    <2>3. TimerList' \in [Indices -> TimerRecords]
      <3>1. \A i \in Indices : Visited(i) \in TimerRecords
        BY VisitedFacts DEF TypeOK
      <3> QED BY <2>1, <3>1
    <2>4. Used' = Used
      <3>1. \A i \in Indices : TimerList'[i] = Visited(i) BY <2>1
      <3>2. \A i \in Indices : i \in Used <=> TimerList[i].bUsed BY DEF Used
      <3>3. \A i \in Indices : TimerList'[i].bUsed <=> TimerList[i].bUsed
        BY <3>1, <3>2, VisitedFacts
      <3> QED BY <3>3 DEF Used
    <2>5. (\A t \in Threads : mine(t) \subseteq Slots) /\ woken \subseteq Threads
      BY <2>2, UsedFacts
    <2>6. \A t \in live : mine(t) \subseteq dwSlotMask[t]
      BY <2>2 DEF SlotsMatchTimers, TimersHaveSlots
    <2>7. \A t \in Threads : mine(t) # {} => t \in woken OBVIOUS
    <2>8. \A t \in Threads : mine(t) # {} => call[t] = NULL
      BY <1>1 DEF MonitorFree
    <2> HIDE DEF mine, woken
    <2>9. /\ dwActiveMask' \in [Threads -> SUBSET Slots]
          /\ \A t \in Threads : dwActiveMask'[t] = dwActiveMask[t] \cup mine(t)
      BY <2>1, <2>5 DEF TypeOK
    <2>10. dwState' \subseteq Threads /\ blocked' \subseteq Threads
      BY <2>1, <2>5 DEF TypeOK
    <2>11. TypeOK'
      <3>1. dwTimeout' \in Nat /\ uTimerTick' \in Nat BY <1>1, <2>1, VisitedFacts
      <3> QED BY <1>1, <1>2, <2>1, <2>3, <2>9, <2>10, <3>1 DEF TypeOK
    <2>12. CallInv'
      BY <1>1, <1>2, <2>1, <2>8, <2>9 DEF CallInv, SlotsFor, Holder
    <2>13. \A i \in Used : /\ TimerList'[i].dwThreadId = TimerList[i].dwThreadId
                           /\ TimerList'[i].nSlot = TimerList[i].nSlot
      BY <2>1, <2>2, VisitedFacts
    <2>14. SlotsMatchTimers'
      <3>1. TimersHaveSlots' BY <1>1, <1>2, <2>4, <2>13 DEF SlotsMatchTimers, TimersHaveSlots, Filled
      <3>2. SlotsHaveTimers'
        BY <1>1, <1>2, <2>4, <2>13 DEF SlotsMatchTimers, SlotsHaveTimers, Filled, Creating
      <3> QED BY <3>1, <3>2 DEF SlotsMatchTimers
    <2>15. DueIsPending'
      <3> SUFFICES ASSUME NEW t \in live
                   PROVE  /\ dwActiveMask'[t] \subseteq dwSlotMask[t]
                          /\ dwActiveMask'[t] # {} => t \in dwState' /\ t \notin blocked'
        BY <1>1, <1>2 DEF DueIsPending
      <3>1. t \in Threads BY DEF TypeOK
      <3> QED BY <2>1, <2>6, <2>7, <2>9, <3>1 DEF DueIsPending
    <2>16. SleepInv'
      BY <2>1, <2>2, <2>4, VisitedFacts DEF SleepInv, NearestInv, NeverOversleeps
    <2>17. PeriodInv'
      <3> SUFFICES ASSUME NEW i \in Used
                   PROVE  Visited(i).uMiliSeconds + age[i] >= Visited(i).uElapse + elapsed
        BY <1>1, <1>2, <2>1, <2>2, <2>4 DEF PeriodInv
      <3>1. /\ age[i] \in Nat /\ elapsed \in Nat /\ uTimerTick \in Nat
            /\ TimerList[i].uElapse \in Nat /\ TimerList[i].uMiliSeconds \in Nat
        BY <2>2, UsedFacts DEF TypeOK
      <3>2. CASE i \in Due
        <4>1. age[i] >= elapsed BY <1>1, <3>2 DEF PeriodInv
        <4>2. /\ Visited(i).uMiliSeconds = TimerList[i].uElapse
              /\ Visited(i).uElapse = TimerList[i].uElapse
          BY <3>2, VisitedFacts
        <4> QED BY <3>1, <4>1, <4>2
      <3>3. CASE i \notin Due
        <4>1. TimerList[i].uMiliSeconds + age[i] >= TimerList[i].uElapse + elapsed + uTimerTick
          BY <1>1, <3>3 DEF PeriodInv
        <4>2. /\ Visited(i).uMiliSeconds \in Nat /\ Visited(i).uElapse = TimerList[i].uElapse
              /\ Visited(i).uMiliSeconds + uTimerTick = TimerList[i].uMiliSeconds
          BY <3>3, VisitedFacts
        <4> QED BY <3>1, <4>1, <4>2
      <3> QED BY <3>2, <3>3
    <2> QED BY <2>11, <2>12, <2>14, <2>15, <2>16, <2>17
  <1> QED BY <1>3, <1>4

\* The time-out is not longer than the nearest timer has left.
LEMMA SetTimeoutStep ==
  ASSUME IInv, SetTimeout
  PROVE  IInv'
  <1> USE DEF IInv
  <1>1. /\ task = "sleep" /\ task' = "wait" /\ dwTimeout' = 0
        /\ UNCHANGED <<table, queue, wake, clock, uTimerTick, timer_event, app>>
    BY DEF SetTimeout
  <1>2. PICK lk \in KeyTimeouts \cup {MAX_LONG} :
          timer_timeout' = Larger(Smaller(dwTimeout, lk), MinTimeout)
    BY DEF SetTimeout
  <1>3. UNCHANGED <<TimerList, age, TimerInfo, dwSlotMask, dwActiveMask, uPreStart, dwState,
                    blocked, elapsed, slept, call, live, window>> /\ Used' = Used
    BY <1>1 DEF table, queue, wake, clock, app, Used
  <1>4. dwTimeout \in Nat /\ lk \in Nat /\ MinTimeout \in Nat BY TimesAssumption DEF TypeOK
  <1>5. timer_timeout' \in Nat BY <1>2, <1>4 DEF Larger, Smaller
  <1>6. TypeOK' BY <1>1, <1>3, <1>5 DEF TypeOK
  <1>7. CallInv' /\ SlotsMatchTimers' /\ DueIsPending' BY <1>1, <1>3, AppKept
  <1>8. ASSUME NEW i \in Used
        PROVE  timer_timeout' <= Larger(TimerList[i].uMiliSeconds, MinTimeout)
    <2>1. TimerList[i].uMiliSeconds \in Nat BY UsedFacts
    <2>2. dwTimeout <= TimerList[i].uMiliSeconds BY <1>1 DEF SleepInv, NearestInv
    <2> QED BY <1>2, <1>4, <2>1, <2>2 DEF Larger, Smaller
  <1>9. SleepInv' BY <1>1, <1>3, <1>8 DEF SleepInv, NearestInv, NeverOversleeps
  <1>10. PeriodInv' BY <1>1, <1>3 DEF PeriodInv
  <1> QED BY <1>6, <1>7, <1>9, <1>10

\* The task wakes.
LEMMA WakeStep ==
  ASSUME IInv, Wake
  PROVE  IInv'
  <1> USE DEF IInv
  <1>1. /\ task = "wait" /\ task' = "start" /\ timer_event' = FALSE /\ slept' = 0
        /\ UNCHANGED <<table, queue, wake, elapsed, uTimerTick, dwTimeout, timer_timeout, app>>
    BY DEF Wake
  <1>2. UNCHANGED <<TimerList, age, TimerInfo, dwSlotMask, dwActiveMask, uPreStart, dwState,
                    blocked, call, live, window>> /\ Used' = Used
    BY <1>1 DEF table, queue, wake, app, Used
  <1>3. TypeOK' BY <1>1, <1>2 DEF TypeOK
  <1>4. CallInv' /\ SlotsMatchTimers' /\ DueIsPending' BY <1>1, <1>2, AppKept
  <1>5. SleepInv' BY <1>1 DEF SleepInv, NearestInv, NeverOversleeps
  <1>6. PeriodInv' BY <1>1, <1>2 DEF PeriodInv
  <1> QED BY <1>3, <1>4, <1>5, <1>6

\* Asking the task to wake only relaxes what its sleep must not pass.
LEMMA LongKeyStep ==
  ASSUME IInv, LongKeyPressed
  PROVE  IInv'
  <1> USE DEF IInv
  <1>1. UNCHANGED <<table, queue, wake, clock, pass, app>> BY DEF LongKeyPressed
  <1>2. PICK lk \in KeyTimeouts : timer_event' = (timer_event \/ lk + elapsed <= timer_timeout)
    BY DEF LongKeyPressed, SetTimerEvent
  <1>3. UNCHANGED <<TimerList, age, TimerInfo, dwSlotMask, dwActiveMask, uPreStart, dwState,
                    blocked, elapsed, slept, task, uTimerTick, dwTimeout, timer_timeout,
                    call, live, window>>
        /\ Used' = Used /\ Due' = Due
    BY <1>1 DEF table, queue, wake, clock, pass, app, Used, Due, DueIn
  <1>4. timer_event' \in BOOLEAN /\ (timer_event => timer_event') BY <1>2
  <1>5. TypeOK' BY <1>3, <1>4 DEF TypeOK
  <1>6. CallInv' /\ SlotsMatchTimers' /\ DueIsPending' BY <1>1, <1>3, AppKept
  <1>7. SleepInv' BY <1>3, <1>4 DEF SleepInv, NearestInv, NeverOversleeps
  <1>8. PeriodInv' BY <1>3 DEF PeriodInv
  <1> QED BY <1>5, <1>6, <1>7, <1>8

\* Every timer gets older as the clock goes on.
LEMMA TickStep ==
  ASSUME IInv, Tick
  PROVE  IInv'
  <1> USE DEF IInv
  <1>1. /\ elapsed' = elapsed + 1 /\ slept' = IF task = "wait" THEN slept + 1 ELSE slept
        /\ age' = [i \in Indices |-> IF i \in Used THEN age[i] + 1 ELSE 0]
        /\ UNCHANGED <<TimerList, queue, wake, pass, timer_event, app>>
    BY DEF Tick
  <1>2. UNCHANGED <<TimerInfo, dwSlotMask, dwActiveMask, uPreStart, dwState, blocked, task,
                    uTimerTick, dwTimeout, timer_timeout, call, live, window>>
        /\ Used' = Used /\ Due' = Due
    BY <1>1 DEF queue, wake, pass, app, Used, Due, DueIn
  <1>3. /\ elapsed \in Nat /\ slept \in Nat /\ uTimerTick \in Nat
        /\ \A i \in Indices : age[i] \in Nat
    BY DEF TypeOK
  <1>4. age' \in [Indices -> Nat] /\ elapsed' \in Nat /\ slept' \in Nat BY <1>1, <1>3
  <1>5. TypeOK' BY <1>1, <1>2, <1>4 DEF TypeOK
  <1>6. CallInv' /\ SlotsMatchTimers' /\ DueIsPending' BY <1>1, <1>2, AppKept
  <1>7. SleepInv' BY <1>1, <1>2 DEF SleepInv, NearestInv, NeverOversleeps
  <1>8. PeriodInv'
    <2>1. ASSUME NEW i \in Used
          PROVE  /\ age'[i] = age[i] + 1 /\ age[i] \in Nat
                 /\ TimerList[i].uMiliSeconds \in Nat /\ TimerList[i].uElapse \in Nat
      BY <1>1, <1>3, UsedFacts
    <2> QED BY <1>1, <1>2, <1>3, <2>1 DEF PeriodInv
  <1> QED BY <1>5, <1>6, <1>7, <1>8

-----------------------------------------------------------------------------
(* A call has got sem_timer.                                               *)

\* What a call is about.
LEMMA CallFacts ==
  ASSUME TypeOK, NEW t \in Threads, call[t] # NULL
  PROVE  /\ call[t].op \in {"update", "create"} =>
              /\ call[t].nSlot \in Slots /\ call[t].uElapse \in Elapses
              /\ call[t].hWnd \in WindowOrNone /\ call[t].uIDEvent \in Events
         /\ call[t].op = "kill" => /\ call[t].hWnd \in WindowOrNone
                                   /\ call[t].uIDEvent \in Events \cup Indices
         /\ call[t].op = "killwindow" => call[t].hWnd \in Windows
  <1>1. call[t] \in CallRecords BY DEF TypeOK
  <1> QED BY <1>1 DEF CallRecords

\* When a call returns nobody holds the monitor.
LEMMA Left ==
  ASSUME TypeOK, CallInv, NEW t \in Threads, call[t] # NULL, Leave(t)
  PROVE  /\ call' \in [Threads -> CallRecords \cup {NULL}]
         /\ CallInv' /\ \A u \in Threads, s \in Slots : ~Creating(u, s)'
         /\ \A u \in Threads, s \in Slots : Creating(u, s) => u = t
  <1>1. \A u \in Threads : call'[u] = NULL BY DEF Leave, CallInv, TypeOK
  <1>2. call' \in [Threads -> CallRecords \cup {NULL}] BY DEF Leave, TypeOK
  <1>3. \A u \in Threads, s \in Slots : Creating(u, s) => u = t BY DEF CallInv, Creating
  <1> QED BY <1>1, <1>2, <1>3 DEF CallInv, Creating

\* A timer that is written while the task is not in its pass.
LEMMA TimesWritten ==
  ASSUME TypeOK, SleepInv, PeriodInv, SemTimerFree,
         NEW i \in Indices, NEW t \in Threads, NEW s \in Slots, NEW e \in Elapses,
         WriteTimer(i, t, s, e), UNCHANGED <<clock, pass>>
  PROVE  /\ age' \in [Indices -> Nat] /\ timer_event' \in BOOLEAN
         /\ SleepInv' /\ PeriodInv'
  <1>1. /\ TimerList' = [TimerList EXCEPT ![i] = NewTimer(t, s, e)]
        /\ age' = [age EXCEPT ![i] = 0]
        /\ timer_event' = (timer_event \/ e + elapsed <= timer_timeout)
    BY DEF WriteTimer, SetTimerEvent
  <1>2. UNCHANGED <<elapsed, slept, task, uTimerTick, dwTimeout, timer_timeout>>
    BY DEF clock, pass
  <1>3. task \notin {"pass", "sleep"} BY DEF SemTimerFree
  <1>4. /\ Used' = Used \cup {i} /\ TimerList'[i] = NewTimer(t, s, e)
        /\ \A j \in Indices \ {i} : TimerList'[j] = TimerList[j]
    BY <1>1, UsedWritten
  <1>5. /\ age' \in [Indices -> Nat] /\ age'[i] = 0
        /\ \A j \in Indices \ {i} : age'[j] = age[j]
    BY <1>1 DEF TypeOK
  <1>6. timer_event' \in BOOLEAN /\ (timer_event => timer_event') BY <1>1
  <1>7. /\ elapsed \in Nat /\ e \in Nat /\ timer_timeout \in Nat /\ MinTimeout \in Nat
    BY Ranges, TimesAssumption DEF TypeOK
  <1>8. /\ TimerList'[i].uElapse = e /\ TimerList'[i].uMiliSeconds = e + elapsed
    BY <1>4 DEF NewTimer
  <1>9. Used \subseteq Indices BY DEF Used
  <1>10. NeverOversleeps'
    <2> SUFFICES ASSUME task = "wait", ~timer_event', NEW j \in Used'
                 PROVE  timer_timeout <= Larger(TimerList'[j].uMiliSeconds, MinTimeout)
      BY <1>2 DEF NeverOversleeps
    <2>1. CASE j = i
      <3>1. ~(e + elapsed <= timer_timeout) BY <1>1
      <3> QED BY <1>7, <1>8, <2>1, <3>1 DEF Larger
    <2>2. CASE j # i
      <3>1. j \in Used /\ TimerList'[j] = TimerList[j] BY <1>4, <1>9, <2>2
      <3> QED BY <1>6, <3>1 DEF SleepInv, NeverOversleeps
    <2> QED BY <2>1, <2>2
  <1>11. NearestInv' BY <1>2, <1>3 DEF NearestInv
  <1>12. PeriodInv'
    <2> SUFFICES ASSUME task # "crashed", NEW j \in Used'
                 PROVE  TimerList'[j].uMiliSeconds + age'[j] >= TimerList'[j].uElapse + elapsed
      BY <1>2, <1>3 DEF PeriodInv
    <2>1. CASE j = i BY <1>5, <1>7, <1>8, <2>1
    <2>2. CASE j # i
      <3>1. j \in Used /\ TimerList'[j] = TimerList[j] /\ age'[j] = age[j]
        BY <1>4, <1>5, <1>9, <2>2
      <3> QED BY <1>3, <3>1 DEF PeriodInv
    <2> QED BY <2>1, <2>2
  <1> QED BY <1>5, <1>6, <1>10, <1>11, <1>12 DEF SleepInv

\* A timer of no time at all is due at once.
LEMMA DueAtOnce ==
  ASSUME TypeOK, DueIsPending, NEW t \in Threads, t \in live, NEW s \in Slots, s \in dwSlotMask[t],
         NEW e, AtOnce(t, s, e), UNCHANGED <<dwSlotMask, live>>
  PROVE  /\ dwActiveMask' \in [Threads -> SUBSET Slots]
         /\ dwState' \subseteq Threads /\ blocked' \subseteq Threads
         /\ DueIsPending'
  <1>1. CASE e = 0
    <2>1. /\ dwActiveMask' = [dwActiveMask EXCEPT ![t] = @ \cup {s}]
          /\ dwState' = dwState \cup {t} /\ blocked' = blocked \ {t}
      BY <1>1 DEF AtOnce, Activate
    <2>2. /\ dwActiveMask' \in [Threads -> SUBSET Slots]
          /\ dwActiveMask'[t] = dwActiveMask[t] \cup {s}
          /\ \A u \in Threads \ {t} : dwActiveMask'[u] = dwActiveMask[u]
      BY <2>1 DEF TypeOK
    <2>3. dwState' \subseteq Threads /\ blocked' \subseteq Threads /\ live \subseteq Threads
      BY <2>1 DEF TypeOK
    <2>4. DueIsPending' BY <2>1, <2>2, <2>3 DEF DueIsPending
    <2> QED BY <2>2, <2>3, <2>4
  <1>2. CASE e # 0
    <2>1. UNCHANGED <<dwActiveMask, dwState, blocked>> BY <1>2 DEF AtOnce, Silent, wake
    <2> QED BY <2>1 DEF TypeOK, DueIsPending
  <1> QED BY <1>1, <1>2

\* A timer that exists is set anew.
LEMMA UpdateTimerStep ==
  ASSUME IInv, NEW t \in Threads, UpdateTimer(t)
  PROVE  IInv'
  <1> USE DEF IInv
  <1> DEFINE c == call[t]
             s == c.nSlot
             i == TimerInfo[t][s].TimerId
  <1>1. /\ c # NULL /\ c.op = "update" /\ SemTimerFree
        /\ WriteTimer(i, t, s, c.uElapse) /\ AtOnce(t, s, c.uElapse) /\ Leave(t)
        /\ UNCHANGED <<TimerInfo, dwSlotMask, uPreStart, clock, pass, live, window>>
    BY DEF UpdateTimer
  <1>2. s \in Slots /\ c.uElapse \in Elapses BY <1>1, CallFacts
  <1>3. t \in live /\ s \in dwSlotMask[t] BY <1>1 DEF CallInv
  <1>4. ~Creating(t, s) BY <1>1 DEF Creating
  <1>5. i \in Used /\ i \in Indices /\ TimerList[i].dwThreadId = t /\ TimerList[i].nSlot = s
    BY <1>2, <1>3, <1>4, UsedFacts DEF SlotsMatchTimers, SlotsHaveTimers, Filled
  <1>6. /\ call' \in [Threads -> CallRecords \cup {NULL}] /\ CallInv'
        /\ \A u \in Threads, r \in Slots : ~Creating(u, r)'
        /\ \A u \in Threads, r \in Slots : ~Creating(u, r)
    <2>1. \A u \in Threads, r \in Slots : ~Creating(u, r)
      BY <1>1 DEF CallInv, Creating
    <2> QED BY <1>1, <2>1, Left
  <1>7. /\ dwActiveMask' \in [Threads -> SUBSET Slots]
        /\ dwState' \subseteq Threads /\ blocked' \subseteq Threads /\ DueIsPending'
    BY <1>1, <1>2, <1>3, DueAtOnce
  <1>8. /\ age' \in [Indices -> Nat] /\ timer_event' \in BOOLEAN /\ SleepInv' /\ PeriodInv'
    BY <1>1, <1>2, <1>5, TimesWritten
  <1>9. TimerList' = [TimerList EXCEPT ![i] = NewTimer(t, s, c.uElapse)]
    BY <1>1 DEF WriteTimer
  <1>10. /\ TimerList' \in [Indices -> TimerRecords] /\ Used' = Used \cup {i}
         /\ TimerList'[i] = NewTimer(t, s, c.uElapse)
         /\ \A j \in Indices \ {i} : TimerList'[j] = TimerList[j]
    BY <1>2, <1>5, <1>9, UsedWritten
  <1>11. UNCHANGED <<elapsed, slept, task, uTimerTick, dwTimeout, timer_timeout>>
    BY <1>1 DEF clock, pass
  <1>12. TypeOK' BY <1>1, <1>6, <1>7, <1>8, <1>10, <1>11 DEF TypeOK
  <1>13. Used' = Used /\ \A j \in Used : /\ TimerList'[j].dwThreadId = TimerList[j].dwThreadId
                                         /\ TimerList'[j].nSlot = TimerList[j].nSlot
    <2>1. TimerList'[i].dwThreadId = t /\ TimerList'[i].nSlot = s BY <1>10 DEF NewTimer
    <2>2. Used \subseteq Indices BY DEF Used
    <2> QED BY <1>5, <1>10, <2>1, <2>2
  <1> HIDE DEF c, s, i
  <1>14. TimersHaveSlots' BY <1>1, <1>13 DEF SlotsMatchTimers, TimersHaveSlots, Filled
  <1>15. SlotsHaveTimers'
    <2> SUFFICES ASSUME NEW u \in live, NEW r \in Slots
                 PROVE  IF r \in dwSlotMask[u]
                        THEN \E j \in Used : /\ Filled(u, r, j)
                                             /\ TimerList[j].dwThreadId = u /\ TimerList[j].nSlot = r
                        ELSE TimerInfo[u][r] = NoTimer
      BY <1>1, <1>6, <1>13 DEF SlotsHaveTimers, Filled, TypeOK
    <2>1. u \in Threads BY DEF TypeOK
    <2>2. ~Creating(u, r) BY <1>6, <2>1
    <2> QED BY <2>2 DEF SlotsMatchTimers, SlotsHaveTimers
  <1> QED BY <1>6, <1>7, <1>8, <1>12, <1>14, <1>15 DEF SlotsMatchTimers

\* The type of a slot.
SlotRecords == [hWnd : WindowOrNone, TimerId : Indices \cup {0},
                uEventId : Events \cup Indices \cup {0}]

\* One slot is changed.
LEMMA SlotChanged ==
  ASSUME TypeOK, NEW t \in Threads, NEW s \in Slots, NEW r \in SlotRecords,
         TimerInfo' = [TimerInfo EXCEPT ![t][s] = r]
  PROVE  /\ TimerInfo' \in [Threads -> [Slots -> SlotRecords]]
         /\ TimerInfo'[t][s] = r
         /\ \A u \in Threads, q \in Slots : ~(u = t /\ q = s) => TimerInfo'[u][q] = TimerInfo[u][q]
  <1>1. TimerInfo \in [Threads -> [Slots -> SlotRecords]] BY DEF TypeOK, SlotRecords
  <1> HIDE DEF SlotRecords
  <1> QED BY <1>1

\* The slot that a timer is being created for has none, and is nobody else's.
LEMMA CreateFacts ==
  ASSUME IInv, NEW t \in Threads, call[t] # NULL, call[t].op = "create"
  PROVE  /\ t \in live /\ call[t].nSlot \in Slots /\ call[t].uElapse \in Elapses
         /\ call[t].nSlot \in dwSlotMask[t] /\ call[t].nSlot \notin dwActiveMask[t]
         /\ TimerInfo[t][call[t].nSlot] = NoTimer
         /\ \A u \in Threads, r \in Slots : Creating(u, r) <=> u = t /\ r = call[t].nSlot
         /\ \A j \in Used : ~(TimerList[j].dwThreadId = t /\ TimerList[j].nSlot = call[t].nSlot)
  <1> USE DEF IInv
  <1> DEFINE s == call[t].nSlot
  <1>1. s \in Slots /\ call[t].uElapse \in Elapses BY CallFacts
  <1>2. t \in live /\ s \in dwSlotMask[t] /\ s \notin dwActiveMask[t] BY DEF CallInv
  <1>3. \A u \in Threads, r \in Slots : Creating(u, r) <=> u = t /\ r = s
    BY DEF CallInv, Creating
  <1>4. TimerInfo[t][s] = NoTimer BY <1>1, <1>2, <1>3 DEF SlotsMatchTimers, SlotsHaveTimers
  <1>5. ASSUME NEW j \in Used, TimerList[j].dwThreadId = t, TimerList[j].nSlot = s PROVE FALSE
    <2>1. Filled(t, s, j) BY <1>2, <1>5 DEF SlotsMatchTimers, TimersHaveSlots
    <2>2. j # 0 BY Ranges, UsedFacts
    <2> QED BY <1>4, <2>1, <2>2 DEF Filled, NoTimer
  <1> QED BY <1>1, <1>2, <1>3, <1>4, <1>5

\* There is no entry left: the slot is given back.
LEMMA CreateFails ==
  ASSUME IInv, NEW t \in Threads, CreateTimer(t), Indices \ Used = {}
  PROVE  IInv'
  <1> USE DEF IInv
  <1> DEFINE s == call[t].nSlot
  <1>1. /\ call[t] # NULL /\ call[t].op = "create" /\ Leave(t)
        /\ dwSlotMask' = Without(dwSlotMask, t, s)
        /\ UNCHANGED <<table, TimerInfo, timer_event, dwActiveMask, wake>>
        /\ UNCHANGED <<uPreStart, clock, pass, live, window>>
    BY DEF CreateTimer, Silent
  <1>2. UNCHANGED <<TimerList, age, dwState, blocked, elapsed, slept, task, uTimerTick,
                    dwTimeout, timer_timeout>> /\ Used' = Used
    BY <1>1 DEF table, wake, clock, pass, Used
  <1>3. /\ t \in live /\ s \in Slots /\ s \notin dwActiveMask[t] /\ TimerInfo[t][s] = NoTimer
        /\ \A u \in Threads, r \in Slots : Creating(u, r) <=> u = t /\ r = s
        /\ \A j \in Used : ~(TimerList[j].dwThreadId = t /\ TimerList[j].nSlot = s)
    BY <1>1, CreateFacts
  <1>4. /\ call' \in [Threads -> CallRecords \cup {NULL}] /\ CallInv'
        /\ \A u \in Threads, r \in Slots : ~Creating(u, r)'
    BY <1>1, Left
  <1> HIDE DEF s
  <1>5. /\ dwSlotMask' \in [Threads -> SUBSET Slots] /\ dwSlotMask'[t] = dwSlotMask[t] \ {s}
        /\ \A u \in Threads \ {t} : dwSlotMask'[u] = dwSlotMask[u]
    BY <1>1 DEF Without, TypeOK
  <1>6. TypeOK' BY <1>1, <1>2, <1>4, <1>5 DEF TypeOK
  <1>7. TimersHaveSlots'
    <2> SUFFICES ASSUME NEW j \in Used, TimerList[j].dwThreadId \in live
                 PROVE  /\ TimerList[j].nSlot \in dwSlotMask'[TimerList[j].dwThreadId]
                        /\ Filled(TimerList[j].dwThreadId, TimerList[j].nSlot, j)
      BY <1>1, <1>2 DEF TimersHaveSlots, Filled
    <2>1. TimerList[j].dwThreadId \in Threads BY UsedFacts
    <2> QED BY <1>3, <1>5, <2>1 DEF SlotsMatchTimers, TimersHaveSlots
  <1>8. SlotsHaveTimers'
    <2> SUFFICES ASSUME NEW u \in live, NEW r \in Slots
                 PROVE  IF r \in dwSlotMask'[u]
                        THEN \E j \in Used : /\ Filled(u, r, j)
                                             /\ TimerList[j].dwThreadId = u /\ TimerList[j].nSlot = r
                        ELSE TimerInfo[u][r] = NoTimer
      BY <1>1, <1>2, <1>4 DEF SlotsHaveTimers, Filled, TypeOK
    <2>1. u \in Threads BY DEF TypeOK
    <2>2. CASE u = t /\ r = s BY <1>3, <1>5, <2>2
    <2>3. CASE ~(u = t /\ r = s)
      <3>1. ~Creating(u, r) BY <1>3, <2>1, <2>3
      <3>2. r \in dwSlotMask'[u] <=> r \in dwSlotMask[u] BY <1>5, <2>1, <2>3
      <3> QED BY <3>1, <3>2 DEF SlotsMatchTimers, SlotsHaveTimers
    <2> QED BY <2>2, <2>3
  <1>9. DueIsPending' BY <1>1, <1>2, <1>3, <1>5 DEF DueIsPending, TypeOK
  <1>10. SleepInv' /\ PeriodInv' BY <1>1, TimesKept
  <1> QED BY <1>4, <1>6, <1>7, <1>8, <1>9, <1>10 DEF SlotsMatchTimers

\* There is an entry: the slot gets its timer.
LEMMA CreateSucceeds ==
  ASSUME IInv, NEW t \in Threads, CreateTimer(t), Indices \ Used # {}
  PROVE  IInv'
  <1> USE DEF IInv
  <1> DEFINE c == call[t]
             s == c.nSlot
             i == First(Indices \ Used)
             r == [hWnd |-> c.hWnd, TimerId |-> i,
                   uEventId |-> IF c.hWnd = NULL THEN i ELSE c.uIDEvent]
  <1>1. /\ c # NULL /\ c.op = "create" /\ SemTimerFree /\ Leave(t)
        /\ WriteTimer(i, t, s, c.uElapse) /\ AtOnce(t, s, c.uElapse)
        /\ TimerInfo' = [TimerInfo EXCEPT ![t][s] = r]
        /\ UNCHANGED <<dwSlotMask, uPreStart, clock, pass, live, window>>
    BY DEF CreateTimer
  <1>2. i \in Indices /\ i \notin Used
    <2>1. Indices \ Used \subseteq Nat BY Ranges
    <2> QED BY <2>1, FirstIs
  <1>3. /\ t \in live /\ s \in Slots /\ c.uElapse \in Elapses
        /\ s \in dwSlotMask[t] /\ TimerInfo[t][s] = NoTimer
        /\ \A u \in Threads, q \in Slots : Creating(u, q) <=> u = t /\ q = s
        /\ \A j \in Used : ~(TimerList[j].dwThreadId = t /\ TimerList[j].nSlot = s)
    BY <1>1, CreateFacts
  <1>4. r \in SlotRecords /\ r.TimerId = i
    <2>1. c.hWnd \in WindowOrNone /\ c.uIDEvent \in Events BY <1>1, CallFacts
    <2> QED BY <1>2, <2>1 DEF SlotRecords
  <1>5. /\ call' \in [Threads -> CallRecords \cup {NULL}] /\ CallInv'
        /\ \A u \in Threads, q \in Slots : ~Creating(u, q)'
    BY <1>1, Left
  <1>6. /\ dwActiveMask' \in [Threads -> SUBSET Slots]
        /\ dwState' \subseteq Threads /\ blocked' \subseteq Threads /\ DueIsPending'
    BY <1>1, <1>3, DueAtOnce
  <1>7. /\ age' \in [Indices -> Nat] /\ timer_event' \in BOOLEAN /\ SleepInv' /\ PeriodInv'
    BY <1>1, <1>2, <1>3, TimesWritten
  <1>8. TimerList' = [TimerList EXCEPT ![i] = NewTimer(t, s, c.uElapse)]
    BY <1>1 DEF WriteTimer
  <1>9. /\ TimerList' \in [Indices -> TimerRecords] /\ Used' = Used \cup {i}
        /\ TimerList'[i] = NewTimer(t, s, c.uElapse)
        /\ \A j \in Indices \ {i} : TimerList'[j] = TimerList[j]
    BY <1>2, <1>3, <1>8, UsedWritten
  <1>10. TimerList'[i].dwThreadId = t /\ TimerList'[i].nSlot = s BY <1>9 DEF NewTimer
  <1>11. \A j \in Used : j # i /\ TimerList'[j] = TimerList[j] BY <1>2, <1>9 DEF Used
  <1> HIDE DEF r, c, s, i
  <1>12. /\ TimerInfo' \in [Threads -> [Slots -> SlotRecords]] /\ TimerInfo'[t][s] = r
         /\ \A u \in Threads, q \in Slots : ~(u = t /\ q = s) => TimerInfo'[u][q] = TimerInfo[u][q]
    BY <1>1, <1>3, <1>4, SlotChanged
  <1>13. UNCHANGED <<elapsed, slept, task, uTimerTick, dwTimeout, timer_timeout>>
    BY <1>1 DEF clock, pass
  <1>14. TypeOK' BY <1>1, <1>5, <1>6, <1>7, <1>9, <1>12, <1>13 DEF TypeOK, SlotRecords
  <1>15. TimersHaveSlots'
    <2> SUFFICES ASSUME NEW j \in Used', TimerList'[j].dwThreadId \in live
                 PROVE  /\ TimerList'[j].nSlot \in dwSlotMask[TimerList'[j].dwThreadId]
                        /\ TimerInfo'[TimerList'[j].dwThreadId][TimerList'[j].nSlot].TimerId = j
      BY <1>1 DEF TimersHaveSlots, Filled
    <2>1. CASE j = i BY <1>3, <1>4, <1>10, <1>12, <2>1
    <2>2. CASE j # i
      <3>1. j \in Used BY <1>9, <2>2
      <3>2. TimerList[j].dwThreadId \in Threads /\ TimerList[j].nSlot \in Slots
        BY <3>1, UsedFacts
      <3>3. TimerInfo[TimerList[j].dwThreadId][TimerList[j].nSlot].TimerId = j
            /\ TimerList[j].nSlot \in dwSlotMask[TimerList[j].dwThreadId]
        BY <1>11, <3>1 DEF SlotsMatchTimers, TimersHaveSlots, Filled
      <3> QED BY <1>3, <1>11, <1>12, <3>1, <3>2, <3>3
    <2> QED BY <2>1, <2>2
  <1>16. SlotsHaveTimers'
    <2> SUFFICES ASSUME NEW u \in live, NEW q \in Slots
                 PROVE  IF q \in dwSlotMask[u]
                        THEN \E j \in Used' : /\ TimerInfo'[u][q].TimerId = j
                                              /\ TimerList'[j].dwThreadId = u /\ TimerList'[j].nSlot = q
                        ELSE TimerInfo'[u][q] = NoTimer
      BY <1>1, <1>5 DEF SlotsHaveTimers, Filled, TypeOK
    <2>1. u \in Threads BY DEF TypeOK
    <2>2. CASE u = t /\ q = s
      <3>1. i \in Used' BY <1>9
      <3> QED BY <1>3, <1>4, <1>10, <1>12, <2>2, <3>1
    <2>3. CASE ~(u = t /\ q = s)
      <3>1. ~Creating(u, q) /\ TimerInfo'[u][q] = TimerInfo[u][q] BY <1>3, <1>12, <2>1, <2>3
      <3>2. IF q \in dwSlotMask[u]
            THEN \E j \in Used : /\ TimerInfo[u][q].TimerId = j
                                 /\ TimerList[j].dwThreadId = u /\ TimerList[j].nSlot = q
            ELSE TimerInfo[u][q] = NoTimer
        BY <3>1 DEF SlotsMatchTimers, SlotsHaveTimers, Filled
      <3> QED BY <1>9, <1>11, <3>1, <3>2
    <2> QED BY <2>2, <2>3
  <1> QED BY <1>5, <1>6, <1>7, <1>14, <1>15, <1>16 DEF SlotsMatchTimers

\* A slot and its timer are freed, while no other is being created.
LEMMA SlotFreed ==
  ASSUME IInv, NEW u \in Threads, u \in live, NEW s \in Slots, Linked(u, s), s \in dwSlotMask[u],
         SemTimerFree, FreeSlot(u, s), UNCHANGED <<wake, clock, pass, timer_event, live>>,
         \A v \in Threads, q \in Slots : ~Creating(v, q) /\ ~Creating(v, q)'
  PROVE  /\ TimerList' \in [Indices -> TimerRecords] /\ age' \in [Indices -> Nat]
         /\ TimerInfo' \in [Threads -> [Slots -> SlotRecords]]
         /\ dwSlotMask' \in [Threads -> SUBSET Slots]
         /\ dwActiveMask' \in [Threads -> SUBSET Slots]
         /\ SlotsMatchTimers' /\ DueIsPending' /\ SleepInv' /\ PeriodInv'
  <1> USE DEF IInv
  <1> DEFINE i == TimerInfo[u][s].TimerId
  <1>1. i \in Used /\ i \in Indices /\ TimerList[i].dwThreadId = u /\ TimerList[i].nSlot = s
    BY UsedFacts DEF Linked
  <1>2. /\ TimerList' = [TimerList EXCEPT ![i] = Unused] /\ age' = [age EXCEPT ![i] = 0]
        /\ dwSlotMask' = Without(dwSlotMask, u, s)
        /\ dwActiveMask' = Without(dwActiveMask, u, s)
        /\ TimerInfo' = [TimerInfo EXCEPT ![u][s] = NoTimer]
    BY DEF FreeSlot
  <1>3. NoTimer \in SlotRecords BY DEF NoTimer, SlotRecords, WindowOrNone
  <1> HIDE DEF i
  <1>4. /\ TimerList' \in [Indices -> TimerRecords] /\ Used' = Used \ {i}
        /\ \A j \in Indices \ {i} : TimerList'[j] = TimerList[j]
    BY <1>1, <1>2, UsedFreed
  <1>5. /\ age' \in [Indices -> Nat] /\ \A j \in Indices \ {i} : age'[j] = age[j]
    BY <1>1, <1>2 DEF TypeOK
  <1>6. /\ TimerInfo' \in [Threads -> [Slots -> SlotRecords]] /\ TimerInfo'[u][s] = NoTimer
        /\ \A v \in Threads, q \in Slots : ~(v = u /\ q = s) => TimerInfo'[v][q] = TimerInfo[v][q]
    BY <1>2, <1>3, SlotChanged
  <1>7. /\ dwSlotMask' \in [Threads -> SUBSET Slots] /\ dwActiveMask' \in [Threads -> SUBSET Slots]
        /\ dwSlotMask'[u] = dwSlotMask[u] \ {s} /\ dwActiveMask'[u] = dwActiveMask[u] \ {s}
        /\ \A v \in Threads \ {u} : /\ dwSlotMask'[v] = dwSlotMask[v]
                                    /\ dwActiveMask'[v] = dwActiveMask[v]
    BY <1>2 DEF Without, TypeOK
  <1>8. UNCHANGED <<dwState, blocked, elapsed, slept, task, uTimerTick, dwTimeout, timer_timeout,
                    timer_event, live>>
    BY DEF wake, clock, pass
  <1>9. \A j \in Used' : j \in Used /\ j # i /\ TimerList'[j] = TimerList[j] /\ age'[j] = age[j]
    BY <1>4, <1>5 DEF Used
  <1>10. i = TimerInfo[u][s].TimerId BY DEF i
  <1>11. TimersHaveSlots'
    <2> SUFFICES ASSUME NEW j \in Used', TimerList[j].dwThreadId \in live
                 PROVE  /\ TimerList[j].nSlot \in dwSlotMask'[TimerList[j].dwThreadId]
                        /\ TimerInfo'[TimerList[j].dwThreadId][TimerList[j].nSlot].TimerId = j
      BY <1>8, <1>9 DEF TimersHaveSlots, Filled
    <2>1. j \in Used /\ j # i BY <1>9
    <2>2. TimerList[j].dwThreadId \in Threads /\ TimerList[j].nSlot \in Slots
      BY <2>1, UsedFacts
    <2>3. /\ TimerInfo[TimerList[j].dwThreadId][TimerList[j].nSlot].TimerId = j
          /\ TimerList[j].nSlot \in dwSlotMask[TimerList[j].dwThreadId]
      BY <2>1 DEF SlotsMatchTimers, TimersHaveSlots, Filled
    <2>4. ~(TimerList[j].dwThreadId = u /\ TimerList[j].nSlot = s) BY <1>10, <2>1, <2>3
    <2> QED BY <1>6, <1>7, <2>2, <2>3, <2>4
  <1>12. SlotsHaveTimers'
    <2> SUFFICES ASSUME NEW v \in live, NEW q \in Slots
                 PROVE  IF q \in dwSlotMask'[v]
                        THEN \E j \in Used' : /\ TimerInfo'[v][q].TimerId = j
                                              /\ TimerList'[j].dwThreadId = v /\ TimerList'[j].nSlot = q
                        ELSE TimerInfo'[v][q] = NoTimer
      BY <1>8 DEF SlotsHaveTimers, Filled, TypeOK
    <2>1. v \in Threads BY DEF TypeOK
    <2>2. CASE v = u /\ q = s BY <1>6, <1>7, <2>2
    <2>3. CASE ~(v = u /\ q = s)
      <3>1. /\ TimerInfo'[v][q] = TimerInfo[v][q]
            /\ q \in dwSlotMask'[v] <=> q \in dwSlotMask[v]
        BY <1>6, <1>7, <2>1, <2>3
      <3>2. IF q \in dwSlotMask[v]
            THEN \E j \in Used : /\ TimerInfo[v][q].TimerId = j
                                 /\ TimerList[j].dwThreadId = v /\ TimerList[j].nSlot = q
            ELSE TimerInfo[v][q] = NoTimer
        BY <2>1 DEF SlotsMatchTimers, SlotsHaveTimers, Filled
      <3>3. \A j \in Used : TimerList[j].dwThreadId = v /\ TimerList[j].nSlot = q => j \in Used'
        BY <1>1, <1>4, <2>3
      <3> QED BY <1>9, <3>1, <3>2, <3>3
    <2> QED BY <2>2, <2>3
  <1>13. DueIsPending' BY <1>7, <1>8 DEF DueIsPending, TypeOK
  <1>14. task \notin {"pass", "sleep"} BY DEF SemTimerFree
  <1>15. SleepInv' BY <1>8, <1>9, <1>14 DEF SleepInv, NearestInv, NeverOversleeps
  <1>16. PeriodInv' BY <1>8, <1>9, <1>14 DEF PeriodInv
  <1> QED BY <1>4, <1>5, <1>6, <1>7, <1>11, <1>12, <1>13, <1>15, <1>16 DEF SlotsMatchTimers

\* A timer is killed.
LEMMA DestroyTimerStep ==
  ASSUME IInv, NEW t \in Threads, DestroyTimer(t)
  PROVE  IInv'
  <1> USE DEF IInv
  <1> DEFINE w == call[t].hWnd
             id == call[t].uIDEvent
             u == Holder(t, w)
             S == SlotsFor(u, w, id)
             s == First(S)
  <1>1. /\ call[t] # NULL /\ call[t].op = "kill" /\ SemTimerFree /\ FreeSlot(u, s) /\ Leave(t)
        /\ UNCHANGED <<wake, clock, pass, timer_event, live, window>>
    BY DEF DestroyTimer
  <1>2. w \in WindowOrNone /\ id \in Events \cup Indices BY <1>1, CallFacts
  <1>3. u \in live /\ S # {} BY <1>1 DEF CallInv
  <1>4. u \in Threads BY <1>3 DEF TypeOK
  <1>5. s \in S
    <2>1. S \subseteq Nat BY Ranges DEF SlotsFor
    <2> QED BY <1>3, <2>1, FirstIs
  <1>6. s \in Slots /\ TimerInfo[u][s].hWnd = w /\ TimerInfo[u][s].uEventId = id
    BY <1>5 DEF SlotsFor
  <1>7. TimerInfo[u][s] # NoTimer
    <2>1. id # 0 BY <1>2, Ranges
    <2> QED BY <1>6, <2>1 DEF NoTimer
  <1>8. s \in dwSlotMask[u] /\ Linked(u, s) BY <1>3, <1>4, <1>6, <1>7, SlotFacts
  <1>9. /\ call' \in [Threads -> CallRecords \cup {NULL}] /\ CallInv'
        /\ \A v \in Threads, q \in Slots : ~Creating(v, q)'
        /\ \A v \in Threads, q \in Slots : Creating(v, q) => v = t
    BY <1>1, Left
  <1>10. \A v \in Threads, q \in Slots : ~Creating(v, q) BY <1>1, <1>9 DEF Creating
  <1> HIDE DEF u, s
  <1>11. /\ TimerList' \in [Indices -> TimerRecords] /\ age' \in [Indices -> Nat]
         /\ TimerInfo' \in [Threads -> [Slots -> SlotRecords]]
         /\ dwSlotMask' \in [Threads -> SUBSET Slots]
         /\ dwActiveMask' \in [Threads -> SUBSET Slots]
         /\ SlotsMatchTimers' /\ DueIsPending' /\ SleepInv' /\ PeriodInv'
    BY <1>1, <1>3, <1>4, <1>6, <1>8, <1>9, <1>10, SlotFreed
  <1>12. UNCHANGED <<dwState, blocked, elapsed, slept, task, uTimerTick, dwTimeout,
                     timer_timeout, uPreStart>>
    BY <1>1 DEF wake, clock, pass, FreeSlot
  <1>13. TypeOK' BY <1>1, <1>9, <1>11, <1>12 DEF TypeOK, SlotRecords
  <1> QED BY <1>9, <1>11, <1>13

\* Between two slots of a window the call goes on; with none left it ends.
LEMMA KillWindowTimerStep ==
  ASSUME IInv, NEW t \in Threads, WS_KillWindowTimer(t)
  PROVE  IInv'
  <1> USE DEF IInv
  <1> DEFINE w == call[t].hWnd
             S == SlotsOfWindow(t, w)
             s == First(S)
  <1>1. /\ call[t] # NULL /\ call[t].op = "killwindow"
        /\ UNCHANGED <<wake, clock, pass, timer_event, live>>
    BY DEF WS_KillWindowTimer
  <1>2. w \in Windows /\ w # NULL /\ t \in live /\ t \notin blocked
    BY <1>1, CallFacts, NullAssumption DEF CallInv
  <1>3. \A v \in Threads, q \in Slots : ~Creating(v, q) BY <1>1 DEF CallInv, Creating
  <1>4. UNCHANGED <<dwState, blocked, elapsed, slept, task, uTimerTick, dwTimeout, timer_timeout>>
    BY <1>1 DEF wake, clock, pass
  <1>5. CASE S = {}
    <2>1. /\ window' = [window EXCEPT ![w] = "dying"] /\ Leave(t) /\ UNCHANGED <<table, queue>>
      BY <1>5 DEF WS_KillWindowTimer
    <2>2. UNCHANGED <<TimerList, age, TimerInfo, dwSlotMask, dwActiveMask, uPreStart>>
      BY <2>1 DEF table, queue
    <2>3. /\ call' \in [Threads -> CallRecords \cup {NULL}] /\ CallInv'
          /\ \A v \in Threads, q \in Slots : ~Creating(v, q)'
      BY <1>1, <2>1, Left
    <2>4. window' \in [Windows -> {"live", "dying", "gone"}] BY <2>1 DEF TypeOK
    <2>5. TypeOK' BY <1>1, <1>4, <2>2, <2>3, <2>4 DEF TypeOK
    <2>6. SlotsMatchTimers' BY <1>1, <1>3, <2>2, <2>3, SlotsKept
    <2>7. DueIsPending' BY <1>1, <1>4, <2>2 DEF DueIsPending
    <2>8. SleepInv' /\ PeriodInv' BY <1>1, <2>1, TimesKept
    <2> QED BY <2>3, <2>5, <2>6, <2>7, <2>8
  <1>6. CASE S # {}
    <2>1. SemTimerFree /\ FreeSlot(t, s) /\ UNCHANGED <<call, window>>
      BY <1>6 DEF WS_KillWindowTimer
    <2>2. S \subseteq Slots /\ S \subseteq Nat BY Ranges DEF SlotsOfWindow, TypeOK
    <2>3. s \in S BY <1>6, <2>2, FirstIs
    <2>4. s \in Slots /\ s \in dwSlotMask[t] /\ TimerInfo[t][s].hWnd = w
      BY <2>2, <2>3 DEF SlotsOfWindow
    <2>5. TimerInfo[t][s] # NoTimer BY <1>2, <2>4 DEF NoTimer
    <2>6. Linked(t, s) BY <1>2, <2>4, <2>5, SlotFacts
    <2>7. \A v \in Threads, q \in Slots : ~Creating(v, q)' BY <1>3, <2>1 DEF Creating
    <2> HIDE DEF s, S
    <2>8. /\ TimerList' \in [Indices -> TimerRecords] /\ age' \in [Indices -> Nat]
          /\ TimerInfo' \in [Threads -> [Slots -> SlotRecords]]
          /\ dwSlotMask' \in [Threads -> SUBSET Slots]
          /\ dwActiveMask' \in [Threads -> SUBSET Slots]
          /\ SlotsMatchTimers' /\ DueIsPending' /\ SleepInv' /\ PeriodInv'
      BY <1>1, <1>2, <1>3, <2>1, <2>4, <2>6, <2>7, SlotFreed
    <2>9. uPreStart' = uPreStart BY <2>1 DEF FreeSlot
    <2>10. TypeOK' BY <1>1, <1>4, <2>1, <2>8, <2>9 DEF TypeOK, SlotRecords
    <2>11. CallInv'
      <3>1. \A v \in Threads : call[v] # NULL => v = t BY <1>1 DEF CallInv
      <3>2. Owner[w] = t BY <1>1 DEF CallInv
      <3> QED BY <1>1, <1>2, <1>4, <2>1, <3>1, <3>2 DEF CallInv
    <2> QED BY <2>8, <2>10, <2>11
  <1> QED BY <1>5, <1>6

-----------------------------------------------------------------------------
(* The invariant is inductive.                                             *)

\* The invariant holds at first.
LEMMA InitInv ==
  ASSUME Init
  PROVE  IInv
  <1> USE DEF Init
  <1>1. Unused \in TimerRecords /\ ~Unused.bUsed BY DEF Unused, TimerRecords
  <1>2. Used = {} BY <1>1 DEF Used
  <1>3. NoTimer \in SlotRecords BY DEF NoTimer, SlotRecords, WindowOrNone
  <1>4. TypeOK
    <2>1. TimerList \in [Indices -> TimerRecords] BY <1>1
    <2>2. TimerInfo \in [Threads -> [Slots -> SlotRecords]] BY <1>3
    <2> QED BY <2>1, <2>2, Ranges DEF TypeOK, SlotRecords
  <1>5. CallInv BY DEF CallInv
  <1>6. SlotsMatchTimers BY <1>2 DEF SlotsMatchTimers, TimersHaveSlots, SlotsHaveTimers
  <1>7. DueIsPending BY DEF DueIsPending
  <1>8. SleepInv BY DEF SleepInv, NearestInv, NeverOversleeps
  <1>9. PeriodInv BY <1>2 DEF PeriodInv
  <1> QED BY <1>4, <1>5, <1>6, <1>7, <1>8, <1>9 DEF IInv

\* Every step keeps the invariant.
LEMMA NextInv ==
  ASSUME IInv, [Next]_vars
  PROVE  IInv'
  <1>1. ASSUME NEW t \in Threads, Call(t) PROVE IInv'
    BY <1>1, SetTimerStep, KillTimerStep, DestroyAWindowStep, ThreadExitStep DEF Call
  <1>2. ASSUME NEW t \in Threads, Return(t) PROVE IInv'
    BY <1>2, UpdateTimerStep, CreateFails, CreateSucceeds, DestroyTimerStep,
       KillWindowTimerStep, UnregisterWindowStep DEF Return
  <1>3. ASSUME NEW t \in Threads, GetMessage(t) \/ OtherMessage(t) PROVE IInv'
    BY <1>3, GetTimerMessageStep, BlockStep, OtherMessageStep DEF GetMessage
  <1>4. CASE TimerTask
    BY <1>4, TakeTimeStep, VisitTimersStep, SetTimeoutStep, WakeStep DEF TimerTask
  <1>5. CASE LongKeyPressed BY <1>5, LongKeyStep
  <1>6. CASE Tick BY <1>6, TickStep
  <1>7. CASE UNCHANGED vars
    <2>1. UNCHANGED <<app, table, queue, wake, clock, pass, timer_event>> BY <1>7 DEF vars
    <2>2. UNCHANGED <<TimerList, age, TimerInfo, dwSlotMask, dwActiveMask, uPreStart, dwState,
                      blocked, elapsed, slept, task, uTimerTick, dwTimeout, timer_timeout,
                      timer_event, call, live, window>>
          /\ Used' = Used
      BY <2>1 DEF app, table, queue, wake, clock, pass, Used
    <2>3. TypeOK' BY <2>2 DEF TypeOK, IInv
    <2>4. CallInv' /\ SlotsMatchTimers' /\ DueIsPending' BY <2>1, <2>2, AppKept
    <2>5. SleepInv' /\ PeriodInv' BY <2>1, TimesKept DEF IInv
    <2> QED BY <2>3, <2>4, <2>5 DEF IInv
  <1> QED BY <1>1, <1>2, <1>3, <1>4, <1>5, <1>6, <1>7 DEF Next

\* The inductive invariant holds in every reachable state.
LEMMA Invariant == Spec => []IInv
  <1>1. Init => IInv BY InitInv
  <1>2. IInv /\ [Next]_vars => IInv' BY NextInv
  <1> QED BY <1>1, <1>2, PTL DEF Spec

\* Every reachable state is well typed; in particular what is left of a period
\* never falls below zero.
THEOREM TypeCorrect == Spec => []TypeOK
  <1>1. IInv => TypeOK BY DEF IInv
  <1> QED BY <1>1, Invariant, PTL

\* The slots of the threads and TimerList always describe the same timers.
THEOREM TablesAgree == Spec => []SlotsMatchTimers
  <1>1. IInv => SlotsMatchTimers BY DEF IInv
  <1> QED BY <1>1, Invariant, PTL

\* A slot that is due has a timer, and its thread knows it and does not sleep.
THEOREM PendingIsSeen == Spec => []DueIsPending
  <1>1. IInv => DueIsPending BY DEF IInv
  <1> QED BY <1>1, Invariant, PTL

\* The task does not sleep past a timer unless it has been asked to wake.
THEOREM SleepIsBounded == Spec => []NeverOversleeps
  <1>1. IInv => NeverOversleeps BY DEF IInv, SleepInv
  <1> QED BY <1>1, Invariant, PTL

\* No timer is due before its period has passed.
THEOREM PeriodsAreKept == Spec => NotEarly
  <1>1. ASSUME IInv, [Next]_vars, task = "start", task' = "pass"
        PROVE  \A i \in Due' : age[i] >= TimerList[i].uElapse
    <2>1. TakeTime
      <3>1. ~UNCHANGED task BY <1>1
      <3> QED BY <1>1, <3>1
              DEF Next, vars, pass, app, Call, Return, GetMessage, TimerTask, SetTimer, KillTimer,
                  DestroyAWindow, ThreadExit, UpdateTimer, CreateTimer, DestroyTimer,
                  WS_KillWindowTimer, UnregisterWindow, GetTimerMessage, Block, OtherMessage,
                  VisitTimers, SetTimeout, Wake, LongKeyPressed, Tick
    <2> QED BY <1>1, <2>1, TakeTimeStep
  <1>2. IInv /\ [Next]_vars =>
          (task = "start" /\ task' = "pass" => \A i \in Due' : age[i] >= TimerList[i].uElapse)
    BY <1>1
  <1> QED BY <1>2, Invariant, PTL DEF Spec, NotEarly
=============================================================================
