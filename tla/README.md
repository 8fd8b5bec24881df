# Models of the phone's window system and services

The repository is the application processor software of a mobile phone, with an
emulator: a multi-threaded window system (`gui/window`), phone services on top
of it (dialer, SMS dispatcher, modem driver, multiplexer, registry, ...) and the
applications. This directory holds TLA+ models of the parts where the order of
events decides whether the program is right, TLC configurations that check them
and proofs for TLAPS. Paths below are relative to `src/src_emu/src/`; line
numbers refer to the files as they are in the repository, whose comments are in
GBK and are quoted in translation. `PROJECT.json` relates every definition to
its lines.

## The system

Everything talks through window messages. A window belongs to the thread that
created it; a thread runs a loop of `GetMessage` and `DispatchMessage` over its
own queues. Most services are windows of one thread and so never run at the same
time, but messages wait in queues, and what was true when a message was posted
need not be when it is handled. Threads meet in `SendMessage`, which waits for
another thread's window procedure, and in the one big monitor
(`ENTERMONITOR`/`EXITMONITOR`).

| Component | State | Operations | Hard part | Properties that make it right |
|---|---|---|---|---|
| Message queues (`kernel/msgqueue.c`, `message.c`, `wsthread.c`) | queue of sent messages, stack of replies, queue of posted messages, QS_ flags, block state and semaphore, for each thread | SendMessage, SendNotifyMessage, PostMessage, PostThreadMessage, GetMessage, PeekMessage, PostQuitMessage, death of a window or thread | lost wake-ups, nested and crossing sends, death of a receiver or sender | no wake-up is lost; a send returns its own reply; nobody waits for the dead |
| Window timers (`kernel/wstimer.c`, `hgos/osal.c`) | the timers of the system, the slots of each thread, bit masks of set and due slots, the sleep of the timer task | SetTimer, KillTimer, end of a window or thread, the timer task, GetTimerMessage | two locks taken in both orders; slots visible before they are filled; time passes while a sleep is computed | slots and timers agree; a killed timer is silent; no timer early, slept past or starved |
| Painting (`kernel/winpaint.c`, `winmap.c`, `winexpos.c`) | update flag and region of each window, paint messages of each thread and their count | InvalidateRect, ValidateRect, BeginPaint, EndPaint, UpdateWindow, ShowWindow | invalidation during painting; a child waits for its parent | no region is forgotten; flag, message and count agree; nobody waits for ever |
| Hardware events (`kernel/devqueue.c`, `devinput.c`) | ring buffers, focus and capture | push by interrupts, pop by the input task | full rings, routing to dead windows | no event is doubled or reordered |
| Window objects (`kernel/wsotable.c`, `winobj.c`) | table of handles with serial numbers, window tree | create, look up, destroy | handle reuse | an old handle never finds a new window |
| Dialer (`dialer/dialctrl.c`, `dialifce.c`, `dialinfo.c`) | run state, retry counter, line status, timers, one MAC device | START, HANGUP, RUNCANCEL, end of script, PPP reports, line status, three timers | reports, timers and user requests in any order | it never falls idle silently, never leaves the device open, ends every dial |
| Dial manager (`dialer/dialmgr.c`) | four states, queue of the current dial, queue of those who wait | DIALMGR_SelConnect, DIALMGR_HangUp, three reports | clients come and go while reports are queued | waiting clients are served; state agrees with the dialer |
| Dialling clients (`static_app/app_message/mms`, `email`) | what they take the connection to be | dial, hang up, take a report | stale reports | no client is forgotten |
| SMS dispatcher (`smsdptch/smsdptch.c`) | ring of indexes being read, datagrams being put together, one record for each kind of send | arrival, read, delete, send, the answers of the modem driver | full ring, failing reads, fragments doubled and out of order, one send at a time | no message is deleted unread; no datagram has a hole; sends do not share a record |
| SMS outbox (`static_app/app_message/sms/smssend.c`, `smsapi.c`, `mu/mulist.c`) | status of each file, queue of those to be sent, busy flag, what the list shows | compose, send again, suspend, delete, the result of a send, restart | results and user requests in any order; the phone is switched off | a result is booked to the file that was sent; nothing waits outside the queue |
| Modem driver, multiplexer (`medrv`, `multiplexer`) | commands waiting for answers, frames | commands, answers, time limits | late answers | an answer meets its own command |
| Priority manager, program manager, registry, traffic log | who owns sound and light; running applications; settings; counters | - | mostly sequential | - |
| Drawing, controls, input methods, decoders, Bluetooth and third-party code | - | - | computation, not protocol | not modelled |

`PROJECT.json` lists all components with the reason where one is not modelled,
and under `hazards` each place where a test would hardly reach a fault.

## The modules

| Module | Models | Role |
|---|---|---|
| `SendRpc` | - | abstract specification: `SendMessage` between threads is a nested remote call |
| `MsgQueue` | `kernel/msgqueue.c`, `message.c`, `wsthread.c`, parts of `winobj.c`, `wsapi.c` | the message queues, implements `SendRpc` |
| `WsTimer` | `kernel/wstimer.c`, the timer calls of `hgos/osal.c` | the window timers and their task |
| `WinPaint` | `kernel/winpaint.c`, `winmap.c`, `winexpos.c`, `rectmgr.c`, the paint queues of `msgqueue.c` | invalid regions and WM_PAINT |
| `DialCtrl` | `dialer/dialctrl.c`, `dialifce.c`, `dialinfo.c` | the dialer and, external, the MAC layer |
| `DialMgr` | `dialer/dialmgr.c` and its clients | extends `DialCtrl`; the composed system and its properties |
| `SmsDispatch` | `smsdptch/smsdptch.c` | the SMS dispatcher and, external, the modem driver |
| `SmsOutbox` | `sms/smssend.c`, `smsapi.c`, `mu/mulist.c` | extends `SmsDispatch`; the composed system and its properties |
| `MCMsgQueue`, `MCWsTimer`, `MCWinPaint`, `MCDialMgr`, `MCSms` | - | instances for TLC |
| `MsgQueue_proofs` | - | theorems about `MsgQueue`: types and wake-ups |
| `MsgQueueDelivery_proofs` | - | extends it: what queues, flags, frames and reply stacks know of each other; deadlock and the refinement of `SendRpc` |
| `WsTimer_proofs` | - | theorems about `WsTimer` |
| `WinPaint_proofs` | - | theorems about `WinPaint` |
| `DialMgr_proofs` | - | theorems about `DialMgr` under every fault |
| `DialMgrDevice_proofs` | - | extends it: the MAC device, under the faults for which its properties hold |
| `SmsOutbox_proofs` | - | theorems about the sending side of `SmsOutbox` |
| `SmsIncoming_proofs` | - | extends it: what arrives |

Operators named `Bug_...` are slips that the operator after `Bug_` could have
had. No specification uses them; each property is tested by putting one in the
place of the right definition.

### MsgQueue

The state of a thread is its `THREADINFO`: `sendQ`, `postQ`, `replies` (a stack),
the QS_ flags `dwState`, `bBlock` and the semaphore `sem` of its block, and
`frames`, the nested calls of `SendMessage` and of window procedures that its C
stack would hold. `node` is the pool of message nodes and `window` says which
windows live. Each section that the code runs inside the monitor is one action;
what happens between two sections is another, so a thread that decided to block
and left the monitor can be overtaken there. The body of a window procedure is
arbitrary: between two steps of the kernel a thread may make any call of `Calls`,
also from inside a window procedure.

`SendRpc` knows only who waits for whom. Its steps are a call, an answer and the
death of a thread; `ImplementsRpc` says that each step of `MsgQueue` is one of
them or changes nothing there.

### DialCtrl and DialMgr

The dialer, its manager and its clients are windows of one thread: the procedure
of one message is one action, and `posted` is the queue. A timer message is
generated only when the queue is empty, as `WS_GetMessage` asks for timers last.
A call such as `DIALMGR_SelConnect` is part of the caller's action. `Run_Info`,
`DialInfo`, `timers`, `nCurrentState`, `CurrentDialQueue` and `DialWaitQueue`
carry the names of the code; `nConnectState` is what a client believes (for mail,
`GLConStatus`). A request is identified with its client, because a client always
dials the same `Info`.

The MAC layer is not part of the sources. `mac` and the actions `Mac...` are
what its header and the dial scripts promise: one device, one script at a time,
a PPP network that needs the line. Its messages can be posted at any time, so a
report can arrive that was true of an earlier state. `Faults` chooses what can go
wrong.

The MMS client is modelled by dialling (waiting if need be), hanging up once and
taking reports; its states between NETCONNECT and the hang-up are one. The mail
client dials without waiting. Everything else they do is left out.

### WsTimer

A timer is an entry of `TimerList` and a slot of its thread: `dwSlotMask` says
which slots are taken, `dwActiveMask` which are due. Threads set and kill timers
in the monitor and touch `TimerList` under `sem_timer`, so each call is two
actions; `call` is what a thread holds the monitor for in between. The pass of
the timer task is `TakeTime` (takes `sem_timer`, reads the clock), `VisitTimers`
(takes the monitor when a timer is due), `SetTimeout`; then it waits for its
time-out or for `timer_event`. `Tick` passes time, which
the task sees only when it reads the clock (`elapsed`). `age` records, for the
properties only, the time since a timer was set or was last due.

`VisitTimers` is one action although the code visits one entry after the other
and takes the monitor at the first that is due: before that it touches only
`TimerList`, which `sem_timer` protects, and nobody else can touch the due slots
once it has the monitor. Blocking in GetMessage is one step too, which
`MsgQueue` justifies.

### WinPaint

The screen is a line and a rectangle an interval of its points, which keeps what
matters of the rectangle manager: the union of two rectangles may hold points of
neither, and what is left after a subtraction may not be a rectangle. The kernel
walks the window tree by loops and by functions that call each other, and what
it does to a window depends on what it did to the ones before. A call is a record
of the screen variables and of the tasks it still has to do, in the order in which
the code does them: each function does its own part of the work and says what
follows (`Do`), and `Run` goes on until nothing is left. The monitor makes the
whole call one step. Handlers run outside the monitor, so `stack` says for each thread
whether it is in a handler of WM_NCPAINT, before or after `BeginPaint`, or in the
walk of `UpdateWindow`. `dirty`, which only the properties use, is the truth that
flags and regions should track: what was invalidated or painted over and has not
been drawn since. `excused` holds the windows the code cannot keep track of (see
below).

### SmsDispatch and SmsOutbox

The dispatcher, the outbox and the list of messages run in one thread: one
handler is one action, `posted` is the queue of messages between them. The modem
driver is external: `requests` are the commands it has taken, which it answers in
order; `Refusals` and `Failures` choose which it may refuse or fail. `g_stQueue`
(the ring), `gAsynSend` (the two records of sends under way), `pSendHeader` and
`bBusy` carry the names of the code; `datagrams` are the fragments put together
so far. `stat` is the status in a message's file and `shown` the one in the list
on the screen, on which the user's choices depend; they differ, because a file
that is queued keeps its status until it is sent. `Restart` keeps the files and
the SIM and nothing else.

## The runs

| Run | Asks | Bounds |
|---|---|---|
| `msgqueue_all` | every call, from anywhere, with death of windows and threads: is a wake-up lost, do the flags agree with the queues, does a queue keep messages for a dead window, does a thread leave without answering | 2 threads, 1 window each, 3 nodes, 2 nested loops |
| `msgqueue_nested` | crossing and nested sends among three threads: replies, deadlock, refinement of `SendRpc` | 3 threads, sends and notifications |
| `msgqueue_live` | does a send return, is a posted message taken | as `all`, fewer calls |
| `dial_all` | every fault, users who hang up at any time: is a waiting client left alone, does the dialer fall idle silently | 2 clients with different numbers, 3 messages posted, 2 retries |
| `dial_calm` | hang-ups, at most one for each dial, and failing scripts: do manager and dialer agree, is the device held, does the retry timer run only when it may | the same, 4 messages posted |
| `dial_quiet` | nobody hangs up and the carrier holds: is every client told, does every dial end | the same, one number for both clients |
| `wstimer_all` | set and kill from two threads, death of windows and threads: do slots and timers agree, is no timer early or slept past | 2 threads, 1 window, 2 timers, periods 0 and 3, shortest sleep 2 |
| `wstimer_live` | timers of no window, long keys, the end of the thread: is every timer due in the end and every due one delivered | 1 thread, 2 timers, periods 0 and 2 |
| `wstimer_locks` | does the task get through a pass (no: see below) | the smallest that shows it |
| `winpaint_all` | invalidate, validate, update and hide from handlers of two threads: do flag, region, message and count agree, is an update forgotten, does a child wait for ever | desktop, popup and two children that overlap, 3 points, 3 calls, 3 levels |
| `sms` | arrivals and sends while the modem refuses and fails and the phone is switched off: is a message deleted unread, a datagram put together wrongly, a send booked to the wrong file, a file left behind | 5 arrivals, 3 places on the SIM, a ring of 2, 3 files, 4 events |
| `sms_read_fails` | is a message deleted unread after a read that fails (yes: see below) | the same |

The bounds. Two threads suffice for a race between a sleeper and a waker; three
for a chain or a cycle of sends with a bystander. Three nodes let a message be
queued while another is being answered and a third waits as a reply; the
allocation of a fourth fails, a path the code has. `MaxLoops` bounds nested
message loops. In the dialer two clients give one that dials and one that joins,
waits or is refused; the limit of two retries instead of five still separates
first, middle and last. `MaxPosted` bounds only what users and the MAC layer
post, so that the handlers are never blocked. The larger bounds matter: with two
messages posted some properties hold that fail with three, and those are not
claimed.

Two timers of one thread give the round robin, the race between a new timer and
the pass, and a full table (`wstimer_live` has more slots than timers,
`wstimer_all` as many); a period of three with a shortest sleep of two separates
periods that end in one sleep, between two and at a boundary. A zero period is
due at once. `MaxLag` and `MaxSleep` bound how far the clock may run ahead. In `WinPaint`
three levels of windows give a parent that is itself waiting; the two children
overlap, and one has a frame of its own; three calls are enough for an update
before, during and after a paint; no call needs as many tasks as `MaxSteps`, so
that none is cut short. In the SMS system the ring is shorter than the
SIM, so that it overflows; a datagram of two fragments with one of them doubled
comes in every order; messages of two segments separate the first from a later
one; three files give a head, one behind it and one more queued meanwhile.

`CHECK_DEADLOCK FALSE` stands in runs where the system may stop: threads that
have all ended or have nothing more to do, the two locks of the timers, a screen
that is painted, a mailbox with nothing on its way, and the dialer stuck after a
cancel.

Why the dialer's properties are checked under different faults: when a dial is
stopped twice, the second stop sets the timer `STOP` after the network has
closed, or a late report of the MAC layer reaches the next dial, and then
`ConnectedIsReal`, `DeviceHeld` and `RetryWaits` do fail. `dial_calm` therefore
checks `CalmSpec`, in which the users hang up no dial that is being ended
already (`HangUpOnce`), and leaves out the faults that stop a dial by
themselves (`ppp`, `closed`), the loss of the carrier (`line`) and a script that
does not start (`explain`, after which the hang-up leaves the device open,
dialctrl.c:300-307). `DialMgrDevice_proofs` has a condition that suffices (`Calm`):
scripts start, the carrier holds, and either nobody hangs up, while PPP may fail
or be closed and silent calls are ended, or none of that happens and the users
hang up once. `dial_quiet` leaves out the hang-ups, `line` and, again,
`explain`. `WaitersHaveADial` and `ManagerBacked` hold under everything.

### Fairness

`MsgQueue` assumes that a thread inside the kernel goes on (the scheduler runs
it) and that window procedures return; it does not assume that anybody makes a
call. `DialMgr` assumes that the thread runs its loop, including timers that are
set; that a script ends, as each of its steps has a time limit; and that PPP
answers a start and a stop. `WsTimer` assumes that time passes, and strong
fairness for the task, for calls that wait for a lock and for the message loop:
the semaphores of the operating system serve their waiters in turn, so whoever
waits gets the lock although others take it again and again. `WinPaint` assumes
that handlers return and threads come back to their loops. `SmsOutbox` assumes
that the modem driver answers, as it does for every command when its time limit
ends, and that the thread handles its messages. Faults and users are never
obliged to act, and `Restart` may happen at any time.

### What the code does not keep

Two of these are shown by runs. The others are behaviours of the models that the
properties except by name (`fault`, `Stuck`, `excused`, `Wedged`, `cut`,
`spilled`) or by the choice of the faults.

Message queues:

- `SendMessage`, `SendNotifyMessage` and `PostMessage` look the window up before
  they enter the monitor (message.c:413, 460, 308) and may use one that another
  thread has destroyed meanwhile (`EnterWithGoneWindow`).
- The ASSERT at msgqueue.c:542, that a message queued for a dying window has a
  sender that waits, fails for a notification.
- WM_QUIT in a modal loop inside a window procedure frees the THREADINFO under
  the frames that are still to return (message.c:125).

Dialer and manager:

- A cancel between two calls of a busy number kills the retry timer and stops
  nothing; the dialer stays in DS_DIAL for good (dialctrl.c:159).
- A waiting client is dialled for, but the tail of the queue does not move
  (dialmgr.c:408), so it never hears of it. No other step of the manager loses a
  client, and this one no other (`OnlyTheServedIsLost`).
- A dial that is stopped twice can leave the device open: the second stop sets
  the timer again after PPP has closed (dialctrl.c:660), and when that fires in
  DS_HANGUP the script cannot start while another runs, so that the dialer ends
  without closing the device.
- A GPRS dial inherits the time limit of the last data call (dialinfo.c:71).
- After a script that does not start, the hang-up leaves the device open
  (dialctrl.c:300-307); late reports of PPP hang up the next client
  (dialctrl.c:612, 660).

Timers:

- `wstimer_locks`: the task takes `sem_timer` and then the monitor
  (wstimer.c:422, 438), SetTimer and KillTimer the monitor and then `sem_timer`
  (114, 207): both stop, and with the monitor every window.
- A timer set for no window survives its thread; the task finds no THREADINFO
  for it when it is due (wstimer.c:443).

Painting:

- The walk of `UpdateWindow` (winpaint.c:698) sends WM_PAINT to a child although
  its parent has become invalid again meanwhile: `EndPaint` then returns early
  and leaves the child PAINT_DRAWING, and nothing paints it until it becomes
  invalid again.
- `UpdateWindow` on a window of another thread sets the flag of a painting that
  may be in progress (winpaint.c:706); the update made during it is forgotten.
- `ValidateRect` of a parent leaves the children that wait for it in PAINT_WAIT.
- So does the handling of WM_NCPAINT (winpaint.c:873). A window that leaves the
  screen uncovers only the frame of another; a child of that one is invalidated
  before the frame is painted, and waits for it; the parent is then set to
  PAINT_NO without a look at its children, although the comment at
  winpaint.c:473 says that the child gets its WM_PAINT after the parent's next
  painting. The child is painted when it is next made invalid, or when the parent
  is painted again. Children that wait at this point are `excused`.
- A window with WS_CLIPCHILDREN in one without (an edit control with several
  lines sets the style itself, mledit.c:5327) can be lost. Its frame is uncovered
  and painted for, WM_NCPAINT being queued; its client area is invalidated, and
  then the parent in the part where a child of the window covers it entirely.
  InvalidateWindowTree goes to that child and, as nothing is left of the rectangle,
  does not touch the window (winexpos.c:911-939). WND_GetPaintMessage now finds
  the parent invalid in the same place and drops the WM_NCPAINT: the ASSERT(0) at
  winpaint.c:854, with the comment that this message should have been deleted
  before, fails; the flag stays PAINT_QUEUE with nothing in the queue, and
  `wPaintNum` is counted down once more when the window is next hidden or made to
  wait. TLC finds this in eight states with a desktop, a frame, such a control with
  a child in it, and two small windows above that are hidden one after the other.
  The children of such a window are not invalidated either when the
  outer parent paints over them (winpaint.c:366). `winpaint_all` and the theorems
  are about trees without it (`ClipsAbove`).

SMS:

- `sms_read_fails`: a read that fails or is refused leaves its index in the ring
  (smsdptch.c:952, 945); later messages are deleted under the index of the one
  before, and one of them unread.
- A message that arrives when the ring is full is deleted unread
  (smsdptch.c:927).
- The fragment that arrives first is stored in the first slot whatever its number
  (smsdptch.c:1703); the first one is then dropped as a duplicate.
- A later segment that the driver refuses is reported as a success
  (smsdptch.c:1246).
- A message that is queued twice (sent again from a list that is out of date), or
  deleted while it is queued, leaves a head without a file, and the outbox sends
  nothing more (smssend.c:348).
- A business card without a service centre makes the outbox busy for good
  (smssend.c:565).
- When the record of a sent message cannot be saved, the file stays SENDING
  outside the queue until the next start (smssend.c:361-378).

## What is proved

`MsgQueue_proofs` proves for any threads, windows, nodes and bounds:

- `TypeCorrect`: `Spec => []TypeOK`. An action that returns from a frame needs to
  know that there is one below: `BottomInv` says that the oldest frame of a
  thread is its own code. `TypeStep` has one step for each action.
- `WakeupCorrect`: `Spec => []OneWakeup`. The semaphore of a blocked thread holds
  at most one signal and that of a running one none. `BlockInv` adds in
  which frames a thread blocks; it is inductive because `Wake` signals only
  threads whose `bBlock` is set, and clears it in the same section.

`MsgQueueDelivery_proofs` proves of the same module, for the same constants, what
ties the queues of different threads together:

- `NoWakeupLost`: `Spec => []NoLostWakeup`; `FlagsCorrect`:
  `Spec => []FlagsMatchQueues`; `QueuesCorrect`: `Spec => []QueuedForLiveWindow`;
  `HolderUnique`: `Spec => []HeldOnce`; `RepliesCorrect`:
  `Spec => []RepliesMatchWaits`; `ExitCorrect`: `Spec => ExitLeavesNoSender`, an
  action property.

None of the six is inductive. A message goes from a send queue to a window
procedure to the top of a reply stack, and each holder has to know what the
others hold. The inductive invariant `DeliveryInv` has a part for each: `LifeInv`
(windows, calls and nested frames belong to threads that have their THREADINFO),
`FrameInv` (where the frames of an exit and of a destruction lie), `QueueInv`,
`ProcInv` (a message in a window procedure is in no queue and in no other
procedure of the thread), `SentInv` (what was sent and not answered is in some
hand), `StackInv` and `MatchInv` (a reply stack is the list of the waits of its
thread in their order), the flags, and `SleepInv` (a thread whose `bBlock` is set
has nothing to do). Frames and stack entries are spoken of by their index, and
the steps are sorted by what they do to them (`MessageStep`): most only shift
them, so the parts are proved for a handful of operations on messages and not
for every action.

From that invariant it proves about the calls:

- `DeadlockFree`: `Spec => []NoSendDeadlock`. A thread asleep in SendMessage waits
  for a message its receiver has in hand; the receiver sleeps too, so it holds
  the message in a window procedure below a SendMessage of its own. `OrderInv`
  says that the messages in use can be numbered so that what is sent from above a
  window procedure is later than what the procedure handles. To follow the waits
  is to meet ever later messages, and the numbers are bounded: a cycle is
  impossible, however many threads there are.
- `RpcImplemented`: `Spec => ImplementsRpc`, the refinement. Under `DeliveryInv`
  the stack of calls of the mapping, which is computed from the frames, is the
  reply stack (`StackIsReplies`), and the calls that are answered are the nodes
  on it that are marked. A step is then sorted by what it does to these:
  insertion in a reply stack is `Send`, removal `Return`, marking `Answer`, also
  of several calls at once when a window or a thread dies; every other step is a
  stutter.

`DialMgr_proofs` proves for any clients, numbers to dial, faults, limits of
retries and bounds:

- `TypeCorrect`: `Spec => []TypeOK`. `TypeOK` bounds the counter of busy calls,
  and that alone is not inductive: `CountInv` adds that the counter is within
  `RepeatDialTimes` while the dialer dials, and after a call that was busy, which
  are the states from which it grows.
- `WaitersServed`: `Spec => []WaitersHaveADial`.
- `ManagerServed`: `Spec => []ManagerBacked`. The heart of it is the lemma
  `DialerStep`: every path through `dial_Ctl_Proc` either leaves the dialer at
  work, or reports its end to the manager (`NETBROKEN` or `NET_ABNORMAL`), or
  changes nothing that matters and was not the start of a dial (`Answers`). The
  other steps only have to keep the messages `START` and the reports posted until
  they are handled, which the lemmas `AppendKeeps`, `TailKeeps` and `ConcatKeeps`
  say of the queue; only the dialer takes a `START`, and only the manager takes a
  report to it, because clients are neither (`NamesAssumption`).

The inductive invariant is `DialInv`, the conjunction of the three and `CountInv`;
`StepDialInv` has one lemma for each action of the manager and the clients, and
one for each message and timer of the dialer.

- `OnlyTheServedIsLost`: for each client `c`,
  `Spec /\ [][~Serves(c)]_vars` implies that `c`, while it takes itself to be
  dialling, on line or hanging up, is in a queue or will be told otherwise.
  `ClientInformed` does fail, in the one step that dials for a client that waited
  (`Serves`, dialmgr.c:408). The theorem shows that this step loses nobody but the
  client it serves, and that no other step loses anybody, whatever fails, whoever
  hangs up, also when a client leaves a queue it is in twice. The claim is not
  inductive: a NETCONNECT still on its way would set a client on line that is on
  no list any more. `InformedInv` adds that the end of its dial is then behind
  that NETCONNECT in the queue.
- `ClientsInformed`: so `[]ClientInformed` as long as nobody is served.
- `SharersInformed`: `Spec => []ClientInformed`, provided that no client passes
  `bWait`, or that all dial the same and nobody hangs up: the waiting queue then
  stays empty. This is the setting of `dial_quiet`.

`DialMgrDevice_proofs` proves of `CalmSpec`, provided `Calm` (see above), for any
clients, numbers, limits and bounds:

- `DeviceSafe`: `[]DeviceHeld`; `ConnectionReal`: `[]ConnectedIsReal`;
  `RetrySafe`: `[]RetryWaits`.
- `NobodyHangsUp`: `Spec => CalmSpec` if nobody hangs up, so that the three are
  then about every behaviour, failures of PPP included.

`CalmInv` has two halves. `DeviceInv` says for each state of the dialer what the
script, the network and the timers may do. That is inductive only if the messages
on their way are known: `PostedInv` says that each fits the state it will be
handled in (`Fits`), that they come in the order in which the dialer expects them
(`Ordered`: for example nothing for the dialer or the manager is behind the
report that ends a dial), and that what the dialer waits for has been
posted (`Announced`).

`WsTimer_proofs` proves for any threads, windows, tables, periods and bounds:

- `TypeCorrect`: `Spec => []TypeOK`.
- `TablesAgree`: `Spec => []SlotsMatchTimers`, and `PendingIsSeen`:
  `Spec => []DueIsPending`. A call is two steps, so what it saw in the first must
  still hold in the second: `CallInv` says that one thread holds the monitor for
  a call at a time, and that the slot or the window it is about has not changed.
- `SleepIsBounded`: `Spec => []NeverOversleeps`. `NearestInv` says the same of
  the time-out that the pass has computed and not set yet.
- `PeriodsAreKept`: `Spec => NotEarly`. `PeriodInv` relates the time that a timer
  has left to its age: together they are no less than its period and the time
  since the clock was read, and during a pass, when the clock has been read and
  the timers not yet visited, what was read still has to be subtracted.

The inductive invariant is the conjunction of these. Nothing in it assumes that
the task gets its locks, so the deadlock of `wstimer_locks` does not weaken it.

`SmsOutbox_proofs` proves for any messages, files, refusals, failures and bounds:

- `TypeCorrect`: `Spec => []TypeOK`. It needs `RingInv`, that the
  ring holds an index for each read that the driver has taken.
- `SendsAreSerial`: `Spec => []OneOutstanding`. The record of a send, which the
  dispatcher overwrites without looking, is never in use when it does.
- `ResultIsOfTheHead`: `Spec => []HeadIsSent`.
- `SentIsTransmitted`: `Spec => []SentWasTransmitted`.
- `WaitingIsQueued`: `Spec => []NoOrphan`, provided that the file of a sent
  message can be written (`"save" \notin Failures`).

The inductive invariant has three parts: the types with `RingInv`; `OutboxInv`,
how list, files, queue and busy flag agree (the list shows a file's status or
that it waits; what is queued was written; the outbox stops only with an empty
queue or one whose head has no file); and `SendInv`, which follows one send
through the posted messages, the record and the driver's queue (`RecordInv`: a
record in use belongs to the head and its segments so far were acknowledged;
`RequestInv`: the command with the driver is the next segment; `ReportInv`: a
success waiting to be booked is of a message that went out).

`SmsIncoming_proofs` proves for any messages, datagrams, places on the SIM and
bounds:

- `FragmentsInPlace`: `Spec => []Reassembled`. `DatagramInv` describes a datagram
  in every stage; a complete one has no free slot, so a late fragment of it can
  only be a duplicate.
- `AnnouncementsMatch`: `Spec => []AnnouncedOnce`. `AnnounceInv` counts: there are
  as many messages to the window of the port as complete datagrams.
- `DeletedWasRead`: `Spec => []NothingDeletedUnread`, provided that reads are
  neither refused nor fail (`"read" \notin Failures \cup Refusals`). Without that
  it is false, as `sms_read_fails` shows. `UnreadInv` pairs the entries of the
  ring with the reads the driver has taken, in the same order (`InRing`), so that
  the index taken off the ring is the one that was read; and no two commands are
  about the same place of the SIM, and what is to be deleted was handed over or
  found the ring full (`OnSim`).

`WinPaint_proofs` proves for any tree of windows, rectangles, threads, calls and
bounds:

- `FlagsAgree`: `Spec => []QueueMatchesFlags`.
- `UpdatesKept`: `Spec => []NothingLost`.
- `WaitersPainted`: `Spec => []WaitHasPainter`.

The hypothesis of each is `ClipsAbove`, that a clipping window other than the
root is in a clipping window: without it the first two are false (see "What the
code does not keep"). The three are proved together. The inductive invariant
`IInv` has, besides types, these parts:

- `QueueInv`: a window has one message while its flag says so, none otherwise.
- `RegionInv`: the invalid region of a window is a rectangle in it; it is not
  empty when the window waits or is queued, and empty when the window is on the
  screen with PAINT_NO (`Tidy`).
- `OrderedNow`: a window that is queued or being painted shares no invalid point
  with a parent that is going to paint over it. This is why WND_GetPaintMessage
  drops no message and EndPaint does not return early, except after the walk of
  `UpdateWindow` has come to such a window.
- `OverdrawnNow`: whatever is invalid in a parent that paints over its children is
  invalid in the children. Without it the drawing of the parent would make
  `OrderedNow` and `DirtyInv` (what is dirty is invalid) false.
- `MapNow`: the parent of a window on the screen is on the screen.
- `WaitNow`: the parent of a window that waits is not PAINT_NO. Following the
  parents one comes to a window that does not wait, as the root never does.
- `DrawInv`: a window that is PAINT_DRAWING has a handler on the stack of its
  thread, and after its frame, or its client area, has been drawn, only the client
  area, or nothing, of it is dirty. The handler is the innermost of the window:
  paintings of a window nest when a handler calls `UpdateWindow`.

All of this is about what holds between calls. In the middle of a call, parents
are invalid already and their children are not yet. `StepInv` is the invariant
of a call in progress: it has the same parts, but a window may break
`OrderedNow` and `OverdrawnNow` while a task still to be done visits it with a
rectangle that is large enough, `MapNow` while it is to be taken off the screen,
and `WaitNow` while it is to be released. `DoStep` shows that every kind of task
keeps it (`TreeStep`, `BelowStep`, `UncoverStep`, ...), `RunPreserves` that the call
does, by induction on the number of steps. Before they were proved, both
invariants were checked by TLC after every step of every call, on the instance of
`winpaint_all` and on six others with other trees, frames and rectangles.

The assumptions are those named in the modules (the constants are sets and
functions of the right kind, `NULL` is none of their elements, no client is the
dialer or the manager); TLC evaluates them in every run.

Only model-checked:

- Liveness (`SendReturns`, `PostDelivered`, `ClientTold`, `DialEnds`, `DueServed`,
  `TimerFires`, `NobodyWaits`, `QueueDrains`, `IncomingHandled`): fairness and
  ENABLED are out of the prover's reach.
- That a call of `WinPaint` ends within `MaxSteps`: a call that does not is not
  part of the model, and the theorems say nothing of it.
- `DeviceHeld`, `ConnectedIsReal`, `RetryWaits` and `ClientInformed` where the
  hypotheses of their theorems fail: there they are false.

## Plan

Modelled: the message queues, the timers, painting, the dialer with its manager
and clients, the SMS dispatcher with the outbox. What would add most next:

1. Proofs: weaker hypotheses for the device (which second stop of a dial is
   harmless), for reads that fail in the SMS dispatcher, and for clipping windows
   in windows that do not clip (what is still true of the others).
2. `DevQueue`: the rings between the interrupt side and the input task.
3. The modem driver and the multiplexer, which `SmsDispatch` and `DialCtrl` now
   take as external; the multiplexer's frames and the driver's time limits.
4. The priority manager and the handle table of the window objects.

## Not modelled

The repository is mostly user interface code, tables and decoders; the models
cover the services whose correctness depends on the order of events. Drawing, fonts, controls, input methods, file formats, decoders and
third-party code compute without a protocol. Applications are user interface
code over the services. In `MsgQueue`: input, paint and timer messages (the last two
have modules of their own), the limit of the node pools (msgqueue.c:1374), hooks,
return values, the fields of a message. In `WsTimer`: timer procedures, the
system flag of a timer, the table of long keys (`inputmgr.c`), which only asks
for an earlier wake-up. In `WinPaint`: moving, sizing and scrolling, owned popups,
visible regions, the drawing itself. In the SMS system: cell broadcast, status
reports, transactions and the opening of ports, the inbox, drafts, a SIM that is
taken out, and `SMS_Recombine`, which puts long ordinary messages together. In the dialer: numbers, passwords, error
codes, progress reports, `DIAL_HANGUPTIMER` (set only in a branch that is dead
because dialctrl.c:682 breaks the line first), and the counter of silent ticks.
