------------------------------ MODULE WinPaint ------------------------------
(***************************************************************************)
(* Invalid regions and WM_PAINT (kernel/winpaint.c), with the queues of    *)
(* paint messages (the end of kernel/msgqueue.c) and the hiding, showing   *)
(* and exposing of windows (kernel/winmap.c, winexpos.c), in the           *)
(* multi-threaded build.                                                   *)
(*                                                                         *)
(* A window without WS_CLIPCHILDREN paints over its children, so these     *)
(* must be painted after it: a child that is invalid waits (PAINT_WAIT)    *)
(* until its parent ends its own painting.  Whatever one thread does in    *)
(* the monitor is one action.  The window procedures run outside it, and   *)
(* between their BeginPaint and their EndPaint any thread may invalidate,  *)
(* validate, update, show or hide windows; so each thread has a stack of   *)
(* what it is in the middle of:                                            *)
(*   nc w      the handler of WM_NCPAINT that WND_GetPaintMessage calls    *)
(*   paint w   the handler of WM_PAINT, before BeginPaint                  *)
(*   begun w   the same, after BeginPaint                                  *)
(*   update q  WND_UpdateTree with the windows q still to visit            *)
(* A thread with an empty stack is in its message loop or in a handler of  *)
(* some other message.  The root window draws nothing.  The screen is a    *)
(* line: a rectangle is an interval of points.  Messages can always be     *)
(* allocated.                                                              *)
(***************************************************************************)
EXTENDS Integers, FiniteSets, Sequences, SequencesExt

CONSTANTS
  Threads,    \* the threads that own windows or call on them
  Windows,    \* the windows
  Root,       \* g_pRootWin
  Owner,      \* the thread of each window
  Children,   \* the children of each window, the topmost first
  rcWindow,   \* the rectangle of each window
  rcClient,   \* the client area in it
  Clip,       \* the windows with WS_CLIPCHILDREN
  Shown,      \* the windows that ShowWindow is called for
  Validated,  \* the windows that ValidateRect is called for
  Rects,      \* the rectangles an application invalidates or validates
  Calls,      \* what the applications do, a subset of AllCalls
  MaxCalls,   \* bound: how many calls they make
  MaxDepth,   \* bound: how deep handlers and updates nest
  MaxSteps    \* bound: the tasks in a call of the kernel

\* "remote": a thread updates windows of another.
AllCalls == {"invalidate", "screen", "validate", "update", "remote", "hide"}

Parent(w) == CHOOSE p \in Windows : w \in ToSet(Children[p])

\* The windows inside window a: the least set that holds its children and those
\* of its members.
Below == [a \in Windows |->
  {w \in Windows : \A D \in SUBSET Windows :
     (\A p \in D \cup {a} : ToSet(Children[p]) \subseteq D) => w \in D}]

IsRect(R) == \A x, y \in R : x .. y \subseteq R

\* The windows are a tree; the client area of a window is a part of it, and so
\* is a window of its parent: the rest of it is never on the screen.
ASSUME TreeAssumption ==
  /\ IsFiniteSet(Windows) /\ Root \in Windows
  /\ Owner \in [Windows -> Threads] /\ Children \in [Windows -> Seq(Windows)]
  /\ Below[Root] = Windows \ {Root}
  /\ \A p, q \in Windows : \A c \in ToSet(Children[p]) \cap ToSet(Children[q]) : p = q
  /\ rcWindow \in [Windows -> SUBSET Nat] /\ rcClient \in [Windows -> SUBSET Nat]
  /\ \A w \in Windows : /\ IsRect(rcWindow[w]) /\ IsRect(rcClient[w])
                        /\ rcClient[w] \subseteq rcWindow[w]
                        /\ \A c \in ToSet(Children[w]) : rcWindow[c] \subseteq rcWindow[w]
  /\ \A R \in Rects : R \subseteq Nat /\ IsRect(R)
  /\ Shown \subseteq Windows \ {Root} /\ MaxSteps \in Nat

VARIABLES
  flagUpdate,   \* PAINT_NO, WAIT, QUEUE or DRAWING
  rcUpdate,     \* the invalid rectangle of each window
  PaintMsgQue,  \* the paint messages of each thread
  wPaintNum,    \* the count of queued paint messages
  mapped,       \* the windows on the screen (bMapped)
  visible,      \* the windows with WS_VISIBLE
  hasDC,        \* the windows between BeginPaint and EndPaint (pDC # NULL)
  notified,     \* the windows that each thread has been sent WM_PAINT for
  stack,        \* what each thread is in the middle of, the innermost first
  dirty,        \* what is not painted as it should be; for the properties
  excused,      \* the windows whose painting the code cannot keep track of; likewise
  calls         \* the calls made so far

screen == <<flagUpdate, rcUpdate, PaintMsgQue, wPaintNum, mapped, dirty>>
vars == <<screen, visible, hasDC, notified, stack, excused, calls>>

-----------------------------------------------------------------------------
(* Rectangles (kernel/rectmgr.c).                                          *)

\* UnionRect: the smallest rectangle around both.
UnionRect(R, S) == UNION {x .. y : x, y \in R \cup S}

\* SubtractRect: what is left when that is a rectangle, otherwise all of R.
SubtractRect(R, S) == IF IsRect(R \ S) THEN R \ S ELSE R

-----------------------------------------------------------------------------
(* Every function of the kernel maps a record of the screen variables to   *)
(* a new one.                                                              *)

Screen == [flag |-> flagUpdate, upd |-> rcUpdate, que |-> PaintMsgQue,
           num |-> wPaintNum, map |-> mapped, dirty |-> dirty]

Become(S) ==
  /\ flagUpdate' = S.flag /\ rcUpdate' = S.upd /\ PaintMsgQue' = S.que
  /\ wPaintNum' = S.num /\ mapped' = S.map /\ dirty' = S.dirty

Message(w, nc) == [hwnd |-> w, nc |-> nc]

\* MSQ_InsertPaintMsg, with the count and the flag its callers set.
Enqueue(S, w, nc) ==
  [S EXCEPT !.num = @ + 1, !.flag[w] = "QUEUE",
            !.que[Owner[w]] = Append(@, Message(w, nc))]

\* MSQ_DeletePaintMsg, which deletes every message of the window: there is one.
Without(q, w) ==
  IF \E i \in DOMAIN q : q[i].hwnd = w
  THEN RemoveAt(q, CHOOSE i \in DOMAIN q : q[i].hwnd = w) ELSE q

\* The same for a queued window, with the count.
Dequeue(S, w) ==
  IF S.flag[w] = "QUEUE"
  THEN [S EXCEPT !.num = @ - 1, !.que[Owner[w]] = Without(@, w)]
  ELSE S

SetFlag(S, w, f) == [S EXCEPT !.flag[w] = f]

\* Bug: a child always waits for a parent that paints over it.
Bug_Direct(S, w) == LET p == Parent(w) IN p \in Clip /\ S.flag[p] # "WAIT"

\* May the window be painted now, or must its parent be painted before?
Direct(S, w) ==
  LET p == Parent(w) IN
    S.flag[p] = "NO" \/ (p \in Clip /\ S.flag[p] # "WAIT")

\* The part of WND_InvalidateRect that sets the flag.
Mark(S, w, nc) ==
  IF w = Root
  THEN IF S.flag[w] = "NO" THEN Enqueue(S, w, nc) ELSE S
  ELSE IF Direct(S, w)
  THEN IF S.flag[w] # "QUEUE" THEN Enqueue(S, w, nc) ELSE S
  ELSE SetFlag(Dequeue(S, w), w, "WAIT")

(***************************************************************************)
(* The kernel walks the tree of windows by loops and calls, and what it    *)
(* does to a window depends on what it did to the windows before.  A call  *)
(* in the monitor is a record of the screen and the tasks it still has to  *)
(* do, the next one first: a function of the kernel does its own part and  *)
(* says what is called afterwards.  The operations of the tasks are        *)
(*   tree      WND_InvalidateTree                                          *)
(*   below     its loop, at one window, with the region of the first       *)
(*   all       WND_InvalidateTree with bInvalidateAll, at one window       *)
(*   uncover   InvalidateWindowTree                                        *)
(*   expose    WND_Expose without an event window                          *)
(*   left      WND_Expose of the parent of the event window win            *)
(*   above     its loop over the windows above the event window            *)
(*   uncovers, exposes   the loops over the children of a clipping window  *)
(*   destroy, appear     the loops of WND_Unmap and MapWindowTree          *)
(*   release   the loop of WND_EndPaint                                    *)
(***************************************************************************)
Task(op, w, rect, kids) == [op |-> op, win |-> w, rect |-> rect, kids |-> kids]

\* The same task for each of some windows.
Each(op, kids, rect) == [i \in DOMAIN kids |-> Task(op, kids[i], rect, <<>>)]

Then(S, todo) == [scr |-> S, todo |-> todo]

WND_InvalidateRect(S, w, rect) ==
  LET u == rect \cap rcWindow[w]
      M == Mark(S, w, u \cap rcClient[w] = {})
  IN IF u = {} THEN S
     ELSE [M EXCEPT !.upd[w] = UnionRect(@, u), !.dirty[w] = @ \cup u]

\* The union may hold what was valid: the children in it are painted over.
Grown(S, w, rect) ==
  IF rect \cap rcWindow[w] = {} \/ S.upd[w] = {} \/ w \in Clip THEN <<>>
  ELSE Each("tree", Children[w], WND_InvalidateRect(S, w, rect).upd[w])

\* The window is invalidated, and more follows.
Invalidate(S, w, rect, todo) ==
  Then(WND_InvalidateRect(S, w, rect), Grown(S, w, rect) \o todo)

WND_InvalidateTree(S, w, rect) ==
  IF w \notin S.map \/ rect \cap rcWindow[w] = {} THEN Then(S, <<>>)
  ELSE Invalidate(S, w, rect, IF w \in Clip THEN <<>> ELSE
         Each("below", Children[w], WND_InvalidateRect(S, w, rect).upd[w]))

\* The loop does not enter clipping windows, unless everything is invalidated.
InvalidateBelow(S, op, w, rect) ==
  IF w \notin S.map THEN Then(S, <<>>)
  ELSE Invalidate(S, w, rect, IF w \in Clip /\ op = "below" THEN <<>>
                              ELSE Each(op, Children[w], rect))

WND_ValidateRect(S, w, rect) ==
  LET u == SubtractRect(S.upd[w], rect)
      V == [S EXCEPT !.upd[w] = u, !.dirty[w] = @ \cap u]
  IN IF w \notin S.map \/ S.upd[w] = {} THEN S
     ELSE IF u = {} THEN SetFlag(Dequeue(V, w), w, "NO") ELSE V

\* Bug: the message of a window that goes away is deleted, not counted.
Bug_WND_DestroyForPaint(S, w) ==
  [SetFlag(S, w, "NO") EXCEPT !.map = @ \ {w}, !.dirty[w] = {},
     !.que[Owner[w]] = Without(@, w)]

\* A window that leaves the screen; nothing of it needs painting any more.
WND_DestroyForPaint(S, w) ==
  [SetFlag(Dequeue(S, w), w, "NO") EXCEPT !.map = @ \ {w}, !.dirty[w] = {}]

-----------------------------------------------------------------------------
(* Hiding and showing.                                                     *)

\* What a window that went away has uncovered of w and the windows in it.
InvalidateWindowTree(S, w, rect) ==
  LET r == rect \cap rcWindow[w] IN
    IF w \notin S.map \/ r = {} THEN Then(S, <<>>)
    ELSE IF w \in Clip THEN Then(S, <<Task("uncovers", w, r, Children[w])>>)
    ELSE Invalidate(S, w, r,
           Each("uncover", Children[w], WND_InvalidateRect(S, w, r).upd[w]))

\* What a window leaves of a rectangle.
Left(S, rect, c) == IF c \in S.map THEN SubtractRect(rect, rcWindow[c]) ELSE rect

\* A clipping window comes last, with what its children leave.
UncoverNext(S, op, w, rect, kids) ==
  IF kids = <<>> THEN Then(WND_InvalidateRect(S, w, rect), <<>>)
  ELSE Then(S, <<Task(IF op = "uncovers" THEN "uncover" ELSE "expose", Head(kids), rect, <<>>),
                 Task(op, w, Left(S, rect, Head(kids)), Tail(kids))>>)

\* All of w, when ev is w itself, or what window ev has left of its parent w.
WND_Expose(S, w, rect, ev) ==
  LET r == rect \cap rcWindow[w] IN
    IF w \notin S.map \/ r = {} THEN Then(S, <<>>)
    ELSE IF w \notin Clip THEN Invalidate(S, w, r, Each("uncover", Children[w], r))
    ELSE Then(S, <<Task(IF ev = w THEN "exposes" ELSE "above", ev, r, Children[w])>>)

\* The windows above ev keep what they cover.
ExposeAbove(S, ev, rect, kids) ==
  IF kids = <<>> THEN Then(S, <<>>)
  ELSE IF Head(kids) = ev
  THEN Then(S, <<Task("exposes", Parent(ev), rect, Tail(kids))>>)
  ELSE Then(S, <<Task("above", ev, Left(S, rect, Head(kids)), Tail(kids))>>)

\* UnmapWindowTree: a window on the screen and those in it.
Destroy(S, w) ==
  IF w \notin S.map THEN Then(S, <<>>)
  ELSE Then(WND_DestroyForPaint(S, w), Each("destroy", Children[w], {}))

\* MapWindowTree: a window and those in it that have WS_VISIBLE.
Appear(S, w) ==
  Invalidate([S EXCEPT !.map = @ \cup {w}], w, rcWindow[w], Each("appear", Children[w], {}))

\* Bug: the count of messages is taken for the state of the child.
Bug_Release(S, w) ==
  IF w \in S.map /\ S.flag[w] = "WAIT" /\ S.num = 0
  THEN Enqueue(S, w, S.upd[w] \cap rcClient[w] = {}) ELSE S

\* A child that had to wait for the end of its parent's painting is queued.
Release(S, w) ==
  IF w \in S.map /\ S.flag[w] = "WAIT"
  THEN Enqueue(S, w, S.upd[w] \cap rcClient[w] = {}) ELSE S

Do(S, k) ==
  CASE k.op = "tree" -> WND_InvalidateTree(S, k.win, k.rect)
    [] k.op \in {"below", "all"} -> InvalidateBelow(S, k.op, k.win, k.rect)
    [] k.op = "uncover" -> InvalidateWindowTree(S, k.win, k.rect)
    [] k.op \in {"uncovers", "exposes"} -> UncoverNext(S, k.op, k.win, k.rect, k.kids)
    [] k.op = "expose" -> WND_Expose(S, k.win, k.rect, k.win)
    [] k.op = "left" -> WND_Expose(S, Parent(k.win), k.rect, k.win)
    [] k.op = "above" -> ExposeAbove(S, k.win, k.rect, k.kids)
    [] k.op = "destroy" -> Destroy(S, k.win)
    [] k.op = "appear" -> IF k.win \in visible THEN Appear(S, k.win) ELSE Then(S, <<>>)
    [] k.op = "release" -> Then(Release(S, k.win), <<>>)

Step(x) ==
  LET y == Do(x.scr, Head(x.todo)) IN Then(y.scr, y.todo \o Tail(x.todo))

Ops == {"tree", "below", "all", "uncover", "uncovers", "expose", "exposes", "left",
        "above", "destroy", "appear", "release"}

\* The calls in progress.
Screens ==
  [flag : [Windows -> {"NO", "WAIT", "QUEUE", "DRAWING"}], upd : [Windows -> SUBSET Nat],
   que : [Threads -> Seq([hwnd : Windows, nc : BOOLEAN])], num : Int,
   map : SUBSET Windows, dirty : [Windows -> SUBSET Nat]]
Tasks == [op : Ops, win : Windows, rect : SUBSET Nat, kids : Seq(Windows)]
Running == [scr : Screens, todo : Seq(Tasks)]

\* A call is done to its end in the monitor.
Run[n \in 0 .. MaxSteps] ==
  [x \in Running |-> IF n = 0 \/ x.todo = <<>> THEN x ELSE Run[n - 1][Step(x)]]

Call(x) == \E y \in {Run[MaxSteps][x]} : y.todo = <<>> /\ Become(y.scr)

-----------------------------------------------------------------------------

Init ==
  /\ flagUpdate = [w \in Windows |-> "NO"]
  /\ rcUpdate = [w \in Windows |-> {}]
  /\ PaintMsgQue = [t \in Threads |-> <<>>]
  /\ wPaintNum = 0
  /\ mapped = Windows /\ visible = Windows
  /\ hasDC = {Root}
  /\ notified = [t \in Threads |-> <<>>]
  /\ stack = [t \in Threads |-> <<>>]
  /\ dirty = [w \in Windows |-> {}]
  /\ excused = {} /\ calls = 0

Frame(kind, w) == [kind |-> kind, win |-> w]
Top(t) == Head(stack[t])
In(t, kind) == stack[t] # <<>> /\ Top(t).kind = kind
Pop(t) == [stack EXCEPT ![t] = Tail(@)]
Swap(t, f) == [stack EXCEPT ![t] = <<f>> \o Tail(@)]
Push(t, f) == [stack EXCEPT ![t] = <<f>> \o @]

-----------------------------------------------------------------------------
(* The painting of a window.                                               *)

\* The parent is invalid too and has to be painted first.
ParentFirst(S, w) ==
  /\ w # Root
  /\ LET p == Parent(w) IN
       S.flag[p] # "NO" /\ p \notin Clip /\ S.upd[w] \cap S.upd[p] # {}

\* What the drawing of an area does to the windows below: it covers them.
Covered(S, w, area) ==
  LET under == IF w \in Clip THEN {} ELSE Below[w] \cap S.map
  IN [c \in Windows |-> IF c = w THEN S.dirty[c] \ area
                        ELSE IF c \in under THEN S.dirty[c] \cup (area \cap rcWindow[c])
                        ELSE S.dirty[c]]

\* One turn of the loop of WND_GetPaintMessage, which the message loop comes
\* to when nothing sent is left; WM_NCPAINT is handled, and the frame drawn,
\* inside it.
WND_GetPaintMessage(t) ==
  /\ stack[t] = <<>> /\ notified[t] = <<>> /\ PaintMsgQue[t] # <<>>
  /\ LET m == Head(PaintMsgQue[t])
         w == m.hwnd
         S == [Screen EXCEPT !.que[t] = Tail(@), !.num = @ - 1]
         D == SetFlag(S, w, "DRAWING")
     IN IF S.flag[w] # "QUEUE" THEN Become(S) /\ UNCHANGED stack
        ELSE IF ~m.nc THEN Become(D) /\ stack' = Push(t, Frame("paint", w))
        ELSE IF ParentFirst(S, w) THEN Become(S) /\ UNCHANGED stack
        ELSE /\ Become([D EXCEPT !.dirty = Covered(D, w, D.upd[w] \ rcClient[w])])
             /\ stack' = Push(t, Frame("nc", w))
  /\ UNCHANGED <<visible, hasDC, notified, calls, excused>>

\* The handler of WM_NCPAINT returns.  Without new updates the client area is
\* next, if some of it is invalid.
NCPaintReturns(t) ==
  /\ In(t, "nc")
  /\ LET w == Top(t).win
         R == [Screen EXCEPT !.upd[w] = @ \cap rcClient[w]]
     IN IF flagUpdate[w] # "DRAWING" THEN stack' = Pop(t) /\ UNCHANGED <<screen, excused>>
        ELSE IF R.upd[w] = {}
        THEN /\ Become(SetFlag(R, w, "NO")) /\ stack' = Pop(t)
             /\ excused' = excused \cup {c \in ToSet(Children[w]) : flagUpdate[c] = "WAIT"}
        ELSE Become(R) /\ stack' = Swap(t, Frame("paint", w)) /\ UNCHANGED excused
  /\ UNCHANGED <<visible, hasDC, notified, calls>>

\* A notification from WND_Update of another thread.
TakeNotified(t) ==
  /\ stack[t] = <<>> /\ notified[t] # <<>>
  /\ notified' = [notified EXCEPT ![t] = Tail(@)]
  /\ stack' = Push(t, Frame("paint", Head(notified[t])))
  /\ UNCHANGED <<screen, visible, hasDC, calls, excused>>

\* BeginPaint, and the drawing of what was invalid then, the frame included.
BeginPaint(t) ==
  /\ In(t, "paint")
  /\ LET w == Top(t).win IN
       /\ Become([Screen EXCEPT !.dirty = Covered(Screen, w, rcUpdate[w])])
       /\ hasDC' = hasDC \cup {w}
       /\ stack' = Swap(t, Frame("begun", w))
  /\ UNCHANGED <<visible, notified, calls, excused>>

\* Bug: the end of a paint does not look for updates made meanwhile.
Bug_Painted(S, w) ==
  Then([SetFlag(Dequeue(S, w), w, "NO") EXCEPT !.upd[w] = {}],
       Each("release", Children[w], {}))

\* DRAWING says that nothing became invalid while w was painted.
Painted(S, w) ==
  IF ParentFirst(S, w) \/ S.flag[w] # "DRAWING" THEN Then(S, <<>>)
  ELSE Then([SetFlag(S, w, "NO") EXCEPT !.upd[w] = {}], Each("release", Children[w], {}))

EndPaint(t) ==
  /\ In(t, "begun")
  /\ LET w == Top(t).win IN
       /\ Call(IF w \in hasDC THEN Painted(Screen, w) ELSE Then(Screen, <<>>))
       /\ hasDC' = (hasDC \ {w}) \cup {Root}
  /\ stack' = Pop(t)
  /\ UNCHANGED <<visible, notified, calls, excused>>

-----------------------------------------------------------------------------
(* The calls of the applications, from any handler.                        *)

May(t, call) ==
  /\ call \in Calls /\ calls < MaxCalls /\ calls' = calls + 1
  /\ ~In(t, "update")

InvalidateRect(t, w, rect) ==
  /\ May(t, "invalidate")
  /\ rect \cap rcClient[w] # {}
  /\ Call(WND_InvalidateTree(Screen, w, rect \cap rcClient[w]))
  /\ UNCHANGED <<visible, hasDC, notified, stack, excused>>

\* InvalidateRect without a window.
InvalidateScreen(t) ==
  /\ May(t, "screen")
  /\ Call(InvalidateBelow(Screen, "all", Root, rcWindow[Root]))
  /\ UNCHANGED <<visible, hasDC, notified, stack, excused>>

ValidateRect(t, w, rect) ==
  /\ May(t, "validate")
  /\ w \in Validated /\ rect \cap rcClient[w] # {}
  /\ Become(WND_ValidateRect(Screen, w, rect \cap rcClient[w]))
  /\ excused' = excused \cup {w}
  /\ UNCHANGED <<visible, hasDC, notified, stack>>

\* WND_UpdateTree starts with the first ancestor that is not to be painted
\* over by its own parent.
UpdateStart[w \in Windows] ==
  IF w # Root /\ Parent(w) # Root /\ Parent(w) \notin Clip /\ flagUpdate[Parent(w)] # "NO"
  THEN UpdateStart[Parent(w)] ELSE w

\* A window and those inside it, in the order of the walk.
Preorder[w \in Windows] ==
  <<w>> \o FlattenSeq([i \in DOMAIN Children[w] |-> Preorder[Children[w][i]]])

NeedsUpdate(w) ==
  w \in mapped /\ flagUpdate[w] # "NO" /\ rcUpdate[w] \cap rcClient[w] # {}

\* WND_Update of the next window of q that needs it, in its own thread; the
\* walk ends when no paint message is left, which is asked after each window.
Visit(t, q, first, base) ==
  LET todo == {i \in DOMAIN q : NeedsUpdate(q[i]) /\ (wPaintNum # 0 \/ (first /\ i = 1))}
  IN IF todo = {} THEN stack' = base /\ UNCHANGED <<screen, notified, excused>>
     ELSE \E i \in todo :
       LET w == q[i]
           walk == [base EXCEPT ![t] = <<Frame("update", SubSeq(q, i + 1, Len(q)))>> \o @]
       IN /\ \A j \in todo : i <= j
          /\ Become(SetFlag(Dequeue(Screen, w), w, "DRAWING"))
          /\ excused' = IF Owner[w] # t \/ ParentFirst(Screen, w)
                        THEN excused \cup {w} ELSE excused
          /\ IF Owner[w] = t
             THEN /\ stack' = [walk EXCEPT ![t] = <<Frame("paint", w)>> \o @]
                  /\ UNCHANGED notified
             ELSE /\ stack' = walk
                  /\ notified' = [notified EXCEPT ![Owner[w]] = Append(@, w)]

UpdateWindow(t, w) ==
  /\ May(t, "update") /\ Len(stack[t]) < MaxDepth
  /\ LET s == UpdateStart[w]
         q == Preorder[s]
     IN /\ "remote" \in Calls \/ \A x \in ToSet(q) : Owner[x] = t
        /\ s \in mapped /\ Visit(t, q, TRUE, stack)
  /\ UNCHANGED <<visible, hasDC>>

\* The handler has returned and the walk goes on.
WND_UpdateTree(t) ==
  /\ In(t, "update")
  /\ Visit(t, Top(t).win, FALSE, Pop(t))
  /\ UNCHANGED <<visible, hasDC, calls>>

\* ShowWindow with SW_HIDE, and with SW_SHOWNORMAL.
HideWindow(t, w) ==
  /\ May(t, "hide") /\ w \in Shown \cap visible
  /\ Call(Then(Screen, IF w \in mapped THEN <<Task("destroy", w, {}, <<>>),
                       Task("left", w, rcWindow[w], <<>>)>> ELSE <<>>))
  /\ visible' = visible \ {w}
  /\ UNCHANGED <<hasDC, notified, stack, excused>>

ShowWindow(t, w) ==
  /\ May(t, "hide") /\ w \in Shown \ mapped
  /\ Call(IF Parent(w) \in mapped THEN Appear(Screen, w) ELSE Then(Screen, <<>>))
  /\ visible' = visible \cup {w}
  /\ UNCHANGED <<hasDC, notified, stack, excused>>

-----------------------------------------------------------------------------

AppCall(t) ==
  \/ \E w \in Windows, r \in Rects : InvalidateRect(t, w, r) \/ ValidateRect(t, w, r)
  \/ InvalidateScreen(t)
  \/ \E w \in Windows : UpdateWindow(t, w) \/ HideWindow(t, w) \/ ShowWindow(t, w)

Paint(t) ==
  \/ WND_GetPaintMessage(t) \/ NCPaintReturns(t) \/ TakeNotified(t)
  \/ BeginPaint(t) \/ EndPaint(t) \/ WND_UpdateTree(t)

Next == \E t \in Threads : AppCall(t) \/ Paint(t)

Spec == Init /\ [][Next]_vars

\* Handlers return, and a thread comes back to its message loop.
FairSpec == Spec /\ \A t \in Threads : WF_vars(Paint(t))

-----------------------------------------------------------------------------
(* Properties.                                                             *)

Queued(w) == {i \in DOMAIN PaintMsgQue[Owner[w]] : PaintMsgQue[Owner[w]][i].hwnd = w}

\* What a window has to paint, its flag, its message and wPaintNum agree, after
\* any call in the middle of any other: a window has one message while its flag
\* says so and none otherwise (the ASSERT of WND_GetPaintMessage); wPaintNum,
\* which ends the walk of WND_UpdateTree, counts the messages; and a window that
\* is to be painted has something to paint (the ASSERT of WND_Update).
QueueMatchesFlags ==
  /\ \A w \in Windows : Cardinality(Queued(w)) = (IF flagUpdate[w] = "QUEUE" THEN 1 ELSE 0)
  /\ wPaintNum = Cardinality(UNION {{t} \X DOMAIN PaintMsgQue[t] : t \in Threads})
  /\ \A w \in mapped : flagUpdate[w] \in {"WAIT", "QUEUE"} => rcUpdate[w] # {}

\* There are four ways to lose track of a window: an application says that
\* it is valid, a thread updates a window of another, the walk of
\* WND_UpdateTree comes to a window whose parent has become invalid, and a
\* child waits for a parent of which only the frame was to be painted.
Excused(w) == \E a \in excused : w = a \/ w \in Below[a]

\* In no other way: what must be painted is in the invalid region of a window
\* that is to be painted.  No update made before, during or after a paint is
\* forgotten, and what a parent paints over is painted again.
NothingLost ==
  \A w \in mapped \ {Root} :
    dirty[w] # {} /\ ~Excused(w) => flagUpdate[w] # "NO" /\ dirty[w] \subseteq rcUpdate[w]

\* A window that waits waits for one that will be painted.
Busy(w) ==
  \/ flagUpdate[w] = "QUEUE"
  \/ \E t \in Threads :
       \/ w \in ToSet(notified[t])
       \/ \E i \in DOMAIN stack[t] : stack[t][i].win = w
WaitHasPainter ==
  \A w \in Windows : flagUpdate[w] = "WAIT" /\ ~Excused(w) =>
    \E a \in Windows : w \in Below[a] /\ Busy(a)

\* When the calls have ended every window is painted: no child waits for a
\* parent that has nothing more to paint, and no walk leaves a window behind.
NobodyWaits ==
  \A w \in Windows : flagUpdate[w] # "NO" ~> flagUpdate[w] = "NO" \/ Excused(w)
=============================================================================
