-------------------------- MODULE WinPaint_proofs --------------------------
(***************************************************************************)
(* Invalid regions, proved of module WinPaint for any tree of windows, any *)
(* rectangles, threads, calls and bounds: flags, messages, count and       *)
(* regions agree (QueueMatchesFlags), no update is forgotten               *)
(* (NothingLost), and a window that waits is inside one that is to be      *)
(* painted or is being painted (WaitHasPainter).  The hypothesis is        *)
(* ClipsAbove; without it the first two are false.                         *)
(*                                                                         *)
(* The three depend on each other.  The message of a window stays with its *)
(* flag only if WND_GetPaintMessage never drops one because the parent has *)
(* to be painted first, so a queued window must not share an invalid point *)
(* with a parent that paints over it; that is so because whatever becomes  *)
(* invalid in such a parent becomes invalid in the child, which is then    *)
(* made to wait; and it is released in time only if flags and regions      *)
(* agree.  The inductive invariant IInv has a part for each: QueueInv,     *)
(* RegionInv, OrderedNow, OverdrawnNow, WaitNow, with MapNow (what is on   *)
(* the screen), DirtyInv and DrawInv (what is still to be painted of a     *)
(* window that is being painted, by the innermost handler of it).          *)
(*                                                                         *)
(* A call in the monitor is a list of tasks (Run), and in the middle of it *)
(* OrderedNow and OverdrawnNow fail: the parent is invalid already and the *)
(* child is not yet.  StepInv is the invariant of a call in progress: it   *)
(* says the same but for the windows that a task still to be done will     *)
(* invalidate (Visits, Reach), destroy or release.  Each kind of task      *)
(* keeps it, so Run does, and when nothing is left to do it is IInv.       *)
(***************************************************************************)
EXTENDS WinPaint, SequenceTheorems, FiniteSetTheorems, WellFoundedInduction, TLAPS

-----------------------------------------------------------------------------
(* The invariant of a call in progress.  It speaks of a record S of the    *)
(* screen, of the set P of the tasks that the call still has to do, of the *)
(* set X of the excused windows, and of what a call leaves alone: the      *)
(* windows vis that have WS_VISIBLE when it ends, the windows old that     *)
(* were on the screen when it began, the stacks stk and the windows dc     *)
(* being painted.                                                          *)

PaintKinds == {"nc", "paint", "begun"}

\* A window that keeps its painting out of its children is in one that does.
ClipsAbove == \A w \in Clip \ {Root} : Parent(w) \in Clip

ExcusedBy(E) == {w \in Windows : \E a \in E : w = a \/ w \in Below[a]}

\* A window has a message in the queue of its thread while its flag says so,
\* no other message, and wPaintNum counts these windows.
QueueInv(S) ==
  /\ \A t \in Threads : \A i \in DOMAIN S.que[t] :
       LET w == S.que[t][i].hwnd IN
         /\ S.flag[w] = "QUEUE" /\ Owner[w] = t
         /\ \A j \in DOMAIN S.que[t] : S.que[t][j].hwnd = w => j = i
  /\ \A w \in Windows : S.flag[w] = "QUEUE" =>
       \E i \in DOMAIN S.que[Owner[w]] : S.que[Owner[w]][i].hwnd = w
  /\ S.num = Cardinality({w \in Windows : S.flag[w] = "QUEUE"})

AreaInv(S) == \A w \in Windows : IsRect(S.upd[w]) /\ S.upd[w] \subseteq rcWindow[w]

\* The flag of a window agrees with its invalid region.
Tidy(S, w) ==
  /\ S.flag[w] \in {"WAIT", "QUEUE"} => S.upd[w] # {}
  /\ w \in S.map /\ S.flag[w] = "NO" => S.upd[w] = {}
  /\ w \notin S.map => S.flag[w] = "NO" /\ S.dirty[w] = {}

RegionInv(S) == AreaInv(S) /\ \A w \in Windows : Tidy(S, w)

\* Task k will invalidate the part Reach(k) of window c.
Reach(k) == IF k.op = "appear" THEN rcWindow[k.win] ELSE k.rect

Visits(k, c) ==
  k.win = c /\ (k.op \in {"tree", "below", "all", "uncover"} \/ (k.op = "appear" /\ c \in visible))

\* The parent of the window is going to paint over it.
Under(S, c) ==
  c # Root /\ Parent(c) \notin Clip /\ S.flag[Parent(c)] # "NO"

\* A window whose painting has been asked for or has begun does not need to be
\* painted after its parent, or will be made to wait for it.
Ordered(S, P, X) ==
  \A c \in Windows :
    /\ Under(S, c) /\ (S.flag[c] = "QUEUE" \/ (S.flag[c] = "DRAWING" /\ c \notin X))
    /\ S.upd[c] \cap S.upd[Parent(c)] # {}
    => \E k \in P : Visits(k, c) /\ Reach(k) \cap rcWindow[c] # {}

\* What the parent is going to paint over is invalid, or will be.
Overdrawn(S, P, X) ==
  \A c \in S.map : Under(S, c) /\ c \notin X =>
    \/ S.upd[Parent(c)] \cap rcWindow[c] \subseteq S.upd[c]
    \/ \E k \in P : /\ Visits(k, c)
                    /\ S.upd[Parent(c)] \cap rcWindow[c] \subseteq S.upd[c] \cup Reach(k)

Destroys(P, c) == \E k \in P : k.op = "destroy" /\ k.win = c

\* A window on the screen is visible, and so is its parent.
MapInv(S, P, vis) ==
  \A c \in S.map : Destroys(P, c) \/ (c \in vis /\ (c # Root => Parent(c) \in S.map))

\* A window waits for a parent that is not painted yet.
WaitInv(S, P, X) ==
  /\ S.flag[Root] # "WAIT"
  /\ \A c \in Windows \ {Root} : S.flag[c] = "WAIT" =>
       \/ S.flag[Parent(c)] # "NO" \/ c \in X \/ Destroys(P, c)
       \/ \E k \in P : k.op = "release" /\ k.win = c

\* A window is being shown, whose parent is on the screen.
Showing(vis, old) ==
  /\ visible \subseteq vis
  /\ \A c \in vis : c = Root \/ c \in visible \/ Parent(c) \in old
  /\ \A c \in old : c = Root \/ Parent(c) \in old

\* Where a task may act.
TaskOK(S, k, vis, old) ==
  /\ IsRect(k.rect)
  /\ k.op \in {"uncovers", "exposes"} => k.win \in S.map \cap Clip
  /\ k.op \in {"left", "above"} => k.win # Root
  /\ k.op = "above" => Parent(k.win) \in S.map \cap Clip
  /\ k.op = "appear" => /\ k.win # Root /\ k.win \notin old
                        /\ Parent(k.win) \in S.map /\ Showing(vis, old)
  /\ k.op = "release" => k.win # Root /\ S.flag[Parent(k.win)] = "NO"

TaskInv(S, P, vis, old) ==
  /\ \A k \in P : TaskOK(S, k, vis, old)
  /\ \A k \in P : k.op = "destroy" => \A j \in P : j.op \in {"destroy", "left"}
  /\ \A k \in P : k.op = "release" =>
       \A j \in P : j.op = "release" /\ Parent(j.win) = Parent(k.win)

DestroysFirst(q) ==
  \A j \in DOMAIN q : q[j].op = "destroy" => \A i \in 1 .. j : q[i].op = "destroy"

DirtyInv(S, X) == \A w \in Windows \ ({Root} \cup X) : S.dirty[w] \subseteq S.upd[w]

\* The innermost painting of w in a stack q is of this kind.
Focus(q, w, kind) ==
  \E i \in DOMAIN q : /\ q[i] = Frame(kind, w)
                      /\ \A j \in 1 .. i - 1 : \A k \in PaintKinds : q[j] # Frame(k, w)

\* A window that is being painted: once its frame is drawn only the client
\* area is left, and once its client area is drawn nothing.
DrawInv(S, X, stk, dc) ==
  \A w \in Windows \ X : S.flag[w] = "DRAWING" =>
    \E kind \in PaintKinds :
      /\ Focus(stk[Owner[w]], w, kind)
      /\ kind = "nc" /\ w # Root => S.dirty[w] \subseteq rcClient[w]
      /\ kind = "begun" => w \in dc /\ (w # Root => S.dirty[w] = {})

Core(S, P, X, vis, stk, dc) ==
  /\ QueueInv(S) /\ RegionInv(S) /\ Ordered(S, P, X) /\ Overdrawn(S, P, X)
  /\ MapInv(S, P, vis) /\ WaitInv(S, P, X) /\ DirtyInv(S, X) /\ DrawInv(S, X, stk, dc)

StepInv(x, X, vis, old, stk, dc) ==
  /\ x \in Running /\ Core(x.scr, ToSet(x.todo), X, vis, stk, dc)
  /\ TaskInv(x.scr, ToSet(x.todo), vis, old) /\ DestroysFirst(x.todo)

-----------------------------------------------------------------------------
(* The tree of windows.                                                    *)

\* The types of the constants, as TreeAssumption gives them.
LEMMA Types ==
  /\ Root \in Windows /\ IsFiniteSet(Windows)
  /\ Owner \in [Windows -> Threads] /\ Children \in [Windows -> Seq(Windows)]
  /\ rcWindow \in [Windows -> SUBSET Nat] /\ rcClient \in [Windows -> SUBSET Nat]
  /\ \A w \in Windows : /\ IsRect(rcWindow[w]) /\ IsRect(rcClient[w])
                        /\ rcClient[w] \subseteq rcWindow[w]
  /\ MaxSteps \in Nat /\ Root \notin Shown
  BY TreeAssumption

\* The children of a window are windows, in a sequence.
LEMMA KidTypes ==
  ASSUME NEW p \in Windows
  PROVE  /\ ToSet(Children[p]) \subseteq Windows
         /\ Children[p] \in Seq(Windows)
  <1>1. Children[p] \in Seq(Windows) BY Types
  <1>2. Len(Children[p]) \in Nat /\ DOMAIN Children[p] = 1 .. Len(Children[p])
    BY <1>1, LenProperties
  <1> QED BY <1>1, <1>2, ElementOfSeq DEF ToSet

\* What holds of the children of a window and of those of each window in it
\* for which it holds, holds in the whole window.
LEMMA BelowInduction ==
  ASSUME NEW a \in Windows, NEW D,
         \A p \in (D \cap Below[a]) \cup {a} : ToSet(Children[p]) \subseteq D
  PROVE  Below[a] \subseteq D
  <1> DEFINE E == D \cap Below[a]
  <1>1. E \subseteq Windows BY DEF Below
  <1>2. ASSUME NEW p \in E \cup {a} PROVE ToSet(Children[p]) \subseteq E
    <2>1. ToSet(Children[p]) \subseteq D OBVIOUS
    <2>2. p \in Windows BY <1>1
    <2>3. ASSUME NEW c \in ToSet(Children[p]) PROVE c \in Below[a]
      <3>1. c \in Windows BY <2>2, KidTypes
      <3>2. ASSUME NEW G \in SUBSET Windows,
                   \A q \in G \cup {a} : ToSet(Children[q]) \subseteq G
            PROVE  c \in G
        <4>1. p \in G \cup {a}
          <5>1. CASE p = a BY <5>1
          <5>2. CASE p \in Below[a] BY <5>2, <3>2 DEF Below
          <5> QED BY <5>1, <5>2
        <4> QED BY <4>1, <3>2
      <3> QED BY <3>1, <3>2 DEF Below
    <2> QED BY <2>1, <2>3
  <1>3. ASSUME NEW w \in Below[a] PROVE w \in E
    BY <1>1, <1>2 DEF Below
  <1> QED BY <1>3

\* A child of a window of the tree below a is below a.
LEMMA BelowClosed ==
  ASSUME NEW a \in Windows, NEW p \in Windows, p = a \/ p \in Below[a],
         NEW c \in ToSet(Children[p])
  PROVE  c \in Below[a]
  <1>1. c \in Windows BY KidTypes
  <1>2. ASSUME NEW G \in SUBSET Windows,
               \A q \in G \cup {a} : ToSet(Children[q]) \subseteq G
        PROVE  c \in G
    <2>1. p \in G \cup {a}
      <3>1. CASE p = a BY <3>1
      <3>2. CASE p \in Below[a] BY <3>2, <1>2 DEF Below
      <3> QED BY <3>1, <3>2
    <2> QED BY <2>1, <1>2
  <1> QED BY <1>1, <1>2 DEF Below

\* Every window but the root is below the root.
LEMMA BelowRoot == Below[Root] = Windows \ {Root}
  BY TreeAssumption

\* Every window but the root has one parent, another window.
LEMMA ParentFacts ==
  ASSUME NEW w \in Windows, w # Root
  PROVE  /\ Parent(w) \in Windows /\ w \in ToSet(Children[Parent(w)])
         /\ Parent(w) # w
  <1>1. \E p \in Windows : w \in ToSet(Children[p])
    <2> SUFFICES ASSUME \A p \in Windows : w \notin ToSet(Children[p]) PROVE FALSE
      OBVIOUS
    <2> DEFINE D == Windows \ {w}
    <2>1. \A p \in (D \cap Below[Root]) \cup {Root} : ToSet(Children[p]) \subseteq D
      BY KidTypes, Types
    <2> HIDE DEF D
    <2>2. Below[Root] \subseteq D BY <2>1, Types, BelowInduction
    <2> QED BY <2>2, BelowRoot DEF D
  <1>2. Parent(w) \in Windows /\ w \in ToSet(Children[Parent(w)])
    BY <1>1 DEF Parent
  <1>3. ASSUME Parent(w) = w PROVE FALSE
    <2> DEFINE D == Windows \ {w}
    <2>1. ASSUME NEW p \in (D \cap Below[Root]) \cup {Root}
          PROVE  ToSet(Children[p]) \subseteq D
      <3>1. p \in Windows /\ p # w BY Types
      <3>2. w \notin ToSet(Children[p]) BY <1>2, <1>3, <3>1, TreeAssumption
      <3> QED BY <3>1, <3>2, KidTypes
    <2> HIDE DEF D
    <2>2. Below[Root] \subseteq D BY <2>1, Types, BelowInduction
    <2> QED BY <2>2, BelowRoot DEF D
  <1> QED BY <1>2, <1>3

\* A child is another window than its parent, and not the root.
LEMMA ChildFacts ==
  ASSUME NEW p \in Windows, NEW c \in ToSet(Children[p])
  PROVE  c \in Windows /\ c # Root /\ Parent(c) = p /\ c # p
  <1>1. c \in Windows BY KidTypes
  <1>2. c # Root
    <2>1. p = Root \/ p \in Below[Root] BY BelowRoot
    <2>2. c \in Below[Root] BY <2>1, Types, BelowClosed
    <2> QED BY <2>2, BelowRoot
  <1>3. Parent(c) = p
    BY <1>1, <1>2, ParentFacts, TreeAssumption
  <1> QED BY <1>1, <1>2, <1>3, ParentFacts

\* A window lies in its parent.
LEMMA ParentRect ==
  ASSUME NEW w \in Windows, w # Root
  PROVE  rcWindow[w] \subseteq rcWindow[Parent(w)]
  BY ParentFacts, TreeAssumption

-----------------------------------------------------------------------------
(* The queues of paint messages.                                           *)

Messages == [hwnd : Windows, nc : BOOLEAN]

Flags == {"NO", "WAIT", "QUEUE", "DRAWING"}

\* The fields of a screen and their types.
LEMMA ScreenTypes ==
  ASSUME NEW S \in Screens
  PROVE  /\ S = [flag |-> S.flag, upd |-> S.upd, que |-> S.que, num |-> S.num,
                 map |-> S.map, dirty |-> S.dirty]
         /\ S.flag \in [Windows -> Flags] /\ S.upd \in [Windows -> SUBSET Nat]
         /\ S.que \in [Threads -> Seq(Messages)] /\ S.num \in Int
         /\ S.map \subseteq Windows /\ S.dirty \in [Windows -> SUBSET Nat]
  BY DEF Screens, Messages, Flags

Fields == {"flag", "upd", "que", "num", "map", "dirty"}

\* A screen has these fields and no others.
LEMMA ScreenFields ==
  ASSUME NEW S \in Screens
  PROVE  DOMAIN S = Fields
  BY DEF Screens, Fields

\* A record with the fields of a screen, of the right types, is one.
LEMMA ScreenType ==
  ASSUME NEW T, T = [x \in Fields |-> T[x]],
         T.flag \in [Windows -> Flags], T.upd \in [Windows -> SUBSET Nat],
         T.que \in [Threads -> Seq(Messages)], T.num \in Int,
         T.map \in SUBSET Windows, T.dirty \in [Windows -> SUBSET Nat]
  PROVE  T \in Screens
  <1>1. T = [flag |-> T.flag, upd |-> T.upd, que |-> T.que, num |-> T.num,
             map |-> T.map, dirty |-> T.dirty]
    BY DEF Fields
  <1> QED BY <1>1 DEF Screens, Messages, Flags

\* The queue without the message of a window that has one there.
LEMMA WithoutFacts ==
  ASSUME NEW q \in Seq(Messages), NEW w, NEW k \in DOMAIN q, q[k].hwnd = w,
         \A j \in DOMAIN q : q[j].hwnd = w => j = k
  PROVE  /\ Without(q, w) \in Seq(Messages)
         /\ k \in 1 .. Len(q) /\ Len(q) \in Nat
         /\ Len(Without(q, w)) = Len(q) - 1
         /\ \A i \in 1 .. Len(q) - 1 : Without(q, w)[i] = IF i < k THEN q[i] ELSE q[i + 1]
  <1>1. Len(q) \in Nat /\ DOMAIN q = 1 .. Len(q) BY LenProperties
  <1>2. (CHOOSE i \in DOMAIN q : q[i].hwnd = w) = k
    <2> DEFINE x == CHOOSE i \in DOMAIN q : q[i].hwnd = w
    <2>1. x \in DOMAIN q /\ q[x].hwnd = w OBVIOUS
    <2> QED BY <2>1
  <1>3. Without(q, w) = SubSeq(q, 1, k - 1) \o SubSeq(q, k + 1, Len(q))
    BY <1>2 DEF Without, RemoveAt
  <1> DEFINE a == SubSeq(q, 1, k - 1)
             b == SubSeq(q, k + 1, Len(q))
  <1>4. \A i \in 1 .. Len(q) : q[i] \in Messages BY ElementOfSeq
  <1>5. /\ a \in Seq(Messages) /\ Len(a) = k - 1
        /\ \A i \in 1 .. k - 1 : a[i] = q[i]
    <2>1. \A i \in 1 .. k - 1 : q[i] \in Messages BY <1>1, <1>4
    <2>2. /\ a \in Seq(Messages) /\ Len(a) = (IF 1 <= k - 1 THEN (k - 1) - 1 + 1 ELSE 0)
          /\ \A i \in 1 .. (k - 1) - 1 + 1 : a[i] = q[1 + i - 1]
      BY <1>1, <2>1, SubSeqProperties
    <2> QED BY <1>1, <2>2
  <1>6. /\ b \in Seq(Messages) /\ Len(b) = Len(q) - k
        /\ \A i \in 1 .. Len(q) - k : b[i] = q[k + i]
    <2>1. \A i \in (k + 1) .. Len(q) : q[i] \in Messages BY <1>1, <1>4
    <2>2. /\ b \in Seq(Messages)
          /\ Len(b) = (IF k + 1 <= Len(q) THEN Len(q) - (k + 1) + 1 ELSE 0)
          /\ \A i \in 1 .. Len(q) - (k + 1) + 1 : b[i] = q[(k + 1) + i - 1]
      BY <1>1, <2>1, SubSeqProperties
    <2> QED BY <1>1, <2>2
  <1>9. Without(q, w) = a \o b BY <1>3
  <1> HIDE DEF a, b
  <1>7. /\ a \o b \in Seq(Messages) /\ Len(a \o b) = Len(a) + Len(b)
        /\ \A i \in 1 .. Len(a) + Len(b) :
             (a \o b)[i] = IF i <= Len(a) THEN a[i] ELSE b[i - Len(a)]
    BY <1>5, <1>6, ConcatProperties
  <1>8. \A i \in 1 .. Len(q) - 1 : (a \o b)[i] = IF i < k THEN q[i] ELSE q[i + 1]
    <2> SUFFICES ASSUME NEW i \in 1 .. Len(q) - 1
                 PROVE  (a \o b)[i] = IF i < k THEN q[i] ELSE q[i + 1]
      OBVIOUS
    <2>1. Len(a) + Len(b) = Len(q) - 1 BY <1>1, <1>5, <1>6
    <2>2. (a \o b)[i] = IF i <= k - 1 THEN a[i] ELSE b[i - (k - 1)]
      BY <1>5, <1>7, <2>1
    <2>3. CASE i < k BY <1>1, <1>5, <2>2, <2>3
    <2>4. CASE ~(i < k)
      <3>1. i - (k - 1) \in 1 .. Len(q) - k BY <1>1, <2>4
      <3>2. b[i - (k - 1)] = q[k + (i - (k - 1))] BY <1>6, <3>1
      <3>3. k + (i - (k - 1)) = i + 1 BY <1>1
      <3> QED BY <1>1, <2>2, <2>4, <3>2, <3>3
    <2> QED BY <2>3, <2>4
  <1>10. Len(a \o b) = Len(q) - 1 BY <1>1, <1>5, <1>6, <1>7
  <1> QED BY <1>1, <1>7, <1>8, <1>9, <1>10

\* The invariant of the queues is about three fields.
LEMMA QueueSame ==
  ASSUME NEW S \in Screens, NEW T \in Screens, QueueInv(S),
         T.flag = S.flag, T.que = S.que, T.num = S.num
  PROVE  QueueInv(T)
  BY DEF QueueInv

\* The windows that are queued can be counted.
LEMMA QueuedCount ==
  ASSUME NEW S \in Screens
  PROVE  /\ IsFiniteSet({w \in Windows : S.flag[w] = "QUEUE"})
         /\ Cardinality({w \in Windows : S.flag[w] = "QUEUE"}) \in Nat
  <1>1. IsFiniteSet({w \in Windows : S.flag[w] = "QUEUE"})
    BY Types, FS_Subset
  <1> QED BY <1>1, FS_CardinalityType

\* A window that is not queued gets one message, at the end of its queue.
LEMMA EnqueueFacts ==
  ASSUME NEW S \in Screens, NEW w \in Windows, NEW nc \in BOOLEAN,
         QueueInv(S), S.flag[w] # "QUEUE"
  PROVE  /\ Enqueue(S, w, nc) \in Screens /\ QueueInv(Enqueue(S, w, nc))
         /\ Enqueue(S, w, nc).flag = [S.flag EXCEPT ![w] = "QUEUE"]
         /\ Enqueue(S, w, nc).upd = S.upd /\ Enqueue(S, w, nc).map = S.map
         /\ Enqueue(S, w, nc).dirty = S.dirty
  <1> DEFINE T == Enqueue(S, w, nc)
             t == Owner[w]
             m == Message(w, nc)
  <1>1. t \in Threads /\ m \in Messages BY Types DEF Message, Messages
  <1>2. S.que[t] \in Seq(Messages) BY <1>1, ScreenTypes
  <1>3. /\ Append(S.que[t], m) \in Seq(Messages)
        /\ Len(S.que[t]) \in Nat /\ DOMAIN S.que[t] = 1 .. Len(S.que[t])
        /\ DOMAIN Append(S.que[t], m) = 1 .. Len(S.que[t]) + 1
        /\ \A i \in 1 .. Len(S.que[t]) : Append(S.que[t], m)[i] = S.que[t][i]
        /\ Append(S.que[t], m)[Len(S.que[t]) + 1] = m
    BY <1>1, <1>2, AppendProperties, LenProperties
  <1>4. T = [x \in Fields |-> T[x]]
    BY ScreenFields DEF Enqueue
  <1>7. /\ T.flag = [S.flag EXCEPT ![w] = "QUEUE"] /\ T.upd = S.upd /\ T.map = S.map
        /\ T.dirty = S.dirty /\ T.num = S.num + 1
        /\ T.que = [S.que EXCEPT ![t] = Append(S.que[t], m)]
    BY DEF Enqueue, Screens
  <1>5. /\ T.flag \in [Windows -> Flags] /\ T.num \in Int
        /\ T.que \in [Threads -> Seq(Messages)]
    BY <1>1, <1>3, <1>7, ScreenTypes DEF Flags
  <1>6. T \in Screens BY <1>4, <1>5, <1>7, ScreenTypes, ScreenType
  <1> HIDE DEF T, t
  <1>8. ASSUME NEW s \in Threads, NEW i \in DOMAIN T.que[s]
        PROVE  LET x == T.que[s][i].hwnd IN
                 /\ T.flag[x] = "QUEUE" /\ Owner[x] = s
                 /\ \A j \in DOMAIN T.que[s] : T.que[s][j].hwnd = x => j = i
    <2>1. CASE s # t
      <3>1. T.que[s] = S.que[s] BY <1>1, <1>7, <2>1, ScreenTypes
      <3>4. S.que[s] \in Seq(Messages) BY ScreenTypes
      <3>5. i \in 1 .. Len(S.que[s]) BY <3>1, <3>4, LenProperties
      <3>6. S.que[s][i] \in Messages BY <3>4, <3>5, ElementOfSeq
      <3>2. S.que[s][i].hwnd \in Windows BY <3>6 DEF Messages
      <3>3. /\ S.flag[S.que[s][i].hwnd] = "QUEUE" /\ Owner[S.que[s][i].hwnd] = s
            /\ \A j \in DOMAIN S.que[s] : S.que[s][j].hwnd = S.que[s][i].hwnd => j = i
        BY <3>1 DEF QueueInv
      <3>7. T.flag[S.que[s][i].hwnd] = "QUEUE" BY <1>7, <3>2, <3>3, ScreenTypes
      <3> QED BY <3>1, <3>3, <3>7
    <2>2. CASE s = t
      <3>1. T.que[s] = Append(S.que[t], m) BY <1>1, <1>7, <2>2, ScreenTypes
      <3>2. \A j \in 1 .. Len(S.que[t]) :
              /\ S.que[t][j].hwnd \in Windows /\ S.que[t][j].hwnd # w
              /\ S.flag[S.que[t][j].hwnd] = "QUEUE" /\ Owner[S.que[t][j].hwnd] = t
              /\ \A k \in 1 .. Len(S.que[t]) : S.que[t][k].hwnd = S.que[t][j].hwnd => k = j
        <4> SUFFICES ASSUME NEW j \in 1 .. Len(S.que[t])
                     PROVE  /\ S.que[t][j].hwnd \in Windows /\ S.que[t][j].hwnd # w
                            /\ S.flag[S.que[t][j].hwnd] = "QUEUE"
                            /\ Owner[S.que[t][j].hwnd] = t
                            /\ \A k \in 1 .. Len(S.que[t]) :
                                 S.que[t][k].hwnd = S.que[t][j].hwnd => k = j
          OBVIOUS
        <4>1. S.que[t][j] \in Messages BY <1>2, ElementOfSeq
        <4>2. S.flag[S.que[t][j].hwnd] = "QUEUE" BY <1>1, <1>3 DEF QueueInv
        <4>3. Owner[S.que[t][j].hwnd] = t BY <1>1, <1>3 DEF QueueInv
        <4>4. \A k \in 1 .. Len(S.que[t]) : S.que[t][k].hwnd = S.que[t][j].hwnd => k = j
          BY <1>1, <1>3 DEF QueueInv
        <4> QED BY <4>1, <4>2, <4>3, <4>4 DEF Messages
      <3>3. m.hwnd = w BY DEF Message
      <3>4. i \in 1 .. Len(S.que[t]) + 1 BY <1>3, <3>1
      <3>5. CASE i = Len(S.que[t]) + 1
        <4>1. T.que[s][i].hwnd = w BY <1>3, <3>1, <3>3, <3>5
        <4>2. T.flag[w] = "QUEUE" BY <1>7, ScreenTypes
        <4>3. \A j \in DOMAIN T.que[s] : T.que[s][j].hwnd = w => j = i
          BY <1>3, <3>1, <3>2, <3>5
        <4> QED BY <2>2, <4>1, <4>2, <4>3 DEF t
      <3>6. CASE i \in 1 .. Len(S.que[t])
        <4>1. T.que[s][i].hwnd = S.que[t][i].hwnd BY <1>3, <3>1, <3>6
        <4>2. T.flag[S.que[t][i].hwnd] = "QUEUE" BY <1>7, <3>2, <3>6, ScreenTypes
        <4>3. \A j \in DOMAIN T.que[s] : T.que[s][j].hwnd = S.que[t][i].hwnd => j = i
          BY <1>3, <3>1, <3>2, <3>3, <3>6
        <4> QED BY <2>2, <3>2, <3>6, <4>1, <4>2, <4>3
      <3> QED BY <1>3, <3>4, <3>5, <3>6
    <2> QED BY <2>1, <2>2
  <1>9. ASSUME NEW x \in Windows, T.flag[x] = "QUEUE"
        PROVE  \E i \in DOMAIN T.que[Owner[x]] : T.que[Owner[x]][i].hwnd = x
    <2>1. CASE x = w
      <3>1. T.que[t] = Append(S.que[t], m) BY <1>1, <1>7, ScreenTypes
      <3> QED BY <1>3, <2>1, <3>1 DEF t, Message
    <2>2. CASE x # w
      <3>1. PICK i \in DOMAIN S.que[Owner[x]] : S.que[Owner[x]][i].hwnd = x
        BY <1>7, <1>9, <2>2, ScreenTypes DEF QueueInv
      <3>2. CASE Owner[x] # t
        <4>1. T.que[Owner[x]] = S.que[Owner[x]] BY <1>1, <1>7, <3>2, ScreenTypes, Types
        <4> QED BY <3>1, <4>1
      <3>3. CASE Owner[x] = t
        <4>1. T.que[Owner[x]] = Append(S.que[t], m) BY <1>1, <1>7, <3>3, ScreenTypes
        <4>2. i \in DOMAIN T.que[Owner[x]] /\ T.que[Owner[x]][i].hwnd = x
          BY <1>3, <3>1, <3>3, <4>1
        <4> QED BY <4>2
      <3> QED BY <3>2, <3>3
    <2> QED BY <2>1, <2>2
  <1>10. T.num = Cardinality({x \in Windows : T.flag[x] = "QUEUE"})
    <2> DEFINE Q == {x \in Windows : S.flag[x] = "QUEUE"}
    <2>1. {x \in Windows : T.flag[x] = "QUEUE"} = Q \cup {w} BY <1>7, ScreenTypes
    <2>2. w \notin Q OBVIOUS
    <2>3. IsFiniteSet(Q) BY QueuedCount
    <2>4. S.num = Cardinality(Q) BY DEF QueueInv
    <2> HIDE DEF Q
    <2>5. Cardinality(Q \cup {w}) = Cardinality(Q) + 1 BY <2>2, <2>3, FS_AddElement
    <2> QED BY <1>7, <2>1, <2>4, <2>5
  <1>11. QueueInv(T) BY <1>8, <1>9, <1>10 DEF QueueInv
  <1> QED BY <1>6, <1>7, <1>11 DEF T

\* The message of a window leaves its queue, and the window is not queued any
\* more.
LEMMA MessageLeaves ==
  ASSUME NEW S \in Screens, NEW T \in Screens, QueueInv(S), NEW w \in Windows,
         NEW f \in Flags, f # "QUEUE", S.flag[w] = "QUEUE",
         NEW k \in DOMAIN S.que[Owner[w]], S.que[Owner[w]][k].hwnd = w,
         NEW q \in Seq(Messages), Len(q) = Len(S.que[Owner[w]]) - 1,
         \A i \in 1 .. Len(q) : q[i] = S.que[Owner[w]][IF i < k THEN i ELSE i + 1],
         \A x \in Windows : T.flag[x] = IF x = w THEN f ELSE S.flag[x],
         \A t \in Threads : T.que[t] = IF t = Owner[w] THEN q ELSE S.que[t],
         T.num = S.num - 1
  PROVE  QueueInv(T)
  <1> DEFINE t == Owner[w]
             n == Len(S.que[t])
  <1>1. t \in Threads /\ S.que[t] \in Seq(Messages) BY Types, ScreenTypes
  <1>2. n \in Nat /\ DOMAIN S.que[t] = 1 .. n /\ Len(q) = n - 1 /\ DOMAIN q = 1 .. n - 1
    BY <1>1, LenProperties
  <1>3. T.que[t] = q BY <1>1, ScreenTypes
  <1> HIDE DEF t
  <1>4. k \in 1 .. n /\ S.que[t][k].hwnd = w BY <1>2 DEF t
  <1>5. \A i \in 1 .. n - 1 : /\ q[i] = S.que[t][IF i < k THEN i ELSE i + 1]
                              /\ (IF i < k THEN i ELSE i + 1) \in 1 .. n
                              /\ (IF i < k THEN i ELSE i + 1) # k
    BY <1>2, <1>4 DEF t
  <1>6. \A j \in 1 .. n :
          /\ S.que[t][j].hwnd \in Windows
          /\ S.flag[S.que[t][j].hwnd] = "QUEUE" /\ Owner[S.que[t][j].hwnd] = t
          /\ \A i \in 1 .. n : S.que[t][i].hwnd = S.que[t][j].hwnd => i = j
    <2> SUFFICES ASSUME NEW j \in 1 .. n
                 PROVE  /\ S.que[t][j].hwnd \in Windows
                        /\ S.flag[S.que[t][j].hwnd] = "QUEUE" /\ Owner[S.que[t][j].hwnd] = t
                        /\ \A i \in 1 .. n : S.que[t][i].hwnd = S.que[t][j].hwnd => i = j
      OBVIOUS
    <2>1. S.que[t][j] \in Messages BY <1>1, ElementOfSeq
    <2> QED BY <1>1, <1>2, <2>1 DEF QueueInv, Messages
  <1> HIDE DEF n
  <1>7. ASSUME NEW s \in Threads, NEW i \in DOMAIN T.que[s]
        PROVE  LET x == T.que[s][i].hwnd IN
                 /\ T.flag[x] = "QUEUE" /\ Owner[x] = s
                 /\ \A j \in DOMAIN T.que[s] : T.que[s][j].hwnd = x => j = i
    <2>1. CASE s # t
      <3>1. T.que[s] = S.que[s] BY <2>1, ScreenTypes DEF t
      <3>2. S.que[s] \in Seq(Messages) BY ScreenTypes
      <3>3. i \in 1 .. Len(S.que[s]) BY <3>1, <3>2, LenProperties
      <3>4. S.que[s][i] \in Messages BY <3>2, <3>3, ElementOfSeq
      <3>5. S.que[s][i].hwnd \in Windows BY <3>4 DEF Messages
      <3>6. /\ S.flag[S.que[s][i].hwnd] = "QUEUE" /\ Owner[S.que[s][i].hwnd] = s
            /\ \A j \in DOMAIN S.que[s] : S.que[s][j].hwnd = S.que[s][i].hwnd => j = i
        BY <3>1 DEF QueueInv
      <3>7. S.que[s][i].hwnd # w BY <2>1, <3>6 DEF t
      <3>8. T.flag[S.que[s][i].hwnd] = "QUEUE" BY <3>5, <3>6, <3>7, ScreenTypes
      <3> QED BY <3>1, <3>6, <3>8
    <2>2. CASE s = t
      <3> DEFINE a == IF i < k THEN i ELSE i + 1
                 x == S.que[t][a].hwnd
      <3>1. i \in 1 .. n - 1 /\ T.que[s] = q BY <1>2, <1>3, <2>2 DEF n
      <3>2. a \in 1 .. n /\ a # k /\ q[i].hwnd = x BY <1>5, <3>1
      <3> HIDE DEF a
      <3>3. x \in Windows /\ x # w BY <1>4, <1>6, <3>2
      <3>4. T.flag[x] = "QUEUE" BY <1>6, <3>2, <3>3, ScreenTypes
      <3>5. ASSUME NEW j \in 1 .. n - 1, q[j].hwnd = x PROVE j = i
        <4> DEFINE b == IF j < k THEN j ELSE j + 1
        <4>1. b \in 1 .. n /\ q[j].hwnd = S.que[t][b].hwnd BY <1>5
        <4> HIDE DEF b
        <4>2. b = a BY <1>6, <3>2, <3>5, <4>1
        <4> QED BY <1>2, <1>4, <3>1, <4>2 DEF a, b, n
      <3> QED BY <1>2, <1>6, <2>2, <3>1, <3>2, <3>4, <3>5 DEF n
    <2> QED BY <2>1, <2>2
  <1>8. ASSUME NEW x \in Windows, T.flag[x] = "QUEUE"
        PROVE  \E i \in DOMAIN T.que[Owner[x]] : T.que[Owner[x]][i].hwnd = x
    <2>1. x # w /\ S.flag[x] = "QUEUE" BY <1>8, ScreenTypes
    <2>2. PICK j \in DOMAIN S.que[Owner[x]] : S.que[Owner[x]][j].hwnd = x
      BY <2>1 DEF QueueInv
    <2>3. CASE Owner[x] # t
      <3>1. T.que[Owner[x]] = S.que[Owner[x]] BY <2>3, ScreenTypes, Types DEF t
      <3> QED BY <2>2, <3>1
    <2>4. CASE Owner[x] = t
      <3> DEFINE i == IF j < k THEN j ELSE j - 1
      <3>1. j \in 1 .. n /\ j # k /\ n \in Nat
        BY <1>2, <1>4, <2>1, <2>2, <2>4 DEF n
      <3>2. i \in 1 .. n - 1 /\ (IF i < k THEN i ELSE i + 1) = j
        BY <1>4, <3>1
      <3> HIDE DEF i
      <3>3. q[i].hwnd = x BY <1>5, <2>2, <2>4, <3>2
      <3>4. i \in DOMAIN q BY <1>2, <3>2 DEF n
      <3> QED BY <1>3, <2>4, <3>3, <3>4
    <2> QED BY <2>3, <2>4
  <1>9. T.num = Cardinality({x \in Windows : T.flag[x] = "QUEUE"})
    <2> DEFINE Q == {x \in Windows : S.flag[x] = "QUEUE"}
    <2>1. {x \in Windows : T.flag[x] = "QUEUE"} = Q \ {w} BY ScreenTypes
    <2>2. w \in Q OBVIOUS
    <2>3. IsFiniteSet(Q) BY QueuedCount
    <2>4. S.num = Cardinality(Q) BY DEF QueueInv
    <2> HIDE DEF Q
    <2>5. Cardinality(Q \ {w}) = Cardinality(Q) - 1 BY <2>2, <2>3, FS_RemoveElement
    <2> QED BY <2>1, <2>4, <2>5
  <1> QED BY <1>7, <1>8, <1>9 DEF QueueInv

\* The flag of a window that is not queued is set to another value.
LEMMA FlagQueue ==
  ASSUME NEW S \in Screens, NEW T \in Screens, QueueInv(S), NEW w \in Windows,
         NEW f \in Flags, f # "QUEUE", S.flag[w] # "QUEUE",
         T.flag = [S.flag EXCEPT ![w] = f], T.num = S.num, T.que = S.que
  PROVE  QueueInv(T)
  <1>1. \A x \in Windows : T.flag[x] = "QUEUE" <=> S.flag[x] = "QUEUE" BY ScreenTypes
  <1>2. {x \in Windows : T.flag[x] = "QUEUE"} = {x \in Windows : S.flag[x] = "QUEUE"}
    BY <1>1
  <1>3. ASSUME NEW t \in Threads, NEW i \in DOMAIN S.que[t]
        PROVE  T.flag[S.que[t][i].hwnd] = "QUEUE"
    <2>1. S.que[t] \in Seq(Messages) BY ScreenTypes
    <2>2. i \in 1 .. Len(S.que[t]) BY <2>1, LenProperties
    <2>3. S.que[t][i] \in Messages BY <2>1, <2>2, ElementOfSeq
    <2>4. S.flag[S.que[t][i].hwnd] = "QUEUE" BY DEF QueueInv
    <2> QED BY <1>1, <2>3, <2>4 DEF Messages
  <1>4. /\ \A t \in Threads : \A i \in DOMAIN S.que[t] :
             /\ Owner[S.que[t][i].hwnd] = t
             /\ \A j \in DOMAIN S.que[t] : S.que[t][j].hwnd = S.que[t][i].hwnd => j = i
        /\ \A x \in Windows : S.flag[x] = "QUEUE" =>
             \E i \in DOMAIN S.que[Owner[x]] : S.que[Owner[x]][i].hwnd = x
        /\ S.num = Cardinality({x \in Windows : S.flag[x] = "QUEUE"})
    BY DEF QueueInv
  <1>5. T.num = Cardinality({x \in Windows : T.flag[x] = "QUEUE"})
    BY <1>2, <1>4
  <1>6. \A x \in Windows : T.flag[x] = "QUEUE" =>
             \E i \in DOMAIN T.que[Owner[x]] : T.que[Owner[x]][i].hwnd = x
    BY <1>1, <1>4
  <1>7. \A t \in Threads : \A i \in DOMAIN T.que[t] :
          /\ T.flag[T.que[t][i].hwnd] = "QUEUE" /\ Owner[T.que[t][i].hwnd] = t
          /\ \A j \in DOMAIN T.que[t] : T.que[t][j].hwnd = T.que[t][i].hwnd => j = i
    BY <1>3, <1>4
  <1> QED BY <1>5, <1>6, <1>7 DEF QueueInv

\* A window that gets another flag loses the message it may have.
LEMMA DequeueFacts ==
  ASSUME NEW S \in Screens, NEW w \in Windows, NEW f \in Flags, f # "QUEUE",
         QueueInv(S)
  PROVE  LET T == SetFlag(Dequeue(S, w), w, f) IN
         /\ T \in Screens /\ QueueInv(T)
         /\ T.flag = [S.flag EXCEPT ![w] = f]
         /\ T.upd = S.upd /\ T.map = S.map /\ T.dirty = S.dirty
  <1> DEFINE D == Dequeue(S, w)
             T == SetFlag(D, w, f)
             q == Without(S.que[Owner[w]], w)
  <1>1. Owner[w] \in Threads /\ S.que[Owner[w]] \in Seq(Messages) BY Types, ScreenTypes
  <1>2. CASE S.flag[w] = "QUEUE"
    <2>1. PICK k \in DOMAIN S.que[Owner[w]] : S.que[Owner[w]][k].hwnd = w
      BY <1>2 DEF QueueInv
    <2>2. \A j \in DOMAIN S.que[Owner[w]] : S.que[Owner[w]][j].hwnd = w => j = k
      BY <1>1, <2>1 DEF QueueInv
    <2>3. /\ q \in Seq(Messages) /\ k \in 1 .. Len(S.que[Owner[w]])
          /\ Len(S.que[Owner[w]]) \in Nat /\ Len(q) = Len(S.que[Owner[w]]) - 1
          /\ \A i \in 1 .. Len(S.que[Owner[w]]) - 1 :
               q[i] = IF i < k THEN S.que[Owner[w]][i] ELSE S.que[Owner[w]][i + 1]
      <3> DEFINE r == S.que[Owner[w]]
      <3>1. r \in Seq(Messages) /\ k \in DOMAIN r /\ r[k].hwnd = w BY <1>1, <2>1
      <3>2. \A j \in DOMAIN r : r[j].hwnd = w => j = k BY <2>2
      <3> HIDE DEF r
      <3>3. /\ Without(r, w) \in Seq(Messages) /\ k \in 1 .. Len(r) /\ Len(r) \in Nat
            /\ Len(Without(r, w)) = Len(r) - 1
            /\ \A i \in 1 .. Len(r) - 1 : Without(r, w)[i] = IF i < k THEN r[i] ELSE r[i + 1]
        BY <3>1, <3>2, WithoutFacts
      <3> QED BY <3>3 DEF r
    <2>4. /\ D.flag = S.flag /\ D.upd = S.upd /\ D.map = S.map /\ D.dirty = S.dirty
          /\ D.num = S.num - 1 /\ D.que = [S.que EXCEPT ![Owner[w]] = q]
      BY <1>2 DEF Dequeue, Screens
    <2>5. D = [x \in Fields |-> D[x]] BY <1>2, ScreenFields DEF Dequeue
    <2> HIDE DEF q
    <2>6. D.num \in Int /\ D.que \in [Threads -> Seq(Messages)]
      BY <1>1, <2>3, <2>4, ScreenTypes
    <2>7. D \in Screens BY <2>4, <2>5, <2>6, ScreenTypes, ScreenType
    <2> HIDE DEF D
    <2>8. /\ T.flag = [D.flag EXCEPT ![w] = f] /\ T.upd = D.upd /\ T.map = D.map
          /\ T.dirty = D.dirty /\ T.num = D.num /\ T.que = D.que
      BY <2>7 DEF SetFlag, Screens
    <2>9. T = [x \in Fields |-> T[x]] BY <2>7, ScreenFields DEF SetFlag
    <2> HIDE DEF T
    <2>10. T.flag \in [Windows -> Flags] BY <2>7, <2>8, ScreenTypes
    <2>11. T \in Screens BY <2>7, <2>8, <2>9, <2>10, ScreenTypes, ScreenType
    <2>12. \A i \in 1 .. Len(q) : q[i] = S.que[Owner[w]][IF i < k THEN i ELSE i + 1]
      BY <2>3
    <2>13. /\ \A x \in Windows : T.flag[x] = IF x = w THEN f ELSE S.flag[x]
           /\ \A t \in Threads : T.que[t] = IF t = Owner[w] THEN q ELSE S.que[t]
           /\ T.num = S.num - 1
      BY <2>4, <2>8, ScreenTypes
    <2>14. Len(q) = Len(S.que[Owner[w]]) - 1 BY <2>3
    <2>15. q \in Seq(Messages) BY <2>3
    <2>16. QueueInv(T)
      BY <1>2, <2>1, <2>11, <2>12, <2>13, <2>14, <2>15, MessageLeaves
    <2> QED BY <2>4, <2>8, <2>11, <2>16 DEF T, D
  <1>3. CASE S.flag[w] # "QUEUE"
    <2>1. D = S BY <1>3 DEF Dequeue
    <2>2. /\ T.flag = [S.flag EXCEPT ![w] = f] /\ T.upd = S.upd /\ T.map = S.map
          /\ T.dirty = S.dirty /\ T.num = S.num /\ T.que = S.que
      BY <2>1 DEF SetFlag, Screens
    <2>3. T = [x \in Fields |-> T[x]] BY <2>1, ScreenFields DEF SetFlag
    <2> HIDE DEF T, D
    <2>4. T.flag \in [Windows -> Flags] BY <2>2, ScreenTypes
    <2>5. T \in Screens BY <2>2, <2>3, <2>4, ScreenTypes, ScreenType
    <2>6. QueueInv(T) BY <1>3, <2>2, <2>5, FlagQueue
    <2> QED BY <2>2, <2>5, <2>6 DEF T, D
  <1> QED BY <1>2, <1>3

-----------------------------------------------------------------------------
(* Rectangles, and what WND_InvalidateRect does.                           *)

\* The union of two rectangles holds what is between two of their points.
LEMMA UnionMember ==
  ASSUME NEW R, NEW U, NEW z
  PROVE  z \in UnionRect(R, U) <=> \E x, y \in R \cup U : z \in x .. y
  <1> DEFINE A == {x .. y : x, y \in R \cup U}
  <1>1. \A B : B \in A <=> \E x, y \in R \cup U : B = x .. y OBVIOUS
  <1>2. UnionRect(R, U) = UNION A BY DEF UnionRect
  <1> HIDE DEF A
  <1>3. z \in UNION A <=> \E B \in A : z \in B OBVIOUS
  <1>4. (\E B \in A : z \in B) <=> \E x, y \in R \cup U : z \in x .. y BY <1>1
  <1> QED BY <1>2, <1>3, <1>4

\* It is a rectangle, and holds both.
LEMMA UnionFacts ==
  ASSUME NEW R \in SUBSET Nat, NEW U \in SUBSET Nat
  PROVE  /\ R \cup U \subseteq UnionRect(R, U) /\ UnionRect(R, U) \subseteq Nat
         /\ IsRect(UnionRect(R, U))
         /\ R = {} /\ IsRect(U) => UnionRect(R, U) = U
  <1>1. \A z : z \in UnionRect(R, U) <=> \E x, y \in R \cup U : z \in x .. y
    BY UnionMember
  <1>2. \A x \in R \cup U : x \in x .. x OBVIOUS
  <1>3. R \cup U \subseteq UnionRect(R, U) BY <1>1, <1>2
  <1>4. UnionRect(R, U) \subseteq Nat BY <1>1
  <1>5. ASSUME NEW x \in UnionRect(R, U), NEW y \in UnionRect(R, U), NEW z \in x .. y
        PROVE  z \in UnionRect(R, U)
    <2>1. PICK a, b \in R \cup U : x \in a .. b BY <1>1
    <2>2. PICK c, d \in R \cup U : y \in c .. d BY <1>1
    <2>3. z \in a .. d BY <1>4, <1>5, <2>1, <2>2
    <2> QED BY <1>1, <2>1, <2>2, <2>3
  <1>6. IsRect(UnionRect(R, U)) BY <1>5 DEF IsRect
  <1>7. ASSUME R = {}, IsRect(U) PROVE UnionRect(R, U) \subseteq U
    BY <1>1, <1>7 DEF IsRect
  <1> QED BY <1>3, <1>4, <1>6, <1>7

\* It lies in every rectangle that holds both.
LEMMA UnionInside ==
  ASSUME NEW R \in SUBSET Nat, NEW U \in SUBSET Nat, NEW Z \in SUBSET Nat, IsRect(Z),
         R \subseteq Z, U \subseteq Z
  PROVE  UnionRect(R, U) \subseteq Z
  <1>1. \A z : z \in UnionRect(R, U) <=> \E x, y \in R \cup U : z \in x .. y
    BY UnionMember
  <1>2. ASSUME NEW x \in R \cup U, NEW y \in R \cup U PROVE x .. y \subseteq Z
    BY DEF IsRect
  <1> QED BY <1>1, <1>2

\* The intersection of two rectangles is one.
LEMMA MeetFacts ==
  ASSUME NEW R \in SUBSET Nat, NEW U \in SUBSET Nat, IsRect(R), IsRect(U)
  PROVE  R \cap U \in SUBSET Nat /\ IsRect(R \cap U)
  <1>1. ASSUME NEW x \in R \cap U, NEW y \in R \cap U PROVE x .. y \subseteq R \cap U
    <2>1. x .. y \subseteq R BY DEF IsRect
    <2>2. x .. y \subseteq U BY DEF IsRect
    <2> QED BY <2>1, <2>2
  <1> QED BY <1>1 DEF IsRect

\* What is left of a rectangle is one, and holds what was not subtracted.
LEMMA SubtractFacts ==
  ASSUME NEW R \in SUBSET Nat, NEW U, IsRect(R)
  PROVE  /\ SubtractRect(R, U) \in SUBSET Nat /\ IsRect(SubtractRect(R, U))
         /\ SubtractRect(R, U) \subseteq R /\ R \ U \subseteq SubtractRect(R, U)
  BY DEF SubtractRect

\* The flag that WND_InvalidateRect leaves.
NewFlag(S, w) ==
  IF w = Root THEN IF S.flag[w] = "NO" THEN "QUEUE" ELSE S.flag[w]
  ELSE IF Direct(S, w) THEN "QUEUE" ELSE "WAIT"

\* Setting the flag keeps the queues, and changes no other window.
LEMMA MarkFacts ==
  ASSUME NEW S \in Screens, NEW w \in Windows, NEW nc \in BOOLEAN, QueueInv(S)
  PROVE  LET M == Mark(S, w, nc) IN
         /\ M \in Screens /\ QueueInv(M)
         /\ M.upd = S.upd /\ M.map = S.map /\ M.dirty = S.dirty
         /\ \A x \in Windows : M.flag[x] = IF x = w THEN NewFlag(S, w) ELSE S.flag[x]
  <1> DEFINE M == Mark(S, w, nc)
  <1>1. CASE \/ w = Root /\ S.flag[w] = "NO"
             \/ w # Root /\ Direct(S, w) /\ S.flag[w] # "QUEUE"
    <2>1. M = Enqueue(S, w, nc) /\ S.flag[w] # "QUEUE" BY <1>1 DEF Mark
    <2>2. NewFlag(S, w) = "QUEUE" BY <1>1 DEF NewFlag
    <2>3. /\ M \in Screens /\ QueueInv(M) /\ M.flag = [S.flag EXCEPT ![w] = "QUEUE"]
          /\ M.upd = S.upd /\ M.map = S.map /\ M.dirty = S.dirty
      BY <2>1, EnqueueFacts
    <2> QED BY <2>2, <2>3, ScreenTypes
  <1>2. CASE w # Root /\ ~Direct(S, w)
    <2>1. M = SetFlag(Dequeue(S, w), w, "WAIT") BY <1>2 DEF Mark
    <2>2. NewFlag(S, w) = "WAIT" /\ "WAIT" \in Flags BY <1>2 DEF NewFlag, Flags
    <2>3. /\ M \in Screens /\ QueueInv(M) /\ M.flag = [S.flag EXCEPT ![w] = "WAIT"]
          /\ M.upd = S.upd /\ M.map = S.map /\ M.dirty = S.dirty
      BY <2>1, <2>2, DequeueFacts
    <2> QED BY <2>2, <2>3, ScreenTypes
  <1>3. CASE \/ w = Root /\ S.flag[w] # "NO"
             \/ w # Root /\ Direct(S, w) /\ S.flag[w] = "QUEUE"
    <2>1. M = S BY <1>3 DEF Mark
    <2>2. NewFlag(S, w) = S.flag[w] BY <1>3 DEF NewFlag
    <2> QED BY <2>1, <2>2
  <1> QED BY <1>1, <1>2, <1>3

\* What WND_InvalidateRect does to the window, and to no other.
LEMMA RectFacts ==
  ASSUME NEW S \in Screens, NEW w \in Windows, NEW rect \in SUBSET Nat,
         QueueInv(S), AreaInv(S), IsRect(rect), rect \cap rcWindow[w] # {}
  PROVE  LET T == WND_InvalidateRect(S, w, rect)
             u == rect \cap rcWindow[w]
         IN /\ T \in Screens /\ QueueInv(T) /\ T.map = S.map
            /\ \A x \in Windows : T.flag[x] = IF x = w THEN NewFlag(S, w) ELSE S.flag[x]
            /\ \A x \in Windows : T.upd[x] = IF x = w THEN UnionRect(S.upd[w], u) ELSE S.upd[x]
            /\ \A x \in Windows : T.dirty[x] = IF x = w THEN S.dirty[w] \cup u ELSE S.dirty[x]
            /\ IsRect(T.upd[w]) /\ T.upd[w] \subseteq rcWindow[w]
            /\ S.upd[w] \cup u \subseteq T.upd[w]
            /\ S.upd[w] = {} => T.upd[w] = u
  <1> DEFINE u == rect \cap rcWindow[w]
             nc == u \cap rcClient[w] = {}
             M == Mark(S, w, nc)
             T == [M EXCEPT !.upd[w] = UnionRect(@, u), !.dirty[w] = @ \cup u]
  <1>1. WND_InvalidateRect(S, w, rect) = T BY DEF WND_InvalidateRect
  <1>2. u \in SUBSET Nat /\ IsRect(u) /\ u \subseteq rcWindow[w] /\ rcWindow[w] \in SUBSET Nat
    BY Types, MeetFacts
  <1>3. S.upd[w] \in SUBSET Nat /\ S.upd[w] \subseteq rcWindow[w] /\ S.dirty[w] \in SUBSET Nat
    BY ScreenTypes DEF AreaInv
  <1>4. nc \in BOOLEAN OBVIOUS
  <1> HIDE DEF u, nc
  <1>5. /\ M \in Screens /\ QueueInv(M)
        /\ M.upd = S.upd /\ M.map = S.map /\ M.dirty = S.dirty
        /\ \A x \in Windows : M.flag[x] = IF x = w THEN NewFlag(S, w) ELSE S.flag[x]
    BY <1>4, MarkFacts
  <1> HIDE DEF M
  <1>6. /\ T.flag = M.flag /\ T.que = M.que /\ T.num = M.num /\ T.map = M.map
        /\ T.upd = [M.upd EXCEPT ![w] = UnionRect(M.upd[w], u)]
        /\ T.dirty = [M.dirty EXCEPT ![w] = M.dirty[w] \cup u]
    BY <1>5 DEF Screens
  <1>7. T = [x \in Fields |-> T[x]] BY <1>5, ScreenFields
  <1> HIDE DEF T
  <1>8. /\ S.upd[w] \cup u \subseteq UnionRect(S.upd[w], u)
        /\ UnionRect(S.upd[w], u) \in SUBSET Nat /\ IsRect(UnionRect(S.upd[w], u))
        /\ S.upd[w] = {} => UnionRect(S.upd[w], u) = u
    BY <1>2, <1>3, UnionFacts
  <1>9. UnionRect(S.upd[w], u) \subseteq rcWindow[w]
    BY <1>2, <1>3, Types, UnionInside
  <1>10. T.upd \in [Windows -> SUBSET Nat] /\ T.dirty \in [Windows -> SUBSET Nat]
    BY <1>2, <1>3, <1>5, <1>6, <1>8, ScreenTypes
  <1>11. T \in Screens BY <1>5, <1>6, <1>7, <1>10, ScreenTypes, ScreenType
  <1>12. QueueInv(T) BY <1>5, <1>6, <1>11, QueueSame
  <1>13. /\ \A x \in Windows : T.upd[x] = IF x = w THEN UnionRect(S.upd[w], u) ELSE S.upd[x]
         /\ \A x \in Windows : T.dirty[x] = IF x = w THEN S.dirty[w] \cup u ELSE S.dirty[x]
    BY <1>5, <1>6, ScreenTypes
  <1> QED BY <1>1, <1>5, <1>6, <1>8, <1>9, <1>11, <1>12, <1>13 DEF u

\* The invalid region after WND_InvalidateRect is a rectangle.
LEMMA NewRegion ==
  ASSUME NEW S \in Screens, NEW w \in Windows, NEW rect \in SUBSET Nat,
         QueueInv(S), AreaInv(S), IsRect(rect), rect \cap rcWindow[w] # {}
  PROVE  LET T == WND_InvalidateRect(S, w, rect) IN
         /\ T.upd[w] \in SUBSET Nat /\ IsRect(T.upd[w])
         /\ rect \cap rcWindow[w] \subseteq T.upd[w]
  <1> DEFINE T == WND_InvalidateRect(S, w, rect)
  <1>1. LET u == rect \cap rcWindow[w] IN
        /\ T \in Screens /\ QueueInv(T) /\ T.map = S.map
        /\ \A x \in Windows : T.flag[x] = IF x = w THEN NewFlag(S, w) ELSE S.flag[x]
        /\ \A x \in Windows : T.upd[x] = IF x = w THEN UnionRect(S.upd[w], u) ELSE S.upd[x]
        /\ \A x \in Windows : T.dirty[x] = IF x = w THEN S.dirty[w] \cup u ELSE S.dirty[x]
        /\ IsRect(T.upd[w]) /\ T.upd[w] \subseteq rcWindow[w]
        /\ S.upd[w] \cup u \subseteq T.upd[w]
        /\ S.upd[w] = {} => T.upd[w] = u
    BY RectFacts
  <1> HIDE DEF T
  <1>2. T.upd[w] \in SUBSET Nat /\ IsRect(T.upd[w]) /\ rect \cap rcWindow[w] \subseteq T.upd[w]
    BY <1>1, Types
  <1> QED BY <1>2 DEF T

\* It keeps flags and regions in agreement.
LEMMA RectRegions ==
  ASSUME NEW S \in Screens, NEW w \in Windows, NEW rect \in SUBSET Nat,
         QueueInv(S), AreaInv(S), IsRect(rect), rect \cap rcWindow[w] # {}, w \in S.map,
         \A x \in Windows : x # w => Tidy(S, x)
  PROVE  RegionInv(WND_InvalidateRect(S, w, rect))
  <1> DEFINE T == WND_InvalidateRect(S, w, rect)
  <1>1. /\ T.map = S.map
        /\ \A x \in Windows : T.flag[x] = IF x = w THEN NewFlag(S, w) ELSE S.flag[x]
        /\ \A x \in Windows : x # w => T.upd[x] = S.upd[x] /\ T.dirty[x] = S.dirty[x]
        /\ IsRect(T.upd[w]) /\ T.upd[w] \subseteq rcWindow[w] /\ T.upd[w] # {}
    <2>1. LET u == rect \cap rcWindow[w] IN
          /\ T \in Screens /\ QueueInv(T) /\ T.map = S.map
          /\ \A x \in Windows : T.flag[x] = IF x = w THEN NewFlag(S, w) ELSE S.flag[x]
          /\ \A x \in Windows : T.upd[x] = IF x = w THEN UnionRect(S.upd[w], u) ELSE S.upd[x]
          /\ \A x \in Windows : T.dirty[x] = IF x = w THEN S.dirty[w] \cup u ELSE S.dirty[x]
          /\ IsRect(T.upd[w]) /\ T.upd[w] \subseteq rcWindow[w]
          /\ S.upd[w] \cup u \subseteq T.upd[w]
          /\ S.upd[w] = {} => T.upd[w] = u
      BY RectFacts
    <2> HIDE DEF T
    <2> QED BY <2>1
  <1>2. NewFlag(S, w) # "NO" BY DEF NewFlag
  <1> HIDE DEF T
  <1>3. AreaInv(T) BY <1>1 DEF AreaInv
  <1>4. ASSUME NEW x \in Windows PROVE Tidy(T, x)
    BY <1>1, <1>2 DEF Tidy
  <1> QED BY <1>3, <1>4 DEF RegionInv, T

-----------------------------------------------------------------------------
(* A step of a call that invalidates part of one window.  Q are the tasks  *)
(* before it and P those after it.                                         *)

\* What was to be done to other windows is still to be done, and so is what
\* was to be done to w outside of rect.
Kept(Q, P, w, rect) ==
  \A k \in Q : \/ k \in P
               \/ /\ k.op \notin {"destroy", "release"}
                  /\ \A c \in Windows : Visits(k, c) =>
                       c = w /\ Reach(k) \cap rcWindow[w] \subseteq rect

\* Whatever becomes invalid of w will be invalidated in its children too.
Spread(S, T, P, w) ==
  w \in Clip \/ \A c \in ToSet(Children[w]) \cap S.map :
    \E k \in P : Visits(k, c) /\ T.upd[w] \cap rcWindow[c] \subseteq Reach(k)

\* A window is queued directly only if its parent will not paint over it.
LEMMA DirectUnder ==
  ASSUME NEW S, NEW w \in Windows, w # Root
  PROVE  /\ Direct(S, w) => ~Under(S, w)
         /\ ~Direct(S, w) => S.flag[Parent(w)] # "NO"
  BY DEF Direct, Under

\* The effect of WND_InvalidateRect(S, w, rect) when rect meets w.
Invalidated(S, T, w, rect) ==
  /\ T.map = S.map
  /\ \A x \in Windows : T.flag[x] = IF x = w THEN NewFlag(S, w) ELSE S.flag[x]
  /\ \A x \in Windows : x # w => T.upd[x] = S.upd[x] /\ T.dirty[x] = S.dirty[x]
  /\ T.dirty[w] = S.dirty[w] \cup (rect \cap rcWindow[w])
  /\ S.upd[w] \cup (rect \cap rcWindow[w]) \subseteq T.upd[w]

\* The same as a relation between the screens before and after.
LEMMA RectInvalidated ==
  ASSUME NEW S \in Screens, NEW w \in Windows, NEW rect \in SUBSET Nat,
         QueueInv(S), AreaInv(S), IsRect(rect), rect \cap rcWindow[w] # {}
  PROVE  Invalidated(S, WND_InvalidateRect(S, w, rect), w, rect)
  <1> DEFINE T == WND_InvalidateRect(S, w, rect)
  <1>1. LET u == rect \cap rcWindow[w] IN
        /\ T \in Screens /\ QueueInv(T) /\ T.map = S.map
        /\ \A x \in Windows : T.flag[x] = IF x = w THEN NewFlag(S, w) ELSE S.flag[x]
        /\ \A x \in Windows : T.upd[x] = IF x = w THEN UnionRect(S.upd[w], u) ELSE S.upd[x]
        /\ \A x \in Windows : T.dirty[x] = IF x = w THEN S.dirty[w] \cup u ELSE S.dirty[x]
        /\ IsRect(T.upd[w]) /\ T.upd[w] \subseteq rcWindow[w]
        /\ S.upd[w] \cup u \subseteq T.upd[w]
        /\ S.upd[w] = {} => T.upd[w] = u
    BY RectFacts
  <1> HIDE DEF T
  <1>2. Invalidated(S, T, w, rect) BY <1>1 DEF Invalidated
  <1> QED BY <1>2 DEF T

\* What is queued and shares invalid points with its parent will be visited.
LEMMA RectOrdered ==
  ASSUME NEW S, NEW T, NEW w \in Windows, NEW rect, NEW P, NEW Q, NEW X,
         Invalidated(S, T, w, rect), AreaInv(T), AreaInv(S),
         \A c \in Windows : S.flag[c] # "NO" => c \in S.map,
         Ordered(S, Q, X), Kept(Q, P, w, rect), Spread(S, T, P, w)
  PROVE  Ordered(T, P, X)
  <1> SUFFICES ASSUME NEW c \in Windows,
                      Under(T, c), T.flag[c] = "QUEUE" \/ (T.flag[c] = "DRAWING" /\ c \notin X),
                      T.upd[c] \cap T.upd[Parent(c)] # {}
               PROVE  \E k \in P : Visits(k, c) /\ Reach(k) \cap rcWindow[c] # {}
    BY DEF Ordered
  <1>1. c # Root /\ Parent(c) \in Windows /\ c \in ToSet(Children[Parent(c)]) /\ Parent(c) # c
    BY ParentFacts DEF Under
  <1>2. CASE c = w
    <2>1. NewFlag(S, w) # "WAIT" BY <1>2 DEF Invalidated
    <2>2. Direct(S, w) BY <1>1, <1>2, <2>1 DEF NewFlag
    <2>3. ~Under(S, w) BY <1>1, <1>2, <2>2, DirectUnder
    <2>4. T.flag[Parent(c)] = S.flag[Parent(c)] BY <1>1, <1>2 DEF Invalidated
    <2> QED BY <1>2, <2>3, <2>4 DEF Under
  <1>3. CASE c # w /\ Parent(c) = w
    <2>1. w \notin Clip BY <1>3 DEF Under
    <2>2. c \in S.map BY <1>3 DEF Invalidated
    <2>3. PICK k \in P : Visits(k, c) /\ T.upd[w] \cap rcWindow[c] \subseteq Reach(k)
      BY <1>1, <1>3, <2>1, <2>2 DEF Spread
    <2>4. T.upd[c] \subseteq rcWindow[c] BY DEF AreaInv
    <2>5. Reach(k) \cap rcWindow[c] # {} BY <1>3, <2>3, <2>4
    <2> QED BY <2>3, <2>5
  <1>4. CASE c # w /\ Parent(c) # w
    <2>1. /\ T.flag[c] = S.flag[c] /\ T.upd[c] = S.upd[c]
          /\ T.flag[Parent(c)] = S.flag[Parent(c)] /\ T.upd[Parent(c)] = S.upd[Parent(c)]
      BY <1>1, <1>4 DEF Invalidated
    <2>2. Under(S, c) BY <2>1 DEF Under
    <2>3. PICK k \in Q : Visits(k, c) /\ Reach(k) \cap rcWindow[c] # {}
      BY <2>1, <2>2 DEF Ordered
    <2>4. k \in P BY <1>4, <2>3 DEF Kept
    <2> QED BY <2>3, <2>4
  <1> QED BY <1>2, <1>3, <1>4

\* What the parent will paint over is invalid or will be visited.
LEMMA RectOverdrawn ==
  ASSUME NEW S, NEW T, NEW w \in Windows, NEW rect, NEW P, NEW Q, NEW X,
         Invalidated(S, T, w, rect), S.map \subseteq Windows,
         Overdrawn(S, Q, X), Kept(Q, P, w, rect), Spread(S, T, P, w)
  PROVE  Overdrawn(T, P, X)
  <1> SUFFICES ASSUME NEW c \in T.map, Under(T, c), c \notin X
               PROVE  \/ T.upd[Parent(c)] \cap rcWindow[c] \subseteq T.upd[c]
                      \/ \E k \in P :
                           /\ Visits(k, c)
                           /\ T.upd[Parent(c)] \cap rcWindow[c] \subseteq T.upd[c] \cup Reach(k)
    BY DEF Overdrawn
  <1>1. c \in S.map /\ c \in Windows BY DEF Invalidated
  <1>2. c # Root /\ Parent(c) \in Windows /\ c \in ToSet(Children[Parent(c)]) /\ Parent(c) # c
    BY <1>1, ParentFacts DEF Under
  <1>3. CASE Parent(c) = w
    <2>1. w \notin Clip BY <1>3 DEF Under
    <2> QED BY <1>1, <1>2, <1>3, <2>1 DEF Spread
  <1>4. CASE Parent(c) # w
    <2>1. T.flag[Parent(c)] = S.flag[Parent(c)] /\ T.upd[Parent(c)] = S.upd[Parent(c)]
      BY <1>2, <1>4 DEF Invalidated
    <2>2. Under(S, c) BY <2>1 DEF Under
    <2>3. S.upd[c] \subseteq T.upd[c]
      BY <1>1 DEF Invalidated
    <2>4. CASE S.upd[Parent(c)] \cap rcWindow[c] \subseteq S.upd[c]
      BY <2>1, <2>3, <2>4
    <2>5. CASE \E k \in Q :
                 /\ Visits(k, c)
                 /\ S.upd[Parent(c)] \cap rcWindow[c] \subseteq S.upd[c] \cup Reach(k)
      <3>1. PICK k \in Q :
              /\ Visits(k, c)
              /\ S.upd[Parent(c)] \cap rcWindow[c] \subseteq S.upd[c] \cup Reach(k)
        BY <2>5
      <3>2. CASE k \in P BY <2>1, <2>3, <3>1, <3>2
      <3>3. CASE k \notin P
        <4>1. c = w /\ Reach(k) \cap rcWindow[w] \subseteq rect BY <1>1, <3>1, <3>3 DEF Kept
        <4>2. S.upd[w] \cup (rect \cap rcWindow[w]) \subseteq T.upd[w] BY DEF Invalidated
        <4> QED BY <2>1, <3>1, <4>1, <4>2
      <3> QED BY <3>2, <3>3
    <2> QED BY <1>1, <2>2, <2>4, <2>5 DEF Overdrawn
  <1> QED BY <1>3, <1>4

\* A window that comes to wait has a parent that is not painted yet.
LEMMA RectWait ==
  ASSUME NEW S, NEW T, NEW w \in Windows, NEW rect, NEW P, NEW Q, NEW X,
         Invalidated(S, T, w, rect), WaitInv(S, Q, X), Kept(Q, P, w, rect)
  PROVE  WaitInv(T, P, X)
  <1>1. T.flag[Root] # "WAIT"
    <2>1. CASE w = Root BY <2>1 DEF Invalidated, NewFlag, WaitInv
    <2>2. CASE w # Root BY <2>2, Types DEF Invalidated, WaitInv
    <2> QED BY <2>1, <2>2
  <1>2. ASSUME NEW c \in Windows \ {Root}, T.flag[c] = "WAIT"
        PROVE  \/ T.flag[Parent(c)] # "NO" \/ c \in X \/ Destroys(P, c)
               \/ \E k \in P : k.op = "release" /\ k.win = c
    <2>1. Parent(c) \in Windows /\ Parent(c) # c BY ParentFacts
    <2>2. NewFlag(S, w) # "NO" BY DEF NewFlag
    <2>3. CASE c = w
      <3>1. ~Direct(S, w) BY <1>2, <2>3 DEF Invalidated, NewFlag
      <3>2. S.flag[Parent(c)] # "NO" BY <2>3, <3>1, DirectUnder
      <3> QED BY <2>1, <2>3, <3>2 DEF Invalidated
    <2>4. CASE c # w
      <3>1. S.flag[c] = "WAIT" BY <1>2, <2>4 DEF Invalidated
      <3>2. S.flag[Parent(c)] # "NO" => T.flag[Parent(c)] # "NO"
        BY <2>1, <2>2 DEF Invalidated
      <3>3. \A k \in Q : k.op \in {"destroy", "release"} => k \in P BY DEF Kept
      <3>4. Destroys(Q, c) => Destroys(P, c) BY <3>3 DEF Destroys
      <3> QED BY <3>1, <3>2, <3>3, <3>4 DEF WaitInv
    <2> QED BY <2>3, <2>4
  <1> QED BY <1>1, <1>2 DEF WaitInv

\* What is dirty stays in the invalid region.
LEMMA RectDirty ==
  ASSUME NEW S, NEW T, NEW w \in Windows, NEW rect, NEW X,
         Invalidated(S, T, w, rect), DirtyInv(S, X)
  PROVE  DirtyInv(T, X)
  <1> SUFFICES ASSUME NEW x \in Windows \ ({Root} \cup X)
               PROVE  T.dirty[x] \subseteq T.upd[x]
    BY DEF DirtyInv
  <1>1. S.dirty[x] \subseteq S.upd[x] BY DEF DirtyInv
  <1>2. CASE x = w BY <1>1, <1>2 DEF Invalidated
  <1>3. CASE x # w BY <1>1, <1>3 DEF Invalidated
  <1> QED BY <1>2, <1>3

\* The other windows are painted as before; this one is not DRAWING any more.
LEMMA RectDraw ==
  ASSUME NEW S, NEW T, NEW w \in Windows, NEW rect, NEW X, NEW stk, NEW dc,
         Invalidated(S, T, w, rect), DrawInv(S, X, stk, dc)
  PROVE  DrawInv(T, X, stk, dc)
  <1> SUFFICES ASSUME NEW x \in Windows \ X, T.flag[x] = "DRAWING"
               PROVE  \E kind \in PaintKinds :
                        /\ Focus(stk[Owner[x]], x, kind)
                        /\ kind = "nc" /\ x # Root => T.dirty[x] \subseteq rcClient[x]
                        /\ kind = "begun" => x \in dc /\ (x # Root => T.dirty[x] = {})
    BY DEF DrawInv
  <1>1. CASE x # w
    <2>1. S.flag[x] = "DRAWING" /\ T.dirty[x] = S.dirty[x] BY <1>1 DEF Invalidated
    <2> QED BY <2>1 DEF DrawInv
  <1>2. CASE x = w
    <2>1. x = Root /\ S.flag[x] = "DRAWING" BY <1>2 DEF Invalidated, NewFlag
    <2> QED BY <2>1 DEF DrawInv
  <1> QED BY <1>1, <1>2

\* Nothing appears or disappears.
LEMMA RectMap ==
  ASSUME NEW S, NEW T, NEW w, NEW rect, NEW P, NEW Q, NEW vis,
         T.map = S.map, MapInv(S, Q, vis), Kept(Q, P, w, rect)
  PROVE  MapInv(T, P, vis)
  <1>1. \A k \in Q : k.op \in {"destroy", "release"} => k \in P BY DEF Kept
  <1>2. \A c : Destroys(Q, c) => Destroys(P, c) BY <1>1 DEF Destroys
  <1> QED BY <1>2 DEF MapInv

-----------------------------------------------------------------------------
(* Lists of tasks.                                                         *)

\* The members of a sequence by their index.
LEMMA SetMember ==
  ASSUME NEW A, NEW q \in Seq(A), NEW z
  PROVE  z \in ToSet(q) <=> \E i \in 1 .. Len(q) : z = q[i]
  BY LenProperties DEF ToSet

\* They are in the set that it is a sequence over.
LEMMA SetInside ==
  ASSUME NEW A, NEW q \in Seq(A)
  PROVE  ToSet(q) \subseteq A
  BY LenProperties, ElementOfSeq DEF ToSet

\* The members of a concatenation.
LEMMA ConcatSet ==
  ASSUME NEW A, NEW p \in Seq(A), NEW q \in Seq(A)
  PROVE  p \o q \in Seq(A) /\ ToSet(p \o q) = ToSet(p) \cup ToSet(q)
  <1>1. /\ p \o q \in Seq(A) /\ Len(p \o q) = Len(p) + Len(q)
        /\ \A i \in 1 .. Len(p) + Len(q) :
             (p \o q)[i] = IF i <= Len(p) THEN p[i] ELSE q[i - Len(p)]
    BY ConcatProperties
  <1>2. Len(p) \in Nat /\ Len(q) \in Nat BY LenProperties
  <1>3. ASSUME NEW z \in ToSet(p \o q) PROVE z \in ToSet(p) \cup ToSet(q)
    <2> DEFINE r == p \o q
    <2>4. r \in Seq(A) /\ z \in ToSet(r) BY <1>1, <1>3
    <2> HIDE DEF r
    <2>5. PICK i \in 1 .. Len(r) : z = r[i] BY <2>4, SetMember
    <2>1. i \in 1 .. Len(p) + Len(q) /\ z = (p \o q)[i] BY <1>1, <2>5 DEF r
    <2>2. CASE i <= Len(p) BY <1>1, <1>2, <2>1, <2>2, SetMember
    <2>3. CASE ~(i <= Len(p))
      <3>1. i - Len(p) \in 1 .. Len(q) BY <1>2, <2>1, <2>3
      <3> QED BY <1>1, <2>1, <2>3, <3>1, SetMember
    <2> QED BY <2>2, <2>3
  <1>4. ASSUME NEW z \in ToSet(p) PROVE z \in ToSet(p \o q)
    <2>1. PICK i \in 1 .. Len(p) : z = p[i] BY SetMember
    <2>2. i \in 1 .. Len(p \o q) /\ z = (p \o q)[i] BY <1>1, <1>2, <2>1
    <2> QED BY <1>1, <2>2, SetMember
  <1>5. ASSUME NEW z \in ToSet(q) PROVE z \in ToSet(p \o q)
    <2>1. PICK i \in 1 .. Len(q) : z = q[i] BY SetMember
    <2>2. Len(p) + i \in 1 .. Len(p \o q) /\ ~(Len(p) + i <= Len(p)) /\ (Len(p) + i) - Len(p) = i
      BY <1>1, <1>2
    <2>3. z = (p \o q)[Len(p) + i] BY <1>1, <2>1, <2>2
    <2> QED BY <1>1, <2>2, <2>3, SetMember
  <1> QED BY <1>1, <1>3, <1>4, <1>5

\* The head and the tail of a sequence that is not empty.
LEMMA HeadTailSet ==
  ASSUME NEW A, NEW q \in Seq(A), q # <<>>
  PROVE  /\ Head(q) \in A /\ Tail(q) \in Seq(A)
         /\ ToSet(q) = {Head(q)} \cup ToSet(Tail(q))
         /\ Len(q) \in Nat \ {0} /\ Len(Tail(q)) = Len(q) - 1 /\ Head(q) = q[1]
         /\ \A i \in 1 .. Len(q) - 1 : Tail(q)[i] = q[i + 1]
  <1>1. /\ Head(q) \in A /\ Tail(q) \in Seq(A) /\ Len(Tail(q)) = Len(q) - 1
        /\ Head(q) = q[1] /\ \A i \in 1 .. Len(q) - 1 : Tail(q)[i] = q[i + 1]
    BY HeadTailProperties
  <1>2. Len(q) \in Nat \ {0} BY EmptySeq
  <1>3. ASSUME NEW z \in ToSet(q) PROVE z \in {Head(q)} \cup ToSet(Tail(q))
    <2>1. PICK i \in 1 .. Len(q) : z = q[i] BY SetMember
    <2>2. CASE i = 1 BY <1>1, <2>1, <2>2
    <2>3. CASE i # 1
      <3>1. i - 1 \in 1 .. Len(q) - 1 /\ (i - 1) + 1 = i BY <1>2, <2>3
      <3>2. z = Tail(q)[i - 1] BY <1>1, <2>1, <3>1
      <3> QED BY <1>1, <3>1, <3>2, SetMember
    <2> QED BY <2>2, <2>3
  <1>4. Head(q) \in ToSet(q) BY <1>1, <1>2, SetMember
  <1>5. ASSUME NEW z \in ToSet(Tail(q)) PROVE z \in ToSet(q)
    <2> DEFINE r == Tail(q)
    <2>4. r \in Seq(A) /\ z \in ToSet(r) BY <1>1, <1>5
    <2> HIDE DEF r
    <2>5. PICK i \in 1 .. Len(r) : z = r[i] BY <2>4, SetMember
    <2>1. i \in 1 .. Len(q) - 1 /\ z = Tail(q)[i] BY <1>1, <2>5 DEF r
    <2>2. i + 1 \in 1 .. Len(q) /\ z = q[i + 1] BY <1>1, <1>2, <2>1
    <2> QED BY <2>2, SetMember
  <1> QED BY <1>1, <1>2, <1>3, <1>4, <1>5

\* The fields of a task.
LEMMA TaskType ==
  ASSUME NEW op \in Ops, NEW w \in Windows, NEW rect \in SUBSET Nat, NEW kids \in Seq(Windows)
  PROVE  /\ Task(op, w, rect, kids) \in Tasks
         /\ Task(op, w, rect, kids).op = op /\ Task(op, w, rect, kids).win = w
         /\ Task(op, w, rect, kids).rect = rect /\ Task(op, w, rect, kids).kids = kids
  BY DEF Task, Tasks

\* The empty list of tasks.
LEMMA NoTasks == <<>> \in Seq(Tasks) /\ ToSet(<<>>) = {}
  BY EmptySeq DEF ToSet

\* A list of one task.
LEMMA OneTask ==
  ASSUME NEW k \in Tasks
  PROVE  <<k>> \in Seq(Tasks) /\ ToSet(<<k>>) = {k}
  <1> DEFINE q == <<k>>
  <1>1. q \in Seq(Tasks) /\ Len(q) = 1 /\ q[1] = k OBVIOUS
  <1> HIDE DEF q
  <1>2. \A z : z \in ToSet(q) <=> z = k BY <1>1, SetMember
  <1> QED BY <1>1, <1>2 DEF q

\* A list of two tasks.
LEMMA TwoTasks ==
  ASSUME NEW k \in Tasks, NEW j \in Tasks
  PROVE  <<k, j>> \in Seq(Tasks) /\ ToSet(<<k, j>>) = {k, j}
  <1> DEFINE q == <<k, j>>
  <1>1. q \in Seq(Tasks) /\ Len(q) = 2 /\ q[1] = k /\ q[2] = j OBVIOUS
  <1> HIDE DEF q
  <1>2. \A z : z \in ToSet(q) <=> z = k \/ z = j BY <1>1, SetMember
  <1> QED BY <1>1, <1>2 DEF q

\* The same task for each of some windows.
LEMMA EachFacts ==
  ASSUME NEW op \in Ops, NEW kids \in Seq(Windows), NEW rect \in SUBSET Nat
  PROVE  /\ Each(op, kids, rect) \in Seq(Tasks)
         /\ ToSet(Each(op, kids, rect)) = {Task(op, c, rect, <<>>) : c \in ToSet(kids)}
  <1> DEFINE E == Each(op, kids, rect)
  <1>1. Len(kids) \in Nat /\ DOMAIN kids = 1 .. Len(kids) BY LenProperties
  <1>2. <<>> \in Seq(Windows) BY EmptySeq
  <1>3. \A i \in 1 .. Len(kids) : kids[i] \in Windows BY ElementOfSeq
  <1>4. \A i \in 1 .. Len(kids) : Task(op, kids[i], rect, <<>>) \in Tasks
    BY <1>2, <1>3, TaskType
  <1>5. E = [i \in 1 .. Len(kids) |-> Task(op, kids[i], rect, <<>>)] BY <1>1 DEF Each
  <1>6. E \in [1 .. Len(kids) -> Tasks] BY <1>4, <1>5
  <1>7. E \in Seq(Tasks) BY <1>1, <1>6, SeqDef
  <1>8. ToSet(E) = {Task(op, c, rect, <<>>) : c \in ToSet(kids)}
    BY <1>1, <1>5 DEF ToSet
  <1> QED BY <1>7, <1>8

\* What WND_InvalidateRect adds to the tasks when the window paints over its
\* children and was invalid before.
LEMMA GrownFacts ==
  ASSUME NEW S \in Screens, NEW w \in Windows, NEW rect \in SUBSET Nat,
         QueueInv(S), AreaInv(S), IsRect(rect), rect \cap rcWindow[w] # {}
  PROVE  /\ Grown(S, w, rect) \in Seq(Tasks)
         /\ \A j \in ToSet(Grown(S, w, rect)) : j.op = "tree" /\ IsRect(j.rect)
         /\ S.upd[w] # {} /\ w \notin Clip => \A c \in ToSet(Children[w]) :
              Task("tree", c, WND_InvalidateRect(S, w, rect).upd[w], <<>>)
                \in ToSet(Grown(S, w, rect))
  <1> DEFINE T == WND_InvalidateRect(S, w, rect)
             G == Grown(S, w, rect)
  <1>1. T.upd[w] \in SUBSET Nat /\ IsRect(T.upd[w]) /\ rect \cap rcWindow[w] \subseteq T.upd[w]
    BY NewRegion
  <1>2. CASE S.upd[w] = {} \/ w \in Clip
    <2>1. G = <<>> BY <1>2 DEF Grown
    <2> HIDE DEF G
    <2> QED BY <1>2, <2>1, NoTasks DEF G
  <1>3. CASE S.upd[w] # {} /\ w \notin Clip
    <2>1. G = Each("tree", Children[w], T.upd[w]) BY <1>3 DEF Grown
    <2>2. "tree" \in Ops /\ Children[w] \in Seq(Windows) BY KidTypes DEF Ops
    <2> HIDE DEF T
    <2>3. /\ Each("tree", Children[w], T.upd[w]) \in Seq(Tasks)
          /\ ToSet(Each("tree", Children[w], T.upd[w]))
               = {Task("tree", c, T.upd[w], <<>>) : c \in ToSet(Children[w])}
      BY <1>1, <2>2, EachFacts
    <2>4. \A c : /\ Task("tree", c, T.upd[w], <<>>).op = "tree"
                 /\ Task("tree", c, T.upd[w], <<>>).rect = T.upd[w]
      BY DEF Task
    <2> HIDE DEF G
    <2>5. /\ G \in Seq(Tasks) /\ \A j \in ToSet(G) : j.op = "tree" /\ IsRect(j.rect)
          /\ \A c \in ToSet(Children[w]) : Task("tree", c, T.upd[w], <<>>) \in ToSet(G)
      BY <1>1, <2>1, <2>3, <2>4
    <2> QED BY <2>5 DEF G, T
  <1> QED BY <1>2, <1>3
-----------------------------------------------------------------------------
(* The steps that leave the screen alone, and those that invalidate.       *)

\* More can be left to do than must be.
LEMMA DropCore ==
  ASSUME NEW S, NEW P, NEW Q, NEW X, NEW vis, NEW stk, NEW dc,
         S.map \subseteq Windows, Core(S, Q, X, vis, stk, dc),
         \A k \in Q : \/ k \in P
                      \/ /\ k.op \notin {"destroy", "release"}
                         /\ \A c \in Windows : Visits(k, c) =>
                              \/ Reach(k) \cap rcWindow[c] = {}
                              \/ c \notin S.map \/ ~Under(S, c)
  PROVE  Core(S, P, X, vis, stk, dc)
  <1>1. Ordered(S, P, X)
    <2> SUFFICES ASSUME NEW c \in Windows,
                        Under(S, c), S.flag[c] = "QUEUE" \/ (S.flag[c] = "DRAWING" /\ c \notin X),
                        S.upd[c] \cap S.upd[Parent(c)] # {}
                 PROVE  \E k \in P : Visits(k, c) /\ Reach(k) \cap rcWindow[c] # {}
      BY DEF Ordered
    <2>1. PICK k \in Q : Visits(k, c) /\ Reach(k) \cap rcWindow[c] # {}
      BY DEF Core, Ordered
    <2>2. c \in S.map BY DEF Core, RegionInv, Tidy
    <2>3. k \in P BY <2>1, <2>2
    <2> QED BY <2>1, <2>3
  <1>2. Overdrawn(S, P, X)
    <2> SUFFICES ASSUME NEW c \in S.map, Under(S, c), c \notin X,
                        ~(S.upd[Parent(c)] \cap rcWindow[c] \subseteq S.upd[c])
                 PROVE  \E k \in P :
                           /\ Visits(k, c)
                           /\ S.upd[Parent(c)] \cap rcWindow[c] \subseteq S.upd[c] \cup Reach(k)
      BY DEF Overdrawn
    <2>1. PICK k \in Q :
            /\ Visits(k, c)
            /\ S.upd[Parent(c)] \cap rcWindow[c] \subseteq S.upd[c] \cup Reach(k)
      BY DEF Core, Overdrawn
    <2>2. Reach(k) \cap rcWindow[c] # {} BY <2>1
    <2>3. k \in P BY <2>1, <2>2
    <2> QED BY <2>1, <2>3
  <1>3. \A k \in Q : k.op \in {"destroy", "release"} => k \in P OBVIOUS
  <1>4. \A c : Destroys(Q, c) => Destroys(P, c) BY <1>3 DEF Destroys
  <1>5. MapInv(S, P, vis) BY <1>4 DEF Core, MapInv
  <1>6. WaitInv(S, P, X) BY <1>3, <1>4 DEF Core, WaitInv
  <1> QED BY <1>1, <1>2, <1>5, <1>6 DEF Core

\* A window and, where it paints over its children, these are invalidated.
LEMMA InvalidateCore ==
  ASSUME NEW S \in Screens, NEW w \in S.map, NEW rect \in SUBSET Nat, NEW todo \in Seq(Tasks),
         NEW P, NEW Q, NEW X, NEW vis, NEW stk, NEW dc,
         IsRect(rect), rect \cap rcWindow[w] # {},
         QueueInv(S), AreaInv(S), \A x \in Windows : x # w => Tidy(S, x),
         Ordered(S, Q, X), Overdrawn(S, Q, X), MapInv(S, Q, vis), WaitInv(S, Q, X),
         DirtyInv(S, X), DrawInv(S, X, stk, dc),
         Kept(Q, P, w, rect), ToSet(Invalidate(S, w, rect, todo).todo) \subseteq P,
         \/ w \in Clip \/ S.upd[w] # {}
         \/ \A c \in ToSet(Children[w]) \cap S.map : \E k \in ToSet(todo) :
              Visits(k, c) /\ (rect \cap rcWindow[w]) \cap rcWindow[c] \subseteq Reach(k)
  PROVE  /\ Invalidate(S, w, rect, todo).scr \in Screens
         /\ Core(Invalidate(S, w, rect, todo).scr, P, X, vis, stk, dc)
         /\ Invalidate(S, w, rect, todo).scr.map = S.map
  <1> DEFINE T == WND_InvalidateRect(S, w, rect)
             G == Grown(S, w, rect)
  <1>1. Invalidate(S, w, rect, todo) = [scr |-> T, todo |-> G \o todo]
    BY DEF Invalidate, Then
  <1>2. w \in Windows BY ScreenTypes
  <1>3. LET u == rect \cap rcWindow[w] IN
        /\ T \in Screens /\ QueueInv(T) /\ T.map = S.map
        /\ \A x \in Windows : T.flag[x] = IF x = w THEN NewFlag(S, w) ELSE S.flag[x]
        /\ \A x \in Windows : T.upd[x] = IF x = w THEN UnionRect(S.upd[w], u) ELSE S.upd[x]
        /\ \A x \in Windows : T.dirty[x] = IF x = w THEN S.dirty[w] \cup u ELSE S.dirty[x]
        /\ IsRect(T.upd[w]) /\ T.upd[w] \subseteq rcWindow[w]
        /\ S.upd[w] \cup u \subseteq T.upd[w]
        /\ S.upd[w] = {} => T.upd[w] = u
    BY <1>2, RectFacts
  <1>4. Invalidated(S, T, w, rect) BY <1>2, RectInvalidated
  <1>5. RegionInv(T) BY <1>2, RectRegions
  <1>6. T.upd[w] \in SUBSET Nat BY <1>2, <1>3, Types
  <1>7. G \in Seq(Tasks) /\ (S.upd[w] # {} /\ w \notin Clip =>
                               \A c \in ToSet(Children[w]) :
                                 Task("tree", c, T.upd[w], <<>>) \in ToSet(G))
    BY <1>2, GrownFacts
  <1> HIDE DEF T, G
  <1>8. ToSet(G \o todo) = ToSet(G) \cup ToSet(todo) BY <1>7, ConcatSet
  <1>9. ToSet(G) \cup ToSet(todo) \subseteq P BY <1>1, <1>8
  <1>10. Spread(S, T, P, w)
    <2> SUFFICES ASSUME w \notin Clip, NEW c \in ToSet(Children[w]) \cap S.map
                 PROVE  \E k \in P : Visits(k, c) /\ T.upd[w] \cap rcWindow[c] \subseteq Reach(k)
      BY DEF Spread
    <2>1. CASE S.upd[w] # {}
      <3> DEFINE k == Task("tree", c, T.upd[w], <<>>)
      <3>1. k \in P BY <1>7, <1>9, <2>1
      <3>2. k.op = "tree" /\ k.win = c /\ k.rect = T.upd[w] BY DEF Task
      <3> HIDE DEF k
      <3> QED BY <3>1, <3>2 DEF Visits, Reach
    <2>2. CASE S.upd[w] = {}
      <3>1. PICK k \in ToSet(todo) :
              Visits(k, c) /\ (rect \cap rcWindow[w]) \cap rcWindow[c] \subseteq Reach(k)
        BY <2>2
      <3> QED BY <1>3, <1>9, <2>2, <3>1
    <2> QED BY <2>1, <2>2
  <1>11. \A c \in Windows : S.flag[c] # "NO" => c \in S.map BY DEF Tidy
  <1>12. AreaInv(T) BY <1>5 DEF RegionInv
  <1>13. Ordered(T, P, X) BY <1>2, <1>4, <1>10, <1>11, <1>12, RectOrdered
  <1>14. Overdrawn(T, P, X) BY <1>2, <1>4, <1>10, ScreenTypes, RectOverdrawn
  <1>15. WaitInv(T, P, X) BY <1>2, <1>4, RectWait
  <1>16. DirtyInv(T, X) BY <1>2, <1>4, RectDirty
  <1>17. DrawInv(T, X, stk, dc) BY <1>2, <1>4, RectDraw
  <1>18. MapInv(T, P, vis) BY <1>3, RectMap
  <1>19. Core(T, P, X, vis, stk, dc)
    BY <1>3, <1>5, <1>13, <1>14, <1>15, <1>16, <1>17, <1>18 DEF Core
  <1> QED BY <1>1, <1>3, <1>19

-----------------------------------------------------------------------------
(* One step of a call: task k is done, and the tasks R still follow.       *)

Before(S, k, R, X, vis, old, stk, dc) ==
  /\ S \in Screens /\ k \in Tasks /\ R \subseteq Tasks
  /\ Core(S, {k} \cup R, X, vis, stk, dc) /\ TaskInv(S, {k} \cup R, vis, old)

After(y, R, X, vis, old, stk, dc) ==
  /\ y.scr \in Screens /\ y.todo \in Seq(Tasks)
  /\ Core(y.scr, ToSet(y.todo) \cup R, X, vis, stk, dc)
  /\ TaskInv(y.scr, ToSet(y.todo) \cup R, vis, old)
  /\ \/ \A j \in ToSet(y.todo) : j.op = "destroy"
     \/ \A j \in ToSet(y.todo) \cup R : j.op # "destroy"

\* Nothing is being destroyed or released.
Plain(P) == \A k \in P : k.op \notin {"destroy", "release"}

\* Tasks that act where they may still do when more is on the screen.
LEMMA PlainTasks ==
  ASSUME NEW S, NEW T, NEW k, NEW R, NEW N, NEW vis, NEW old,
         TaskInv(S, {k} \cup R, vis, old), Plain({k} \cup R), S.map \subseteq T.map,
         \A j \in N : TaskOK(T, j, vis, old), Plain(N)
  PROVE  TaskInv(T, N \cup R, vis, old)
  <1>1. ASSUME NEW j \in R PROVE TaskOK(T, j, vis, old)
    <2>1. TaskOK(S, j, vis, old) BY DEF TaskInv
    <2>2. j.op # "release" BY DEF Plain
    <2> QED BY <2>1, <2>2 DEF TaskOK
  <1> QED BY <1>1 DEF TaskInv, Plain

\* A task that invalidates nothing is replaced by others.
LEMMA DropStep ==
  ASSUME NEW S, NEW k, NEW R, NEW X, NEW vis, NEW old, NEW stk, NEW dc,
         Before(S, k, R, X, vis, old, stk, dc), Plain({k} \cup R),
         NEW todo \in Seq(Tasks), Plain(ToSet(todo)),
         \A j \in ToSet(todo) : TaskOK(S, j, vis, old),
         \A c \in Windows : Visits(k, c) =>
           Reach(k) \cap rcWindow[c] = {} \/ c \notin S.map \/ ~Under(S, c)
  PROVE  After(Then(S, todo), R, X, vis, old, stk, dc)
  <1> DEFINE P == ToSet(todo) \cup R
             Q == {k} \cup R
  <1>1. Then(S, todo).scr = S /\ Then(S, todo).todo = todo BY DEF Then
  <1>2. S \in Screens /\ Core(S, Q, X, vis, stk, dc) /\ TaskInv(S, Q, vis, old)
    BY DEF Before
  <1>3. \A j \in Q : \/ j \in P
                     \/ /\ j.op \notin {"destroy", "release"}
                        /\ \A c \in Windows : Visits(j, c) =>
                             Reach(j) \cap rcWindow[c] = {} \/ c \notin S.map \/ ~Under(S, c)
    BY DEF Plain
  <1>4. TaskInv(S, P, vis, old) BY <1>2, PlainTasks
  <1>5. \A j \in P : j.op # "destroy" BY DEF Plain
  <1> HIDE DEF P, Q
  <1>6. Core(S, P, X, vis, stk, dc) BY <1>2, <1>3, ScreenTypes, DropCore
  <1> QED BY <1>1, <1>2, <1>4, <1>5, <1>6 DEF After, P

\* A task that invalidates a window, and its children next.
LEMMA InvalidateStep ==
  ASSUME NEW S, NEW k, NEW R, NEW X, NEW vis, NEW old, NEW stk, NEW dc,
         Before(S, k, R, X, vis, old, stk, dc), Plain({k} \cup R),
         NEW w \in S.map, NEW rect \in SUBSET Nat, NEW todo \in Seq(Tasks),
         IsRect(rect), rect \cap rcWindow[w] # {},
         Plain(ToSet(todo)), \A j \in ToSet(todo) : TaskOK(S, j, vis, old),
         \A c \in Windows : Visits(k, c) => c = w /\ Reach(k) \cap rcWindow[w] \subseteq rect,
         \/ w \in Clip \/ S.upd[w] # {}
         \/ \A c \in ToSet(Children[w]) \cap S.map : \E j \in ToSet(todo) :
              Visits(j, c) /\ (rect \cap rcWindow[w]) \cap rcWindow[c] \subseteq Reach(j)
  PROVE  After(Invalidate(S, w, rect, todo), R, X, vis, old, stk, dc)
  <1> DEFINE y == Invalidate(S, w, rect, todo)
             P == ToSet(y.todo) \cup R
             Q == {k} \cup R
             T == WND_InvalidateRect(S, w, rect)
             G == Grown(S, w, rect)
  <1>1. S \in Screens /\ Core(S, Q, X, vis, stk, dc) /\ TaskInv(S, Q, vis, old)
    BY DEF Before
  <1>2. w \in Windows BY <1>1, ScreenTypes
  <1>3. /\ QueueInv(S) /\ AreaInv(S) /\ \A x \in Windows : x # w => Tidy(S, x)
        /\ Ordered(S, Q, X) /\ Overdrawn(S, Q, X) /\ MapInv(S, Q, vis)
        /\ WaitInv(S, Q, X) /\ DirtyInv(S, X) /\ DrawInv(S, X, stk, dc)
    BY <1>1 DEF Core, RegionInv
  <1>4. Kept(Q, P, w, rect)
    BY DEF Kept, Plain
  <1>5. ToSet(y.todo) \subseteq P OBVIOUS
  <1>6. y.scr = T /\ y.todo = G \o todo BY DEF Invalidate, Then
  <1>8. /\ G \in Seq(Tasks)
        /\ \A j \in ToSet(G) : j.op = "tree" /\ IsRect(j.rect)
    BY <1>1, <1>2, <1>3, GrownFacts
  <1> HIDE DEF G, T
  <1>9. G \o todo \in Seq(Tasks) /\ ToSet(G \o todo) = ToSet(G) \cup ToSet(todo)
    BY <1>8, ConcatSet
  <1>10. ToSet(y.todo) = ToSet(G) \cup ToSet(todo) /\ y.todo \in Seq(Tasks)
    BY <1>6, <1>9
  <1>11. Plain(ToSet(y.todo)) BY <1>8, <1>10 DEF Plain
  <1> HIDE DEF P, Q
  <1>12. y.scr \in Screens /\ Core(y.scr, P, X, vis, stk, dc) /\ y.scr.map = S.map
    BY <1>1, <1>3, <1>4, <1>5, InvalidateCore
  <1> HIDE DEF y
  <1>13. \A j \in ToSet(y.todo) : TaskOK(y.scr, j, vis, old)
    <2>1. ASSUME NEW j \in ToSet(G) PROVE TaskOK(y.scr, j, vis, old)
      BY <1>8 DEF TaskOK
    <2>2. ASSUME NEW j \in ToSet(todo) PROVE TaskOK(y.scr, j, vis, old)
      <3>1. TaskOK(S, j, vis, old) /\ j.op # "release" BY DEF Plain
      <3> QED BY <1>12, <3>1 DEF TaskOK
    <2> QED BY <1>10, <2>1, <2>2
  <1>14. TaskInv(y.scr, P, vis, old) BY <1>1, <1>11, <1>12, <1>13, PlainTasks DEF P, Q
  <1>15. \A j \in ToSet(y.todo) \cup R : j.op # "destroy" BY <1>11 DEF Plain
  <1> QED BY <1>10, <1>12, <1>14, <1>15 DEF After, P, y

\* The types of the fields of a task.
LEMMA TaskFields ==
  ASSUME NEW k \in Tasks
  PROVE  /\ k.op \in Ops /\ k.win \in Windows /\ k.rect \in SUBSET Nat
         /\ k.kids \in Seq(Windows)
  BY DEF Tasks

\* The tasks todo invalidate the part of area that is in a child of w.
KidOps == {"tree", "below", "all", "uncover"}

Continue(S, w, area, todo, vis, old) ==
  /\ todo \in Seq(Tasks) /\ Plain(ToSet(todo))
  /\ \A j \in ToSet(todo) : TaskOK(S, j, vis, old)
  /\ \A c \in ToSet(Children[w]) \cap S.map : \E j \in ToSet(todo) :
       Visits(j, c) /\ area \cap rcWindow[c] \subseteq Reach(j)

\* The children are visited with what became invalid of their parent.
LEMMA KidTasks ==
  ASSUME NEW S, NEW w \in Windows, NEW op \in KidOps, NEW rect \in SUBSET Nat, IsRect(rect),
         NEW area \in SUBSET rect, NEW vis, NEW old
  PROVE  Continue(S, w, area, Each(op, Children[w], rect), vis, old)
  <1> DEFINE todo == Each(op, Children[w], rect)
  <1>1. op \in Ops /\ Children[w] \in Seq(Windows) BY KidTypes DEF Ops, KidOps
  <1>2. todo \in Seq(Tasks) /\ ToSet(todo) = {Task(op, c, rect, <<>>) : c \in ToSet(Children[w])}
    BY <1>1, EachFacts
  <1> HIDE DEF todo
  <1>3. \A c : /\ Task(op, c, rect, <<>>).op = op /\ Task(op, c, rect, <<>>).win = c
               /\ Task(op, c, rect, <<>>).rect = rect
    BY DEF Task
  <1>4. Plain(ToSet(todo)) BY <1>2, <1>3 DEF Plain, KidOps
  <1>5. \A j \in ToSet(todo) : TaskOK(S, j, vis, old) BY <1>2, <1>3 DEF TaskOK, KidOps
  <1>6. ASSUME NEW c \in ToSet(Children[w])
        PROVE  \E j \in ToSet(todo) : Visits(j, c) /\ area \cap rcWindow[c] \subseteq Reach(j)
    <2> DEFINE j == Task(op, c, rect, <<>>)
    <2>1. j \in ToSet(todo) BY <1>2
    <2>2. j.op = op /\ j.win = c /\ j.rect = rect BY <1>3
    <2> HIDE DEF j
    <2>3. Visits(j, c) BY <2>2 DEF Visits, KidOps
    <2>4. Reach(j) = rect BY <2>2 DEF Reach, KidOps
    <2> QED BY <2>1, <2>3, <2>4
  <1>7. Continue(S, w, area, todo, vis, old) BY <1>2, <1>4, <1>5, <1>6 DEF Continue
  <1> QED BY <1>7 DEF todo

\* Nothing follows.
LEMMA EmptyTasks ==
  ASSUME NEW S, NEW vis, NEW old
  PROVE  /\ <<>> \in Seq(Tasks) /\ Plain(ToSet(<<>>))
         /\ \A j \in ToSet(<<>>) : TaskOK(S, j, vis, old)
  BY NoTasks DEF Plain

\* WND_InvalidateTree.
LEMMA TreeStep ==
  ASSUME NEW S, NEW k, NEW R, NEW X, NEW vis, NEW old, NEW stk, NEW dc,
         Before(S, k, R, X, vis, old, stk, dc), Plain({k} \cup R), k.op = "tree"
  PROVE  After(WND_InvalidateTree(S, k.win, k.rect), R, X, vis, old, stk, dc)
  <1> DEFINE w == k.win
             rect == k.rect
  <1>1. S \in Screens /\ k \in Tasks /\ w \in Windows /\ rect \in SUBSET Nat /\ IsRect(rect)
    BY TaskFields DEF Before, TaskInv, TaskOK
  <1>2. \A c \in Windows : Visits(k, c) => c = w /\ Reach(k) = rect
    BY DEF Visits, Reach
  <1>3. QueueInv(S) /\ AreaInv(S) BY DEF Before, Core, RegionInv
  <1>4. CASE w \notin S.map \/ rect \cap rcWindow[w] = {}
    <2>1. WND_InvalidateTree(S, w, rect) = Then(S, <<>>) BY <1>4 DEF WND_InvalidateTree
    <2>2. \A c \in Windows : Visits(k, c) =>
            Reach(k) \cap rcWindow[c] = {} \/ c \notin S.map \/ ~Under(S, c)
      BY <1>2, <1>4
    <2> QED BY <2>1, <2>2, EmptyTasks, DropStep
  <1>5. CASE w \in S.map /\ rect \cap rcWindow[w] # {}
    <2> DEFINE T == WND_InvalidateRect(S, w, rect)
               todo == IF w \in Clip THEN <<>> ELSE Each("below", Children[w], T.upd[w])
    <2>1. WND_InvalidateTree(S, w, rect) = Invalidate(S, w, rect, todo)
      BY <1>5 DEF WND_InvalidateTree
    <2>2. /\ T.upd[w] \in SUBSET Nat /\ IsRect(T.upd[w])
          /\ rect \cap rcWindow[w] \subseteq T.upd[w]
      BY <1>1, <1>3, <1>5, NewRegion
    <2> HIDE DEF T
    <2>3. /\ todo \in Seq(Tasks) /\ Plain(ToSet(todo))
          /\ \A j \in ToSet(todo) : TaskOK(S, j, vis, old)
          /\ \/ w \in Clip \/ S.upd[w] # {}
             \/ \A c \in ToSet(Children[w]) \cap S.map : \E j \in ToSet(todo) :
                  Visits(j, c) /\ (rect \cap rcWindow[w]) \cap rcWindow[c] \subseteq Reach(j)
      <3>1. CASE w \in Clip
        <4>1. todo = <<>> BY <3>1
        <4> HIDE DEF todo
        <4> QED BY <3>1, <4>1, EmptyTasks
      <3>2. CASE w \notin Clip
        <4> DEFINE u == rect \cap rcWindow[w]
        <4>1. todo = Each("below", Children[w], T.upd[w]) BY <3>2
        <4>2. "below" \in KidOps /\ u \in SUBSET T.upd[w] BY <2>2 DEF KidOps
        <4>3. Continue(S, w, u, Each("below", Children[w], T.upd[w]), vis, old)
          BY <1>1, <2>2, <4>2, KidTasks
        <4> HIDE DEF todo
        <4> QED BY <4>1, <4>3 DEF Continue
      <3> QED BY <3>1, <3>2
    <2> HIDE DEF todo
    <2>4. \A c \in Windows : Visits(k, c) => c = w /\ Reach(k) \cap rcWindow[w] \subseteq rect
      BY <1>2
    <2>5. After(Invalidate(S, w, rect, todo), R, X, vis, old, stk, dc)
      BY <1>1, <1>5, <2>3, <2>4, InvalidateStep
    <2> QED BY <2>1, <2>5
  <1> QED BY <1>4, <1>5


\* A window on the screen is invalidated, and its children next.
LEMMA NextStep ==
  ASSUME NEW S, NEW k, NEW R, NEW X, NEW vis, NEW old, NEW stk, NEW dc,
         Before(S, k, R, X, vis, old, stk, dc), Plain({k} \cup R),
         NEW w \in S.map, NEW rect \in SUBSET Nat, NEW todo,
         IsRect(rect), rect \cap rcWindow[w] # {},
         \A c \in Windows : Visits(k, c) => c = w /\ Reach(k) \cap rcWindow[w] \subseteq rect,
         \/ Continue(S, w, rect \cap rcWindow[w], todo, vis, old)
         \/ w \in Clip /\ todo = <<>>
  PROVE  After(Invalidate(S, w, rect, todo), R, X, vis, old, stk, dc)
  <1>1. CASE Continue(S, w, rect \cap rcWindow[w], todo, vis, old)
    <2>1. /\ todo \in Seq(Tasks) /\ Plain(ToSet(todo))
          /\ \A j \in ToSet(todo) : TaskOK(S, j, vis, old)
          /\ \A c \in ToSet(Children[w]) \cap S.map : \E j \in ToSet(todo) :
               Visits(j, c) /\ (rect \cap rcWindow[w]) \cap rcWindow[c] \subseteq Reach(j)
      BY <1>1 DEF Continue
    <2> QED BY <2>1, InvalidateStep
  <1>2. CASE w \in Clip /\ todo = <<>>
    <2>1. /\ todo \in Seq(Tasks) /\ Plain(ToSet(todo))
          /\ \A j \in ToSet(todo) : TaskOK(S, j, vis, old)
      BY <1>2, EmptyTasks
    <2> QED BY <1>2, <2>1, InvalidateStep
  <1> QED BY <1>1, <1>2

\* A window outside of the rectangle is left alone.
LEMMA MissedRect ==
  ASSUME NEW S, NEW w, NEW rect, NEW todo \in Seq(Tasks), rect \cap rcWindow[w] = {}
  PROVE  /\ Invalidate(S, w, rect, todo) = Then(S, todo)
         /\ WND_InvalidateRect(S, w, rect) = S
  <1>1. WND_InvalidateRect(S, w, rect) = S BY DEF WND_InvalidateRect
  <1>2. Grown(S, w, rect) = <<>> BY DEF Grown
  <1>3. <<>> \o todo = todo BY ConcatEmptySeq
  <1> QED BY <1>1, <1>2, <1>3 DEF Invalidate

\* The loop of WND_InvalidateTree.
LEMMA BelowStep ==
  ASSUME NEW S, NEW k, NEW R, NEW X, NEW vis, NEW old, NEW stk, NEW dc,
         Before(S, k, R, X, vis, old, stk, dc), Plain({k} \cup R), k.op \in {"below", "all"}
  PROVE  After(InvalidateBelow(S, k.op, k.win, k.rect), R, X, vis, old, stk, dc)
  <1> DEFINE w == k.win
             rect == k.rect
             todo == IF w \in Clip /\ k.op = "below" THEN <<>>
                     ELSE Each(k.op, Children[w], rect)
  <1>1. S \in Screens /\ k \in Tasks /\ w \in Windows /\ rect \in SUBSET Nat /\ IsRect(rect)
    BY TaskFields DEF Before, TaskInv, TaskOK
  <1>2. \A c \in Windows : Visits(k, c) => c = w /\ Reach(k) = rect
    BY DEF Visits, Reach
  <1>3. k.op \in KidOps /\ rect \cap rcWindow[w] \in SUBSET rect BY DEF KidOps
  <1>4. Continue(S, w, rect \cap rcWindow[w], Each(k.op, Children[w], rect), vis, old)
    BY <1>1, <1>3, KidTasks
  <1>5. /\ todo \in Seq(Tasks) /\ Plain(ToSet(todo))
        /\ \A j \in ToSet(todo) : TaskOK(S, j, vis, old)
        /\ \/ Continue(S, w, rect \cap rcWindow[w], todo, vis, old)
           \/ w \in Clip /\ todo = <<>>
    <2>1. CASE w \in Clip /\ k.op = "below"
      <3>1. todo = <<>> BY <2>1
      <3> HIDE DEF todo
      <3> QED BY <2>1, <3>1, EmptyTasks
    <2>2. CASE ~(w \in Clip /\ k.op = "below")
      <3>1. todo = Each(k.op, Children[w], rect) BY <2>2
      <3> HIDE DEF todo
      <3> QED BY <1>4, <3>1 DEF Continue
    <2> QED BY <2>1, <2>2
  <1>6. CASE w \notin S.map
    <2>1. InvalidateBelow(S, k.op, w, rect) = Then(S, <<>>) BY <1>6 DEF InvalidateBelow
    <2>2. \A c \in Windows : Visits(k, c) =>
            Reach(k) \cap rcWindow[c] = {} \/ c \notin S.map \/ ~Under(S, c)
      BY <1>2, <1>6
    <2> QED BY <2>1, <2>2, EmptyTasks, DropStep
  <1>7. CASE w \in S.map
    <2>1. InvalidateBelow(S, k.op, w, rect) = Invalidate(S, w, rect, todo)
      BY <1>7 DEF InvalidateBelow
    <2> HIDE DEF todo
    <2>2. CASE rect \cap rcWindow[w] = {}
      <3>1. Invalidate(S, w, rect, todo) = Then(S, todo) BY <1>5, <2>2, MissedRect
      <3>2. \A c \in Windows : Visits(k, c) =>
              Reach(k) \cap rcWindow[c] = {} \/ c \notin S.map \/ ~Under(S, c)
        BY <1>2, <2>2
      <3> QED BY <1>5, <2>1, <3>1, <3>2, DropStep
    <2>3. CASE rect \cap rcWindow[w] # {}
      <3>1. \A c \in Windows : Visits(k, c) => c = w /\ Reach(k) \cap rcWindow[w] \subseteq rect
        BY <1>2
      <3>2. After(Invalidate(S, w, rect, todo), R, X, vis, old, stk, dc)
        BY <1>1, <1>5, <1>7, <2>3, <3>1, NextStep
      <3> QED BY <2>1, <3>2
    <2> QED BY <2>2, <2>3
  <1> QED BY <1>6, <1>7

\* InvalidateWindowTree: a clipping window does not need what its parent
\* paints.
LEMMA UncoverStep ==
  ASSUME ClipsAbove,
         NEW S, NEW k, NEW R, NEW X, NEW vis, NEW old, NEW stk, NEW dc,
         Before(S, k, R, X, vis, old, stk, dc), Plain({k} \cup R), k.op = "uncover"
  PROVE  After(InvalidateWindowTree(S, k.win, k.rect), R, X, vis, old, stk, dc)
  <1> DEFINE w == k.win
             rect == k.rect
             r == rect \cap rcWindow[w]
  <1>1. S \in Screens /\ k \in Tasks /\ w \in Windows /\ rect \in SUBSET Nat /\ IsRect(rect)
    BY TaskFields DEF Before, TaskInv, TaskOK
  <1>2. \A c \in Windows : Visits(k, c) => c = w /\ Reach(k) = rect
    BY DEF Visits, Reach
  <1>3. QueueInv(S) /\ AreaInv(S) BY DEF Before, Core, RegionInv
  <1>4. r \in SUBSET Nat /\ IsRect(r) BY <1>1, Types, MeetFacts
  <1>5. CASE w \notin S.map \/ r = {}
    <2>1. InvalidateWindowTree(S, w, rect) = Then(S, <<>>) BY <1>5 DEF InvalidateWindowTree
    <2>2. \A c \in Windows : Visits(k, c) =>
            Reach(k) \cap rcWindow[c] = {} \/ c \notin S.map \/ ~Under(S, c)
      BY <1>2, <1>5
    <2> QED BY <2>1, <2>2, EmptyTasks, DropStep
  <1>6. CASE w \in S.map /\ r # {} /\ w \in Clip
    <2> DEFINE j == Task("uncovers", w, r, Children[w])
    <2>1. InvalidateWindowTree(S, w, rect) = Then(S, <<j>>) BY <1>6 DEF InvalidateWindowTree
    <2>2. ~Under(S, w) BY <1>1, <1>6 DEF ClipsAbove, Under
    <2>3. "uncovers" \in Ops /\ Children[w] \in Seq(Windows) BY <1>1, KidTypes DEF Ops
    <2> HIDE DEF r
    <2>4. j \in Tasks /\ j.op = "uncovers" /\ j.win = w /\ j.rect = r
      BY <1>1, <1>4, <2>3, TaskType
    <2> HIDE DEF j
    <2>5. TaskOK(S, j, vis, old) BY <1>4, <1>6, <2>4 DEF TaskOK
    <2>6. <<j>> \in Seq(Tasks) /\ ToSet(<<j>>) = {j} BY <2>4, OneTask
    <2>7. Plain(ToSet(<<j>>)) /\ \A i \in ToSet(<<j>>) : TaskOK(S, i, vis, old)
      BY <2>4, <2>5, <2>6 DEF Plain
    <2>8. \A c \in Windows : Visits(k, c) =>
            Reach(k) \cap rcWindow[c] = {} \/ c \notin S.map \/ ~Under(S, c)
      BY <1>2, <2>2
    <2> QED BY <2>1, <2>6, <2>7, <2>8, DropStep
  <1>7. CASE w \in S.map /\ r # {} /\ w \notin Clip
    <2> DEFINE T == WND_InvalidateRect(S, w, r)
               todo == Each("uncover", Children[w], T.upd[w])
    <2>1. InvalidateWindowTree(S, w, rect) = Invalidate(S, w, r, todo)
      BY <1>7 DEF InvalidateWindowTree
    <2>2. r \cap rcWindow[w] = r OBVIOUS
    <2>3. \A c \in Windows : Visits(k, c) => c = w /\ Reach(k) \cap rcWindow[w] \subseteq r
      BY <1>2
    <2> HIDE DEF r
    <2>4. T.upd[w] \in SUBSET Nat /\ IsRect(T.upd[w]) /\ r \cap rcWindow[w] \subseteq T.upd[w]
      BY <1>1, <1>3, <1>4, <1>7, <2>2, NewRegion
    <2> HIDE DEF T
    <2>5. "uncover" \in KidOps /\ r \cap rcWindow[w] \in SUBSET T.upd[w] BY <2>4 DEF KidOps
    <2>6. Continue(S, w, r \cap rcWindow[w], Each("uncover", Children[w], T.upd[w]), vis, old)
      BY <1>1, <2>4, <2>5, KidTasks
    <2>7. r \cap rcWindow[w] # {} BY <1>7, <2>2
    <2> HIDE DEF todo
    <2>8. After(Invalidate(S, w, r, todo), R, X, vis, old, stk, dc)
      BY <1>4, <1>7, <2>3, <2>6, <2>7, NextStep DEF todo
    <2> QED BY <2>1, <2>8
  <1> QED BY <1>5, <1>6, <1>7

\* What a window leaves of a rectangle is a rectangle.
LEMMA LeftFacts ==
  ASSUME NEW S, NEW rect \in SUBSET Nat, NEW c, IsRect(rect)
  PROVE  Left(S, rect, c) \in SUBSET Nat /\ IsRect(Left(S, rect, c))
  BY SubtractFacts DEF Left

\* A step that only says what is done next.
LEMMA TaskStep ==
  ASSUME NEW S, NEW k, NEW R, NEW X, NEW vis, NEW old, NEW stk, NEW dc,
         Before(S, k, R, X, vis, old, stk, dc), Plain({k} \cup R),
         \A c \in Windows : ~Visits(k, c),
         NEW todo \in Seq(Tasks), Plain(ToSet(todo)),
         \A j \in ToSet(todo) : TaskOK(S, j, vis, old)
  PROVE  After(Then(S, todo), R, X, vis, old, stk, dc)
  BY DropStep

\* The same with one task to follow.
LEMMA OneTaskStep ==
  ASSUME NEW S, NEW k, NEW R, NEW X, NEW vis, NEW old, NEW stk, NEW dc,
         Before(S, k, R, X, vis, old, stk, dc), Plain({k} \cup R),
         \A c \in Windows : ~Visits(k, c),
         NEW j \in Tasks, j.op \notin {"destroy", "release"}, TaskOK(S, j, vis, old)
  PROVE  After(Then(S, <<j>>), R, X, vis, old, stk, dc)
  <1>1. <<j>> \in Seq(Tasks) /\ ToSet(<<j>>) = {j} BY OneTask
  <1>2. Plain(ToSet(<<j>>)) BY <1>1 DEF Plain
  <1> QED BY <1>1, <1>2, TaskStep

\* The loops over the children of a clipping window.
LEMMA UncoverNextStep ==
  ASSUME NEW S, NEW k, NEW R, NEW X, NEW vis, NEW old, NEW stk, NEW dc,
         Before(S, k, R, X, vis, old, stk, dc), Plain({k} \cup R),
         k.op \in {"uncovers", "exposes"}
  PROVE  After(UncoverNext(S, k.op, k.win, k.rect, k.kids), R, X, vis, old, stk, dc)
  <1> DEFINE w == k.win
             rect == k.rect
             kids == k.kids
  <1>1. /\ S \in Screens /\ w \in Windows /\ rect \in SUBSET Nat /\ IsRect(rect)
        /\ w \in S.map /\ w \in Clip /\ kids \in Seq(Windows) /\ k.op \in Ops
    BY TaskFields DEF Before, TaskInv, TaskOK
  <1>2. \A c \in Windows : ~Visits(k, c) BY DEF Visits
  <1>3. CASE kids = <<>>
    <2>1. UncoverNext(S, k.op, w, rect, kids) = Then(WND_InvalidateRect(S, w, rect), <<>>)
      BY <1>3 DEF UncoverNext
    <2>2. CASE rect \cap rcWindow[w] = {}
      <3>1. WND_InvalidateRect(S, w, rect) = S BY <2>2, EmptyTasks, MissedRect
      <3> QED BY <1>2, <2>1, <3>1, EmptyTasks, TaskStep
    <2>3. CASE rect \cap rcWindow[w] # {}
      <3>1. Grown(S, w, rect) = <<>> BY <1>1 DEF Grown
      <3>2. <<>> \o <<>> = <<>> BY EmptyTasks, ConcatEmptySeq
      <3>3. Invalidate(S, w, rect, <<>>) = Then(WND_InvalidateRect(S, w, rect), <<>>)
        BY <3>1, <3>2 DEF Invalidate
      <3>4. After(Invalidate(S, w, rect, <<>>), R, X, vis, old, stk, dc)
        BY <1>1, <1>2, <2>3, NextStep
      <3> QED BY <2>1, <3>3, <3>4
    <2> QED BY <2>2, <2>3
  <1>4. CASE kids # <<>>
    <2> DEFINE c == Head(kids)
               op == IF k.op = "uncovers" THEN "uncover" ELSE "expose"
               r == Left(S, rect, c)
               none == <<>>
               rest == Tail(kids)
               i == Task(op, c, rect, none)
               j == Task(k.op, w, r, rest)
    <2>1. UncoverNext(S, k.op, w, rect, kids) = Then(S, <<i, j>>)
      BY <1>4 DEF UncoverNext
    <2>2. c \in Windows /\ rest \in Seq(Windows) BY <1>1, <1>4, HeadTailProperties
    <2>3. op \in {"uncover", "expose"} /\ op \in Ops BY DEF Ops
    <2>4. r \in SUBSET Nat /\ IsRect(r) BY <1>1, LeftFacts
    <2>5. none \in Seq(Windows) BY EmptySeq
    <2> HIDE DEF c, op, r, none, rest
    <2>6. i \in Tasks /\ i.op = op /\ i.win = c /\ i.rect = rect
      BY <1>1, <2>2, <2>3, <2>5, TaskType
    <2>7. j \in Tasks /\ j.op = k.op /\ j.win = w /\ j.rect = r
      BY <1>1, <2>2, <2>4, TaskType
    <2> HIDE DEF i, j
    <2>8. TaskOK(S, i, vis, old) BY <1>1, <2>3, <2>6 DEF TaskOK
    <2>9. TaskOK(S, j, vis, old) BY <1>1, <2>4, <2>7 DEF TaskOK
    <2>10. <<i, j>> \in Seq(Tasks) /\ ToSet(<<i, j>>) = {i, j} BY <2>6, <2>7, TwoTasks
    <2>11. Plain(ToSet(<<i, j>>)) BY <2>3, <2>6, <2>7, <2>10 DEF Plain
    <2>12. \A x \in ToSet(<<i, j>>) : TaskOK(S, x, vis, old) BY <2>8, <2>9, <2>10
    <2> QED BY <1>2, <2>1, <2>10, <2>11, <2>12, TaskStep
  <1> QED BY <1>3, <1>4

\* WND_Expose of window w, for the event window ev.
LEMMA ExposeFacts ==
  ASSUME NEW S, NEW k, NEW R, NEW X, NEW vis, NEW old, NEW stk, NEW dc,
         Before(S, k, R, X, vis, old, stk, dc), Plain({k} \cup R),
         \A c \in Windows : ~Visits(k, c), NEW w \in Windows, NEW ev \in Windows,
         ev = w \/ (ev # Root /\ w = Parent(ev))
  PROVE  After(WND_Expose(S, w, k.rect, ev), R, X, vis, old, stk, dc)
  <1> DEFINE rect == k.rect
             r == rect \cap rcWindow[w]
  <1>1. S \in Screens /\ rect \in SUBSET Nat /\ IsRect(rect)
    BY TaskFields DEF Before, TaskInv, TaskOK
  <1>2. r \in SUBSET Nat /\ IsRect(r) BY <1>1, Types, MeetFacts
  <1>3. CASE w \notin S.map \/ r = {}
    <2>1. WND_Expose(S, w, rect, ev) = Then(S, <<>>) BY <1>3 DEF WND_Expose
    <2> QED BY <2>1, EmptyTasks, TaskStep
  <1>4. CASE w \in S.map /\ r # {} /\ w \notin Clip
    <2> DEFINE todo == Each("uncover", Children[w], r)
    <2>1. WND_Expose(S, w, rect, ev) = Invalidate(S, w, r, todo) BY <1>4 DEF WND_Expose
    <2>2. r \cap rcWindow[w] = r OBVIOUS
    <2> HIDE DEF r
    <2>3. "uncover" \in KidOps /\ r \in SUBSET r BY DEF KidOps
    <2>4. Continue(S, w, r, Each("uncover", Children[w], r), vis, old)
      BY <1>2, <2>3, KidTasks
    <2> HIDE DEF todo
    <2>5. After(Invalidate(S, w, r, todo), R, X, vis, old, stk, dc)
      BY <1>2, <1>4, <2>2, <2>4, NextStep DEF todo
    <2> QED BY <2>1, <2>5
  <1>5. CASE w \in S.map /\ r # {} /\ w \in Clip
    <2> DEFINE op == IF ev = w THEN "exposes" ELSE "above"
               j == Task(op, ev, r, Children[w])
    <2>1. WND_Expose(S, w, rect, ev) = Then(S, <<j>>) BY <1>5 DEF WND_Expose
    <2>2. op \in Ops /\ Children[w] \in Seq(Windows) BY KidTypes DEF Ops
    <2>3. op \in {"exposes", "above"} OBVIOUS
    <2>4. (op = "exposes" => ev = w) /\ (op = "above" => ev # Root /\ Parent(ev) = w)
      OBVIOUS
    <2> HIDE DEF r, op
    <2>5. j \in Tasks /\ j.op = op /\ j.win = ev /\ j.rect = r
      BY <1>2, <2>2, TaskType
    <2> HIDE DEF j
    <2>6. TaskOK(S, j, vis, old) BY <1>2, <1>5, <2>3, <2>4, <2>5 DEF TaskOK
    <2> QED BY <2>1, <2>3, <2>5, <2>6, OneTaskStep
  <1> QED BY <1>3, <1>4, <1>5

\* WND_Expose, without an event window and with one.
LEMMA ExposeStep ==
  ASSUME NEW S, NEW k, NEW R, NEW X, NEW vis, NEW old, NEW stk, NEW dc,
         Before(S, k, R, X, vis, old, stk, dc), Plain({k} \cup R)
  PROVE  /\ k.op = "expose" => After(WND_Expose(S, k.win, k.rect, k.win), R, X, vis, old, stk, dc)
         /\ k.op = "left" =>
              After(WND_Expose(S, Parent(k.win), k.rect, k.win), R, X, vis, old, stk, dc)
  <1>1. k.win \in Windows BY TaskFields DEF Before
  <1>2. CASE k.op = "expose"
    <2>1. \A c \in Windows : ~Visits(k, c) BY <1>2 DEF Visits
    <2> QED BY <1>1, <1>2, <2>1, ExposeFacts
  <1>3. CASE k.op = "left"
    <2>1. \A c \in Windows : ~Visits(k, c) BY <1>3 DEF Visits
    <2>2. k.win # Root BY <1>3 DEF Before, TaskInv, TaskOK
    <2>3. Parent(k.win) \in Windows BY <1>1, <2>2, ParentFacts
    <2>4. After(WND_Expose(S, Parent(k.win), k.rect, k.win), R, X, vis, old, stk, dc)
      BY <1>1, <2>1, <2>2, <2>3, ExposeFacts
    <2> QED BY <1>3, <2>4
  <1> QED BY <1>2, <1>3

\* The loop over the windows above the event window.
LEMMA AboveStep ==
  ASSUME NEW S, NEW k, NEW R, NEW X, NEW vis, NEW old, NEW stk, NEW dc,
         Before(S, k, R, X, vis, old, stk, dc), Plain({k} \cup R), k.op = "above"
  PROVE  After(ExposeAbove(S, k.win, k.rect, k.kids), R, X, vis, old, stk, dc)
  <1> DEFINE ev == k.win
             rect == k.rect
             kids == k.kids
  <1>1. /\ S \in Screens /\ ev \in Windows /\ rect \in SUBSET Nat /\ IsRect(rect)
        /\ kids \in Seq(Windows) /\ ev # Root
        /\ Parent(ev) \in S.map /\ Parent(ev) \in Clip
    BY TaskFields DEF Before, TaskInv, TaskOK
  <1>2. \A c \in Windows : ~Visits(k, c) BY DEF Visits
  <1>3. Parent(ev) \in Windows BY <1>1, ParentFacts
  <1>4. CASE kids = <<>>
    <2>1. ExposeAbove(S, ev, rect, kids) = Then(S, <<>>) BY <1>4 DEF ExposeAbove
    <2> QED BY <1>2, <2>1, EmptyTasks, TaskStep
  <1>5. CASE kids # <<>>
    <2>1. Head(kids) \in Windows /\ Tail(kids) \in Seq(Windows)
      BY <1>1, <1>5, HeadTailProperties
    <2>2. CASE Head(kids) = ev
      <3> DEFINE rest == Tail(kids)
                 j == Task("exposes", Parent(ev), rect, rest)
      <3>1. ExposeAbove(S, ev, rect, kids) = Then(S, <<j>>) BY <1>5, <2>2 DEF ExposeAbove
      <3>2. "exposes" \in Ops /\ rest \in Seq(Windows) BY <2>1 DEF Ops
      <3> HIDE DEF rest
      <3>3. j \in Tasks /\ j.op = "exposes" /\ j.win = Parent(ev) /\ j.rect = rect
        BY <1>1, <1>3, <3>2, TaskType
      <3> HIDE DEF j
      <3>4. TaskOK(S, j, vis, old) BY <1>1, <3>3 DEF TaskOK
      <3> QED BY <1>2, <3>1, <3>3, <3>4, OneTaskStep
    <2>3. CASE Head(kids) # ev
      <3> DEFINE r == Left(S, rect, Head(kids))
                 rest == Tail(kids)
                 j == Task("above", ev, r, rest)
      <3>1. ExposeAbove(S, ev, rect, kids) = Then(S, <<j>>) BY <1>5, <2>3 DEF ExposeAbove
      <3>2. "above" \in Ops /\ rest \in Seq(Windows) BY <2>1 DEF Ops
      <3>3. r \in SUBSET Nat /\ IsRect(r) BY <1>1, LeftFacts
      <3> HIDE DEF r, rest
      <3>4. j \in Tasks /\ j.op = "above" /\ j.win = ev /\ j.rect = r
        BY <1>1, <3>2, <3>3, TaskType
      <3> HIDE DEF j
      <3>5. TaskOK(S, j, vis, old) BY <1>1, <3>3, <3>4 DEF TaskOK
      <3> QED BY <1>2, <3>1, <3>4, <3>5, OneTaskStep
    <2> QED BY <2>2, <2>3
  <1> QED BY <1>4, <1>5

\* Task k shows window w.
Shows(S, k, w, vis, old) ==
  /\ w \in Windows \ {Root} /\ w \notin old /\ Parent(w) \in S.map
  /\ w \in vis /\ Showing(vis, old)
  /\ \A c \in Windows : Visits(k, c) <=> c = w
  /\ Reach(k) = rcWindow[w]

\* The task that is done now shows window w.
Appearing(S, k, R, X, vis, old, stk, dc, w) ==
  Before(S, k, R, X, vis, old, stk, dc) /\ Plain({k} \cup R) /\ Shows(S, k, w, vis, old)

\* The screen with the window on it, and the tasks that show its children.
WithMapped(S, w) == [S EXCEPT !.map = @ \cup {w}]

AppearKids(w) == Each("appear", Children[w], {})

\* A window is on the screen again; it is invalidated next.
LEMMA Mapping ==
  ASSUME NEW S, NEW k, NEW R, NEW X, NEW vis, NEW old, NEW stk, NEW dc,
         NEW w, Appearing(S, k, R, X, vis, old, stk, dc, w)
  PROVE  LET T == WithMapped(S, w) IN
         /\ T \in Screens /\ T.map = S.map \cup {w} /\ T.upd = S.upd
         /\ QueueInv(T) /\ AreaInv(T) /\ \A x \in Windows : x # w => Tidy(T, x)
         /\ rcWindow[w] = {} => Tidy(T, w)
         /\ Ordered(T, {k} \cup R, X) /\ Overdrawn(T, {k} \cup R, X)
         /\ MapInv(T, {k} \cup R, vis) /\ WaitInv(T, {k} \cup R, X)
         /\ DirtyInv(T, X) /\ DrawInv(T, X, stk, dc)
  <1> DEFINE Q == {k} \cup R
             T == WithMapped(S, w)
  <1>1. /\ S \in Screens /\ w \in Windows /\ w # Root /\ Parent(w) \in S.map
        /\ w \in vis
    BY DEF Appearing, Before, Shows
  <1>2. Core(S, Q, X, vis, stk, dc) BY DEF Appearing, Before
  <1>3. /\ T.flag = S.flag /\ T.upd = S.upd /\ T.que = S.que /\ T.num = S.num
        /\ T.dirty = S.dirty /\ T.map = S.map \cup {w}
    BY <1>1 DEF Screens, WithMapped
  <1>4. T = [x \in Fields |-> T[x]] BY <1>1, ScreenFields DEF WithMapped
  <1> HIDE DEF T, Q
  <1>5. T \in Screens BY <1>1, <1>3, <1>4, ScreenTypes, ScreenType
  <1>6. QueueInv(T) BY <1>1, <1>2, <1>3, <1>5, QueueSame DEF Core
  <1>7. AreaInv(T) BY <1>2, <1>3 DEF Core, RegionInv, AreaInv
  <1>8. \A x \in Windows : x # w => Tidy(T, x)
    BY <1>2, <1>3 DEF Core, RegionInv, Tidy
  <1>9. rcWindow[w] = {} => Tidy(T, w)
    BY <1>1, <1>2, <1>3 DEF Core, RegionInv, AreaInv, Tidy
  <1>10. Ordered(T, Q, X) BY <1>2, <1>3 DEF Core, Ordered, Under
  <1>11. Overdrawn(T, Q, X)
    <2> SUFFICES ASSUME NEW c \in T.map, Under(T, c), c \notin X
                 PROVE  \/ T.upd[Parent(c)] \cap rcWindow[c] \subseteq T.upd[c]
                        \/ \E j \in Q :
                             /\ Visits(j, c)
                             /\ T.upd[Parent(c)] \cap rcWindow[c] \subseteq T.upd[c] \cup Reach(j)
      BY DEF Overdrawn
    <2>1. CASE c \in S.map
      <3>1. Under(S, c) BY <1>3 DEF Under
      <3> QED BY <1>2, <1>3, <2>1, <3>1 DEF Core, Overdrawn
    <2>2. CASE c = w
      <3>1. k \in Q /\ Visits(k, c) /\ Reach(k) = rcWindow[c]
        BY <1>1, <2>2 DEF Q, Appearing, Shows
      <3> QED BY <3>1
    <2> QED BY <1>3, <2>1, <2>2
  <1>12. MapInv(T, Q, vis)
    <2> SUFFICES ASSUME NEW c \in T.map
                 PROVE  Destroys(Q, c) \/ (c \in vis /\ (c # Root => Parent(c) \in T.map))
      BY DEF MapInv
    <2>1. CASE c \in S.map BY <1>2, <1>3, <2>1 DEF Core, MapInv
    <2>2. CASE c = w BY <1>1, <1>3, <2>2
    <2> QED BY <1>3, <2>1, <2>2
  <1>13. WaitInv(T, Q, X) BY <1>2, <1>3 DEF Core, WaitInv
  <1>14. DirtyInv(T, X) BY <1>2, <1>3 DEF Core, DirtyInv
  <1>15. DrawInv(T, X, stk, dc) BY <1>2, <1>3 DEF Core, DrawInv
  <1> QED BY <1>3, <1>5, <1>6, <1>7, <1>8, <1>9, <1>10, <1>11, <1>12, <1>13, <1>14, <1>15
          DEF T, Q

\* The children that the window has on the screen are shown with it.
LEMMA AppearTasks ==
  ASSUME NEW S, NEW k, NEW R, NEW X, NEW vis, NEW old, NEW stk, NEW dc, NEW T,
         NEW w, Appearing(S, k, R, X, vis, old, stk, dc, w), T.map = S.map \cup {w}
  PROVE  LET todo == AppearKids(w) IN
         /\ todo \in Seq(Tasks) /\ Plain(ToSet(todo))
         /\ \A U : U.map = T.map => \A j \in ToSet(todo) : TaskOK(U, j, vis, old)
         /\ \A c \in ToSet(Children[w]) \cap T.map : \E j \in ToSet(todo) :
              Visits(j, c) /\ (rcWindow[w] \cap rcWindow[w]) \cap rcWindow[c] \subseteq Reach(j)
  <1> DEFINE todo == AppearKids(w)
  <1>1. /\ w \in Windows /\ w # Root /\ w \notin old /\ Showing(vis, old)
        /\ Core(S, {k} \cup R, X, vis, stk, dc)
    BY DEF Appearing, Before, Shows
  <1>2. "appear" \in Ops /\ Children[w] \in Seq(Windows) /\ {} \in SUBSET Nat
    BY <1>1, KidTypes DEF Ops
  <1>3. /\ todo \in Seq(Tasks)
        /\ ToSet(todo) = {Task("appear", c, {}, <<>>) : c \in ToSet(Children[w])}
    <2> DEFINE e == {}
    <2>1. e \in SUBSET Nat OBVIOUS
    <2> HIDE DEF e
    <2>2. /\ Each("appear", Children[w], e) \in Seq(Tasks)
          /\ ToSet(Each("appear", Children[w], e))
               = {Task("appear", c, e, <<>>) : c \in ToSet(Children[w])}
      BY <1>2, <2>1, EachFacts
    <2> QED BY <2>2 DEF e, AppearKids
  <1>4. \A c : /\ Task("appear", c, {}, <<>>).op = "appear"
               /\ Task("appear", c, {}, <<>>).win = c
               /\ Task("appear", c, {}, <<>>).rect = {}
    BY DEF Task
  <1> HIDE DEF todo
  <1>5. Plain(ToSet(todo)) BY <1>3, <1>4 DEF Plain
  <1>6. \A c \in ToSet(Children[w]) : c # Root /\ Parent(c) = w /\ c # w /\ c \in Windows
    BY <1>1, ChildFacts
  <1>7. IsRect({}) BY DEF IsRect
  <1>8. ASSUME NEW U, U.map = T.map, NEW j \in ToSet(todo) PROVE TaskOK(U, j, vis, old)
    <2>1. PICK c \in ToSet(Children[w]) : j = Task("appear", c, {}, <<>>) BY <1>3
    <2>2. j.op = "appear" /\ j.win = c /\ j.rect = {} BY <1>4, <2>1
    <2>3. c # Root /\ Parent(c) = w BY <1>6
    <2>4. c \notin old BY <1>1, <2>3 DEF Showing
    <2> QED BY <1>1, <1>7, <1>8, <2>2, <2>3, <2>4 DEF TaskOK
  <1>9. ASSUME NEW c \in ToSet(Children[w]) \cap T.map
        PROVE  \E j \in ToSet(todo) :
                 Visits(j, c) /\ (rcWindow[w] \cap rcWindow[w]) \cap rcWindow[c] \subseteq Reach(j)
    <2> DEFINE j == Task("appear", c, {}, <<>>)
    <2>1. c # Root /\ Parent(c) = w /\ c \in S.map BY <1>6
    <2>2. ~Destroys({k} \cup R, c) BY DEF Appearing, Destroys, Plain
    <2>3. c \in vis BY <1>1, <2>1, <2>2 DEF Core, MapInv
    <2>4. c \in visible BY <1>1, <2>1, <2>3 DEF Showing
    <2>5. j \in ToSet(todo) BY <1>3
    <2>6. j.op = "appear" /\ j.win = c BY <1>4
    <2> HIDE DEF j
    <2>7. Visits(j, c) /\ Reach(j) = rcWindow[c] BY <2>4, <2>6 DEF Visits, Reach
    <2> QED BY <2>5, <2>7
  <1> QED BY <1>3, <1>5, <1>8, <1>9 DEF todo

\* MapWindowTree.
LEMMA AppearStep ==
  ASSUME NEW S, NEW k, NEW R, NEW X, NEW vis, NEW old, NEW stk, NEW dc,
         NEW w, Appearing(S, k, R, X, vis, old, stk, dc, w)
  PROVE  After(Appear(S, w), R, X, vis, old, stk, dc)
  <1> DEFINE Q == {k} \cup R
             T == WithMapped(S, w)
             rect == rcWindow[w]
             todo == AppearKids(w)
             G == Grown(T, w, rect)
             y == Invalidate(T, w, rect, todo)
             P == ToSet(y.todo) \cup R
  <1>1. Appear(S, w) = y BY DEF Appear, WithMapped, AppearKids
  <1>2. /\ w \in Windows /\ S \in Screens /\ TaskInv(S, Q, vis, old)
        /\ IsRect(rect) /\ rect \in SUBSET Nat
    BY Types DEF Appearing, Before, Shows
  <1>3. /\ T \in Screens /\ T.map = S.map \cup {w}
        /\ QueueInv(T) /\ AreaInv(T) /\ \A x \in Windows : x # w => Tidy(T, x)
        /\ rcWindow[w] = {} => Tidy(T, w)
        /\ Ordered(T, Q, X) /\ Overdrawn(T, Q, X) /\ MapInv(T, Q, vis) /\ WaitInv(T, Q, X)
        /\ DirtyInv(T, X) /\ DrawInv(T, X, stk, dc)
    <2> HIDE DEF y, P, G, todo
    <2>1. /\ T \in Screens /\ T.map = S.map \cup {w} /\ T.upd = S.upd
          /\ QueueInv(T) /\ AreaInv(T) /\ \A x \in Windows : x # w => Tidy(T, x)
          /\ rcWindow[w] = {} => Tidy(T, w)
          /\ Ordered(T, {k} \cup R, X) /\ Overdrawn(T, {k} \cup R, X)
          /\ MapInv(T, {k} \cup R, vis) /\ WaitInv(T, {k} \cup R, X)
          /\ DirtyInv(T, X) /\ DrawInv(T, X, stk, dc)
      BY Mapping
    <2> QED BY <2>1
  <1> HIDE DEF T
  <1>4. /\ todo \in Seq(Tasks) /\ Plain(ToSet(todo))
        /\ \A U : U.map = T.map => \A j \in ToSet(todo) : TaskOK(U, j, vis, old)
        /\ \A c \in ToSet(Children[w]) \cap T.map : \E j \in ToSet(todo) :
             Visits(j, c) /\ (rect \cap rcWindow[w]) \cap rcWindow[c] \subseteq Reach(j)
    BY <1>3, AppearTasks
  <1> HIDE DEF todo
  <1>5. \A c \in Windows : Visits(k, c) => c = w /\ Reach(k) = rect BY DEF Appearing, Shows
  <1>6. CASE rect = {}
    <2>1. y = Then(T, todo) BY <1>4, <1>6, MissedRect
    <2>2. y.scr = T /\ y.todo = todo BY <2>1 DEF Then
    <2>3. RegionInv(T) BY <1>3, <1>6 DEF RegionInv
    <2>4. Core(T, Q, X, vis, stk, dc) BY <1>3, <2>3 DEF Core
    <2> DEFINE N == ToSet(todo)
    <2>5. \A j \in Q : \/ j \in N \cup R
                       \/ /\ j.op \notin {"destroy", "release"}
                          /\ \A c \in Windows : Visits(j, c) =>
                               Reach(j) \cap rcWindow[c] = {} \/ c \notin T.map \/ ~Under(T, c)
      BY <1>5, <1>6 DEF Appearing, Plain
    <2>6. \A j \in N : TaskOK(T, j, vis, old) BY <1>4
    <2>7. S.map \subseteq T.map BY <1>3
    <2>8. TaskInv(T, N \cup R, vis, old) BY <1>2, <1>4, <2>6, <2>7, PlainTasks DEF Appearing
    <2>9. \A j \in N \cup R : j.op # "destroy" BY <1>4 DEF Appearing, Plain
    <2> HIDE DEF Q, N
    <2>10. Core(T, N \cup R, X, vis, stk, dc) BY <1>3, <2>4, <2>5, ScreenTypes, DropCore
    <2> HIDE DEF y, P
    <2> QED BY <1>1, <1>3, <1>4, <2>2, <2>8, <2>9, <2>10 DEF After, N
  <1>7. CASE rect # {}
    <2>1. rect \cap rcWindow[w] # {} BY <1>7
    <2>2. G \in Seq(Tasks) /\ \A j \in ToSet(G) : j.op = "tree" /\ IsRect(j.rect)
      BY <1>2, <1>3, <2>1, GrownFacts
    <2> HIDE DEF G
    <2>3. y.todo = G \o todo BY DEF Invalidate, Then, G
    <2>4. G \o todo \in Seq(Tasks) /\ ToSet(G \o todo) = ToSet(G) \cup ToSet(todo)
      BY <1>4, <2>2, ConcatSet
    <2>5. Plain(ToSet(y.todo)) BY <1>4, <2>2, <2>3, <2>4 DEF Plain
    <2>6. Kept(Q, P, w, rect) BY <1>5 DEF Appearing, Kept, Plain
    <2>7. ToSet(y.todo) \subseteq P OBVIOUS
    <2>8. w \in T.map BY <1>3
    <2> HIDE DEF P, Q, rect
    <2>9. y.scr \in Screens /\ Core(y.scr, P, X, vis, stk, dc) /\ y.scr.map = T.map
      BY <1>2, <1>3, <1>4, <2>1, <2>6, <2>7, <2>8, InvalidateCore
    <2> HIDE DEF y
    <2>10. ASSUME NEW j \in ToSet(y.todo) PROVE TaskOK(y.scr, j, vis, old)
      <3>1. CASE j \in ToSet(G) BY <2>2, <3>1 DEF TaskOK
      <3>2. CASE j \in ToSet(todo) BY <1>4, <2>9, <3>2
      <3> QED BY <2>3, <2>4, <3>1, <3>2
    <2>11. S.map \subseteq y.scr.map BY <1>3, <2>9
    <2>12. TaskInv(y.scr, P, vis, old) BY <1>2, <2>5, <2>10, <2>11, PlainTasks DEF Appearing, P, Q
    <2>13. \A j \in ToSet(y.todo) \cup R : j.op # "destroy" BY <2>5 DEF Appearing, Plain
    <2> QED BY <1>1, <2>3, <2>4, <2>9, <2>12, <2>13 DEF After, P
  <1> QED BY <1>6, <1>7

\* WND_DestroyForPaint when its children are destroyed next.
LEMMA DestroyStep ==
  ASSUME NEW S, NEW k, NEW R, NEW X, NEW vis, NEW old, NEW stk, NEW dc,
         Before(S, k, R, X, vis, old, stk, dc), k.op = "destroy"
  PROVE  After(Destroy(S, k.win), R, X, vis, old, stk, dc)
  <1> DEFINE w == k.win
             Q == {k} \cup R
  <1>1. S \in Screens /\ k \in Tasks /\ w \in Windows /\ R \subseteq Tasks
    BY TaskFields DEF Before
  <1>2. Core(S, Q, X, vis, stk, dc) /\ TaskInv(S, Q, vis, old) BY DEF Before
  <1>3. \A j \in Q : j.op \in {"destroy", "left"} BY <1>2 DEF TaskInv
  <1>4. \A j \in Q : \A c : ~Visits(j, c) /\ j.op # "release" BY <1>3 DEF Visits
  <1>5. \A c : c # w /\ Destroys(Q, c) => Destroys(R, c) BY DEF Destroys
  <1> HIDE DEF Q
  <1>6. CASE w \notin S.map
    <2>1. Destroy(S, w) = Then(S, <<>>) BY <1>6 DEF Destroy
    <2>2. S.flag[w] = "NO" BY <1>1, <1>2, <1>6 DEF Core, RegionInv, Tidy
    <2>3. Ordered(S, R, X) BY <1>2, <1>4 DEF Core, Ordered
    <2>4. Overdrawn(S, R, X) BY <1>2, <1>4 DEF Core, Overdrawn
    <2>5. MapInv(S, R, vis) BY <1>2, <1>5, <1>6 DEF Core, MapInv
    <2>6. WaitInv(S, R, X)
      <3>1. ASSUME NEW c \in Windows \ {Root}, S.flag[c] = "WAIT"
            PROVE  S.flag[Parent(c)] # "NO" \/ c \in X \/ Destroys(R, c)
        <4>1. c # w BY <2>2, <3>1
        <4> QED BY <1>2, <1>4, <1>5, <3>1, <4>1 DEF Core, WaitInv
      <3> QED BY <1>2, <3>1 DEF Core, WaitInv
    <2>7. Core(S, R, X, vis, stk, dc) BY <1>2, <2>3, <2>4, <2>5, <2>6 DEF Core
    <2>8. TaskInv(S, R, vis, old) BY <1>2 DEF TaskInv, Q
    <2>9. ToSet(<<>>) = {} /\ <<>> \in Seq(Tasks) BY NoTasks
    <2>10. Then(S, <<>>).scr = S /\ Then(S, <<>>).todo = <<>> BY DEF Then
    <2> QED BY <1>1, <2>1, <2>7, <2>8, <2>9, <2>10 DEF After
  <1>7. CASE w \in S.map
    <2> DEFINE D == SetFlag(Dequeue(S, w), w, "NO")
               T == [D EXCEPT !.map = @ \ {w}, !.dirty[w] = {}]
               todo == Each("destroy", Children[w], {})
               P == ToSet(todo) \cup R
    <2>1. Destroy(S, w) = Then(T, todo) BY <1>7 DEF Destroy, WND_DestroyForPaint
    <2>2. "NO" \in Flags /\ QueueInv(S) BY <1>2 DEF Flags, Core
    <2>3. /\ D \in Screens /\ QueueInv(D) /\ D.flag = [S.flag EXCEPT ![w] = "NO"]
          /\ D.upd = S.upd /\ D.map = S.map /\ D.dirty = S.dirty
      BY <1>1, <2>2, DequeueFacts
    <2> HIDE DEF D
    <2>4. /\ T.flag = D.flag /\ T.upd = D.upd /\ T.que = D.que /\ T.num = D.num
          /\ T.map = D.map \ {w} /\ T.dirty = [D.dirty EXCEPT ![w] = {}]
      BY <2>3 DEF Screens
    <2>5. T = [x \in Fields |-> T[x]] BY <2>3, ScreenFields
    <2> HIDE DEF T
    <2>6. T.dirty \in [Windows -> SUBSET Nat]
      <3>1. D.dirty \in [Windows -> SUBSET Nat] /\ {} \in SUBSET Nat BY <2>3, ScreenTypes
      <3>2. \A x \in Windows : T.dirty[x] \in SUBSET Nat BY <2>4, <3>1
      <3>3. T.dirty = [x \in Windows |-> T.dirty[x]] BY <2>4, <3>1
      <3> QED BY <3>2, <3>3
    <2>7. T \in Screens BY <2>3, <2>4, <2>5, <2>6, ScreenTypes, ScreenType
    <2>8. QueueInv(T) BY <2>3, <2>4, <2>7, QueueSame
    <2>9. /\ \A x \in Windows : T.flag[x] = IF x = w THEN "NO" ELSE S.flag[x]
          /\ T.upd = S.upd /\ T.map = S.map \ {w}
          /\ \A x \in Windows : T.dirty[x] = IF x = w THEN {} ELSE S.dirty[x]
      BY <1>1, <2>3, <2>4, ScreenTypes
    <2>10. /\ todo \in Seq(Tasks)
           /\ ToSet(todo) = {Task("destroy", c, {}, <<>>) : c \in ToSet(Children[w])}
      <3> DEFINE e == {}
      <3>1. e \in SUBSET Nat /\ "destroy" \in Ops /\ Children[w] \in Seq(Windows)
        BY <1>1, KidTypes DEF Ops
      <3> HIDE DEF e
      <3>2. /\ Each("destroy", Children[w], e) \in Seq(Tasks)
            /\ ToSet(Each("destroy", Children[w], e))
                 = {Task("destroy", c, e, <<>>) : c \in ToSet(Children[w])}
        BY <3>1, EachFacts
      <3> QED BY <3>2 DEF e
    <2>11. \A c : /\ Task("destroy", c, {}, <<>>).op = "destroy"
                  /\ Task("destroy", c, {}, <<>>).win = c
                  /\ Task("destroy", c, {}, <<>>).rect = {}
      BY DEF Task
    <2> HIDE DEF todo
    <2>12. \A c \in ToSet(Children[w]) : Destroys(P, c) BY <2>10, <2>11 DEF Destroys
    <2>13. \A j \in ToSet(todo) : j.op = "destroy" /\ j.rect = {} BY <2>10, <2>11
    <2>14. \A c : c # w /\ Destroys(Q, c) => Destroys(P, c) BY <1>5 DEF Destroys
    <2> HIDE DEF P
    <2>15. RegionInv(T)
      <3>1. AreaInv(T) BY <1>2, <2>9 DEF Core, RegionInv, AreaInv
      <3>2. \A x \in Windows : Tidy(T, x) BY <1>2, <2>9 DEF Core, RegionInv, Tidy
      <3> QED BY <3>1, <3>2 DEF RegionInv
    <2>16. \A c \in Windows : Under(T, c) => Under(S, c) /\ Parent(c) # w
      <3> SUFFICES ASSUME NEW c \in Windows, Under(T, c) PROVE Under(S, c) /\ Parent(c) # w
        OBVIOUS
      <3>1. Parent(c) \in Windows BY ParentFacts DEF Under
      <3> QED BY <2>9, <3>1 DEF Under
    <2>17. Ordered(T, P, X)
      <3> SUFFICES ASSUME NEW c \in Windows, Under(T, c),
                          T.flag[c] = "QUEUE" \/ (T.flag[c] = "DRAWING" /\ c \notin X),
                          T.upd[c] \cap T.upd[Parent(c)] # {}
                   PROVE  FALSE
        BY DEF Ordered
      <3>1. Under(S, c) /\ T.flag[c] = S.flag[c] BY <2>9, <2>16
      <3> QED BY <1>2, <1>4, <2>9, <3>1 DEF Core, Ordered
    <2>18. Overdrawn(T, P, X)
      <3> SUFFICES ASSUME NEW c \in T.map, Under(T, c), c \notin X
                   PROVE  T.upd[Parent(c)] \cap rcWindow[c] \subseteq T.upd[c]
        BY DEF Overdrawn
      <3>1. c \in Windows /\ c \in S.map BY <1>1, <2>9, ScreenTypes
      <3>2. Under(S, c) BY <2>16, <3>1
      <3> QED BY <1>2, <1>4, <2>9, <3>1, <3>2 DEF Core, Overdrawn
    <2>19. MapInv(T, P, vis)
      <3> SUFFICES ASSUME NEW c \in T.map, ~Destroys(P, c)
                   PROVE  c \in vis /\ (c # Root => Parent(c) \in T.map)
        BY DEF MapInv
      <3>1. c \in Windows /\ c \in S.map /\ c # w BY <1>1, <2>9, ScreenTypes
      <3>2. ~Destroys(Q, c) BY <2>14, <3>1
      <3>3. c \in vis /\ (c # Root => Parent(c) \in S.map)
        BY <1>2, <3>1, <3>2 DEF Core, MapInv
      <3>4. c # Root => c \in ToSet(Children[Parent(c)]) BY <3>1, ParentFacts
      <3>5. c # Root => Parent(c) # w BY <2>12, <3>4
      <3> QED BY <2>9, <3>3, <3>5
    <2>20. WaitInv(T, P, X)
      <3>1. T.flag[Root] # "WAIT" BY <1>2, <2>9, Types DEF Core, WaitInv
      <3>2. ASSUME NEW c \in Windows \ {Root}, T.flag[c] = "WAIT"
            PROVE  T.flag[Parent(c)] # "NO" \/ c \in X \/ Destroys(P, c)
        <4>1. c # w /\ S.flag[c] = "WAIT" BY <2>9, <3>2
        <4>2. Parent(c) \in Windows /\ c \in ToSet(Children[Parent(c)]) BY ParentFacts
        <4>3. S.flag[Parent(c)] # "NO" \/ c \in X \/ Destroys(Q, c)
          BY <1>2, <1>4, <4>1 DEF Core, WaitInv
        <4>4. CASE Parent(c) = w BY <2>12, <4>2, <4>4
        <4>5. CASE Parent(c) # w BY <2>9, <2>14, <4>1, <4>2, <4>3, <4>5
        <4> QED BY <4>4, <4>5
      <3> QED BY <3>1, <3>2 DEF WaitInv
    <2>21. DirtyInv(T, X) BY <1>2, <2>9 DEF Core, DirtyInv
    <2>22. DrawInv(T, X, stk, dc)
      <3> SUFFICES ASSUME NEW x \in Windows \ X, T.flag[x] = "DRAWING"
                   PROVE  \E kind \in PaintKinds :
                            /\ Focus(stk[Owner[x]], x, kind)
                            /\ kind = "nc" /\ x # Root => T.dirty[x] \subseteq rcClient[x]
                            /\ kind = "begun" => x \in dc /\ (x # Root => T.dirty[x] = {})
        BY DEF DrawInv
      <3>1. S.flag[x] = "DRAWING" /\ T.dirty[x] = S.dirty[x] BY <2>9
      <3> QED BY <1>2, <3>1 DEF Core, DrawInv
    <2>23. Core(T, P, X, vis, stk, dc)
      BY <2>8, <2>15, <2>17, <2>18, <2>19, <2>20, <2>21, <2>22 DEF Core
    <2>24. TaskInv(T, P, vis, old)
      <3>1. IsRect({}) BY DEF IsRect
      <3>2. \A j \in ToSet(todo) : TaskOK(T, j, vis, old) BY <2>13, <3>1 DEF TaskOK
      <3>3. \A j \in R : TaskOK(T, j, vis, old)
        <4>1. \A j \in R : TaskOK(S, j, vis, old) /\ j.op \in {"destroy", "left"}
          BY <1>2, <1>3 DEF TaskInv, Q
        <4> QED BY <4>1 DEF TaskOK
      <3>4. \A j \in P : j.op \in {"destroy", "left"} BY <1>3, <2>13 DEF P, Q
      <3> QED BY <3>2, <3>3, <3>4 DEF TaskInv, P
    <2>25. Then(T, todo).scr = T /\ Then(T, todo).todo = todo BY DEF Then
    <2> QED BY <2>1, <2>7, <2>10, <2>13, <2>23, <2>24, <2>25 DEF After, P
  <1> QED BY <1>6, <1>7

\* The loop of WND_EndPaint.
LEMMA ReleaseStep ==
  ASSUME NEW S, NEW k, NEW R, NEW X, NEW vis, NEW old, NEW stk, NEW dc,
         Before(S, k, R, X, vis, old, stk, dc), k.op = "release"
  PROVE  After(Then(Release(S, k.win), <<>>), R, X, vis, old, stk, dc)
  <1> DEFINE w == k.win
             Q == {k} \cup R
             T == Release(S, w)
  <1>1. /\ S \in Screens /\ w \in Windows /\ w # Root /\ S.flag[Parent(w)] = "NO"
        /\ Parent(w) \in Windows /\ Parent(w) # w
    BY TaskFields, ParentFacts DEF Before, TaskInv, TaskOK
  <1>2. Core(S, Q, X, vis, stk, dc) /\ TaskInv(S, Q, vis, old) BY DEF Before
  <1>3. \A j \in Q : j.op = "release" /\ Parent(j.win) = Parent(w) BY <1>2 DEF TaskInv
  <1>4. \A c : \A j \in Q : ~Visits(j, c) BY <1>3 DEF Visits
  <1>5. \A c : ~Destroys(Q, c) BY <1>3 DEF Destroys
  <1>6. \A j \in Q : j \in R \/ j.win = w OBVIOUS
  <1>7. \A j \in R : j \in Q OBVIOUS
  <1> HIDE DEF Q, T
  <1>8. /\ T \in Screens /\ QueueInv(T) /\ T.upd = S.upd /\ T.map = S.map /\ T.dirty = S.dirty
        /\ \A x \in Windows : T.flag[x] = IF x = w /\ S.flag[w] = "WAIT" THEN "QUEUE" ELSE S.flag[x]
    <2>1. CASE S.flag[w] = "WAIT"
      <3> DEFINE nc == S.upd[w] \cap rcClient[w] = {}
      <3>1. w \in S.map BY <1>1, <1>2, <2>1 DEF Core, RegionInv, Tidy
      <3>2. T = Enqueue(S, w, nc) BY <2>1, <3>1 DEF T, Release
      <3>3. nc \in BOOLEAN /\ QueueInv(S) /\ S.flag[w] # "QUEUE" BY <1>2, <2>1 DEF Core
      <3> HIDE DEF nc
      <3>4. /\ Enqueue(S, w, nc) \in Screens /\ QueueInv(Enqueue(S, w, nc))
            /\ Enqueue(S, w, nc).flag = [S.flag EXCEPT ![w] = "QUEUE"]
            /\ Enqueue(S, w, nc).upd = S.upd /\ Enqueue(S, w, nc).map = S.map
            /\ Enqueue(S, w, nc).dirty = S.dirty
        BY <1>1, <3>3, EnqueueFacts
      <3>5. \A x \in Windows :
              T.flag[x] = IF x = w /\ S.flag[w] = "WAIT" THEN "QUEUE" ELSE S.flag[x]
        BY <1>1, <2>1, <3>2, <3>4, ScreenTypes
      <3> QED BY <3>2, <3>4, <3>5
    <2>2. CASE S.flag[w] # "WAIT"
      <3>1. T = S BY <2>2 DEF T, Release
      <3> QED BY <1>1, <1>2, <2>2, <3>1 DEF Core
    <2> QED BY <2>1, <2>2
  <1>9. RegionInv(T)
    <2>1. AreaInv(T) BY <1>2, <1>8 DEF Core, RegionInv, AreaInv
    <2>2. \A x \in Windows : Tidy(T, x) BY <1>2, <1>8 DEF Core, RegionInv, Tidy
    <2> QED BY <2>1, <2>2 DEF RegionInv
  <1>10. \A c \in Windows : Under(T, c) => Under(S, c) /\ c # w
    <2> SUFFICES ASSUME NEW c \in Windows, Under(T, c) PROVE Under(S, c) /\ c # w
      OBVIOUS
    <2>1. Parent(c) \in Windows BY ParentFacts DEF Under
    <2>2. S.flag[Parent(c)] # "NO" BY <1>8, <2>1 DEF Under
    <2> QED BY <1>1, <2>2 DEF Under
  <1>11. Ordered(T, R, X)
    <2> SUFFICES ASSUME NEW c \in Windows, Under(T, c),
                        T.flag[c] = "QUEUE" \/ (T.flag[c] = "DRAWING" /\ c \notin X),
                        T.upd[c] \cap T.upd[Parent(c)] # {}
                 PROVE  FALSE
      BY DEF Ordered
    <2>1. Under(S, c) /\ T.flag[c] = S.flag[c] BY <1>8, <1>10
    <2> QED BY <1>2, <1>4, <1>8, <2>1 DEF Core, Ordered
  <1>12. Overdrawn(T, R, X)
    <2> SUFFICES ASSUME NEW c \in T.map, Under(T, c), c \notin X
                 PROVE  T.upd[Parent(c)] \cap rcWindow[c] \subseteq T.upd[c]
      BY DEF Overdrawn
    <2>1. c \in Windows /\ c \in S.map BY <1>1, <1>8, ScreenTypes
    <2>2. Under(S, c) BY <1>10, <2>1
    <2> QED BY <1>2, <1>4, <1>8, <2>1, <2>2 DEF Core, Overdrawn
  <1>13. MapInv(T, R, vis) BY <1>2, <1>5, <1>8 DEF Core, MapInv
  <1>14. WaitInv(T, R, X)
    <2>1. T.flag[Root] # "WAIT" BY <1>1, <1>2, <1>8, Types DEF Core, WaitInv
    <2>2. ASSUME NEW c \in Windows \ {Root}, T.flag[c] = "WAIT"
          PROVE  \/ T.flag[Parent(c)] # "NO" \/ c \in X
                 \/ \E j \in R : j.op = "release" /\ j.win = c
      <3>1. c # w /\ S.flag[c] = "WAIT" BY <1>8, <2>2
      <3>2. Parent(c) \in Windows BY ParentFacts
      <3>3. \/ S.flag[Parent(c)] # "NO" \/ c \in X
            \/ \E j \in Q : j.op = "release" /\ j.win = c
        BY <1>2, <1>5, <3>1 DEF Core, WaitInv
      <3>4. S.flag[Parent(c)] # "NO" => T.flag[Parent(c)] # "NO" BY <1>8, <3>2
      <3> QED BY <1>6, <3>1, <3>3, <3>4
    <2> QED BY <2>1, <2>2 DEF WaitInv
  <1>15. DirtyInv(T, X) BY <1>2, <1>8 DEF Core, DirtyInv
  <1>16. DrawInv(T, X, stk, dc)
    <2> SUFFICES ASSUME NEW x \in Windows \ X, T.flag[x] = "DRAWING"
                 PROVE  \E kind \in PaintKinds :
                          /\ Focus(stk[Owner[x]], x, kind)
                          /\ kind = "nc" /\ x # Root => T.dirty[x] \subseteq rcClient[x]
                          /\ kind = "begun" => x \in dc /\ (x # Root => T.dirty[x] = {})
      BY DEF DrawInv
    <2>1. S.flag[x] = "DRAWING" /\ T.dirty[x] = S.dirty[x] BY <1>8
    <2> QED BY <1>2, <2>1 DEF Core, DrawInv
  <1>17. Core(T, R, X, vis, stk, dc)
    BY <1>8, <1>9, <1>11, <1>12, <1>13, <1>14, <1>15, <1>16 DEF Core
  <1>18. TaskInv(T, R, vis, old)
    <2>1. T.flag[Parent(w)] = "NO" BY <1>1, <1>8
    <2>2. \A j \in R : TaskOK(T, j, vis, old)
      <3>1. \A j \in R : TaskOK(S, j, vis, old) /\ j.op = "release" /\ Parent(j.win) = Parent(w)
        BY <1>2, <1>3, <1>7 DEF TaskInv
      <3> QED BY <2>1, <3>1 DEF TaskOK
    <2>3. \A j \in R : j.op = "release" /\ Parent(j.win) = Parent(w) BY <1>3, <1>7
    <2> QED BY <2>2, <2>3 DEF TaskInv
  <1>19. Then(T, <<>>).scr = T /\ Then(T, <<>>).todo = <<>> BY DEF Then
  <1>20. ToSet(<<>>) = {} /\ <<>> \in Seq(Tasks) BY NoTasks
  <1>21. After(Then(T, <<>>), R, X, vis, old, stk, dc)
    BY <1>8, <1>17, <1>18, <1>19, <1>20 DEF After
  <1> QED BY <1>21 DEF T

-----------------------------------------------------------------------------
(* A step of a call keeps the invariant, and so does the call.             *)

\* Windows that go away do so before anything is exposed.
LEMMA DestroysConcat ==
  ASSUME NEW q \in Seq(Tasks), q # <<>>, DestroysFirst(q), NEW todo \in Seq(Tasks),
         \/ \A j \in ToSet(todo) : j.op = "destroy"
         \/ \A j \in ToSet(todo) \cup ToSet(Tail(q)) : j.op # "destroy"
  PROVE  DestroysFirst(todo \o Tail(q))
  <1> DEFINE r == todo \o Tail(q)
  <1>1. /\ Tail(q) \in Seq(Tasks) /\ Len(q) \in Nat \ {0} /\ Len(Tail(q)) = Len(q) - 1
        /\ \A i \in 1 .. Len(q) - 1 : Tail(q)[i] = q[i + 1]
    BY HeadTailSet
  <1>2. /\ r \in Seq(Tasks) /\ ToSet(r) = ToSet(todo) \cup ToSet(Tail(q))
    BY <1>1, ConcatSet
  <1>3. /\ Len(todo) \in Nat /\ Len(r) = Len(todo) + (Len(q) - 1)
        /\ \A i \in 1 .. Len(r) : r[i] = IF i <= Len(todo) THEN todo[i] ELSE Tail(q)[i - Len(todo)]
    <2> DEFINE p == Tail(q)
    <2>1. p \in Seq(Tasks) /\ Len(p) = Len(q) - 1 BY <1>1
    <2> HIDE DEF p
    <2>2. /\ Len(todo \o p) = Len(todo) + Len(p)
          /\ \A i \in 1 .. Len(todo) + Len(p) :
               (todo \o p)[i] = IF i <= Len(todo) THEN todo[i] ELSE p[i - Len(todo)]
      BY <2>1, ConcatProperties
    <2>3. Len(todo) \in Nat BY LenProperties
    <2> QED BY <2>1, <2>2, <2>3 DEF p
  <1>4. DOMAIN r = 1 .. Len(r) /\ DOMAIN q = 1 .. Len(q) BY <1>2, LenProperties
  <1> HIDE DEF r
  <1>5. CASE \A j \in ToSet(todo) \cup ToSet(Tail(q)) : j.op # "destroy"
    <2>1. \A i \in 1 .. Len(r) : r[i] \in ToSet(r) BY <1>2, SetMember
    <2>2. \A i \in 1 .. Len(r) : r[i].op # "destroy" BY <1>2, <1>5, <2>1
    <2> QED BY <1>4, <2>2 DEF DestroysFirst, r
  <1>6. CASE \A j \in ToSet(todo) : j.op = "destroy"
    <2> SUFFICES ASSUME NEW j \in 1 .. Len(r), r[j].op = "destroy", NEW i \in 1 .. j
                 PROVE  r[i].op = "destroy"
      BY <1>4 DEF DestroysFirst, r
    <2>1. i \in 1 .. Len(r) BY <1>1, <1>3
    <2>2. CASE i <= Len(todo)
      <3>1. i \in 1 .. Len(todo) BY <1>3, <2>1, <2>2
      <3>2. todo[i] \in ToSet(todo) BY <3>1, SetMember
      <3> QED BY <1>3, <1>6, <2>1, <2>2, <3>2
    <2>3. CASE ~(i <= Len(todo))
      <3>1. /\ ~(j <= Len(todo))
            /\ i - Len(todo) \in 1 .. Len(q) - 1 /\ j - Len(todo) \in 1 .. Len(q) - 1
        BY <1>1, <1>3, <2>1, <2>3
      <3>2. r[i] = Tail(q)[i - Len(todo)] /\ r[j] = Tail(q)[j - Len(todo)]
        BY <1>3, <2>1, <2>3, <3>1
      <3>3. /\ r[i] = q[(i - Len(todo)) + 1] /\ r[j] = q[(j - Len(todo)) + 1]
        BY <1>1, <3>1, <3>2
      <3>4. (j - Len(todo)) + 1 \in DOMAIN q /\ (i - Len(todo)) + 1 \in 1 .. (j - Len(todo)) + 1
        BY <1>1, <1>3, <1>4, <2>1, <3>1
      <3> QED BY <3>3, <3>4 DEF DestroysFirst
    <2> QED BY <2>2, <2>3
  <1> QED BY <1>5, <1>6

\* Each kind of task keeps the invariant of a call in progress.
LEMMA DoStep ==
  ASSUME ClipsAbove,
         NEW S, NEW k, NEW R, NEW X, NEW vis, NEW old, NEW stk, NEW dc,
         Before(S, k, R, X, vis, old, stk, dc),
         k.op \in {"destroy", "release"} \/ Plain({k} \cup R)
  PROVE  After(Do(S, k), R, X, vis, old, stk, dc)
  <1>1. k.op \in Ops BY TaskFields DEF Before
  <1>2. CASE k.op = "tree"
    <2>1. Do(S, k) = WND_InvalidateTree(S, k.win, k.rect) BY <1>2 DEF Do
    <2> QED BY <1>2, <2>1, TreeStep
  <1>3. CASE k.op \in {"below", "all"}
    <2>1. Do(S, k) = InvalidateBelow(S, k.op, k.win, k.rect) BY <1>3 DEF Do
    <2> QED BY <1>3, <2>1, BelowStep
  <1>4. CASE k.op = "uncover"
    <2>1. Do(S, k) = InvalidateWindowTree(S, k.win, k.rect) BY <1>4 DEF Do
    <2> QED BY <1>4, <2>1, UncoverStep
  <1>5. CASE k.op \in {"uncovers", "exposes"}
    <2>1. Do(S, k) = UncoverNext(S, k.op, k.win, k.rect, k.kids) BY <1>5 DEF Do
    <2> QED BY <1>5, <2>1, UncoverNextStep
  <1>6. CASE k.op = "expose"
    <2>1. Do(S, k) = WND_Expose(S, k.win, k.rect, k.win) BY <1>6 DEF Do
    <2> QED BY <1>6, <2>1, ExposeStep
  <1>7. CASE k.op = "left"
    <2>1. Do(S, k) = WND_Expose(S, Parent(k.win), k.rect, k.win) BY <1>7 DEF Do
    <2> QED BY <1>7, <2>1, ExposeStep
  <1>8. CASE k.op = "above"
    <2>1. Do(S, k) = ExposeAbove(S, k.win, k.rect, k.kids) BY <1>8 DEF Do
    <2> QED BY <1>8, <2>1, AboveStep
  <1>9. CASE k.op = "destroy"
    <2>1. Do(S, k) = Destroy(S, k.win) BY <1>9 DEF Do
    <2> QED BY <1>9, <2>1, DestroyStep
  <1>10. CASE k.op = "appear" /\ k.win \in visible
    <2>1. Do(S, k) = Appear(S, k.win) BY <1>10 DEF Do
    <2>2. k.win \in Windows /\ Plain({k} \cup R) BY <1>10, TaskFields DEF Before
    <2>3. \A c \in Windows : Visits(k, c) <=> c = k.win BY <1>10 DEF Visits
    <2>4. Reach(k) = rcWindow[k.win] BY <1>10 DEF Reach
    <2>5. /\ k.win # Root /\ k.win \notin old /\ Parent(k.win) \in S.map
          /\ Showing(vis, old)
      BY <1>10 DEF Before, TaskInv, TaskOK
    <2>6. Shows(S, k, k.win, vis, old)
      BY <1>10, <2>2, <2>3, <2>4, <2>5 DEF Shows, Showing
    <2>7. Appearing(S, k, R, X, vis, old, stk, dc, k.win) BY <2>2, <2>6 DEF Appearing
    <2> QED BY <2>1, <2>7, AppearStep
  <1>11. CASE k.op = "appear" /\ k.win \notin visible
    <2>1. Do(S, k) = Then(S, <<>>) BY <1>11 DEF Do
    <2>2. \A c \in Windows : ~Visits(k, c) BY <1>11 DEF Visits
    <2>3. Plain({k} \cup R) BY <1>11
    <2> QED BY <2>1, <2>2, <2>3, EmptyTasks, TaskStep
  <1>12. CASE k.op = "release"
    <2>1. Do(S, k) = Then(Release(S, k.win), <<>>) BY <1>12 DEF Do
    <2> QED BY <1>12, <2>1, ReleaseStep
  <1> QED BY <1>1, <1>2, <1>3, <1>4, <1>5, <1>6, <1>7, <1>8, <1>9, <1>10, <1>11, <1>12 DEF Ops

\* A step of a call keeps it.
LEMMA StepPreserves ==
  ASSUME ClipsAbove, NEW x, NEW X, NEW vis, NEW old, NEW stk, NEW dc,
         StepInv(x, X, vis, old, stk, dc), x.todo # <<>>
  PROVE  StepInv(Step(x), X, vis, old, stk, dc)
  <1> DEFINE S == x.scr
             q == x.todo
             k == Head(q)
             R == ToSet(Tail(q))
             y == Do(S, k)
             r == y.todo \o Tail(q)
  <1>1. /\ S \in Screens /\ q \in Seq(Tasks)
        /\ Core(S, ToSet(q), X, vis, stk, dc) /\ TaskInv(S, ToSet(q), vis, old)
        /\ DestroysFirst(q) /\ q # <<>>
    BY DEF StepInv, Running
  <1>2. Step(x) = Then(y.scr, r) BY DEF Step
  <1> HIDE DEF S, q
  <1>3. /\ k \in Tasks /\ Tail(q) \in Seq(Tasks) /\ ToSet(q) = {k} \cup R
        /\ Len(q) \in Nat \ {0} /\ Len(Tail(q)) = Len(q) - 1 /\ k = q[1]
        /\ \A i \in 1 .. Len(q) - 1 : Tail(q)[i] = q[i + 1]
    BY <1>1, HeadTailSet
  <1>4. R \subseteq Tasks BY <1>3, SetInside
  <1>5. k.op \in {"destroy", "release"} \/ Plain({k} \cup R)
    <2> SUFFICES ASSUME k.op \notin {"destroy", "release"}, NEW j \in R
                 PROVE  j.op \notin {"destroy", "release"}
      BY DEF Plain
    <2>1. PICK i \in 1 .. Len(Tail(q)) : j = Tail(q)[i] BY <1>3, SetMember
    <2>2. j = q[i + 1] /\ i + 1 \in 1 .. Len(q) /\ 1 \in 1 .. i + 1 BY <1>3, <2>1
    <2>3. DOMAIN q = 1 .. Len(q) BY <1>1, LenProperties
    <2>4. j.op # "destroy" BY <1>1, <1>3, <2>2, <2>3 DEF DestroysFirst
    <2>5. j \in ToSet(q) /\ k \in ToSet(q) BY <1>3
    <2>6. j.op # "release" BY <1>1, <2>5 DEF TaskInv
    <2> QED BY <2>4, <2>6
  <1> HIDE DEF k, R
  <1>6. Before(S, k, R, X, vis, old, stk, dc) BY <1>1, <1>3, <1>4 DEF Before
  <1>7. After(y, R, X, vis, old, stk, dc) BY <1>5, <1>6, DoStep
  <1> HIDE DEF y
  <1>8. r \in Seq(Tasks) /\ ToSet(r) = ToSet(y.todo) \cup R
    <2> DEFINE p == Tail(q)
               n == y.todo
    <2>1. p \in Seq(Tasks) /\ n \in Seq(Tasks) BY <1>3, <1>7 DEF After
    <2> HIDE DEF p, n
    <2>2. n \o p \in Seq(Tasks) /\ ToSet(n \o p) = ToSet(n) \cup ToSet(p) BY <2>1, ConcatSet
    <2> QED BY <2>2 DEF p, n, R
  <1>9. DestroysFirst(r) BY <1>1, <1>7, DestroysConcat DEF After, R
  <1> HIDE DEF r
  <1>10. Step(x).scr = y.scr /\ Step(x).todo = r BY <1>2 DEF Then
  <1>11. Step(x) \in Running BY <1>2, <1>7, <1>8 DEF After, Running, Then
  <1> QED BY <1>7, <1>8, <1>9, <1>10, <1>11 DEF StepInv, After

\* Run[n] does n steps of a call, or as many as there are.
Runs(r, n) == [x \in Running |-> IF n = 0 \/ x.todo = <<>> THEN x ELSE r[n - 1][Step(x)]]

IsRun(r, N) == r = [n \in 0 .. N |-> Runs(r, n)]

\* A set of numbers that is not empty has a least one.
LEMMA Least ==
  ASSUME NEW T, T \subseteq Nat, T # {}
  PROVE  \E x \in T : \A y \in T : ~(y < x)
  <1> DEFINE Before1 == OpToRel(<, Nat)
  <1>1. IsWellFoundedOn(Before1, Nat)
    BY NatLessThanWellFounded
  <1>2. \A x \in Nat, y \in Nat : y < x => <<y, x>> \in Before1
    BY DEF OpToRel
  <1> HIDE DEF Before1
  <1>3. PICK x \in T : \A y \in T : ~(<<y, x>> \in Before1)
    BY <1>1, WFMin
  <1>4. ASSUME NEW y \in T PROVE ~(y < x)
    <2>1. x \in Nat /\ y \in Nat OBVIOUS
    <2>2. <<y, x>> \notin Before1 BY <1>3
    <2>3. y < x => <<y, x>> \in Before1 BY <1>2, <2>1
    <2> QED BY <2>2, <2>3
  <1> QED BY <1>4

\* A run is determined by the run that is one step shorter.
LEMMA RunsSame ==
  ASSUME NEW r, NEW s, NEW n \in Nat, n = 0 \/ r[n - 1] = s[n - 1]
  PROVE  Runs(r, n) = Runs(s, n)
  <1> DEFINE f == r[n - 1]
             g == s[n - 1]
  <1>1. CASE n = 0 BY <1>1 DEF Runs
  <1>2. CASE f = g
    <2>1. Runs(r, n) = [x \in Running |-> IF n = 0 \/ x.todo = <<>> THEN x ELSE f[Step(x)]]
      BY DEF Runs
    <2>2. Runs(s, n) = [x \in Running |-> IF n = 0 \/ x.todo = <<>> THEN x ELSE g[Step(x)]]
      BY DEF Runs
    <2> HIDE DEF f, g
    <2> QED BY <1>2, <2>1, <2>2
  <1> QED BY <1>1, <1>2

\* A run can be continued.
LEMMA RunGrows ==
  ASSUME NEW N \in Nat, NEW r, IsRun(r, N)
  PROVE  \E s : IsRun(s, N + 1)
  <1> DEFINE s == [n \in 0 .. N + 1 |-> IF n <= N THEN r[n] ELSE Runs(r, N + 1)]
  <1>1. \A n \in 0 .. N : s[n] = r[n] /\ r[n] = Runs(r, n) BY DEF IsRun
  <1>2. s[N + 1] = Runs(r, N + 1) OBVIOUS
  <1>3. s = [n \in 0 .. N + 1 |-> s[n]] OBVIOUS
  <1> HIDE DEF s
  <1>4. ASSUME NEW n \in 0 .. N + 1 PROVE s[n] = Runs(s, n)
    <2>1. n \in Nat /\ (n = 0 \/ n - 1 \in 0 .. N) /\ (n \in 0 .. N \/ n = N + 1) OBVIOUS
    <2>2. n = 0 \/ r[n - 1] = s[n - 1] BY <1>1, <2>1
    <2>3. Runs(r, n) = Runs(s, n) BY <2>1, <2>2, RunsSame
    <2> QED BY <1>1, <1>2, <2>1, <2>3
  <1>5. IsRun(s, N + 1) BY <1>3, <1>4 DEF IsRun
  <1> QED BY <1>5

\* There is a run of every length.
LEMMA RunExists ==
  ASSUME NEW N \in Nat
  PROVE  \E r : IsRun(r, N)
  <1> DEFINE T == {n \in Nat : ~\E r : IsRun(r, n)}
  <1> SUFFICES ASSUME T # {} PROVE FALSE OBVIOUS
  <1>1. PICK n \in T : \A m \in T : ~(m < n)
    <2>1. T \subseteq Nat OBVIOUS
    <2> HIDE DEF T
    <2> QED BY <2>1, Least
  <1>2. n \in Nat /\ ~\E r : IsRun(r, n) OBVIOUS
  <1>3. CASE n = 0
    <2> DEFINE r == [i \in 0 .. 0 |-> Runs(<<>>, i)]
    <2>1. \A i \in 0 .. 0 : i \in Nat /\ Runs(<<>>, i) = Runs(r, i)
      <3> SUFFICES ASSUME NEW i \in 0 .. 0 PROVE i \in Nat /\ Runs(<<>>, i) = Runs(r, i)
        OBVIOUS
      <3>1. i \in Nat /\ i = 0 OBVIOUS
      <3> HIDE DEF r
      <3> QED BY <3>1, RunsSame
    <2>2. r = [i \in 0 .. 0 |-> Runs(r, i)] BY <2>1
    <2> HIDE DEF r
    <2>3. IsRun(r, 0) BY <2>2 DEF IsRun
    <2> QED BY <1>2, <1>3, <2>3
  <1>4. CASE n # 0
    <2>1. n - 1 \in Nat /\ n - 1 < n /\ (n - 1) + 1 = n BY <1>2, <1>4
    <2>2. n - 1 \notin T BY <1>1, <2>1
    <2>3. PICK r : IsRun(r, n - 1) BY <2>1, <2>2
    <2>4. \E s : IsRun(s, (n - 1) + 1) BY <2>1, <2>3, RunGrows
    <2> QED BY <1>2, <2>1, <2>4
  <1> QED BY <1>3, <1>4

\* Run satisfies its recursion: it does one step after the other.
LEMMA RunIs ==
  /\ \A n \in 0 .. MaxSteps : \A x \in Running :
       Run[n][x] = IF n = 0 \/ x.todo = <<>> THEN x ELSE Run[n - 1][Step(x)]
  <1>1. \E r : IsRun(r, MaxSteps) BY RunExists, Types
  <1>2. Run = CHOOSE r : r = [n \in 0 .. MaxSteps |-> Runs(r, n)] BY DEF Run, Runs
  <1>3. Run = CHOOSE r : IsRun(r, MaxSteps) BY <1>2 DEF IsRun
  <1>4. IsRun(Run, MaxSteps)
    <2> HIDE DEF Run
    <2> QED BY <1>1, <1>3
  <1>5. ASSUME NEW n \in 0 .. MaxSteps, NEW x \in Running
        PROVE  Run[n][x] = IF n = 0 \/ x.todo = <<>> THEN x ELSE Run[n - 1][Step(x)]
    <2>1. Run[n] = Runs(Run, n) BY <1>4 DEF IsRun
    <2> QED BY <2>1 DEF Runs
  <1> QED BY <1>5

\* A call ends with the invariant it began with.
LEMMA RunPreserves ==
  ASSUME ClipsAbove, NEW x, NEW X, NEW vis, NEW old, NEW stk, NEW dc,
         StepInv(x, X, vis, old, stk, dc)
  PROVE  StepInv(Run[MaxSteps][x], X, vis, old, stk, dc)
  <1> DEFINE Good(n) == \A y : StepInv(y, X, vis, old, stk, dc) =>
                                 StepInv(Run[n][y], X, vis, old, stk, dc)
             T == {n \in 0 .. MaxSteps : ~Good(n)}
  <1> SUFFICES ASSUME T # {} PROVE FALSE
    <2>1. MaxSteps \in 0 .. MaxSteps BY Types
    <2> QED BY <2>1
  <1>1. PICK n \in T : \A m \in T : ~(m < n)
    <2>1. T \subseteq Nat BY Types
    <2> HIDE DEF T
    <2> QED BY <2>1, Least
  <1>2. n \in 0 .. MaxSteps /\ n \in Nat /\ MaxSteps \in Nat BY Types
  <1>3. PICK y : /\ StepInv(y, X, vis, old, stk, dc)
                 /\ ~StepInv(Run[n][y], X, vis, old, stk, dc)
    OBVIOUS
  <1>4. y \in Running BY <1>3 DEF StepInv
  <1>5. Run[n][y] = IF n = 0 \/ y.todo = <<>> THEN y ELSE Run[n - 1][Step(y)]
    BY <1>2, <1>4, RunIs
  <1>6. n # 0 /\ y.todo # <<>> BY <1>3, <1>5
  <1>7. StepInv(Step(y), X, vis, old, stk, dc) BY <1>3, <1>6, StepPreserves
  <1>8. n - 1 \in 0 .. MaxSteps /\ n - 1 < n BY <1>2, <1>6
  <1>9. n - 1 \notin T BY <1>1, <1>8
  <1>10. Good(n - 1) BY <1>8, <1>9
  <1>11. StepInv(Run[n - 1][Step(y)], X, vis, old, stk, dc) BY <1>7, <1>10
  <1> QED BY <1>3, <1>5, <1>6, <1>11

-----------------------------------------------------------------------------
(* Between the calls, when nothing is left to do.                          *)

OrderedNow(S, X) ==
  \A c \in Windows :
    Under(S, c) /\ (S.flag[c] = "QUEUE" \/ (S.flag[c] = "DRAWING" /\ c \notin X))
    => S.upd[c] \cap S.upd[Parent(c)] = {}

OverdrawnNow(S, X) ==
  \A c \in S.map : Under(S, c) /\ c \notin X => S.upd[Parent(c)] \cap rcWindow[c] \subseteq S.upd[c]

MapNow(S, vis) == \A c \in S.map : c \in vis /\ (c # Root => Parent(c) \in S.map)

WaitNow(S, X) ==
  /\ S.flag[Root] # "WAIT"
  /\ \A c \in Windows \ {Root} : S.flag[c] = "WAIT" => S.flag[Parent(c)] # "NO" \/ c \in X

Quiet(S, X, vis, stk, dc) ==
  /\ QueueInv(S) /\ RegionInv(S) /\ OrderedNow(S, X) /\ OverdrawnNow(S, X)
  /\ MapNow(S, vis) /\ WaitNow(S, X) /\ DirtyInv(S, X) /\ DrawInv(S, X, stk, dc)

\* With nothing left to do the two invariants say the same.
LEMMA QuietCore ==
  ASSUME NEW S, NEW X, NEW vis, NEW stk, NEW dc
  PROVE  Core(S, {}, X, vis, stk, dc) <=> Quiet(S, X, vis, stk, dc)
  <1>1. Ordered(S, {}, X) <=> OrderedNow(S, X) BY DEF Ordered, OrderedNow
  <1>2. Overdrawn(S, {}, X) <=> OverdrawnNow(S, X) BY DEF Overdrawn, OverdrawnNow
  <1>3. \A c : ~Destroys({}, c) BY DEF Destroys
  <1>4. MapInv(S, {}, vis) <=> MapNow(S, vis) BY <1>3 DEF MapInv, MapNow
  <1>5. WaitInv(S, {}, X) <=> WaitNow(S, X) BY <1>3 DEF WaitInv, WaitNow
  <1> QED BY <1>1, <1>2, <1>4, <1>5 DEF Core, Quiet

\* Excusing more windows excuses more.
LEMMA QuietMore ==
  ASSUME NEW S, NEW X, NEW Y, NEW vis, NEW stk, NEW dc, X \subseteq Y,
         Quiet(S, X, vis, stk, dc)
  PROVE  Quiet(S, Y, vis, stk, dc)
  <1>1. OrderedNow(S, Y) BY DEF Quiet, OrderedNow
  <1>2. OverdrawnNow(S, Y) BY DEF Quiet, OverdrawnNow
  <1>3. WaitNow(S, Y) BY DEF Quiet, WaitNow
  <1>4. DirtyInv(S, Y) BY DEF Quiet, DirtyInv
  <1>5. DrawInv(S, Y, stk, dc) BY DEF Quiet, DrawInv
  <1> QED BY <1>1, <1>2, <1>3, <1>4, <1>5 DEF Quiet

\* The invariant after the first part of a call.
LEMMA AfterInv ==
  ASSUME NEW y, NEW X, NEW vis, NEW old, NEW stk, NEW dc,
         After(y, {}, X, vis, old, stk, dc), y = Then(y.scr, y.todo)
  PROVE  StepInv(y, X, vis, old, stk, dc)
  <1>1. y \in Running BY DEF After, Then, Running
  <1>2. ToSet(y.todo) \cup {} = ToSet(y.todo) OBVIOUS
  <1>3. DestroysFirst(y.todo)
    <2>1. /\ DOMAIN y.todo = 1 .. Len(y.todo) /\ Len(y.todo) \in Nat
          /\ \A i \in 1 .. Len(y.todo) : y.todo[i] \in ToSet(y.todo)
      <3> DEFINE q == y.todo
      <3>1. q \in Seq(Tasks) BY DEF After
      <3> HIDE DEF q
      <3>2. DOMAIN q = 1 .. Len(q) /\ Len(q) \in Nat BY <3>1, LenProperties
      <3>3. \A i \in 1 .. Len(q) : q[i] \in ToSet(q) BY <3>1, SetMember
      <3> QED BY <3>2, <3>3 DEF q
    <2>2. CASE \A j \in ToSet(y.todo) : j.op = "destroy"
      BY <2>1, <2>2 DEF DestroysFirst
    <2>3. CASE \A j \in ToSet(y.todo) : j.op # "destroy"
      BY <2>1, <2>3 DEF DestroysFirst
    <2> QED BY <1>2, <2>2, <2>3 DEF After
  <1> QED BY <1>1, <1>2, <1>3 DEF After, StepInv

\* What is left of a call that has nothing more to do.
LEMMA CallEnds ==
  ASSUME ClipsAbove, NEW x, NEW X, NEW vis, NEW old, NEW stk, NEW dc,
         StepInv(x, X, vis, old, stk, dc), Run[MaxSteps][x].todo = <<>>
  PROVE  /\ Run[MaxSteps][x].scr \in Screens
         /\ Quiet(Run[MaxSteps][x].scr, X, vis, stk, dc)
  <1> DEFINE y == Run[MaxSteps][x]
  <1>1. StepInv(y, X, vis, old, stk, dc) /\ y.todo = <<>> BY RunPreserves
  <1> HIDE DEF y
  <1>2. ToSet(y.todo) = {} BY <1>1, NoTasks
  <1>3. y.scr \in Screens BY <1>1 DEF StepInv, Running
  <1>4. Core(y.scr, {}, X, vis, stk, dc) BY <1>1, <1>2 DEF StepInv
  <1>5. Quiet(y.scr, X, vis, stk, dc) BY <1>4, QuietCore
  <1> QED BY <1>3, <1>5 DEF y

-----------------------------------------------------------------------------
(* The stacks.                                                             *)

\* Painting another window leaves the innermost painting of this one.
LEMMA FocusPush ==
  ASSUME NEW A, NEW q \in Seq(A), NEW f \in A, NEW w, NEW kind, Focus(q, w, kind),
         \A k \in PaintKinds : f # Frame(k, w)
  PROVE  Focus(<<f>> \o q, w, kind)
  <1> DEFINE p == <<f>>
             r == p \o q
  <1>1. p \in Seq(A) /\ Len(p) = 1 /\ p[1] = f OBVIOUS
  <1> HIDE DEF p
  <1>2. /\ r \in Seq(A) /\ Len(r) = Len(p) + Len(q)
        /\ \A i \in 1 .. Len(p) + Len(q) : r[i] = IF i <= Len(p) THEN p[i] ELSE q[i - Len(p)]
    BY <1>1, ConcatProperties
  <1>3. Len(q) \in Nat /\ DOMAIN q = 1 .. Len(q) /\ DOMAIN r = 1 .. Len(r)
    BY <1>2, LenProperties
  <1> HIDE DEF r
  <1>4. PICK i \in DOMAIN q : /\ q[i] = Frame(kind, w)
                              /\ \A j \in 1 .. i - 1 : \A k \in PaintKinds : q[j] # Frame(k, w)
    BY DEF Focus
  <1>5. i + 1 \in DOMAIN r /\ r[i + 1] = Frame(kind, w)
    <2>1. i + 1 \in 1 .. Len(p) + Len(q) /\ ~(i + 1 <= Len(p)) /\ (i + 1) - Len(p) = i
      BY <1>1, <1>3, <1>4
    <2> QED BY <1>2, <1>3, <1>4, <2>1
  <1>6. ASSUME NEW j \in 1 .. (i + 1) - 1, NEW k \in PaintKinds PROVE r[j] # Frame(k, w)
    <2>1. i \in 1 .. Len(q) /\ j \in 1 .. Len(p) + Len(q) BY <1>1, <1>3, <1>4
    <2>2. CASE j = 1 BY <1>1, <1>2, <2>1, <2>2
    <2>3. CASE j # 1
      <3>1. ~(j <= Len(p)) /\ j - Len(p) \in 1 .. i - 1 BY <1>1, <1>3, <1>4, <2>3
      <3> QED BY <1>2, <1>4, <2>1, <3>1
    <2> QED BY <2>2, <2>3
  <1> QED BY <1>5, <1>6 DEF Focus, r, p

\* The handler that begins is the innermost.
LEMMA FocusHead ==
  ASSUME NEW A, NEW q \in Seq(A), NEW w, NEW kind, Frame(kind, w) \in A
  PROVE  Focus(<<Frame(kind, w)>> \o q, w, kind)
  <1> DEFINE f == Frame(kind, w)
             p == <<f>>
             r == p \o q
  <1> HIDE DEF f
  <1>1. p \in Seq(A) /\ Len(p) = 1 /\ p[1] = f BY DEF f
  <1> HIDE DEF p
  <1>2. /\ r \in Seq(A) /\ Len(r) = Len(p) + Len(q)
        /\ \A i \in 1 .. Len(p) + Len(q) : r[i] = IF i <= Len(p) THEN p[i] ELSE q[i - Len(p)]
    BY <1>1, ConcatProperties
  <1>3. Len(q) \in Nat /\ DOMAIN r = 1 .. Len(r) BY <1>2, LenProperties
  <1> HIDE DEF r
  <1>4. 1 \in DOMAIN r /\ r[1] = f BY <1>1, <1>2, <1>3
  <1> QED BY <1>4 DEF Focus, r, p, f

\* The end of something else leaves the innermost painting of this one.
LEMMA FocusPop ==
  ASSUME NEW A, NEW q \in Seq(A), q # <<>>, NEW w, NEW kind, Focus(q, w, kind),
         kind \in PaintKinds, \A k \in PaintKinds : Head(q) # Frame(k, w)
  PROVE  Focus(Tail(q), w, kind)
  <1> DEFINE r == Tail(q)
  <1>1. /\ r \in Seq(A) /\ Len(q) \in Nat \ {0} /\ Len(r) = Len(q) - 1 /\ Head(q) = q[1]
        /\ \A i \in 1 .. Len(q) - 1 : r[i] = q[i + 1]
    BY HeadTailSet
  <1>2. DOMAIN q = 1 .. Len(q) /\ DOMAIN r = 1 .. Len(r) BY <1>1, LenProperties
  <1> HIDE DEF r
  <1>3. PICK i \in DOMAIN q : /\ q[i] = Frame(kind, w)
                              /\ \A j \in 1 .. i - 1 : \A k \in PaintKinds : q[j] # Frame(k, w)
    BY DEF Focus
  <1>4. i # 1 BY <1>1, <1>3
  <1>5. i - 1 \in 1 .. Len(q) - 1 /\ (i - 1) + 1 = i BY <1>1, <1>2, <1>4
  <1>6. i - 1 \in DOMAIN r /\ r[i - 1] = Frame(kind, w) BY <1>1, <1>2, <1>3, <1>5
  <1>7. ASSUME NEW j \in 1 .. (i - 1) - 1, NEW k \in PaintKinds PROVE r[j] # Frame(k, w)
    <2>1. j \in 1 .. Len(q) - 1 /\ j + 1 \in 1 .. i - 1 BY <1>5
    <2> QED BY <1>1, <1>3, <2>1
  <1> QED BY <1>6, <1>7 DEF Focus, r

\* The innermost painting is the top of the stack, if that is of the window.
LEMMA FocusTop ==
  ASSUME NEW A, NEW q \in Seq(A), q # <<>>, NEW w, NEW kind, Focus(q, w, kind),
         NEW top \in PaintKinds, Head(q) = Frame(top, w)
  PROVE  kind = top
  <1>1. Len(q) \in Nat \ {0} /\ Head(q) = q[1] BY HeadTailSet
  <1>2. DOMAIN q = 1 .. Len(q) BY LenProperties
  <1>3. PICK i \in DOMAIN q : /\ q[i] = Frame(kind, w)
                              /\ \A j \in 1 .. i - 1 : \A k \in PaintKinds : q[j] # Frame(k, w)
    BY DEF Focus
  <1>4. i = 1
    <2>1. i # 1 => 1 \in 1 .. i - 1 BY <1>1, <1>2
    <2> QED BY <1>1, <1>3, <2>1
  <1>5. Frame(kind, w) = Frame(top, w) BY <1>1, <1>3, <1>4
  <1> QED BY <1>5 DEF Frame

\* Nothing is being painted with an empty stack.
LEMMA FocusEmpty ==
  ASSUME NEW w, NEW kind
  PROVE  ~Focus(<<>>, w, kind)
  <1>1. DOMAIN <<>> = {} OBVIOUS
  <1> QED BY <1>1 DEF Focus

-----------------------------------------------------------------------------
(* Painting.                                                               *)

Closed(X) == \A a \in Windows \cap X : ToSet(Children[a]) \subseteq X

\* What is below an excused window is excused.
LEMMA ExcusedFacts ==
  ASSUME NEW E \in SUBSET Windows
  PROVE  Closed(ExcusedBy(E)) /\ E \subseteq ExcusedBy(E)
  <1>1. ASSUME NEW a \in Windows, a \in ExcusedBy(E), NEW c \in ToSet(Children[a])
        PROVE  c \in ExcusedBy(E)
    <2>1. PICK e \in E : a = e \/ a \in Below[e] BY <1>1 DEF ExcusedBy
    <2>2. c \in Below[e] BY <1>1, <2>1, BelowClosed
    <2>3. c \in Windows BY <1>1, KidTypes
    <2> QED BY <2>1, <2>2, <2>3 DEF ExcusedBy
  <1>2. E \subseteq ExcusedBy(E) BY DEF ExcusedBy
  <1> QED BY <1>1, <1>2 DEF Closed

\* More excused windows excuse more.
LEMMA ExcusedMore ==
  ASSUME NEW E, NEW F, E \subseteq F
  PROVE  ExcusedBy(E) \subseteq ExcusedBy(F)
  BY DEF ExcusedBy

\* What is on the screen is in a window on the screen.
LEMMA InMap ==
  ASSUME NEW S \in Screens, NEW vis, MapNow(S, vis), NEW w \in Windows, NEW c \in Below[w],
         c \in S.map
  PROVE  w \in S.map
  <1> DEFINE D == {d \in Windows : d \in S.map => w \in S.map}
  <1>1. ASSUME NEW p \in (D \cap Below[w]) \cup {w}, NEW d \in ToSet(Children[p])
        PROVE  d \in D
    <2>1. p \in Windows /\ (p \in S.map => w \in S.map) OBVIOUS
    <2>2. d \in Windows /\ d # Root /\ Parent(d) = p BY <2>1, ChildFacts
    <2>3. d \in S.map => p \in S.map BY <2>2 DEF MapNow
    <2> QED BY <2>1, <2>2, <2>3
  <1>2. Below[w] \subseteq D BY <1>1, BelowInduction
  <1> QED BY <1>2

\* A window that is painted out of turn shows nothing of its parent's region.
LEMMA Alone ==
  ASSUME NEW S \in Screens, NEW X, OrderedNow(S, X), OverdrawnNow(S, X),
         NEW c \in S.map, Under(S, c), S.flag[c] \in {"QUEUE", "DRAWING"}, c \notin X
  PROVE  S.upd[Parent(c)] \cap rcWindow[c] = {}
  <1>1. c \in Windows BY ScreenTypes
  <1>2. S.upd[c] \cap S.upd[Parent(c)] = {} BY <1>1 DEF OrderedNow
  <1>3. S.upd[Parent(c)] \cap rcWindow[c] \subseteq S.upd[c] BY DEF OverdrawnNow
  <1> QED BY <1>2, <1>3

\* What a window paints over is invalid in the windows below it, which wait.
LEMMA CoveredBelow ==
  ASSUME ClipsAbove, NEW S \in Screens, NEW X, NEW vis, NEW stk, NEW dc,
         Quiet(S, X, vis, stk, dc), Closed(X),
         NEW w \in Windows, w \notin Clip, S.flag[w] # "NO", NEW area, area \subseteq S.upd[w]
  PROVE  \A c \in Below[w] \cap S.map : c \notin X =>
           /\ area \cap rcWindow[c] \subseteq S.upd[c]
           /\ area \cap rcWindow[c] # {} => S.flag[c] = "WAIT"
  <1> DEFINE Good(d) == /\ d \notin Clip /\ area \cap rcWindow[d] \subseteq S.upd[d]
                        /\ area \cap rcWindow[d] # {} => S.flag[d] = "WAIT"
             D == {d \in Windows : d \in S.map /\ d \notin X => Good(d)}
  <1>1. ASSUME NEW p \in (D \cap Below[w]) \cup {w}, NEW c \in ToSet(Children[p])
        PROVE  c \in D
    <2>1. p \in Windows OBVIOUS
    <2>2. c \in Windows /\ c # Root /\ Parent(c) = p /\ c # p BY <2>1, ChildFacts
    <2> SUFFICES ASSUME c \in S.map, c \notin X PROVE Good(c)
      BY <2>2
    <2>3. p \in S.map BY <2>2 DEF Quiet, MapNow
    <2>4. p \notin X BY <2>1 DEF Closed
    <2>5. p \notin Clip /\ area \cap rcWindow[p] \subseteq S.upd[p]
      BY <1>1, <2>1, <2>3, <2>4
    <2>6. c \notin Clip BY <2>2, <2>5 DEF ClipsAbove
    <2>7. area \cap rcWindow[c] \subseteq area \cap rcWindow[p]
      BY <2>2, ParentRect
    <2>8. CASE area \cap rcWindow[c] = {} BY <2>6, <2>8
    <2>9. CASE area \cap rcWindow[c] # {}
      <3>1. S.flag[p] # "NO" BY <1>1, <2>1, <2>3, <2>4, <2>7, <2>9
      <3>2. Under(S, c) BY <2>2, <2>5, <3>1 DEF Under
      <3>3. S.upd[p] \cap rcWindow[c] \subseteq S.upd[c]
        BY <2>2, <3>2 DEF Quiet, OverdrawnNow
      <3>4. area \cap rcWindow[c] \subseteq S.upd[c] /\ area \cap rcWindow[c] \subseteq S.upd[p]
        BY <2>5, <2>7, <3>3
      <3>5. S.flag[c] # "NO" BY <2>2, <2>9, <3>4 DEF Quiet, RegionInv, Tidy
      <3>6. S.upd[c] \cap S.upd[p] # {} BY <2>9, <3>4
      <3>7. ~(S.flag[c] \in {"QUEUE", "DRAWING"}) BY <2>2, <3>2, <3>6 DEF Quiet, OrderedNow
      <3>8. S.flag[c] \in Flags BY <2>2, ScreenTypes
      <3>9. S.flag[c] = "WAIT" BY <3>5, <3>7, <3>8 DEF Flags
      <3> QED BY <2>6, <3>4, <3>9
    <2> QED BY <2>8, <2>9
  <1>2. Below[w] \subseteq D BY <1>1, BelowInduction
  <1> QED BY <1>2

\* The effect of painting area of w on what is dirty.
LEMMA CoverFacts ==
  ASSUME ClipsAbove, NEW S \in Screens, NEW X, NEW vis, NEW stk, NEW dc,
         Quiet(S, X, vis, stk, dc), Closed(X), NEW w \in Windows, NEW area,
         area \subseteq S.upd[w], S.flag[w] # "NO" \/ w \notin S.map \/ area = {}
  PROVE  /\ Covered(S, w, area) \in [Windows -> SUBSET Nat]
         /\ Covered(S, w, area)[w] = S.dirty[w] \ area
         /\ \A x \in Windows : x \notin S.map => Covered(S, w, area)[x] = {}
         /\ \A x \in Windows \ X :
              /\ Covered(S, w, area)[x] \subseteq S.dirty[x] \cup S.upd[x]
              /\ S.flag[x] = "DRAWING" => Covered(S, w, area)[x] \subseteq S.dirty[x]
  <1> DEFINE d == Covered(S, w, area)
             under == IF w \in Clip THEN {} ELSE Below[w] \cap S.map
  <1>1. d = [c \in Windows |-> IF c = w THEN S.dirty[c] \ area
                              ELSE IF c \in under THEN S.dirty[c] \cup (area \cap rcWindow[c])
                              ELSE S.dirty[c]]
    BY DEF Covered
  <1>2. \A x \in under : x \in S.map /\ x \in Below[w] /\ w \notin Clip OBVIOUS
  <1>3. ASSUME NEW x \in under, x \notin X
        PROVE  /\ area \cap rcWindow[x] \subseteq S.upd[x]
               /\ area \cap rcWindow[x] # {} => S.flag[x] = "WAIT"
    <2>1. w \in S.map BY <1>2, InMap DEF Quiet
    <2>2. CASE area = {} BY <2>2
    <2>3. CASE S.flag[w] # "NO" BY <1>2, <1>3, <2>3, CoveredBelow
    <2> QED BY <2>1, <2>2, <2>3
  <1> HIDE DEF under, d
  <1>4. \A x \in Windows : S.dirty[x] \in SUBSET Nat /\ area \cap rcWindow[x] \in SUBSET Nat
    BY ScreenTypes, Types
  <1>5. d \in [Windows -> SUBSET Nat] BY <1>1, <1>4
  <1>6. d[w] = S.dirty[w] \ area BY <1>1
  <1>7. ASSUME NEW x \in Windows, x \notin S.map PROVE d[x] = {}
    <2>1. S.dirty[x] = {} BY <1>7 DEF Quiet, RegionInv, Tidy
    <2> QED BY <1>1, <1>2, <1>7, <2>1
  <1>8. ASSUME NEW x \in Windows \ X
        PROVE  /\ d[x] \subseteq S.dirty[x] \cup S.upd[x]
               /\ S.flag[x] = "DRAWING" => d[x] \subseteq S.dirty[x]
    BY <1>1, <1>3
  <1> QED BY <1>5, <1>6, <1>7, <1>8 DEF d

\* A window begins to be painted, out of turn if it is excused.
LEMMA Begins ==
  ASSUME NEW S \in Screens, NEW T \in Screens, NEW X, NEW Y, NEW vis, NEW stk, NEW dc,
         Quiet(S, X, vis, stk, dc), X \subseteq Y, NEW w \in Windows, S.flag[w] # "NO",
         \A x \in Windows : T.flag[x] = IF x = w THEN "DRAWING" ELSE S.flag[x],
         T.upd = S.upd, T.map = S.map, \A x \in Windows : x \notin S.map => T.dirty[x] = {},
         w \in Y \/ ~Under(S, w) \/ S.upd[w] \cap S.upd[Parent(w)] = {}
  PROVE  /\ RegionInv(T) /\ OrderedNow(T, Y) /\ OverdrawnNow(T, Y)
         /\ MapNow(T, vis) /\ WaitNow(T, Y)
  <1>1. RegionInv(T)
    <2>1. AreaInv(T) BY DEF Quiet, RegionInv, AreaInv
    <2>2. \A x \in Windows : Tidy(T, x) BY DEF Quiet, RegionInv, Tidy
    <2> QED BY <2>1, <2>2 DEF RegionInv
  <1>2. \A c \in Windows : c # Root => Parent(c) \in Windows BY ParentFacts
  <1>3. \A c \in Windows : Under(T, c) <=> Under(S, c) BY <1>2 DEF Under
  <1>4. OrderedNow(T, Y) BY <1>3 DEF Quiet, OrderedNow
  <1>5. OverdrawnNow(T, Y) BY <1>3, ScreenTypes DEF Quiet, OverdrawnNow
  <1>6. MapNow(T, vis) BY DEF Quiet, MapNow
  <1>7. WaitNow(T, Y) BY <1>2, Types DEF Quiet, WaitNow
  <1> QED BY <1>1, <1>4, <1>5, <1>6, <1>7

\* The region of a window shrinks, and the window may need no painting any more.
Shrunk(S, T, w) ==
  /\ \A x \in Windows : x # w => /\ T.flag[x] = S.flag[x] /\ T.upd[x] = S.upd[x]
                                 /\ T.dirty[x] = S.dirty[x]
  /\ T.flag[w] \in {S.flag[w], "NO"}
  /\ T.upd[w] \subseteq S.upd[w] /\ IsRect(T.upd[w])
  /\ Tidy(T, w) /\ T.map = S.map

\* It shows nothing of what its parent is going to paint over.
Lonely(S, X, w) ==
  w \in X \/ ~Under(S, w) \/ S.upd[Parent(w)] \cap rcWindow[w] = {} \/ w \notin S.map

\* A region that shrinks stays in agreement with the windows around it.
LEMMA Shrinks ==
  ASSUME NEW S \in Screens, NEW T, NEW X, NEW Y, NEW vis, NEW stk, NEW dc,
         Quiet(S, X, vis, stk, dc), X \subseteq Y, NEW w \in Windows,
         Shrunk(S, T, w), Lonely(S, Y, w)
  PROVE  /\ RegionInv(T) /\ OrderedNow(T, Y) /\ OverdrawnNow(T, Y) /\ MapNow(T, vis)
         /\ T.flag[Root] # "WAIT"
         /\ \A c \in Windows \ {Root} : T.flag[c] = "WAIT" =>
              T.flag[Parent(c)] # "NO" \/ c \in X \/ (Parent(c) = w /\ T.flag[w] = "NO")
  <1> USE DEF Shrunk, Lonely
  <1>1. RegionInv(T)
    <2>1. AreaInv(T) BY DEF Quiet, RegionInv, AreaInv
    <2>2. \A x \in Windows : Tidy(T, x) BY DEF Quiet, RegionInv, Tidy
    <2> QED BY <2>1, <2>2 DEF RegionInv
  <1>2. \A c \in Windows : c # Root => Parent(c) \in Windows BY ParentFacts
  <1>3. \A c \in Windows : Under(T, c) => Under(S, c) BY <1>2 DEF Under
  <1>4. \A c \in Windows : T.upd[c] \subseteq S.upd[c] OBVIOUS
  <1>5. OrderedNow(T, Y)
    <2> SUFFICES ASSUME NEW c \in Windows, Under(T, c),
                        T.flag[c] = "QUEUE" \/ (T.flag[c] = "DRAWING" /\ c \notin Y)
                 PROVE  T.upd[c] \cap T.upd[Parent(c)] = {}
      BY DEF OrderedNow
    <2>1. T.flag[c] = S.flag[c] OBVIOUS
    <2>2. S.upd[c] \cap S.upd[Parent(c)] = {} BY <1>3, <2>1 DEF Quiet, OrderedNow
    <2>3. Parent(c) \in Windows BY <1>2 DEF Under
    <2> QED BY <1>4, <2>2, <2>3
  <1>6. OverdrawnNow(T, Y)
    <2> SUFFICES ASSUME NEW c \in S.map, Under(T, c), c \notin Y
                 PROVE  T.upd[Parent(c)] \cap rcWindow[c] \subseteq T.upd[c]
      BY DEF OverdrawnNow
    <2>1. c \in Windows BY ScreenTypes
    <2>2. Under(S, c) /\ Parent(c) \in Windows BY <1>2, <1>3, <2>1 DEF Under
    <2>3. S.upd[Parent(c)] \cap rcWindow[c] \subseteq S.upd[c]
      BY <2>2 DEF Quiet, OverdrawnNow
    <2>4. T.upd[Parent(c)] \subseteq S.upd[Parent(c)] BY <1>4, <2>2
    <2>5. CASE c = w BY <2>2, <2>4, <2>5
    <2>6. CASE c # w BY <2>1, <2>3, <2>4, <2>6
    <2> QED BY <2>5, <2>6
  <1>7. MapNow(T, vis) BY DEF Quiet, MapNow
  <1>8. T.flag[Root] # "WAIT" BY Types DEF Quiet, WaitNow
  <1>9. ASSUME NEW c \in Windows \ {Root}, T.flag[c] = "WAIT"
        PROVE  T.flag[Parent(c)] # "NO" \/ c \in X \/ (Parent(c) = w /\ T.flag[w] = "NO")
    <2>1. S.flag[c] = "WAIT" BY <1>9
    <2>2. S.flag[Parent(c)] # "NO" \/ c \in X BY <2>1 DEF Quiet, WaitNow
    <2> QED BY <1>2, <2>2
  <1> QED BY <1>1, <1>5, <1>6, <1>7, <1>8, <1>9

-----------------------------------------------------------------------------
(* What the actions assign.                                                *)

\* One flag is set.
LEMMA FlagFacts ==
  ASSUME NEW S \in Screens, NEW w \in Windows, NEW f \in Flags
  PROVE  /\ SetFlag(S, w, f) \in Screens
         /\ \A x \in Windows : SetFlag(S, w, f).flag[x] = IF x = w THEN f ELSE S.flag[x]
         /\ SetFlag(S, w, f).flag = [S.flag EXCEPT ![w] = f]
         /\ SetFlag(S, w, f).upd = S.upd /\ SetFlag(S, w, f).map = S.map
         /\ SetFlag(S, w, f).dirty = S.dirty /\ SetFlag(S, w, f).que = S.que
         /\ SetFlag(S, w, f).num = S.num
  <1> DEFINE T == SetFlag(S, w, f)
  <1>1. /\ T.flag = [S.flag EXCEPT ![w] = f] /\ T.upd = S.upd /\ T.map = S.map
        /\ T.dirty = S.dirty /\ T.num = S.num /\ T.que = S.que
    BY DEF SetFlag, Screens
  <1>2. T = [x \in Fields |-> T[x]] BY ScreenFields DEF SetFlag
  <1> HIDE DEF T
  <1>3. T.flag \in [Windows -> Flags] BY <1>1, ScreenTypes
  <1>4. T \in Screens BY <1>1, <1>2, <1>3, ScreenTypes, ScreenType
  <1> QED BY <1>1, <1>4, ScreenTypes DEF T

\* One region is set.
LEMMA UpdFacts ==
  ASSUME NEW S \in Screens, NEW w \in Windows, NEW u \in SUBSET Nat
  PROVE  LET T == [S EXCEPT !.upd[w] = u] IN
         /\ T \in Screens
         /\ \A x \in Windows : T.upd[x] = IF x = w THEN u ELSE S.upd[x]
         /\ T.flag = S.flag /\ T.map = S.map /\ T.dirty = S.dirty /\ T.que = S.que
         /\ T.num = S.num
  <1> DEFINE T == [S EXCEPT !.upd[w] = u]
  <1>1. /\ T.upd = [S.upd EXCEPT ![w] = u] /\ T.flag = S.flag /\ T.map = S.map
        /\ T.dirty = S.dirty /\ T.num = S.num /\ T.que = S.que
    BY DEF Screens
  <1>2. T = [x \in Fields |-> T[x]] BY ScreenFields
  <1> HIDE DEF T
  <1>3. T.upd \in [Windows -> SUBSET Nat] BY <1>1, ScreenTypes
  <1>4. T \in Screens BY <1>1, <1>2, <1>3, ScreenTypes, ScreenType
  <1> QED BY <1>1, <1>4, ScreenTypes DEF T

\* What is dirty changes.
LEMMA DirtyFacts ==
  ASSUME NEW S \in Screens, NEW d \in [Windows -> SUBSET Nat]
  PROVE  LET T == [S EXCEPT !.dirty = d] IN
         /\ T \in Screens /\ T.dirty = d
         /\ T.flag = S.flag /\ T.map = S.map /\ T.upd = S.upd /\ T.que = S.que
         /\ T.num = S.num
  <1> DEFINE T == [S EXCEPT !.dirty = d]
  <1>1. /\ T.upd = S.upd /\ T.flag = S.flag /\ T.map = S.map
        /\ T.dirty = d /\ T.num = S.num /\ T.que = S.que
    BY DEF Screens
  <1>2. T = [x \in Fields |-> T[x]] BY ScreenFields
  <1> HIDE DEF T
  <1>4. T \in Screens BY <1>1, <1>2, ScreenTypes, ScreenType
  <1> QED BY <1>1, <1>4 DEF T

\* The first message of a thread is taken.
LEMMA TakeFacts ==
  ASSUME NEW S \in Screens, NEW t \in Threads, S.que[t] # <<>>
  PROVE  LET T == [S EXCEPT !.que[t] = Tail(@), !.num = @ - 1] IN
         /\ T \in Screens
         /\ \A s \in Threads : T.que[s] = IF s = t THEN Tail(S.que[t]) ELSE S.que[s]
         /\ T.flag = S.flag /\ T.map = S.map /\ T.upd = S.upd /\ T.dirty = S.dirty
         /\ T.num = S.num - 1
  <1> DEFINE q == Tail(S.que[t])
             n == S.num - 1
             T == [S EXCEPT !.que[t] = Tail(@), !.num = @ - 1]
  <1>1. S.que[t] \in Seq(Messages) /\ S.num \in Int BY ScreenTypes
  <1>2. q \in Seq(Messages)
    <2> DEFINE r == S.que[t]
    <2>1. r \in Seq(Messages) /\ r # <<>> BY <1>1
    <2> HIDE DEF r
    <2>2. Tail(r) \in Seq(Messages) BY <2>1, HeadTailProperties
    <2> QED BY <2>2 DEF r
  <1>3. n \in Int BY <1>1
  <1>4. T = [S EXCEPT !.que[t] = q, !.num = n] OBVIOUS
  <1> HIDE DEF q, n, T
  <1>5. /\ T.que = [S.que EXCEPT ![t] = q] /\ T.flag = S.flag /\ T.map = S.map
        /\ T.upd = S.upd /\ T.dirty = S.dirty /\ T.num = n
    BY <1>4 DEF Screens
  <1>6. T = [x \in Fields |-> T[x]] BY <1>4, ScreenFields
  <1>7. T.que \in [Threads -> Seq(Messages)] BY <1>2, <1>5, ScreenTypes
  <1>8. T \in Screens BY <1>3, <1>5, <1>6, <1>7, ScreenTypes, ScreenType
  <1>9. \A s \in Threads : T.que[s] = IF s = t THEN q ELSE S.que[s] BY <1>5, ScreenTypes
  <1> QED BY <1>5, <1>8, <1>9 DEF T, q, n

-----------------------------------------------------------------------------
(* The inductive invariant of the specification.                           *)

\* What thread t is in the middle of: painting a window of its own, or a walk.
FrameOK(f, t) ==
  \/ \E k \in PaintKinds, w \in Windows : f = Frame(k, w) /\ Owner[w] = t
  \/ \E q : f = Frame("update", q)

StackOK(s, t) == \E A : s \in Seq(A) /\ \A f \in A : FrameOK(f, t)

StacksOK(stk) == stk = [t \in Threads |-> stk[t]] /\ \A t \in Threads : StackOK(stk[t], t)

NotifiedOK(ntf) ==
  /\ ntf \in [Threads -> Seq(Windows)]
  /\ \A t \in Threads : \A w \in ToSet(ntf[t]) : Owner[w] = t

Holds(S, E, vis, stk, dc, ntf) ==
  /\ S \in Screens /\ E \in SUBSET Windows /\ StacksOK(stk) /\ NotifiedOK(ntf)
  /\ Quiet(S, ExcusedBy(E), vis, stk, dc)

IInv == Holds(Screen, excused, visible, stack, hasDC, notified)

\* The screen after an action that assigns it.
LEMMA BecomeFacts ==
  ASSUME NEW T \in Screens, Become(T)
  PROVE  Screen' = T
  BY ScreenTypes DEF Become, Screen

\* The screen after an action that leaves it alone.
LEMMA UnchangedFacts ==
  ASSUME UNCHANGED screen
  PROVE  Screen' = Screen
  BY DEF screen, Screen

\* The screen after a call.
LEMMA CallFacts ==
  ASSUME ClipsAbove, NEW x, NEW X, NEW vis, NEW old, NEW stk, NEW dc,
         StepInv(x, X, vis, old, stk, dc), Call(x)
  PROVE  Screen' \in Screens /\ Quiet(Screen', X, vis, stk, dc)
  <1> DEFINE y == Run[MaxSteps][x]
  <1>1. y.todo = <<>> /\ Become(y.scr) BY DEF Call
  <1>2. y.scr \in Screens /\ Quiet(y.scr, X, vis, stk, dc) BY <1>1, CallEnds
  <1> HIDE DEF y
  <1>3. Screen' = y.scr BY <1>1, <1>2, BecomeFacts
  <1> QED BY <1>2, <1>3

\* The painting of x that was the innermost still is.
Keeps(stk, stk2, x) ==
  \A kind \in PaintKinds : Focus(stk[Owner[x]], x, kind) => Focus(stk2[Owner[x]], x, kind)

\* A handler or a walk begins.
LEMMA StackPush ==
  ASSUME NEW stk, StacksOK(stk), NEW t \in Threads, NEW f, FrameOK(f, t), NEW stk2,
         stk2 = [stk EXCEPT ![t] = <<f>> \o @]
  PROVE  /\ StacksOK(stk2)
         /\ \A x \in Windows : Owner[x] # t \/ (\A k \in PaintKinds : f # Frame(k, x)) =>
              Keeps(stk, stk2, x)
         /\ \A x \in Windows, k \in PaintKinds : Owner[x] = t /\ f = Frame(k, x) =>
              Focus(stk2[Owner[x]], x, k)
  <1> DEFINE q == stk[t]
  <1>1. PICK A : q \in Seq(A) /\ \A g \in A : FrameOK(g, t) BY DEF StacksOK, StackOK
  <1> DEFINE B == A \cup {f}
  <1>2. \A g \in B : FrameOK(g, t) BY <1>1
  <1>3. q \in Seq(B) /\ f \in B
    <2>1. Len(q) \in Nat /\ q \in [1 .. Len(q) -> A] BY <1>1, LenProperties
    <2>2. q \in [1 .. Len(q) -> B] BY <2>1
    <2> HIDE DEF B, q
    <2>3. q \in Seq(B) BY <2>1, <2>2, SeqDef
    <2> QED BY <2>3 DEF B
  <1>4. stk2[t] = <<f>> \o q /\ \A s \in Threads : s # t => stk2[s] = stk[s]
    BY DEF StacksOK
  <1>5. stk2 = [s \in Threads |-> stk2[s]] BY DEF StacksOK
  <1> HIDE DEF B, q
  <1>6. <<f>> \o q \in Seq(B)
    <2> DEFINE p == <<f>>
    <2>1. p \in Seq(B) BY <1>3
    <2> HIDE DEF p
    <2>2. p \o q \in Seq(B) BY <1>3, <2>1, ConcatProperties
    <2> QED BY <2>2 DEF p
  <1>7. StacksOK(stk2)
    <2>1. StackOK(stk2[t], t) BY <1>2, <1>4, <1>6 DEF StackOK
    <2> QED BY <1>4, <1>5, <2>1 DEF StacksOK
  <1>8. ASSUME NEW x \in Windows, Owner[x] # t \/ \A k \in PaintKinds : f # Frame(k, x)
        PROVE  Keeps(stk, stk2, x)
    <2> SUFFICES ASSUME NEW kind \in PaintKinds, Focus(stk[Owner[x]], x, kind)
                 PROVE  Focus(stk2[Owner[x]], x, kind)
      BY DEF Keeps
    <2>1. Owner[x] \in Threads BY Types
    <2>2. CASE Owner[x] # t BY <1>4, <2>1, <2>2
    <2>3. CASE Owner[x] = t /\ \A k \in PaintKinds : f # Frame(k, x)
      <3>1. Focus(q, x, kind) BY <2>3 DEF q
      <3>2. Focus(<<f>> \o q, x, kind) BY <1>3, <2>3, <3>1, FocusPush
      <3> QED BY <1>4, <2>3, <3>2
    <2> QED BY <1>8, <2>2, <2>3
  <1>9. ASSUME NEW x \in Windows, NEW k \in PaintKinds, Owner[x] = t, f = Frame(k, x)
        PROVE  Focus(stk2[Owner[x]], x, k)
    <2>1. Frame(k, x) \in B BY <1>3, <1>9
    <2>2. Focus(<<Frame(k, x)>> \o q, x, k) BY <1>3, <2>1, FocusHead
    <2> QED BY <1>4, <1>9, <2>2
  <1> QED BY <1>7, <1>8, <1>9

\* It ends.
LEMMA StackPop ==
  ASSUME NEW stk, StacksOK(stk), NEW t \in Threads, stk[t] # <<>>, NEW stk2,
         stk2 = [stk EXCEPT ![t] = Tail(@)]
  PROVE  /\ StacksOK(stk2) /\ FrameOK(Head(stk[t]), t)
         /\ \A x \in Windows : Owner[x] # t \/ (\A k \in PaintKinds : Head(stk[t]) # Frame(k, x))
              => Keeps(stk, stk2, x)
         /\ \A x \in Windows, k \in PaintKinds : \A kind :
              Owner[x] = t /\ Head(stk[t]) = Frame(k, x) /\ Focus(stk[t], x, kind) => kind = k
  <1> DEFINE q == stk[t]
  <1>1. PICK A : q \in Seq(A) /\ \A g \in A : FrameOK(g, t) BY DEF StacksOK, StackOK
  <1>2. q # <<>> OBVIOUS
  <1>3. stk2[t] = Tail(q) /\ \A s \in Threads : s # t => stk2[s] = stk[s]
    BY DEF StacksOK
  <1>4. stk2 = [s \in Threads |-> stk2[s]] BY DEF StacksOK
  <1> HIDE DEF q
  <1>5. Tail(q) \in Seq(A) /\ Head(q) \in A BY <1>1, <1>2, HeadTailProperties
  <1>6. StacksOK(stk2)
    <2>1. StackOK(stk2[t], t) BY <1>1, <1>3, <1>5 DEF StackOK
    <2> QED BY <1>3, <1>4, <2>1 DEF StacksOK
  <1>7. FrameOK(Head(q), t) BY <1>1, <1>5
  <1>8. ASSUME NEW x \in Windows, Owner[x] # t \/ \A k \in PaintKinds : Head(q) # Frame(k, x)
        PROVE  Keeps(stk, stk2, x)
    <2> SUFFICES ASSUME NEW kind \in PaintKinds, Focus(stk[Owner[x]], x, kind)
                 PROVE  Focus(stk2[Owner[x]], x, kind)
      BY DEF Keeps
    <2>1. Owner[x] \in Threads BY Types
    <2>2. CASE Owner[x] # t BY <1>3, <2>1, <2>2
    <2>3. CASE Owner[x] = t /\ \A k \in PaintKinds : Head(q) # Frame(k, x)
      <3>1. Focus(q, x, kind) BY <2>3 DEF q
      <3>2. Focus(Tail(q), x, kind) BY <1>1, <1>2, <2>3, <3>1, FocusPop
      <3> QED BY <1>3, <2>3, <3>2
    <2> QED BY <1>8, <2>2, <2>3
  <1>9. ASSUME NEW x \in Windows, NEW k \in PaintKinds, NEW kind,
               Owner[x] = t, Head(q) = Frame(k, x), Focus(q, x, kind)
        PROVE  kind = k
    BY <1>1, <1>2, <1>9, FocusTop
  <1> QED BY <1>6, <1>7, <1>8, <1>9 DEF q

\* The top of a stack is replaced.
LEMMA StackSwap ==
  ASSUME NEW stk, StacksOK(stk), NEW t \in Threads, stk[t] # <<>>, NEW f, FrameOK(f, t),
         NEW stk2, stk2 = [stk EXCEPT ![t] = <<f>> \o Tail(@)]
  PROVE  /\ StacksOK(stk2)
         /\ \A x \in Windows : Owner[x] # t \/ (\A k \in PaintKinds : Head(stk[t]) # Frame(k, x)
                                                                     /\ f # Frame(k, x))
              => Keeps(stk, stk2, x)
         /\ \A x \in Windows, k \in PaintKinds : Owner[x] = t /\ f = Frame(k, x) =>
              Focus(stk2[Owner[x]], x, k)
  <1> DEFINE mid == [stk EXCEPT ![t] = Tail(@)]
  <1>1. stk2 = [mid EXCEPT ![t] = <<f>> \o @] BY DEF StacksOK
  <1>2. mid = [stk EXCEPT ![t] = Tail(@)] OBVIOUS
  <1> HIDE DEF mid
  <1>3. /\ StacksOK(mid)
        /\ \A x \in Windows : Owner[x] # t \/ (\A k \in PaintKinds : Head(stk[t]) # Frame(k, x))
             => Keeps(stk, mid, x)
    BY <1>2, StackPop
  <1>4. /\ StacksOK(stk2)
        /\ \A x \in Windows : Owner[x] # t \/ (\A k \in PaintKinds : f # Frame(k, x)) =>
             Keeps(mid, stk2, x)
        /\ \A x \in Windows, k \in PaintKinds : Owner[x] = t /\ f = Frame(k, x) =>
             Focus(stk2[Owner[x]], x, k)
    BY <1>1, <1>3, StackPush
  <1>5. \A x : Keeps(stk, mid, x) /\ Keeps(mid, stk2, x) => Keeps(stk, stk2, x)
    BY DEF Keeps
  <1> QED BY <1>3, <1>4, <1>5

-----------------------------------------------------------------------------
(* The calls of the applications.                                          *)

\* A call begins with one task.
LEMMA FirstTask ==
  ASSUME NEW S \in Screens, NEW X, NEW vis, NEW old, NEW stk, NEW dc,
         Quiet(S, X, vis, stk, dc), NEW k \in Tasks, k.op \notin {"destroy", "release"},
         TaskOK(S, k, vis, old)
  PROVE  Before(S, k, {}, X, vis, old, stk, dc) /\ Plain({k} \cup {})
  <1> DEFINE P == {k} \cup {}
  <1>1. Core(S, {}, X, vis, stk, dc) BY QuietCore
  <1>2. \A j \in {} : j \in P OBVIOUS
  <1>3. Core(S, P, X, vis, stk, dc) BY <1>1, <1>2, ScreenTypes, DropCore
  <1>4. \A j \in P : j = k OBVIOUS
  <1> HIDE DEF P
  <1>5. TaskInv(S, P, vis, old) BY <1>4 DEF TaskInv
  <1>6. Plain(P) BY <1>4 DEF Plain
  <1> QED BY <1>3, <1>5, <1>6 DEF Before, P

\* A call in progress is a record of a screen and tasks.
LEMMA ThenRecord ==
  ASSUME NEW S, NEW todo
  PROVE  LET y == Then(S, todo) IN y = Then(y.scr, y.todo)
  BY DEF Then

\* A call that does nothing.
LEMMA EmptyStep ==
  ASSUME NEW S \in Screens, NEW X, NEW vis, NEW stk, NEW dc, Quiet(S, X, vis, stk, dc)
  PROVE  StepInv(Then(S, <<>>), X, vis, {}, stk, dc)
  <1> DEFINE x == Then(S, <<>>)
             P == {}
  <1>1. x.scr = S /\ x.todo = <<>> BY DEF Then
  <1>2. x \in Running BY NoTasks DEF Then, Running
  <1>3. DOMAIN <<>> = {} OBVIOUS
  <1>4. DestroysFirst(<<>>) BY <1>3 DEF DestroysFirst
  <1>5. ToSet(x.todo) = P BY <1>1, NoTasks
  <1>6. TaskInv(S, P, vis, {}) BY DEF TaskInv
  <1>7. Core(S, P, X, vis, stk, dc) BY QuietCore
  <1> HIDE DEF x, P
  <1>8. StepInv(x, X, vis, {}, stk, dc)
    BY <1>1, <1>2, <1>4, <1>5, <1>6, <1>7 DEF StepInv
  <1> QED BY <1>8 DEF x

\* InvalidateRect of a window.
LEMMA InvalidateRectInv ==
  ASSUME ClipsAbove, IInv, NEW t \in Threads, NEW w \in Windows, NEW rect \in Rects,
         InvalidateRect(t, w, rect)
  PROVE  IInv'
  <1> DEFINE r == rect \cap rcClient[w]
             none == <<>>
             k == Task("tree", w, r, none)
             X == ExcusedBy(excused)
             y == WND_InvalidateTree(Screen, w, r)
  <1>1. /\ Screen \in Screens /\ Quiet(Screen, X, visible, stack, hasDC)
        /\ excused \in SUBSET Windows /\ StacksOK(stack) /\ NotifiedOK(notified)
    BY DEF IInv, Holds
  <1>2. rect \in SUBSET Nat /\ IsRect(rect) /\ rcClient[w] \in SUBSET Nat /\ IsRect(rcClient[w])
    BY TreeAssumption
  <1>3. r \in SUBSET Nat /\ IsRect(r) BY <1>2, MeetFacts
  <1>4. none \in Seq(Windows) /\ "tree" \in Ops BY EmptySeq DEF Ops
  <1> HIDE DEF r, none, X
  <1>5. k \in Tasks /\ k.op = "tree" /\ k.win = w /\ k.rect = r BY <1>3, <1>4, TaskType
  <1> HIDE DEF k
  <1>6. TaskOK(Screen, k, visible, {}) BY <1>3, <1>5 DEF TaskOK
  <1>7. k.op \notin {"destroy", "release"} BY <1>5
  <1>8. Before(Screen, k, {}, X, visible, {}, stack, hasDC) /\ Plain({k} \cup {})
    BY <1>1, <1>5, <1>6, <1>7, FirstTask
  <1>9. After(y, {}, X, visible, {}, stack, hasDC)
    <2>1. After(WND_InvalidateTree(Screen, k.win, k.rect), {}, X, visible, {}, stack, hasDC)
      BY <1>5, <1>8, TreeStep
    <2> QED BY <1>5, <2>1
  <1>10. y = Then(y.scr, y.todo) BY ThenRecord DEF WND_InvalidateTree, Invalidate
  <1> HIDE DEF y
  <1>11. StepInv(y, X, visible, {}, stack, hasDC) BY <1>9, <1>10, AfterInv
  <1>12. Call(y) /\ UNCHANGED <<visible, hasDC, notified, stack, excused>>
    BY DEF InvalidateRect, y, r
  <1>13. Screen' \in Screens /\ Quiet(Screen', X, visible, stack, hasDC)
    BY <1>11, <1>12, CallFacts
  <1> QED BY <1>1, <1>12, <1>13 DEF IInv, Holds, X

\* InvalidateRect of everything.
LEMMA InvalidateScreenInv ==
  ASSUME ClipsAbove, IInv, NEW t \in Threads, InvalidateScreen(t)
  PROVE  IInv'
  <1> DEFINE r == rcWindow[Root]
             none == <<>>
             k == Task("all", Root, r, none)
             X == ExcusedBy(excused)
             y == InvalidateBelow(Screen, "all", Root, r)
  <1>1. /\ Screen \in Screens /\ Quiet(Screen, X, visible, stack, hasDC)
        /\ excused \in SUBSET Windows /\ StacksOK(stack) /\ NotifiedOK(notified)
    BY DEF IInv, Holds
  <1>2. Root \in Windows /\ r \in SUBSET Nat /\ IsRect(r) BY Types
  <1>3. none \in Seq(Windows) /\ "all" \in Ops BY EmptySeq DEF Ops
  <1> HIDE DEF r, none, X
  <1>4. k \in Tasks /\ k.op = "all" /\ k.win = Root /\ k.rect = r BY <1>2, <1>3, TaskType
  <1> HIDE DEF k
  <1>5. TaskOK(Screen, k, visible, {}) BY <1>2, <1>4 DEF TaskOK
  <1>6. k.op \notin {"destroy", "release"} BY <1>4
  <1>7. Before(Screen, k, {}, X, visible, {}, stack, hasDC) /\ Plain({k} \cup {})
    BY <1>1, <1>4, <1>5, <1>6, FirstTask
  <1>8. After(y, {}, X, visible, {}, stack, hasDC)
    <2>1. k.op \in {"below", "all"} BY <1>4
    <2>2. After(InvalidateBelow(Screen, k.op, k.win, k.rect), {}, X, visible, {}, stack, hasDC)
      BY <1>7, <2>1, BelowStep
    <2> QED BY <1>4, <2>2
  <1>9. y = Then(y.scr, y.todo) BY ThenRecord DEF InvalidateBelow, Invalidate
  <1> HIDE DEF y
  <1>10. StepInv(y, X, visible, {}, stack, hasDC) BY <1>8, <1>9, AfterInv
  <1>11. Call(y) /\ UNCHANGED <<visible, hasDC, notified, stack, excused>>
    BY DEF InvalidateScreen, y, r
  <1>12. Screen' \in Screens /\ Quiet(Screen', X, visible, stack, hasDC)
    BY <1>10, <1>11, CallFacts
  <1> QED BY <1>1, <1>11, <1>12 DEF IInv, Holds, X

\* ShowWindow with SW_HIDE.
LEMMA HideWindowInv ==
  ASSUME ClipsAbove, IInv, NEW t \in Threads, NEW w \in Windows, HideWindow(t, w)
  PROVE  IInv'
  <1> DEFINE X == ExcusedBy(excused)
             vis == visible \ {w}
             none == <<>>
             e == {}
             r == rcWindow[w]
             i == Task("destroy", w, e, none)
             j == Task("left", w, r, none)
             todo == IF w \in mapped THEN <<i, j>> ELSE <<>>
             x == Then(Screen, todo)
  <1>1. /\ Screen \in Screens /\ Quiet(Screen, X, visible, stack, hasDC)
        /\ excused \in SUBSET Windows /\ StacksOK(stack) /\ NotifiedOK(notified)
    BY DEF IInv, Holds
  <1>2. w # Root BY TreeAssumption DEF HideWindow
  <1>3. Call(x) /\ visible' = vis /\ UNCHANGED <<hasDC, notified, stack, excused>>
    BY DEF HideWindow
  <1>4. e \in SUBSET Nat /\ r \in SUBSET Nat /\ IsRect(r) /\ IsRect(e)
    BY Types DEF IsRect
  <1>5. none \in Seq(Windows) /\ "destroy" \in Ops /\ "left" \in Ops BY EmptySeq DEF Ops
  <1> HIDE DEF e, r, none, X
  <1>6. i \in Tasks /\ i.op = "destroy" /\ i.win = w /\ i.rect = e BY <1>4, <1>5, TaskType
  <1>7. j \in Tasks /\ j.op = "left" /\ j.win = w /\ j.rect = r BY <1>4, <1>5, TaskType
  <1> HIDE DEF i, j
  <1>8. TaskOK(Screen, i, vis, {}) /\ TaskOK(Screen, j, vis, {})
    BY <1>2, <1>4, <1>6, <1>7 DEF TaskOK
  <1>9. /\ todo \in Seq(Tasks) /\ ToSet(todo) = IF w \in mapped THEN {i, j} ELSE {}
        /\ DestroysFirst(todo)
    <2>1. CASE w \in mapped
      <3> DEFINE q == <<i, j>>
      <3>1. q \in Seq(Tasks) /\ ToSet(q) = {i, j} BY <1>6, <1>7, TwoTasks
      <3>2. DOMAIN q = {1, 2} /\ q[1] = i /\ q[2] = j OBVIOUS
      <3> HIDE DEF q
      <3>3. \A n \in DOMAIN q : q[n].op = "destroy" => n = 1 BY <1>7, <3>2
      <3>4. DestroysFirst(q) BY <1>6, <3>2, <3>3 DEF DestroysFirst
      <3> QED BY <2>1, <3>1, <3>4 DEF q
    <2>2. CASE w \notin mapped
      <3>1. DOMAIN <<>> = {} OBVIOUS
      <3>2. DestroysFirst(<<>>) BY <3>1 DEF DestroysFirst
      <3> QED BY <2>2, <3>2, NoTasks
    <2> QED BY <2>1, <2>2
  <1>10. Screen.map = mapped BY DEF Screen
  <1> DEFINE S == Screen
             P == ToSet(todo)
  <1> HIDE DEF todo
  <1>11. TaskInv(S, P, vis, {})
    BY <1>6, <1>7, <1>8, <1>9 DEF TaskInv
  <1>12. Core(S, {}, X, visible, stack, hasDC) BY <1>1, QuietCore
  <1>13. \A k \in {} : k \in P OBVIOUS
  <1> HIDE DEF P
  <1>14. Core(S, P, X, visible, stack, hasDC) BY <1>1, <1>12, <1>13, ScreenTypes, DropCore
  <1>15. MapInv(S, P, vis)
    <2> SUFFICES ASSUME NEW c \in S.map
                 PROVE  Destroys(P, c) \/ (c \in vis /\ (c # Root => Parent(c) \in S.map))
      BY DEF MapInv
    <2>1. c \in visible /\ (c # Root => Parent(c) \in S.map) BY <1>1 DEF Quiet, MapNow
    <2>2. CASE c = w BY <1>6, <1>9, <1>10, <2>2 DEF Destroys, P
    <2>3. CASE c # w BY <2>1, <2>3
    <2> QED BY <2>2, <2>3
  <1>16. Core(S, P, X, vis, stack, hasDC) BY <1>14, <1>15 DEF Core
  <1>17. StepInv(x, X, vis, {}, stack, hasDC)
    BY <1>1, <1>9, <1>11, <1>16 DEF StepInv, Then, Running, P
  <1> HIDE DEF x, vis
  <1>18. Screen' \in Screens /\ Quiet(Screen', X, vis, stack, hasDC)
    BY <1>3, <1>17, CallFacts
  <1> QED BY <1>1, <1>3, <1>18 DEF IInv, Holds, X

\* ShowWindow with SW_SHOWNORMAL.
LEMMA ShowWindowInv ==
  ASSUME ClipsAbove, IInv, NEW t \in Threads, NEW w \in Windows, ShowWindow(t, w)
  PROVE  IInv'
  <1> DEFINE X == ExcusedBy(excused)
             vis == visible \cup {w}
  <1>1. /\ Screen \in Screens /\ Quiet(Screen, X, visible, stack, hasDC)
        /\ excused \in SUBSET Windows /\ StacksOK(stack) /\ NotifiedOK(notified)
    BY DEF IInv, Holds
  <1>2. w # Root /\ w \notin mapped BY TreeAssumption DEF ShowWindow
  <1>3. visible' = vis /\ UNCHANGED <<hasDC, notified, stack, excused>>
    BY DEF ShowWindow
  <1>4. Screen.map = mapped BY DEF Screen
  <1>5. MapNow(Screen, vis) BY <1>1 DEF Quiet, MapNow
  <1>6. Quiet(Screen, X, vis, stack, hasDC) BY <1>1, <1>5 DEF Quiet
  <1>7. CASE Parent(w) \in mapped
    <2> DEFINE r == rcWindow[w]
               none == <<>>
               k == Task("tree", w, r, none)
               y == Appear(Screen, w)
    <2>1. none \in Seq(Windows) /\ "tree" \in Ops /\ r \in SUBSET Nat /\ IsRect(r)
      BY EmptySeq, Types DEF Ops
    <2> HIDE DEF r, none, X, vis
    <2>2. k \in Tasks /\ k.op = "tree" /\ k.win = w /\ k.rect = r BY <2>1, TaskType
    <2> HIDE DEF k
    <2>3. TaskOK(Screen, k, vis, mapped) BY <2>1, <2>2 DEF TaskOK
    <2>4. k.op \notin {"destroy", "release"} BY <2>2
    <2>5. Before(Screen, k, {}, X, vis, mapped, stack, hasDC) /\ Plain({k} \cup {})
      BY <1>1, <1>6, <2>2, <2>3, <2>4, FirstTask
    <2>6. Showing(vis, mapped)
      BY <1>1, <1>4, <1>7 DEF Quiet, MapNow, Showing, vis
    <2>7. \A c \in Windows : Visits(k, c) <=> c = w BY <2>2 DEF Visits
    <2>8. Reach(k) = rcWindow[w] BY <2>2 DEF Reach, r
    <2>9. Shows(Screen, k, w, vis, mapped)
      BY <1>2, <1>4, <1>7, <2>6, <2>7, <2>8 DEF Shows, vis
    <2>10. Appearing(Screen, k, {}, X, vis, mapped, stack, hasDC, w)
      BY <2>5, <2>9 DEF Appearing
    <2>11. After(y, {}, X, vis, mapped, stack, hasDC) BY <2>10, AppearStep
    <2>12. y = Then(y.scr, y.todo) BY ThenRecord DEF Appear, Invalidate
    <2> HIDE DEF y
    <2>13. StepInv(y, X, vis, mapped, stack, hasDC) BY <2>11, <2>12, AfterInv
    <2>14. Call(y) BY <1>7 DEF ShowWindow, y
    <2>15. Screen' \in Screens /\ Quiet(Screen', X, vis, stack, hasDC)
      BY <2>13, <2>14, CallFacts
    <2> QED BY <1>1, <1>3, <2>15 DEF IInv, Holds, X
  <1>8. CASE Parent(w) \notin mapped
    <2> DEFINE x == Then(Screen, <<>>)
    <2>1. Call(x) BY <1>8 DEF ShowWindow
    <2>2. StepInv(x, X, vis, {}, stack, hasDC) BY <1>1, <1>6, EmptyStep
    <2> HIDE DEF x, X, vis
    <2>3. Screen' \in Screens /\ Quiet(Screen', X, vis, stack, hasDC)
      BY <2>1, <2>2, CallFacts
    <2> QED BY <1>1, <1>3, <2>3 DEF IInv, Holds, X
  <1> QED BY <1>7, <1>8

-----------------------------------------------------------------------------
(* The painting of a window.                                               *)

\* The parts of the invariant, with the variables for the fields of the screen.
LEMMA IInvFacts ==
  ASSUME IInv
  PROVE  /\ Screen \in Screens /\ Quiet(Screen, ExcusedBy(excused), visible, stack, hasDC)
         /\ excused \in SUBSET Windows /\ StacksOK(stack) /\ NotifiedOK(notified)
         /\ Screen.flag = flagUpdate /\ Screen.upd = rcUpdate /\ Screen.que = PaintMsgQue
         /\ Screen.map = mapped /\ Screen.dirty = dirty
  <1>1. /\ Screen.flag = flagUpdate /\ Screen.upd = rcUpdate /\ Screen.que = PaintMsgQue
        /\ Screen.map = mapped /\ Screen.dirty = dirty
    BY DEF Screen
  <1> QED BY <1>1 DEF IInv, Holds

\* The handler that a thread is in paints a window of the thread.
LEMMA TopFacts ==
  ASSUME IInv, NEW t \in Threads, NEW kind \in PaintKinds, In(t, kind)
  PROVE  /\ stack[t] # <<>> /\ Top(t).win \in Windows /\ Owner[Top(t).win] = t
         /\ Head(stack[t]) = Frame(kind, Top(t).win)
  <1> DEFINE stk2 == [stack EXCEPT ![t] = Tail(@)]
  <1>1. stack[t] # <<>> /\ Head(stack[t]).kind = kind BY DEF In, Top
  <1>2. StacksOK(stack) BY IInvFacts
  <1>3. stk2 = [stack EXCEPT ![t] = Tail(@)] OBVIOUS
  <1> HIDE DEF stk2
  <1>4. FrameOK(Head(stack[t]), t) BY <1>1, <1>2, <1>3, StackPop
  <1> DEFINE f == Head(stack[t])
  <1> HIDE DEF f
  <1>5. f.kind = kind /\ FrameOK(f, t) BY <1>1, <1>4 DEF f
  <1>6. f.kind # "update" BY <1>5 DEF PaintKinds
  <1>7. ~\E q : f = Frame("update", q) BY <1>6 DEF Frame
  <1>8. PICK k \in PaintKinds, w \in Windows : f = Frame(k, w) /\ Owner[w] = t
    BY <1>5, <1>7 DEF FrameOK
  <1>9. f.kind = k /\ f.win = w BY <1>8 DEF Frame
  <1> QED BY <1>1, <1>5, <1>8, <1>9 DEF f, Top

\* Frames are equal when they are about the same.
LEMMA FrameNames ==
  ASSUME NEW k, NEW l, NEW w, NEW x
  PROVE  Frame(k, w) = Frame(l, x) <=> k = l /\ w = x
  BY DEF Frame

\* Only the stacks and the windows between BeginPaint and EndPaint change.
LEMMA QuietStacks ==
  ASSUME NEW S, NEW X, NEW vis, NEW stk, NEW dc, NEW stk2, NEW dc2,
         Quiet(S, X, vis, stk, dc), DrawInv(S, X, stk2, dc2)
  PROVE  Quiet(S, X, vis, stk2, dc2)
  BY DEF Quiet

\* A window that a parent does not wait for is painted apart from it.
LEMMA Apart ==
  ASSUME NEW S \in Screens, NEW X, NEW vis, NEW stk, NEW dc, Quiet(S, X, vis, stk, dc),
         NEW w \in Windows, S.flag[w] = "DRAWING"
  PROVE  Lonely(S, X, w)
  <1>1. OrderedNow(S, X) /\ OverdrawnNow(S, X) BY DEF Quiet
  <1>2. S.flag[w] \in {"QUEUE", "DRAWING"} OBVIOUS
  <1> QED BY <1>1, <1>2, Alone DEF Lonely

\* More excused windows need less.
LEMMA LonelyMore ==
  ASSUME NEW S, NEW X, NEW Y, NEW w, Lonely(S, X, w), X \subseteq Y
  PROVE  Lonely(S, Y, w)
  BY DEF Lonely

\* Every painting goes on as before, or all but that of w.
LEMMA DrawOn ==
  ASSUME NEW S, NEW T, NEW X, NEW Y, NEW stk, NEW stk2, NEW dc, NEW dc2,
         DrawInv(S, X, stk, dc), X \subseteq Y,
         \A x \in Windows \ Y : T.flag[x] = "DRAWING" =>
           /\ S.flag[x] = "DRAWING" /\ T.dirty[x] \subseteq S.dirty[x]
           /\ x \in dc => x \in dc2
           /\ Keeps(stk, stk2, x)
  PROVE  DrawInv(T, Y, stk2, dc2)
  <1> SUFFICES ASSUME NEW x \in Windows \ Y, T.flag[x] = "DRAWING"
               PROVE  \E kind \in PaintKinds :
                        /\ Focus(stk2[Owner[x]], x, kind)
                        /\ kind = "nc" /\ x # Root => T.dirty[x] \subseteq rcClient[x]
                        /\ kind = "begun" => x \in dc2 /\ (x # Root => T.dirty[x] = {})
    BY DEF DrawInv
  <1>1. PICK kind \in PaintKinds :
          /\ Focus(stk[Owner[x]], x, kind)
          /\ kind = "nc" /\ x # Root => S.dirty[x] \subseteq rcClient[x]
          /\ kind = "begun" => x \in dc /\ (x # Root => S.dirty[x] = {})
    BY DEF DrawInv
  <1>2. Focus(stk2[Owner[x]], x, kind) BY <1>1 DEF Keeps
  <1>3. kind = "nc" /\ x # Root => T.dirty[x] \subseteq rcClient[x] BY <1>1
  <1>4. kind = "begun" => x \in dc2 /\ (x # Root => T.dirty[x] = {}) BY <1>1
  <1> QED BY <1>2, <1>3, <1>4

\* A window goes on to the next stage of its painting, the others as before.
LEMMA DrawAt ==
  ASSUME NEW S, NEW T, NEW X, NEW Y, NEW stk, NEW stk2, NEW dc, NEW dc2,
         DrawInv(S, X, stk, dc), X \subseteq Y, NEW w \in Windows, NEW kind \in PaintKinds,
         Focus(stk2[Owner[w]], w, kind),
         kind = "nc" /\ w \notin {Root} \cup Y => T.dirty[w] \subseteq rcClient[w],
         kind = "begun" => w \in dc2 /\ (w \notin {Root} \cup Y => T.dirty[w] = {}),
         \A x \in Windows \ Y : x # w /\ T.flag[x] = "DRAWING" =>
           /\ S.flag[x] = "DRAWING" /\ T.dirty[x] \subseteq S.dirty[x]
           /\ x \in dc => x \in dc2
           /\ Keeps(stk, stk2, x)
  PROVE  DrawInv(T, Y, stk2, dc2)
  <1>1. DrawInv(T, Y \cup {w}, stk2, dc2)
    <2>1. X \subseteq Y \cup {w} OBVIOUS
    <2>2. \A x \in Windows \ (Y \cup {w}) : T.flag[x] = "DRAWING" =>
           /\ S.flag[x] = "DRAWING" /\ T.dirty[x] \subseteq S.dirty[x]
           /\ x \in dc => x \in dc2
           /\ Keeps(stk, stk2, x)
      OBVIOUS
    <2> DEFINE Z == Y \cup {w}
    <2>3. X \subseteq Z BY <2>1
    <2>4. \A x \in Windows \ Z : T.flag[x] = "DRAWING" =>
           /\ S.flag[x] = "DRAWING" /\ T.dirty[x] \subseteq S.dirty[x]
           /\ x \in dc => x \in dc2
           /\ Keeps(stk, stk2, x)
      BY <2>2
    <2> HIDE DEF Z
    <2>5. DrawInv(T, Z, stk2, dc2) BY <2>3, <2>4, DrawOn
    <2> QED BY <2>5 DEF Z
  <1> SUFFICES ASSUME NEW x \in Windows \ Y, T.flag[x] = "DRAWING"
               PROVE  \E l \in PaintKinds :
                        /\ Focus(stk2[Owner[x]], x, l)
                        /\ l = "nc" /\ x # Root => T.dirty[x] \subseteq rcClient[x]
                        /\ l = "begun" => x \in dc2 /\ (x # Root => T.dirty[x] = {})
    BY DEF DrawInv
  <1>2. CASE x = w BY <1>2
  <1>3. CASE x # w
    <2>1. x \in Windows \ (Y \cup {w}) BY <1>3
    <2> QED BY <1>1, <2>1 DEF DrawInv
  <1> QED BY <1>2, <1>3

\* The handler of WM_NCPAINT returns.
LEMMA NCPaintReturnsInv ==
  ASSUME IInv, NEW t \in Threads, NCPaintReturns(t)
  PROVE  IInv'
  <1> DEFINE S == Screen
             X == ExcusedBy(excused)
             w == Top(t).win
             u == S.upd[w] \cap rcClient[w]
             R == [S EXCEPT !.upd[w] = u]
             kids == {c \in ToSet(Children[w]) : flagUpdate[c] = "WAIT"}
  <1>1. /\ S \in Screens /\ Quiet(S, X, visible, stack, hasDC)
        /\ excused \in SUBSET Windows /\ StacksOK(stack) /\ NotifiedOK(notified)
        /\ S.flag = flagUpdate /\ S.upd = rcUpdate
    BY IInvFacts
  <1>2. /\ stack[t] # <<>> /\ w \in Windows /\ Owner[w] = t
        /\ Head(stack[t]) = Frame("nc", w)
    <2>1. "nc" \in PaintKinds BY DEF PaintKinds
    <2>2. In(t, "nc") BY DEF NCPaintReturns
    <2> QED BY <2>1, <2>2, TopFacts
  <1>3. UNCHANGED <<visible, hasDC, notified>> BY DEF NCPaintReturns
  <1>4. R = [Screen EXCEPT !.upd[w] = @ \cap rcClient[w]] OBVIOUS
  <1>5. \/ /\ flagUpdate[w] # "DRAWING" /\ stack' = Pop(t) /\ UNCHANGED <<screen, excused>>
        \/ /\ flagUpdate[w] = "DRAWING" /\ R.upd[w] = {} /\ Become(SetFlag(R, w, "NO"))
           /\ stack' = Pop(t) /\ excused' = excused \cup kids
        \/ /\ flagUpdate[w] = "DRAWING" /\ R.upd[w] # {} /\ Become(R)
           /\ stack' = Swap(t, Frame("paint", w)) /\ UNCHANGED excused
    BY <1>4 DEF NCPaintReturns
  <1>6. u \in SUBSET Nat /\ IsRect(u) /\ u \subseteq S.upd[w]
    <2>1. S.upd[w] \in SUBSET Nat /\ rcClient[w] \in SUBSET Nat /\ IsRect(rcClient[w])
      BY <1>1, <1>2, ScreenTypes, Types
    <2>2. IsRect(S.upd[w]) BY <1>1, <1>2 DEF Quiet, RegionInv, AreaInv
    <2> QED BY <2>1, <2>2, MeetFacts
  <1>7. S.flag[w] = "DRAWING" /\ w \notin X /\ w # Root => S.dirty[w] \subseteq u
    <2> SUFFICES ASSUME S.flag[w] = "DRAWING", w \notin X, w # Root
                 PROVE  S.dirty[w] \subseteq u
      OBVIOUS
    <2>1. DrawInv(S, X, stack, hasDC) /\ DirtyInv(S, X) BY <1>1 DEF Quiet
    <2>2. PICK kind \in PaintKinds :
            /\ Focus(stack[Owner[w]], w, kind)
            /\ kind = "nc" /\ w # Root => S.dirty[w] \subseteq rcClient[w]
      BY <1>2, <2>1 DEF DrawInv
    <2> DEFINE stk2 == [stack EXCEPT ![t] = Tail(@)]
    <2>3. stk2 = [stack EXCEPT ![t] = Tail(@)] OBVIOUS
    <2>4. "nc" \in PaintKinds BY DEF PaintKinds
    <2> HIDE DEF stk2, w, X, u
    <2>5. kind = "nc" BY <1>1, <1>2, <2>2, <2>3, <2>4, StackPop
    <2>6. S.dirty[w] \subseteq S.upd[w] BY <1>2, <2>1 DEF DirtyInv
    <2> QED BY <2>2, <2>5, <2>6 DEF u
  <1> HIDE DEF u, w, X
  <1>8. /\ R \in Screens /\ \A x \in Windows : R.upd[x] = IF x = w THEN u ELSE S.upd[x]
        /\ R.flag = S.flag /\ R.map = S.map /\ R.dirty = S.dirty /\ R.que = S.que
        /\ R.num = S.num
    BY <1>1, <1>2, <1>6, UpdFacts
  <1> HIDE DEF R
  <1>9. QueueInv(R) BY <1>1, <1>8, QueueSame DEF Quiet
  <1>10. CASE /\ flagUpdate[w] # "DRAWING" /\ stack' = Pop(t) /\ UNCHANGED <<screen, excused>>
    <2>1. /\ StacksOK(stack')
          /\ \A x \in Windows : Owner[x] # t \/ (\A k \in PaintKinds : Head(stack[t]) # Frame(k, x))
               => Keeps(stack, stack', x)
      BY <1>1, <1>2, <1>10, StackPop DEF Pop
    <2>2. DrawInv(S, X, stack', hasDC)
      <3>1. \A x \in Windows \ X : S.flag[x] = "DRAWING" => Keeps(stack, stack', x)
        BY <1>1, <1>2, <1>10, <2>1, FrameNames
      <3>2. DrawInv(S, X, stack, hasDC) BY <1>1 DEF Quiet
      <3>3. X \subseteq X OBVIOUS
      <3> QED BY <3>1, <3>2, <3>3, DrawOn
    <2>3. Quiet(S, X, visible, stack', hasDC) BY <1>1, <2>2, QuietStacks
    <2>4. Screen' = S BY <1>10, UnchangedFacts
    <2> QED BY <1>1, <1>3, <1>10, <2>1, <2>3, <2>4 DEF IInv, Holds, X
  <1>11. CASE /\ flagUpdate[w] = "DRAWING" /\ R.upd[w] = {} /\ Become(SetFlag(R, w, "NO"))
              /\ stack' = Pop(t) /\ excused' = excused \cup kids
    <2> DEFINE F == excused \cup kids
               Y == ExcusedBy(F)
               T == SetFlag(R, w, "NO")
    <2>1. F \in SUBSET Windows /\ excused \subseteq F /\ kids \subseteq F
      BY <1>1, <1>2, KidTypes
    <2>2. X \subseteq Y /\ kids \subseteq Y
      <3>1. F \subseteq Y BY <2>1, ExcusedFacts
      <3>2. X \subseteq Y BY <2>1, ExcusedMore DEF X
      <3> QED BY <2>1, <3>1, <3>2
    <2>3. "NO" \in Flags /\ "NO" # "QUEUE" BY DEF Flags
    <2>4. /\ T \in Screens /\ T.flag = [S.flag EXCEPT ![w] = "NO"] /\ T.upd = R.upd
          /\ T.map = S.map /\ T.dirty = S.dirty /\ T.que = S.que /\ T.num = S.num
          /\ \A x \in Windows : T.flag[x] = IF x = w THEN "NO" ELSE S.flag[x]
      BY <1>2, <1>8, <2>3, FlagFacts
    <2> HIDE DEF T, Y, F
    <2>5. QueueInv(T)
      <3>1. S.flag[w] # "QUEUE" BY <1>1, <1>11
      <3>2. QueueInv(S) BY <1>1 DEF Quiet
      <3> QED BY <1>1, <1>2, <2>3, <2>4, <3>1, <3>2, FlagQueue
    <2>6. S.flag[w] = "DRAWING" /\ R.upd[w] = {} /\ u = {} BY <1>1, <1>2, <1>8, <1>11
    <2>7. Tidy(T, w)
      <3>1. Tidy(S, w) BY <1>1, <1>2 DEF Quiet, RegionInv
      <3> QED BY <1>2, <2>4, <2>6, <3>1 DEF Tidy
    <2>8. Lonely(S, Y, w)
      <3>1. Lonely(S, X, w) BY <1>1, <1>2, <2>6, Apart
      <3> QED BY <2>2, <3>1, LonelyMore
    <2>9. \A x \in Windows : x # w => /\ T.flag[x] = S.flag[x] /\ T.upd[x] = S.upd[x]
                                      /\ T.dirty[x] = S.dirty[x]
      BY <1>8, <2>4
    <2>10. Shrunk(S, T, w)
      <3>1. T.flag[w] = "NO" /\ T.upd[w] = u /\ T.map = S.map BY <1>2, <1>8, <2>4
      <3> QED BY <1>6, <2>7, <2>9, <3>1 DEF Shrunk
    <2>11. /\ RegionInv(T) /\ OrderedNow(T, Y) /\ OverdrawnNow(T, Y) /\ MapNow(T, visible)
           /\ T.flag[Root] # "WAIT"
           /\ \A c \in Windows \ {Root} : T.flag[c] = "WAIT" =>
                T.flag[Parent(c)] # "NO" \/ c \in X \/ (Parent(c) = w /\ T.flag[w] = "NO")
      <3>1. X \subseteq Y /\ w \in Windows BY <1>2, <2>2
      <3>2. S \in Screens /\ Quiet(S, X, visible, stack, hasDC) BY <1>1
      <3> HIDE DEF S, kids
      <3> QED BY <2>8, <2>10, <3>1, <3>2, Shrinks
    <2>12. WaitNow(T, Y)
      <3>1. ASSUME NEW c \in Windows \ {Root}, T.flag[c] = "WAIT", Parent(c) = w
            PROVE  c \in Y
        <4>1. c \in ToSet(Children[w]) /\ c # w BY <3>1, ParentFacts
        <4>2. flagUpdate[c] = "WAIT" BY <1>1, <2>4, <3>1, <4>1
        <4> QED BY <2>2, <4>1, <4>2
      <3> QED BY <2>2, <2>11, <3>1 DEF WaitNow
    <2>13. DirtyInv(T, Y)
      <3>1. DirtyInv(S, X) BY <1>1 DEF Quiet
      <3>2. \A x \in Windows \ ({Root} \cup Y) : x # w => T.dirty[x] \subseteq T.upd[x]
        BY <2>2, <2>9, <3>1 DEF DirtyInv
      <3>3. w \notin {Root} \cup Y => T.dirty[w] \subseteq T.upd[w]
        BY <1>2, <1>7, <1>8, <2>2, <2>4, <2>6
      <3> QED BY <3>2, <3>3 DEF DirtyInv
    <2>14. /\ StacksOK(stack')
           /\ \A x \in Windows : Owner[x] # t \/ (\A k \in PaintKinds : Head(stack[t]) # Frame(k, x))
                => Keeps(stack, stack', x)
      BY <1>1, <1>2, <1>11, StackPop DEF Pop
    <2>15. DrawInv(T, Y, stack', hasDC)
      <3>1. \A x \in Windows \ Y : T.flag[x] = "DRAWING" =>
              S.flag[x] = "DRAWING" /\ Keeps(stack, stack', x) /\ T.dirty[x] \subseteq S.dirty[x]
        BY <1>2, <2>4, <2>14, FrameNames
      <3>2. DrawInv(S, X, stack, hasDC) BY <1>1 DEF Quiet
      <3> QED BY <2>2, <3>1, <3>2, DrawOn
    <2>16. Quiet(T, Y, visible, stack', hasDC)
      BY <2>5, <2>11, <2>12, <2>13, <2>15 DEF Quiet
    <2>17. Screen' = T BY <1>11, <2>4, BecomeFacts DEF T
    <2>18. excused' = F BY <1>11 DEF F
    <2> QED BY <1>1, <1>3, <2>1, <2>4, <2>14, <2>16, <2>17, <2>18 DEF IInv, Holds, Y
  <1>12. CASE /\ flagUpdate[w] = "DRAWING" /\ R.upd[w] # {} /\ Become(R)
              /\ stack' = Swap(t, Frame("paint", w)) /\ UNCHANGED excused
    <2>1. S.flag[w] = "DRAWING" /\ X \subseteq X BY <1>1, <1>12
    <2>2. Tidy(R, w)
      <3>1. Tidy(S, w) BY <1>1, <1>2 DEF Quiet, RegionInv
      <3> QED BY <1>2, <1>8, <2>1, <3>1 DEF Tidy
    <2>3. Lonely(S, X, w)
      BY <1>1, <1>2, <2>1, Apart
    <2>4. \A x \in Windows : x # w => /\ R.flag[x] = S.flag[x] /\ R.upd[x] = S.upd[x]
                                      /\ R.dirty[x] = S.dirty[x]
      BY <1>8
    <2>5. Shrunk(S, R, w)
      <3>1. R.flag[w] = S.flag[w] /\ R.upd[w] = u /\ R.map = S.map BY <1>2, <1>8
      <3> QED BY <1>6, <2>2, <2>4, <3>1 DEF Shrunk
    <2>6. /\ RegionInv(R) /\ OrderedNow(R, X) /\ OverdrawnNow(R, X) /\ MapNow(R, visible)
          /\ R.flag[Root] # "WAIT"
          /\ \A c \in Windows \ {Root} : R.flag[c] = "WAIT" =>
               R.flag[Parent(c)] # "NO" \/ c \in X \/ (Parent(c) = w /\ R.flag[w] = "NO")
      BY <1>1, <1>2, <2>1, <2>3, <2>5, Shrinks
    <2>7. WaitNow(R, X)
      <3>1. R.flag[w] # "NO" BY <1>8, <2>1
      <3> QED BY <2>6, <3>1 DEF WaitNow
    <2>8. DirtyInv(R, X)
      <3>1. DirtyInv(S, X) BY <1>1 DEF Quiet
      <3>2. \A x \in Windows \ ({Root} \cup X) : x # w => R.dirty[x] \subseteq R.upd[x]
        BY <2>4, <3>1 DEF DirtyInv
      <3>3. w \notin {Root} \cup X => R.dirty[w] \subseteq R.upd[w]
        BY <1>2, <1>7, <1>8, <2>1
      <3> QED BY <3>2, <3>3 DEF DirtyInv
    <2> DEFINE f == Frame("paint", w)
    <2>9. "paint" \in PaintKinds BY DEF PaintKinds
    <2>10. FrameOK(f, t) BY <1>2, <2>9 DEF FrameOK
    <2>11. stack' = [stack EXCEPT ![t] = <<f>> \o Tail(@)] BY <1>12 DEF Swap
    <2>12. f = Frame("paint", w) OBVIOUS
    <2> HIDE DEF f
    <2>13. /\ StacksOK(stack')
           /\ \A x \in Windows : Owner[x] # t \/ (\A k \in PaintKinds : Head(stack[t]) # Frame(k, x)
                                                                        /\ f # Frame(k, x))
                => Keeps(stack, stack', x)
           /\ \A x \in Windows, k \in PaintKinds : Owner[x] = t /\ f = Frame(k, x) =>
                Focus(stack'[Owner[x]], x, k)
      BY <1>1, <1>2, <2>10, <2>11, StackSwap
    <2>14. DrawInv(R, X, stack', hasDC)
      <3>1. \A x \in Windows \ X : x # w => Keeps(stack, stack', x)
        BY <1>2, <2>12, <2>13, FrameNames
      <3>2. Focus(stack'[Owner[w]], w, "paint") BY <1>2, <2>9, <2>12, <2>13
      <3>3. DrawInv(S, X, stack, hasDC) BY <1>1 DEF Quiet
      <3>4. \A x \in Windows \ X : x # w /\ R.flag[x] = "DRAWING" =>
              S.flag[x] = "DRAWING" /\ R.dirty[x] \subseteq S.dirty[x] /\ Keeps(stack, stack', x)
        BY <1>8, <3>1
      <3>5. "paint" # "nc" /\ "paint" # "begun" OBVIOUS
      <3> QED BY <1>2, <2>1, <2>9, <3>2, <3>3, <3>4, <3>5, DrawAt
    <2>15. Quiet(R, X, visible, stack', hasDC)
      BY <1>9, <2>6, <2>7, <2>8, <2>14 DEF Quiet
    <2>16. Screen' = R BY <1>8, <1>12, BecomeFacts
    <2> QED BY <1>1, <1>3, <1>8, <1>12, <2>13, <2>15, <2>16 DEF IInv, Holds, X
  <1> QED BY <1>5, <1>10, <1>11, <1>12

\* A WM_PAINT sent by another thread is taken.
LEMMA TakeNotifiedInv ==
  ASSUME IInv, NEW t \in Threads, TakeNotified(t)
  PROVE  IInv'
  <1> DEFINE S == Screen
             X == ExcusedBy(excused)
             q == notified[t]
             w == Head(q)
             f == Frame("paint", w)
  <1>1. /\ S \in Screens /\ Quiet(S, X, visible, stack, hasDC)
        /\ excused \in SUBSET Windows /\ StacksOK(stack) /\ NotifiedOK(notified)
    BY IInvFacts
  <1>2. /\ q # <<>> /\ notified' = [notified EXCEPT ![t] = Tail(q)]
        /\ stack' = [stack EXCEPT ![t] = <<f>> \o @]
        /\ UNCHANGED <<screen, visible, hasDC, excused>>
    BY DEF TakeNotified, Push
  <1>3. q \in Seq(Windows) /\ \A x \in ToSet(q) : Owner[x] = t BY <1>1 DEF NotifiedOK
  <1> HIDE DEF X, q
  <1>4. /\ w \in Windows /\ Tail(q) \in Seq(Windows) /\ ToSet(q) = {w} \cup ToSet(Tail(q))
    BY <1>2, <1>3, HeadTailSet
  <1>5. Owner[w] = t BY <1>3, <1>4
  <1>6. NotifiedOK(notified')
    <2> DEFINE r == Tail(q)
    <2>1. r \in Seq(Windows) /\ \A x \in ToSet(r) : Owner[x] = t BY <1>3, <1>4
    <2>2. notified' = [notified EXCEPT ![t] = r] BY <1>2
    <2> HIDE DEF r
    <2> QED BY <1>1, <2>1, <2>2 DEF NotifiedOK
  <1>7. "paint" \in PaintKinds BY DEF PaintKinds
  <1> HIDE DEF w
  <1>8. FrameOK(f, t) /\ f = Frame("paint", w) BY <1>4, <1>5, <1>7 DEF FrameOK
  <1> HIDE DEF f
  <1>9. /\ StacksOK(stack')
        /\ \A x \in Windows : Owner[x] # t \/ (\A k \in PaintKinds : f # Frame(k, x)) =>
             Keeps(stack, stack', x)
        /\ \A x \in Windows, k \in PaintKinds : Owner[x] = t /\ f = Frame(k, x) =>
             Focus(stack'[Owner[x]], x, k)
    BY <1>1, <1>2, <1>8, StackPush
  <1>10. DrawInv(S, X, stack', hasDC)
    <2>1. \A x \in Windows \ X : x # w => Keeps(stack, stack', x)
      BY <1>8, <1>9, FrameNames
    <2>2. Focus(stack'[Owner[w]], w, "paint") BY <1>4, <1>5, <1>7, <1>8, <1>9
    <2>3. DrawInv(S, X, stack, hasDC) /\ X \subseteq X BY <1>1 DEF Quiet
    <2>4. "paint" # "nc" /\ "paint" # "begun" OBVIOUS
    <2> QED BY <1>4, <1>7, <2>1, <2>2, <2>3, <2>4, DrawAt
  <1>11. Quiet(S, X, visible, stack', hasDC) BY <1>1, <1>10, QuietStacks
  <1>12. Screen' = S BY <1>2, UnchangedFacts
  <1> QED BY <1>1, <1>2, <1>6, <1>9, <1>11, <1>12 DEF IInv, Holds, X

\* Only what is dirty changes.
LEMMA Redrawn ==
  ASSUME NEW S \in Screens, NEW T \in Screens, NEW X, NEW vis, NEW stk, NEW dc,
         Quiet(S, X, vis, stk, dc),
         T.flag = S.flag, T.upd = S.upd, T.map = S.map, T.que = S.que, T.num = S.num,
         \A x \in Windows : x \notin S.map => T.dirty[x] = {}
  PROVE  /\ QueueInv(T) /\ RegionInv(T) /\ OrderedNow(T, X) /\ OverdrawnNow(T, X)
         /\ MapNow(T, vis) /\ WaitNow(T, X)
  <1>1. RegionInv(T)
    <2>1. AreaInv(T) BY DEF Quiet, RegionInv, AreaInv
    <2>2. \A x \in Windows : Tidy(T, x) BY DEF Quiet, RegionInv, Tidy
    <2> QED BY <2>1, <2>2 DEF RegionInv
  <1>2. QueueInv(T) BY QueueSame DEF Quiet
  <1>3. OrderedNow(T, X) BY DEF Quiet, OrderedNow, Under
  <1>4. OverdrawnNow(T, X) BY DEF Quiet, OverdrawnNow, Under
  <1>5. MapNow(T, vis) /\ WaitNow(T, X) BY DEF Quiet, MapNow, WaitNow
  <1> QED BY <1>1, <1>2, <1>3, <1>4, <1>5

\* BeginPaint, and the drawing.
LEMMA BeginPaintInv ==
  ASSUME ClipsAbove, IInv, NEW t \in Threads, BeginPaint(t)
  PROVE  IInv'
  <1> DEFINE S == Screen
             X == ExcusedBy(excused)
             w == Top(t).win
             area == S.upd[w]
             d == Covered(S, w, area)
             T == [S EXCEPT !.dirty = d]
             f == Frame("begun", w)
  <1>1. /\ S \in Screens /\ Quiet(S, X, visible, stack, hasDC)
        /\ excused \in SUBSET Windows /\ StacksOK(stack) /\ NotifiedOK(notified)
        /\ S.upd = rcUpdate
    BY IInvFacts
  <1>2. "paint" \in PaintKinds /\ "begun" \in PaintKinds BY DEF PaintKinds
  <1>3. In(t, "paint") BY DEF BeginPaint
  <1>4. /\ stack[t] # <<>> /\ w \in Windows /\ Owner[w] = t
        /\ Head(stack[t]) = Frame("paint", w)
    BY <1>2, <1>3, TopFacts
  <1>5. /\ Become(T) /\ hasDC' = hasDC \cup {w}
        /\ stack' = [stack EXCEPT ![t] = <<f>> \o Tail(@)]
        /\ UNCHANGED <<visible, notified, excused>>
    BY <1>1 DEF BeginPaint, Swap
  <1>6. Closed(X) BY <1>1, ExcusedFacts
  <1>7. S.flag[w] # "NO" \/ w \notin S.map \/ area = {}
    BY <1>1, <1>4 DEF Quiet, RegionInv, Tidy
  <1>8. area \subseteq S.upd[w] OBVIOUS
  <1> HIDE DEF X, w, area
  <1>9. /\ d \in [Windows -> SUBSET Nat] /\ d[w] = S.dirty[w] \ area
        /\ \A x \in Windows : x \notin S.map => d[x] = {}
        /\ \A x \in Windows \ X :
             /\ d[x] \subseteq S.dirty[x] \cup S.upd[x]
             /\ S.flag[x] = "DRAWING" => d[x] \subseteq S.dirty[x]
    BY <1>1, <1>4, <1>6, <1>7, <1>8, CoverFacts
  <1> HIDE DEF d
  <1>10. /\ T \in Screens /\ T.dirty = d
         /\ T.flag = S.flag /\ T.map = S.map /\ T.upd = S.upd /\ T.que = S.que
         /\ T.num = S.num
    BY <1>1, <1>9, DirtyFacts
  <1> HIDE DEF T
  <1>11. /\ QueueInv(T) /\ RegionInv(T) /\ OrderedNow(T, X) /\ OverdrawnNow(T, X)
         /\ MapNow(T, visible) /\ WaitNow(T, X)
    BY <1>1, <1>9, <1>10, Redrawn
  <1>12. DirtyInv(S, X) /\ DrawInv(S, X, stack, hasDC) BY <1>1 DEF Quiet
  <1>13. DirtyInv(T, X) BY <1>9, <1>10, <1>12 DEF DirtyInv
  <1>14. FrameOK(f, t) /\ f = Frame("begun", w) BY <1>2, <1>4 DEF FrameOK
  <1> HIDE DEF f
  <1>15. /\ StacksOK(stack')
         /\ \A x \in Windows : Owner[x] # t \/ (\A k \in PaintKinds : Head(stack[t]) # Frame(k, x)
                                                                      /\ f # Frame(k, x))
              => Keeps(stack, stack', x)
         /\ \A x \in Windows, k \in PaintKinds : Owner[x] = t /\ f = Frame(k, x) =>
              Focus(stack'[Owner[x]], x, k)
    BY <1>1, <1>4, <1>5, <1>14, StackSwap
  <1>16. DrawInv(T, X, stack', hasDC')
    <2>1. \A x \in Windows \ X : x # w => Keeps(stack, stack', x)
      BY <1>4, <1>14, <1>15, FrameNames
    <2>2. Focus(stack'[Owner[w]], w, "begun") BY <1>2, <1>4, <1>14, <1>15
    <2>3. X \subseteq X /\ "begun" # "nc" OBVIOUS
    <2>4. w \in hasDC' /\ (w \notin {Root} \cup X => T.dirty[w] = {})
      BY <1>4, <1>5, <1>9, <1>10, <1>12 DEF DirtyInv, area
    <2>5. \A x \in Windows \ X : x # w /\ T.flag[x] = "DRAWING" =>
            /\ S.flag[x] = "DRAWING" /\ T.dirty[x] \subseteq S.dirty[x]
            /\ x \in hasDC => x \in hasDC'
            /\ Keeps(stack, stack', x)
      BY <1>5, <1>9, <1>10, <2>1
    <2> QED BY <1>2, <1>4, <1>12, <2>2, <2>3, <2>4, <2>5, DrawAt
  <1>17. Quiet(T, X, visible, stack', hasDC')
    BY <1>11, <1>13, <1>16 DEF Quiet
  <1>18. Screen' = T BY <1>5, <1>10, BecomeFacts
  <1> QED BY <1>1, <1>5, <1>10, <1>15, <1>17, <1>18 DEF IInv, Holds, X

\* WND_GetPaintMessage: the message taken is of a queued window, and the parent
\* does not come first.
LEMMA GetPaintMessageInv ==
  ASSUME ClipsAbove, IInv, NEW t \in Threads, WND_GetPaintMessage(t)
  PROVE  IInv'
  <1> DEFINE S == Screen
             X == ExcusedBy(excused)
             que == S.que[t]
             m == Head(que)
             w == m.hwnd
             G == [S EXCEPT !.que[t] = Tail(@), !.num = @ - 1]
  <1>1. /\ S \in Screens /\ Quiet(S, X, visible, stack, hasDC)
        /\ excused \in SUBSET Windows /\ StacksOK(stack) /\ NotifiedOK(notified)
        /\ S.que = PaintMsgQue
    BY IInvFacts
  <1>2. que # <<>> /\ que = PaintMsgQue[t] /\ UNCHANGED <<visible, hasDC, notified, excused>>
    BY <1>1 DEF WND_GetPaintMessage
  <1>3. que \in Seq(Messages) BY <1>1, ScreenTypes
  <1>4. /\ m \in Messages /\ Tail(que) \in Seq(Messages)
        /\ Len(que) \in Nat \ {0} /\ Len(Tail(que)) = Len(que) - 1 /\ m = que[1]
        /\ \A i \in 1 .. Len(que) - 1 : Tail(que)[i] = que[i + 1]
    <2> HIDE DEF que
    <2> QED BY <1>2, <1>3, HeadTailSet
  <1>5. w \in Windows BY <1>4 DEF Messages
  <1>6. 1 \in DOMAIN que
    <2> HIDE DEF que
    <2> QED BY <1>3, <1>4, LenProperties
  <1>7. S.flag[w] = "QUEUE" /\ Owner[w] = t
    BY <1>1, <1>4, <1>6 DEF Quiet, QueueInv
  <1>8. /\ G \in Screens /\ \A s \in Threads : G.que[s] = IF s = t THEN Tail(que) ELSE S.que[s]
        /\ G.flag = S.flag /\ G.map = S.map /\ G.upd = S.upd /\ G.dirty = S.dirty
        /\ G.num = S.num - 1
    BY <1>1, <1>2, TakeFacts
  <1>9. G = [Screen EXCEPT !.que[t] = Tail(@), !.num = @ - 1] OBVIOUS
  <1> HIDE DEF G, w
  <1> DEFINE D == SetFlag(G, w, "DRAWING")
             area == S.upd[w] \ rcClient[w]
             d == Covered(S, w, area)
             T == [D EXCEPT !.dirty = d]
  <1>10. /\ D \in Screens /\ D.upd = S.upd /\ D.map = S.map /\ D.dirty = S.dirty
         /\ D.que = G.que /\ D.num = G.num
         /\ \A x \in Windows : D.flag[x] = IF x = w THEN "DRAWING" ELSE S.flag[x]
    <2>1. "DRAWING" \in Flags BY DEF Flags
    <2>2. G \in Screens BY <1>8
    <2>3. D \in Screens BY <1>5, <2>1, <2>2, FlagFacts
    <2>4. D.upd = G.upd BY <1>5, <2>1, <2>2, FlagFacts
    <2>5. D.map = G.map BY <1>5, <2>1, <2>2, FlagFacts
    <2>6. D.dirty = G.dirty BY <1>5, <2>1, <2>2, FlagFacts
    <2>7. D.que = G.que BY <1>5, <2>1, <2>2, FlagFacts
    <2>8. D.num = G.num BY <1>5, <2>1, <2>2, FlagFacts
    <2>9. D.flag = [G.flag EXCEPT ![w] = "DRAWING"] BY <1>5, <2>1, <2>2, FlagFacts
    <2> HIDE DEF D
    <2>10. \A x \in Windows : D.flag[x] = IF x = w THEN "DRAWING" ELSE G.flag[x]
      BY <2>2, <2>9, ScreenTypes
    <2> QED BY <1>8, <2>3, <2>4, <2>5, <2>6, <2>7, <2>8, <2>10
  <1>11. ~ParentFirst(G, w)
    <2> SUFFICES ASSUME ParentFirst(G, w) PROVE FALSE
      OBVIOUS
    <2>1. Under(S, w) /\ S.upd[w] \cap S.upd[Parent(w)] # {}
      BY <1>8 DEF ParentFirst, Under
    <2> QED BY <1>1, <1>5, <1>7, <2>1 DEF Quiet, OrderedNow
  <1>12. Covered(D, w, D.upd[w] \ rcClient[w]) = d
    BY <1>10 DEF Covered
  <1>13. \/ Become(D) /\ stack' = Push(t, Frame("paint", w))
         \/ Become(T) /\ stack' = Push(t, Frame("nc", w))
    <2>1. G.flag[w] = "QUEUE" BY <1>7, <1>8
    <2>2. m = Head(PaintMsgQue[t]) BY <1>2
    <2>3. \/ Become(D) /\ stack' = Push(t, Frame("paint", w))
          \/ /\ Become([D EXCEPT !.dirty = Covered(D, w, D.upd[w] \ rcClient[w])])
             /\ stack' = Push(t, Frame("nc", w))
      BY <1>9, <1>11, <2>1, <2>2 DEF WND_GetPaintMessage, w
    <2> QED BY <1>12, <2>3
  <1>14. QueueInv(D)
    <2> DEFINE r == Tail(que)
    <2>1. /\ r \in Seq(Messages) /\ Len(r) = Len(S.que[Owner[w]]) - 1
          /\ \A i \in 1 .. Len(r) : r[i] = S.que[Owner[w]][IF i < 1 THEN i ELSE i + 1]
      BY <1>4, <1>7
    <2>2. S.que[Owner[w]][1].hwnd = w /\ 1 \in DOMAIN S.que[Owner[w]]
      BY <1>4, <1>6, <1>7 DEF w
    <2>3. \A s \in Threads : D.que[s] = IF s = Owner[w] THEN r ELSE S.que[s]
      BY <1>7, <1>8, <1>10
    <2>4. "DRAWING" \in Flags /\ "DRAWING" # "QUEUE" BY DEF Flags
    <2>5. QueueInv(S) /\ D.num = S.num - 1 BY <1>1, <1>8, <1>10 DEF Quiet
    <2> HIDE DEF r, que, m, D
    <2> QED BY <1>1, <1>5, <1>7, <1>10, <2>1, <2>2, <2>3, <2>4, <2>5, MessageLeaves
  <1>15. Closed(X) /\ X \subseteq X BY <1>1, ExcusedFacts
  <1>16. w \in X \/ ~Under(S, w) \/ S.upd[w] \cap S.upd[Parent(w)] = {}
    BY <1>1, <1>5, <1>7 DEF Quiet, OrderedNow
  <1>17. /\ S.flag[w] # "NO" /\ area \subseteq S.upd[w]
         /\ DirtyInv(S, X) /\ DrawInv(S, X, stack, hasDC) /\ RegionInv(S)
    BY <1>1, <1>7 DEF Quiet
  <1>18. \A x \in Windows : x \notin S.map => S.dirty[x] = {}
    BY <1>17 DEF RegionInv, Tidy
  <1> HIDE DEF X, que, m, D, area
  <1>19. /\ d \in [Windows -> SUBSET Nat] /\ d[w] = S.dirty[w] \ area
         /\ \A x \in Windows : x \notin S.map => d[x] = {}
         /\ \A x \in Windows \ X :
              /\ d[x] \subseteq S.dirty[x] \cup S.upd[x]
              /\ S.flag[x] = "DRAWING" => d[x] \subseteq S.dirty[x]
    BY <1>1, <1>5, <1>15, <1>17, CoverFacts
  <1> HIDE DEF d
  <1>20. CASE Become(D) /\ stack' = Push(t, Frame("paint", w))
    <2> DEFINE f == Frame("paint", w)
    <2>1. "paint" \in PaintKinds BY DEF PaintKinds
    <2>2. FrameOK(f, t) /\ f = Frame("paint", w) BY <1>5, <1>7, <2>1 DEF FrameOK
    <2>3. stack' = [stack EXCEPT ![t] = <<f>> \o @] BY <1>20 DEF Push
    <2> HIDE DEF f
    <2>4. /\ StacksOK(stack')
          /\ \A x \in Windows : Owner[x] # t \/ (\A k \in PaintKinds : f # Frame(k, x)) =>
               Keeps(stack, stack', x)
          /\ \A x \in Windows, k \in PaintKinds : Owner[x] = t /\ f = Frame(k, x) =>
               Focus(stack'[Owner[x]], x, k)
      BY <1>1, <2>2, <2>3, StackPush
    <2>5. /\ RegionInv(D) /\ OrderedNow(D, X) /\ OverdrawnNow(D, X)
          /\ MapNow(D, visible) /\ WaitNow(D, X)
      <3>1. \A x \in Windows : x \notin S.map => D.dirty[x] = {} BY <1>10, <1>18
      <3> QED BY <1>1, <1>5, <1>10, <1>15, <1>16, <1>17, <3>1, Begins
    <2>6. DirtyInv(D, X) BY <1>10, <1>17 DEF DirtyInv
    <2>7. DrawInv(D, X, stack', hasDC)
      <3>1. Focus(stack'[Owner[w]], w, "paint") BY <1>5, <1>7, <2>1, <2>2, <2>4
      <3>2. \A x \in Windows \ X : x # w /\ D.flag[x] = "DRAWING" =>
              /\ S.flag[x] = "DRAWING" /\ D.dirty[x] \subseteq S.dirty[x]
              /\ Keeps(stack, stack', x)
        BY <1>10, <2>2, <2>4, FrameNames
      <3>3. "paint" # "nc" /\ "paint" # "begun" OBVIOUS
      <3> QED BY <1>5, <1>15, <1>17, <2>1, <3>1, <3>2, <3>3, DrawAt
    <2>8. Quiet(D, X, visible, stack', hasDC)
      BY <1>14, <2>5, <2>6, <2>7 DEF Quiet
    <2>9. Screen' = D BY <1>10, <1>20, BecomeFacts
    <2> QED BY <1>1, <1>2, <1>10, <2>4, <2>8, <2>9 DEF IInv, Holds, X
  <1>21. CASE Become(T) /\ stack' = Push(t, Frame("nc", w))
    <2> DEFINE f == Frame("nc", w)
    <2>1. "nc" \in PaintKinds BY DEF PaintKinds
    <2>2. FrameOK(f, t) /\ f = Frame("nc", w) BY <1>5, <1>7, <2>1 DEF FrameOK
    <2>3. stack' = [stack EXCEPT ![t] = <<f>> \o @] BY <1>21 DEF Push
    <2> HIDE DEF f
    <2>4. /\ StacksOK(stack')
          /\ \A x \in Windows : Owner[x] # t \/ (\A k \in PaintKinds : f # Frame(k, x)) =>
               Keeps(stack, stack', x)
          /\ \A x \in Windows, k \in PaintKinds : Owner[x] = t /\ f = Frame(k, x) =>
               Focus(stack'[Owner[x]], x, k)
      BY <1>1, <2>2, <2>3, StackPush
    <2>5. /\ T \in Screens /\ T.dirty = d /\ T.flag = D.flag /\ T.map = D.map
          /\ T.upd = D.upd /\ T.que = D.que /\ T.num = D.num
      BY <1>10, <1>19, DirtyFacts
    <2> HIDE DEF T
    <2>6. QueueInv(T) BY <1>10, <1>14, <2>5, QueueSame
    <2>7. /\ RegionInv(T) /\ OrderedNow(T, X) /\ OverdrawnNow(T, X)
          /\ MapNow(T, visible) /\ WaitNow(T, X)
      <3>1. \A x \in Windows : x \notin S.map => T.dirty[x] = {} BY <1>19, <2>5
      <3>2. /\ T.upd = S.upd /\ T.map = S.map
            /\ \A x \in Windows : T.flag[x] = IF x = w THEN "DRAWING" ELSE S.flag[x]
        BY <1>10, <2>5
      <3> QED BY <1>1, <1>5, <1>15, <1>16, <1>17, <2>5, <3>1, <3>2, Begins
    <2>8. DirtyInv(T, X) BY <1>10, <1>17, <1>19, <2>5 DEF DirtyInv
    <2>9. DrawInv(T, X, stack', hasDC)
      <3>1. Focus(stack'[Owner[w]], w, "nc") BY <1>5, <1>7, <2>1, <2>2, <2>4
      <3>2. \A x \in Windows \ X : x # w /\ T.flag[x] = "DRAWING" =>
              /\ S.flag[x] = "DRAWING" /\ T.dirty[x] \subseteq S.dirty[x]
              /\ Keeps(stack, stack', x)
        BY <1>10, <1>19, <2>2, <2>4, <2>5, FrameNames
      <3>3. w \notin {Root} \cup X => T.dirty[w] \subseteq rcClient[w]
        BY <1>5, <1>17, <1>19, <2>5 DEF DirtyInv, area
      <3>4. "nc" # "begun" OBVIOUS
      <3> QED BY <1>5, <1>15, <1>17, <2>1, <3>1, <3>2, <3>3, <3>4, DrawAt
    <2>10. Quiet(T, X, visible, stack', hasDC)
      BY <2>6, <2>7, <2>8, <2>9 DEF Quiet
    <2>11. Screen' = T BY <1>21, <2>5, BecomeFacts
    <2> QED BY <1>1, <1>2, <2>4, <2>5, <2>10, <2>11 DEF IInv, Holds, X
  <1> QED BY <1>13, <1>20, <1>21

\* A window whose painting has ended, and its children that may be painted now.
LEMMA PaintedStep ==
  ASSUME NEW S \in Screens, NEW X, NEW vis, NEW stk, NEW dc, Quiet(S, X, vis, stk, dc),
         NEW w \in Windows, S.flag[w] = "DRAWING", w \notin {Root} \cup X => S.dirty[w] = {},
         NEW stk2, NEW dc2,
         \A x \in Windows : x # w => Keeps(stk, stk2, x) /\ (x \in dc => x \in dc2)
  PROVE  StepInv(Then([SetFlag(S, w, "NO") EXCEPT !.upd[w] = {}],
                      Each("release", Children[w], {})), X, vis, {}, stk2, dc2)
  <1> DEFINE e == {}
             D == SetFlag(S, w, "NO")
             T == [D EXCEPT !.upd[w] = e]
             todo == Each("release", Children[w], e)
             P == ToSet(todo)
             y == Then(T, todo)
  <1>1. "NO" \in Flags /\ "NO" # "QUEUE" BY DEF Flags
  <1>2. e \in SUBSET Nat /\ IsRect(e) /\ \A R : e \subseteq R BY DEF IsRect
  <1>3. /\ D \in Screens /\ D.flag = [S.flag EXCEPT ![w] = "NO"] /\ D.upd = S.upd
        /\ D.map = S.map /\ D.dirty = S.dirty /\ D.que = S.que /\ D.num = S.num
    BY <1>1, FlagFacts
  <1> HIDE DEF D
  <1>4. QueueInv(D)
    <2>1. QueueInv(S) /\ S.flag[w] # "QUEUE" BY DEF Quiet
    <2> QED BY <1>1, <1>3, <2>1, FlagQueue
  <1> HIDE DEF e
  <1>5. /\ T \in Screens /\ \A x \in Windows : T.upd[x] = IF x = w THEN e ELSE D.upd[x]
        /\ T.flag = D.flag /\ T.map = D.map /\ T.dirty = D.dirty /\ T.que = D.que
        /\ T.num = D.num
    BY <1>2, <1>3, UpdFacts
  <1> HIDE DEF T
  <1>6. QueueInv(T) BY <1>3, <1>4, <1>5, QueueSame
  <1>7. \A x \in Windows : T.flag[x] = IF x = w THEN "NO" ELSE S.flag[x]
    BY <1>3, <1>5, ScreenTypes
  <1>8. Shrunk(S, T, w)
    <2>1. Tidy(S, w) BY DEF Quiet, RegionInv
    <2>2. w \in S.map BY <2>1 DEF Tidy
    <2>3. Tidy(T, w) BY <1>3, <1>5, <1>7, <2>2 DEF Tidy, e
    <2>4. \A x \in Windows : x # w => /\ T.flag[x] = S.flag[x] /\ T.upd[x] = S.upd[x]
                                      /\ T.dirty[x] = S.dirty[x]
      BY <1>3, <1>5, <1>7
    <2>5. T.flag[w] = "NO" /\ T.upd[w] = e /\ T.map = S.map BY <1>3, <1>5, <1>7
    <2> QED BY <1>2, <2>3, <2>4, <2>5 DEF Shrunk
  <1>9. Lonely(S, X, w) /\ X \subseteq X BY Apart
  <1>10. /\ RegionInv(T) /\ OrderedNow(T, X) /\ OverdrawnNow(T, X) /\ MapNow(T, vis)
         /\ T.flag[Root] # "WAIT"
         /\ \A c \in Windows \ {Root} : T.flag[c] = "WAIT" =>
              T.flag[Parent(c)] # "NO" \/ c \in X \/ (Parent(c) = w /\ T.flag[w] = "NO")
    BY <1>8, <1>9, Shrinks
  <1>11. DirtyInv(T, X) BY <1>3, <1>5 DEF Quiet, DirtyInv, e
  <1>12. DrawInv(T, X, stk2, dc2)
    <2>1. DrawInv(S, X, stk, dc) BY DEF Quiet
    <2>2. \A x \in Windows \ X : T.flag[x] = "DRAWING" =>
            /\ S.flag[x] = "DRAWING" /\ T.dirty[x] \subseteq S.dirty[x]
            /\ x \in dc => x \in dc2
            /\ Keeps(stk, stk2, x)
      BY <1>3, <1>5, <1>7
    <2> QED BY <1>9, <2>1, <2>2, DrawOn
  <1>13. /\ todo \in Seq(Tasks) /\ P = {Task("release", c, e, <<>>) : c \in ToSet(Children[w])}
    <2>1. "release" \in Ops /\ Children[w] \in Seq(Windows) BY KidTypes DEF Ops
    <2> QED BY <1>2, <2>1, EachFacts
  <1>14. ASSUME NEW k \in P
         PROVE  /\ k.op = "release" /\ k.rect = e /\ k.win \in Windows /\ k.win # Root
                /\ Parent(k.win) = w
    <2>1. PICK c \in ToSet(Children[w]) : k = Task("release", c, e, <<>>) BY <1>13
    <2>2. k.op = "release" /\ k.rect = e /\ k.win = c BY <2>1 DEF Task
    <2> QED BY <2>2, ChildFacts
  <1>15. \A c \in ToSet(Children[w]) : \E k \in P : k.op = "release" /\ k.win = c
    <2> SUFFICES ASSUME NEW c \in ToSet(Children[w])
                 PROVE  \E k \in P : k.op = "release" /\ k.win = c
      OBVIOUS
    <2> DEFINE k == Task("release", c, e, <<>>)
    <2>1. k \in P BY <1>13
    <2>2. k.op = "release" /\ k.win = c BY DEF Task
    <2> QED BY <2>1, <2>2
  <1> HIDE DEF todo, P
  <1>16. Core(T, P, X, vis, stk2, dc2)
    <2>1. Ordered(T, P, X) BY <1>10 DEF OrderedNow, Ordered
    <2>2. Overdrawn(T, P, X) BY <1>10 DEF OverdrawnNow, Overdrawn
    <2>3. MapInv(T, P, vis) BY <1>10 DEF MapNow, MapInv
    <2>4. WaitInv(T, P, X)
      <3> SUFFICES ASSUME NEW c \in Windows \ {Root}, T.flag[c] = "WAIT",
                          T.flag[Parent(c)] = "NO", c \notin X
                   PROVE  \E k \in P : k.op = "release" /\ k.win = c
        BY <1>10 DEF WaitInv
      <3>1. Parent(c) = w BY <1>10
      <3>2. c \in ToSet(Children[w]) BY <3>1, ParentFacts
      <3> QED BY <1>15, <3>2
    <2> QED BY <1>6, <1>10, <1>11, <1>12, <2>1, <2>2, <2>3, <2>4 DEF Core
  <1>17. TaskInv(T, P, vis, {})
    <2>1. \A k \in P : TaskOK(T, k, vis, {}) BY <1>2, <1>7, <1>14 DEF TaskOK
    <2> QED BY <1>14, <2>1 DEF TaskInv
  <1>18. y.scr = T /\ y.todo = todo BY DEF Then
  <1>19. y = Then(y.scr, y.todo) BY <1>18
  <1> HIDE DEF y
  <1>20. ToSet(y.todo) = P /\ P \cup {} = P BY <1>18 DEF P
  <1>21. After(y, {}, X, vis, {}, stk2, dc2)
    BY <1>5, <1>13, <1>14, <1>16, <1>17, <1>18, <1>20 DEF After
  <1>22. StepInv(y, X, vis, {}, stk2, dc2) BY <1>19, <1>21, AfterInv
  <1> QED BY <1>22 DEF y, T, D, todo, e

\* EndPaint, whether something became invalid meanwhile or not.
LEMMA EndPaintInv ==
  ASSUME ClipsAbove, IInv, NEW t \in Threads, EndPaint(t)
  PROVE  IInv'
  <1> DEFINE S == Screen
             X == ExcusedBy(excused)
             w == Top(t).win
             x == IF w \in hasDC THEN Painted(S, w) ELSE Then(S, <<>>)
  <1>1. /\ S \in Screens /\ Quiet(S, X, visible, stack, hasDC)
        /\ excused \in SUBSET Windows /\ StacksOK(stack) /\ NotifiedOK(notified)
    BY IInvFacts
  <1>2. "begun" \in PaintKinds BY DEF PaintKinds
  <1>3. In(t, "begun") BY DEF EndPaint
  <1>4. /\ stack[t] # <<>> /\ w \in Windows /\ Owner[w] = t
        /\ Head(stack[t]) = Frame("begun", w)
    BY <1>2, <1>3, TopFacts
  <1>5. /\ Call(x) /\ hasDC' = (hasDC \ {w}) \cup {Root}
        /\ stack' = [stack EXCEPT ![t] = Tail(@)]
        /\ UNCHANGED <<visible, notified, excused>>
    BY DEF EndPaint, Pop
  <1> HIDE DEF X, w
  <1>6. /\ StacksOK(stack')
        /\ \A z \in Windows : Owner[z] # t \/ (\A k \in PaintKinds : Head(stack[t]) # Frame(k, z))
             => Keeps(stack, stack', z)
        /\ \A z \in Windows, k \in PaintKinds : \A kind :
             Owner[z] = t /\ Head(stack[t]) = Frame(k, z) /\ Focus(stack[t], z, kind) => kind = k
    BY <1>1, <1>4, <1>5, StackPop
  <1>7. \A z \in Windows : z # w => Keeps(stack, stack', z) /\ (z \in hasDC => z \in hasDC')
    <2>1. \A z \in Windows : z # w => Keeps(stack, stack', z)
      BY <1>4, <1>6, FrameNames
    <2>2. \A z \in Windows : z # w => (z \in hasDC => z \in hasDC')
      BY <1>5
    <2> QED BY <2>1, <2>2
  <1>8. S.flag[w] = "DRAWING" /\ w \notin X =>
          /\ w \in hasDC /\ ~ParentFirst(S, w)
          /\ w # Root => S.dirty[w] = {}
    <2> SUFFICES ASSUME S.flag[w] = "DRAWING", w \notin X
                 PROVE  /\ w \in hasDC /\ ~ParentFirst(S, w)
                        /\ w # Root => S.dirty[w] = {}
      OBVIOUS
    <2>1. DrawInv(S, X, stack, hasDC) /\ OrderedNow(S, X) BY <1>1 DEF Quiet
    <2>2. PICK kind \in PaintKinds :
            /\ Focus(stack[Owner[w]], w, kind)
            /\ kind = "begun" => w \in hasDC /\ (w # Root => S.dirty[w] = {})
      BY <1>4, <2>1 DEF DrawInv
    <2>3. kind = "begun" BY <1>2, <1>4, <1>6, <2>2
    <2>4. ~ParentFirst(S, w)
      BY <1>4, <2>1 DEF OrderedNow, ParentFirst, Under
    <2> QED BY <2>2, <2>3, <2>4
  <1>9. StepInv(x, X, visible, {}, stack', hasDC')
    <2>1. CASE w \in hasDC /\ ~ParentFirst(S, w) /\ S.flag[w] = "DRAWING"
      <3>1. x = Then([SetFlag(S, w, "NO") EXCEPT !.upd[w] = {}],
                     Each("release", Children[w], {}))
        BY <2>1 DEF Painted
      <3>2. w \notin {Root} \cup X => S.dirty[w] = {} BY <1>8, <2>1
      <3> QED BY <1>1, <1>4, <1>7, <2>1, <3>1, <3>2, PaintedStep
    <2>2. CASE ~(w \in hasDC /\ ~ParentFirst(S, w) /\ S.flag[w] = "DRAWING")
      <3>1. x = Then(S, <<>>) BY <2>2 DEF Painted
      <3>2. \A z \in Windows \ X : S.flag[z] = "DRAWING" =>
              /\ S.flag[z] = "DRAWING" /\ S.dirty[z] \subseteq S.dirty[z]
              /\ z \in hasDC => z \in hasDC'
              /\ Keeps(stack, stack', z)
        BY <1>7, <1>8, <2>2
      <3>3. DrawInv(S, X, stack, hasDC) /\ X \subseteq X BY <1>1 DEF Quiet
      <3>4. DrawInv(S, X, stack', hasDC') BY <3>2, <3>3, DrawOn
      <3>5. Quiet(S, X, visible, stack', hasDC') BY <1>1, <3>4, QuietStacks
      <3> QED BY <1>1, <3>1, <3>5, EmptyStep
    <2> QED BY <2>1, <2>2
  <1> HIDE DEF x
  <1>10. Screen' \in Screens /\ Quiet(Screen', X, visible, stack', hasDC')
    BY <1>5, <1>9, CallFacts
  <1> QED BY <1>1, <1>5, <1>6, <1>10 DEF IInv, Holds, X

\* What WND_ValidateRect does to a window.
LEMMA ValidateFacts ==
  ASSUME NEW S \in Screens, QueueInv(S), RegionInv(S), NEW w \in Windows,
         NEW rect \in SUBSET Nat, NEW T, T = WND_ValidateRect(S, w, rect)
  PROVE  /\ T \in Screens /\ QueueInv(T) /\ Shrunk(S, T, w)
         /\ T.dirty[w] \subseteq S.dirty[w]
  <1> DEFINE u == SubtractRect(S.upd[w], rect)
             d == [S.dirty EXCEPT ![w] = @ \cap u]
             V == [S EXCEPT !.upd[w] = u, !.dirty[w] = @ \cap u]
  <1>1. S.upd[w] \in SUBSET Nat /\ IsRect(S.upd[w]) /\ Tidy(S, w)
    BY ScreenTypes DEF RegionInv, AreaInv
  <1>2. u \subseteq S.upd[w] /\ IsRect(u) BY <1>1, SubtractFacts
  <1>3. \/ (w \notin S.map \/ S.upd[w] = {}) /\ T = S
        \/ w \in S.map /\ S.upd[w] # {} /\ u = {} /\ T = SetFlag(Dequeue(V, w), w, "NO")
        \/ w \in S.map /\ S.upd[w] # {} /\ u # {} /\ T = V
    BY DEF WND_ValidateRect
  <1> HIDE DEF u
  <1>4. V.flag = S.flag /\ V.map = S.map /\ V.que = S.que /\ V.num = S.num
    BY DEF Screens
  <1>5. V.upd = [S.upd EXCEPT ![w] = u] BY DEF Screens
  <1>6. V.dirty = d BY DEF Screens
  <1>7. V = [x \in Fields |-> V[x]] BY ScreenFields
  <1> HIDE DEF V
  <1>8. /\ d \in [Windows -> SUBSET Nat] /\ V.upd \in [Windows -> SUBSET Nat]
        /\ d[w] = S.dirty[w] \cap u /\ V.upd[w] = u
        /\ \A x \in Windows : x # w => d[x] = S.dirty[x] /\ V.upd[x] = S.upd[x]
    BY <1>1, <1>2, <1>5, ScreenTypes
  <1> HIDE DEF d
  <1>9. V \in Screens BY <1>4, <1>6, <1>7, <1>8, ScreenTypes, ScreenType
  <1>10. QueueInv(V) BY <1>4, <1>9, QueueSame
  <1>11. CASE (w \notin S.map \/ S.upd[w] = {}) /\ T = S
    <2>1. Shrunk(S, S, w) BY <1>1 DEF Shrunk
    <2> QED BY <1>11, <2>1
  <1>12. CASE w \in S.map /\ S.upd[w] # {} /\ u = {} /\ T = SetFlag(Dequeue(V, w), w, "NO")
    <2> DEFINE f == "NO"
    <2>1. f \in Flags /\ f # "QUEUE" BY DEF Flags
    <2> DEFINE D == SetFlag(Dequeue(V, w), w, f)
    <2> HIDE DEF f
    <2>2. /\ D \in Screens /\ QueueInv(D) /\ D.flag = [V.flag EXCEPT ![w] = f]
          /\ D.upd = V.upd /\ D.map = V.map /\ D.dirty = V.dirty
      BY <1>9, <1>10, <2>1, DequeueFacts
    <2> HIDE DEF D
    <2>3. T = D BY <1>12 DEF D, f
    <2>4. T.flag[w] = "NO" /\ \A x \in Windows : x # w => T.flag[x] = S.flag[x]
      BY <1>4, <2>2, <2>3, ScreenTypes DEF f
    <2>5. T.upd[w] = {} /\ T.map = S.map /\ T.dirty = d /\ T.upd = V.upd
      BY <1>4, <1>6, <1>8, <1>12, <2>2, <2>3
    <2>6. Tidy(T, w) BY <1>12, <2>4, <2>5 DEF Tidy
    <2>7. Shrunk(S, T, w) BY <1>2, <1>8, <1>12, <2>4, <2>5, <2>6 DEF Shrunk
    <2> QED BY <1>8, <2>2, <2>3, <2>5, <2>7
  <1>13. CASE w \in S.map /\ S.upd[w] # {} /\ u # {} /\ T = V
    <2>1. Tidy(V, w) BY <1>1, <1>4, <1>6, <1>8, <1>13 DEF Tidy
    <2>2. Shrunk(S, V, w) BY <1>2, <1>4, <1>6, <1>8, <2>1 DEF Shrunk
    <2> QED BY <1>6, <1>8, <1>9, <1>10, <1>13, <2>2
  <1> QED BY <1>3, <1>11, <1>12, <1>13

\* ValidateRect: the window is excused.
LEMMA ValidateRectInv ==
  ASSUME IInv, NEW t \in Threads, NEW w \in Windows, NEW rect \in Rects,
         ValidateRect(t, w, rect)
  PROVE  IInv'
  <1> DEFINE S == Screen
             X == ExcusedBy(excused)
             F == excused \cup {w}
             Y == ExcusedBy(F)
             r == rect \cap rcClient[w]
             T == WND_ValidateRect(S, w, r)
  <1>1. /\ S \in Screens /\ Quiet(S, X, visible, stack, hasDC)
        /\ excused \in SUBSET Windows /\ StacksOK(stack) /\ NotifiedOK(notified)
    BY IInvFacts
  <1>2. /\ Become(T) /\ excused' = F
        /\ UNCHANGED <<visible, hasDC, notified, stack>>
    BY DEF ValidateRect
  <1>3. F \in SUBSET Windows /\ excused \subseteq F /\ w \in F BY <1>1
  <1> HIDE DEF F
  <1>4. X \subseteq Y /\ w \in Y /\ ToSet(Children[w]) \subseteq Y
    <2>1. Closed(Y) /\ F \subseteq Y BY <1>3, ExcusedFacts
    <2>2. X \subseteq Y BY <1>3, ExcusedMore
    <2> QED BY <1>3, <2>1, <2>2 DEF Closed
  <1>5. r \in SUBSET Nat BY TreeAssumption
  <1> HIDE DEF X, Y, r
  <1>6. QueueInv(S) /\ RegionInv(S) BY <1>1 DEF Quiet
  <1>7. /\ T \in Screens /\ QueueInv(T) /\ Shrunk(S, T, w)
        /\ T.dirty[w] \subseteq S.dirty[w]
    BY <1>1, <1>5, <1>6, ValidateFacts
  <1> HIDE DEF T
  <1>8. Lonely(S, Y, w) BY <1>4 DEF Lonely
  <1>9. /\ RegionInv(T) /\ OrderedNow(T, Y) /\ OverdrawnNow(T, Y) /\ MapNow(T, visible)
        /\ T.flag[Root] # "WAIT"
        /\ \A c \in Windows \ {Root} : T.flag[c] = "WAIT" =>
             T.flag[Parent(c)] # "NO" \/ c \in X \/ (Parent(c) = w /\ T.flag[w] = "NO")
    BY <1>1, <1>4, <1>7, <1>8, Shrinks
  <1>10. WaitNow(T, Y)
    <2>1. \A c \in Windows \ {Root} : Parent(c) = w => c \in Y BY <1>4, ParentFacts
    <2> QED BY <1>4, <1>9, <2>1 DEF WaitNow
  <1>11. \A x \in Windows \ Y : /\ x # w /\ T.flag[x] = S.flag[x] /\ T.upd[x] = S.upd[x]
                                /\ T.dirty[x] = S.dirty[x]
    BY <1>4, <1>7 DEF Shrunk
  <1>12. DirtyInv(T, Y) BY <1>1, <1>4, <1>11 DEF Quiet, DirtyInv
  <1>13. DrawInv(T, Y, stack, hasDC)
    <2>1. DrawInv(S, X, stack, hasDC) BY <1>1 DEF Quiet
    <2>2. \A x : Keeps(stack, stack, x) BY DEF Keeps
    <2> QED BY <1>4, <1>11, <2>1, <2>2, DrawOn
  <1>14. Quiet(T, Y, visible, stack, hasDC)
    BY <1>7, <1>9, <1>10, <1>12, <1>13 DEF Quiet
  <1>15. Screen' = T BY <1>2, <1>7, BecomeFacts
  <1> QED BY <1>1, <1>2, <1>3, <1>7, <1>14, <1>15 DEF IInv, Holds, Y

-----------------------------------------------------------------------------
(* The walk of WND_UpdateTree.                                             *)

\* What two steps keep one after the other, both keep.
LEMMA KeepsOn ==
  ASSUME NEW stk, NEW mid, NEW stk2, NEW x, Keeps(stk, mid, x), Keeps(mid, stk2, x)
  PROVE  Keeps(stk, stk2, x)
  BY DEF Keeps

\* A walk is not a painting.
LEMMA NotPaint ==
  ASSUME NEW q, NEW w, NEW k \in PaintKinds
  PROVE  Frame("update", q) # Frame(k, w)
  <1>1. k # "update" BY DEF PaintKinds
  <1> QED BY <1>1, FrameNames

\* A WM_PAINT is sent to the thread of its window.
LEMMA NotifiedAppend ==
  ASSUME NEW ntf, NotifiedOK(ntf), NEW w \in Windows, NEW ntf2,
         ntf2 = [ntf EXCEPT ![Owner[w]] = Append(@, w)]
  PROVE  NotifiedOK(ntf2)
  <1> DEFINE s == Owner[w]
             q == ntf[s]
             r == Append(q, w)
  <1>1. s \in Threads /\ ntf \in [Threads -> Seq(Windows)] BY Types DEF NotifiedOK
  <1>2. q \in Seq(Windows) /\ \A x \in ToSet(q) : Owner[x] = s BY <1>1 DEF NotifiedOK
  <1>3. ntf2 = [ntf EXCEPT ![s] = r] OBVIOUS
  <1> HIDE DEF q
  <1>4. /\ r \in Seq(Windows) /\ Len(r) = Len(q) + 1 /\ r[Len(q) + 1] = w
        /\ \A i \in 1 .. Len(q) : r[i] = q[i]
    BY <1>2, AppendProperties
  <1>5. Len(q) \in Nat BY <1>2, LenProperties
  <1> HIDE DEF r, s
  <1>6. ASSUME NEW x \in ToSet(r) PROVE Owner[x] = s
    <2>1. PICK i \in 1 .. Len(r) : x = r[i] BY <1>4, SetMember
    <2>2. CASE i = Len(q) + 1 BY <1>4, <2>1, <2>2 DEF s
    <2>3. CASE i # Len(q) + 1
      <3>1. i \in 1 .. Len(q) BY <1>4, <1>5, <2>1, <2>3
      <3>2. q[i] \in ToSet(q) BY <1>2, <3>1, SetMember
      <3> QED BY <1>2, <1>4, <2>1, <3>1, <3>2
    <2> QED BY <2>2, <2>3
  <1>7. ntf2 \in [Threads -> Seq(Windows)] BY <1>1, <1>3, <1>4
  <1>8. ASSUME NEW u \in Threads, NEW x \in ToSet(ntf2[u]) PROVE Owner[x] = u
    <2>1. CASE u = s BY <1>1, <1>3, <1>6, <1>8, <2>1
    <2>2. CASE u # s
      <3>1. ntf2[u] = ntf[u] BY <1>1, <1>3, <2>2
      <3> QED BY <1>8, <3>1 DEF NotifiedOK
    <2> QED BY <2>1, <2>2
  <1> QED BY <1>7, <1>8 DEF NotifiedOK

\* The walk of UpdateWindow comes to its next window, or ends.
LEMMA VisitInv ==
  ASSUME IInv, NEW t \in Threads, NEW q, NEW first, NEW base, StacksOK(base),
         \A x \in Windows : Keeps(stack, base, x),
         Visit(t, q, first, base), UNCHANGED <<visible, hasDC>>
  PROVE  IInv'
  <1> DEFINE S == Screen
             X == ExcusedBy(excused)
             todo == {i \in DOMAIN q : NeedsUpdate(q[i]) /\ (wPaintNum # 0 \/ (first /\ i = 1))}
  <1>1. /\ S \in Screens /\ Quiet(S, X, visible, stack, hasDC)
        /\ excused \in SUBSET Windows /\ StacksOK(stack) /\ NotifiedOK(notified)
        /\ S.flag = flagUpdate /\ S.map = mapped
    BY IInvFacts
  <1>2. DirtyInv(S, X) /\ DrawInv(S, X, stack, hasDC) /\ QueueInv(S) /\ RegionInv(S)
    BY <1>1 DEF Quiet
  <1>3. CASE todo = {}
    <2>1. stack' = base /\ UNCHANGED <<screen, notified, excused>>
      BY <1>3 DEF Visit
    <2> HIDE DEF X, todo
    <2>2. DrawInv(S, X, stack', hasDC)
      <3>1. X \subseteq X OBVIOUS
      <3> QED BY <1>2, <2>1, <3>1, DrawOn
    <2>3. Quiet(S, X, visible, stack', hasDC) BY <1>1, <2>2, QuietStacks
    <2>4. Screen' = S BY <2>1, UnchangedFacts
    <2> QED BY <1>1, <2>1, <2>3, <2>4 DEF IInv, Holds, X
  <1>4. CASE todo # {}
    <2>1. PICK i \in todo :
            LET w == q[i]
                walk == [base EXCEPT ![t] = <<Frame("update", SubSeq(q, i + 1, Len(q)))>> \o @]
            IN /\ Become(SetFlag(Dequeue(Screen, w), w, "DRAWING"))
               /\ excused' = IF Owner[w] # t \/ ParentFirst(Screen, w)
                             THEN excused \cup {w} ELSE excused
               /\ IF Owner[w] = t
                  THEN /\ stack' = [walk EXCEPT ![t] = <<Frame("paint", w)>> \o @]
                       /\ UNCHANGED notified
                  ELSE /\ stack' = walk
                       /\ notified' = [notified EXCEPT ![Owner[w]] = Append(@, w)]
      BY <1>4 DEF Visit
    <2> DEFINE w == q[i]
               z == SubSeq(q, i + 1, Len(q))
               g == Frame("update", z)
               walk == [base EXCEPT ![t] = <<g>> \o @]
               draw == "DRAWING"
               T == SetFlag(Dequeue(S, w), w, draw)
               F == excused'
               Y == ExcusedBy(F)
    <2>2. /\ Become(T)
          /\ F = IF Owner[w] # t \/ ParentFirst(S, w) THEN excused \cup {w} ELSE excused
      BY <2>1
    <2>3. \/ /\ Owner[w] = t /\ stack' = [walk EXCEPT ![t] = <<Frame("paint", w)>> \o @]
             /\ UNCHANGED notified
          \/ /\ Owner[w] # t /\ stack' = walk
             /\ notified' = [notified EXCEPT ![Owner[w]] = Append(@, w)]
      BY <2>1
    <2>4. NeedsUpdate(w) OBVIOUS
    <2>5. w \in Windows /\ S.flag[w] # "NO" BY <1>1, <2>4, ScreenTypes DEF NeedsUpdate
    <2>6. draw \in Flags /\ draw # "QUEUE" BY DEF Flags
    <2> HIDE DEF X, todo, w, z, g, walk, draw, F, Y
    <2>7. /\ T \in Screens /\ QueueInv(T) /\ T.flag = [S.flag EXCEPT ![w] = draw]
          /\ T.upd = S.upd /\ T.map = S.map /\ T.dirty = S.dirty
      BY <1>1, <1>2, <2>5, <2>6, DequeueFacts
    <2> HIDE DEF T
    <2>8. \A x \in Windows : T.flag[x] = IF x = w THEN "DRAWING" ELSE S.flag[x]
      BY <1>1, <2>7, ScreenTypes DEF draw
    <2>9. /\ F \in SUBSET Windows /\ excused \subseteq F
          /\ w \in F \/ (Owner[w] = t /\ ~ParentFirst(S, w))
      BY <1>1, <2>2, <2>5
    <2>10. X \subseteq Y BY <2>9, ExcusedMore DEF X, Y
    <2>11. F \subseteq Y BY <2>9, ExcusedFacts DEF Y
    <2>12. w \in Y \/ ~Under(S, w) \/ S.upd[w] \cap S.upd[Parent(w)] = {}
      BY <2>9, <2>11 DEF ParentFirst, Under
    <2>13. /\ RegionInv(T) /\ OrderedNow(T, Y) /\ OverdrawnNow(T, Y)
           /\ MapNow(T, visible) /\ WaitNow(T, Y)
      <3>1. \A x \in Windows : x \notin S.map => T.dirty[x] = {}
        BY <1>2, <2>7 DEF RegionInv, Tidy
      <3> QED BY <1>1, <2>5, <2>7, <2>8, <2>10, <2>12, <3>1, Begins
    <2>14. DirtyInv(T, Y) BY <1>2, <2>7, <2>10 DEF DirtyInv
    <2>15. FrameOK(g, t) BY DEF FrameOK, g
    <2>16. walk = [base EXCEPT ![t] = <<g>> \o @] BY DEF walk
    <2>17. \A x \in Windows : \A k \in PaintKinds : g # Frame(k, x) BY NotPaint DEF g
    <2>18. StacksOK(walk) /\ \A x \in Windows : Keeps(base, walk, x)
      BY <2>15, <2>16, <2>17, StackPush
    <2>19. \A x \in Windows : Keeps(stack, walk, x) BY <2>18, KeepsOn
    <2>20. NotifiedOK(notified') /\ StacksOK(stack') /\ DrawInv(T, Y, stack', hasDC)
      <3>1. CASE /\ Owner[w] = t /\ stack' = [walk EXCEPT ![t] = <<Frame("paint", w)>> \o @]
                 /\ UNCHANGED notified
        <4> DEFINE f == Frame("paint", w)
        <4>1. "paint" \in PaintKinds BY DEF PaintKinds
        <4>2. FrameOK(f, t) /\ f = Frame("paint", w) BY <2>5, <3>1, <4>1 DEF FrameOK
        <4>3. stack' = [walk EXCEPT ![t] = <<f>> \o @] BY <3>1
        <4> HIDE DEF f
        <4>4. /\ StacksOK(stack')
              /\ \A x \in Windows : Owner[x] # t \/ (\A k \in PaintKinds : f # Frame(k, x)) =>
                   Keeps(walk, stack', x)
              /\ \A x \in Windows, k \in PaintKinds : Owner[x] = t /\ f = Frame(k, x) =>
                   Focus(stack'[Owner[x]], x, k)
          BY <2>18, <4>2, <4>3, StackPush
        <4>5. Focus(stack'[Owner[w]], w, "paint") BY <2>5, <3>1, <4>1, <4>2, <4>4
        <4>6. \A x \in Windows : x # w => Keeps(walk, stack', x) BY <4>2, <4>4, FrameNames
        <4>7. \A x \in Windows : x # w => Keeps(stack, stack', x) BY <2>19, <4>6, KeepsOn
        <4>8. \A x \in Windows \ Y : x # w /\ T.flag[x] = "DRAWING" =>
                /\ S.flag[x] = "DRAWING" /\ T.dirty[x] \subseteq S.dirty[x]
                /\ x \in hasDC => x \in hasDC
                /\ Keeps(stack, stack', x)
          BY <2>7, <2>8, <4>7
        <4>9. "paint" # "nc" /\ "paint" # "begun" OBVIOUS
        <4>10. DrawInv(T, Y, stack', hasDC)
          BY <1>2, <2>5, <2>10, <4>1, <4>5, <4>8, <4>9, DrawAt
        <4> QED BY <1>1, <3>1, <4>4, <4>10
      <3>2. CASE /\ Owner[w] # t /\ stack' = walk
                 /\ notified' = [notified EXCEPT ![Owner[w]] = Append(@, w)]
        <4>1. NotifiedOK(notified') BY <1>1, <2>5, <3>2, NotifiedAppend
        <4>2. w \in Y BY <2>9, <2>11, <3>2
        <4>3. \A x \in Windows \ Y : T.flag[x] = "DRAWING" =>
                /\ S.flag[x] = "DRAWING" /\ T.dirty[x] \subseteq S.dirty[x]
                /\ x \in hasDC => x \in hasDC
                /\ Keeps(stack, stack', x)
          BY <2>7, <2>8, <2>19, <3>2, <4>2
        <4>4. DrawInv(T, Y, stack', hasDC) BY <1>2, <2>10, <4>3, DrawOn
        <4> QED BY <2>18, <3>2, <4>1, <4>4
      <3> QED BY <2>3, <3>1, <3>2
    <2>21. Quiet(T, Y, visible, stack', hasDC)
      BY <2>7, <2>13, <2>14, <2>20 DEF Quiet
    <2>22. Screen' = T BY <2>2, <2>7, BecomeFacts
    <2> QED BY <2>7, <2>9, <2>20, <2>21, <2>22 DEF IInv, Holds, F, Y
  <1> QED BY <1>3, <1>4

\* UpdateWindow.
LEMMA UpdateWindowInv ==
  ASSUME IInv, NEW t \in Threads, NEW w \in Windows, UpdateWindow(t, w)
  PROVE  IInv'
  <1>1. /\ Visit(t, Preorder[UpdateStart[w]], TRUE, stack)
        /\ UNCHANGED <<visible, hasDC>>
    BY DEF UpdateWindow
  <1>2. StacksOK(stack) BY IInvFacts
  <1>3. \A x \in Windows : Keeps(stack, stack, x) BY DEF Keeps
  <1> QED BY <1>1, <1>2, <1>3, VisitInv

\* The walk goes on.
LEMMA UpdateTreeInv ==
  ASSUME IInv, NEW t \in Threads, WND_UpdateTree(t)
  PROVE  IInv'
  <1> DEFINE base == Pop(t)
             q == Top(t).win
  <1>1. /\ In(t, "update") /\ Visit(t, q, FALSE, base)
        /\ UNCHANGED <<visible, hasDC>>
    BY DEF WND_UpdateTree
  <1>2. stack[t] # <<>> /\ Head(stack[t]).kind = "update" BY <1>1 DEF In, Top
  <1>3. base = [stack EXCEPT ![t] = Tail(@)] BY DEF Pop
  <1> HIDE DEF base, q
  <1>4. StacksOK(stack) BY IInvFacts
  <1>5. \A k \in PaintKinds : k # "update" BY DEF PaintKinds
  <1>6. \A x \in Windows, k \in PaintKinds : Head(stack[t]) # Frame(k, x)
    BY <1>2, <1>5 DEF Frame
  <1>7. StacksOK(base) /\ \A x \in Windows : Keeps(stack, base, x)
    BY <1>2, <1>3, <1>4, <1>6, StackPop
  <1> QED BY <1>1, <1>7, VisitInv

-----------------------------------------------------------------------------
(* The specification.                                                      *)

\* Every step of the window system keeps the invariant.
LEMMA NextInv ==
  ASSUME ClipsAbove, IInv, Next
  PROVE  IInv'
  <1>1. PICK t \in Threads : AppCall(t) \/ Paint(t) BY DEF Next
  <1>2. CASE Paint(t)
    BY <1>2, GetPaintMessageInv, NCPaintReturnsInv, TakeNotifiedInv, BeginPaintInv,
       EndPaintInv, UpdateTreeInv
    DEF Paint
  <1>3. CASE AppCall(t)
    <2>1. CASE \E w \in Windows, r \in Rects : InvalidateRect(t, w, r) \/ ValidateRect(t, w, r)
      BY <2>1, InvalidateRectInv, ValidateRectInv
    <2>2. CASE InvalidateScreen(t) BY <2>2, InvalidateScreenInv
    <2>3. CASE \E w \in Windows : UpdateWindow(t, w) \/ HideWindow(t, w) \/ ShowWindow(t, w)
      BY <2>3, UpdateWindowInv, HideWindowInv, ShowWindowInv
    <2> QED BY <1>3, <2>1, <2>2, <2>3 DEF AppCall
  <1> QED BY <1>1, <1>2, <1>3

\* It holds at the start.
LEMMA InitInv ==
  ASSUME Init
  PROVE  IInv
  <1> DEFINE S == Screen
             e == {}
             X == ExcusedBy(e)
             none == <<>>
  <1>1. /\ S.flag = flagUpdate /\ S.upd = rcUpdate /\ S.que = PaintMsgQue /\ S.num = wPaintNum
        /\ S.map = mapped /\ S.dirty = dirty
    BY DEF Screen
  <1>2. /\ flagUpdate = [w \in Windows |-> "NO"]
        /\ rcUpdate = [w \in Windows |-> e] /\ dirty = [w \in Windows |-> e]
        /\ PaintMsgQue = [t \in Threads |-> none]
        /\ notified = [t \in Threads |-> none] /\ stack = [t \in Threads |-> none]
        /\ wPaintNum = 0 /\ mapped = Windows /\ visible = Windows /\ excused = e
    BY DEF Init
  <1>3. none \in Seq(Messages) /\ none \in Seq(Windows) /\ none \in Seq(e) BY EmptySeq
  <1>4. DOMAIN none = {} /\ ToSet(none) = {} BY NoTasks
  <1>5. e \in SUBSET Nat /\ IsRect(e) /\ \A w \in e : FALSE BY DEF IsRect
  <1> HIDE DEF none, e
  <1>6. S \in Screens
    <2>1. flagUpdate \in [Windows -> {"NO", "WAIT", "QUEUE", "DRAWING"}] BY <1>2
    <2>2. rcUpdate \in [Windows -> SUBSET Nat] /\ dirty \in [Windows -> SUBSET Nat]
      BY <1>2, <1>5
    <2>3. PaintMsgQue \in [Threads -> Seq([hwnd : Windows, nc : BOOLEAN])]
      BY <1>2, <1>3 DEF Messages
    <2>4. wPaintNum \in Int /\ mapped \in SUBSET Windows BY <1>2
    <2> QED BY <2>1, <2>2, <2>3, <2>4 DEF Screens, Screen
  <1> HIDE DEF S
  <1>7. \A w \in Windows : S.flag[w] = "NO" /\ S.upd[w] = e /\ S.dirty[w] = e BY <1>1, <1>2
  <1>8. QueueInv(S)
    <2>1. \A t \in Threads : DOMAIN S.que[t] = {} BY <1>1, <1>2, <1>4
    <2>2. {w \in Windows : S.flag[w] = "QUEUE"} = {} BY <1>7
    <2>3. S.num = Cardinality({w \in Windows : S.flag[w] = "QUEUE"})
      BY <1>1, <1>2, <2>2, FS_EmptySet
    <2> QED BY <1>7, <2>1, <2>3 DEF QueueInv
  <1>9. RegionInv(S) BY <1>1, <1>2, <1>5, <1>7 DEF RegionInv, AreaInv, Tidy, e
  <1>10. \A c \in Windows : ~Under(S, c) BY <1>7, ParentFacts DEF Under
  <1>11. OrderedNow(S, X) BY <1>10 DEF OrderedNow
  <1>12. OverdrawnNow(S, X) BY <1>1, <1>2, <1>10 DEF OverdrawnNow
  <1>13. MapNow(S, visible) BY <1>1, <1>2, ParentFacts DEF MapNow
  <1>14. WaitNow(S, X) BY <1>7, Types DEF WaitNow
  <1>15. DirtyInv(S, X) BY <1>7 DEF DirtyInv
  <1>16. DrawInv(S, X, stack, hasDC) BY <1>7 DEF DrawInv
  <1>17. Quiet(S, X, visible, stack, hasDC)
    BY <1>8, <1>9, <1>11, <1>12, <1>13, <1>14, <1>15, <1>16 DEF Quiet
  <1>18. StacksOK(stack)
    <2>1. \A t : StackOK(none, t) BY <1>3, <1>5 DEF StackOK
    <2> QED BY <1>2, <2>1 DEF StacksOK
  <1>19. NotifiedOK(notified) BY <1>2, <1>3, <1>4 DEF NotifiedOK
  <1>20. excused = e /\ e \in SUBSET Windows BY <1>2 DEF e
  <1> QED BY <1>6, <1>17, <1>18, <1>19, <1>20 DEF IInv, Holds, S

\* Every call keeps what flags, queues, regions and the handlers in progress
\* know of each other.
THEOREM InvariantHolds ==
  ASSUME ClipsAbove
  PROVE  Spec => []IInv
  <1>1. Init => IInv BY InitInv
  <1>2. IInv /\ [Next]_vars => IInv'
    <2> SUFFICES ASSUME IInv, [Next]_vars PROVE IInv'
      OBVIOUS
    <2>1. CASE Next BY <2>1, NextInv
    <2>2. CASE UNCHANGED vars
      <3>1. UNCHANGED <<screen, visible, hasDC, notified, stack, excused>>
        BY <2>2 DEF vars
      <3>2. Screen' = Screen BY <3>1, UnchangedFacts
      <3> QED BY <3>1, <3>2 DEF IInv
    <2> QED BY <2>1, <2>2
  <1> QED BY <1>1, <1>2, PTL DEF Spec

\* A window has one message while its flag says so and none otherwise, and
\* wPaintNum counts the messages.
LEMMA InvQueue ==
  ASSUME IInv
  PROVE  QueueMatchesFlags
  <1> DEFINE S == Screen
  <1>1. /\ S \in Screens /\ Quiet(S, ExcusedBy(excused), visible, stack, hasDC)
        /\ S.flag = flagUpdate /\ S.upd = rcUpdate /\ S.que = PaintMsgQue
        /\ S.map = mapped
    BY IInvFacts
  <1>2. S.num = wPaintNum BY DEF Screen
  <1>3. QueueInv(S) /\ RegionInv(S) BY <1>1 DEF Quiet
  <1> HIDE DEF S
  <1>4. ASSUME NEW w \in Windows
        PROVE  Cardinality(Queued(w)) = (IF flagUpdate[w] = "QUEUE" THEN 1 ELSE 0)
    <2>1. Owner[w] \in Threads BY Types
    <2>2. CASE flagUpdate[w] = "QUEUE"
      <3>1. PICK i \in DOMAIN PaintMsgQue[Owner[w]] : PaintMsgQue[Owner[w]][i].hwnd = w
        BY <1>1, <1>3, <2>2 DEF QueueInv
      <3>2. \A j \in DOMAIN PaintMsgQue[Owner[w]] : PaintMsgQue[Owner[w]][j].hwnd = w => j = i
        BY <1>1, <1>3, <2>1, <3>1 DEF QueueInv
      <3>3. Queued(w) = {i} BY <3>1, <3>2 DEF Queued
      <3> QED BY <2>2, <3>3, FS_Singleton
    <2>3. CASE flagUpdate[w] # "QUEUE"
      <3>1. Queued(w) = {} BY <1>1, <1>3, <2>1, <2>3 DEF QueueInv, Queued
      <3> QED BY <2>3, <3>1, FS_EmptySet
    <2> QED BY <2>2, <2>3
  <1>5. wPaintNum = Cardinality(UNION {{t} \X DOMAIN PaintMsgQue[t] : t \in Threads})
    <2> DEFINE A == {{t} \X DOMAIN PaintMsgQue[t] : t \in Threads}
               P == UNION A
               W == {w \in Windows : S.flag[w] = "QUEUE"}
               At(w) == CHOOSE i \in DOMAIN PaintMsgQue[Owner[w]] :
                          PaintMsgQue[Owner[w]][i].hwnd = w
               f == [w \in W |-> <<Owner[w], At(w)>>]
    <2>1. ASSUME NEW w \in W
          PROVE  /\ At(w) \in DOMAIN PaintMsgQue[Owner[w]]
                 /\ PaintMsgQue[Owner[w]][At(w)].hwnd = w
      BY <1>1, <1>3 DEF QueueInv
    <2>2. ASSUME NEW t \in Threads, NEW i \in DOMAIN PaintMsgQue[t]
          PROVE  <<t, i>> \in P
      <3>1. {t} \X DOMAIN PaintMsgQue[t] \in A OBVIOUS
      <3>2. <<t, i>> \in {t} \X DOMAIN PaintMsgQue[t] OBVIOUS
      <3> HIDE DEF A
      <3> QED BY <3>1, <3>2
    <2>3. ASSUME NEW p \in P
          PROVE  \E t \in Threads : \E i \in DOMAIN PaintMsgQue[t] : p = <<t, i>>
      <3>1. PICK z \in A : p \in z OBVIOUS
      <3>2. PICK t \in Threads : z = {t} \X DOMAIN PaintMsgQue[t] BY <3>1
      <3> QED BY <3>1, <3>2
    <2> HIDE DEF A, P, At
    <2>4. f \in [W -> P]
      <3>1. \A w \in W : Owner[w] \in Threads BY Types
      <3> QED BY <2>1, <2>2, <3>1
    <2>5. ASSUME NEW v \in W, NEW w \in W, f[v] = f[w] PROVE v = w
      <3>1. Owner[v] = Owner[w] /\ At(v) = At(w) BY <2>5
      <3> QED BY <2>1, <3>1
    <2>6. ASSUME NEW p \in P PROVE \E w \in W : f[w] = p
      <3>1. PICK t \in Threads : \E i \in DOMAIN PaintMsgQue[t] : p = <<t, i>> BY <2>3
      <3>2. PICK i \in DOMAIN PaintMsgQue[t] : p = <<t, i>> BY <3>1
      <3> DEFINE q == PaintMsgQue[t]
                 w == q[i].hwnd
      <3>3. q \in Seq(Messages) BY <1>1, ScreenTypes
      <3>4. w \in Windows
        <4>1. i \in DOMAIN q BY <3>2
        <4> HIDE DEF q
        <4>2. i \in 1 .. Len(q) BY <3>3, <4>1, LenProperties
        <4>3. q[i] \in Messages BY <3>3, <4>2, ElementOfSeq
        <4> QED BY <4>3 DEF Messages
      <3>5. /\ S.flag[w] = "QUEUE" /\ Owner[w] = t
            /\ \A j \in DOMAIN q : q[j].hwnd = w => j = i
        BY <1>1, <1>3, <3>2 DEF QueueInv
      <3>6. w \in W BY <3>4, <3>5
      <3> HIDE DEF w
      <3>7. At(w) = i BY <2>1, <3>5, <3>6
      <3>8. f[w] = <<t, i>> BY <3>5, <3>6, <3>7
      <3> QED BY <3>2, <3>6, <3>8
    <2> HIDE DEF f, W
    <2>7. ExistsBijection(W, P)
      <3>1. f \in Injection(W, P) BY <2>4, <2>5 DEF Injection, IsInjective
      <3>2. f \in Surjection(W, P) BY <2>4, <2>6 DEF Surjection
      <3> QED BY <3>1, <3>2 DEF ExistsBijection, Bijection
    <2>8. IsFiniteSet(W) /\ wPaintNum = Cardinality(W)
      BY <1>1, <1>2, <1>3, QueuedCount DEF QueueInv, W
    <2>9. Cardinality(P) = Cardinality(W) BY <2>7, <2>8, FS_Bijection
    <2> QED BY <2>8, <2>9 DEF P, A
  <1>6. \A w \in mapped : flagUpdate[w] \in {"WAIT", "QUEUE"} => rcUpdate[w] # {}
    BY <1>1, <1>3, ScreenTypes DEF RegionInv, Tidy
  <1> QED BY <1>4, <1>5, <1>6 DEF QueueMatchesFlags

\* The windows that the properties except are those of the invariant.
LEMMA ExcusedIs ==
  ASSUME NEW w \in Windows
  PROVE  Excused(w) <=> w \in ExcusedBy(excused)
  BY DEF Excused, ExcusedBy

\* What must be painted is in the region of a window that is to be painted.
LEMMA InvLost ==
  ASSUME IInv
  PROVE  NothingLost
  <1> DEFINE S == Screen
             X == ExcusedBy(excused)
  <1>1. /\ S \in Screens /\ Quiet(S, X, visible, stack, hasDC)
        /\ S.flag = flagUpdate /\ S.upd = rcUpdate /\ S.map = mapped /\ S.dirty = dirty
    BY IInvFacts
  <1> SUFFICES ASSUME NEW w \in mapped \ {Root}, dirty[w] # {}, ~Excused(w)
               PROVE  flagUpdate[w] # "NO" /\ dirty[w] \subseteq rcUpdate[w]
    BY DEF NothingLost
  <1>2. w \in Windows /\ w \in S.map BY <1>1, ScreenTypes
  <1>3. w \notin X BY <1>2, ExcusedIs
  <1> HIDE DEF S, X
  <1>4. S.dirty[w] \subseteq S.upd[w] BY <1>1, <1>2, <1>3 DEF Quiet, DirtyInv
  <1>5. S.upd[w] # {} BY <1>1, <1>4
  <1>6. S.flag[w] # "NO" BY <1>1, <1>2, <1>5 DEF Quiet, RegionInv, Tidy
  <1> QED BY <1>1, <1>4, <1>6

\* A window that waits is in one that is to be painted or is being painted.
LEMMA InvWait ==
  ASSUME IInv
  PROVE  WaitHasPainter
  <1> DEFINE S == Screen
             X == ExcusedBy(excused)
             Held(d) == \E a \in Windows : d \in Below[a] /\ Busy(a)
             D == {d \in Windows : S.flag[d] # "NO" /\ d \notin X => Busy(d) \/ Held(d)}
  <1>1. /\ S \in Screens /\ Quiet(S, X, visible, stack, hasDC)
        /\ excused \in SUBSET Windows /\ S.flag = flagUpdate
    BY IInvFacts
  <1>2. Closed(X) BY <1>1, ExcusedFacts
  <1> HIDE DEF S, X
  <1>3. DrawInv(S, X, stack, hasDC) /\ WaitNow(S, X) BY <1>1 DEF Quiet
  <1>4. ASSUME NEW d \in Windows, d \notin X, S.flag[d] \in {"QUEUE", "DRAWING"}
        PROVE  Busy(d)
    <2>1. CASE S.flag[d] = "QUEUE" BY <1>1, <2>1 DEF Busy
    <2>2. CASE S.flag[d] = "DRAWING"
      <3>1. PICK kind \in PaintKinds : Focus(stack[Owner[d]], d, kind)
        BY <1>3, <1>4, <2>2 DEF DrawInv
      <3>2. PICK i \in DOMAIN stack[Owner[d]] : stack[Owner[d]][i] = Frame(kind, d)
        BY <3>1 DEF Focus
      <3>3. stack[Owner[d]][i].win = d BY <3>2 DEF Frame
      <3>4. Owner[d] \in Threads BY Types
      <3> QED BY <3>3, <3>4 DEF Busy
    <2> QED BY <1>4, <2>1, <2>2
  <1>5. ASSUME NEW p \in D, NEW c \in ToSet(Children[p]), c \notin X, S.flag[c] = "WAIT"
        PROVE  Held(c)
    <2>1. p \in Windows /\ c \in Windows /\ c # Root /\ Parent(c) = p BY ChildFacts
    <2>2. S.flag[p] # "NO" BY <1>3, <1>5, <2>1 DEF WaitNow
    <2>3. p \notin X BY <1>2, <1>5, <2>1 DEF Closed
    <2>4. CASE Busy(p)
      <3>1. c \in Below[p] BY <2>1, BelowClosed
      <3> QED BY <2>1, <2>4, <3>1
    <2>5. CASE Held(p)
      <3>1. PICK a \in Windows : p \in Below[a] /\ Busy(a) BY <2>5
      <3>2. c \in Below[a] BY <2>1, <3>1, BelowClosed
      <3> QED BY <3>1, <3>2
    <2> QED BY <2>2, <2>3, <2>4, <2>5
  <1>6. \A c \in Windows : S.flag[c] \in {"NO", "WAIT", "QUEUE", "DRAWING"}
    BY <1>1, ScreenTypes DEF Flags
  <1> HIDE DEF Held
  <1>7. Root \in D
    <2>1. Root \in Windows /\ S.flag[Root] # "WAIT" BY <1>3, Types DEF WaitNow
    <2> QED BY <1>4, <1>6, <2>1
  <1>8. ASSUME NEW p \in (D \cap Below[Root]) \cup {Root}, NEW c \in ToSet(Children[p])
        PROVE  c \in D
    <2>1. p \in D BY <1>7
    <2>2. c \in Windows BY <2>1, ChildFacts
    <2> QED BY <1>4, <1>5, <1>6, <2>1, <2>2
  <1> HIDE DEF D
  <1>9. Below[Root] \subseteq D BY <1>8, Types, BelowInduction
  <1>10. \A p \in Windows : p \in D BY <1>7, <1>9, BelowRoot
  <1> SUFFICES ASSUME NEW w \in Windows, flagUpdate[w] = "WAIT", ~Excused(w)
               PROVE  Held(w)
    BY DEF WaitHasPainter, Held
  <1>11. S.flag[w] = "WAIT" /\ w \notin X BY <1>1, ExcusedIs DEF X
  <1>12. w # Root BY <1>3, <1>11 DEF WaitNow
  <1>13. Parent(w) \in Windows /\ w \in ToSet(Children[Parent(w)]) BY <1>12, ParentFacts
  <1> QED BY <1>5, <1>10, <1>11, <1>13

\* The flag of a window, its message in the queue of its thread, wPaintNum and
\* its invalid region agree, whoever hides, validates, updates or paints what:
\* the ASSERTs of WND_GetPaintMessage and WND_Update never fail.
THEOREM FlagsAgree ==
  ASSUME ClipsAbove
  PROVE  Spec => []QueueMatchesFlags
  <1>1. Spec => []IInv BY InvariantHolds
  <1>2. IInv => QueueMatchesFlags BY InvQueue
  <1> QED BY <1>1, <1>2, PTL

\* No update made before, during or after a paint is forgotten, and what a
\* parent paints over is painted again, but for the windows that the code
\* cannot keep track of (excused).
THEOREM UpdatesKept ==
  ASSUME ClipsAbove
  PROVE  Spec => []NothingLost
  <1>1. Spec => []IInv BY InvariantHolds
  <1>2. IInv => NothingLost BY InvLost
  <1> QED BY <1>1, <1>2, PTL

\* A window in PAINT_WAIT is inside one that has a message or is being painted,
\* at whose end WND_EndPaint will come to its children.
THEOREM WaitersPainted ==
  ASSUME ClipsAbove
  PROVE  Spec => []WaitHasPainter
  <1>1. Spec => []IInv BY InvariantHolds
  <1>2. IInv => WaitHasPainter BY InvWait
  <1> QED BY <1>1, <1>2, PTL
=============================================================================
