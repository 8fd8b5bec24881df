------------------------- MODULE SmsIncoming_proofs -------------------------
(***************************************************************************)
(* Proofs about what arrives in SmsOutbox, for any messages, datagrams,    *)
(* places on the SIM, length of the ring, failures and bounds:             *)
(*   FragmentsInPlace    the fragments of a datagram are counted once and  *)
(*                       are in their places;                              *)
(*   AnnouncementsMatch  there is one message for each complete datagram;  *)
(*   DeletedWasRead      no message is deleted unread, if reads are        *)
(*                       neither refused nor fail.                         *)
(* DatagramInv says what a datagram looks like; a complete one is then     *)
(* full, so that a fragment that comes late is a duplicate.  UnreadInv     *)
(* pairs the ring with the reads under way: they are the same in the same  *)
(* order, no two commands are about the same place of the SIM, and what    *)
(* is to be deleted was handed over or found the ring full.                *)
(***************************************************************************)
EXTENDS SmsOutbox_proofs, FiniteSetTheorems

-----------------------------------------------------------------------------
(* How often the members of a set occur in a sequence.                     *)

At(s, S) == {i \in DOMAIN s : s[i] \in S}
Count(s, S) == Cardinality(At(s, S))

\* The places of a sequence are finitely many.
LEMMA AtFinite ==
  ASSUME NEW T, NEW s \in Seq(T), NEW S
  PROVE  IsFiniteSet(At(s, S)) /\ Count(s, S) \in Nat /\ At(s, S) \subseteq 1 .. Len(s)
  <1>1. Len(s) \in Nat /\ DOMAIN s = 1 .. Len(s) BY LenProperties
  <1>2. IsFiniteSet(1 .. Len(s)) BY <1>1, FS_Interval
  <1>3. At(s, S) \subseteq 1 .. Len(s) BY <1>1 DEF At
  <1>4. IsFiniteSet(At(s, S)) BY <1>2, <1>3, FS_Subset
  <1> QED BY <1>3, <1>4, FS_CardinalityType DEF Count

\* The sequence r is s without its i-th element.
Without(r, s, i) ==
  /\ Len(s) = Len(r) + 1 /\ i \in 1 .. Len(s)
  /\ \A j \in 1 .. Len(r) : r[j] = IF j < i THEN s[j] ELSE s[j + 1]

\* An element more or less counts when it is in the set.
LEMMA CountWithout ==
  ASSUME NEW T, NEW s \in Seq(T), NEW r \in Seq(T), NEW i, Without(r, s, i), NEW S
  PROVE  Count(s, S) = IF s[i] \in S THEN Count(r, S) + 1 ELSE Count(r, S)
  <1> DEFINE n == Len(r)  A == At(r, S)  B == At(s, S) \ {i}
             f == [j \in A |-> IF j < i THEN j ELSE j + 1]
  <1>1. /\ n \in Nat /\ DOMAIN r = 1 .. n /\ DOMAIN s = 1 .. n + 1 /\ i \in 1 .. n + 1
        /\ \A j \in 1 .. n : r[j] = IF j < i THEN s[j] ELSE s[j + 1]
    BY LenProperties DEF Without
  <1> HIDE DEF n
  <1>2. A = {j \in 1 .. n : r[j] \in S} /\ B = {j \in 1 .. n + 1 : s[j] \in S /\ j # i}
    BY <1>1 DEF At
  <1>3. IsFiniteSet(A) /\ IsFiniteSet(At(s, S)) BY AtFinite
  <1> HIDE DEF A, B
  <1>4. f \in [A -> B]
    <2> SUFFICES ASSUME NEW j \in A PROVE (IF j < i THEN j ELSE j + 1) \in B OBVIOUS
    <2> QED BY <1>1, <1>2
  <1>5. \A j, l \in A : f[j] = f[l] => j = l BY <1>1, <1>2
  <1>6. \A l \in B : \E j \in A : f[j] = l
    <2> TAKE l \in B
    <2>1. CASE l < i
      <3>1. l \in A BY <1>1, <1>2, <2>1
      <3> QED BY <2>1, <3>1
    <2>2. CASE l > i
      <3>1. l - 1 \in 1 .. n /\ ~(l - 1 < i) /\ (l - 1) + 1 = l BY <1>1, <1>2, <2>2
      <3>2. l - 1 \in A BY <1>1, <1>2, <3>1
      <3> QED BY <3>1, <3>2
    <2> QED BY <1>1, <1>2, <2>1, <2>2
  <1>7. f \in Bijection(A, B)
    <2>1. DOMAIN f = A OBVIOUS
    <2> HIDE DEF f
    <2>2. f \in Injection(A, B) BY <1>4, <1>5, <2>1 DEF Injection, IsInjective
    <2>3. f \in Surjection(A, B) BY <1>4, <1>6 DEF Surjection
    <2> QED BY <2>2, <2>3 DEF Bijection
  <1>8. Cardinality(B) = Cardinality(A)
    <2>1. ExistsBijection(A, B) BY <1>7 DEF ExistsBijection
    <2> QED BY <1>3, <2>1, FS_Bijection
  <1>9. i \in At(s, S) <=> s[i] \in S BY <1>1 DEF At
  <1>10. Cardinality(B) = IF s[i] \in S THEN Cardinality(At(s, S)) - 1 ELSE Cardinality(At(s, S))
    BY <1>3, <1>9, FS_RemoveElement DEF B
  <1>11. Count(s, S) \in Nat /\ Count(r, S) \in Nat BY AtFinite
  <1> QED BY <1>8, <1>10, <1>11 DEF Count, A

\* Appending and taking the first element.
LEMMA CountEnds ==
  ASSUME NEW T, NEW s \in Seq(T), NEW S
  PROVE  /\ \A x \in T : Count(Append(s, x), S) = IF x \in S THEN Count(s, S) + 1 ELSE Count(s, S)
         /\ \A x \in T : Count(<<x>> \o s, S) = IF x \in S THEN Count(s, S) + 1 ELSE Count(s, S)
         /\ s # <<>> => Count(s, S) = IF Head(s) \in S THEN Count(Tail(s), S) + 1 ELSE Count(Tail(s), S)
  <1>1. Len(s) \in Nat BY LenProperties
  <1>2. ASSUME NEW x \in T
        PROVE  Count(Append(s, x), S) = IF x \in S THEN Count(s, S) + 1 ELSE Count(s, S)
    <2> DEFINE t == Append(s, x)  n == Len(s)
    <2>1. /\ t \in Seq(T) /\ Len(t) = n + 1 /\ t[n + 1] = x /\ \A j \in 1 .. n : t[j] = s[j]
      BY AppendProperties
    <2> HIDE DEF t
    <2>2. Without(s, t, n + 1) BY <1>1, <2>1 DEF Without
    <2>3. Count(t, S) = IF t[n + 1] \in S THEN Count(s, S) + 1 ELSE Count(s, S)
      BY <2>1, <2>2, CountWithout
    <2> QED BY <2>1, <2>3 DEF t
  <1>3. ASSUME NEW x \in T
        PROVE  Count(<<x>> \o s, S) = IF x \in S THEN Count(s, S) + 1 ELSE Count(s, S)
    <2> DEFINE t == <<x>> \o s  n == Len(s)
    <2>1. <<x>> \in Seq(T) /\ Len(<<x>>) = 1 /\ <<x>>[1] = x OBVIOUS
    <2>2. /\ t \in Seq(T) /\ Len(t) = 1 + n
          /\ \A j \in 1 .. 1 + n : t[j] = IF j <= 1 THEN <<x>>[j] ELSE s[j - 1]
      BY <2>1, ConcatProperties
    <2> HIDE DEF t
    <2>3. t[1] = x BY <1>1, <2>1, <2>2
    <2>4. \A j \in 1 .. n : t[j + 1] = s[j]
      <3> TAKE j \in 1 .. n
      <3>1. j + 1 \in 1 .. 1 + n /\ ~(j + 1 <= 1) /\ (j + 1) - 1 = j BY <1>1
      <3> QED BY <2>2, <3>1
    <2>5. Without(s, t, 1) BY <1>1, <2>2, <2>4 DEF Without
    <2>6. Count(t, S) = IF t[1] \in S THEN Count(s, S) + 1 ELSE Count(s, S)
      BY <2>2, <2>3, <2>5, CountWithout
    <2> QED BY <2>3, <2>6 DEF t
  <1>4. ASSUME s # <<>>
        PROVE  Count(s, S) = IF Head(s) \in S THEN Count(Tail(s), S) + 1 ELSE Count(Tail(s), S)
    <2> DEFINE t == Tail(s)
    <2>1. /\ t \in Seq(T) /\ Len(t) = Len(s) - 1 /\ Len(s) \in Nat \ {0} /\ s[1] = Head(s)
          /\ \A j \in 1 .. Len(t) : t[j] = s[j + 1]
      BY <1>4, HeadTailProperties, EmptySeq
    <2> HIDE DEF t
    <2>2. Without(t, s, 1) BY <2>1 DEF Without
    <2>3. Count(s, S) = IF s[1] \in S THEN Count(t, S) + 1 ELSE Count(t, S)
      BY <2>1, <2>2, CountWithout
    <2> QED BY <2>1, <2>3 DEF t
  <1> QED BY <1>2, <1>3, <1>4

\* Replacing an element.
LEMMA CountExcept ==
  ASSUME NEW T, NEW s \in Seq(T), NEW S, NEW i \in 1 .. Len(s), NEW x \in T
  PROVE  Count([s EXCEPT ![i] = x], S) =
           IF s[i] \notin S /\ x \in S THEN Count(s, S) + 1
           ELSE IF s[i] \in S /\ x \notin S THEN Count(s, S) - 1 ELSE Count(s, S)
  <1> DEFINE t == [s EXCEPT ![i] = x]
  <1>1. /\ DOMAIN s = 1 .. Len(s) /\ DOMAIN t = DOMAIN s
        /\ \A j \in DOMAIN s : t[j] = IF j = i THEN x ELSE s[j]
    BY LenProperties
  <1> HIDE DEF t
  <1>2. IsFiniteSet(At(s, S)) /\ Count(s, S) \in Nat BY AtFinite
  <1>3. i \in At(s, S) <=> s[i] \in S BY <1>1 DEF At
  <1>4. CASE x \in S
    <2>1. At(t, S) = At(s, S) \cup {i} BY <1>1, <1>4 DEF At
    <2> QED BY <1>2, <1>3, <1>4, <2>1, FS_AddElement DEF Count, t
  <1>5. CASE x \notin S
    <2>1. At(t, S) = At(s, S) \ {i} BY <1>1, <1>5 DEF At
    <2> QED BY <1>2, <1>3, <1>5, <2>1, FS_RemoveElement DEF Count, t
  <1> QED BY <1>4, <1>5

-----------------------------------------------------------------------------
(* What the sends do to the queues that they share with what arrives.      *)

\* A queue t after s when no element but those in S came and went.
Moved(s, t, S) ==
  \E q \in {s, Tail(s)} :
    /\ q = s \/ (s # <<>> /\ Head(s) \in S)
    /\ t = q \/ \E x \in S : t = Append(q, x)

SendCommands == [cmd : Kinds, arg : Files \X Nat]

\* A step of a send.
Elsewhere ==
  /\ UNCHANGED incoming
  /\ Moved(requests, requests', SendCommands) /\ Moved(posted, posted', SendMessages)

\* A file that is given to the dispatcher.
LEMMA StartMoves ==
  ASSUME NEW f, NEW p, p = posted \/ (p = Tail(posted) /\ posted # <<>> /\ Head(posted) \in SendMessages),
         SMS_SendToDispatch(f, p) \/ posted' = p
  PROVE  Moved(posted, posted', SendMessages)
  <1>1. Asyn(Kind(f)) \in SendMessages BY AsynFacts DEF Kind, Kinds
  <1>2. posted' = p \/ posted' = Append(p, Asyn(Kind(f))) BY DEF SMS_SendToDispatch
  <1> QED BY <1>1, <1>2 DEF Moved

\* A segment that is given to the driver.
LEMMA SegmentMoves ==
  ASSUME NEW k \in Kinds, NEW n \in Nat, NEW q, NEW p, NEW r \in {"sent", "failed"},
         gAsynSend[k].file \in Files, SendSegment(k, n, q, p, r)
  PROVE  /\ requests' = q \/ \E c \in SendCommands : requests' = Append(q, c)
         /\ posted' = p \/ \E x \in SendMessages : posted' = Append(p, x)
  <1> DEFINE c == Command(k, <<gAsynSend[k].file, n + 1>>)
  <1>1. c \in SendCommands BY DEF Command, SendCommands
  <1>2. requests' = q \/ requests' = Append(q, c) BY DEF SendSegment, Given
  <1>3. posted' = p \/ posted' = Append(p, r) BY DEF SendSegment
  <1>4. r \in SendMessages BY AsynFacts
  <1> HIDE DEF c
  <1> QED BY <1>1, <1>2, <1>3, <1>4

\* Every step is about a message that arrives, or the phone is switched off and
\* on, or it is a step of a send.
LEMMA Steps ==
  ASSUME IInv, [Next]_vars
  PROVE  \/ \E m \in Incoming, i \in Indexes : WM_CMTI_COMING(m, i)
         \/ \E m \in Incoming : WM_CMT_COMING(m)
         \/ ReadAnswered \/ DeleteAnswered \/ SMS_OnRecvPort
         \/ DispatchRestart \/ Elsewhere
  <1>1. posted \in Seq(Messages) /\ requests \in Seq(CommandRecords) /\ gAsynSend \in [Kinds -> Record]
    BY DEF IInv, TypeInv, TypeOK, Record
  <1>2. CASE UNCHANGED <<incoming, requests>> /\ Moved(posted, posted', SendMessages)
    <2>1. Moved(requests, requests', SendCommands) BY <1>2 DEF Moved
    <2> QED BY <1>2, <2>1 DEF Elsewhere
  <1>3. posted' = posted => Moved(posted, posted', SendMessages) BY DEF Moved
  <1>4. CASE UserAction
    <2>1. ASSUME NEW f \in Files, NEW s, SMS_Send(f, s)
          PROVE UNCHANGED <<incoming, requests>> /\ Moved(posted, posted', SendMessages)
      <3>1. SMS_SendToDispatch(f, posted) \/ posted' = posted BY <2>1 DEF SMS_Send
      <3> QED BY <2>1, <3>1, StartMoves DEF SMS_Send
    <2>2. ASSUME NEW f \in Files, Compose(f) \/ Resend(f)
          PROVE UNCHANGED <<incoming, requests>> /\ Moved(posted, posted', SendMessages)
      BY <2>1, <2>2 DEF Compose, Resend
    <2>3. ASSUME NEW f \in Files, Delete(f) \/ SMS_Suspend(f) \/ OpenOutbox
          PROVE UNCHANGED <<incoming, requests>> /\ Moved(posted, posted', SendMessages)
      BY <1>3, <2>3 DEF Delete, SMS_Suspend, OpenOutbox, dispatch, queues
    <2>4. CASE OpenOutbox
      BY <1>2, <1>3, <2>4 DEF OpenOutbox, dispatch, queues
    <2> QED BY <1>2, <1>4, <2>2, <2>3, <2>4 DEF UserAction
  <1>5. CASE Outbox
    <2>1. /\ posted # <<>> /\ Head(posted) \in {"sent", "failed"}
          /\ UNCHANGED <<incoming, requests>>
          /\ HeadMissing \/ \E q, s, l : SendNext(q, s, l)
      BY <1>5 DEF Outbox, SendSucceeded, SendFailed
    <2>2. posted' = Tail(posted) \/ \E f : SMS_SendToDispatch(f, Tail(posted))
      BY <2>1 DEF HeadMissing, SendNext
    <2>3. Head(posted) \in SendMessages BY <2>1, AsynFacts
    <2>4. Moved(posted, posted', SendMessages) BY <2>1, <2>2, <2>3, StartMoves
    <2> QED BY <1>2, <2>1, <2>4
  <1>6. ASSUME NEW k \in Kinds, WM_ASYN_SEND(k) PROVE Elsewhere
    <2>1. /\ posted # <<>> /\ Head(posted) = Asyn(k) /\ UNCHANGED incoming
          /\ SendSegment(k, gAsynSend[k].sent, requests, Tail(posted), "failed")
      BY <1>6 DEF WM_ASYN_SEND
    <2>2. Has(posted, Asyn(k)) BY <1>1, <2>1, Taken
    <2>3. gAsynSend[k].file \in Files BY <2>2 DEF IInv, SendInv, RecordInv, Carried
    <2>4. gAsynSend[k].sent \in Nat BY <1>1 DEF Record
    <2>5. /\ requests' = requests \/ \E c \in SendCommands : requests' = Append(requests, c)
          /\ posted' = Tail(posted) \/ \E x \in SendMessages : posted' = Append(Tail(posted), x)
      BY <2>1, <2>3, <2>4, SegmentMoves
    <2>6. Asyn(k) \in SendMessages BY AsynFacts
    <2>7. Moved(requests, requests', SendCommands) BY <2>5 DEF Moved
    <2>8. Moved(posted, posted', SendMessages) BY <2>1, <2>5, <2>6 DEF Moved
    <2> QED BY <2>1, <2>7, <2>8 DEF Elsewhere
  <1>7. ASSUME NEW k \in Kinds, SendAnswered(k) PROVE Elsewhere
    <2> DEFINE n == gAsynSend[k].sent + 1  q == Tail(requests)
    <2>1. requests # <<>> /\ Head(requests).cmd = k /\ UNCHANGED incoming
      BY <1>7 DEF SendAnswered, Answers
    <2>2. Head(requests) \in CommandRecords /\ Has(requests, Head(requests)) BY <1>1, <2>1, Taken
    <2>3. Has(Cmds(requests), k) BY <1>1, <2>1, <2>2, CmdsType
    <2>4. gAsynSend[k].file \in Files BY <2>3 DEF IInv, SendInv, RecordInv, Carried
    <2>5. n \in Nat BY <1>1 DEF Record
    <2>6. Head(requests) \in SendCommands
      BY <2>1, <2>2 DEF CommandRecords, SendCommands, Kinds
    <2>7. \/ SendSegment(k, n, q, posted, LaterRefused(k))
          \/ requests' = q /\ \E ok \in BOOLEAN : posted' = Append(posted, Report(k, ok))
      BY <1>7 DEF SendAnswered, Outcomes
    <2>8. LaterRefused(k) \in {"sent", "failed"} /\ \A ok \in BOOLEAN : Report(k, ok) \in SendMessages
      BY AsynFacts DEF LaterRefused, Report
    <2> HIDE DEF n, q
    <2>9. /\ requests' = q \/ \E c \in SendCommands : requests' = Append(q, c)
          /\ posted' = posted \/ \E x \in SendMessages : posted' = Append(posted, x)
      BY <2>4, <2>5, <2>7, <2>8, SegmentMoves
    <2>10. Moved(requests, requests', SendCommands) BY <2>1, <2>6, <2>9 DEF Moved, q
    <2>11. Moved(posted, posted', SendMessages) BY <2>9 DEF Moved
    <2> QED BY <2>1, <2>10, <2>11 DEF Elsewhere
  <1>8. CASE UNCHANGED vars
    BY <1>2, <1>3, <1>8 DEF vars, dispatch, queues
  <1>9. CASE Dispatcher
    BY <1>6, <1>7, <1>9 DEF Dispatcher, MEAnswer, DispatchMessage
  <1> QED BY <1>4, <1>5, <1>8, <1>9 DEF Next, Restart, Arrive

-----------------------------------------------------------------------------
(* Datagrams.                                                              *)

\* A datagram has its slots, the first of them taken by the fragment that came
\* first and every other by its own fragment or by none, and counts them.
WellFormed(g) ==
  /\ g.id \in Datagrams /\ DOMAIN g.slots = 1 .. Frags[g.id]
  /\ \A s \in DOMAIN g.slots : g.slots[s] \in Nat
  /\ g.slots[1] # 0 /\ \A s \in Filled(g) \ {1} : g.slots[s] = s
  /\ g.arrived = Cardinality(Filled(g))

DatagramInv == \A i \in DOMAIN datagrams : WellFormed(datagrams[i])

Completed == {g \in DatagramRecords : Complete(g)}
AnnounceInv == Count(posted, {"recv"}) = Count(datagrams, Completed)

\* The fragments of a datagram are finitely many.
LEMMA FilledFinite ==
  ASSUME NEW g, WellFormed(g)
  PROVE  IsFiniteSet(Filled(g)) /\ Filled(g) \subseteq 1 .. Frags[g.id] /\ g.arrived \in Nat
  <1>1. Frags[g.id] \in Nat BY ArrivalAssumption DEF WellFormed
  <1>2. Filled(g) \subseteq 1 .. Frags[g.id] BY DEF Filled, WellFormed
  <1>3. IsFiniteSet(1 .. Frags[g.id]) BY <1>1, FS_Interval
  <1>4. IsFiniteSet(Filled(g)) BY <1>2, <1>3, FS_Subset
  <1> QED BY <1>2, <1>4, FS_CardinalityType DEF WellFormed

\* A complete datagram has no free slot.
LEMMA CompleteIsFull ==
  ASSUME NEW g, WellFormed(g), Complete(g), NEW k \in 1 .. Frags[g.id]
  PROVE  g.slots[k] # 0
  <1>1. Frags[g.id] \in Nat BY ArrivalAssumption DEF WellFormed
  <1>2. IsFiniteSet(1 .. Frags[g.id]) /\ Cardinality(1 .. Frags[g.id]) = Frags[g.id]
    <2> DEFINE n == Frags[g.id]
    <2>1. n \in Nat /\ 1 \in Int BY <1>1
    <2>2. n # 0 BY ArrivalAssumption DEF WellFormed
    <2> HIDE DEF n
    <2>3. n \in Int /\ ~(1 > n) /\ n - 1 + 1 = n BY <2>1, <2>2
    <2>4. IsFiniteSet(1 .. n) /\ Cardinality(1 .. n) = n BY <2>1, <2>3, FS_Interval
    <2> QED BY <2>4 DEF n
  <1>3. Cardinality(Filled(g)) = Frags[g.id] BY DEF WellFormed, Complete
  <1>4. Filled(g) = 1 .. Frags[g.id] BY <1>2, <1>3, FilledFinite, FS_Subset
  <1> QED BY <1>4 DEF Filled

\* A datagram that begins; with one fragment it is complete.
LEMMA NewIsWellFormed ==
  ASSUME NEW d \in Datagrams, NEW k \in 1 .. Frags[d]
  PROVE  /\ WellFormed(NewDatagram(d, k)) /\ NewDatagram(d, k) \in DatagramRecords
         /\ Complete(NewDatagram(d, k)) <=> Frags[d] = 1
  <1> DEFINE n == NewDatagram(d, k)  t == [x \in 1 .. Frags[d] |-> IF x = 1 THEN k ELSE 0]
  <1>1. Frags[d] \in Nat \ {0} BY ArrivalAssumption
  <1>2. n = [id |-> d, slots |-> t, arrived |-> 1] BY DEF NewDatagram
  <1>3. n.id = d /\ n.slots = t /\ n.arrived = 1 BY <1>2
  <1>4. t \in [1 .. Frags[d] -> Nat] BY <1>1
  <1>5. t \in Seq(Nat) BY <1>1, <1>4, SeqDef
  <1>6. 1 \in 1 .. Frags[d] /\ t[1] = k /\ \A x \in 1 .. Frags[d] : x # 1 => t[x] = 0 BY <1>1
  <1> HIDE DEF t
  <1>7. n \in DatagramRecords BY <1>2, <1>5 DEF DatagramRecords
  <1> HIDE DEF n
  <1>8. Filled(n) = {1} BY <1>3, <1>4, <1>6 DEF Filled
  <1>9. WellFormed(n)
    <2>1. Cardinality(Filled(n)) = 1 BY <1>8, FS_Singleton
    <2>2. n.slots[1] # 0 /\ \A s \in Filled(n) \ {1} : n.slots[s] = s
      BY <1>1, <1>3, <1>6, <1>8
    <2>3. DOMAIN n.slots = 1 .. Frags[n.id] /\ \A s \in DOMAIN n.slots : n.slots[s] \in Nat
      BY <1>3, <1>4
    <2> QED BY <1>3, <2>1, <2>2, <2>3 DEF WellFormed
  <1>10. Complete(n) <=> Frags[d] = 1 BY <1>3 DEF Complete
  <1> QED BY <1>7, <1>9, <1>10 DEF n

\* A fragment that comes to a datagram: a duplicate changes nothing, and another
\* is counted, so that the datagram was not complete before.
LEMMA AddIsWellFormed ==
  ASSUME NEW o \in DatagramRecords, WellFormed(o), NEW k \in 1 .. Frags[o.id]
  PROVE  LET g == AddFragment(o, k) IN
         /\ WellFormed(g) /\ g \in DatagramRecords
         /\ g # o => ~Complete(o)
  <1> DEFINE g == AddFragment(o, k)
  <1>1. Frags[o.id] \in Nat \ {0} BY ArrivalAssumption DEF WellFormed
  <1>2. CASE o.slots[k] # 0 BY <1>2 DEF AddFragment
  <1>3. CASE o.slots[k] = 0
    <2> DEFINE t == [o.slots EXCEPT ![k] = k]
    <2>1. g = [o EXCEPT !.slots[k] = k, !.arrived = @ + 1] BY <1>3 DEF AddFragment
    <2>2. k \in Nat /\ k # 0 /\ k \in DOMAIN o.slots BY <1>1 DEF WellFormed
    <2>3. g \in DatagramRecords BY <2>1, <2>2, FragmentType
    <2>4. g.id = o.id /\ g.slots = t /\ g.arrived = o.arrived + 1
      BY <2>1 DEF DatagramRecords
    <2>5. DOMAIN t = DOMAIN o.slots /\ \A x \in DOMAIN o.slots : t[x] = IF x = k THEN k ELSE o.slots[x]
      BY <2>2
    <2> HIDE DEF t, g
    <2>6. k # 1 /\ 1 \in DOMAIN o.slots BY <1>1, <1>3 DEF WellFormed
    <2>7. Filled(g) = Filled(o) \cup {k} /\ k \notin Filled(o)
      BY <1>3, <2>2, <2>4, <2>5 DEF Filled
    <2>8. Cardinality(Filled(g)) = Cardinality(Filled(o)) + 1
      BY <2>7, FilledFinite, FS_AddElement
    <2>9. /\ g.id \in Datagrams /\ DOMAIN g.slots = 1 .. Frags[g.id]
          /\ \A s \in DOMAIN g.slots : g.slots[s] \in Nat
      BY <2>2, <2>4, <2>5 DEF WellFormed
    <2>10. g.slots[1] # 0 BY <2>4, <2>5, <2>6 DEF WellFormed
    <2>11. ASSUME NEW s \in Filled(g) \ {1} PROVE g.slots[s] = s
      <3>1. s \in DOMAIN o.slots /\ g.slots[s] = t[s] BY <2>4, <2>5 DEF Filled
      <3>2. CASE s = k BY <2>5, <3>1, <3>2
      <3>3. CASE s # k
        <4>1. s \in Filled(o) \ {1} BY <2>7, <3>3
        <4>2. o.slots[s] = s BY <4>1 DEF WellFormed
        <4> QED BY <2>5, <3>1, <3>3, <4>2
      <3> QED BY <3>2, <3>3
    <2>12. g.arrived = Cardinality(Filled(g)) BY <2>4, <2>8 DEF WellFormed
    <2>13. WellFormed(g) BY <2>9, <2>10, <2>11, <2>12 DEF WellFormed
    <2>14. ~Complete(o) BY <1>3, CompleteIsFull
    <2> QED BY <2>3, <2>13, <2>14 DEF g
  <1> QED BY <1>2, <1>3

\* The complete datagrams when one is changed.
LEMMA CompletedExcept ==
  ASSUME NEW s \in Seq(DatagramRecords), NEW i \in 1 .. Len(s), NEW g \in DatagramRecords
  PROVE  Count([s EXCEPT ![i] = g], Completed) =
           IF s[i] \notin Completed /\ g \in Completed THEN Count(s, Completed) + 1
           ELSE IF s[i] \in Completed /\ g \notin Completed THEN Count(s, Completed) - 1
           ELSE Count(s, Completed)
  BY CountExcept

\* A fragment leaves every datagram well formed, and the window of the port is
\* told when one becomes complete.
LEMMA DispatchPortStep ==
  ASSUME IInv, DatagramInv, AnnounceInv,
         NEW m \in Incoming, Datagram[m] # NULL, DispatchPortSMS(m)
  PROVE  DatagramInv' /\ AnnounceInv'
  <1> DEFINE d == Datagram[m]
             k == SeqNo[m]
             known == {x \in DOMAIN datagrams : datagrams[x].id = d}
             n == NewDatagram(d, k)
             i == CHOOSE j \in known : \A l \in known : j <= l
             g == AddFragment(datagrams[i], k)
  <1>1. d \in Datagrams /\ k \in 1 .. Frags[d]
    <2>1. d \in Datagrams BY DEF Datagrams
    <2> QED BY <2>1, ArrivalAssumption
  <1>2. /\ datagrams \in Seq(DatagramRecords) /\ posted \in Seq(Messages)
        /\ Len(datagrams) \in Nat /\ DOMAIN datagrams = 1 .. Len(datagrams)
    BY LenProperties DEF IInv, TypeInv, TypeOK
  <1>3. /\ "recv" \in Messages
        /\ Count(Append(posted, "recv"), {"recv"}) = Count(posted, {"recv"}) + 1
    <2>1. "recv" \in Messages BY DEF Messages
    <2> QED BY <1>2, <2>1, CountEnds
  <1>4. CASE Frags[d] = 1 \/ known = {}
    <2>1. datagrams' = <<n>> \o datagrams
          /\ posted' = IF Frags[d] = 1 THEN Append(posted, "recv") ELSE posted
      BY <1>4 DEF DispatchPortSMS
    <2>2. WellFormed(n) /\ n \in DatagramRecords /\ (Complete(n) <=> Frags[d] = 1)
      BY <1>1, NewIsWellFormed
    <2> HIDE DEF n
    <2>3. Count(datagrams', Completed)
            = IF n \in Completed THEN Count(datagrams, Completed) + 1 ELSE Count(datagrams, Completed)
      BY <1>2, <2>1, <2>2, CountEnds
    <2>4. n \in Completed <=> Frags[d] = 1 BY <2>2 DEF Completed
    <2>5. AnnounceInv' BY <1>3, <2>1, <2>3, <2>4 DEF AnnounceInv
    <2>6. ASSUME NEW x \in DOMAIN datagrams' PROVE WellFormed(datagrams'[x])
      <3>1. <<n>> \in Seq(DatagramRecords) /\ Len(<<n>>) = 1 /\ <<n>>[1] = n BY <2>2
      <3>2. /\ datagrams' \in Seq(DatagramRecords) /\ Len(datagrams') = 1 + Len(datagrams)
            /\ \A j \in 1 .. 1 + Len(datagrams) :
                 datagrams'[j] = IF j <= 1 THEN <<n>>[j] ELSE datagrams[j - 1]
        BY <1>2, <2>1, <3>1, ConcatProperties
      <3>3. x \in 1 .. 1 + Len(datagrams) BY <2>6, <3>2, LenProperties
      <3>4. CASE x <= 1
        <4>1. x = 1 BY <3>3, <3>4
        <4>2. datagrams'[x] = n BY <3>1, <3>2, <3>3, <4>1
        <4> QED BY <2>2, <4>2
      <3>5. CASE ~(x <= 1)
        <4>1. datagrams'[x] = datagrams[x - 1] BY <3>2, <3>3, <3>5
        <4>2. x - 1 \in DOMAIN datagrams BY <1>2, <3>3, <3>5
        <4> QED BY <4>1, <4>2 DEF DatagramInv
      <3> QED BY <3>4, <3>5
    <2>7. DatagramInv' BY <2>6 DEF DatagramInv
    <2> QED BY <2>5, <2>7
  <1>5. CASE ~(Frags[d] = 1 \/ known = {})
    <2>1. datagrams' = [datagrams EXCEPT ![i] = g] /\ posted' = Announce(datagrams[i], g)
      BY <1>5 DEF DispatchPortSMS
    <2>2. i \in 1 .. Len(datagrams) /\ datagrams[i].id = d
      <3>1. known \subseteq Nat /\ known # {} BY <1>2, <1>5
      <3> HIDE DEF known
      <3>2. \E j \in known : \A l \in known : j <= l BY <3>1, Least
      <3>3. i \in known BY <3>2
      <3> QED BY <1>2, <3>3 DEF known
    <2> DEFINE o == datagrams[i]
    <2> HIDE DEF i, k, d
    <2>3. o \in DatagramRecords /\ WellFormed(o)
      BY <1>2, <2>2, ElementOfSeq DEF DatagramInv
    <2>4. WellFormed(g) /\ g \in DatagramRecords /\ (g # o => ~Complete(o))
      BY <1>1, <2>2, <2>3, AddIsWellFormed
    <2>5. posted' = IF Complete(g) /\ o # g THEN Append(posted, "recv") ELSE posted
      BY <2>1 DEF Announce
    <2> HIDE DEF g
    <2>6. Count([datagrams EXCEPT ![i] = g], Completed) =
            IF datagrams[i] \notin Completed /\ g \in Completed THEN Count(datagrams, Completed) + 1
            ELSE IF datagrams[i] \in Completed /\ g \notin Completed THEN Count(datagrams, Completed) - 1
            ELSE Count(datagrams, Completed)
      BY <1>2, <2>2, <2>4, CompletedExcept
    <2>7. (o \in Completed <=> Complete(o)) /\ (g \in Completed <=> Complete(g))
      BY <2>3, <2>4 DEF Completed
    <2>8. AnnounceInv' BY <1>3, <2>1, <2>4, <2>5, <2>6, <2>7 DEF AnnounceInv
    <2>9. DatagramInv'
      <3>1. /\ DOMAIN datagrams' = DOMAIN datagrams
            /\ \A x \in DOMAIN datagrams : datagrams'[x] = IF x = i THEN g ELSE datagrams[x]
        BY <2>1
      <3> QED BY <2>4, <3>1 DEF DatagramInv
    <2> QED BY <2>8, <2>9
  <1> QED BY <1>4, <1>5

\* What comes and goes outside a set does not change how often it occurs.
LEMMA MovedCount ==
  ASSUME NEW T, NEW s \in Seq(T), NEW t, NEW S, S \subseteq T, NEW R, R \cap S = {}, Moved(s, t, S)
  PROVE  Count(t, R) = Count(s, R)
  <1>1. PICK q \in {s, Tail(s)} : /\ q = s \/ (s # <<>> /\ Head(s) \in S)
                                  /\ t = q \/ \E x \in S : t = Append(q, x)
    BY DEF Moved
  <1>2. q \in Seq(T) /\ Count(q, R) = Count(s, R)
    <2>1. CASE q = s BY <2>1
    <2>2. CASE s # <<>> /\ Head(s) \in S /\ q = Tail(s)
      <3>1. Tail(s) \in Seq(T) /\ Head(s) \notin R BY <2>2, HeadTailProperties
      <3> QED BY <2>2, <3>1, CountEnds
    <2> QED BY <1>1, <2>1, <2>2
  <1>3. ASSUME NEW x \in S, t = Append(q, x) PROVE Count(t, R) = Count(q, R)
    <2>1. x \in T /\ x \notin R OBVIOUS
    <2> QED BY <1>2, <1>3, <2>1, CountEnds
  <1> QED BY <1>1, <1>2, <1>3

\* Taking a datagram to the inbox: there is a complete one for every message.
LEMMA OnRecvStep ==
  ASSUME IInv, DatagramInv, AnnounceInv, SMS_OnRecvPort
  PROVE  DatagramInv' /\ AnnounceInv'
  <1>1. /\ posted # <<>> /\ Head(posted) = "recv" /\ posted' = Tail(posted)
        /\ datagrams' = IF ToReceive = 0 THEN datagrams ELSE RemoveAt(datagrams, ToReceive)
    BY DEF SMS_OnRecvPort
  <1>2. /\ datagrams \in Seq(DatagramRecords) /\ posted \in Seq(Messages)
        /\ Len(datagrams) \in Nat /\ DOMAIN datagrams = 1 .. Len(datagrams)
    BY LenProperties DEF IInv, TypeInv, TypeOK
  <1>3. Tail(posted) \in Seq(Messages) BY <1>1, <1>2, HeadTailProperties
  <1>4. Count(posted, {"recv"}) = Count(posted', {"recv"}) + 1
        /\ Count(posted', {"recv"}) \in Nat
    BY <1>1, <1>2, <1>3, CountEnds, AtFinite
  <1>5. At(datagrams, Completed) # {}
    <2>1. Count(datagrams, Completed) # 0 BY <1>4 DEF AnnounceInv
    <2> QED BY <2>1, FS_EmptySet DEF Count
  <1> DEFINE c == {i \in DOMAIN datagrams : Complete(datagrams[i])}
             i == ToReceive
  <1>6. c = At(datagrams, Completed)
    <2>1. \A x \in DOMAIN datagrams : datagrams[x] \in DatagramRecords BY <1>2, ElementOfSeq
    <2> QED BY <2>1 DEF At, Completed
  <1>7. i = CHOOSE x \in c : \A y \in c : x <= y BY <1>5, <1>6 DEF ToReceive
  <1>8. c \subseteq Nat BY <1>2
  <1> HIDE DEF c
  <1>9. \E x \in c : \A y \in c : x <= y BY <1>5, <1>6, <1>8, Least
  <1>10. i \in c BY <1>7, <1>9
  <1>11. i \in 1 .. Len(datagrams) /\ datagrams[i] \in Completed
    BY <1>2, <1>6, <1>10 DEF At
  <1> HIDE DEF i
  <1>12. datagrams' = RemoveAt(datagrams, i) BY <1>1, <1>2, <1>11 DEF i
  <1>13. /\ datagrams' \in Seq(DatagramRecords) /\ Len(datagrams') = Len(datagrams) - 1
         /\ \A j \in 1 .. Len(datagrams) - 1 :
              datagrams'[j] = IF j < i THEN datagrams[j] ELSE datagrams[j + 1]
    BY <1>2, <1>11, <1>12, RemoveAtFacts
  <1>14. Without(datagrams', datagrams, i) BY <1>2, <1>11, <1>13 DEF Without
  <1>15. Count(datagrams, Completed) = Count(datagrams', Completed) + 1
    BY <1>2, <1>11, <1>13, <1>14, CountWithout
  <1>16. AnnounceInv'
    <2>1. Count(datagrams', Completed) \in Nat BY <1>13, AtFinite
    <2> QED BY <1>4, <1>15, <2>1 DEF AnnounceInv
  <1>17. ASSUME NEW j \in DOMAIN datagrams' PROVE WellFormed(datagrams'[j])
    <2>1. j \in 1 .. Len(datagrams) - 1 BY <1>13, <1>17, LenProperties
    <2>2. j \in DOMAIN datagrams /\ j + 1 \in DOMAIN datagrams BY <1>2, <2>1
    <2> QED BY <1>13, <2>1, <2>2 DEF DatagramInv
  <1>18. DatagramInv' BY <1>17 DEF DatagramInv
  <1> QED BY <1>16, <1>18

\* Both hold at first and are kept by every step.
LEMMA DatagramStep ==
  /\ Init => DatagramInv /\ AnnounceInv
  /\ IInv /\ DatagramInv /\ AnnounceInv /\ [Next]_vars => DatagramInv' /\ AnnounceInv'
  <1>1. ASSUME NEW S PROVE Count(<<>>, S) = 0
    <2>1. At(<<>>, S) = {} BY DEF At
    <2> QED BY <2>1, FS_EmptySet DEF Count
  <1>2. Init => DatagramInv /\ AnnounceInv
    BY <1>1 DEF Init, DispatchInit, DatagramInv, AnnounceInv
  <1>3. ASSUME IInv, DatagramInv, AnnounceInv, [Next]_vars PROVE DatagramInv' /\ AnnounceInv'
    <2>1. posted \in Seq(Messages) BY <1>3 DEF IInv, TypeInv, TypeOK
    <2>2. CASE UNCHANGED <<datagrams, posted>> BY <1>3, <2>2 DEF DatagramInv, AnnounceInv
    <2>3. ASSUME NEW m \in Incoming, NEW i \in Indexes, WM_CMTI_COMING(m, i)
          PROVE DatagramInv' /\ AnnounceInv'
      BY <2>2, <2>3 DEF WM_CMTI_COMING
    <2>4. ASSUME NEW m \in Incoming, WM_CMT_COMING(m) PROVE DatagramInv' /\ AnnounceInv'
      <3>1. Datagram[m] # NULL /\ DispatchPortSMS(m) BY <2>4, ArrivalAssumption DEF WM_CMT_COMING
      <3> QED BY <1>3, <3>1, DispatchPortStep
    <2>5. CASE ReadAnswered
      <3> DEFINE m == sim[Head(requests).arg]
      <3>1. UNCHANGED <<datagrams, posted>> \/ (m # NULL /\ Datagram[m] # NULL /\ DispatchPortSMS(m))
        BY <2>5 DEF ReadAnswered, App_SMSReceive
      <3>2. m \in Incoming \cup {NULL}
        <4>1. /\ requests # <<>> /\ Head(requests).cmd = "read" /\ requests \in Seq(CommandRecords)
              /\ sim \in [Indexes -> Incoming \cup {NULL}]
          BY <1>3, <2>5 DEF ReadAnswered, Answers, IInv, TypeInv, TypeOK
        <4>2. Head(requests) \in CommandRecords BY <4>1, HeadTailProperties
        <4>3. Head(requests).arg \in Indexes BY <4>1, <4>2 DEF CommandRecords, Kinds
        <4> QED BY <4>1, <4>3
      <3> HIDE DEF m
      <3> QED BY <1>3, <2>2, <3>1, <3>2, DispatchPortStep
    <2>6. CASE DeleteAnswered BY <2>2, <2>6 DEF DeleteAnswered
    <2>7. CASE SMS_OnRecvPort BY <1>3, <2>7, OnRecvStep
    <2>8. CASE DispatchRestart
      <3>1. datagrams' = <<>> /\ posted' = <<>> BY <2>8 DEF DispatchRestart
      <3> QED BY <1>1, <3>1 DEF DatagramInv, AnnounceInv
    <2>9. CASE Elsewhere
      <3>1. datagrams' = datagrams /\ Moved(posted, posted', SendMessages)
        BY <2>9 DEF Elsewhere, incoming
      <3>2. {"recv"} \cap SendMessages = {} /\ SendMessages \subseteq Messages
        BY DEF SendMessages, Messages
      <3>3. Count(posted', {"recv"}) = Count(posted, {"recv"}) BY <2>1, <3>1, <3>2, MovedCount
      <3> QED BY <1>3, <3>1, <3>3 DEF DatagramInv, AnnounceInv
    <2> QED BY <1>3, <2>3, <2>4, <2>5, <2>6, <2>7, <2>8, <2>9, Steps
  <1> QED BY <1>2, <1>3

\* The datagrams are well formed and announced in every reachable state.
LEMMA DatagramsCorrect == Spec => [](DatagramInv /\ AnnounceInv)
  BY Invariant, DatagramStep, PTL DEF Spec

\* A datagram counts its fragments once each, so that the assertion of
\* SMSDISPATCH_Recv holds, and when the first fragment came first every fragment
\* is in its own place; for any datagrams, duplicates and order of arrival.
THEOREM FragmentsInPlace == Spec => []Reassembled
  <1>1. DatagramInv => Reassembled
    <2> SUFFICES ASSUME DatagramInv, NEW i \in DOMAIN datagrams
                 PROVE  LET g == datagrams[i] IN
                        /\ g.arrived = Cardinality(Filled(g))
                        /\ g.slots[1] = 1 => \A s \in Filled(g) : g.slots[s] = s
      BY DEF Reassembled
    <2> DEFINE g == datagrams[i]
    <2>1. WellFormed(g) BY DEF DatagramInv
    <2> HIDE DEF g
    <2>2. g.arrived = Cardinality(Filled(g)) /\ \A s \in Filled(g) \ {1} : g.slots[s] = s
      BY <2>1 DEF WellFormed
    <2>3. g.slots[1] = 1 => \A s \in Filled(g) : g.slots[s] = s BY <2>2
    <2> QED BY <2>2, <2>3 DEF g
  <1> QED BY <1>1, DatagramsCorrect, PTL

\* There are as many messages to the window of the port as complete datagrams:
\* none is announced twice or forgotten, and none is taken before it is complete.
THEOREM AnnouncementsMatch == Spec => []AnnouncedOnce
  <1>1. IInv /\ AnnounceInv => AnnouncedOnce
    <2> SUFFICES ASSUME IInv, AnnounceInv PROVE AnnouncedOnce OBVIOUS
    <2>1. datagrams \in Seq(DatagramRecords) BY DEF IInv, TypeInv, TypeOK
    <2>2. \A x \in DOMAIN datagrams : datagrams[x] \in DatagramRecords
      BY <2>1, ElementOfSeq, LenProperties
    <2>3. At(datagrams, Completed) = {i \in DOMAIN datagrams : Complete(datagrams[i])}
      BY <2>2 DEF At, Completed
    <2>4. At(posted, {"recv"}) = {i \in DOMAIN posted : posted[i] = "recv"} BY DEF At
    <2> QED BY <2>3, <2>4 DEF AnnounceInv, AnnouncedOnce, Count
  <1> QED BY <1>1, Invariant, DatagramsCorrect, PTL

-----------------------------------------------------------------------------
(* Commands about the SIM.                                                 *)

Memory == {"read", "delete"}

\* The commands in q are about messages on a SIM s, each about another one, and
\* only messages in h are to be deleted.
Safe(q, s, h) ==
  \A i \in DOMAIN q : q[i].cmd \in Memory =>
    /\ s[q[i].arg] # NULL
    /\ q[i].cmd = "delete" => s[q[i].arg] \in h
    /\ \A j \in DOMAIN q : q[j].cmd \in Memory /\ q[j].arg = q[i].arg => j = i

\* No command in q is about place i.
NotAbout(q, i) == \A j \in DOMAIN q : q[j].cmd \in Memory => q[j].arg # i

\* The ring r has the indexes of the reads in q, in the same order.
Aligned(q, r) ==
  \E p \in [DOMAIN r -> DOMAIN q] :
    /\ \A k \in DOMAIN r : q[p[k]] = Command("read", r[k])
    /\ \A k, l \in DOMAIN r : k < l => p[k] < p[l]
    /\ \A i \in Reads(q) : \E k \in DOMAIN r : p[k] = i

\* A command that is answered.
LEMMA SafeTail ==
  ASSUME NEW q \in Seq(CommandRecords), q # <<>>, NEW s, NEW h, Safe(q, s, h)
  PROVE  /\ Safe(Tail(q), s, h)
         /\ Head(q).cmd \in Memory =>
              /\ NotAbout(Tail(q), Head(q).arg) /\ s[Head(q).arg] # NULL
              /\ Head(q).cmd = "delete" => s[Head(q).arg] \in h
  <1> DEFINE t == Tail(q)  n == Len(q)
  <1>1. /\ n \in Nat \ {0} /\ DOMAIN q = 1 .. n /\ DOMAIN t = 1 .. n - 1 /\ q[1] = Head(q)
        /\ \A i \in 1 .. n - 1 : t[i] = q[i + 1]
    BY HeadTailProperties, LenProperties, EmptySeq
  <1> HIDE DEF t, n
  <1>2. \A i \in DOMAIN t : i + 1 \in DOMAIN q /\ i + 1 # 1 /\ t[i] = q[i + 1] BY <1>1
  <1>3. Safe(t, s, h)
    <2> SUFFICES ASSUME NEW i \in DOMAIN t, t[i].cmd \in Memory
                 PROVE  /\ s[t[i].arg] # NULL
                        /\ t[i].cmd = "delete" => s[t[i].arg] \in h
                        /\ \A j \in DOMAIN t : t[j].cmd \in Memory /\ t[j].arg = t[i].arg => j = i
      BY DEF Safe
    <2>1. /\ s[t[i].arg] # NULL /\ (t[i].cmd = "delete" => s[t[i].arg] \in h)
          /\ \A j \in DOMAIN q : q[j].cmd \in Memory /\ q[j].arg = t[i].arg => j = i + 1
      BY <1>2 DEF Safe
    <2>2. ASSUME NEW j \in DOMAIN t, t[j].cmd \in Memory, t[j].arg = t[i].arg PROVE j = i
      <3>1. j + 1 = i + 1 BY <1>2, <2>1, <2>2
      <3> QED BY <1>1, <3>1
    <2> QED BY <2>1, <2>2
  <1>4. ASSUME Head(q).cmd \in Memory
        PROVE  /\ NotAbout(t, Head(q).arg) /\ s[Head(q).arg] # NULL
               /\ Head(q).cmd = "delete" => s[Head(q).arg] \in h
    <2>1. 1 \in DOMAIN q BY <1>1
    <2>2. /\ s[q[1].arg] # NULL /\ (q[1].cmd = "delete" => s[q[1].arg] \in h)
          /\ \A j \in DOMAIN q : q[j].cmd \in Memory /\ q[j].arg = q[1].arg => j = 1
      BY <1>1, <1>4, <2>1 DEF Safe
    <2> QED BY <1>1, <1>2, <2>2 DEF NotAbout
  <1> QED BY <1>3, <1>4 DEF t

\* A command that is given: none is about the same message.
LEMMA SafeAppend ==
  ASSUME NEW q \in Seq(CommandRecords), NEW s, NEW h, Safe(q, s, h), NEW c \in CommandRecords,
         c.cmd \in Memory => /\ s[c.arg] # NULL /\ NotAbout(q, c.arg)
                             /\ c.cmd = "delete" => s[c.arg] \in h
  PROVE  Safe(Append(q, c), s, h)
  <1> DEFINE t == Append(q, c)  n == Len(q)
  <1>1. /\ n \in Nat /\ DOMAIN q = 1 .. n /\ DOMAIN t = 1 .. n + 1 /\ t[n + 1] = c
        /\ \A i \in 1 .. n : t[i] = q[i]
    BY AppendProperties, LenProperties
  <1> HIDE DEF t, n
  <1> SUFFICES ASSUME NEW i \in DOMAIN t, t[i].cmd \in Memory
               PROVE  /\ s[t[i].arg] # NULL
                      /\ t[i].cmd = "delete" => s[t[i].arg] \in h
                      /\ \A j \in DOMAIN t : t[j].cmd \in Memory /\ t[j].arg = t[i].arg => j = i
    BY DEF Safe, t
  <1>2. CASE i \in DOMAIN q
    <2>1. t[i] = q[i] BY <1>1, <1>2
    <2>2. /\ s[t[i].arg] # NULL /\ (t[i].cmd = "delete" => s[t[i].arg] \in h)
          /\ \A j \in DOMAIN q : q[j].cmd \in Memory /\ q[j].arg = t[i].arg => j = i
      BY <1>2, <2>1 DEF Safe
    <2>3. ASSUME NEW j \in DOMAIN t, t[j].cmd \in Memory, t[j].arg = t[i].arg PROVE j = i
      <3>1. CASE j \in DOMAIN q BY <1>1, <2>2, <2>3, <3>1
      <3>2. CASE j = n + 1
        <4>1. t[j] = c BY <1>1, <3>2
        <4>2. NotAbout(q, c.arg) BY <2>3, <4>1
        <4> QED BY <1>2, <2>1, <2>3, <4>1, <4>2 DEF NotAbout
      <3> QED BY <1>1, <3>1, <3>2
    <2> QED BY <2>2, <2>3
  <1>3. CASE i = n + 1
    <2>1. t[i] = c BY <1>1, <1>3
    <2>2. NotAbout(q, c.arg) /\ s[c.arg] # NULL /\ (c.cmd = "delete" => s[c.arg] \in h) BY <2>1
    <2>3. ASSUME NEW j \in DOMAIN t, t[j].cmd \in Memory, t[j].arg = t[i].arg PROVE j = i
      <3>1. j \notin DOMAIN q BY <1>1, <2>1, <2>2, <2>3 DEF NotAbout
      <3> QED BY <1>1, <1>3, <3>1
    <2> QED BY <2>1, <2>2, <2>3
  <1> QED BY <1>1, <1>2, <1>3

\* A place that no command is about changes, and more may be deleted.
LEMMA SafeChange ==
  ASSUME NEW q, NEW s \in [Indexes -> Incoming \cup {NULL}], NEW h, Safe(q, s, h),
         NEW i \in Indexes, NotAbout(q, i), NEW x, NEW g, h \subseteq g
  PROVE  Safe(q, s, g) /\ Safe(q, [s EXCEPT ![i] = x], g)
  <1>1. Safe(q, s, g) BY DEF Safe
  <1>2. \A j \in DOMAIN q : q[j].cmd \in Memory => [s EXCEPT ![i] = x][q[j].arg] = s[q[j].arg]
    BY DEF NotAbout
  <1>3. Safe(q, [s EXCEPT ![i] = x], g) BY <1>1, <1>2 DEF Safe
  <1> QED BY <1>1, <1>3

\* No command is about a place that is free.
LEMMA FreeIsNotAbout ==
  ASSUME NEW q, NEW s, NEW h, Safe(q, s, h), NEW i, s[i] = NULL
  PROVE  NotAbout(q, i)
  BY DEF Safe, NotAbout

\* A command that is given, with its index in the ring when it is a read.
LEMMA AlignedAppend ==
  ASSUME NEW q \in Seq(CommandRecords), NEW r \in Seq(Indexes), Aligned(q, r),
         NEW c \in CommandRecords
  PROVE  /\ c.cmd # "read" => Aligned(Append(q, c), r)
         /\ \A i \in Indexes : c = Command("read", i) => Aligned(Append(q, c), Append(r, i))
  <1> DEFINE t == Append(q, c)  n == Len(q)  m == Len(r)
  <1>1. /\ n \in Nat /\ DOMAIN q = 1 .. n /\ DOMAIN t = 1 .. n + 1 /\ t[n + 1] = c
        /\ \A i \in 1 .. n : t[i] = q[i]
    BY AppendProperties, LenProperties
  <1>2. m \in Nat /\ DOMAIN r = 1 .. m BY LenProperties
  <1>3. PICK p \in [DOMAIN r -> DOMAIN q] :
           /\ \A k \in DOMAIN r : q[p[k]] = Command("read", r[k])
           /\ \A k, l \in DOMAIN r : k < l => p[k] < p[l]
           /\ \A i \in Reads(q) : \E k \in DOMAIN r : p[k] = i
    BY DEF Aligned
  <1> HIDE DEF t, n, m
  <1>4. \A k \in DOMAIN r : p[k] \in 1 .. n /\ t[p[k]] = q[p[k]] BY <1>1, <1>3
  <1>5. ASSUME c.cmd # "read" PROVE Aligned(t, r)
    <2>1. p \in [DOMAIN r -> DOMAIN t] BY <1>1, <1>3, <1>4
    <2>2. Reads(t) = Reads(q) BY <1>1, <1>5 DEF Reads
    <2> QED BY <1>3, <1>4, <2>1, <2>2 DEF Aligned
  <1>6. ASSUME NEW i \in Indexes, c = Command("read", i) PROVE Aligned(t, Append(r, i))
    <2> DEFINE a == Append(r, i)
               g == [k \in DOMAIN a |-> IF k = m + 1 THEN n + 1 ELSE p[k]]
    <2>1. DOMAIN a = 1 .. m + 1 /\ a[m + 1] = i /\ \A k \in 1 .. m : a[k] = r[k]
      BY AppendProperties, LenProperties DEF m
    <2> HIDE DEF a
    <2>2. g \in [DOMAIN a -> DOMAIN t]
      <3> SUFFICES ASSUME NEW k \in DOMAIN a PROVE (IF k = m + 1 THEN n + 1 ELSE p[k]) \in DOMAIN t
        OBVIOUS
      <3> QED BY <1>1, <1>2, <1>4, <2>1
    <2>3. g[m + 1] = n + 1 /\ \A k \in DOMAIN r : k \in DOMAIN a /\ k # m + 1 /\ g[k] = p[k]
      BY <1>2, <2>1
    <2>4. \A k \in DOMAIN a : k = m + 1 \/ k \in DOMAIN r BY <1>2, <2>1
    <2> HIDE DEF g
    <2>5. \A k \in DOMAIN a : t[g[k]] = Command("read", a[k])
      BY <1>1, <1>2, <1>3, <1>4, <1>6, <2>1, <2>3, <2>4
    <2>6. \A k, l \in DOMAIN a : k < l => g[k] < g[l]
      <3> SUFFICES ASSUME NEW k \in DOMAIN a, NEW l \in DOMAIN a, k < l PROVE g[k] < g[l]
        OBVIOUS
      <3>1. k \in DOMAIN r BY <1>2, <2>1
      <3>2. g[k] = p[k] /\ p[k] \in 1 .. n BY <1>4, <2>3, <3>1
      <3>3. CASE l \in DOMAIN r BY <1>3, <2>3, <3>1, <3>3
      <3>4. CASE l = m + 1 BY <1>1, <2>3, <3>2, <3>4
      <3> QED BY <2>4, <3>3, <3>4
    <2>7. \A j \in Reads(t) : \E k \in DOMAIN a : g[k] = j
      <3> TAKE j \in Reads(t)
      <3>1. CASE j = n + 1
        <4>1. m + 1 \in DOMAIN a BY <1>2, <2>1
        <4> QED BY <2>3, <3>1, <4>1
      <3>2. CASE j # n + 1
        <4>1. j \in Reads(q) BY <1>1, <3>2 DEF Reads
        <4> QED BY <1>3, <2>3, <4>1
      <3> QED BY <3>1, <3>2
    <2> QED BY <2>2, <2>5, <2>6, <2>7 DEF Aligned, a
  <1> QED BY <1>5, <1>6 DEF t

\* A command that is answered; a read is about the head of the ring.
LEMMA AlignedTail ==
  ASSUME NEW q \in Seq(CommandRecords), q # <<>>, NEW r \in Seq(Indexes), Aligned(q, r)
  PROVE  /\ Head(q).cmd # "read" => Aligned(Tail(q), r)
         /\ Head(q).cmd = "read" =>
              r # <<>> /\ Head(q) = Command("read", Head(r)) /\ Aligned(Tail(q), Tail(r))
  <1> DEFINE t == Tail(q)  n == Len(q)  m == Len(r)
  <1>1. /\ n \in Nat \ {0} /\ DOMAIN q = 1 .. n /\ DOMAIN t = 1 .. n - 1 /\ q[1] = Head(q)
        /\ \A i \in 1 .. n - 1 : t[i] = q[i + 1]
    BY HeadTailProperties, LenProperties, EmptySeq
  <1>2. m \in Nat /\ DOMAIN r = 1 .. m BY LenProperties
  <1>3. PICK p \in [DOMAIN r -> DOMAIN q] :
           /\ \A k \in DOMAIN r : q[p[k]] = Command("read", r[k])
           /\ \A k, l \in DOMAIN r : k < l => p[k] < p[l]
           /\ \A i \in Reads(q) : \E k \in DOMAIN r : p[k] = i
    BY DEF Aligned
  <1> HIDE DEF t, n, m
  <1>4. \A i \in Reads(t) : i \in Nat /\ i + 1 \in Reads(q) /\ i + 1 # 1 BY <1>1 DEF Reads
  <1>5. \A i : Command("read", i).cmd = "read" BY DEF Command
  <1>6. \A k \in DOMAIN r : p[k] \in 1 .. n BY <1>1, <1>3
  <1>7. ASSUME Head(q).cmd # "read" PROVE Aligned(t, r)
    <2>1. \A k \in DOMAIN r : p[k] # 1 BY <1>1, <1>3, <1>5, <1>7
    <2> DEFINE g == [k \in DOMAIN r |-> p[k] - 1]
    <2>2. \A k \in DOMAIN r : p[k] - 1 \in DOMAIN t /\ t[p[k] - 1] = q[p[k]]
      <3> TAKE k \in DOMAIN r
      <3>1. p[k] \in 1 .. n /\ p[k] # 1 BY <1>6, <2>1
      <3>2. p[k] - 1 \in 1 .. n - 1 /\ (p[k] - 1) + 1 = p[k] BY <1>1, <3>1
      <3> QED BY <1>1, <3>2
    <2>3. g \in [DOMAIN r -> DOMAIN t] BY <2>2
    <2>4. \A k \in DOMAIN r : t[g[k]] = Command("read", r[k]) BY <1>3, <2>2
    <2>5. \A k, l \in DOMAIN r : k < l => g[k] < g[l] BY <1>1, <1>3, <1>6
    <2>6. ASSUME NEW i \in Reads(t) PROVE \E k \in DOMAIN r : g[k] = i
      <3>1. PICK k \in DOMAIN r : p[k] = i + 1 BY <1>3, <1>4
      <3>2. g[k] = i BY <1>4, <3>1
      <3> QED BY <3>2
    <2> HIDE DEF g
    <2> QED BY <2>3, <2>4, <2>5, <2>6 DEF Aligned
  <1>8. ASSUME Head(q).cmd = "read"
        PROVE  r # <<>> /\ Head(q) = Command("read", Head(r)) /\ Aligned(t, Tail(r))
    <2>1. 1 \in Reads(q) BY <1>1, <1>8 DEF Reads
    <2>2. PICK k \in DOMAIN r : p[k] = 1 BY <1>3, <2>1
    <2>3. 1 \in DOMAIN r /\ r # <<>> BY <1>2, <2>2
    <2>4. k = 1
      <3>1. ~(1 < k) BY <1>3, <1>6, <2>2, <2>3
      <3> QED BY <1>2, <3>1
    <2>5. Head(q) = Command("read", Head(r)) BY <1>1, <1>3, <2>2, <2>4
    <2> DEFINE a == Tail(r)  g == [l \in DOMAIN a |-> p[l + 1] - 1]
    <2>6. DOMAIN a = 1 .. m - 1 /\ \A l \in 1 .. m - 1 : a[l] = r[l + 1]
      BY <2>3, HeadTailProperties, LenProperties DEF m
    <2> HIDE DEF a
    <2>7. \A l \in DOMAIN a : /\ l + 1 \in DOMAIN r /\ a[l] = r[l + 1] /\ p[l + 1] > 1
                              /\ p[l + 1] \in 1 .. n
      <3> TAKE l \in DOMAIN a
      <3>1. l + 1 \in DOMAIN r /\ 1 < l + 1 /\ a[l] = r[l + 1] BY <1>2, <2>6
      <3>2. p[1] < p[l + 1] BY <1>3, <2>3, <3>1
      <3> QED BY <1>6, <2>2, <2>4, <3>1, <3>2
    <2>8. \A l \in DOMAIN a : p[l + 1] - 1 \in DOMAIN t /\ t[p[l + 1] - 1] = q[p[l + 1]]
      <3> TAKE l \in DOMAIN a
      <3>1. p[l + 1] - 1 \in 1 .. n - 1 /\ (p[l + 1] - 1) + 1 = p[l + 1] BY <1>1, <2>7
      <3> QED BY <1>1, <3>1
    <2>9. g \in [DOMAIN a -> DOMAIN t] BY <2>8
    <2>10. \A l \in DOMAIN a : t[g[l]] = Command("read", a[l]) BY <1>3, <2>7, <2>8
    <2>11. \A k1, l \in DOMAIN a : k1 < l => g[k1] < g[l]
      <3> SUFFICES ASSUME NEW k1 \in DOMAIN a, NEW l \in DOMAIN a, k1 < l PROVE g[k1] < g[l]
        OBVIOUS
      <3>1. k1 + 1 < l + 1 BY <1>2, <2>6
      <3>2. p[k1 + 1] < p[l + 1] BY <1>3, <2>7, <3>1
      <3> QED BY <1>1, <2>7, <3>2
    <2>12. ASSUME NEW i \in Reads(t) PROVE \E l \in DOMAIN a : g[l] = i
      <3>1. PICK l \in DOMAIN r : p[l] = i + 1 BY <1>3, <1>4
      <3>2. l # 1 BY <1>4, <2>2, <2>4, <3>1
      <3>3. l - 1 \in DOMAIN a /\ (l - 1) + 1 = l BY <1>2, <2>6, <3>2
      <3>4. g[l - 1] = i BY <1>4, <3>1, <3>3
      <3> QED BY <3>3, <3>4
    <2> HIDE DEF g
    <2>13. Aligned(t, a) BY <2>9, <2>10, <2>11, <2>12 DEF Aligned
    <2> QED BY <2>3, <2>5, <2>13 DEF a
  <1> QED BY <1>7, <1>8 DEF t

-----------------------------------------------------------------------------
(* No message is deleted unread.                                           *)

OnSim == Safe(requests, sim, handed \cup spilled)
InRing == Aligned(requests, g_stQueue)
UnreadInv == OnSim /\ InRing /\ NothingDeletedUnread

\* What there is on the SIM.
LEMMA MemoryFacts ==
  /\ SendCommands \subseteq CommandRecords /\ \A c \in SendCommands : c.cmd \notin Memory
  /\ \A i \in Indexes : /\ Command("read", i) \in CommandRecords /\ Command("read", i).cmd = "read"
                        /\ Command("delete", i) \in CommandRecords /\ Command("delete", i).cmd = "delete"
                        /\ Command("read", i).arg = i /\ Command("delete", i).arg = i
  /\ \A c \in CommandRecords : c.cmd \in Memory => c.arg \in Indexes
  /\ "read" \in Memory /\ "delete" \in Memory
  BY DEF SendCommands, CommandRecords, Memory, Kinds, Command

\* An empty ring goes with no commands.
LEMMA AlignedEmpty == Aligned(<<>>, <<>>)
  <1> DEFINE p == [k \in DOMAIN <<>> |-> k]
  <1>1. p \in [DOMAIN <<>> -> DOMAIN <<>>] OBVIOUS
  <1>2. DOMAIN <<>> = {} OBVIOUS
  <1>3. Reads(<<>>) = {} BY <1>2 DEF Reads
  <1> HIDE DEF p
  <1> QED BY <1>1, <1>2, <1>3 DEF Aligned

\* A send that is answered and one that is given change nothing on the SIM.
LEMMA MovedSafe ==
  ASSUME NEW q \in Seq(CommandRecords), NEW t, Moved(q, t, SendCommands),
         NEW s, NEW h, Safe(q, s, h), NEW r \in Seq(Indexes), Aligned(q, r)
  PROVE  Safe(t, s, h) /\ Aligned(t, r)
  <1>1. PICK u \in {q, Tail(q)} : /\ u = q \/ (q # <<>> /\ Head(q) \in SendCommands)
                                  /\ t = u \/ \E x \in SendCommands : t = Append(u, x)
    BY DEF Moved
  <1>2. u \in Seq(CommandRecords) /\ Safe(u, s, h) /\ Aligned(u, r)
    <2>1. CASE u = q BY <2>1
    <2>2. CASE q # <<>> /\ Head(q) \in SendCommands /\ u = Tail(q)
      <3>1. u \in Seq(CommandRecords) BY <2>2, HeadTailProperties
      <3>2. Head(q).cmd # "read" BY <2>2, MemoryFacts
      <3> QED BY <2>2, <3>1, <3>2, SafeTail, AlignedTail
    <2> QED BY <1>1, <2>1, <2>2
  <1>3. ASSUME NEW x \in SendCommands, t = Append(u, x) PROVE Safe(t, s, h) /\ Aligned(t, r)
    <2>1. x \in CommandRecords /\ x.cmd \notin Memory /\ x.cmd # "read" BY MemoryFacts
    <2>2. Safe(Append(u, x), s, h) BY <1>2, <2>1, SafeAppend
    <2>3. Aligned(Append(u, x), r) BY <1>2, <2>1, AlignedAppend
    <2> QED BY <1>3, <2>2, <2>3
  <1> QED BY <1>1, <1>2, <1>3

\* A message that is announced: its place was free, so that no command is about
\* it; it is read, or may be deleted because the ring is full.
LEMMA AnnouncedStep ==
  ASSUME "read" \notin Refusals, IInv, UnreadInv,
         NEW m \in Incoming, NEW i \in Indexes, WM_CMTI_COMING(m, i)
  PROVE  UnreadInv'
  <1>1. /\ requests \in Seq(CommandRecords) /\ g_stQueue \in Seq(Indexes)
        /\ sim \in [Indexes -> Incoming \cup {NULL}]
    BY DEF IInv, TypeInv, TypeOK
  <1>2. /\ sim[i] = NULL /\ m # NULL /\ sim' = [sim EXCEPT ![i] = m] /\ sim'[i] = m
        /\ toCome' = toCome \ {m} /\ handed' = handed /\ spilled \subseteq spilled'
    BY <1>1, NullAssumption DEF WM_CMTI_COMING
  <1>3. NotAbout(requests, i) BY <1>2, FreeIsNotAbout DEF UnreadInv, OnSim
  <1>4. Safe(requests, sim', handed' \cup spilled')
    <2>1. handed \cup spilled \subseteq handed' \cup spilled' BY <1>2
    <2> QED BY <1>1, <1>2, <1>3, <2>1, SafeChange DEF UnreadInv, OnSim
  <1>5. NothingDeletedUnread'
    <2> SUFFICES ASSUME NEW x \in Incoming, x \notin toCome', x \notin handed, x \notin spilled'
                 PROVE  \E j \in Indexes : sim'[j] = x /\ x # NULL
      BY <1>2 DEF NothingDeletedUnread
    <2>1. CASE x = m BY <1>2, <2>1
    <2>2. CASE x # m
      <3>1. x \notin toCome /\ x \notin spilled BY <1>2, <2>2
      <3>2. PICK j \in Indexes : sim[j] = x /\ x # NULL
        BY <3>1 DEF UnreadInv, NothingDeletedUnread
      <3>3. j # i BY <1>2, <3>2
      <3> QED BY <1>1, <1>2, <3>2, <3>3
    <2> QED BY <2>1, <2>2
  <1>6. CASE Full
    <2> DEFINE c == Command("delete", i)
    <2>1. /\ requests' = requests \/ requests' = Append(requests, c)
          /\ spilled' = spilled \cup {m} /\ g_stQueue' = g_stQueue
      BY <1>6 DEF WM_CMTI_COMING, Given
    <2>2. c \in CommandRecords /\ c.cmd = "delete" /\ c.arg = i BY MemoryFacts
    <2> HIDE DEF c
    <2>3. sim'[c.arg] # NULL /\ NotAbout(requests, c.arg) /\ sim'[c.arg] \in handed' \cup spilled'
      BY <1>2, <1>3, <2>1, <2>2
    <2>4. Safe(Append(requests, c), sim', handed' \cup spilled') BY <1>1, <1>4, <2>2, <2>3, SafeAppend
    <2>5. c.cmd # "read" BY <2>2
    <2>6. Aligned(Append(requests, c), g_stQueue)
      BY <1>1, <2>2, <2>5, AlignedAppend DEF UnreadInv, InRing
    <2>7. OnSim' BY <1>4, <2>1, <2>4 DEF OnSim
    <2>8. InRing' BY <2>1, <2>6 DEF InRing, UnreadInv
    <2> QED BY <1>5, <2>7, <2>8 DEF UnreadInv
  <1>7. CASE ~Full
    <2> DEFINE c == Command("read", i)
    <2>1. requests' = Append(requests, c) /\ g_stQueue' = Append(g_stQueue, i)
      BY <1>7 DEF WM_CMTI_COMING, Given, Outcomes
    <2>2. c \in CommandRecords /\ c.cmd = "read" /\ c.arg = i BY MemoryFacts
    <2>3. Aligned(Append(requests, c), Append(g_stQueue, i))
      BY <1>1, <2>2, AlignedAppend DEF UnreadInv, InRing
    <2> HIDE DEF c
    <2>4. sim'[c.arg] # NULL /\ NotAbout(requests, c.arg) /\ c.cmd # "delete"
      BY <1>2, <1>3, <2>2
    <2>5. Safe(Append(requests, c), sim', handed' \cup spilled') BY <1>1, <1>4, <2>2, <2>4, SafeAppend
    <2>6. OnSim' BY <2>1, <2>5 DEF OnSim
    <2>7. InRing' BY <2>1, <2>3 DEF InRing
    <2> QED BY <1>5, <2>6, <2>7 DEF UnreadInv
  <1> QED BY <1>6, <1>7

\* A read is answered: it is about the head of the ring, and the only command
\* about that place, so what is deleted is what was handed over.
LEMMA ReadUnread ==
  ASSUME "read" \notin Failures, IInv, UnreadInv, ReadAnswered
  PROVE  UnreadInv'
  <1> DEFINE at == Head(requests).arg  m == sim[at]  q == Tail(requests)
             c == Command("delete", Oldest)
  <1>1. /\ requests \in Seq(CommandRecords) /\ g_stQueue \in Seq(Indexes)
        /\ sim \in [Indexes -> Incoming \cup {NULL}]
        /\ requests # <<>> /\ Head(requests).cmd = "read"
        /\ UNCHANGED <<toCome, sim, spilled>>
    BY DEF IInv, TypeInv, TypeOK, ReadAnswered, Answers
  <1>2. q \in Seq(CommandRecords) /\ Head(requests) \in CommandRecords
    BY <1>1, HeadTailProperties
  <1>3. /\ Safe(q, sim, handed \cup spilled) /\ NotAbout(q, at) /\ m # NULL
    BY <1>1, SafeTail, MemoryFacts DEF UnreadInv, OnSim
  <1>4. /\ g_stQueue # <<>> /\ Head(requests) = Command("read", Head(g_stQueue))
        /\ Aligned(q, Tail(g_stQueue))
    BY <1>1, AlignedTail DEF UnreadInv, InRing
  <1>5. Oldest = at /\ at \in Indexes
    <2>1. Head(g_stQueue) \in Indexes BY <1>1, <1>4, HeadTailProperties
    <2> QED BY <1>4, <2>1, MemoryFacts DEF Oldest
  <1>6. Tail(g_stQueue) \in Seq(Indexes) BY <1>1, <1>4, HeadTailProperties
  <1>7. /\ g_stQueue' = Tail(g_stQueue) /\ handed \subseteq handed'
        /\ requests' = q \/ (requests' = Append(q, c) /\ m \in handed')
    <2>1. Outcomes("read", Failures) = {TRUE} BY DEF Outcomes
    <2>2. /\ g_stQueue' = RingAfterRead
          /\ IF Datagram[m] = NULL THEN App_SMSReceive(m, Oldest, q)
             ELSE DispatchPortSMS(m) /\ handed' = handed \cup {m} /\ requests' \in Given(q, "delete", Oldest)
      BY <1>3, <2>1 DEF ReadAnswered
    <2> HIDE DEF q, m
    <2>3. CASE App_SMSReceive(m, Oldest, q) BY <2>2, <2>3 DEF App_SMSReceive, RingAfterRead, Given
    <2>4. CASE handed' = handed \cup {m} /\ requests' \in Given(q, "delete", Oldest)
      BY <2>2, <2>4 DEF RingAfterRead, Given
    <2> QED BY <2>2, <2>3, <2>4
  <1>8. c \in CommandRecords /\ c.cmd = "delete" /\ c.arg = at BY <1>5, MemoryFacts
  <1> HIDE DEF q, m, c, at
  <1>9. Safe(q, sim', handed' \cup spilled')
    <2>1. handed \cup spilled \subseteq handed' \cup spilled' BY <1>1, <1>7
    <2> QED BY <1>1, <1>3, <1>5, <2>1, SafeChange
  <1>10. OnSim'
    <2>1. CASE requests' = q BY <1>9, <2>1 DEF OnSim
    <2>2. CASE requests' = Append(q, c) /\ m \in handed'
      <3>1. /\ sim'[c.arg] # NULL /\ NotAbout(q, c.arg)
            /\ sim'[c.arg] \in handed' \cup spilled'
        BY <1>1, <1>3, <1>8, <2>2 DEF m
      <3>2. Safe(Append(q, c), sim', handed' \cup spilled') BY <1>2, <1>8, <1>9, <3>1, SafeAppend
      <3> QED BY <2>2, <3>2 DEF OnSim
    <2> QED BY <1>7, <2>1, <2>2
  <1>11. InRing'
    <2>1. c.cmd # "read" BY <1>8
    <2>2. Aligned(Append(q, c), Tail(g_stQueue)) BY <1>2, <1>4, <1>6, <1>8, <2>1, AlignedAppend
    <2> QED BY <1>4, <1>7, <2>2 DEF InRing
  <1>12. NothingDeletedUnread' BY <1>1, <1>7 DEF UnreadInv, NothingDeletedUnread
  <1> QED BY <1>10, <1>11, <1>12 DEF UnreadInv

\* A delete is answered: what it took off the SIM was handed over.
LEMMA DeleteUnread ==
  ASSUME IInv, UnreadInv, DeleteAnswered
  PROVE  UnreadInv'
  <1> DEFINE at == Head(requests).arg  q == Tail(requests)
  <1>1. /\ requests \in Seq(CommandRecords) /\ g_stQueue \in Seq(Indexes)
        /\ sim \in [Indexes -> Incoming \cup {NULL}]
        /\ requests # <<>> /\ Head(requests).cmd = "delete" /\ requests' = q
        /\ UNCHANGED <<toCome, g_stQueue, handed, spilled>>
        /\ sim' = sim \/ sim' = [sim EXCEPT ![at] = NULL]
    BY DEF IInv, TypeInv, TypeOK, DeleteAnswered, Answers
  <1>2. /\ Safe(q, sim, handed \cup spilled) /\ NotAbout(q, at)
        /\ sim[at] \in handed \cup spilled
    BY <1>1, SafeTail, MemoryFacts DEF UnreadInv, OnSim
  <1>3. Aligned(q, g_stQueue)
    <2>1. Head(requests).cmd # "read" BY <1>1
    <2> QED BY <1>1, <2>1, AlignedTail DEF UnreadInv, InRing
  <1>4. at \in Indexes
    <2>1. Head(requests) \in CommandRecords BY <1>1, HeadTailProperties
    <2> QED BY <1>1, <2>1, MemoryFacts
  <1> HIDE DEF q, at
  <1>5. OnSim'
    <2>1. Safe(q, [sim EXCEPT ![at] = NULL], handed \cup spilled) BY <1>1, <1>2, <1>4, SafeChange
    <2> QED BY <1>1, <1>2, <2>1 DEF OnSim
  <1>6. InRing' BY <1>1, <1>3 DEF InRing
  <1>7. NothingDeletedUnread'
    <2> SUFFICES ASSUME NEW x \in Incoming, x \notin toCome, x \notin handed, x \notin spilled
                 PROVE  \E j \in Indexes : sim'[j] = x /\ x # NULL
      BY <1>1 DEF NothingDeletedUnread
    <2>1. PICK j \in Indexes : sim[j] = x /\ x # NULL BY DEF UnreadInv, NothingDeletedUnread
    <2>2. j # at BY <1>2, <2>1
    <2>3. sim'[j] = sim[j] BY <1>1, <2>2
    <2> QED BY <2>1, <2>3
  <1> QED BY <1>5, <1>6, <1>7 DEF UnreadInv

\* Every step keeps the invariant when reads are neither refused nor fail.
LEMMA UnreadStep ==
  ASSUME "read" \notin Failures \cup Refusals, IInv, UnreadInv, [Next]_vars
  PROVE  UnreadInv'
  <1>1. requests \in Seq(CommandRecords) /\ g_stQueue \in Seq(Indexes)
    BY DEF IInv, TypeInv, TypeOK
  <1>2. CASE Elsewhere
    <2>1. Safe(requests', sim, handed \cup spilled) /\ Aligned(requests', g_stQueue)
      BY <1>1, <1>2, MovedSafe DEF Elsewhere, UnreadInv, OnSim, InRing
    <2> QED BY <1>2, <2>1 DEF Elsewhere, incoming, UnreadInv, OnSim, InRing, NothingDeletedUnread
  <1>3. CASE DispatchRestart
    <2>1. requests' = <<>> /\ g_stQueue' = <<>> /\ UNCHANGED <<toCome, sim, handed, spilled>>
      BY <1>3 DEF DispatchRestart
    <2>2. OnSim' /\ InRing' BY <2>1, AlignedEmpty DEF OnSim, InRing, Safe
    <2> QED BY <2>1, <2>2 DEF UnreadInv, NothingDeletedUnread
  <1>4. ASSUME NEW m \in Incoming, WM_CMT_COMING(m) PROVE UnreadInv'
    <2>1. /\ toCome' = toCome \ {m} /\ handed' = handed \cup {m}
          /\ UNCHANGED <<sim, g_stQueue, spilled, requests>>
      BY <1>4 DEF WM_CMT_COMING
    <2>2. OnSim' BY <2>1 DEF UnreadInv, OnSim, Safe
    <2>3. InRing' /\ NothingDeletedUnread' BY <2>1 DEF UnreadInv, InRing, NothingDeletedUnread
    <2> QED BY <2>2, <2>3 DEF UnreadInv
  <1>5. ASSUME NEW m \in Incoming, NEW i \in Indexes, WM_CMTI_COMING(m, i) PROVE UnreadInv'
    BY <1>5, AnnouncedStep
  <1>6. CASE ReadAnswered BY <1>6, ReadUnread
  <1>7. CASE DeleteAnswered BY <1>7, DeleteUnread
  <1>8. CASE SMS_OnRecvPort
    BY <1>8 DEF SMS_OnRecvPort, UnreadInv, OnSim, InRing, NothingDeletedUnread
  <1> QED BY <1>2, <1>3, <1>4, <1>5, <1>6, <1>7, <1>8, Steps

\* When the modem driver takes every read and every read succeeds, no message is
\* deleted that was not handed over (or found the ring full): whatever arrives
\* and is sent meanwhile, whichever other commands are refused or fail, and
\* across restarts.
THEOREM DeletedWasRead ==
  ASSUME "read" \notin Failures \cup Refusals
  PROVE  Spec => []NothingDeletedUnread
  <1>1. Init => UnreadInv
    <2> SUFFICES ASSUME Init PROVE UnreadInv OBVIOUS
    <2>1. requests = <<>> /\ g_stQueue = <<>> /\ toCome = Incoming BY DEF Init, DispatchInit
    <2>2. OnSim /\ InRing BY <2>1, AlignedEmpty DEF OnSim, InRing, Safe
    <2> QED BY <2>1, <2>2 DEF UnreadInv, NothingDeletedUnread
  <1>2. IInv /\ UnreadInv /\ [Next]_vars => UnreadInv' BY UnreadStep
  <1>3. UnreadInv => NothingDeletedUnread BY DEF UnreadInv
  <1> QED BY <1>1, <1>2, <1>3, Invariant, PTL DEF Spec
=============================================================================
