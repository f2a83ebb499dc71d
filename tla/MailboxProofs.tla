--------------------------- MODULE MailboxProofs ----------------------------
(***************************************************************************)
(* Mailbox, for every capacity, threshold and number of tasks: types, the  *)
(* order and identity of messages (queues are ordered per sender, and no   *)
(* message is in two places), then accounting: which messages hold a       *)
(* permit and which are counted, and what it gives: conservation of        *)
(* permits, exactness of the counter, the bound.  Last, wakeups, which are *)
(* not lost, and the refinement of BoundedMailbox.                         *)
(***************************************************************************)
EXTENDS Mailbox, TLAPS, FiniteSetTheorems

(* The steps of one task, with the choice of its inputs. *)
SenderNext(s) ==
  \/ \E c \in BOOLEAN : TrySend(s, c) \/ Send(s, c)
  \/ SendCancel(s)
  \/ SenderStep(s)
ReceiverNext(r) == BeginReceive(r) \/ RecvCancel(r) \/ ReceiverStep(r)

-----------------------------------------------------------------------------
(* Type correctness *)

(* RemoveAt drops one element and keeps every other. *)
LEMMA RemoveAtProperties ==
  ASSUME NEW S, NEW q \in Seq(S), NEW k \in 1..Len(q)
  PROVE  /\ RemoveAt(q, k) \in Seq(S)
         /\ Len(RemoveAt(q, k)) = Len(q) - 1
         /\ \A i \in 1..Len(q) : i # k =>
              \E j \in 1..Len(RemoveAt(q, k)) : RemoveAt(q, k)[j] = q[i]
  <1> DEFINE a == SubSeq(q, 1, k - 1)
             b == SubSeq(q, k + 1, Len(q))
  <1>1. /\ a \in Seq(S) /\ Len(a) = k - 1
        /\ \A i \in 1..(k - 1) : a[i] = q[i]
    OBVIOUS
  <1>2. /\ b \in Seq(S) /\ Len(b) = Len(q) - k
        /\ \A i \in 1..(Len(q) - k) : b[i] = q[k + i]
    OBVIOUS
  <1>3. RemoveAt(q, k) = a \o b
    BY Zenon DEF RemoveAt
  <1> HIDE DEF a, b
  <1>4. /\ a \o b \in Seq(S)
        /\ Len(a \o b) = Len(a) + Len(b)
        /\ \A i \in 1..(Len(a) + Len(b)) :
             (a \o b)[i] = IF i <= Len(a) THEN a[i] ELSE b[i - Len(a)]
    <2> SUFFICES ASSUME NEW x \in Seq(S), NEW y \in Seq(S)
                 PROVE  /\ x \o y \in Seq(S)
                        /\ Len(x \o y) = Len(x) + Len(y)
                        /\ \A i \in 1..(Len(x) + Len(y)) :
                             (x \o y)[i] = IF i <= Len(x) THEN x[i] ELSE y[i - Len(x)]
      BY <1>1, <1>2, Zenon
    <2> QED OBVIOUS
  <1> DEFINE c == a \o b
  <1>5. c \in Seq(S) /\ Len(c) = Len(q) - 1
    BY <1>1, <1>2, <1>4
  <1>6. ASSUME NEW i \in 1..Len(q), i # k
        PROVE  \E j \in 1..Len(c) : c[j] = q[i]
    <2>1. CASE i < k
      <3>1. i \in 1..Len(c) /\ c[i] = a[i]
        BY <2>1, <1>1, <1>2, <1>4
      <3> QED BY <3>1, <2>1, <1>1
    <2>2. CASE i > k
      <3>1. i - 1 \in 1..Len(c) /\ c[i - 1] = b[i - k]
        BY <2>2, <1>1, <1>2, <1>4
      <3>2. b[i - k] = q[i]
        BY <2>2, <1>2
      <3> QED BY <3>1, <3>2, Zenon
    <2> QED BY <2>1, <2>2, <1>6
  <1> QED BY <1>3, <1>5, <1>6, Zenon

(* The position of a waiting sender is a position of the queue. *)
LEMMA PlaceType ==
  ASSUME TypeOK, WaitInv, NEW s \in Senders, spc[s] = "waiting"
  PROVE  Place(s) \in 1..Len(waitq) /\ waitq[Place(s)] = s
  BY Zenon DEF WaitInv, Place

(* Leaving the queue keeps the other waiting senders in it. *)
LEMMA LeaveWaitqKeeps ==
  ASSUME TypeOK, WaitInv, NEW s \in Senders, spc[s] = "waiting", LeaveWaitq(s)
  PROVE  /\ waitq' \in Seq(Senders)
         /\ \A t \in Senders \ {s} :
              spc[t] = "waiting" => \E i \in 1..Len(waitq') : waitq'[i] = t
  <1>1. waitq \in Seq(Senders)
    BY Zenon DEF TypeOK
  <1>2. Place(s) \in 1..Len(waitq) /\ waitq[Place(s)] = s
    BY PlaceType, Zenon
  <1>3. ASSUME NEW t \in Senders \ {s}, spc[t] = "waiting"
        PROVE  \E i \in 1..Len(waitq) : i # Place(s) /\ waitq[i] = t
    BY <1>2, <1>3, Zenon DEF WaitInv
  <1> QED BY <1>1, <1>2, <1>3, RemoveAtProperties DEF LeaveWaitq

(* What a receiver holds is finite, so that its Cardinality is a number. *)
FiniteTaken == \A r \in Receivers : IsFiniteSet(taken[r])
TypeInv == TypeOK /\ WaitInv /\ FiniteTaken

(* The initial state is typed. *)
LEMMA InitTypeInv == Init => TypeInv
  <1> SUFFICES ASSUME Init PROVE TypeInv
    BY Zenon
  <1>1. TypeOK
    <2>1. permits \in Nat
      BY MailboxAssumption, Zenon DEF Init
    <2>2. last \in [Senders -> [BOOLEAN -> 0..MaxSends]] /\ sent \in [Senders -> 0..MaxSends]
      BY MailboxAssumption DEF Init
    <2>3. /\ waitq \in Seq(Senders)
          /\ queue \in Seq(Message) /\ critical_queue \in Seq(Message)
      BY DEF Init
    <2>4. spc \in [Senders -> SenderPC] /\ rpc \in [Receivers -> ReceiverPC]
      BY Zenon DEF Init, SenderPC, ReceiverPC
    <2>5. /\ critical \in [Senders -> BOOLEAN] /\ seen \in [Senders -> Int]
      BY DEF Init
    <2>6. taken \in [Receivers -> SUBSET Message] /\ size \in Int
      BY DEF Init
    <2>7. /\ backpressure \in BOOLEAN
          /\ enabled \subseteq Receivers /\ notified \subseteq enabled
          /\ op \in [Receivers -> {"none", "try_recv", "recv", "clear"}]
      BY Zenon DEF Init
    <2> QED BY <2>1, <2>2, <2>3, <2>4, <2>5, <2>6, <2>7, Zenon DEF TypeOK
  <1>2. WaitInv
    BY Zenon DEF Init, WaitInv
  <1>3. FiniteTaken
    BY FS_EmptySet, Zenon DEF Init, FiniteTaken
  <1> QED BY <1>1, <1>2, <1>3, Zenon DEF TypeInv

(* Every step of a sender keeps the types; a permit is taken only when there
   is one. *)
LEMMA SenderTypeInv ==
  ASSUME TypeInv, NEW s \in Senders, SenderNext(s)
  PROVE  TypeInv'
  <1> USE MailboxAssumption
  <1> USE DEF SenderGoto, notify, sendLocals, receiverVars, recvLocals
  <1>t. TypeOK /\ WaitInv /\ FiniteTaken
    BY Zenon DEF TypeInv
  <1>w. waitq \in Seq(Senders) /\ Len(waitq) \in Nat /\ permits \in Nat /\ size \in Int
    BY <1>t DEF TypeOK
  <1>p. spc \in [Senders -> SenderPC]
    BY <1>t, Zenon DEF TypeOK
  <1>1. ASSUME NEW c \in BOOLEAN, TrySend(s, c) \/ Send(s, c) PROVE TypeInv'
    <2>1. Offer(s, c)
      BY <1>1, Zenon DEF TrySend, Send
    <2>a. sent' \in [Senders -> 0..MaxSends] /\ critical' \in [Senders -> BOOLEAN]
      BY <1>t, <2>1 DEF Offer, TypeOK
    <2>b. ASSUME permits' \in Nat, waitq' \in Seq(Senders), spc' \in [Senders -> SenderPC]
          PROVE  TypeOK' /\ FiniteTaken'
      BY <1>t, <2>1, <2>a, <2>b, Zenon DEF Offer, TypeOK, FiniteTaken
    <2>2. CASE AcquireFree(s)
      <3>1. permits' \in Nat
        BY <1>w, <2>2 DEF AcquireFree, PermitFree
      <3>2. spc' \in [Senders -> SenderPC] /\ WaitInv'
        BY <1>t, <1>p, <2>2, Zenon DEF AcquireFree, WaitInv, SenderPC
      <3> QED BY <1>w, <2>2, <2>b, <3>1, <3>2, Zenon DEF AcquireFree, TypeInv
    <2>3. CASE UNCHANGED <<permits, waitq, spc>>
      BY <1>t, <1>w, <1>p, <2>3, <2>b, Zenon DEF WaitInv, TypeInv
    <2>4. CASE waitq' = Append(waitq, s) /\ SenderGoto(s, "waiting") /\ UNCHANGED permits
      <3>1. waitq' \in Seq(Senders) /\ spc' \in [Senders -> SenderPC]
        BY <1>w, <1>p, <2>4 DEF SenderPC
      <3>2. Len(waitq') = Len(waitq) + 1 /\ waitq'[Len(waitq) + 1] = s
        BY <1>w, <2>4
      <3>3. \A i \in 1..Len(waitq) : waitq'[i] = waitq[i]
        BY <1>w, <2>4
      <3>4. ASSUME NEW t \in Senders, spc'[t] = "waiting"
            PROVE  \E i \in 1..Len(waitq') : waitq'[i] = t
        <4>1. CASE t = s
          BY <1>w, <4>1, <3>2
        <4>2. CASE t # s
          <5>1. spc[t] = "waiting"
            BY <1>p, <4>2, <3>4, <2>4, Zenon
          <5>2. PICK i \in 1..Len(waitq) : waitq[i] = t
            BY <1>t, <5>1, Zenon DEF WaitInv
          <5>3. i \in 1..Len(waitq') /\ waitq'[i] = t
            BY <1>w, <5>2, <3>2, <3>3
          <5> QED BY <5>3, Zenon
        <4> QED BY <4>1, <4>2, Zenon
      <3> QED BY <1>w, <2>4, <2>b, <3>1, <3>4, Zenon DEF WaitInv, TypeInv
    <2> QED BY <1>1, <2>2, <2>3, <2>4, Zenon DEF TrySend, Send
  <1>2. CASE SendCancel(s)
    <2>1. spc[s] = "waiting" /\ LeaveWaitq(s)
      BY <1>2, Zenon DEF SendCancel
    <2>2. WaitInv' /\ waitq' \in Seq(Senders)
      BY <1>t, <1>p, <1>2, <2>1, LeaveWaitqKeeps, Zenon DEF SendCancel, WaitInv
    <2> QED BY <1>t, <1>2, <2>2, Zenon DEF SendCancel, TypeInv, TypeOK, FiniteTaken, SenderPC
  <1>3. CASE SendGranted(s)
    <2>1. spc[s] = "waiting" /\ LeaveWaitq(s) /\ Place(s) \in 1..Len(waitq)
      BY <1>t, <1>3, PlaceType, Zenon DEF SendGranted
    <2>2. WaitInv' /\ waitq' \in Seq(Senders)
      BY <1>t, <1>p, <1>3, <2>1, LeaveWaitqKeeps, Zenon DEF SendGranted, WaitInv
    <2>3. permits' \in Nat
      BY <1>w, <1>3, <2>1 DEF SendGranted
    <2> QED BY <1>t, <1>3, <2>2, <2>3, Zenon DEF SendGranted, TypeInv, TypeOK, FiniteTaken, SenderPC
  <1>4. CASE FetchAdd(s)
    BY <1>t, <1>4 DEF FetchAdd, WaitInv, TypeInv, TypeOK, FiniteTaken, SenderPC
  <1>5. CASE Push(s)
    <2>1. msg(s) \in Message
      BY <1>t, Zenon DEF TypeOK, msg, Message
    <2>2. queue \in Seq(Message) /\ critical_queue \in Seq(Message)
      BY <1>t, Zenon DEF TypeOK
    <2>3. queue' \in Seq(Message)
      <3>1. queue' = queue \/ queue' = Append(queue, msg(s))
        BY <1>5, Zenon DEF Push
      <3> QED BY <2>1, <2>2, <3>1
    <2>4. critical_queue' \in Seq(Message)
      <3>1. critical_queue' = critical_queue \/ critical_queue' = Append(critical_queue, msg(s))
        BY <1>5, Zenon DEF Push
      <3> QED BY <2>1, <2>2, <3>1
    <2>5. permits' \in Nat /\ size' \in Int
      BY <1>w, <1>5 DEF Push
    <2>6. spc' \in [Senders -> SenderPC] /\ WaitInv'
      <3>1. SenderGoto(s, "pushed") \/ SenderGoto(s, "idle")
        BY <1>5, Zenon DEF Push
      <3>2. waitq' = waitq
        BY <1>5, Zenon DEF Push
      <3> QED BY <1>t, <1>p, <3>1, <3>2, Zenon DEF WaitInv, SenderPC
    <2> QED BY <1>t, <1>5, <2>3, <2>4, <2>5, <2>6, Zenon DEF Push, TypeInv, TypeOK, FiniteTaken
  <1>6. CASE StoreBackpressure(s)
    BY <1>t, <1>6, Zenon DEF StoreBackpressure, WaitInv, TypeInv, TypeOK, FiniteTaken, SenderPC
  <1>7. CASE NotifyWaiters(s)
    BY <1>t, <1>7 DEF NotifyWaiters, shared, WaitInv, TypeInv, TypeOK, FiniteTaken, SenderPC
  <1> QED BY <1>1, <1>2, <1>3, <1>4, <1>5, <1>6, <1>7, Zenon DEF SenderNext, SenderStep

(* Every step of a receiver keeps the types. *)
LEMMA ReceiverTypeInv ==
  ASSUME TypeInv, NEW r \in Receivers, ReceiverNext(r)
  PROVE  TypeInv'
  <1> USE MailboxAssumption
  <1> USE DEF ReceiverGoto, notify, recvLocals, senderVars, sendLocals, TypeInv
  <1>t. TypeOK /\ WaitInv /\ FiniteTaken
    BY Zenon
  <1>u. ASSUME UNCHANGED <<waitq, senderVars>> PROVE WaitInv'
    BY <1>t, <1>u, Zenon DEF WaitInv
  <1>1. CASE TryRecv(r)
    BY <1>t, <1>u, <1>1, Zenon DEF TryRecv, Begin, FirstPop, shared, TypeOK, FiniteTaken, ReceiverPC
  <1>2. CASE Recv(r) \/ RecvWake(r)
    BY <1>t, <1>u, <1>2, Zenon
    DEF Recv, RecvWake, Begin, EnableNotified, FirstPop, shared, TypeOK, FiniteTaken, ReceiverPC
  <1>3. CASE Clear(r)
    BY <1>t, <1>u, <1>3, Zenon DEF Clear, Begin, shared, TypeOK, FiniteTaken, ReceiverPC
  <1>4. CASE RecvCancel(r)
    BY <1>t, <1>u, <1>4, Zenon DEF RecvCancel, Return, DropNotified, shared, TypeOK, FiniteTaken, ReceiverPC
  <1>5. ASSUME NEW q, q \in Seq(Message), q # <<>>, Take(r, Head(q))
        PROVE  /\ taken' \in [Receivers -> SUBSET Message]
               /\ last' \in [Senders -> [BOOLEAN -> 0..MaxSends]]
               /\ op' = op /\ FiniteTaken' /\ Tail(q) \in Seq(Message)
    <2> DEFINE m == Head(q)
    <2>1. m \in Message /\ Tail(q) \in Seq(Message)
      BY <1>5
    <2>2. m.from \in Senders /\ m.seq \in 0..MaxSends /\ InCriticalQueue(m) \in BOOLEAN
      BY <2>1, Zenon DEF Message, InCriticalQueue
    <2> HIDE DEF m
    <2>3. Take(r, m)
      BY <1>5, Zenon DEF m
    <2>4. taken \in [Receivers -> SUBSET Message] /\ last \in [Senders -> [BOOLEAN -> 0..MaxSends]]
      BY <1>t, Zenon DEF TypeOK
    <2>5. taken' \in [Receivers -> SUBSET Message] /\ op' = op
      BY <2>1, <2>3, <2>4, Zenon DEF Take
    <2>6. last' \in [Senders -> [BOOLEAN -> 0..MaxSends]]
      BY <2>2, <2>3, <2>4, Zenon DEF Take
    <2>7. FiniteTaken'
      BY <1>t, <2>3, <2>4, FS_AddElement, Zenon DEF Take, FiniteTaken
    <2> QED BY <2>1, <2>5, <2>6, <2>7, Zenon
  <1>c. critical_queue \in Seq(Message) /\ queue \in Seq(Message) /\ rpc \in [Receivers -> ReceiverPC]
    BY <1>t, Zenon DEF TypeOK
  <1>6. CASE PopCritical(r) \/ ClearCritical(r)
    <2>1. CASE critical_queue # <<>>
      <3>1. Take(r, Head(critical_queue)) /\ critical_queue' = Tail(critical_queue)
        BY <1>6, <2>1, Zenon DEF PopCritical, ClearCritical
      <3>2. rpc' \in [Receivers -> ReceiverPC]
        BY <1>c, <1>6, <2>1, Zenon DEF PopCritical, ClearCritical, ReceiverPC
      <3> QED BY <1>t, <1>u, <1>c, <1>5, <1>6, <2>1, <3>1, <3>2, Zenon DEF PopCritical, ClearCritical, TypeOK
    <2>2. CASE critical_queue = <<>>
      BY <1>t, <1>u, <1>6, <2>2, Zenon DEF PopCritical, ClearCritical, TypeOK, FiniteTaken, ReceiverPC
    <2> QED BY <2>1, <2>2, Zenon
  <1>7. CASE PopNormal(r) \/ ClearNormal(r)
    <2>1. CASE queue # <<>>
      <3>1. Take(r, Head(queue)) /\ queue' = Tail(queue)
        BY <1>7, <2>1, Zenon DEF PopNormal, ClearNormal
      <3>2. rpc' \in [Receivers -> ReceiverPC]
        BY <1>c, <1>7, <2>1, Zenon DEF PopNormal, ClearNormal, ReceiverPC
      <3> QED BY <1>t, <1>u, <1>c, <1>5, <1>7, <2>1, <3>1, <3>2, Zenon DEF PopNormal, ClearNormal, TypeOK
    <2>2. CASE queue = <<>>
      BY <1>t, <1>u, <1>7, <2>2, Zenon
      DEF PopNormal, ClearNormal, Return, DropNotified, TypeOK, FiniteTaken, ReceiverPC
    <2> QED BY <2>1, <2>2, Zenon
  <1>8. CASE FetchSub(r)
    <2>1. Cardinality(taken[r]) \in Nat
      BY <1>t, FS_CardinalityType, Zenon DEF FiniteTaken
    <2> QED BY <1>t, <1>u, <1>8, <2>1 DEF FetchSub, TypeOK, FiniteTaken, ReceiverPC
  <1>9. CASE AddPermits(r)
    <2>1. Cardinality(taken[r]) \in Nat
      BY <1>t, FS_CardinalityType, Zenon DEF FiniteTaken
    <2>2. FiniteTaken'
      BY <1>t, <1>9, FS_EmptySet, Zenon DEF AddPermits, FiniteTaken, TypeOK
    <2> QED BY <1>t, <1>u, <1>9, <2>1, <2>2 DEF AddPermits, TypeOK, ReceiverPC
  <1>10. CASE CheckBackpressure(r)
    BY <1>t, <1>u, <1>10, Zenon DEF CheckBackpressure, Return, DropNotified, shared, TypeOK, FiniteTaken, ReceiverPC
  <1>11. CASE ResetBackpressure(r)
    BY <1>t, <1>u, <1>11, Zenon DEF ResetBackpressure, Return, DropNotified, TypeOK, FiniteTaken, ReceiverPC
  <1> QED
    BY <1>1, <1>2, <1>3, <1>4, <1>6, <1>7, <1>8, <1>9, <1>10, <1>11, Zenon
    DEF ReceiverNext, BeginReceive, ReceiverStep

(* A step is a step of one sender or of one receiver, or changes nothing. *)
LEMMA StepCases ==
  ASSUME [Next]_vars
  PROVE  \/ \E s \in Senders : SenderNext(s)
         \/ \E r \in Receivers : ReceiverNext(r)
         \/ UNCHANGED vars
  BY Zenon DEF Next, SenderNext, ReceiverNext

(* Every step keeps the types. *)
LEMMA NextTypeInv == TypeInv /\ [Next]_vars => TypeInv'
  <1> SUFFICES ASSUME TypeInv, [Next]_vars PROVE TypeInv'
    BY Zenon
  <1>1. CASE UNCHANGED vars
    BY <1>1, Zenon DEF vars, shared, notify, senderVars, receiverVars, sendLocals, recvLocals,
       TypeInv, TypeOK, WaitInv, FiniteTaken
  <1> QED BY <1>1, StepCases, SenderTypeInv, ReceiverTypeInv, Zenon

(* The state of the mailbox and of its callers keeps its type; in particular
   the semaphore never goes below zero. *)
THEOREM TypeCorrect == Spec => []TypeOK
  <1>1. Spec => []TypeInv
    BY InitTypeInv, NextTypeInv, PTL DEF Spec
  <1>2. TypeInv => TypeOK
    BY Zenon DEF TypeInv
  <1> QED BY <1>1, <1>2, PTL

-----------------------------------------------------------------------------
(* Order *)

Numbering == [Senders -> Int]

(* The fields of a message have their types. *)
LEMMA MessageFields ==
  ASSUME NEW m \in Message
  PROVE  m.from \in Senders /\ m.seq \in Nat /\ m.seq \in Int /\ m.critical \in BOOLEAN
  BY MailboxAssumption DEF Message

(* A sequence that is ordered stays so when its upper bound grows. *)
LEMMA OrderedWiden ==
  ASSUME NEW q \in Seq(Message), NEW c \in BOOLEAN,
         NEW lo \in Numbering, NEW hi \in Numbering, NEW hi2 \in Numbering,
         Ordered(q, c, lo, hi), \A s \in Senders : hi[s] <= hi2[s]
  PROVE  Ordered(q, c, lo, hi2)
  <1>1. \A i \in 1..Len(q) : q[i].from \in Senders /\ q[i].seq \in Int
    <2>1. \A i \in 1..Len(q) : q[i] \in Message
      OBVIOUS
    <2> QED BY <2>1, MessageFields, Zenon
  <1> QED BY <1>1 DEF Ordered, Numbering

(* Appending a message above the upper bound keeps a sequence ordered. *)
LEMMA OrderedAppend ==
  ASSUME NEW q \in Seq(Message), NEW c \in BOOLEAN, NEW m \in Message,
         NEW lo \in Numbering, NEW hi \in Numbering, NEW hi2 \in Numbering,
         Ordered(q, c, lo, hi), \A s \in Senders : hi[s] <= hi2[s],
         InCriticalQueue(m) = c, lo[m.from] <= hi[m.from],
         hi[m.from] < m.seq, m.seq <= hi2[m.from]
  PROVE  Ordered(Append(q, m), c, lo, hi2)
  <1> DEFINE a == Append(q, m)
  <1>1. /\ Len(a) = Len(q) + 1 /\ Len(q) \in Nat
        /\ a[Len(q) + 1] = m
        /\ \A i \in 1..Len(q) : a[i] = q[i]
    OBVIOUS
  <1>2. \A i \in 1..Len(q) : q[i].from \in Senders /\ q[i].seq \in Int
    <2>1. \A i \in 1..Len(q) : q[i] \in Message
      OBVIOUS
    <2> QED BY <2>1, MessageFields, Zenon
  <1>3. m.from \in Senders /\ m.seq \in Int
    BY MailboxAssumption DEF Message
  <1>4. Ordered(q, c, lo, hi2)
    BY OrderedWiden, Zenon
  <1> HIDE DEF a
  <1>5. ASSUME NEW i \in 1..Len(a)
        PROVE  /\ InCriticalQueue(a[i]) = c
               /\ lo[a[i].from] < a[i].seq /\ a[i].seq <= hi2[a[i].from]
    <2>1. CASE i = Len(q) + 1
      BY <1>1, <1>3, <2>1 DEF Numbering
    <2>2. CASE i \in 1..Len(q)
      BY <1>1, <1>4, <2>2, Zenon DEF Ordered
    <2> QED BY <1>1, <2>1, <2>2
  <1>6. ASSUME NEW i \in 1..Len(a), NEW j \in 1..Len(a), i < j, a[i].from = a[j].from
        PROVE  a[i].seq < a[j].seq
    <2>0. i \in 1..Len(q)
      BY <1>1, <1>6
    <2>1. CASE j = Len(q) + 1
      <3>1. a[i].seq <= hi[m.from] /\ a[i].seq \in Int
        BY <1>1, <1>2, <1>6, <2>0, <2>1, Zenon DEF Ordered
      <3> QED BY <1>1, <1>3, <2>1, <3>1 DEF Numbering
    <2>2. CASE j \in 1..Len(q)
      BY <1>1, <1>6, <2>0, <2>2, Zenon DEF Ordered
    <2> QED BY <1>1, <2>1, <2>2
  <1> QED BY <1>5, <1>6, Zenon DEF Ordered, a

(* Popping the head raises the lower bound of its sender to it. *)
LEMMA OrderedTail ==
  ASSUME NEW q \in Seq(Message), NEW c \in BOOLEAN, q # <<>>,
         NEW lo \in Numbering, NEW hi \in Numbering, Ordered(q, c, lo, hi)
  PROVE  /\ Ordered(Tail(q), c, [lo EXCEPT ![Head(q).from] = Head(q).seq], hi)
         /\ InCriticalQueue(Head(q)) = c
         /\ lo[Head(q).from] < Head(q).seq
         /\ Head(q).seq <= hi[Head(q).from]
  <1> DEFINE h == Head(q)
             t == Tail(q)
             up == [lo EXCEPT ![h.from] = h.seq]
  <1>1. /\ Len(q) \in Nat \ {0} /\ h = q[1]
        /\ Len(t) = Len(q) - 1
        /\ \A i \in 1..Len(t) : t[i] = q[i + 1]
    OBVIOUS
  <1>2. \A i \in 1..Len(q) : q[i].from \in Senders /\ q[i].seq \in Int
    <2>1. \A i \in 1..Len(q) : q[i] \in Message
      OBVIOUS
    <2> QED BY <2>1, MessageFields, Zenon
  <1>3. h.from \in Senders /\ h.seq \in Int
    BY <1>1, <1>2
  <1>4. /\ InCriticalQueue(h) = c /\ lo[h.from] < h.seq /\ h.seq <= hi[h.from]
    BY <1>1 DEF Ordered
  <1> HIDE DEF h, t
  <1>5. ASSUME NEW i \in 1..Len(t)
        PROVE  /\ InCriticalQueue(t[i]) = c
               /\ up[t[i].from] < t[i].seq /\ t[i].seq <= hi[t[i].from]
    <2>1. i + 1 \in 1..Len(q) /\ 1 \in 1..Len(q) /\ t[i] = q[i + 1] /\ 1 < i + 1
      BY <1>1
    <2>2. /\ InCriticalQueue(t[i]) = c
          /\ lo[t[i].from] < t[i].seq /\ t[i].seq <= hi[t[i].from]
          /\ t[i].from = h.from => h.seq < t[i].seq
      BY <1>1, <2>1, Zenon DEF Ordered
    <2> QED BY <1>2, <1>3, <2>1, <2>2, Zenon DEF Numbering
  <1>6. ASSUME NEW i \in 1..Len(t), NEW j \in 1..Len(t), i < j, t[i].from = t[j].from
        PROVE  t[i].seq < t[j].seq
    <2>1. /\ i + 1 \in 1..Len(q) /\ j + 1 \in 1..Len(q) /\ i + 1 < j + 1
          /\ t[i] = q[i + 1] /\ t[j] = q[j + 1]
      BY <1>1, <1>6
    <2> QED BY <1>6, <2>1, Zenon DEF Ordered
  <1>7. Ordered(t, c, up, hi)
    BY <1>5, <1>6, Zenon DEF Ordered
  <1> QED BY <1>4, <1>7, Zenon DEF h, t

(* The counters of messages are integers. *)
LEMMA CounterTypes ==
  ASSUME TypeOK
  PROVE  /\ sent \in [Senders -> Int]
         /\ \A t \in Senders, c \in BOOLEAN : last[t][c] \in Int
         /\ queue \in Seq(Message) /\ critical_queue \in Seq(Message)
  <1>1. sent \in [Senders -> 0..MaxSends] /\ last \in [Senders -> [BOOLEAN -> 0..MaxSends]]
    BY Zenon DEF TypeOK
  <1>2. 0..MaxSends \subseteq Int
    BY MailboxAssumption
  <1>3. sent \in [Senders -> Int]
    BY <1>1, <1>2, Zenon
  <1>4. \A t \in Senders, c \in BOOLEAN : last[t][c] \in 0..MaxSends
    BY <1>1, Zenon
  <1> QED BY <1>2, <1>3, <1>4, Zenon DEF TypeOK

(* The numberings are functions to the integers. *)
LEMMA NumberingTypes ==
  ASSUME TypeOK
  PROVE  /\ Past \in Numbering
         /\ \A c \in BOOLEAN : Popped(c) \in Numbering
  <1>1. Past \in Numbering
    BY MailboxAssumption DEF TypeOK, Past, Numbering
  <1>2. ASSUME NEW c \in BOOLEAN PROVE Popped(c) \in Numbering
    BY MailboxAssumption DEF TypeOK, Popped, Numbering
  <1> QED BY <1>1, <1>2, Zenon

(* A step of a sender never lowers Past; a successful push raises it by one. *)
LEMMA SenderPast ==
  ASSUME TypeInv, NEW s \in Senders, SenderNext(s)
  PROVE  /\ \A t \in Senders : Past[t] <= Past'[t]
         /\ Push(s) => Past[s] = sent[s] - 1 /\ Past'[s] = sent[s]
         /\ UNCHANGED <<last, taken, rpc, op>>
         /\ Push(s) \/ UNCHANGED <<queue, critical_queue>>
  <1> USE DEF SenderGoto, sendLocals, receiverVars, recvLocals, shared
  <1>t. /\ sent \in [Senders -> Int] /\ spc \in [Senders -> SenderPC]
    BY MailboxAssumption DEF TypeInv, TypeOK
  <1>1. ASSUME NEW c \in BOOLEAN, TrySend(s, c) \/ Send(s, c)
        PROVE  \A t \in Senders : Past[t] <= Past'[t]
    <2>1. sent' = [sent EXCEPT ![s] = @ + 1] /\ spc[s] = "idle"
      BY <1>1, Zenon DEF TrySend, Send, Offer
    <2>2. \/ spc' = spc \/ spc' = [spc EXCEPT ![s] = "acquired"]
          \/ spc' = [spc EXCEPT ![s] = "waiting"]
      BY <1>1, Zenon DEF TrySend, Send, AcquireFree
    <2> QED BY <1>t, <2>1, <2>2 DEF Past
  <1>2. ASSUME sent' = sent, spc' = [spc EXCEPT ![s] = "idle"] \/ spc' = [spc EXCEPT ![s] = "pushed"]
        PROVE  \A t \in Senders : Past[t] <= Past'[t]
    BY <1>t, <1>2 DEF Past
  <1>3. CASE SendCancel(s)
    BY <1>2, <1>3, Zenon DEF SendCancel, Push
  <1>4. CASE SendGranted(s) \/ FetchAdd(s)
    BY <1>t, <1>4 DEF SendGranted, FetchAdd, Past, Push
  <1>5. CASE Push(s)
    <2>1. spc' = [spc EXCEPT ![s] = "idle"] \/ spc' = [spc EXCEPT ![s] = "pushed"]
      BY <1>5, Zenon DEF Push
    <2>2. sent' = sent /\ UNCHANGED <<last, taken, rpc, op>> /\ spc[s] = "counted"
      BY <1>5, Zenon DEF Push
    <2> QED BY <1>t, <1>2, <1>5, <2>1, <2>2, Zenon DEF Past
  <1>6. CASE StoreBackpressure(s) \/ NotifyWaiters(s)
    BY <1>t, <1>6 DEF StoreBackpressure, NotifyWaiters, Past, Push
  <1>7. ASSUME NEW c \in BOOLEAN, TrySend(s, c) \/ Send(s, c)
        PROVE  UNCHANGED <<last, taken, rpc, op, queue, critical_queue>> /\ ~Push(s)
    BY <1>7, Zenon DEF TrySend, Send, Offer, Push
  <1> QED BY <1>1, <1>3, <1>4, <1>5, <1>6, <1>7, Zenon DEF SenderNext, SenderStep

(* Every step of a sender keeps the queues ordered. *)
LEMMA SenderOrder ==
  ASSUME TypeInv, TypeInv', OrderInv, NEW s \in Senders, SenderNext(s)
  PROVE  OrderInv'
  <1>1. /\ Past \in Numbering /\ Past' \in Numbering
        /\ \A c \in BOOLEAN : Popped(c) \in Numbering
        /\ queue \in Seq(Message) /\ critical_queue \in Seq(Message)
        /\ \A t \in Senders, c \in BOOLEAN : last[t][c] \in Int
        /\ sent \in [Senders -> Int]
    <2>1. TypeOK /\ TypeOK'
      BY Zenon DEF TypeInv
    <2>2. Past' \in Numbering
      <3>1. sent' \in [Senders -> 0..MaxSends]
        BY <2>1, Zenon DEF TypeOK
      <3>2. \A t \in Senders : sent'[t] \in Int /\ sent'[t] - 1 \in Int
        BY <3>1, MailboxAssumption
      <3> QED
        BY <3>2, Zenon DEF Past, Numbering
    <2>3. Past \in Numbering /\ \A c \in BOOLEAN : Popped(c) \in Numbering
      BY <2>1, NumberingTypes, Zenon
    <2> QED BY <2>1, <2>2, <2>3, CounterTypes, Zenon
  <1>2. /\ \A t \in Senders : Past[t] <= Past'[t]
        /\ UNCHANGED <<last, taken>>
    BY SenderPast, Zenon
  <1>3. Popped(FALSE)' = Popped(FALSE) /\ Popped(TRUE)' = Popped(TRUE)
    BY <1>2, Zenon DEF Popped
  <1>4. Ordered(queue, FALSE, Popped(FALSE), Past) /\ Ordered(critical_queue, TRUE, Popped(TRUE), Past)
    BY Zenon DEF OrderInv
  <1>5. /\ Ordered(queue, FALSE, Popped(FALSE), Past')
        /\ Ordered(critical_queue, TRUE, Popped(TRUE), Past')
    BY <1>1, <1>2, <1>4, OrderedWiden, Zenon
  <1>6. \A t \in Senders : \A c \in BOOLEAN : last'[t][c] <= Past'[t]
    BY <1>1, <1>2 DEF OrderInv, Numbering
  <1>7. Ordered(queue', FALSE, Popped(FALSE), Past') /\ Ordered(critical_queue', TRUE, Popped(TRUE), Past')
    <2>1. CASE UNCHANGED <<queue, critical_queue>>
      BY <1>5, <2>1, Zenon
    <2>2. CASE Push(s) /\ ~UNCHANGED <<queue, critical_queue>>
      <3>1. Past[s] = sent[s] - 1 /\ Past'[s] = sent[s]
        BY <2>2, SenderPast, Zenon
      <3>2. /\ msg(s) \in Message /\ msg(s).from = s /\ msg(s).seq = sent[s]
        BY Zenon DEF TypeInv, TypeOK, msg, Message
      <3>3. Popped(FALSE)[s] <= Past[s] /\ Popped(TRUE)[s] <= Past[s]
        BY Zenon DEF OrderInv, Popped
      <3>4. CASE InCriticalQueue(msg(s))
        <4>1. queue' = queue /\ critical_queue' = Append(critical_queue, msg(s))
          BY <2>2, <3>4, Zenon DEF Push
        <4> DEFINE m == msg(s)
        <4>a. m \in Message /\ m.from = s /\ m.seq = sent[s]
          BY <3>2, Zenon
        <4>b. InCriticalQueue(m) = TRUE
          BY <3>4, Zenon DEF InCriticalQueue
        <4> HIDE DEF m
        <4>2. Popped(TRUE)[m.from] <= Past[m.from]
          BY <3>3, <4>a, Zenon
        <4>c. Past[m.from] < m.seq /\ m.seq <= Past'[m.from]
          <5>1. sent[s] \in Int
            BY <1>1, Zenon
          <5> QED BY <3>1, <4>a, <5>1
        <4>3. Ordered(Append(critical_queue, m), TRUE, Popped(TRUE), Past')
          BY <1>1, <1>2, <1>4, <4>2, <4>a, <4>b, <4>c, OrderedAppend, Zenon
        <4> QED BY <1>5, <4>1, <4>3, Zenon DEF m
      <3>5. CASE ~InCriticalQueue(msg(s))
        <4>1. critical_queue' = critical_queue /\ queue' = Append(queue, msg(s))
          BY <2>2, <3>5, Zenon DEF Push
        <4> DEFINE m == msg(s)
        <4>a. m \in Message /\ m.from = s /\ m.seq = sent[s]
          BY <3>2, Zenon
        <4>b. InCriticalQueue(m) = FALSE
          BY <3>5, Zenon DEF InCriticalQueue
        <4> HIDE DEF m
        <4>2. Popped(FALSE)[m.from] <= Past[m.from]
          BY <3>3, <4>a, Zenon
        <4>c. Past[m.from] < m.seq /\ m.seq <= Past'[m.from]
          <5>1. sent[s] \in Int
            BY <1>1, Zenon
          <5> QED BY <3>1, <4>a, <5>1
        <4>3. Ordered(Append(queue, m), FALSE, Popped(FALSE), Past')
          BY <1>1, <1>2, <1>4, <4>2, <4>a, <4>b, <4>c, OrderedAppend, Zenon
        <4> QED BY <1>5, <4>1, <4>3, Zenon DEF m
      <3> QED BY <3>4, <3>5, Zenon
    <2> QED BY <2>1, <2>2, SenderPast, Zenon
  <1> QED BY <1>2, <1>3, <1>6, <1>7, Zenon DEF OrderInv

(* What a step of a receiver does to the messages: it pops one, or releases
   the ones it holds, or leaves them alone. *)
LEMMA ReceiverCases ==
  ASSUME NEW r \in Receivers, ReceiverNext(r)
  PROVE  /\ UNCHANGED senderVars
         /\ \/ /\ queue # <<>> /\ Take(r, Head(queue))
               /\ queue' = Tail(queue) /\ critical_queue' = critical_queue
            \/ /\ critical_queue # <<>> /\ Take(r, Head(critical_queue))
               /\ critical_queue' = Tail(critical_queue) /\ queue' = queue
            \/ /\ UNCHANGED <<queue, critical_queue, last>>
               /\ taken' = taken \/ taken' = [taken EXCEPT ![r] = {}]
  <1> USE DEF shared, recvLocals
  <1>1. CASE BeginReceive(r) \/ RecvCancel(r)
    BY <1>1, Zenon DEF BeginReceive, TryRecv, Recv, Clear, Begin, RecvCancel
  <1>2. CASE RecvWake(r) \/ FetchSub(r) \/ CheckBackpressure(r) \/ ResetBackpressure(r)
    BY <1>2, Zenon DEF RecvWake, FetchSub, CheckBackpressure, ResetBackpressure
  <1>3. CASE AddPermits(r)
    BY <1>3, Zenon DEF AddPermits
  <1>4. CASE PopCritical(r) \/ ClearCritical(r)
    BY <1>4, Zenon DEF PopCritical, ClearCritical
  <1>5. CASE PopNormal(r) \/ ClearNormal(r)
    BY <1>5, Zenon DEF PopNormal, ClearNormal
  <1> QED BY <1>1, <1>2, <1>3, <1>4, <1>5, Zenon DEF ReceiverNext, ReceiverStep

(* Popping m records it as the last popped of its class, and gives it to r. *)
LEMMA TakeOrder ==
  ASSUME TypeInv, OrderInv, NEW r \in Receivers, NEW m \in Message, Take(r, m),
         NEW c \in BOOLEAN, InCriticalQueue(m) = c,
         Popped(c)[m.from] < m.seq, m.seq <= Past[m.from], UNCHANGED senderVars
  PROVE  /\ Popped(c)' = [Popped(c) EXCEPT ![m.from] = m.seq]
         /\ \A d \in BOOLEAN : d # c => Popped(d)' = Popped(d)
         /\ Past' = Past
         /\ \A s \in Senders : \A d \in BOOLEAN : last'[s][d] <= Past'[s]
         /\ \A q \in Receivers : \A x \in taken'[q] : x.seq <= last'[x.from][InCriticalQueue(x)]
         /\ \A q, o \in Receivers : q # o => taken'[q] \cap taken'[o] = {}
  <1>t. TypeOK
    BY Zenon DEF TypeInv
  <1>0. /\ last \in [Senders -> [BOOLEAN -> 0..MaxSends]]
        /\ taken \in [Receivers -> SUBSET Message]
        /\ m.from \in Senders /\ m.seq \in Int
    BY <1>t, MessageFields, Zenon DEF TypeOK
  <1>1. last' = [last EXCEPT ![m.from][c] = m.seq] /\ taken' = [taken EXCEPT ![r] = @ \cup {m}]
    BY Zenon DEF Take
  <1>2. \A s \in Senders, d \in BOOLEAN :
          last'[s][d] = IF s = m.from /\ d = c THEN m.seq ELSE last[s][d]
    BY <1>0, <1>1, Zenon
  <1>3. Popped(c)' = [Popped(c) EXCEPT ![m.from] = m.seq]
    <2>1. Popped(c)' = [s \in Senders |-> IF s = m.from THEN m.seq ELSE last[s][c]]
      BY <1>2, Zenon DEF Popped
    <2> QED BY <1>0, <2>1, Zenon DEF Popped
  <1>4. ASSUME NEW d \in BOOLEAN, d # c PROVE Popped(d)' = Popped(d)
    BY <1>2, <1>4 DEF Popped
  <1>5. Past' = Past
    BY Zenon DEF Past, senderVars, sendLocals
  <1>6. last[m.from][c] < m.seq
    BY <1>0, Zenon DEF Popped
  <1>7. \A s \in Senders : \A d \in BOOLEAN : last'[s][d] <= Past'[s]
    BY <1>0, <1>2, <1>5, Zenon DEF OrderInv
  <1>8. \A s \in Senders, d \in BOOLEAN : last[s][d] <= last'[s][d]
    <2>1. \A s \in Senders, d \in BOOLEAN : last[s][d] \in Int
      BY <1>t, CounterTypes, Zenon
    <2> QED BY <1>0, <1>2, <1>6, <2>1
  <1>9. ASSUME NEW q \in Receivers, NEW x \in taken[q]
        PROVE  /\ x \in Message
               /\ x.seq <= last[x.from][InCriticalQueue(x)]
               /\ x.seq <= last'[x.from][InCriticalQueue(x)]
    <2>1. x \in Message
      BY <1>0, Zenon
    <2>2. x.from \in Senders /\ x.seq \in Int /\ InCriticalQueue(x) \in BOOLEAN
      BY <2>1, MessageFields, MailboxAssumption, Zenon DEF InCriticalQueue
    <2> DEFINE d == InCriticalQueue(x)
    <2>3. x.seq <= last[x.from][d]
      BY <1>9, Zenon DEF OrderInv
    <2>4. last[x.from][d] <= last'[x.from][d]
      BY <1>8, <2>2, Zenon
    <2>5. last[x.from][d] \in Int /\ last'[x.from][d] \in Int
      BY <1>t, <1>0, <1>2, <2>2, CounterTypes, Zenon
    <2> QED BY <2>1, <2>2, <2>3, <2>4, <2>5
  <1>10. ASSUME NEW q \in Receivers PROVE m \notin taken[q]
    <2>1. SUFFICES ASSUME m \in taken[q] PROVE FALSE
      BY Zenon
    <2>2. m.seq <= last[m.from][c]
      BY <1>9, <2>1, Zenon
    <2> QED BY <1>0, <1>6, <1>t, <2>2, CounterTypes
  <1>11. m.seq <= last'[m.from][InCriticalQueue(m)]
    BY <1>0, <1>2
  <1>12. ASSUME NEW q \in Receivers, NEW x \in taken'[q]
         PROVE  x.seq <= last'[x.from][InCriticalQueue(x)]
    <2>1. x \in taken[q] \/ x = m
      BY <1>0, <1>1, <1>12, Zenon
    <2> QED BY <1>9, <1>11, <2>1, Zenon
  <1>13. ASSUME NEW q \in Receivers, NEW o \in Receivers, q # o
         PROVE  taken'[q] \cap taken'[o] = {}
    <2>1. taken[q] \cap taken[o] = {}
      BY <1>13, Zenon DEF OrderInv
    <2> QED BY <1>0, <1>1, <1>10, <1>13, <2>1, Zenon
  <1> QED BY <1>3, <1>4, <1>5, <1>7, <1>12, <1>13, Zenon

(* Every step of a receiver keeps the queues ordered. *)
LEMMA ReceiverOrder ==
  ASSUME TypeInv, OrderInv, NEW r \in Receivers, ReceiverNext(r)
  PROVE  OrderInv'
  <1>t. TypeOK
    BY Zenon DEF TypeInv
  <1>1. /\ Past \in Numbering /\ Popped(FALSE) \in Numbering /\ Popped(TRUE) \in Numbering
        /\ queue \in Seq(Message) /\ critical_queue \in Seq(Message)
    BY <1>t, NumberingTypes, CounterTypes, Zenon
  <1>2. UNCHANGED senderVars
    BY ReceiverCases, Zenon
  <1>3. Ordered(queue, FALSE, Popped(FALSE), Past) /\ Ordered(critical_queue, TRUE, Popped(TRUE), Past)
    BY Zenon DEF OrderInv
  <1>4. CASE /\ queue # <<>> /\ Take(r, Head(queue))
             /\ queue' = Tail(queue) /\ critical_queue' = critical_queue
    <2> DEFINE m == Head(queue)
    <2>1. m \in Message
      BY <1>1, <1>4
    <2>2. /\ Ordered(Tail(queue), FALSE, [Popped(FALSE) EXCEPT ![m.from] = m.seq], Past)
          /\ InCriticalQueue(m) = FALSE
          /\ Popped(FALSE)[m.from] < m.seq /\ m.seq <= Past[m.from]
      BY <1>1, <1>3, <1>4, OrderedTail, Zenon
    <2>3. Take(r, m)
      BY <1>4, Zenon
    <2> HIDE DEF m
    <2>4. /\ Popped(FALSE)' = [Popped(FALSE) EXCEPT ![m.from] = m.seq]
          /\ \A d \in BOOLEAN : d # FALSE => Popped(d)' = Popped(d)
          /\ Past' = Past
          /\ \A s \in Senders : \A d \in BOOLEAN : last'[s][d] <= Past'[s]
          /\ \A q \in Receivers : \A x \in taken'[q] : x.seq <= last'[x.from][InCriticalQueue(x)]
          /\ \A q, o \in Receivers : q # o => taken'[q] \cap taken'[o] = {}
      BY <1>2, <2>1, <2>2, <2>3, TakeOrder, Zenon
    <2>5. Popped(TRUE)' = Popped(TRUE)
      BY <2>4, Zenon
    <2> QED BY <1>3, <1>4, <2>2, <2>4, <2>5, Zenon DEF OrderInv
  <1>5. CASE /\ critical_queue # <<>> /\ Take(r, Head(critical_queue))
             /\ critical_queue' = Tail(critical_queue) /\ queue' = queue
    <2> DEFINE m == Head(critical_queue)
    <2>1. m \in Message
      BY <1>1, <1>5
    <2>2. /\ Ordered(Tail(critical_queue), TRUE, [Popped(TRUE) EXCEPT ![m.from] = m.seq], Past)
          /\ InCriticalQueue(m) = TRUE
          /\ Popped(TRUE)[m.from] < m.seq /\ m.seq <= Past[m.from]
      BY <1>1, <1>3, <1>5, OrderedTail, Zenon
    <2>3. Take(r, m)
      BY <1>5, Zenon
    <2> HIDE DEF m
    <2>4. /\ Popped(TRUE)' = [Popped(TRUE) EXCEPT ![m.from] = m.seq]
          /\ \A d \in BOOLEAN : d # TRUE => Popped(d)' = Popped(d)
          /\ Past' = Past
          /\ \A s \in Senders : \A d \in BOOLEAN : last'[s][d] <= Past'[s]
          /\ \A q \in Receivers : \A x \in taken'[q] : x.seq <= last'[x.from][InCriticalQueue(x)]
          /\ \A q, o \in Receivers : q # o => taken'[q] \cap taken'[o] = {}
      BY <1>2, <2>1, <2>2, <2>3, TakeOrder, Zenon
    <2>5. Popped(FALSE)' = Popped(FALSE)
      BY <2>4, Zenon
    <2> QED BY <1>3, <1>5, <2>2, <2>4, <2>5, Zenon DEF OrderInv
  <1>6. CASE /\ UNCHANGED <<queue, critical_queue, last>>
             /\ taken' = taken \/ taken' = [taken EXCEPT ![r] = {}]
    <2>1. Past' = Past /\ Popped(FALSE)' = Popped(FALSE) /\ Popped(TRUE)' = Popped(TRUE)
      BY <1>2, <1>6, Zenon DEF Past, Popped, senderVars, sendLocals
    <2>2. \A q \in Receivers : taken'[q] \subseteq taken[q]
      BY <1>t, <1>6, Zenon DEF TypeOK
    <2>3. /\ \A s \in Senders : \A d \in BOOLEAN : last'[s][d] <= Past'[s]
          /\ \A q \in Receivers : \A x \in taken'[q] : x.seq <= last'[x.from][InCriticalQueue(x)]
      BY <1>6, <2>1, <2>2, Zenon DEF OrderInv
    <2>4. \A q, o \in Receivers : q # o => taken'[q] \cap taken'[o] = {}
      BY <2>2, Zenon DEF OrderInv
    <2> QED BY <1>3, <1>6, <2>1, <2>3, <2>4, Zenon DEF OrderInv
  <1> QED BY <1>4, <1>5, <1>6, ReceiverCases, Zenon

OrderedInv == TypeInv /\ OrderInv

(* The initial state is ordered. *)
LEMMA InitOrder == Init => OrderInv
  <1> SUFFICES ASSUME Init PROVE OrderInv
    BY Zenon
  <1>1. Ordered(queue, FALSE, Popped(FALSE), Past) /\ Ordered(critical_queue, TRUE, Popped(TRUE), Past)
    BY DEF Init, Ordered
  <1>2. \A s \in Senders : \A c \in BOOLEAN : last[s][c] <= Past[s]
    BY DEF Init, Past
  <1> QED BY <1>1, <1>2, Zenon DEF Init, OrderInv

(* Every step keeps the order. *)
LEMMA NextOrder == OrderedInv /\ [Next]_vars => OrderedInv'
  <1> SUFFICES ASSUME TypeInv, OrderInv, [Next]_vars PROVE TypeInv' /\ OrderInv'
    BY Zenon DEF OrderedInv
  <1>1. TypeInv'
    BY NextTypeInv, Zenon
  <1>2. CASE UNCHANGED vars
    <2>1. /\ Past' = Past /\ Popped(FALSE)' = Popped(FALSE) /\ Popped(TRUE)' = Popped(TRUE)
          /\ UNCHANGED <<queue, critical_queue, last, taken>>
      BY <1>2, Zenon DEF vars, shared, senderVars, receiverVars, sendLocals, recvLocals, Past, Popped
    <2> QED BY <1>1, <2>1, Zenon DEF OrderInv
  <1> QED BY <1>1, <1>2, StepCases, SenderOrder, ReceiverOrder, Zenon

(* The order holds in every reachable state. *)
LEMMA OrderedInvariant == Spec => []OrderedInv
  <1>1. Init => OrderedInv
    BY InitTypeInv, InitOrder, Zenon DEF OrderedInv
  <1> QED BY <1>1, NextOrder, PTL DEF Spec

(* What a step adds to a receiver's messages is above all popped before. *)
PopsAbove == \A r \in Receivers : \A m \in taken'[r] \ taken[r] : m.seq > last[m.from][InCriticalQueue(m)]

(* In an ordered state, what a step pops is above all popped before. *)
LEMMA PopsAboveStep == OrderedInv /\ [Next]_vars => [PopsAbove]_vars
  <1> SUFFICES ASSUME TypeInv, OrderInv, [Next]_vars, ~UNCHANGED vars PROVE PopsAbove
    BY Zenon DEF OrderedInv
  <1>t. TypeOK
    BY Zenon DEF TypeInv
  <1>0. taken \in [Receivers -> SUBSET Message]
    BY <1>t, Zenon DEF TypeOK
  <1>1. ASSUME NEW s \in Senders, SenderNext(s) PROVE PopsAbove
    BY <1>1, SenderPast, Zenon DEF PopsAbove
  <1>2. ASSUME NEW r \in Receivers, ReceiverNext(r) PROVE PopsAbove
    <2>1. ASSUME NEW m \in Message, Take(r, m), NEW c \in BOOLEAN, InCriticalQueue(m) = c,
                 Popped(c)[m.from] < m.seq
          PROVE  PopsAbove
      <3>1. m.from \in Senders /\ m.seq \in Int /\ last[m.from][c] \in Int
        BY <1>t, MessageFields, CounterTypes, Zenon
      <3>2. m.seq > last[m.from][InCriticalQueue(m)]
        BY <2>1, <3>1, Zenon DEF Popped
      <3>3. \A q \in Receivers : taken'[q] \ taken[q] \subseteq {m}
        BY <1>0, <2>1, Zenon DEF Take
      <3> QED BY <3>2, <3>3, Zenon DEF PopsAbove
    <2>2. /\ Past \in Numbering /\ Popped(FALSE) \in Numbering /\ Popped(TRUE) \in Numbering
          /\ queue \in Seq(Message) /\ critical_queue \in Seq(Message)
      BY <1>t, NumberingTypes, CounterTypes, Zenon
    <2>3. Ordered(queue, FALSE, Popped(FALSE), Past) /\ Ordered(critical_queue, TRUE, Popped(TRUE), Past)
      BY Zenon DEF OrderInv
    <2>4. CASE queue # <<>> /\ Take(r, Head(queue))
      <3> DEFINE m == Head(queue)
      <3>1. m \in Message /\ Take(r, m)
        BY <2>2, <2>4
      <3>2. InCriticalQueue(m) = FALSE /\ Popped(FALSE)[m.from] < m.seq
        BY <2>2, <2>3, <2>4, OrderedTail, Zenon
      <3> HIDE DEF m
      <3> QED BY <2>1, <3>1, <3>2, Zenon
    <2>5. CASE critical_queue # <<>> /\ Take(r, Head(critical_queue))
      <3> DEFINE m == Head(critical_queue)
      <3>1. m \in Message /\ Take(r, m)
        BY <2>2, <2>5
      <3>2. InCriticalQueue(m) = TRUE /\ Popped(TRUE)[m.from] < m.seq
        BY <2>2, <2>3, <2>5, OrderedTail, Zenon
      <3> HIDE DEF m
      <3> QED BY <2>1, <3>1, <3>2, Zenon
    <2>6. CASE taken' = taken \/ taken' = [taken EXCEPT ![r] = {}]
      <3>1. \A q \in Receivers : taken'[q] \ taken[q] = {}
        BY <1>0, <2>6, Zenon
      <3> QED BY <3>1, Zenon DEF PopsAbove
    <2> QED BY <1>2, <2>4, <2>5, <2>6, ReceiverCases, Zenon
  <1> QED BY <1>1, <1>2, StepCases, Zenon

(* Each sender's messages of one class leave the mailbox in order and at
   most once. *)
THEOREM FifoHolds == Spec => PerSenderFifo
  <1>1. [](OrderedInv) /\ [][Next]_vars => [][PopsAbove]_vars
    BY PopsAboveStep, PTL
  <1> QED BY <1>1, OrderedInvariant, PTL DEF Spec, PerSenderFifo, PopsAbove

-----------------------------------------------------------------------------
(* Accounting: which messages hold a permit and which are counted *)

(* Append adds one member. *)
LEMMA RangeAppend ==
  ASSUME NEW q \in Seq(Message), NEW m \in Message
  PROVE  Range(Append(q, m)) = Range(q) \cup {m}
  <1> DEFINE a == Append(q, m)
  <1>1. /\ DOMAIN q = 1..Len(q) /\ DOMAIN a = 1..(Len(q) + 1) /\ Len(q) \in Nat
        /\ a[Len(q) + 1] = m /\ \A i \in 1..Len(q) : a[i] = q[i]
    OBVIOUS
  <1> HIDE DEF a
  <1>2. \A i \in 1..(Len(q) + 1) : i \in 1..Len(q) \/ i = Len(q) + 1
    BY <1>1
  <1>3. Len(q) + 1 \in 1..(Len(q) + 1) /\ 1..Len(q) \subseteq 1..(Len(q) + 1)
    BY <1>1
  <1>4. \A x : x \in Range(a) <=> x \in Range(q) \/ x = m
    BY <1>1, <1>2, <1>3, Zenon DEF Range
  <1> QED BY <1>4, Zenon DEF a

(* Head and Tail split the members. *)
LEMMA RangeTail ==
  ASSUME NEW q \in Seq(Message), q # <<>>
  PROVE  Range(q) = Range(Tail(q)) \cup {Head(q)}
  <1> DEFINE t == Tail(q)
  <1>1. /\ DOMAIN q = 1..Len(q) /\ Len(q) \in Nat \ {0} /\ DOMAIN t = 1..(Len(q) - 1)
        /\ Head(q) = q[1] /\ \A i \in 1..(Len(q) - 1) : t[i] = q[i + 1]
    OBVIOUS
  <1> HIDE DEF t
  <1>2. ASSUME NEW x \in Range(q) PROVE x \in Range(t) \/ x = Head(q)
    <2>1. PICK i \in 1..Len(q) : x = q[i]
      BY <1>1, <1>2, Zenon DEF Range
    <2>2. CASE i = 1
      BY <1>1, <2>1, <2>2, Zenon
    <2>3. CASE i # 1
      <3>1. i - 1 \in 1..(Len(q) - 1) /\ t[i - 1] = q[i]
        BY <1>1, <2>1, <2>3
      <3> QED BY <1>1, <2>1, <3>1, Zenon DEF Range
    <2> QED BY <2>2, <2>3, Zenon
  <1>3. ASSUME NEW x \in Range(t) PROVE x \in Range(q)
    <2>1. PICK i \in 1..(Len(q) - 1) : x = t[i]
      BY <1>1, <1>3, Zenon DEF Range
    <2>2. i + 1 \in 1..Len(q) /\ x = q[i + 1]
      BY <1>1, <2>1
    <2> QED BY <1>1, <2>2, Zenon DEF Range
  <1>4. Head(q) \in Range(q)
    BY <1>1 DEF Range
  <1> QED BY <1>2, <1>3, <1>4, Zenon DEF t

Carrying(s) == spc[s] \in {"acquired", "counted"}

(* Membership in the accounting sets, before and after a step. *)
LEMMA SlottedMembers ==
  /\ \A x : x \in Slotted <=> \/ \E s \in Senders : Carrying(s) /\ x = msg(s)
                              \/ x \in Range(queue) \/ x \in Range(critical_queue)
                              \/ \E r \in Receivers : x \in taken[r]
  /\ \A x : x \in Slotted' <=> \/ \E s \in Senders : Carrying(s)' /\ x = msg(s)'
                               \/ x \in Range(queue') \/ x \in Range(critical_queue')
                               \/ \E r \in Receivers : x \in taken'[r]
  BY Zenon DEF Slotted, Queued, Carrying

(* Membership in the messages counted by size, before and after a step. *)
LEMMA CountedMembers ==
  /\ \A x : x \in Counted <=> \/ \E s \in Senders : spc[s] = "counted" /\ x = msg(s)
                              \/ x \in Range(queue) \/ x \in Range(critical_queue)
                              \/ \E r \in Receivers : rpc[r] # "subtracted" /\ x \in taken[r]
  /\ \A x : x \in Counted' <=> \/ \E s \in Senders : spc'[s] = "counted" /\ x = msg(s)'
                               \/ x \in Range(queue') \/ x \in Range(critical_queue')
                               \/ \E r \in Receivers : rpc'[r] # "subtracted" /\ x \in taken'[r]
  BY Zenon DEF Counted, Queued

(* A message about to be pushed is nowhere else, and a popped message is in
   no queue. *)
LEMMA Apart ==
  ASSUME TypeInv, OrderInv
  PROVE  /\ \A s \in Senders : spc[s] \in {"waiting", "acquired", "counted"} =>
              /\ msg(s) \notin Range(queue) /\ msg(s) \notin Range(critical_queue)
              /\ \A r \in Receivers : msg(s) \notin taken[r]
         /\ \A s \in Senders : \A m : m.from = s /\ m.seq = sent[s] + 1 =>
              /\ m \notin Range(queue) /\ m \notin Range(critical_queue)
              /\ \A r \in Receivers : m \notin taken[r]
         /\ \A r \in Receivers : \A m \in taken[r] :
              m \notin Range(queue) /\ m \notin Range(critical_queue)
  <1>t. TypeOK
    BY Zenon DEF TypeInv
  <1>0. /\ queue \in Seq(Message) /\ critical_queue \in Seq(Message)
        /\ sent \in [Senders -> Int]
        /\ \A s \in Senders, c \in BOOLEAN : last[s][c] \in Int
        /\ taken \in [Receivers -> SUBSET Message]
    BY <1>t, CounterTypes, Zenon DEF TypeOK
  <1>1. ASSUME NEW m \in Range(queue)
        PROVE  /\ m \in Message /\ m.seq <= Past[m.from]
               /\ InCriticalQueue(m) = FALSE /\ last[m.from][FALSE] < m.seq
    <2>1. DOMAIN queue = 1..Len(queue)
      BY <1>0
    <2>2. PICK i \in 1..Len(queue) : m = queue[i]
      BY <1>1, <2>1, Zenon DEF Range
    <2>3. m \in Message
      BY <1>0, <2>2
    <2>4. m.from \in Senders
      BY <2>3, MessageFields, Zenon
    <2>5. m.seq <= Past[m.from] /\ InCriticalQueue(m) = FALSE /\ Popped(FALSE)[m.from] < m.seq
      BY <2>2, Zenon DEF OrderInv, Ordered
    <2> QED BY <2>3, <2>4, <2>5, Zenon DEF Popped
  <1>2. ASSUME NEW m \in Range(critical_queue)
        PROVE  /\ m \in Message /\ m.seq <= Past[m.from]
               /\ InCriticalQueue(m) = TRUE /\ last[m.from][TRUE] < m.seq
    <2>1. DOMAIN critical_queue = 1..Len(critical_queue)
      BY <1>0
    <2>2. PICK i \in 1..Len(critical_queue) : m = critical_queue[i]
      BY <1>2, <2>1, Zenon DEF Range
    <2>3. m \in Message
      BY <1>0, <2>2
    <2>4. m.from \in Senders
      BY <2>3, MessageFields, Zenon
    <2>5. m.seq <= Past[m.from] /\ InCriticalQueue(m) = TRUE /\ Popped(TRUE)[m.from] < m.seq
      BY <2>2, Zenon DEF OrderInv, Ordered
    <2> QED BY <2>3, <2>4, <2>5, Zenon DEF Popped
  <1>3. ASSUME NEW r \in Receivers, NEW m \in taken[r]
        PROVE  /\ m \in Message /\ m.from \in Senders /\ m.seq \in Int
               /\ InCriticalQueue(m) \in BOOLEAN
               /\ m.seq <= last[m.from][InCriticalQueue(m)] /\ m.seq <= Past[m.from]
    <2>1. m \in Message
      BY <1>0, Zenon
    <2>2. m.from \in Senders /\ m.seq \in Int /\ InCriticalQueue(m) \in BOOLEAN
      BY <2>1, MessageFields, MailboxAssumption, Zenon DEF InCriticalQueue
    <2>3. m.seq <= last[m.from][InCriticalQueue(m)]
      BY Zenon DEF OrderInv
    <2>4. last[m.from][InCriticalQueue(m)] <= Past[m.from]
      BY <2>2, Zenon DEF OrderInv
    <2>5. last[m.from][InCriticalQueue(m)] \in Int /\ Past[m.from] \in Int
      BY <1>0, <1>t, <2>2, NumberingTypes, Zenon DEF Numbering
    <2> QED BY <2>1, <2>2, <2>3, <2>4, <2>5
  <1>4. ASSUME NEW s \in Senders, NEW m, m.from = s, m.seq > Past[s], m.seq \in Int
        PROVE  /\ m \notin Range(queue) /\ m \notin Range(critical_queue)
               /\ \A r \in Receivers : m \notin taken[r]
    <2>1. Past[s] \in Int
      BY <1>t, NumberingTypes, Zenon DEF Numbering
    <2>2. ~(m.seq <= Past[m.from])
      BY <1>4, <2>1
    <2> QED BY <1>1, <1>2, <1>3, <2>2, Zenon
  <1>5. ASSUME NEW s \in Senders, spc[s] \in {"waiting", "acquired", "counted"}
        PROVE  /\ msg(s) \notin Range(queue) /\ msg(s) \notin Range(critical_queue)
               /\ \A r \in Receivers : msg(s) \notin taken[r]
    <2>1. msg(s).from = s /\ msg(s).seq = sent[s] /\ sent[s] \in Int
      BY <1>0, Zenon DEF msg
    <2>2. Past[s] = sent[s] - 1
      BY <1>5, Zenon DEF Past
    <2> QED BY <1>4, <2>1, <2>2
  <1>6. ASSUME NEW s \in Senders, NEW m, m.from = s, m.seq = sent[s] + 1
        PROVE  /\ m \notin Range(queue) /\ m \notin Range(critical_queue)
               /\ \A r \in Receivers : m \notin taken[r]
    <2>1. sent[s] \in Int /\ (Past[s] = sent[s] - 1 \/ Past[s] = sent[s])
      BY <1>0, Zenon DEF Past
    <2> QED BY <1>4, <1>6, <2>1
  <1>7. ASSUME NEW r \in Receivers, NEW m \in taken[r]
        PROVE  m \notin Range(queue) /\ m \notin Range(critical_queue)
    <2>1. /\ last[m.from][TRUE] \in Int /\ last[m.from][FALSE] \in Int
          /\ m.seq \in Int /\ m.seq <= last[m.from][InCriticalQueue(m)]
      BY <1>0, <1>3, Zenon
    <2>2. ASSUME m \in Range(queue) PROVE FALSE
      <3>1. m.seq <= last[m.from][FALSE]
        BY <1>1, <2>1, <2>2, Zenon
      <3>2. last[m.from][FALSE] < m.seq
        BY <1>1, <2>2, Zenon
      <3> DEFINE n == last[m.from][FALSE]
      <3>3. n \in Int /\ m.seq \in Int /\ m.seq <= n /\ n < m.seq
        BY <2>1, <3>1, <3>2, Zenon
      <3> HIDE DEF n
      <3> QED BY <3>3
    <2>3. ASSUME m \in Range(critical_queue) PROVE FALSE
      <3>1. m.seq <= last[m.from][TRUE]
        BY <1>2, <2>1, <2>3, Zenon
      <3>2. last[m.from][TRUE] < m.seq
        BY <1>2, <2>3, Zenon
      <3> DEFINE n == last[m.from][TRUE]
      <3>3. n \in Int /\ m.seq \in Int /\ m.seq <= n /\ n < m.seq
        BY <2>1, <3>1, <3>2, Zenon
      <3> HIDE DEF n
      <3> QED BY <3>3
    <2> QED BY <2>2, <2>3, Zenon
  <1> QED BY <1>5, <1>6, <1>7, Zenon

(* The counted messages hold slots, so that both sets are finite. *)
LEMMA CountedFinite ==
  ASSUME CountInv
  PROVE  IsFiniteSet(Counted) /\ Counted \subseteq Slotted
  <1>1. Counted \subseteq Slotted
    BY SlottedMembers, CountedMembers, Zenon DEF Carrying
  <1> QED BY <1>1, FS_Subset, Zenon DEF CountInv

(* Two senders never offer the same message. *)
LEMMA MsgApart ==
  \A s, t \in Senders : msg(s) = msg(t) => s = t
  <1>1. \A s \in Senders : msg(s).from = s
    BY Zenon DEF msg
  <1> QED BY <1>1, Zenon

(* Steps that move no message in or out of a slot. *)
LEMMA CountSame ==
  ASSUME CountInv, Slotted' = Slotted, Counted' = Counted, permits' = permits, size' = size
  PROVE  CountInv'
  BY Zenon DEF CountInv, PermitConservation

(* A step that gives a permit to one message. *)
LEMMA SlotTaken ==
  ASSUME CountInv, TypeOK, NEW x, x \notin Slotted, Slotted' = Slotted \cup {x},
         Counted' = Counted, permits' = permits - 1, size' = size
  PROVE  CountInv'
  <1>1. IsFiniteSet(Slotted') /\ Cardinality(Slotted') = Cardinality(Slotted) + 1
    BY FS_AddElement, Zenon DEF CountInv
  <1>2. Cardinality(Slotted) \in Nat
    BY FS_CardinalityType, Zenon DEF CountInv
  <1>3. permits' + Cardinality(Slotted') = Capacity
    BY <1>1, <1>2 DEF CountInv, PermitConservation, TypeOK
  <1> QED BY <1>1, <1>3, Zenon DEF CountInv, PermitConservation

(* The accounting survives every step of a sender: a permit is taken up by one
   message, fetch_add counts it in, and push moves it to a queue. *)
LEMMA SenderCount ==
  ASSUME TypeInv, OrderInv, CountInv, NEW s \in Senders, SenderNext(s)
  PROVE  CountInv'
  <1> USE DEF SenderGoto, sendLocals, receiverVars, recvLocals, shared
  <1>t. TypeOK
    BY Zenon DEF TypeInv
  <1>0. spc \in [Senders -> SenderPC] /\ sent \in [Senders -> Int] /\ critical \in [Senders -> BOOLEAN]
    BY <1>t, CounterTypes, Zenon DEF TypeOK
  <1>a. UNCHANGED <<taken, rpc>>
    BY SenderPast, Zenon
  <1>1. ASSUME NEW c \in BOOLEAN, TrySend(s, c) \/ Send(s, c) PROVE CountInv'
    <2>1. /\ Offer(s, c) /\ spc[s] = "idle"
      BY <1>1, Zenon DEF TrySend, Send, Offer
    <2>2. \A u \in Senders : u # s => msg(u)' = msg(u)
      BY <1>0, <2>1, Zenon DEF Offer, msg
    <2>3. UNCHANGED <<size, queue, critical_queue>>
      BY <2>1, Zenon DEF Offer
    <2>4. \A u \in Senders : u # s => spc'[u] = spc[u]
      BY <1>0, <1>1, Zenon DEF TrySend, Send, AcquireFree
    <2>5. spc'[s] \in {"idle", "waiting", "acquired"}
      BY <1>0, <1>1, <2>1, Zenon DEF TrySend, Send, AcquireFree
    <2>6. Counted' = Counted
      BY <1>a, <2>1, <2>2, <2>3, <2>4, <2>5, CountedMembers, Zenon
    <2>7. CASE AcquireFree(s)
      <3>1. spc'[s] = "acquired" /\ permits' = permits - 1
        BY <1>0, <2>7, Zenon DEF AcquireFree
      <3>2. Slotted' = Slotted \cup {msg(s)'}
        BY <1>a, <2>1, <2>2, <2>3, <2>4, <3>1, SlottedMembers, Zenon DEF Carrying
      <3>3. msg(s)'.from = s /\ msg(s)'.seq = sent[s] + 1
        BY <1>0, <2>1, Zenon DEF Offer, msg
      <3>4. msg(s)' \notin Slotted
        <4>1. \A u \in Senders : u # s => msg(u) # msg(s)'
          BY <3>3, Zenon DEF msg
        <4>2. /\ msg(s)' \notin Range(queue) /\ msg(s)' \notin Range(critical_queue)
              /\ \A r \in Receivers : msg(s)' \notin taken[r]
          BY <3>3, Apart, Zenon
        <4> QED BY <2>1, <4>1, <4>2, SlottedMembers, Zenon DEF Carrying
      <3> QED BY <1>t, <2>3, <2>6, <3>1, <3>2, <3>4, SlotTaken, Zenon
    <2>8. CASE ~AcquireFree(s)
      <3>1. permits' = permits /\ spc'[s] \in {"idle", "waiting"}
        BY <1>0, <1>1, <2>1, <2>8, Zenon DEF TrySend, Send
      <3>2. Slotted' = Slotted
        BY <1>a, <2>1, <2>2, <2>3, <2>4, <3>1, SlottedMembers, Zenon DEF Carrying
      <3> QED BY <2>3, <2>6, <3>1, <3>2, CountSame, Zenon
    <2> QED BY <2>7, <2>8, Zenon
  <1>2. ASSUME UNCHANGED <<sent, critical>> PROVE \A u \in Senders : msg(u)' = msg(u)
    BY <1>2, Zenon DEF msg
  <1>3. CASE SendCancel(s) \/ StoreBackpressure(s) \/ NotifyWaiters(s)
    <2>1. UNCHANGED <<sent, critical, queue, critical_queue, permits, size>>
      BY <1>3, Zenon DEF SendCancel, StoreBackpressure, NotifyWaiters
    <2>2. /\ spc[s] \in {"waiting", "pushed", "stored"} /\ spc'[s] \in {"idle", "stored"}
          /\ \A u \in Senders : u # s => spc'[u] = spc[u]
      BY <1>0, <1>3, Zenon DEF SendCancel, StoreBackpressure, NotifyWaiters
    <2>3. Slotted' = Slotted
      BY <1>a, <1>2, <2>1, <2>2, SlottedMembers, Zenon DEF Carrying
    <2>4. Counted' = Counted
      BY <1>a, <1>2, <2>1, <2>2, CountedMembers, Zenon
    <2> QED BY <2>1, <2>3, <2>4, CountSame, Zenon
  <1>4. CASE SendGranted(s)
    <2>1. UNCHANGED <<sent, critical, queue, critical_queue, size>> /\ permits' = permits - 1
      BY <1>4, Zenon DEF SendGranted
    <2>2. /\ spc[s] = "waiting" /\ spc'[s] = "acquired"
          /\ \A u \in Senders : u # s => spc'[u] = spc[u]
      BY <1>0, <1>4, Zenon DEF SendGranted
    <2>3. Slotted' = Slotted \cup {msg(s)}
      BY <1>a, <1>2, <2>1, <2>2, SlottedMembers, Zenon DEF Carrying
    <2>4. Counted' = Counted
      BY <1>a, <1>2, <2>1, <2>2, CountedMembers, Zenon
    <2>5. msg(s) \notin Slotted
      BY <2>2, Apart, MsgApart, SlottedMembers, Zenon DEF Carrying
    <2> QED BY <1>t, <2>1, <2>3, <2>4, <2>5, SlotTaken, Zenon
  <1>5. CASE FetchAdd(s)
    <2>1. UNCHANGED <<sent, critical, queue, critical_queue, permits>> /\ size' = size + 1
      BY <1>5, Zenon DEF FetchAdd
    <2>2. /\ spc[s] = "acquired" /\ spc'[s] = "counted"
          /\ \A u \in Senders : u # s => spc'[u] = spc[u]
      BY <1>0, <1>5, Zenon DEF FetchAdd
    <2>3. Slotted' = Slotted
      BY <1>a, <1>2, <2>1, <2>2, SlottedMembers, Zenon DEF Carrying
    <2>4. Counted' = Counted \cup {msg(s)}
      BY <1>a, <1>2, <2>1, <2>2, CountedMembers, Zenon
    <2>5. msg(s) \notin Counted
      BY <2>2, Apart, MsgApart, CountedMembers, Zenon
    <2>6. Cardinality(Counted') = Cardinality(Counted) + 1
      BY <2>4, <2>5, CountedFinite, FS_AddElement, Zenon
    <2> QED BY <2>1, <2>3, <2>6, Zenon DEF CountInv, PermitConservation
  <1>6. CASE Push(s)
    <2>1. spc[s] = "counted" /\ UNCHANGED <<sent, critical>>
      BY <1>6, Zenon DEF Push
    <2>2. \A u \in Senders : u # s => spc'[u] = spc[u]
      BY <1>0, <1>6, Zenon DEF Push
    <2>3. msg(s) \in Message
      BY <1>t, Zenon DEF TypeOK, msg, Message
    <2>4. CASE Len(TargetQueue(s)) < Capacity
      <3>1. spc'[s] = "pushed" /\ UNCHANGED <<size, permits>>
        BY <1>0, <1>6, <2>4, Zenon DEF Push
      <3>2. Range(queue') \cup Range(critical_queue') = Range(queue) \cup Range(critical_queue) \cup {msg(s)}
        <4>1. \/ queue' = Append(queue, msg(s)) /\ critical_queue' = critical_queue
              \/ critical_queue' = Append(critical_queue, msg(s)) /\ queue' = queue
          BY <1>6, <2>4, Zenon DEF Push
        <4> DEFINE m == msg(s)
        <4>2. Range(Append(queue, m)) = Range(queue) \cup {m}
          BY <1>t, <2>3, RangeAppend, CounterTypes, Zenon
        <4>3. Range(Append(critical_queue, m)) = Range(critical_queue) \cup {m}
          BY <1>t, <2>3, RangeAppend, CounterTypes, Zenon
        <4> HIDE DEF m
        <4> QED BY <4>1, <4>2, <4>3, Zenon DEF m
      <3>3. Slotted' = Slotted
        BY <1>a, <1>2, <2>1, <2>2, <3>1, <3>2, SlottedMembers, Zenon DEF Carrying
      <3>4. Counted' = Counted
        BY <1>a, <1>2, <2>1, <2>2, <3>1, <3>2, CountedMembers, Zenon
      <3> QED BY <3>1, <3>3, <3>4, CountSame, Zenon
    <2>5. CASE ~(Len(TargetQueue(s)) < Capacity)
      <3>1. /\ spc'[s] = "idle" /\ UNCHANGED <<queue, critical_queue>>
            /\ size' = size - 1 /\ permits' = permits + 1
        BY <1>0, <1>6, <2>5, Zenon DEF Push
      <3>2. /\ msg(s) \notin Range(queue) /\ msg(s) \notin Range(critical_queue)
            /\ \A r \in Receivers : msg(s) \notin taken[r]
        BY <2>1, Apart, Zenon
      <3>3. Slotted' = Slotted \ {msg(s)} /\ msg(s) \in Slotted
        BY <1>a, <1>2, <2>1, <2>2, <3>1, <3>2, MsgApart, SlottedMembers DEF Carrying
      <3>4. Counted' = Counted \ {msg(s)} /\ msg(s) \in Counted
        BY <1>a, <1>2, <2>1, <2>2, <3>1, <3>2, MsgApart, CountedMembers
      <3>5. /\ IsFiniteSet(Slotted') /\ Cardinality(Slotted') = Cardinality(Slotted) - 1
            /\ Cardinality(Counted') = Cardinality(Counted) - 1
        BY <3>3, <3>4, CountedFinite, FS_RemoveElement, Zenon DEF CountInv
      <3>6. Cardinality(Slotted) \in Nat
        BY FS_CardinalityType, Zenon DEF CountInv
      <3>7. permits' + Cardinality(Slotted') = Capacity
        BY <1>t, <3>1, <3>5, <3>6 DEF CountInv, PermitConservation, TypeOK
      <3> QED BY <3>1, <3>5, <3>7, Zenon DEF CountInv, PermitConservation
    <2> QED BY <2>4, <2>5, Zenon
  <1> QED BY <1>1, <1>3, <1>4, <1>5, <1>6, Zenon DEF SenderNext, SenderStep

-----------------------------------------------------------------------------
(* The accounting invariant through the steps of a receiver *)

(* Leaving out a subset of a finite set lowers its cardinality by that of
   the subset. *)
LEMMA CountWithout ==
  ASSUME NEW S, IsFiniteSet(S), NEW T, T \subseteq S
  PROVE  /\ IsFiniteSet(S \ T) /\ IsFiniteSet(T)
         /\ Cardinality(S) \in Nat /\ Cardinality(T) \in Nat
         /\ Cardinality(S \ T) = Cardinality(S) - Cardinality(T)
  <1>1. S \cap T = T
    BY Zenon
  <1>2. IsFiniteSet(S \ T) /\ Cardinality(S \ T) = Cardinality(S) - Cardinality(S \cap T)
    BY FS_Difference, Zenon
  <1>3. IsFiniteSet(T)
    BY FS_Subset, Zenon
  <1>4. Cardinality(S) \in Nat /\ Cardinality(T) \in Nat
    BY <1>3, FS_CardinalityType, Zenon
  <1> QED BY <1>1, <1>2, <1>3, <1>4, Zenon

(* What a step of a receiver does to the counters. *)
LEMMA ReceiverCounters ==
  ASSUME TypeOK, NEW r \in Receivers, ReceiverNext(r)
  PROVE  /\ \A o \in Receivers : o # r => rpc'[o] = rpc[o]
         /\ \/ FetchSub(r)
            \/ AddPermits(r)
            \/ /\ rpc[r] # "subtracted" /\ rpc'[r] # "subtracted"
               /\ UNCHANGED <<permits, size>>
               /\ ~(taken' = [taken EXCEPT ![r] = {}]) \/ taken' = taken
  <1> USE DEF shared, recvLocals, ReceiverGoto, Return
  <1>0. rpc \in [Receivers -> ReceiverPC] /\ taken \in [Receivers -> SUBSET Message]
    BY Zenon DEF TypeOK
  <1>1. CASE BeginReceive(r) \/ RecvCancel(r) \/ RecvWake(r)
    BY <1>0, <1>1, Zenon DEF BeginReceive, TryRecv, Recv, Clear, Begin, RecvCancel, RecvWake, FirstPop
  <1>2. CASE CheckBackpressure(r) \/ ResetBackpressure(r)
    BY <1>0, <1>2, Zenon DEF CheckBackpressure, ResetBackpressure
  <1>3. CASE FetchSub(r)
    BY <1>0, <1>3, Zenon DEF FetchSub
  <1>4. CASE AddPermits(r)
    BY <1>0, <1>4, Zenon DEF AddPermits
  <1>5. ASSUME NEW m, Take(r, m) PROVE ~(taken' = [taken EXCEPT ![r] = {}])
    <2>1. m \in taken'[r]
      BY <1>0, <1>5, Zenon DEF Take
    <2> QED BY <1>0, <2>1, Zenon
  <1>6. CASE PopCritical(r) \/ ClearCritical(r)
    BY <1>0, <1>5, <1>6, Zenon DEF PopCritical, ClearCritical
  <1>7. CASE PopNormal(r) \/ ClearNormal(r)
    BY <1>0, <1>5, <1>7, Zenon DEF PopNormal, ClearNormal
  <1> QED BY <1>1, <1>2, <1>3, <1>4, <1>6, <1>7, Zenon DEF ReceiverNext, ReceiverStep

(* The accounting survives every step of a receiver: a pop moves a message
   from a queue to the receiver, fetch_sub counts out exactly the messages
   the receiver holds, and add_permits returns exactly theirs. *)
LEMMA ReceiverCount ==
  ASSUME TypeInv, OrderInv, CountInv, NEW r \in Receivers, ReceiverNext(r)
  PROVE  CountInv'
  <1>t. TypeOK
    BY Zenon DEF TypeInv
  <1>0. /\ rpc \in [Receivers -> ReceiverPC] /\ taken \in [Receivers -> SUBSET Message]
        /\ queue \in Seq(Message) /\ critical_queue \in Seq(Message)
        /\ permits \in Nat /\ size \in Int /\ Capacity \in Nat
    BY <1>t, MailboxAssumption, Zenon DEF TypeOK
  <1>1. UNCHANGED <<spc, sent, critical>>
    BY ReceiverCases, Zenon DEF senderVars, sendLocals
  <1>2. \A s \in Senders : msg(s)' = msg(s) /\ (Carrying(s)' <=> Carrying(s))
    BY <1>1, Zenon DEF msg, Carrying
  <1>3. \A o \in Receivers : o # r => rpc'[o] = rpc[o]
    BY <1>t, ReceiverCounters, Zenon
  <1>4. /\ \A m \in taken[r] : m \notin Range(queue) /\ m \notin Range(critical_queue)
        /\ \A m \in taken[r] : \A s \in Senders : spc[s] \in {"acquired", "counted"} => m # msg(s)
        /\ \A m \in taken[r] : \A o \in Receivers : o # r => m \notin taken[o]
    BY Apart, Zenon DEF OrderInv
  <1>5. CASE FetchSub(r)
    <2>1. /\ rpc[r] = "took" /\ rpc'[r] = "subtracted" /\ size' = size - Cardinality(taken[r])
          /\ UNCHANGED <<permits, queue, critical_queue, taken>>
      BY <1>0, <1>5, Zenon DEF FetchSub, ReceiverGoto, recvLocals
    <2>2. Slotted' = Slotted
      BY <1>2, <2>1, SlottedMembers, Zenon
    <2>3. Counted' = Counted \ taken[r] /\ taken[r] \subseteq Counted
      BY <1>1, <1>2, <1>3, <1>4, <2>1, CountedMembers
    <2>4. Cardinality(Counted') = Cardinality(Counted) - Cardinality(taken[r])
      BY <2>3, CountedFinite, CountWithout, Zenon
    <2> QED BY <2>1, <2>2, <2>4, Zenon DEF CountInv, PermitConservation
  <1>6. CASE AddPermits(r)
    <2>1. /\ rpc[r] = "subtracted" /\ rpc'[r] # "subtracted"
          /\ permits' = permits + Cardinality(taken[r])
          /\ taken'[r] = {} /\ \A o \in Receivers : o # r => taken'[o] = taken[o]
          /\ UNCHANGED <<size, queue, critical_queue>>
      BY <1>0, <1>6, Zenon DEF AddPermits, ReceiverGoto
    <2>2. Slotted' = Slotted \ taken[r] /\ taken[r] \subseteq Slotted
      BY <1>2, <1>4, <2>1, SlottedMembers DEF Carrying
    <2>3. Counted' = Counted
      BY <1>1, <1>2, <1>3, <2>1, CountedMembers, Zenon
    <2>4. /\ IsFiniteSet(Slotted') /\ Cardinality(Slotted) \in Nat /\ Cardinality(taken[r]) \in Nat
          /\ Cardinality(Slotted') = Cardinality(Slotted) - Cardinality(taken[r])
      BY <2>2, CountWithout, Zenon DEF CountInv
    <2>5. permits + Cardinality(Slotted) = Capacity /\ permits \in Int
      BY <1>0 DEF CountInv, PermitConservation
    <2>6. permits' + Cardinality(Slotted') = Capacity
      BY <2>1, <2>4, <2>5
    <2> QED BY <2>1, <2>3, <2>4, <2>6, Zenon DEF CountInv, PermitConservation
  <1>7. CASE ~FetchSub(r) /\ ~AddPermits(r)
    <2>1. /\ rpc[r] # "subtracted" /\ rpc'[r] # "subtracted"
          /\ UNCHANGED <<permits, size>>
          /\ ~(taken' = [taken EXCEPT ![r] = {}]) \/ taken' = taken
      BY <1>t, <1>7, ReceiverCounters, Zenon
    <2>2. \A x : \/ x \in Range(queue') \/ x \in Range(critical_queue') \/ x \in taken'[r]
              <=> \/ x \in Range(queue) \/ x \in Range(critical_queue) \/ x \in taken[r]
      <3>1. ASSUME NEW m, Take(r, m) PROVE taken'[r] = taken[r] \cup {m}
        BY <1>0, <3>1, Zenon DEF Take
      <3>2. CASE queue # <<>> /\ Take(r, Head(queue)) /\ queue' = Tail(queue) /\ critical_queue' = critical_queue
        <4>1. Range(queue) = Range(queue') \cup {Head(queue)}
          BY <1>0, <3>2, RangeTail, Zenon
        <4> QED BY <3>1, <3>2, <4>1
      <3>3. CASE critical_queue # <<>> /\ Take(r, Head(critical_queue)) /\ critical_queue' = Tail(critical_queue) /\ queue' = queue
        <4>1. Range(critical_queue) = Range(critical_queue') \cup {Head(critical_queue)}
          BY <1>0, <3>3, RangeTail, Zenon
        <4> QED BY <3>1, <3>3, <4>1, Zenon
      <3>4. CASE UNCHANGED <<queue, critical_queue, last>> /\ taken' = taken
        BY <3>4, Zenon
      <3> QED BY <2>1, <3>2, <3>3, <3>4, ReceiverCases, Zenon
    <2>3. \A o \in Receivers : o # r => taken'[o] = taken[o]
      BY <1>0, ReceiverCases, Zenon DEF Take
    <2>4. Slotted' = Slotted
      <3>1. \A x : (\E o \in Receivers : x \in taken'[o]) <=> (x \in taken'[r] \/ \E o \in Receivers : o # r /\ x \in taken[o])
        BY <2>3, Zenon
      <3>2. \A x : (\E o \in Receivers : x \in taken[o]) <=> (x \in taken[r] \/ \E o \in Receivers : o # r /\ x \in taken[o])
        BY Zenon
      <3> QED BY <1>2, <2>2, <3>1, <3>2, SlottedMembers, Zenon
    <2>5. Counted' = Counted
      <3>1. \A x : (\E o \in Receivers : rpc'[o] # "subtracted" /\ x \in taken'[o])
                     <=> (x \in taken'[r] \/ \E o \in Receivers : o # r /\ rpc[o] # "subtracted" /\ x \in taken[o])
        BY <1>3, <2>1, <2>3, Zenon
      <3>2. \A x : (\E o \in Receivers : rpc[o] # "subtracted" /\ x \in taken[o])
                     <=> (x \in taken[r] \/ \E o \in Receivers : o # r /\ rpc[o] # "subtracted" /\ x \in taken[o])
        BY <2>1, Zenon
      <3>3. \A x : x \in Counted' <=> x \in Counted
        BY <1>1, <1>2, <2>2, <3>1, <3>2, CountedMembers, Zenon
      <3> QED BY <3>3, Zenon
    <2> QED BY <2>1, <2>4, <2>5, CountSame, Zenon
  <1> QED BY <1>5, <1>6, <1>7, Zenon

CountedInv == OrderedInv /\ CountInv

(* Nothing holds a slot in the initial state. *)
LEMMA InitCount == Init => CountInv
  <1> SUFFICES ASSUME Init PROVE CountInv
    BY Zenon
  <1>1. Range(queue) = {} /\ Range(critical_queue) = {}
    BY DEF Init, Range
  <1>2. Slotted = {}
    BY <1>1, SlottedMembers, Zenon DEF Init, Carrying
  <1>3. Counted = {}
    BY <1>1, CountedMembers, Zenon DEF Init
  <1> QED BY <1>2, <1>3, FS_EmptySet, MailboxAssumption DEF Init, CountInv, PermitConservation

(* Every step keeps the accounting. *)
LEMMA NextCount == CountedInv /\ [Next]_vars => CountedInv'
  <1> SUFFICES ASSUME CountedInv, [Next]_vars PROVE CountInv'
    BY NextOrder, Zenon DEF CountedInv
  <1>0. TypeInv /\ OrderInv /\ CountInv
    BY Zenon DEF CountedInv, OrderedInv
  <1>1. CASE UNCHANGED vars
    <2>1. Slotted' = Slotted /\ Counted' = Counted
      BY <1>1, Zenon DEF vars, shared, senderVars, receiverVars, sendLocals, recvLocals, Slotted, Counted, Queued, msg
    <2> QED BY <1>0, <1>1, <2>1, CountSame, Zenon DEF vars, shared
  <1> QED BY <1>0, <1>1, SenderCount, ReceiverCount, StepCases, Zenon

(* The accounting invariant holds in every reachable state. *)
LEMMA CountedInvariant == Spec => []CountedInv
  <1>1. Init => CountedInv
    BY InitTypeInv, InitOrder, InitCount, Zenon DEF CountedInv, OrderedInv
  <1> QED BY <1>1, NextCount, PTL DEF Spec

(* Permits and slot holders add up to the capacity in every state of every
   interleaving. *)
THEOREM PermitsConserved == Spec => []PermitConservation
  <1>1. CountedInv => PermitConservation
    BY Zenon DEF CountedInv, CountInv
  <1> QED BY <1>1, CountedInvariant, PTL

(* len() counts the messages in the mailbox, up to the steps in flight, and
   never leaves 0..capacity. *)
THEOREM SizeExact == Spec => []SizeAccounting
  <1>1. CountedInv => SizeAccounting
    <2> SUFFICES ASSUME CountedInv PROVE SizeAccounting
      BY Zenon
    <2>1. CountInv /\ permits \in Nat /\ Capacity \in Nat
      BY MailboxAssumption, Zenon DEF CountedInv, OrderedInv, TypeInv, TypeOK
    <2>2. /\ Cardinality(Counted) <= Cardinality(Slotted)
          /\ Cardinality(Counted) \in Nat /\ Cardinality(Slotted) \in Nat
      BY <2>1, CountedFinite, FS_Subset, FS_CardinalityType, Zenon DEF CountInv
    <2> QED BY <2>1, <2>2 DEF CountInv, PermitConservation, SizeAccounting
  <1> QED BY <1>1, CountedInvariant, PTL

(* A sequence without repetitions has as many members as places. *)
LEMMA RangeCardinality ==
  ASSUME NEW q \in Seq(Message), \A i, j \in 1..Len(q) : i # j => q[i] # q[j]
  PROVE  IsFiniteSet(Range(q)) /\ Cardinality(Range(q)) = Len(q)
  <1>1. Len(q) \in Nat /\ q \in [1..Len(q) -> Range(q)] /\ DOMAIN q = 1..Len(q)
    BY DEF Range
  <1>2. q \in Surjection(1..Len(q), Range(q)) /\ q \in Injection(1..Len(q), Range(q))
    BY <1>1, Zenon DEF Surjection, Injection, IsInjective, Range
  <1>3. IsFiniteSet(1..Len(q)) /\ Cardinality(1..Len(q)) = Len(q)
    BY <1>1, FS_Interval
  <1> QED BY <1>2, <1>3, FS_Surjection, Zenon

(* Per-sender order makes the messages of a queue distinct. *)
LEMMA OrderedDistinct ==
  ASSUME NEW q \in Seq(Message), NEW c, NEW lo, NEW hi, Ordered(q, c, lo, hi)
  PROVE  \A i, j \in 1..Len(q) : i # j => q[i] # q[j]
  <1> SUFFICES ASSUME NEW i \in 1..Len(q), NEW j \in 1..Len(q), i < j PROVE q[i] # q[j]
    OBVIOUS
  <1>1. q[i] \in Message /\ q[j] \in Message
    OBVIOUS
  <1>2. q[i].seq \in Int
    BY <1>1, MessageFields, Zenon
  <1>3. q[i].from = q[j].from => q[i].seq < q[j].seq
    BY Zenon DEF Ordered
  <1> QED BY <1>2, <1>3

(* The queues together are within the capacity, and strictly within it while
   a sender holds a permit it has not used. *)
LEMMA QueuesBounded ==
  ASSUME CountedInv
  PROVE  /\ Len(queue) + Len(critical_queue) <= Capacity
         /\ \A s \in Senders : spc[s] = "counted" => Len(queue) + Len(critical_queue) < Capacity
  <1>0. TypeInv /\ OrderInv /\ CountInv
    BY Zenon DEF CountedInv, OrderedInv
  <1>1. /\ queue \in Seq(Message) /\ critical_queue \in Seq(Message)
        /\ permits \in Nat /\ Capacity \in Nat
    BY <1>0, MailboxAssumption, Zenon DEF TypeInv, TypeOK
  <1> DEFINE Q == Range(queue)
             C == Range(critical_queue)
  <1>2. IsFiniteSet(Q) /\ Cardinality(Q) = Len(queue)
    <2>1. Ordered(queue, FALSE, Popped(FALSE), Past)
      BY <1>0, Zenon DEF OrderInv
    <2>2. \A i, j \in 1..Len(queue) : i # j => queue[i] # queue[j]
      BY <1>1, <2>1, OrderedDistinct, Zenon
    <2> QED BY <1>1, <2>2, RangeCardinality, Zenon
  <1>3. IsFiniteSet(C) /\ Cardinality(C) = Len(critical_queue)
    <2>1. Ordered(critical_queue, TRUE, Popped(TRUE), Past)
      BY <1>0, Zenon DEF OrderInv
    <2>2. \A i, j \in 1..Len(critical_queue) : i # j => critical_queue[i] # critical_queue[j]
      BY <1>1, <2>1, OrderedDistinct, Zenon
    <2> QED BY <1>1, <2>2, RangeCardinality, Zenon
  <1>4. Q \cap C = {}
    <2>1. \A i \in 1..Len(queue) : InCriticalQueue(queue[i]) = FALSE
      BY <1>0, Zenon DEF OrderInv, Ordered
    <2>2. \A i \in 1..Len(critical_queue) : InCriticalQueue(critical_queue[i]) = TRUE
      BY <1>0, Zenon DEF OrderInv, Ordered
    <2>3. DOMAIN queue = 1..Len(queue) /\ DOMAIN critical_queue = 1..Len(critical_queue)
      BY <1>1
    <2>4. \A x \in Q : ~InCriticalQueue(x)
      BY <2>1, <2>3, Zenon DEF Range
    <2>5. \A x \in C : InCriticalQueue(x)
      BY <2>2, <2>3, Zenon DEF Range
    <2> HIDE DEF Q, C
    <2> QED BY <2>4, <2>5, Zenon
  <1>5. Q \subseteq Slotted /\ C \subseteq Slotted
    BY SlottedMembers, Zenon
  <1> HIDE DEF Q, C
  <1>6. IsFiniteSet(Q \cup C) /\ Cardinality(Q \cup C) = Len(queue) + Len(critical_queue)
    <2>1. Cardinality(Q \cap C) = 0
      BY <1>4, FS_EmptySet, Zenon
    <2>2. IsFiniteSet(Q \cup C)
      BY <1>2, <1>3, FS_Union, Zenon
    <2>3. Cardinality(Q \cup C) = Cardinality(Q) + Cardinality(C) - Cardinality(Q \cap C)
      BY <1>2, <1>3, FS_Union, Zenon
    <2>4. Len(queue) \in Nat /\ Len(critical_queue) \in Nat
      BY <1>1
    <2> QED BY <1>2, <1>3, <2>1, <2>2, <2>3, <2>4
  <1>7. Cardinality(Slotted) = Capacity - permits /\ Cardinality(Slotted) \in Nat /\ IsFiniteSet(Slotted)
    BY <1>0, <1>1, FS_CardinalityType DEF CountInv, PermitConservation
  <1>8. Len(queue) + Len(critical_queue) <= Capacity
    <2>1. Cardinality(Q \cup C) <= Cardinality(Slotted)
      BY <1>5, <1>7, FS_Subset, Zenon
    <2> QED BY <1>1, <1>6, <1>7, <2>1
  <1>9. ASSUME NEW s \in Senders, spc[s] = "counted" PROVE Len(queue) + Len(critical_queue) < Capacity
    <2>1. msg(s) \notin Q \cup C
      BY <1>0, <1>9, Apart, Zenon DEF Q, C
    <2>2. msg(s) \in Slotted
      BY <1>9, SlottedMembers, Zenon DEF Carrying
    <2> DEFINE m == msg(s)
    <2> HIDE DEF m
    <2>3. Cardinality((Q \cup C) \cup {m}) = Len(queue) + Len(critical_queue) + 1
      BY <1>6, <2>1, FS_AddElement, Zenon DEF m
    <2>4. (Q \cup C) \cup {m} \subseteq Slotted
      BY <1>5, <2>2, Zenon DEF m
    <2>5. Cardinality((Q \cup C) \cup {m}) <= Cardinality(Slotted)
      BY <1>7, <2>4, FS_Subset, Zenon
    <2> QED BY <1>1, <1>7, <2>3, <2>5
  <1> QED BY <1>8, <1>9, Zenon

(* The mailbox is hard-bounded, and a push that follows an acquire never
   finds its queue full. *)
THEOREM BoundHolds == Spec => []HardBound
  <1>1. CountedInv => HardBound
    <2> SUFFICES ASSUME CountedInv PROVE HardBound
      BY Zenon
    <2>1. ASSUME NEW s \in Senders, spc[s] = "counted" PROVE Len(TargetQueue(s)) < Capacity
      <3>1. Len(queue) + Len(critical_queue) < Capacity
        BY <2>1, QueuesBounded, Zenon
      <3>2. TargetQueue(s) = queue \/ TargetQueue(s) = critical_queue
        BY Zenon DEF TargetQueue
      <3>3. queue \in Seq(Message) /\ critical_queue \in Seq(Message) /\ Capacity \in Nat
        BY MailboxAssumption, Zenon DEF CountedInv, OrderedInv, TypeInv, TypeOK
      <3> QED BY <3>1, <3>2, <3>3
    <2> QED BY <2>1, QueuesBounded, Zenon DEF HardBound
  <1> QED BY <1>1, CountedInvariant, PTL

-----------------------------------------------------------------------------
(* Wakeups and refinement *)

WakeTyped == OrderedInv /\ WakeInv

(* Without the priority queue the critical queue stays empty. *)
LEMMA CriticalUnused ==
  ASSUME OrderedInv
  PROVE  ~PriorityQueue => critical_queue = <<>>
  <1> SUFFICES ASSUME critical_queue # <<>> PROVE PriorityQueue
    BY Zenon
  <1>1. critical_queue \in Seq(Message)
    BY Zenon DEF OrderedInv, TypeInv, TypeOK
  <1>2. 1 \in 1..Len(critical_queue)
    BY <1>1
  <1>3. InCriticalQueue(critical_queue[1]) = TRUE
    BY <1>2, Zenon DEF OrderedInv, OrderInv, Ordered
  <1> QED BY <1>3, Zenon DEF InCriticalQueue

(* A step of a sender: a push leaves a notification pending, and
   notify_waiters reaches every receiver that is enabled. *)
LEMMA SenderWake ==
  ASSUME TypeInv, WakeInv, NEW s \in Senders, SenderNext(s)
  PROVE  WakeInv'
  <1> USE DEF SenderGoto, sendLocals, receiverVars, recvLocals, shared, notify
  <1>0. spc \in [Senders -> SenderPC]
    BY Zenon DEF TypeInv, TypeOK
  <1>1. UNCHANGED <<op, rpc, enabled>>
    BY Zenon DEF SenderNext, SenderStep, TrySend, Send, Offer, SendCancel, SendGranted, FetchAdd, Push,
           StoreBackpressure, NotifyWaiters
  <1>2. CASE NotifyWaiters(s)
    BY <1>1, <1>2, Zenon DEF NotifyWaiters, WakeInv
  <1>3. CASE ~NotifyWaiters(s)
    <2>1. notified' = notified
      BY <1>3, Zenon DEF SenderNext, SenderStep, TrySend, Send, Offer, SendCancel, SendGranted, FetchAdd,
                  Push, StoreBackpressure
    <2>2. NotifyPending => NotifyPending'
      BY <1>0, <1>3, Zenon DEF NotifyPending, SenderNext, SenderStep, TrySend, Send, Offer, AcquireFree, SendCancel,
                        SendGranted, FetchAdd, Push, StoreBackpressure
    <2>3. UNCHANGED <<queue, critical_queue>> \/ NotifyPending'
      BY <1>0, <1>3, Zenon DEF NotifyPending, SenderNext, SenderStep, TrySend, Send, Offer, SendCancel,
                        SendGranted, FetchAdd, Push, StoreBackpressure
    <2> QED BY <1>1, <2>1, <2>2, <2>3, Zenon DEF WakeInv
  <1> QED BY <1>2, <1>3, Zenon

(* A step of a receiver only removes messages; recv registers before it
   looks, and parks only when both queues were found empty. *)
LEMMA ReceiverWake ==
  ASSUME OrderedInv, WakeInv, NEW r \in Receivers, ReceiverNext(r)
  PROVE  WakeInv'
  <1> USE DEF shared, recvLocals, notify
  <1>0. /\ rpc \in [Receivers -> ReceiverPC] /\ enabled \subseteq Receivers /\ notified \subseteq enabled
        /\ op \in [Receivers -> {"none", "try_recv", "recv", "clear"}]
    BY Zenon DEF OrderedInv, TypeInv, TypeOK
  <1>1. NotifyPending' = NotifyPending
    BY ReceiverCases, Zenon DEF NotifyPending, senderVars
  <1>2. (queue = <<>> => queue' = <<>>) /\ (critical_queue = <<>> => critical_queue' = <<>>)
    BY ReceiverCases, Zenon
  <1>3. \A o \in Receivers : o # r => /\ rpc'[o] = rpc[o] /\ op'[o] = op[o]
                                      /\ o \in enabled' <=> o \in enabled
                                      /\ o \in notified' <=> o \in notified
    BY <1>0, Zenon DEF ReceiverNext, ReceiverStep, BeginReceive, TryRecv, Recv, Clear, Begin, EnableNotified, RecvCancel,
       RecvWake, DropNotified, Return, ReceiverGoto, Take, PopCritical, PopNormal, ClearCritical, ClearNormal,
       FetchSub, AddPermits, CheckBackpressure, ResetBackpressure
  <1> DEFINE Awake(o) ==
        /\ op[o] = "recv" => o \in enabled
        /\ rpc[o] = "parked" => op[o] = "recv"
        /\ op[o] = "recv" /\ o \notin notified /\ ~NotifyPending =>
             /\ rpc[o] \in {"popNormal", "parked"} => critical_queue = <<>>
             /\ rpc[o] = "parked" => queue = <<>>
  <1>4. Awake(r)
    BY Zenon DEF WakeInv
  <1>5. Awake(r)'
    <2> USE DEF ReceiverGoto, Return, DropNotified
    <2>1. CASE TryRecv(r) \/ Clear(r) \/ RecvCancel(r) \/ ResetBackpressure(r)
      BY <1>0, <2>1, Zenon DEF TryRecv, Clear, Begin, RecvCancel, ResetBackpressure, FirstPop
    <2>2. CASE Recv(r) \/ RecvWake(r)
      <3>1. r \in enabled' /\ rpc'[r] = FirstPop
        BY <1>0, <2>2, Zenon DEF Recv, RecvWake, Begin, EnableNotified
      <3>2. op'[r] = "recv" /\ critical_queue' = critical_queue
        BY <1>0, <1>4, <2>2, Zenon DEF Recv, RecvWake, Begin
      <3>3. FirstPop = "popNormal" => critical_queue = <<>>
        BY CriticalUnused, Zenon DEF FirstPop
      <3>4. rpc'[r] # "parked"
        BY <3>1, Zenon DEF FirstPop
      <3> QED BY <3>1, <3>2, <3>3, <3>4, Zenon
    <2>3. CASE PopCritical(r)
      BY <1>0, <1>1, <1>4, <2>3, Zenon DEF PopCritical, Take
    <2>4. CASE PopNormal(r)
      BY <1>0, <1>1, <1>4, <2>4, Zenon DEF PopNormal, Take
    <2>5. CASE ClearCritical(r) \/ ClearNormal(r)
      BY <1>0, <1>1, <1>4, <2>5, Zenon DEF ClearCritical, ClearNormal, Take
    <2>6. CASE FetchSub(r) \/ AddPermits(r) \/ CheckBackpressure(r)
      BY <1>0, <1>1, <1>4, <2>6, Zenon DEF FetchSub, AddPermits, CheckBackpressure
    <2> QED BY <2>1, <2>2, <2>3, <2>4, <2>5, <2>6, Zenon DEF ReceiverNext, ReceiverStep, BeginReceive
  <1>6. \A o \in Receivers : o # r => Awake(o)'
    BY <1>1, <1>2, <1>3, Zenon DEF WakeInv
  <1> QED BY <1>5, <1>6, Zenon DEF WakeInv

(* A receiver parked in recv with a message in the mailbox is notified, or is
   about to be. *)
THEOREM WakeupsKept == Spec => []NoLostWakeup
  <1>1. Init => WakeTyped
    BY InitTypeInv, InitOrder, Zenon DEF Init, WakeInv, WakeTyped, OrderedInv
  <1>2. WakeTyped /\ [Next]_vars => WakeTyped'
    <2> SUFFICES ASSUME WakeTyped, [Next]_vars PROVE WakeInv'
      BY NextOrder, Zenon DEF WakeTyped
    <2>1. CASE UNCHANGED vars
      BY <2>1, Zenon DEF vars, shared, notify, senderVars, receiverVars, recvLocals, WakeTyped, WakeInv, NotifyPending
    <2> QED BY <2>1, StepCases, SenderWake, ReceiverWake, Zenon DEF WakeTyped, OrderedInv
  <1>3. WakeTyped => NoLostWakeup
    <2>1. queue = <<>> => Range(queue) = {}
      BY DEF Range
    <2>2. critical_queue = <<>> => Range(critical_queue) = {}
      BY DEF Range
    <2> QED BY <2>1, <2>2, Zenon DEF WakeTyped, WakeInv, NoLostWakeup, NotifyPending, Queued
  <1> QED BY <1>1, <1>2, <1>3, PTL DEF Spec

(* Every step of the mailbox is a step of the bounded queue, or leaves the
   queues alone: the interleaved implementation with its semaphore, counter
   and notifications implements BoundedMailbox. *)
THEOREM Refinement == Spec => Refines
  <1>1. Init => Bounded!Init
    BY Zenon DEF Init, Bounded!Init
  <1>2. CountedInv /\ [Next]_vars => [Bounded!Next]_<<queue, critical_queue>>
    <2> SUFFICES ASSUME CountedInv, [Next]_vars, ~UNCHANGED <<queue, critical_queue>> PROVE Bounded!Next
      BY Zenon
    <2>t. TypeOK
      BY Zenon DEF CountedInv, OrderedInv, TypeInv
    <2>1. ASSUME NEW s \in Senders, SenderNext(s) PROVE Bounded!Next
      <3>1. Push(s) /\ Len(TargetQueue(s)) < Capacity
        BY <2>1, Zenon DEF SenderNext, SenderStep, TrySend, Send, Offer, SendCancel, SendGranted, FetchAdd, Push,
                    StoreBackpressure, NotifyWaiters, shared
      <3>2. Bounded!Room
        BY <3>1, QueuesBounded, Zenon DEF Push, Bounded!Room
      <3>3. msg(s) \in Message
        BY <2>t, Zenon DEF TypeOK, msg, Message
      <3>4. Bounded!Accept(msg(s))
        BY <3>1, <3>2, Zenon DEF Push, Bounded!Accept
      <3> QED BY <3>3, <3>4, Zenon DEF Bounded!Next
    <2>2. ASSUME NEW r \in Receivers, ReceiverNext(r) PROVE Bounded!Next
      BY <2>2, ReceiverCases, Zenon DEF Bounded!Next, Bounded!RemoveNormal, Bounded!RemoveUrgent
    <2>3. ~UNCHANGED vars
      BY Zenon DEF vars, shared
    <2> QED BY <2>1, <2>2, <2>3, StepCases, Zenon
  <1> QED BY <1>1, <1>2, CountedInvariant, PTL DEF Spec, Refines, Bounded!Spec
=============================================================================
