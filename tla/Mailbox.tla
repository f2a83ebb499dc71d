------------------------------ MODULE Mailbox ------------------------------
(***************************************************************************)
(* The bounded mailbox of an actor (mailbox.rs), one action per atomic     *)
(* step: the semaphore that gates capacity, the size counter, the two      *)
(* lock-free queues, the backpressure flag and the Notify that wakes recv. *)
(* Any number of senders run try_send and send, any number of receivers    *)
(* run try_recv, recv and clear, and all steps interleave.                 *)
(*                                                                         *)
(* The tokio Semaphore is fair: a released permit goes to the oldest       *)
(* waiter.  Here the first `permits' members of waitq are the waiters that *)
(* have been assigned a permit and have not run yet, so a permit is free   *)
(* for a newcomer only when permits > Len(waitq).                          *)
(***************************************************************************)
EXTENDS Seqs

CONSTANTS Senders,            \* tasks that call try_send and send
          Receivers,          \* tasks that call try_recv, recv and clear
          Capacity,           \* MailboxConfig::capacity
          BackpressureCount,  \* MailboxConfig::backpressure_count()
          PriorityQueue,      \* MailboxConfig::priority_queue
          MaxSends            \* bound: messages offered by each sender

(* ArrayQueue::new panics on a capacity of zero. *)
ASSUME MailboxAssumption ==
  /\ Capacity \in Nat \ {0}
  /\ BackpressureCount \in 0..Capacity
  /\ PriorityQueue \in BOOLEAN
  /\ MaxSends \in Nat
  /\ IsFiniteSet(Senders) /\ IsFiniteSet(Receivers)

VARIABLES permits,         \* semaphore permits no task has taken up
          waitq,           \* senders awaiting Semaphore::acquire, oldest first
          size, queue, critical_queue, backpressure,
          enabled,         \* receivers whose Notified future is registered
          notified,        \* ... and has been notified
          spc, rpc,        \* what each sender and each receiver does next
          critical, seen,  \* per sender: its message's priority, its local `size'
          op, taken,       \* per receiver: its call, the messages it popped
          sent,            \* per sender: messages offered so far
          last             \* history: the last message popped, by sender and class

shared == <<permits, waitq, size, queue, critical_queue, backpressure>>
notify == <<enabled, notified>>
sendLocals == <<critical, seen, sent>>
recvLocals == <<op, taken, last>>
senderVars == <<spc, sendLocals>>
receiverVars == <<rpc, recvLocals>>
vars == <<shared, notify, senderVars, receiverVars>>

Message == [from : Senders, seq : 0..MaxSends, critical : BOOLEAN]
msg(s) == [from |-> s, seq |-> sent[s], critical |-> critical[s]]
InCriticalQueue(m) == PriorityQueue /\ m.critical

SenderPC == {"idle", "waiting", "acquired", "counted", "pushed", "stored"}
ReceiverPC == {"idle", "popCritical", "popNormal", "parked", "clearCritical",
               "clearNormal", "took", "subtracted", "check", "reset"}

Init ==
  /\ permits = Capacity
  /\ waitq = <<>>
  /\ size = 0
  /\ queue = <<>> /\ critical_queue = <<>>
  /\ backpressure = FALSE
  /\ enabled = {} /\ notified = {}
  /\ spc = [s \in Senders |-> "idle"] /\ rpc = [r \in Receivers |-> "idle"]
  /\ critical = [s \in Senders |-> FALSE]
  /\ seen = [s \in Senders |-> 0]
  /\ op = [r \in Receivers |-> "none"]
  /\ taken = [r \in Receivers |-> {}]
  /\ sent = [s \in Senders |-> 0]
  /\ last = [s \in Senders |-> [c \in BOOLEAN |-> 0]]

SenderGoto(s, label) == spc' = [spc EXCEPT ![s] = label]
ReceiverGoto(r, label) == rpc' = [rpc EXCEPT ![r] = label]

-----------------------------------------------------------------------------
(* Sending *)

(* The caller offers its next message. *)
Offer(s, c) ==
  /\ spc[s] = "idle" /\ sent[s] < MaxSends
  /\ sent' = [sent EXCEPT ![s] = @ + 1]
  /\ critical' = [critical EXCEPT ![s] = c]
  /\ UNCHANGED <<size, queue, critical_queue, backpressure, notify, seen, receiverVars>>

PermitFree == permits > Len(waitq)

(* Fault: the permit is not forgotten, and returns when it is dropped. *)
AcquireNotForgotten(s) == PermitFree /\ SenderGoto(s, "acquired") /\ UNCHANGED <<permits, waitq>>

(* A permit is free: taken at once, and forgotten. *)
AcquireFree(s) ==
  /\ PermitFree
  /\ permits' = permits - 1
  /\ SenderGoto(s, "acquired")
  /\ UNCHANGED waitq

(* try_send: without a permit the message goes back to the caller. *)
TrySend(s, c) ==
  /\ Offer(s, c)
  /\ \/ AcquireFree(s)
     \/ ~PermitFree /\ UNCHANGED <<permits, waitq, spc>>

(* send: without a permit the caller waits its turn. *)
Send(s, c) ==
  /\ Offer(s, c)
  /\ \/ AcquireFree(s)
     \/ /\ ~PermitFree
        /\ waitq' = Append(waitq, s)
        /\ SenderGoto(s, "waiting")
        /\ UNCHANGED permits

Place(s) == CHOOSE i \in 1..Len(waitq) : waitq[i] = s
LeaveWaitq(s) == waitq' = RemoveAt(waitq, Place(s))

(* Fault: a waiter goes ahead without a permit assigned to it. *)
SendUngranted(s) ==
  /\ spc[s] = "waiting"
  /\ permits' = permits - 1
  /\ LeaveWaitq(s)
  /\ SenderGoto(s, "acquired")
  /\ UNCHANGED <<size, queue, critical_queue, backpressure, notify, sendLocals, receiverVars>>

(* send: the permit assigned to this waiter is taken up. *)
SendGranted(s) ==
  /\ spc[s] = "waiting" /\ Place(s) <= permits
  /\ permits' = permits - 1
  /\ LeaveWaitq(s)
  /\ SenderGoto(s, "acquired")
  /\ UNCHANGED <<size, queue, critical_queue, backpressure, notify, sendLocals, receiverVars>>

(* The send future is dropped while it waits; a permit already assigned to
   it passes to the next waiter. *)
SendCancel(s) ==
  /\ spc[s] = "waiting"
  /\ LeaveWaitq(s)
  /\ SenderGoto(s, "idle")
  /\ UNCHANGED <<permits, size, queue, critical_queue, backpressure, notify, sendLocals, receiverVars>>

FetchAdd(s) ==
  /\ spc[s] = "acquired"
  /\ size' = size + 1
  /\ seen' = [seen EXCEPT ![s] = size + 1]
  /\ SenderGoto(s, "counted")
  /\ UNCHANGED <<permits, waitq, queue, critical_queue, backpressure, notify, critical, sent, receiverVars>>

TargetQueue(s) == IF InCriticalQueue(msg(s)) THEN critical_queue ELSE queue

(* Fault: the message jumps the queue. *)
PushFront(s) ==
  /\ spc[s] = "counted"
  /\ queue' = <<msg(s)>> \o queue
  /\ SenderGoto(s, "pushed")
  /\ UNCHANGED <<permits, waitq, size, critical_queue, backpressure, notify, sendLocals, receiverVars>>

(* ArrayQueue::push; a full array gives the slot back and fails the call. *)
Push(s) ==
  /\ spc[s] = "counted"
  /\ IF Len(TargetQueue(s)) < Capacity
       THEN /\ IF InCriticalQueue(msg(s))
                 THEN /\ critical_queue' = Append(critical_queue, msg(s))
                      /\ UNCHANGED queue
                 ELSE /\ queue' = Append(queue, msg(s))
                      /\ UNCHANGED critical_queue
            /\ SenderGoto(s, "pushed")
            /\ UNCHANGED <<size, permits>>
       ELSE /\ size' = size - 1
            /\ permits' = permits + 1
            /\ SenderGoto(s, "idle")
            /\ UNCHANGED <<queue, critical_queue>>
  /\ UNCHANGED <<waitq, backpressure, notify, sendLocals, receiverVars>>

StoreBackpressure(s) ==
  /\ spc[s] = "pushed"
  /\ backpressure' = (backpressure \/ seen[s] >= BackpressureCount)
  /\ SenderGoto(s, "stored")
  /\ UNCHANGED <<permits, waitq, size, queue, critical_queue, notify, sendLocals, receiverVars>>

NotifyWaiters(s) ==
  /\ spc[s] = "stored"
  /\ notified' = notified \cup enabled
  /\ SenderGoto(s, "idle")
  /\ seen' = [seen EXCEPT ![s] = 0]
  /\ UNCHANGED <<shared, enabled, critical, sent, receiverVars>>

-----------------------------------------------------------------------------
(* Receiving *)

Begin(r, call) ==
  /\ rpc[r] = "idle"
  /\ op' = [op EXCEPT ![r] = call]

FirstPop == IF PriorityQueue THEN "popCritical" ELSE "popNormal"

TryRecv(r) ==
  /\ Begin(r, "try_recv")
  /\ ReceiverGoto(r, FirstPop)
  /\ UNCHANGED <<shared, notify, senderVars, taken, last>>

(* A fresh Notified, enabled before the mailbox is looked at. *)
EnableNotified(r) ==
  /\ enabled' = enabled \cup {r}
  /\ notified' = notified \ {r}

Recv(r) ==
  /\ Begin(r, "recv")
  /\ EnableNotified(r)
  /\ ReceiverGoto(r, FirstPop)
  /\ UNCHANGED <<shared, senderVars, taken, last>>

DropNotified(r) ==
  /\ enabled' = enabled \ {r}
  /\ notified' = notified \ {r}

(* Fault: the Notified is made once, outside the loop. *)
RecvWakeSpent(r) ==
  /\ rpc[r] = "parked" /\ r \in notified
  /\ DropNotified(r)
  /\ ReceiverGoto(r, FirstPop)
  /\ UNCHANGED <<shared, senderVars, recvLocals>>

(* notified.await returns and recv goes round its loop. *)
RecvWake(r) ==
  /\ rpc[r] = "parked" /\ r \in notified
  /\ EnableNotified(r)
  /\ ReceiverGoto(r, FirstPop)
  /\ UNCHANGED <<shared, senderVars, recvLocals>>

(* The call returns and its locals go: the Notified of a recv is dropped. *)
Return(r) ==
  /\ DropNotified(r)
  /\ ReceiverGoto(r, "idle")
  /\ op' = [op EXCEPT ![r] = "none"]

(* The recv future is dropped while it is parked. *)
RecvCancel(r) ==
  /\ rpc[r] = "parked"
  /\ Return(r)
  /\ UNCHANGED <<shared, senderVars, taken, last>>

(* m is popped, by try_recv or by clear. *)
Take(r, m) ==
  /\ taken' = [taken EXCEPT ![r] = @ \cup {m}]
  /\ last' = [last EXCEPT ![m.from][InCriticalQueue(m)] = m.seq]
  /\ UNCHANGED op

PopCritical(r) ==
  /\ rpc[r] = "popCritical"
  /\ IF critical_queue # <<>>
       THEN /\ ReceiverGoto(r, "took") /\ Take(r, Head(critical_queue))
            /\ critical_queue' = Tail(critical_queue)
       ELSE /\ ReceiverGoto(r, "popNormal")
            /\ UNCHANGED <<recvLocals, critical_queue>>
  /\ UNCHANGED <<permits, waitq, size, queue, backpressure, notify, senderVars>>

(* Fault: the Notified is created after the mailbox was found empty. *)
PopThenEnable(r) ==
  /\ rpc[r] = "popNormal"
  /\ IF queue # <<>>
       THEN /\ ReceiverGoto(r, "took") /\ Take(r, Head(queue))
            /\ queue' = Tail(queue)
            /\ UNCHANGED notify
       ELSE /\ UNCHANGED <<queue, taken, last>>
            /\ IF op[r] = "recv" THEN ReceiverGoto(r, "parked") /\ EnableNotified(r) /\ UNCHANGED op
                                 ELSE Return(r)
  /\ UNCHANGED <<permits, waitq, size, critical_queue, backpressure, senderVars>>

(* Fault: the message is read and stays in the queue. *)
PeekNormal(r) ==
  /\ rpc[r] = "popNormal" /\ queue # <<>>
  /\ ReceiverGoto(r, "took") /\ Take(r, Head(queue))
  /\ UNCHANGED <<permits, waitq, size, queue, critical_queue, backpressure, notify, senderVars>>

PopNormal(r) ==
  /\ rpc[r] = "popNormal"
  /\ IF queue # <<>>
       THEN /\ ReceiverGoto(r, "took") /\ Take(r, Head(queue))
            /\ queue' = Tail(queue)
            /\ UNCHANGED notify
       ELSE /\ UNCHANGED <<queue, taken, last>>
            /\ IF op[r] = "recv" THEN ReceiverGoto(r, "parked") /\ UNCHANGED <<op, notify>>
                                 ELSE Return(r)
  /\ UNCHANGED <<permits, waitq, size, critical_queue, backpressure, senderVars>>

Clear(r) ==
  /\ Begin(r, "clear")
  /\ ReceiverGoto(r, "clearCritical")
  /\ UNCHANGED <<shared, notify, senderVars, taken, last>>

ClearCritical(r) ==
  /\ rpc[r] = "clearCritical"
  /\ IF critical_queue # <<>>
       THEN /\ UNCHANGED rpc /\ Take(r, Head(critical_queue))
            /\ critical_queue' = Tail(critical_queue)
       ELSE /\ ReceiverGoto(r, "clearNormal")
            /\ UNCHANGED <<recvLocals, critical_queue>>
  /\ UNCHANGED <<permits, waitq, size, queue, backpressure, notify, senderVars>>

ClearNormal(r) ==
  /\ rpc[r] = "clearNormal"
  /\ IF queue # <<>>
       THEN /\ UNCHANGED rpc /\ Take(r, Head(queue))
            /\ queue' = Tail(queue)
       ELSE /\ ReceiverGoto(r, IF taken[r] = {} THEN "reset" ELSE "took")
            /\ UNCHANGED <<recvLocals, queue>>
  /\ UNCHANGED <<permits, waitq, size, critical_queue, backpressure, notify, senderVars>>

(* Fault: one message counted out whatever clear popped. *)
FetchSubOne(r) ==
  /\ rpc[r] = "took"
  /\ size' = size - 1
  /\ ReceiverGoto(r, "subtracted")
  /\ UNCHANGED <<permits, waitq, queue, critical_queue, backpressure, notify, senderVars, recvLocals>>

(* size.fetch_sub, by one for try_recv and by the total for clear *)
FetchSub(r) ==
  /\ rpc[r] = "took"
  /\ size' = size - Cardinality(taken[r])
  /\ ReceiverGoto(r, "subtracted")
  /\ UNCHANGED <<permits, waitq, queue, critical_queue, backpressure, notify, senderVars, recvLocals>>

(* Fault: one permit returned whatever clear popped. *)
AddOnePermit(r) ==
  /\ rpc[r] = "subtracted"
  /\ permits' = permits + 1
  /\ taken' = [taken EXCEPT ![r] = {}]
  /\ ReceiverGoto(r, IF op[r] = "clear" THEN "reset" ELSE "check")
  /\ UNCHANGED <<waitq, size, queue, critical_queue, backpressure, notify, senderVars, op, last>>

(* Fault: clear returns no permits. *)
AddPermitsNotOnClear(r) ==
  /\ rpc[r] = "subtracted"
  /\ permits' = IF op[r] = "clear" THEN permits ELSE permits + 1
  /\ taken' = [taken EXCEPT ![r] = {}]
  /\ ReceiverGoto(r, IF op[r] = "clear" THEN "reset" ELSE "check")
  /\ UNCHANGED <<waitq, size, queue, critical_queue, backpressure, notify, senderVars, op, last>>

AddPermits(r) ==
  /\ rpc[r] = "subtracted"
  /\ permits' = permits + Cardinality(taken[r])
  /\ taken' = [taken EXCEPT ![r] = {}]
  /\ ReceiverGoto(r, IF op[r] = "clear" THEN "reset" ELSE "check")
  /\ UNCHANGED <<waitq, size, queue, critical_queue, backpressure, notify, senderVars, op, last>>

(* check_backpressure: the load of size ... *)
CheckBackpressure(r) ==
  /\ rpc[r] = "check"
  /\ IF size < BackpressureCount \div 2
       THEN ReceiverGoto(r, "reset") /\ UNCHANGED <<op, notify>>
       ELSE Return(r)
  /\ UNCHANGED <<shared, senderVars, taken, last>>

(* ... and the store, which clear makes unconditionally. *)
ResetBackpressure(r) ==
  /\ rpc[r] = "reset"
  /\ backpressure' = FALSE
  /\ Return(r)
  /\ UNCHANGED <<permits, waitq, size, queue, critical_queue, senderVars, taken, last>>

-----------------------------------------------------------------------------
(* Steps inside a call; a task that has begun a call is scheduled again. *)
SenderStep(s) ==
  \/ SendGranted(s) \/ FetchAdd(s) \/ Push(s)
  \/ StoreBackpressure(s) \/ NotifyWaiters(s)

ReceiverStep(r) ==
  \/ RecvWake(r) \/ PopCritical(r) \/ PopNormal(r)
  \/ ClearCritical(r) \/ ClearNormal(r)
  \/ FetchSub(r) \/ AddPermits(r) \/ CheckBackpressure(r) \/ ResetBackpressure(r)

BeginReceive(r) == TryRecv(r) \/ Recv(r) \/ Clear(r)

Next ==
  \/ \E s \in Senders :
       \/ \E c \in BOOLEAN : TrySend(s, c) \/ Send(s, c)
       \/ SendCancel(s)
       \/ SenderStep(s)
  \/ \E r \in Receivers : BeginReceive(r) \/ RecvCancel(r) \/ ReceiverStep(r)

Spec == Init /\ [][Next]_vars

(* Every task that has begun a call is scheduled again, and every receiver
   keeps asking for messages. *)
FairSpec ==
  /\ Spec
  /\ \A s \in Senders : WF_vars(SenderStep(s))
  /\ \A r \in Receivers : WF_vars(ReceiverStep(r)) /\ WF_vars(BeginReceive(r))

-----------------------------------------------------------------------------
(* Properties *)

TypeOK ==
  /\ permits \in Nat
  /\ waitq \in Seq(Senders)
  /\ size \in Int
  /\ queue \in Seq(Message) /\ critical_queue \in Seq(Message)
  /\ backpressure \in BOOLEAN
  /\ enabled \subseteq Receivers /\ notified \subseteq enabled
  /\ spc \in [Senders -> SenderPC] /\ rpc \in [Receivers -> ReceiverPC]
  /\ critical \in [Senders -> BOOLEAN]
  /\ seen \in [Senders -> Int]
  /\ op \in [Receivers -> {"none", "try_recv", "recv", "clear"}]
  /\ taken \in [Receivers -> SUBSET Message]
  /\ sent \in [Senders -> 0..MaxSends]
  /\ last \in [Senders -> [BOOLEAN -> 0..MaxSends]]

Queued == Range(queue) \cup Range(critical_queue)
(* Messages that occupy a permit: a sender has acquired it and not pushed
   yet, the message is queued, or a receiver popped it and has not released. *)
Slotted == {msg(s) : s \in {x \in Senders : spc[x] \in {"acquired", "counted"}}}
             \cup Queued \cup UNION {taken[r] : r \in Receivers}
(* Messages that the size counter counts. *)
Counted == {msg(s) : s \in {x \in Senders : spc[x] = "counted"}}
             \cup Queued
             \cup UNION {taken[r] : r \in {x \in Receivers : rpc[x] # "subtracted"}}

(* Permits are conserved: at every step of every interleaving of try_send,
   send (cancelled or not), try_recv, recv and clear, the permits not taken
   and the messages that hold one add up to the capacity, so no path leaks a
   slot or frees one twice. *)
PermitConservation == permits + Cardinality(Slotted) = Capacity

(* len() is exact up to the steps in flight: the relaxed counter is the
   number of messages counted in and not yet counted out; in particular it
   never wraps below zero, and it never exceeds the capacity. *)
SizeAccounting == size = Cardinality(Counted) /\ size <= Capacity

(* The queues together never hold more than the capacity, so the push that
   follows a successful acquire never finds its array full and the
   "internal queue is full" branch of try_send and send is dead. *)
HardBound ==
  /\ Len(queue) + Len(critical_queue) <= Capacity
  /\ \A s \in Senders : spc[s] = "counted" => Len(TargetQueue(s)) < Capacity

(* No wakeup is lost: when recv is parked with no notification due to it,
   either the mailbox is empty or a sender that has pushed is still to call
   notify_waiters. *)
NoLostWakeup ==
  \A r \in Receivers :
    (rpc[r] = "parked" /\ r \notin notified /\ Queued # {}) =>
      \E s \in Senders : spc[s] \in {"pushed", "stored"}

(* Messages of one sender and one priority class leave the mailbox in the
   order they were sent and never twice, whichever receivers pop them and
   whether by try_recv, recv or clear. *)
PerSenderFifo ==
  [][\A r \in Receivers : \A m \in taken'[r] \ taken[r] :
       m.seq > last[m.from][InCriticalQueue(m)]]_vars

(* The inductive strengthening that the invariants above rest on. *)
(* Every waiting sender is in the semaphore's queue. *)
WaitInv ==
  \A s \in Senders : spc[s] = "waiting" => \E i \in 1..Len(waitq) : waitq[i] = s

(* The messages of a sender that it is no longer about to push. *)
Past ==
  [s \in Senders |-> IF spc[s] \in {"waiting", "acquired", "counted"} THEN sent[s] - 1 ELSE sent[s]]
Popped(c) == [s \in Senders |-> last[s][c]]

(* q holds messages of class c, per sender in the order they were offered,
   all numbered above lo and not above hi. *)
Ordered(q, c, lo, hi) ==
  /\ \A i \in 1..Len(q) :
       /\ InCriticalQueue(q[i]) = c
       /\ lo[q[i].from] < q[i].seq /\ q[i].seq <= hi[q[i].from]
  /\ \A i, j \in 1..Len(q) : (i < j /\ q[i].from = q[j].from) => q[i].seq < q[j].seq

OrderInv ==
  /\ Ordered(queue, FALSE, Popped(FALSE), Past)
  /\ Ordered(critical_queue, TRUE, Popped(TRUE), Past)
  /\ \A s \in Senders : \A c \in BOOLEAN : last[s][c] <= Past[s]
  /\ \A r \in Receivers : \A m \in taken[r] : m.seq <= last[m.from][InCriticalQueue(m)]
  /\ \A r, o \in Receivers : r # o => taken[r] \cap taken[o] = {}

CountInv ==
  /\ IsFiniteSet(Slotted)
  /\ PermitConservation
  /\ size = Cardinality(Counted)

NotifyPending == \E s \in Senders : spc[s] \in {"pushed", "stored"}
(* What a recv that is not notified has already found empty is still empty,
   or a notification is on its way. *)
WakeInv ==
  \A r \in Receivers :
    /\ op[r] = "recv" => r \in enabled
    /\ rpc[r] = "parked" => op[r] = "recv"
    /\ op[r] = "recv" /\ r \notin notified /\ ~NotifyPending =>
         /\ rpc[r] \in {"popNormal", "parked"} => critical_queue = <<>>
         /\ rpc[r] = "parked" => queue = <<>>

Inductive == TypeOK /\ WaitInv /\ OrderInv /\ CountInv /\ WakeInv

(* A sender that waits on a full mailbox is let in (or gives up), as long as
   receivers keep receiving. *)
SendersProgress == \A s \in Senders : []<>(spc[s] # "waiting")

(* A queued message does not stay queued while receivers keep receiving:
   a receiver parked in recv is woken for it. *)
MailboxDrains == []<>(Queued = {})

(* The mailbox behaves as the bounded queue of BoundedMailbox. *)
Bounded == INSTANCE BoundedMailbox WITH normal <- queue, urgent <- critical_queue
Refines == Bounded!Spec
=============================================================================
