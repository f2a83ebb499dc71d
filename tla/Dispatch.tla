------------------------------ MODULE Dispatch ------------------------------
(***************************************************************************)
(* The path of a message through the scheduler (scheduler.rs, queue.rs):   *)
(* clients put a message into the actor's mailbox and push a task that     *)
(* carries a copy of it; worker threads take tasks from the injectors, run *)
(* the copy and pop the mailbox to free a slot; the actor's state decides  *)
(* what a worker does, and messages change it.  Nothing serialises two     *)
(* workers that hold tasks of the same actor.                              *)
(*                                                                         *)
(* One actor is followed; actors share only the injectors.  The mailbox is *)
(* the one of BoundedMailbox, which Mailbox implements: a call on it, on   *)
(* the registry or on an injector is one step.  The workers' local deques  *)
(* are left out: only steal_batch pushes to them, from one another.        *)
(***************************************************************************)
EXTENDS Integers, Sequences, FiniteSetsExt

CONSTANTS Clients, Workers,
          Killers,             \* tasks that call kill, once each
          Capacity,            \* MailboxConfig::capacity
          PriorityQueue,       \* MailboxConfig::priority_queue
          PriorityScheduling,  \* SchedulerConfig::priority_scheduling
          Calls,               \* which of send, try_send, send_batch are called
          Payloads, Priorities,
          Outcomes,            \* what the executor may return
          SetStates,           \* states that set_actor_running and set_actor_state set
          MaxMessages          \* bound: messages offered by each client

(* Priority::{Low, Normal, High, Critical} *)
High == 2
Critical == 3

ASSUME DispatchAssumption ==
  /\ Capacity \in Nat \ {0} /\ MaxMessages \in Nat
  /\ PriorityQueue \in BOOLEAN /\ PriorityScheduling \in BOOLEAN
  /\ Calls \subseteq {"send", "try_send", "send_batch"}
  /\ Payloads \subseteq {"Start", "Stop", "Pause", "Resume", "Restart", "Custom"}
  /\ Priorities \subseteq 0..Critical
  /\ Outcomes \subseteq {"Success", "Failed", "NotReady", "Panic"}
  /\ SetStates \subseteq {"Creating", "Running", "Suspended", "Stopped", "Failed"}

VARIABLES state,                   \* the actor's registry entry, "None" without one
          normal, urgent,          \* its mailbox
          critical, high, global,  \* injectors: sequences of tasks
          cpc, call, unsent, sent, \* per client: its call, what is to be enqueued and what has been
          accepted,                \* history: per client, which of the messages its calls enqueued were control messages
          abandoned,               \* history: what was enqueued by calls that were then dropped
          wpc, hand, depth,        \* per worker: messages in hand, nested drain loops
          kpc,
          runs,                    \* history: how often each message was run
          steady,                  \* history: has the actor been live from the start?
          ran,                     \* history: messages run, counting one that fails, since the actor is Failed
          forced                   \* history: has set_actor_state made an actor live that was not?

mail == <<normal, urgent>>
injectors == <<critical, high, global>>
clientVars == <<cpc, call, unsent, sent, accepted, abandoned>>
workerVars == <<wpc, hand, depth>>
actor == <<state, steady, ran, forced>>
vars == <<actor, mail, injectors, clientVars, workerVars, kpc, runs>>

Message == [from : Clients, seq : 1..MaxMessages, payload : Payloads, priority : Priorities]
Id(m) == <<m.from, m.seq>>
IsControl(m) == m.payload \in {"Start", "Stop", "Pause", "Resume", "Restart"}
Box == INSTANCE BoundedMailbox

Registered == state # "None"
Live == state \in {"Running", "Creating"}

(* set_state has no effect on an actor that is gone.  The change comes with n
   messages that have been run. *)
Become(s, n) ==
  /\ state' = IF Registered THEN s ELSE "None"
  /\ steady' = (steady /\ Live')
  /\ ran' = IF state' = "Failed" THEN ran + n ELSE 0

SetState(s, n) == Become(s, n) /\ UNCHANGED forced

(* The priority injector comes first; without priority scheduling nothing is
   ever pushed to it. *)
FirstInjector == IF PriorityScheduling THEN "critical" ELSE "global"

Init ==
  /\ state = "Creating" /\ steady = TRUE /\ ran = 0 /\ forced = FALSE
  /\ Box!Init
  /\ critical = <<>> /\ high = <<>> /\ global = <<>>
  /\ cpc = [c \in Clients |-> "idle"] /\ call = [c \in Clients |-> "none"]
  /\ unsent = [c \in Clients |-> <<>>] /\ sent = [c \in Clients |-> <<>>]
  /\ accepted = [c \in Clients |-> <<>>] /\ abandoned = {}
  /\ wpc = [w \in Workers |-> FirstInjector]
  /\ hand = [w \in Workers |-> <<>>] /\ depth = [w \in Workers |-> 0]
  /\ kpc = [k \in Killers |-> "idle"]
  /\ runs = [c \in Clients |-> [n \in 1..MaxMessages |-> 0]]

-----------------------------------------------------------------------------
(* The mailbox *)

(* Mailbox::try_send where there is room *)
Enqueue(m) ==
  /\ Box!Room
  /\ IF PriorityQueue /\ m.priority = Critical
       THEN urgent' = Append(urgent, m) /\ UNCHANGED normal
       ELSE normal' = Append(normal, m) /\ UNCHANGED urgent

MailEmpty == normal = <<>> /\ urgent = <<>>
FirstMail == IF urgent # <<>> THEN Head(urgent) ELSE Head(normal)

(* Mailbox::try_recv *)
TryRecv ==
  \/ Box!RemoveUrgent
  \/ urgent = <<>> /\ Box!RemoveNormal
  \/ MailEmpty /\ UNCHANGED mail

(* A worker reaches the mailbox through the registry. *)
PopMail == IF Registered THEN TryRecv ELSE UNCHANGED mail
ClearMail == IF Registered THEN normal' = <<>> /\ urgent' = <<>> ELSE UNCHANGED mail

-----------------------------------------------------------------------------
(* Clients *)

CallSize(k) == IF k = "send_batch" THEN 2 ELSE 1

(* get_mailbox and, except in try_send, the state check; a refused call has
   no effect. *)
BeginCall(c, k) ==
  /\ cpc[c] = "idle"
  /\ Registered /\ (k # "try_send" => state \notin {"Stopped", "Failed"})
  /\ Len(accepted[c]) + CallSize(k) <= MaxMessages
  /\ \E p \in [1..CallSize(k) -> Payloads], q \in [1..CallSize(k) -> Priorities] :
       unsent' = [unsent EXCEPT ![c] = [i \in 1..CallSize(k) |->
         [from |-> c, seq |-> Len(accepted[c]) + i, payload |-> p[i], priority |-> q[i]]]]
  /\ call' = [call EXCEPT ![c] = k]
  /\ cpc' = [cpc EXCEPT ![c] = "enqueue"]
  /\ UNCHANGED <<actor, mail, injectors, sent, accepted, abandoned, workerVars, kpc, runs>>

(* The next message of the call enters the mailbox. *)
EnqueueNext(c) ==
  /\ cpc[c] = "enqueue"
  /\ Enqueue(Head(unsent[c]))
  /\ unsent' = [unsent EXCEPT ![c] = Tail(@)]
  /\ sent' = [sent EXCEPT ![c] = Append(@, Head(unsent[c]))]
  /\ accepted' = [accepted EXCEPT ![c] = Append(@, IsControl(Head(unsent[c])))]
  /\ cpc' = [cpc EXCEPT ![c] = IF Len(unsent[c]) = 1 THEN "push" ELSE "enqueue"]
  /\ UNCHANGED <<actor, injectors, call, abandoned, workerVars, kpc, runs>>

(* A full mailbox fails try_send; send and send_batch wait for room. *)
TrySendFull(c) ==
  /\ cpc[c] = "enqueue" /\ call[c] = "try_send" /\ ~Box!Room
  /\ unsent' = [unsent EXCEPT ![c] = <<>>]
  /\ call' = [call EXCEPT ![c] = "none"]
  /\ cpc' = [cpc EXCEPT ![c] = "idle"]
  /\ UNCHANGED <<actor, mail, injectors, sent, accepted, abandoned, workerVars, kpc, runs>>

(* The future of a send or send_batch is dropped while it waits for room: what
   it has enqueued stays in the mailbox, and no task will come for it. *)
CancelCall(c) ==
  /\ cpc[c] = "enqueue" /\ call[c] # "try_send"
  /\ abandoned' = abandoned \cup {Id(m) : m \in Range(sent[c])}
  /\ unsent' = [unsent EXCEPT ![c] = <<>>] /\ sent' = [sent EXCEPT ![c] = <<>>]
  /\ call' = [call EXCEPT ![c] = "none"]
  /\ cpc' = [cpc EXCEPT ![c] = "idle"]
  /\ UNCHANGED <<actor, mail, injectors, accepted, workerVars, kpc, runs>>

(* A batch takes the priority of its most urgent message. *)
TaskPriority(msgs) == CHOOSE p \in {m.priority : m \in Range(msgs)} : \A m \in Range(msgs) : m.priority <= p

(* Fault: a task jumps the queue. *)
PushTaskFront(c) ==
  /\ cpc[c] = "push"
  /\ global' = <<sent[c]>> \o global
  /\ sent' = [sent EXCEPT ![c] = <<>>]
  /\ call' = [call EXCEPT ![c] = "none"]
  /\ cpc' = [cpc EXCEPT ![c] = "idle"]
  /\ UNCHANGED <<actor, mail, critical, high, unsent, accepted, abandoned, workerVars, kpc, runs>>

(* One task carries the whole call. *)
PushTask(c) ==
  /\ cpc[c] = "push"
  /\ LET p == TaskPriority(sent[c])
         urgentTask == PriorityScheduling /\ p >= High
     IN  /\ critical' = IF urgentTask /\ p = Critical THEN Append(critical, sent[c]) ELSE critical
         /\ high' = IF urgentTask /\ p = High THEN Append(high, sent[c]) ELSE high
         /\ global' = IF urgentTask THEN global ELSE Append(global, sent[c])
  /\ sent' = [sent EXCEPT ![c] = <<>>]
  /\ call' = [call EXCEPT ![c] = "none"]
  /\ cpc' = [cpc EXCEPT ![c] = "idle"]
  /\ UNCHANGED <<actor, mail, unsent, accepted, abandoned, workerVars, kpc, runs>>

(* set_actor_running and set_actor_state: the state and nothing else *)
SetActorState(s) ==
  /\ Registered
  /\ UNCHANGED <<mail, injectors, clientVars, workerVars, kpc, runs>>
  /\ Become(s, 0)
  /\ forced' = (forced \/ (~Live /\ Live'))

(* kill: set_state, clear and unregister *)
Kill(k) ==
  /\ \/ /\ kpc[k] = "idle" /\ Registered
        /\ SetState("Stopped", 0) /\ kpc' = [kpc EXCEPT ![k] = "clear"]
        /\ UNCHANGED mail
     \/ /\ kpc[k] = "clear"
        /\ ClearMail /\ kpc' = [kpc EXCEPT ![k] = "unregister"]
        /\ UNCHANGED actor
     \/ /\ kpc[k] = "unregister"
        /\ SetState("None", 0) /\ kpc' = [kpc EXCEPT ![k] = "killed"]
        /\ UNCHANGED mail
  /\ UNCHANGED <<injectors, clientVars, workerVars, runs>>

-----------------------------------------------------------------------------
(* Workers *)

WorkerGoto(w, label) == wpc' = [wpc EXCEPT ![w] = label]

(* The task at the head of q is taken, or the worker looks at the next injector. *)
TakeFrom(w, q, next) ==
  /\ IF q # <<>>
       THEN hand' = [hand EXCEPT ![w] = Head(q)] /\ WorkerGoto(w, "read")
       ELSE UNCHANGED hand /\ WorkerGoto(w, next)
  /\ UNCHANGED <<actor, mail, clientVars, depth, kpc, runs>>

(* Fault: the task is read and stays in the injector. *)
PeekOnly(q) == q

PopTail(q) == IF q # <<>> THEN Tail(q) ELSE q

TakeCritical(w) ==
  /\ wpc[w] = "critical" /\ TakeFrom(w, critical, "high")
  /\ critical' = PopTail(critical) /\ UNCHANGED <<high, global>>

TakeHigh(w) ==
  /\ wpc[w] = "high" /\ TakeFrom(w, high, "global")
  /\ high' = PopTail(high) /\ UNCHANGED <<critical, global>>

TakeGlobal(w) ==
  /\ wpc[w] = "global" /\ TakeFrom(w, global, FirstInjector)
  /\ global' = PopTail(global) /\ UNCHANGED <<critical, high>>

(* handle_state_change_for *)
StateAfter(m) ==
  CASE m.payload \in {"Start", "Resume"} -> "Running"
    [] m.payload = "Stop" -> "Stopped"
    [] m.payload = "Pause" -> "Suspended"
    [] m.payload = "Restart" -> "Creating"
    [] OTHER -> state

(* Fault: a state missing from, or wrongly in, an arm of process_single_message. *)
ReadStateRunningOnly(w) ==
  /\ wpc[w] = "read"
  /\ WorkerGoto(w, IF state = "Running" THEN "execute" ELSE "done")
  /\ UNCHANGED <<actor, mail, injectors, clientVars, hand, depth, kpc, runs>>

ReadStateFailedToo(w) ==
  /\ wpc[w] = "read"
  /\ WorkerGoto(w, IF Live \/ state = "Failed" THEN "execute" ELSE "done")
  /\ UNCHANGED <<actor, mail, injectors, clientVars, hand, depth, kpc, runs>>

(* process_single_message reads the state once, and acts on what it read. *)
ReadState(w) ==
  /\ wpc[w] = "read"
  /\ WorkerGoto(w, CASE Live -> "execute"
                     [] state = "Suspended" /\ IsControl(Head(hand[w])) -> "control"
                     [] state = "Suspended" -> "requeue"
                     [] OTHER -> "done")
  /\ UNCHANGED <<actor, mail, injectors, clientVars, hand, depth, kpc, runs>>

(* The message is run.  A success applies Start and Stop only; without an
   executor, or with one that is not ready, the runtime applies every state
   change; a failure or a panic marks the actor failed. *)
Execute(w) ==
  LET m == Head(hand[w]) IN
  /\ wpc[w] = "execute"
  /\ runs' = [runs EXCEPT ![m.from][m.seq] = @ + 1]
  /\ \/ /\ "Success" \in Outcomes
        /\ WorkerGoto(w, "count")
        /\ SetState(IF m.payload \in {"Start", "Stop"} THEN StateAfter(m) ELSE state, 1)
     \/ "NotReady" \in Outcomes /\ WorkerGoto(w, "count") /\ SetState(StateAfter(m), 1)
     \/ "Failed" \in Outcomes /\ WorkerGoto(w, "failed") /\ SetState("Failed", 1)
     \/ "Panic" \in Outcomes /\ WorkerGoto(w, "panicked") /\ SetState("Failed", 1)
  /\ UNCHANGED <<mail, injectors, clientVars, hand, depth, kpc>>

(* The message at hand is finished: back to the innermost drain loop, to the
   rest of the batch, or to the injectors. *)
Finish(w, msgs, loops) ==
  /\ hand' = [hand EXCEPT ![w] = msgs]
  /\ depth' = [depth EXCEPT ![w] = loops]
  /\ WorkerGoto(w, IF loops > 0 THEN "drain" ELSE IF msgs # <<>> THEN "next" ELSE FirstInjector)

(* Fault: the slot is not released. *)
CountKeepsSlot(w) ==
  /\ wpc[w] = "count"
  /\ Finish(w, Tail(hand[w]), depth[w])
  /\ UNCHANGED <<actor, mail, injectors, clientVars, kpc, runs>>

(* A counted message releases one slot: the oldest message of the mailbox. *)
Count(w) ==
  /\ wpc[w] = "count"
  /\ PopMail
  /\ Finish(w, Tail(hand[w]), depth[w])
  /\ UNCHANGED <<actor, injectors, clientVars, kpc, runs>>

(* A failed actor's mailbox is drained ... *)
DropMail(w) ==
  /\ wpc[w] = "failed"
  /\ ClearMail
  /\ Finish(w, Tail(hand[w]), depth[w])
  /\ UNCHANGED <<actor, injectors, clientVars, kpc, runs>>

(* ... and a panic also abandons the task. *)
CatchUnwind(w) ==
  /\ wpc[w] = "panicked"
  /\ ClearMail
  /\ Finish(w, <<>>, 0)
  /\ UNCHANGED <<actor, injectors, clientVars, kpc, runs>>

(* A control message takes effect while the actor is suspended, ... *)
Control(w) ==
  /\ wpc[w] = "control"
  /\ WorkerGoto(w, "controlPop")
  /\ SetState(StateAfter(Head(hand[w])), 0)
  /\ UNCHANGED <<mail, injectors, clientVars, hand, depth, kpc, runs>>

(* ... releases a slot, ... *)
ControlPop(w) ==
  /\ wpc[w] = "controlPop"
  /\ PopMail
  /\ WorkerGoto(w, "controlled")
  /\ UNCHANGED <<actor, injectors, clientVars, hand, depth, kpc, runs>>

(* Fault: the mailbox is not drained when the suspension ends. *)
NoDrain(w) ==
  /\ wpc[w] = "controlled"
  /\ Finish(w, Tail(hand[w]), depth[w])
  /\ UNCHANGED <<actor, mail, injectors, clientVars, kpc, runs>>

(* ... and, if the suspension is over, starts to drain the mailbox. *)
Controlled(w) ==
  /\ wpc[w] = "controlled"
  /\ Finish(w, Tail(hand[w]), IF Live THEN depth[w] + 1 ELSE depth[w])
  /\ UNCHANGED <<actor, mail, injectors, clientVars, kpc, runs>>

(* The drain loop takes the oldest message and processes it like a task's;
   an empty or missing mailbox ends the loop. *)
Drain(w) ==
  /\ wpc[w] = "drain"
  /\ IF Registered /\ ~MailEmpty
       THEN /\ hand' = [hand EXCEPT ![w] = <<FirstMail>> \o @]
            /\ TryRecv /\ WorkerGoto(w, "read")
            /\ UNCHANGED depth
       ELSE /\ Finish(w, hand[w], depth[w] - 1)
            /\ UNCHANGED mail
  /\ UNCHANGED <<actor, injectors, clientVars, kpc, runs>>

(* An ordinary message of a suspended actor is put back, if there is room. *)
Requeue(w) ==
  /\ wpc[w] = "requeue"
  /\ \/ Registered /\ Enqueue(Head(hand[w]))
     \/ (Registered => ~Box!Room) /\ UNCHANGED mail
  /\ Finish(w, Tail(hand[w]), depth[w])
  /\ UNCHANGED <<actor, injectors, clientVars, kpc, runs>>

(* A stopped, failed or missing actor runs nothing. *)
Ignore(w) ==
  /\ wpc[w] = "done"
  /\ Finish(w, Tail(hand[w]), depth[w])
  /\ UNCHANGED <<actor, mail, injectors, clientVars, kpc, runs>>

(* The rest of a batch is dropped if the actor has stopped or failed. *)
NextOfBatch(w) ==
  /\ wpc[w] = "next"
  /\ IF state \in {"Failed", "Stopped"}
       THEN Finish(w, <<>>, 0)
       ELSE WorkerGoto(w, "read") /\ UNCHANGED <<hand, depth>>
  /\ UNCHANGED <<actor, mail, injectors, clientVars, kpc, runs>>

-----------------------------------------------------------------------------
ClientStep(c) == EnqueueNext(c) \/ TrySendFull(c) \/ PushTask(c)

Take(w) == TakeCritical(w) \/ TakeHigh(w) \/ TakeGlobal(w)

WorkerStep(w) ==
  \/ Take(w) \/ ReadState(w) \/ Execute(w) \/ Count(w) \/ DropMail(w) \/ CatchUnwind(w)
  \/ Control(w) \/ ControlPop(w) \/ Controlled(w) \/ Drain(w) \/ Requeue(w) \/ Ignore(w)
  \/ NextOfBatch(w)

Next ==
  \/ \E c \in Clients : ClientStep(c) \/ CancelCall(c) \/ \E k \in Calls : BeginCall(c, k)
  \/ \E w \in Workers : WorkerStep(w)
  \/ \E k \in Killers : Kill(k)
  \/ \E s \in SetStates : SetActorState(s)

Spec == Init /\ [][Next]_vars

(* Worker threads keep running, and a client inside a call is polled again;
   nobody has to drop a call or to set the state. *)
FairSpec ==
  /\ Spec
  /\ \A c \in Clients : WF_vars(ClientStep(c))
  /\ \A w \in Workers : WF_vars(WorkerStep(w))

-----------------------------------------------------------------------------
(* Properties *)

TypeOK ==
  /\ state \in {"Creating", "Running", "Suspended", "Stopped", "Failed", "None"}
  /\ normal \in Seq(Message) /\ urgent \in Seq(Message)
  /\ \A q \in {critical, high, global} : q \in Seq(Seq(Message))
  /\ cpc \in [Clients -> {"idle", "enqueue", "push"}] /\ call \in [Clients -> Calls \cup {"none"}]
  /\ \A f \in {unsent, sent} : f \in [Clients -> Seq(Message)]
  /\ accepted \in [Clients -> Seq(BOOLEAN)] /\ abandoned \subseteq Clients \X (1..MaxMessages)
  /\ wpc \in [Workers -> {"critical", "high", "global", "read", "execute", "count", "failed", "panicked",
                          "control", "controlPop", "controlled", "drain", "requeue", "done", "next"}]
  /\ hand \in [Workers -> Seq(Message)] /\ depth \in [Workers -> Nat]
  /\ \A w \in Workers : wpc[w] \in {"read", "execute", "count", "control", "requeue", "next"} => hand[w] # <<>>
  /\ kpc \in [Killers -> {"idle", "clear", "unregister", "killed"}]
  /\ runs \in [Clients -> [1..MaxMessages -> Nat]]
  /\ steady \in BOOLEAN /\ ran \in Nat /\ forced \in BOOLEAN

(* Messages on their way to being run: enqueued by a call that has yet to
   push its task, in a task, or in a worker's hands. *)
Pending ==
  UNION ({Range(sent[c]) : c \in Clients} \cup {Range(hand[w]) : w \in Workers}
           \cup {Range(task) : task \in Range(critical) \cup Range(high) \cup Range(global)})

(* The messages that hold a slot of the mailbox: one is released when a message
   on its way has been run, and none for what a dropped call has left. *)
Owed == {Id(m) : m \in Pending} \cup abandoned

(* As long as the actor has been live, the mailbox holds one slot for each
   message still to be run and one for each that a dropped call has left in
   it for good: no slot leaks as messages are processed, however many workers
   pop slots on behalf of one another, and none is freed early.  (The state
   stays well typed.) *)
SlotsHeld == TypeOK /\ (steady => Len(normal) + Len(urgent) = Cardinality(Owed))

(* No message is run twice, as long as the actor is never suspended. *)
AtMostOnce == \A c \in Clients, n \in 1..MaxMessages : runs[c][n] <= 1

(* A step that runs a message comes after those that ran the earlier ones of
   the same client; what a dropped call has left behind is never run. *)
InOrder ==
  \A c \in Clients, n \in 1..MaxMessages : runs'[c][n] > runs[c][n] =>
    \A i \in 1..(n - 1) : runs[c][i] > 0 \/ <<c, i>> \in abandoned

(* Messages of one client are run in the order in which they were sent. *)
RunsInOrder == [][InOrder]_vars

(* With one worker and one injector they are, unless one of them, or one of
   another client's, is a control message, or set_actor_state makes the actor
   live again. *)
SerialInOrder ==
  [][(\A c \in Clients : TRUE \notin Range(accepted[c])) /\ ~forced => InOrder]_vars

(* A failure is contained: while the actor stays Failed no worker turns to
   another message of it, so that, with the message that failed, at most one
   message per worker is run, however many are queued.  (One of those few can
   change the state again.) *)
FailureContained == state = "Failed" => ran <= Cardinality(Workers)

(* Nothing will happen unless a new call is made: all tasks have been
   processed, and the calls that have not returned wait for room. *)
Quiet ==
  /\ \A c \in Clients : cpc[c] # "idle" => cpc[c] = "enqueue" /\ ~Box!Room
  /\ critical = <<>> /\ high = <<>> /\ global = <<>>
  /\ \A w \in Workers : wpc[w] \in {"critical", "high", "global"}
  /\ \A k \in Killers : kpc[k] \in {"idle", "killed"}

(* When all work is done, the mailbox of a live actor holds nothing but what
   batches still being enqueued, and calls that were dropped, have put there:
   no other message is left that no task will fetch, unless set_actor_state
   has ended a suspension.  So a call that waits for ever waits on a suspended,
   stopped or failed actor, or on batches that fill the mailbox before any of
   them is complete. *)
NoStranded ==
  Quiet /\ Live /\ ~forced =>
    Len(normal) + Len(urgent) <=
      MapThenSumSet(LAMBDA c : Len(sent[c]), Clients) + Cardinality(abandoned)

(* A message sent to a suspended actor is held, and run once it resumes. *)
HeldThenRun ==
  Quiet /\ Live =>
    \A c \in Clients : \A n \in 1..Len(accepted[c]) :
      ~accepted[c][n] /\ <<c, n>> \notin abandoned => runs[c][n] > 0

(* What dropped calls left behind and what unfinished batches have enqueued
   fills the mailbox: the batches wait for room that only their own tasks
   would free. *)
Wedged ==
  MapThenSumSet(LAMBDA c : Len(sent[c]), {c \in Clients : cpc[c] = "enqueue"})
    + Cardinality(abandoned) >= Capacity

(* Unless the mailbox is wedged, and as long as the actor stays live, every
   message that a call has put into the mailbox is run if the call was not
   dropped, ... *)
Delivered ==
  []<>(Wedged \/ ~steady \/ \A c \in Clients : \A n \in 1..Len(accepted[c]) :
                                <<c, n>> \in abandoned \/ runs[c][n] > 0)

(* ... and every call returns: a sender that waits for room gets it. *)
CallReturns == \A c \in Clients : []<>(Wedged \/ ~steady \/ cpc[c] = "idle")
=============================================================================
