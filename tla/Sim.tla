--------------------------------- MODULE Sim --------------------------------
(***************************************************************************)
(* The deterministic simulation (sim/): a single-threaded driver that puts *)
(* the real registry, mailboxes, task processing and supervisor under a    *)
(* seeded workload with faults, and audits its own ledger of what became   *)
(* of every message.  Each draw from the seeded generator is a             *)
(* nondeterministic choice here, so one model stands for every seed.       *)
(*                                                                         *)
(* An actor is named by its ordinal; its registry id is the ordinal with   *)
(* an incarnation number, new after every restart.  A mailbox is its       *)
(* length: a processed message pops one slot, whichever message is in it.  *)
(* Statistics and the operation trace are left out.                        *)
(***************************************************************************)
EXTENDS Seqs, FiniteSetsExt

CONSTANTS Actors,
          Messages,          \* SimConfig::messages: the identities are 1..Messages
          Capacity,          \* SimConfig::mailbox.capacity
          Faults,            \* which faults have a probability above 0
          Delays,            \* delay_ticks_min..delay_ticks_max
          MaxRestarts,       \* SimConfig::max_restarts, 0 is unlimited
          Rates,             \* send events that one tick may draw
          ProcessingPerTick, RetriesPerTick

MaxBatch == 3
DuplicateGap == 2

ASSUME SimAssumption ==
  /\ IsFiniteSet(Actors) /\ {Messages, MaxRestarts} \subseteq Nat
  /\ {Capacity, ProcessingPerTick, RetriesPerTick} \subseteq Nat \ {0}
  /\ Faults \subseteq {"reject", "delay", "duplicate", "crash"}
  /\ Delays \subseteq Nat /\ Rates \subseteq Nat \ {0} /\ Rates # {}

VARIABLES pc, left,                            \* phase of the round, iterations left in it
          alive, incarnation, box,             \* per actor: registered, current id, mailbox length
          delivered, consumed, dropped, queued, \* per actor: its ledger
          restarts,                            \* per actor: the supervisor's count
          priority, ready,                     \* ReadySet: sequences of tasks
          delayed, blocked,                    \* deliveries to come, with the ticks to wait; parked ones
          next_mid, mid_times, mid_lost,       \* identities sent, how often processed, lost
          doubled                              \* history: identities sent twice

world == <<alive, incarnation, box>>
ledger == <<delivered, consumed, dropped, queued>>
mids == <<next_mid, mid_times, mid_lost, doubled>>
vars == <<pc, left, world, ledger, restarts, priority, ready, delayed, blocked, mids>>

(* A task of incarnation n of actor o; the system message Start has no identity. *)
Task(o, n, ids, high) == [ord |-> o, incarnation |-> n, ids |-> ids, high |-> high]
Start(o, n) == Task(o, n, <<>>, FALSE)
Size(task) == IF task.ids = <<>> THEN 1 ELSE Len(task.ids)

AddTo(f, o, n) == [f EXCEPT ![o] = @ + n]

(* with_config: every actor is spawned and sent its Start. *)
Init ==
  /\ pc = "round" /\ left = 0
  /\ alive = [o \in Actors |-> TRUE] /\ incarnation = [o \in Actors |-> 0]
  /\ box = [o \in Actors |-> 1] /\ delivered = [o \in Actors |-> 1]
  /\ consumed = [o \in Actors |-> 0] /\ dropped = [o \in Actors |-> 0]
  /\ queued = [o \in Actors |-> 0] /\ restarts = [o \in Actors |-> 0]
  /\ priority = <<>>
  /\ ready = [i \in 1..Cardinality(Actors) |-> Start(SetToSeq(Actors)[i], 0)]
  /\ delayed = <<>> /\ blocked = <<>>
  /\ next_mid = 0 /\ mid_lost = {} /\ doubled = {}
  /\ mid_times = [m \in 1..Messages |-> 0]

-----------------------------------------------------------------------------
(* Delivery *)

Payload(o, ids, high) == [ord |-> o, ids |-> ids, high |-> high]

Enqueue(task) ==
  /\ priority' = IF task.high THEN Append(priority, task) ELSE priority
  /\ ready' = IF task.high THEN ready ELSE Append(ready, task)

(* Fault: a loss goes unrecorded. *)
ForgetLost(ids) == UNCHANGED mid_lost

MarkLost(ids) == mid_lost' = mid_lost \cup ids

(* attempt_delivery: the messages are lost on a dead actor, parked behind the
   deliveries already parked if they do not fit into the mailbox together,
   and otherwise enqueued with one task. *)
AttemptDelivery(p, parked) ==
  LET o == p.ord
      n == Len(p.ids)
  IN  \/ /\ ~alive[o]
         /\ MarkLost(Range(p.ids))
         /\ blocked' = parked
         /\ UNCHANGED <<box, delivered, queued, priority, ready>>
      \/ /\ alive[o] /\ Capacity - box[o] < n
         /\ blocked' = Append(parked, p)
         /\ UNCHANGED <<mid_lost, box, delivered, queued, priority, ready>>
      \/ /\ alive[o] /\ Capacity - box[o] >= n
         /\ box' = AddTo(box, o, n)
         /\ delivered' = AddTo(delivered, o, n) /\ queued' = AddTo(queued, o, n)
         /\ Enqueue(Task(o, incarnation[o], p.ids, p.high))
         /\ blocked' = parked
         /\ UNCHANGED mid_lost

-----------------------------------------------------------------------------
(* A round of run *)

Quiescent ==
  /\ next_mid = Messages
  /\ delayed = <<>> /\ blocked = <<>> /\ priority = <<>> /\ ready = <<>>
  /\ \A o \in Actors : alive[o] => box[o] = 0

(* The clock advances by a tick. *)
BeginRound ==
  /\ pc = "round" /\ ~Quiescent
  /\ delayed' = [i \in DOMAIN delayed |-> [delayed[i] EXCEPT !.ticks = @ - 1]]
  /\ \E n \in Rates : left' = n
  /\ pc' = "inject"
  /\ UNCHANGED <<world, ledger, restarts, priority, ready, blocked, mids>>

(* inject_one: the transport rejects the send, delays it, or delivers it now;
   a second copy of what is not rejected may follow later. *)
InjectOne ==
  /\ pc = "inject" /\ left > 0 /\ next_mid < Messages
  /\ left' = left - 1
  /\ \E o \in Actors, n \in 1..Min({MaxBatch, Messages - next_mid}), high \in BOOLEAN :
       LET ids == [i \in 1..n |-> next_mid + i]
           later(ticks) == [ticks |-> ticks, payload |-> Payload(o, ids, high)]
       IN  /\ next_mid' = next_mid + n
           /\ \/ /\ "reject" \in Faults
                 /\ MarkLost(Range(ids))
                 /\ UNCHANGED <<box, delivered, queued, priority, ready, delayed, blocked, doubled>>
              \/ \E delay \in {0} \cup IF "delay" \in Faults THEN Delays ELSE {},
                    twice \in {FALSE, "duplicate" \in Faults} :
                   /\ doubled' = IF twice THEN doubled \cup Range(ids) ELSE doubled
                   /\ delayed' = delayed \o (IF delay > 0 THEN <<later(delay)>> ELSE <<>>)
                                         \o (IF twice THEN <<later(delay + DuplicateGap)>> ELSE <<>>)
                   /\ IF delay = 0
                        THEN AttemptDelivery(Payload(o, ids, high), blocked)
                        ELSE UNCHANGED <<mid_lost, box, delivered, queued, priority, ready, blocked>>
  /\ UNCHANGED <<pc, alive, incarnation, consumed, dropped, restarts, mid_times>>

(* deliver_due: the heap is ordered by due tick and then by age, and nothing
   that was due in an earlier tick is left in it. *)
Due == {i \in DOMAIN delayed : delayed[i].ticks <= 0}

DeliverDue ==
  /\ pc = "due" /\ Due # {}
  /\ delayed' = RemoveAt(delayed, Min(Due))
  /\ AttemptDelivery(delayed[Min(Due)].payload, blocked)
  /\ UNCHANGED <<pc, left, alive, incarnation, consumed, dropped, restarts, next_mid, mid_times, doubled>>

(* retry_blocked: each parked delivery in turn, back to the end if it still
   does not fit *)
RetryBlocked ==
  /\ pc = "retry" /\ left > 0
  /\ left' = left - 1
  /\ AttemptDelivery(Head(blocked), Tail(blocked))
  /\ UNCHANGED <<pc, alive, incarnation, consumed, dropped, restarts, delayed, next_mid, mid_times, doubled>>

(* The loop of a phase ends. *)
EndPhase ==
  /\ \/ /\ pc = "inject" /\ (left = 0 \/ next_mid = Messages)
        /\ pc' = "due" /\ left' = 0
     \/ /\ pc = "due" /\ Due = {}
        /\ pc' = "retry" /\ left' = Min({RetriesPerTick, Len(blocked)})
     \/ /\ pc = "retry" /\ left = 0
        /\ pc' = "process" /\ left' = ProcessingPerTick
     \/ /\ pc = "process" /\ (left = 0 \/ priority \o ready = <<>>)
        /\ pc' = "round" /\ left' = 0
  /\ UNCHANGED <<world, ledger, restarts, priority, ready, delayed, blocked, mids>>

-----------------------------------------------------------------------------
(* process_chosen *)

(* The id of the task is registered, and its state Creating or Running. *)
Current(task) == alive[task.ord] /\ task.incarnation = incarnation[task.ord]

(* A task of a dead actor, or of an earlier incarnation, is discarded. *)
Discard(task) ==
  /\ ~Current(task)
  /\ MarkLost(Range(task.ids))
  /\ UNCHANGED <<world, delivered, consumed, dropped, restarts, mid_times>>

(* Fault: only the first message of a batch frees its slot. *)
FreeOneSlot(o, n) == box' = AddTo(box, o, -1)

(* try_recv once for every message processed *)
FreeSlots(o, n) == box' = [box EXCEPT ![o] = Max({@ - n, 0})]

(* The pipeline runs every message of the task. *)
Succeed(task) ==
  /\ Current(task)
  /\ FreeSlots(task.ord, Size(task))
  /\ consumed' = AddTo(consumed, task.ord, Size(task))
  /\ mid_times' = [m \in 1..Messages |-> mid_times[m] + IF m \in Range(task.ids) THEN 1 ELSE 0]
  /\ UNCHANGED <<alive, incarnation, delivered, dropped, restarts, mid_lost>>

(* Fault: a crash destroys nothing but the message at hand. *)
OneDestroyed(o) == 1

(* settle_crash, on a mailbox that the pipeline has drained *)
Destroyed(o) == delivered[o] - consumed[o] - dropped[o]

(* Fault: one restart too many. *)
RestartOnceMore(o) == MaxRestarts = 0 \/ restarts[o] <= MaxRestarts

(* check_restart_allowed: the window is longer than any simulation. *)
RestartAllowed(o) == MaxRestarts = 0 \/ restarts[o] < MaxRestarts

(* The first message of the task panics: the mailbox is drained and the rest
   of the task not run.  The supervisor then restarts the actor, with a new
   incarnation and a new Start, or gives it up for good. *)
Crash(task, rest) ==
  LET o == task.ord IN
  /\ Current(task) /\ task.ids # <<>> /\ "crash" \in Faults
  /\ dropped' = AddTo(dropped, o, Destroyed(o))
  /\ MarkLost({m \in Range(task.ids) : mid_times[m] = 0})
  /\ alive' = [alive EXCEPT ![o] = RestartAllowed(o)]
  /\ IF RestartAllowed(o)
       THEN /\ restarts' = AddTo(restarts, o, 1)
            /\ incarnation' = AddTo(incarnation, o, 1)
            /\ box' = [box EXCEPT ![o] = 1]
            /\ delivered' = AddTo(delivered, o, 1)
            /\ ready' = Append(rest, Start(o, incarnation[o] + 1))
       ELSE /\ box' = [box EXCEPT ![o] = 0]
            /\ ready' = rest
            /\ UNCHANGED <<restarts, incarnation, delivered>>
  /\ UNCHANGED <<consumed, mid_times>>

(* What is left in the ready set is given by high and rest. *)
ProcessChosen(task, high, rest) ==
  /\ queued' = AddTo(queued, task.ord, -Len(task.ids))
  /\ priority' = high
  /\ \/ Discard(task) /\ ready' = rest
     \/ Succeed(task) /\ ready' = rest
     \/ Crash(task, rest)
  /\ UNCHANGED <<delayed, blocked, next_mid, doubled>>

(* ReadySet::pick: priority tasks first, in order; of the others any, which
   is the Random policy and includes what Fifo and RoundRobin choose. *)
Process ==
  /\ pc = "process" /\ left > 0
  /\ left' = left - 1
  /\ \/ priority # <<>> /\ ProcessChosen(Head(priority), Tail(priority), ready)
     \/ /\ priority = <<>>
        /\ \E i \in DOMAIN ready : ProcessChosen(ready[i], <<>>, RemoveAt(ready, i))
  /\ UNCHANGED pc

Next == BeginRound \/ InjectOne \/ DeliverDue \/ RetryBlocked \/ Process \/ EndPhase

Spec == Init /\ [][Next]_vars

(* run is one loop on one thread: it goes on until the world is quiescent. *)
FairSpec == Spec /\ WF_vars(Next)

-----------------------------------------------------------------------------
(* Properties *)

(* The sum of a sequence of numbers: how many units its elements have. *)
Total(w) == Cardinality(UNION {{i} \X (1..w[i]) : i \in DOMAIN w})

(* Of the tasks in s: the messages for o, the mailbox slots that those of o's
   current incarnation will free, and which of the sends in s carry m. *)
Addressed(s, o) == [i \in DOMAIN s |-> IF s[i].ord = o THEN Len(s[i].ids) ELSE 0]
Holding(s, o) == [i \in DOMAIN s |-> IF s[i].ord = o /\ Current(s[i]) THEN Size(s[i]) ELSE 0]
Carrying(s, m) == [i \in DOMAIN s |-> IF m \in Range(s[i].ids) THEN 1 ELSE 0]

Identities == 1..Messages
TaskType == [ord : Actors, incarnation : Nat, ids : Seq(Identities), high : BOOLEAN]
PayloadType == [ord : Actors, ids : Seq(Identities) \ {<<>>}, high : BOOLEAN]
DelayedType == [ticks : Int, payload : PayloadType]

TypeOK ==
  /\ pc \in {"round", "inject", "due", "retry", "process"} /\ left \in Nat
  /\ alive \in [Actors -> BOOLEAN]
  /\ \A f \in {incarnation, box, delivered, consumed, dropped, queued, restarts} : f \in [Actors -> Nat]
  /\ priority \in Seq(TaskType) /\ ready \in Seq(TaskType)
  /\ blocked \in Seq(PayloadType) /\ delayed \in Seq(DelayedType)
  /\ next_mid \in 0..Messages /\ mid_times \in [Identities -> Nat]
  /\ mid_lost \subseteq Identities /\ doubled \subseteq 1..next_mid

(* audit_counts, after every step rather than every round: every slot ever
   taken in an actor's mailbox was freed by a processed message or dropped by
   a crash, and each one still held has a task of the current incarnation
   that will free it.  The ledger's queued, which is decremented unchecked,
   is exactly what the actor's tasks hold, those of dead incarnations
   included.  (The state stays well typed.) *)
SlotsConserved ==
  /\ TypeOK
  /\ \A o \in Actors :
       /\ queued[o] = Total(Addressed(priority, o)) + Total(Addressed(ready, o))
       /\ alive[o] => /\ box[o] = delivered[o] - consumed[o] - dropped[o]
                      /\ box[o] = Total(Holding(priority, o)) + Total(Holding(ready, o))

(* How often message m is still on its way. *)
Payloads(s) == [i \in DOMAIN s |-> s[i].payload]
Copies(m) ==
  Total(Carrying(priority, m)) + Total(Carrying(ready, m))
    + Total(Carrying(blocked, m)) + Total(Carrying(Payloads(delayed), m))

(* audit_identities, at any time rather than at quiescence: no message
   vanishes without being recorded as lost, and one that the transport did
   not double is processed once, lost, or on its way: exactly one of them.
   Nothing is known yet of one that was not sent. *)
Fates(m) == mid_times[m] + Copies(m) + IF m \in mid_lost THEN 1 ELSE 0

Accounted ==
  \A m \in Identities :
    IF m <= next_mid
      THEN Fates(m) >= 1 /\ (m \notin doubled => Fates(m) = 1)
      ELSE Fates(m) = 0

(* An actor is restarted at most max_restarts times, and one that was given
   up is never revived and never processes again. *)
GivenUpForGood ==
  [][\A o \in Actors :
       /\ MaxRestarts > 0 => restarts'[o] <= MaxRestarts
       /\ ~alive[o] => ~alive'[o] /\ consumed'[o] = consumed[o]]_vars

(* run_to_quiescence: the workload drains, whatever is rejected, delayed,
   doubled or crashed on the way. *)
Quiesces == <>Quiescent
=============================================================================
