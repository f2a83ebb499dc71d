--------------------------- MODULE DispatchProofs ---------------------------
(***************************************************************************)
(* The path of messages through the scheduler, for any number of clients,  *)
(* workers and messages: after a failure each worker runs one message at   *)
(* most; a message is run at most once; and the mailbox holds exactly one  *)
(* slot for each message still to be run or left by a dropped call.        *)
(***************************************************************************)
EXTENDS Dispatch, TLAPS

States == {"Creating", "Running", "Suspended", "Stopped", "Failed", "None"}
Injectors == {"critical", "high", "global"}
Labels == Injectors \cup {"read", "execute", "count", "failed", "panicked", "control", "controlPop",
                          "controlled", "drain", "requeue", "done", "next"}

(* A task carries at least one message. *)
Task == Seq(Message) \ {<<>>}

MailOK == normal \in Seq(Message) /\ urgent \in Seq(Message)

QueuesOK == critical \in Seq(Task) /\ high \in Seq(Task) /\ global \in Seq(Task)

(* What is recorded of an accepted message: whether it is a control message. *)
Marks == BOOLEAN

(* The messages of a call are numbered from where the last call ended. *)
ClientsOK ==
  /\ cpc \in [Clients -> {"idle", "enqueue", "push"}] /\ call \in [Clients -> Calls \cup {"none"}]
  /\ unsent \in [Clients -> Seq(Message)] /\ sent \in [Clients -> Seq(Message)]
  /\ accepted \in [Clients -> Seq(Marks)]
  /\ \A c \in Clients :
       /\ cpc[c] = "idle" => sent[c] = <<>>
       /\ cpc[c] = "enqueue" => unsent[c] # <<>>
       /\ (cpc[c] = "enqueue" /\ call[c] = "try_send") => sent[c] = <<>> /\ Len(unsent[c]) = 1
       /\ cpc[c] = "push" => sent[c] # <<>>
       /\ \A i \in DOMAIN unsent[c] :
            unsent[c][i].from = c /\ unsent[c][i].seq = Len(accepted[c]) + i

(* A worker that processes has a message in hand, one that looks for work has
   none, and the drain label is only reached inside a drain loop. *)
WorkersOK ==
  /\ wpc \in [Workers -> Labels] /\ hand \in [Workers -> Seq(Message)] /\ depth \in [Workers -> Nat]
  /\ \A w \in Workers :
       /\ wpc[w] \in Injectors => hand[w] = <<>>
       /\ wpc[w] \notin Injectors \cup {"drain"} => hand[w] # <<>>
       /\ wpc[w] = "drain" => depth[w] > 0

RestOK ==
  /\ state \in States
  /\ kpc \in [Killers -> {"idle", "clear", "unregister", "killed"}]
  /\ runs \in [Clients -> [1..MaxMessages -> Nat]]

Inv == MailOK /\ QueuesOK /\ ClientsOK /\ WorkersOK /\ RestOK

(* The empty sequence has no elements. *)
LEMMA EmptyLen == Len(<<>>) = 0
BY Zenon

(* One more element makes a sequence longer by one. *)
LEMMA AppendFacts ==
  ASSUME NEW S, NEW q \in Seq(S), NEW x \in S
  PROVE  /\ Append(q, x) \in Seq(S) /\ Append(q, x) # <<>> /\ Len(Append(q, x)) = Len(q) + 1
         /\ Len(q) \in Nat
OBVIOUS

-----------------------------------------------------------------------------
(* A label at which a message is in hand, and one at which none is. *)
LEMMA LabelFacts ==
  /\ FirstInjector \in Injectors /\ Injectors \subseteq Labels
  /\ {"drain", "next", "read"} \cap Injectors = {}
BY Zenon DEF FirstInjector, Injectors, Labels

(* A worker that keeps its message moves to another label. *)
LEMMA WorkerMoves ==
  ASSUME WorkersOK, NEW w \in Workers, NEW l \in Labels, l \notin Injectors \cup {"drain"},
         wpc[w] \notin Injectors \cup {"drain"}, WorkerGoto(w, l), UNCHANGED <<hand, depth>>
  PROVE  WorkersOK'
BY Zenon DEF WorkersOK, WorkerGoto

(* What is left in hand, and in loops, decides where a worker goes on. *)
LEMMA WorkerFinishes ==
  ASSUME WorkersOK, NEW w \in Workers, NEW msgs \in Seq(Message), NEW loops \in Nat,
         Finish(w, msgs, loops)
  PROVE  WorkersOK'
<1> DEFINE l == IF loops > 0 THEN "drain" ELSE IF msgs # <<>> THEN "next" ELSE FirstInjector
<1>1. l \in Labels /\ (l = "drain" => loops > 0) /\ (l \in Injectors => msgs = <<>>)
      /\ (l \notin Injectors \cup {"drain"} => msgs # <<>>)
  BY LabelFacts, Zenon DEF Labels
<1> HIDE DEF l
<1>2. wpc' = [wpc EXCEPT ![w] = l] /\ hand' = [hand EXCEPT ![w] = msgs]
      /\ depth' = [depth EXCEPT ![w] = loops]
  BY Zenon DEF Finish, WorkerGoto, l
<1>3. wpc' \in [Workers -> Labels] /\ hand' \in [Workers -> Seq(Message)] /\ depth' \in [Workers -> Nat]
  BY <1>1, <1>2, Zenon DEF WorkersOK
<1>4. ASSUME NEW v \in Workers
      PROVE  /\ wpc'[v] \in Injectors => hand'[v] = <<>>
             /\ wpc'[v] \notin Injectors \cup {"drain"} => hand'[v] # <<>>
             /\ wpc'[v] = "drain" => depth'[v] > 0
  BY <1>1, <1>2, Zenon DEF WorkersOK
<1> QED
  BY <1>3, <1>4, Zenon DEF WorkersOK

(* A worker in the middle of a message can put it down. *)
LEMMA HandTail ==
  ASSUME WorkersOK, NEW w \in Workers, wpc[w] \notin Injectors \cup {"drain"}
  PROVE  /\ hand[w] \in Seq(Message) /\ hand[w] # <<>>
         /\ Tail(hand[w]) \in Seq(Message) /\ Head(hand[w]) \in Message /\ depth[w] \in Nat
BY DEF WorkersOK

(* What a pop leaves is a queue of tasks. *)
LEMMA PopTailOK ==
  ASSUME NEW q \in Seq(Task)
  PROVE  PopTail(q) \in Seq(Task)
BY DEF PopTail

(* A worker that takes a task, or finds the queue empty, stays well typed. *)
LEMMA TakeOK ==
  ASSUME WorkersOK, NEW w \in Workers, wpc[w] \in Injectors, NEW q \in Seq(Task),
         NEW l \in Injectors, TakeFrom(w, q, l)
  PROVE  WorkersOK'
<1>1. CASE q # <<>>
  <2>1. Head(q) \in Seq(Message) /\ Head(q) # <<>>
    BY <1>1 DEF Task
  <2>2. hand' = [hand EXCEPT ![w] = Head(q)] /\ wpc' = [wpc EXCEPT ![w] = "read"] /\ depth' = depth
    BY <1>1, Zenon DEF TakeFrom, WorkerGoto
  <2>3. wpc' \in [Workers -> Labels] /\ hand' \in [Workers -> Seq(Message)] /\ depth' \in [Workers -> Nat]
    BY <2>1, <2>2, Zenon DEF WorkersOK, Labels
  <2>4. \A v \in Workers : v # w => wpc'[v] = wpc[v] /\ hand'[v] = hand[v] /\ depth'[v] = depth[v]
    BY <2>2, Zenon DEF WorkersOK
  <2>5. wpc'[w] = "read" /\ hand'[w] # <<>>
    BY <2>1, <2>2, Zenon DEF WorkersOK
  <2> QED
    BY <2>3, <2>4, <2>5, Zenon DEF WorkersOK, Injectors
<1>2. CASE q = <<>>
  <2>1. hand' = hand /\ wpc' = [wpc EXCEPT ![w] = l] /\ depth' = depth /\ l \in Labels
    BY <1>2, LabelFacts, Zenon DEF TakeFrom, WorkerGoto
  <2>2. wpc' \in [Workers -> Labels] /\ \A v \in Workers : wpc'[v] = wpc[v] \/ (v = w /\ wpc'[v] = l)
    BY <2>1, Zenon DEF WorkersOK
  <2>3. l # "drain" /\ l \in Injectors
    BY LabelFacts, Zenon
  <2> QED
    BY <2>1, <2>2, <2>3, Zenon DEF WorkersOK
<1> QED
  BY <1>1, <1>2, Zenon

-----------------------------------------------------------------------------
(* The mailbox holds messages. *)
LEMMA MailKept ==
  ASSUME MailOK, PopMail \/ ClearMail \/ TryRecv
  PROVE  MailOK'
<1>1. CASE UNCHANGED mail
  BY <1>1, Zenon DEF MailOK, mail
<1>2. CASE normal' = <<>> /\ urgent' = <<>>
  BY <1>2 DEF MailOK
<1>3. CASE Box!RemoveUrgent
  BY <1>3 DEF MailOK, Box!RemoveUrgent
<1>4. CASE Box!RemoveNormal
  BY <1>4 DEF MailOK, Box!RemoveNormal
<1> QED
  BY <1>1, <1>2, <1>3, <1>4, Zenon DEF PopMail, ClearMail, TryRecv

(* An enqueue keeps the mailbox well typed. *)
LEMMA EnqueueOK ==
  ASSUME MailOK, NEW m \in Message, Enqueue(m)
  PROVE  MailOK'
<1>1. Append(urgent, m) \in Seq(Message) /\ Append(normal, m) \in Seq(Message)
  BY DEF MailOK
<1> QED
  BY <1>1, Zenon DEF MailOK, Enqueue

-----------------------------------------------------------------------------
(* The clients' steps keep the types. *)
LEMMA BeginCallTypes ==
  ASSUME Inv, NEW c \in Clients, NEW k \in Calls, BeginCall(c, k)
  PROVE  Inv'
<1>1. PICK p \in [1..CallSize(k) -> Payloads], q \in [1..CallSize(k) -> Priorities] :
        unsent' = [unsent EXCEPT ![c] = [i \in 1..CallSize(k) |->
          [from |-> c, seq |-> Len(accepted[c]) + i, payload |-> p[i], priority |-> q[i]]]]
  BY Zenon DEF BeginCall
<1> DEFINE new == [i \in 1..CallSize(k) |->
          [from |-> c, seq |-> Len(accepted[c]) + i, payload |-> p[i], priority |-> q[i]]]
<1>2. CallSize(k) \in Nat \ {0} /\ Len(accepted[c]) \in Nat /\ MaxMessages \in Nat
  BY DispatchAssumption DEF CallSize, Inv, ClientsOK
<1>3. new \in Seq(Message)
  <2>1. \A i \in 1..CallSize(k) : Len(accepted[c]) + i \in 1..MaxMessages
    BY <1>2 DEF BeginCall
  <2>2. \A i \in 1..CallSize(k) : new[i] \in Message
    BY <2>1, Zenon DEF Message
  <2> QED
    BY <1>2, <2>2
<1>4. /\ new # <<>> /\ \A i \in DOMAIN new : new[i].from = c /\ new[i].seq = Len(accepted[c]) + i
      /\ k = "try_send" => Len(new) = 1
  <2>1. new # <<>> /\ \A i \in DOMAIN new : new[i].from = c /\ new[i].seq = Len(accepted[c]) + i
    BY <1>2
  <2>2. Len(new) = CallSize(k)
    BY <1>2, <1>3
  <2>3. k = "try_send" => CallSize(k) = 1
    BY Zenon DEF CallSize
  <2> QED
    BY <2>1, <2>2, <2>3, Zenon
<1> HIDE DEF new
<1>5. /\ unsent' = [unsent EXCEPT ![c] = new] /\ call' = [call EXCEPT ![c] = k]
      /\ cpc' = [cpc EXCEPT ![c] = "enqueue"] /\ accepted' = accepted /\ sent' = sent
  BY <1>1, Zenon DEF BeginCall, new
<1>6. ClientsOK'
  <2>1. /\ cpc' \in [Clients -> {"idle", "enqueue", "push"}] /\ call' \in [Clients -> Calls \cup {"none"}]
        /\ unsent' \in [Clients -> Seq(Message)] /\ sent' \in [Clients -> Seq(Message)]
        /\ accepted' \in [Clients -> Seq(Marks)]
    BY <1>3, <1>5, Zenon DEF Inv, ClientsOK
  <2>2. \A d \in Clients : d # c => cpc'[d] = cpc[d] /\ unsent'[d] = unsent[d] /\ call'[d] = call[d]
    BY <1>5, Zenon DEF Inv, ClientsOK
  <2>3. cpc'[c] = "enqueue" /\ unsent'[c] = new /\ call'[c] = k /\ sent[c] = <<>>
    BY <1>5 DEF Inv, ClientsOK, BeginCall
  <2> QED
    BY <1>4, <1>5, <2>1, <2>2, <2>3 DEF Inv, ClientsOK
<1> QED
  BY <1>6, Zenon DEF BeginCall, Inv, MailOK, QueuesOK, WorkersOK, RestOK, actor, mail, injectors, workerVars

(* One lemma per action, here and below: it keeps the state well typed. *)
LEMMA EnqueueNextTypes ==
  ASSUME Inv, NEW c \in Clients, EnqueueNext(c)
  PROVE  Inv'
<1>1. /\ unsent[c] \in Seq(Message) /\ unsent[c] # <<>> /\ Head(unsent[c]) \in Message
      /\ Tail(unsent[c]) \in Seq(Message) /\ Len(unsent[c]) \in Nat
      /\ accepted[c] \in Seq(Marks) /\ sent[c] \in Seq(Message)
  BY DEF Inv, ClientsOK, EnqueueNext
<1>2. PICK m \in Message, b \in Marks : m = Head(unsent[c]) /\ b = IsControl(m)
  <2>1. IsControl(Head(unsent[c])) \in Marks
    BY DEF IsControl, Marks
  <2> QED
    BY <1>1, <2>1, Zenon
<1>3. MailOK'
  BY <1>2, EnqueueOK, Zenon DEF Inv, EnqueueNext
<1>4. /\ unsent' = [unsent EXCEPT ![c] = Tail(unsent[c])]
      /\ sent' = [sent EXCEPT ![c] = Append(sent[c], m)]
      /\ accepted' = [accepted EXCEPT ![c] = Append(accepted[c], b)]
      /\ cpc' = [cpc EXCEPT ![c] = IF Len(unsent[c]) = 1 THEN "push" ELSE "enqueue"]
      /\ call' = call
  BY <1>2, Zenon DEF EnqueueNext, Inv, ClientsOK
<1>5. /\ Append(sent[c], m) \in Seq(Message) /\ Append(sent[c], m) # <<>>
      /\ Append(accepted[c], b) \in Seq(Marks)
      /\ Len(Append(accepted[c], b)) = Len(accepted[c]) + 1
  BY <1>1, AppendFacts, Zenon
<1>6. Len(unsent[c]) # 1 => Tail(unsent[c]) # <<>>
  <2>1. SUFFICES ASSUME Tail(unsent[c]) = <<>>
                 PROVE  Len(unsent[c]) = 1
    BY Zenon
  <2>2. Len(Tail(unsent[c])) = Len(unsent[c]) - 1
    BY <1>1
  <2>3. Len(Tail(unsent[c])) = 0
    BY <2>1, EmptyLen, Zenon
  <2> QED
    BY <1>1, <2>2, <2>3
<1>7. \A i \in DOMAIN Tail(unsent[c]) :
        /\ Tail(unsent[c])[i].from = c
        /\ Tail(unsent[c])[i].seq = Len(Append(accepted[c], b)) + i
  <2>1. \A i \in DOMAIN Tail(unsent[c]) : /\ Tail(unsent[c])[i] = unsent[c][i + 1]
                                          /\ i + 1 \in DOMAIN unsent[c] /\ i \in Int
    BY <1>1
  <2>2. Len(accepted[c]) \in Int
    BY <1>1
  <2>3. \A i \in DOMAIN unsent[c] :
          unsent[c][i].from = c /\ unsent[c][i].seq = Len(accepted[c]) + i
    BY Zenon DEF Inv, ClientsOK
  <2>4. ASSUME NEW i \in DOMAIN Tail(unsent[c])
        PROVE  /\ Tail(unsent[c])[i].from = c
               /\ Tail(unsent[c])[i].seq = Len(accepted[c]) + 1 + i
    <3>1. Tail(unsent[c])[i].from = c /\ Tail(unsent[c])[i].seq = Len(accepted[c]) + (i + 1)
      BY <2>1, <2>3, Zenon
    <3> QED
      BY <2>1, <2>2, <3>1
  <2> QED
    BY <1>5, <2>4, Zenon
<1>8. ClientsOK'
  <2>1. /\ cpc' \in [Clients -> {"idle", "enqueue", "push"}] /\ call' \in [Clients -> Calls \cup {"none"}]
        /\ unsent' \in [Clients -> Seq(Message)] /\ sent' \in [Clients -> Seq(Message)]
        /\ accepted' \in [Clients -> Seq(Marks)]
    BY <1>1, <1>4, <1>5, Zenon DEF Inv, ClientsOK
  <2>2. \A d \in Clients : d # c => /\ cpc'[d] = cpc[d] /\ sent'[d] = sent[d]
                                    /\ unsent'[d] = unsent[d] /\ accepted'[d] = accepted[d]
                                    /\ call'[d] = call[d]
    BY <1>4, Zenon DEF Inv, ClientsOK
  <2>3. /\ cpc'[c] = IF Len(unsent[c]) = 1 THEN "push" ELSE "enqueue"
        /\ unsent'[c] = Tail(unsent[c]) /\ sent'[c] = Append(sent[c], m)
        /\ accepted'[c] = Append(accepted[c], b) /\ call'[c] = call[c] /\ cpc[c] = "enqueue"
    BY <1>4 DEF Inv, ClientsOK, EnqueueNext
  <2>4. ASSUME NEW d \in Clients
        PROVE  /\ cpc'[d] = "idle" => sent'[d] = <<>>
               /\ cpc'[d] = "enqueue" => unsent'[d] # <<>>
               /\ (cpc'[d] = "enqueue" /\ call'[d] = "try_send") =>
                     sent'[d] = <<>> /\ Len(unsent'[d]) = 1
               /\ cpc'[d] = "push" => sent'[d] # <<>>
               /\ \A i \in DOMAIN unsent'[d] :
                    unsent'[d][i].from = d /\ unsent'[d][i].seq = Len(accepted'[d]) + i
    <3>1. CASE d = c
      <4>1. cpc'[c] # "idle" /\ (cpc'[c] = "enqueue" => Len(unsent[c]) # 1)
        BY <2>3, Zenon
      <4>2. call[c] = "try_send" => Len(unsent[c]) = 1
        BY <2>3, Zenon DEF Inv, ClientsOK
      <4>3. \A i \in DOMAIN unsent'[c] :
              unsent'[c][i].from = c /\ unsent'[c][i].seq = Len(accepted'[c]) + i
        BY <1>7, <2>3, Zenon
      <4> QED
        BY <1>5, <1>6, <2>3, <3>1, <4>1, <4>2, <4>3, Zenon
    <3>2. CASE d # c
      BY <2>2, <3>2 DEF Inv, ClientsOK
    <3> QED
      BY <3>1, <3>2, Zenon
  <2> QED
    BY <2>1, <2>4, Zenon DEF ClientsOK
<1> QED
  BY <1>3, <1>8, Zenon DEF EnqueueNext, Inv, QueuesOK, WorkersOK, RestOK, actor, injectors, workerVars

(* A send that finds the mailbox full. *)
LEMMA TrySendFullTypes ==
  ASSUME Inv, NEW c \in Clients, TrySendFull(c)
  PROVE  Inv'
<1>1. ClientsOK'
  <2>1. cpc[c] = "enqueue" /\ unsent' = [unsent EXCEPT ![c] = <<>>] /\ call' = [call EXCEPT ![c] = "none"]
        /\ cpc' = [cpc EXCEPT ![c] = "idle"] /\ sent' = sent /\ accepted' = accepted
    BY Zenon DEF TrySendFull
  <2>2. sent[c] = <<>>
    BY Zenon DEF TrySendFull, Inv, ClientsOK
  <2> QED
    BY <2>1, <2>2 DEF Inv, ClientsOK
<1> QED
  BY <1>1, Zenon DEF TrySendFull, Inv, MailOK, QueuesOK, WorkersOK, RestOK, actor, mail, injectors, workerVars

(* A call that is dropped as it waits for room. *)
LEMMA CancelCallTypes ==
  ASSUME Inv, NEW c \in Clients, CancelCall(c)
  PROVE  Inv'
<1>1. ClientsOK'
  <2>1. /\ unsent' = [unsent EXCEPT ![c] = <<>>] /\ sent' = [sent EXCEPT ![c] = <<>>]
        /\ call' = [call EXCEPT ![c] = "none"] /\ cpc' = [cpc EXCEPT ![c] = "idle"] /\ accepted' = accepted
    BY Zenon DEF CancelCall
  <2> QED
    BY <2>1 DEF Inv, ClientsOK
<1> QED
  BY <1>1, Zenon DEF CancelCall, Inv, MailOK, QueuesOK, WorkersOK, RestOK, actor, mail, injectors, workerVars

(* The push of a task onto its queue. *)
LEMMA PushTaskTypes ==
  ASSUME Inv, NEW c \in Clients, PushTask(c)
  PROVE  Inv'
<1>1. PICK t \in Task : t = sent[c]
  BY Zenon DEF PushTask, Inv, ClientsOK, Task
<1>2. QueuesOK'
  <2>1. \A q \in Seq(Task) : Append(q, t) \in Seq(Task)
    OBVIOUS
  <2>2. /\ critical' = critical \/ critical' = Append(critical, t)
        /\ high' = high \/ high' = Append(high, t)
        /\ global' = global \/ global' = Append(global, t)
    BY <1>1, Zenon DEF PushTask
  <2> QED
    BY <2>1, <2>2, Zenon DEF Inv, QueuesOK
<1>3. ClientsOK'
  <2>1. cpc[c] = "push" /\ sent' = [sent EXCEPT ![c] = <<>>] /\ call' = [call EXCEPT ![c] = "none"]
        /\ cpc' = [cpc EXCEPT ![c] = "idle"] /\ unsent' = unsent /\ accepted' = accepted
    BY Zenon DEF PushTask
  <2> QED
    BY <2>1 DEF Inv, ClientsOK
<1> QED
  BY <1>2, <1>3, Zenon DEF PushTask, Inv, MailOK, WorkersOK, RestOK, actor, mail, workerVars

(* A kill, which empties the mailbox. *)
LEMMA KillTypes ==
  ASSUME Inv, NEW k \in Killers, Kill(k)
  PROVE  Inv'
<1>1. MailOK'
  <2>1. ClearMail \/ UNCHANGED mail
    BY Zenon DEF Kill
  <2> QED
    BY <2>1, MailKept, Zenon DEF Inv, MailOK, mail
<1>2. RestOK'
  <2>1. state' \in {state, "Stopped", "None"}
    BY Zenon DEF Kill, SetState, Become, actor
  <2>2. kpc' \in [Killers -> {"idle", "clear", "unregister", "killed"}]
    BY Zenon DEF Kill, Inv, RestOK
  <2>3. runs' = runs
    BY Zenon DEF Kill
  <2> QED
    BY <2>1, <2>2, <2>3, Zenon DEF Inv, RestOK, States
<1> QED
  BY <1>1, <1>2 DEF Kill, Inv, QueuesOK, ClientsOK, WorkersOK, injectors, clientVars, workerVars

(* set_actor_state *)
LEMMA SetActorStateTypes ==
  ASSUME Inv, NEW s \in SetStates, SetActorState(s)
  PROVE  Inv'
<1>1. state' \in States
  BY DispatchAssumption, Zenon DEF SetActorState, Become, States
<1>2. UNCHANGED <<mail, injectors, clientVars, workerVars, kpc, runs>>
  BY Zenon DEF SetActorState
<1> QED
  BY <1>1, <1>2 DEF Inv, MailOK, QueuesOK, ClientsOK, WorkersOK, RestOK, mail, injectors, clientVars, workerVars

-----------------------------------------------------------------------------
(* The workers' steps keep the types. *)
LEMMA TakeTypes ==
  ASSUME Inv, NEW w \in Workers, Take(w)
  PROVE  Inv'
<1>1. QueuesOK'
  BY PopTailOK, Zenon DEF Take, TakeCritical, TakeHigh, TakeGlobal, Inv, QueuesOK
<1>2. WorkersOK'
  <2>1. CASE TakeCritical(w)
    BY <2>1, TakeOK, Zenon DEF TakeCritical, Inv, QueuesOK, Injectors
  <2>2. CASE TakeHigh(w)
    BY <2>2, TakeOK, Zenon DEF TakeHigh, Inv, QueuesOK, Injectors
  <2>3. CASE TakeGlobal(w)
    <3>1. FirstInjector \in Injectors /\ wpc[w] \in Injectors
      BY <2>3, LabelFacts, Zenon DEF TakeGlobal, Injectors
    <3> QED
      BY <2>3, <3>1, TakeOK, Zenon DEF TakeGlobal, Inv, QueuesOK
  <2> QED
    BY <2>1, <2>2, <2>3, Zenon DEF Take
<1>3. UNCHANGED <<actor, mail, clientVars, kpc, runs>>
  BY Zenon DEF Take, TakeCritical, TakeHigh, TakeGlobal, TakeFrom
<1> QED
  BY <1>1, <1>2, <1>3 DEF Inv, MailOK, ClientsOK, RestOK, actor, mail, clientVars

(* process_single_message is at a label with a message in hand. *)
LEMMA AtWork ==
  {"read", "execute", "count", "failed", "panicked", "control", "controlPop", "controlled",
   "requeue", "done", "next"} \subseteq Labels \ (Injectors \cup {"drain"})
BY Zenon DEF Labels, Injectors

(* The state after a message, and one that is stored, are actor states. *)
LEMMA StateAfterType ==
  ASSUME NEW m \in Message, state \in States
  PROVE  /\ StateAfter(m) \in States
         /\ \A s \in States : \A n : SetState(s, n) => state' \in States
<1>1. StateAfter(m) \in States
  BY Zenon DEF StateAfter, States
<1> QED
  BY <1>1, Zenon DEF SetState, Become, States

(* The read of the actor state by a worker. *)
LEMMA ReadStateTypes ==
  ASSUME Inv, NEW w \in Workers, ReadState(w)
  PROVE  Inv'
<1>1. PICK l \in {"execute", "control", "requeue", "done"} : WorkerGoto(w, l)
  BY Zenon DEF ReadState
<1>2. WorkersOK'
  BY <1>1, AtWork, WorkerMoves, Zenon DEF ReadState, Inv
<1> QED
  BY <1>2 DEF ReadState, Inv, MailOK, QueuesOK, ClientsOK, RestOK, actor, mail, injectors, clientVars

(* The handler runs a message, or panics. *)
LEMMA ExecuteTypes ==
  ASSUME Inv, NEW w \in Workers, Execute(w)
  PROVE  Inv'
<1>1. wpc[w] = "execute" /\ wpc[w] \notin Injectors \cup {"drain"}
  BY AtWork, Zenon DEF Execute
<1>2. PICK m \in Message : m = Head(hand[w])
  BY <1>1, HandTail, Zenon DEF Inv
<1>3. state' \in States
  <2>1. SetState(state, 1) \/ SetState(StateAfter(m), 1) \/ SetState("Failed", 1)
    BY <1>2, Zenon DEF Execute
  <2>2. state \in States /\ StateAfter(m) \in States /\ "Failed" \in States
    <3>1. state \in States /\ "Failed" \in States
      BY Zenon DEF Inv, RestOK, States
    <3> QED
      BY <1>2, <3>1, StateAfterType, Zenon
  <2> QED
    BY <1>2, <2>1, <2>2, StateAfterType, Zenon
<1>4. runs' \in [Clients -> [1..MaxMessages -> Nat]]
  <2>1. m.from \in Clients /\ m.seq \in 1..MaxMessages
    BY Zenon DEF Message
  <2>2. PICK c \in Clients, n \in 1..MaxMessages : c = m.from /\ n = m.seq
    BY <2>1, Zenon
  <2>3. runs' = [runs EXCEPT ![c][n] = @ + 1]
    BY <1>2, <2>2, Zenon DEF Execute
  <2>4. runs \in [Clients -> [1..MaxMessages -> Nat]]
    BY Zenon DEF Inv, RestOK
  <2>5. [runs[c] EXCEPT ![n] = @ + 1] \in [1..MaxMessages -> Nat]
    <3>1. PICK row \in [1..MaxMessages -> Nat] : row = runs[c]
      BY <2>4, Zenon
    <3>2. row[n] \in Nat
      BY Zenon
    <3>3. row[n] + 1 \in Nat
      BY <3>2
    <3> QED
      BY <3>1, <3>3, Zenon
  <2> QED
    BY <2>3, <2>4, <2>5, Zenon
<1>5. PICK l \in {"count", "failed", "panicked"} : WorkerGoto(w, l)
  BY Zenon DEF Execute
<1>6. WorkersOK'
  BY <1>1, <1>5, AtWork, WorkerMoves, Zenon DEF Execute, Inv
<1>7. UNCHANGED <<mail, injectors, clientVars, kpc>>
  BY Zenon DEF Execute
<1> QED
  BY <1>3, <1>4, <1>6, <1>7 DEF Inv, MailOK, QueuesOK, ClientsOK, RestOK, mail, injectors, clientVars

(* Count, DropMail, CatchUnwind, Controlled, Requeue and Ignore put messages
   down. *)
LEMMA FinishTypes ==
  ASSUME Inv, NEW w \in Workers,
         Count(w) \/ DropMail(w) \/ CatchUnwind(w) \/ Controlled(w) \/ Requeue(w) \/ Ignore(w)
  PROVE  Inv'
<1>1. wpc[w] \notin Injectors \cup {"drain"}
  BY AtWork, Zenon DEF Count, DropMail, CatchUnwind, Controlled, Requeue, Ignore
<1>2. PICK h \in Seq(Message), m \in Message, d \in Nat :
        h = Tail(hand[w]) /\ m = Head(hand[w]) /\ d = depth[w]
  BY <1>1, HandTail, Zenon DEF Inv
<1>3. MailOK'
  <2>1. PopMail \/ ClearMail \/ UNCHANGED mail \/ Enqueue(m)
    BY <1>2, Zenon DEF Count, DropMail, CatchUnwind, Controlled, Requeue, Ignore
  <2>2. CASE UNCHANGED mail
    BY <2>2, Zenon DEF Inv, MailOK, mail
  <2> QED
    BY <2>1, <2>2, MailKept, EnqueueOK, Zenon DEF Inv
<1>4. WorkersOK'
  <2>1. \/ Finish(w, h, d) \/ Finish(w, h, d + 1) \/ Finish(w, <<>>, 0)
    BY <1>2, Zenon DEF Count, DropMail, CatchUnwind, Controlled, Requeue, Ignore
  <2>2. <<>> \in Seq(Message) /\ d + 1 \in Nat /\ 0 \in Nat
    OBVIOUS
  <2> QED
    BY <2>1, <2>2, WorkerFinishes, Zenon DEF Inv
<1>5. UNCHANGED <<actor, injectors, clientVars, kpc, runs>>
  BY Zenon DEF Count, DropMail, CatchUnwind, Controlled, Requeue, Ignore
<1> QED
  BY <1>3, <1>4, <1>5 DEF Inv, QueuesOK, ClientsOK, RestOK, actor, injectors, clientVars

(* A system message is handled. *)
LEMMA ControlTypes ==
  ASSUME Inv, NEW w \in Workers, Control(w) \/ ControlPop(w)
  PROVE  Inv'
<1>1. wpc[w] \notin Injectors \cup {"drain"}
  BY AtWork, Zenon DEF Control, ControlPop
<1>2. PICK m \in Message : m = Head(hand[w])
  BY <1>1, HandTail, Zenon DEF Inv
<1>3. PICK l \in {"controlPop", "controlled"} : WorkerGoto(w, l)
  BY Zenon DEF Control, ControlPop
<1>4. WorkersOK'
  BY <1>1, <1>3, AtWork, WorkerMoves, Zenon DEF Control, ControlPop, Inv
<1>5. MailOK'
  <2>1. PopMail \/ UNCHANGED mail
    BY Zenon DEF Control, ControlPop
  <2> QED
    BY <2>1, MailKept, Zenon DEF Inv, MailOK, mail
<1>6. state' \in States
  <2>1. state' = state \/ SetState(StateAfter(m), 0)
    BY <1>2, Zenon DEF Control, ControlPop, actor
  <2>2. state \in States /\ StateAfter(m) \in States
    BY <1>2, StateAfterType, Zenon DEF Inv, RestOK
  <2> QED
    BY <1>2, <2>1, <2>2, StateAfterType, Zenon
<1> QED
  BY <1>4, <1>5, <1>6 DEF Control, ControlPop, Inv, QueuesOK, ClientsOK, RestOK, injectors, clientVars

(* A message put before a sequence of messages. *)
LEMMA Prepend ==
  ASSUME NEW m \in Message, NEW s \in Seq(Message)
  PROVE  <<m>> \o s \in Seq(Message) /\ <<m>> \o s # <<>>
<1>1. <<m>> \in Seq(Message) /\ Len(<<m>>) = 1
  OBVIOUS
<1>2. <<m>> \o s \in Seq(Message) /\ Len(<<m>> \o s) = 1 + Len(s)
  BY <1>1
<1>3. Len(s) \in Nat
  OBVIOUS
<1> QED
  BY <1>2, <1>3, EmptyLen

(* A worker collects a batch behind the task it took. *)
LEMMA DrainTypes ==
  ASSUME Inv, NEW w \in Workers, Drain(w)
  PROVE  Inv'
<1>1. wpc[w] = "drain" /\ hand[w] \in Seq(Message) /\ depth[w] - 1 \in Nat
  BY DEF Drain, Inv, WorkersOK
<1>2. CASE Registered /\ ~MailEmpty
  <2>1. FirstMail \in Message
    BY <1>2 DEF FirstMail, MailEmpty, Inv, MailOK
  <2>2. PICK h \in Seq(Message) : h = <<FirstMail>> \o hand[w] /\ h # <<>>
    BY <1>1, <2>1, Prepend, Zenon
  <2>3. hand' = [hand EXCEPT ![w] = h] /\ wpc' = [wpc EXCEPT ![w] = "read"] /\ depth' = depth
    BY <1>2, <2>2, Zenon DEF Drain, WorkerGoto
  <2>4. WorkersOK'
    <3>1. wpc' \in [Workers -> Labels] /\ hand' \in [Workers -> Seq(Message)]
      BY <2>2, <2>3, AtWork, Zenon DEF Inv, WorkersOK
    <3>2. \A v \in Workers : v # w => wpc'[v] = wpc[v] /\ hand'[v] = hand[v]
      BY <2>3, Zenon DEF Inv, WorkersOK
    <3>3. wpc'[w] = "read" /\ hand'[w] = h /\ "read" \notin Injectors
      BY <2>3, AtWork, Zenon DEF Inv, WorkersOK
    <3> QED
      BY <2>2, <2>3, <3>1, <3>2, <3>3, Zenon DEF Inv, WorkersOK
  <2>5. MailOK'
    BY <1>2, MailKept, Zenon DEF Drain, Inv
  <2> QED
    BY <2>4, <2>5 DEF Drain, Inv, QueuesOK, ClientsOK, RestOK, actor, injectors, clientVars
<1>3. CASE ~(Registered /\ ~MailEmpty)
  <2>1. WorkersOK'
    BY <1>1, <1>3, WorkerFinishes, Zenon DEF Drain, Inv
  <2> QED
    BY <1>3, <2>1 DEF Drain, Inv, MailOK, QueuesOK, ClientsOK, RestOK, actor, mail, injectors, clientVars
<1> QED
  BY <1>2, <1>3, Zenon

(* A worker goes on to the next message of its batch. *)
LEMMA NextOfBatchTypes ==
  ASSUME Inv, NEW w \in Workers, NextOfBatch(w)
  PROVE  Inv'
<1>1. WorkersOK'
  <2>1. CASE Finish(w, <<>>, 0)
    <3>1. <<>> \in Seq(Message) /\ 0 \in Nat
      OBVIOUS
    <3> QED
      BY <2>1, <3>1, WorkerFinishes, Zenon DEF Inv
  <2>2. CASE WorkerGoto(w, "read") /\ UNCHANGED <<hand, depth>>
    BY <2>2, AtWork, WorkerMoves, Zenon DEF NextOfBatch, Inv
  <2> QED
    BY <2>1, <2>2, Zenon DEF NextOfBatch
<1> QED
  BY <1>1 DEF NextOfBatch, Inv, MailOK, QueuesOK, ClientsOK, RestOK, actor, mail, injectors, clientVars

(* The initial state is well typed. *)
LEMMA InitTypes == Init => Inv
<1> SUFFICES ASSUME Init
             PROVE  Inv
  BY Zenon
<1>1. MailOK
  BY DEF Init, Box!Init, MailOK
<1>2. QueuesOK
  BY DEF Init, QueuesOK
<1>3. ClientsOK
  BY DEF Init, ClientsOK
<1>4. WorkersOK
  BY LabelFacts DEF Init, WorkersOK
<1>5. RestOK
  BY Zenon DEF Init, RestOK, States
<1> QED
  BY <1>1, <1>2, <1>3, <1>4, <1>5, Zenon DEF Inv

(* Every step, and every stutter, keeps the state well typed. *)
LEMMA NextTypes == Inv /\ [Next]_vars => Inv'
<1> SUFFICES ASSUME Inv, [Next]_vars
             PROVE  Inv'
  BY Zenon
<1>1. ASSUME NEW c \in Clients, ClientStep(c)
      PROVE  Inv'
  BY <1>1, EnqueueNextTypes, TrySendFullTypes, PushTaskTypes, Zenon DEF ClientStep
<1>2. ASSUME NEW c \in Clients, CancelCall(c) \/ \E k \in Calls : BeginCall(c, k)
      PROVE  Inv'
  BY <1>2, CancelCallTypes, BeginCallTypes, Zenon
<1>3. ASSUME NEW w \in Workers, WorkerStep(w)
      PROVE  Inv'
  BY <1>3, TakeTypes, ReadStateTypes, ExecuteTypes, FinishTypes, ControlTypes, DrainTypes,
     NextOfBatchTypes, Zenon DEF WorkerStep
<1>4. ASSUME NEW k \in Killers, Kill(k)
      PROVE  Inv'
  BY <1>4, KillTypes, Zenon
<1>5. ASSUME NEW s \in SetStates, SetActorState(s)
      PROVE  Inv'
  BY <1>5, SetActorStateTypes, Zenon
<1>6. CASE UNCHANGED vars
  BY <1>6 DEF vars, Inv, MailOK, QueuesOK, ClientsOK, WorkersOK, RestOK, actor, mail, injectors, clientVars,
              workerVars
<1> QED
  BY <1>1, <1>2, <1>3, <1>4, <1>5, <1>6, Zenon DEF Next

(* The types, and what a worker has in hand where, hold throughout. *)
THEOREM InvHolds == Spec => []Inv
  BY InitTypes, NextTypes, PTL DEF Spec

-----------------------------------------------------------------------------
(* The library's facts on finite sets, about the operators used here *)
Library == INSTANCE FiniteSetTheorems

(* The library and the standard module agree on which sets are finite. *)
LEMMA SameFinite ==
  ASSUME NEW S
  PROVE  Library!IsFiniteSet(S) <=> IsFiniteSet(S)
BY Zenon DEF IsFiniteSet, Library!IsFiniteSet

(* They agree on the cardinality too. *)
LEMMA SameCardinality ==
  ASSUME NEW S
  PROVE  Library!Cardinality(S) = Cardinality(S)
BY Zenon DEF Cardinality, Library!Cardinality

(* The empty set is the one of cardinality 0. *)
LEMMA EmptySet ==
  /\ IsFiniteSet({}) /\ Cardinality({}) = 0
  /\ \A S : IsFiniteSet(S) /\ S # {} => Cardinality(S) # 0
BY Library!FS_EmptySet, SameFinite, SameCardinality, Zenon

(* A new element adds one to the cardinality. *)
LEMMA AddElement ==
  ASSUME NEW S, NEW x, IsFiniteSet(S), x \notin S
  PROVE  IsFiniteSet(S \cup {x}) /\ Cardinality(S \cup {x}) = Cardinality(S) + 1
BY Library!FS_AddElement, SameFinite, SameCardinality, Zenon

(* An element that is removed takes one from it. *)
LEMMA RemoveElement ==
  ASSUME NEW S, NEW x, IsFiniteSet(S), x \in S
  PROVE  IsFiniteSet(S \ {x}) /\ Cardinality(S \ {x}) = Cardinality(S) - 1
BY Library!FS_RemoveElement, SameFinite, SameCardinality, Zenon

(* A part of a finite set is finite and no larger. *)
LEMMA PartOf ==
  ASSUME NEW S, NEW T, IsFiniteSet(S), T \subseteq S
  PROVE  IsFiniteSet(T) /\ Cardinality(T) \in Nat /\ Cardinality(T) <= Cardinality(S)
BY Library!FS_Subset, Library!FS_CardinalityType, SameFinite, SameCardinality, Zenon

-----------------------------------------------------------------------------
(* What the history variables record *)

HistoryOK ==
  /\ abandoned \subseteq Clients \X (1..MaxMessages)
  /\ steady \in BOOLEAN /\ ran \in Nat /\ forced \in BOOLEAN
  /\ steady => Live

(* The actor is touched by a worker that runs or handles a message, by a kill and
   by set_actor_state. *)
LEMMA WhoChanges ==
  ASSUME [Next]_vars
  PROVE  \/ UNCHANGED actor
         \/ \E w \in Workers : Execute(w) \/ Control(w)
         \/ \E k \in Killers : Kill(k)
         \/ \E s \in SetStates : SetActorState(s)
<1>1. ASSUME NEW w \in Workers, WorkerStep(w), ~Execute(w), ~Control(w)
      PROVE  UNCHANGED actor
  BY <1>1, Zenon DEF WorkerStep, Take, TakeCritical, TakeHigh, TakeGlobal, TakeFrom, ReadState, Count, DropMail,
         CatchUnwind, ControlPop, Controlled, Drain, Requeue, Ignore, NextOfBatch
<1>2. ASSUME NEW c \in Clients, ClientStep(c) \/ CancelCall(c) \/ \E k \in Calls : BeginCall(c, k)
      PROVE  UNCHANGED actor
  BY <1>2, Zenon DEF ClientStep, EnqueueNext, TrySendFull, PushTask, CancelCall, BeginCall
<1>3. CASE UNCHANGED vars
  BY <1>3, Zenon DEF vars
<1> QED
  BY <1>1, <1>2, <1>3, Zenon DEF Next

(* Its state is then set once, with one message run or none. *)
LEMMA ActorChanges ==
  ASSUME [Next]_vars
  PROVE  UNCHANGED actor \/ \E s : Become(s, 0) \/ Become(s, 1)
<1>1. ASSUME NEW w \in Workers, Execute(w)
      PROVE  \E s : Become(s, 1)
  BY <1>1, Zenon DEF Execute, SetState
<1>2. ASSUME NEW w \in Workers, Control(w)
      PROVE  \E s : Become(s, 0)
  BY <1>2, Zenon DEF Control, SetState
<1>3. ASSUME NEW k \in Killers, Kill(k)
      PROVE  UNCHANGED actor \/ \E s : Become(s, 0)
  BY <1>3, Zenon DEF Kill, SetState
<1> QED
  BY <1>1, <1>2, <1>3, WhoChanges, Zenon DEF SetActorState

(* An actor that has been live throughout was so before this step, and still is. *)
LEMMA SteadyBefore ==
  ASSUME HistoryOK, [Next]_vars, steady'
  PROVE  steady /\ Live /\ Live'
BY ActorChanges, Zenon DEF HistoryOK, Become, Live, actor

(* The count of messages run goes back to 0, stays, or takes in the one message
   that is run. *)
LEMMA RanBounds ==
  ASSUME HistoryOK, [Next]_vars
  PROVE  /\ ran' \in {0, ran, ran + 1}
         /\ (state # "Failed" => ran = 0) => (state' # "Failed" => ran' = 0)
<1>1. ran \in Nat
  BY Zenon DEF HistoryOK
<1>2. CASE UNCHANGED actor
  BY <1>2, Zenon DEF actor
<1>3. ASSUME NEW s, Become(s, 0)
      PROVE  ran' \in {0, ran} /\ (state' # "Failed" => ran' = 0)
  <2>1. ran + 0 = ran
    BY <1>1
  <2> QED
    BY <1>3, <2>1, Zenon DEF Become
<1>4. ASSUME NEW s, Become(s, 1)
      PROVE  ran' \in {0, ran + 1} /\ (state' # "Failed" => ran' = 0)
  BY <1>4, Zenon DEF Become
<1> QED
  BY <1>2, <1>3, <1>4, ActorChanges, Zenon

(* Every step records the history faithfully. *)
LEMMA HistoryStep ==
  ASSUME Inv, HistoryOK, [Next]_vars
  PROVE  HistoryOK'
<1>1. abandoned' \subseteq Clients \X (1..MaxMessages)
  <2>1. abandoned' = abandoned \/ \E c \in Clients : CancelCall(c)
    BY Zenon DEF Next, vars, ClientStep, WorkerStep, EnqueueNext, TrySendFull, PushTask, BeginCall, Take,
           TakeCritical, TakeHigh, TakeGlobal, TakeFrom, ReadState, Execute, Count, DropMail, CatchUnwind, Control,
           ControlPop, Controlled, Drain, Requeue, Ignore, NextOfBatch, Kill, SetActorState, clientVars
  <2>2. ASSUME NEW c \in Clients, CancelCall(c)
        PROVE  abandoned' \subseteq Clients \X (1..MaxMessages)
    <3>1. sent[c] \in Seq(Message)
      BY Zenon DEF Inv, ClientsOK
    <3>2. \A i \in DOMAIN sent[c] : sent[c][i] \in Message
      BY <3>1
    <3>3. \A m \in Range(sent[c]) : m \in Message
      BY <3>2, Zenon DEF Range
    <3>4. \A m \in Message : Id(m) \in Clients \X (1..MaxMessages)
      BY Zenon DEF Message, Id
    <3>5. abandoned' = abandoned \cup {Id(m) : m \in Range(sent[c])}
      BY <2>2, Zenon DEF CancelCall
    <3> QED
      BY <3>3, <3>4, <3>5, Zenon DEF HistoryOK
  <2> QED
    BY <2>1, <2>2, Zenon DEF HistoryOK
<1>2. steady' \in BOOLEAN /\ (steady' => Live')
  <2>1. steady' = steady \/ steady' = (steady /\ Live')
    BY ActorChanges, Zenon DEF Become, actor
  <2>2. steady' \in BOOLEAN
    BY <2>1, Zenon DEF HistoryOK
  <2>3. steady' => Live'
    BY SteadyBefore, Zenon
  <2> QED
    BY <2>2, <2>3, Zenon
<1>3. ran' \in Nat
  <2>1. ran \in Nat
    BY Zenon DEF HistoryOK
  <2> QED
    BY <2>1, RanBounds
<1>4. forced' \in BOOLEAN
  <2>1. forced' = forced \/ \E s \in SetStates : SetActorState(s)
    BY Zenon DEF Next, vars, ClientStep, WorkerStep, EnqueueNext, TrySendFull, PushTask, CancelCall, BeginCall, Take,
           TakeCritical, TakeHigh, TakeGlobal, TakeFrom, ReadState, Execute, Count, DropMail, CatchUnwind, Control,
           ControlPop, Controlled, Drain, Requeue, Ignore, NextOfBatch, Kill, SetState, actor
  <2> QED
    BY <2>1, Zenon DEF HistoryOK, SetActorState
<1> QED
  BY <1>1, <1>2, <1>3, <1>4, Zenon DEF HistoryOK

(* The history is well typed, and a steady actor is live, throughout. *)
LEMMA HistoryHolds == Spec => []HistoryOK
<1>1. Init => HistoryOK
  <2>1. 0 \in Nat
    BY Zenon
  <2> QED
    BY <2>1, Zenon DEF Init, HistoryOK, Live
<1>2. Inv /\ HistoryOK /\ [Next]_vars => HistoryOK'
  BY HistoryStep, Zenon
<1> QED
  BY <1>1, <1>2, InvHolds, PTL DEF Spec

-----------------------------------------------------------------------------
(* A failure is contained *)

(* The workers that are not about to run a message *)
Resting == {w \in Workers : wpc[w] # "execute"}

(* Of the workers about to run a message each has yet to add to the count. *)
FailInv == (state # "Failed" => ran = 0) /\ ran <= Cardinality(Resting)

(* A worker that runs a message comes to rest; only one that has found the
   actor live leaves it. *)
LEMMA RestingStep ==
  ASSUME Inv, [Next]_vars
  PROVE  \/ \E w \in Workers : Execute(w) /\ w \notin Resting /\ Resting' = Resting \cup {w}
         \/ /\ Resting \subseteq Resting'
            /\ UNCHANGED actor \/ \E s : Become(s, 0)
         \/ Live /\ UNCHANGED actor
<1>1. wpc \in [Workers -> Labels]
  BY Zenon DEF Inv, WorkersOK
<1>2. ASSUME UNCHANGED wpc
      PROVE  Resting \subseteq Resting'
  BY <1>2, Zenon DEF Resting
<1>3. ASSUME NEW w \in Workers, NEW l, l # "execute", WorkerGoto(w, l)
      PROVE  Resting \subseteq Resting' /\ (wpc[w] = "execute" => w \notin Resting /\ Resting' = Resting \cup {w})
  BY <1>1, <1>3, Zenon DEF Resting, WorkerGoto
<1>4. ASSUME NEW w \in Workers, Execute(w)
      PROVE  w \notin Resting /\ Resting' = Resting \cup {w}
  <2>1. wpc[w] = "execute" /\ \E l \in {"count", "failed", "panicked"} : WorkerGoto(w, l)
    BY <1>4, Zenon DEF Execute
  <2> QED
    BY <1>3, <2>1, Zenon
<1>5. ASSUME NEW w \in Workers, Control(w)
      PROVE  Resting \subseteq Resting' /\ \E s : Become(s, 0)
  BY <1>3, <1>5, Zenon DEF Control, SetState
<1>6. ASSUME NEW w \in Workers, ReadState(w)
      PROVE  UNCHANGED actor /\ (Live \/ Resting \subseteq Resting')
  <2>1. Live \/ \E l \in {"control", "requeue", "done"} : WorkerGoto(w, l)
    BY <1>6, Zenon DEF ReadState
  <2> QED
    BY <1>3, <1>6, <2>1, Zenon DEF ReadState
<1>7. ASSUME NEW w \in Workers, NEW msgs, NEW loops, Finish(w, msgs, loops)
      PROVE  Resting \subseteq Resting'
  <2>1. \E l \in {"drain", "next", "critical", "global"} : WorkerGoto(w, l)
    BY <1>7, Zenon DEF Finish, FirstInjector
  <2> QED
    BY <1>3, <2>1, Zenon
<1>8. ASSUME NEW w \in Workers, Take(w)
      PROVE  UNCHANGED actor /\ Resting \subseteq Resting'
  <2>1. \E l \in {"read", "high", "critical", "global"} : WorkerGoto(w, l)
    BY <1>8, Zenon DEF Take, TakeCritical, TakeHigh, TakeGlobal, TakeFrom, FirstInjector
  <2> QED
    BY <1>3, <1>8, <2>1, Zenon DEF Take, TakeCritical, TakeHigh, TakeGlobal, TakeFrom
<1>9. ASSUME NEW w \in Workers, Count(w) \/ DropMail(w) \/ CatchUnwind(w) \/ Controlled(w) \/ Requeue(w) \/ Ignore(w)
      PROVE  UNCHANGED actor /\ Resting \subseteq Resting'
  BY <1>7, <1>9, Zenon DEF Count, DropMail, CatchUnwind, Controlled, Requeue, Ignore
<1>10. ASSUME NEW w \in Workers, ControlPop(w) \/ Drain(w) \/ NextOfBatch(w)
       PROVE  UNCHANGED actor /\ Resting \subseteq Resting'
  BY <1>3, <1>7, <1>10, Zenon DEF ControlPop, Drain, NextOfBatch
<1>11. ASSUME NEW c \in Clients, ClientStep(c) \/ CancelCall(c) \/ \E k \in Calls : BeginCall(c, k)
       PROVE  UNCHANGED <<actor, wpc>>
  BY <1>11, Zenon DEF ClientStep, EnqueueNext, TrySendFull, PushTask, CancelCall, BeginCall, workerVars
<1>12. ASSUME NEW k \in Killers, Kill(k)
       PROVE  UNCHANGED wpc /\ (UNCHANGED actor \/ \E s : Become(s, 0))
  BY <1>12, Zenon DEF Kill, SetState, workerVars
<1>13. ASSUME NEW s \in SetStates, SetActorState(s)
       PROVE  UNCHANGED wpc /\ Become(s, 0)
  BY <1>13, Zenon DEF SetActorState, workerVars
<1>14. CASE UNCHANGED vars
  BY <1>2, <1>14, Zenon DEF vars, workerVars
<1> QED
  BY <1>2, <1>4, <1>5, <1>6, <1>8, <1>9, <1>10, <1>11, <1>12, <1>13, <1>14, Zenon DEF Next, WorkerStep

(* Every step keeps the count below the number of workers at rest. *)
LEMMA FailStep ==
  ASSUME IsFiniteSet(Workers), Inv, HistoryOK, FailInv, [Next]_vars
  PROVE  FailInv'
<1>1. PICK R, T : R = Resting /\ T = Resting'
  BY Zenon
<1>2. R \subseteq Workers /\ T \subseteq Workers
  BY <1>1, Zenon DEF Resting
<1>3. /\ IsFiniteSet(R) /\ Cardinality(R) \in Nat
      /\ IsFiniteSet(T) /\ Cardinality(T) \in Nat
  BY <1>2, PartOf, Zenon
<1>4. ran \in Nat /\ ran <= Cardinality(R) /\ (state # "Failed" => ran = 0)
  BY <1>1, Zenon DEF HistoryOK, FailInv
<1>5. ran' \in {0, ran, ran + 1} /\ (state' # "Failed" => ran' = 0)
  BY <1>4, RanBounds, Zenon
<1>6. ASSUME NEW w, w \notin R, T = R \cup {w}
      PROVE  ran' <= Cardinality(T)
  <2>1. Cardinality(T) = Cardinality(R) + 1
    BY <1>3, <1>6, AddElement, Zenon
  <2> QED
    BY <1>3, <1>4, <1>5, <2>1
<1>7. ASSUME UNCHANGED actor \/ \E s : Become(s, 0)
      PROVE  ran' \in {0, ran}
  <2>1. ran + 0 = ran
    BY <1>4
  <2> QED
    BY <1>7, <2>1, Zenon DEF actor, Become
<1>8. ASSUME R \subseteq T, UNCHANGED actor \/ \E s : Become(s, 0)
      PROVE  ran' <= Cardinality(T)
  <2>1. Cardinality(R) <= Cardinality(T)
    BY <1>3, <1>8, PartOf, Zenon
  <2>2. ran' \in {0, ran}
    BY <1>7, <1>8, Zenon
  <2> QED
    BY <1>3, <1>4, <2>1, <2>2
<1>9. ASSUME Live, UNCHANGED actor
      PROVE  ran' <= Cardinality(T)
  <2>1. ran' = 0
    BY <1>4, <1>9, Zenon DEF Live, actor
  <2> QED
    BY <1>3, <2>1
<1>10. ran' <= Cardinality(T)
  BY <1>1, <1>6, <1>8, <1>9, RestingStep, Zenon
<1> QED
  BY <1>1, <1>5, <1>10, Zenon DEF FailInv

(* However many workers, clients, messages and kills there are, a failure is
   contained: while the actor stays failed, no worker runs more than the one
   message it had already found the actor live for. *)
THEOREM FailureIsContained ==
  ASSUME IsFiniteSet(Workers)
  PROVE  Spec => []FailureContained
<1>1. Init => FailInv
  <2>1. SUFFICES ASSUME Init
                 PROVE  FailInv
    BY Zenon
  <2>2. Resting \subseteq Workers
    BY Zenon DEF Resting
  <2>3. Cardinality(Resting) \in Nat
    BY <2>2, PartOf, Zenon
  <2>4. ran = 0
    BY <2>1, Zenon DEF Init
  <2>5. ran <= Cardinality(Resting)
    BY <2>3, <2>4
  <2> QED
    BY <2>4, <2>5, Zenon DEF FailInv
<1>2. Inv /\ HistoryOK /\ FailInv /\ [Next]_vars => FailInv'
  BY FailStep, Zenon
<1>3. HistoryOK /\ FailInv => FailureContained
  <2>1. SUFFICES ASSUME HistoryOK, FailInv
                 PROVE  ran <= Cardinality(Workers)
    BY Zenon DEF FailureContained
  <2>2. PICK n \in Nat : n = Cardinality(Resting) /\ n <= Cardinality(Workers)
    <3>1. Resting \subseteq Workers
      BY Zenon DEF Resting
    <3> QED
      BY <3>1, PartOf, Zenon
  <2>3. Cardinality(Workers) \in Nat
    BY PartOf, Zenon
  <2> QED
    BY <2>1, <2>2, <2>3 DEF HistoryOK, FailInv
<1> QED
  BY <1>1, <1>2, <1>3, InvHolds, HistoryHolds, PTL DEF Spec

-----------------------------------------------------------------------------
(* Every message is in one place *)

(* Two copies of one message *)
Same(m, n) == m.from = n.from /\ m.seq = n.seq

Single(s) == \A i, j \in DOMAIN s : Same(s[i], s[j]) => i = j
Apart(s, t) == \A i \in DOMAIN s, j \in DOMAIN t : ~Same(s[i], t[j])
Off(s, q) == \A i \in DOMAIN q : Apart(s, q[i])
Lone(q) == \A i \in DOMAIN q : Single(q[i]) /\ \A j \in DOMAIN q : i # j => Apart(q[i], q[j])
Disjoint(p, q) == \A i \in DOMAIN p : Off(p[i], q)

(* The tasks of the injectors x, y and z, what workers have in hand (h) and what
   clients have yet to push (s) hold no message twice. *)
Unique(x, y, z, h, s) ==
  /\ Lone(x) /\ Lone(y) /\ Lone(z)
  /\ Disjoint(x, y) /\ Disjoint(x, z) /\ Disjoint(y, z)
  /\ \A w \in Workers :
       /\ Single(h[w]) /\ Off(h[w], x) /\ Off(h[w], y) /\ Off(h[w], z)
       /\ \A v \in Workers : v # w => Apart(h[v], h[w])
  /\ \A c \in Clients :
       /\ Single(s[c]) /\ Off(s[c], x) /\ Off(s[c], y) /\ Off(s[c], z)
       /\ \A w \in Workers : Apart(s[c], h[w])
       /\ \A d \in Clients : d # c => Apart(s[c], s[d])

(* All of those messages *)
Held(x, y, z, h, s) ==
  UNION ({Range(s[c]) : c \in Clients} \cup {Range(h[w]) : w \in Workers}
           \cup {Range(t) : t \in Range(x) \cup Range(y) \cup Range(z)})

(* Being apart is symmetric, for sequences and for queues. *)
LEMMA Symmetric ==
  /\ \A s, t : Apart(s, t) => Apart(t, s)
  /\ \A p, q : Disjoint(p, q) => Disjoint(q, p)
<1>1. \A s, t : Apart(s, t) => Apart(t, s)
  BY Zenon DEF Apart, Same
<1> QED
  BY <1>1, Zenon DEF Disjoint, Off

(* Nothing is in the empty sequence or in the empty queue. *)
LEMMA EmptyApart ==
  /\ Single(<<>>)
  /\ \A t : Apart(<<>>, t) /\ Apart(t, <<>>) /\ Off(<<>>, t)
  /\ Lone(<<>>) /\ \A q : Disjoint(<<>>, q)
BY DEF Single, Apart, Off, Lone, Disjoint

(* The tail of a sequence is apart from what the sequence was apart from, and from its head. *)
LEMMA TailApart ==
  ASSUME NEW s \in Seq(Message), s # <<>>
  PROVE  /\ Single(s) => Single(Tail(s)) /\ \A i \in DOMAIN Tail(s) : ~Same(Tail(s)[i], Head(s))
         /\ \A t : Apart(s, t) => Apart(Tail(s), t)
         /\ \A q : Off(s, q) => Off(Tail(s), q)
<1>1. \A i \in DOMAIN Tail(s) : i + 1 \in DOMAIN s /\ Tail(s)[i] = s[i + 1] /\ i \in Nat /\ i + 1 # 1
  OBVIOUS
<1>2. 1 \in DOMAIN s /\ Head(s) = s[1]
  OBVIOUS
<1>3. ASSUME Single(s)
      PROVE  Single(Tail(s)) /\ \A i \in DOMAIN Tail(s) : ~Same(Tail(s)[i], Head(s))
  <2>1. ASSUME NEW i \in DOMAIN Tail(s), NEW j \in DOMAIN Tail(s), Same(Tail(s)[i], Tail(s)[j])
        PROVE  i = j
    <3>1. i + 1 = j + 1
      BY <1>1, <1>3, <2>1, Zenon DEF Single
    <3> QED
      BY <1>1, <3>1
  <2>2. \A i \in DOMAIN Tail(s) : ~Same(Tail(s)[i], Head(s))
    BY <1>1, <1>2, <1>3, Zenon DEF Single
  <2> QED
    BY <2>1, <2>2, Zenon DEF Single
<1>4. \A t : Apart(s, t) => Apart(Tail(s), t)
  BY <1>1, Zenon DEF Apart
<1> QED
  BY <1>3, <1>4, Zenon DEF Off

(* A popped task is apart from the queue that is left. *)
LEMMA PopApart ==
  ASSUME NEW q \in Seq(Task), q # <<>>
  PROVE  /\ Lone(q) => Lone(Tail(q)) /\ Single(Head(q)) /\ Off(Head(q), Tail(q))
         /\ \A s : Off(s, q) => Off(s, Tail(q)) /\ Apart(s, Head(q))
         /\ \A p : Disjoint(q, p) => Disjoint(Tail(q), p) /\ Off(Head(q), p)
<1>1. \A i \in DOMAIN Tail(q) : i + 1 \in DOMAIN q /\ Tail(q)[i] = q[i + 1] /\ i \in Nat /\ i + 1 # 1
  OBVIOUS
<1>2. 1 \in DOMAIN q /\ Head(q) = q[1]
  OBVIOUS
<1>3. ASSUME Lone(q)
      PROVE  Lone(Tail(q)) /\ Single(Head(q)) /\ Off(Head(q), Tail(q))
  <2>1. \A i, j \in DOMAIN Tail(q) : i # j => Apart(Tail(q)[i], Tail(q)[j])
    <3>1. \A i, j \in DOMAIN Tail(q) : i # j => i + 1 # j + 1
      BY <1>1
    <3> QED
      BY <1>1, <1>3, <3>1, Zenon DEF Lone
  <2>2. \A i \in DOMAIN Tail(q) : Single(Tail(q)[i])
    BY <1>1, <1>3, Zenon DEF Lone
  <2>3. Single(Head(q)) /\ Off(Head(q), Tail(q))
    BY <1>1, <1>2, <1>3, Zenon DEF Lone, Off
  <2> QED
    BY <2>1, <2>2, <2>3, Zenon DEF Lone
<1>4. \A s : Off(s, q) => Off(s, Tail(q)) /\ Apart(s, Head(q))
  BY <1>1, <1>2, Zenon DEF Off
<1>5. \A p : Disjoint(q, p) => Disjoint(Tail(q), p) /\ Off(Head(q), p)
  BY <1>1, <1>2, Zenon DEF Disjoint
<1> QED
  BY <1>3, <1>4, <1>5, Zenon

(* A task that was apart from a queue may be pushed onto it. *)
LEMMA PushApart ==
  ASSUME NEW q \in Seq(Task), NEW t \in Task
  PROVE  /\ Lone(q) /\ Single(t) /\ Off(t, q) => Lone(Append(q, t))
         /\ \A s : Off(s, q) /\ Apart(s, t) => Off(s, Append(q, t))
         /\ \A p : Disjoint(q, p) /\ Off(t, p) => Disjoint(Append(q, t), p)
<1> DEFINE r == Append(q, t)
           n == Len(q) + 1
<1>1. /\ DOMAIN r = DOMAIN q \cup {n} /\ n \notin DOMAIN q
      /\ r[n] = t /\ \A i \in DOMAIN q : r[i] = q[i]
  OBVIOUS
<1> HIDE DEF r, n
<1>2. ASSUME Lone(q), Single(t), Off(t, q)
      PROVE  Lone(r)
  <2>1. \A i \in DOMAIN q : Apart(t, q[i]) /\ Apart(q[i], t)
    BY <1>2, Symmetric, Zenon DEF Off
  <2> QED
    BY <1>1, <1>2, <2>1, Zenon DEF Lone
<1>3. \A s : Off(s, q) /\ Apart(s, t) => Off(s, r)
  BY <1>1, Zenon DEF Off
<1>4. \A p : Disjoint(q, p) /\ Off(t, p) => Disjoint(r, p)
  BY <1>1, Zenon DEF Disjoint
<1> QED
  BY <1>2, <1>3, <1>4, Zenon DEF r

(* A message that was nowhere in a sequence may be appended to it. *)
LEMMA AddApart ==
  ASSUME NEW s \in Seq(Message), NEW m \in Message
  PROVE  /\ Single(s) /\ (\A i \in DOMAIN s : ~Same(s[i], m)) => Single(Append(s, m))
         /\ \A t : Apart(s, t) /\ (\A i \in DOMAIN t : ~Same(t[i], m)) => Apart(Append(s, m), t)
<1> DEFINE r == Append(s, m)
           n == Len(s) + 1
<1>1. /\ DOMAIN r = DOMAIN s \cup {n} /\ n \notin DOMAIN s
      /\ r[n] = m /\ \A i \in DOMAIN s : r[i] = s[i]
  OBVIOUS
<1> HIDE DEF r, n
<1>2. ASSUME Single(s), \A i \in DOMAIN s : ~Same(s[i], m)
      PROVE  Single(r)
  BY <1>1, <1>2, Zenon DEF Single, Same
<1>3. \A t : Apart(s, t) /\ (\A i \in DOMAIN t : ~Same(t[i], m)) => Apart(r, t)
  BY <1>1 DEF Apart, Same
<1> QED
  BY <1>2, <1>3, Zenon DEF r

Hands == [Workers -> Seq(Message)]
Sents == [Clients -> Seq(Message)]

(* The injectors play the same part. *)
LEMMA SwapInjectors ==
  ASSUME NEW x, NEW y, NEW z, NEW h, NEW s
  PROVE  /\ Unique(x, y, z, h, s) <=> Unique(y, x, z, h, s)
         /\ Unique(x, y, z, h, s) <=> Unique(z, y, x, h, s)
         /\ Held(x, y, z, h, s) = Held(y, x, z, h, s)
         /\ Held(x, y, z, h, s) = Held(z, y, x, h, s)
<1>1. /\ Unique(x, y, z, h, s) <=> Unique(y, x, z, h, s)
      /\ Unique(x, y, z, h, s) <=> Unique(z, y, x, h, s)
  BY Symmetric, Zenon DEF Unique
<1>2. /\ Range(x) \cup Range(y) \cup Range(z) = Range(y) \cup Range(x) \cup Range(z)
      /\ Range(x) \cup Range(y) \cup Range(z) = Range(z) \cup Range(y) \cup Range(x)
  BY Zenon
<1> QED
  BY <1>1, <1>2, Zenon DEF Held

(* A worker takes the first task of an injector. *)
LEMMA UniquePop ==
  ASSUME NEW x \in Seq(Task), x # <<>>, NEW y, NEW z, NEW h \in Hands, NEW s,
         Unique(x, y, z, h, s), NEW w \in Workers, h[w] = <<>>
  PROVE  Unique(Tail(x), y, z, [h EXCEPT ![w] = Head(x)], s)
<1> DEFINE g == [h EXCEPT ![w] = Head(x)]
<1>1. g[w] = Head(x) /\ \A v \in Workers : v # w => g[v] = h[v]
  BY Zenon DEF Hands
<1> HIDE DEF g
<1>2. Lone(Tail(x)) /\ Disjoint(Tail(x), y) /\ Disjoint(Tail(x), z)
  BY PopApart, Zenon DEF Unique
<1>3. /\ Single(Head(x)) /\ Off(Head(x), Tail(x)) /\ Off(Head(x), y) /\ Off(Head(x), z)
      /\ \A v \in Workers : Apart(h[v], Head(x)) /\ Apart(Head(x), h[v]) /\ Off(h[v], Tail(x))
      /\ \A c \in Clients : Apart(s[c], Head(x)) /\ Off(s[c], Tail(x))
  BY PopApart, Symmetric, Zenon DEF Unique
<1>4. ASSUME NEW v \in Workers
      PROVE  /\ Single(g[v]) /\ Off(g[v], Tail(x)) /\ Off(g[v], y) /\ Off(g[v], z)
             /\ \A u \in Workers : u # v => Apart(g[u], g[v])
             /\ \A c \in Clients : Apart(s[c], g[v])
  BY <1>1, <1>3, Zenon DEF Unique
<1> QED
  BY <1>2, <1>3, <1>4, Zenon DEF Unique, g

(* A client pushes what it has enqueued as one task. *)
LEMMA UniquePush ==
  ASSUME NEW x \in Seq(Task), NEW y, NEW z, NEW h, NEW s \in Sents,
         Unique(x, y, z, h, s), NEW c \in Clients, s[c] # <<>>
  PROVE  Unique(Append(x, s[c]), y, z, h, [s EXCEPT ![c] = <<>>])
<1> DEFINE r == [s EXCEPT ![c] = <<>>]
<1>1. r[c] = <<>> /\ \A d \in Clients : d # c => r[d] = s[d]
  BY Zenon DEF Sents
<1>2. PICK t \in Task : t = s[c]
  BY Zenon DEF Task, Sents
<1> HIDE DEF r
<1>3. Lone(Append(x, t)) /\ Disjoint(Append(x, t), y) /\ Disjoint(Append(x, t), z)
  BY <1>2, PushApart, Zenon DEF Unique
<1>4. ASSUME NEW w \in Workers
      PROVE  Off(h[w], Append(x, t))
  BY <1>2, PushApart, Symmetric, Zenon DEF Unique
<1>5. ASSUME NEW d \in Clients
      PROVE  /\ Single(r[d]) /\ Off(r[d], Append(x, t)) /\ Off(r[d], y) /\ Off(r[d], z)
             /\ \A w \in Workers : Apart(r[d], h[w])
             /\ \A e \in Clients : e # d => Apart(r[d], r[e])
  <2>1. CASE d = c
    BY <1>1, <2>1, EmptyApart, Zenon
  <2>2. CASE d # c
    BY <1>1, <1>2, <2>2, PushApart, EmptyApart, Zenon DEF Unique
  <2> QED
    BY <2>1, <2>2, Zenon
<1> QED
  BY <1>2, <1>3, <1>4, <1>5, Zenon DEF Unique, r

(* A worker puts down its first message, ... *)
LEMMA UniqueTail ==
  ASSUME NEW x, NEW y, NEW z, NEW h \in Hands, NEW s,
         Unique(x, y, z, h, s), NEW w \in Workers, h[w] # <<>>
  PROVE  Unique(x, y, z, [h EXCEPT ![w] = Tail(h[w])], s)
<1> DEFINE g == [h EXCEPT ![w] = Tail(h[w])]
<1>1. g[w] = Tail(h[w]) /\ h[w] \in Seq(Message) /\ \A v \in Workers : v # w => g[v] = h[v]
  BY Zenon DEF Hands
<1> HIDE DEF g
<1>2. /\ Single(Tail(h[w])) /\ Off(Tail(h[w]), x) /\ Off(Tail(h[w]), y) /\ Off(Tail(h[w]), z)
      /\ \A v \in Workers : v # w => Apart(Tail(h[w]), h[v]) /\ Apart(h[v], Tail(h[w]))
      /\ \A c \in Clients : Apart(s[c], Tail(h[w]))
  BY <1>1, TailApart, Symmetric, Zenon DEF Unique
<1>3. ASSUME NEW v \in Workers
      PROVE  /\ Single(g[v]) /\ Off(g[v], x) /\ Off(g[v], y) /\ Off(g[v], z)
             /\ \A u \in Workers : u # v => Apart(g[u], g[v])
             /\ \A c \in Clients : Apart(s[c], g[v])
  BY <1>1, <1>2, Zenon DEF Unique
<1> QED
  BY <1>3, Zenon DEF Unique, g

(* ... or all it has. *)
LEMMA UniqueDrop ==
  ASSUME NEW x, NEW y, NEW z, NEW h \in Hands, NEW s,
         Unique(x, y, z, h, s), NEW w \in Workers
  PROVE  Unique(x, y, z, [h EXCEPT ![w] = <<>>], s)
<1> DEFINE g == [h EXCEPT ![w] = <<>>]
<1>1. g[w] = <<>> /\ \A v \in Workers : v # w => g[v] = h[v]
  BY Zenon DEF Hands
<1> HIDE DEF g
<1>2. ASSUME NEW v \in Workers
      PROVE  /\ Single(g[v]) /\ Off(g[v], x) /\ Off(g[v], y) /\ Off(g[v], z)
             /\ \A u \in Workers : u # v => Apart(g[u], g[v])
             /\ \A c \in Clients : Apart(s[c], g[v])
  BY <1>1, EmptyApart, Zenon DEF Unique
<1> QED
  BY <1>2, Zenon DEF Unique, g

-----------------------------------------------------------------------------
(* Which messages are held *)
InSeq(s, m) == \E i \in DOMAIN s : m = s[i]
InQueue(q, m) == \E i \in DOMAIN q : InSeq(q[i], m)

(* Where a held message is. *)
LEMMA HeldWhere ==
  ASSUME NEW x, NEW y, NEW z, NEW h, NEW s, NEW m
  PROVE  m \in Held(x, y, z, h, s) <=> \/ \E c \in Clients : InSeq(s[c], m)
                                       \/ \E w \in Workers : InSeq(h[w], m)
                                       \/ InQueue(x, m) \/ InQueue(y, m) \/ InQueue(z, m)
<1>1. \A t : m \in Range(t) <=> InSeq(t, m)
  BY Zenon DEF Range, InSeq
<1>2. \A q : (\E t \in Range(q) : m \in Range(t)) <=> InQueue(q, m)
  BY <1>1, Zenon DEF Range, InQueue
<1>3. m \in Held(x, y, z, h, s) <=>
        \/ \E c \in Clients : m \in Range(s[c])
        \/ \E w \in Workers : m \in Range(h[w])
        \/ \E t \in Range(x) \cup Range(y) \cup Range(z) : m \in Range(t)
  BY Zenon DEF Held
<1> QED
  BY <1>1, <1>2, <1>3, Zenon

(* A pop moves messages from the queue to the hand of a worker. *)
LEMMA HeldPop ==
  ASSUME NEW x \in Seq(Task), x # <<>>, NEW y, NEW z, NEW h \in Hands, NEW s,
         Unique(x, y, z, h, s), NEW w \in Workers, h[w] = <<>>
  PROVE  \A m : m \in Held(Tail(x), y, z, [h EXCEPT ![w] = Head(x)], s) <=> m \in Held(x, y, z, h, s)
<1> DEFINE g == [h EXCEPT ![w] = Head(x)]
<1>1. g[w] = Head(x) /\ \A v \in Workers : v # w => g[v] = h[v]
  BY Zenon DEF Hands
<1> HIDE DEF g
<1>2. ASSUME NEW m
      PROVE  InQueue(x, m) <=> InSeq(Head(x), m) \/ InQueue(Tail(x), m)
  <2>1. 1 \in DOMAIN x /\ x[1] = Head(x)
    OBVIOUS
  <2>2. \A i \in DOMAIN Tail(x) : i + 1 \in DOMAIN x /\ Tail(x)[i] = x[i + 1]
    OBVIOUS
  <2>3. \A i \in DOMAIN x : i # 1 => i - 1 \in DOMAIN Tail(x) /\ Tail(x)[i - 1] = x[i]
    OBVIOUS
  <2> QED
    BY <2>1, <2>2, <2>3, Zenon DEF InQueue
<1>3. ASSUME NEW m
      PROVE  (\E v \in Workers : InSeq(g[v], m)) <=>
               InSeq(Head(x), m) \/ \E v \in Workers : InSeq(h[v], m)
  <2>1. ~InSeq(<<>>, m)
    BY DEF InSeq
  <2> QED
    BY <1>1, <2>1, Zenon
<1>4. ASSUME NEW m
      PROVE  m \in Held(Tail(x), y, z, g, s) <=> m \in Held(x, y, z, h, s)
  BY <1>2, <1>3, HeldWhere
<1> QED
  BY <1>4, Zenon DEF g

(* A push moves messages from the client to the queue. *)
LEMMA HeldPush ==
  ASSUME NEW x \in Seq(Task), NEW y, NEW z, NEW h, NEW s \in Sents,
         Unique(x, y, z, h, s), NEW c \in Clients, s[c] # <<>>
  PROVE  \A m : m \in Held(Append(x, s[c]), y, z, h, [s EXCEPT ![c] = <<>>]) <=> m \in Held(x, y, z, h, s)
<1> DEFINE r == [s EXCEPT ![c] = <<>>]
<1>1. r[c] = <<>> /\ \A d \in Clients : d # c => r[d] = s[d]
  BY Zenon DEF Sents
<1>2. PICK t \in Task : t = s[c]
  BY Zenon DEF Task, Sents
<1> HIDE DEF r
<1>3. ASSUME NEW m
      PROVE  InQueue(Append(x, t), m) <=> InQueue(x, m) \/ InSeq(t, m)
  <2>1. /\ DOMAIN Append(x, t) = DOMAIN x \cup {Len(x) + 1} /\ Append(x, t)[Len(x) + 1] = t
        /\ \A i \in DOMAIN x : Append(x, t)[i] = x[i]
    OBVIOUS
  <2> QED
    BY <2>1, Zenon DEF InQueue
<1>4. ASSUME NEW m
      PROVE  (\E d \in Clients : InSeq(s[d], m)) <=> InSeq(t, m) \/ \E d \in Clients : InSeq(r[d], m)
  <2>1. ~InSeq(<<>>, m)
    BY DEF InSeq
  <2> QED
    BY <1>1, <1>2, <2>1, Zenon
<1>5. ASSUME NEW m
      PROVE  m \in Held(Append(x, t), y, z, h, r) <=> m \in Held(x, y, z, h, s)
  BY <1>3, <1>4, HeldWhere
<1> QED
  BY <1>2, <1>5, Zenon DEF r

(* What a worker puts down is held nowhere else. *)
LEMMA HeldElsewhere ==
  ASSUME NEW x, NEW y, NEW z, NEW h \in Hands, NEW s,
         Unique(x, y, z, h, s), NEW w \in Workers, NEW i \in DOMAIN h[w],
         NEW m, \/ \E c \in Clients : InSeq(s[c], m)
                \/ \E v \in Workers : v # w /\ InSeq(h[v], m)
                \/ InQueue(x, m) \/ InQueue(y, m) \/ InQueue(z, m)
  PROVE  ~Same(m, h[w][i])
<1>1. CASE \E c \in Clients : InSeq(s[c], m)
  BY <1>1, Zenon DEF Unique, Apart, InSeq
<1>2. CASE \E v \in Workers : v # w /\ InSeq(h[v], m)
  BY <1>2, Zenon DEF Unique, Apart, InSeq
<1>3. ASSUME NEW q, Off(h[w], q), InQueue(q, m)
      PROVE  ~Same(m, h[w][i])
  BY <1>3, Zenon DEF Off, Apart, InQueue, InSeq, Same
<1>4. Off(h[w], x) /\ Off(h[w], y) /\ Off(h[w], z)
  BY Zenon DEF Unique
<1> QED
  BY <1>1, <1>2, <1>3, <1>4, Zenon

(* A worker that puts down the head of its hand gives up that message only. *)
LEMMA HeldTail ==
  ASSUME NEW x, NEW y, NEW z, NEW h \in Hands, NEW s,
         Unique(x, y, z, h, s), NEW w \in Workers, h[w] # <<>>
  PROVE  /\ \A m : m \in Held(x, y, z, [h EXCEPT ![w] = Tail(h[w])], s)
                  <=> m \in Held(x, y, z, h, s) /\ m # Head(h[w])
         /\ \A m \in Held(x, y, z, [h EXCEPT ![w] = Tail(h[w])], s) : ~Same(m, Head(h[w]))
         /\ Head(h[w]) \in Held(x, y, z, h, s)
<1> DEFINE g == [h EXCEPT ![w] = Tail(h[w])]
<1>1. g[w] = Tail(h[w]) /\ h[w] \in Seq(Message) /\ \A v \in Workers : v # w => g[v] = h[v]
  BY Zenon DEF Hands
<1> HIDE DEF g
<1>2. 1 \in DOMAIN h[w] /\ Head(h[w]) = h[w][1]
  BY <1>1
<1>3. ASSUME NEW m
      PROVE  InSeq(h[w], m) <=> m = Head(h[w]) \/ InSeq(Tail(h[w]), m)
  <2>1. \A i \in DOMAIN Tail(h[w]) : i + 1 \in DOMAIN h[w] /\ Tail(h[w])[i] = h[w][i + 1]
    BY <1>1
  <2>2. \A i \in DOMAIN h[w] : i # 1 => i - 1 \in DOMAIN Tail(h[w]) /\ Tail(h[w])[i - 1] = h[w][i]
    BY <1>1
  <2>3. ASSUME InSeq(h[w], m), m # Head(h[w])
        PROVE  InSeq(Tail(h[w]), m)
    <3>1. PICK i \in DOMAIN h[w] : m = h[w][i]
      BY <2>3, Zenon DEF InSeq
    <3>2. i - 1 \in DOMAIN Tail(h[w]) /\ Tail(h[w])[i - 1] = m
      BY <1>2, <2>2, <2>3, <3>1, Zenon
    <3> QED
      BY <3>2, Zenon DEF InSeq
  <2>4. ASSUME InSeq(Tail(h[w]), m)
        PROVE  InSeq(h[w], m)
    BY <2>1, <2>4, Zenon DEF InSeq
  <2> QED
    BY <1>2, <2>3, <2>4, Zenon DEF InSeq
<1>4. ASSUME NEW m \in Held(x, y, z, g, s)
      PROVE  ~Same(m, Head(h[w]))
  <2>1. CASE InSeq(Tail(h[w]), m)
    BY <1>1, <2>1, TailApart, Zenon DEF InSeq, Unique
  <2>2. CASE ~InSeq(Tail(h[w]), m)
    <3>1. \/ \E c \in Clients : InSeq(s[c], m)
          \/ \E v \in Workers : InSeq(g[v], m)
          \/ InQueue(x, m) \/ InQueue(y, m) \/ InQueue(z, m)
      BY HeldWhere, Zenon
    <3>2. \/ \E c \in Clients : InSeq(s[c], m)
          \/ \E v \in Workers : v # w /\ InSeq(h[v], m)
          \/ InQueue(x, m) \/ InQueue(y, m) \/ InQueue(z, m)
      BY <1>1, <2>2, <3>1, Zenon
    <3> QED
      BY <1>2, <3>2, HeldElsewhere, Zenon
  <2> QED
    BY <2>1, <2>2, Zenon
<1>5. ASSUME NEW m
      PROVE  m \in Held(x, y, z, h, s) <=> m = Head(h[w]) \/ m \in Held(x, y, z, g, s)
  BY <1>1, <1>3, HeldWhere
<1>6. Head(h[w]) \notin Held(x, y, z, g, s)
  BY <1>4, Zenon DEF Same
<1>7. ASSUME NEW m
      PROVE  m \in Held(x, y, z, g, s) <=> m \in Held(x, y, z, h, s) /\ m # Head(h[w])
  BY <1>5, <1>6, Zenon
<1> QED
  BY <1>4, <1>5, <1>7, Zenon DEF g

(* A worker that empties its hand gives up all that was in it. *)
LEMMA HeldDrop ==
  ASSUME NEW x, NEW y, NEW z, NEW h \in Hands, NEW s,
         Unique(x, y, z, h, s), NEW w \in Workers
  PROVE  \A m \in Held(x, y, z, [h EXCEPT ![w] = <<>>], s) :
           m \in Held(x, y, z, h, s) /\ \A i \in DOMAIN h[w] : ~Same(m, h[w][i])
<1> DEFINE g == [h EXCEPT ![w] = <<>>]
<1>1. g[w] = <<>> /\ \A v \in Workers : v # w => g[v] = h[v]
  BY Zenon DEF Hands
<1> HIDE DEF g
<1>2. ASSUME NEW m \in Held(x, y, z, g, s)
      PROVE  m \in Held(x, y, z, h, s) /\ \A i \in DOMAIN h[w] : ~Same(m, h[w][i])
  <2>1. ~InSeq(<<>>, m)
    BY DEF InSeq
  <2>2. \/ \E c \in Clients : InSeq(s[c], m)
        \/ \E v \in Workers : InSeq(g[v], m)
        \/ InQueue(x, m) \/ InQueue(y, m) \/ InQueue(z, m)
    BY HeldWhere, Zenon
  <2>3. \/ \E c \in Clients : InSeq(s[c], m)
        \/ \E v \in Workers : v # w /\ InSeq(h[v], m)
        \/ InQueue(x, m) \/ InQueue(y, m) \/ InQueue(z, m)
    BY <1>1, <2>1, <2>2, Zenon
  <2>4. m \in Held(x, y, z, h, s)
    BY <2>3, HeldWhere, Zenon
  <2>5. \A i \in DOMAIN h[w] : ~Same(m, h[w][i])
    BY <2>3, HeldElsewhere, Zenon
  <2> QED
    BY <2>4, <2>5, Zenon
<1> QED
  BY <1>2, Zenon DEF g

(* A client gives up what it has yet to push, ... *)
LEMMA UniqueCancel ==
  ASSUME NEW x, NEW y, NEW z, NEW h, NEW s \in Sents,
         Unique(x, y, z, h, s), NEW c \in Clients
  PROVE  Unique(x, y, z, h, [s EXCEPT ![c] = <<>>])
<1> DEFINE r == [s EXCEPT ![c] = <<>>]
<1>1. r[c] = <<>> /\ \A d \in Clients : d # c => r[d] = s[d]
  BY Zenon DEF Sents
<1> HIDE DEF r
<1>2. ASSUME NEW d \in Clients
      PROVE  /\ Single(r[d]) /\ Off(r[d], x) /\ Off(r[d], y) /\ Off(r[d], z)
             /\ \A w \in Workers : Apart(r[d], h[w])
             /\ \A e \in Clients : e # d => Apart(r[d], r[e])
  BY <1>1, EmptyApart, Zenon DEF Unique
<1> QED
  BY <1>2, Zenon DEF Unique, r

(* ... and only that. *)
LEMMA HeldCancel ==
  ASSUME NEW x, NEW y, NEW z, NEW h, NEW s \in Sents,
         Unique(x, y, z, h, s), NEW c \in Clients
  PROVE  /\ \A m : m \in Held(x, y, z, h, s) <=>
                     m \in Held(x, y, z, h, [s EXCEPT ![c] = <<>>]) \/ InSeq(s[c], m)
         /\ \A m \in Held(x, y, z, h, [s EXCEPT ![c] = <<>>]) : \A i \in DOMAIN s[c] : ~Same(m, s[c][i])
<1> DEFINE r == [s EXCEPT ![c] = <<>>]
<1>1. r[c] = <<>> /\ \A d \in Clients : d # c => r[d] = s[d]
  BY Zenon DEF Sents
<1> HIDE DEF r
<1>2. \A m : ~InSeq(<<>>, m)
  BY DEF InSeq
<1>3. ASSUME NEW m
      PROVE  (\E d \in Clients : InSeq(s[d], m)) <=> InSeq(s[c], m) \/ \E d \in Clients : InSeq(r[d], m)
  BY <1>1, <1>2, Zenon
<1>4. ASSUME NEW m
      PROVE  m \in Held(x, y, z, h, s) <=> m \in Held(x, y, z, h, r) \/ InSeq(s[c], m)
  BY <1>3, HeldWhere
<1>5. ASSUME NEW m \in Held(x, y, z, h, r), NEW i \in DOMAIN s[c]
      PROVE  ~Same(m, s[c][i])
  <2>1. \/ \E d \in Clients : d # c /\ InSeq(s[d], m)
        \/ \E w \in Workers : InSeq(h[w], m)
        \/ InQueue(x, m) \/ InQueue(y, m) \/ InQueue(z, m)
    <3>1. \/ \E d \in Clients : InSeq(r[d], m)
          \/ \E w \in Workers : InSeq(h[w], m)
          \/ InQueue(x, m) \/ InQueue(y, m) \/ InQueue(z, m)
      BY HeldWhere, Zenon
    <3> QED
      BY <1>1, <1>2, <3>1, Zenon
  <2>2. CASE \E d \in Clients : d # c /\ InSeq(s[d], m)
    BY <2>2, Zenon DEF Unique, Apart, InSeq
  <2>3. CASE \E w \in Workers : InSeq(h[w], m)
    <3>1. PICK w \in Workers : InSeq(h[w], m)
      BY <2>3, Zenon
    <3>2. Apart(s[c], h[w])
      BY Zenon DEF Unique
    <3> QED
      BY <3>1, <3>2, Zenon DEF Apart, InSeq, Same
  <2>4. ASSUME NEW q, Off(s[c], q), InQueue(q, m)
        PROVE  ~Same(m, s[c][i])
    BY <2>4, Zenon DEF Off, Apart, InQueue, InSeq, Same
  <2>5. Off(s[c], x) /\ Off(s[c], y) /\ Off(s[c], z)
    BY Zenon DEF Unique
  <2> QED
    BY <2>1, <2>2, <2>3, <2>4, <2>5, Zenon
<1> QED
  BY <1>4, <1>5, Zenon DEF r

(* A client has enqueued one more message. *)
LEMMA HeldAdd ==
  ASSUME NEW x, NEW y, NEW z, NEW h, NEW s \in Sents, NEW c \in Clients, NEW m \in Message
  PROVE  \A n : n \in Held(x, y, z, h, [s EXCEPT ![c] = Append(s[c], m)])
                <=> n \in Held(x, y, z, h, s) \/ n = m
<1> DEFINE r == [s EXCEPT ![c] = Append(s[c], m)]
<1>1. r[c] = Append(s[c], m) /\ s[c] \in Seq(Message) /\ \A d \in Clients : d # c => r[d] = s[d]
  BY Zenon DEF Sents
<1> HIDE DEF r
<1>2. ASSUME NEW n
      PROVE  InSeq(Append(s[c], m), n) <=> InSeq(s[c], n) \/ n = m
  <2>1. /\ DOMAIN Append(s[c], m) = DOMAIN s[c] \cup {Len(s[c]) + 1}
        /\ Append(s[c], m)[Len(s[c]) + 1] = m
        /\ \A i \in DOMAIN s[c] : Append(s[c], m)[i] = s[c][i]
    BY <1>1
  <2> QED
    BY <2>1, Zenon DEF InSeq
<1>3. ASSUME NEW n
      PROVE  n \in Held(x, y, z, h, r) <=> n \in Held(x, y, z, h, s) \/ n = m
  <2>1. (\E d \in Clients : InSeq(r[d], n)) <=> (\E d \in Clients : InSeq(s[d], n)) \/ n = m
    BY <1>1, <1>2, Zenon
  <2> QED
    BY <2>1, HeldWhere, Zenon
<1> QED
  BY <1>3, Zenon DEF r

(* A message held nowhere may be added to what a client has to push. *)
LEMMA UniqueAdd ==
  ASSUME NEW x, NEW y, NEW z, NEW h, NEW s \in Sents, NEW c \in Clients, NEW m \in Message,
         Unique(x, y, z, h, s), \A n \in Held(x, y, z, h, s) : ~Same(n, m)
  PROVE  Unique(x, y, z, h, [s EXCEPT ![c] = Append(s[c], m)])
<1> DEFINE r == [s EXCEPT ![c] = Append(s[c], m)]
           t == Append(s[c], m)
<1>1. r[c] = t /\ s[c] \in Seq(Message) /\ \A d \in Clients : d # c => r[d] = s[d]
  BY Zenon DEF Sents
<1> HIDE DEF r
<1>2. /\ \A d \in Clients : \A i \in DOMAIN s[d] : ~Same(s[d][i], m)
      /\ \A w \in Workers : \A i \in DOMAIN h[w] : ~Same(h[w][i], m)
  BY HeldWhere, Zenon DEF InSeq
<1>3. ASSUME NEW q, q = x \/ q = y \/ q = z
      PROVE  \A j \in DOMAIN q : \A i \in DOMAIN q[j] : ~Same(q[j][i], m)
  BY <1>3, HeldWhere, Zenon DEF InSeq, InQueue
<1>4. Single(t)
  BY <1>1, <1>2, AddApart, Zenon DEF Unique
<1>5. /\ \A w \in Workers : Apart(t, h[w])
      /\ \A d \in Clients : d # c => Apart(t, s[d])
  BY <1>1, <1>2, AddApart, Zenon DEF Unique
<1>6. ASSUME NEW q, q = x \/ q = y \/ q = z
      PROVE  Off(t, q)
  <2>1. Off(s[c], q)
    BY <1>6, Zenon DEF Unique
  <2> QED
    BY <1>1, <1>3, <1>6, <2>1, AddApart, Zenon DEF Off
<1> HIDE DEF t
<1>7. ASSUME NEW d \in Clients
      PROVE  /\ Single(r[d]) /\ Off(r[d], x) /\ Off(r[d], y) /\ Off(r[d], z)
             /\ \A w \in Workers : Apart(r[d], h[w])
             /\ \A e \in Clients : e # d => Apart(r[d], r[e])
  BY <1>1, <1>4, <1>5, <1>6, Symmetric, Zenon DEF Unique
<1> QED
  BY <1>7, Zenon DEF Unique, r

-----------------------------------------------------------------------------
(* At most once *)

Done == {"count", "failed", "panicked"}

(* As long as no message pauses the actor, no worker requeues or drains. *)
Calm ==
  /\ state # "Suspended"
  /\ \A w \in Workers :
       wpc[w] \notin {"control", "controlPop", "controlled", "drain", "requeue"} /\ depth[w] = 0

(* What dropped calls have left was accepted, and is no longer on its way. *)
Left ==
  /\ \A m \in Pending : Id(m) \notin abandoned
  /\ \A c \in Clients, n \in 1..MaxMessages : <<c, n>> \in abandoned => n <= Len(accepted[c])

(* Messages on their way are numbered up to the last one accepted; one of them
   that has been run is the one that some worker is about to put down. *)
Once ==
  /\ Unique(critical, high, global, hand, sent)
  /\ \A m \in Pending :
       /\ m \in Message /\ m.seq <= Len(accepted[m.from])
       /\ runs[m.from][m.seq] > 0 =>
            \E w \in Workers : wpc[w] \in Done /\ Same(m, Head(hand[w]))
  /\ \A c \in Clients, n \in 1..MaxMessages : runs[c][n] > 0 => n <= Len(accepted[c])
  /\ AtMostOnce /\ Left

(* No step suspends the actor unless a message that is run pauses it. *)
LEMMA NotSuspended ==
  ASSUME Inv, Calm, Next, "Suspended" \notin SetStates,
         \A w \in Workers : wpc[w] = "execute" => Head(hand[w]).payload # "Pause"
  PROVE  state' # "Suspended"
<1>1. ASSUME NEW w \in Workers, Execute(w)
      PROVE  state' # "Suspended"
  <2>1. PICK m \in Message : m = Head(hand[w])
    BY <1>1, AtWork, HandTail, Zenon DEF Execute, Inv
  <2>2. m.payload # "Pause"
    BY <1>1, <2>1, Zenon DEF Execute
  <2>3. StateAfter(m) # "Suspended"
    BY <2>2, Zenon DEF StateAfter, Calm
  <2> QED
    BY <1>1, <2>1, <2>3, Zenon DEF Execute, SetState, Become, Calm
<1>2. ASSUME NEW w \in Workers
      PROVE  ~Control(w)
  BY Zenon DEF Control, Calm
<1>3. ASSUME NEW k \in Killers, Kill(k)
      PROVE  state' # "Suspended"
  BY <1>3, Zenon DEF Kill, SetState, Become, Calm, actor
<1>4. ASSUME NEW s \in SetStates, SetActorState(s)
      PROVE  state' # "Suspended"
  BY <1>4, Zenon DEF SetActorState, Become
<1>5. CASE UNCHANGED actor
  BY <1>5, Zenon DEF actor, Calm
<1> QED
  BY <1>1, <1>2, <1>3, <1>4, <1>5, WhoChanges, Zenon

(* A step that leaves the actor unsuspended makes no worker requeue or drain. *)
LEMMA CalmStep ==
  ASSUME Inv, Calm, Next, state' # "Suspended"
  PROVE  Calm'
<1>1. ASSUME NEW c \in Clients, ClientStep(c) \/ CancelCall(c) \/ \E k \in Calls : BeginCall(c, k)
      PROVE  UNCHANGED <<wpc, depth>>
  BY <1>1, Zenon DEF ClientStep, EnqueueNext, TrySendFull, PushTask, CancelCall, BeginCall, workerVars
<1>2. ASSUME (\E k \in Killers : Kill(k)) \/ \E s \in SetStates : SetActorState(s)
      PROVE  UNCHANGED <<wpc, depth>>
  BY <1>2, Zenon DEF Kill, SetActorState, workerVars
<1>3. ASSUME NEW w \in Workers, WorkerStep(w)
      PROVE  Calm'
  <2> DEFINE Off5 == {"control", "controlPop", "controlled", "drain", "requeue"}
  <2>1. ASSUME NEW l \in Labels \ Off5, wpc' = [wpc EXCEPT ![w] = l],
               depth' = depth \/ depth' = [depth EXCEPT ![w] = 0]
        PROVE  Calm'
    <3>1. wpc \in [Workers -> Labels] /\ depth \in [Workers -> Nat]
      BY Zenon DEF Inv, WorkersOK
    <3>2. \A v \in Workers : wpc'[v] \in {l, wpc[v]} /\ depth'[v] \in {0, depth[v]}
      BY <2>1, <3>1, Zenon
    <3> QED
      BY <2>1, <3>2, Zenon DEF Calm
  <2>2. ASSUME NEW msgs, Finish(w, msgs, 0)
        PROVE  Calm'
    <3>1. PICK l \in Labels \ Off5 : wpc' = [wpc EXCEPT ![w] = l]
      <4>1. wpc' = [wpc EXCEPT ![w] = IF msgs # <<>> THEN "next" ELSE FirstInjector]
        BY <2>2 DEF Finish, WorkerGoto
      <4>2. "next" \in Labels \ Off5 /\ FirstInjector \in Labels \ Off5
        BY Zenon DEF FirstInjector, Labels, Injectors
      <4> QED
        BY <4>1, <4>2, Zenon
    <3> QED
      BY <2>1, <2>2, <3>1, Zenon DEF Finish, Calm
  <2>3. CASE Take(w)
    <3>1. PICK l \in Labels \ Off5 : wpc' = [wpc EXCEPT ![w] = l]
      BY <2>3, Zenon DEF Take, TakeCritical, TakeHigh, TakeGlobal, TakeFrom, WorkerGoto, FirstInjector, Labels, Injectors
    <3>2. depth' = depth
      BY <2>3, Zenon DEF Take, TakeCritical, TakeHigh, TakeGlobal, TakeFrom
    <3> QED
      BY <2>1, <3>1, <3>2, Zenon DEF Calm
  <2>4. CASE ReadState(w)
    <3>1. PICK l \in {"execute", "done"} : WorkerGoto(w, l)
      BY <2>4, Zenon DEF ReadState, Calm
    <3>2. l \in Labels \ Off5
      BY Zenon DEF Labels
    <3> QED
      BY <2>1, <2>4, <3>1, <3>2, Zenon DEF ReadState, WorkerGoto, Calm
  <2>5. CASE Execute(w)
    <3>1. PICK l \in {"count", "failed", "panicked"} : wpc' = [wpc EXCEPT ![w] = l]
      BY <2>5, Zenon DEF Execute, WorkerGoto
    <3>2. l \in Labels \ Off5
      BY Zenon DEF Labels
    <3> QED
      BY <2>1, <2>5, <3>1, <3>2, Zenon DEF Execute
  <2>6. CASE Count(w) \/ DropMail(w) \/ CatchUnwind(w) \/ Ignore(w)
    BY <2>2, <2>6, Zenon DEF Count, DropMail, CatchUnwind, Ignore, Calm
  <2>7. CASE NextOfBatch(w)
    <3>1. "read" \in Labels \ Off5
      BY Zenon DEF Labels
    <3> QED
      BY <2>1, <2>2, <2>7, <3>1, Zenon DEF NextOfBatch, WorkerGoto, Calm
  <2>8. ~(Control(w) \/ ControlPop(w) \/ Controlled(w) \/ Drain(w) \/ Requeue(w))
    BY Zenon DEF Control, ControlPop, Controlled, Drain, Requeue, Calm
  <2> QED
    BY <1>3, <2>3, <2>4, <2>5, <2>6, <2>7, <2>8, Zenon DEF WorkerStep
<1> QED
  BY <1>1, <1>2, <1>3, Zenon DEF Next, Calm

-----------------------------------------------------------------------------
(* What the operations do to the places *)

Placed == Unique(critical, high, global, hand, sent)

(* The pending messages are those that are held somewhere. *)
LEMMA PendingIsHeld == Pending = Held(critical, high, global, hand, sent)
BY Zenon DEF Pending, Held

(* A step that leaves every holder alone keeps the places. *)
LEMMA PlacesKept ==
  ASSUME Placed, UNCHANGED <<injectors, hand, sent>>
  PROVE  Placed' /\ Pending' = Pending
<1>1. Placed'
  BY Zenon DEF Placed, injectors
<1>2. Pending' = Pending
  BY Zenon DEF Pending, injectors
<1> QED
  BY <1>1, <1>2, Zenon

(* A task has a priority, the highest of its messages'. *)
LEMMA TaskPriorityType ==
  ASSUME NEW t \in Task
  PROVE  TaskPriority(t) \in 0..Critical
<1> DEFINE S == {m.priority : m \in Range(t)}
<1>1. Range(t) \subseteq Message /\ Range(t) # {}
  <2>1. t \in Seq(Message) /\ t # <<>>
    BY Zenon DEF Task
  <2>2. 1 \in DOMAIN t /\ \A i \in DOMAIN t : t[i] \in Message
    BY <2>1
  <2> QED
    BY <2>2, Zenon DEF Range
<1>2. S \subseteq 0..Critical /\ S # {}
  <2>1. \A m \in Message : m.priority \in 0..Critical
    BY DispatchAssumption, Zenon DEF Message
  <2> QED
    BY <1>1, <2>1, Zenon
<1>3. \E p \in S : \A m \in Range(t) : m.priority <= p
  <2>1. \A m \in Range(t) : m.priority \in S
    BY Zenon
  <2> HIDE DEF S
  <2>2. \E p \in S : \A q \in S : q <= p
    <3>1. S \subseteq {0, 1, 2, 3}
      BY <1>2 DEF Critical
    <3>2. CASE 3 \in S
      BY <3>1, <3>2
    <3>3. CASE 3 \notin S /\ 2 \in S
      BY <3>1, <3>3
    <3>4. CASE 3 \notin S /\ 2 \notin S /\ 1 \in S
      BY <3>1, <3>4
    <3>5. CASE 3 \notin S /\ 2 \notin S /\ 1 \notin S
      <4>1. 0 \in S /\ \A q \in S : q = 0
        BY <1>2, <3>1, <3>5, Zenon
      <4> QED
        BY <4>1
    <3> QED
      BY <3>2, <3>3, <3>4, <3>5, Zenon
  <2> QED
    BY <2>1, <2>2, Zenon
<1>4. TaskPriority(t) \in S
  BY <1>3, Zenon DEF TaskPriority
<1> QED
  BY <1>2, <1>4, Zenon

(* The push of a task keeps what is pending. *)
LEMMA PushTaskPlaces ==
  ASSUME Inv, Placed, NEW c \in Clients, PushTask(c)
  PROVE  Placed' /\ Pending' = Pending /\ UNCHANGED hand
<1>1. /\ critical \in Seq(Task) /\ high \in Seq(Task) /\ global \in Seq(Task)
      /\ sent \in Sents /\ sent[c] # <<>> /\ hand' = hand
      /\ sent' = [sent EXCEPT ![c] = <<>>]
  BY Zenon DEF Inv, QueuesOK, ClientsOK, PushTask, Sents, workerVars
<1>2. sent[c] \in Task
  BY <1>1, Zenon DEF Task, Sents
<1>3. TaskPriority(sent[c]) \in 0..Critical
  BY <1>2, TaskPriorityType, Zenon
<1>4. \/ critical' = Append(critical, sent[c]) /\ high' = high /\ global' = global
      \/ critical' = critical /\ high' = Append(high, sent[c]) /\ global' = global
      \/ critical' = critical /\ high' = high /\ global' = Append(global, sent[c])
  <2>1. TaskPriority(sent[c]) >= High =>
          \/ TaskPriority(sent[c]) = Critical
          \/ TaskPriority(sent[c]) = High /\ High # Critical
    BY <1>3 DEF High, Critical
  <2>2. High # Critical
    BY DEF High, Critical
  <2> QED
    BY <2>1, <2>2, Zenon DEF PushTask
<1>5. PICK x, y, z, h, s : x = critical /\ y = high /\ z = global /\ h = hand /\ s = sent
  BY Zenon
<1>6. Unique(x, y, z, h, s) /\ Unique(y, x, z, h, s) /\ Unique(z, y, x, h, s)
  BY <1>5, SwapInjectors, Zenon DEF Placed
<1>7. /\ Placed' <=> Unique(critical', high', global', h, sent')
      /\ Pending' = Held(critical', high', global', h, sent')
      /\ Pending = Held(x, y, z, h, s)
  BY <1>1, <1>5, Zenon DEF Placed, Pending, Held
<1>8. x \in Seq(Task) /\ y \in Seq(Task) /\ z \in Seq(Task) /\ s \in Sents /\ s[c] # <<>>
  BY <1>1, <1>5, Zenon
<1>9. /\ Unique(Append(x, s[c]), y, z, h, [s EXCEPT ![c] = <<>>])
      /\ Held(Append(x, s[c]), y, z, h, [s EXCEPT ![c] = <<>>]) = Held(x, y, z, h, s)
  <2>1. Unique(Append(x, s[c]), y, z, h, [s EXCEPT ![c] = <<>>])
    BY <1>6, <1>8, UniquePush, Zenon
  <2>2. ASSUME NEW m
        PROVE  m \in Held(Append(x, s[c]), y, z, h, [s EXCEPT ![c] = <<>>]) <=> m \in Held(x, y, z, h, s)
    BY <1>6, <1>8, HeldPush, Zenon
  <2> QED
    BY <2>1, <2>2, Zenon
<1>10. /\ Unique(Append(y, s[c]), x, z, h, [s EXCEPT ![c] = <<>>])
       /\ Held(Append(y, s[c]), x, z, h, [s EXCEPT ![c] = <<>>]) = Held(y, x, z, h, s)
  <2>1. Unique(Append(y, s[c]), x, z, h, [s EXCEPT ![c] = <<>>])
    BY <1>6, <1>8, UniquePush, Zenon
  <2>2. ASSUME NEW m
        PROVE  m \in Held(Append(y, s[c]), x, z, h, [s EXCEPT ![c] = <<>>]) <=> m \in Held(y, x, z, h, s)
    BY <1>6, <1>8, HeldPush, Zenon
  <2> QED
    BY <2>1, <2>2, Zenon
<1>11. /\ Unique(Append(z, s[c]), y, x, h, [s EXCEPT ![c] = <<>>])
       /\ Held(Append(z, s[c]), y, x, h, [s EXCEPT ![c] = <<>>]) = Held(z, y, x, h, s)
  <2>1. Unique(Append(z, s[c]), y, x, h, [s EXCEPT ![c] = <<>>])
    BY <1>6, <1>8, UniquePush, Zenon
  <2>2. ASSUME NEW m
        PROVE  m \in Held(Append(z, s[c]), y, x, h, [s EXCEPT ![c] = <<>>]) <=> m \in Held(z, y, x, h, s)
    BY <1>6, <1>8, HeldPush, Zenon
  <2> QED
    BY <2>1, <2>2, Zenon
<1>12. /\ Unique(x, Append(y, s[c]), z, h, [s EXCEPT ![c] = <<>>])
       /\ Held(x, Append(y, s[c]), z, h, [s EXCEPT ![c] = <<>>]) = Held(x, y, z, h, s)
  BY <1>10, SwapInjectors
<1>13. /\ Unique(x, y, Append(z, s[c]), h, [s EXCEPT ![c] = <<>>])
       /\ Held(x, y, Append(z, s[c]), h, [s EXCEPT ![c] = <<>>]) = Held(x, y, z, h, s)
  BY <1>11, SwapInjectors
<1> QED
  BY <1>1, <1>4, <1>5, <1>7, <1>9, <1>12, <1>13, Zenon

(* A worker that takes a task keeps what is pending. *)
LEMMA TakePlaces ==
  ASSUME Inv, Placed, NEW w \in Workers, Take(w)
  PROVE  Placed' /\ Pending' = Pending
<1>1. /\ critical \in Seq(Task) /\ high \in Seq(Task) /\ global \in Seq(Task)
      /\ hand \in Hands /\ hand[w] = <<>> /\ sent' = sent
  <2>1. wpc[w] \in Injectors
    BY Zenon DEF Take, TakeCritical, TakeHigh, TakeGlobal, Injectors
  <2>2. sent' = sent
    BY Zenon DEF Take, TakeCritical, TakeHigh, TakeGlobal, TakeFrom, clientVars
  <2> QED
    BY <2>1, <2>2, Zenon DEF Inv, QueuesOK, WorkersOK, Hands
<1>2. \/ UNCHANGED <<injectors, hand, sent>>
      \/ /\ critical # <<>> /\ hand' = [hand EXCEPT ![w] = Head(critical)]
         /\ critical' = Tail(critical) /\ high' = high /\ global' = global
      \/ /\ high # <<>> /\ hand' = [hand EXCEPT ![w] = Head(high)]
         /\ critical' = critical /\ high' = Tail(high) /\ global' = global
      \/ /\ global # <<>> /\ hand' = [hand EXCEPT ![w] = Head(global)]
         /\ critical' = critical /\ high' = high /\ global' = Tail(global)
  BY <1>1, Zenon DEF Take, TakeCritical, TakeHigh, TakeGlobal, TakeFrom, PopTail, injectors
<1>3. PICK x, y, z, h, s : x = critical /\ y = high /\ z = global /\ h = hand /\ s = sent
  BY Zenon
<1>4. Unique(x, y, z, h, s) /\ Unique(y, x, z, h, s) /\ Unique(z, y, x, h, s)
  BY <1>3, SwapInjectors, Zenon DEF Placed
<1>5. /\ Placed' <=> Unique(critical', high', global', hand', s)
      /\ Pending' = Held(critical', high', global', hand', s)
      /\ Pending = Held(x, y, z, h, s)
  BY <1>1, <1>3, Zenon DEF Placed, Pending, Held
<1>6. CASE UNCHANGED <<injectors, hand, sent>>
  BY <1>6, PlacesKept, Zenon
<1>7. x \in Seq(Task) /\ y \in Seq(Task) /\ z \in Seq(Task) /\ h \in Hands /\ h[w] = <<>>
  BY <1>1, <1>3, Zenon
<1>8. ASSUME critical # <<>>
      PROVE  /\ Unique(Tail(x), y, z, [h EXCEPT ![w] = Head(x)], s)
             /\ Held(Tail(x), y, z, [h EXCEPT ![w] = Head(x)], s) = Held(x, y, z, h, s)
  <2>1. x # <<>>
    BY <1>3, <1>8, Zenon
  <2>2. Unique(Tail(x), y, z, [h EXCEPT ![w] = Head(x)], s)
    BY <1>4, <1>7, <2>1, UniquePop, Zenon
  <2>3. ASSUME NEW m
        PROVE  m \in Held(Tail(x), y, z, [h EXCEPT ![w] = Head(x)], s) <=> m \in Held(x, y, z, h, s)
    BY <1>4, <1>7, <2>1, HeldPop, Zenon
  <2> QED
    BY <2>2, <2>3, Zenon
<1>9. ASSUME high # <<>>
      PROVE  /\ Unique(x, Tail(y), z, [h EXCEPT ![w] = Head(y)], s)
             /\ Held(x, Tail(y), z, [h EXCEPT ![w] = Head(y)], s) = Held(x, y, z, h, s)
  <2>1. y # <<>>
    BY <1>3, <1>9, Zenon
  <2>2. Unique(Tail(y), x, z, [h EXCEPT ![w] = Head(y)], s)
    BY <1>4, <1>7, <2>1, UniquePop, Zenon
  <2>3. ASSUME NEW m
        PROVE  m \in Held(Tail(y), x, z, [h EXCEPT ![w] = Head(y)], s) <=> m \in Held(y, x, z, h, s)
    BY <1>4, <1>7, <2>1, HeldPop, Zenon
  <2>4. Held(Tail(y), x, z, [h EXCEPT ![w] = Head(y)], s) = Held(y, x, z, h, s)
    BY <2>3, Zenon
  <2> QED
    BY <2>2, <2>4, SwapInjectors
<1>10. ASSUME global # <<>>
       PROVE  /\ Unique(x, y, Tail(z), [h EXCEPT ![w] = Head(z)], s)
              /\ Held(x, y, Tail(z), [h EXCEPT ![w] = Head(z)], s) = Held(x, y, z, h, s)
  <2>1. z # <<>>
    BY <1>3, <1>10, Zenon
  <2>2. Unique(Tail(z), y, x, [h EXCEPT ![w] = Head(z)], s)
    BY <1>4, <1>7, <2>1, UniquePop, Zenon
  <2>3. ASSUME NEW m
        PROVE  m \in Held(Tail(z), y, x, [h EXCEPT ![w] = Head(z)], s) <=> m \in Held(z, y, x, h, s)
    BY <1>4, <1>7, <2>1, HeldPop, Zenon
  <2>4. Held(Tail(z), y, x, [h EXCEPT ![w] = Head(z)], s) = Held(z, y, x, h, s)
    BY <2>3, Zenon
  <2> QED
    BY <2>2, <2>4, SwapInjectors
<1> QED
  BY <1>2, <1>3, <1>5, <1>6, <1>8, <1>9, <1>10, Zenon

(* A message that is put down is pending no more. *)
LEMMA PutDownPlaces ==
  ASSUME Inv, Placed, NEW w \in Workers, hand[w] # <<>>,
         hand' = [hand EXCEPT ![w] = Tail(hand[w])], UNCHANGED <<injectors, sent>>
  PROVE  /\ Placed' /\ Pending' = Pending \ {Head(hand[w])} /\ Head(hand[w]) \in Pending
         /\ \A m \in Pending' : ~Same(m, Head(hand[w]))
<1>1. PICK x, y, z, h, s : x = critical /\ y = high /\ z = global /\ h = hand /\ s = sent
  BY Zenon
<1>2. h \in Hands /\ h[w] # <<>> /\ Unique(x, y, z, h, s)
  BY <1>1, Zenon DEF Inv, WorkersOK, Hands, Placed
<1>3. PICK g : g = [h EXCEPT ![w] = Tail(h[w])]
  BY Zenon
<1>4. /\ Placed' <=> Unique(x, y, z, g, s)
      /\ Pending' = Held(x, y, z, g, s) /\ Pending = Held(x, y, z, h, s)
  BY <1>1, <1>3 DEF Placed, Pending, Held, injectors
<1>5. Unique(x, y, z, g, s)
  BY <1>2, <1>3, UniqueTail, Zenon
<1>6. /\ \A m : m \in Held(x, y, z, g, s) <=> m \in Held(x, y, z, h, s) /\ m # Head(h[w])
      /\ \A m \in Held(x, y, z, g, s) : ~Same(m, Head(h[w]))
      /\ Head(h[w]) \in Held(x, y, z, h, s)
  BY <1>2, <1>3, HeldTail, Zenon
<1> QED
  BY <1>1, <1>4, <1>5, <1>6, Zenon

(* What a worker drops is pending no more. *)
LEMMA DropPlaces ==
  ASSUME Inv, Placed, NEW w \in Workers,
         hand' = [hand EXCEPT ![w] = <<>>], UNCHANGED <<injectors, sent>>
  PROVE  /\ Placed' /\ Pending' \subseteq Pending
         /\ \A m \in Pending' : \A i \in DOMAIN hand[w] : ~Same(m, hand[w][i])
<1>1. PICK x, y, z, h, s : x = critical /\ y = high /\ z = global /\ h = hand /\ s = sent
  BY Zenon
<1>2. h \in Hands /\ Unique(x, y, z, h, s)
  BY <1>1, Zenon DEF Inv, WorkersOK, Hands, Placed
<1>3. PICK g : g = [h EXCEPT ![w] = <<>>]
  BY Zenon
<1>4. /\ Placed' <=> Unique(x, y, z, g, s)
      /\ Pending' = Held(x, y, z, g, s) /\ Pending = Held(x, y, z, h, s)
  BY <1>1, <1>3 DEF Placed, Pending, Held, injectors
<1>5. Unique(x, y, z, g, s)
  BY <1>2, <1>3, UniqueDrop, Zenon
<1>6. \A m \in Held(x, y, z, g, s) :
        m \in Held(x, y, z, h, s) /\ \A i \in DOMAIN h[w] : ~Same(m, h[w][i])
  BY <1>2, <1>3, HeldDrop, Zenon
<1> QED
  BY <1>1, <1>4, <1>5, <1>6, Zenon

(* What a dropped call had enqueued is pending no more. *)
LEMMA CancelPlaces ==
  ASSUME Inv, Placed, NEW c \in Clients, CancelCall(c)
  PROVE  /\ Placed' /\ Pending' \subseteq Pending
         /\ \A m \in Pending : m \in Pending' \/ InSeq(sent[c], m)
         /\ \A i \in DOMAIN sent[c] : sent[c][i] \in Pending
         /\ \A m \in Pending' : \A i \in DOMAIN sent[c] : ~Same(m, sent[c][i])
<1>1. PICK x, y, z, h, s : x = critical /\ y = high /\ z = global /\ h = hand /\ s = sent
  BY Zenon
<1>2. s \in Sents /\ Unique(x, y, z, h, s)
  BY <1>1, Zenon DEF Inv, ClientsOK, Sents, Placed
<1>3. PICK r : r = [s EXCEPT ![c] = <<>>]
  BY Zenon
<1>4. sent' = r /\ UNCHANGED <<critical, high, global, hand>>
  BY <1>1, <1>3, Zenon DEF CancelCall, injectors, workerVars
<1>5. /\ Placed' <=> Unique(x, y, z, h, r)
      /\ Pending' = Held(x, y, z, h, r) /\ Pending = Held(x, y, z, h, s)
  BY <1>1, <1>4 DEF Placed, Pending, Held
<1>6. Unique(x, y, z, h, r)
  BY <1>2, <1>3, UniqueCancel, Zenon
<1>7. /\ \A m : m \in Held(x, y, z, h, s) <=> m \in Held(x, y, z, h, r) \/ InSeq(s[c], m)
      /\ \A m \in Held(x, y, z, h, r) : \A i \in DOMAIN s[c] : ~Same(m, s[c][i])
  BY <1>2, <1>3, HeldCancel, Zenon
<1>8. \A i \in DOMAIN s[c] : InSeq(s[c], s[c][i])
  BY Zenon DEF InSeq
<1> QED
  BY <1>1, <1>5, <1>6, <1>7, <1>8, Zenon

(* The message that a client enqueues has a number that none had before. *)
LEMMA EnqueuePlaces ==
  ASSUME Inv, Once, NEW c \in Clients, EnqueueNext(c)
  PROVE  \E m \in Message :
           /\ m.from = c /\ m.seq = Len(accepted[c]) + 1
           /\ Placed' /\ Pending' = Pending \cup {m} /\ m \notin Pending
           /\ \A n \in Pending : ~Same(n, m)
           /\ accepted' = [accepted EXCEPT ![c] = Append(accepted[c], IsControl(m))] /\ IsControl(m) \in Marks
<1>1. PICK x, y, z, h, s : x = critical /\ y = high /\ z = global /\ h = hand /\ s = sent
  BY Zenon
<1>2. unsent[c] \in Seq(Message) /\ unsent[c] # <<>> /\ sent \in Sents
  BY Zenon DEF Inv, ClientsOK, EnqueueNext, Sents
<1>3. PICK m \in Message : m = Head(unsent[c]) /\ m = unsent[c][1]
  BY <1>2
<1>4. m.from = c /\ m.seq = Len(accepted[c]) + 1
  <2>1. 1 \in DOMAIN unsent[c]
    BY <1>2
  <2> QED
    BY <1>3, <2>1 DEF Inv, ClientsOK
<1>5. PICK r : r = [s EXCEPT ![c] = Append(s[c], m)]
  BY Zenon
<1>6. sent' = r /\ accepted' = [accepted EXCEPT ![c] = Append(accepted[c], IsControl(m))]
  <2>1. sent' = [sent EXCEPT ![c] = Append(sent[c], Head(unsent[c]))]
    BY Zenon DEF EnqueueNext
  <2>2. accepted' = [accepted EXCEPT ![c] = Append(accepted[c], IsControl(Head(unsent[c])))]
    BY Zenon DEF EnqueueNext
  <2> QED
    BY <1>1, <1>3, <1>5, <2>1, <2>2, Zenon
<1>7. /\ Placed' <=> Unique(x, y, z, h, r)
      /\ Pending' = Held(x, y, z, h, r) /\ Pending = Held(x, y, z, h, s)
  <2>1. critical' = x /\ high' = y /\ global' = z /\ hand' = h
    BY <1>1, Zenon DEF EnqueueNext, injectors, workerVars
  <2>2. Placed' <=> Unique(x, y, z, h, r)
    BY <1>6, <2>1, Zenon DEF Placed
  <2>3. Pending' = Held(x, y, z, h, r)
    BY <1>6, <2>1, Zenon DEF Pending, Held
  <2>4. Pending = Held(x, y, z, h, s)
    BY <1>1, Zenon DEF Pending, Held
  <2> QED
    BY <2>2, <2>3, <2>4, Zenon
<1>8. \A n \in Held(x, y, z, h, s) : ~Same(n, m)
  <2>1. Len(accepted[c]) \in Nat
    BY DEF Inv, ClientsOK
  <2>2. \A n \in Pending : n \in Message /\ n.seq <= Len(accepted[n.from]) /\ n.seq \in Int
    BY DispatchAssumption DEF Once, Message
  <2> QED
    BY <1>4, <1>7, <2>1, <2>2 DEF Same
<1>9. Unique(x, y, z, h, s) /\ s \in Sents
  BY <1>1, <1>2, Zenon DEF Once
<1>10. Unique(x, y, z, h, r)
  BY <1>5, <1>8, <1>9, UniqueAdd, Zenon
<1>11. \A n : n \in Held(x, y, z, h, r) <=> n \in Held(x, y, z, h, s) \/ n = m
  BY <1>5, <1>9, HeldAdd, Zenon
<1>12. m \notin Held(x, y, z, h, s)
  BY <1>8, Zenon DEF Same
<1>13. IsControl(m) \in Marks
  BY DEF IsControl, Marks
<1> QED
  BY <1>3, <1>4, <1>6, <1>7, <1>8, <1>10, <1>11, <1>12, <1>13, Zenon

-----------------------------------------------------------------------------
(* No step that only moves or drops messages runs one twice. *)
LEMMA OnceMoved ==
  ASSUME Once, Placed', Pending' \subseteq Pending, UNCHANGED <<accepted, abandoned, runs>>,
         \A m \in Pending' : \A w \in Workers :
           (wpc[w] \in Done /\ Same(m, Head(hand[w]))) =>
             (wpc'[w] \in Done /\ Head(hand'[w]) = Head(hand[w]))
  PROVE  Once'
<1>1. ASSUME NEW m \in Pending'
      PROVE  /\ m \in Message /\ m.seq <= Len(accepted'[m.from])
             /\ runs'[m.from][m.seq] > 0 =>
                  \E w \in Workers : wpc'[w] \in Done /\ Same(m, Head(hand'[w]))
  BY <1>1, Zenon DEF Once, Same
<1>2. \A c \in Clients, n \in 1..MaxMessages : runs'[c][n] > 0 => n <= Len(accepted'[c])
  BY Zenon DEF Once
<1>3. AtMostOnce'
  BY Zenon DEF Once, AtMostOnce
<1>4. Left'
  BY Zenon DEF Once, Left
<1> QED
  BY <1>1, <1>2, <1>3, <1>4, Zenon DEF Once, Placed

(* A message that was counted, dropped or ignored is not run again. *)
LEMMA OncePutDown ==
  ASSUME Inv, Once, NEW w \in Workers, Count(w) \/ DropMail(w) \/ Ignore(w)
  PROVE  Once'
<1>1. wpc[w] \notin Injectors \cup {"drain"}
  BY AtWork, Zenon DEF Count, DropMail, Ignore
<1>2. /\ hand[w] # <<>> /\ hand' = [hand EXCEPT ![w] = Tail(hand[w])]
      /\ UNCHANGED <<injectors, sent, accepted, abandoned, runs>>
  BY <1>1, HandTail, Zenon DEF Count, DropMail, Ignore, Finish, Inv, clientVars
<1>3. \A v \in Workers : v # w => wpc'[v] = wpc[v] /\ hand'[v] = hand[v]
  BY Zenon DEF Count, DropMail, Ignore, Finish, WorkerGoto, Inv, WorkersOK
<1>4. /\ Placed' /\ Pending' \subseteq Pending
      /\ \A m \in Pending' : ~Same(m, Head(hand[w]))
  <2>1. Placed
    BY Zenon DEF Once, Placed
  <2>2. /\ Placed' /\ Pending' = Pending \ {Head(hand[w])}
        /\ \A m \in Pending' : ~Same(m, Head(hand[w]))
    BY <1>2, <2>1, PutDownPlaces, Zenon
  <2> QED
    BY <2>2, Zenon
<1> QED
  BY <1>2, <1>3, <1>4, OnceMoved, Zenon

(* Nor is a message of a batch that was dropped. *)
LEMMA OnceDropped ==
  ASSUME Inv, Once, NEW w \in Workers, Finish(w, <<>>, 0),
         wpc[w] \notin Injectors \cup {"drain"}, UNCHANGED <<injectors, sent, accepted, abandoned, runs>>
  PROVE  Once'
<1>1. hand' = [hand EXCEPT ![w] = <<>>] /\ hand[w] \in Seq(Message) /\ hand[w] # <<>>
  BY HandTail, Zenon DEF Finish, Inv
<1>2. \A v \in Workers : v # w => wpc'[v] = wpc[v] /\ hand'[v] = hand[v]
  BY Zenon DEF Finish, WorkerGoto, Inv, WorkersOK
<1>3. /\ Placed' /\ Pending' \subseteq Pending
      /\ \A m \in Pending' : \A i \in DOMAIN hand[w] : ~Same(m, hand[w][i])
  <2>1. Placed
    BY Zenon DEF Once, Placed
  <2> QED
    BY <1>1, <2>1, DropPlaces, Zenon
<1>4. \A m \in Pending' : ~Same(m, Head(hand[w]))
  <2>1. 1 \in DOMAIN hand[w] /\ Head(hand[w]) = hand[w][1]
    BY <1>1
  <2> QED
    BY <1>3, <2>1, Zenon
<1> QED
  BY <1>2, <1>3, <1>4, OnceMoved, Zenon

(* The message that a worker is about to run has not been run: whoever has run
   a message still holds it, or nobody does. *)
LEMMA OnceExecuted ==
  ASSUME Inv, Once, NEW w \in Workers, Execute(w)
  PROVE  Once'
<1>1. wpc[w] = "execute" /\ wpc[w] \notin Injectors \cup {"drain"}
  BY AtWork, Zenon DEF Execute
<1>2. hand[w] \in Seq(Message) /\ hand[w] # <<>>
  BY <1>1, HandTail, Zenon DEF Inv
<1>3. PICK m \in Message : m = Head(hand[w]) /\ 1 \in DOMAIN hand[w] /\ m = hand[w][1]
  <2>1. Head(hand[w]) \in Message /\ Head(hand[w]) = hand[w][1] /\ 1 \in DOMAIN hand[w]
    BY <1>2
  <2> QED
    BY <2>1, Zenon
<1>4. PICK c \in Clients, n \in 1..MaxMessages : c = m.from /\ n = m.seq
  BY Zenon DEF Message
<1>5. /\ runs' = [runs EXCEPT ![c][n] = @ + 1] /\ runs \in [Clients -> [1..MaxMessages -> Nat]]
      /\ UNCHANGED <<injectors, sent, accepted, abandoned, hand>>
  BY <1>3, <1>4, Zenon DEF Execute, Inv, RestOK, clientVars
<1>6. \A d \in Clients, k \in 1..MaxMessages : runs'[d][k] = runs[d][k] + (IF d = c /\ k = n THEN 1 ELSE 0)
  <2>1. \A d \in Clients, k \in 1..MaxMessages : runs[d][k] \in Nat
    BY <1>5, Zenon
  <2>2. \A d \in Clients, k \in 1..MaxMessages :
          runs'[d][k] = IF d = c /\ k = n THEN runs[d][k] + 1 ELSE runs[d][k]
    BY <1>5, Zenon
  <2> QED
    BY <2>1, <2>2
<1>7. Placed' /\ Pending' = Pending
  <2>1. Placed
    BY Zenon DEF Once, Placed
  <2> QED
    BY <1>5, <2>1, PlacesKept, Zenon
<1>8. m \in Pending
  <2>1. InSeq(hand[w], m)
    BY <1>3, Zenon DEF InSeq
  <2>2. m \in Held(critical, high, global, hand, sent)
    BY <2>1, HeldWhere, Zenon
  <2> QED
    BY <2>2, PendingIsHeld, Zenon
<1>9. \A v \in Workers : v # w => wpc'[v] = wpc[v]
  BY Zenon DEF Execute, WorkerGoto, Inv, WorkersOK
<1>10. wpc'[w] \in Done
  BY Zenon DEF Execute, WorkerGoto, Done, Inv, WorkersOK
<1>11. runs[c][n] = 0
  <2>1. SUFFICES ASSUME runs[c][n] > 0
                 PROVE  FALSE
    <3>1. runs[c][n] \in Nat
      BY <1>5, Zenon
    <3> QED
      BY <3>1
  <2>2. PICK v \in Workers : wpc[v] \in Done /\ Same(m, Head(hand[v]))
    BY <1>4, <1>8, <2>1, Zenon DEF Once
  <2>3. v # w /\ wpc[v] \notin Injectors \cup {"drain"}
    BY <1>1, <2>2, AtWork, Zenon DEF Done
  <2>4. hand[v] \in Seq(Message) /\ hand[v] # <<>>
    BY <2>3, HandTail, Zenon DEF Inv
  <2>5. 1 \in DOMAIN hand[v] /\ Head(hand[v]) = hand[v][1]
    BY <2>4
  <2>6. Apart(hand[v], hand[w])
    BY <2>3, Zenon DEF Once, Unique
  <2> QED
    BY <1>3, <2>2, <2>5, <2>6, Zenon DEF Apart, Same
<1>12. ASSUME NEW l \in Pending'
       PROVE  /\ l \in Message /\ l.seq <= Len(accepted'[l.from])
              /\ runs'[l.from][l.seq] > 0 =>
                   \E v \in Workers : wpc'[v] \in Done /\ Same(l, Head(hand'[v]))
  <2>1. l \in Message /\ l.seq <= Len(accepted'[l.from])
    BY <1>5, <1>7, <1>12, Zenon DEF Once
  <2>2. ASSUME runs'[l.from][l.seq] > 0
        PROVE  \E v \in Workers : wpc'[v] \in Done /\ Same(l, Head(hand'[v]))
    <3>1. CASE l.from = c /\ l.seq = n
      BY <1>3, <1>4, <1>5, <1>10, <3>1, Zenon DEF Same
    <3>2. CASE ~(l.from = c /\ l.seq = n)
      <4>1. l.from \in Clients /\ l.seq \in 1..MaxMessages
        BY <2>1, Zenon DEF Message
      <4>2. runs[l.from][l.seq] > 0
        BY <1>5, <1>6, <2>2, <3>2, <4>1, Zenon
      <4>3. PICK v \in Workers : wpc[v] \in Done /\ Same(l, Head(hand[v]))
        BY <1>7, <1>12, <4>2, Zenon DEF Once
      <4>4. v # w
        BY <1>1, <4>3, Zenon DEF Done
      <4> QED
        BY <1>5, <1>9, <4>3, <4>4, Zenon
    <3> QED
      BY <3>1, <3>2, Zenon
  <2> QED
    BY <2>1, <2>2, Zenon
<1>13. \A d \in Clients, k \in 1..MaxMessages : runs'[d][k] > 0 => k <= Len(accepted'[d])
  <2>1. n <= Len(accepted[c])
    BY <1>4, <1>8, Zenon DEF Once
  <2> QED
    BY <1>5, <1>6, <2>1, Zenon DEF Once
<1>14. AtMostOnce'
  BY <1>5, <1>6, <1>11 DEF Once, AtMostOnce
<1>15. Left'
  BY <1>5, <1>7, Zenon DEF Once, Left
<1> QED
  BY <1>7, <1>12, <1>13, <1>14, <1>15, Zenon DEF Once, Placed

(* A message that is accepted is a new one. *)
LEMMA OnceEnqueued ==
  ASSUME Inv, Once, NEW c \in Clients, EnqueueNext(c)
  PROVE  Once'
<1>1. PICK m \in Message :
        /\ m.from = c /\ m.seq = Len(accepted[c]) + 1
        /\ Placed' /\ Pending' = Pending \cup {m}
        /\ accepted' = [accepted EXCEPT ![c] = Append(accepted[c], IsControl(m))] /\ IsControl(m) \in Marks
  BY EnqueuePlaces, Zenon
<1>2. UNCHANGED <<runs, abandoned, wpc, hand>>
  BY Zenon DEF EnqueueNext, workerVars
<1>3. /\ Len(accepted'[c]) = Len(accepted[c]) + 1 /\ Len(accepted[c]) \in Nat
      /\ \A d \in Clients : d # c => accepted'[d] = accepted[d]
  <2>1. accepted \in [Clients -> Seq(Marks)]
    BY Zenon DEF Inv, ClientsOK
  <2>2. PICK b \in Marks : accepted'[c] = Append(accepted[c], b) /\ accepted[c] \in Seq(Marks)
    BY <1>1, <2>1, Zenon
  <2>3. \A d \in Clients : d # c => accepted'[d] = accepted[d]
    BY <1>1, <2>1, Zenon
  <2>4. Len(Append(accepted[c], b)) = Len(accepted[c]) + 1 /\ Len(accepted[c]) \in Nat
    BY <2>2, AppendFacts, Zenon
  <2> QED
    BY <2>2, <2>3, <2>4, Zenon
<1>4. \A d \in Clients : \A n \in Nat : n <= Len(accepted[d]) => n <= Len(accepted'[d])
  BY <1>3
<1>5. runs[c][m.seq] = 0
  <2>1. m.seq \in 1..MaxMessages
    BY Zenon DEF Message
  <2>2. runs[c][m.seq] \in Nat
    BY <2>1, Zenon DEF Inv, RestOK
  <2>3. ~(m.seq <= Len(accepted[c]))
    BY <1>1, <1>3
  <2> QED
    BY <2>1, <2>2, <2>3 DEF Once
<1>6. ASSUME NEW l \in Pending'
      PROVE  /\ l \in Message /\ l.seq <= Len(accepted'[l.from])
             /\ runs'[l.from][l.seq] > 0 =>
                  \E w \in Workers : wpc'[w] \in Done /\ Same(l, Head(hand'[w]))
  <2>1. CASE l = m
    BY <1>1, <1>2, <1>3, <1>5, <2>1
  <2>2. CASE l \in Pending
    <3>1. l \in Message /\ l.from \in Clients /\ l.seq \in Nat /\ l.seq <= Len(accepted[l.from])
      BY <2>2 DEF Once, Message
    <3>2. l.seq <= Len(accepted'[l.from])
      BY <1>4, <3>1, Zenon
    <3>3. runs[l.from][l.seq] > 0 => \E w \in Workers : wpc[w] \in Done /\ Same(l, Head(hand[w]))
      BY <2>2, Zenon DEF Once
    <3> QED
      BY <1>2, <3>1, <3>2, <3>3, Zenon
  <2> QED
    BY <1>1, <1>6, <2>1, <2>2, Zenon
<1>7. \A d \in Clients, n \in 1..MaxMessages : runs'[d][n] > 0 => n <= Len(accepted'[d])
  <2>1. \A n \in 1..MaxMessages : n \in Nat
    BY DispatchAssumption
  <2> QED
    BY <1>2, <1>4, <2>1, Zenon DEF Once
<1>8. AtMostOnce'
  BY <1>2, Zenon DEF Once, AtMostOnce
<1>9. Left'
  <2>1. \A n \in 1..MaxMessages : n \in Nat
    BY DispatchAssumption
  <2>2. \A d \in Clients, n \in 1..MaxMessages : <<d, n>> \in abandoned' => n <= Len(accepted'[d])
    BY <1>2, <1>4, <2>1, Zenon DEF Once, Left
  <2>3. Id(m) \notin abandoned
    <3>1. ~(m.seq <= Len(accepted[c])) /\ m.seq \in 1..MaxMessages
      <4>1. m.seq \in 1..MaxMessages
        BY Zenon DEF Message
      <4>2. ~(m.seq <= Len(accepted[c]))
        BY <1>1, <1>3
      <4> QED
        BY <4>1, <4>2, Zenon
    <3> QED
      BY <1>1, <3>1, Zenon DEF Once, Left, Id
  <2> QED
    BY <1>1, <1>2, <2>2, <2>3, Zenon DEF Once, Left
<1> QED
  BY <1>1, <1>6, <1>7, <1>8, <1>9, Zenon DEF Once, Placed

(* What a dropped call has left is never run. *)
LEMMA OnceCancelled ==
  ASSUME Inv, Once, NEW c \in Clients, CancelCall(c)
  PROVE  Once'
<1>1. Placed
  BY Zenon DEF Once, Placed
<1>2. /\ Placed' /\ Pending' \subseteq Pending
      /\ \A i \in DOMAIN sent[c] : sent[c][i] \in Pending
      /\ \A m \in Pending' : \A i \in DOMAIN sent[c] : ~Same(m, sent[c][i])
  BY <1>1, CancelPlaces, Zenon
<1>3. /\ abandoned' = abandoned \cup {Id(m) : m \in Range(sent[c])}
      /\ UNCHANGED <<accepted, runs, wpc, hand>>
  BY Zenon DEF CancelCall, workerVars
<1>4. \A p : p \in abandoned' <=> p \in abandoned \/ \E i \in DOMAIN sent[c] : p = Id(sent[c][i])
  BY <1>3, Zenon DEF Range
<1>5. Left'
  <2>1. ASSUME NEW m \in Pending', NEW i \in DOMAIN sent[c]
        PROVE  Id(m) # Id(sent[c][i])
    <3>1. ~Same(m, sent[c][i])
      BY <1>2, <2>1, Zenon
    <3> QED
      BY <3>1, Zenon DEF Same, Id
  <2>2. ASSUME NEW d \in Clients, NEW n \in 1..MaxMessages, NEW i \in DOMAIN sent[c], <<d, n>> = Id(sent[c][i])
        PROVE  n <= Len(accepted[d])
    <3>1. d = sent[c][i].from /\ n = sent[c][i].seq
      BY <2>2, Zenon DEF Id
    <3> QED
      BY <1>2, <3>1, Zenon DEF Once
  <2> QED
    BY <1>2, <1>3, <1>4, <2>1, <2>2, Zenon DEF Once, Left
<1>6. ASSUME NEW m \in Pending'
      PROVE  /\ m \in Message /\ m.seq <= Len(accepted'[m.from])
             /\ runs'[m.from][m.seq] > 0 =>
                  \E w \in Workers : wpc'[w] \in Done /\ Same(m, Head(hand'[w]))
  BY <1>2, <1>3, <1>6, Zenon DEF Once
<1> QED
  BY <1>2, <1>3, <1>5, <1>6, Zenon DEF Once, Placed, AtMostOnce

(* Every step keeps each message in one place and runs it at most once. *)
LEMMA OnceStep ==
  ASSUME Inv, Calm, Once, Next
  PROVE  Once'
<1>1. Placed
  BY Zenon DEF Once, Placed
<1>2. ASSUME UNCHANGED <<injectors, hand, sent, accepted, abandoned, runs>>,
             \A w \in Workers : wpc[w] \in Done => wpc'[w] = wpc[w]
      PROVE  Once'
  <2>1. Placed' /\ Pending' = Pending
    BY <1>1, <1>2, PlacesKept, Zenon
  <2> QED
    BY <1>2, <2>1, OnceMoved, Zenon
<1>3. ASSUME NEW c \in Clients, EnqueueNext(c)
      PROVE  Once'
  BY <1>3, OnceEnqueued, Zenon
<1>4. ASSUME NEW c \in Clients, TrySendFull(c) \/ \E k \in Calls : BeginCall(c, k)
      PROVE  Once'
  BY <1>2, <1>4, Zenon DEF TrySendFull, BeginCall, workerVars
<1>5. ASSUME NEW c \in Clients, PushTask(c)
      PROVE  Once'
  <2>1. Placed' /\ Pending' = Pending /\ UNCHANGED hand
    BY <1>1, <1>5, PushTaskPlaces, Zenon
  <2>2. UNCHANGED <<accepted, abandoned, runs, wpc>>
    BY <1>5, Zenon DEF PushTask, workerVars
  <2> QED
    BY <2>1, <2>2, OnceMoved, Zenon
<1>6. ASSUME (\E k \in Killers : Kill(k)) \/ \E s \in SetStates : SetActorState(s)
      PROVE  Once'
  BY <1>2, <1>6, Zenon DEF Kill, SetActorState, clientVars, workerVars
<1>7. ASSUME NEW w \in Workers, Take(w)
      PROVE  Once'
  <2>1. Placed' /\ Pending' = Pending
    BY <1>1, <1>7, TakePlaces, Zenon
  <2>2. UNCHANGED <<accepted, abandoned, runs>>
    BY <1>7, Zenon DEF Take, TakeCritical, TakeHigh, TakeGlobal, TakeFrom, clientVars
  <2>3. wpc[w] \notin Done
    BY <1>7, Zenon DEF Take, TakeCritical, TakeHigh, TakeGlobal, Done
  <2>4. \A v \in Workers : v # w => wpc'[v] = wpc[v] /\ hand'[v] = hand[v]
    BY <1>7, Zenon DEF Take, TakeCritical, TakeHigh, TakeGlobal, TakeFrom, WorkerGoto, Inv, WorkersOK
  <2> QED
    BY <2>1, <2>2, <2>3, <2>4, OnceMoved, Zenon
<1>8. ASSUME NEW w \in Workers, ReadState(w)
      PROVE  Once'
  <2>1. \A v \in Workers : wpc[v] \in Done => wpc'[v] = wpc[v]
    BY <1>8, Zenon DEF ReadState, WorkerGoto, Done, Inv, WorkersOK
  <2> QED
    BY <1>2, <1>8, <2>1, Zenon DEF ReadState, clientVars
<1>9. ASSUME NEW w \in Workers, Execute(w)
      PROVE  Once'
  BY <1>9, OnceExecuted, Zenon
<1>10. ASSUME NEW w \in Workers, Count(w) \/ DropMail(w) \/ Ignore(w)
       PROVE  Once'
  BY <1>10, OncePutDown, Zenon
<1>11. ASSUME NEW w \in Workers, CatchUnwind(w)
       PROVE  Once'
  BY <1>11, AtWork, OnceDropped, Zenon DEF CatchUnwind, clientVars
<1>12. ASSUME NEW w \in Workers, NextOfBatch(w)
       PROVE  Once'
  <2>1. CASE Finish(w, <<>>, 0)
    BY <1>12, <2>1, AtWork, OnceDropped, Zenon DEF NextOfBatch, clientVars
  <2>2. CASE WorkerGoto(w, "read") /\ UNCHANGED <<hand, depth>>
    <3>1. \A v \in Workers : wpc[v] \in Done => wpc'[v] = wpc[v]
      BY <1>12, <2>2, Zenon DEF NextOfBatch, WorkerGoto, Done, Inv, WorkersOK
    <3> QED
      BY <1>2, <1>12, <2>2, <3>1, Zenon DEF NextOfBatch, clientVars
  <2> QED
    BY <1>12, <2>1, <2>2, Zenon DEF NextOfBatch
<1>13. ASSUME NEW w \in Workers
       PROVE  ~(Control(w) \/ ControlPop(w) \/ Controlled(w) \/ Drain(w) \/ Requeue(w))
  BY Zenon DEF Control, ControlPop, Controlled, Drain, Requeue, Calm
<1> QED
  BY <1>3, <1>4, <1>5, <1>6, <1>7, <1>8, <1>9, <1>10, <1>11, <1>12, <1>13, OnceCancelled, Zenon
  DEF Next, ClientStep, WorkerStep

(* Initially nothing is held and nothing has run. *)
LEMMA InitOnce == Init => Calm /\ Once
<1> SUFFICES ASSUME Init
             PROVE  Calm /\ Once
  BY Zenon
<1>1. Calm
  BY Zenon DEF Init, Calm, FirstInjector
<1>2. /\ critical = <<>> /\ high = <<>> /\ global = <<>>
      /\ \A c \in Clients : sent[c] = <<>>
      /\ \A w \in Workers : hand[w] = <<>>
  BY Zenon DEF Init
<1>3. Unique(critical, high, global, hand, sent)
  BY <1>2, EmptyApart, Zenon DEF Unique
<1>4. Pending = {}
  BY <1>2 DEF Pending, Range
<1>5. \A c \in Clients, n \in 1..MaxMessages : runs[c][n] = 0
  BY Zenon DEF Init
<1>6. Left
  BY <1>4, Zenon DEF Init, Left
<1> QED
  BY <1>1, <1>3, <1>4, <1>5, <1>6 DEF Once, AtMostOnce

(* Without a suspension, every message is in one place and run at most once, always. *)
LEMMA OnceHolds ==
  ASSUME "Pause" \notin Payloads, "Suspended" \notin SetStates
  PROVE  Spec => [](Calm /\ Once)
<1>1. Inv /\ Calm /\ Once /\ [Next]_vars => Calm' /\ Once'
  <2> SUFFICES ASSUME Inv, Calm, Once, [Next]_vars
               PROVE  Calm' /\ Once'
    BY Zenon
  <2>1. CASE Next
    <3>1. ASSUME NEW w \in Workers, wpc[w] = "execute"
          PROVE  Head(hand[w]).payload # "Pause"
      <4>1. Head(hand[w]) \in Message
        BY <3>1, AtWork, HandTail, Zenon DEF Inv
      <4> QED
        BY <4>1, Zenon DEF Message
    <3>2. state' # "Suspended"
      BY <2>1, <3>1, NotSuspended, Zenon
    <3> QED
      BY <2>1, <3>2, CalmStep, OnceStep, Zenon
  <2>2. CASE UNCHANGED vars
    <3>1. UNCHANGED <<state, wpc, depth, injectors, hand, sent, accepted, abandoned, runs>>
      BY <2>2, Zenon DEF vars, actor, clientVars, workerVars
    <3>2. Placed' /\ Pending' = Pending
      BY <3>1, PlacesKept, Zenon DEF Once, Placed
    <3>3. Once'
      BY <3>1, <3>2, OnceMoved, Zenon
    <3> QED
      BY <3>1, <3>3, Zenon DEF Calm
  <2> QED
    BY <2>1, <2>2, Zenon
<1> QED
  BY <1>1, InitOnce, InvHolds, PTL DEF Spec

(* A message is run at most once, for any number of workers, clients and
   injected priorities, whatever fails, stops, is killed or is dropped, as long
   as no message and no call of set_actor_state suspends the actor: a task
   carries its messages to one worker only, and the copies in the mailbox are
   only counted. *)
THEOREM RunAtMostOnce ==
  ASSUME "Pause" \notin Payloads, "Suspended" \notin SetStates
  PROVE  Spec => []AtMostOnce
<1>1. Once => AtMostOnce
  BY Zenon DEF Once
<1> QED
  BY <1>1, OnceHolds, PTL

-----------------------------------------------------------------------------
(* One slot for each message still to be run *)

(* No worker has found the actor failed, stopped or gone, and nobody is killing it. *)
Healthy ==
  /\ Live /\ \A w \in Workers : wpc[w] \notin {"failed", "panicked", "done"}
  /\ \A k \in Killers : kpc[k] = "idle"

Slots ==
  /\ IsFiniteSet(Owed)
  /\ Len(normal) + Len(urgent) = Cardinality(Owed)

(* A step that leaves the actor live, leaves it able to run what it is sent. *)
LEMMA HealthyStep ==
  ASSUME Inv, Calm, Healthy, Next, Live'
  PROVE  Healthy'
<1>1. ASSUME UNCHANGED <<wpc, kpc>>
      PROVE  Healthy'
  BY <1>1, Zenon DEF Healthy
<1>2. ASSUME NEW c \in Clients, ClientStep(c) \/ CancelCall(c) \/ \E k \in Calls : BeginCall(c, k)
      PROVE  Healthy'
  BY <1>1, <1>2, Zenon DEF ClientStep, EnqueueNext, TrySendFull, PushTask, CancelCall, BeginCall, workerVars
<1>3. ASSUME NEW s \in SetStates, SetActorState(s)
      PROVE  Healthy'
  BY <1>1, <1>3, Zenon DEF SetActorState, workerVars
<1>4. ASSUME NEW k \in Killers, Kill(k)
      PROVE  FALSE
  BY <1>4, Zenon DEF Kill, SetState, Become, Live, Healthy
<1>5. ASSUME NEW w \in Workers, WorkerStep(w)
      PROVE  Healthy'
  <2> DEFINE Sick == {"failed", "panicked", "done"}
  <2>1. ASSUME NEW l \in Labels \ Sick, WorkerGoto(w, l), kpc' = kpc
        PROVE  Healthy'
    <3>1. wpc' = [wpc EXCEPT ![w] = l] /\ wpc \in [Workers -> Labels]
      BY <2>1, Zenon DEF WorkerGoto, Inv, WorkersOK
    <3>2. \A v \in Workers : wpc'[v] \in {l, wpc[v]}
      BY <3>1, Zenon
    <3> QED
      BY <2>1, <3>2, Zenon DEF Healthy
  <2>2. CASE Take(w)
    <3>1. \E l \in Labels \ Sick : WorkerGoto(w, l)
      BY <2>2, Zenon DEF Take, TakeCritical, TakeHigh, TakeGlobal, TakeFrom, FirstInjector, Labels, Injectors
    <3>2. kpc' = kpc
      BY <2>2, Zenon DEF Take, TakeCritical, TakeHigh, TakeGlobal, TakeFrom
    <3> QED
      BY <2>1, <3>1, <3>2, Zenon
  <2>3. CASE ReadState(w) \/ NextOfBatch(w)
    <3>1. \E l \in {"execute", "read"} : WorkerGoto(w, l) /\ kpc' = kpc
      BY <2>3, Zenon DEF ReadState, NextOfBatch, Healthy, Live
    <3>2. {"execute", "read"} \subseteq Labels \ Sick
      BY Zenon DEF Labels
    <3> QED
      BY <2>1, <3>1, <3>2, Zenon
  <2>4. CASE Execute(w)
    <3>1. WorkerGoto(w, "count") /\ kpc' = kpc
      <4>1. ~SetState("Failed", 1)
        BY Zenon DEF SetState, Become, Registered, Healthy, Live
      <4> QED
        BY <2>4, <4>1, Zenon DEF Execute
    <3>2. "count" \in Labels \ Sick
      BY Zenon DEF Labels
    <3> QED
      BY <2>1, <3>1, <3>2, Zenon
  <2>5. CASE Count(w)
    <3>1. PICK l \in {"drain", "next", FirstInjector} : WorkerGoto(w, l) /\ kpc' = kpc
      BY <2>5, Zenon DEF Count, Finish
    <3>2. l \in Labels \ Sick
      BY Zenon DEF Labels, Injectors, FirstInjector
    <3> QED
      BY <2>1, <3>1, <3>2, Zenon
  <2>6. ~(\/ DropMail(w) \/ CatchUnwind(w) \/ Ignore(w) \/ Control(w) \/ ControlPop(w)
          \/ Controlled(w) \/ Drain(w) \/ Requeue(w))
    BY Zenon DEF DropMail, CatchUnwind, Ignore, Control, ControlPop, Controlled, Drain, Requeue, Calm, Healthy
  <2> QED
    BY <1>5, <2>2, <2>3, <2>4, <2>5, <2>6, Zenon DEF WorkerStep
<1> QED
  BY <1>2, <1>3, <1>4, <1>5, Zenon DEF Next

(* A step that changes neither the mailbox nor who holds its slots keeps the count. *)
LEMMA SlotsKept ==
  ASSUME Slots, Owed' = Owed, UNCHANGED mail
  PROVE  Slots'
<1>1. PICK P : P = Owed
  BY Zenon
<1>2. Owed' = P
  BY <1>1, Zenon
<1>3. IsFiniteSet(P) /\ Len(normal) + Len(urgent) = Cardinality(P)
  BY <1>1, Zenon DEF Slots
<1>4. normal' = normal /\ urgent' = urgent
  BY Zenon DEF mail
<1> QED
  BY <1>2, <1>3, <1>4, Zenon DEF Slots

(* Moving messages about changes nothing, ... *)
LEMMA OwedKept ==
  ASSUME Pending' = Pending, abandoned' = abandoned
  PROVE  Owed' = Owed
BY Zenon DEF Owed

(* ... nor does a dropped call: its slots stay taken. *)
LEMMA OwedCancelled ==
  ASSUME Inv, Placed, NEW c \in Clients, CancelCall(c)
  PROVE  Owed' = Owed
<1>1. /\ Pending' \subseteq Pending
      /\ \A m \in Pending : m \in Pending' \/ InSeq(sent[c], m)
      /\ \A i \in DOMAIN sent[c] : sent[c][i] \in Pending
  BY CancelPlaces, Zenon
<1>2. abandoned' = abandoned \cup {Id(m) : m \in Range(sent[c])}
  BY Zenon DEF CancelCall
<1>3. \A m : m \in Range(sent[c]) <=> InSeq(sent[c], m)
  BY Zenon DEF Range, InSeq
<1>4. \A m \in Range(sent[c]) : m \in Pending
  BY <1>1, <1>3, Zenon DEF InSeq
<1>5. ASSUME NEW p
      PROVE  p \in Owed' <=> p \in Owed
  <2>1. p \in Owed <=> p \in abandoned \/ \E m \in Pending : p = Id(m)
    BY Zenon DEF Owed
  <2>2. p \in Owed' <=> \/ p \in abandoned \/ \E m \in Range(sent[c]) : p = Id(m)
                        \/ \E m \in Pending' : p = Id(m)
    BY <1>2, Zenon DEF Owed
  <2> QED
    BY <1>1, <1>3, <1>4, <2>1, <2>2, Zenon
<1> QED
  BY <1>5, Zenon

(* A message takes a slot as it joins the messages on their way, ... *)
LEMMA SlotsEnqueued ==
  ASSUME Inv, Once, Slots, NEW c \in Clients, EnqueueNext(c)
  PROVE  Slots'
<1>1. PICK P : P = Owed
  BY Zenon
<1>2. PICK m \in Message : /\ m.from = c /\ m.seq = Len(accepted[c]) + 1
                           /\ Pending' = Pending \cup {m} /\ \A n \in Pending : ~Same(n, m)
  BY EnqueuePlaces, Zenon
<1>3. IsFiniteSet(P) /\ Len(normal) + Len(urgent) = Cardinality(P)
  BY <1>1, Zenon DEF Slots
<1>4. Id(m) \notin P
  <2>1. \A n \in Pending : Id(n) # Id(m)
    BY <1>2, Zenon DEF Same, Id
  <2>2. Id(m) \notin abandoned
    <3>1. m.seq \in 1..MaxMessages
      BY Zenon DEF Message
    <3>2. Len(accepted[c]) \in Nat
      BY AppendFacts DEF Inv, ClientsOK
    <3>3. ~(m.seq <= Len(accepted[c]))
      BY <1>2, <3>2
    <3> QED
      BY <1>2, <3>1, <3>3, Zenon DEF Once, Left, Id
  <2> QED
    BY <1>1, <2>1, <2>2, Zenon DEF Owed
<1>5. Owed' = P \cup {Id(m)}
  <2>1. abandoned' = abandoned
    BY Zenon DEF EnqueueNext
  <2>2. ASSUME NEW p
        PROVE  p \in Owed' <=> p \in P \cup {Id(m)}
    <3>1. p \in Owed' <=> p \in abandoned \/ \E n \in Pending \cup {m} : p = Id(n)
      BY <1>2, <2>1, Zenon DEF Owed
    <3>2. p \in P <=> p \in abandoned \/ \E n \in Pending : p = Id(n)
      BY <1>1, Zenon DEF Owed
    <3> QED
      BY <3>1, <3>2, Zenon
  <2> QED
    BY <2>2, Zenon
<1>6. IsFiniteSet(P \cup {Id(m)}) /\ Cardinality(P \cup {Id(m)}) = Cardinality(P) + 1
  BY <1>3, <1>4, AddElement, Zenon
<1>7. normal \in Seq(Message) /\ urgent \in Seq(Message)
  BY Zenon DEF Inv, MailOK
<1>8. PICK n \in Message : Enqueue(n)
  <2>1. unsent[c] \in Seq(Message) /\ unsent[c] # <<>>
    BY Zenon DEF Inv, ClientsOK, EnqueueNext
  <2>2. Head(unsent[c]) \in Message
    BY <2>1
  <2> QED
    BY <2>2, Zenon DEF EnqueueNext
<1>9. Len(normal') + Len(urgent') = Len(normal) + Len(urgent) + 1
  <2>1. \/ urgent' = Append(urgent, n) /\ normal' = normal
        \/ normal' = Append(normal, n) /\ urgent' = urgent
    BY <1>8, Zenon DEF Enqueue
  <2> QED
    BY <1>7, <2>1
<1> QED
  BY <1>3, <1>5, <1>6, <1>9, Zenon DEF Slots

(* ... and a message that has been run gives one up, whoever's it is: the
   mailbox cannot be empty, as that message still has a slot in it. *)
LEMMA SlotsCounted ==
  ASSUME Inv, Once, Healthy, Slots, NEW w \in Workers, Count(w)
  PROVE  Slots'
<1>1. PICK P : P = Owed
  BY Zenon
<1>2. IsFiniteSet(P) /\ Len(normal) + Len(urgent) = Cardinality(P)
  BY <1>1, Zenon DEF Slots
<1>3. hand[w] # <<>>
  BY AtWork, HandTail, Zenon DEF Count, Inv
<1>4. /\ hand' = [hand EXCEPT ![w] = Tail(hand[w])] /\ UNCHANGED <<injectors, sent, abandoned>>
  BY Zenon DEF Count, Finish, clientVars
<1>5. PICK m : /\ Pending' = Pending \ {m} /\ m \in Pending
               /\ \A n \in Pending' : ~Same(n, m)
  BY <1>3, <1>4, PutDownPlaces, Zenon DEF Once, Placed
<1>6. Owed' = P \ {Id(m)} /\ Id(m) \in P
  <2>1. Id(m) \notin abandoned
    BY <1>5, Zenon DEF Once, Left
  <2>2. \A n \in Pending' : Id(n) # Id(m)
    BY <1>5, Zenon DEF Same, Id
  <2>3. ASSUME NEW p
        PROVE  p \in Owed' <=> p \in P \ {Id(m)}
    <3>1. p \in Owed' <=> p \in abandoned \/ \E n \in Pending' : p = Id(n)
      BY <1>4, Zenon DEF Owed
    <3>2. p \in P <=> p \in abandoned \/ \E n \in Pending : p = Id(n)
      BY <1>1, Zenon DEF Owed
    <3>3. (\E n \in Pending : p = Id(n)) <=> p = Id(m) \/ \E n \in Pending' : p = Id(n)
      BY <1>5, Zenon
    <3> QED
      BY <2>1, <2>2, <3>1, <3>2, <3>3, Zenon
  <2>4. Id(m) \in P
    BY <1>1, <1>5, Zenon DEF Owed
  <2> QED
    BY <2>3, <2>4, Zenon
<1>7. IsFiniteSet(P \ {Id(m)}) /\ Cardinality(P \ {Id(m)}) = Cardinality(P) - 1
  BY <1>2, <1>6, RemoveElement, Zenon
<1>8. Cardinality(P) # 0
  BY <1>2, <1>6, EmptySet, Zenon
<1>9. normal \in Seq(Message) /\ urgent \in Seq(Message)
  BY Zenon DEF Inv, MailOK
<1>10. ~MailEmpty
  <2>1. SUFFICES ASSUME MailEmpty
                 PROVE  FALSE
    BY Zenon
  <2>2. Len(normal) = 0 /\ Len(urgent) = 0
    BY <2>1, EmptyLen, Zenon DEF MailEmpty
  <2> QED
    BY <1>2, <1>8, <2>2
<1>11. TryRecv
  BY Zenon DEF Count, PopMail, Registered, Healthy, Live
<1>12. Len(normal') + Len(urgent') = Len(normal) + Len(urgent) - 1
  <2>1. \/ urgent # <<>> /\ urgent' = Tail(urgent) /\ normal' = normal
        \/ normal # <<>> /\ normal' = Tail(normal) /\ urgent' = urgent
    BY <1>10, <1>11, Zenon DEF TryRecv, Box!RemoveUrgent, Box!RemoveNormal
  <2> QED
    BY <1>9, <2>1
<1>13. PICK q : q = Cardinality(P \ {Id(m)})
  BY Zenon
<1>14. PICK p : p = Cardinality(P)
  BY Zenon
<1>15. q = p - 1 /\ Len(normal) + Len(urgent) = p
  BY <1>2, <1>7, <1>13, <1>14, Zenon
<1>16. Len(normal') + Len(urgent') = q
  BY <1>12, <1>15
<1> QED
  BY <1>6, <1>7, <1>13, <1>16, Zenon DEF Slots

(* Every step of a live actor's keeps a slot of the mailbox for each message owed one. *)
LEMMA SlotsStep ==
  ASSUME Inv, Calm, Once, Healthy, Slots, Next
  PROVE  Slots'
<1>1. Placed
  BY Zenon DEF Once, Placed
<1>2. ASSUME UNCHANGED <<mail, injectors, hand, sent, abandoned>>
      PROVE  Slots'
  BY <1>1, <1>2, PlacesKept, OwedKept, SlotsKept, Zenon
<1>3. ASSUME NEW c \in Clients, TrySendFull(c) \/ \E k \in Calls : BeginCall(c, k)
      PROVE  Slots'
  BY <1>2, <1>3, Zenon DEF TrySendFull, BeginCall, workerVars
<1>4. ASSUME NEW c \in Clients, PushTask(c)
      PROVE  Slots'
  <2>1. UNCHANGED <<mail, abandoned>>
    BY <1>4, Zenon DEF PushTask
  <2> QED
    BY <1>1, <1>4, <2>1, PushTaskPlaces, OwedKept, SlotsKept, Zenon
<1>5. ASSUME NEW c \in Clients, CancelCall(c)
      PROVE  Slots'
  <2>1. UNCHANGED mail
    BY <1>5, Zenon DEF CancelCall
  <2> QED
    BY <1>1, <1>5, <2>1, OwedCancelled, SlotsKept, Zenon
<1>6. ASSUME NEW w \in Workers, Take(w)
      PROVE  Slots'
  <2>1. UNCHANGED <<mail, abandoned>>
    BY <1>6, Zenon DEF Take, TakeCritical, TakeHigh, TakeGlobal, TakeFrom, clientVars
  <2> QED
    BY <1>1, <1>6, <2>1, TakePlaces, OwedKept, SlotsKept, Zenon
<1>7. ASSUME NEW w \in Workers, ReadState(w) \/ Execute(w) \/ NextOfBatch(w)
      PROVE  Slots'
  <2>1. UNCHANGED <<mail, injectors, hand, sent, abandoned>>
    BY <1>7, Zenon DEF ReadState, Execute, NextOfBatch, Healthy, Live, clientVars
  <2> QED
    BY <1>2, <2>1, Zenon
<1>8. ASSUME NEW w \in Workers
      PROVE  ~(\/ DropMail(w) \/ CatchUnwind(w) \/ Ignore(w) \/ Control(w) \/ ControlPop(w)
               \/ Controlled(w) \/ Drain(w) \/ Requeue(w))
  BY Zenon DEF DropMail, CatchUnwind, Ignore, Control, ControlPop, Controlled, Drain, Requeue, Calm, Healthy
<1>9. ASSUME (\E k \in Killers : Kill(k)) \/ \E s \in SetStates : SetActorState(s)
      PROVE  Slots'
  <2>1. UNCHANGED <<mail, injectors, hand, sent, abandoned>>
    BY <1>9, Zenon DEF Kill, SetActorState, Healthy, clientVars, workerVars
  <2> QED
    BY <1>2, <2>1, Zenon
<1> QED
  BY <1>1, <1>3, <1>4, <1>5, <1>6, <1>7, <1>8, <1>9, SlotsEnqueued, SlotsCounted, Zenon
  DEF Next, ClientStep, WorkerStep

(* Initially the mailbox is empty and nothing is pending. *)
LEMMA InitSlots == Init => Healthy /\ Slots
<1> SUFFICES ASSUME Init
             PROVE  Healthy /\ Slots
  BY Zenon
<1>1. Healthy
  BY Zenon DEF Init, Healthy, Live, FirstInjector
<1>2. Owed = {}
  <2>1. /\ critical = <<>> /\ high = <<>> /\ global = <<>>
        /\ \A c \in Clients : sent[c] = <<>>
        /\ \A w \in Workers : hand[w] = <<>>
    BY Zenon DEF Init
  <2>2. Pending = {}
    BY <2>1 DEF Pending, Range
  <2>3. abandoned = {}
    BY Zenon DEF Init
  <2> QED
    BY <2>2, <2>3, Zenon DEF Owed
<1>3. IsFiniteSet({}) /\ Cardinality({}) = 0
  BY EmptySet, Zenon
<1>4. Len(normal) = 0 /\ Len(urgent) = 0
  BY EmptyLen, Zenon DEF Init, Box!Init
<1>5. Len(normal) + Len(urgent) = 0
  BY <1>4
<1> QED
  BY <1>1, <1>2, <1>3, <1>5, Zenon DEF Slots

(* The types that the runs check. *)
LEMMA TypesOK == Inv /\ HistoryOK => TypeOK
<1> SUFFICES ASSUME Inv, HistoryOK
             PROVE  TypeOK
  BY Zenon
<1>1. \A q \in Seq(Task) : q \in Seq(Seq(Message))
  BY DEF Task
<1>2. \A q \in {critical, high, global} : q \in Seq(Seq(Message))
  BY <1>1, Zenon DEF Inv, QueuesOK
<1>3. /\ \A f \in {unsent, sent} : f \in [Clients -> Seq(Message)]
      /\ accepted \in [Clients -> Seq(BOOLEAN)]
  BY Zenon DEF Inv, ClientsOK, Marks
<1>4. wpc \in [Workers -> {"critical", "high", "global", "read", "execute", "count", "failed",
                           "panicked", "control", "controlPop", "controlled", "drain", "requeue",
                           "done", "next"}]
  BY Zenon DEF Inv, WorkersOK, Labels, Injectors
<1>5. \A w \in Workers : wpc[w] \in {"read", "execute", "count", "control", "requeue", "next"} =>
                           hand[w] # <<>>
  BY AtWork, Zenon DEF Inv, WorkersOK
<1> QED
  BY <1>2, <1>3, <1>4, <1>5, Zenon DEF TypeOK, Inv, MailOK, ClientsOK, WorkersOK, RestOK, HistoryOK, States

(* What holds of an actor that has been live from the start *)
Steady == steady => Calm /\ Once /\ Healthy /\ Slots

(* The mailbox of an actor that has been live from the start holds one slot for
   each message still to be run and for each that a dropped call has left, for
   any number of workers and clients and any capacity, payloads, outcomes and
   kills: no slot leaks and none is freed early, although every worker releases
   the oldest slot and not that of its own message. *)
THEOREM SlotsAreHeld == Spec => []SlotsHeld
<1>1. Inv /\ HistoryOK /\ Steady /\ [Next]_vars => Steady'
  <2> SUFFICES ASSUME Inv, HistoryOK, Steady, [Next]_vars, steady'
               PROVE  Calm' /\ Once' /\ Healthy' /\ Slots'
    BY Zenon DEF Steady
  <2>1. Live' /\ Calm /\ Once /\ Healthy /\ Slots
    BY SteadyBefore, Zenon DEF Steady
  <2>2. CASE Next
    <3>1. state' # "Suspended"
      BY <2>1, Zenon DEF Live
    <3> QED
      BY <2>1, <2>2, <3>1, CalmStep, OnceStep, HealthyStep, SlotsStep, Zenon
  <2>3. CASE UNCHANGED vars
    <3>1. UNCHANGED <<state, wpc, depth, kpc, mail, injectors, hand, sent, accepted, abandoned, runs>>
      BY <2>3, Zenon DEF vars, actor, clientVars, workerVars
    <3>2. Placed' /\ Pending' = Pending
      BY <2>1, <3>1, PlacesKept, Zenon DEF Once, Placed
    <3>3. Once'
      BY <2>1, <3>1, <3>2, OnceMoved, Zenon
    <3>4. Slots'
      BY <2>1, <3>1, <3>2, OwedKept, SlotsKept, Zenon
    <3> QED
      BY <2>1, <3>1, <3>3, <3>4, Zenon DEF Calm, Healthy
  <2> QED
    BY <2>2, <2>3, Zenon
<1>2. Init => Steady
  BY InitOnce, InitSlots, Zenon DEF Steady
<1>3. Inv /\ HistoryOK /\ Steady => SlotsHeld
  BY TypesOK, Zenon DEF Steady, Slots, SlotsHeld
<1> QED
  BY <1>1, <1>2, <1>3, InvHolds, HistoryHolds, PTL DEF Spec
=============================================================================
