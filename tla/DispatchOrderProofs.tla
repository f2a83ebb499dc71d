------------------------ MODULE DispatchOrderProofs -------------------------
(***************************************************************************)
(* One worker that takes tasks from one injector runs the messages of a    *)
(* client in the order in which they were sent, for any number of clients  *)
(* and messages.                                                           *)
(***************************************************************************)
EXTENDS DispatchProofs

AllCustom == \A c \in Clients : TRUE \notin Range(accepted[c])

(* Of two messages of one client, m was sent first. *)
Sooner(m, n) == m.from = n.from => m.seq < n.seq

Rising(s) == \A i, j \in DOMAIN s : i < j => Sooner(s[i], s[j])
Leads(s, t) == \A i \in DOMAIN s, j \in DOMAIN t : Sooner(s[i], t[j])

(* What is in hand (h) was sent before what is in the queue z, task by task,
   and that before what is yet to be pushed (s). *)
Lined(z, h, s) ==
  /\ \A k \in DOMAIN z : Rising(z[k]) /\ \A l \in DOMAIN z : k < l => Leads(z[k], z[l])
  /\ \A w \in Workers : Rising(h[w]) /\ \A k \in DOMAIN z : Leads(h[w], z[k])
  /\ \A c \in Clients :
       /\ Rising(s[c]) /\ \A i \in DOMAIN s[c] : s[c][i].from = c
       /\ \A w \in Workers : Leads(h[w], s[c])
       /\ \A k \in DOMAIN z : Leads(z[k], s[c])

(* All tasks are in the global injector, in line. *)
InLine == critical = <<>> /\ high = <<>> /\ Lined(global, hand, sent)

(* A message that is about to be counted has been run. *)
Counted ==
  \A w \in Workers : wpc[w] = "count" => runs[Head(hand[w]).from][Head(hand[w]).seq] > 0

(* The actor runs messages, or its worker has yet to notice that it does not. *)
Going == Live \/ \E w \in Workers : wpc[w] = "execute"

(* No message has been lost so far, but for those of dropped calls. *)
Complete ==
  \A c \in Clients, n \in 1..MaxMessages :
    n <= Len(accepted[c]) =>
      runs[c][n] > 0 \/ <<c, n>> \in abandoned \/ \E m \in Pending : m.from = c /\ m.seq = n

(* Ordinary messages never suspend the actor; once it has failed or has been
   stopped or killed it stays down, and until then every message is in line. *)
Serial ==
  /\ Calm /\ Once
  /\ InLine /\ Counted
  /\ \A m \in Pending : m.payload = "Custom"
  /\ \A w \in Workers : wpc[w] \in {"failed", "panicked", "done"} => ~Live
  /\ Going => Complete

(* Nothing is in the empty sequence. *)
LEMMA EmptyLeads ==
  Rising(<<>>) /\ \A t : Leads(<<>>, t) /\ Leads(t, <<>>)
BY DEF Rising, Leads

(* The tail of a sequence keeps its order, and its place before others. *)
LEMMA TailLeads ==
  ASSUME NEW s \in Seq(Message), s # <<>>
  PROVE  /\ Rising(s) => Rising(Tail(s))
         /\ \A t : Leads(s, t) => Leads(Tail(s), t)
<1>1. \A i \in DOMAIN Tail(s) : i + 1 \in DOMAIN s /\ Tail(s)[i] = s[i + 1] /\ i \in Nat
  OBVIOUS
<1>2. ASSUME Rising(s)
      PROVE  Rising(Tail(s))
  <2>1. \A i, j \in DOMAIN Tail(s) : i < j => i + 1 < j + 1
    BY <1>1
  <2> QED
    BY <1>1, <1>2, <2>1, Zenon DEF Rising
<1>3. \A t : Leads(s, t) => Leads(Tail(s), t)
  BY <1>1, Zenon DEF Leads
<1> QED
  BY <1>2, <1>3, Zenon

(* A worker takes the first task. *)
LEMMA LinedPop ==
  ASSUME NEW z \in Seq(Task), z # <<>>, NEW h \in Hands, NEW s, Lined(z, h, s),
         NEW w \in Workers, \A v \in Workers : v = w
  PROVE  Lined(Tail(z), [h EXCEPT ![w] = Head(z)], s)
<1> DEFINE g == [h EXCEPT ![w] = Head(z)]
<1>1. g[w] = Head(z)
  BY Zenon DEF Hands
<1> HIDE DEF g
<1>2. \A k \in DOMAIN Tail(z) : k + 1 \in DOMAIN z /\ Tail(z)[k] = z[k + 1] /\ k \in Nat /\ 1 < k + 1
  OBVIOUS
<1>3. 1 \in DOMAIN z /\ Head(z) = z[1]
  OBVIOUS
<1>4. \A k, l \in DOMAIN Tail(z) : k < l => k + 1 < l + 1
  BY <1>2
<1>5. \A k \in DOMAIN Tail(z) :
        Rising(Tail(z)[k]) /\ \A l \in DOMAIN Tail(z) : k < l => Leads(Tail(z)[k], Tail(z)[l])
  BY <1>2, <1>4 DEF Lined
<1>6. Rising(Head(z)) /\ \A k \in DOMAIN Tail(z) : Leads(Head(z), Tail(z)[k])
  BY <1>2, <1>3 DEF Lined
<1>7. ASSUME NEW c \in Clients
      PROVE  /\ Rising(s[c]) /\ \A i \in DOMAIN s[c] : s[c][i].from = c
             /\ Leads(Head(z), s[c])
             /\ \A k \in DOMAIN Tail(z) : Leads(Tail(z)[k], s[c])
  BY <1>2, <1>3 DEF Lined
<1> QED
  BY <1>1, <1>5, <1>6, <1>7, Zenon DEF Lined, g

(* A client's messages go to the end of the line as one task. *)
LEMMA LinedPush ==
  ASSUME NEW z \in Seq(Task), NEW h, NEW s \in Sents, Lined(z, h, s),
         NEW c \in Clients, s[c] # <<>>
  PROVE  Lined(Append(z, s[c]), h, [s EXCEPT ![c] = <<>>])
<1> DEFINE r == [s EXCEPT ![c] = <<>>]
<1>1. r[c] = <<>> /\ \A d \in Clients : d # c => r[d] = s[d]
  BY Zenon DEF Sents
<1>2. PICK t \in Task : t = s[c]
  BY Zenon DEF Task, Sents
<1> DEFINE y == Append(z, t)
           n == Len(z) + 1
<1>3. /\ DOMAIN y = DOMAIN z \cup {n} /\ y[n] = t /\ \A k \in DOMAIN z : y[k] = z[k] /\ k < n /\ ~(n < k)
      /\ ~(n < n)
  OBVIOUS
<1> HIDE DEF r, y, n
<1>4. /\ Rising(t) /\ (\A k \in DOMAIN z : Leads(z[k], t)) /\ \A w \in Workers : Leads(h[w], t)
      /\ \A i \in DOMAIN t : t[i].from = c
  BY <1>2, Zenon DEF Lined
<1>5. \A k \in DOMAIN y : Rising(y[k]) /\ \A l \in DOMAIN y : k < l => Leads(y[k], y[l])
  BY <1>3, <1>4, Zenon DEF Lined
<1>6. \A w \in Workers : Rising(h[w]) /\ \A k \in DOMAIN y : Leads(h[w], y[k])
  BY <1>3, <1>4, Zenon DEF Lined
<1>7. ASSUME NEW d \in Clients
      PROVE  /\ Rising(r[d]) /\ \A i \in DOMAIN r[d] : r[d][i].from = d
             /\ \A w \in Workers : Leads(h[w], r[d])
             /\ \A k \in DOMAIN y : Leads(y[k], r[d])
  <2>1. CASE d = c
    BY <1>1, <2>1, EmptyLeads
  <2>2. CASE d # c
    <3>1. \A i \in DOMAIN s[d] : s[d][i].from = d
      BY Zenon DEF Lined
    <3>2. Leads(t, s[d])
      BY <1>4, <2>2, <3>1, Zenon DEF Leads, Sooner
    <3> QED
      BY <1>1, <1>3, <2>2, <3>2, Zenon DEF Lined
  <2> QED
    BY <2>1, <2>2, Zenon
<1> QED
  BY <1>2, <1>5, <1>6, <1>7, Zenon DEF Lined, r, y

(* A dropped call's messages leave the line. *)
LEMMA LinedCancel ==
  ASSUME NEW z, NEW h, NEW s \in Sents, Lined(z, h, s), NEW c \in Clients
  PROVE  Lined(z, h, [s EXCEPT ![c] = <<>>])
<1> DEFINE r == [s EXCEPT ![c] = <<>>]
<1>1. r[c] = <<>> /\ \A d \in Clients : d # c => r[d] = s[d]
  BY Zenon DEF Sents
<1> HIDE DEF r
<1>2. ASSUME NEW d \in Clients
      PROVE  /\ Rising(r[d]) /\ \A i \in DOMAIN r[d] : r[d][i].from = d
             /\ \A w \in Workers : Leads(h[w], r[d])
             /\ \A k \in DOMAIN z : Leads(z[k], r[d])
  <2>1. CASE d = c
    BY <1>1, <2>1, EmptyLeads
  <2>2. CASE d # c
    BY <1>1, <2>2, Zenon DEF Lined
  <2> QED
    BY <2>1, <2>2, Zenon
<1> QED
  BY <1>2, Zenon DEF Lined, r

(* A worker puts down its first message, or all it has. *)
LEMMA LinedLess ==
  ASSUME NEW z, NEW h \in Hands, NEW s, Lined(z, h, s), NEW w \in Workers,
         NEW t, t = <<>> \/ (h[w] # <<>> /\ t = Tail(h[w]))
  PROVE  Lined(z, [h EXCEPT ![w] = t], s)
<1> DEFINE g == [h EXCEPT ![w] = t]
<1>1. g[w] = t /\ h[w] \in Seq(Message) /\ \A v \in Workers : v # w => g[v] = h[v]
  BY Zenon DEF Hands
<1> HIDE DEF g
<1>2. Rising(t) /\ \A u : Leads(h[w], u) => Leads(t, u)
  <2>1. CASE t = <<>>
    BY <2>1, EmptyLeads, Zenon
  <2>2. CASE h[w] # <<>> /\ t = Tail(h[w])
    BY <1>1, <2>2, TailLeads, Zenon DEF Lined
  <2> QED
    BY <2>1, <2>2, Zenon
<1>3. ASSUME NEW v \in Workers
      PROVE  /\ Rising(g[v]) /\ \A k \in DOMAIN z : Leads(g[v], z[k])
             /\ \A c \in Clients : Leads(g[v], s[c])
  BY <1>1, <1>2, Zenon DEF Lined
<1> QED
  BY <1>3, Zenon DEF Lined, g

(* A new message joins the end of the line. *)
LEMMA LinedAdd ==
  ASSUME NEW z, NEW h, NEW s \in Sents, Lined(z, h, s), NEW m \in Message,
         \A n \in Held(<<>>, <<>>, z, h, s) : Sooner(n, m)
  PROVE  Lined(z, h, [s EXCEPT ![m.from] = Append(s[m.from], m)])
<1>1. PICK c \in Clients : c = m.from
  BY Zenon DEF Message
<1> DEFINE u == Append(s[c], m)
           n == Len(s[c]) + 1
           r == [s EXCEPT ![c] = u]
<1>2. s[c] \in Seq(Message)
  BY Zenon DEF Sents
<1>3. /\ DOMAIN u = DOMAIN s[c] \cup {n} /\ u[n] = m
      /\ \A i \in DOMAIN s[c] : u[i] = s[c][i] /\ ~(n < i)
      /\ ~(n < n)
  BY <1>2
<1>4. r[c] = u /\ \A d \in Clients : d # c => r[d] = s[d]
  BY Zenon DEF Sents
<1> HIDE DEF u, n, r
<1>5. /\ \A w \in Workers : \A i \in DOMAIN h[w] : Sooner(h[w][i], m)
      /\ \A k \in DOMAIN z : \A i \in DOMAIN z[k] : Sooner(z[k][i], m)
      /\ \A i \in DOMAIN s[c] : Sooner(s[c][i], m)
  BY HeldWhere, Zenon DEF InSeq, InQueue
<1>6. /\ Rising(u) /\ \A i \in DOMAIN u : u[i].from = c
      /\ \A w \in Workers : Leads(h[w], u)
      /\ \A k \in DOMAIN z : Leads(z[k], u)
  <2>1. Rising(u)
    BY <1>3, <1>5, Zenon DEF Lined, Rising
  <2>2. \A i \in DOMAIN u : u[i].from = c
    BY <1>1, <1>3 DEF Lined
  <2>3. \A w \in Workers : Leads(h[w], u)
    BY <1>3, <1>5, Zenon DEF Lined, Leads
  <2>4. \A k \in DOMAIN z : Leads(z[k], u)
    BY <1>3, <1>5, Zenon DEF Lined, Leads
  <2> QED
    BY <2>1, <2>2, <2>3, <2>4, Zenon
<1>7. Lined(z, h, r)
  BY <1>4, <1>6, Zenon DEF Lined
<1> QED
  BY <1>1, <1>7, Zenon DEF r, u

(* How many messages have been accepted is a number. *)
LEMMA LenAccepted ==
  ASSUME Inv, NEW c \in Clients
  PROVE  Len(accepted[c]) \in Nat
<1>1. \A q \in Seq(Marks) : Len(q) \in Nat
  OBVIOUS
<1> QED
  BY <1>1, Zenon DEF Inv, ClientsOK

(* What has been accepted stays accepted, and a state that was forced stays so. *)
LEMMA CustomBefore ==
  ASSUME Inv, HistoryOK, [Next]_vars, AllCustom', ~forced'
  PROVE  AllCustom /\ ~forced
<1>1. accepted' = accepted \/ \E c \in Clients : EnqueueNext(c)
  BY Zenon DEF Next, vars, ClientStep, WorkerStep, TrySendFull, PushTask, CancelCall, BeginCall, Take, TakeCritical,
         TakeHigh, TakeGlobal, TakeFrom, ReadState, Execute, Count, DropMail, CatchUnwind, Control, ControlPop,
         Controlled, Drain, Requeue, Ignore, NextOfBatch, Kill, SetActorState, clientVars
<1>2. ASSUME accepted' = accepted
      PROVE  AllCustom
  <2>1. ASSUME NEW c \in Clients
        PROVE  Range(accepted'[c]) = Range(accepted[c])
    BY <1>2, Zenon
  <2> QED
    BY <2>1, Zenon DEF AllCustom
<1>3. ASSUME NEW c \in Clients, EnqueueNext(c)
      PROVE  AllCustom
  <2>1. PICK b \in Marks : accepted' = [accepted EXCEPT ![c] = Append(accepted[c], b)]
    <3>1. IsControl(Head(unsent[c])) \in Marks
      BY DEF IsControl, Marks
    <3> QED
      BY <1>3, <3>1, Zenon DEF EnqueueNext
  <2>2. accepted \in [Clients -> Seq(Marks)]
    BY Zenon DEF Inv, ClientsOK
  <2>3. \A d \in Clients : Range(accepted[d]) \subseteq Range(accepted'[d])
    <3>1. ASSUME NEW d \in Clients, d # c
          PROVE  accepted'[d] = accepted[d]
      BY <2>1, <2>2, <3>1, Zenon
    <3>2. Range(accepted[c]) \subseteq Range(accepted'[c])
      <4>1. accepted'[c] = Append(accepted[c], b) /\ accepted[c] \in Seq(Marks)
        BY <2>1, <2>2, Zenon
      <4>2. \A i \in DOMAIN accepted[c] : i \in DOMAIN accepted'[c] /\ accepted'[c][i] = accepted[c][i]
        BY <4>1
      <4> QED
        BY <4>2, Zenon DEF Range
    <3> QED
      BY <3>1, <3>2, Zenon
  <2> QED
    BY <2>3, Zenon DEF AllCustom
<1>4. forced' = forced \/ \E s \in SetStates : SetActorState(s)
  BY WhoChanges, Zenon DEF actor, Execute, Control, Kill, SetState
<1>5. ~forced
  BY <1>4, Zenon DEF SetActorState
<1> QED
  BY <1>1, <1>2, <1>3, <1>5, Zenon

(* The message at hand is on its way. *)
LEMMA AtHand ==
  ASSUME Inv, NEW w \in Workers, wpc[w] \notin Injectors \cup {"drain"}
  PROVE  /\ hand[w] \in Seq(Message) /\ hand[w] # <<>> /\ 1 \in DOMAIN hand[w]
         /\ Head(hand[w]) = hand[w][1] /\ Head(hand[w]) \in Message /\ Head(hand[w]) \in Pending
<1>1. hand[w] \in Seq(Message) /\ hand[w] # <<>>
  BY HandTail, Zenon DEF Inv
<1>2. Head(hand[w]) \in Message /\ 1 \in DOMAIN hand[w] /\ Head(hand[w]) = hand[w][1]
  BY <1>1
<1>3. InSeq(hand[w], Head(hand[w]))
  BY <1>2, Zenon DEF InSeq
<1>4. Head(hand[w]) \in Pending
  BY <1>3, HeldWhere, PendingIsHeld, Zenon
<1> QED
  BY <1>1, <1>2, <1>4, Zenon

(* Ordinary messages never bring back an actor that is down, and set_actor_state
   has not. *)
LEMMA StaysDown ==
  ASSUME Inv, Serial, Next, ~forced'
  PROVE  /\ Live' => Live
         /\ \A w \in Workers : wpc'[w] \in {"failed", "panicked", "done"} => ~Live'
         /\ Going' => Going
<1>1. ASSUME NEW c \in Clients, ClientStep(c) \/ CancelCall(c) \/ \E k \in Calls : BeginCall(c, k)
      PROVE  UNCHANGED <<state, wpc>>
  BY <1>1, Zenon DEF ClientStep, EnqueueNext, TrySendFull, PushTask, CancelCall, BeginCall, workerVars, actor
<1>2. ASSUME NEW k \in Killers, Kill(k)
      PROVE  UNCHANGED wpc /\ state' \in {state, "Stopped", "None"}
  BY <1>2, Zenon DEF Kill, workerVars, actor, SetState, Become
<1>3. ASSUME NEW w \in Workers, WorkerStep(w)
      PROVE  /\ Live' => Live
             /\ \A v \in Workers : v # w => wpc'[v] = wpc[v]
             /\ wpc'[w] \in {"failed", "panicked", "done"} => ~Live'
             /\ wpc'[w] = "execute" => Live
  <2>1. wpc \in [Workers -> Labels] /\ state \in States
    BY Zenon DEF Inv, WorkersOK, RestOK
  <2>2. ASSUME NEW msgs, Finish(w, msgs, 0), state' = state
        PROVE  /\ Live' => Live
               /\ \A v \in Workers : v # w => wpc'[v] = wpc[v]
               /\ wpc'[w] \in {"next", "global", "critical"}
    BY <2>1, <2>2 DEF Finish, WorkerGoto, FirstInjector, Live
  <2>3. CASE Take(w)
    BY <2>1, <2>3, Zenon DEF Take, TakeCritical, TakeHigh, TakeGlobal, TakeFrom, WorkerGoto, FirstInjector, Live, actor
  <2>4. CASE ReadState(w)
    BY <2>1, <2>4, Zenon DEF ReadState, WorkerGoto, Serial, Calm, Live, actor
  <2>5. CASE Execute(w)
    <3>1. PICK m \in Message : m = Head(hand[w]) /\ m.payload = "Custom"
      BY <2>5, AtHand, AtWork, Zenon DEF Execute, Serial
    <3>2. StateAfter(m) = state
      BY <3>1, Zenon DEF StateAfter
    <3>3. /\ state' \in {state, "Failed", "None"}
          /\ \/ wpc' = [wpc EXCEPT ![w] = "count"]
             \/ \E l \in {"failed", "panicked"} :
                  wpc' = [wpc EXCEPT ![w] = l] /\ state' \in {"Failed", "None"}
      BY <2>5, <3>1, <3>2, Zenon DEF Execute, SetState, Become, WorkerGoto
    <3> QED
      BY <2>1, <3>3, Zenon DEF Live
  <2>6. CASE Count(w) \/ DropMail(w) \/ CatchUnwind(w) \/ Ignore(w)
    BY <2>2, <2>6, Zenon DEF Count, DropMail, CatchUnwind, Ignore, Serial, Calm, actor
  <2>7. CASE NextOfBatch(w)
    BY <2>1, <2>2, <2>7, Zenon DEF NextOfBatch, WorkerGoto, Live, actor
  <2>8. ~(Control(w) \/ ControlPop(w) \/ Controlled(w) \/ Drain(w) \/ Requeue(w))
    BY Zenon DEF Control, ControlPop, Controlled, Drain, Requeue, Serial, Calm
  <2> QED
    BY <1>3, <2>3, <2>4, <2>5, <2>6, <2>7, <2>8, Zenon DEF WorkerStep
<1>4. ASSUME UNCHANGED wpc, Live' => Live
      PROVE  /\ \A w \in Workers : wpc'[w] \in {"failed", "panicked", "done"} => ~Live'
             /\ Going' => Going
  BY <1>4, Zenon DEF Serial, Going
<1>5. ASSUME NEW w \in Workers, WorkerStep(w)
      PROVE  /\ Live' => Live
             /\ \A v \in Workers : wpc'[v] \in {"failed", "panicked", "done"} => ~Live'
             /\ Going' => Going
  BY <1>3, <1>5, Zenon DEF Serial, Going
<1>6. ASSUME NEW s \in SetStates, SetActorState(s)
      PROVE  UNCHANGED wpc /\ (Live' => Live)
  BY <1>6, Zenon DEF SetActorState, workerVars
<1> QED
  BY <1>1, <1>2, <1>4, <1>5, <1>6, Zenon DEF Next, Live

(* Every step keeps the messages in line: a new one joins at the end, and the
   only worker takes from the front. *)
LEMMA LineStep ==
  ASSUME Inv, Calm, Once, InLine, Next, ~PriorityScheduling, \A v, w \in Workers : v = w
  PROVE  InLine'
<1>1. critical = <<>> /\ high = <<>> /\ Lined(global, hand, sent)
  BY Zenon DEF InLine
<1>2. global \in Seq(Task) /\ hand \in Hands /\ sent \in Sents
  BY Zenon DEF Inv, QueuesOK, WorkersOK, ClientsOK, Hands, Sents
<1>3. ASSUME UNCHANGED <<injectors, hand, sent>>
      PROVE  InLine'
  BY <1>1, <1>3, Zenon DEF InLine, injectors
<1>4. ASSUME NEW c \in Clients, EnqueueNext(c)
      PROVE  InLine'
  <2>1. PICK m \in Message : m = Head(unsent[c]) /\ m.from = c /\ m.seq = Len(accepted[c]) + 1
    <3>1. unsent[c] \in Seq(Message) /\ unsent[c] # <<>>
      BY <1>4, Zenon DEF Inv, ClientsOK, EnqueueNext
    <3>2. 1 \in DOMAIN unsent[c] /\ Head(unsent[c]) = unsent[c][1] /\ Head(unsent[c]) \in Message
      BY <3>1
    <3> QED
      BY <3>2 DEF Inv, ClientsOK
  <2>2. \A n \in Pending : Sooner(n, m)
    <3>1. Len(accepted[c]) \in Nat
      BY LenAccepted, Zenon
    <3>2. \A n \in Pending : n.seq <= Len(accepted[n.from]) /\ n.seq \in Int
      BY DispatchAssumption DEF Once, Message
    <3> QED
      BY <2>1, <3>1, <3>2 DEF Sooner
  <2>3. Pending = Held(<<>>, <<>>, global, hand, sent)
    BY <1>1, PendingIsHeld, Zenon
  <2>4. \A n \in Held(<<>>, <<>>, global, hand, sent) : Sooner(n, m)
    BY <2>2, <2>3, Zenon
  <2>5. Lined(global, hand, [sent EXCEPT ![m.from] = Append(sent[m.from], m)])
    BY <1>1, <1>2, <2>4, LinedAdd, Zenon
  <2>6. /\ sent' = [sent EXCEPT ![m.from] = Append(sent[m.from], m)]
        /\ UNCHANGED <<critical, high, global, hand>>
    BY <1>4, <2>1, Zenon DEF EnqueueNext, injectors, workerVars
  <2> QED
    BY <1>1, <2>5, <2>6, Zenon DEF InLine
<1>5. ASSUME NEW c \in Clients, PushTask(c)
      PROVE  InLine'
  <2>1. /\ critical' = critical /\ high' = high /\ global' = Append(global, sent[c])
        /\ sent' = [sent EXCEPT ![c] = <<>>] /\ hand' = hand
    BY <1>5, Zenon DEF PushTask, workerVars
  <2>2. sent[c] # <<>>
    BY <1>5, Zenon DEF PushTask, Inv, ClientsOK
  <2>3. Lined(Append(global, sent[c]), hand, [sent EXCEPT ![c] = <<>>])
    BY <1>1, <1>2, <2>2, LinedPush, Zenon
  <2> QED
    BY <1>1, <2>1, <2>3, Zenon DEF InLine
<1>6. ASSUME NEW w \in Workers, Take(w)
      PROVE  InLine'
  <2>1. \/ UNCHANGED <<injectors, hand, sent>>
        \/ /\ global # <<>> /\ hand' = [hand EXCEPT ![w] = Head(global)] /\ global' = Tail(global)
           /\ UNCHANGED <<critical, high, sent>>
    BY <1>1, <1>6, Zenon DEF Take, TakeCritical, TakeHigh, TakeGlobal, TakeFrom, PopTail, injectors, clientVars
  <2>2. ASSUME global # <<>>
        PROVE  Lined(Tail(global), [hand EXCEPT ![w] = Head(global)], sent)
    BY <1>1, <1>2, <2>2, LinedPop, Zenon
  <2> QED
    BY <1>1, <1>3, <2>1, <2>2, Zenon DEF InLine
<1>7. ASSUME NEW w \in Workers, NEW t, t = <<>> \/ (hand[w] # <<>> /\ t = Tail(hand[w])),
             hand' = [hand EXCEPT ![w] = t], UNCHANGED <<injectors, sent>>
      PROVE  InLine'
  <2>1. Lined(global, [hand EXCEPT ![w] = t], sent)
    BY <1>1, <1>2, <1>7, LinedLess, Zenon
  <2> QED
    BY <1>1, <1>7, <2>1, Zenon DEF InLine, injectors
<1>8. ASSUME NEW w \in Workers, Count(w) \/ DropMail(w) \/ Ignore(w)
      PROVE  InLine'
  <2>1. hand[w] # <<>>
    BY <1>8, AtWork, HandTail, Zenon DEF Count, DropMail, Ignore, Inv
  <2>2. hand' = [hand EXCEPT ![w] = Tail(hand[w])] /\ UNCHANGED <<injectors, sent>>
    BY <1>8, Zenon DEF Count, DropMail, Ignore, Finish, clientVars
  <2> QED
    BY <1>7, <2>1, <2>2, Zenon
<1>9. ASSUME NEW w \in Workers, CatchUnwind(w) \/ NextOfBatch(w)
      PROVE  InLine'
  <2>1. \/ hand' = [hand EXCEPT ![w] = <<>>] /\ UNCHANGED <<injectors, sent>>
        \/ UNCHANGED <<injectors, hand, sent>>
    BY <1>9, Zenon DEF CatchUnwind, NextOfBatch, Finish, clientVars
  <2> QED
    BY <1>3, <1>7, <2>1, Zenon
<1>10. ASSUME NEW w \in Workers, ReadState(w) \/ Execute(w)
       PROVE  InLine'
  BY <1>3, <1>10, Zenon DEF ReadState, Execute, clientVars
<1>11. ASSUME NEW c \in Clients, TrySendFull(c) \/ \E k \in Calls : BeginCall(c, k)
       PROVE  InLine'
  BY <1>3, <1>11, Zenon DEF TrySendFull, BeginCall, workerVars
<1>12. ASSUME (\E k \in Killers : Kill(k)) \/ \E s \in SetStates : SetActorState(s)
       PROVE  InLine'
  BY <1>3, <1>12, Zenon DEF Kill, SetActorState, clientVars, workerVars
<1>13. ASSUME NEW c \in Clients, CancelCall(c)
       PROVE  InLine'
  <2>1. Lined(global, hand, [sent EXCEPT ![c] = <<>>])
    BY <1>1, <1>2, LinedCancel, Zenon
  <2> QED
    BY <1>1, <1>13, <2>1, Zenon DEF InLine, CancelCall, injectors, workerVars
<1>14. ASSUME NEW w \in Workers
       PROVE  ~(Control(w) \/ ControlPop(w) \/ Controlled(w) \/ Drain(w) \/ Requeue(w))
  BY Zenon DEF Control, ControlPop, Controlled, Drain, Requeue, Calm
<1> QED
  BY <1>4, <1>5, <1>6, <1>8, <1>9, <1>10, <1>11, <1>12, <1>13, <1>14, Zenon DEF Next, ClientStep, WorkerStep

(* A run adds one to the count of the message at hand, and to no other. *)
LEMMA RunAdds ==
  ASSUME Inv, NEW w \in Workers, Execute(w)
  PROVE  \E m \in Message :
           /\ m = Head(hand[w]) /\ runs'[m.from][m.seq] = runs[m.from][m.seq] + 1
           /\ runs[m.from][m.seq] \in Nat
           /\ \A c \in Clients, n \in 1..MaxMessages :
                ~(c = m.from /\ n = m.seq) => runs'[c][n] = runs[c][n]
<1>1. PICK m \in Message : m = Head(hand[w])
  BY AtHand, AtWork, Zenon DEF Execute
<1>2. PICK c \in Clients, n \in 1..MaxMessages : c = m.from /\ n = m.seq
  BY Zenon DEF Message
<1>3. runs' = [runs EXCEPT ![c][n] = @ + 1] /\ runs \in [Clients -> [1..MaxMessages -> Nat]]
  BY <1>1, <1>2, Zenon DEF Execute, Inv, RestOK
<1>4. runs[c][n] \in Nat
  BY <1>3, Zenon
<1>5. \A d \in Clients, k \in 1..MaxMessages :
        runs'[d][k] = IF d = c /\ k = n THEN runs[d][k] + 1 ELSE runs[d][k]
  BY <1>3, Zenon
<1> QED
  BY <1>1, <1>2, <1>4, <1>5

(* Only a worker that runs a message changes what has been run, and a step of
   any other kind leaves the messages that are about to be counted alone. *)
LEMMA CountedStep ==
  ASSUME Inv, Calm, Counted, Next
  PROVE  Counted'
<1>1. ASSUME NEW w \in Workers, Execute(w)
      PROVE  Counted'
  <2>1. PICK m \in Message :
          /\ m = Head(hand[w]) /\ runs'[m.from][m.seq] = runs[m.from][m.seq] + 1
          /\ runs[m.from][m.seq] \in Nat
          /\ \A c \in Clients, n \in 1..MaxMessages :
               ~(c = m.from /\ n = m.seq) => runs'[c][n] = runs[c][n]
    BY <1>1, RunAdds, Zenon
  <2>2. runs'[m.from][m.seq] > 0
    BY <2>1
  <2>3. ASSUME NEW v \in Workers, wpc'[v] = "count"
        PROVE  runs'[Head(hand'[v]).from][Head(hand'[v]).seq] > 0
    <3>1. hand' = hand
      BY <1>1, Zenon DEF Execute
    <3>2. CASE v = w
      BY <2>1, <2>2, <3>1, <3>2, Zenon
    <3>3. CASE v # w
      <4>1. wpc[v] = "count"
        BY <1>1, <2>3, <3>3, Zenon DEF Execute, WorkerGoto, Inv, WorkersOK
      <4>2. PICK l \in Message : l = Head(hand[v])
        BY <4>1, AtHand, AtWork, Zenon
      <4>3. runs[l.from][l.seq] > 0 /\ l.from \in Clients /\ l.seq \in 1..MaxMessages
        BY <4>1, <4>2, Zenon DEF Counted, Message
      <4>4. CASE l.from = m.from /\ l.seq = m.seq
        BY <2>2, <3>1, <4>2, <4>4, Zenon
      <4>5. CASE ~(l.from = m.from /\ l.seq = m.seq)
        <5>1. runs'[l.from][l.seq] = runs[l.from][l.seq]
          BY <2>1, <4>3, <4>5, Zenon
        <5> QED
          BY <3>1, <4>2, <4>3, <5>1, Zenon
      <4> QED
        BY <4>4, <4>5, Zenon
    <3> QED
      BY <3>2, <3>3, Zenon
  <2> QED
    BY <2>3, Zenon DEF Counted
<1>2. ASSUME runs' = runs, \A v \in Workers : wpc'[v] = "count" => wpc[v] = "count" /\ hand'[v] = hand[v]
      PROVE  Counted'
  BY <1>2, Zenon DEF Counted
<1>3. ASSUME NEW c \in Clients, ClientStep(c) \/ CancelCall(c) \/ \E k \in Calls : BeginCall(c, k)
      PROVE  Counted'
  BY <1>2, <1>3, Zenon DEF ClientStep, EnqueueNext, TrySendFull, PushTask, CancelCall, BeginCall, workerVars
<1>4. ASSUME (\E k \in Killers : Kill(k)) \/ \E s \in SetStates : SetActorState(s)
      PROVE  Counted'
  BY <1>2, <1>4, Zenon DEF Kill, SetActorState, workerVars
<1>5. ASSUME NEW w \in Workers, runs' = runs, NEW l, l # "count", WorkerGoto(w, l), NEW t,
             hand' = [hand EXCEPT ![w] = t]
      PROVE  Counted'
  <2>1. \A v \in Workers : wpc'[v] = "count" => wpc[v] = "count" /\ hand'[v] = hand[v]
    BY <1>5, Zenon DEF WorkerGoto, Inv, WorkersOK
  <2> QED
    BY <1>2, <1>5, <2>1, Zenon
<1>6. ASSUME NEW w \in Workers, runs' = runs, NEW l, l # "count", WorkerGoto(w, l), hand' = hand
      PROVE  Counted'
  <2>1. \A v \in Workers : wpc'[v] = "count" => wpc[v] = "count" /\ hand'[v] = hand[v]
    BY <1>6, Zenon DEF WorkerGoto, Inv, WorkersOK
  <2> QED
    BY <1>2, <1>6, <2>1, Zenon
<1>7. ASSUME NEW w \in Workers, runs' = runs, NEW t, Finish(w, t, 0)
      PROVE  Counted'
  <2>1. PICK l \in {"next", FirstInjector} : WorkerGoto(w, l) /\ hand' = [hand EXCEPT ![w] = t]
    BY <1>7 DEF Finish
  <2>2. l # "count"
    BY Zenon DEF FirstInjector
  <2> QED
    BY <1>5, <1>7, <2>1, <2>2, Zenon
<1>8. ASSUME NEW w \in Workers, Count(w) \/ DropMail(w) \/ CatchUnwind(w) \/ Ignore(w)
      PROVE  Counted'
  BY <1>7, <1>8, Zenon DEF Count, DropMail, CatchUnwind, Ignore, Calm
<1>9. ASSUME NEW w \in Workers, NextOfBatch(w)
      PROVE  Counted'
  BY <1>6, <1>7, <1>9, Zenon DEF NextOfBatch
<1>10. ASSUME NEW w \in Workers, ReadState(w)
       PROVE  Counted'
  <2>1. \E l \in {"execute", "control", "requeue", "done"} : WorkerGoto(w, l)
    BY <1>10, Zenon DEF ReadState
  <2> QED
    BY <1>6, <1>10, <2>1, Zenon DEF ReadState
<1>11. ASSUME NEW w \in Workers, Take(w)
       PROVE  Counted'
  <2>1. runs' = runs
    BY <1>11, Zenon DEF Take, TakeCritical, TakeHigh, TakeGlobal, TakeFrom
  <2>2. \E l \in Injectors \cup {"read"} :
          WorkerGoto(w, l) /\ (hand' = hand \/ \E t : hand' = [hand EXCEPT ![w] = t])
    BY <1>11, Zenon DEF Take, TakeCritical, TakeHigh, TakeGlobal, TakeFrom, FirstInjector, Injectors
  <2> QED
    BY <1>5, <1>6, <2>1, <2>2, Zenon DEF Injectors
<1>12. ASSUME NEW w \in Workers
       PROVE  ~(Control(w) \/ ControlPop(w) \/ Controlled(w) \/ Drain(w) \/ Requeue(w))
  BY Zenon DEF Control, ControlPop, Controlled, Drain, Requeue, Calm
<1> QED
  BY <1>1, <1>3, <1>4, <1>8, <1>9, <1>10, <1>11, <1>12, Zenon DEF Next, WorkerStep

(* As long as the actor runs messages, none is lost; a worker that drops what
   it has in hand knows that the actor is down. *)
LEMMA CompleteStep ==
  ASSUME Inv, Serial, Next, AllCustom', ~forced', \A v, w \in Workers : v = w
  PROVE  (\A m \in Pending' : m.payload = "Custom") /\ (Going' => Complete')
<1>1. Placed /\ Once /\ Calm /\ (\A m \in Pending : m.payload = "Custom") /\ (Going => Complete)
  BY Zenon DEF Serial, Once, Placed
<1>2. /\ Live' => Live
      /\ Going' => Going
  BY StaysDown, Zenon
<1>3. ASSUME Pending' = Pending, accepted' = accepted, abandoned' = abandoned,
             \A c \in Clients, n \in 1..MaxMessages : runs[c][n] > 0 => runs'[c][n] > 0
      PROVE  (\A m \in Pending' : m.payload = "Custom") /\ (Going' => Complete')
  BY <1>1, <1>2, <1>3 DEF Complete
<1>4. ASSUME UNCHANGED <<injectors, hand, sent, accepted, abandoned, runs>>
      PROVE  (\A m \in Pending' : m.payload = "Custom") /\ (Going' => Complete')
  <2>1. Pending' = Pending
    BY <1>1, <1>4, PlacesKept, Zenon
  <2> QED
    BY <1>3, <1>4, <2>1, Zenon
<1>5. ASSUME NEW w \in Workers, Pending' \subseteq Pending, ~Live', wpc'[w] # "execute"
      PROVE  (\A m \in Pending' : m.payload = "Custom") /\ (Going' => Complete')
  <2>1. ~Going'
    BY <1>5, Zenon DEF Going
  <2> QED
    BY <1>1, <1>5, <2>1, Zenon
<1>6. ASSUME NEW c \in Clients, EnqueueNext(c)
      PROVE  (\A m \in Pending' : m.payload = "Custom") /\ (Going' => Complete')
  <2>1. PICK m \in Message :
          /\ m.from = c /\ m.seq = Len(accepted[c]) + 1
          /\ Pending' = Pending \cup {m}
          /\ accepted' = [accepted EXCEPT ![c] = Append(accepted[c], IsControl(m))]
          /\ IsControl(m) \in Marks
    BY <1>1, <1>6, EnqueuePlaces, Zenon
  <2>2. accepted \in [Clients -> Seq(Marks)]
    BY Zenon DEF Inv, ClientsOK
  <2>3. PICK b \in Marks : b = IsControl(m) /\ accepted'[c] = Append(accepted[c], b) /\ accepted[c] \in Seq(Marks)
    BY <2>1, <2>2, Zenon
  <2>4. Len(accepted'[c]) = Len(accepted[c]) + 1 /\ Len(accepted[c]) \in Nat
    <3>1. PICK q \in Seq(Marks) : q = accepted[c]
      BY <2>3, Zenon
    <3>2. Len(Append(q, b)) = Len(q) + 1 /\ Len(q) \in Nat
      BY AppendFacts, Zenon
    <3> QED
      BY <2>3, <3>1, <3>2, Zenon
  <2>5. \A d \in Clients : d # c => accepted'[d] = accepted[d]
    BY <2>1, <2>2, Zenon
  <2>6. b \in Range(accepted'[c])
    <3>1. Len(accepted[c]) + 1 \in DOMAIN accepted'[c] /\ accepted'[c][Len(accepted[c]) + 1] = b
      BY <2>3
    <3> QED
      BY <3>1, Zenon DEF Range
  <2>7. m.payload = "Custom"
    <3>1. ~IsControl(m)
      BY <2>3, <2>6, Zenon DEF AllCustom, Marks
    <3>2. m.payload \in Payloads
      BY Zenon DEF Message
    <3> QED
      BY <3>1, <3>2, DispatchAssumption, Zenon DEF IsControl
  <2>8. runs' = runs /\ abandoned' = abandoned
    BY <1>6, Zenon DEF EnqueueNext
  <2>9. ASSUME Complete, NEW d \in Clients, NEW n \in 1..MaxMessages, n <= Len(accepted'[d])
        PROVE  runs'[d][n] > 0 \/ <<d, n>> \in abandoned' \/ \E l \in Pending' : l.from = d /\ l.seq = n
    <3>1. CASE d = c /\ n = m.seq
      BY <2>1, <3>1, Zenon
    <3>2. CASE ~(d = c /\ n = m.seq)
      <4>1. n \in Nat
        BY DispatchAssumption
      <4>2. n <= Len(accepted[d])
        <5>1. CASE d # c
          BY <2>5, <2>9, <5>1, Zenon
        <5>2. CASE d = c
          <6>1. n <= Len(accepted[c]) + 1 /\ n # Len(accepted[c]) + 1
            BY <2>1, <2>4, <2>9, <3>2, <5>2, Zenon
          <6> QED
            BY <2>4, <4>1, <5>2, <6>1
        <5> QED
          BY <5>1, <5>2, Zenon
      <4> QED
        <5>1. runs[d][n] > 0 \/ <<d, n>> \in abandoned \/ \E l \in Pending : l.from = d /\ l.seq = n
          BY <2>9, <4>2, Zenon DEF Complete
        <5> QED
          BY <2>1, <2>8, <5>1, Zenon
    <3> QED
      BY <3>1, <3>2, Zenon
  <2>10. Complete => Complete'
    BY <2>9, Zenon DEF Complete
  <2> QED
    BY <1>1, <1>2, <2>1, <2>7, <2>10, Zenon
<1>7. ASSUME NEW c \in Clients, PushTask(c)
      PROVE  (\A m \in Pending' : m.payload = "Custom") /\ (Going' => Complete')
  <2>1. Pending' = Pending
    BY <1>1, <1>7, PushTaskPlaces, Zenon
  <2>2. UNCHANGED <<accepted, abandoned, runs>>
    BY <1>7, Zenon DEF PushTask
  <2> QED
    BY <1>3, <2>1, <2>2, Zenon
<1>8. ASSUME NEW w \in Workers, Take(w)
      PROVE  (\A m \in Pending' : m.payload = "Custom") /\ (Going' => Complete')
  <2>1. Pending' = Pending
    BY <1>1, <1>8, TakePlaces, Zenon
  <2>2. UNCHANGED <<accepted, abandoned, runs>>
    BY <1>8, Zenon DEF Take, TakeCritical, TakeHigh, TakeGlobal, TakeFrom, clientVars
  <2> QED
    BY <1>3, <2>1, <2>2, Zenon
<1>9. ASSUME NEW w \in Workers, Execute(w)
      PROVE  (\A m \in Pending' : m.payload = "Custom") /\ (Going' => Complete')
  <2>1. UNCHANGED <<injectors, hand, sent, accepted, abandoned>>
    BY <1>9, Zenon DEF Execute, clientVars
  <2>2. Pending' = Pending
    BY <1>1, <2>1, PlacesKept, Zenon
  <2>3. PICK m \in Message :
          /\ runs'[m.from][m.seq] = runs[m.from][m.seq] + 1
          /\ runs[m.from][m.seq] \in Nat
          /\ \A c \in Clients, n \in 1..MaxMessages :
               ~(c = m.from /\ n = m.seq) => runs'[c][n] = runs[c][n]
    BY <1>9, RunAdds, Zenon
  <2>4. runs'[m.from][m.seq] > 0
    BY <2>3
  <2>5. \A c \in Clients, n \in 1..MaxMessages : runs[c][n] > 0 => runs'[c][n] > 0
    BY <2>3, <2>4, Zenon
  <2> QED
    BY <1>3, <2>1, <2>2, <2>5, Zenon
<1>10. ASSUME NEW w \in Workers, Count(w) \/ DropMail(w) \/ Ignore(w)
       PROVE  /\ Pending' = Pending \ {Head(hand[w])} /\ UNCHANGED <<accepted, abandoned, runs, state>>
              /\ wpc'[w] # "execute"
  <2>1. hand[w] # <<>>
    BY <1>10, AtWork, HandTail, Zenon DEF Count, DropMail, Ignore, Inv
  <2>2. /\ hand' = [hand EXCEPT ![w] = Tail(hand[w])]
        /\ UNCHANGED <<injectors, sent, accepted, abandoned, runs, state>>
    BY <1>10, Zenon DEF Count, DropMail, Ignore, Finish, clientVars, actor
  <2>3. Pending' = Pending \ {Head(hand[w])}
    BY <1>1, <2>1, <2>2, PutDownPlaces, Zenon
  <2>4. wpc'[w] # "execute"
    BY <1>10, Zenon DEF Count, DropMail, Ignore, Finish, WorkerGoto, FirstInjector, Inv, WorkersOK
  <2> QED
    BY <2>2, <2>3, <2>4, Zenon
<1>11. ASSUME NEW w \in Workers, Count(w)
       PROVE  (\A m \in Pending' : m.payload = "Custom") /\ (Going' => Complete')
  <2>1. runs[Head(hand[w]).from][Head(hand[w]).seq] > 0
    BY <1>11, Zenon DEF Count, Serial, Counted
  <2> QED
    BY <1>1, <1>2, <1>10, <1>11, <2>1 DEF Complete
<1>12. ASSUME NEW w \in Workers, DropMail(w) \/ Ignore(w)
       PROVE  (\A m \in Pending' : m.payload = "Custom") /\ (Going' => Complete')
  <2>1. ~Live
    BY <1>12, Zenon DEF DropMail, Ignore, Serial
  <2> QED
    BY <1>2, <1>5, <1>10, <1>12, <2>1, Zenon
<1>13. ASSUME NEW w \in Workers, Finish(w, <<>>, 0), ~Live, UNCHANGED <<injectors, sent>>
       PROVE  (\A m \in Pending' : m.payload = "Custom") /\ (Going' => Complete')
  <2>1. hand' = [hand EXCEPT ![w] = <<>>] /\ wpc'[w] # "execute"
    BY <1>13, Zenon DEF Finish, WorkerGoto, FirstInjector, Inv, WorkersOK
  <2>2. Pending' \subseteq Pending
    BY <1>1, <1>13, <2>1, DropPlaces, Zenon
  <2> QED
    BY <1>2, <1>5, <1>13, <2>1, <2>2, Zenon
<1>14. ASSUME NEW w \in Workers, CatchUnwind(w)
       PROVE  (\A m \in Pending' : m.payload = "Custom") /\ (Going' => Complete')
  BY <1>13, <1>14, Zenon DEF CatchUnwind, Serial, clientVars
<1>15. ASSUME NEW w \in Workers, NextOfBatch(w)
       PROVE  (\A m \in Pending' : m.payload = "Custom") /\ (Going' => Complete')
  BY <1>4, <1>13, <1>15, Zenon DEF NextOfBatch, clientVars, Live
<1>16. ASSUME NEW w \in Workers, ReadState(w)
       PROVE  (\A m \in Pending' : m.payload = "Custom") /\ (Going' => Complete')
  BY <1>4, <1>16, Zenon DEF ReadState, clientVars
<1>17. ASSUME NEW c \in Clients, TrySendFull(c) \/ \E k \in Calls : BeginCall(c, k)
       PROVE  (\A m \in Pending' : m.payload = "Custom") /\ (Going' => Complete')
  BY <1>4, <1>17, Zenon DEF TrySendFull, BeginCall, workerVars
<1>18. ASSUME (\E k \in Killers : Kill(k)) \/ \E s \in SetStates : SetActorState(s)
       PROVE  (\A m \in Pending' : m.payload = "Custom") /\ (Going' => Complete')
  BY <1>4, <1>18, Zenon DEF Kill, SetActorState, clientVars, workerVars
<1>19. ASSUME NEW c \in Clients, CancelCall(c)
       PROVE  (\A m \in Pending' : m.payload = "Custom") /\ (Going' => Complete')
  <2>1. Pending' \subseteq Pending /\ \A m \in Pending : m \in Pending' \/ InSeq(sent[c], m)
    BY <1>1, <1>19, CancelPlaces, Zenon
  <2>2. UNCHANGED <<accepted, runs>> /\ abandoned' = abandoned \cup {Id(m) : m \in Range(sent[c])}
    BY <1>19, Zenon DEF CancelCall
  <2>3. \A m \in Pending : m \in Pending' \/ <<m.from, m.seq>> \in abandoned'
    BY <2>1, <2>2, Zenon DEF Id, InSeq, Range
  <2>4. Complete => Complete'
    <3>1. ASSUME Complete, NEW d \in Clients, NEW n \in 1..MaxMessages, n <= Len(accepted'[d])
          PROVE  runs'[d][n] > 0 \/ <<d, n>> \in abandoned' \/ \E l \in Pending' : l.from = d /\ l.seq = n
      <4>1. runs[d][n] > 0 \/ <<d, n>> \in abandoned \/ \E l \in Pending : l.from = d /\ l.seq = n
        BY <2>2, <3>1, Zenon DEF Complete
      <4> QED
        BY <2>2, <2>3, <4>1, Zenon
    <3> QED
      BY <3>1, Zenon DEF Complete
  <2> QED
    BY <1>1, <1>2, <2>1, <2>4, Zenon
<1>20. ASSUME NEW w \in Workers
       PROVE  ~(Control(w) \/ ControlPop(w) \/ Controlled(w) \/ Drain(w) \/ Requeue(w))
  BY <1>1, Zenon DEF Control, ControlPop, Controlled, Drain, Requeue, Calm
<1> QED
  BY <1>6, <1>7, <1>8, <1>9, <1>11, <1>12, <1>14, <1>15, <1>16, <1>17, <1>18, <1>19, <1>20, Zenon
  DEF Next, ClientStep, WorkerStep

(* Every step keeps the line, as long as all messages accepted are ordinary ones
   and set_actor_state has not revived the actor. *)
LEMMA SerialStep ==
  ASSUME Inv, HistoryOK, AllCustom /\ ~forced => Serial, [Next]_vars, AllCustom', ~forced',
         ~PriorityScheduling, "Suspended" \notin SetStates, \A v, w \in Workers : v = w
  PROVE  Serial'
<1>1. Serial
  BY CustomBefore, Zenon
<1>2. CASE Next
  <2>1. ASSUME NEW w \in Workers, wpc[w] = "execute"
        PROVE  Head(hand[w]).payload # "Pause"
    BY <1>1, <2>1, AtHand, AtWork, Zenon DEF Serial
  <2>2. Calm' /\ Once'
    BY <1>1, <1>2, <2>1, NotSuspended, CalmStep, OnceStep, Zenon DEF Serial
  <2>3. InLine' /\ Counted'
    BY <1>1, <1>2, LineStep, CountedStep, Zenon DEF Serial
  <2>4. \A w \in Workers : wpc'[w] \in {"failed", "panicked", "done"} => ~Live'
    BY <1>1, <1>2, StaysDown, Zenon
  <2>5. (\A m \in Pending' : m.payload = "Custom") /\ (Going' => Complete')
    BY <1>1, <1>2, CompleteStep, Zenon
  <2> QED
    BY <2>2, <2>3, <2>4, <2>5, Zenon DEF Serial
<1>3. CASE UNCHANGED vars
  <2>1. UNCHANGED <<state, wpc, depth, injectors, hand, sent, accepted, abandoned, runs>>
    BY <1>3, Zenon DEF vars, actor, clientVars, workerVars
  <2>2. Placed' /\ Pending' = Pending
    BY <1>1, <2>1, PlacesKept, Zenon DEF Serial, Once, Placed
  <2>3. Calm' /\ Once'
    BY <1>1, <2>1, <2>2, OnceMoved, Zenon DEF Serial, Calm
  <2>4. InLine' /\ Counted' /\ (Live' <=> Live) /\ (Going' <=> Going) /\ (Complete => Complete')
    BY <1>1, <2>1, <2>2 DEF Serial, InLine, Counted, injectors, Live, Going, Complete
  <2> QED
    BY <1>1, <2>1, <2>2, <2>3, <2>4, Zenon DEF Serial
<1> QED
  BY <1>2, <1>3, Zenon

(* Initially the line is empty. *)
LEMMA InitSerial == Init => Serial
<1> SUFFICES ASSUME Init
             PROVE  Serial
  BY Zenon
<1>1. /\ critical = <<>> /\ high = <<>> /\ global = <<>>
      /\ \A c \in Clients : sent[c] = <<>> /\ accepted[c] = <<>>
      /\ \A w \in Workers : hand[w] = <<>> /\ wpc[w] \in {"critical", "global"}
  BY Zenon DEF Init, FirstInjector
<1>2. Lined(global, hand, sent)
  BY <1>1, EmptyLeads DEF Lined
<1>3. Pending = {}
  BY <1>1 DEF Pending, Range
<1>4. Complete
  <2>1. \A c \in Clients, n \in 1..MaxMessages : ~(n <= Len(accepted[c]))
    BY <1>1, EmptyLen, DispatchAssumption
  <2> QED
    BY <2>1, Zenon DEF Complete
<1> QED
  BY <1>1, <1>2, <1>3, <1>4, InitOnce, Zenon DEF Serial, InLine, Counted

(* The message at the front of the line is run after all that were sent before it. *)
LEMMA FrontRuns ==
  ASSUME Inv, Serial, [Next]_vars, \A v, w \in Workers : v = w,
         NEW c \in Clients, NEW n \in 1..MaxMessages, runs'[c][n] > runs[c][n]
  PROVE  \A i \in 1..(n - 1) : runs[c][i] > 0 \/ <<c, i>> \in abandoned
<1>1. runs[c][n] \in Nat
  BY Zenon DEF Inv, RestOK
<1>2. PICK w \in Workers : Execute(w)
  <2>1. runs' = runs \/ \E w \in Workers : Execute(w)
    BY Zenon DEF Next, vars, ClientStep, WorkerStep, EnqueueNext, TrySendFull, PushTask, CancelCall, BeginCall,
           Take, TakeCritical, TakeHigh, TakeGlobal, TakeFrom, ReadState, Count, DropMail, CatchUnwind, Control,
           ControlPop, Controlled, Drain, Requeue, Ignore, NextOfBatch, Kill, SetActorState
  <2>2. runs' # runs
    BY <1>1
  <2> QED
    BY <2>1, <2>2, Zenon
<1>3. PICK m \in Message : m = Head(hand[w]) /\ m.from = c /\ m.seq = n
  <2>1. ~(runs[c][n] > runs[c][n])
    BY <1>1
  <2> QED
    BY <1>2, <2>1, RunAdds, Zenon
<1>4. 1 \in DOMAIN hand[w] /\ m = hand[w][1] /\ m \in Pending /\ hand[w] \in Seq(Message)
  BY <1>2, <1>3, AtHand, AtWork, Zenon DEF Execute
<1>5. n <= Len(accepted[c]) /\ Len(accepted[c]) \in Nat
  BY <1>3, <1>4, LenAccepted, Zenon DEF Serial, Once
<1>6. Complete
  BY <1>2, Zenon DEF Serial, Going, Execute
<1>7. ASSUME NEW i \in 1..(n - 1), NEW l \in Pending, l.from = c, l.seq = i
      PROVE  FALSE
  <2>1. i < n /\ ~(n < i) /\ ~(n < n) /\ i # n
    BY DispatchAssumption
  <2>2. ~Sooner(m, l) /\ l # m
    BY <1>3, <1>7, <2>1, Zenon DEF Sooner
  <2>3. l \in Held(<<>>, <<>>, global, hand, sent) /\ Lined(global, hand, sent)
    BY <1>7, PendingIsHeld, Zenon DEF Serial, InLine
  <2>4. ~InSeq(hand[w], l)
    <3>1. ASSUME NEW j \in DOMAIN hand[w], l = hand[w][j]
          PROVE  FALSE
      <4>1. j # 1 => 1 < j
        BY <1>4
      <4> QED
        BY <1>4, <2>2, <2>3, <3>1, <4>1, Zenon DEF Lined, Rising
    <3> QED
      BY <3>1, Zenon DEF InSeq
  <2>5. \A d \in Clients : ~InSeq(sent[d], l)
    BY <1>4, <2>2, <2>3 DEF Lined, Leads, InSeq
  <2>6. ~InQueue(global, l)
    BY <1>4, <2>2, <2>3 DEF Lined, Leads, InSeq, InQueue
  <2>7. ~InQueue(<<>>, l)
    BY DEF InQueue
  <2> QED
    BY <2>3, <2>4, <2>5, <2>6, <2>7, HeldWhere, Zenon
<1>8. ASSUME NEW i \in 1..(n - 1)
      PROVE  runs[c][i] > 0 \/ <<c, i>> \in abandoned
  <2>1. i \in 1..MaxMessages /\ i <= Len(accepted[c])
    BY <1>5, DispatchAssumption
  <2>2. runs[c][i] > 0 \/ <<c, i>> \in abandoned \/ \E l \in Pending : l.from = c /\ l.seq = i
    BY <1>6, <2>1, Zenon DEF Complete
  <2> QED
    BY <1>7, <2>2, Zenon
<1> QED
  BY <1>8, Zenon

(* One worker without priority scheduling runs the messages of each client in
   the order in which they were sent, for any number of clients and messages,
   whatever fails, panics, is killed or is dropped in the middle of a call, as
   long as no message accepted so far changes the state of the actor and
   set_actor_state has neither suspended nor revived it: calls push their tasks
   in the order in which they enqueued, the injector is first in first out, and
   a message is only dropped once the actor is down for good. *)
THEOREM SerialOrder ==
  ASSUME \A v, w \in Workers : v = w, ~PriorityScheduling, "Suspended" \notin SetStates
  PROVE  Spec => SerialInOrder
<1> DEFINE Ordered == AllCustom /\ ~forced => Serial
<1>1. Inv /\ HistoryOK /\ Ordered /\ [Next]_vars => Ordered'
  BY SerialStep, Zenon
<1>2. Inv /\ Ordered /\ [Next]_vars =>
        [(\A c \in Clients : TRUE \notin Range(accepted[c])) /\ ~forced => InOrder]_vars
  <2> SUFFICES ASSUME Inv, AllCustom /\ ~forced => Serial, [Next]_vars, AllCustom, ~forced,
                      NEW c \in Clients, NEW n \in 1..MaxMessages, runs'[c][n] > runs[c][n]
               PROVE  \A i \in 1..(n - 1) : runs[c][i] > 0 \/ <<c, i>> \in abandoned
    BY Zenon DEF AllCustom, InOrder
  <2> QED
    BY FrontRuns, Zenon
<1>3. Init => Ordered
  BY InitSerial, Zenon
<1> QED
  BY <1>1, <1>2, <1>3, InvHolds, HistoryHolds, PTL DEF Spec, SerialInOrder
=============================================================================
