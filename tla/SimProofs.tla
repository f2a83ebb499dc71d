------------------------------ MODULE SimProofs -----------------------------
(***************************************************************************)
(* The simulation's audits hold for every seed, whatever the numbers of    *)
(* actors and messages, the capacity and the faults: mailbox slots and the *)
(* ledger's queued are conserved (SlotsConserved), every message has its   *)
(* fate (Accounted), and an actor that was given up stays so               *)
(* (GivenUpForGood).                                                       *)
(*                                                                         *)
(* The steps that process a task preserve the invariant too; then the      *)
(* initial states and the theorems.                                        *)
(***************************************************************************)
EXTENDS SimDeliveryProofs

-----------------------------------------------------------------------------
(* Processing a task *)

(* ReadySet::pick: what is left in the ready set is lighter by the task that
   was chosen. *)
Picked(task, high, rest) ==
  /\ task.incarnation <= incarnation[task.ord]
  /\ KnownIncarnations(high) /\ KnownIncarnations(rest)
  /\ \A g \in [TaskType -> Nat] :
       Weight(g, priority) + Weight(g, ready) = Weight(g, high) + Weight(g, rest) + g[task]

(* ReadySet::pick takes one task out of the ready set and leaves the others. *)
LEMMA Chosen ==
  ASSUME Inv, Process
  PROVE  \E task \in TaskType, high \in Seq(TaskType), rest \in Seq(TaskType) :
           ProcessChosen(task, high, rest) /\ Picked(task, high, rest)
<1>1. /\ priority \in Seq(TaskType) /\ ready \in Seq(TaskType)
      /\ KnownIncarnations(priority) /\ KnownIncarnations(ready)
  BY Zenon DEF Inv, TypeOK
<1>2. CASE priority # <<>> /\ ProcessChosen(Head(priority), Tail(priority), ready)
  <2>1. /\ Head(priority) \in TaskType /\ Tail(priority) \in Seq(TaskType) /\ Head(priority) = priority[1]
        /\ 1 \in DOMAIN priority
        /\ \A i \in DOMAIN Tail(priority) : i+1 \in DOMAIN priority /\ Tail(priority)[i] = priority[i+1]
    BY <1>1, <1>2
  <2>2. Head(priority).incarnation <= incarnation[Head(priority).ord] /\ KnownIncarnations(Tail(priority))
    BY <1>1, <2>1, Zenon DEF KnownIncarnations
  <2>3. ASSUME NEW g \in [TaskType -> Nat]
        PROVE  Weight(g, priority) + Weight(g, ready) = Weight(g, Tail(priority)) + Weight(g, ready) + g[Head(priority)]
    <3>1. Weight(g, priority) = Weight(g, Tail(priority)) + g[Head(priority)]
      BY <1>1, <1>2, WeightTail, Zenon
    <3>2. Weight(g, Tail(priority)) \in Nat /\ Weight(g, ready) \in Nat /\ g[Head(priority)] \in Nat
      BY <1>1, <2>1, WeightNat, Zenon
    <3> QED
      BY <3>1, <3>2
  <2> QED
    BY <1>1, <1>2, <2>1, <2>2, <2>3, Zenon DEF Picked
<1>3. ASSUME priority = <<>>, NEW i \in DOMAIN ready, ProcessChosen(ready[i], <<>>, RemoveAt(ready, i))
      PROVE  \E task \in TaskType, high \in Seq(TaskType), rest \in Seq(TaskType) :
               ProcessChosen(task, high, rest) /\ Picked(task, high, rest)
  <2>1. ready[i] \in TaskType /\ <<>> \in Seq(TaskType)
    BY <1>1
  <2>2. /\ RemoveAt(ready, i) \in Seq(TaskType) /\ Len(RemoveAt(ready, i)) = Len(ready) - 1
        /\ \A j \in 1..Len(ready)-1 : RemoveAt(ready, i)[j] = ready[IF j < i THEN j ELSE j+1]
    BY <1>1, RemoveAtElements, Zenon
  <2>3. PICK r \in Seq(TaskType) : r = RemoveAt(ready, i)
    BY <2>2, Zenon
  <2>4. KnownIncarnations(r)
    <3> SUFFICES ASSUME NEW j \in DOMAIN r PROVE r[j].incarnation <= incarnation[r[j].ord]
      BY Zenon DEF KnownIncarnations
    <3> DEFINE l == IF j < i THEN j ELSE j+1
    <3>1. j \in 1..Len(ready)-1 /\ i \in 1..Len(ready) /\ Len(ready) \in Nat
      BY <1>1, <2>2, <2>3
    <3>2. l \in DOMAIN ready /\ r[j] = ready[l]
      BY <1>1, <2>2, <2>3, <3>1
    <3> HIDE DEF l
    <3> QED
      BY <1>1, <3>2, Zenon DEF KnownIncarnations
  <2>5. ready[i].incarnation <= incarnation[ready[i].ord] /\ KnownIncarnations(<<>>)
    BY <1>1 DEF KnownIncarnations
  <2>6. ASSUME NEW g \in [TaskType -> Nat]
        PROVE  Weight(g, priority) + Weight(g, ready) = Weight(g, <<>>) + Weight(g, r) + g[ready[i]]
    <3>1. Weight(g, ready) = Weight(g, r) + g[ready[i]]
      BY <1>1, <2>3, WeightLess, Zenon
    <3>2. Weight(g, r) \in Nat /\ Weight(g, <<>>) \in Nat /\ g[ready[i]] \in Nat
      BY <2>1, <2>3, WeightNat, Zenon
    <3>3. Weight(g, priority) = Weight(g, <<>>)
      BY <1>3, Zenon
    <3> QED
      BY <3>1, <3>2, <3>3
  <2> QED
    BY <1>3, <2>1, <2>3, <2>4, <2>5, <2>6, Zenon DEF Picked
<1> QED
  BY <1>2, <1>3, Zenon DEF Process

(* Elements that weigh nothing. *)
LEMMA WeightZero ==
  ASSUME NEW S, NEW g, NEW s \in Seq(S), \A i \in DOMAIN s : g[s[i]] = 0
  PROVE  Weight(g, s) = 0
<1> DEFINE w == [i \in DOMAIN s |-> g[s[i]]]
<1>1. UNION {{i} \X (1..w[i]) : i \in DOMAIN w} = {}
  <2>1. \A i \in DOMAIN w : 1..w[i] = {}
    OBVIOUS
  <2> QED
    BY <2>1
<1> QED
  BY <1>1, FS_EmptySet, Zenon DEF Weight, Total

(* queued is what the tasks left hold. *)
LEMMA QueuedLess ==
  ASSUME Inv, NEW task \in TaskType, NEW high \in Seq(TaskType), NEW rest \in Seq(TaskType),
         Picked(task, high, rest), queued' = AddTo(queued, task.ord, -Len(task.ids))
  PROVE  /\ queued' \in [Actors -> Nat]
         /\ \A o \in Actors : queued'[o] = Weight(ForActor(o), high) + Weight(ForActor(o), rest)
<1>1. task.ord \in Actors /\ Len(task.ids) \in Nat /\ queued \in [Actors -> Nat]
  <2>1. task.ord \in Actors /\ task.ids \in Seq(Identities)
    BY DEF TaskType
  <2>2. Len(task.ids) \in Nat
    BY <2>1
  <2>3. queued \in [Actors -> Nat]
    BY Zenon DEF Inv, TypeOK
  <2> QED
    BY <2>1, <2>2, <2>3, Zenon
<1>2. ASSUME NEW o \in Actors
      PROVE  /\ queued[o] = Weight(ForActor(o), high) + Weight(ForActor(o), rest)
                              + (IF o = task.ord THEN Len(task.ids) ELSE 0)
             /\ Weight(ForActor(o), high) \in Nat /\ Weight(ForActor(o), rest) \in Nat
  <2>1. ForActor(o) \in [TaskType -> Nat]
    BY WeightsOfTasks, Zenon
  <2>2. ForActor(o)[task] = IF o = task.ord THEN Len(task.ids) ELSE 0
    BY Zenon DEF ForActor
  <2>3. Weight(ForActor(o), high) \in Nat /\ Weight(ForActor(o), rest) \in Nat
    BY <2>1, WeightNat, Zenon
  <2>4. queued[o] = Weight(ForActor(o), priority) + Weight(ForActor(o), ready)
    BY Zenon DEF Inv, Slots
  <2>5. Weight(ForActor(o), priority) + Weight(ForActor(o), ready)
          = Weight(ForActor(o), high) + Weight(ForActor(o), rest) + ForActor(o)[task]
    BY <2>1, Zenon DEF Picked
  <2> QED
    BY <2>2, <2>3, <2>4, <2>5, Zenon
<1>3. -Len(task.ids) \in Int /\ queued[task.ord] + -Len(task.ids) \in Nat
  BY <1>1, <1>2
<1>4. /\ queued' \in [Actors -> Nat]
      /\ \A q \in Actors : queued'[q] = queued[q] + IF q = task.ord THEN -Len(task.ids) ELSE 0
  BY <1>1, <1>3, Added
<1>5. ASSUME NEW o \in Actors PROVE queued'[o] = Weight(ForActor(o), high) + Weight(ForActor(o), rest)
  <2>1. /\ queued[o] = Weight(ForActor(o), high) + Weight(ForActor(o), rest)
                         + (IF o = task.ord THEN Len(task.ids) ELSE 0)
        /\ Weight(ForActor(o), high) \in Nat /\ Weight(ForActor(o), rest) \in Nat
    BY <1>2, Zenon
  <2>2. CASE o = task.ord
    <3>1. queued'[o] = queued[o] + -Len(task.ids)
      BY <1>4, <2>2, Zenon
    <3> QED
      BY <1>1, <2>1, <2>2, <3>1
  <2>3. CASE o # task.ord
    <3>1. queued'[o] = queued[o] + 0
      BY <1>4, <2>3, Zenon
    <3> QED
      BY <2>1, <2>3, <3>1
  <2> QED
    BY <2>2, <2>3, Zenon
<1> QED
  BY <1>4, <1>5, Zenon

(* A message that the chosen task carries is on its way once more than in the
   tasks that are left. *)
LEMMA CopiesLess ==
  ASSUME NEW task \in TaskType, NEW high \in Seq(TaskType), NEW rest \in Seq(TaskType),
         Picked(task, high, rest), NEW m
  PROVE  /\ TaskCopies(m) = Weight(TaskWith(m), high) + Weight(TaskWith(m), rest)
                              + (IF m \in Range(task.ids) THEN 1 ELSE 0)
         /\ Weight(TaskWith(m), high) \in Nat /\ Weight(TaskWith(m), rest) \in Nat
<1>1. TaskWith(m) \in [TaskType -> Nat]
  BY WeightsOfTasks, Zenon
<1>2. TaskWith(m)[task] = IF m \in Range(task.ids) THEN 1 ELSE 0
  BY Zenon DEF TaskWith
<1>3. Weight(TaskWith(m), high) \in Nat /\ Weight(TaskWith(m), rest) \in Nat
  BY <1>1, WeightNat, Zenon
<1> QED
  BY <1>1, <1>2, <1>3, Zenon DEF Picked, TaskCopies

(* What holds slots of an actor among the tasks left. *)
LEMMA HeldLess ==
  ASSUME Inv, NEW task \in TaskType, NEW high \in Seq(TaskType), NEW rest \in Seq(TaskType),
         Picked(task, high, rest), NEW o \in Actors, alive[o]
  PROVE  /\ box[o] = Weight(OfCurrent(o, alive, incarnation), high) + Weight(OfCurrent(o, alive, incarnation), rest)
                       + (IF o = task.ord /\ Current(task) THEN Size(task) ELSE 0)
         /\ Weight(OfCurrent(o, alive, incarnation), high) \in Nat
         /\ Weight(OfCurrent(o, alive, incarnation), rest) \in Nat
         /\ Size(task) \in Nat
<1> DEFINE C == OfCurrent(o, alive, incarnation)
<1>1. C \in [TaskType -> Nat]
  BY WeightsOfTasks, Zenon
<1>2. C[task] = IF o = task.ord /\ Current(task) THEN Size(task) ELSE 0
  BY Zenon DEF OfCurrent, Current
<1>3. Size(task) \in Nat
  BY DEF Size, TaskType
<1>4. box[o] = Weight(C, priority) + Weight(C, ready)
  BY Zenon DEF Inv, Slots
<1> HIDE DEF C
<1>5. Weight(C, high) \in Nat /\ Weight(C, rest) \in Nat
  BY <1>1, WeightNat, Zenon
<1>6. Weight(C, priority) + Weight(C, ready) = Weight(C, high) + Weight(C, rest) + C[task]
  BY <1>1, Zenon DEF Picked
<1> QED
  BY <1>2, <1>3, <1>4, <1>5, <1>6, Zenon DEF C

(* A task that is not of the current incarnation holds no slot: it goes, and
   its messages are lost. *)
LEMMA DiscardStep ==
  ASSUME Inv, NEW task \in TaskType, NEW high \in Seq(TaskType), NEW rest \in Seq(TaskType),
         Picked(task, high, rest), Discard(task),
         queued' = AddTo(queued, task.ord, -Len(task.ids)), priority' = high, ready' = rest,
         pc = "process", pc' = pc, left' \in Nat, UNCHANGED <<delayed, blocked, next_mid, doubled>>
  PROVE  Inv'
<1>1. /\ ~Current(task) /\ mid_lost' = mid_lost \cup Range(task.ids)
      /\ UNCHANGED <<alive, incarnation, box, delivered, consumed, dropped, restarts, mid_times>>
  BY Zenon DEF Discard, MarkLost, world
<1>2. /\ queued' \in [Actors -> Nat]
      /\ \A o \in Actors : queued'[o] = Weight(ForActor(o), high) + Weight(ForActor(o), rest)
  BY QueuedLess, Zenon
<1>3. Range(task.ids) \subseteq Identities
  BY DEF TaskType, Range
<1>4. TypeOK'
  BY <1>1, <1>2, <1>3 DEF Inv, TypeOK
<1>5. ASSUME NEW o \in Actors PROVE Slots(o)'
  <2>1. ASSUME alive[o]
        PROVE  /\ box[o] = delivered[o] - consumed[o] - dropped[o]
               /\ box[o] = Weight(OfCurrent(o, alive, incarnation), high) + Weight(OfCurrent(o, alive, incarnation), rest)
    <3>1. box[o] = delivered[o] - consumed[o] - dropped[o]
      BY <2>1, Zenon DEF Inv, Slots
    <3>2. /\ box[o] = Weight(OfCurrent(o, alive, incarnation), high) + Weight(OfCurrent(o, alive, incarnation), rest) + 0
          /\ Weight(OfCurrent(o, alive, incarnation), high) \in Nat
          /\ Weight(OfCurrent(o, alive, incarnation), rest) \in Nat
      BY <1>1, <2>1, HeldLess, Zenon
    <3> QED
      BY <3>1, <3>2
  <2> QED
    BY <1>1, <1>2, <2>1, Zenon DEF Slots
<1>6. ASSUME NEW m \in Identities PROVE Fate(m)'
  <2> DEFINE b == IF m \in Range(task.ids) THEN 1 ELSE 0
             before == Weight(TaskWith(m), high) + Weight(TaskWith(m), rest) + Weight(SendWith(m), blocked)
  <2>1. /\ TaskCopies(m) = Weight(TaskWith(m), high) + Weight(TaskWith(m), rest) + b
        /\ Weight(TaskWith(m), high) \in Nat /\ Weight(TaskWith(m), rest) \in Nat
    BY CopiesLess, Zenon
  <2>2. Weight(SendWith(m), blocked) \in Nat /\ Weight(LaterWith(m), delayed) \in Nat
    BY MessageWeights, Zenon DEF Inv
  <2>3. TaskCopies(m)' + Weight(SendWith(m), blocked') = before /\ Weight(LaterWith(m), delayed') = Weight(LaterWith(m), delayed)
    BY Zenon DEF TaskCopies
  <2>4. Lost(m)' = IF b = 1 THEN 1 ELSE Lost(m)
    BY <1>1, Zenon DEF Lost
  <2>5. b \in {0, 1} /\ before \in Nat
    BY <2>1, <2>2
  <2> HIDE DEF b
  <2>6. TaskCopies(m) + Weight(SendWith(m), blocked) + Weight(LaterWith(m), delayed)
          = before + Weight(LaterWith(m), delayed') + b
    BY <2>1, <2>2, <2>3, <2>5
  <2> HIDE DEF before
  <2> QED
    BY <1>1, <1>4, <2>3, <2>4, <2>5, <2>6, MovedFate, Zenon
<1>7. KnownIncarnations(priority)' /\ KnownIncarnations(ready)'
  BY <1>1, Zenon DEF Picked, KnownIncarnations
<1> QED
  BY <1>1, <1>4, <1>5, <1>6, <1>7, Zenon DEF Inv

(* The greater of a number and 0. *)
LEMMA MaxWithZero ==
  ASSUME NEW a \in Nat
  PROVE  Max({a, 0}) = a
<1>1. \A x \in {a, 0} : (\A y \in {a, 0} : x >= y) => x = a
  OBVIOUS
<1>2. a \in {a, 0} /\ \A y \in {a, 0} : a >= y
  OBVIOUS
<1> QED
  BY <1>1, <1>2, Zenon DEF Max

(* The pipeline runs the task: its slots are freed and its messages are
   counted once more. *)
LEMMA SucceedStep ==
  ASSUME Inv, NEW task \in TaskType, NEW high \in Seq(TaskType), NEW rest \in Seq(TaskType),
         Picked(task, high, rest), Succeed(task),
         queued' = AddTo(queued, task.ord, -Len(task.ids)), priority' = high, ready' = rest,
         pc = "process", pc' = pc, left' \in Nat, UNCHANGED <<delayed, blocked, next_mid, doubled>>
  PROVE  Inv'
<1> DEFINE a == task.ord
           n == Size(task)
<1>1. /\ Current(task) /\ alive[a] /\ consumed' = AddTo(consumed, a, n)
      /\ box' = [box EXCEPT ![a] = Max({@ - n, 0})]
      /\ mid_times' = [m \in Identities |-> mid_times[m] + IF m \in Range(task.ids) THEN 1 ELSE 0]
      /\ UNCHANGED <<alive, incarnation, delivered, dropped, restarts, mid_lost>>
  BY Zenon DEF Succeed, FreeSlots, Current, Identities
<1>2. /\ queued' \in [Actors -> Nat]
      /\ \A o \in Actors : queued'[o] = Weight(ForActor(o), high) + Weight(ForActor(o), rest)
  BY QueuedLess, Zenon
<1>3. /\ a \in Actors /\ {box, consumed, delivered, dropped} \subseteq [Actors -> Nat]
      /\ mid_times \in [Identities -> Nat] /\ alive \in [Actors -> BOOLEAN]
  BY Zenon DEF TaskType, Inv, TypeOK
<1>4. n \in Nat /\ box[a] - n \in Nat
  <2> DEFINE h == Weight(OfCurrent(a, alive, incarnation), high)
             r == Weight(OfCurrent(a, alive, incarnation), rest)
  <2>1. /\ box[a] = h + r + (IF a = task.ord /\ Current(task) THEN n ELSE 0)
        /\ h \in Nat /\ r \in Nat /\ n \in Nat
    BY <1>1, <1>3, HeldLess, Zenon
  <2> HIDE DEF h, r, n
  <2> QED
    BY <1>1, <2>1
<1> HIDE DEF a, n
<1>5. box' \in [Actors -> Nat] /\ \A o \in Actors : box'[o] = IF o = a THEN box[o] - n ELSE box[o]
  <2>1. Max({box[a] - n, 0}) = box[a] - n
    BY <1>4, MaxWithZero, Zenon
  <2> QED
    BY <1>1, <1>3, <1>4, <2>1, Zenon
<1>6. consumed' \in [Actors -> Nat] /\ \A o \in Actors : consumed'[o] = consumed[o] + IF o = a THEN n ELSE 0
  <2>1. consumed \in [Actors -> Nat] /\ a \in Actors /\ n \in Int /\ consumed[a] + n \in Nat
    BY <1>3, <1>4
  <2>2. /\ AddTo(consumed, a, n) \in [Actors -> Nat]
        /\ \A o \in Actors : AddTo(consumed, a, n)[o] = consumed[o] + IF o = a THEN n ELSE 0
    BY <2>1, Added, Zenon
  <2> QED
    BY <1>1, <2>2, Zenon
<1>7. mid_times' \in [Identities -> Nat]
  BY <1>1, <1>3
<1>8. TypeOK'
  <2>1. \A f \in {incarnation', box', delivered', consumed', dropped', queued', restarts'} : f \in [Actors -> Nat]
    BY <1>1, <1>2, <1>5, <1>6, Zenon DEF Inv, TypeOK
  <2>2. pc' \in {"round", "inject", "due", "retry", "process"} /\ alive' \in [Actors -> BOOLEAN] /\ mid_lost' \subseteq Identities
    BY <1>1, Zenon DEF Inv, TypeOK
  <2>3. /\ blocked' \in Seq(PayloadType) /\ delayed' \in Seq(DelayedType)
        /\ next_mid' \in 0..Messages /\ doubled' \subseteq 1..next_mid'
    BY Zenon DEF Inv, TypeOK
  <2> QED
    BY <1>7, <2>1, <2>2, <2>3, Zenon DEF TypeOK
<1>9. ASSUME NEW o \in Actors PROVE Slots(o)'
  <2>1. ASSUME alive[o]
        PROVE  /\ box'[o] = delivered[o] - consumed'[o] - dropped[o]
               /\ box'[o] = Weight(OfCurrent(o, alive, incarnation), high) + Weight(OfCurrent(o, alive, incarnation), rest)
    <3>1. box[o] = delivered[o] - consumed[o] - dropped[o]
      BY <2>1, Zenon DEF Inv, Slots
    <3>2. /\ box[o] = Weight(OfCurrent(o, alive, incarnation), high) + Weight(OfCurrent(o, alive, incarnation), rest)
                       + (IF o = a THEN n ELSE 0)
          /\ Weight(OfCurrent(o, alive, incarnation), high) \in Nat
          /\ Weight(OfCurrent(o, alive, incarnation), rest) \in Nat
      BY <1>1, <2>1, HeldLess DEF a, n
    <3>3. {box[o], delivered[o], consumed[o], dropped[o]} \subseteq Nat
      BY <1>3, Zenon
    <3>4. box'[o] = box[o] - (IF o = a THEN n ELSE 0) /\ consumed'[o] = consumed[o] + (IF o = a THEN n ELSE 0)
      <4>1. CASE o = a
        BY <1>4, <1>5, <1>6, <3>3, <4>1, Zenon
      <4>2. CASE o # a
        BY <1>5, <1>6, <3>3, <4>2
      <4> QED
        BY <4>1, <4>2, Zenon
    <3>5. CASE o = a
      <4> DEFINE wh == Weight(OfCurrent(o, alive, incarnation), high)
                 wr == Weight(OfCurrent(o, alive, incarnation), rest)
      <4>1. box'[o] = box[o] - n /\ consumed'[o] = consumed[o] + n
        BY <3>4, <3>5, Zenon
      <4>2. box[o] = wh + wr + n /\ wh \in Nat /\ wr \in Nat
        BY <3>2, <3>5, Zenon
      <4> HIDE DEF wh, wr
      <4>3. box'[o] = delivered[o] - consumed'[o] - dropped[o]
        BY <1>4, <3>1, <3>3, <4>1
      <4>4. box'[o] = wh + wr
        BY <1>4, <4>1, <4>2
      <4> QED
        BY <4>3, <4>4, Zenon DEF wh, wr
    <3>6. CASE o # a
      BY <3>1, <3>2, <3>3, <3>4, <3>6
    <3> QED
      BY <3>5, <3>6, Zenon
  <2> QED
    BY <1>1, <1>2, <2>1, Zenon DEF Slots
<1>10. ASSUME NEW m \in Identities PROVE Fate(m)'
  <2> DEFINE b == IF m \in Range(task.ids) THEN 1 ELSE 0
  <2>1. /\ TaskCopies(m) = Weight(TaskWith(m), high) + Weight(TaskWith(m), rest) + b
        /\ Weight(TaskWith(m), high) \in Nat /\ Weight(TaskWith(m), rest) \in Nat
    BY CopiesLess, Zenon
  <2>2. /\ Weight(SendWith(m), blocked) \in Nat /\ Weight(LaterWith(m), delayed) \in Nat
        /\ mid_times[m] \in Nat /\ Lost(m) \in {0, 1}
    BY MessageWeights, Zenon DEF Inv
  <2>3. TaskCopies(m)' = Weight(TaskWith(m), high) + Weight(TaskWith(m), rest)
    BY Zenon DEF TaskCopies
  <2>4. mid_times'[m] = mid_times[m] + b /\ Lost(m)' = Lost(m) /\ b \in Nat
    BY <1>1, Zenon DEF Lost
  <2>5. Weight(SendWith(m), blocked') = Weight(SendWith(m), blocked) /\ Weight(LaterWith(m), delayed') = Weight(LaterWith(m), delayed)
    BY Zenon
  <2> HIDE DEF b
  <2>6. KnownFates(m)' = KnownFates(m)
    BY <2>1, <2>2, <2>3, <2>4, <2>5 DEF KnownFates
  <2> QED
    BY <2>6, Zenon DEF Inv, Fate
<1>11. KnownIncarnations(priority)' /\ KnownIncarnations(ready)'
  BY <1>1, Zenon DEF Picked, KnownIncarnations
<1> QED
  BY <1>1, <1>8, <1>9, <1>10, <1>11, Zenon DEF Inv

(* The first message of the task panics.  What the mailbox held is dropped;
   an actor that is restarted has a new incarnation, of which there is one
   task, the Start, and no task is left of one that is given up. *)
LEMMA CrashStep ==
  ASSUME Inv, NEW task \in TaskType, NEW high \in Seq(TaskType), NEW rest \in Seq(TaskType),
         Picked(task, high, rest), Crash(task, rest),
         queued' = AddTo(queued, task.ord, -Len(task.ids)), priority' = high,
         pc = "process", pc' = pc, left' \in Nat, UNCHANGED <<delayed, blocked, next_mid, doubled>>
  PROVE  Inv'
<1> DEFINE a == task.ord
           again == RestartAllowed(a)
           start == Start(a, incarnation[a] + 1)
<1>1. /\ Current(task) /\ alive[a]
      /\ dropped' = AddTo(dropped, a, Destroyed(a))
      /\ mid_lost' = mid_lost \cup {m \in Range(task.ids) : mid_times[m] = 0}
      /\ alive' = [alive EXCEPT ![a] = again]
      /\ again => /\ restarts' = AddTo(restarts, a, 1) /\ incarnation' = AddTo(incarnation, a, 1)
                  /\ box' = [box EXCEPT ![a] = 1] /\ delivered' = AddTo(delivered, a, 1)
                  /\ ready' = Append(rest, start)
      /\ ~again => /\ box' = [box EXCEPT ![a] = 0] /\ ready' = rest
                   /\ UNCHANGED <<restarts, incarnation, delivered>>
      /\ UNCHANGED <<consumed, mid_times>>
  BY Zenon DEF Crash, Current, MarkLost
<1>2. /\ queued' \in [Actors -> Nat]
      /\ \A o \in Actors : queued'[o] = Weight(ForActor(o), high) + Weight(ForActor(o), rest)
  BY QueuedLess, Zenon
<1>3. /\ a \in Actors /\ Range(task.ids) \subseteq Identities
      /\ box \in [Actors -> Nat] /\ consumed \in [Actors -> Nat] /\ delivered \in [Actors -> Nat]
      /\ dropped \in [Actors -> Nat] /\ incarnation \in [Actors -> Nat] /\ restarts \in [Actors -> Nat]
      /\ alive \in [Actors -> BOOLEAN] /\ mid_times \in [Identities -> Nat] /\ MaxRestarts \in Nat
  <2>1. a \in Actors /\ Range(task.ids) \subseteq Identities
    BY DEF TaskType, Range
  <2>2. /\ box \in [Actors -> Nat] /\ consumed \in [Actors -> Nat] /\ delivered \in [Actors -> Nat]
        /\ dropped \in [Actors -> Nat] /\ incarnation \in [Actors -> Nat] /\ restarts \in [Actors -> Nat]
        /\ alive \in [Actors -> BOOLEAN] /\ mid_times \in [Identities -> Nat]
    BY Zenon DEF Inv, TypeOK
  <2> QED
    BY <2>1, <2>2, SimAssumption, Zenon
<1>4. again \in BOOLEAN
  BY Zenon DEF RestartAllowed
<1>5. start \in TaskType /\ start.ord = a /\ start.incarnation = incarnation[a] + 1 /\ start.ids = <<>>
  BY <1>3 DEF Start, Task, TaskType
<1>6. \A o \in Actors : dropped'[o] = IF o = a THEN delivered[o] - consumed[o] ELSE dropped[o]
  <2>1. Destroyed(a) = delivered[a] - consumed[a] - dropped[a]
    BY Zenon DEF Destroyed
  <2>2. dropped[a] + (delivered[a] - consumed[a] - dropped[a]) = delivered[a] - consumed[a]
    BY <1>3
  <2> QED
    BY <1>1, <1>3, <2>1, <2>2, Zenon DEF AddTo
<1>7. dropped' \in [Actors -> Nat]
  <2>1. box[a] = Destroyed(a) /\ box[a] \in Nat
    BY <1>1, <1>3, Zenon DEF Inv, Slots, Destroyed
  <2>2. dropped[a] + Destroyed(a) \in Nat /\ Destroyed(a) \in Int
    BY <1>3, <2>1
  <2> QED
    BY <1>1, <1>3, <2>2, Added, Zenon
<1> HIDE DEF a, again, start
<1>8. /\ restarts' \in [Actors -> Nat] /\ incarnation' \in [Actors -> Nat] /\ box' \in [Actors -> Nat]
      /\ delivered' \in [Actors -> Nat] /\ alive' \in [Actors -> BOOLEAN] /\ ready' \in Seq(TaskType)
      /\ \A o \in Actors : /\ restarts'[o] = restarts[o] + (IF o = a /\ again THEN 1 ELSE 0)
                           /\ incarnation'[o] = incarnation[o] + (IF o = a /\ again THEN 1 ELSE 0)
  <2>1. CASE again
    <3>1. ASSUME NEW f \in [Actors -> Nat]
          PROVE  /\ AddTo(f, a, 1) \in [Actors -> Nat]
                 /\ \A o \in Actors : AddTo(f, a, 1)[o] = f[o] + IF o = a THEN 1 ELSE 0
      <4>1. a \in Actors /\ f[a] + 1 \in Nat
        BY <1>3
      <4> QED
        BY <4>1 DEF AddTo
    <3>2. restarts' \in [Actors -> Nat] /\ \A o \in Actors : restarts'[o] = restarts[o] + (IF o = a THEN 1 ELSE 0)
      BY <1>1, <1>3, <2>1, <3>1, Zenon
    <3>3. incarnation' \in [Actors -> Nat] /\ \A o \in Actors : incarnation'[o] = incarnation[o] + (IF o = a THEN 1 ELSE 0)
      BY <1>1, <1>3, <2>1, <3>1, Zenon
    <3>4. delivered' \in [Actors -> Nat] /\ box' \in [Actors -> Nat]
      <4>1. delivered' = AddTo(delivered, a, 1) /\ box' = [box EXCEPT ![a] = 1]
        BY <1>1, <2>1, Zenon
      <4>2. box' \in [Actors -> Nat]
        BY <1>3, <4>1, Zenon
      <4> QED
        BY <1>3, <3>1, <4>1, <4>2, Zenon
    <3>5. alive' \in [Actors -> BOOLEAN] /\ ready' \in Seq(TaskType)
      <4>1. ready' = Append(rest, start) /\ alive' = [alive EXCEPT ![a] = again]
        BY <1>1, <2>1, Zenon
      <4> QED
        BY <1>3, <1>4, <1>5, <4>1
    <3> QED
      BY <2>1, <3>2, <3>3, <3>4, <3>5, Zenon
  <2>2. CASE ~again
    <3>1. /\ UNCHANGED <<restarts, incarnation, delivered>> /\ box' = [box EXCEPT ![a] = 0]
          /\ ready' = rest /\ alive' \in [Actors -> BOOLEAN]
      BY <1>1, <1>3, <1>4, <2>2, Zenon
    <3> QED
      BY <1>3, <2>2, <3>1
  <2> QED
    BY <1>4, <2>1, <2>2, Zenon
<1>9. TypeOK'
  <2>1. \A f \in {incarnation', box', delivered', consumed', dropped', queued', restarts'} : f \in [Actors -> Nat]
    BY <1>1, <1>2, <1>3, <1>7, <1>8, Zenon
  <2>2. /\ pc' \in {"round", "inject", "due", "retry", "process"} /\ mid_lost' \subseteq Identities
        /\ mid_times' \in [Identities -> Nat]
    BY <1>1, <1>3, Zenon DEF Inv, TypeOK
  <2>3. /\ blocked' \in Seq(PayloadType) /\ delayed' \in Seq(DelayedType)
        /\ next_mid' \in 0..Messages /\ doubled' \subseteq 1..next_mid'
    BY Zenon DEF Inv, TypeOK
  <2> QED
    BY <1>8, <2>1, <2>2, <2>3, Zenon DEF TypeOK
<1>10. ASSUME NEW g \in [TaskType -> Nat]
       PROVE  /\ Weight(g, rest) \in Nat /\ Weight(g, high) \in Nat
              /\ Weight(g, ready') = Weight(g, rest) + (IF again THEN g[start] ELSE 0)
  <2>1. Weight(g, rest) \in Nat /\ Weight(g, high) \in Nat
    BY WeightNat, Zenon
  <2>2. CASE again
    <3>1. Weight(g, Append(rest, start)) = Weight(g, rest) + g[start]
      BY <1>5, WeightMore, Zenon
    <3> QED
      BY <1>1, <2>1, <2>2, <3>1, Zenon
  <2>3. CASE ~again
    BY <1>1, <2>1, <2>3
  <2> QED
    BY <1>4, <2>1, <2>2, <2>3, Zenon
<1>11. ASSUME NEW o \in Actors PROVE Slots(o)'
  <2>1. queued'[o] = Weight(ForActor(o), high) + Weight(ForActor(o), ready')
    <3>1. ForActor(o) \in [TaskType -> Nat] /\ ForActor(o)[start] = 0
      BY <1>5, WeightsOfTasks, Zenon DEF ForActor
    <3> QED
      BY <1>2, <1>10, <3>1
  <2>2. CASE alive'[o] /\ o # a
    <3> DEFINE C == OfCurrent(o, alive, incarnation)
    <3>1. /\ alive[o] /\ box'[o] = box[o] /\ delivered'[o] = delivered[o] /\ dropped'[o] = dropped[o]
          /\ incarnation'[o] = incarnation[o] /\ alive'[o] = alive[o]
      BY <1>1, <1>3, <1>4, <1>6, <2>2, Zenon DEF AddTo
    <3>2. OfCurrent(o, alive', incarnation') = C
      BY <3>1, Zenon DEF OfCurrent
    <3>3. C \in [TaskType -> Nat] /\ C[start] = 0
      <4>1. C \in [TaskType -> Nat]
        BY WeightsOfTasks, Zenon
      <4>2. start \in TaskType /\ start.ord # o
        BY <1>5, <2>2, Zenon
      <4> QED
        BY <4>1, <4>2, Zenon DEF OfCurrent
    <3>4. box[o] = Weight(C, high) + Weight(C, rest) + 0
      BY <2>2, <3>1, HeldLess, Zenon DEF a
    <3>5. box[o] = delivered[o] - consumed[o] - dropped[o]
      BY <3>1, Zenon DEF Inv, Slots
    <3> HIDE DEF C
    <3>6. box[o] = Weight(C, high) + Weight(C, ready')
      <4>1. /\ Weight(C, rest) \in Nat /\ Weight(C, high) \in Nat
            /\ Weight(C, ready') = Weight(C, rest) + (IF again THEN C[start] ELSE 0)
        BY <1>10, <3>3, Zenon
      <4> QED
        BY <3>3, <3>4, <4>1
    <3> QED
      BY <1>1, <2>1, <3>1, <3>2, <3>5, <3>6, Zenon DEF Slots
  <2>3. CASE alive'[o] /\ o = a
    <3> DEFINE C == OfCurrent(o, alive', incarnation')
    <3>1. again
      BY <1>1, <1>3, <2>3, Zenon
    <3>2. box'[o] = 1 /\ delivered'[o] = delivered[o] + 1 /\ incarnation'[o] = incarnation[o] + 1
      BY <1>1, <1>3, <2>3, <3>1, Zenon DEF AddTo
    <3>3. dropped'[o] = delivered[o] - consumed[o]
      BY <1>6, <2>3, Zenon
    <3>4. box'[o] = delivered'[o] - consumed'[o] - dropped'[o]
      BY <1>1, <1>3, <3>2, <3>3
    <3>5. C \in [TaskType -> Nat] /\ C[start] = 1
      <4>1. Size(start) = 1
        BY <1>5, Zenon DEF Size
      <4>2. start.ord = o /\ alive'[start.ord] /\ start.incarnation = incarnation'[start.ord] /\ start \in TaskType
        BY <1>5, <2>3, <3>2, Zenon
      <4>3. C[start] = Size(start)
        BY <4>2, Zenon DEF OfCurrent
      <4> QED
        BY <4>1, <4>3, WeightsOfTasks, Zenon
    <3>6. ASSUME NEW s \in Seq(TaskType), KnownIncarnations(s) PROVE Weight(C, s) = 0
      <4>1. \A i \in DOMAIN s : C[s[i]] = 0
        <5> SUFFICES ASSUME NEW i \in DOMAIN s PROVE C[s[i]] = 0
          BY Zenon
        <5>1. s[i] \in TaskType
          OBVIOUS
        <5>2. s[i].ord = o => s[i].incarnation # incarnation'[o]
          <6>1. s[i].incarnation \in Nat /\ incarnation[o] \in Nat
            BY <1>3, <5>1, Zenon DEF TaskType
          <6>2. s[i].incarnation <= incarnation[s[i].ord]
            BY <3>6, Zenon DEF KnownIncarnations
          <6> QED
            BY <3>2, <6>1, <6>2
        <5> QED
          BY <5>1, <5>2, Zenon DEF OfCurrent
      <4> HIDE DEF C
      <4> QED
        BY <4>1, WeightZero, Zenon
    <3>7. Weight(C, high) = 0 /\ Weight(C, rest) = 0
      BY <3>6, Zenon DEF Picked
    <3> HIDE DEF C
    <3>8. box'[o] = Weight(C, high) + Weight(C, ready')
      BY <1>10, <3>1, <3>2, <3>5, <3>7
    <3> QED
      BY <2>1, <3>4, <3>8, Zenon DEF Slots, C
  <2>4. CASE ~alive'[o]
    BY <2>1, <2>4, Zenon DEF Slots
  <2> QED
    BY <2>2, <2>3, <2>4, Zenon
<1>12. ASSUME NEW m \in Identities PROVE Fate(m)'
  <2> DEFINE b == IF m \in Range(task.ids) THEN 1 ELSE 0
             before == Weight(TaskWith(m), high) + Weight(TaskWith(m), rest) + Weight(SendWith(m), blocked)
  <2>1. /\ TaskCopies(m) = Weight(TaskWith(m), high) + Weight(TaskWith(m), rest) + b
        /\ Weight(TaskWith(m), high) \in Nat /\ Weight(TaskWith(m), rest) \in Nat
    BY CopiesLess, Zenon
  <2>2. /\ Weight(SendWith(m), blocked) \in Nat /\ Weight(LaterWith(m), delayed) \in Nat
        /\ mid_times[m] \in Nat /\ Lost(m) \in {0, 1}
    BY MessageWeights, Zenon DEF Inv
  <2>3. TaskWith(m) \in [TaskType -> Nat] /\ TaskWith(m)[start] = 0
    <3>1. Range(start.ids) = {}
      BY <1>5 DEF Range
    <3> QED
      BY <1>5, <3>1, WeightsOfTasks, Zenon DEF TaskWith
  <2>4. TaskCopies(m)' = Weight(TaskWith(m), high) + Weight(TaskWith(m), rest)
    <3>1. Weight(TaskWith(m), ready') = Weight(TaskWith(m), rest)
      <4>1. /\ Weight(TaskWith(m), rest) \in Nat
            /\ Weight(TaskWith(m), ready') = Weight(TaskWith(m), rest) + (IF again THEN TaskWith(m)[start] ELSE 0)
        BY <1>10, <2>3, Zenon
      <4> QED
        BY <2>3, <4>1
    <3> QED
      BY <3>1, Zenon DEF TaskCopies
  <2>5. TaskCopies(m)' + Weight(SendWith(m), blocked') = before /\ Weight(LaterWith(m), delayed') = Weight(LaterWith(m), delayed)
    BY <2>4, Zenon
  <2>6. b \in {0, 1} /\ before \in Nat
    BY <2>1, <2>2
  <2>7. Lost(m)' = IF b = 1 /\ mid_times[m] = 0 THEN 1 ELSE Lost(m)
    BY <1>1, Zenon DEF Lost
  <2> HIDE DEF b
  <2>8. TaskCopies(m) + Weight(SendWith(m), blocked) + Weight(LaterWith(m), delayed)
          = before + Weight(LaterWith(m), delayed') + b
    BY <2>1, <2>2, <2>5, <2>6
  <2> HIDE DEF before
  <2>9. CASE b = 0 \/ mid_times[m] = 0
    <3>1. Lost(m)' = IF b = 1 THEN 1 ELSE Lost(m)
      BY <2>7, <2>9
    <3> QED
      BY <1>1, <1>9, <2>5, <2>6, <2>8, <3>1, MovedFate, Zenon
  <2>10. CASE b = 1 /\ mid_times[m] # 0
    <3>1. Lost(m)' = Lost(m) /\ mid_times'[m] = mid_times[m]
      BY <1>1, <2>7, <2>10, Zenon
    <3>2. /\ KnownFates(m) = mid_times[m] + (before + Weight(LaterWith(m), delayed) + 1) + Lost(m)
          /\ KnownFates(m)' = mid_times[m] + before + Weight(LaterWith(m), delayed) + Lost(m)
      <4>1. TaskCopies(m) \in Nat /\ TaskCopies(m)' \in Nat /\ Weight(SendWith(m), blocked') \in Nat
        BY <1>9, MessageWeights, MessageWeightsAfter, Zenon DEF Inv
      <4>2. KnownFates(m) = mid_times[m] + (TaskCopies(m) + Weight(SendWith(m), blocked) + Weight(LaterWith(m), delayed)) + Lost(m)
        BY <2>2, <4>1 DEF KnownFates
      <4>3. KnownFates(m)' = mid_times[m] + (TaskCopies(m)' + Weight(SendWith(m), blocked')) + Weight(LaterWith(m), delayed) + Lost(m)
        BY <2>2, <2>5, <3>1, <4>1 DEF KnownFates
      <4> QED
        BY <2>5, <2>8, <2>10, <4>2, <4>3, Zenon
    <3>3. KnownFates(m) >= 2 /\ KnownFates(m)' >= 1 /\ KnownFates(m) \in Nat
      <4>1. mid_times[m] >= 1
        BY <2>2, <2>10
      <4>2. mid_times[m] \in Nat /\ before \in Nat /\ Weight(LaterWith(m), delayed) \in Nat /\ Lost(m) \in Nat
        BY <2>2, <2>6
      <4> QED
        BY <3>2, <4>1, <4>2
    <3>4. Fate(m)
      BY Zenon DEF Inv
    <3> QED
      BY <3>3, <3>4 DEF Fate
  <2> QED
    BY <2>6, <2>9, <2>10, Zenon
<1>13. \A o \in Actors : incarnation[o] <= incarnation'[o]
  <2> SUFFICES ASSUME NEW o \in Actors PROVE incarnation[o] <= incarnation'[o]
    BY Zenon
  <2>1. incarnation[o] \in Nat /\ incarnation'[o] \in {incarnation[o], incarnation[o] + 1}
    BY <1>3, <1>8
  <2> QED
    BY <2>1
<1>14. ASSUME NEW s \in Seq(TaskType), KnownIncarnations(s), NEW i \in DOMAIN s
       PROVE  s[i].incarnation <= incarnation'[s[i].ord]
  <2>1. s[i].incarnation \in Nat /\ s[i].ord \in Actors /\ s[i].incarnation <= incarnation[s[i].ord]
    <3>1. s[i] \in TaskType
      BY <1>14
    <3> QED
      BY <1>14, <3>1, Zenon DEF TaskType, KnownIncarnations
  <2>2. {incarnation[s[i].ord], incarnation'[s[i].ord]} \subseteq Nat
    BY <1>3, <1>8, <2>1
  <2> QED
    BY <1>13, <2>1, <2>2
<1>15. KnownIncarnations(priority)'
  BY <1>14, Zenon DEF Picked, KnownIncarnations
<1>16. KnownIncarnations(ready)'
  <2>1. CASE again
    <3>1. start.incarnation <= incarnation'[start.ord]
      BY <1>1, <1>3, <1>5, <2>1 DEF AddTo
    <3>2. ASSUME NEW i \in DOMAIN Append(rest, start)
          PROVE  Append(rest, start)[i].incarnation <= incarnation'[Append(rest, start)[i].ord]
      <4>1. CASE i \in DOMAIN rest
        <5>1. Append(rest, start)[i] = rest[i]
          BY <4>1
        <5> QED
          BY <1>14, <4>1, <5>1, Zenon DEF Picked
      <4>2. CASE i \notin DOMAIN rest
        <5>1. Append(rest, start)[i] = start
          BY <4>2, <1>5
        <5> QED
          BY <3>1, <5>1, Zenon
      <4> QED
        BY <4>1, <4>2, Zenon
    <3> QED
      BY <1>1, <2>1, <3>2, Zenon DEF KnownIncarnations
  <2>2. CASE ~again
    BY <1>1, <1>14, <2>2, Zenon DEF Picked, KnownIncarnations
  <2> QED
    BY <1>4, <2>1, <2>2, Zenon
<1>17. MaxRestarts > 0 => \A o \in Actors : restarts'[o] <= MaxRestarts
  <2>1. CASE again /\ MaxRestarts > 0
    <3>1. restarts[a] < MaxRestarts
      BY <1>3, <2>1 DEF again, RestartAllowed
    <3> QED
      <4> SUFFICES ASSUME NEW o \in Actors PROVE restarts'[o] <= MaxRestarts
        BY Zenon
      <4>1. restarts[o] \in Nat /\ restarts[o] <= MaxRestarts
        BY <1>3, <2>1, Zenon DEF Inv
      <4>2. CASE o = a
        <5>1. restarts'[o] = restarts[o] + 1
          BY <1>8, <2>1, <4>2, Zenon
        <5> QED
          BY <1>3, <3>1, <4>1, <4>2, <5>1
      <4>3. CASE o # a
        <5>1. restarts'[o] = restarts[o] + 0
          BY <1>8, <4>3, Zenon
        <5> QED
          BY <1>3, <4>1, <5>1
      <4> QED
        BY <4>2, <4>3, Zenon
  <2>2. CASE ~again /\ MaxRestarts > 0
    BY <1>1, <2>2, Zenon DEF Inv
  <2> QED
    BY <1>4, <2>1, <2>2, Zenon
<1> QED
  BY <1>9, <1>11, <1>12, <1>15, <1>16, <1>17, Zenon DEF Inv

(* A task is chosen and processed. *)
LEMMA ProcessStep ==
  ASSUME Inv, Process
  PROVE  Inv'
<1>1. pc = "process" /\ pc' = pc /\ left' \in Nat
  BY DEF Process, Inv, TypeOK
<1>2. PICK task \in TaskType, high \in Seq(TaskType), rest \in Seq(TaskType) :
        ProcessChosen(task, high, rest) /\ Picked(task, high, rest)
  BY Chosen, Zenon
<1>3. /\ queued' = AddTo(queued, task.ord, -Len(task.ids)) /\ priority' = high
      /\ UNCHANGED <<delayed, blocked, next_mid, doubled>>
  BY <1>2, Zenon DEF ProcessChosen
<1>4. CASE Discard(task) /\ ready' = rest
  BY <1>1, <1>2, <1>3, <1>4, DiscardStep, Zenon
<1>5. CASE Succeed(task) /\ ready' = rest
  BY <1>1, <1>2, <1>3, <1>5, SucceedStep, Zenon
<1>6. CASE Crash(task, rest)
  BY <1>1, <1>2, <1>3, <1>6, CrashStep, Zenon
<1> QED
  BY <1>2, <1>4, <1>5, <1>6, Zenon DEF ProcessChosen

(* Every step, and every stutter, preserves the invariant. *)
LEMMA InvStep ==
  ASSUME Inv, [Next]_vars
  PROVE  Inv'
<1>1. CASE Next
  BY <1>1, BeginRoundStep, InjectOneStep, DeliverDueStep, RetryBlockedStep, ProcessStep, EndPhaseStep, Zenon DEF Next
<1>2. CASE UNCHANGED vars
  BY <1>2, Zenon DEF Inv, TypeOK, Slots, Fate, KnownFates, TaskCopies, Lost, KnownIncarnations,
              vars, world, ledger, mids
<1> QED
  BY <1>1, <1>2, Zenon

-----------------------------------------------------------------------------
(* The initial state *)

(* The actors in some order: each one has one place in it. *)
LEMMA ActorsInOrder ==
  /\ Cardinality(Actors) \in Nat
  /\ SetToSeq(Actors) \in [1..Cardinality(Actors) -> Actors]
  /\ \A i, j \in 1..Cardinality(Actors) : SetToSeq(Actors)[i] = SetToSeq(Actors)[j] => i = j
  /\ \A o \in Actors : \E i \in 1..Cardinality(Actors) : SetToSeq(Actors)[i] = o
<1> DEFINE n == Cardinality(Actors)
           f == SetToSeq(Actors)
<1>1. n \in Nat /\ ExistsBijection(1..n, Actors) /\ IsFiniteSet(Actors)
  BY SimAssumption, FS_CardinalityType, Zenon
<1>2. \E g \in [1..n -> Actors] : IsInjective(g)
  BY <1>1, Zenon DEF ExistsBijection, Bijection, Injection
<1>3. f \in [1..n -> Actors] /\ IsInjective(f)
  BY <1>2, Zenon DEF SetToSeq
<1> HIDE DEF f
<1>4. f \in Injection(1..n, Actors)
  BY <1>3, Zenon DEF Injection
<1>5. Cardinality(1..n) = n
  <2>1. IsFiniteSet(1..n) /\ Cardinality(1..n) = n
    BY <1>1, FS_Interval
  <2> QED
    BY <2>1, Zenon
<1>6. f \in Surjection(1..n, Actors)
  BY <1>1, <1>4, <1>5, FS_Injection, Zenon
<1> QED
  BY <1>1, <1>3, <1>6, Zenon DEF f, IsInjective, Surjection

(* Every actor has its Start in the ready set, and nothing is sent yet. *)
LEMMA InvInit ==
  ASSUME Init
  PROVE  Inv
<1> DEFINE n == Cardinality(Actors)
           f == SetToSeq(Actors)
<1>1. /\ n \in Nat /\ f \in [1..n -> Actors]
      /\ \A i, j \in 1..n : f[i] = f[j] => i = j
      /\ \A o \in Actors : \E i \in 1..n : f[i] = o
  BY ActorsInOrder, Zenon
<1>2. /\ pc = "round" /\ left = 0
      /\ alive = [o \in Actors |-> TRUE] /\ incarnation = [o \in Actors |-> 0]
      /\ box = [o \in Actors |-> 1] /\ delivered = [o \in Actors |-> 1]
      /\ consumed = [o \in Actors |-> 0] /\ dropped = [o \in Actors |-> 0]
      /\ queued = [o \in Actors |-> 0] /\ restarts = [o \in Actors |-> 0]
      /\ priority = <<>> /\ ready = [i \in 1..n |-> Start(f[i], 0)]
      /\ delayed = <<>> /\ blocked = <<>>
      /\ next_mid = 0 /\ mid_lost = {} /\ doubled = {}
      /\ mid_times = [m \in Identities |-> 0]
  BY Zenon DEF Init, Identities
<1> HIDE DEF n, f
<1>3. ASSUME NEW o \in Actors
      PROVE  Start(o, 0) \in TaskType /\ Start(o, 0).ord = o /\ Start(o, 0).incarnation = 0 /\ Start(o, 0).ids = <<>>
  BY DEF Start, Task, TaskType
<1>4. /\ ready \in Seq(TaskType) /\ DOMAIN ready = 1..n
      /\ \A i \in 1..n : /\ f[i] \in Actors /\ ready[i] \in TaskType /\ ready[i].ord = f[i]
                         /\ ready[i].incarnation = 0 /\ ready[i].ids = <<>>
  <2>1. \A i \in 1..n : f[i] \in Actors /\ ready[i] = Start(f[i], 0)
    BY <1>1, <1>2, Zenon
  <2>2. \A i \in 1..n : Start(f[i], 0) \in TaskType
    BY <1>3, <2>1, Zenon
  <2>3. ready \in [1..n -> TaskType]
    BY <1>2, <2>2, Zenon
  <2>4. ready \in Seq(TaskType) /\ DOMAIN ready = 1..n
    BY <1>1, <2>3
  <2> QED
    BY <1>3, <2>1, <2>4
<1>5. TypeOK
  <2>1. \A g \in {incarnation, box, delivered, consumed, dropped, queued, restarts} : g \in [Actors -> Nat]
    BY <1>2
  <2>2. /\ priority \in Seq(TaskType) /\ blocked \in Seq(PayloadType) /\ delayed \in Seq(DelayedType)
    BY <1>2
  <2>3. next_mid \in 0..Messages /\ doubled \subseteq 1..next_mid
    BY <1>2, SimAssumption
  <2>4. pc \in {"round", "inject", "due", "retry", "process"} /\ left \in Nat
    BY <1>2, Zenon
  <2>5. alive \in [Actors -> BOOLEAN] /\ mid_times \in [Identities -> Nat] /\ mid_lost \subseteq Identities
    BY <1>2, Zenon
  <2> QED
    BY <1>4, <2>1, <2>2, <2>3, <2>4, <2>5, Zenon DEF TypeOK
<1>6. ASSUME NEW S, NEW g, NEW s \in Seq(S), s = <<>> PROVE Weight(g, s) = 0
  <2>1. \A i \in DOMAIN s : g[s[i]] = 0
    BY <1>6
  <2> QED
    BY <2>1, WeightZero, Zenon
<1>7. ASSUME NEW g \in [TaskType -> Nat] PROVE Weight(g, priority) = 0
  BY <1>2, <1>5, <1>6, Zenon DEF TypeOK
<1>8. ASSUME NEW o \in Actors PROVE Slots(o)
  <2> DEFINE C == OfCurrent(o, alive, incarnation)
  <2>1. C \in [TaskType -> Nat] /\ ForActor(o) \in [TaskType -> Nat]
    BY WeightsOfTasks, Zenon
  <2>2. Weight(ForActor(o), ready) = 0
    <3>1. \A i \in DOMAIN ready : ForActor(o)[ready[i]] = 0
      BY <1>4, Zenon DEF ForActor
    <3>2. ready \in Seq(TaskType)
      BY <1>4, Zenon
    <3> QED
      BY <3>1, <3>2, WeightZero, Zenon
  <2>3. PICK k \in 1..n : f[k] = o
    BY <1>1, Zenon
  <2>4. C[ready[k]] = 1
    <3>1. ready[k] \in TaskType /\ ready[k].ord = o /\ ready[k].incarnation = incarnation[o] /\ alive[o] /\ ready[k].ids = <<>>
      BY <1>2, <1>4, <2>3, Zenon
    <3>2. Size(ready[k]) = 1
      BY <3>1, Zenon DEF Size
    <3> QED
      BY <3>1, <3>2, Zenon DEF OfCurrent
  <2>5. \A i \in 1..n : i # k => C[ready[i]] = 0
    <3> SUFFICES ASSUME NEW i \in 1..n, i # k PROVE C[ready[i]] = 0
      BY Zenon
    <3>1. ready[i] \in TaskType /\ ready[i].ord # o
      BY <1>1, <1>4, <2>3
    <3> QED
      BY <3>1, Zenon DEF OfCurrent
  <2> HIDE DEF C
  <2> DEFINE r == RemoveAt(ready, k)
  <2>6. r \in Seq(TaskType) /\ Weight(C, ready) = Weight(C, r) + C[ready[k]]
    <3>1. ready \in Seq(TaskType) /\ k \in DOMAIN ready
      BY <1>4, Zenon
    <3> QED
      BY <2>1, <3>1, WeightLess, Zenon
  <2>7. Weight(C, r) = 0
    <3>1. Len(ready) = n /\ ready \in Seq(TaskType) /\ k \in 1..Len(ready) /\ n \in Nat
      BY <1>1, <1>4
    <3>2. /\ Len(r) = n - 1
          /\ \A i \in 1..n-1 : r[i] = ready[IF i < k THEN i ELSE i+1]
      <4>1. k \in DOMAIN ready
        BY <1>4, Zenon
      <4>2. /\ Len(RemoveAt(ready, k)) = Len(ready) - 1
            /\ \A i \in 1..Len(ready)-1 : RemoveAt(ready, k)[i] = ready[IF i < k THEN i ELSE i+1]
        BY <3>1, <4>1, RemoveAtElements, Zenon
      <4> QED
        BY <3>1, <4>2, Zenon
    <3>3. \A i \in DOMAIN r : C[r[i]] = 0
      <4> SUFFICES ASSUME NEW i \in DOMAIN r PROVE C[r[i]] = 0
        BY Zenon
      <4>1. i \in 1..n-1
        BY <2>6, <3>2
      <4>2. PICK j : j = IF i < k THEN i ELSE i+1
        BY Zenon
      <4>3. j \in 1..n /\ j # k
        BY <3>1, <4>1, <4>2
      <4>4. r[i] = ready[j]
        BY <3>2, <4>1, <4>2, Zenon
      <4> QED
        BY <2>5, <4>3, <4>4, Zenon
    <3> HIDE DEF r
    <3> QED
      BY <2>6, <3>3, WeightZero, Zenon
  <2>8. Weight(C, ready) = 1
    BY <2>4, <2>6, <2>7
  <2>9. Weight(C, priority) = 0 /\ Weight(ForActor(o), priority) = 0
    BY <1>7, <2>1, Zenon
  <2>10. queued[o] = 0 /\ box[o] = 1 /\ delivered[o] = 1 /\ consumed[o] = 0 /\ dropped[o] = 0
    BY <1>2, Zenon
  <2> QED
    BY <2>2, <2>8, <2>9, <2>10 DEF Slots, C
<1>9. ASSUME NEW m \in Identities PROVE Fate(m)
  <2>1. TaskWith(m) \in [TaskType -> Nat]
    BY WeightsOfTasks, Zenon
  <2>2. Weight(TaskWith(m), ready) = 0
    <3>1. \A i \in DOMAIN ready : TaskWith(m)[ready[i]] = 0
      <4> SUFFICES ASSUME NEW i \in 1..n PROVE TaskWith(m)[ready[i]] = 0
        BY <1>4, Zenon
      <4>1. ready[i] \in TaskType /\ Range(ready[i].ids) = {}
        BY <1>4 DEF Range
      <4> QED
        BY <4>1, Zenon DEF TaskWith
    <3>2. ready \in Seq(TaskType)
      BY <1>4, Zenon
    <3> QED
      BY <3>1, <3>2, WeightZero, Zenon
  <2>3. Weight(SendWith(m), blocked) = 0 /\ Weight(LaterWith(m), delayed) = 0 /\ Weight(TaskWith(m), priority) = 0
    BY <1>2, <1>5, <1>6, <1>7, <2>1, Zenon DEF TypeOK
  <2>4. mid_times[m] = 0 /\ Lost(m) = 0 /\ next_mid = 0 /\ m \in Nat /\ m >= 1
    BY <1>2, SimAssumption DEF Lost, Identities
  <2>5. KnownFates(m) = 0
    BY <2>2, <2>3, <2>4 DEF KnownFates, TaskCopies
  <2> QED
    BY <2>4, <2>5 DEF Fate
<1>10. KnownIncarnations(priority) /\ KnownIncarnations(ready)
  BY <1>2, <1>4 DEF KnownIncarnations
<1>11. MaxRestarts > 0 => \A o \in Actors : restarts[o] <= MaxRestarts
  BY <1>2, SimAssumption
<1> QED
  BY <1>2, <1>5, <1>8, <1>9, <1>10, <1>11, Zenon DEF Inv

-----------------------------------------------------------------------------
(* The theorems *)

(* The ledger and the identities are consistent in every state. *)
THEOREM InvHolds == Spec => []Inv
<1>1. Init => Inv
  BY InvInit, Zenon
<1>2. Inv /\ [Next]_vars => Inv'
  BY InvStep, Zenon
<1> QED
  BY <1>1, <1>2, PTL DEF Spec

(* The audit of the ledger never fails: the mailbox of an actor that is alive
   holds what was delivered and neither consumed nor dropped, each slot of it
   will be freed by a task of the current incarnation, and queued counts the
   messages of the actor's tasks, whatever faults the seed draws. *)
THEOREM LedgerBalances == Spec => []SlotsConserved
<1>1. Inv => SlotsConserved
  BY InvAudits, Zenon
<1> QED
  BY <1>1, InvHolds, PTL

(* The audit of the identities never fails: no message vanishes, and one that
   was not doubled has exactly one fate. *)
THEOREM IdentitiesAccounted == Spec => []Accounted
<1>1. Inv => Accounted
  BY InvAudits, Zenon
<1> QED
  BY <1>1, InvHolds, PTL

(* No restart beyond max_restarts, and none of an actor that was given up,
   which never consumes a message again. *)
THEOREM NoRevival == Spec => GivenUpForGood
<1> DEFINE A == \A o \in Actors :
                  /\ MaxRestarts > 0 => restarts'[o] <= MaxRestarts
                  /\ ~alive[o] => ~alive'[o] /\ consumed'[o] = consumed[o]
<1>1. ASSUME Inv, Inv', Next PROVE A
  <2>1. MaxRestarts > 0 => \A o \in Actors : restarts'[o] <= MaxRestarts
    BY <1>1, Zenon DEF Inv
  <2>2. CASE BeginRound \/ InjectOne \/ DeliverDue \/ RetryBlocked \/ EndPhase
    <3>1. alive' = alive /\ consumed' = consumed
      BY <2>2, Zenon DEF BeginRound, InjectOne, DeliverDue, RetryBlocked, EndPhase, world, ledger
    <3> QED
      BY <2>1, <3>1, Zenon
  <2>3. CASE Process
    <3>1. PICK task \in TaskType, high \in Seq(TaskType), rest \in Seq(TaskType) :
            ProcessChosen(task, high, rest)
      BY <1>1, <2>3, Chosen, Zenon
    <3>2. /\ task.ord \in Actors /\ alive \in [Actors -> BOOLEAN] /\ consumed \in [Actors -> Nat]
      BY <1>1, Zenon DEF TaskType, Inv, TypeOK
    <3>3. CASE Discard(task)
      BY <2>1, <3>3, Zenon DEF Discard, world
    <3>4. CASE Succeed(task)
      <4>1. alive' = alive /\ alive[task.ord] /\ consumed' = [consumed EXCEPT ![task.ord] = @ + Size(task)]
        BY <3>4, Zenon DEF Succeed, Current, AddTo
      <4> QED
        BY <2>1, <3>2, <4>1, Zenon
    <3>5. CASE Crash(task, rest)
      <4>1. /\ alive' = [alive EXCEPT ![task.ord] = RestartAllowed(task.ord)]
            /\ alive[task.ord] /\ consumed' = consumed
        BY <3>5, Zenon DEF Crash, Current
      <4> QED
        BY <2>1, <3>2, <4>1, Zenon
    <3> QED
      BY <3>1, <3>3, <3>4, <3>5, Zenon DEF ProcessChosen
  <2> QED
    BY <1>1, <2>2, <2>3, Zenon DEF Next
<1>2. Inv /\ Inv' /\ [Next]_vars => [A]_vars
  BY <1>1, Zenon
<1> QED
  BY <1>2, InvHolds, PTL DEF Spec, GivenUpForGood
=============================================================================
