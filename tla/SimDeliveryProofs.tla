-------------------------- MODULE SimDeliveryProofs -------------------------
(***************************************************************************)
(* The inductive invariant behind the simulation's audits, and the steps   *)
(* that bring messages to mailboxes: a round begins, messages are injected *)
(* (sent, delayed or doubled), what is due is delivered and what was       *)
(* refused is tried again.                                                 *)
(*                                                                         *)
(* The audits are about sums over sequences, so the proof rests on what    *)
(* appending and removing an element does to a sum.                        *)
(***************************************************************************)
EXTENDS Sim, FiniteSetTheorems, TLAPS

Units(w) == UNION {{i} \X (1..w[i]) : i \in DOMAIN w}

-----------------------------------------------------------------------------
(* Sums *)

(* The units of one element. *)
LEMMA UnitsOfOne ==
  ASSUME NEW i, NEW n \in Nat
  PROVE  IsFiniteSet({i} \X (1..n)) /\ Cardinality({i} \X (1..n)) = n
<1>1. IsFiniteSet({i}) /\ Cardinality({i}) = 1
  BY FS_Singleton, Zenon
<1>2. IsFiniteSet(1..n) /\ Cardinality(1..n) = n
  BY FS_Interval
<1>3. IsFiniteSet({i} \X (1..n)) /\ Cardinality({i} \X (1..n)) = Cardinality({i}) * Cardinality(1..n)
  BY <1>1, <1>2, FS_Product, Zenon
<1>4. Cardinality({i}) * Cardinality(1..n) = n
  BY <1>1, <1>2
<1> QED
  BY <1>3, <1>4, Zenon

(* The sum of a finite sequence is a number. *)
LEMMA TotalNat ==
  ASSUME NEW n \in Nat, NEW w \in [1..n -> Nat]
  PROVE  IsFiniteSet(Units(w)) /\ Total(w) = Cardinality(Units(w)) /\ Total(w) \in Nat
<1> DEFINE U == {{i} \X (1..w[i]) : i \in 1..n}
           f == [i \in 1..n |-> {i} \X (1..w[i])]
<1>1. f \in Surjection(1..n, U)
  BY Zenon DEF Surjection
<1>2. IsFiniteSet(U)
  <2>1. IsFiniteSet(1..n)
    BY FS_Interval
  <2> HIDE DEF f, U
  <2> QED
    BY <1>1, <2>1, FS_Surjection, Zenon
<1>3. ASSUME NEW T \in U PROVE IsFiniteSet(T)
  <2>1. PICK i \in 1..n : T = {i} \X (1..w[i])
    BY Zenon
  <2>2. w[i] \in Nat
    BY Zenon
  <2> QED
    BY <2>1, <2>2, UnitsOfOne, Zenon
<1>4. IsFiniteSet(UNION U)
  BY <1>2, <1>3, FS_UNION, Zenon
<1>5. Units(w) = UNION U
  BY Zenon DEF Units
<1> QED
  BY <1>4, <1>5, FS_CardinalityType, Zenon DEF Total, Units

(* u is an index and a number up to the element there. *)
IsUnit(u, w) == \E i \in DOMAIN w : \E j \in 1..w[i] : u = <<i, j>>

(* These are the units. *)
LEMMA InUnits ==
  ASSUME NEW w, NEW u
  PROVE  u \in Units(w) <=> IsUnit(u, w)
BY DEF Units, IsUnit

(* Another element adds its number. *)
LEMMA TotalMore ==
  ASSUME NEW n \in Nat, NEW v \in [1..n -> Nat], NEW w \in [1..n+1 -> Nat], \A i \in 1..n : w[i] = v[i]
  PROVE  Total(w) = Total(v) + w[n+1]
<1> DEFINE D == {n+1} \X (1..w[n+1])
<1>1. Units(w) = Units(v) \cup D
  <2>1. DOMAIN w = 1..n \cup {n+1} /\ DOMAIN v = 1..n
    OBVIOUS
  <2>2. ASSUME NEW u
        PROVE  IsUnit(u, w) <=> IsUnit(u, v) \/ u \in D
    <3>1. u \in D <=> \E j \in 1..w[n+1] : u = <<n+1, j>>
      OBVIOUS
    <3> HIDE DEF D
    <3> QED
      BY <2>1, <3>1, Zenon DEF IsUnit
  <2>3. ASSUME NEW u PROVE u \in Units(w) <=> u \in Units(v) \cup D
    <3> HIDE DEF D
    <3>1. (u \in Units(w) <=> IsUnit(u, w)) /\ (u \in Units(v) <=> IsUnit(u, v))
      BY InUnits, Zenon
    <3> QED
      BY <2>2, <3>1, Zenon
  <2> QED
    BY <2>3, Zenon
<1>2. Units(v) \cap D = {}
  <2>1. \A u \in Units(v) : u[1] \in 1..n
    BY DEF Units
  <2>2. \A u \in D : u[1] = n+1
    BY Zenon
  <2> QED
    BY <2>1, <2>2
<1>3. w[n+1] \in Nat /\ n+1 \in Nat
  OBVIOUS
<1>4. IsFiniteSet(D) /\ Cardinality(D) = w[n+1]
  BY <1>3, UnitsOfOne, Zenon
<1>5. IsFiniteSet(Units(v)) /\ Total(v) = Cardinality(Units(v)) /\ Total(v) \in Nat
  BY TotalNat, Zenon
<1>6. Total(w) = Cardinality(Units(w))
  BY <1>3, TotalNat, Zenon
<1>7. Cardinality({}) = 0
  BY FS_EmptySet, Zenon
<1> HIDE DEF D
<1>8. Cardinality(Units(v) \cup D) = Cardinality(Units(v)) + Cardinality(D) - Cardinality({})
  BY <1>2, <1>4, <1>5, FS_Union
<1> QED
  BY <1>1, <1>3, <1>4, <1>5, <1>6, <1>7, <1>8

(* Without one of its elements the sum is less by the number of it. *)
LEMMA TotalLess ==
  ASSUME NEW n \in Nat, NEW v \in [1..n -> Nat], NEW k \in 1..n, NEW w \in [1..n-1 -> Nat],
         \A i \in 1..n-1 : w[i] = v[IF i < k THEN i ELSE i+1]
  PROVE  Total(v) = Total(w) + v[k]
<1> DEFINE D == {k} \X (1..v[k])
           rest == Units(v) \ D
           shift(i) == IF i < k THEN i ELSE i+1
           f == [u \in Units(w) |-> <<shift(u[1]), u[2]>>]
<1>1. n-1 \in Nat /\ v[k] \in Nat
  OBVIOUS
<1>2. \A u \in Units(w) : \E i \in 1..n-1 : \E j \in 1..w[i] : u = <<i, j>>
  BY DEF Units
<1>3. \A u : u \in rest <=> \E i \in 1..n : \E j \in 1..v[i] : i # k /\ u = <<i, j>>
  BY DEF Units
<1>4. f \in [Units(w) -> rest]
  <2> SUFFICES ASSUME NEW u \in Units(w) PROVE <<shift(u[1]), u[2]>> \in rest
    BY Zenon
  <2>1. PICK i \in 1..n-1, j \in Nat : j \in 1..w[i] /\ u = <<i, j>>
    BY <1>2
  <2>2. shift(i) \in 1..n /\ shift(i) # k /\ w[i] = v[shift(i)]
    OBVIOUS
  <2> QED
    BY <1>3, <2>1, <2>2, Zenon
<1>5. ASSUME NEW a \in Units(w), NEW b \in Units(w), f[a] = f[b] PROVE a = b
  <2>1. PICK i \in 1..n-1, j \in Nat : a = <<i, j>>
    BY <1>2
  <2>2. PICK c \in 1..n-1, d \in Nat : b = <<c, d>>
    BY <1>2
  <2>3. shift(i) = shift(c) /\ j = d
    BY <1>5, <2>1, <2>2, Zenon
  <2> QED
    BY <2>1, <2>2, <2>3
<1>6. ASSUME NEW t \in rest PROVE \E u \in Units(w) : f[u] = t
  <2>1. PICK i \in 1..n, j \in Nat : j \in 1..v[i] /\ i # k /\ t = <<i, j>>
    BY <1>3
  <2> DEFINE b == IF i < k THEN i ELSE i-1
  <2>2. b \in 1..n-1 /\ shift(b) = i /\ w[b] = v[i]
    BY <2>1
  <2>3. <<b, j>> \in Units(w)
    <3>1. b \in DOMAIN w /\ j \in 1..w[b]
      BY <2>1, <2>2, Zenon
    <3> HIDE DEF b
    <3> QED
      BY <3>1, InUnits, Zenon DEF IsUnit
  <2> QED
    BY <2>1, <2>2, <2>3, Zenon
<1>7. ExistsBijection(Units(w), rest)
  <2>1. f \in Bijection(Units(w), rest)
    BY <1>4, <1>5, <1>6, Zenon DEF Bijection, Injection, Surjection, IsInjective
  <2> QED
    BY <2>1, Zenon DEF ExistsBijection
<1>8. IsFiniteSet(Units(w)) /\ Total(w) = Cardinality(Units(w)) /\ Total(w) \in Nat
  BY <1>1, TotalNat, Zenon
<1> HIDE DEF f, shift
<1>9. IsFiniteSet(rest) /\ Cardinality(rest) = Cardinality(Units(w))
  BY <1>7, <1>8, FS_Bijection, Zenon
<1>10. IsFiniteSet(D) /\ Cardinality(D) = v[k]
  BY <1>1, UnitsOfOne, Zenon
<1>11. Total(v) = Cardinality(Units(v))
  BY TotalNat, Zenon
<1>12. Units(v) = rest \cup D /\ rest \cap D = {}
  BY Zenon DEF Units
<1> HIDE DEF D, rest
<1>13. Cardinality(rest \cup D) = Cardinality(rest) + Cardinality(D) - Cardinality({})
  BY <1>9, <1>10, <1>12, FS_Union
<1>14. Cardinality({}) = 0
  BY FS_EmptySet, Zenon
<1> QED
  BY <1>1, <1>8, <1>9, <1>10, <1>11, <1>12, <1>13, <1>14

-----------------------------------------------------------------------------
(* Sequences whose elements are weighed *)

Weight(g, s) == Total([i \in DOMAIN s |-> g[s[i]]])

(* The second part of a concatenation. *)
LEMMA ConcatenatedElement ==
  ASSUME NEW S, NEW a \in Seq(S), NEW b \in Seq(S), NEW i \in (Len(a) + 1)..(Len(a) + Len(b))
  PROVE  (a \o b)[i] = b[i - Len(a)]
  OBVIOUS

(* The sequence without its k-th element. *)
LEMMA RemoveAtElements ==
  ASSUME NEW S, NEW s \in Seq(S), NEW k \in DOMAIN s
  PROVE  /\ RemoveAt(s, k) \in Seq(S) /\ Len(RemoveAt(s, k)) = Len(s) - 1
         /\ \A i \in 1..Len(s)-1 : RemoveAt(s, k)[i] = s[IF i < k THEN i ELSE i+1]
<1> DEFINE a == SubSeq(s, 1, k-1)
           b == SubSeq(s, k+1, Len(s))
<1>1. k \in 1..Len(s) /\ Len(s) \in Nat
  OBVIOUS
<1>2. a \in Seq(S) /\ Len(a) = k-1 /\ \A i \in 1..k-1 : a[i] = s[i]
  BY <1>1
<1>3. b \in Seq(S) /\ Len(b) = Len(s)-k /\ \A i \in 1..Len(s)-k : b[i] = s[k+i]
  BY <1>1
<1>4. Len(a) = k-1 /\ Len(b) = Len(s)-k
  BY <1>2, <1>3, Zenon
<1> HIDE DEF a, b
<1>5. a \o b \in Seq(S) /\ Len(a \o b) = Len(s) - 1
  BY <1>1, <1>2, <1>3
<1>6. ASSUME NEW i \in 1..Len(s)-1 PROVE (a \o b)[i] = s[IF i < k THEN i ELSE i+1]
  <2>1. CASE i < k
    <3>1. (a \o b)[i] = a[i]
      BY <1>1, <1>2, <1>3, <2>1
    <3> QED
      BY <1>1, <1>2, <2>1, <3>1
  <2>2. CASE ~(i < k)
    <3>0. i - (k-1) \in 1..Len(s)-k /\ i \in (Len(a) + 1)..(Len(a) + Len(b))
      <4>1. i \in Int /\ i >= k /\ i <= Len(s) - 1
        BY <1>1, <2>2
      <4>2. i - (k-1) \in 1..Len(s)-k /\ i \in ((k-1) + 1)..((k-1) + (Len(s)-k))
        BY <1>1, <4>1
      <4> QED
        BY <1>4, <4>2, Zenon
    <3>1. (a \o b)[i] = b[i - (k-1)]
      <4>1. (a \o b)[i] = b[i - Len(a)]
        BY <1>2, <1>3, <3>0, ConcatenatedElement, Zenon
      <4> QED
        BY <1>2, <4>1, Zenon
    <3>2. b[i - (k-1)] = s[k + (i - (k-1))]
      BY <1>3, <3>0, Zenon
    <3>3. k + (i - (k-1)) = i+1
      BY <1>1
    <3> QED
      BY <2>2, <3>1, <3>2, <3>3, Zenon
  <2> QED
    BY <2>1, <2>2, Zenon
<1> QED
  BY <1>5, <1>6, Zenon DEF RemoveAt, a, b

(* A weight is a number. *)
LEMMA WeightNat ==
  ASSUME NEW S, NEW g \in [S -> Nat], NEW s \in Seq(S)
  PROVE  Weight(g, s) \in Nat
<1> DEFINE w == [i \in DOMAIN s |-> g[s[i]]]
<1>1. w \in [1..Len(s) -> Nat] /\ Len(s) \in Nat
  OBVIOUS
<1> HIDE DEF w
<1> QED
  BY <1>1, TotalNat, Zenon DEF Weight, w

(* A task or send that is appended adds its weight. *)
LEMMA WeightMore ==
  ASSUME NEW S, NEW g \in [S -> Nat], NEW s \in Seq(S), NEW t \in S
  PROVE  /\ Append(s, t) \in Seq(S)
         /\ Weight(g, Append(s, t)) = Weight(g, s) + g[t]
<1> DEFINE v == [i \in DOMAIN s |-> g[s[i]]]
           w == [i \in DOMAIN Append(s, t) |-> g[Append(s, t)[i]]]
           n == Len(s)
<1>1. n \in Nat /\ v \in [1..n -> Nat] /\ w \in [1..n+1 -> Nat]
  OBVIOUS
<1>2. \A i \in 1..n : w[i] = v[i]
  OBVIOUS
<1>3. w[n+1] = g[t]
  OBVIOUS
<1> HIDE DEF v, w, n
<1>4. Total(w) = Total(v) + w[n+1]
  BY <1>1, <1>2, TotalMore, Zenon
<1>5. Append(s, t) \in Seq(S)
  OBVIOUS
<1> QED
  BY <1>3, <1>4, <1>5, Zenon DEF Weight, v, w

(* One that is removed takes its weight away. *)
LEMMA WeightLess ==
  ASSUME NEW S, NEW g \in [S -> Nat], NEW s \in Seq(S), NEW k \in DOMAIN s
  PROVE  /\ RemoveAt(s, k) \in Seq(S)
         /\ Weight(g, s) = Weight(g, RemoveAt(s, k)) + g[s[k]]
<1> DEFINE r == RemoveAt(s, k)
           v == [i \in DOMAIN s |-> g[s[i]]]
           w == [i \in DOMAIN r |-> g[r[i]]]
           n == Len(s)
<1>1. /\ r \in Seq(S) /\ Len(r) = n-1
      /\ \A i \in 1..n-1 : r[i] = s[IF i < k THEN i ELSE i+1]
  BY RemoveAtElements, Zenon
<1>2. n \in Nat /\ k \in 1..n
  OBVIOUS
<1> HIDE DEF r
<1>3. v \in [1..n -> Nat] /\ v[k] = g[s[k]]
  OBVIOUS
<1>4. w \in [1..n-1 -> Nat]
  BY <1>1, <1>2
<1>5. ASSUME NEW i \in 1..n-1 PROVE w[i] = v[IF i < k THEN i ELSE i+1]
  <2> DEFINE j == IF i < k THEN i ELSE i+1
  <2>1. j \in DOMAIN s /\ i \in DOMAIN r
    BY <1>1, <1>2
  <2>2. r[i] = s[j]
    BY <1>1, Zenon
  <2> HIDE DEF j
  <2>3. w[i] = g[r[i]] /\ v[j] = g[s[j]]
    BY <2>1, Zenon
  <2> QED
    BY <2>2, <2>3, Zenon DEF j
<1> HIDE DEF v, w, n
<1>6. Total(v) = Total(w) + v[k]
  BY <1>2, <1>3, <1>4, <1>5, TotalLess, Zenon
<1> QED
  BY <1>1, <1>3, <1>6, Zenon DEF Weight, v, w, r

(* So does the head. *)
LEMMA WeightTail ==
  ASSUME NEW S, NEW g \in [S -> Nat], NEW s \in Seq(S), s # <<>>
  PROVE  /\ Tail(s) \in Seq(S) /\ Head(s) \in S /\ Len(Tail(s)) = Len(s) - 1
         /\ Weight(g, s) = Weight(g, Tail(s)) + g[Head(s)]
<1> DEFINE r == Tail(s)
           v == [i \in DOMAIN s |-> g[s[i]]]
           w == [i \in DOMAIN r |-> g[r[i]]]
           n == Len(s)
<1>1. n \in Nat /\ 1 \in 1..n /\ Head(s) \in S /\ Head(s) = s[1]
  OBVIOUS
<1>2. r \in Seq(S) /\ Len(r) = n-1 /\ \A i \in 1..n-1 : r[i] = s[i+1]
  OBVIOUS
<1> HIDE DEF r
<1>3. v \in [1..n -> Nat] /\ v[1] = g[Head(s)]
  BY <1>1
<1>4. w \in [1..n-1 -> Nat]
  BY <1>1, <1>2
<1>5. ASSUME NEW i \in 1..n-1 PROVE w[i] = v[IF i < 1 THEN i ELSE i+1]
  <2>1. ~(i < 1) /\ i+1 \in DOMAIN s /\ i \in DOMAIN r
    BY <1>1, <1>2
  <2>2. w[i] = g[s[i+1]] /\ v[i+1] = g[s[i+1]]
    BY <1>2, <2>1, Zenon
  <2> QED
    BY <2>1, <2>2, Zenon
<1> HIDE DEF v, w, n
<1>6. Total(v) = Total(w) + v[1]
  BY <1>1, <1>3, <1>4, <1>5, TotalLess, Zenon
<1> QED
  BY <1>1, <1>2, <1>3, <1>6, Zenon DEF Weight, v, w, r, n

(* A set of numbers that is not empty has a least one. *)
LEMMA LeastNat ==
  ASSUME NEW S \in SUBSET Nat, S # {}
  PROVE  \E n \in S : \A j \in S : n <= j
<1> DEFINE R == OpToRel(<, Nat)
<1>1. IsWellFoundedOn(R, Nat)
  BY NatLessThanWellFounded, Zenon
<1>2. \A x, y \in Nat : <<y, x>> \in R <=> y < x
  BY Zenon DEF OpToRel
<1> HIDE DEF R
<1>3. \E x \in S : \A y \in S : ~(<<y, x>> \in R)
  BY <1>1, WFMin, Zenon
<1>4. PICK x \in S : \A y \in S : ~(<<y, x>> \in R)
  BY <1>3, Zenon
<1>5. ASSUME NEW y \in S PROVE x <= y
  <2>1. x \in Nat /\ y \in Nat /\ ~(<<y, x>> \in R)
    BY <1>4, Zenon
  <2>2. ~(y < x)
    BY <1>2, <2>1, Zenon
  <2> QED
    BY <2>1, <2>2
<1> QED
  BY <1>5, Zenon

-----------------------------------------------------------------------------
(* The inductive invariant: the audits as weights of the sequences of tasks
   and sends.  A task is never of an incarnation to come, the phase retry has
   as many deliveries parked as it retries, and no restart is granted beyond
   the limit. *)
ForActor(o) == [t \in TaskType |-> IF t.ord = o THEN Len(t.ids) ELSE 0]
OfCurrent(o, al, inc) ==
  [t \in TaskType |-> IF t.ord = o /\ al[t.ord] /\ t.incarnation = inc[t.ord] THEN Size(t) ELSE 0]
TaskWith(m) == [t \in TaskType |-> IF m \in Range(t.ids) THEN 1 ELSE 0]
SendWith(m) == [p \in PayloadType |-> IF m \in Range(p.ids) THEN 1 ELSE 0]
LaterWith(m) == [d \in DelayedType |-> IF m \in Range(d.payload.ids) THEN 1 ELSE 0]

Slots(o) ==
  /\ queued[o] = Weight(ForActor(o), priority) + Weight(ForActor(o), ready)
  /\ alive[o] => /\ box[o] = delivered[o] - consumed[o] - dropped[o]
                 /\ box[o] = Weight(OfCurrent(o, alive, incarnation), priority)
                               + Weight(OfCurrent(o, alive, incarnation), ready)

TaskCopies(m) == Weight(TaskWith(m), priority) + Weight(TaskWith(m), ready)

Lost(m) == IF m \in mid_lost THEN 1 ELSE 0
KnownFates(m) ==
  mid_times[m] + TaskCopies(m) + Weight(SendWith(m), blocked) + Weight(LaterWith(m), delayed) + Lost(m)

Fate(m) ==
  IF m <= next_mid THEN KnownFates(m) >= 1 /\ (m \notin doubled => KnownFates(m) = 1) ELSE KnownFates(m) = 0

KnownIncarnations(s) == \A i \in DOMAIN s : s[i].incarnation <= incarnation[s[i].ord]

Inv ==
  /\ TypeOK
  /\ pc = "retry" => left <= Len(blocked)
  /\ KnownIncarnations(priority) /\ KnownIncarnations(ready)
  /\ MaxRestarts > 0 => \A o \in Actors : restarts[o] <= MaxRestarts
  /\ \A o \in Actors : Slots(o)
  /\ \A m \in Identities : Fate(m)

-----------------------------------------------------------------------------
(* The weights are numbers, and the weighed sequences are those of Sim. *)
LEMMA WeightsOfTasks ==
  ASSUME NEW o, NEW al, NEW inc, NEW m
  PROVE  /\ ForActor(o) \in [TaskType -> Nat]
         /\ OfCurrent(o, al, inc) \in [TaskType -> Nat]
         /\ TaskWith(m) \in [TaskType -> Nat]
         /\ SendWith(m) \in [PayloadType -> Nat]
         /\ LaterWith(m) \in [DelayedType -> Nat]
<1>1. \A t \in TaskType : Len(t.ids) \in Nat
  BY DEF TaskType
<1>2. \A t \in TaskType : Size(t) \in Nat
  BY <1>1, Zenon DEF Size
<1> QED
  BY <1>1, <1>2, Zenon DEF ForActor, OfCurrent, TaskWith, SendWith, LaterWith

(* The sums that the audits take are weights. *)
LEMMA SumsAreWeights ==
  ASSUME TypeOK
  PROVE  /\ \A o \in Actors :
              /\ Total(Addressed(priority, o)) = Weight(ForActor(o), priority)
              /\ Total(Addressed(ready, o)) = Weight(ForActor(o), ready)
              /\ Total(Holding(priority, o)) = Weight(OfCurrent(o, alive, incarnation), priority)
              /\ Total(Holding(ready, o)) = Weight(OfCurrent(o, alive, incarnation), ready)
         /\ \A m \in Identities :
              /\ Total(Carrying(priority, m)) = Weight(TaskWith(m), priority)
              /\ Total(Carrying(ready, m)) = Weight(TaskWith(m), ready)
              /\ Total(Carrying(blocked, m)) = Weight(SendWith(m), blocked)
              /\ Total(Carrying(Payloads(delayed), m)) = Weight(LaterWith(m), delayed)
<1>1. ASSUME NEW s \in Seq(TaskType), NEW o \in Actors
      PROVE  /\ Addressed(s, o) = [i \in DOMAIN s |-> ForActor(o)[s[i]]]
             /\ Holding(s, o) = [i \in DOMAIN s |-> OfCurrent(o, alive, incarnation)[s[i]]]
  <2>1. \A i \in DOMAIN s : s[i] \in TaskType
    OBVIOUS
  <2> QED
    BY <2>1, Zenon DEF Addressed, Holding, ForActor, OfCurrent, Current
<1>2. ASSUME NEW s \in Seq(TaskType), NEW m \in Identities
      PROVE  Carrying(s, m) = [i \in DOMAIN s |-> TaskWith(m)[s[i]]]
  <2>1. \A i \in DOMAIN s : s[i] \in TaskType
    OBVIOUS
  <2> QED
    BY <2>1, Zenon DEF Carrying, TaskWith
<1>3. ASSUME NEW m \in Identities
      PROVE  Carrying(blocked, m) = [i \in DOMAIN blocked |-> SendWith(m)[blocked[i]]]
  <2>1. \A i \in DOMAIN blocked : blocked[i] \in PayloadType
    BY DEF TypeOK
  <2> QED
    BY <2>1, Zenon DEF Carrying, SendWith
<1>4. ASSUME NEW m \in Identities
      PROVE  Carrying(Payloads(delayed), m) = [i \in DOMAIN delayed |-> LaterWith(m)[delayed[i]]]
  <2>1. \A i \in DOMAIN delayed : delayed[i] \in DelayedType
    BY DEF TypeOK
  <2> QED
    BY <2>1, Zenon DEF Carrying, LaterWith, Payloads
<1>5. priority \in Seq(TaskType) /\ ready \in Seq(TaskType)
  BY Zenon DEF TypeOK
<1> QED
  BY <1>1, <1>2, <1>3, <1>4, <1>5, Zenon DEF Weight

(* The weights of the tasks for an actor are numbers. *)
LEMMA ActorWeights ==
  ASSUME TypeOK, NEW o
  PROVE  /\ Weight(ForActor(o), priority) \in Nat /\ Weight(ForActor(o), ready) \in Nat
         /\ Weight(OfCurrent(o, alive, incarnation), priority) \in Nat
         /\ Weight(OfCurrent(o, alive, incarnation), ready) \in Nat
<1>1. priority \in Seq(TaskType) /\ ready \in Seq(TaskType)
  BY Zenon DEF TypeOK
<1>2. ForActor(o) \in [TaskType -> Nat] /\ OfCurrent(o, alive, incarnation) \in [TaskType -> Nat]
  BY WeightsOfTasks, Zenon
<1> QED
  BY <1>1, <1>2, WeightNat, Zenon

(* The weights of the sends that carry a message are numbers. *)
LEMMA MessageWeights ==
  ASSUME TypeOK, NEW m \in Identities
  PROVE  /\ Weight(TaskWith(m), priority) \in Nat /\ Weight(TaskWith(m), ready) \in Nat
         /\ TaskCopies(m) \in Nat
         /\ Weight(SendWith(m), blocked) \in Nat /\ Weight(LaterWith(m), delayed) \in Nat
         /\ mid_times[m] \in Nat /\ Lost(m) \in {0, 1}
<1>1. /\ priority \in Seq(TaskType) /\ ready \in Seq(TaskType) /\ blocked \in Seq(PayloadType)
      /\ delayed \in Seq(DelayedType) /\ mid_times[m] \in Nat /\ Lost(m) \in {0, 1}
  BY Zenon DEF TypeOK, Lost
<1>2. /\ TaskWith(m) \in [TaskType -> Nat] /\ SendWith(m) \in [PayloadType -> Nat]
      /\ LaterWith(m) \in [DelayedType -> Nat]
  BY WeightsOfTasks, Zenon
<1>3. /\ Weight(TaskWith(m), priority) \in Nat /\ Weight(TaskWith(m), ready) \in Nat
      /\ Weight(SendWith(m), blocked) \in Nat /\ Weight(LaterWith(m), delayed) \in Nat
  BY <1>1, <1>2, WeightNat, Zenon
<1> QED
  BY <1>1, <1>3 DEF TaskCopies

(* The invariant gives the audits. *)
LEMMA InvAudits ==
  ASSUME Inv
  PROVE  SlotsConserved /\ Accounted
<1>1. TypeOK
  BY Zenon DEF Inv
<1>2. SlotsConserved
  BY <1>1, SumsAreWeights, Zenon DEF Inv, Slots, SlotsConserved
<1>3. ASSUME NEW m \in Identities PROVE Fates(m) = KnownFates(m)
  <2>1. /\ Total(Carrying(priority, m)) = Weight(TaskWith(m), priority)
        /\ Total(Carrying(ready, m)) = Weight(TaskWith(m), ready)
        /\ Total(Carrying(blocked, m)) = Weight(SendWith(m), blocked)
        /\ Total(Carrying(Payloads(delayed), m)) = Weight(LaterWith(m), delayed)
    BY <1>1, SumsAreWeights, Zenon
  <2> QED
    BY <1>1, <2>1, MessageWeights DEF Fates, KnownFates, Copies, TaskCopies, Lost
<1>4. Accounted
  BY <1>3, Zenon DEF Inv, Fate, Accounted
<1> QED
  BY <1>2, <1>4, Zenon

-----------------------------------------------------------------------------
(* Delivery *)

(* What AddTo yields. *)
LEMMA Added ==
  ASSUME NEW f \in [Actors -> Nat], NEW o \in Actors, NEW n \in Int, f[o] + n \in Nat
  PROVE  /\ AddTo(f, o, n) \in [Actors -> Nat]
         /\ \A q \in Actors : AddTo(f, o, n)[q] = f[q] + IF q = o THEN n ELSE 0
  BY DEF AddTo

(* A task is enqueued as one of the priority tasks or of the others. *)
LEMMA Enqueued ==
  ASSUME TypeOK, NEW t \in TaskType, Enqueue(t)
  PROVE  /\ priority' \in Seq(TaskType) /\ ready' \in Seq(TaskType)
         /\ \A g \in [TaskType -> Nat] :
              Weight(g, priority') + Weight(g, ready') = Weight(g, priority) + Weight(g, ready) + g[t]
<1>1. priority \in Seq(TaskType) /\ ready \in Seq(TaskType)
  BY Zenon DEF TypeOK
<1>2. \/ priority' = Append(priority, t) /\ ready' = ready
      \/ priority' = priority /\ ready' = Append(ready, t)
  BY Zenon DEF Enqueue
<1>3. Append(priority, t) \in Seq(TaskType) /\ Append(ready, t) \in Seq(TaskType)
  BY <1>1
<1>4. ASSUME NEW g \in [TaskType -> Nat]
      PROVE  Weight(g, priority') + Weight(g, ready') = Weight(g, priority) + Weight(g, ready) + g[t]
  <2>1. /\ Weight(g, Append(priority, t)) = Weight(g, priority) + g[t]
        /\ Weight(g, Append(ready, t)) = Weight(g, ready) + g[t]
    BY <1>1, WeightMore
  <2>2. Weight(g, priority) \in Nat /\ Weight(g, ready) \in Nat /\ g[t] \in Nat
    BY <1>1, WeightNat, Zenon
  <2>3. CASE priority' = Append(priority, t) /\ ready' = ready
    <3>1. Weight(g, priority') = Weight(g, priority) + g[t] /\ Weight(g, ready') = Weight(g, ready)
      BY <2>1, <2>3, Zenon
    <3> QED
      BY <2>2, <3>1
  <2>4. CASE priority' = priority /\ ready' = Append(ready, t)
    <3>1. Weight(g, priority') = Weight(g, priority) /\ Weight(g, ready') = Weight(g, ready) + g[t]
      BY <2>1, <2>4, Zenon
    <3> QED
      BY <2>2, <3>1
  <2> QED
    BY <1>2, <2>3, <2>4, Zenon
<1> QED
  BY <1>1, <1>2, <1>3, <1>4, Zenon

(* A new task is of an incarnation known. *)
LEMMA AppendKnown ==
  ASSUME NEW s \in Seq(TaskType), NEW t \in TaskType, KnownIncarnations(s), t.incarnation <= incarnation[t.ord]
  PROVE  KnownIncarnations(Append(s, t))
<1> SUFFICES ASSUME NEW i \in DOMAIN Append(s, t)
             PROVE  Append(s, t)[i].incarnation <= incarnation[Append(s, t)[i].ord]
  BY Zenon DEF KnownIncarnations
<1>1. CASE i \in DOMAIN s
  <2>1. Append(s, t)[i] = s[i]
    BY <1>1
  <2> QED
    BY <1>1, <2>1, Zenon DEF KnownIncarnations
<1>2. CASE i = Len(s) + 1
  <2>1. Append(s, t)[i] = t
    BY <1>2
  <2> QED
    BY <2>1, Zenon
<1> QED
  BY <1>1, <1>2

(* What attempt_delivery does: the messages are lost, parked, or in a task
   that holds the slots taken for them. *)
LEMMA Attempted ==
  ASSUME Inv, NEW p \in PayloadType, NEW parked \in Seq(PayloadType), AttemptDelivery(p, parked),
         UNCHANGED <<alive, incarnation, consumed, dropped>>
  PROVE  /\ {box', delivered', queued'} \subseteq [Actors -> Nat]
         /\ priority' \in Seq(TaskType) /\ ready' \in Seq(TaskType) /\ blocked' \in Seq(PayloadType)
         /\ mid_lost' \subseteq Identities
         /\ Len(blocked') >= Len(parked)
         /\ KnownIncarnations(priority)' /\ KnownIncarnations(ready)'
         /\ \A o \in Actors : Slots(o)'
<1>1. /\ TypeOK /\ priority \in Seq(TaskType) /\ ready \in Seq(TaskType)
      /\ {box, delivered, queued, consumed, dropped, incarnation} \subseteq [Actors -> Nat]
      /\ alive \in [Actors -> BOOLEAN] /\ mid_lost \subseteq Identities
      /\ KnownIncarnations(priority) /\ KnownIncarnations(ready) /\ \A o \in Actors : Slots(o)
  BY Zenon DEF Inv, TypeOK
<1>2. p.ord \in Actors /\ p.ids \in Seq(Identities) /\ p.ids # <<>> /\ p.high \in BOOLEAN /\ Range(p.ids) \subseteq Identities
  BY DEF PayloadType, Range
<1>3. CASE UNCHANGED <<box, delivered, queued, priority, ready>>
  <2>1. /\ mid_lost' \subseteq Identities
        /\ blocked' = parked \/ blocked' = Append(parked, p)
    BY <1>1, <1>2, Zenon DEF AttemptDelivery, MarkLost
  <2>2. blocked' \in Seq(PayloadType) /\ Len(blocked') >= Len(parked)
    BY <2>1
  <2>3. KnownIncarnations(priority)' /\ KnownIncarnations(ready)' /\ \A o \in Actors : Slots(o)'
    BY <1>1, <1>3, Zenon DEF KnownIncarnations, Slots
  <2> QED
    BY <1>1, <1>3, <2>1, <2>2, <2>3, Zenon
<1>4. CASE ~UNCHANGED <<box, delivered, queued, priority, ready>>
  <2> DEFINE t == Task(p.ord, incarnation[p.ord], p.ids, p.high)
             n == Len(p.ids)
  <2>1. /\ alive[p.ord] /\ Enqueue(t) /\ blocked' = parked /\ mid_lost' = mid_lost
        /\ box' = AddTo(box, p.ord, n) /\ delivered' = AddTo(delivered, p.ord, n) /\ queued' = AddTo(queued, p.ord, n)
    BY <1>4, Zenon DEF AttemptDelivery
  <2>2. /\ t \in TaskType /\ t.ord = p.ord /\ t.incarnation = incarnation[p.ord] /\ t.ids = p.ids
        /\ Size(t) = n /\ n \in Nat
    BY <1>1, <1>2 DEF Task, TaskType, Size
  <2> HIDE DEF t, n
  <2>3. \A f \in {box, delivered, queued} :
          /\ AddTo(f, p.ord, n) \in [Actors -> Nat]
          /\ \A q \in Actors : AddTo(f, p.ord, n)[q] = f[q] + IF q = p.ord THEN n ELSE 0
    <3> SUFFICES ASSUME NEW f \in {box, delivered, queued}
                 PROVE  /\ AddTo(f, p.ord, n) \in [Actors -> Nat]
                        /\ \A q \in Actors : AddTo(f, p.ord, n)[q] = f[q] + IF q = p.ord THEN n ELSE 0
      BY Zenon
    <3>1. f \in [Actors -> Nat]
      BY <1>1, Zenon
    <3>2. n \in Int /\ f[p.ord] + n \in Nat
      BY <1>2, <2>2, <3>1
    <3> QED
      BY <1>2, <3>1, <3>2, Added
  <2>4. /\ priority' \in Seq(TaskType) /\ ready' \in Seq(TaskType)
        /\ \A g \in [TaskType -> Nat] :
             Weight(g, priority') + Weight(g, ready') = Weight(g, priority) + Weight(g, ready) + g[t]
    BY <1>1, <2>1, <2>2, Enqueued, Zenon
  <2>5. KnownIncarnations(priority)' /\ KnownIncarnations(ready)'
    <3>1. t.incarnation <= incarnation[t.ord]
      BY <1>1, <1>2, <2>2
    <3>2. KnownIncarnations(Append(priority, t)) /\ KnownIncarnations(Append(ready, t))
      BY <1>1, <2>2, <3>1, AppendKnown, Zenon
    <3>3. priority' \in {priority, Append(priority, t)} /\ ready' \in {ready, Append(ready, t)}
      BY <2>1, Zenon DEF Enqueue
    <3> QED
      BY <1>1, <3>2, <3>3, Zenon DEF KnownIncarnations
  <2>6. ASSUME NEW o \in Actors PROVE Slots(o)'
    <3> DEFINE F == ForActor(o)
               C == OfCurrent(o, alive, incarnation)
               d == IF o = p.ord THEN n ELSE 0
    <3>1. F \in [TaskType -> Nat] /\ C \in [TaskType -> Nat]
      BY WeightsOfTasks, Zenon
    <3>2. F[t] = d /\ C[t] = d
      BY <2>1, <2>2, Zenon DEF ForActor, OfCurrent, n
    <3>3. OfCurrent(o, alive', incarnation') = C
      BY Zenon
    <3>4. /\ box'[o] = box[o] + d /\ delivered'[o] = delivered[o] + d /\ queued'[o] = queued[o] + d
          /\ consumed'[o] = consumed[o] /\ dropped'[o] = dropped[o] /\ alive'[o] = alive[o]
      BY <2>1, <2>3, Zenon
    <3>5. Slots(o) /\ {box[o], delivered[o], queued[o], consumed[o], dropped[o]} \subseteq Nat /\ d \in Nat
      BY <1>1, <2>2
    <3> HIDE DEF d, F, C
    <3>6. /\ Weight(F, priority') + Weight(F, ready') = Weight(F, priority) + Weight(F, ready) + d
          /\ Weight(C, priority') + Weight(C, ready') = Weight(C, priority) + Weight(C, ready) + d
      BY <2>4, <3>1, <3>2, Zenon
    <3>7. queued'[o] = Weight(F, priority') + Weight(F, ready')
      BY <3>4, <3>5, <3>6, Zenon DEF Slots, F
    <3>8. ASSUME alive[o]
          PROVE  /\ box'[o] = delivered'[o] - consumed'[o] - dropped'[o]
                 /\ box'[o] = Weight(C, priority') + Weight(C, ready')
      BY <3>4, <3>5, <3>6, <3>8 DEF Slots, C
    <3> QED
      BY <3>3, <3>4, <3>7, <3>8, Zenon DEF Slots, F
  <2>7. {box', delivered', queued'} \subseteq [Actors -> Nat]
    BY <2>1, <2>3
  <2>8. blocked' \in Seq(PayloadType) /\ Len(blocked') >= Len(parked) /\ mid_lost' \subseteq Identities
    BY <1>1, <2>1
  <2> QED
    BY <2>4, <2>5, <2>6, <2>7, <2>8, Zenon
<1> QED
  BY <1>3, <1>4, Zenon

(* Whatever attempt_delivery decides, each message of the send is in one
   place more: on its way, or lost. *)
LEMMA AttemptedFate ==
  ASSUME Inv, NEW p \in PayloadType, NEW parked \in Seq(PayloadType), AttemptDelivery(p, parked),
         NEW m \in Identities,
         NEW b, b = IF m \in Range(p.ids) THEN 1 ELSE 0,
         NEW before, before = TaskCopies(m) + Weight(SendWith(m), parked)
  PROVE  \/ TaskCopies(m)' + Weight(SendWith(m), blocked') = before + b /\ Lost(m)' = Lost(m)
         \/ /\ TaskCopies(m)' + Weight(SendWith(m), blocked') = before
            /\ Lost(m)' = IF b = 1 THEN 1 ELSE Lost(m)
<1>1. /\ TypeOK /\ priority \in Seq(TaskType) /\ ready \in Seq(TaskType)
      /\ incarnation \in [Actors -> Nat]
  BY Zenon DEF Inv, TypeOK
<1>2. p.ord \in Actors /\ p.ids \in Seq(Identities) /\ p.high \in BOOLEAN
  BY Zenon DEF PayloadType
<1>3. /\ TaskWith(m) \in [TaskType -> Nat] /\ SendWith(m) \in [PayloadType -> Nat]
      /\ SendWith(m)[p] = b
  BY WeightsOfTasks, Zenon DEF SendWith
<1>4. TaskCopies(m) \in Nat /\ Weight(SendWith(m), parked) \in Nat /\ b \in {0, 1}
  BY <1>1, <1>3, WeightNat, MessageWeights, Zenon
<1>5. CASE /\ MarkLost(Range(p.ids)) /\ blocked' = parked /\ UNCHANGED <<priority, ready>>
  BY <1>5, Zenon DEF MarkLost, Lost, TaskCopies
<1>6. CASE blocked' = Append(parked, p) /\ UNCHANGED <<mid_lost, priority, ready>>
  <2>1. Weight(SendWith(m), blocked') = Weight(SendWith(m), parked) + b
    <3>1. Weight(SendWith(m), Append(parked, p)) = Weight(SendWith(m), parked) + SendWith(m)[p]
      BY <1>3, WeightMore
    <3> QED
      BY <1>3, <1>6, <3>1, Zenon
  <2>2. TaskCopies(m)' = TaskCopies(m) /\ Lost(m)' = Lost(m)
    BY <1>6, Zenon DEF TaskCopies, Lost
  <2> QED
    BY <1>4, <2>1, <2>2
<1>7. CASE /\ Enqueue(Task(p.ord, incarnation[p.ord], p.ids, p.high))
           /\ blocked' = parked /\ UNCHANGED mid_lost
  <2> DEFINE t == Task(p.ord, incarnation[p.ord], p.ids, p.high)
  <2>1. t \in TaskType /\ t.ids = p.ids
    BY <1>1, <1>2, Zenon DEF Task, TaskType
  <2>2. TaskWith(m)[t] = b
    BY <2>1, Zenon DEF TaskWith
  <2> HIDE DEF t
  <2>3. Weight(TaskWith(m), priority') + Weight(TaskWith(m), ready')
          = Weight(TaskWith(m), priority) + Weight(TaskWith(m), ready) + TaskWith(m)[t]
    BY <1>1, <1>3, <1>7, <2>1, Enqueued, Zenon DEF t
  <2>4. TaskCopies(m)' = TaskCopies(m) + b
    BY <2>2, <2>3, Zenon DEF TaskCopies
  <2>5. Lost(m)' = Lost(m) /\ Weight(SendWith(m), blocked') = Weight(SendWith(m), parked)
    BY <1>7, Zenon DEF Lost
  <2> QED
    BY <1>4, <2>4, <2>5
<1> QED
  BY <1>5, <1>6, <1>7, Zenon DEF AttemptDelivery

(* The weights of a message are numbers after the step too. *)
LEMMA MessageWeightsAfter ==
  ASSUME TypeOK', NEW m \in Identities
  PROVE  /\ TaskCopies(m)' \in Nat /\ Weight(SendWith(m), blocked') \in Nat /\ Weight(LaterWith(m), delayed') \in Nat
         /\ mid_times'[m] \in Nat /\ Lost(m)' \in {0, 1}
<1>1. /\ priority' \in Seq(TaskType) /\ ready' \in Seq(TaskType) /\ blocked' \in Seq(PayloadType)
      /\ delayed' \in Seq(DelayedType) /\ mid_times'[m] \in Nat /\ Lost(m)' \in {0, 1}
  BY Zenon DEF TypeOK, Lost
<1>2. /\ TaskWith(m) \in [TaskType -> Nat] /\ SendWith(m) \in [PayloadType -> Nat]
      /\ LaterWith(m) \in [DelayedType -> Nat]
  BY WeightsOfTasks, Zenon
<1>3. /\ Weight(TaskWith(m), priority') \in Nat /\ Weight(TaskWith(m), ready') \in Nat
      /\ Weight(SendWith(m), blocked') \in Nat /\ Weight(LaterWith(m), delayed') \in Nat
  BY <1>1, <1>2, WeightNat, Zenon
<1> QED
  BY <1>1, <1>3 DEF TaskCopies

(* A message keeps its fate when a send that carries it (b = 1) or not leaves
   where it was and is then on its way elsewhere, or lost. *)
LEMMA MovedFate ==
  ASSUME Inv, TypeOK', NEW m \in Identities, NEW b \in {0, 1}, NEW before \in Nat,
         UNCHANGED <<next_mid, mid_times, doubled>>,
         TaskCopies(m) + Weight(SendWith(m), blocked) + Weight(LaterWith(m), delayed)
           = before + Weight(LaterWith(m), delayed') + b,
         \/ TaskCopies(m)' + Weight(SendWith(m), blocked') = before + b /\ Lost(m)' = Lost(m)
         \/ /\ TaskCopies(m)' + Weight(SendWith(m), blocked') = before
            /\ Lost(m)' = IF b = 1 THEN 1 ELSE Lost(m)
  PROVE  Fate(m)'
<1>1. /\ TaskCopies(m) \in Nat /\ Weight(SendWith(m), blocked) \in Nat /\ Weight(LaterWith(m), delayed) \in Nat
      /\ mid_times[m] \in Nat /\ Lost(m) \in {0, 1}
  BY MessageWeights, Zenon DEF Inv
<1>2. /\ TaskCopies(m)' \in Nat /\ Weight(SendWith(m), blocked') \in Nat /\ Weight(LaterWith(m), delayed') \in Nat
      /\ mid_times'[m] = mid_times[m] /\ Lost(m)' \in {0, 1}
  BY MessageWeightsAfter, Zenon
<1>3. Fate(m)
  BY Zenon DEF Inv
<1>4. KnownFates(m) = mid_times[m] + (before + Weight(LaterWith(m), delayed') + b) + Lost(m)
  BY <1>1, <1>2 DEF KnownFates
<1>5. KnownFates(m)' = mid_times[m] + (TaskCopies(m)' + Weight(SendWith(m), blocked'))
                         + Weight(LaterWith(m), delayed') + Lost(m)'
  BY <1>1, <1>2 DEF KnownFates
<1>6. /\ KnownFates(m)' = KnownFates(m) \/ (KnownFates(m)' = KnownFates(m) - 1 /\ Lost(m) = 1 /\ b = 1)
      /\ Lost(m)' = 1 => KnownFates(m)' >= 1
      /\ KnownFates(m) \in Nat /\ Lost(m) = 1 /\ b = 1 => KnownFates(m) >= 2
  BY <1>1, <1>2, <1>4, <1>5
<1>7. next_mid' = next_mid /\ doubled' = doubled /\ next_mid \in Nat /\ m \in Nat
  BY SimAssumption DEF Inv, TypeOK, Identities
<1> QED
  BY <1>3, <1>6, <1>7 DEF Fate

-----------------------------------------------------------------------------
(* The steps of a round *)

(* One lemma per step: it preserves the invariant.  The clock advances: no
   sequence changes but for the ticks of the delayed sends. *)
LEMMA BeginRoundStep ==
  ASSUME Inv, BeginRound
  PROVE  Inv'
<1>1. /\ delayed \in Seq(DelayedType) /\ pc' = "inject" /\ \E n \in Rates : left' = n
      /\ delayed' = [i \in DOMAIN delayed |-> [delayed[i] EXCEPT !.ticks = @ - 1]]
      /\ UNCHANGED <<alive, incarnation, box, delivered, consumed, dropped, queued, restarts,
                     priority, ready, blocked, next_mid, mid_times, mid_lost, doubled>>
  BY Zenon DEF Inv, TypeOK, BeginRound, world, ledger, mids
<1>2. \A i \in DOMAIN delayed : delayed'[i] \in DelayedType /\ delayed'[i].payload = delayed[i].payload
  <2>1. \A i \in DOMAIN delayed : delayed[i] \in DelayedType
    BY <1>1
  <2> QED
    BY <1>1, <2>1 DEF DelayedType
<1>3. delayed' \in Seq(DelayedType) /\ DOMAIN delayed' = DOMAIN delayed
  BY <1>1, <1>2
<1>4. TypeOK'
  BY <1>1, <1>3, SimAssumption, Zenon DEF Inv, TypeOK
<1>5. ASSUME NEW m \in Identities PROVE Fate(m)'
  <2>1. [i \in DOMAIN delayed' |-> LaterWith(m)[delayed'[i]]] = [i \in DOMAIN delayed |-> LaterWith(m)[delayed[i]]]
    <3>1. \A i \in DOMAIN delayed : delayed[i] \in DelayedType
      BY <1>1
    <3> QED
      BY <1>2, <1>3, <3>1, Zenon DEF LaterWith
  <2>2. Weight(LaterWith(m), delayed') = Weight(LaterWith(m), delayed)
    BY <2>1, Zenon DEF Weight
  <2>3. KnownFates(m)' = KnownFates(m)
    BY <1>1, <2>2, Zenon DEF KnownFates, TaskCopies, Lost
  <2> QED
    BY <1>1, <2>3, Zenon DEF Inv, Fate
<1>6. \A o \in Actors : Slots(o)'
  BY <1>1, Zenon DEF Inv, Slots
<1> QED
  BY <1>1, <1>4, <1>5, <1>6, Zenon DEF Inv, KnownIncarnations

(* deliver_due: the send leaves the heap and is attempted. *)
LEMMA DeliverDueStep ==
  ASSUME Inv, DeliverDue
  PROVE  Inv'
<1> DEFINE k == Min(Due)
<1>1. k \in Due
  <2>1. Due \subseteq Nat /\ Due # {}
    BY DEF Due, DeliverDue, Inv, TypeOK
  <2>2. PICK n \in Due : \A j \in Due : n <= j
    BY <2>1, LeastNat, Zenon
  <2> QED
    BY <2>2, Zenon DEF Min
<1> HIDE DEF k
<1>2. k \in DOMAIN delayed /\ delayed \in Seq(DelayedType) /\ blocked \in Seq(PayloadType) /\ TypeOK
  BY <1>1, Zenon DEF Due, Inv, TypeOK
<1>3. delayed[k] \in DelayedType /\ delayed[k].payload \in PayloadType
  <2>1. delayed[k] \in DelayedType
    BY <1>2
  <2> QED
    BY <2>1, Zenon DEF DelayedType
<1>4. PICK p \in PayloadType : p = delayed[k].payload
  BY <1>3, Zenon
<1>5. /\ delayed' = RemoveAt(delayed, k) /\ AttemptDelivery(p, blocked) /\ pc = "due"
      /\ UNCHANGED <<pc, left, alive, incarnation, consumed, dropped, restarts, next_mid, mid_times, doubled>>
  BY <1>4, Zenon DEF DeliverDue, k
<1>6. delayed' \in Seq(DelayedType)
  BY <1>2, <1>5, RemoveAtElements, Zenon
<1>7. /\ {box', delivered', queued'} \subseteq [Actors -> Nat]
      /\ priority' \in Seq(TaskType) /\ ready' \in Seq(TaskType) /\ blocked' \in Seq(PayloadType)
      /\ mid_lost' \subseteq Identities
      /\ KnownIncarnations(priority)' /\ KnownIncarnations(ready)'
      /\ \A o \in Actors : Slots(o)'
  BY <1>2, <1>5, Attempted, Zenon
<1>8. TypeOK'
  BY <1>5, <1>6, <1>7 DEF Inv, TypeOK
<1>9. ASSUME NEW m \in Identities PROVE Fate(m)'
  <2> DEFINE b == IF m \in Range(p.ids) THEN 1 ELSE 0
             before == TaskCopies(m) + Weight(SendWith(m), blocked)
  <2>1. Weight(LaterWith(m), delayed) = Weight(LaterWith(m), delayed') + b
    <3>1. LaterWith(m) \in [DelayedType -> Nat] /\ LaterWith(m)[delayed[k]] = b
      BY <1>3, <1>4, WeightsOfTasks, Zenon DEF LaterWith
    <3>2. Weight(LaterWith(m), delayed) = Weight(LaterWith(m), RemoveAt(delayed, k)) + LaterWith(m)[delayed[k]]
      BY <1>2, <3>1, WeightLess
    <3> QED
      BY <1>5, <3>1, <3>2, Zenon
  <2>2. \/ TaskCopies(m)' + Weight(SendWith(m), blocked') = before + b /\ Lost(m)' = Lost(m)
        \/ /\ TaskCopies(m)' + Weight(SendWith(m), blocked') = before
           /\ Lost(m)' = IF b = 1 THEN 1 ELSE Lost(m)
    BY <1>2, <1>5, AttemptedFate
  <2>3. b \in {0, 1}
    BY Zenon
  <2>4. before \in Nat /\ Weight(LaterWith(m), delayed') \in Nat
    <3>1. LaterWith(m) \in [DelayedType -> Nat]
      BY WeightsOfTasks, Zenon
    <3>2. Weight(LaterWith(m), delayed') \in Nat
      BY <1>6, <3>1, WeightNat, Zenon
    <3>3. TaskCopies(m) \in Nat /\ Weight(SendWith(m), blocked) \in Nat
      BY <1>2, MessageWeights, Zenon
    <3> QED
      BY <3>2, <3>3
  <2>5. before + Weight(LaterWith(m), delayed) = before + Weight(LaterWith(m), delayed') + b
    <3> HIDE DEF b, before
    <3> QED
      BY <2>1, <2>3, <2>4
  <2>6. TaskCopies(m) + Weight(SendWith(m), blocked) + Weight(LaterWith(m), delayed)
          = before + Weight(LaterWith(m), delayed') + b
    BY <2>5, Zenon
  <2> HIDE DEF b, before
  <2> QED
    BY <1>5, <1>8, <2>2, <2>3, <2>4, <2>6, MovedFate, Zenon
<1> QED
  BY <1>5, <1>7, <1>8, <1>9, Zenon DEF Inv

(* retry_blocked: the first parked delivery is attempted. *)
LEMMA RetryBlockedStep ==
  ASSUME Inv, RetryBlocked
  PROVE  Inv'
<1>1. /\ left \in Nat /\ left > 0 /\ left <= Len(blocked) /\ blocked \in Seq(PayloadType) /\ blocked # <<>> /\ TypeOK
  BY DEF Inv, TypeOK, RetryBlocked
<1>2. Head(blocked) \in PayloadType /\ Tail(blocked) \in Seq(PayloadType) /\ Len(Tail(blocked)) = Len(blocked) - 1
  BY <1>1
<1>3. PICK p \in PayloadType, parked \in Seq(PayloadType) : p = Head(blocked) /\ parked = Tail(blocked)
  BY <1>2, Zenon
<1>4. /\ AttemptDelivery(p, parked) /\ left' = left - 1
      /\ UNCHANGED <<pc, alive, incarnation, consumed, dropped, restarts, delayed, next_mid, mid_times, doubled>>
  BY <1>3, Zenon DEF RetryBlocked
<1>5. /\ {box', delivered', queued'} \subseteq [Actors -> Nat]
      /\ priority' \in Seq(TaskType) /\ ready' \in Seq(TaskType) /\ blocked' \in Seq(PayloadType)
      /\ mid_lost' \subseteq Identities /\ Len(blocked') >= Len(parked)
      /\ KnownIncarnations(priority)' /\ KnownIncarnations(ready)'
      /\ \A o \in Actors : Slots(o)'
  BY <1>4, Attempted, Zenon
<1>6. left' \in Nat /\ left' <= Len(blocked')
  BY <1>1, <1>2, <1>3, <1>4, <1>5
<1>7. TypeOK'
  BY <1>4, <1>5, <1>6 DEF Inv, TypeOK
<1>8. ASSUME NEW m \in Identities PROVE Fate(m)'
  <2> DEFINE b == IF m \in Range(p.ids) THEN 1 ELSE 0
             before == TaskCopies(m) + Weight(SendWith(m), parked)
  <2>1. Weight(SendWith(m), blocked) = Weight(SendWith(m), parked) + b
    <3>1. SendWith(m) \in [PayloadType -> Nat] /\ SendWith(m)[Head(blocked)] = b
      BY <1>3, WeightsOfTasks, Zenon DEF SendWith
    <3>2. Weight(SendWith(m), blocked) = Weight(SendWith(m), Tail(blocked)) + SendWith(m)[Head(blocked)]
      BY <1>1, <3>1, WeightTail, Zenon
    <3> QED
      BY <1>3, <3>1, <3>2, Zenon
  <2>2. \/ TaskCopies(m)' + Weight(SendWith(m), blocked') = before + b /\ Lost(m)' = Lost(m)
        \/ /\ TaskCopies(m)' + Weight(SendWith(m), blocked') = before
           /\ Lost(m)' = IF b = 1 THEN 1 ELSE Lost(m)
    BY <1>4, AttemptedFate
  <2>3. b \in {0, 1} /\ Weight(SendWith(m), parked) \in Nat
    BY WeightsOfTasks, WeightNat, Zenon
  <2>4. Weight(LaterWith(m), delayed') = Weight(LaterWith(m), delayed)
    BY <1>4, Zenon
  <2>5. TaskCopies(m) \in Nat /\ Weight(LaterWith(m), delayed) \in Nat
    BY <1>1, MessageWeights, Zenon
  <2>6. before \in Nat
    BY <2>3, <2>5
  <2>7. TaskCopies(m) + Weight(SendWith(m), blocked) + Weight(LaterWith(m), delayed)
          = before + Weight(LaterWith(m), delayed') + b
    <3> HIDE DEF b
    <3> QED
      BY <2>1, <2>3, <2>4, <2>5
  <2> HIDE DEF b, before
  <2> QED
    BY <1>4, <1>7, <2>2, <2>3, <2>6, <2>7, MovedFate, Zenon
<1> QED
  BY <1>4, <1>5, <1>6, <1>7, <1>8, Zenon DEF Inv

(* The lesser of two numbers. *)
LEMMA MinOfTwo ==
  ASSUME NEW a \in Nat, NEW b \in Nat
  PROVE  Min({a, b}) \in Nat /\ Min({a, b}) <= a /\ Min({a, b}) <= b
<1>1. \E x \in {a, b} : \A y \in {a, b} : x <= y
  OBVIOUS
<1>2. PICK x \in {a, b} : x = Min({a, b}) /\ \A y \in {a, b} : x <= y
  BY <1>1, Zenon DEF Min
<1> QED
  BY <1>2, Zenon

(* The loop of a phase ends: as many deliveries as are parked are retried. *)
LEMMA EndPhaseStep ==
  ASSUME Inv, EndPhase
  PROVE  Inv'
<1>1. /\ UNCHANGED <<alive, incarnation, box, delivered, consumed, dropped, queued, restarts, priority, ready,
                     delayed, blocked, next_mid, mid_times, mid_lost, doubled>>
      /\ \/ pc' = "due" /\ left' = 0
         \/ pc' = "retry" /\ left' = Min({RetriesPerTick, Len(blocked)})
         \/ pc' = "process" /\ left' = ProcessingPerTick
         \/ pc' = "round" /\ left' = 0
  BY Zenon DEF EndPhase, world, ledger, mids
<1>2. RetriesPerTick \in Nat /\ ProcessingPerTick \in Nat /\ Len(blocked) \in Nat
  BY SimAssumption DEF Inv, TypeOK
<1>3. /\ pc' \in {"round", "inject", "due", "retry", "process"} /\ left' \in Nat
      /\ pc' = "retry" => left' <= Len(blocked')
  BY <1>1, <1>2, MinOfTwo
<1>4. TypeOK'
  BY <1>1, <1>3, Zenon DEF Inv, TypeOK
<1>5. \A o \in Actors : Slots(o)'
  BY <1>1, Zenon DEF Inv, Slots
<1>6. \A m \in Identities : Fate(m)'
  BY <1>1, Zenon DEF Inv, Fate, KnownFates, TaskCopies, Lost
<1> QED
  BY <1>1, <1>3, <1>4, <1>5, <1>6, Zenon DEF Inv, KnownIncarnations

(* A message that was not sent is not lost. *)
LEMMA UnsentLost ==
  ASSUME Inv, NEW m \in Identities, NEW n \in Nat, m \in (next_mid + 1)..(next_mid + n)
  PROVE  Lost(m) = 0
<1>1. /\ TaskCopies(m) \in Nat /\ Weight(SendWith(m), blocked) \in Nat
      /\ Weight(LaterWith(m), delayed) \in Nat /\ mid_times[m] \in Nat /\ Lost(m) \in {0, 1}
  BY MessageWeights, Zenon DEF Inv
<1>2. next_mid \in Nat /\ ~(m <= next_mid)
  BY SimAssumption DEF Inv, TypeOK
<1>3. KnownFates(m) = 0
  BY <1>2, Zenon DEF Inv, Fate
<1> QED
  BY <1>1, <1>3 DEF KnownFates

(* The fate of the messages of a send (b = 1) and of the others, when each of
   the first has k copies more or is lost. *)
LEMMA SentFate ==
  ASSUME Inv, TypeOK', NEW m \in Identities, NEW n \in Nat, NEW b \in {0, 1}, NEW k \in Nat \ {0},
         next_mid' = next_mid + n, b = 1 <=> m \in (next_mid + 1)..(next_mid + n),
         KnownFates(m)' = KnownFates(m) + (IF b = 1 THEN k ELSE 0),
         m \notin doubled' => m \notin doubled,
         (b = 1 /\ m \notin doubled') => k = 1
  PROVE  Fate(m)'
<1>1. Fate(m) /\ next_mid \in Nat /\ m \in Nat
  <2>1. Fate(m)
    BY Zenon DEF Inv
  <2>2. next_mid \in 0..Messages /\ m \in 1..Messages /\ Messages \in Nat
    BY SimAssumption, Zenon DEF Inv, TypeOK, Identities
  <2> QED
    BY <2>1, <2>2
<1>2. /\ TaskCopies(m) \in Nat /\ Weight(SendWith(m), blocked) \in Nat /\ Weight(LaterWith(m), delayed) \in Nat
      /\ mid_times[m] \in Nat /\ Lost(m) \in {0, 1}
  BY MessageWeights, Zenon DEF Inv
<1>3. KnownFates(m) \in Nat
  BY <1>2 DEF KnownFates
<1>4. CASE b = 1
  <2>1. m > next_mid /\ m <= next_mid' /\ KnownFates(m)' = KnownFates(m) + k
    BY <1>1, <1>4
  <2>2. KnownFates(m) = 0
    BY <1>1, <2>1 DEF Fate
  <2>3. KnownFates(m)' = k
    BY <2>1, <2>2
  <2> QED
    BY <1>4, <2>1, <2>3 DEF Fate
<1>5. CASE b = 0
  <2>1. KnownFates(m)' = KnownFates(m) /\ (m <= next_mid' <=> m <= next_mid)
    BY <1>1, <1>3, <1>5
  <2> QED
    BY <1>1, <2>1, Zenon DEF Fate
<1> QED
  BY <1>4, <1>5, Zenon

(* The messages of a send are the next identities. *)
LEMMA SentIds ==
  ASSUME NEW next \in 0..Messages, NEW n \in 1..Min({MaxBatch, Messages - next}), NEW ids,
         ids = [i \in 1..n |-> next + i]
  PROVE  /\ n \in Nat \ {0} /\ next + n <= Messages
         /\ ids \in Seq(Identities) \ {<<>>} /\ Range(ids) = (next + 1)..(next + n)
<1>1. Messages \in Nat /\ next \in Nat /\ Messages - next \in Nat /\ MaxBatch \in Nat
  BY SimAssumption DEF MaxBatch
<1>2. Min({MaxBatch, Messages - next}) \in Nat /\ Min({MaxBatch, Messages - next}) <= Messages - next
  BY <1>1, MinOfTwo, Zenon
<1>3. n \in Nat \ {0} /\ next + n <= Messages
  BY <1>1, <1>2
<1>4. ids \in [1..n -> 1..Messages]
  BY <1>1, <1>3
<1>5. ids \in Seq(Identities) /\ Len(ids) = n
  BY <1>3, <1>4 DEF Identities
<1>6. ids # <<>>
  BY <1>3, <1>5, Zenon
<1>7. \A m \in (next + 1)..(next + n) : m - next \in 1..n /\ ids[m - next] = m
  BY <1>1, <1>3
<1>8. Range(ids) = (next + 1)..(next + n)
  <2>1. ASSUME NEW m \in Range(ids) PROVE m \in (next + 1)..(next + n)
    <3>1. PICK i \in 1..n : m = next + i
      BY Zenon DEF Range
    <3> QED
      BY <1>1, <1>3, <3>1
  <2>2. ASSUME NEW m \in (next + 1)..(next + n) PROVE m \in Range(ids)
    BY <1>7, Zenon DEF Range
  <2> QED
    BY <2>1, <2>2, Zenon
<1> QED
  BY <1>3, <1>5, <1>6, <1>8, Zenon

(* What is delayed: the send, its second copy, both or neither. *)
WithLater(s, p, a, b, second) ==
  s \o (IF a > 0 THEN <<[ticks |-> a, payload |-> p]>> ELSE <<>>)
    \o (IF second THEN <<[ticks |-> b, payload |-> p]>> ELSE <<>>)

(* The weight of the delayed sends with up to two more of them. *)
LEMMA LaterAppended ==
  ASSUME NEW s \in Seq(DelayedType), NEW p \in PayloadType, NEW a \in Int, NEW b \in Int,
         NEW second \in BOOLEAN, NEW m
  PROVE  /\ WithLater(s, p, a, b, second) \in Seq(DelayedType)
         /\ Weight(LaterWith(m), WithLater(s, p, a, b, second))
              = Weight(LaterWith(m), s)
                  + (IF a > 0 THEN (IF m \in Range(p.ids) THEN 1 ELSE 0) ELSE 0)
                  + (IF second THEN (IF m \in Range(p.ids) THEN 1 ELSE 0) ELSE 0)
<1> DEFINE x == [ticks |-> a, payload |-> p]
           y == [ticks |-> b, payload |-> p]
           c == IF m \in Range(p.ids) THEN 1 ELSE 0
           q == IF a > 0 THEN Append(s, x) ELSE s
           r == WithLater(s, p, a, b, second)
<1>1. x \in DelayedType /\ y \in DelayedType
  BY Zenon DEF DelayedType
<1>2. LaterWith(m) \in [DelayedType -> Nat] /\ LaterWith(m)[x] = c /\ LaterWith(m)[y] = c /\ c \in Nat
  BY <1>1, WeightsOfTasks, Zenon DEF LaterWith
<1> HIDE DEF c
<1>3. r = IF second THEN Append(q, y) ELSE q
  <2> HIDE DEF x, y
  <2>1. s \o <<x>> = Append(s, x) /\ s \o <<>> = s
    BY <1>1
  <2>2. q \in Seq(DelayedType)
    BY <1>1
  <2>3. s \o (IF a > 0 THEN <<x>> ELSE <<>>) = q
    BY <2>1, Zenon
  <2> HIDE DEF q
  <2>4. q \o <<y>> = Append(q, y) /\ q \o <<>> = q
    BY <1>1, <2>2
  <2> QED
    BY <2>3, <2>4, Zenon DEF x, y, WithLater
<1> HIDE DEF x, y, r
<1>4. q \in Seq(DelayedType) /\ Weight(LaterWith(m), q) = Weight(LaterWith(m), s) + (IF a > 0 THEN c ELSE 0)
  <2>1. Weight(LaterWith(m), s) \in Nat
    BY <1>2, WeightNat, Zenon
  <2>2. Append(s, x) \in Seq(DelayedType) /\ Weight(LaterWith(m), Append(s, x)) = Weight(LaterWith(m), s) + LaterWith(m)[x]
    BY <1>1, <1>2, WeightMore
  <2> QED
    BY <1>2, <2>1, <2>2
<1> HIDE DEF q
<1>5. r \in Seq(DelayedType) /\ Weight(LaterWith(m), r) = Weight(LaterWith(m), q) + (IF second THEN c ELSE 0)
  <2>1. Weight(LaterWith(m), q) \in Nat
    BY <1>2, <1>4, WeightNat, Zenon
  <2>2. Append(q, y) \in Seq(DelayedType) /\ Weight(LaterWith(m), Append(q, y)) = Weight(LaterWith(m), q) + LaterWith(m)[y]
    BY <1>1, <1>2, <1>4, WeightMore
  <2>3. CASE second
    <3>1. r = Append(q, y) /\ LaterWith(m)[y] = c
      BY <1>2, <1>3, <2>3, Zenon
    <3> QED
      BY <2>2, <2>3, <3>1, Zenon
  <2>4. CASE ~second
    <3>1. r = q
      BY <1>3, <2>4, Zenon
    <3>2. r \in Seq(DelayedType) /\ Weight(LaterWith(m), r) = Weight(LaterWith(m), q)
      BY <1>4, <3>1, Zenon
    <3> QED
      BY <2>1, <2>4, <3>2
  <2> QED
    BY <2>3, <2>4, Zenon
<1> QED
  BY <1>4, <1>5, Zenon DEF c, r

(* inject_one: rejected, the messages are lost; otherwise each is delivered
   now or later, and a second time if the transport doubles it. *)
LEMMA InjectOneStep ==
  ASSUME Inv, InjectOne
  PROVE  Inv'
<1>1. /\ TypeOK /\ next_mid \in 0..Messages /\ left \in Nat /\ left > 0 /\ pc = "inject"
      /\ delayed \in Seq(DelayedType) /\ blocked \in Seq(PayloadType)
      /\ mid_lost \subseteq Identities /\ doubled \subseteq 1..next_mid
      /\ priority \in Seq(TaskType) /\ ready \in Seq(TaskType)
  BY Zenon DEF Inv, TypeOK, InjectOne
<1> DEFINE Sent(n, ids, p) ==
        /\ next_mid' = next_mid + n
        /\ \/ /\ MarkLost(Range(ids))
              /\ UNCHANGED <<box, delivered, queued, priority, ready, delayed, blocked, doubled>>
           \/ \E delay \in {0} \cup (IF "delay" \in Faults THEN Delays ELSE {}),
                 twice \in {FALSE, "duplicate" \in Faults} :
                /\ doubled' = IF twice THEN doubled \cup Range(ids) ELSE doubled
                /\ delayed' = delayed \o (IF delay > 0 THEN <<[ticks |-> delay, payload |-> p]>> ELSE <<>>)
                                      \o (IF twice THEN <<[ticks |-> delay + DuplicateGap, payload |-> p]>> ELSE <<>>)
                /\ IF delay = 0
                     THEN AttemptDelivery(p, blocked)
                     ELSE UNCHANGED <<mid_lost, box, delivered, queued, priority, ready, blocked>>
<1>s. PICK o \in Actors, n \in 1..Min({MaxBatch, Messages - next_mid}), high \in BOOLEAN :
        LET ids == [i \in 1..n |-> next_mid + i] IN Sent(n, ids, Payload(o, ids, high))
  BY Zenon DEF InjectOne
<1>2. PICK ids, p : ids = [i \in 1..n |-> next_mid + i] /\ p = Payload(o, ids, high) /\ Sent(n, ids, p)
  BY <1>s, Zenon
<1>3. /\ UNCHANGED <<pc, alive, incarnation, consumed, dropped, restarts, mid_times>> /\ left' = left - 1
  BY Zenon DEF InjectOne
<1>4. /\ n \in Nat \ {0} /\ next_mid + n <= Messages
      /\ ids \in Seq(Identities) \ {<<>>} /\ Range(ids) = (next_mid + 1)..(next_mid + n)
  BY <1>1, <1>2, SentIds, Zenon
<1>5. p \in PayloadType /\ p.ids = ids
  BY <1>2, <1>4, Zenon DEF Payload, PayloadType
<1>6. /\ next_mid' \in 0..Messages /\ left' \in Nat /\ Messages \in Nat /\ Range(ids) \subseteq Identities
      /\ Range(ids) \subseteq 1..next_mid' /\ doubled \subseteq 1..next_mid'
  <2>1. next_mid' = next_mid + n /\ Messages \in Nat
    BY <1>2, SimAssumption, Zenon
  <2>2. next_mid' \in 0..Messages /\ left' \in Nat
    BY <1>1, <1>3, <1>4, <2>1
  <2> QED
    BY <1>1, <1>4, <2>1, <2>2 DEF Identities
<1>7. /\ alive \in [Actors -> BOOLEAN] /\ mid_times \in [Identities -> Nat]
      /\ {incarnation, box, delivered, consumed, dropped, queued, restarts} \subseteq [Actors -> Nat]
  BY <1>1, Zenon DEF TypeOK
<1>8. CASE MarkLost(Range(ids)) /\ UNCHANGED <<box, delivered, queued, priority, ready, delayed, blocked, doubled>>
  <2>1. mid_lost' = mid_lost \cup Range(ids)
    BY <1>8, Zenon DEF MarkLost
  <2>2. TypeOK'
    BY <1>1, <1>3, <1>6, <1>7, <1>8, <2>1, Zenon DEF TypeOK
  <2>3. \A q \in Actors : Slots(q)'
    BY <1>3, <1>8, Zenon DEF Inv, Slots
  <2>4. ASSUME NEW m \in Identities PROVE Fate(m)'
    <3> DEFINE b == IF m \in Range(ids) THEN 1 ELSE 0
    <3>1. b \in {0, 1} /\ (b = 1 <=> m \in (next_mid + 1)..(next_mid + n))
      BY <1>4
    <3>2. b = 1 => Lost(m) = 0
      <4>1. n \in Nat
        BY <1>4, Zenon
      <4> HIDE DEF b
      <4> QED
        BY <3>1, <4>1, UnsentLost, Zenon
    <3>3. Lost(m)' = Lost(m) + b
      BY <2>1, <3>2 DEF Lost
    <3> HIDE DEF b
    <3>4. KnownFates(m)' = KnownFates(m) + b
      <4>1. /\ TaskCopies(m) \in Nat /\ Weight(SendWith(m), blocked) \in Nat
            /\ Weight(LaterWith(m), delayed) \in Nat /\ mid_times[m] \in Nat /\ Lost(m) \in {0, 1}
        BY <1>1, MessageWeights, Zenon
      <4>2. /\ TaskCopies(m)' = TaskCopies(m) /\ Weight(SendWith(m), blocked') = Weight(SendWith(m), blocked)
            /\ Weight(LaterWith(m), delayed') = Weight(LaterWith(m), delayed) /\ mid_times'[m] = mid_times[m]
        BY <1>3, <1>8, Zenon DEF TaskCopies
      <4> QED
        BY <3>1, <3>3, <4>1, <4>2 DEF KnownFates
    <3>5. KnownFates(m)' = KnownFates(m) + (IF b = 1 THEN 1 ELSE 0)
      BY <3>1, <3>4, Zenon
    <3>6. next_mid' = next_mid + n /\ n \in Nat /\ doubled' = doubled
      BY <1>2, <1>4, <1>8, Zenon
    <3>7. PICK k \in Nat \ {0} : k = 1
      OBVIOUS
    <3>8. KnownFates(m)' = KnownFates(m) + (IF b = 1 THEN k ELSE 0)
      BY <3>5, <3>7, Zenon
    <3> QED
      BY <2>2, <3>1, <3>6, <3>7, <3>8, SentFate, Zenon
  <2> QED
    BY <1>1, <1>3, <1>8, <2>2, <2>3, <2>4, Zenon DEF Inv, KnownIncarnations
<1>9. ASSUME NEW delay \in {0} \cup (IF "delay" \in Faults THEN Delays ELSE {}),
             NEW twice \in {FALSE, "duplicate" \in Faults},
             doubled' = IF twice THEN doubled \cup Range(ids) ELSE doubled,
             delayed' = delayed \o (IF delay > 0 THEN <<[ticks |-> delay, payload |-> p]>> ELSE <<>>)
                                \o (IF twice THEN <<[ticks |-> delay + DuplicateGap, payload |-> p]>> ELSE <<>>),
             IF delay = 0
               THEN AttemptDelivery(p, blocked)
               ELSE UNCHANGED <<mid_lost, box, delivered, queued, priority, ready, blocked>>
      PROVE  Inv'
  <2>1. delay \in Nat /\ delay + DuplicateGap \in Int /\ twice \in BOOLEAN
    <3>1. delay \in Nat
      BY SimAssumption
    <3>2. twice \in BOOLEAN
      <4>1. CASE twice = FALSE
        BY <4>1, Zenon
      <4>2. CASE twice = ("duplicate" \in Faults)
        BY <4>2
      <4> QED
        BY <4>1, <4>2, Zenon
    <3> QED
      BY <3>1, <3>2 DEF DuplicateGap
  <2>2. \A m : /\ delayed' \in Seq(DelayedType)
               /\ Weight(LaterWith(m), delayed')
                    = Weight(LaterWith(m), delayed)
                        + (IF delay > 0 THEN (IF m \in Range(p.ids) THEN 1 ELSE 0) ELSE 0)
                        + (IF twice THEN (IF m \in Range(p.ids) THEN 1 ELSE 0) ELSE 0)
    <3> TAKE m
    <3>1. PICK a \in Int, b \in Int : a = delay /\ b = delay + DuplicateGap
      BY <2>1
    <3>2. delayed' = WithLater(delayed, p, a, b, twice)
      BY <1>9, <3>1, Zenon DEF WithLater
    <3>3. /\ WithLater(delayed, p, a, b, twice) \in Seq(DelayedType)
          /\ Weight(LaterWith(m), WithLater(delayed, p, a, b, twice))
               = Weight(LaterWith(m), delayed)
                   + (IF a > 0 THEN (IF m \in Range(p.ids) THEN 1 ELSE 0) ELSE 0)
                   + (IF twice THEN (IF m \in Range(p.ids) THEN 1 ELSE 0) ELSE 0)
      <4>1. delayed \in Seq(DelayedType)
        BY <1>1, Zenon
      <4>2. p \in PayloadType
        BY <1>5, Zenon
      <4>3. twice \in BOOLEAN
        BY <2>1, Zenon
      <4> QED
        BY <4>1, <4>2, <4>3, LaterAppended
    <3> QED
      BY <3>1, <3>2, <3>3, Zenon
  <2>3. /\ {box', delivered', queued'} \subseteq [Actors -> Nat]
        /\ priority' \in Seq(TaskType) /\ ready' \in Seq(TaskType) /\ blocked' \in Seq(PayloadType)
        /\ mid_lost' \subseteq Identities
        /\ KnownIncarnations(priority)' /\ KnownIncarnations(ready)'
        /\ \A q \in Actors : Slots(q)'
    <3>1. CASE delay = 0
      <4>1. AttemptDelivery(p, blocked) /\ UNCHANGED <<alive, incarnation, consumed, dropped>>
        BY <1>3, <1>9, <3>1, Zenon
      <4> QED
        BY <1>1, <1>5, <4>1, Attempted, Zenon
    <3>2. CASE delay # 0
      <4>1. \A q \in Actors : Slots(q)'
        BY <1>3, <1>9, <3>2, Zenon DEF Inv, Slots
      <4>2. KnownIncarnations(priority)' /\ KnownIncarnations(ready)'
        BY <1>3, <1>9, <3>2, Zenon DEF Inv, KnownIncarnations
      <4> QED
        BY <1>1, <1>7, <1>9, <3>2, <4>1, <4>2, Zenon
    <3> QED
      BY <3>1, <3>2, Zenon
  <2>4. doubled' \subseteq 1..next_mid'
    BY <1>6, <1>9, Zenon
  <2>5. TypeOK'
    BY <1>1, <1>3, <1>6, <1>7, <2>2, <2>3, <2>4, Zenon DEF TypeOK
  <2>6. ASSUME NEW m \in Identities PROVE Fate(m)'
    <3> DEFINE b == IF m \in Range(p.ids) THEN 1 ELSE 0
               now == IF delay = 0 THEN 1 ELSE 0
               k == 1 + (IF twice THEN 1 ELSE 0)
               before == TaskCopies(m) + Weight(SendWith(m), blocked)
               after == TaskCopies(m)' + Weight(SendWith(m), blocked')
    <3>1. b \in {0, 1} /\ (b = 1 <=> m \in (next_mid + 1)..(next_mid + n))
      BY <1>4, <1>5
    <3>2. b = 1 => Lost(m) = 0
      <4>1. n \in Nat
        BY <1>4, Zenon
      <4> HIDE DEF b
      <4> QED
        BY <3>1, <4>1, UnsentLost, Zenon
    <3>3. /\ TaskCopies(m) \in Nat /\ Weight(SendWith(m), blocked) \in Nat
          /\ Weight(LaterWith(m), delayed) \in Nat /\ mid_times[m] \in Nat /\ Lost(m) \in {0, 1}
      BY <1>1, MessageWeights, Zenon
    <3>4. /\ TaskCopies(m)' \in Nat /\ Weight(SendWith(m), blocked') \in Nat
          /\ Weight(LaterWith(m), delayed') \in Nat /\ Lost(m)' \in {0, 1}
      BY <2>5, MessageWeightsAfter, Zenon
    <3>5. after + Lost(m)' = before + Lost(m) + (IF delay = 0 THEN b ELSE 0)
      <4>1. CASE delay = 0
        <5>1. \/ after = before + b /\ Lost(m)' = Lost(m)
              \/ after = before /\ Lost(m)' = IF b = 1 THEN 1 ELSE Lost(m)
          BY <1>1, <1>5, <1>9, <4>1, AttemptedFate
        <5> HIDE DEF b, before, after
        <5>2. before \in Nat
          BY <3>3 DEF before
        <5> QED
          BY <3>1, <3>2, <3>3, <4>1, <5>1, <5>2
      <4>2. CASE delay # 0
        <5>1. after = before /\ Lost(m)' = Lost(m)
          BY <1>9, <4>2, Zenon DEF TaskCopies, Lost
        <5> HIDE DEF b, before, after
        <5>2. before \in Nat
          BY <3>3 DEF before
        <5> QED
          BY <3>3, <4>2, <5>1, <5>2
      <4> QED
        BY <4>1, <4>2, Zenon
    <3>6. Weight(LaterWith(m), delayed') = Weight(LaterWith(m), delayed) + (IF delay > 0 THEN b ELSE 0) + (IF twice THEN b ELSE 0)
      BY <2>2, Zenon
    <3>7. KnownFates(m)' = mid_times[m] + after + Weight(LaterWith(m), delayed') + Lost(m)'
      BY <1>3, <3>3, <3>4 DEF KnownFates
    <3>8. KnownFates(m) = mid_times[m] + before + Weight(LaterWith(m), delayed) + Lost(m)
      BY <3>3 DEF KnownFates
    <3>9. after \in Nat /\ before \in Nat
      BY <3>3, <3>4
    <3> HIDE DEF b, before, after
    <3>10. KnownFates(m)' = KnownFates(m) + (IF b = 1 THEN k ELSE 0)
      BY <2>1, <3>1, <3>3, <3>4, <3>5, <3>6, <3>7, <3>8, <3>9
    <3>11. k \in Nat \ {0} /\ (m \notin doubled' => m \notin doubled) /\ ((b = 1 /\ m \notin doubled') => k = 1)
      BY <1>4, <1>9, <3>1
    <3> HIDE DEF k
    <3> QED
      BY <1>2, <1>4, <2>5, <3>1, <3>10, <3>11, SentFate, Zenon
  <2> QED
    BY <1>1, <1>3, <2>3, <2>5, <2>6, Zenon DEF Inv
<1> QED
  BY <1>2, <1>8, <1>9, Zenon
=============================================================================
