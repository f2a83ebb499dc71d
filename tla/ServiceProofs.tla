---------------------------- MODULE ServiceProofs ---------------------------
(***************************************************************************)
(* The two services beside the scheduler.                                  *)
(*                                                                         *)
(* The memory pool: no two blocks share a byte, for every arena size,      *)
(* width of usize and set of sizes, until a size wraps when it is rounded  *)
(* up.  Apart is inductive once it is known that the bump offset is        *)
(* aligned and that the size a borrow looks for is at least the minimum.   *)
(* The pool's byte counters balance: what was allocated and not freed is   *)
(* what callers hold.                                                      *)
(*                                                                         *)
(* Calls: what a caller is told (OwnAnswer), what the tracker keeps        *)
(* (EntryReleased) and what the handler registry knows (TypeIdsHandled),   *)
(* for any number of calls, hosts, types and answers and any timeout.      *)
(***************************************************************************)
EXTENDS MemoryPool, Rpc, SequenceTheorems, FiniteSetTheorems, TLAPS

(* The size that a borrow inside the mutex looks for *)
WantedInv == wanted = 0 \/ (wanted \in Nat /\ HEADER <= wanted)

IInv == TypeOK /\ WantedInv /\ bump_offset % ALIGN = 0 /\ Apart

PoolInv == TypeOK /\ (wrapped \/ IInv)

(* What drop and borrow do to the list: elements move, none appears or doubles. *)
LEMMA UnlinkProperties ==
  ASSUME NEW S, NEW q \in Seq(S), NEW k \in 1..Len(q)
  PROVE  /\ RemoveAt(q, k) \in Seq(S)
         /\ Len(RemoveAt(q, k)) = Len(q) - 1
         /\ \A i \in 1..(Len(q) - 1) : RemoveAt(q, k)[i] = IF i < k THEN q[i] ELSE q[i + 1]
PROOF
<1> DEFINE a == SubSeq(q, 1, k - 1)
           b == SubSeq(q, k + 1, Len(q))
<1>1. a \in Seq(S) /\ Len(a) = k - 1 /\ \A i \in 1..(k - 1) : a[i] = q[i]
  OBVIOUS
<1>2. b \in Seq(S) /\ Len(b) = Len(q) - k /\ \A i \in 1..(Len(q) - k) : b[i] = q[k + i]
  OBVIOUS
<1> HIDE DEF a, b
<1>3. /\ a \o b \in Seq(S) /\ Len(a \o b) = Len(a) + Len(b)
      /\ \A i \in 1..(Len(a) + Len(b)) : (a \o b)[i] = IF i <= Len(a) THEN a[i] ELSE b[i - Len(a)]
  BY <1>1, <1>2, ConcatProperties, Zenon
<1>0. k \in Nat /\ Len(q) \in Nat /\ 1 <= k /\ k <= Len(q)
  OBVIOUS
<1>4. ASSUME NEW i \in 1..(Len(q) - 1)
      PROVE  (a \o b)[i] = IF i < k THEN q[i] ELSE q[i + 1]
  <2>1. CASE i < k
    BY <2>1, <1>1, <1>2, <1>3
  <2>2. CASE ~(i < k)
    <3>1. (a \o b)[i] = b[i - (k - 1)] /\ i - (k - 1) \in 1..(Len(q) - k)
      BY <2>2, <1>0, <1>1, <1>2, <1>3
    <3>2. b[i - (k - 1)] = q[k + (i - (k - 1))]
      BY <3>1, <1>2, Zenon
    <3>3. k + (i - (k - 1)) = i + 1
      BY <1>0
    <3> QED
      BY <3>1, <3>2, <3>3, <2>2, Zenon
  <2> QED
    BY <2>1, <2>2, Zenon
<1>5. RemoveAt(q, k) = a \o b
  BY Zenon DEF RemoveAt, a, b
<1>6. Len(a) + Len(b) = Len(q) - 1
  BY <1>0, <1>1, <1>2
<1> HIDE DEF a, b
<1> QED
  BY <1>3, <1>4, <1>5, <1>6, Zenon

(* A sequence with an element pushed before it. *)
LEMMA PushProperties ==
  ASSUME NEW S, NEW q \in Seq(S), NEW x \in S
  PROVE  /\ <<x>> \o q \in Seq(S)
         /\ Len(<<x>> \o q) = Len(q) + 1
         /\ (<<x>> \o q)[1] = x
         /\ \A i \in 2..(Len(q) + 1) : (<<x>> \o q)[i] = q[i - 1]
  OBVIOUS

(* Rounding up loses nothing and yields a multiple of the alignment. *)
LEMMA AlignedSizeRoundsUp ==
  ASSUME NEW n \in Nat, ~Wraps(n)
  PROVE  /\ AlignedSize(n) \in Nat /\ AlignedSize(n) >= n
         /\ AlignedSize(n) % ALIGN = 0
PROOF
<1>1. Word \in Nat /\ n + 7 < Word
  BY PoolAssumption DEF ALIGN, Wraps
<1>2. (n + 7) % Word = n + 7
  BY <1>1
<1>3. AlignedSize(n) = ((n + 7) \div 8) * 8
  BY <1>2 DEF AlignedSize, ALIGN
<1>4. PICK d \in Nat : d = (n + 7) \div 8
  OBVIOUS
<1>5. 8 * d <= n + 7 /\ n + 7 < 8 * d + 8
  BY <1>4
<1>6. (d * 8) % 8 = 0
  OBVIOUS
<1> QED
  BY <1>3, <1>4, <1>5, <1>6 DEF ALIGN

-----------------------------------------------------------------------------
(* Moving blocks between the callers and the list *)

(* borrow reuses a block of the list. *)
LEMMA ReuseStep ==
  ASSUME IInv, wanted > 0, NEW i \in Fits,
         freed_list' = Unlink(i), HandOut(freed_list[i].start),
         UNCHANGED <<bump_offset, total_freed, wrapped>>
  PROVE  IInv'
PROOF
<1> DEFINE new == [start |-> freed_list[i].start, size |-> wanted]
<1>0. wanted \in Nat /\ HEADER <= wanted /\ bump_offset \in Nat
  BY PoolAssumption DEF IInv, WantedInv, TypeOK
<1>1. i \in 1..Len(freed_list) /\ freed_list[i].size >= wanted /\ freed_list[i] \in Block
  BY DEF Fits, IInv, TypeOK
<1>2. /\ freed_list' \in Seq(Block) /\ Len(freed_list') = Len(freed_list) - 1
      /\ \A j \in 1..Len(freed_list') : freed_list'[j] = IF j < i THEN freed_list[j] ELSE freed_list[j + 1]
  <2>1. freed_list \in Seq(Block) /\ freed_list' = RemoveAt(freed_list, i)
    BY Zenon DEF Unlink, IInv, TypeOK
  <2>2. /\ RemoveAt(freed_list, i) \in Seq(Block)
        /\ Len(RemoveAt(freed_list, i)) = Len(freed_list) - 1
        /\ \A j \in 1..(Len(freed_list) - 1) :
             RemoveAt(freed_list, i)[j] = IF j < i THEN freed_list[j] ELSE freed_list[j + 1]
    BY <2>1, <1>1, UnlinkProperties, Zenon
  <2> QED
    BY <2>1, <2>2, Zenon
<1>3. \A j \in DOMAIN freed_list' : \E m \in DOMAIN freed_list :
        m # i /\ freed_list'[j] = freed_list[m] /\ m = IF j < i THEN j ELSE j + 1
  <2> SUFFICES ASSUME NEW j \in DOMAIN freed_list'
               PROVE  \E m \in DOMAIN freed_list :
                        m # i /\ freed_list'[j] = freed_list[m] /\ m = IF j < i THEN j ELSE j + 1
    BY Zenon
  <2>1. Len(freed_list) \in Nat /\ DOMAIN freed_list = 1..Len(freed_list) /\ DOMAIN freed_list' = 1..Len(freed_list')
    BY <1>2 DEF IInv, TypeOK
  <2>2. j \in Nat /\ 1 <= j /\ j <= Len(freed_list) - 1
    BY <2>1, <1>2
  <2> DEFINE m == IF j < i THEN j ELSE j + 1
  <2>3. m \in DOMAIN freed_list /\ m # i
    BY <2>1, <2>2, <1>1
  <2>4. freed_list'[j] = freed_list[m]
    BY <2>1, <1>2, Zenon
  <2> QED
    BY <2>3, <2>4, Zenon
<1>4. new \in Block /\ Placed(new)
  BY <1>0, <1>1 DEF Block, Placed, IInv, Apart, HEADER
<1>5. \A b \in Block : Disjoint(b, freed_list[i]) => Disjoint(b, new) /\ Disjoint(new, b)
  BY <1>0, <1>1 DEF Disjoint, Block
<1>6. \A b \in Block : Placed(b)' <=> Placed(b)
  BY Zenon DEF Placed
<1>7. held' = held \cup {new} /\ held \subseteq Block /\ wanted' = 0
  BY Zenon DEF HandOut, LeaveMutex, IInv, TypeOK
<1> HIDE DEF new
<1>8. TypeOK' /\ WantedInv'
  <2>1. total_allocated' \in Nat /\ total_freed' \in Nat /\ bump_offset' \in 0..ArenaSize /\ walked' = FALSE
    BY <1>0 DEF IInv, TypeOK, HandOut, LeaveMutex
  <2>2. wrapped' \in BOOLEAN
    BY Zenon DEF IInv, TypeOK
  <2> QED
    BY <2>1, <2>2, <1>2, <1>4, <1>7, Zenon DEF TypeOK, WantedInv
<1>9. Apart'
  <2>1. \A b \in held' : Placed(b)'
    BY <1>4, <1>6, <1>7, Zenon DEF IInv, Apart
  <2>2. (\A j \in DOMAIN freed_list : Placed(freed_list[j]))'
    BY <1>3 DEF IInv, Apart, Placed
  <2>3. \A b, c \in held' : b # c => Disjoint(b, c)
    BY <1>1, <1>5, <1>7 DEF IInv, Apart
  <2>4. \A j \in DOMAIN freed_list' : Disjoint(freed_list'[j], freed_list[i])
    BY <1>1, <1>3 DEF IInv, Apart, TypeOK
  <2>5. \A b \in held', j \in DOMAIN freed_list' : Disjoint(b, freed_list'[j])
    <3> SUFFICES ASSUME NEW b \in held', NEW j \in DOMAIN freed_list'
                 PROVE  Disjoint(b, freed_list'[j])
      BY Zenon
    <3>1. freed_list'[j] \in Block
      BY <1>2
    <3>2. CASE b = new
      BY <3>1, <3>2, <2>4, <1>5, Zenon
    <3>3. CASE b \in held
      BY <3>3, <1>3, Zenon DEF IInv, Apart
    <3> QED
      BY <3>2, <3>3, <1>7, Zenon
  <2>6. \A j, m \in DOMAIN freed_list' : j # m => Disjoint(freed_list'[j], freed_list'[m])
    <3> SUFFICES ASSUME NEW j \in DOMAIN freed_list', NEW m \in DOMAIN freed_list', j # m
                 PROVE  Disjoint(freed_list'[j], freed_list'[m])
      BY Zenon
    <3>1. PICK u \in DOMAIN freed_list : freed_list'[j] = freed_list[u] /\ u = IF j < i THEN j ELSE j + 1
      BY <1>3, Zenon
    <3>2. PICK v \in DOMAIN freed_list : freed_list'[m] = freed_list[v] /\ v = IF m < i THEN m ELSE m + 1
      BY <1>3, Zenon
    <3>3. u # v
      BY <3>1, <3>2, <1>1, <1>2
    <3> QED
      BY <3>1, <3>2, <3>3, Zenon DEF IInv, Apart
  <2> QED
    BY <2>1, <2>2, <2>3, <2>5, <2>6, Zenon DEF Apart
<1> QED
  BY <1>8, <1>9, Zenon DEF IInv

(* borrow takes a new block off the end of what has been bumped. *)
LEMMA BumpStep ==
  ASSUME IInv, wanted > 0, ~Wraps(wanted), wrapped' \in BOOLEAN,
         bump_offset + AlignedSize(wanted) <= ArenaSize,
         bump_offset' = bump_offset + AlignedSize(wanted), HandOut(bump_offset),
         UNCHANGED <<freed_list, total_freed>>
  PROVE  IInv'
PROOF
<1>1. /\ wanted \in Nat /\ HEADER <= wanted
      /\ bump_offset \in Nat /\ bump_offset % ALIGN = 0
  BY PoolAssumption DEF IInv, WantedInv, TypeOK
<1>0. PICK new \in Block : new = [start |-> bump_offset, size |-> wanted]
  BY <1>1, Zenon DEF Block
<1>2. AlignedSize(wanted) \in Nat /\ AlignedSize(wanted) >= wanted /\ AlignedSize(wanted) % ALIGN = 0
  BY <1>1, AlignedSizeRoundsUp, Zenon
<1>3. /\ bump_offset' \in 0..ArenaSize /\ bump_offset + wanted <= bump_offset'
      /\ bump_offset' % ALIGN = 0
  <2>1. \A x, y \in Nat : x % 8 = 0 /\ y % 8 = 0 => (x + y) % 8 = 0
    OBVIOUS
  <2>2. bump_offset' % ALIGN = 0
    BY <2>1, <1>1, <1>2, Zenon DEF ALIGN
  <2> QED
    BY <2>2, <1>1, <1>2, PoolAssumption
<1>4. Placed(new)'
  <2>1. new.start = bump_offset /\ new.size = wanted
    BY <1>0, Zenon
  <2>2. new.start % ALIGN = 0 /\ new.start + new.size <= bump_offset' /\ new.size >= HEADER
    BY <2>1, <1>1, <1>3, Zenon DEF HEADER
  <2> QED
    BY <2>1, <2>2, Zenon DEF Placed
<1>5. \A b \in Block : Placed(b) => Placed(b)' /\ Disjoint(b, new) /\ Disjoint(new, b)
  BY <1>0, <1>1, <1>3 DEF Placed, Disjoint, Block
<1>6. held' = held \cup {new} /\ held \subseteq Block /\ wanted' = 0 /\ freed_list' = freed_list
  BY <1>0, Zenon DEF HandOut, LeaveMutex, IInv, TypeOK
<1>7. \A i \in DOMAIN freed_list : freed_list[i] \in Block
  BY DEF IInv, TypeOK
<1>8. TypeOK' /\ WantedInv'
  <2>1. total_allocated' \in Nat /\ total_freed' \in Nat /\ walked' = FALSE /\ freed_list' \in Seq(Block)
    BY <1>1 DEF IInv, TypeOK, HandOut, LeaveMutex
  <2> QED
    BY <2>1, <1>3, <1>4, <1>6, Zenon DEF TypeOK, WantedInv
<1>9. Apart'
  <2>1. \A b \in held' : Placed(b)'
    BY <1>4, <1>5, <1>6, Zenon DEF IInv, Apart
  <2>2. (\A j \in DOMAIN freed_list : Placed(freed_list[j]))'
    <3>1. \A j \in DOMAIN freed_list : freed_list[j].start + freed_list[j].size <= bump_offset
      BY Zenon DEF IInv, Apart, Placed
    <3>2. \A j \in DOMAIN freed_list : freed_list[j].start + freed_list[j].size <= bump_offset'
      BY <3>1, <1>1, <1>3, <1>7 DEF Block
    <3> QED
      BY <3>2, <1>6 DEF IInv, Apart, Placed
  <2>3. \A b, c \in held' : b # c => Disjoint(b, c)
    BY <1>5, <1>6, Zenon DEF IInv, Apart
  <2>4. \A b \in held', j \in DOMAIN freed_list' : Disjoint(b, freed_list'[j])
    BY <1>5, <1>6, <1>7, Zenon DEF IInv, Apart
  <2> QED
    BY <2>1, <2>2, <2>3, <2>4, <1>6, Zenon DEF IInv, Apart
<1> QED
  BY <1>3, <1>8, <1>9, Zenon DEF IInv

(* A caller drops a block. *)
LEMMA DropStep ==
  ASSUME IInv, NEW b \in held, Drop(b)
  PROVE  IInv'
PROOF
<1>1. b \in Block /\ Placed(b) /\ freed_list \in Seq(Block) /\ held' = held \ {b}
  BY Zenon DEF IInv, TypeOK, Apart, Drop
<1>2. /\ freed_list' \in Seq(Block) /\ Len(freed_list') = Len(freed_list) + 1
      /\ freed_list'[1] = b
      /\ \A i \in 2..(Len(freed_list) + 1) : freed_list'[i] = freed_list[i - 1]
  BY <1>1, PushProperties DEF Drop
<1>3. ASSUME NEW i \in DOMAIN freed_list', i # 1
      PROVE  i \in Nat /\ i - 1 \in DOMAIN freed_list /\ freed_list'[i] = freed_list[i - 1]
  BY <1>1, <1>2, <1>3
<1>4. \A c \in Block : Disjoint(b, c) => Disjoint(c, b)
  BY <1>1, Zenon DEF Disjoint, Block
<1>5. TypeOK' /\ WantedInv' /\ bump_offset' = bump_offset
  <2>1. total_freed' \in Nat /\ UNCHANGED <<wanted, walked, bump_offset, total_allocated, wrapped>>
    BY <1>1 DEF IInv, TypeOK, Drop, Block
  <2> QED
    BY <1>1, <1>2, <2>1, Zenon DEF IInv, TypeOK, WantedInv
<1>6. Apart'
  <2>1. \A c \in held' : Placed(c)'
    BY <1>1, <1>5, Zenon DEF IInv, Apart, Placed
  <2>2. (\A j \in DOMAIN freed_list : Placed(freed_list[j]))'
    BY <1>1, <1>2, <1>3, <1>5, Zenon DEF IInv, Apart, Placed
  <2>3. \A c, d \in held' : c # d => Disjoint(c, d)
    BY <1>1, Zenon DEF IInv, Apart
  <2>4. \A c \in held', j \in DOMAIN freed_list' : Disjoint(c, freed_list'[j])
    BY <1>1, <1>2, <1>3, Zenon DEF IInv, Apart
  <2>5. \A j \in DOMAIN freed_list' : j # 1 => Disjoint(b, freed_list'[j]) /\ Disjoint(freed_list'[j], b)
    BY <1>1, <1>2, <1>3, <1>4 DEF IInv, Apart
  <2>6. ASSUME NEW i \in DOMAIN freed_list', NEW j \in DOMAIN freed_list', i # j
        PROVE  Disjoint(freed_list'[i], freed_list'[j])
    <3>1. CASE i = 1 \/ j = 1
      BY <3>1, <2>5, <2>6, <1>2, Zenon
    <3>2. CASE i # 1 /\ j # 1
      <4>1. i - 1 # j - 1
        BY <3>2, <1>3, <2>6
      <4> QED
        BY <4>1, <3>2, <1>3, Zenon DEF IInv, Apart
    <3> QED
      BY <3>1, <3>2, Zenon
  <2> QED
    BY <2>1, <2>2, <2>3, <2>4, <2>6, Zenon DEF Apart
<1> QED
  BY <1>5, <1>6, Zenon DEF IInv

-----------------------------------------------------------------------------

(* The initial state satisfies the invariant. *)
LEMMA InitIInv == Init => IInv
PROOF
<1> SUFFICES ASSUME Init PROVE IInv
  BY Zenon
<1>1. TypeOK /\ WantedInv
  <2>1. freed_list \in Seq(Block) /\ held \subseteq Block
    BY DEF Init
  <2>2. ArenaSize \in Nat
    BY PoolAssumption, Zenon
  <2>3. bump_offset \in 0..ArenaSize /\ wanted = 0
    BY <2>2 DEF Init
  <2>4. walked \in BOOLEAN /\ wrapped \in BOOLEAN
    BY Zenon DEF Init
  <2> QED
    BY <2>1, <2>3, <2>4 DEF Init, TypeOK, WantedInv
<1>2. bump_offset % ALIGN = 0
  BY DEF Init, ALIGN
<1>3. Apart
  BY DEF Init, Apart
<1> QED
  BY <1>1, <1>2, <1>3, Zenon DEF IInv

(* Every step of the pool keeps its blocks apart, until a size wraps. *)
LEMMA NextIInv ==
  ASSUME PoolInv, [Next]_vars
  PROVE  PoolInv'
PROOF
<1>u. ASSUME UNCHANGED vars PROVE PoolInv'
  <2>1. TypeOK'
    BY <1>u, Zenon DEF vars, PoolInv, TypeOK
  <2> QED
    BY <1>u, <2>1, Zenon DEF vars, PoolInv, IInv, WantedInv, Apart, Placed
<1>0. CASE wrapped
  BY <1>0, <1>u, Zenon DEF Next, Undefined
<1> SUFFICES ASSUME IInv, wrapped = FALSE, [Next]_vars PROVE PoolInv'
  BY <1>0, Zenon DEF PoolInv, TypeOK
<1>1. ASSUME NEW n \in Sizes, Borrow(n) PROVE IInv'
  <2>1. wanted' \in Nat /\ HEADER <= wanted'
    BY <1>1, PoolAssumption DEF Borrow, AdjustedSize, HEADER, MIN_BLOCK_SIZE
  <2>2. UNCHANGED <<walked, bump_offset, freed_list, held, total_allocated, total_freed, wrapped>>
    BY <1>1, Zenon DEF Borrow
  <2> QED
    BY <2>1, <2>2, Zenon DEF IInv, TypeOK, WantedInv, Apart, Placed
<1>2. ASSUME TryFreedList PROVE IInv'
  <2>1. CASE \E i \in Fits : freed_list' = Unlink(i) /\ HandOut(freed_list[i].start)
    BY <2>1, <1>2, ReuseStep, Zenon DEF TryFreedList
  <2>2. CASE walked' = TRUE /\ UNCHANGED <<wanted, freed_list, held, total_allocated>>
    BY <2>2, <1>2, Zenon DEF TryFreedList, IInv, TypeOK, WantedInv, Apart, Placed
  <2> QED
    BY <2>1, <2>2, <1>2, Zenon DEF TryFreedList
<1>3. ASSUME TryBump PROVE PoolInv'
  <2>1. CASE /\ bump_offset' = bump_offset + AlignedSize(wanted) /\ HandOut(bump_offset)
             /\ bump_offset + AlignedSize(wanted) <= ArenaSize /\ wrapped' = Wraps(wanted)
    <3>1. CASE ~Wraps(wanted)
      <4>1. wrapped' \in BOOLEAN
        BY <2>1 DEF Wraps
      <4>2. IInv'
        BY <2>1, <3>1, <4>1, <1>3, BumpStep, Zenon DEF TryBump
      <4> QED
        BY <4>2, Zenon DEF PoolInv, IInv
    <3>2. CASE Wraps(wanted)
      <4>1. wrapped' = TRUE
        BY <2>1, <3>2, Zenon
      <4>2. wanted \in Nat /\ bump_offset \in Nat /\ total_allocated \in Nat /\ total_freed \in Nat
        BY PoolAssumption DEF IInv, TypeOK
      <4>3. AlignedSize(wanted) \in Nat
        <5>1. (wanted + (ALIGN - 1)) % Word \in Nat
          BY <4>2, PoolAssumption DEF ALIGN
        <5> QED
          BY <5>1 DEF AlignedSize, ALIGN
      <4>4. bump_offset' \in 0..ArenaSize /\ total_allocated' \in Nat
        BY <2>1, <4>2, <4>3, PoolAssumption DEF HandOut
      <4>5. [start |-> bump_offset, size |-> wanted] \in Block
        BY <4>2, Zenon DEF Block
      <4>6. held' \subseteq Block /\ wanted' = 0 /\ walked' = FALSE
        BY <2>1, <4>5, Zenon DEF HandOut, LeaveMutex, IInv, TypeOK
      <4>7. freed_list' \in Seq(Block) /\ total_freed' \in Nat /\ wanted' \in Nat
        BY <1>3, <4>6 DEF TryBump, IInv, TypeOK
      <4> QED
        BY <4>1, <4>4, <4>6, <4>7, Zenon DEF PoolInv, TypeOK
    <3> QED
      BY <3>1, <3>2, Zenon
  <2>2. CASE LeaveMutex /\ UNCHANGED <<bump_offset, held, total_allocated, wrapped>>
    <3>1. IInv'
      BY <2>2, <1>3, Zenon DEF TryBump, LeaveMutex, IInv, TypeOK, WantedInv, Apart, Placed
    <3> QED
      BY <3>1, Zenon DEF PoolInv, IInv
  <2> QED
    BY <2>1, <2>2, <1>3, Zenon DEF TryBump
<1>4. ASSUME NEW b \in held, Drop(b) PROVE IInv'
  BY <1>4, DropStep, Zenon
<1>5. ASSUME Reset PROVE IInv'
  BY <1>5, PoolAssumption DEF Reset, IInv, TypeOK, WantedInv, Apart, ALIGN
<1>6. IInv' => PoolInv'
  BY Zenon DEF PoolInv, IInv
<1> QED
  BY <1>u, <1>1, <1>2, <1>3, <1>4, <1>5, <1>6, Zenon DEF Next, Undefined

(* No byte of the arena belongs to two blocks, held or free, whatever sizes
   are borrowed and in whatever order blocks are dropped, until one of the
   last 7 values of usize is asked for and wraps. *)
THEOREM PoolDisjoint == Spec => [](TypeOK /\ BlocksDisjoint)
PROOF
<1>1. PoolInv => TypeOK /\ BlocksDisjoint
  BY Zenon DEF PoolInv, IInv, BlocksDisjoint
<1>2. Init => PoolInv
  BY InitIInv, Zenon DEF PoolInv, IInv
<1>3. PoolInv /\ [Next]_vars => PoolInv'
  BY NextIInv, Zenon
<1> QED
  BY <1>1, <1>2, <1>3, PTL DEF Spec

-----------------------------------------------------------------------------
(* The statistics *)

HeldBytes(S) == UNION {Bytes(b) : b \in S}

Level == total_allocated - total_freed = Cardinality(HeldBytes(held))

(* A block has as many bytes as its size says. *)
LEMMA BytesOf ==
  ASSUME NEW b \in Block
  PROVE  /\ IsFiniteSet(Bytes(b)) /\ Cardinality(Bytes(b)) = b.size
         /\ \A a : a \in Bytes(b) <=> a \in Nat /\ b.start <= a /\ a < b.start + b.size
PROOF
<1>1. b.start \in Nat /\ b.size \in Nat /\ b.start + b.size - 1 \in Int
  BY DEF Block
<1>2. b.start > b.start + b.size - 1 <=> b.size = 0
  BY <1>1
<1>3. b.start + b.size - 1 - b.start + 1 = b.size
  BY <1>1
<1> DEFINE last == b.start + b.size - 1
<1>4. IsFiniteSet(Bytes(b)) /\ Cardinality(Bytes(b)) = b.size
  <2>1. last \in Int /\ b.start \in Int /\ Bytes(b) = b.start .. last
    BY <1>1 DEF Bytes
  <2>2. (b.start > last => b.size = 0) /\ last - b.start + 1 = b.size
    BY <1>1, <1>2, <1>3
  <2> HIDE DEF last
  <2>3. IsFiniteSet(b.start .. last) /\ Cardinality(b.start .. last) = IF b.start > last THEN 0 ELSE last - b.start + 1
    BY <2>1, FS_Interval, Zenon
  <2> QED
    BY <2>1, <2>2, <2>3, Zenon
<1>5. \A a : a \in Bytes(b) <=> a \in Nat /\ b.start <= a /\ a < b.start + b.size
  BY <1>1 DEF Bytes
<1> QED
  BY <1>4, <1>5, Zenon

(* Blocks below a bound have finitely many bytes. *)
LEMMA FinitelyManyBytes ==
  ASSUME NEW S \in SUBSET Block, NEW n \in Nat, \A b \in S : b.start + b.size <= n
  PROVE  IsFiniteSet(HeldBytes(S)) /\ Cardinality(HeldBytes(S)) \in Nat
PROOF
<1>1. ASSUME NEW a \in HeldBytes(S) PROVE a \in Nat /\ a <= n
  <2>1. PICK b \in S : a \in Bytes(b)
    BY Zenon DEF HeldBytes
  <2>2. b \in Block /\ b.start \in Nat /\ b.size \in Nat
    BY Zenon DEF Block
  <2>3. a \in Nat /\ a < b.start + b.size
    BY <2>1, <2>2, BytesOf, Zenon
  <2> QED
    BY <2>2, <2>3
<1>2. IsFiniteSet(HeldBytes(S))
  BY <1>1, FS_BoundedSetOfNaturals, Zenon
<1> QED
  BY <1>2, FS_CardinalityType, Zenon

(* A block apart from all others adds its size to the bytes, and takes it away. *)
LEMMA AddBlock ==
  ASSUME NEW S \in SUBSET Block, NEW n \in Nat, \A b \in S : b.start + b.size <= n,
         NEW c \in Block, \A b \in S : Disjoint(b, c)
  PROVE  Cardinality(HeldBytes(S \cup {c})) = Cardinality(HeldBytes(S)) + c.size
PROOF
<1>1. HeldBytes(S \cup {c}) = HeldBytes(S) \cup Bytes(c)
  BY Zenon DEF HeldBytes
<1>2. HeldBytes(S) \cap Bytes(c) = {}
  <2> SUFFICES ASSUME NEW a \in HeldBytes(S), a \in Bytes(c) PROVE FALSE
    BY Zenon
  <2>1. PICK b \in S : a \in Bytes(b)
    BY Zenon DEF HeldBytes
  <2>2. b.start \in Nat /\ b.size \in Nat /\ c.start \in Nat /\ c.size \in Nat
    BY Zenon DEF Block
  <2>3. a \in Nat /\ b.start <= a /\ a < b.start + b.size /\ c.start <= a /\ a < c.start + c.size
    BY <2>1, BytesOf, Zenon
  <2>4. Disjoint(b, c)
    BY Zenon
  <2> QED
    BY <2>2, <2>3, <2>4 DEF Disjoint
<1>3. IsFiniteSet(HeldBytes(S)) /\ Cardinality(HeldBytes(S)) \in Nat
  BY FinitelyManyBytes, Zenon
<1>4. IsFiniteSet(Bytes(c)) /\ Cardinality(Bytes(c)) = c.size /\ c.size \in Nat
  BY BytesOf, Zenon DEF Block
<1>5. Cardinality(HeldBytes(S) \cup Bytes(c)) = Cardinality(HeldBytes(S)) + Cardinality(Bytes(c)) - Cardinality({})
  BY <1>2, <1>3, <1>4, FS_Union
<1>6. Cardinality({}) = 0
  BY FS_EmptySet, Zenon
<1>7. Cardinality(HeldBytes(S)) + c.size - 0 = Cardinality(HeldBytes(S)) + c.size
  BY <1>3, <1>4
<1> QED
  BY <1>1, <1>4, <1>5, <1>6, <1>7, Zenon

-----------------------------------------------------------------------------
(* A block that is handed out is apart from the blocks in callers' hands. *)
LEMMA HandOutBalanced ==
  ASSUME IInv, IInv', Level, NEW a \in Nat, HandOut(a), UNCHANGED total_freed,
         wanted > 0, \A b \in held : b.start # a
  PROVE  Level'
PROOF
<1> DEFINE c == [start |-> a, size |-> wanted]
<1>1. held \in SUBSET Block /\ held' \in SUBSET Block /\ bump_offset \in Nat /\ wanted \in Nat
  BY PoolAssumption DEF IInv, TypeOK
<1>2. c \in Block /\ c.size = wanted /\ c.start = a
  BY <1>1, Zenon DEF Block
<1>3. held' = held \cup {c} /\ total_allocated' = total_allocated + wanted
  BY Zenon DEF HandOut
<1>4. c \notin held
  BY <1>2, Zenon
<1> HIDE DEF c
<1>5. \A b \in held : Disjoint(b, c)
  BY <1>3, <1>4, Zenon DEF IInv, Apart
<1>6. \A b \in held : b.start + b.size <= bump_offset
  BY Zenon DEF IInv, Apart, Placed
<1>7. Cardinality(HeldBytes(held')) = Cardinality(HeldBytes(held)) + wanted
  BY <1>1, <1>2, <1>3, <1>5, <1>6, AddBlock, Zenon
<1>8. IsFiniteSet(HeldBytes(held)) /\ Cardinality(HeldBytes(held)) \in Nat
  BY <1>1, <1>6, FinitelyManyBytes, Zenon
<1>9. total_allocated \in Nat /\ total_freed \in Nat
  BY Zenon DEF IInv, TypeOK
<1>10. total_allocated - total_freed = Cardinality(HeldBytes(held))
  BY Zenon DEF Level
<1>11. total_allocated' - total_freed' = Cardinality(HeldBytes(held'))
  BY <1>1, <1>3, <1>7, <1>8, <1>9, <1>10
<1> QED
  BY <1>11, Zenon DEF Level

(* A block that is dropped was apart from the others in callers' hands. *)
LEMMA DropBalanced ==
  ASSUME IInv, Level, NEW c \in held, Drop(c)
  PROVE  Level'
PROOF
<1> DEFINE S == held \ {c}
<1>1. held \in SUBSET Block /\ bump_offset \in Nat
  BY PoolAssumption DEF IInv, TypeOK
<1>2. c \in Block /\ c.size \in Nat
  BY <1>1, Zenon DEF Block
<1>3. held' = S /\ total_freed' = total_freed + c.size /\ total_allocated' = total_allocated
  BY Zenon DEF Drop
<1>4. S \cup {c} = held /\ S \in SUBSET Block
  BY <1>1, Zenon
<1>5. \A b \in S : Disjoint(b, c)
  BY Zenon DEF IInv, Apart
<1>6. \A b \in S : b.start + b.size <= bump_offset
  BY Zenon DEF IInv, Apart, Placed
<1> HIDE DEF S
<1>7. Cardinality(HeldBytes(held)) = Cardinality(HeldBytes(S)) + c.size
  BY <1>1, <1>2, <1>4, <1>5, <1>6, AddBlock, Zenon
<1>8. IsFiniteSet(HeldBytes(S)) /\ Cardinality(HeldBytes(S)) \in Nat
  BY <1>1, <1>4, <1>6, FinitelyManyBytes, Zenon
<1>9. total_allocated \in Nat /\ total_freed \in Nat
  BY Zenon DEF IInv, TypeOK
<1>10. total_allocated - total_freed = Cardinality(HeldBytes(held))
  BY Zenon DEF Level
<1>11. total_allocated' - total_freed' = Cardinality(HeldBytes(S))
  BY <1>2, <1>3, <1>7, <1>8, <1>9, <1>10
<1> QED
  BY <1>3, <1>11, Zenon DEF Level

(* No blocks hold no bytes. *)
LEMMA NoBytes == Cardinality(HeldBytes({})) = 0
PROOF
<1>1. HeldBytes({}) = {}
  BY Zenon DEF HeldBytes
<1> QED
  BY <1>1, FS_EmptySet, Zenon

(* What was allocated and not freed is the number of bytes in callers' hands,
   in every order of borrows, reuses and drops, also when a block returns
   larger than it was last handed out, or smaller, until a size wraps. *)
THEOREM PoolBalanced == Spec => []Balanced
PROOF
<1>1. Init => Level
  BY NoBytes DEF Init, Level
<1>2. IInv /\ IInv' /\ Level /\ [Next]_vars => Level'
  <2> SUFFICES ASSUME IInv, IInv', Level, [Next]_vars PROVE Level'
    BY Zenon
  <2>1. CASE UNCHANGED <<held, total_allocated, total_freed>>
    BY <2>1, Zenon DEF Level
  <2>2. ASSUME NEW n \in Sizes, Borrow(n) PROVE Level'
    BY <2>1, <2>2, Zenon DEF Borrow
  <2>3. ASSUME TryFreedList PROVE Level'
    <3>1. ASSUME NEW i \in Fits, HandOut(freed_list[i].start) PROVE Level'
      <4>1. i \in DOMAIN freed_list /\ freed_list[i] \in Block /\ freed_list[i].size >= HEADER
        BY <3>1 DEF Fits, IInv, TypeOK, Apart, Placed
      <4>2. freed_list[i].start \in Nat /\ freed_list[i].size \in Nat
        BY <4>1, Zenon DEF Block
      <4>3. ASSUME NEW b \in held PROVE b.start # freed_list[i].start
        <5>1. b.start \in Nat /\ b.size \in Nat /\ b.size >= HEADER
          BY Zenon DEF IInv, TypeOK, Block, Apart, Placed
        <5>2. Disjoint(b, freed_list[i])
          BY <4>1, Zenon DEF IInv, Apart
        <5> QED
          BY <4>1, <4>2, <5>1, <5>2 DEF Disjoint, HEADER
      <4>4. wanted > 0 /\ UNCHANGED total_freed
        BY <2>3, Zenon DEF TryFreedList
      <4> QED
        BY <3>1, <4>2, <4>3, <4>4, HandOutBalanced, Zenon
    <3> QED
      BY <2>1, <2>3, <3>1, Zenon DEF TryFreedList
  <2>4. ASSUME TryBump PROVE Level'
    <3>1. ASSUME HandOut(bump_offset) PROVE Level'
      <4>1. bump_offset \in Nat /\ wanted > 0 /\ UNCHANGED total_freed
        BY <2>4, PoolAssumption DEF TryBump, IInv, TypeOK
      <4>2. ASSUME NEW b \in held PROVE b.start # bump_offset
        <5>1. b.start \in Nat /\ b.size \in Nat /\ b.size >= HEADER /\ b.start + b.size <= bump_offset
          BY Zenon DEF IInv, TypeOK, Block, Apart, Placed
        <5> QED
          BY <5>1, <4>1 DEF HEADER
      <4> QED
        BY <3>1, <4>1, <4>2, HandOutBalanced, Zenon
    <3> QED
      BY <2>1, <2>4, <3>1, Zenon DEF TryBump
  <2>5. ASSUME NEW b \in held, Drop(b) PROVE Level'
    BY <2>5, DropBalanced, Zenon
  <2>6. ASSUME Reset PROVE Level'
    BY <2>6, NoBytes DEF Reset, Level
  <2> QED
    BY <2>1, <2>2, <2>3, <2>4, <2>5, <2>6, Zenon DEF Next, Undefined, vars
<1>3. [Next]_vars /\ wrapped => wrapped'
  BY Zenon DEF Next, Undefined, vars
<1>4. /\ Init => PoolInv /\ (wrapped \/ Level)
      /\ PoolInv /\ [Next]_vars => PoolInv'
  BY <1>1, InitIInv, NextIInv, Zenon DEF PoolInv, IInv
<1>5. PoolInv /\ (wrapped \/ Level) /\ [Next]_vars => (wrapped \/ Level)'
  BY <1>2, <1>3, <1>4, Zenon DEF PoolInv
<1>6. (wrapped \/ Level) => Balanced
  BY Zenon DEF Balanced, Level, HeldBytes
<1> QED
  BY <1>4, <1>5, <1>6, PTL DEF Spec

-----------------------------------------------------------------------------
(* Calls and their answers.

   OwnAnswer and EntryReleased speak of calls that have returned.  What makes
   them hold is said of the places an answer passes on its way to the caller:
   the hands of a host inside handle_response, and the one-shot channel. *)

(* An answer in the hands of a host has its envelope, and its call was taken
   out of the tracker. *)
TakenInv ==
  \A h \in Hosts : taken[h] # None =>
    taken[h] \in replies /\ pending[taken[h].call] = None

(* What has been sent over the channel of a call is an answer to that call, or
   the timeout of the cleanup task; either way the call has left the tracker. *)
ChannelInv ==
  \A c \in Calls :
    /\ rx[c] \in Answers => [call |-> c, bytes |-> rx[c]] \in replies
    /\ rx[c] \in Answers \cup {"Malformed", "Timeout"} => pending[c] = None

(* Nothing is known of a call that has not begun, and only a call that has
   ended has a result. *)
CallerInv ==
  \A c \in Calls :
    /\ callpc[c] = "new" => /\ pending[c] = None /\ rx[c] = None
                            /\ \A h \in Hosts : taken[h] # None => taken[h].call # c
    /\ callpc[c] # "done" => result[c] = None

RpcInv == OwnAnswer /\ EntryReleased /\ TakenInv /\ ChannelInv /\ CallerInv

-----------------------------------------------------------------------------
(* One lemma per group of operations: it preserves the invariant. *)

(* The end of a call with an error: its receiver is gone, and no answer is
   returned. *)
LEMMA FinishStep ==
  ASSUME RpcInv, NEW c \in Calls,
         NEW r \in {"InternalError", "SerializationError", "Cancelled"}, Finish(c, r),
         UNCHANGED <<pending, timer, type, server, taken, registry>>
  PROVE  RpcInv'
<1> USE RpcAssumption
<1>1. OwnAnswer'
  BY Zenon DEF RpcInv, OwnAnswer, RpcTypeOK, Envelopes, Finish, server, registry, Marks
<1>2. EntryReleased'
  BY Zenon DEF RpcInv, OwnAnswer, EntryReleased, RpcTypeOK, Finish, Marks
<1>3. TakenInv'
  BY Zenon DEF RpcInv, TakenInv, server
<1>4. ChannelInv'
  BY Zenon DEF RpcInv, OwnAnswer, ChannelInv, RpcTypeOK, Finish, server, Marks
<1>5. CallerInv'
  BY Zenon DEF RpcInv, OwnAnswer, CallerInv, RpcTypeOK, Finish, Marks
<1> QED
  BY <1>1, <1>2, <1>3, <1>4, <1>5, Zenon DEF RpcInv

(* call_with_timeout begins: the call enters the tracker with an empty channel. *)
LEMMA CallStep ==
  ASSUME RpcInv, NEW c \in Calls, NEW ty \in Types, Call(c, ty)
  PROVE  RpcInv'
<1> USE RpcAssumption
<1>1. OwnAnswer'
  BY DEF RpcInv, OwnAnswer, RpcTypeOK, Envelopes, Call, server, registry, Marks
<1>2. EntryReleased'
  BY Zenon DEF RpcInv, OwnAnswer, EntryReleased, CallerInv, RpcTypeOK, Call, Marks
<1>3. TakenInv'
  BY DEF RpcInv, OwnAnswer, TakenInv, CallerInv, RpcTypeOK, Call, server
<1>4. ChannelInv'
  BY Zenon DEF RpcInv, OwnAnswer, ChannelInv, RpcTypeOK, Call, server, Marks
<1>5. CallerInv'
  BY Zenon DEF RpcInv, OwnAnswer, CallerInv, RpcTypeOK, Call, Marks
<1> QED
  BY <1>1, <1>2, <1>3, <1>4, <1>5, Zenon DEF RpcInv

(* The send returns, and the caller waits. *)
LEMMA SendAcceptedStep ==
  ASSUME RpcInv, NEW c \in Calls, SendAccepted(c)
  PROVE  RpcInv'
<1> USE RpcAssumption
<1>1. OwnAnswer'
  BY DEF RpcInv, OwnAnswer, RpcTypeOK, Envelopes, SendAccepted, registry
<1>2. EntryReleased' /\ TakenInv' /\ ChannelInv'
  BY Zenon DEF RpcInv, EntryReleased, TakenInv, ChannelInv, SendAccepted
<1>3. CallerInv'
  BY Zenon DEF RpcInv, OwnAnswer, CallerInv, RpcTypeOK, SendAccepted
<1> QED
  BY <1>1, <1>2, <1>3, Zenon DEF RpcInv

(* What the channel holds is returned: the answer is the call's own, and the
   entry is gone. *)
LEMMA ReceiveStep ==
  ASSUME RpcInv, NEW c \in Calls, Receive(c)
  PROVE  RpcInv'
<1> USE RpcAssumption
<1>1. OwnAnswer'
  <2>1. RpcTypeOK'
    BY Zenon DEF RpcInv, OwnAnswer, RpcTypeOK, Envelopes, Receive, Finish, Decode, Arrived, server, registry, Marks
  <2>2. ASSUME NEW d \in Calls, result'[d] \in Answers
        PROVE  [call |-> d, bytes |-> result'[d]] \in replies'
    BY <2>2, Zenon DEF RpcInv, OwnAnswer, ChannelInv, RpcTypeOK, Receive, Finish, Decode, Arrived, server, Marks
  <2> QED
    BY <2>1, <2>2, Zenon DEF OwnAnswer
<1>2. EntryReleased'
  BY Zenon DEF RpcInv, OwnAnswer, EntryReleased, ChannelInv, RpcTypeOK, Receive, Finish, Decode, Arrived, Marks
<1>3. TakenInv'
  BY Zenon DEF RpcInv, TakenInv, Receive, server
<1>4. ChannelInv'
  BY Zenon DEF RpcInv, OwnAnswer, ChannelInv, RpcTypeOK, Receive, Finish, server, Marks
<1>5. CallerInv'
  BY Zenon DEF RpcInv, OwnAnswer, CallerInv, RpcTypeOK, Receive, Finish, Marks
<1> QED
  BY <1>1, <1>2, <1>3, <1>4, <1>5, Zenon DEF RpcInv

(* The caller's own timer: the receiver goes, then the entry. *)
LEMMA TimerFiresStep ==
  ASSUME RpcInv, NEW c \in Calls, TimerFires(c)
  PROVE  RpcInv'
<1> USE RpcAssumption
<1>1. OwnAnswer'
  BY Zenon DEF RpcInv, OwnAnswer, RpcTypeOK, Envelopes, TimerFires, server, registry
<1>2. EntryReleased' /\ TakenInv'
  BY Zenon DEF RpcInv, EntryReleased, TakenInv, TimerFires, server
<1>3. ChannelInv'
  BY Zenon DEF RpcInv, OwnAnswer, ChannelInv, RpcTypeOK, TimerFires, server, Marks
<1>4. CallerInv'
  BY Zenon DEF RpcInv, OwnAnswer, CallerInv, RpcTypeOK, TimerFires
<1> QED
  BY <1>1, <1>2, <1>3, <1>4, Zenon DEF RpcInv

(* The entry of a call is removed after its timeout. *)
LEMMA ExpireStep ==
  ASSUME RpcInv, NEW c \in Calls, Expire(c)
  PROVE  RpcInv'
<1> USE RpcAssumption
<1>1. OwnAnswer'
  BY Zenon DEF RpcInv, OwnAnswer, RpcTypeOK, Envelopes, Expire, Finish, server, registry, Marks
<1>2. EntryReleased'
  BY Zenon DEF RpcInv, OwnAnswer, EntryReleased, RpcTypeOK, Expire, Finish, Marks
<1>3. TakenInv'
  BY Zenon DEF RpcInv, OwnAnswer, TakenInv, RpcTypeOK, Envelopes, Expire, server
<1>4. ChannelInv'
  BY Zenon DEF RpcInv, OwnAnswer, ChannelInv, RpcTypeOK, Expire, Finish, server, Marks
<1>5. CallerInv'
  BY Zenon DEF RpcInv, OwnAnswer, CallerInv, RpcTypeOK, Expire, Finish, Marks
<1> QED
  BY <1>1, <1>2, <1>3, <1>4, <1>5, Zenon DEF RpcInv

(* The callee: requests are lost, dispatched and answered.  Envelopes are only
   ever added. *)
LEMMA ServerStep ==
  ASSUME RpcInv, NEW c \in Calls,
         \/ RequestLost(c) \/ Dispatch(c)
         \/ \E a \in Answers \cup {"Malformed"} : Respond(c, a)
  PROVE  RpcInv'
<1>1. UNCHANGED <<pending, rx, callpc, timer, result, type, taken, registry>>
  BY Zenon DEF RequestLost, Dispatch, Respond
<1>2. /\ requests' \subseteq Calls /\ serving' \subseteq Calls
      /\ replies \subseteq replies' /\ replies' \subseteq Envelopes
  BY DEF RpcInv, OwnAnswer, RpcTypeOK, Envelopes, RequestLost, Dispatch, Respond
<1>3. OwnAnswer'
  BY <1>1, <1>2, Zenon DEF RpcInv, OwnAnswer, RpcTypeOK, registry
<1>4. EntryReleased' /\ CallerInv'
  BY <1>1, Zenon DEF RpcInv, EntryReleased, CallerInv
<1>5. TakenInv' /\ ChannelInv'
  BY <1>1, <1>2, Zenon DEF RpcInv, TakenInv, ChannelInv
<1> QED
  BY <1>3, <1>4, <1>5, Zenon DEF RpcInv

-----------------------------------------------------------------------------
(* handle_response takes the entry of its call, and completes the channel
   after the lock is released. *)
LEMMA HandleResponseStep ==
  ASSUME RpcInv, NEW h \in Hosts, NEW r \in replies, HandleResponse(h, r)
  PROVE  RpcInv'
<1> USE RpcAssumption
<1>1. r \in Envelopes /\ r.call \in Calls
  BY Zenon DEF RpcInv, OwnAnswer, RpcTypeOK, Envelopes
<1>2. OwnAnswer'
  BY <1>1, Zenon DEF RpcInv, OwnAnswer, RpcTypeOK, HandleResponse, server, registry
<1>3. EntryReleased'
  BY <1>1, Zenon DEF RpcInv, OwnAnswer, EntryReleased, RpcTypeOK, HandleResponse
<1>4. TakenInv'
  BY <1>1 DEF RpcInv, OwnAnswer, TakenInv, RpcTypeOK, Envelopes, HandleResponse, server
<1>5. ChannelInv'
  BY <1>1, Zenon DEF RpcInv, OwnAnswer, ChannelInv, RpcTypeOK, HandleResponse, server
<1>6. CallerInv'
  BY <1>1 DEF RpcInv, OwnAnswer, CallerInv, RpcTypeOK, HandleResponse
<1> QED
  BY <1>2, <1>3, <1>4, <1>5, <1>6, Zenon DEF RpcInv

(* A response completes the call whose entry it finds. *)
LEMMA CompleteResponseStep ==
  ASSUME RpcInv, NEW h \in Hosts, CompleteResponse(h)
  PROVE  RpcInv'
<1> USE RpcAssumption
<1> PICK r : r = taken[h]
  BY Zenon
<1>1. /\ r # None /\ r \in replies /\ r.call \in Calls /\ r.bytes \in Answers \cup {"Malformed"}
      /\ r = [call |-> r.call, bytes |-> r.bytes] /\ pending[r.call] = None
  BY Zenon DEF RpcInv, OwnAnswer, TakenInv, RpcTypeOK, Envelopes, CompleteResponse
<1>2. /\ rx' = [rx EXCEPT ![r.call] = IF rx[r.call] = "dropped" THEN "dropped" ELSE r.bytes]
      /\ taken' = [taken EXCEPT ![h] = None]
      /\ UNCHANGED <<pending, callpc, timer, result, type, server, registry>>
  BY Zenon DEF CompleteResponse, Sent
<1>3. OwnAnswer'
  BY <1>1, <1>2, Zenon DEF RpcInv, OwnAnswer, RpcTypeOK, server, registry
<1>4. EntryReleased'
  BY <1>2, Zenon DEF RpcInv, EntryReleased
<1>5. TakenInv'
  BY <1>2, Zenon DEF RpcInv, OwnAnswer, TakenInv, RpcTypeOK, server
<1>6. ChannelInv'
  BY <1>1, <1>2 DEF RpcInv, OwnAnswer, ChannelInv, RpcTypeOK, server, Marks
<1>7. CallerInv'
  BY <1>1, <1>2 DEF RpcInv, OwnAnswer, CallerInv, RpcTypeOK
<1> QED
  BY <1>3, <1>4, <1>5, <1>6, <1>7, Zenon DEF RpcInv

(* cleanup_expired takes entries out of the tracker and puts timeouts into
   their channels; it can do neither for a call that has not begun. *)
LEMMA CleanupStep ==
  ASSUME RpcInv, Cleanup
  PROVE  RpcInv'
<1> USE RpcAssumption
<1>1. \A c \in Calls : /\ pending'[c] \in {pending[c], None}
                       /\ rx'[c] = rx[c] \/ (rx'[c] \in {"dropped", "Timeout"} /\ pending'[c] = None /\ pending[c] # None)
  BY Zenon DEF Cleanup, Expired, Sent
<1>2. /\ pending' = [c \in Calls |-> pending'[c]] /\ rx' = [c \in Calls |-> rx'[c]]
      /\ UNCHANGED <<callpc, timer, result, type, server, taken, registry>>
  BY Zenon DEF Cleanup
<1>3. OwnAnswer'
  BY <1>1, <1>2 DEF RpcInv, OwnAnswer, RpcTypeOK, server, registry
<1>4. EntryReleased'
  BY <1>1, <1>2, Zenon DEF RpcInv, EntryReleased
<1>5. TakenInv'
  BY <1>1, <1>2 DEF RpcInv, OwnAnswer, TakenInv, RpcTypeOK, Envelopes, server
<1>6. ChannelInv'
  BY <1>1, <1>2, Zenon DEF RpcInv, OwnAnswer, ChannelInv, RpcTypeOK, server, Marks
<1>7. CallerInv'
  BY <1>1, <1>2, Zenon DEF RpcInv, CallerInv
<1> QED
  BY <1>3, <1>4, <1>5, <1>6, <1>7, Zenon DEF RpcInv

(* Time passes: no entry appears or goes. *)
LEMMA TickStep ==
  ASSUME RpcInv, Tick
  PROVE  RpcInv'
<1> USE RpcAssumption
<1> DEFINE Times == (0 .. Timeout) \cup {None}
<1>1. \A n \in Times : Less(n) \in Times /\ (n = None => Less(n) = None)
  <2>1. ASSUME NEW n \in 0 .. Timeout
        PROVE  Less(n) \in 0 .. Timeout /\ n # None
    BY <2>1 DEF Less
  <2> QED
    BY <2>1, Zenon DEF Less
<1>2. /\ pending' \in [Calls -> Times] /\ timer' \in [Calls -> Times]
      /\ \A c \in Calls : pending[c] = None => pending'[c] = None
  <2>1. pending \in [Calls -> Times] /\ timer \in [Calls -> Times]
    BY Zenon DEF RpcInv, OwnAnswer, RpcTypeOK
  <2> HIDE DEF Times
  <2> QED
    BY <1>1, <2>1, Zenon DEF Tick
<1>3. UNCHANGED <<rx, callpc, result, type, server, taken, registry>>
  BY Zenon DEF Tick
<1>4. OwnAnswer'
  BY <1>2, <1>3, Zenon DEF RpcInv, OwnAnswer, RpcTypeOK, server, registry
<1>5. EntryReleased' /\ ChannelInv' /\ CallerInv'
  BY <1>2, <1>3, Zenon DEF RpcInv, EntryReleased, ChannelInv, CallerInv, server
<1>6. TakenInv'
  BY <1>2, <1>3, Zenon DEF RpcInv, OwnAnswer, TakenInv, RpcTypeOK, Envelopes, server
<1> QED
  BY <1>4, <1>5, <1>6, Zenon DEF RpcInv

(* The handler registry and the start of the cleanup task leave calls alone. *)
LEMMA RegistryStep ==
  ASSUME RpcInv, UNCHANGED <<pending, rx, callpc, timer, result, type, server, taken>>,
         handlers' \subseteq Types, type_ids' \subseteq Types,
         clearing' \in 0 .. MaxClears, cleaning' \in BOOLEAN
  PROVE  RpcInv'
BY Zenon DEF RpcInv, OwnAnswer, RpcTypeOK, EntryReleased, TakenInv, ChannelInv, CallerInv, server

-----------------------------------------------------------------------------
(* The invariant holds throughout: answers stay with their calls on every path
   from the handler to the caller. *)
THEOREM RpcHolds == RpcSpec => []RpcInv
<1> USE RpcAssumption
<1>0. 0 \in 0 .. MaxClears
  OBVIOUS
<1>1. RpcInit => RpcInv
  BY <1>0, Zenon DEF RpcInit, RpcInv, OwnAnswer, RpcTypeOK, EntryReleased, TakenInv, ChannelInv, CallerInv, Marks
<1>2. RpcInv /\ [RpcNext]_rpc_vars => RpcInv'
  <2> SUFFICES ASSUME RpcInv, [RpcNext]_rpc_vars PROVE RpcInv'
    BY Zenon
  <2>1. ASSUME NEW c \in Calls, NEW ty \in Types, Call(c, ty) PROVE RpcInv'
    BY <2>1, CallStep, Zenon
  <2>2. ASSUME NEW c \in Calls, CallFails(c) \/ SendFails(c) \/ Cancel(c) PROVE RpcInv'
    BY <2>2, FinishStep, Zenon DEF CallFails, SendFails, Cancel
  <2>3. ASSUME NEW c \in Calls, SendAccepted(c) PROVE RpcInv'
    BY <2>3, SendAcceptedStep, Zenon
  <2>4. ASSUME NEW c \in Calls, Proceed(c) PROVE RpcInv'
    BY <2>4, ReceiveStep, TimerFiresStep, ExpireStep, Zenon DEF Proceed
  <2>5. ASSUME NEW c \in Calls,
               \/ RequestLost(c) \/ Dispatch(c)
               \/ \E a \in Answers \cup {"Malformed"} : Respond(c, a)
        PROVE  RpcInv'
    BY <2>5, ServerStep, Zenon
  <2>6. ASSUME NEW h \in Hosts, CompleteResponse(h) PROVE RpcInv'
    BY <2>6, CompleteResponseStep, Zenon
  <2>7. ASSUME NEW h \in Hosts, NEW r \in replies, HandleResponse(h, r) PROVE RpcInv'
    BY <2>7, HandleResponseStep, Zenon
  <2>8. CASE Cleanup
    BY <2>8, CleanupStep, Zenon
  <2>9. CASE Tick
    BY <2>9, TickStep, Zenon
  <2>t. handlers \subseteq Types /\ type_ids \subseteq Types /\ clearing \in 0 .. MaxClears /\ cleaning \in BOOLEAN
    BY Zenon DEF RpcInv, OwnAnswer, RpcTypeOK
  <2>10. CASE StartCleanupTask
    <3>1. /\ UNCHANGED <<pending, rx, callpc, timer, result, type, server, taken>>
          /\ handlers' \subseteq Types /\ type_ids' \subseteq Types /\ clearing' \in 0 .. MaxClears /\ cleaning' \in BOOLEAN
      BY <2>t, <2>10, Zenon DEF StartCleanupTask
    <3> QED
      BY <3>1, RegistryStep, Zenon
  <2>11. ASSUME NEW ty \in Types, RegisterHandler(ty) \/ UnregisterHandler(ty) PROVE RpcInv'
    <3>1. UNCHANGED <<pending, rx, callpc, timer, result, type, server, taken, clearing, cleaning>>
      BY <2>11, Zenon DEF RegisterHandler, UnregisterHandler
    <3>2. handlers' \subseteq Types /\ type_ids' \subseteq Types
      BY <2>t, <2>11, Zenon DEF RegisterHandler, UnregisterHandler
    <3> QED
      BY <2>t, <3>1, <3>2, RegistryStep, Zenon
  <2>12. CASE ClearHandlers \/ ClearTypeIds
    <3>1. /\ UNCHANGED <<pending, rx, callpc, timer, result, type, server, taken>>
          /\ handlers' \subseteq Types /\ type_ids' \subseteq Types /\ cleaning' \in BOOLEAN
      BY <2>t, <2>12, Zenon DEF ClearHandlers, ClearTypeIds
    <3>2. clearing' \in 0 .. MaxClears
      BY <2>t, <2>12 DEF ClearHandlers, ClearTypeIds
    <3> QED
      BY <3>1, <3>2, RegistryStep, Zenon
  <2>13. CASE UNCHANGED rpc_vars
    BY <2>13, RegistryStep, Zenon DEF rpc_vars, server, RpcInv, OwnAnswer, RpcTypeOK
  <2> QED
    BY <2>1, <2>2, <2>3, <2>4, <2>5, <2>6, <2>7, <2>8, <2>9, <2>10, <2>11, <2>12, <2>13, Zenon DEF RpcNext
<1> QED
  BY <1>1, <1>2, PTL DEF RpcSpec

(* A call that returns an answer returns one that a handler gave to it,
   however late, reordered or repeated the answers are. *)
THEOREM AnswersAreOwn == RpcSpec => []OwnAnswer
<1>1. RpcInv => OwnAnswer
  BY Zenon DEF RpcInv
<1> QED
  BY <1>1, RpcHolds, PTL

(* A call that was answered or timed out is no longer in the tracker. *)
THEOREM EntriesAreReleased == RpcSpec => []EntryReleased
<1>1. RpcInv => EntryReleased
  BY Zenon DEF RpcInv
<1> QED
  BY <1>1, RpcHolds, PTL

(* No type id outlives its handler, although clear empties the two maps one
   after the other, and any number of clears may overlap. *)
THEOREM TypeIdsAreHandled == RpcSpec => []TypeIdsHandled
<1>1. RpcInit => TypeIdsHandled
  BY Zenon DEF RpcInit, TypeIdsHandled
<1>2. RpcInv /\ TypeIdsHandled /\ [RpcNext]_rpc_vars => TypeIdsHandled'
  <2> SUFFICES ASSUME RpcInv, TypeIdsHandled, [RpcNext]_rpc_vars PROVE TypeIdsHandled'
    BY Zenon
  <2>1. \/ UNCHANGED <<handlers, type_ids, clearing>>
        \/ \E ty \in Types : RegisterHandler(ty) \/ UnregisterHandler(ty)
        \/ ClearHandlers \/ ClearTypeIds
    BY Zenon DEF RpcNext, rpc_vars, registry, Call, CallFails, SendAccepted, SendFails, Proceed, Receive, TimerFires,
           Expire, Cancel, RequestLost, Dispatch, Respond, CompleteResponse, HandleResponse, StartCleanupTask,
           Cleanup, Tick
  <2>2. ASSUME ClearHandlers PROVE clearing' # 0
    <3>1. clearing \in 0 .. MaxClears /\ clearing' = clearing + 1
      BY <2>2, Zenon DEF ClearHandlers, RpcInv, OwnAnswer, RpcTypeOK
    <3> QED
      BY <3>1, RpcAssumption
  <2> QED
    BY <2>1, <2>2, Zenon DEF TypeIdsHandled, RegisterHandler, UnregisterHandler, ClearTypeIds
<1> QED
  BY <1>1, <1>2, RpcHolds, PTL DEF RpcSpec
=============================================================================
