-------------------------- MODULE SchedulerProofs --------------------------
(***************************************************************************)
(* The scheduler around its dispatch, for any number of threads, ids,      *)
(* names, workers and starts.                                              *)
(*                                                                         *)
(* The registry: its name map agrees with its entries (NamesUnique,        *)
(* NamesResolve, NoDangling) and the policy's count of actors is exact     *)
(* (BudgetExact).  None of the four is inductive.  What makes them hold is *)
(* that a name stays taken from before its entry appears in by_id until    *)
(* after the entry is gone from it, which Inserting and Removing spell out *)
(* for the threads between the two updates.                                *)
(*                                                                         *)
(* start and stop: no worker thread is ever without a handle               *)
(* (WorkersOwned), and as long as calls do not overlap the pool is what    *)
(* the running flag says (PoolMatchesFlag).                                *)
(***************************************************************************)
EXTENDS Registry, Lifecycle, FiniteSetTheorems, TLAPS

LockInv == \A t \in Threads : names_lock = t <=> tpc[t] \in {"insertId", "insertName"}

(* While a thread inserts, its name is free; and when a removal has overtaken
   it, that removal is still to come for the name. *)
Inserting ==
  \A t \in Threads :
    /\ tpc[t] = "insertId" => by_id[id[t]] = Absent
    /\ (tpc[t] \in {"insertId", "insertName"} /\ name[t] \in Names) => by_name[name[t]] = Absent
    /\ tpc[t] = "insertName" =>
         \/ by_id[id[t]] = name[t]
         \/ /\ by_id[id[t]] = Absent
            /\ name[t] \in Names =>
                 \E u \in Threads : tpc[u] = "removeName" /\ id[u] = id[t] /\ name[u] = name[t]

(* While a thread removes a name, nobody has it, the map still leads to the
   removed actor or is about to, and no other thread removes it. *)
Removing ==
  \A u \in Threads : (tpc[u] = "removeName" /\ name[u] \in Names) =>
    /\ \A i \in Ids : by_id[i] # name[u]
    /\ \/ by_name[name[u]] = id[u]
       \/ \E t \in Threads : tpc[t] = "insertName" /\ id[t] = id[u] /\ name[t] = name[u]
    /\ \A v \in Threads : (tpc[v] = "removeName" /\ name[v] = name[u]) => v = u

Inv == TypeOK /\ LockInv /\ Inserting /\ Removing /\ NamesUnique /\ NamesResolve /\ NoDangling

-----------------------------------------------------------------------------
(* One lemma per operation: it preserves the invariant.  The operations that
   begin a call (spawn, register, kill, unregister) only move their thread to
   a label of which the invariant says nothing. *)
LEMMA BeginStep ==
  ASSUME Inv, NEW t \in Threads, NEW k \in {"spawn", "kill", "register", "unregister"},
         NEW i \in Ids, NEW n \in Names \cup {Unnamed},
         NEW label \in {"register", "removeId"}, Begin(t, k, i, n, label),
         UNCHANGED <<by_id, by_name, names_lock, policy, leaked>>, admitted' \in Int
  PROVE  Inv'
<1> USE RegistryAssumption
<1>1. TypeOK'
  BY Zenon DEF Inv, TypeOK, Begin, Goto
<1>2. LockInv'
  BY Zenon DEF Inv, TypeOK, LockInv, Begin, Goto
<1>3. Inserting'
  BY DEF Inv, TypeOK, Inserting, Begin, Goto
<1>4. Removing'
  BY DEF Inv, TypeOK, Removing, Begin, Goto
<1>5. NamesUnique'
  BY Zenon DEF Inv, TypeOK, NamesUnique, Begin, Goto
<1>6. NamesResolve'
  BY Zenon DEF Inv, TypeOK, NamesResolve, Begin, Goto
<1>7. NoDangling'
  BY Zenon DEF Inv, TypeOK, NoDangling, Begin, Goto
<1> QED
  BY <1>1, <1>2, <1>3, <1>4, <1>5, <1>6, <1>7, Zenon DEF Inv

(* The checks of register_named: the lock is taken when nothing is registered
   under the id or the name. *)
LEMMA CheckDuplicatesStep ==
  ASSUME Inv, NEW t \in Threads, CheckDuplicates(t)
  PROVE  Inv'
<1> USE RegistryAssumption
<1>1. TypeOK'
  BY DEF Inv, TypeOK, CheckDuplicates, Duplicate, Return, Goto, Locals
<1>2. LockInv'
  BY DEF Inv, TypeOK, LockInv, CheckDuplicates, Duplicate, Return, Goto, Locals
<1>3. Inserting'
  BY DEF Inv, TypeOK, Inserting, CheckDuplicates, Duplicate, Return, Goto, Locals
<1>4. Removing'
  BY DEF Inv, TypeOK, Removing, CheckDuplicates, Duplicate, Return, Goto, Locals
<1>5. NamesUnique'
  BY Zenon DEF Inv, TypeOK, NamesUnique, CheckDuplicates, Duplicate, Return, Goto, Locals
<1>6. NamesResolve'
  BY DEF Inv, TypeOK, NamesResolve, CheckDuplicates, Duplicate, Return, Goto, Locals
<1>7. NoDangling'
  BY DEF Inv, TypeOK, NoDangling, CheckDuplicates, Duplicate, Return, Goto, Locals
<1> QED
  BY <1>1, <1>2, <1>3, <1>4, <1>5, <1>6, <1>7, Zenon DEF Inv

(* by_id.insert: the name of the new entry is free, so it stays unique. *)
LEMMA InsertIdStep ==
  ASSUME Inv, NEW t \in Threads, InsertId(t)
  PROVE  Inv'
<1> USE RegistryAssumption
<1>1. TypeOK'
  BY Zenon DEF Inv, TypeOK, InsertId, Goto, Locals, budget
<1>2. LockInv'
  BY Zenon DEF Inv, TypeOK, LockInv, InsertId, Goto, Locals
<1>3. Inserting'
  BY DEF Inv, TypeOK, LockInv, Inserting, InsertId, Goto, Locals
<1>4. Removing'
  BY DEF Inv, TypeOK, LockInv, Inserting, Removing, InsertId, Goto, Locals
<1>5. NamesUnique'
  BY DEF Inv, TypeOK, LockInv, Inserting, NamesUnique, NamesResolve, InsertId, Goto, Locals
<1>6. NamesResolve'
  BY DEF Inv, TypeOK, Inserting, NamesResolve, InsertId, Goto, Locals
<1>7. NoDangling'
  BY DEF Inv, TypeOK, Inserting, NoDangling, InsertId, Goto, Locals
<1> QED
  BY <1>1, <1>2, <1>3, <1>4, <1>5, <1>6, <1>7, Zenon DEF Inv

(* by_name.insert: the name leads to the new entry, or to one that a removal
   which has overtaken the registration is about to take away. *)
LEMMA InsertNameStep ==
  ASSUME Inv, NEW t \in Threads, InsertName(t)
  PROVE  Inv'
<1> USE RegistryAssumption
<1>1. TypeOK'
  BY Zenon DEF Inv, TypeOK, InsertName, Return, Goto, budget
<1>2. LockInv'
  BY Zenon DEF Inv, TypeOK, LockInv, InsertName, Return, Goto
<1>3. Inserting'
  BY DEF Inv, TypeOK, LockInv, Inserting, InsertName, Return, Goto
<1>4. Removing'
  BY DEF Inv, TypeOK, LockInv, Inserting, Removing, InsertName, Return, Goto
<1>5. NamesUnique'
  BY Zenon DEF Inv, TypeOK, NamesUnique, InsertName, Return, Goto
<1>6. NamesResolve'
  BY DEF Inv, TypeOK, LockInv, Inserting, Removing, NamesUnique, NamesResolve, InsertName, Return, Goto
<1>7. NoDangling'
  BY DEF Inv, TypeOK, LockInv, Inserting, NoDangling, InsertName, Return, Goto
<1> QED
  BY <1>1, <1>2, <1>3, <1>4, <1>5, <1>6, <1>7, Zenon DEF Inv

(* by_id.remove: the thread that gets the entry owes the removal of its name. *)
LEMMA RemoveIdStep ==
  ASSUME Inv, NEW t \in Threads, RemoveId(t)
  PROVE  Inv'
<1> USE RegistryAssumption
<1>1. TypeOK'
  BY DEF Inv, TypeOK, RemoveId, Return, Goto, budget
<1>2. LockInv'
  BY DEF Inv, TypeOK, LockInv, RemoveId, Return, Goto
<1>3. Inserting'
  BY DEF Inv, TypeOK, LockInv, Inserting, RemoveId, Return, Goto
<1>4. Removing'
  BY DEF Inv, TypeOK, Inserting, Removing, NamesUnique, NamesResolve, RemoveId, Return, Goto
<1>5. NamesUnique'
  BY DEF Inv, TypeOK, NamesUnique, RemoveId, Return, Goto
<1>6. NamesResolve'
  BY DEF Inv, TypeOK, NamesResolve, RemoveId, Return, Goto
<1>7. NoDangling'
  BY DEF Inv, TypeOK, Removing, NoDangling, RemoveId, Return, Goto
<1> QED
  BY <1>1, <1>2, <1>3, <1>4, <1>5, <1>6, <1>7, Zenon DEF Inv

(* by_name.remove: nobody else has the name by then, and nobody inserts it. *)
LEMMA RemoveNameStep ==
  ASSUME Inv, NEW t \in Threads, RemoveName(t)
  PROVE  Inv'
<1> USE RegistryAssumption
<1>1. TypeOK'
  BY DEF Inv, TypeOK, RemoveName, AfterRemoval, Return, Goto, Locals, budget
<1>2. LockInv'
  BY DEF Inv, TypeOK, LockInv, RemoveName, AfterRemoval, Return, Goto, Locals
<1>3. Inserting'
  BY DEF Inv, TypeOK, LockInv, Inserting, Removing, RemoveName, AfterRemoval, Return, Goto, Locals
<1>4. Removing'
  BY DEF Inv, TypeOK, LockInv, Inserting, Removing, RemoveName, AfterRemoval, Return, Goto, Locals
<1>5. NamesUnique'
  BY Zenon DEF Inv, TypeOK, NamesUnique, RemoveName, AfterRemoval, Return, Goto, Locals
<1>6. NamesResolve'
  BY DEF Inv, TypeOK, Removing, NamesResolve, RemoveName, AfterRemoval, Return, Goto, Locals
<1>7. NoDangling'
  BY DEF Inv, TypeOK, Removing, NoDangling, RemoveName, AfterRemoval, Return, Goto, Locals
<1> QED
  BY <1>1, <1>2, <1>3, <1>4, <1>5, <1>6, <1>7, Zenon DEF Inv

(* policy.release_actor touches neither map. *)
LEMMA ReleaseActorStep ==
  ASSUME Inv, NEW t \in Threads, ReleaseActor(t)
  PROVE  Inv'
<1> USE RegistryAssumption
<1>1. TypeOK'
  BY DEF Inv, TypeOK, ReleaseActor, Return, Goto
<1>2. LockInv'
  BY Zenon DEF Inv, TypeOK, LockInv, ReleaseActor, Return, Goto
<1>3. Inserting'
  BY DEF Inv, TypeOK, Inserting, ReleaseActor, Return, Goto
<1>4. Removing'
  BY DEF Inv, TypeOK, Removing, ReleaseActor, Return, Goto
<1>5. NamesUnique'
  BY Zenon DEF Inv, TypeOK, NamesUnique, ReleaseActor, Return, Goto
<1>6. NamesResolve'
  BY Zenon DEF Inv, TypeOK, NamesResolve, ReleaseActor, Return, Goto
<1>7. NoDangling'
  BY Zenon DEF Inv, TypeOK, NoDangling, ReleaseActor, Return, Goto
<1> QED
  BY <1>1, <1>2, <1>3, <1>4, <1>5, <1>6, <1>7, Zenon DEF Inv

-----------------------------------------------------------------------------
(* The registry is empty and no call is in progress. *)
LEMMA InitInv == Init => Inv
  BY RegistryAssumption
  DEF Init, Inv, TypeOK, LockInv, Inserting, Removing, NamesUnique, NamesResolve, NoDangling

(* The invariant is inductive: one case per operation. *)
LEMMA NextInv == Inv /\ [Next]_vars => Inv'
<1> SUFFICES ASSUME Inv, [Next]_vars PROVE Inv'
  BY Zenon
<1>1. CASE UNCHANGED vars
  BY <1>1 DEF vars, Inv, TypeOK, LockInv, Inserting, Removing, NamesUnique, NamesResolve, NoDangling
<1>2. ASSUME NEW t \in Threads, NEW i \in Ids, NEW n \in Names \cup {Unnamed}, Spawn(t, i, n)
      PROVE  Inv'
  <2>1. admitted' \in Int
    BY <1>2 DEF Spawn, Inv, TypeOK
  <2> QED
    BY <1>2, <2>1, BeginStep, Zenon DEF Spawn
<1>3. ASSUME NEW t \in Threads, NEW i \in Ids, NEW n \in Names \cup {Unnamed}, Register(t, i, n)
      PROVE  Inv'
  BY <1>3, BeginStep, Zenon DEF Register, budget, Inv, TypeOK
<1>4. ASSUME NEW t \in Threads, NEW i \in Ids, Kill(t, i) \/ Unregister(t, i)
      PROVE  Inv'
  BY <1>4, BeginStep, Zenon DEF Kill, Unregister, budget, Inv, TypeOK
<1> QED
  BY <1>1, <1>2, <1>3, <1>4, CheckDuplicatesStep, InsertIdStep, InsertNameStep, RemoveIdStep,
     RemoveNameStep, ReleaseActorStep, Zenon DEF Next, ThreadNext

(* The invariant holds in every reachable state. *)
THEOREM InvHolds == Spec => []Inv
  BY InitInv, NextInv, PTL DEF Spec

(* Two registered actors never have the same name (register_named against any
   number of concurrent registrations and removals). *)
THEOREM NamesAreUnique == Spec => []NamesUnique
<1>1. Inv => NamesUnique
  BY Zenon DEF Inv
<1> QED
  BY <1>1, InvHolds, PTL

(* A registered actor is found under its name: no unregister of an earlier
   holder of the name takes it away. *)
THEOREM NamesAreFound == Spec => []NamesResolve
<1>1. Inv => NamesResolve
  BY Zenon DEF Inv
<1> QED
  BY <1>1, InvHolds, PTL

(* No name is held for ever by an actor that is gone: a name without its entry
   has an unregister on its way to it. *)
THEOREM NamesAreReleased == Spec => []NoDangling
<1>1. Inv => NoDangling
  BY Zenon DEF Inv
<1> QED
  BY <1>1, InvHolds, PTL

-----------------------------------------------------------------------------
(* The budget of the resource policy.  With a policy every registration is part
   of a spawn and every removal part of a kill.  Of the three sets that the
   count is made of, each step adds or removes one element at most, so they
   stay finite whatever Ids and Threads are. *)
BudgetInv ==
  policy =>
    /\ \A t \in Threads : /\ tpc[t] \in {"register", "insertId", "insertName"} => op[t] = "spawn"
                          /\ tpc[t] \in {"removeId", "removeName", "release"} => op[t] = "kill"
    /\ IsFiniteSet(Held) /\ IsFiniteSet(Spawning) /\ IsFiniteSet(Releasing)
    /\ BudgetExact

(* What a step does to the size of a finite set that gains or loses one element. *)
LEMMA OneMore ==
  ASSUME NEW S, NEW x, IsFiniteSet(S), x \notin S
  PROVE  IsFiniteSet(S \cup {x}) /\ Cardinality(S \cup {x}) = Cardinality(S) + 1 /\ Cardinality(S) \in Nat
BY FS_AddElement, FS_CardinalityType, Zenon

(* An element that is removed takes one from the cardinality. *)
LEMMA OneLess ==
  ASSUME NEW S, NEW x, IsFiniteSet(S), x \in S
  PROVE  IsFiniteSet(S \ {x}) /\ Cardinality(S \ {x}) = Cardinality(S) - 1 /\ Cardinality(S) \in Nat
BY FS_RemoveElement, FS_CardinalityType, Zenon

(* The terms of the count are numbers. *)
LEMMA BudgetTerms ==
  ASSUME Inv, BudgetInv, policy
  PROVE  /\ Cardinality(Held) \in Nat /\ Cardinality(Spawning) \in Nat /\ Cardinality(Releasing) \in Nat
         /\ leaked \in Nat
         /\ admitted = Cardinality(Held) + Cardinality(Spawning) + Cardinality(Releasing) + leaked
<1>1. IsFiniteSet(Held) /\ IsFiniteSet(Spawning) /\ IsFiniteSet(Releasing)
  BY Zenon DEF BudgetInv
<1> QED
  BY <1>1, FS_CardinalityType, Zenon DEF BudgetInv, BudgetExact, Inv, TypeOK

(* The policy admits the actor of a spawn, which then has a unit in hand. *)
LEMMA SpawnBudget ==
  ASSUME Inv, BudgetInv, policy, NEW t \in Threads, NEW i \in Ids, NEW n \in Names \cup {Unnamed},
         Spawn(t, i, n)
  PROVE  BudgetInv'
<1>1. /\ Held' = Held /\ Spawning' = Spawning \cup {t} /\ t \notin Spawning /\ Releasing' = Releasing
      /\ admitted' = admitted + 1 /\ leaked' = leaked
  BY Zenon DEF Held, Spawning, Releasing, Spawn, Begin, Goto, Inv, TypeOK
<1>2. Cardinality(Spawning') = Cardinality(Spawning) + 1 /\ IsFiniteSet(Spawning')
  BY <1>1, OneMore, Zenon DEF BudgetInv
<1>3. BudgetExact'
  BY <1>1, <1>2, BudgetTerms DEF BudgetExact
<1> QED
  BY <1>1, <1>2, <1>3, Zenon DEF BudgetInv, Spawn, Begin, Goto, Inv, TypeOK

(* A kill begins; it has no unit in hand until it has removed the entry. *)
LEMMA KillBudget ==
  ASSUME Inv, BudgetInv, policy, NEW t \in Threads, NEW i \in Ids, Kill(t, i)
  PROVE  BudgetInv'
<1>1. /\ Held' = Held /\ Spawning' = Spawning /\ Releasing' = Releasing
      /\ admitted' = admitted /\ leaked' = leaked
  BY Zenon DEF Held, Spawning, Releasing, Kill, Begin, Goto, budget, Inv, TypeOK
<1> QED
  BY <1>1, Zenon DEF BudgetInv, BudgetExact, Kill, Begin, Goto, budget, Inv, TypeOK

(* A duplicate ends the spawn, and the budget keeps its unit. *)
LEMMA CheckDuplicatesBudget ==
  ASSUME Inv, BudgetInv, policy, NEW t \in Threads, CheckDuplicates(t)
  PROVE  BudgetInv'
<1>1. CASE Duplicate(t)
  <2>1. /\ Held' = Held /\ Spawning' = Spawning \ {t} /\ t \in Spawning /\ Releasing' = Releasing
        /\ admitted' = admitted /\ leaked' = leaked + 1
    BY <1>1 DEF Held, Spawning, Releasing, CheckDuplicates, Return, Goto, BudgetInv, Inv, TypeOK
  <2>2. Cardinality(Spawning') = Cardinality(Spawning) - 1 /\ IsFiniteSet(Spawning')
    BY <2>1, OneLess, Zenon DEF BudgetInv
  <2>3. BudgetExact'
    BY <2>1, <2>2, BudgetTerms DEF BudgetExact
  <2> QED
    BY <1>1, <2>1, <2>2, <2>3 DEF BudgetInv, CheckDuplicates, Return, Goto, Inv, TypeOK
<1>2. CASE ~Duplicate(t)
  <2>1. /\ Held' = Held /\ Spawning' = Spawning /\ Releasing' = Releasing
        /\ admitted' = admitted /\ leaked' = leaked
    BY <1>2, Zenon DEF Held, Spawning, Releasing, CheckDuplicates, Goto, Locals, Inv, TypeOK
  <2> QED
    BY <1>2, <2>1, Zenon DEF BudgetInv, BudgetExact, CheckDuplicates, Goto, Locals, Inv, TypeOK
<1> QED
  BY <1>1, <1>2, Zenon

(* The unit passes from the spawn to the entry, of which there was none. *)
LEMMA InsertIdBudget ==
  ASSUME Inv, BudgetInv, policy, NEW t \in Threads, InsertId(t)
  PROVE  BudgetInv'
<1>1. /\ Held' = Held \cup {id[t]} /\ id[t] \notin Held
      /\ Spawning' = Spawning \ {t} /\ t \in Spawning /\ Releasing' = Releasing
      /\ admitted' = admitted /\ leaked' = leaked
  BY RegistryAssumption
  DEF Held, Spawning, Releasing, InsertId, Goto, Locals, budget, BudgetInv, Inv, TypeOK, Inserting
<1>2. /\ Cardinality(Held') = Cardinality(Held) + 1 /\ IsFiniteSet(Held')
      /\ Cardinality(Spawning') = Cardinality(Spawning) - 1 /\ IsFiniteSet(Spawning')
  BY <1>1, OneMore, OneLess, Zenon DEF BudgetInv
<1>3. BudgetExact'
  BY <1>1, <1>2, BudgetTerms DEF BudgetExact
<1> QED
  BY <1>1, <1>2, <1>3, Zenon DEF BudgetInv, InsertId, Goto, Locals, budget, Inv, TypeOK

(* The spawn returns with its name inserted; nothing is counted. *)
LEMMA InsertNameBudget ==
  ASSUME Inv, BudgetInv, policy, NEW t \in Threads, InsertName(t)
  PROVE  BudgetInv'
<1>1. /\ Held' = Held /\ Spawning' = Spawning /\ Releasing' = Releasing
      /\ admitted' = admitted /\ leaked' = leaked
  BY Zenon DEF Held, Spawning, Releasing, InsertName, Return, Goto, budget, Inv, TypeOK
<1> QED
  BY <1>1, Zenon DEF BudgetInv, BudgetExact, InsertName, Return, Goto, budget, Inv, TypeOK

(* Of several kills of one actor, the one that gets the entry gets its unit. *)
LEMMA RemoveIdBudget ==
  ASSUME Inv, BudgetInv, policy, NEW t \in Threads, RemoveId(t)
  PROVE  BudgetInv'
<1>1. CASE by_id[id[t]] = Absent
  <2>1. /\ Held' = Held /\ Spawning' = Spawning /\ Releasing' = Releasing
        /\ admitted' = admitted /\ leaked' = leaked
    BY <1>1 DEF Held, Spawning, Releasing, RemoveId, Return, Goto, budget, Inv, TypeOK
  <2> QED
    BY <1>1, <2>1 DEF BudgetInv, BudgetExact, RemoveId, Return, Goto, budget, Inv, TypeOK
<1>2. CASE by_id[id[t]] # Absent
  <2>1. /\ Held' = Held \ {id[t]} /\ id[t] \in Held
        /\ Releasing' = Releasing \cup {t} /\ t \notin Releasing /\ Spawning' = Spawning
        /\ admitted' = admitted /\ leaked' = leaked
    BY <1>2 DEF Held, Spawning, Releasing, RemoveId, Goto, budget, BudgetInv, Inv, TypeOK
  <2>2. /\ Cardinality(Held') = Cardinality(Held) - 1 /\ IsFiniteSet(Held')
        /\ Cardinality(Releasing') = Cardinality(Releasing) + 1 /\ IsFiniteSet(Releasing')
    BY <2>1, OneMore, OneLess, Zenon DEF BudgetInv
  <2>3. BudgetExact'
    BY <2>1, <2>2, BudgetTerms DEF BudgetExact
  <2> QED
    BY <1>2, <2>1, <2>2, <2>3, Zenon DEF BudgetInv, RemoveId, Goto, budget, Inv, TypeOK
<1> QED
  BY <1>1, <1>2, Zenon

(* The kill keeps the unit while it takes the name away ... *)
LEMMA RemoveNameBudget ==
  ASSUME Inv, BudgetInv, policy, NEW t \in Threads, RemoveName(t)
  PROVE  BudgetInv'
<1>1. /\ op[t] = "kill" /\ Goto(t, "release")
      /\ UNCHANGED <<op, by_id, admitted, policy, leaked>>
  BY Zenon DEF BudgetInv, RemoveName, AfterRemoval, Locals, budget
<1>2. Held' = Held /\ Spawning' = Spawning /\ Releasing' = Releasing
  BY <1>1, Zenon DEF Held, Spawning, Releasing, RemoveName, Goto, Inv, TypeOK
<1> QED
  BY <1>1, <1>2, Zenon DEF BudgetInv, BudgetExact, Goto, Inv, TypeOK

(* ... and gives it back once. *)
LEMMA ReleaseActorBudget ==
  ASSUME Inv, BudgetInv, policy, NEW t \in Threads, ReleaseActor(t)
  PROVE  BudgetInv'
<1>1. /\ Held' = Held /\ Spawning' = Spawning /\ Releasing' = Releasing \ {t} /\ t \in Releasing
      /\ admitted' = admitted - 1 /\ leaked' = leaked
  BY Zenon DEF Held, Spawning, Releasing, ReleaseActor, Return, Goto, BudgetInv, Inv, TypeOK
<1>2. Cardinality(Releasing') = Cardinality(Releasing) - 1 /\ IsFiniteSet(Releasing')
  BY <1>1, OneLess, Zenon DEF BudgetInv
<1>3. BudgetExact'
  BY <1>1, <1>2, BudgetTerms DEF BudgetExact
<1> QED
  BY <1>1, <1>2, <1>3, Zenon DEF BudgetInv, ReleaseActor, Return, Goto, Inv, TypeOK

(* The policy's count is exact: it is the number of actors registered, being
   spawned or being released, and of the spawns that failed on a duplicate.
   Whatever kills and spawns race, a unit is released once. *)
THEOREM BudgetIsExact == Spec => []BudgetExact
<1>1. Init => BudgetInv
  <2> SUFFICES ASSUME Init PROVE BudgetInv
    BY Zenon
  <2>1. Held = {} /\ Spawning = {} /\ Releasing = {}
    BY Zenon DEF Init, Held, Spawning, Releasing
  <2> QED
    BY <2>1, FS_EmptySet DEF Init, BudgetInv, BudgetExact
<1>2. Inv /\ BudgetInv /\ [Next]_vars => BudgetInv'
  <2> SUFFICES ASSUME Inv, BudgetInv, [Next]_vars PROVE BudgetInv'
    BY Zenon
  <2>1. policy' = policy
    BY Zenon DEF Next, ThreadNext, vars, budget, Spawn, Register, Kill, Unregister, CheckDuplicates, InsertId,
           InsertName, RemoveId, RemoveName, ReleaseActor
  <2>2. CASE ~policy
    BY <2>1, <2>2, Zenon DEF BudgetInv
  <2>3. CASE policy /\ UNCHANGED vars
    BY <2>3, Zenon DEF vars, BudgetInv, BudgetExact, Held, Spawning, Releasing
  <2>4. ASSUME policy, NEW t \in Threads, ThreadNext(t)
        PROVE  BudgetInv'
    BY <2>4, SpawnBudget, KillBudget, CheckDuplicatesBudget, InsertIdBudget, InsertNameBudget,
       RemoveIdBudget, RemoveNameBudget, ReleaseActorBudget, Zenon DEF ThreadNext, Register, Unregister
  <2> QED
    BY <2>2, <2>3, <2>4, Zenon DEF Next
<1>3. BudgetInv => BudgetExact
  BY Zenon DEF BudgetInv, BudgetExact
<1> QED
  BY <1>1, <1>2, <1>3, InvHolds, PTL DEF Spec

-----------------------------------------------------------------------------
(* Starting and stopping the scheduler *)

(* Starts and threads are counted together: a start that has claimed the flag
   is still to come to each worker id, is past it, or has spawned it; so there
   is always a number left for the thread that is spawned next. *)
Column(w) == {r \in 1 .. MaxStarts : <<r, w>> \in handles}
Starting == {c \in Callers : cpc[c] = "startLock"}
StillToSpawn(w) == \E c \in Callers : cpc[c] = "spawn" /\ next <= w

HandlesLockInv == \A c \in Callers : cpc[c] \in {"spawn", "join"} => lock = c

CountInv ==
  /\ IsFiniteSet(Starting)
  /\ \A w \in 1 .. WorkerCount :
       Cardinality(Column(w)) + Cardinality(Starting) + (IF StillToSpawn(w) THEN 1 ELSE 0) <= starts

LifeInv == WorkersOwned /\ HandlesLockInv /\ CountInv

-----------------------------------------------------------------------------
(* What the flag says of the pool as long as calls do not overlap, in the
   middle of a call too: there is one call at a time; a pool that is being
   filled was empty and has the threads spawned so far; one that is not being
   emptied has lost no thread. *)
PoolInv ==
  ~overlapped =>
    /\ \A c, d \in Callers : (cpc[c] # "idle" /\ cpc[d] # "idle") => c = d
    /\ \A c \in Callers :
         /\ cpc[c] = "startLock" => running /\ handles = {} /\ ~refused /\ ~started
         /\ cpc[c] = "spawn" => running /\ Cardinality(handles) = next - 1 /\ ~refused /\ ~started
         /\ cpc[c] \in {"stopLock", "join"} => ~running
    /\ Cardinality(handles) <= WorkerCount
    /\ running => live = handles
    /\ ~running => ~refused /\ ~started
    /\ (Idle /\ ~running) => handles = {}
    /\ (Idle /\ running /\ ~refused) => Cardinality(handles) = WorkerCount

-----------------------------------------------------------------------------
(* The threads of a worker id are known by numbers of 1 .. MaxStarts. *)
LEMMA ColumnFinite ==
  \A w : IsFiniteSet(Column(w)) /\ Cardinality(Column(w)) \in Nat /\ Cardinality(Column(w)) <= MaxStarts
<1> TAKE w
<1>1. IsFiniteSet(1 .. MaxStarts) /\ Cardinality(1 .. MaxStarts) = MaxStarts
  BY FS_Interval, LifecycleAssumption
<1>2. Column(w) \in SUBSET (1 .. MaxStarts)
  BY Zenon DEF Column
<1> QED
  BY <1>1, <1>2, FS_Subset, FS_CardinalityType, Zenon

(* A start that spawns finds a number for its next thread. *)
LEMMA RoundFree ==
  ASSUME LifeInv, NEW c \in Callers, cpc[c] = "spawn", next <= WorkerCount
  PROVE  Round \in 1 .. MaxStarts /\ <<Round, next>> \notin handles \cup live
<1>1. next \in 1 .. WorkerCount /\ starts \in 0 .. MaxStarts
  BY LifecycleAssumption DEF LifeInv, WorkersOwned, LifeTypeOK
<1>2. StillToSpawn(next)
  BY <1>1 DEF StillToSpawn
<1>3. Cardinality(Column(next)) + Cardinality(Starting) + 1 <= starts /\ Cardinality(Starting) \in Nat
  BY <1>1, <1>2, FS_CardinalityType, Zenon DEF LifeInv, CountInv
<1>4. Cardinality(Column(next)) < MaxStarts
  BY <1>1, <1>3, ColumnFinite, LifecycleAssumption
<1>5. Column(next) # 1 .. MaxStarts
  <2>1. Cardinality(1 .. MaxStarts) = MaxStarts
    BY FS_Interval, LifecycleAssumption
  <2> QED
    BY <1>4, <2>1, LifecycleAssumption
<1>6. PICK r \in 1 .. MaxStarts : <<r, next>> \notin handles
  BY <1>5, Zenon DEF Column
<1>7. <<r, next>> \notin handles \cup live
  BY <1>6, Zenon DEF LifeInv, WorkersOwned
<1> QED
  BY <1>7, Zenon DEF Round

(* A step that spawns nothing and by which no start is added keeps the count. *)
LEMMA CountKept ==
  ASSUME LifeInv, LifeTypeOK', starts' = starts, handles' \subseteq handles, IsFiniteSet(Starting'),
         \A w \in 1 .. WorkerCount :
           \/ Cardinality(Starting') = Cardinality(Starting) /\ (StillToSpawn(w)' => StillToSpawn(w))
           \/ Cardinality(Starting') = Cardinality(Starting) - 1 /\ ~StillToSpawn(w)
  PROVE  CountInv'
<1> SUFFICES ASSUME NEW w \in 1 .. WorkerCount
             PROVE  Cardinality(Column(w)') + Cardinality(Starting') + (IF StillToSpawn(w)' THEN 1 ELSE 0) <= starts'
  BY Zenon DEF CountInv
<1>1. Cardinality(Column(w)') <= Cardinality(Column(w)) /\ Cardinality(Column(w)') \in Nat
      /\ Cardinality(Column(w)) \in Nat
  <2>1. Column(w)' \in SUBSET Column(w)
    BY Zenon DEF Column
  <2> QED
    BY <2>1, ColumnFinite, FS_Subset, FS_CardinalityType, Zenon
<1>2. Cardinality(Starting) \in Nat /\ Cardinality(Starting') \in Nat
  BY FS_CardinalityType, Zenon DEF LifeInv, CountInv
<1>3. Cardinality(Column(w)) + Cardinality(Starting) + (IF StillToSpawn(w) THEN 1 ELSE 0) <= starts
  BY Zenon DEF LifeInv, CountInv
<1>4. starts \in Nat
  BY LifecycleAssumption DEF LifeInv, WorkersOwned, LifeTypeOK
<1> QED
  BY <1>1, <1>2, <1>3, <1>4

-----------------------------------------------------------------------------
(* One lemma per operation of start and stop: it preserves the invariant. *)

(* start: the claim counts the start; one that finds the flag set does nothing. *)
LEMMA StartClaimStep ==
  ASSUME LifeInv, NEW c \in Callers, StartClaim(c)
  PROVE  LifeInv'
<1> USE LifecycleAssumption
<1>1. WorkersOwned' /\ HandlesLockInv'
  <2>1. {running', started', refused', overlapped'} \subseteq BOOLEAN
    BY Zenon DEF LifeInv, WorkersOwned, LifeTypeOK, StartClaim, BeginCall
  <2>2. cpc' \in [Callers -> {"idle", "startLock", "spawn", "stopLock", "join"}] /\ starts' \in 0 .. MaxStarts
    BY DEF LifeInv, WorkersOwned, LifeTypeOK, StartClaim, GotoLabel
  <2>3. UNCHANGED <<lock, handles, live, busy, next>>
    BY Zenon DEF StartClaim
  <2>4. HandlesLockInv'
    BY Zenon DEF LifeInv, WorkersOwned, LifeTypeOK, HandlesLockInv, StartClaim, GotoLabel
  <2> QED
    BY <2>1, <2>2, <2>3, <2>4, Zenon DEF LifeInv, WorkersOwned, LifeTypeOK
<1>2. CASE running
  <2>1. Starting' = Starting /\ starts' = starts /\ handles' = handles
    BY <1>2, Zenon DEF Starting, StartClaim
  <2>2. \A w \in 1 .. WorkerCount : StillToSpawn(w)' => StillToSpawn(w)
    BY <1>2, Zenon DEF StillToSpawn, StartClaim
  <2> QED
    BY <1>1, <2>1, <2>2, CountKept, Zenon DEF LifeInv, CountInv, WorkersOwned
<1>3. CASE ~running
  <2>1. Starting' = Starting \cup {c} /\ c \notin Starting /\ starts' = starts + 1 /\ handles' = handles
    BY <1>3, Zenon DEF Starting, StartClaim, BeginCall, GotoLabel, LifeInv, WorkersOwned, LifeTypeOK
  <2>2. /\ IsFiniteSet(Starting') /\ Cardinality(Starting') = Cardinality(Starting) + 1
        /\ Cardinality(Starting) \in Nat
    BY <2>1, OneMore, Zenon DEF LifeInv, CountInv
  <2>3. \A w \in 1 .. WorkerCount : (StillToSpawn(w)' <=> StillToSpawn(w)) /\ Column(w)' = Column(w)
    BY <1>3, <2>1, Zenon DEF StillToSpawn, Column, StartClaim, BeginCall, GotoLabel, LifeInv, WorkersOwned, LifeTypeOK
  <2>4. starts \in Nat
    BY DEF LifeInv, WorkersOwned, LifeTypeOK
  <2>5. ASSUME NEW w \in 1 .. WorkerCount
        PROVE  Cardinality(Column(w)') + Cardinality(Starting') + (IF StillToSpawn(w)' THEN 1 ELSE 0) <= starts'
    <3>1. Cardinality(Column(w)) + Cardinality(Starting) + (IF StillToSpawn(w) THEN 1 ELSE 0) <= starts
      BY Zenon DEF LifeInv, CountInv
    <3> QED
      BY <2>1, <2>2, <2>3, <2>4, <3>1, ColumnFinite
  <2> QED
    BY <1>1, <2>2, <2>5, Zenon DEF LifeInv, CountInv
<1> QED
  BY <1>2, <1>3, Zenon

(* The lock: nobody else spawns, and this start now does. *)
LEMMA StartLockStep ==
  ASSUME LifeInv, NEW c \in Callers, StartLock(c)
  PROVE  LifeInv'
<1> USE LifecycleAssumption
<1>1. WorkersOwned' /\ HandlesLockInv'
  BY DEF LifeInv, WorkersOwned, HandlesLockInv, LifeTypeOK, StartLock, GotoLabel, history
<1>2. Starting' = Starting \ {c} /\ c \in Starting /\ starts' = starts /\ handles' = handles
  BY Zenon DEF Starting, StartLock, GotoLabel, history, LifeInv, WorkersOwned, LifeTypeOK
<1>3. IsFiniteSet(Starting') /\ Cardinality(Starting') = Cardinality(Starting) - 1
  BY <1>2, OneLess, Zenon DEF LifeInv, CountInv
<1>4. \A w \in 1 .. WorkerCount : ~StillToSpawn(w)
  BY Zenon DEF StillToSpawn, StartLock, LifeInv, HandlesLockInv
<1> QED
  BY <1>1, <1>2, <1>3, <1>4, CountKept, Zenon DEF LifeInv, WorkersOwned

(* A thread is spawned and its handle kept. *)
LEMMA SpawnStep ==
  ASSUME LifeInv, NEW c \in Callers, SpawnWorker(c)
  PROVE  LifeInv'
<1> USE LifecycleAssumption
<1>1. PICK r \in 1 .. MaxStarts : r = Round /\ <<r, next>> \notin handles \cup live
  BY RoundFree, Zenon DEF SpawnWorker
<1>2. next \in 1 .. WorkerCount
  BY DEF SpawnWorker, LifeInv, WorkersOwned, LifeTypeOK
<1>3. /\ handles' = handles \cup {<<r, next>>} /\ live' = live \cup {<<r, next>>} /\ next' = next + 1
      /\ UNCHANGED <<running, lock, busy, cpc, history>>
  BY <1>1, Zenon DEF SpawnWorker
<1>4. WorkersOwned' /\ HandlesLockInv'
  BY <1>2, <1>3 DEF LifeInv, WorkersOwned, HandlesLockInv, LifeTypeOK, WorkerThreads, history
<1>5. Starting' = Starting /\ starts' = starts /\ starts \in Nat /\ Cardinality(Starting) \in Nat
  BY <1>3, FS_CardinalityType DEF Starting, history, LifeInv, CountInv, WorkersOwned, LifeTypeOK
<1>6. ASSUME NEW w \in 1 .. WorkerCount
      PROVE  Cardinality(Column(w)') + Cardinality(Starting') + (IF StillToSpawn(w)' THEN 1 ELSE 0) <= starts'
  <2>1. Cardinality(Column(w)) + Cardinality(Starting) + (IF StillToSpawn(w) THEN 1 ELSE 0) <= starts
    BY Zenon DEF LifeInv, CountInv
  <2>2. CASE w = next
    <3>1. Column(w)' = Column(w) \cup {r} /\ r \notin Column(w)
      BY <1>1, <1>3, <2>2, Zenon DEF Column
    <3>2. Cardinality(Column(w)') = Cardinality(Column(w)) + 1 /\ Cardinality(Column(w)) \in Nat
      BY <3>1, OneMore, ColumnFinite, Zenon
    <3>3. StillToSpawn(w) /\ ~StillToSpawn(w)'
      BY <1>2, <1>3, <2>2 DEF StillToSpawn, SpawnWorker
    <3> QED
      BY <1>5, <2>1, <3>2, <3>3
  <2>3. CASE w # next
    <3>1. Column(w)' = Column(w)
      BY <1>3, <2>3, Zenon DEF Column
    <3>2. StillToSpawn(w)' <=> StillToSpawn(w)
      BY <1>2, <1>3, <2>3 DEF StillToSpawn
    <3> QED
      BY <1>5, <2>1, <3>1, <3>2, Zenon
  <2> QED
    BY <2>2, <2>3, Zenon
<1> QED
  BY <1>4, <1>5, <1>6, Zenon DEF LifeInv, CountInv

(* The lock is released, or taken by a stop: no start is counted anew. *)
LEMMA ReleaseStep ==
  ASSUME LifeInv, NEW c \in Callers,
         SpawnFails(c) \/ StartReturn(c) \/ StopClear(c) \/ StopLock(c) \/ StopReturn(c)
  PROVE  LifeInv'
<1> USE LifecycleAssumption
<1>1. WorkersOwned' /\ HandlesLockInv'
  BY Zenon DEF LifeInv, WorkersOwned, HandlesLockInv, LifeTypeOK, SpawnFails, StartReturn, StopClear, StopLock, StopReturn,
         BeginCall, Idle, GotoLabel, history
<1>2. Starting' = Starting /\ starts' = starts /\ handles' = handles
  BY Zenon DEF Starting, SpawnFails, StartReturn, StopClear, StopLock, StopReturn, BeginCall, GotoLabel, history,
         LifeInv, WorkersOwned, LifeTypeOK
<1>3. \A w \in 1 .. WorkerCount : StillToSpawn(w)' => StillToSpawn(w)
  BY Zenon DEF StillToSpawn, SpawnFails, StartReturn, StopClear, StopLock, StopReturn, BeginCall, GotoLabel, history,
         LifeInv, WorkersOwned, LifeTypeOK
<1> QED
  BY <1>1, <1>2, <1>3, CountKept, Zenon DEF LifeInv, CountInv, WorkersOwned

(* A handle goes when its thread has ended; a thread ends, or goes about its work. *)
LEMMA JoinStep ==
  ASSUME LifeInv,
         \/ \E c \in Callers : Join(c)
         \/ \E t \in WorkerThreads : WorkerExit(t) \/ BeginPass(t) \/ EndPass(t)
         \/ UNCHANGED life_vars
  PROVE  LifeInv'
<1>1. WorkersOwned' /\ HandlesLockInv'
  BY Zenon DEF LifeInv, WorkersOwned, HandlesLockInv, LifeTypeOK, Join, WorkerExit, BeginPass, EndPass, life_vars, history
<1>2. Starting' = Starting /\ starts' = starts /\ handles' \subseteq handles
  BY Zenon DEF Starting, Join, WorkerExit, BeginPass, EndPass, life_vars, history
<1>3. \A w \in 1 .. WorkerCount : StillToSpawn(w)' => StillToSpawn(w)
  BY Zenon DEF StillToSpawn, Join, WorkerExit, BeginPass, EndPass, life_vars
<1> QED
  BY <1>1, <1>2, <1>3, CountKept, Zenon DEF LifeInv, CountInv, WorkersOwned

(* Every step preserves the invariant. *)
LEMMA NextLife == LifeInv /\ [LifeNext]_life_vars => LifeInv'
<1> SUFFICES ASSUME LifeInv, [LifeNext]_life_vars PROVE LifeInv'
  BY Zenon
<1>1. ASSUME NEW c \in Callers, StartClaim(c) \/ StopClear(c) \/ CallerStep(c)
      PROVE  LifeInv'
  BY <1>1, StartClaimStep, StartLockStep, SpawnStep, ReleaseStep, JoinStep, Zenon DEF CallerStep
<1>2. CASE \E t \in WorkerThreads : WorkerExit(t) \/ BeginPass(t) \/ EndPass(t)
  BY <1>2, JoinStep, Zenon
<1>3. CASE UNCHANGED life_vars
  BY <1>3, JoinStep, Zenon
<1> QED
  BY <1>1, <1>2, <1>3, Zenon DEF LifeNext

(* Nobody has called start yet. *)
LEMMA InitLife == LifeInit => LifeInv
<1> SUFFICES ASSUME LifeInit PROVE LifeInv
  BY Zenon
<1> USE LifecycleAssumption
<1>1. WorkersOwned /\ HandlesLockInv
  <2>1. {running, started, refused, overlapped} \subseteq BOOLEAN
    BY Zenon DEF LifeInit
  <2>2. /\ lock \in Callers \cup {NoCaller} /\ handles = {} /\ live = {} /\ busy = {}
        /\ cpc \in [Callers -> {"idle", "startLock", "spawn", "stopLock", "join"}]
        /\ next \in 1 .. WorkerCount + 1 /\ starts \in 0 .. MaxStarts
    BY DEF LifeInit
  <2>3. HandlesLockInv
    BY Zenon DEF LifeInit, HandlesLockInv
  <2> QED
    BY <2>1, <2>2, <2>3, Zenon DEF WorkersOwned, LifeTypeOK
<1>2. Starting = {} /\ starts = 0 /\ \A w \in 1 .. WorkerCount : Column(w) = {} /\ ~StillToSpawn(w)
  BY Zenon DEF LifeInit, Starting, Column, StillToSpawn
<1>3. IsFiniteSet({}) /\ Cardinality({}) = 0
  BY FS_EmptySet, Zenon
<1> QED
  BY <1>1, <1>2, <1>3 DEF LifeInv, CountInv

(* The threads, the handles and the running flag agree in every state. *)
THEOREM LifeHolds == LifeSpec => []LifeInv
BY InitLife, NextLife, PTL DEF LifeSpec

(* No worker thread is ever without a handle, whatever starts and stops
   overlap: the stop in Drop waits for every thread that is left. *)
THEOREM WorkersAreOwned == LifeSpec => []WorkersOwned
<1>1. LifeInv => WorkersOwned
  BY Zenon DEF LifeInv
<1> QED
  BY <1>1, LifeHolds, PTL

-----------------------------------------------------------------------------
(* The pool.  There are finitely many threads. *)
LEMMA HandlesFinite ==
  ASSUME LifeInv
  PROVE  /\ IsFiniteSet(handles) /\ Cardinality(handles) \in Nat
         /\ IsFiniteSet(live) /\ Cardinality(live) \in Nat /\ Cardinality(live) <= Cardinality(handles)
<1>1. IsFiniteSet(1 .. MaxStarts) /\ IsFiniteSet(1 .. WorkerCount)
  BY FS_Interval, LifecycleAssumption
<1>2. IsFiniteSet(WorkerThreads)
  BY <1>1, FS_Product, Zenon DEF WorkerThreads
<1>3. IsFiniteSet(handles) /\ live \in SUBSET handles
  BY <1>2, FS_Subset, Zenon DEF LifeInv, WorkersOwned, LifeTypeOK
<1> QED
  BY <1>3, FS_Subset, FS_CardinalityType, Zenon

(* The steps that change neither the threads nor their handles: calls begin,
   take the lock and return. *)
LEMMA CallPool ==
  ASSUME LifeInv, PoolInv, NEW c \in Callers,
         \/ StartClaim(c) \/ StartLock(c) \/ SpawnFails(c) \/ StartReturn(c)
         \/ StopClear(c) \/ StopLock(c) \/ StopReturn(c)
  PROVE  PoolInv'
<1> USE LifecycleAssumption
<1>0. Cardinality({}) = 0
  BY FS_EmptySet, Zenon
<1>1. CASE StartClaim(c)
  BY <1>0, <1>1, Zenon DEF PoolInv, StartClaim, BeginCall, GotoLabel, Idle, LifeInv, WorkersOwned, LifeTypeOK
<1>2. CASE StartLock(c)
  <2>1. /\ cpc[c] = "startLock" /\ next' = 1 /\ UNCHANGED <<running, handles, live, refused, started, overlapped>>
        /\ cpc'[c] = "spawn" /\ \A d \in Callers : d # c => cpc'[d] = cpc[d]
    BY <1>2, Zenon DEF StartLock, GotoLabel, history, LifeInv, WorkersOwned, LifeTypeOK
  <2> SUFFICES ASSUME ~overlapped PROVE PoolInv'
    BY <2>1, Zenon DEF PoolInv
  <2>2. /\ running /\ handles = {} /\ ~refused /\ ~started
        /\ \A d \in Callers : d # c => cpc'[d] = "idle"
    BY <2>1, Zenon DEF PoolInv
  <2>3. Cardinality(handles) = next' - 1
    <3>1. Cardinality(handles) = 0
      BY <1>0, <2>2, Zenon
    <3>2. next' = 1
      BY <2>1, Zenon
    <3> QED
      BY <3>1, <3>2
  <2>4. ~Idle'
    BY <2>1, Zenon DEF Idle
  <2> QED
    BY <2>1, <2>2, <2>3, <2>4, Zenon DEF PoolInv
<1>3. CASE SpawnFails(c)
  <2>1. /\ cpc[c] = "spawn" /\ refused' /\ UNCHANGED <<running, handles, live, overlapped>>
        /\ cpc'[c] = "idle" /\ \A d \in Callers : d # c => cpc'[d] = cpc[d]
    BY <1>3, Zenon DEF SpawnFails, GotoLabel, LifeInv, WorkersOwned, LifeTypeOK
  <2> SUFFICES ASSUME ~overlapped PROVE PoolInv'
    BY <2>1, Zenon DEF PoolInv
  <2>2. running /\ \A d \in Callers : cpc'[d] = "idle"
    BY <2>1, Zenon DEF PoolInv
  <2> QED
    BY <2>1, <2>2, Zenon DEF PoolInv
<1>4. CASE StartReturn(c)
  <2>1. /\ cpc[c] = "spawn"
        /\ UNCHANGED <<running, handles, live, refused, overlapped>>
        /\ cpc'[c] = "idle" /\ \A d \in Callers : d # c => cpc'[d] = cpc[d]
    BY <1>4, Zenon DEF StartReturn, GotoLabel, LifeInv, WorkersOwned, LifeTypeOK
  <2>2. next = WorkerCount + 1
    <3>1. next > WorkerCount /\ next \in 1 .. WorkerCount + 1
      BY <1>4, Zenon DEF StartReturn, LifeInv, WorkersOwned, LifeTypeOK
    <3> QED
      BY <3>1
  <2> SUFFICES ASSUME ~overlapped PROVE PoolInv'
    BY <2>1, Zenon DEF PoolInv
  <2>3. running /\ \A d \in Callers : cpc'[d] = "idle"
    BY <2>1, Zenon DEF PoolInv
  <2>4. Cardinality(handles) = WorkerCount
    <3>1. Cardinality(handles) = next - 1
      BY <2>1, Zenon DEF PoolInv
    <3> QED
      BY <2>2, <3>1
  <2> QED
    BY <2>1, <2>3, <2>4, Zenon DEF PoolInv
<1>5. CASE StopClear(c)
  BY <1>5, Zenon DEF PoolInv, StopClear, BeginCall, GotoLabel, Idle, LifeInv, WorkersOwned, LifeTypeOK
<1>6. CASE StopLock(c)
  <2>1. /\ cpc[c] = "stopLock" /\ UNCHANGED <<running, handles, live, started, refused, overlapped>>
        /\ cpc'[c] = "join" /\ \A d \in Callers : d # c => cpc'[d] = cpc[d]
    BY <1>6, Zenon DEF StopLock, GotoLabel, history, LifeInv, WorkersOwned, LifeTypeOK
  <2> SUFFICES ASSUME ~overlapped PROVE PoolInv'
    BY <2>1, Zenon DEF PoolInv
  <2>2. ~running /\ ~refused /\ ~started /\ \A d \in Callers : d # c => cpc'[d] = "idle"
    BY <2>1, Zenon DEF PoolInv
  <2>3. ~Idle'
    BY <2>1, Zenon DEF Idle
  <2> QED
    BY <2>1, <2>2, <2>3, Zenon DEF PoolInv
<1>7. CASE StopReturn(c)
  <2>1. /\ cpc[c] = "join" /\ handles = {} /\ UNCHANGED <<running, handles, live, started, refused, overlapped>>
        /\ cpc'[c] = "idle" /\ \A d \in Callers : d # c => cpc'[d] = cpc[d]
    BY <1>7, Zenon DEF StopReturn, GotoLabel, history, LifeInv, WorkersOwned, LifeTypeOK
  <2> SUFFICES ASSUME ~overlapped PROVE PoolInv'
    BY <2>1, Zenon DEF PoolInv
  <2>2. ~running /\ ~refused /\ ~started /\ \A d \in Callers : cpc'[d] = "idle"
    BY <2>1, Zenon DEF PoolInv
  <2> QED
    BY <2>1, <2>2, Zenon DEF PoolInv
<1> QED
  BY <1>1, <1>2, <1>3, <1>4, <1>5, <1>6, <1>7, Zenon

(* The pool grows by the thread of the next worker id. *)
LEMMA SpawnPool ==
  ASSUME LifeInv, PoolInv, NEW c \in Callers, SpawnWorker(c)
  PROVE  PoolInv'
<1> USE LifecycleAssumption
<1>1. PICK r \in 1 .. MaxStarts : r = Round /\ <<r, next>> \notin handles \cup live
  BY RoundFree, Zenon DEF SpawnWorker
<1>2. /\ handles' = handles \cup {<<r, next>>} /\ live' = live \cup {<<r, next>>} /\ next' = next + 1
      /\ UNCHANGED <<running, lock, cpc, history>>
  BY <1>1, Zenon DEF SpawnWorker
<1>3. Cardinality(handles') = Cardinality(handles) + 1 /\ Cardinality(handles) \in Nat
  BY <1>1, <1>2, OneMore, HandlesFinite, Zenon
<1>4. next \in 1 .. WorkerCount /\ cpc[c] = "spawn"
  BY DEF SpawnWorker, LifeInv, WorkersOwned, LifeTypeOK
<1> QED
  BY <1>2, <1>3, <1>4 DEF PoolInv, Idle, history

(* Threads end, and are joined, only while the flag is clear. *)
LEMMA JoinPool ==
  ASSUME LifeInv, PoolInv,
         \/ \E c \in Callers : Join(c)
         \/ \E t \in WorkerThreads : WorkerExit(t) \/ BeginPass(t) \/ EndPass(t)
         \/ UNCHANGED life_vars
  PROVE  PoolInv'
<1>1. handles' \in SUBSET handles
  BY Zenon DEF Join, WorkerExit, BeginPass, EndPass, life_vars
<1>2. Cardinality(handles') <= Cardinality(handles) /\ Cardinality(handles') \in Nat
  BY <1>1, HandlesFinite, FS_Subset, FS_CardinalityType, Zenon
<1>3. CASE \E c \in Callers : Join(c)
  BY <1>2, <1>3, HandlesFinite, LifecycleAssumption DEF PoolInv, Join, Idle, history
<1>4. CASE \E t \in WorkerThreads : WorkerExit(t) \/ BeginPass(t) \/ EndPass(t)
  BY <1>4 DEF PoolInv, WorkerExit, BeginPass, EndPass, Idle, history
<1>5. CASE UNCHANGED life_vars
  BY <1>5, Zenon DEF PoolInv, life_vars, Idle, history
<1> QED
  BY <1>3, <1>4, <1>5, Zenon

(* As long as calls do not overlap there is never a second pool, a scheduler
   that is not running has no worker between calls, and one whose start
   returned Ok without a refused thread has all of them. *)
THEOREM PoolIsWhatFlagSays == LifeSpec => []PoolMatchesFlag
<1>1. LifeInit => PoolInv
  BY FS_EmptySet, LifecycleAssumption DEF LifeInit, PoolInv, Idle
<1>2. LifeInv /\ PoolInv /\ [LifeNext]_life_vars => PoolInv'
  BY CallPool, SpawnPool, JoinPool, Zenon DEF LifeNext, CallerStep
<1>3. LifeInv /\ PoolInv => PoolMatchesFlag
  <2> SUFFICES ASSUME LifeInv, PoolInv, ~overlapped PROVE PoolMatchesFlag
    BY Zenon DEF PoolMatchesFlag
  <2>1. Cardinality(live) <= WorkerCount
    BY HandlesFinite, LifecycleAssumption DEF PoolInv
  <2>2. (Idle /\ ~running) => live = {}
    BY Zenon DEF PoolInv, LifeInv, WorkersOwned
  <2>3. (Idle /\ started /\ ~refused) => Cardinality(live) = WorkerCount
    BY Zenon DEF PoolInv
  <2> QED
    BY <2>1, <2>2, <2>3, Zenon DEF PoolMatchesFlag
<1> QED
  BY <1>1, <1>2, <1>3, LifeHolds, PTL DEF LifeSpec
=============================================================================
