------------------------------ MODULE Registry ------------------------------
(***************************************************************************)
(* The actor registry (registry.rs) under concurrent registration and      *)
(* removal, and the scheduler's spawn and kill (scheduler.rs), which admit *)
(* and release actors with a resource policy (policy.rs).                  *)
(*                                                                         *)
(* by_id is a concurrent map: each access is a step of its own.  by_name   *)
(* is behind a lock, which register_named holds across all of its steps    *)
(* and unregister takes only after it has removed the entry from by_id.    *)
(* The state and the mailbox of an entry are the subject of Dispatch.      *)
(***************************************************************************)
EXTENDS Integers, FiniteSets

CONSTANTS Threads, Ids, Names,
          Unnamed, Absent,  \* no name; no entry
          Free,             \* no thread
          MaxActors         \* the policy's budget

ASSUME RegistryAssumption ==
  /\ Absent \notin Ids \cup Names /\ Unnamed \notin Names /\ Unnamed # Absent
  /\ Free \notin Threads
  /\ MaxActors \in Nat

VARIABLES by_id,           \* the name under which an id is registered
          by_name,
          names_lock,      \* the thread that holds the write lock of by_name
          admitted,        \* the policy's count of actors
          tpc, op, id, name,
          policy,          \* whether the scheduler was given a resource policy
          leaked           \* history: units of the budget that failed spawns keep

vars == <<by_id, by_name, names_lock, admitted, tpc, op, id, name, policy, leaked>>
budget == <<admitted, policy, leaked>>

Init ==
  /\ by_id = [i \in Ids |-> Absent]
  /\ by_name = [n \in Names |-> Absent]
  /\ names_lock = Free
  /\ admitted = 0
  /\ tpc = [t \in Threads |-> "idle"] /\ op = [t \in Threads |-> "none"]
  /\ id = [t \in Threads |-> Absent] /\ name = [t \in Threads |-> Unnamed]
  /\ policy \in BOOLEAN /\ leaked = 0

Goto(t, label) == tpc' = [tpc EXCEPT ![t] = label]

Begin(t, k, i, n, label) ==
  /\ tpc[t] = "idle"
  /\ op' = [op EXCEPT ![t] = k]
  /\ id' = [id EXCEPT ![t] = i]
  /\ name' = [name EXCEPT ![t] = n]
  /\ Goto(t, label)

(* The call returns and its locals go. *)
Return(t) ==
  /\ Goto(t, "idle")
  /\ op' = [op EXCEPT ![t] = "none"]
  /\ id' = [id EXCEPT ![t] = Absent]
  /\ name' = [name EXCEPT ![t] = Unnamed]

Locals == <<op, id, name>>

-----------------------------------------------------------------------------
(* ActorId::new returns an id that nothing refers to. *)
Fresh(i) ==
  /\ by_id[i] = Absent
  /\ \A n \in Names : by_name[n] # i
  /\ \A t \in Threads : id[t] # i

(* spawn_named: the policy admits the actor before it gets its id. *)
Spawn(t, i, n) ==
  /\ policy => admitted < MaxActors
  /\ Fresh(i)
  /\ Begin(t, "spawn", i, n, "register")
  /\ admitted' = IF policy THEN admitted + 1 ELSE admitted
  /\ UNCHANGED <<by_id, by_name, names_lock, policy, leaked>>

(* register and register_named called on the registry itself, which nobody
   does who wants the policy to count. *)
Register(t, i, n) ==
  /\ ~policy
  /\ Begin(t, "register", i, n, "register")
  /\ UNCHANGED <<by_id, by_name, names_lock, budget>>

(* Fault: the name is not checked. *)
DuplicateId(t) == by_id[id[t]] # Absent

Duplicate(t) == by_id[id[t]] # Absent \/ (name[t] # Unnamed /\ by_name[name[t]] # Absent)

(* Fault: the lock is dropped between the checks and the insertions. *)
CheckUnlocked(t) ==
  /\ tpc[t] = "register"
  /\ IF Duplicate(t) THEN Return(t) ELSE Goto(t, "insertId") /\ UNCHANGED Locals
  /\ leaked' = leaked
  /\ UNCHANGED <<by_id, by_name, names_lock, admitted, policy>>

(* Both checks are made under the lock; a duplicate fails the call, and spawn
   with it, which does not give the admission back. *)
CheckDuplicates(t) ==
  /\ tpc[t] = "register" /\ names_lock = Free
  /\ IF Duplicate(t) THEN Return(t) /\ UNCHANGED names_lock
                     ELSE names_lock' = t /\ Goto(t, "insertId") /\ UNCHANGED Locals
  /\ leaked' = IF Duplicate(t) /\ op[t] = "spawn" /\ policy THEN leaked + 1 ELSE leaked
  /\ UNCHANGED <<by_id, by_name, admitted, policy>>

(* The error that an id has appeared since the checks cannot occur, as every
   insertion is made under the lock (Inserting, in RegistryProofs). *)
InsertId(t) ==
  /\ tpc[t] = "insertId"
  /\ by_id' = [by_id EXCEPT ![id[t]] = name[t]]
  /\ Goto(t, "insertName")
  /\ UNCHANGED <<by_name, names_lock, Locals, budget>>

InsertName(t) ==
  /\ tpc[t] = "insertName"
  /\ by_name' = [n \in Names |-> IF n = name[t] THEN id[t] ELSE by_name[n]]
  /\ names_lock' = Free
  /\ Return(t)
  /\ UNCHANGED <<by_id, budget>>

-----------------------------------------------------------------------------
(* kill: set_state fails on an actor that is gone. *)
Kill(t, i) ==
  /\ by_id[i] # Absent
  /\ Begin(t, "kill", i, Unnamed, "removeId")
  /\ UNCHANGED <<by_id, by_name, names_lock, budget>>

(* unregister called on the registry itself *)
Unregister(t, i) ==
  /\ ~policy
  /\ Begin(t, "unregister", i, Unnamed, "removeId")
  /\ UNCHANGED <<by_id, by_name, names_lock, budget>>

AfterRemoval(t) == IF op[t] = "kill" THEN Goto(t, "release") /\ UNCHANGED Locals ELSE Return(t)

(* Fault: kill goes on when another one has removed the actor. *)
RemoveIdAnyway(t) ==
  /\ tpc[t] = "removeId"
  /\ by_id' = [by_id EXCEPT ![id[t]] = Absent]
  /\ Goto(t, "removeName")
  /\ name' = [name EXCEPT ![t] = by_id[id[t]]]
  /\ UNCHANGED <<by_name, names_lock, op, id, budget>>

(* Fault: the name mapping is forgotten. *)
RemoveIdOnly(t) ==
  /\ tpc[t] = "removeId"
  /\ by_id' = [by_id EXCEPT ![id[t]] = Absent]
  /\ IF by_id[id[t]] = Absent THEN Return(t) ELSE AfterRemoval(t)
  /\ UNCHANGED <<by_name, names_lock, budget>>

(* by_id.remove: one of several concurrent removals gets the entry. *)
RemoveId(t) ==
  /\ tpc[t] = "removeId"
  /\ IF by_id[id[t]] = Absent
       THEN Return(t) /\ UNCHANGED by_id
       ELSE /\ by_id' = [by_id EXCEPT ![id[t]] = Absent]
            /\ Goto(t, "removeName")
            /\ name' = [name EXCEPT ![t] = by_id[id[t]]]
            /\ UNCHANGED <<op, id>>
  /\ UNCHANGED <<by_name, names_lock, budget>>

RemoveName(t) ==
  /\ tpc[t] = "removeName" /\ (name[t] # Unnamed => names_lock = Free)
  /\ by_name' = [n \in Names |-> IF n = name[t] THEN Absent ELSE by_name[n]]
  /\ AfterRemoval(t)
  /\ UNCHANGED <<by_id, names_lock, budget>>

(* policy.release_actor *)
ReleaseActor(t) ==
  /\ tpc[t] = "release"
  /\ admitted' = IF policy THEN admitted - 1 ELSE admitted
  /\ Return(t)
  /\ UNCHANGED <<by_id, by_name, names_lock, policy, leaked>>

-----------------------------------------------------------------------------
ThreadNext(t) ==
  \/ \E i \in Ids, n \in Names \cup {Unnamed} : Spawn(t, i, n) \/ Register(t, i, n)
  \/ \E i \in Ids : Kill(t, i) \/ Unregister(t, i)
  \/ CheckDuplicates(t) \/ InsertId(t) \/ InsertName(t)
  \/ RemoveId(t) \/ RemoveName(t) \/ ReleaseActor(t)

Next == \E t \in Threads : ThreadNext(t)

Spec == Init /\ [][Next]_vars

-----------------------------------------------------------------------------
(* Properties *)

TypeOK ==
  /\ by_id \in [Ids -> Names \cup {Unnamed, Absent}]
  /\ by_name \in [Names -> Ids \cup {Absent}]
  /\ names_lock \in Threads \cup {Free}
  /\ admitted \in Int
  /\ tpc \in [Threads -> {"idle", "register", "insertId", "insertName", "removeId", "removeName", "release"}]
  /\ op \in [Threads -> {"none", "spawn", "kill", "register", "unregister"}]
  /\ id \in [Threads -> Ids \cup {Absent}] /\ name \in [Threads -> Names \cup {Unnamed}]
  /\ \A t \in Threads : tpc[t] # "idle" => id[t] \in Ids
  /\ policy \in BOOLEAN /\ leaked \in Nat

(* Two registered actors never have the same name, whatever registrations and
   removals run at the same time. *)
NamesUnique == \A i, j \in Ids : (by_id[i] \in Names /\ by_id[i] = by_id[j]) => i = j

(* A registered actor is found under its name, from the moment its
   registration has returned until its removal begins; in particular no
   removal of an earlier holder of the name takes it away. *)
NamesResolve ==
  \A i \in Ids : by_id[i] \in Names =>
    \/ by_name[by_id[i]] = i
    \/ \E t \in Threads : tpc[t] = "insertName" /\ id[t] = i

(* A name in the map leads to the actor of that name, or to one whose removal
   is about to take the name away: no name is taken for ever by an actor that
   is gone. *)
NoDangling ==
  \A n \in Names : by_name[n] # Absent =>
    \/ by_id[by_name[n]] = n
    \/ \E t \in Threads : tpc[t] = "removeName" /\ id[t] = by_name[n] /\ name[t] = n

Held == {i \in Ids : by_id[i] # Absent}
(* Calls of spawn and kill that have a unit of the budget in hand. *)
Spawning == {t \in Threads : op[t] = "spawn" /\ tpc[t] \in {"register", "insertId"}}
Releasing == {t \in Threads : op[t] = "kill" /\ tpc[t] \in {"removeName", "release"}}

(* Budget accounting: the policy's count is the number of actors registered,
   being spawned or being released, and of the spawns that failed on a
   duplicate name; in particular racing kills of one actor release it once. *)
BudgetExact ==
  policy => admitted = Cardinality(Held) + Cardinality(Spawning) + Cardinality(Releasing) + leaked
=============================================================================
