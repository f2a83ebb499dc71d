-------------------------- MODULE SupervisorProofs --------------------------
(***************************************************************************)
(* One supervisor, for any set of children, any limit, window and bounds:  *)
(* the restart limit holds in every window (RateLimited), only a granted   *)
(* restart brings a stopped child back (OnlyRestartsRevive), and           *)
(* rest-for-one restarts exactly the failed child and those started after  *)
(* it (RestOrder).                                                         *)
(*                                                                         *)
(* The last part is about the tree of supervisors, module SupervisorTree:  *)
(* its two records of the hierarchy agree (ListsAgree) and every           *)
(* supervisor is below the root (AllReachable).                            *)
(***************************************************************************)
EXTENDS Supervisor, SupervisorTree, FiniteSetTheorems, SequenceTheorems, TLAPS

Entry == [at : 0 .. MaxTime, cause : Names, who : SUBSET Names]
Child == [policy : Policies, state : States, order : 0 .. MaxOrder]

(* Every restart that is inside the window now has its timestamp under the name
   of the child whose exit caused it: pruning only drops what has left the
   window, and time does not run backwards. *)
StampInv ==
  \A k \in DOMAIN restarts :
    /\ restarts[k].at <= now
    /\ now - restarts[k].at < Within =>
         /\ restarts[k].cause \in DOMAIN restart_counts
         /\ k \in restart_counts[restarts[k].cause]

LimitInv ==
  MaxRestarts > 0 => \A k \in DOMAIN restarts : Cardinality(InWindow(k)) <= MaxRestarts

(* Until the start counter saturates, the order of a child is the number of its
   start. *)
OrderInv ==
  /\ next_start_order = Capped(starts)
  /\ starts <= MaxOrder + 1 => \A m \in DOMAIN children : children[m].order = started[m] - 1

Inv == TypeOK /\ StampInv /\ LimitInv /\ OrderInv

-----------------------------------------------------------------------------
(* The bounds are natural numbers. *)
LEMMA Bounds ==
  /\ MaxRestarts \in Nat /\ Within \in Nat /\ MaxOrder \in Nat
  /\ MaxTime \in Nat /\ MaxStarts \in Nat /\ MaxExits \in Nat
BY SupervisorAssumption, Zenon

(* The restarts in the window of an earlier restart do not change. *)
LEMMA WindowKept ==
  ASSUME NEW k, k \in DOMAIN restarts, TypeOK,
         NEW e \in Entry, restarts' = Append(restarts, e)
  PROVE  InWindow(k)' = InWindow(k)
<1>1. /\ DOMAIN restarts = 1 .. Len(restarts) /\ Len(restarts) \in Nat /\ k \in 1 .. Len(restarts)
      /\ \A i \in 1 .. Len(restarts) : restarts'[i] = restarts[i]
  BY DEF TypeOK, Entry
<1>2. \A i \in 1 .. k : restarts'[i] = restarts[i]
  BY <1>1
<1>3. restarts'[k] = restarts[k]
  BY <1>1, Zenon
<1> QED
  BY <1>2, <1>3, Zenon DEF InWindow

(* A step that records no restart keeps what is said of restarts. *)
LEMMA NoRestart ==
  ASSUME Inv, UNCHANGED <<restarts, restart_counts>>, now <= now', now' \in 0 .. MaxTime
  PROVE  StampInv' /\ LimitInv'
<1>1. StampInv'
  <2>1. \A k \in DOMAIN restarts : restarts[k] \in Entry
    <3>1. restarts \in Seq(Entry)
      BY Zenon DEF Inv, TypeOK, Entry
    <3> QED
      BY <3>1
  <2>2. now \in Nat /\ now' \in Nat /\ Within \in Nat
    BY Bounds DEF Inv, TypeOK
  <2>3. ASSUME NEW k \in DOMAIN restarts
        PROVE  /\ restarts[k].at <= now'
               /\ now' - restarts[k].at < Within =>
                    /\ restarts[k].cause \in DOMAIN restart_counts
                    /\ k \in restart_counts[restarts[k].cause]
    <3>1. restarts[k].at \in Nat
      BY <2>1, Bounds DEF Entry
    <3> QED
      BY <2>2, <3>1 DEF Inv, StampInv
  <2> QED
    BY <2>3, Zenon DEF StampInv
<1>2. LimitInv'
  BY Zenon DEF Inv, LimitInv, InWindow
<1> QED
  BY <1>1, <1>2, Zenon

-----------------------------------------------------------------------------
(* One lemma per group of operations: it preserves the invariant. *)
LEMMA StartChildStep ==
  ASSUME Inv, NEW n \in Names, NEW p \in Policies, StartChild(n, p)
  PROVE  Inv'
<1> USE Bounds
<1>1. /\ DOMAIN children' = DOMAIN children \cup {n} /\ n \notin DOMAIN children
      /\ children'[n] = [policy |-> p, state |-> "Running", order |-> next_start_order]
      /\ \A m \in DOMAIN children : children'[m] = children[m]
      /\ DOMAIN started' = DOMAIN started \cup {n} /\ started'[n] = starts + 1
      /\ \A m \in DOMAIN children : started'[m] = started[m]
      /\ started' = [m \in DOMAIN started' |-> started'[m]]
  BY Zenon DEF StartChild, HasChild, With, Inv, TypeOK
<1>2. next_start_order' \in 0 .. MaxOrder /\ starts' = starts + 1 /\ starts \in Nat /\ starts' \in 0 .. MaxStarts
  BY DEF StartChild, Capped, Inv, TypeOK
<1>3. TypeOK'
  <2>1. \A m \in DOMAIN children' : children'[m] \in Child
    BY <1>1 DEF Inv, TypeOK, Child, States
  <2>2. started' \in [DOMAIN children' -> 1 .. starts']
    <3>1. \A m \in DOMAIN children : started[m] \in 1 .. starts
      BY Zenon DEF Inv, TypeOK
    <3>2. \A m \in DOMAIN children' : started'[m] \in 1 .. starts'
      BY <1>1, <1>2, <3>1
    <3>3. DOMAIN started' = DOMAIN children'
      BY <1>1, Zenon DEF Inv, TypeOK
    <3> QED
      BY <1>1, <3>2, <3>3, Zenon
  <2>3. UNCHANGED <<strategy, restart_counts, escalation_action, now, result, restarts>>
    BY Zenon DEF StartChild
  <2> QED
    BY <1>1, <1>2, <2>1, <2>2, <2>3, Zenon DEF Inv, TypeOK, Child
<1>4. StampInv' /\ LimitInv'
  BY NoRestart DEF StartChild, Inv, TypeOK
<1>5. OrderInv'
  <2>1. next_start_order' = Capped(starts')
    BY <1>2 DEF Inv, OrderInv, StartChild, Capped
  <2>2. ASSUME starts' <= MaxOrder + 1, NEW m \in DOMAIN children'
        PROVE  children'[m].order = started'[m] - 1
    <3>1. starts <= MaxOrder /\ next_start_order = starts
      BY <1>2, <2>2 DEF Inv, OrderInv, Capped
    <3> QED
      BY <1>1, <1>2, <2>2, <3>1 DEF Inv, OrderInv
  <2> QED
    BY <2>1, <2>2, Zenon DEF OrderInv
<1> QED
  BY <1>3, <1>4, <1>5, Zenon DEF Inv

(* stop_child, terminate_child, mark_child_running, and an exit after which the
   child is not restarted. *)
LEMMA SetStateStep ==
  ASSUME Inv, NEW n \in DOMAIN children, NEW s \in States, SetState(n, s),
         result' \in {"Ok", "MaxRestartsExceeded"},
         UNCHANGED <<strategy, restart_counts, next_start_order, escalation_action, now,
                     started, starts, restarts>>
  PROVE  Inv'
<1>1. /\ DOMAIN children' = DOMAIN children
      /\ \A m \in DOMAIN children : /\ children'[m] \in Child
                                    /\ children'[m].order = children[m].order
  BY Zenon DEF SetState, Inv, TypeOK, Child
<1>2. TypeOK'
  BY <1>1, Zenon DEF Inv, TypeOK, Child
<1>3. StampInv' /\ LimitInv'
  <2>1. now <= now' /\ now' \in 0 .. MaxTime
    BY Bounds DEF Inv, TypeOK
  <2> QED
    BY <2>1, NoRestart, Zenon
<1>4. OrderInv'
  BY <1>1, Zenon DEF Inv, OrderInv, Capped
<1> QED
  BY <1>2, <1>3, <1>4, Zenon DEF Inv

(* A child is removed. *)
LEMMA RemoveChildStep ==
  ASSUME Inv, NEW n \in Names, RemoveChild(n)
  PROVE  Inv'
<1>1. /\ DOMAIN children' \subseteq DOMAIN children
      /\ \A m \in DOMAIN children' : children'[m] = children[m] /\ started'[m] = started[m]
      /\ started' \in [DOMAIN children' -> 1 .. starts]
  BY Zenon DEF RemoveChild, Without, Inv, TypeOK
<1>2. TypeOK'
  BY <1>1, Zenon DEF RemoveChild, Inv, TypeOK
<1>3. StampInv' /\ LimitInv'
  <2>1. now <= now' /\ now' \in 0 .. MaxTime
    BY Bounds DEF Inv, TypeOK, RemoveChild
  <2> QED
    BY <2>1, NoRestart, Zenon DEF RemoveChild
<1>4. OrderInv'
  BY <1>1, Zenon DEF Inv, OrderInv, Capped, RemoveChild
<1> QED
  BY <1>2, <1>3, <1>4, Zenon DEF Inv

(* Time passes. *)
LEMMA TickStep ==
  ASSUME Inv, Tick
  PROVE  Inv'
<1>1. now <= now' /\ now' \in 0 .. MaxTime
  BY Bounds DEF Inv, TypeOK, Tick
<1>2. TypeOK'
  BY <1>1, Zenon DEF Tick, Inv, TypeOK
<1>3. StampInv' /\ LimitInv'
  BY <1>1, NoRestart, Zenon DEF Tick
<1>4. OrderInv'
  BY Zenon DEF Inv, OrderInv, Capped, Tick
<1> QED
  BY <1>2, <1>3, <1>4, Zenon DEF Inv

-----------------------------------------------------------------------------
(* A granted restart.  The check counted the timestamps inside the window when
   it was made; the window of the new restart ends no earlier, so it holds the
   new restart and at most those. *)
LEMMA RestartFacts ==
  ASSUME Inv, NEW n \in DOMAIN children, NEW t \in {now, now + 1} \cap (0 .. MaxTime),
         NEW log, log = Append(restarts, [at |-> t, cause |-> n, who |-> Restarted(n)])
  PROVE  /\ Restarted(n) \subseteq DOMAIN children
         /\ log \in Seq(Entry) /\ Len(restarts) \in Nat /\ Len(log) = Len(restarts) + 1
         /\ DOMAIN restarts = 1 .. Len(restarts) /\ DOMAIN log = 1 .. Len(restarts) + 1
         /\ log[Len(log)] = [at |-> t, cause |-> n, who |-> Restarted(n)]
         /\ \A k \in DOMAIN restarts : log[k] = restarts[k] /\ restarts[k] \in Entry
         /\ t \in Nat /\ now \in Nat /\ now <= t /\ Within \in Nat
         /\ \A k \in DOMAIN restarts : restarts[k].at \in Nat
<1>1. Restarted(n) \subseteq DOMAIN children
  BY Zenon DEF Restarted
<1>2. restarts \in Seq(Entry)
  BY Zenon DEF Inv, TypeOK, Entry
<1>3. [at |-> t, cause |-> n, who |-> Restarted(n)] \in Entry
  BY <1>1, Zenon DEF Entry, Inv, TypeOK
<1>4. t \in Nat /\ now \in Nat /\ now <= t /\ Within \in Nat
  BY Bounds DEF Inv, TypeOK
<1>5. \A k \in DOMAIN restarts : restarts[k] \in Entry
  BY <1>2
<1>6. \A k \in DOMAIN restarts : restarts[k].at \in Nat
  BY <1>5, Bounds DEF Entry
<1> QED
  BY <1>1, <1>2, <1>3, <1>4, <1>5, <1>6

(* A restart that is recorded keeps the stamps those of the restarts in the window. *)
LEMMA RestartStamps ==
  ASSUME Inv, NEW n \in DOMAIN children, NEW t \in {now, now + 1} \cap (0 .. MaxTime),
         NEW log, log = Append(restarts, [at |-> t, cause |-> n, who |-> Restarted(n)]),
         restart_counts' = RecordRestart(n, log), now' = t, restarts' = log
  PROVE  /\ StampInv'
         /\ DOMAIN restart_counts' \subseteq Names
         /\ \A m \in DOMAIN restart_counts' : restart_counts'[m] \subseteq DOMAIN restarts'
<1> DEFINE Before == IF n \in DOMAIN restart_counts THEN restart_counts[n] ELSE {}
<1>1. /\ log \in Seq(Entry) /\ Len(restarts) \in Nat /\ Len(log) = Len(restarts) + 1
      /\ DOMAIN restarts = 1 .. Len(restarts) /\ DOMAIN log = 1 .. Len(restarts) + 1
      /\ log[Len(log)] = [at |-> t, cause |-> n, who |-> Restarted(n)]
      /\ \A k \in DOMAIN restarts : log[k] = restarts[k] /\ restarts[k] \in Entry
      /\ t \in Nat /\ now \in Nat /\ now <= t /\ Within \in Nat
      /\ \A k \in DOMAIN restarts : restarts[k].at \in Nat
  BY RestartFacts, Zenon
<1>2. log[Len(log)].at = t /\ log[Len(log)].cause = n
  BY <1>1
<1>3. /\ DOMAIN restart_counts' = DOMAIN restart_counts \cup {n}
      /\ restart_counts'[n] = Recent(log, Before \cup {Len(log)}, t)
      /\ \A m \in DOMAIN restart_counts \ {n} : restart_counts'[m] = restart_counts[m]
  BY <1>2, Zenon DEF RecordRestart, With
<1>4. Before \subseteq DOMAIN restarts
  BY Zenon DEF Inv, TypeOK
<1>5. \A m \in DOMAIN restart_counts' : restart_counts'[m] \subseteq DOMAIN log
  <2>1. DOMAIN restarts \subseteq DOMAIN log /\ Len(log) \in DOMAIN log
    BY <1>1
  <2>2. restart_counts'[n] \subseteq Before \cup {Len(log)}
    BY <1>3, Zenon DEF Recent
  <2>3. \A m \in DOMAIN restart_counts \ {n} : restart_counts'[m] \subseteq DOMAIN restarts
    BY <1>3, Zenon DEF Inv, TypeOK
  <2> HIDE DEF Before
  <2> QED
    BY <1>3, <1>4, <2>1, <2>2, <2>3, Zenon
<1>6. ASSUME NEW k \in DOMAIN log, t - log[k].at < Within
      PROVE  /\ log[k].cause \in DOMAIN restart_counts'
             /\ k \in restart_counts'[log[k].cause]
  <2>1. CASE k = Len(log)
    BY <1>2, <1>3, <1>6, <2>1, Zenon DEF Recent
  <2>2. CASE k # Len(log)
    <3>1. k \in DOMAIN restarts /\ log[k] = restarts[k]
      BY <1>1, <2>2
    <3>2. now - restarts[k].at < Within
      BY <1>1, <1>6, <3>1
    <3>3. log[k].cause \in DOMAIN restart_counts /\ k \in restart_counts[log[k].cause]
      BY <3>1, <3>2, Zenon DEF Inv, StampInv
    <3>4. CASE log[k].cause = n
      BY <1>3, <1>6, <3>3, <3>4, Zenon DEF Recent
    <3>5. CASE log[k].cause # n
      BY <1>3, <3>3, <3>5, Zenon
    <3> QED
      BY <3>4, <3>5, Zenon
  <2> QED
    BY <2>1, <2>2, Zenon
<1>7. \A k \in DOMAIN log : log[k].at <= t
  <2>1. \A k \in DOMAIN restarts : restarts[k].at <= now
    BY Zenon DEF Inv, StampInv
  <2> QED
    BY <1>1, <1>2, <2>1
<1>8. StampInv'
  BY <1>6, <1>7, Zenon DEF StampInv
<1> QED
  BY <1>3, <1>5, <1>8, Zenon DEF Inv, TypeOK

(* A restart that is allowed keeps the number in the window within the limit. *)
LEMMA RestartLimit ==
  ASSUME Inv, NEW n \in DOMAIN children, NEW t \in {now, now + 1} \cap (0 .. MaxTime),
         NEW log, log = Append(restarts, [at |-> t, cause |-> n, who |-> Restarted(n)]),
         restarts' = log, CheckRestartAllowed(n)
  PROVE  LimitInv'
<1>1. /\ log \in Seq(Entry) /\ Len(restarts) \in Nat /\ Len(log) = Len(restarts) + 1
      /\ DOMAIN restarts = 1 .. Len(restarts) /\ DOMAIN log = 1 .. Len(restarts) + 1
      /\ log[Len(log)] = [at |-> t, cause |-> n, who |-> Restarted(n)]
      /\ \A k \in DOMAIN restarts : log[k] = restarts[k] /\ restarts[k] \in Entry
      /\ t \in Nat /\ now \in Nat /\ now <= t /\ Within \in Nat
      /\ \A k \in DOMAIN restarts : restarts[k].at \in Nat
  BY RestartFacts, Zenon
<1>2. SUFFICES ASSUME MaxRestarts > 0, NEW k \in DOMAIN log
               PROVE  Cardinality(InWindow(k)') <= MaxRestarts
  BY Zenon DEF LimitInv
<1>3. CASE k # Len(log)
  <2>1. k \in DOMAIN restarts
    BY <1>1, <1>3
  <2>2. [at |-> t, cause |-> n, who |-> Restarted(n)] \in Entry
    BY <1>1
  <2>3. InWindow(k)' = InWindow(k)
    BY <2>1, <2>2, WindowKept, Zenon DEF Inv
  <2> QED
    BY <1>2, <2>1, <2>3, Zenon DEF Inv, LimitInv
<1>4. CASE k = Len(log)
  <2> DEFINE W == {i \in 1 .. k : log[i].cause = n /\ t - log[i].at < Within}
             R == IF n \in DOMAIN restart_counts THEN Recent(restarts, restart_counts[n], now) ELSE {}
  <2>1. InWindow(k)' = W
    BY <1>1, <1>4 DEF InWindow
  <2>2. W \subseteq R \cup {k}
    <3>1. SUFFICES ASSUME NEW i \in W, i # k
                   PROVE  i \in R
      BY Zenon
    <3>2. i \in DOMAIN restarts /\ log[i] = restarts[i]
      BY <1>1, <1>4, <3>1
    <3>3. restarts[i].cause = n /\ now - restarts[i].at < Within
      BY <1>1, <3>1, <3>2
    <3> QED
      BY <3>2, <3>3, Zenon DEF Inv, StampInv, Recent
  <2>3. IsFiniteSet(R) /\ Cardinality(R) \in Nat /\ Cardinality(R) < MaxRestarts
    <3>1. R \subseteq DOMAIN restarts
      BY Zenon DEF Inv, TypeOK, Recent
    <3>2. IsFiniteSet(R) /\ Cardinality(R) \in Nat
      <4> HIDE DEF R
      <4>1. DOMAIN restarts = 1 .. Len(restarts) /\ 1 \in Int /\ Len(restarts) \in Int
        BY <1>1
      <4>2. IsFiniteSet(DOMAIN restarts)
        BY <4>1, FS_Interval, Zenon
      <4> QED
        BY <3>1, <4>2, FS_Subset, FS_CardinalityType, Zenon
    <3>3. CASE n \in DOMAIN restart_counts
      BY <1>2, <3>2, <3>3, Bounds DEF CheckRestartAllowed
    <3>4. CASE n \notin DOMAIN restart_counts
      <4>1. Cardinality({}) = 0
        BY FS_EmptySet, Zenon
      <4> QED
        BY <1>2, <3>2, <3>4, <4>1, Bounds, Zenon
    <3> QED
      BY <3>2, <3>3, <3>4, Zenon
  <2> HIDE DEF R, W
  <2>4. /\ IsFiniteSet(R \cup {k})
        /\ Cardinality(R \cup {k}) = Cardinality(R) \/ Cardinality(R \cup {k}) = Cardinality(R) + 1
    BY <2>3, FS_AddElement, Zenon
  <2>5. Cardinality(W) <= Cardinality(R \cup {k}) /\ Cardinality(W) \in Nat
    BY <2>2, <2>4, FS_Subset, FS_CardinalityType, Zenon
  <2> QED
    BY <2>1, <2>3, <2>4, <2>5, Bounds
<1> QED
  BY <1>3, <1>4, Zenon

(* A child exits: nobody is restarted, or those the strategy names. *)
LEMMA HandleChildExitStep ==
  ASSUME Inv, NEW n \in Names, NEW reason \in Reasons, HandleChildExit(n, reason)
  PROVE  Inv'
<1>1. n \in DOMAIN children /\ "Stopped" \in States /\ "Restarting" \in States
  BY Zenon DEF HandleChildExit, HasChild, States
<1>2. UNCHANGED <<strategy, next_start_order, escalation_action, started, starts>>
  BY Zenon DEF HandleChildExit
<1>3. CASE StopWithReason(n) \/ MaxRestartsExceeded(n)
  BY <1>1, <1>2, <1>3, SetStateStep, Zenon DEF StopWithReason, MaxRestartsExceeded
<1>4. CASE Restart(n) /\ CheckRestartAllowed(n)
  <2>1. PICK t \in {now, now + 1} \cap (0 .. MaxTime) :
          /\ restart_counts' =
               RecordRestart(n, Append(restarts, [at |-> t, cause |-> n, who |-> Restarted(n)]))
          /\ children' = [m \in DOMAIN children |->
                            IF m \in Restarted(n) THEN [children[m] EXCEPT !.state = "Restarting"]
                                                  ELSE children[m]]
          /\ now' = t
          /\ result' = "Ok"
          /\ restarts' = Append(restarts, [at |-> t, cause |-> n, who |-> Restarted(n)])
    BY <1>4, Zenon DEF Restart
  <2>2. PICK log : log = Append(restarts, [at |-> t, cause |-> n, who |-> Restarted(n)])
    BY Zenon
  <2>3. /\ StampInv'
        /\ DOMAIN restart_counts' \subseteq Names
        /\ \A m \in DOMAIN restart_counts' : restart_counts'[m] \subseteq DOMAIN restarts'
    BY <1>1, <2>1, <2>2, RestartStamps, Zenon
  <2>4. LimitInv'
    BY <1>1, <1>4, <2>1, <2>2, RestartLimit, Zenon
  <2>5. /\ DOMAIN children' = DOMAIN children
        /\ \A m \in DOMAIN children : /\ children'[m] \in Child
                                      /\ children'[m].order = children[m].order
    BY <1>1, <2>1, Zenon DEF Inv, TypeOK, Child
  <2>6. TypeOK'
    <3>1. restarts' \in Seq(Entry)
      BY <1>1, <2>1, <2>2, RestartFacts, Zenon
    <3>2. now' \in 0 .. MaxTime /\ result' = "Ok"
      BY <2>1, Zenon
    <3> QED
      BY <1>2, <2>3, <2>5, <3>1, <3>2, Zenon DEF Inv, TypeOK, Child, Entry
  <2>7. OrderInv'
    BY <1>2, <2>5, Zenon DEF Inv, OrderInv, Capped
  <2> QED
    BY <2>3, <2>4, <2>6, <2>7, Zenon DEF Inv
<1> QED
  BY <1>3, <1>4, Zenon DEF HandleChildExit

(* The initial state satisfies the invariant. *)
LEMMA InitInv == Init => Inv
<1> SUFFICES ASSUME Init
             PROVE  Inv
  BY Zenon
<1> USE Bounds
<1>1. DOMAIN children = {} /\ DOMAIN restart_counts = {} /\ DOMAIN restarts = {}
  BY DEF Init
<1>2. started \in [{} -> 1 .. starts] /\ restarts \in Seq(Entry)
  BY DEF Init
<1>3. TypeOK
  BY <1>1, <1>2 DEF Init, TypeOK, Entry
<1>4. StampInv /\ LimitInv /\ OrderInv
  BY <1>1 DEF Init, StampInv, LimitInv, OrderInv, Capped
<1> QED
  BY <1>3, <1>4, Zenon DEF Inv

(* Every step, and every stutter, preserves it. *)
LEMMA NextInv == Inv /\ [Next]_vars => Inv'
<1> SUFFICES ASSUME Inv, [Next]_vars
             PROVE  Inv'
  BY Zenon
<1>1. ASSUME NEW n \in Names, NEW p \in Policies, StartChild(n, p)
      PROVE  Inv'
  BY <1>1, StartChildStep, Zenon
<1>2. ASSUME NEW n \in Names, StopChild(n) \/ TerminateChild(n) \/ MarkChildRunning(n)
      PROVE  Inv'
  <2>1. /\ n \in DOMAIN children
        /\ \E s \in States : SetState(n, s)
        /\ UNCHANGED <<strategy, restart_counts, next_start_order, escalation_action, now, result,
                       started, starts, restarts>>
    BY <1>2, Zenon DEF StopChild, TerminateChild, MarkChildRunning, HasChild, States
  <2>2. result' \in {"Ok", "MaxRestartsExceeded"}
    BY <2>1, Zenon DEF Inv, TypeOK
  <2> QED
    BY <2>1, <2>2, SetStateStep, Zenon
<1>3. ASSUME NEW n \in Names, RemoveChild(n)
      PROVE  Inv'
  BY <1>3, RemoveChildStep, Zenon
<1>4. ASSUME NEW n \in Names, NEW reason \in Reasons, HandleChildExit(n, reason)
      PROVE  Inv'
  BY <1>4, HandleChildExitStep, Zenon
<1>5. ASSUME NEW a \in Escalations, SetEscalationAction(a)
      PROVE  Inv'
  <2>1. TypeOK'
    BY <1>5, Zenon DEF SetEscalationAction, Inv, TypeOK
  <2>2. StampInv' /\ LimitInv' /\ OrderInv'
    BY <1>5, Zenon DEF SetEscalationAction, Inv, StampInv, LimitInv, InWindow, OrderInv, Capped
  <2> QED
    BY <2>1, <2>2, Zenon DEF Inv
<1>6. CASE Tick
  BY <1>6, TickStep, Zenon
<1>7. CASE UNCHANGED vars
  BY <1>7, Zenon DEF vars, Inv, TypeOK, StampInv, LimitInv, InWindow, OrderInv, Capped
<1> QED
  BY <1>1, <1>2, <1>3, <1>4, <1>5, <1>6, <1>7, Zenon DEF Next

(* The invariant holds throughout. *)
THEOREM InvHolds == Spec => []Inv
  BY InitInv, NextInv, PTL DEF Spec

(* handle_child_exit grants no name more than max_restarts restarts for its own
   exits within any window, for any limit and window, although timestamps are
   pruned, a child can be removed and started again, and the clock moves between
   check_restart_allowed and record_restart. *)
THEOREM RestartsAreLimited == Spec => []RateLimited
<1>1. Inv => RateLimited
  BY Zenon DEF Inv, LimitInv, RateLimited
<1> QED
  BY <1>1, InvHolds, PTL

-----------------------------------------------------------------------------
(* A step that extends the history is an exit that handle_child_exit answers
   with a restart: the new entry names the child that exited and the children
   that the strategy picks. *)
LEMMA RestartEntry ==
  ASSUME Inv, Next, restarts' # restarts
  PROVE  \E n \in DOMAIN children :
           /\ strategy # "SimpleOneForOne"
           /\ restarts'[Len(restarts')].cause = n
           /\ restarts'[Len(restarts')].who = Restarted(n)
           /\ DOMAIN children' = DOMAIN children
           /\ \A m \in DOMAIN children \ Restarted(n) : children'[m] = children[m]
<1>1. PICK n \in Names, reason \in Reasons : HandleChildExit(n, reason)
  BY Zenon DEF Next, StartChild, StopChild, TerminateChild, RemoveChild, MarkChildRunning,
         SetEscalationAction, Tick
<1>2. n \in DOMAIN children /\ strategy # "SimpleOneForOne" /\ Restart(n)
  BY <1>1, Zenon DEF HandleChildExit, HasChild, StopWithReason, MaxRestartsExceeded
<1>3. PICK t \in {now, now + 1} \cap (0 .. MaxTime) :
        /\ restarts' = Append(restarts, [at |-> t, cause |-> n, who |-> Restarted(n)])
        /\ children' = [m \in DOMAIN children |->
                          IF m \in Restarted(n) THEN [children[m] EXCEPT !.state = "Restarting"]
                                                ELSE children[m]]
  BY <1>2, Zenon DEF Restart
<1>4. PICK log : log = Append(restarts, [at |-> t, cause |-> n, who |-> Restarted(n)])
  BY Zenon
<1>5. log[Len(log)] = [at |-> t, cause |-> n, who |-> Restarted(n)]
  BY <1>2, <1>4, RestartFacts, Zenon
<1>6. /\ restarts'[Len(restarts')].cause = n
      /\ restarts'[Len(restarts')].who = Restarted(n)
  BY <1>3, <1>4, <1>5
<1> QED
  BY <1>2, <1>3, <1>6, Zenon

(* terminate_child, or an exit that is not answered with a restart, leaves a
   child Stopped; no other operation than the restart of an exit that the limit
   let through takes it out of that state, so mark_child_running, stop_child and
   late calls cannot revive it. *)
THEOREM RestartsAloneRevive == Spec => OnlyRestartsRevive
<1> DEFINE Revives == \A n \in DOMAIN children \cap DOMAIN children' :
       (children[n].state = "Stopped" /\ children'[n].state # "Stopped") =>
         /\ restarts' # restarts
         /\ LET r == restarts'[Len(restarts')]
            IN  n = r.cause \/ (n \in r.who /\ strategy \in {"OneForAll", "RestForOne"})
<1>1. Inv /\ [Next]_vars => [Revives]_vars
  <2>1. SUFFICES ASSUME Inv, Next, NEW n \in DOMAIN children \cap DOMAIN children',
                        children[n].state = "Stopped", children'[n].state # "Stopped"
                 PROVE  /\ restarts' # restarts
                        /\ \/ n = restarts'[Len(restarts')].cause
                           \/ /\ n \in restarts'[Len(restarts')].who
                              /\ strategy \in {"OneForAll", "RestForOne"}
    BY Zenon
  <2>2. restarts' # restarts
    <3>1. SUFFICES ASSUME restarts' = restarts
                   PROVE  children'[n] = children[n] \/ children'[n].state = "Stopped"
      BY <2>1, Zenon
    <3>2. ASSUME NEW m \in Names, NEW p \in Policies, StartChild(m, p)
          PROVE  children'[n] = children[n]
      BY <2>1, <3>2, Zenon DEF StartChild, HasChild, With
    <3>3. ASSUME NEW m \in Names, StopChild(m) \/ MarkChildRunning(m)
          PROVE  children'[n] = children[n]
      BY <2>1, <3>3, Zenon DEF StopChild, MarkChildRunning, HasChild, SetState
    <3>4. ASSUME NEW m \in Names, RemoveChild(m)
          PROVE  children'[n] = children[n]
      BY <2>1, <3>4, Zenon DEF RemoveChild, Without
    <3>5. ASSUME NEW m \in DOMAIN children, SetState(m, "Stopped")
          PROVE  children'[n] = children[n] \/ children'[n].state = "Stopped"
      BY <2>1, <3>5, Zenon DEF SetState, Inv, TypeOK
    <3>6. ASSUME NEW m \in Names, TerminateChild(m)
          PROVE  children'[n] = children[n] \/ children'[n].state = "Stopped"
      BY <3>5, <3>6, Zenon DEF TerminateChild, HasChild
    <3>7. ASSUME NEW m \in Names, NEW reason \in Reasons, HandleChildExit(m, reason)
          PROVE  children'[n] = children[n] \/ children'[n].state = "Stopped"
      <4>1. m \in DOMAIN children
        BY <3>7, Zenon DEF HandleChildExit, HasChild
      <4>2. ~Restart(m)
        <5>1. ASSUME NEW t \in {now, now + 1} \cap (0 .. MaxTime)
              PROVE  Append(restarts, [at |-> t, cause |-> m, who |-> Restarted(m)]) # restarts
          <6>1. PICK log : log = Append(restarts, [at |-> t, cause |-> m, who |-> Restarted(m)])
            BY Zenon
          <6>2. Len(log) = Len(restarts) + 1 /\ Len(restarts) \in Nat
            BY <4>1, <6>1, RestartFacts
          <6> QED
            BY <6>1, <6>2
        <5> QED
          BY <3>1, <5>1, Zenon DEF Restart
      <4> QED
        BY <3>5, <3>7, <4>1, <4>2, Zenon DEF HandleChildExit, StopWithReason, MaxRestartsExceeded
    <3> QED
      BY <2>1, <3>2, <3>3, <3>4, <3>6, <3>7, Zenon DEF Next, SetEscalationAction, Tick
  <2>3. PICK c \in DOMAIN children :
          /\ strategy # "SimpleOneForOne"
          /\ restarts'[Len(restarts')].cause = c
          /\ restarts'[Len(restarts')].who = Restarted(c)
          /\ \A m \in DOMAIN children \ Restarted(c) : children'[m] = children[m]
    BY <2>1, <2>2, RestartEntry, Zenon
  <2>4. n \in Restarted(c)
    BY <2>1, <2>3, Zenon
  <2>5. n = c \/ strategy \in {"OneForAll", "RestForOne"}
    BY <2>4, Zenon DEF Restarted
  <2> QED
    BY <2>2, <2>3, <2>4, <2>5, Zenon
<1> QED
  BY <1>1, InvHolds, PTL DEF Spec, OnlyRestartsRevive

(* As long as fewer children than u32::MAX have been started, handle_rest_for_one
   restarts the child that exited and exactly those started after it, whatever
   was removed and started again in between. *)
THEOREM RestIsLater == Spec => RestOrder
<1> DEFINE Later == (strategy = "RestForOne" /\ starts <= MaxOrder + 1 /\ restarts' # restarts) =>
       LET r == restarts'[Len(restarts')]
       IN  r.who = {m \in DOMAIN children : started[m] >= started[r.cause]}
<1>1. Inv /\ [Next]_vars => [Later]_vars
  <2>1. SUFFICES ASSUME Inv, Next, strategy = "RestForOne", starts <= MaxOrder + 1,
                        restarts' # restarts
                 PROVE  restarts'[Len(restarts')].who =
                          {m \in DOMAIN children :
                             started[m] >= started[restarts'[Len(restarts')].cause]}
    BY Zenon
  <2>2. PICK c \in DOMAIN children :
          /\ restarts'[Len(restarts')].cause = c
          /\ restarts'[Len(restarts')].who = Restarted(c)
    BY <2>1, RestartEntry, Zenon
  <2>3. Restarted(c) = {m \in DOMAIN children : children[m].order >= children[c].order}
    BY <2>1, Zenon DEF Restarted
  <2>4. \A m \in DOMAIN children : children[m].order = started[m] - 1 /\ started[m] \in Int
    BY <2>1 DEF Inv, OrderInv, TypeOK
  <2>5. \A m \in DOMAIN children :
          children[m].order >= children[c].order <=> started[m] >= started[c]
    BY <2>4
  <2> QED
    BY <2>2, <2>3, <2>5, Zenon
<1> QED
  BY <1>1, InvHolds, PTL DEF Spec, RestOrder

-----------------------------------------------------------------------------
(* The hierarchy of supervisors *)

(* The two records of the tree agree, whoever climbs from a supervisor comes to
   the root, and the root is nobody's child. *)
TreeInv ==
  /\ ListsAgree /\ AllReachable
  /\ parent[Root] = NoParent

(* Only the root has a parent that is not there. *)
LEMMA ParentThere ==
  ASSUME TreeInv, NEW s \in supervisors, NEW p \in Ids, parent[s] = p
  PROVE  p \in supervisors
<1> SUFFICES ASSUME p \notin supervisors PROVE FALSE
  BY Zenon
<1>1. {s} \in SUBSET supervisors /\ \A u \in {s} : parent[u] \notin supervisors
  BY Zenon
<1>2. Root \in {s}
  BY <1>1, Zenon DEF TreeInv, AllReachable, Above
<1> QED
  BY <1>2, SupervisorTreeAssumption, Zenon DEF TreeInv

(* The empty tree satisfies its invariant. *)
LEMMA InitTree ==
  ASSUME TreeInit
  PROVE  TreeInv
<1>1. supervisors = {Root} /\ parent[Root] = NoParent
  BY Zenon DEF TreeInit, supervisors
<1>2. TreeTypeOK
  BY <1>1, SupervisorTreeAssumption DEF TreeInit, TreeTypeOK, supervisors, EmptyList
<1>3. ListsAgree
  BY <1>1, <1>2, SupervisorTreeAssumption, Zenon DEF TreeInit, ListsAgree, EmptyList
<1>4. AllReachable
  BY <1>1, Zenon DEF AllReachable, Above
<1> QED
  BY <1>1, <1>3, <1>4, Zenon DEF TreeInv

(* A new supervisor is listed under its parent, which is below the root. *)
LEMMA AddStep ==
  ASSUME TreeInv, NEW p \in Ids, NEW s \in Ids, AddSupervisor(p, s)
  PROVE  TreeInv'
<1>2. p \in supervisors /\ s \notin supervisors /\ p # s
  BY Zenon DEF AddSupervisor
<1>1. /\ supervisors' = supervisors \cup {s}
      /\ parent'[s] = p /\ \A t \in supervisors : parent'[t] = parent[t]
  <2>1. parent' = WithEntry(parent, s, p)
    BY Zenon DEF AddSupervisor
  <2> QED
    BY <2>1, <1>2, Zenon DEF WithEntry, supervisors
<1>3. /\ DOMAIN parent = supervisors /\ DOMAIN supervisor_children = supervisors
      /\ DOMAIN tree_children = supervisors
      /\ TreeTypeOK
  BY Zenon DEF TreeInv, ListsAgree, TreeTypeOK, supervisors
<1> DEFINE sc == [supervisor_children EXCEPT ![p][s] = @ + 1]
<1>4. /\ DOMAIN supervisor_children' = supervisors \cup {s}
      /\ supervisor_children'[s] = EmptyList
      /\ \A t \in supervisors : supervisor_children'[t] = sc[t]
  <2>1. supervisor_children' = WithEntry(sc, s, EmptyList) /\ DOMAIN sc = supervisors
    BY <1>3, Zenon DEF AddSupervisor
  <2> HIDE DEF sc
  <2> QED
    BY <2>1, <1>2, Zenon DEF WithEntry
<1>5. \A t \in supervisors, u \in Ids :
        supervisor_children'[t][u] =
          IF t = p /\ u = s THEN supervisor_children[t][u] + 1 ELSE supervisor_children[t][u]
  BY <1>3, <1>4 DEF TreeTypeOK
<1>6. \A t \in supervisors : supervisor_children'[t] \in [Ids -> Nat]
  BY <1>2, <1>3, <1>4 DEF TreeTypeOK
<1>7. TreeTypeOK'
  <2>1. tree_children' = WithEntry(tree_children, s, <<>>)
    BY Zenon DEF AddSupervisor
  <2>2. /\ DOMAIN tree_children' = supervisors \cup {s}
        /\ tree_children'[s] = <<>> /\ \A t \in supervisors : tree_children'[t] = tree_children[t]
    BY <2>1, <1>2, <1>3, Zenon DEF WithEntry
  <2>4. DOMAIN tree_children'[s] \subseteq ChildNames
    BY <2>2
  <2>3. EmptyList \in [Ids -> Nat]
    BY Zenon DEF EmptyList
  <2> QED
    BY <2>2, <2>3, <2>4, <1>1, <1>2, <1>3, <1>4, <1>6, Zenon DEF TreeTypeOK
<1>8. ListsAgree'
  <2> SUFFICES ASSUME NEW t \in supervisors', NEW u \in Ids
               PROVE  supervisor_children'[t][u] =
                        IF u \in supervisors' /\ parent'[u] = t THEN 1 ELSE 0
    BY <1>7, Zenon DEF ListsAgree
  <2>1. CASE t = s
    <3>1. supervisor_children'[t][u] = 0
      BY <2>1, <1>4, Zenon DEF EmptyList
    <3>2. \A v \in supervisors : parent[v] # s
      BY <1>2, ParentThere, Zenon
    <3> QED
      BY <2>1, <3>1, <3>2, <1>1, <1>2, Zenon
  <2>2. CASE t # s
    <3>1. t \in supervisors
      BY <2>2, <1>1, Zenon
    <3>2. supervisor_children[t][u] = IF u \in supervisors /\ parent[u] = t THEN 1 ELSE 0
      BY <3>1, Zenon DEF TreeInv, ListsAgree
    <3> QED
      BY <3>1, <3>2, <1>1, <1>2, <1>5
  <2> QED
    BY <2>1, <2>2, Zenon
<1>9. AllReachable'
  <2> SUFFICES ASSUME NEW t \in supervisors', NEW S \in SUBSET supervisors', t \in S,
                      \A u \in S : parent'[u] \in supervisors' => parent'[u] \in S
               PROVE  Root \in S
    BY Zenon DEF AllReachable, Above
  <2> DEFINE T == S \cap supervisors
  <2>1. \A u \in T : parent[u] \in supervisors => parent[u] \in T
    BY <1>1, Zenon
  <2>2. PICK v \in T : TRUE
    BY <1>1, <1>2, Zenon
  <2> QED
    BY <2>1, <2>2, Zenon DEF TreeInv, AllReachable, Above
<1>10. parent'[Root] = NoParent
  BY <1>1, <1>3, Zenon DEF TreeInv, TreeTypeOK
<1> QED
  BY <1>8, <1>9, <1>10, Zenon DEF TreeInv

(* A child that is started touches neither record of the hierarchy. *)
LEMMA StartStep ==
  ASSUME TreeInv, NEW s \in Ids, NEW n \in ChildNames, StartChildUnder(s, n)
  PROVE  TreeInv'
<1>1. UNCHANGED <<parent, supervisor_children>> /\ supervisors' = supervisors
  BY Zenon DEF StartChildUnder, supervisors
<1>2. s \in supervisors /\ tree_children' = [tree_children EXCEPT ![s] = WithEntry(@, n, "up")]
  BY Zenon DEF StartChildUnder
<1>3. TreeTypeOK
  BY Zenon DEF TreeInv, ListsAgree
<1>4. /\ DOMAIN tree_children' = supervisors
      /\ \A t \in supervisors : DOMAIN tree_children'[t] \subseteq DOMAIN tree_children[t] \cup {n}
  BY <1>2, <1>3, Zenon DEF TreeTypeOK, WithEntry
<1>5. TreeTypeOK'
  BY <1>1, <1>3, <1>4, Zenon DEF TreeTypeOK
<1> QED
  BY <1>1, <1>5, Zenon DEF TreeInv, ListsAgree, AllReachable, Above

(* collect_subtree leaves nothing out that is listed under what it has. *)
LEMMA SubtreeClosed ==
  ASSUME NEW s, NEW u \in CollectSubtree(s), u \in supervisors, NEW t \in Listed(u)
  PROVE  t \in CollectSubtree(s)
<1>1. t \in Ids
  BY Zenon DEF Listed
<1>2. ASSUME NEW S \in SUBSET Ids, s \in S,
             \A v \in S \cap supervisors : Listed(v) \subseteq S
      PROVE  t \in S
  <2>1. u \in S
    BY <1>2, Zenon DEF CollectSubtree
  <2> QED
    BY <1>2, <2>1, Zenon
<1> QED
  BY <1>1, <1>2, Zenon DEF CollectSubtree

(* What is removed takes everything below it along, so nothing that stays has
   lost its parent. *)
LEMMA TerminateStep ==
  ASSUME TreeInv, NEW s \in Ids, TerminateTree(s)
  PROVE  TreeInv'
<1> DEFINE gone == CollectSubtree(s) \ {Root}
           stay == supervisors \ gone
<1>1. TreeTypeOK
  BY Zenon DEF TreeInv, ListsAgree
<1>2. /\ supervisors' = stay
      /\ \A t \in stay : parent'[t] = parent[t]
  <2>1. parent' = Keep(parent, stay)
    BY Zenon DEF TerminateTree
  <2>2. DOMAIN parent = supervisors
    BY Zenon DEF supervisors
  <2> QED
    BY <2>1, <2>2, Zenon DEF Keep, supervisors
<1>3. /\ DOMAIN tree_children' = stay /\ DOMAIN supervisor_children' = stay
      /\ \A t \in stay : DOMAIN tree_children'[t] = DOMAIN tree_children[t]
  BY Zenon DEF TerminateTree
<1>4. \A t \in stay :
        supervisor_children'[t] = [u \in Ids |-> IF u \in gone THEN 0 ELSE supervisor_children[t][u]]
  BY Zenon DEF TerminateTree
<1>5. Root \in stay /\ stay \subseteq supervisors
  BY <1>1, Zenon DEF TreeTypeOK
<1>6. ASSUME NEW t \in stay, parent[t] \in supervisors
      PROVE  parent[t] \in stay
  <2> SUFFICES ASSUME parent[t] \in gone PROVE FALSE
    BY <1>6, Zenon
  <2>1. t \in Ids /\ parent[t] \in Ids
    BY <1>1, <1>5, <1>6, Zenon DEF TreeTypeOK
  <2>2. supervisor_children[parent[t]][t] = 1
    BY <1>6, <1>5, <2>1, Zenon DEF TreeInv, ListsAgree
  <2>3. t \in Listed(parent[t])
    BY <2>1, <2>2 DEF Listed
  <2>4. t \in CollectSubtree(s)
    BY <2>3, <1>6, SubtreeClosed, Zenon
  <2>5. t # Root
    BY <2>1, SupervisorTreeAssumption, Zenon DEF TreeInv
  <2> QED
    BY <2>4, <2>5, Zenon
<1> HIDE DEF gone
<1>7. TreeTypeOK'
  <2>1. ASSUME NEW t \in stay PROVE supervisor_children'[t] \in [Ids -> Nat]
    <3>1. supervisor_children[t] \in [Ids -> Nat]
      BY <1>1, Zenon DEF TreeTypeOK
    <3>2. supervisor_children'[t] = [u \in Ids |-> IF u \in gone THEN 0 ELSE supervisor_children[t][u]]
      BY <1>4, Zenon
    <3> QED
      BY <3>1, <3>2
  <2> QED
    <3>1. Root \in stay /\ stay \subseteq Ids
      BY <1>1, <1>5, Zenon DEF TreeTypeOK
    <3>2. \A t \in stay : parent'[t] \in Ids \cup {NoParent} /\ DOMAIN tree_children'[t] \subseteq ChildNames
      BY <1>1, <1>2, <1>3, <1>5, Zenon DEF TreeTypeOK
    <3> HIDE DEF stay
    <3> QED
      BY <3>1, <3>2, <2>1, <1>2, <1>3, Zenon DEF TreeTypeOK
<1>8. ListsAgree'
  <2> SUFFICES ASSUME NEW t \in stay, NEW u \in Ids
               PROVE  supervisor_children'[t][u] = IF u \in stay /\ parent'[u] = t THEN 1 ELSE 0
    BY <1>2, <1>7, Zenon DEF ListsAgree
  <2>1. supervisor_children[t][u] = IF u \in supervisors /\ parent[u] = t THEN 1 ELSE 0
    BY <1>5, Zenon DEF TreeInv, ListsAgree
  <2> QED
    BY <2>1, <1>2, <1>4, Zenon
<1>9. AllReachable'
  <2> SUFFICES ASSUME NEW t \in stay, NEW S \in SUBSET stay, t \in S,
                      \A u \in S : parent'[u] \in stay => parent'[u] \in S
               PROVE  Root \in S
    BY <1>2, Zenon DEF AllReachable, Above
  <2>1. S \in SUBSET supervisors /\ t \in supervisors
    BY <1>5, Zenon
  <2>2. \A u \in S : parent[u] \in supervisors => parent[u] \in S
    BY <1>2, <1>6, Zenon
  <2> QED
    BY <2>1, <2>2, Zenon DEF TreeInv, AllReachable, Above
<1>10. parent'[Root] = NoParent
  BY <1>2, <1>5, Zenon DEF TreeInv
<1> QED
  BY <1>8, <1>9, <1>10, Zenon DEF TreeInv

(* Every step of the tree, and every stutter, preserves its invariant. *)
LEMMA NextTree ==
  ASSUME TreeInv, [TreeNext]_tree_vars
  PROVE  TreeInv'
<1>1. CASE UNCHANGED tree_vars
  BY <1>1, Zenon DEF tree_vars, TreeInv, ListsAgree, TreeTypeOK, supervisors, AllReachable, Above
<1>2. CASE TreeNext
  BY <1>2, AddStep, StartStep, TerminateStep, Zenon DEF TreeNext
<1> QED
  BY <1>1, <1>2, Zenon

(* The invariant of the tree holds in every state. *)
LEMMA TreeHolds == TreeSpec => []TreeInv
<1>1. TreeInit => TreeInv
  BY InitTree, Zenon
<1>2. TreeInv /\ [TreeNext]_tree_vars => TreeInv'
  BY NextTree, Zenon
<1> QED
  BY <1>1, <1>2, PTL DEF TreeSpec

(* add_supervisor and terminate_tree keep the parent field of a supervisor and
   the list of its parent in agreement, for any number of supervisors. *)
THEOREM ListsAreRight == TreeSpec => []ListsAgree
<1>1. TreeInv => ListsAgree
  BY Zenon DEF TreeInv
<1> QED
  BY <1>1, TreeHolds, PTL

(* After every sequence of additions and removals each supervisor that is left
   is below the root: terminate_tree never cuts a supervisor off, and no cycle
   arises on which collect_subtree would not return. *)
THEOREM AllAreReachable == TreeSpec => []AllReachable
<1>1. TreeInv => AllReachable
  BY Zenon DEF TreeInv
<1> QED
  BY <1>1, TreeHolds, PTL
=============================================================================
