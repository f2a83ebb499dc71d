----------------------------- MODULE Supervisor -----------------------------
(***************************************************************************)
(* One supervisor (supervisor.rs): its children, the strategies that       *)
(* restart them when an exit is reported, and the limit on restarts within *)
(* a time window.                                                          *)
(*                                                                         *)
(* Every operation takes &mut self and is one action.  Calls that fail     *)
(* without an effect are left out.  A restart also gives the child a new   *)
(* ActorId and an attempt number, and an abnormal exit of a significant    *)
(* child is logged; no operation reads them.  Time is a counter of units   *)
(* in which the window is measured; handle_child_exit reads it twice.      *)
(* The timestamps of restarts are only filtered and counted: they are kept *)
(* as a set, each as the number of its restart in the history.             *)
(***************************************************************************)
EXTENDS Integers, Sequences, FiniteSets

CONSTANTS Names,
          Strategies, MaxRestarts, Within, \* SupervisionStrategy
          Policies,                        \* restart policies in use
          Reasons,                         \* exit reasons that occur
          Escalations,                     \* escalation actions that are set
          MaxOrder,                        \* u32::MAX, where start orders saturate
          MaxTime, MaxStarts, MaxExits     \* bounds

ASSUME SupervisorAssumption ==
  /\ Strategies \subseteq {"OneForOne", "OneForAll", "RestForOne", "SimpleOneForOne"}
  /\ MaxRestarts \in Nat /\ Within \in Nat
  /\ Policies \subseteq {"Permanent", "Transient", "Temporary"}
  /\ Reasons \subseteq {"Normal", "Shutdown", "Signaled", "Error", "Killed"}
  /\ Escalations \subseteq {"Escalate", "ShutdownNode", "GiveUp"}
  /\ {MaxOrder, MaxTime, MaxStarts, MaxExits} \subseteq Nat

VARIABLES strategy,
          children,          \* name -> child, for the children there are
          restart_counts,    \* name -> restart timestamps, never removed with the child
          next_start_order,
          escalation_action,
          now,
          result,            \* of the last handle_child_exit
          started,           \* history: name -> the number of its start, for the children there are
          starts,            \* history: number of start_child
          restarts           \* history: the restarts, as [at, cause, who]

vars == <<strategy, children, restart_counts, next_start_order, escalation_action, now, result,
          started, starts, restarts>>

States == {"Running", "Stopping", "Stopped", "Restarting"}

Init ==
  /\ strategy \in Strategies
  /\ children = <<>>
  /\ restart_counts = <<>>
  /\ next_start_order = 0
  /\ escalation_action = "Escalate"
  /\ now = 0
  /\ result = "Ok"
  /\ started = <<>> /\ starts = 0 /\ restarts = <<>>

HasChild(n) == n \in DOMAIN children

With(f, n, v) == [m \in DOMAIN f \cup {n} |-> IF m = n THEN v ELSE f[m]]

Without(f, n) == [m \in DOMAIN f \ {n} |-> f[m]]

(* children.get_mut(n).state = s *)
SetState(n, s) == children' = [children EXCEPT ![n].state = s]

(* saturating_add *)
Capped(k) == IF k > MaxOrder THEN MaxOrder ELSE k

-----------------------------------------------------------------------------
StartChild(n, policy) ==
  /\ starts < MaxStarts
  /\ ~HasChild(n)
  /\ children' = With(children, n, [policy |-> policy, state |-> "Running",
                                    order |-> next_start_order])
  /\ next_start_order' = Capped(next_start_order + 1)
  /\ starts' = starts + 1 /\ started' = With(started, n, starts + 1)
  /\ UNCHANGED <<strategy, restart_counts, escalation_action, now, result, restarts>>

StopChild(n) ==
  /\ HasChild(n) /\ children[n].state \in {"Running", "Restarting"}
  /\ SetState(n, "Stopping")
  /\ UNCHANGED <<strategy, restart_counts, next_start_order, escalation_action, now, result, started, starts, restarts>>

TerminateChild(n) ==
  /\ HasChild(n)
  /\ SetState(n, "Stopped")
  /\ UNCHANGED <<strategy, restart_counts, next_start_order, escalation_action, now, result, started, starts, restarts>>

(* Fault: the history of restarts goes with the child. *)
RemoveChildAndHistory(n) ==
  /\ HasChild(n)
  /\ children' = Without(children, n)
  /\ restart_counts' = Without(restart_counts, n)
  /\ started' = Without(started, n)
  /\ UNCHANGED <<strategy, next_start_order, escalation_action, now, result, starts, restarts>>

(* The restart timestamps stay under the name. *)
RemoveChild(n) ==
  /\ HasChild(n)
  /\ children' = Without(children, n)
  /\ started' = Without(started, n)
  /\ UNCHANGED <<strategy, restart_counts, next_start_order, escalation_action, now, result, starts, restarts>>

(* Fault: a stopped child is marked running too. *)
MarkAnyRunning(n) ==
  /\ HasChild(n)
  /\ SetState(n, "Running")
  /\ UNCHANGED <<strategy, restart_counts, next_start_order, escalation_action, now, result, started, starts, restarts>>

MarkChildRunning(n) ==
  /\ HasChild(n) /\ children[n].state \in {"Restarting", "Running"}
  /\ SetState(n, "Running")
  /\ UNCHANGED <<strategy, restart_counts, next_start_order, escalation_action, now, result, started, starts, restarts>>

SetEscalationAction(a) ==
  /\ escalation_action' = a
  /\ UNCHANGED <<strategy, children, restart_counts, next_start_order, now, result, started, starts, restarts>>

-----------------------------------------------------------------------------
(* handle_child_exit *)

ShouldRestart(n, reason) ==
  \/ children[n].policy = "Permanent"
  \/ children[n].policy = "Transient" /\ reason # "Normal"

(* The timestamps of log among stamps that are inside the window at time t *)
Recent(log, stamps, t) == {k \in stamps : t - log[k].at < Within}

CheckRestartAllowed(n) ==
  \/ MaxRestarts = 0
  \/ n \notin DOMAIN restart_counts
  \/ Cardinality(Recent(restarts, restart_counts[n], now)) < MaxRestarts

(* record_restart of the last restart of log: its timestamp is added, then the
   stale ones go. *)
RecordRestart(n, log) ==
  LET before == IF n \in DOMAIN restart_counts THEN restart_counts[n] ELSE {}
  IN  With(restart_counts, n, Recent(log, before \cup {Len(log)}, log[Len(log)].at))

(* Fault: the failed child's later siblings only. *)
LaterOnly(n) ==
  IF strategy = "RestForOne"
    THEN {m \in DOMAIN children : children[m].order > children[n].order}
    ELSE {n}

(* The children that the strategy restarts on an exit of n. *)
Restarted(n) ==
  CASE strategy = "OneForOne" -> {n}
    [] strategy = "OneForAll" -> DOMAIN children
    [] strategy = "RestForOne" ->
         {m \in DOMAIN children : children[m].order >= children[n].order}
    [] OTHER -> {}

(* Siblings are restarted whatever their policy and state, and the restart is
   counted for the child that exited. *)
Restart(n) ==
  \E t \in {now, now + 1} \cap (0 .. MaxTime) :
    LET log == Append(restarts, [at |-> t, cause |-> n, who |-> Restarted(n)]) IN
    /\ restart_counts' = RecordRestart(n, log)
    /\ children' = [m \in DOMAIN children |->
                      IF m \in Restarted(n) THEN [children[m] EXCEPT !.state = "Restarting"]
                                            ELSE children[m]]
    /\ now' = t
    /\ result' = "Ok"
    /\ restarts' = log

(* handle_max_restarts_exceeded: the child is stopped with an error of its
   own, and the caller is told unless the supervisor gives up silently. *)
MaxRestartsExceeded(n) ==
  /\ SetState(n, "Stopped")
  /\ result' = IF escalation_action = "GiveUp" THEN "Ok" ELSE "MaxRestartsExceeded"
  /\ UNCHANGED <<restart_counts, now, restarts>>

StopWithReason(n) ==
  /\ SetState(n, "Stopped")
  /\ result' = "Ok"
  /\ UNCHANGED <<restart_counts, now, restarts>>

(* An exit may be reported late, of a child that is down already. *)
HandleChildExit(n, reason) ==
  /\ HasChild(n) /\ Len(restarts) < MaxExits
  /\ IF ~ShouldRestart(n, reason) \/ strategy = "SimpleOneForOne"
       THEN StopWithReason(n)
       ELSE IF CheckRestartAllowed(n) THEN Restart(n) ELSE MaxRestartsExceeded(n)
  /\ UNCHANGED <<strategy, next_start_order, escalation_action, started, starts>>

Tick ==
  /\ now < MaxTime
  /\ now' = now + 1
  /\ UNCHANGED <<strategy, children, restart_counts, next_start_order, escalation_action, result, started, starts, restarts>>

-----------------------------------------------------------------------------
Next ==
  \/ \E n \in Names :
       \/ \E p \in Policies : StartChild(n, p)
       \/ StopChild(n) \/ TerminateChild(n) \/ RemoveChild(n) \/ MarkChildRunning(n)
       \/ \E reason \in Reasons : HandleChildExit(n, reason)
  \/ \E a \in Escalations : SetEscalationAction(a)
  \/ Tick

Spec == Init /\ [][Next]_vars

-----------------------------------------------------------------------------
(* Properties *)

TypeOK ==
  /\ strategy \in Strategies
  /\ DOMAIN children \subseteq Names /\ DOMAIN restart_counts \subseteq Names
  /\ \A n \in DOMAIN children :
       children[n] \in [policy : Policies, state : States, order : 0 .. MaxOrder]
  /\ \A n \in DOMAIN restart_counts : restart_counts[n] \subseteq DOMAIN restarts
  /\ next_start_order \in 0 .. MaxOrder
  /\ escalation_action \in Escalations \cup {"Escalate"} /\ result \in {"Ok", "MaxRestartsExceeded"}
  /\ now \in 0 .. MaxTime
  /\ started \in [DOMAIN children -> 1 .. starts] /\ starts \in 0 .. MaxStarts
  /\ restarts \in Seq([at : 0 .. MaxTime, cause : Names, who : SUBSET Names])

(* The restarts for exits of the same child in the window that ends with
   restart k *)
InWindow(k) ==
  {i \in 1 .. k : restarts[i].cause = restarts[k].cause /\ restarts[k].at - restarts[i].at < Within}

(* No name is granted more than max_restarts restarts for its own exits in any
   window, although timestamps are pruned, time passes between the check and
   the recording, and a child can be removed and started again.  (The state
   stays well typed.) *)
RateLimited ==
  /\ TypeOK
  /\ MaxRestarts > 0 =>
       \A k \in DOMAIN restarts : Cardinality(InWindow(k)) <= MaxRestarts

(* A child that is down comes back only through a restart that the limit has
   granted, its own or, in strategies that restart siblings, another's. *)
OnlyRestartsRevive ==
  [][\A n \in DOMAIN children \cap DOMAIN children' :
       (children[n].state = "Stopped" /\ children'[n].state # "Stopped") =>
         /\ restarts' # restarts
         /\ LET r == restarts'[Len(restarts')]
            IN  n = r.cause \/ (n \in r.who /\ strategy \in {"OneForAll", "RestForOne"})]_vars

(* As long as the start counter has not saturated, rest-for-one restarts the
   failed child and every child started after it, and leaves those started
   before it alone, whatever children were removed and started again. *)
RestOrder ==
  [][(strategy = "RestForOne" /\ starts <= MaxOrder + 1 /\ restarts' # restarts) =>
       LET r == restarts'[Len(restarts')]
       IN  r.who = {m \in DOMAIN children : started[m] >= started[r.cause]}]_vars
=============================================================================
