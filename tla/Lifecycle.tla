----------------------------- MODULE Lifecycle ------------------------------
(***************************************************************************)
(* Starting and stopping the scheduler (scheduler.rs, start, stop and the  *)
(* loop condition of worker_loop).  start claims the running flag before   *)
(* it takes the lock of worker_handles, stop clears the flag before it     *)
(* takes the lock, and stop holds the lock while it joins the workers.     *)
(* What a worker does between two looks at the flag is in Dispatch.        *)
(***************************************************************************)
EXTENDS Integers, FiniteSets

CONSTANTS Callers,
          WorkerCount,      \* worker_stats.len()
          NoCaller,
          MaxStarts         \* bound on the starts that claim the flag

ASSUME LifecycleAssumption ==
  /\ WorkerCount \in Nat \ {0} /\ MaxStarts \in Nat
  /\ NoCaller \notin Callers

VARIABLES running,
          lock,             \* who holds the lock of worker_handles
          handles,          \* worker_handles
          live,             \* the worker threads that have not returned
          busy,             \* those in a pass of their loop
          cpc,
          next,             \* the worker that a start spawns next
          starts,           \* history: number of starts that claimed the flag
          started,          \* history: has a start returned Ok since the last stop?
          refused,          \* history: has a thread been refused since the last stop?
          overlapped        \* history: has a call begun during another one?

history == <<starts, started, refused, overlapped>>
life_vars == <<running, lock, handles, live, busy, cpc, next, history>>

(* A thread is known by the start that spawned it and its worker id. *)
WorkerThreads == (1 .. MaxStarts) \X (1 .. WorkerCount)

LifeInit ==
  /\ running = FALSE
  /\ lock = NoCaller
  /\ handles = {} /\ live = {} /\ busy = {}
  /\ cpc = [c \in Callers |-> "idle"]
  /\ next = 1
  /\ starts = 0 /\ started = FALSE /\ refused = FALSE /\ overlapped = FALSE

GotoLabel(c, label) == cpc' = [cpc EXCEPT ![c] = label]

Idle == \A c \in Callers : cpc[c] = "idle"

(* A call begins. *)
BeginCall(c) == cpc[c] = "idle" /\ overlapped' = (overlapped \/ ~Idle)

-----------------------------------------------------------------------------
(* Fault: the flag is set but its old value is not looked at. *)
StartAlways(c) ==
  /\ BeginCall(c)
  /\ starts < MaxStarts
  /\ starts' = starts + 1 /\ GotoLabel(c, "startLock")
  /\ running' = TRUE
  /\ UNCHANGED <<lock, handles, live, busy, next, started, refused>>

(* start: running.swap(true) *)
StartClaim(c) ==
  /\ BeginCall(c)
  /\ IF running
       THEN started' = TRUE /\ UNCHANGED <<starts, cpc>>
       ELSE /\ starts < MaxStarts
            /\ starts' = starts + 1 /\ GotoLabel(c, "startLock") /\ UNCHANGED started
  /\ running' = TRUE
  /\ UNCHANGED <<lock, handles, live, busy, next, refused>>

StartLock(c) ==
  /\ cpc[c] = "startLock" /\ lock = NoCaller
  /\ lock' = c
  /\ next' = 1
  /\ GotoLabel(c, "spawn")
  /\ UNCHANGED <<running, handles, live, busy, history>>

(* The lock makes one start at a time spawn: its threads get a number that no
   thread of the same worker id has. *)
Round == CHOOSE r \in 1 .. MaxStarts : <<r, next>> \notin handles \cup live

SpawnWorker(c) ==
  /\ cpc[c] = "spawn" /\ next <= WorkerCount
  /\ live' = live \cup {<<Round, next>>}
  /\ handles' = handles \cup {<<Round, next>>}
  /\ next' = next + 1
  /\ UNCHANGED <<running, lock, busy, cpc, history>>

(* A refused thread ends start with an error and leaves the flag set. *)
SpawnFails(c) ==
  /\ cpc[c] = "spawn" /\ next <= WorkerCount
  /\ lock' = NoCaller
  /\ refused' = TRUE
  /\ GotoLabel(c, "idle")
  /\ UNCHANGED <<running, handles, live, busy, next, starts, started, overlapped>>

StartReturn(c) ==
  /\ cpc[c] = "spawn" /\ next > WorkerCount
  /\ lock' = NoCaller
  /\ started' = TRUE
  /\ GotoLabel(c, "idle")
  /\ UNCHANGED <<running, handles, live, busy, next, starts, refused, overlapped>>

-----------------------------------------------------------------------------
StopClear(c) ==
  /\ BeginCall(c)
  /\ running' = FALSE
  /\ started' = FALSE /\ refused' = FALSE
  /\ GotoLabel(c, "stopLock")
  /\ UNCHANGED <<lock, handles, live, busy, next, starts>>

StopLock(c) ==
  /\ cpc[c] = "stopLock" /\ lock = NoCaller
  /\ lock' = c
  /\ GotoLabel(c, "join")
  /\ UNCHANGED <<running, handles, live, busy, next, history>>

(* Fault: a handle is dropped without waiting for its thread. *)
DropHandle(c) ==
  /\ cpc[c] = "join"
  /\ \E h \in handles : handles' = handles \ {h}
  /\ UNCHANGED <<running, lock, live, busy, cpc, next, history>>

(* join returns when the thread has; the workers are joined in the order of
   their handles, which no property depends on. *)
Join(c) ==
  /\ cpc[c] = "join"
  /\ \E h \in handles \ live : handles' = handles \ {h}
  /\ UNCHANGED <<running, lock, live, busy, cpc, next, history>>

StopReturn(c) ==
  /\ cpc[c] = "join" /\ handles = {}
  /\ lock' = NoCaller
  /\ GotoLabel(c, "idle")
  /\ UNCHANGED <<running, handles, live, busy, next, history>>

-----------------------------------------------------------------------------
(* Fault: the loop does not look at the flag again. *)
WorkerStays(t) == FALSE /\ UNCHANGED life_vars

(* while running.load(): a worker leaves its loop when it reads false, ... *)
WorkerExit(t) ==
  /\ t \in live \ busy /\ ~running
  /\ live' = live \ {t}
  /\ UNCHANGED <<running, lock, handles, busy, cpc, next, history>>

(* ... and looks for a task and processes it when it reads true. *)
BeginPass(t) ==
  /\ t \in live \ busy /\ running
  /\ busy' = busy \cup {t}
  /\ UNCHANGED <<running, lock, handles, live, cpc, next, history>>

(* The task has been processed, or there was none. *)
EndPass(t) ==
  /\ t \in busy
  /\ busy' = busy \ {t}
  /\ UNCHANGED <<running, lock, handles, live, cpc, next, history>>

CallerStep(c) ==
  \/ StartLock(c) \/ SpawnWorker(c) \/ SpawnFails(c) \/ StartReturn(c)
  \/ StopLock(c) \/ Join(c) \/ StopReturn(c)

LifeNext ==
  \/ \E c \in Callers : StartClaim(c) \/ StopClear(c) \/ CallerStep(c)
  \/ \E t \in WorkerThreads : WorkerExit(t) \/ BeginPass(t) \/ EndPass(t)

LifeSpec == LifeInit /\ [][LifeNext]_life_vars

(* Callers go on with a call they are in, the lock is eventually fair (it is a
   parking_lot Mutex), and a worker between two passes looks at the flag; nobody
   has to call start or stop, and nothing is assumed of how long a pass takes:
   an executor may block, and the drain of a mailbox may go on for ever. *)
FairLifeSpec ==
  /\ LifeSpec
  /\ \A c \in Callers : SF_life_vars(StartLock(c)) /\ SF_life_vars(StopLock(c))
  /\ \A c \in Callers : WF_life_vars(CallerStep(c))
  /\ \A t \in WorkerThreads : WF_life_vars(WorkerExit(t) \/ BeginPass(t))

-----------------------------------------------------------------------------
(* Properties *)

LifeTypeOK ==
  /\ {running, started, refused, overlapped} \subseteq BOOLEAN
  /\ lock \in Callers \cup {NoCaller}
  /\ handles \subseteq WorkerThreads /\ live \subseteq WorkerThreads /\ busy \subseteq WorkerThreads
  /\ cpc \in [Callers -> {"idle", "startLock", "spawn", "stopLock", "join"}]
  /\ next \in 1 .. WorkerCount + 1 /\ starts \in 0 .. MaxStarts

(* No worker is ever without a handle, whatever starts and stops overlap, so
   the stop in Drop waits for every thread that is left.  (The state stays
   well typed.) *)
WorkersOwned == LifeTypeOK /\ live \subseteq handles

(* As long as calls do not overlap, the pool is what the flag says, whatever
   starts are repeated or fail: there is never a second pool, between calls a
   scheduler that is not running has no worker, and one whose start returned Ok
   without the OS refusing a thread has all of them. *)
PoolMatchesFlag ==
  ~overlapped =>
    /\ Cardinality(live) <= WorkerCount
    /\ (Idle /\ ~running) => live = {}
    /\ (Idle /\ started /\ ~refused) => Cardinality(live) = WorkerCount

(* If every pass of every worker ends, a call of stop returns, unless another
   call overlaps it: the workers see the flag that stop has cleared, and stop
   waits for no thread that another call has to let go first. *)
StopReturns ==
  (\A t \in WorkerThreads : []<>(t \notin busy)) =>
    \A c \in Callers : cpc[c] \in {"stopLock", "join"} ~> (cpc[c] = "idle" \/ overlapped)
=============================================================================
