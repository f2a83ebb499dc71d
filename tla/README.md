# A TLA+ model of actor-kit

actor-kit is a work-stealing actor runtime in Rust: actors are registry
entries with a bounded mailbox, a pool of OS threads runs their messages, and
supervisors restart them. This directory models its control (every step that
another thread, task or message can come between) and abstracts its data. All
line numbers refer to the files under `src/src/`.

## 1. The system

| part | state | operations | interacts with |
|---|---|---|---|
| mailbox (`mailbox.rs`) | two array queues, a semaphore of permits, a size counter, a backpressure flag, a notifier | `try_send`, `send`, `try_recv`, `recv`, `clear` | scheduler calls, workers |
| dispatch (`scheduler.rs`, `queue.rs`) | priority and global injectors, worker position, actor state | `send`, `try_send`, `send_batch`, `set_actor_running`, `set_actor_state`, `kill`; worker loop, `process_single_message`, `process_task_safe` | mailbox, registry, executor |
| lifecycle (`scheduler.rs`) | `running`, `worker_handles`, threads | `start`, `stop`, thread start and exit | workers |
| registry (`registry.rs`) | `by_id`, `by_name`, `names_lock` | `register(_named)`, `unregister`, `set_state` | spawn, kill |
| spawn and policy (`scheduler.rs`, `policy.rs`) | the policy's budget | `spawn_named`, `kill` | registry |
| supervisor (`supervisor.rs`) | children, start orders, restart history, clock | `start_child`, `stop_child`, `terminate_child`, `remove_child`, `mark_child_running`, `handle_child_exit` | the application |
| supervisor tree (`supervisor.rs`) | map of supervisors, each one's list of child supervisors | `add_supervisor`, `start_child_under`, `terminate_tree`, `tree_depth` | supervisors |
| RPC (`rpc.rs`) | pending calls, one-shot channels, timers, handler and type maps | `call_with_timeout`, `handle_response`, cleanup task, `dispatch`, `register`, `unregister`, `clear` | scheduler send |
| memory pool (`memory_pool.rs`) | an arena, the bump offset, the list of freed blocks, two counters | `borrow`, drop of a block, `reset` | callers only |
| simulation (`sim/`) | ready set, delayed and parked deliveries, a ledger per actor and per message | `run`: inject, deliver, retry, process; crash, restart, kill | mailbox, registry, task processing, supervisor |
| zero-copy, handle, executor | see section 7 | | |

The hard behaviours: lock-free steps of mailbox senders and receivers, futures
dropped at an await, workers that hold tasks of one actor at the same time, a
state read before user code runs and acted on afterwards, panics, a resume that
must find the messages held back, `start` against `stop`, a sliding restart
window, timers racing answers and a cleanup task, blocks freed while another is
being allocated, tasks that outlive the actor they were made for.
`PROJECT.json` lists each such hazard at its line with the properties that
cover it.

## 2. Modules

**Mailbox** has one action per atomic access: the permit, the counter, the
push, the flag, `notify_waiters`; on the other side the two pops, the counter,
the permits and the two steps of `check_backpressure`. `spc` and `rpc` are the
positions of senders and receivers. The tokio semaphore is a counter with a
FIFO of waiters to which returned permits are handed directly; the notifier is
the set of enabled and of notified waiters. A waiting `send` and a parked
`recv` may be dropped at their await. Messages carry a sender, a number and
whether they are critical. `last` and `taken` are history and local values.
`Push` has the branch "internal queue is full"; `HardBound` shows that it is
never taken.

**BoundedMailbox** is what a mailbox promises: two FIFO queues of together at
most `Capacity` messages, to which a message is added at the end, and from
which the first is removed. `Mailbox` implements it, `Dispatch` is built on its
two queues.

**Dispatch** has one actor, clients that call `send`, `try_send` and
`send_batch`, workers, threads that call `kill`, and calls of
`set_actor_running` and `set_actor_state`, which change the state and nothing
else (`SetActorState`). A call puts its messages into the mailbox one by one
and then pushes one task that carries copies of them; the future of a `send` or
`send_batch` may be dropped while it waits for room (`CancelCall`), and what it
has enqueued then has no task. A worker takes a task from the critical, high or
global queue, reads the actor's state, runs the message, and releases a slot by
popping the mailbox. The paths for control messages, for suspended actors
(re-queue, drain on resume), failures, panics and batches are actions of their
own, named after the branch. Every mailbox and registry call is one step here,
which `Mailbox`'s refinement and the per-entry locks of the maps justify;
running a message and the state change that follows at once are one step. A
refused call leaves no trace and is not an action. `accepted`, `abandoned`
(messages left by dropped calls), `runs`, `steady` (the actor has been live
from the start), `ran` (messages run since the actor is Failed) and `forced`
(`set_actor_state` has made an actor live that was not) are history.
Worker-local deques are left out: no code pushes into them, so the local pop
and the stealing paths find nothing.

**Registry** has threads that call `register_named` and `unregister` directly
or through `spawn_named` and `kill`, one step per access of `by_id`, `by_name`,
`names_lock` and the policy. A scheduler has a policy or not; with one, actors
come and go through the scheduler only. The error of `register_named` for an id that
appeared after the checks (154-159) is unreachable, as the proof shows, and has
no action.

**Lifecycle** has callers of `start` and `stop`, one step per access of the
`running` flag, the lock, the handles, each thread spawned, failed or joined;
a worker leaves its loop when it reads `running` as false (`WorkerExit`), and
when it reads true goes through one pass of it (`BeginPass`, `EndPass`; `busy`
holds the workers in a pass), in which it does not look at the flag. What it does
in a pass is in Dispatch.

**Supervisor** has one action per method, over a clock that ticks; methods take
`&mut self`, so they do not interleave. Exit reasons, restart policies,
strategies and escalation actions are those of the code. The timestamps of a
child's restarts are only pruned and counted, so they are a set of the numbers
of those restarts. `started`, `starts` and `restarts` are history that the
properties need.

**SupervisorTree** holds the map of supervisors and each one's list of
children, as how often it contains each id: no operation depends on the order
of a list. `terminate_tree` removes everything the lists lead to, which is the
smallest set closed under them; the depth is a recursive function as in the
code.

**Rpc** has calls, a callee whose requests and answers may be lost, delayed,
reordered or repeated, hosts that deliver answers, the cleanup task and the
handler registry. Time is kept as time remaining per call, and decoding as
success or failure. `cleanup_expired` reads the clock before it takes its
lock; an earlier reading only expires less, so both are one step. `clear` takes
two locks one after the other, and `clearing` counts the calls of it that are
between the two.

**MemoryPool** has one thread inside `borrow` at a time, as the outer mutex
makes it, and any number of threads that drop blocks under the list's own
mutex: `Borrow`, `TryFreedList` and `TryBump` are the steps of a borrow, and
`Drop` may come between them. A block is its offset and its size, the list of
free blocks a sequence. Rounding and the bound check are done modulo `2^Width`:
a size in the last seven values of `usize` wraps when it is rounded up (269),
which panics in a debug build and in a release build hands out a block for
which no byte was set aside. Using that block is undefined behaviour, so the
model says nothing of what follows (`wrapped`, `Undefined`). As the module's
documentation demands, blocks are dropped once, the pool outlives them and
`reset` is called while none is outstanding (lines 16-21). The counters change
in the same step as the list or the offset: `stats` reads them under the outer
mutex.

**Sim** is the driver of the deterministic simulation with every draw of the
seeded generator as a choice, so that one state graph stands for all seeds.
`pc` is the phase of the round and `left` its remaining iterations; `InjectOne`,
`DeliverDue`, `RetryBlocked` and `Process` are single iterations. A mailbox is
its length, because the pipeline frees a slot by popping whatever is first.
`Process` picks any task that is not behind a priority task, which covers the
three policies; under `RoundRobin` and `Fifo` fewer behaviours are possible.
What the driver calls appears as its effect: task processing runs all messages
of a task or panics in the first and drains the mailbox (`Succeed`, `Crash`),
the supervisor grants `MaxRestarts` restarts per actor (its window is an hour).
The driver's own audits, which the code makes once a round or at the end, are
invariants here. They are sums over the tasks and sends under way; `Total`
takes the sum of a sequence of numbers as the cardinality of a set with that
many elements, a form the prover can reason about.

**Seqs** has the two operators on sequences that the specifications with
proofs need, as the community module SequencesExt defines them.

Lifecycle, Rpc and SupervisorTree have names with a prefix for what every
module has (`LifeInit`, `LifeNext`, `LifeSpec`, `RpcTypeOK`, `TreeSpec`, ...):
proof modules about two components extend both.

Two remarks on memory order: the relaxed counters of the mailbox are modelled
as sequentially consistent (each is a single read-modify-write, and the queues
order the messages); a relaxed load of `size` in `check_backpressure` may read
any value current between its call and its store, which the model gives by
making the load and the store two steps.

## 3. Runs that pass

`MC*.tla` give the constants, one `.cfg` per run.

| run | shows |
|---|---|
| Mailbox | two senders, one receiver, both queues: permits and counter account for every message (`PermitConservation`, `SizeAccounting`), capacity is hard (`HardBound`), no lost wakeup (`NoLostWakeup`), per-sender order (`PerSenderFifo`), `Refines`: Mailbox implements BoundedMailbox; blocked senders get in and queued messages get out (`SendersProgress`, `MailboxDrains`) |
| Dispatch | two workers, three send calls, dropped calls, two priorities, batches that fill the mailbox, panics: one slot per message to be run or left by a dropped call (`SlotsHeld`), none run twice (`AtMostOnce`), no worker runs a second message of an actor that is Failed (`FailureContained`); every accepted message is run (`Delivered`) and every call returns (`CallReturns`), unless unfinished batches and dropped calls hold every slot |
| DispatchSerial | one worker; pause, resume, failures, dropped calls, `set_actor_running` and kill: `NoStranded`, `SerialInOrder` |
| Registry | three threads that spawn, register, kill and unregister: `NamesUnique`, `NamesResolve`, `NoDangling`, `BudgetExact` |
| Supervisor | every strategy and policy: the restart limit in every window (`RateLimited`), `OnlyRestartsRevive`, `RestOrder` |
| SupervisorTree | both copies of the hierarchy agree (`ListsAgree`), nothing is orphaned (`AllReachable`), `DepthExact` |
| Lifecycle | overlapping starts and stops and refused threads leave no worker without a handle (`WorkersOwned`); without overlap also `PoolMatchesFlag`, and `StopReturns` if every pass of a worker ends |
| Rpc | `OwnAnswer`, `EntryReleased`, `TypeIdsHandled`, `CallReturns`, `EntriesExpire` |
| MemoryPool | no byte belongs to two blocks, held or free, and every block lies in the arena, aligned (`BlocksDisjoint`); allocated less freed is the number of bytes held (`Balanced`); both until a size wraps |
| Sim | slots taken, freed and destroyed balance (`SlotsConserved`), every message is processed, lost or on its way (`Accounted`), an actor given up stays so (`GivenUpForGood`), the run ends (`Quiesces`) |

`SlotsHeld`, `Delivered` and `CallReturns` speak of an actor as long as it has
been live (`steady`): a stopped one keeps its slots, and a failed one drops
messages. `AtMostOnce` holds of actors that are never suspended, and Dispatch
leaves Pause out. Its one payload, Start, stands for every message that leaves
the actor live: it takes each branch of `Execute` that a Custom message takes,
and the one that sets Running, which is also how a late worker can revive a
failed actor. What happens with the other payloads is the subject of
DispatchSerial and of section 4. `NoStranded` says what is left when
everything has come to rest: a live actor's mailbox then holds nothing but the
slots of batches that are still being enqueued and of calls that were dropped,
so that only a suspended, stopped or failed actor, or batches and leftovers that
fill the mailbox, can keep a sender waiting. `Wedged` is the second case.
`FailureContained` bounds what a failure lets through: each worker may be at one
message when the actor fails, and no queued message is run beyond those.

Some properties carry the condition under which the code keeps them, recorded
by a history variable: `NoStranded` and `SerialInOrder` hold until
`set_actor_state` makes an actor live that was not (`forced`; it does not drain
the mailbox), those of MemoryPool until a size wraps (`wrapped`),
Lifecycle's speak of calls that do not overlap (`overlapped`) and of threads
that were not refused (`refused`), `RestOrder` of a start counter that has not
saturated, and `BudgetExact` counts in `leaked` the units that failed spawns
keep.

The type invariant of a module is a run's invariant by itself (Mailbox), a
conjunct of the first invariant its run checks (Dispatch, Supervisor,
SupervisorTree, Lifecycle, Rpc, Sim), or proved (Registry, MemoryPool).

Bounds. Mailbox: two senders with two sends each, one receiver, capacity 2:
enough for a full mailbox, a waiting sender, a cancelled one and a `clear` that
takes several messages; several receivers, whose pops race one another, are
covered by the proofs only, and so is one queue instead of two. Dispatch: two
clients, one or two workers, two messages each and two slots, so that a batch,
a full mailbox, two batches that wedge one another, a batch dropped half-way
and overlapping tasks occur; DispatchSerial lets `set_actor_running` be called
at any time (`SetStates`). Registry: three threads, so that a third can come
between the two halves of a removal or of a registration, two ids, two names, a
budget of three. Supervisor: two children started up to four times, three
granted restarts, a limit of one restart in a window of two ticks and a clock
of three, so that the window slides; the counter saturates at two.
SupervisorTree: five supervisors, so that a subtree of two levels has a
sibling. Lifecycle: two callers, two workers, three starts. Rpc: two calls, a
timeout of one tick, two calls of `clear` at a time (`MaxClears`). MemoryPool:
an arena of 76 bytes (not a multiple of 8), six sizes (below the minimum,
unaligned, aligned, one that overflows 7 bits when added to the offset, and one
that wraps when rounded), at most 160 bytes handed out between two resets:
enough for a block to be reused for ever smaller requests. Sim: two messages,
two actors with two slots, one restart, all faults: a batch, a full mailbox, a
stale task of a dead incarnation, a parked and a doubled delivery all occur.
Symmetry is used for identical threads, clients, ids or names, in runs without
liveness properties.

Deadlock is checked except in Lifecycle, where a start and a stop can wait for
one another for ever (section 4), and in Sim, which ends when it is quiescent.

Fairness. Mailbox: a task inside a call is polled again and receivers keep
receiving (weak). Dispatch: workers loop for ever and a woken client is polled
(weak); no call has to be dropped and no state set. Lifecycle: weak for callers
inside a call and for a worker between two passes, which looks at the flag,
strong for taking the lock, as a parking_lot mutex is eventually fair; nothing
is assumed of the end of a pass, because the code does not guarantee it (section
4), and `StopReturns` has it as its hypothesis instead. Rpc: time
passes, a cleanup task that was started runs, and woken futures are polled;
nothing is assumed of the send, of the callee or of the answers. Sim: weak
fairness of the whole step, as it is one loop on one thread; nothing is assumed
of the choices, so no fault has to stop happening.

## 4. Where the code and its documents differ

Two runs check a property taken from a document, and TLC shows how the code
violates it:

- **DispatchTwoWorkers**: REQ-AK-001 (`REQUIREMENTS.md`) promises FIFO order per
  sender and receiver. With two workers the tasks of two successive sends are
  taken by different workers, and the second message can run first.
- **DispatchHeld**: a message to a suspended actor should be held and run on
  resume (`scheduler.rs` 1197). The drain loop pops a message and the call that
  runs it pops again to release a slot (842, 801), so the message queued behind
  it is dropped.

Others were met while modelling; the models contain the behaviour, and the
passing properties are stated so that they say how far the promise is kept:

- *Mailbox.* Only the full capacity blocks senders, not the threshold that
  `lib.rs` 18-20 names: no send reads the flag. The flag itself can be left off
  in a full mailbox: a receiver loads a small size (265), a sender refills and
  stores true, the receiver stores false.
- *Dispatch.* With two workers, a message can be put back into the mailbox
  (853) after the resume has drained it, and then has no task: `NoStranded`
  holds with one worker. A worker that read a live state before a panic or a
  failure sets Running (Start, Resume) or Creating (Restart) after it (759,
  785), so the actor comes back although a panicked actor is marked Failed "to
  prevent further processing of messages" (650-652); what the code keeps is
  `FailureContained`. A message whose task a worker holds while the actor is
  suspended is put back (853) although its first copy is still in the mailbox,
  so a pause and a resume can run it twice: `AtMostOnce` needs an actor that is
  never suspended. Resume, being a message, cannot enter the mailbox of a
  suspended actor once it is full (414). Two batches that share a mailbox, or
  one that is larger than it, wait for room that only their own tasks would
  free (466), and a batch that is dropped while it waits leaves messages that
  hold their slots and are never run: `Wedged`. A stopped actor does not
  release the slots of the messages it ignores (856). `set_actor_running` ends
  a suspension without draining the mailbox (379-381): what was held stays
  there, without a task.
- *Registry.* spawn_named admits the actor before registering it (333-336) and
  does not release it when the name is taken: `leaked`.
- *Supervisor.* One-for-all and rest-for-one restart siblings that are
  Temporary, stopped or given up on (651-659, 689-699); the limit counts the
  exits of each child, so n children can restart one of them n times as often
  (642); a saturated start counter makes rest-for-one restart earlier children
  (463); the exit of a significant child is logged and not escalated (550-558).
- *Lifecycle.* A drain can go on for ever, and with it the stop that joins its
  worker. Take a suspended actor, no executor (or one that is not ready) and
  the messages Resume, Pause, m1, m2 queued: the drain that Resume starts pops
  the Pause and runs it (releasing its slot drops m1), the actor is suspended
  again, and from then on the loop pops m2 (842), finds the actor suspended,
  puts m2 back (853) and pops it again, without reading `running` (587). stop
  clears the flag before it takes the lock (315-317). A start in between sets
  it again: workers that have not looked yet stay, so there are two pools, or
  stop joins for ever while it holds the lock start waits for. A start that
  fails to spawn a thread leaves the flag set, so a retry returns Ok without a
  pool (262-263, 302).
- *Rpc.* The timeout of a call does not cover its send (439-444). clear takes
  its two locks separately (638-639): a register in between ends up with a
  handler and no type id, and two clears can overlap. Type ids without a
  handler do not occur (`TypeIdsHandled`).
- *Memory pool.* A block reused for a smaller request keeps only the smaller
  size (330-342): the rest of it is out of use until `reset`, although line 48
  says that a dropped block's memory is returned to the pool. A request in the
  last seven values of `usize` wraps when it is rounded up (269): a debug build
  panics, a release build returns a block for which no byte was set aside, where
  a request that does not fit should get None.
- *Simulation.* `run_to_quiescence` must reach quiescence (`sim/mod.rs` 59-61),
  and small capacities are recommended for backpressure (147-148); with a
  capacity of 2 a batch of three is never delivered (652) and the run stalls.
  `Quiesces` is checked with batches that fit. The formula in the module
  documentation (50-52) subtracts `queued` from the mailbox length, the audit
  (1142-1146) does not; `SlotsConserved` is the audit's.

## 5. Proofs

TLAPS checks the theorems below for every value of the constants that the
module's named `ASSUME` admits; where a theorem needs more, its `ASSUME` says
so and it is noted here. Every proof has the same shape: an inductive invariant
that implies the property, one lemma per action, and a last step that combines
them. A leaf cites `Zenon` where that prover suffices: it is far cheaper than the
translation to SMT, which is left to the steps with arithmetic and sequences.

| theorem | of | property | further assumption |
|---|---|---|---|
| `TypeCorrect`, `FifoHolds`, `PermitsConserved`, `SizeExact`, `BoundHolds`, `WakeupsKept`, `Refinement` (MailboxProofs) | Mailbox | `TypeOK`, `PerSenderFifo`, `PermitConservation`, `SizeAccounting`, `HardBound`, `NoLostWakeup`, `Refines` | |
| `FailureIsContained` (DispatchProofs) | Dispatch | `FailureContained` | finitely many workers |
| `RunAtMostOnce` | Dispatch | `AtMostOnce` | neither a message nor `set_actor_state` suspends the actor |
| `SlotsAreHeld` | Dispatch | `SlotsHeld` | |
| `SerialOrder` (DispatchOrderProofs) | Dispatch | `SerialInOrder` | at most one worker, no priority scheduling, `set_actor_state` does not suspend the actor |
| `NamesAreUnique`, `NamesAreFound`, `NamesAreReleased`, `BudgetIsExact` (SchedulerProofs) | Registry | `NamesUnique`, `NamesResolve`, `NoDangling`, `BudgetExact` | |
| `WorkersAreOwned`, `PoolIsWhatFlagSays` | Lifecycle | `WorkersOwned`, `PoolMatchesFlag` | |
| `RestartsAreLimited`, `RestartsAloneRevive`, `RestIsLater` (SupervisorProofs) | Supervisor | `RateLimited`, `OnlyRestartsRevive`, `RestOrder` | |
| `ListsAreRight`, `AllAreReachable` | SupervisorTree | `ListsAgree`, `AllReachable` | |
| `AnswersAreOwn`, `EntriesAreReleased`, `TypeIdsAreHandled` (ServiceProofs) | Rpc | `OwnAnswer`, `EntryReleased`, `TypeIdsHandled` | |
| `PoolDisjoint`, `PoolBalanced` | MemoryPool | `BlocksDisjoint`, `Balanced` | |
| `LedgerBalances`, `IdentitiesAccounted`, `NoRevival` (SimProofs) | Sim | `SlotsConserved`, `Accounted`, `GivenUpForGood` | |

SimDeliveryProofs holds the first half of the proofs about Sim: the lemmas on
sums, the invariant and the steps that deliver. The assumptions on Dispatch are
the ones under which the code keeps the property: section 4 describes what happens
otherwise, and the run that checks the property has constants that satisfy
them.

The invariants and why they are needed:

- *Mailbox*: `TypeInv` adds to the types where a waiting sender is queued
  (`WaitInv`). `OrderInv`: in each queue the numbers of one sender increase,
  lie above the last one popped and not above the last one pushed, and no two
  receivers hold the same message. It gives the order, and it makes queue
  entries distinct, without which a push would not add exactly one message to
  the set of those that hold a permit, nor a pop remove exactly one
  (`CountInv`, which says that these sets are finite and have the right size).
  `WakeInv`: whatever an un-notified receiver has found empty is still empty,
  or a notification is on its way. The refinement maps the two queues to
  themselves; a step is an abstract step or a stutter, and `HardBound` gives
  the bound.
- *Dispatch*: `Inv` ties the label of a worker and the position of a client to
  what they have in hand, and numbers the messages of a call from where the
  last one ended. `FailInv`: the messages run since the actor is Failed are no
  more than the workers that are not about to run one, because a worker gets
  there only by reading a live state, at which the count is 0. `Once`: a
  message is in one place (a call's messages still to be pushed, a task in one
  of the three queues, or the hand of a worker), it is numbered up to the last
  one accepted, and one that has been run is about to be put down. `Slots`: the
  mailbox is as long as there are pending and abandoned messages; every worker
  frees the oldest slot and not its own message's, so the lengths can be
  related and the contents cannot. An actor that has always been live
  (`Steady`) has no worker on the paths of suspension and failure and no kill
  under way (`Healthy`). `Serial` (DispatchOrderProofs), as long as only
  ordinary messages were accepted and nothing was `forced`: what one client has
  in the worker's hand comes before what it has in the injector, and that
  before what it is still sending, each part in increasing order, and every
  accepted message has been run, was abandoned or is still on this way, or the
  actor is down for good. So when a message is run, all earlier ones of its
  client have been.
- *Registry*: `LockInv` (who is between check and insertion holds the lock),
  `Inserting` (what the holder checked is still true) and `Removing` (the name
  being removed still belongs to the removed id) carry the three properties of
  names. `BudgetInv` adds that with a policy all registrations are part of a
  spawn and all removals part of a kill, and that the sets counted are finite.
- *Lifecycle*: `LifeInv` says who holds the lock and counts, for each worker
  number, the threads and the starts still to come to it, so that a new thread
  never reuses an identity; `PoolInv` spells out the pool in the middle of a
  call.
- *Supervisor*: `StampInv`: every restart inside the window has its stamp under
  the child that caused it, so that pruning forgets nothing that counts.
  `OrderInv`: until the counter saturates, the order of a child is the number of
  its start.
- *SupervisorTree*: the two properties are inductive together, with the root
  having no parent. That a removal takes whole subtrees follows from the walk
  being the least closed set, and reachability from `Above` being a statement
  about all closed sets: no induction on the depth is needed.
- *Rpc*: `TakenInv` and `ChannelInv` say of the hands of a host inside
  `handle_response`, and of the one-shot channel, what the properties say of a
  call that has returned.
- *MemoryPool*: the bump offset is a multiple of 8, and the size being looked
  for is at least the minimum (`WantedInv`); a size that wraps ends what is
  claimed (`PoolInv`).
  `Balanced` counts bytes: blocks that are apart have as many bytes together as
  their sizes say.
- *Sim*: sums over sequences are the difficulty, as a sum defined by recursion
  cannot be reasoned about here (below). `Weight(g, s)` is the `Total` of the
  weights of a sequence's elements; the lemmas say that an appended element adds
  its weight and a removed one takes it away, wherever it was. The invariant
  states the audits in weights and adds that no task is of an incarnation yet
  to come: when a crash begins a new one, all tasks that are left weigh nothing
  for it, and its `Start` accounts for its one slot.

Only model-checked:

- liveness, which needs fairness and ENABLED: `SendersProgress`,
  `MailboxDrains`, `Delivered`, `CallReturns` of Dispatch and of Rpc,
  `StopReturns`, `EntriesExpire`, `Quiesces`;
- `DepthExact`: it is about what a recursive function computes on a tree of any
  depth, which takes an induction over data that the installed provers cannot
  do;
- `NoStranded`: it takes the exact contents of the mailbox through pause, drain
  and re-queue; no proof of it is attempted.

## 6. Mutants

For every property of a passing run `PROJECT.json` names a changed definition
(a dropped guard, a missing release, a swapped order), kept next to the
original, under which TLC finds the property violated.

## 7. Not modelled, and the plan

- *WorkStealer, StealerRegistry*: the scheduler steals from deques that are
  always empty, so neither the size of a stolen batch (`queue.rs` 153) nor the
  stealers that restarts leave behind (`scheduler.rs` 45) affects a message.
- *Simulation*: trace, hash and statistics; that a seed determines the trace is
  a property of two runs, and holds by the absence of any other source of
  choice. `sim/clock.rs` is a counter that nothing in the driver reads.
- *Dispatch*: the exact conditions under which two workers keep order.
- *Proofs*: `NoStranded` of Dispatch.
- Left out for good: `handle.rs` and `SupervisorHandle` (one forwarded call per
  method), `error.rs` (types), `zero_copy` (an encoding library),
  `loom_mailbox.rs` (a test double), the floating-point batch factor of the
  degradation controller, statistics and logging.
