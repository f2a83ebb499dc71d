-------------------------------- MODULE Rpc --------------------------------
(***************************************************************************)
(* Request and response over actor messages (rpc.rs): the client's tracker *)
(* of pending calls, the two timers that end a call, the handler registry  *)
(* and the answers that come back late, twice or never.                    *)
(*                                                                         *)
(* A call is named by its correlation id, a fresh UUID, and carries the    *)
(* type name its handler is registered under.  Instants are kept as the    *)
(* time that remains until them, so that the clock needs no bound.  Bytes  *)
(* are what they decode to: an answer of a handler, or "Malformed".        *)
(***************************************************************************)
EXTENDS Naturals

CONSTANTS Calls, Types,
          Answers,       \* results a handler puts into its RpcResponse
          Hosts,         \* threads of the application that pass on bytes
          None,
          Timeout,       \* the timeout of every call
          MaxClears      \* bound: calls of clear at a time

(* What is not an answer: errors, and the states of a one-shot channel. *)
Marks == {"Malformed", "Timeout", "InternalError", "SerializationError", "Cancelled", "empty", "dropped"}

ASSUME RpcAssumption ==
  /\ Timeout \in Nat \ {0} /\ MaxClears \in Nat
  /\ None \notin Calls \cup Types \cup Answers \cup Nat \cup Marks
  /\ Answers \cap Marks = {}

VARIABLES pending,       \* time until the deadline of the tracked call
          rx,            \* the one-shot channel: "empty", "dropped", or the bytes sent
          callpc, timer, \* the caller, and the time until its own timeout
          result, type,
          requests,      \* messages in the mailbox of the callee
          serving,       \* the requests that host tasks have in hand
          replies,       \* envelopes made for handle_response
          taken,         \* the entry and bytes a thread has in handle_response
          handlers, type_ids,
          clearing,      \* calls of clear that have emptied handlers only
          cleaning       \* was start_cleanup_task called?

rpc_vars == <<pending, rx, callpc, timer, result, type, requests, serving, replies, taken,
              handlers, type_ids, clearing, cleaning>>
registry == <<handlers, type_ids, clearing, cleaning>>
server == <<requests, serving, replies>>

RpcInit ==
  /\ pending = [c \in Calls |-> None] /\ rx = [c \in Calls |-> None]
  /\ callpc = [c \in Calls |-> "new"] /\ timer = [c \in Calls |-> None]
  /\ result = [c \in Calls |-> None] /\ type = [c \in Calls |-> None]
  /\ requests = {} /\ serving = {} /\ replies = {}
  /\ taken = [h \in Hosts |-> None]
  /\ handlers = {} /\ type_ids = {} /\ clearing = 0 /\ cleaning = FALSE

-----------------------------------------------------------------------------
(* call_with_timeout *)

(* The future of the call ends with r and drops its receiver. *)
Finish(c, r) ==
  /\ callpc' = [callpc EXCEPT ![c] = "done"]
  /\ result' = [result EXCEPT ![c] = r]
  /\ rx' = [rx EXCEPT ![c] = "dropped"]

(* PendingCalls::insert comes before the send. *)
Call(c, ty) ==
  /\ callpc[c] = "new"
  /\ type' = [type EXCEPT ![c] = ty]
  /\ pending' = [pending EXCEPT ![c] = Timeout]
  /\ rx' = [rx EXCEPT ![c] = "empty"]
  /\ callpc' = [callpc EXCEPT ![c] = "send"]
  /\ UNCHANGED <<timer, result, server, taken, registry>>

(* A request that cannot be serialised leaves nothing behind. *)
CallFails(c) ==
  /\ callpc[c] = "new"
  /\ Finish(c, "SerializationError")
  /\ UNCHANGED <<pending, timer, type, server, taken, registry>>

(* scheduler.send returns; the caller's own timeout starts only now. *)
SendAccepted(c) ==
  /\ callpc[c] = "send"
  /\ requests' = requests \cup {c}
  /\ callpc' = [callpc EXCEPT ![c] = "wait"]
  /\ timer' = [timer EXCEPT ![c] = Timeout]
  /\ UNCHANGED <<pending, rx, result, type, serving, replies, taken, registry>>

(* No such actor: the entry stays in the tracker. *)
SendFails(c) ==
  /\ callpc[c] = "send"
  /\ Finish(c, "InternalError")
  /\ UNCHANGED <<pending, timer, type, server, taken, registry>>

(* RpcResponse::from_bytes on what the channel holds *)
Decode(bytes) == IF bytes = "Malformed" THEN "SerializationError" ELSE bytes

Arrived(c) == rx[c] \notin {"empty", "dropped"}

(* The receiver is polled before the timer. *)
Receive(c) ==
  /\ callpc[c] = "wait" /\ Arrived(c)
  /\ Finish(c, Decode(rx[c]))
  /\ UNCHANGED <<pending, timer, type, server, taken, registry>>

(* Fault: a call that is still tracked is left to the cleanup task. *)
TimerLeavesTracked(c) ==
  /\ callpc[c] = "wait" /\ ~Arrived(c) /\ timer[c] = 0 /\ pending[c] = None
  /\ rx' = [rx EXCEPT ![c] = "dropped"]
  /\ callpc' = [callpc EXCEPT ![c] = "expired"]
  /\ UNCHANGED <<pending, timer, result, type, server, taken, registry>>

(* Elapsed: the receiver goes first and the entry after it. *)
TimerFires(c) ==
  /\ callpc[c] = "wait" /\ ~Arrived(c) /\ timer[c] = 0
  /\ rx' = [rx EXCEPT ![c] = "dropped"]
  /\ callpc' = [callpc EXCEPT ![c] = "expired"]
  /\ UNCHANGED <<pending, timer, result, type, server, taken, registry>>

(* Fault: the entry is left to the cleanup task. *)
ExpireKeepsEntry(c) ==
  /\ callpc[c] = "expired"
  /\ Finish(c, "Timeout")
  /\ UNCHANGED <<pending, timer, type, server, taken, registry>>

Expire(c) ==
  /\ callpc[c] = "expired"
  /\ pending' = [pending EXCEPT ![c] = None]
  /\ Finish(c, "Timeout")
  /\ UNCHANGED <<timer, type, server, taken, registry>>

(* The caller drops the future at one of its two awaits. *)
Cancel(c) ==
  /\ callpc[c] \in {"send", "wait"}
  /\ Finish(c, "Cancelled")
  /\ UNCHANGED <<pending, timer, type, server, taken, registry>>

-----------------------------------------------------------------------------
(* The callee: process_rpc_message, called by the application *)

(* The mailbox is cleared, or the actor never runs the message. *)
RequestLost(c) ==
  /\ c \in requests
  /\ requests' = requests \ {c}
  /\ UNCHANGED <<pending, rx, callpc, timer, result, type, serving, replies, taken, registry>>

(* dispatch clones the handler under the lock and runs it without. *)
Dispatch(c) ==
  /\ c \in requests
  /\ requests' = requests \ {c}
  /\ serving' = IF type[c] \in handlers THEN serving \cup {c} ELSE serving
  /\ UNCHANGED <<pending, rx, callpc, timer, result, type, replies, taken, registry>>

(* The handler returns; the application wraps the bytes for handle_response,
   or something that does not decode. *)
Respond(c, a) ==
  /\ c \in serving
  /\ serving' = serving \ {c}
  /\ replies' = replies \cup {[call |-> c, bytes |-> a]}
  /\ UNCHANGED <<pending, rx, callpc, timer, result, type, requests, taken, registry>>

-----------------------------------------------------------------------------
(* Fault: the answer goes to any pending call. *)
HandleAnyResponse(h, r) ==
  /\ taken[h] = None
  /\ \E c \in Calls :
       /\ pending[c] # None
       /\ pending' = [pending EXCEPT ![c] = None]
       /\ taken' = [taken EXCEPT ![h] = [call |-> c, bytes |-> r.bytes]]
  /\ UNCHANGED <<rx, callpc, timer, result, type, server, registry>>

(* handle_response takes the entry under the lock.  An envelope may never be
   delivered, or more than once: without an entry nothing happens. *)
HandleResponse(h, r) ==
  /\ taken[h] = None /\ pending[r.call] # None
  /\ pending' = [pending EXCEPT ![r.call] = None]
  /\ taken' = [taken EXCEPT ![h] = r]
  /\ UNCHANGED <<rx, callpc, timer, result, type, server, registry>>

(* tx.send, which a receiver that is gone does not see *)
Sent(c, bytes) == IF rx[c] = "dropped" THEN "dropped" ELSE bytes

CompleteResponse(h) ==
  /\ taken[h] # None
  /\ rx' = [rx EXCEPT ![taken[h].call] = Sent(taken[h].call, taken[h].bytes)]
  /\ taken' = [taken EXCEPT ![h] = None]
  /\ UNCHANGED <<pending, callpc, timer, result, type, server, registry>>

(* Fault: entries whose caller is gone are passed over. *)
ExpiredAwaited(c) == pending[c] # None /\ pending[c] = 0 /\ rx[c] # "dropped"

Expired(c) == pending[c] # None /\ pending[c] = 0

StartCleanupTask ==
  /\ ~cleaning /\ cleaning' = TRUE
  /\ UNCHANGED <<pending, rx, callpc, timer, result, type, server, taken, handlers, type_ids, clearing>>

(* cleanup_expired, every second of the cleanup task *)
Cleanup ==
  /\ cleaning
  /\ \E c \in Calls : Expired(c)
  /\ pending' = [c \in Calls |-> IF Expired(c) THEN None ELSE pending[c]]
  /\ rx' = [c \in Calls |-> IF Expired(c) THEN Sent(c, "Timeout") ELSE rx[c]]
  /\ UNCHANGED <<callpc, timer, result, type, server, taken, registry>>

Less(n) == IF n \in {None, 0} THEN n ELSE n - 1

Tick ==
  /\ pending' = [c \in Calls |-> Less(pending[c])]
  /\ timer' = [c \in Calls |-> Less(timer[c])]
  /\ UNCHANGED <<rx, callpc, result, type, server, taken, registry>>

-----------------------------------------------------------------------------
(* RpcRegistry: register and unregister hold both locks. *)
RegisterHandler(ty) ==
  /\ handlers' = handlers \cup {ty} /\ type_ids' = type_ids \cup {ty}
  /\ UNCHANGED <<pending, rx, callpc, timer, result, type, server, taken, clearing, cleaning>>

(* Fault: the type id is left behind. *)
UnregisterKeepsId(ty) ==
  /\ handlers' = handlers \ {ty}
  /\ UNCHANGED <<pending, rx, callpc, timer, result, type, server, taken, type_ids, clearing, cleaning>>

UnregisterHandler(ty) ==
  /\ handlers' = handlers \ {ty} /\ type_ids' = type_ids \ {ty}
  /\ UNCHANGED <<pending, rx, callpc, timer, result, type, server, taken, clearing, cleaning>>

(* clear takes the two locks one after the other: a register in between keeps
   its handler and loses its type id.  Calls of clear may overlap. *)
ClearHandlers ==
  /\ clearing < MaxClears /\ clearing' = clearing + 1
  /\ handlers' = {}
  /\ UNCHANGED <<pending, rx, callpc, timer, result, type, server, taken, type_ids, cleaning>>

ClearTypeIds ==
  /\ clearing > 0 /\ clearing' = clearing - 1
  /\ type_ids' = {}
  /\ UNCHANGED <<pending, rx, callpc, timer, result, type, server, taken, handlers, cleaning>>

-----------------------------------------------------------------------------
Proceed(c) == Receive(c) \/ TimerFires(c) \/ Expire(c)

RpcNext ==
  \/ \E c \in Calls :
       \/ \E ty \in Types : Call(c, ty)
       \/ CallFails(c) \/ SendAccepted(c) \/ SendFails(c) \/ Proceed(c) \/ Cancel(c)
       \/ RequestLost(c) \/ Dispatch(c)
       \/ \E a \in Answers \cup {"Malformed"} : Respond(c, a)
  \/ \E h \in Hosts : CompleteResponse(h) \/ \E r \in replies : HandleResponse(h, r)
  \/ StartCleanupTask \/ Cleanup \/ Tick
  \/ \E ty \in Types : RegisterHandler(ty) \/ UnregisterHandler(ty)
  \/ ClearHandlers \/ ClearTypeIds

RpcSpec == RpcInit /\ [][RpcNext]_rpc_vars

(* Time passes, the runtime polls a future that is woken, and a cleanup task
   that was started runs.  Nothing is assumed of the send, which may wait for
   ever on a full mailbox, of the callee or of the transport of answers. *)
FairRpcSpec ==
  /\ RpcSpec /\ WF_rpc_vars(Tick) /\ WF_rpc_vars(Cleanup)
  /\ \A c \in Calls : WF_rpc_vars(Proceed(c))
  /\ \A h \in Hosts : WF_rpc_vars(CompleteResponse(h))

-----------------------------------------------------------------------------
(* Properties *)

Envelopes == [call : Calls, bytes : Answers \cup {"Malformed"}]

RpcTypeOK ==
  /\ pending \in [Calls -> (0 .. Timeout) \cup {None}]
  /\ rx \in [Calls -> Answers \cup {None, "empty", "dropped", "Malformed", "Timeout"}]
  /\ callpc \in [Calls -> {"new", "send", "wait", "expired", "done"}]
  /\ timer \in [Calls -> (0 .. Timeout) \cup {None}]
  /\ result \in [Calls -> Answers \cup
                   {None, "Timeout", "InternalError", "SerializationError", "Cancelled"}]
  /\ type \in [Calls -> Types \cup {None}]
  /\ requests \subseteq Calls /\ serving \subseteq Calls /\ replies \subseteq Envelopes
  /\ taken \in [Hosts -> Envelopes \cup {None}]
  /\ handlers \subseteq Types /\ type_ids \subseteq Types
  /\ clearing \in 0 .. MaxClears /\ cleaning \in BOOLEAN

(* A call that returns an answer returns one that a handler gave to that very
   request, however late, reordered or repeated the answers are.  (The state
   stays well typed.) *)
OwnAnswer ==
  /\ RpcTypeOK
  /\ \A c \in Calls : result[c] \in Answers => [call |-> c, bytes |-> result[c]] \in replies

(* A call that was answered or timed out has left the tracker, so an answer
   that is still to come finds nothing to complete. *)
EntryReleased ==
  \A c \in Calls : result[c] \in Answers \cup {"Timeout"} => pending[c] = None

(* No type id outlives its handler, although clear empties the two maps one
   after the other and registrations and other clears may come in between. *)
TypeIdsHandled == clearing = 0 => type_ids \subseteq handlers

(* A call whose request was accepted returns, with or without a cleanup task,
   whatever happens to the request and to the answer. *)
CallReturns == \A c \in Calls : callpc[c] = "wait" ~> callpc[c] = "done"

(* A client with a cleanup task forgets every call, those included whose send
   failed or hangs, and those whose future was dropped. *)
EntriesExpire == \A c \in Calls : (cleaning /\ pending[c] # None) ~> pending[c] = None
=============================================================================
