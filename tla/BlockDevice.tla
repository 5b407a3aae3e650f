---------------------------- MODULE BlockDevice ----------------------------
(***************************************************************************)
(* The part of the kernel's block layer every elevator of this repository  *)
(* runs under: the driver's list q->queue_head, the requests the device    *)
(* holds, and the contexts inside request_fn.  A context in "flush",       *)
(* "run" or "drain" holds q->queue_lock; request_fn releases it ("issue")  *)
(* while it hands a started request to the device, so several contexts may *)
(* be inside request_fn, with completions between their steps.             *)
(*                                                                         *)
(* The actions constrain the variables of this module only.  An elevator's *)
(* module extends it, adds contexts' other states, and conjoins what its   *)
(* own variables do.                                                       *)
(***************************************************************************)
EXTENDS Integers, Sequences, Functions, FiniteSets

CONSTANTS Requests,   \* the struct requests of the queue, recycled when freed
          Ctx,        \* execution contexts that can enter request_fn
          Kblockd,    \* the one of them that executes kblockd's work items
          NoReq       \* "no request"

ASSUME RequestsAssumption == IsFiniteSet(Requests) /\ NoReq \notin Requests
ASSUME KblockdAssumption  == Kblockd \in Ctx

VARIABLES
  queue_head,   \* q->queue_head, the driver's list
  inflight,     \* started and not yet completed
  issuing,      \* issuing[c]: the request c is handing to the device
  pc            \* what each context is doing

deviceVars == <<queue_head, inflight, issuing, pc>>

LockFree == \A c \in Ctx : pc[c] \notin {"flush", "run", "drain"}
At(c, label) == pc' = [pc EXCEPT ![c] = label]

\* A sequence without its i-th element, and with r inserted at position i.
Without(s, i) == SubSeq(s, 1, i - 1) \o SubSeq(s, i + 1, Len(s))
With(s, i, r) == SubSeq(s, 1, i - 1) \o <<r>> \o SubSeq(s, i, Len(s))

\* How many requests the elevator has handed over and not got back.
Held == Len(queue_head) + Cardinality(inflight)

DeviceTypeOK ==
  /\ queue_head \in Seq(Requests)
  /\ inflight \subseteq Requests
  /\ issuing \in [Ctx -> Requests \cup {NoReq}]

DeviceInit ==
  /\ queue_head = <<>>
  /\ inflight = {}
  /\ issuing = [c \in Ctx |-> NoReq]

\* elv_dispatch_sort: the elevator puts r on the driver's list by sector; the
\* position is left open.
elv_dispatch_sort(r) ==
  \E i \in 1 .. Len(queue_head) + 1 : queue_head' = With(queue_head, i, r)

\* The device accepts no more commands: request_fn returns and leaves the
\* request on the driver's list.  An idle device is never busy.
DeviceBusy(c) ==
  /\ pc[c] = "run" /\ queue_head # <<>> /\ inflight # {}
  /\ At(c, "idle")
  /\ UNCHANGED <<queue_head, inflight, issuing>>

\* A bypassed queue hands out its driver's list only: the elevator is asked by
\* the drain, and by nobody else.
DeviceBypassed(c) ==
  /\ pc[c] = "run" /\ queue_head = <<>>
  /\ At(c, "idle")
  /\ UNCHANGED <<queue_head, inflight, issuing>>

\* blk_start_request, then the lock is dropped to issue the command.
DeviceStart(c) ==
  /\ pc[c] = "run" /\ queue_head # <<>>
  /\ queue_head' = Tail(queue_head)
  /\ inflight' = inflight \cup {Head(queue_head)}
  /\ issuing' = [issuing EXCEPT ![c] = Head(queue_head)]
  /\ At(c, "issue")

\* The command was accepted: request_fn takes the lock and loops.
DeviceIssued(c) ==
  /\ pc[c] = "issue" /\ LockFree
  /\ issuing' = [issuing EXCEPT ![c] = NoReq]
  /\ At(c, "run")
  /\ UNCHANGED <<queue_head, inflight>>

\* elv_requeue_request: the target refused the command, the request goes back
\* to the front of the driver's list and request_fn returns.  With nothing
\* else in flight the driver polls the target: a longer "issue" here.
DeviceRequeue(c) ==
  /\ pc[c] = "issue" /\ LockFree /\ issuing[c] \in inflight
  /\ inflight # {issuing[c]}
  /\ inflight' = inflight \ {issuing[c]}
  /\ queue_head' = <<issuing[c]>> \o queue_head
  /\ issuing' = [issuing EXCEPT ![c] = NoReq]
  /\ At(c, "idle")

\* The interrupt of a completion, under the lock; it may come before the
\* issuing context has the lock back.
DeviceComplete(r) ==
  /\ LockFree /\ r \in inflight
  /\ inflight' = inflight \ {r}
  /\ issuing' = [c \in Ctx |-> IF issuing[c] = r THEN NoReq ELSE issuing[c]]
  /\ UNCHANGED <<queue_head, pc>>

\* A context with nothing else to do enters request_fn: the block layer and
\* the driver run the queue on their own account after an unplug, a
\* completion or a timer.  Nothing says that they will.
RunQueue(c) ==
  /\ LockFree /\ pc[c] = "idle"
  /\ At(c, "run")
  /\ UNCHANGED <<queue_head, inflight, issuing>>

=============================================================================
