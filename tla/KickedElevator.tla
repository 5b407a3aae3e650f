--------------------------- MODULE KickedElevator ---------------------------
(***************************************************************************)
(* What the experimental elevators of this repository have in common, and  *)
(* the block layer does for them: requests are set up without the lock,    *)
(* inserted in batches when a task flushes its plug, merged, and drained   *)
(* when another elevator is switched to; unplug_work on kblockd runs the   *)
(* queue again.  An elevator's module adds its lists and counters.         *)
(*                                                                         *)
(* None of them has an elevator_merge_req_fn: a linked request that is     *)
(* merged into another one is freed and stays linked (stale).              *)
(***************************************************************************)
EXTENDS BlockDevice

CONSTANT MaxStale    \* bound on requests freed by a merge while linked

ASSUME MaxStaleAssumption == MaxStale \in Nat

VARIABLES
  plugged,      \* set up by the elevator, not yet inserted (task plugs)
  stale,        \* linked requests that a merge has freed
  unplug_work,  \* the work item that runs the queue is queued on kblockd
  elv           \* "attached", "bypass", "detached", "freed" or "oops"

frameVars == <<plugged, stale, unplug_work, elv>>

Tasks == Ctx \ {Kblockd}

\* setup: the labels of a task inside elevator_set_req_fn.
FrameTypeOK(setup) ==
  /\ plugged \subseteq Requests /\ stale \subseteq Requests
  /\ unplug_work \in BOOLEAN
  /\ elv \in {"attached", "bypass", "detached", "freed", "oops"}
  /\ pc \in [Ctx -> {"idle", "flush", "run", "issue", "drain"} \cup setup]
  /\ DeviceTypeOK

FrameInit ==
  /\ plugged = {} /\ stale = {} /\ unplug_work = FALSE
  /\ elv = "attached"
  /\ pc = [c \in Ctx |-> "idle"]
  /\ DeviceInit

\* Requests with elevator data, given those linked in the elevator.
OutstandingWith(linked) ==
  plugged \cup linked \cup Range(queue_head) \cup inflight

-----------------------------------------------------------------------------
\* A queue in bypass gets requests without elevator data.
GetRequest(r, linked) ==
  /\ LockFree /\ elv = "attached"
  /\ r \notin OutstandingWith(linked)
  /\ plugged' = plugged \cup {r}
  /\ UNCHANGED <<stale, unplug_work, elv, deviceVars>>

\* blk_flush_plug_list for the requests in plug: one __elv_add_request after
\* the other, then request_fn, all under the lock.
Insert(c, r, plug) ==
  /\ pc[c] = "flush" \/ (pc[c] = "idle" /\ LockFree)
  /\ c \in Tasks /\ r \in plug
  /\ plugged' = plugged \ {r}
  /\ At(c, "run") \/ (plug # {r} /\ At(c, "flush"))
  /\ UNCHANGED <<elv, queue_head, inflight, issuing>>

\* elv_attempt_insert_merge: absorbed by a linked request and freed ...
InsertMerge(c, r, plug, linked) ==
  /\ Insert(c, r, plug) /\ linked \ stale # {}
  /\ UNCHANGED stale

\* ... and the enlarged request v by a third one.
MergeLinked(c, r, v, plug, linked) ==
  /\ Insert(c, r, plug)
  /\ v \in linked \ stale /\ linked \ stale # {v}
  /\ Cardinality(stale) < MaxStale
  /\ stale' = stale \cup {v}

\* A freed request that is dispatched stops the machine.
Dispatched(r) ==
  /\ elv_dispatch_sort(r)
  /\ elv' = IF r \in stale THEN "oops" ELSE elv

-----------------------------------------------------------------------------
KickIf(P) == unplug_work' = (unplug_work \/ P)

\* The work item, which may be queued again while it runs.
kick_queue ==
  /\ unplug_work /\ elv \in {"attached", "bypass"}
  /\ unplug_work' = FALSE
  /\ RunQueue(Kblockd)
  /\ UNCHANGED <<plugged, stale, elv>>

\* The work item once q->elevator is another elevator: that one is run.
KickSuccessor ==
  /\ unplug_work /\ elv = "detached"
  /\ unplug_work' = FALSE
  /\ UNCHANGED <<plugged, stale, elv, deviceVars>>

\* The work item after kfree of the elevator data it is a part of.
KickAfterFree ==
  /\ unplug_work /\ elv = "freed"
  /\ elv' = "oops"
  /\ UNCHANGED <<plugged, stale, unplug_work, deviceVars>>

Kicked == kick_queue \/ KickSuccessor \/ KickAfterFree

-----------------------------------------------------------------------------
\* elevator_switch begins: the drain of blk_queue_bypass_start.
BypassStart ==
  /\ LockFree /\ elv = "attached"
  /\ elv' = "bypass"
  /\ UNCHANGED <<plugged, stale, unplug_work, deviceVars>>

DrainStart(c) ==
  /\ LockFree /\ pc[c] = "idle" /\ c \in Tasks /\ elv = "bypass"
  /\ At(c, "drain")
  /\ UNCHANGED <<frameVars, queue_head, inflight, issuing>>

\* Nobody is inside request_fn and no request with elevator data is left.
QuiescentButPlugged(c, linked) ==
  /\ OutstandingWith(linked) = plugged
  /\ \A d \in Ctx \ {c} : pc[d] = "idle"

Quiescent(c, linked) ==
  /\ OutstandingWith(linked) = {}
  /\ \A d \in Ctx \ {c} : pc[d] = "idle"

\* A forced dispatch of the drain returned 0: a nonempty driver's list is
\* run, and the drain ends when the queue is quiescent.
DrainTurnEnds(c, linked) ==
  /\ At(c, IF queue_head = <<>> THEN "idle" ELSE "run")
  /\ elv' = IF Quiescent(c, linked) THEN "detached" ELSE elv

=============================================================================
