------------------------------- MODULE SfqBeta -------------------------------
(***************************************************************************)
(* sfq_write_experiment/sfq_4.c, the last SFQ scheduler of the write       *)
(* experiments: one sfq_queue per process, linked into a ring; a cursor    *)
(* (os_sfqq) that every dispatch moves to the next queue, and a count of   *)
(* its moves (sfqq_total_seek) that tells when to step over the list head; *)
(* a heap between the queues and the device; and a limit on the requests   *)
(* the device holds (depth).                                               *)
(*                                                                         *)
(* sfq_set_request runs without q->queue_lock, and the first request of a  *)
(* process registers its queue there with plain reads and writes: one step *)
(* here writes one shared variable and reads the next.  Everything else    *)
(* runs under the lock and is one step.  Tags are left out: the heap may   *)
(* return any of its requests.                                             *)
(***************************************************************************)
EXTENDS BlockDevice

CONSTANTS
  Procs,          \* the submitting processes
  REQUEST_DEPTH,  \* the limit of sfq_4.c (64 there)
  NoSfqq,         \* os_sfqq = NULL, and the queue of a request without one
  MaxSfqq,        \* bound on the queues allocated between two switches
  MaxStale        \* bound on requests freed by a merge while linked

ASSUME ProcsAssumption == Ctx = Procs \cup {Kblockd} /\ Kblockd \notin Procs
ASSUME DepthAssumption == REQUEST_DEPTH \in Nat
ASSUME BoundsAssumption ==
  MaxSfqq \in Nat /\ MaxStale \in Nat /\ NoSfqq \notin 0 .. MaxSfqq

VARIABLES
  cur, tmp,            \* per process: the request it sets up; a register
  plugged,             \* per process: requests set up, not yet inserted
  own,                 \* rq->elv.priv[0]: the queue of each request
  nxt, tail, pid,      \* the ring: next pointers, head->prev; queues' owners
  sfqq_size, heap_limit_size,
  pending,             \* the linked requests of all queues, by arrival
  heap,                \* the requests in requests[0 .. heap_size-1]
  os_sfqq, sfqq_total_seek, depth, sfqr_size,
  stale,               \* linked requests that a merge has freed
  unplug_work,         \* the kick is queued on kblockd
  armed, firing,       \* idle_slice_timer is queued; its callback has begun
  elv                  \* as in NoopKick; "untimed" between the two cancels

setupVars == <<cur, tmp, plugged, own>>
ringVars  == <<nxt, tail, pid, sfqq_size, heap_limit_size>>
queueVars ==
  <<pending, heap, os_sfqq, sfqq_total_seek, depth, sfqr_size, stale>>
kickVars  == <<unplug_work, armed, firing>>
vars == <<setupVars, ringVars, queueVars, kickVars, elv, deviceVars>>

ListHead == 0              \* &sfqd->queue, itself an element of the ring
Sfqqs == 1 .. MaxSfqq

Registering == {"grow", "count", "tail", "prev"}
Labels == {"idle", "flush", "run", "issue", "drain"} \cup Registering

TypeOK ==
  /\ cur \in [Procs -> Requests \cup {NoReq}]
  /\ tmp \in [Procs -> Nat]
  /\ plugged \in [Procs -> SUBSET Requests]
  /\ own \in [Requests -> Sfqqs \cup {NoSfqq}]
  /\ nxt \in [0 .. MaxSfqq -> 0 .. MaxSfqq]
  /\ tail \in 0 .. MaxSfqq
  /\ pid \in Seq(Procs)
  /\ sfqq_size \in Nat /\ heap_limit_size \in Nat /\ sfqq_total_seek \in Nat
  /\ pending \in Seq(Requests)
  /\ heap \subseteq Requests
  /\ os_sfqq \in (0 .. MaxSfqq) \cup {NoSfqq}
  /\ depth \in Nat /\ sfqr_size \in Nat
  /\ stale \subseteq Requests
  /\ unplug_work \in BOOLEAN /\ armed \in BOOLEAN /\ firing \in BOOLEAN
  /\ elv \in {"attached", "bypass", "detached", "untimed", "freed", "oops"}
  /\ pc \in [Ctx -> Labels]
  /\ DeviceTypeOK

\* Requests with elevator data that are not freed yet.
SetUp == (Range(cur) \ {NoReq}) \cup UNION Range(plugged)
Outstanding ==
  SetUp \cup Range(pending) \cup heap \cup Range(queue_head) \cup inflight

-----------------------------------------------------------------------------
(* sfq_init_queue: a fresh sfq_data.                                       *)

EmptyRing == [q \in 0 .. MaxSfqq |-> ListHead]

Init ==
  /\ cur = [p \in Procs |-> NoReq] /\ tmp = [p \in Procs |-> 0]
  /\ plugged = [p \in Procs |-> {}]
  /\ own = [r \in Requests |-> NoSfqq]
  /\ nxt = EmptyRing /\ tail = ListHead /\ pid = <<>>
  /\ sfqq_size = 0 /\ heap_limit_size = 0
  /\ pending = <<>> /\ heap = {} /\ stale = {}
  /\ os_sfqq = NoSfqq /\ sfqq_total_seek = 0
  /\ depth = 0 /\ sfqr_size = 0
  /\ unplug_work = FALSE /\ armed = FALSE /\ firing = FALSE
  /\ elv = "attached"
  /\ DeviceInit
  /\ pc = [c \in Ctx |-> "idle"]

-----------------------------------------------------------------------------
(* sfq_set_request.                                                        *)

\* The queues that list_for_each(head, &sfqd->queue) visits.
Visited ==
  LET nth[k \in 0 .. MaxSfqq] == IF k = 0 THEN ListHead ELSE nxt[nth[k - 1]]
  IN  {q \in Sfqqs : \E k \in 0 .. MaxSfqq : nth[k] = q}
QueuesOf(p) == {q \in Visited : pid[q] = p}

SetupBegins(p, r) ==
  /\ pc[p] = "idle" /\ elv = "attached"
  /\ r \notin Outstanding
  /\ UNCHANGED <<ringVars, queueVars, kickVars, elv>>
  /\ UNCHANGED <<queue_head, inflight, issuing>>

\* The process has a queue: its request gets it and is plugged.
sfq_set_request_known(p, r) ==
  /\ SetupBegins(p, r)
  /\ \E q \in QueuesOf(p) : own' = [own EXCEPT ![r] = q]
  /\ plugged' = [plugged EXCEPT ![p] = @ \cup {r}]
  /\ UNCHANGED <<cur, tmp, pc>>

\* It has none: read heap_limit_size.
sfq_set_request_new(p, r) ==
  /\ SetupBegins(p, r)
  /\ QueuesOf(p) = {} /\ Len(pid) < MaxSfqq
  /\ cur' = [cur EXCEPT ![p] = r]
  /\ tmp' = [tmp EXCEPT ![p] = heap_limit_size]
  /\ At(p, "grow")
  /\ UNCHANGED <<plugged, own>>

RegisterStep(p, from) ==
  /\ pc[p] = from
  /\ UNCHANGED <<queueVars, kickVars, elv, queue_head, inflight, issuing>>

\* heap_limit_size++; allocate the queue; read sfqq_size.
GrowHeap(p) ==
  /\ RegisterStep(p, "grow") /\ Len(pid) < MaxSfqq
  /\ heap_limit_size' = tmp[p] + 1
  /\ pid' = Append(pid, p)
  /\ own' = [own EXCEPT ![cur[p]] = Len(pid) + 1]
  /\ tmp' = [tmp EXCEPT ![p] = sfqq_size]
  /\ At(p, "count")
  /\ UNCHANGED <<cur, plugged, nxt, tail, sfqq_size>>

\* sfqq_size++; read head->prev.
CountSfqq(p) ==
  /\ RegisterStep(p, "count")
  /\ sfqq_size' = tmp[p] + 1
  /\ tmp' = [tmp EXCEPT ![p] = tail]
  /\ At(p, "tail")
  /\ UNCHANGED <<cur, plugged, own, nxt, tail, pid, heap_limit_size>>

\* list_add_tail writes head->prev and new->next ...
LinkTail(p) ==
  /\ RegisterStep(p, "tail")
  /\ tail' = own[cur[p]]
  /\ nxt' = [nxt EXCEPT ![own[cur[p]]] = ListHead]
  /\ At(p, "prev")
  /\ UNCHANGED <<setupVars, pid, sfqq_size, heap_limit_size>>

\* ... and prev->next; the request is set up.
LinkPrev(p) ==
  /\ RegisterStep(p, "prev")
  /\ nxt' = [nxt EXCEPT ![tmp[p]] = own[cur[p]]]
  /\ plugged' = [plugged EXCEPT ![p] = @ \cup {cur[p]}]
  /\ cur' = [cur EXCEPT ![p] = NoReq]
  /\ tmp' = [tmp EXCEPT ![p] = 0]
  /\ At(p, "idle")
  /\ UNCHANGED <<own, tail, pid, sfqq_size, heap_limit_size>>

Register(p) == GrowHeap(p) \/ CountSfqq(p) \/ LinkTail(p) \/ LinkPrev(p)

-----------------------------------------------------------------------------
(* Insertion: __elv_add_request for every request of the plug, then        *)
(* request_fn, all under the lock.                                         *)

Inserts(p, r) ==
  /\ pc[p] = "flush" \/ (pc[p] = "idle" /\ LockFree)
  /\ r \in plugged[p]
  /\ plugged' = [plugged EXCEPT ![p] = @ \ {r}]
  /\ At(p, IF plugged[p] = {r} THEN "run" ELSE "flush")
  /\ UNCHANGED <<cur, tmp, own, ringVars, kickVars, elv, heap, os_sfqq,
                 sfqq_total_seek, depth, queue_head, inflight, issuing>>

CountAddedForgotten == UNCHANGED sfqr_size
CountAdded == sfqr_size' = sfqr_size + 1

sfq_add_request(p, r) ==
  /\ Inserts(p, r)
  /\ pending' = Append(pending, r)
  /\ CountAdded
  /\ UNCHANGED stale

\* A merge is not counted: what it absorbs was not added, or stays linked.
CountMergedAway == sfqr_size' = sfqr_size - 1
CountMerged == UNCHANGED sfqr_size

\* Requests of the elevator that a merge can find: the hashed ones.
Mergeable == (Range(pending) \cup heap) \ stale

\* The request is absorbed by one of the elevator's and freed.
InsertMerge(p, r) ==
  /\ Inserts(p, r)
  /\ Mergeable # {}
  /\ CountMerged
  /\ UNCHANGED <<pending, stale>>

\* The enlarged request v is absorbed by a third one.  This elevator has no
\* elevator_merge_req_fn: sfq_put_request frees v while it is linked.
MergeLinked(p, r, v) ==
  /\ Inserts(p, r)
  /\ v \in Mergeable /\ Mergeable # {v}
  /\ Cardinality(stale) < MaxStale
  /\ stale' = stale \cup {v}
  /\ CountMerged
  /\ UNCHANGED pending

-----------------------------------------------------------------------------
(* sfq_dispatch.                                                           *)

KickIf(P) == unplug_work' = (unplug_work \/ P)
OthersCounted == sfqr_size > 1
SomeCounted == sfqr_size # 0

\* hrtimer_try_to_cancel gives up on a timer whose callback runs.
TryToCancel == armed' = (armed /\ firing)

\* The cursor: the first queue of the list, later the next one, with a step
\* over the list head when as many moves as queues have been made.
LappedEarly == sfqq_total_seek = sfqq_size - 1
Lapped == sfqq_total_seek = sfqq_size
NextSfqq ==
  IF os_sfqq = NoSfqq THEN nxt[ListHead]
  ELSE IF Lapped THEN nxt[nxt[os_sfqq]] ELSE nxt[os_sfqq]
NextSeek == IF os_sfqq # NoSfqq /\ Lapped THEN 1 ELSE sfqq_total_seek + 1
MoveCursor == os_sfqq' = NextSfqq /\ sfqq_total_seek' = NextSeek

NoSfqqYet == os_sfqq = NoSfqq /\ nxt[ListHead] = ListHead

\* Where the oldest request of the queue under the cursor is in pending: one
\* position, or none.
Positions(q) == {i \in DOMAIN pending : own[pending[i]] = q}
Oldest == {i \in Positions(NextSfqq) : \A j \in Positions(NextSfqq) : i <= j}
Empty == NextSfqq # ListHead /\ Oldest = {}

\* "check for left requests": only after the first dispatch.
Skips == os_sfqq # NoSfqq /\ Empty

OverDepthByOne == depth > REQUEST_DEPTH + 1
OverDepth == depth > REQUEST_DEPTH
HeapHasRoom == Cardinality(heap) < heap_limit_size - 1

StillLinked == {pending}
Unlinked == {Without(pending, i) : i \in Oldest}
PopForgotten(h, r) == h
Popped(h, r) == h \ {r}

\* The limit is reached: kick and return 0.
sfq_dispatch_refused ==
  /\ ~NoSfqqYet /\ ~Skips /\ OverDepth
  /\ MoveCursor /\ KickIf(SomeCounted)
  /\ UNCHANGED <<pending, heap, depth, queue_head>>

\* Nothing in the queue nor in the heap: return 0, the first time unkicked.
sfq_dispatch_nothing ==
  \/ /\ NoSfqqYet
     /\ UNCHANGED <<os_sfqq, sfqq_total_seek, unplug_work>>
     /\ UNCHANGED <<pending, heap, depth, queue_head>>
  \/ /\ ~NoSfqqYet /\ Empty /\ heap = {} /\ (Skips \/ ~OverDepth)
     /\ MoveCursor /\ KickIf(Skips /\ SomeCounted)
     /\ UNCHANGED <<pending, heap, depth, queue_head>>

\* The cursor is on the list head, and what list_first_entry returns of it is
\* not a request: the sizes behind it in sfq_data, read as pointers.
sfq_dispatch_wild ==
  /\ ~NoSfqqYet /\ NextSfqq = ListHead /\ ~OverDepth
  /\ MoveCursor
  /\ elv' = "oops"
  /\ UNCHANGED <<unplug_work, pending, heap, depth, queue_head>>

\* Transfer the oldest request into the heap, if that has room, and hand the
\* heap's least to the driver; without a heap, hand over the oldest directly.
sfq_dispatch_one ==
  LET oldest == {pending[i] : i \in Oldest}
      loaded == IF HeapHasRoom THEN heap \cup oldest ELSE heap
      least  == IF loaded # {} THEN loaded ELSE oldest
  IN  /\ ~NoSfqqYet /\ NextSfqq # ListHead
      /\ Skips \/ ~OverDepth
      /\ \E r \in least :
           /\ elv_dispatch_sort(r)
           /\ heap' = Popped(loaded, r)
           /\ elv' = IF r \in stale THEN "oops" ELSE elv
      /\ pending' \in IF oldest # {} /\ (HeapHasRoom \/ heap = {})
                        THEN Unlinked ELSE {pending}
      /\ MoveCursor
      /\ depth' = depth + 1
      /\ KickIf(IF Empty THEN Skips /\ SomeCounted ELSE ~HeapHasRoom)

\* Every dispatch tries to cancel the timer first.
Dispatching ==
  /\ TryToCancel
  /\ UNCHANGED <<setupVars, ringVars, sfqr_size, stale, firing>>
  /\ UNCHANGED <<inflight, issuing>>

\* request_fn asks until the answer is 0.
Peek(c) ==
  /\ pc[c] = "run" /\ queue_head = <<>> /\ elv # "bypass"
  /\ Dispatching
  /\ \/ sfq_dispatch_one /\ UNCHANGED pc
     \/ sfq_dispatch_wild /\ UNCHANGED pc
     \/ /\ sfq_dispatch_refused \/ sfq_dispatch_nothing
        /\ At(c, "idle") /\ UNCHANGED elv

OnlyDevice(step) ==
  step /\ UNCHANGED <<setupVars, ringVars, queueVars, kickVars, elv>>

-----------------------------------------------------------------------------
(* Completion, the timer and the kick.                                     *)

FreeSlotForgotten == UNCHANGED depth
FreeSlot == depth' = depth - 1
KickNever == UNCHANGED <<unplug_work, armed>>
KickIfMore ==
  /\ KickIf(sfqr_size' > 0)
  /\ armed' = (armed \/ sfqr_size' > 0)

sfq_completed(r) ==
  /\ DeviceComplete(r)
  /\ FreeSlot
  /\ sfqr_size' = sfqr_size - 1
  /\ KickIfMore
  /\ UNCHANGED <<setupVars, ringVars, pending, heap, os_sfqq, sfqq_total_seek,
                 stale, firing, elv>>

\* The hrtimer interrupt takes the timer off its queue ...
TimerExpires ==
  /\ armed /\ ~firing
  /\ armed' = FALSE /\ firing' = TRUE
  /\ UNCHANGED <<setupVars, ringVars, queueVars, unplug_work, elv, deviceVars>>

\* ... and its callback waits for the lock.
sfq_idle_slice_timer ==
  /\ firing /\ LockFree
  /\ firing' = FALSE
  /\ KickIf(SomeCounted)
  /\ UNCHANGED <<setupVars, ringVars, queueVars, armed, elv, deviceVars>>

sfq_kick_queue ==
  /\ unplug_work /\ elv \in {"attached", "bypass"}
  /\ unplug_work' = FALSE
  /\ RunQueue(Kblockd)
  /\ UNCHANGED <<setupVars, ringVars, queueVars, armed, firing, elv>>

\* The work item once another elevator is attached: that one is run.
KickSuccessor ==
  /\ unplug_work /\ elv \in {"detached", "untimed"}
  /\ unplug_work' = FALSE
  /\ UNCHANGED <<setupVars, ringVars, queueVars, armed, firing, elv>>
  /\ UNCHANGED deviceVars

-----------------------------------------------------------------------------
(* elevator_switch away from this elevator, and back.                      *)

OnlyElv(from, to) ==
  /\ elv = from /\ elv' = to
  /\ UNCHANGED <<setupVars, ringVars, queueVars, deviceVars>>

BypassStart == OnlyElv("attached", "bypass") /\ LockFree /\ UNCHANGED kickVars

DrainStart(c) ==
  /\ LockFree /\ pc[c] = "idle" /\ elv = "bypass"
  /\ At(c, "drain")
  /\ UNCHANGED <<setupVars, ringVars, queueVars, kickVars, elv, queue_head,
                 inflight, issuing>>

Quiescent(c) ==
  /\ Outstanding = {}
  /\ \A d \in Ctx \ {c} : pc[d] = "idle"

\* One turn of the drain loop: elv_drain_elevator dispatches until the answer
\* is 0, a nonempty driver's list is run; the loop ends when nothing is left.
Drain(c) ==
  /\ pc[c] = "drain"
  /\ Dispatching
  /\ \/ sfq_dispatch_one /\ UNCHANGED pc
     \/ sfq_dispatch_wild /\ UNCHANGED pc
     \/ /\ sfq_dispatch_refused \/ sfq_dispatch_nothing
        /\ At(c, IF queue_head = <<>> THEN "idle" ELSE "run")
        /\ elv' = IF Quiescent(c) THEN "detached" ELSE elv

CallbackIgnored == TRUE
CallbackDone == ~firing

\* sfq_exit_queue: hrtimer_cancel waits for a running callback ...
CancelTimer ==
  /\ OnlyElv("detached", "untimed")
  /\ CallbackDone
  /\ armed' = FALSE
  /\ UNCHANGED <<unplug_work, firing>>

\* ... cancel_work_sync for a running kick; kfree.
sfq_exit_queue ==
  /\ OnlyElv("untimed", "freed")
  /\ unplug_work' = FALSE
  /\ UNCHANGED <<armed, firing>>

\* The later switch back.
sfq_init_queue ==
  /\ elv = "freed" /\ elv' = "attached"
  /\ nxt' = EmptyRing /\ tail' = ListHead /\ pid' = <<>>
  /\ sfqq_size' = 0 /\ heap_limit_size' = 0
  /\ pending' = <<>> /\ heap' = {} /\ stale' = {}
  /\ os_sfqq' = NoSfqq /\ sfqq_total_seek' = 0
  /\ depth' = 0 /\ sfqr_size' = 0
  /\ unplug_work' = FALSE /\ armed' = FALSE /\ firing' = FALSE
  /\ own' = [r \in Requests |-> NoSfqq]
  /\ UNCHANGED <<cur, tmp, plugged, deviceVars>>

-----------------------------------------------------------------------------
Submit(p, r) ==
  \/ sfq_set_request_known(p, r)
  \/ sfq_set_request_new(p, r)
Flush(p, r) ==
  \/ sfq_add_request(p, r)
  \/ InsertMerge(p, r)
  \/ \E v \in Requests : MergeLinked(p, r, v)
RequestFn(c) ==
  \/ Peek(c)
  \/ elv = "bypass" /\ OnlyDevice(DeviceBypassed(c))
  \/ OnlyDevice(DeviceBusy(c) \/ DeviceStart(c))
Issued(c) == OnlyDevice(DeviceIssued(c))
Unasked(c) ==
  \/ OnlyDevice(DeviceRequeue(c))
  \/ (elv \in {"attached", "bypass"} /\ OnlyDevice(RunQueue(c)))
Timed == TimerExpires \/ sfq_idle_slice_timer
Switch ==
  \/ BypassStart \/ CancelTimer \/ sfq_exit_queue \/ sfq_init_queue
  \/ KickSuccessor
  \/ \E p \in Procs : DrainStart(p) \/ Drain(p)

\* What happens while the elevator works and nobody interferes.
Working ==
  \/ \E p \in Procs : Register(p)
  \/ \E p \in Procs, r \in Requests : Submit(p, r) \/ Flush(p, r)
  \/ \E c \in Ctx : RequestFn(c) \/ Issued(c)
  \/ \E r \in Requests : sfq_completed(r)
  \/ sfq_kick_queue \/ Timed

Next ==
  /\ elv # "oops"
  /\ Working \/ Switch \/ \E c \in Ctx : Unasked(c)

(* As in NoopKick: whoever holds the lock goes on, whoever spins on it gets *)
(* it, kblockd runs what was queued, the device completes what it accepted. *)
(* A task finishes what it began: the registration of its queue, the flush  *)
(* of its plug, the drain of a switch.  The timer is not relied on.         *)
Fairness ==
  /\ WF_vars(\E c \in Ctx : RequestFn(c) \/ Drain(c))
  /\ WF_vars(\E p \in Procs : Register(p))
  /\ SF_vars(\E c \in Ctx : Issued(c))
  /\ SF_vars(\E p \in Procs, r \in Requests : Flush(p, r))
  /\ SF_vars(\E r \in Requests : sfq_completed(r))
  /\ SF_vars(sfq_kick_queue)
  /\ SF_vars(\E p \in Procs : DrainStart(p))

\* A finite workload: no request is used twice.
NoReuse == \A r \in SetUp' \ SetUp : own[r] = NoSfqq

SafeSpec == Init /\ [][Next]_vars

-----------------------------------------------------------------------------
(* Properties.                                                             *)

\* The device never holds more than one request above REQUEST_DEPTH, and
\* depth never falls behind what it holds, however contexts interleave.
DepthBound == Held <= depth /\ depth <= REQUEST_DEPTH + 1

\* sfqr_size covers every request the elevator has not seen completed, so the
\* timer and sfq_completed never miss the kick that waiting requests need.
NeverUndercounts == sfqr_size >= Len(pending) + Cardinality(heap) + Held

\* Between dispatches the heap is empty: it never holds two requests to sort.
HeapAtRest == heap = {}

\* No lost kick.  The kick after the first dispatch is missing, so a waiting
\* request may also depend on a task that still has to flush its plug.
NoStranded ==
  pending # <<>> \/ queue_head # <<>> =>
    \/ \E c \in Ctx : pc[c] # "idle"
    \/ \E p \in Procs : plugged[p] # {}
    \/ unplug_work \/ armed \/ firing
    \/ inflight # {} \/ elv = "bypass"
    \/ elv = "oops"

\* The timer and the kick do not outlive sfq_data.
WorkStopsAtFree ==
  elv = "freed" => ~unplug_work /\ ~armed /\ ~firing /\ pc[Kblockd] = "idle"

\* Every request is accounted for once.
OnePlace ==
  Cardinality(Outstanding) =
    Cardinality(SetUp) + Len(pending) + Cardinality(heap) + Held

\* The cursor and its count of moves agree: os_sfqq is the queue that
\* sfqq_total_seek moves from the list head lead to.
CursorAgrees ==
  LET nth[k \in 0 .. MaxSfqq] == IF k = 0 THEN ListHead ELSE nxt[nth[k - 1]]
  IN  os_sfqq # NoSfqq =>
        sfqq_total_seek \in Sfqqs /\ os_sfqq = nth[sfqq_total_seek]

\* "outstanding sfq_queue" (sfq_4.c:54): the cursor is on a queue.
CursorOnQueue == os_sfqq \in Visited \cup {NoSfqq}

\* Processes that stop submitting get everything they submitted: no kick is
\* lost on the way, the cursor comes round to every queue, and the limit on
\* the depth is not reached for good.
BacklogDrains == pending # <<>> ~> Outstanding = {}
=============================================================================
