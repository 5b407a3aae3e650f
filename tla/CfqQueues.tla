----------------------------- MODULE CfqQueues ------------------------------
(***************************************************************************)
(* The queues of cfq_experiment/cfq-iosched.c: a sync queue per process    *)
(* and an async queue they share, reference counted; queues of processes   *)
(* that work close together are merged, and split when they part.  At most *)
(* one queue is active: it has a time slice, within which the scheduler    *)
(* may idle for it on a timer instead of serving others.                   *)
(*                                                                         *)
(* All of this changes under queue_lock.  An operator takes cfq_data, as a *)
(* record s, to what the function of the source makes of it; where time or *)
(* positions on the disk decide, to the set of what it may make.           *)
(*                                                                         *)
(* One group and one priority: the root cgroup, best effort.               *)
(***************************************************************************)
EXTENDS KickedElevator

CONSTANTS Procs,      \* processes, each with a cfq_io_cq
          Cfqqs,      \* the cfq_queues of cfq_pool
          Oom,        \* cfqd->oom_cfqq, when cfq_pool has none to give
          NoCfqq      \* "no cfq_queue"

ASSUME CfqqsAssumption ==
  /\ Oom \notin Cfqqs /\ NoCfqq \notin Cfqqs \cup {Oom}
  /\ IsFiniteSet(Cfqqs) /\ IsFiniteSet(Procs)

Queues == Cfqqs \cup {Oom}
MaybeQueue == Queues \cup {NoCfqq}

VARIABLE cfqd

\* queued, dispatched and activated partition what the elevator has by where
\* it is; activated requests are those counted by rq_in_driver.
CfqDataType == [
  ref : [Queues -> Int],  new_cfqq : [Queues -> MaybeQueue],
  sync : SUBSET Cfqqs,                 \* queues with CFQQ_FLAG_sync
  coop : [Queues -> {"none", "coop", "split"}],
  cic : [Procs -> [{"sync", "async"} -> MaybeQueue]],
  async_cfqq : MaybeQueue,             \* the group's shared async queue
  own : [Requests -> MaybeQueue],      \* RQ_CFQQ
  rq_sync : SUBSET Requests,           \* rq_is_sync
  queued : SUBSET Requests, dispatched : SUBSET Requests,
  activated : SUBSET Requests,
  busy : SUBSET Queues,                \* CFQQ_FLAG_on_rr
  active : MaybeQueue,
  slice_new : BOOLEAN, wait_request : BOOLEAN,  \* flags of the active queue
  must_dispatch : BOOLEAN, wait_busy : BOOLEAN,
  armed : BOOLEAN, firing : BOOLEAN,   \* idle_slice_timer and its callback
  kick : BOOLEAN,                      \* unplug_work was scheduled
  bug : BOOLEAN]                       \* a BUG_ON fired

NewCfqData == [
  ref |-> [q \in Queues |-> IF q = Oom THEN 1 ELSE 0],
  new_cfqq |-> [q \in Queues |-> NoCfqq],
  sync |-> {}, coop |-> [q \in Queues |-> "none"],
  cic |-> [p \in Procs |-> [k \in {"sync", "async"} |-> NoCfqq]],
  async_cfqq |-> NoCfqq,
  own |-> [r \in Requests |-> NoCfqq], rq_sync |-> {},
  queued |-> {}, dispatched |-> {}, activated |-> {},
  busy |-> {}, active |-> NoCfqq,
  slice_new |-> FALSE, wait_request |-> FALSE,
  must_dispatch |-> FALSE, wait_busy |-> FALSE,
  armed |-> FALSE, firing |-> FALSE, kick |-> FALSE, bug |-> FALSE]

Of(s, q, R)     == {r \in R : s.own[r] = q}
Allocated(s, q) == Of(s, q, Requests)
Empty(s, q)     == Of(s, q, s.queued) = {}
BugIf(P, s)     == [s EXCEPT !.bug = @ \/ P]

\* cfqq_process_refs: the references that are not those of requests.
ProcessRefs(s, q) == s.ref[q] - Cardinality(Allocated(s, q))

-----------------------------------------------------------------------------
(* The active queue and its slice.                                         *)

ScheduleNever(s) == s
ScheduleDispatch(s) == [s EXCEPT !.kick = @ \/ s.busy # {}]

\* hrtimer_try_to_cancel gives up while the callback runs.
DelTimer(s) == [s EXCEPT !.armed = s.armed /\ s.firing]

\* A queue that is empty when its slice ends leaves the round-robin list.
StayBusy(s, q) == s.busy
LeaveIfEmpty(s, q) == IF Empty(s, q) THEN s.busy \ {q} ELSE s.busy

\* __cfq_slice_expired; seeky: the queue's processes have drifted apart.
Expire(s, seeky) ==
  LET q == s.active
      t == IF s.wait_request THEN DelTimer(s) ELSE s
  IN [t EXCEPT !.active = NoCfqq, !.busy = LeaveIfEmpty(s, q),
        !.wait_request = FALSE, !.wait_busy = FALSE,
        !.slice_new = FALSE, !.must_dispatch = FALSE,
        !.coop[q] = IF @ = "coop" /\ seeky THEN "split" ELSE @]

\* cfq_slice_expired.
Expirations(s) ==
  IF s.active = NoCfqq THEN {s} ELSE {Expire(s, seeky) : seeky \in BOOLEAN}

\* __cfq_set_active_queue.
SetActive(s, q) ==
  [DelTimer(s) EXCEPT !.active = q, !.slice_new = TRUE,
     !.wait_request = FALSE, !.must_dispatch = FALSE]

-----------------------------------------------------------------------------
(* References.                                                             *)

StayActive(s, q) == s
ExpireIfActive(s, q) ==
  IF s.active = q THEN ScheduleDispatch(Expire(s, FALSE)) ELSE s

\* cfq_put_queue: the last reference frees the queue, which must be empty
\* and off the round-robin list.
PutQueue(s, q) ==
  IF s.ref[q] <= 0 THEN BugIf(TRUE, s)
  ELSE LET t == [s EXCEPT !.ref[q] = @ - 1]
           e == ExpireIfActive(t, q)
           u == BugIf(Allocated(t, q) # {} \/ ~Empty(t, q) \/ q \in e.busy, e)
       IN IF t.ref[q] > 0 THEN t
          ELSE [u EXCEPT !.new_cfqq[q] = NoCfqq, !.coop[q] = "none",
                         !.sync = @ \ {q}]

\* The queues q is scheduled to merge with, one after the other; the walk
\* ends when it is back at q.
Ahead(s, q) ==
  LET ahead[n \in 0 .. Cardinality(Queues)] ==
        IF n = 0 THEN q
        ELSE LET p == ahead[n - 1]
             IN IF p = NoCfqq \/ s.new_cfqq[p] = q THEN NoCfqq
                ELSE s.new_cfqq[p]
  IN ahead
Chain(s, q) == {Ahead(s, q)[n] : n \in 1 .. Cardinality(Queues)} \ {NoCfqq}

\* cfq_put_cooperator: the next queue is read before this one is put.
KeepCooperator(s, q) == s
PutCooperator(s, q) ==
  LET put[n \in 0 .. Cardinality(Queues)] ==
        IF n = 0 THEN s
        ELSE LET p == Ahead(s, q)[n]
             IN IF p = NoCfqq THEN put[n - 1] ELSE PutQueue(put[n - 1], p)
  IN put[Cardinality(Queues)]

\* cfq_exit_cfqq.
ExitCfqq(s, q) ==
  {PutQueue(PutCooperator(t, q), q) :
     t \in IF s.active = q THEN {ScheduleDispatch(e) : e \in Expirations(s)}
           ELSE {s}}

ExitKind(s, p, kind) ==
  IF s.cic[p][kind] = NoCfqq THEN {s}
  ELSE {[t EXCEPT !.cic[p][kind] = NoCfqq] : t \in ExitCfqq(s, s.cic[p][kind])}

\* cfq_exit_icq: a process exits, or its io context is cleared by a switch.
ExitIcq(s, p) ==
  UNION {ExitKind(t, p, "sync") : t \in ExitKind(s, p, "async")}

\* cfq_setup_merge of the queue q, whose slice ends, and the queue n close by:
\* the processes of the one will move to the other, and hold it from now on.
MergeInto(s, q, n) ==
  [s EXCEPT !.new_cfqq[q] = n, !.ref[n] = @ + ProcessRefs(s, q)]

SetupMerge(s, q, n) ==
  LET last == CHOOSE e \in Chain(s, n) \cup {n} : s.new_cfqq[e] = NoCfqq
  IN CASE ProcessRefs(s, n) = 0 \/ q \in Chain(s, n) -> s
       [] OTHER ->
          IF ProcessRefs(s, q) = 0 \/ ProcessRefs(s, last) = 0 THEN s
          ELSE IF ProcessRefs(s, last) >= ProcessRefs(s, q)
          THEN MergeInto(s, q, last)
          ELSE MergeInto(s, last, q)

-----------------------------------------------------------------------------
(* The queue of a request.                                                 *)

\* cfq_get_queue; fresh is what the allocation finds, if it finds a queue.
GetQueue(s, p, kind, fresh) ==
  LET shared == kind = "async" /\ s.async_cfqq # NoCfqq
      new    == ~shared /\ fresh # Oom /\ s.ref[fresh] = 0
      pinned == new /\ kind = "async"
      q      == IF shared THEN s.async_cfqq ELSE IF new THEN fresh ELSE Oom
  IN [s EXCEPT !.cic[p][kind] = q,
        !.ref[q] = @ + (IF pinned THEN 2 ELSE 1),
        !.async_cfqq = IF pinned THEN q ELSE @,
        !.sync = IF new /\ kind = "sync" THEN @ \cup {q} ELSE @]

\* cfq_merge_cfqqs: the process moves to the queue it was scheduled for.
MergeCfqqs(s, p, q) ==
  LET n == s.new_cfqq[q]
  IN PutQueue([s EXCEPT !.cic[p]["sync"] = n,
                        !.coop[n] = IF @ = "none" THEN "coop" ELSE @], q)

\* split_cfqq: the last process keeps the queue, another one leaves it.
SplitCfqq(s, p, q) ==
  IF ProcessRefs(s, q) = 1 THEN [s EXCEPT !.coop[q] = "none"]
  ELSE PutQueue(PutCooperator([s EXCEPT !.cic[p]["sync"] = NoCfqq], q), q)

\* The part of cfq_set_request that finds the queue of p's next request.
FindQueue(s, p, kind, fresh) ==
  LET q == s.cic[p][kind]
      t == IF s.coop[q] = "split" THEN SplitCfqq(s, p, q) ELSE s
  IN CASE q = NoCfqq -> GetQueue(s, p, kind, fresh)
       [] q = Oom    -> GetQueue(PutQueue(s, q), p, kind, fresh)
       [] OTHER      -> IF t.cic[p][kind] = NoCfqq
                        THEN GetQueue(t, p, kind, fresh)
                        ELSE IF t.new_cfqq[q] # NoCfqq
                        THEN MergeCfqqs(t, p, q) ELSE t

SetRequest(s, p, kind, fresh, r) ==
  LET t == FindQueue(s, p, kind, fresh)
      q == t.cic[p][kind]
  IN [t EXCEPT !.own[r] = q, !.ref[q] = @ + 1,
        !.rq_sync = IF kind = "sync" THEN @ \cup {r} ELSE @]

\* cfq_put_request.
PutRequest(s, r) ==
  PutQueue([s EXCEPT !.own[r] = NoCfqq, !.rq_sync = @ \ {r}], s.own[r])

=============================================================================
