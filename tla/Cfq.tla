-------------------------------- MODULE Cfq ---------------------------------
(***************************************************************************)
(* cfq_experiment/cfq-iosched.c as an elevator: requests enter the queues  *)
(* of CfqQueues, the active queue is dispatched from, and dispatching      *)
(* stops to idle for it.  Whoever stops must leave something behind that   *)
(* starts it again: a completion, the idle timer or a work item.           *)
(*                                                                         *)
(* Time slices, think times, seeks and queue depths are left open: where   *)
(* the code compares them, either outcome is possible.                     *)
(***************************************************************************)
EXTENDS CfqQueues, SequencesExt

vars == <<frameVars, deviceVars, cfqd>>

TypeOK == FrameTypeOK({}) /\ cfqd \in CfqDataType

Init == FrameInit /\ cfqd = NewCfqData

\* cfq_data becomes s, and the work item is queued if s says so.
Step(s) ==
  /\ cfqd' = [s EXCEPT !.kick = FALSE]
  /\ KickIf(s.kick)

-----------------------------------------------------------------------------
(* Requests come.                                                          *)

\* cfq_set_request, under the lock; an allocation may fail.
cfq_set_request(p, kind, r) ==
  /\ LockFree /\ elv = "attached"
  /\ r \notin OutstandingWith(cfqd.queued)
  /\ plugged' = plugged \cup {r}
  /\ \E fresh \in Queues : Step(SetRequest(cfqd, p, kind, fresh, r))
  /\ UNCHANGED <<stale, elv, deviceVars>>

\* cfq_add_rq_rb.
AddRequest(s, r) ==
  [s EXCEPT !.queued = @ \cup {r}, !.busy = @ \cup {s.own[r]}]

\* cfq_should_preempt: a sync request always takes over from async ones,
\* unless those must be dispatched.
MustPreempt(s, r) ==
  r \in s.rq_sync /\ s.active \notin s.sync /\ ~s.must_dispatch

\* cfq_rq_enqueued with a request for another queue than the active one: the
\* active slice goes on, or it expires and the queue is run.
Preempts(c, s, r) ==
  \/ /\ s.active = NoCfqq \/ ~MustPreempt(s, r)
     /\ Step(s)
  \/ /\ s.active # NoCfqq
     /\ \E e \in Expirations(s) : Step(BugIf(s.own[r] \notin e.busy, e))
     /\ pc'[c] = "run"

\* cfq_rq_enqueued with a request the scheduler was idling for: a large one
\* is dispatched now, a small one when the timer expires.
EndsWait(c, s) ==
  \/ /\ Step([DelTimer(s) EXCEPT !.wait_request = FALSE])
     /\ pc'[c] = "run"
  \/ /\ Cardinality(s.busy) <= 1
     /\ Step([s EXCEPT !.must_dispatch = TRUE])

\* cfq_insert_request.
cfq_insert_request(c, r) ==
  /\ Insert(c, r, plugged) /\ UNCHANGED stale
  /\ LET s == AddRequest(cfqd, r)
     IN IF s.active # s.own[r] THEN Preempts(c, s, r)
        ELSE IF s.wait_request THEN EndsWait(c, s)
        ELSE Step(s)

\* A plugged request is merged into one that is queued, and freed.
InsertMerged(c, r) ==
  /\ Insert(c, r, plugged) /\ UNCHANGED stale
  /\ Of(cfqd, cfqd.own[r], cfqd.queued) # {}
  /\ Step(PutRequest(cfqd, r))

\* cfq_merged_requests, and the elevator frees next: a bio has closed the gap
\* between two requests of a queue.
cfq_merged_requests(rq, next) ==
  /\ LockFree /\ elv = "attached"
  /\ {rq, next} \subseteq cfqd.queued /\ rq # next
  /\ cfqd.own[rq] = cfqd.own[next]
  /\ Step(PutRequest([cfqd EXCEPT !.queued = @ \ {next}], next))
  /\ UNCHANGED <<plugged, stale, elv, deviceVars>>

-----------------------------------------------------------------------------
(* Dispatching.  An outcome is cfq_data and the queue to dispatch from.    *)

Outcome(s, q) == [s |-> s, from |-> q]
Nothing(s) == {Outcome(s, NoCfqq)}

\* From the label new_queue: cfq_choose_cfqg takes the first group on the
\* tree for granted; any queue of the round-robin list may be its first.
NewQueue(s) ==
  IF s.busy = {} THEN Nothing(BugIf(TRUE, s))
  ELSE IF s.queued = {} THEN Nothing([s EXCEPT !.active = NoCfqq])
  ELSE {Outcome(SetActive(s, q), q) : q \in s.busy}

\* From the label expire.
ExpireAndNew(s) == UNION {NewQueue(e) : e \in Expirations(s)}

\* From the label check_group_idle.
CheckGroupIdle(s) ==
  ExpireAndNew(s) \cup
  (IF s.busy = {s.active} /\ s.dispatched # {} THEN Nothing(s) ELSE {})

\* cfq_should_idle holds for sync queues only, if for any.
MayIdleFor(s, q) == q \in s.sync /\ Of(s, q, s.dispatched) # {}

\* cfq_close_cooperator: the sync queues with a request that may be close.
Cooperators(s, q) ==
  IF q \in s.sync THEN {p \in s.sync \ {q} : ~Empty(s, p)} ELSE {}

\* The active queue is empty, and a queue p works close to it.
Cooperate(s, p) ==
  LET m == IF s.new_cfqq[s.active] = NoCfqq THEN SetupMerge(s, s.active, p)
           ELSE s
  IN {Outcome(SetActive(e, p), p) : e \in Expirations(m)}

\* The active queue is empty, and nobody works close to it.
IdleOrNew(s) ==
  IF s.armed \/ s.firing THEN Nothing(s)
  ELSE CheckGroupIdle(s) \cup
       (IF MayIdleFor(s, s.active) THEN Nothing(s) ELSE {})

\* cfq_slice_used, with nothing that must be dispatched before.
SliceUsed(s) ==
  IF s.slice_new \/ s.must_dispatch THEN {}
  ELSE IF s.busy = {s.active} /\ Empty(s, s.active) /\ MayIdleFor(s, s.active)
  THEN Nothing(s) \cup CheckGroupIdle(s) ELSE CheckGroupIdle(s)

\* cfq_select_queue.
Select(s) ==
  LET q == s.active
  IN IF q = NoCfqq THEN NewQueue(s)
     ELSE IF s.queued = {} THEN Nothing(s)
     ELSE IF s.wait_busy /\ ~Empty(s, q) THEN ExpireAndNew(s)
     ELSE SliceUsed(s) \cup
          (IF ~Empty(s, q) THEN {Outcome(s, q)}
           ELSE IdleOrNew(s) \cup
                UNION {Cooperate(s, p) : p \in Cooperators(s, q)})

\* cfq_may_dispatch refuses a queue only if it may idle while async requests
\* are out, if it is async while sync ones are, or if it has enough out.
MayRefuse(s, q) ==
  LET out(Q) == \E p \in Q : Of(s, p, s.dispatched) # {}
      throttled == q \notin s.sync \/ Cardinality(s.busy \cap s.sync) > 1
  IN /\ ~s.must_dispatch
     /\ \/ q \in s.sync /\ out(Queues \ s.sync)
        \/ q \notin s.sync /\ out(s.sync)
        \/ throttled /\ out({q})

\* cfq_dispatch_request; an async queue with others waiting may expire.
cfq_dispatch_request(s, q, r) ==
  LET t == [s EXCEPT !.queued = @ \ {r}, !.dispatched = @ \cup {r},
                     !.must_dispatch = FALSE]
  IN {t} \cup (IF Cardinality(s.busy) > 1 /\ q \notin s.sync
               THEN Expirations(t) ELSE {})

\* cfq_dispatch_requests for request_fn: one request, or none and it returns.
cfq_dispatch_requests(c) ==
  /\ pc[c] = "run" /\ queue_head = <<>> /\ elv = "attached"
  /\ \E o \in IF cfqd.busy = {} THEN Nothing(cfqd) ELSE Select(cfqd) :
       \/ /\ o.from = NoCfqq \/ MayRefuse(o.s, o.from) \/ Empty(o.s, o.from)
          /\ Step(BugIf(o.from # NoCfqq /\ Empty(o.s, o.from), o.s))
          /\ At(c, "idle") /\ UNCHANGED queue_head
       \/ \E r \in Of(o.s, o.from, o.s.queued) :
            /\ elv_dispatch_sort(r)
            /\ \E t \in cfq_dispatch_request(o.s, o.from, r) : Step(t)
            /\ UNCHANGED pc
  /\ UNCHANGED <<plugged, stale, elv, inflight, issuing>>

\* cfq_forced_dispatch: everything that is queued, queue by queue, each of
\* which is activated and expires; nothing may be left on the list.
Forced(s, seeky) ==
  LET t == DelTimer(s)
      e == IF s.active = NoCfqq THEN s ELSE Expire(s, s.active \in seeky)
  IN BugIf(\E q \in e.busy : Empty(e, q),
       [e EXCEPT !.armed = IF e.busy = {} THEN @ ELSE t.armed,
          !.dispatched = @ \cup s.queued, !.queued = {}, !.busy = {},
          !.coop = [q \in Queues |->
             IF e.coop[q] = "coop" /\ q \in e.busy \cap seeky
             THEN "split" ELSE e.coop[q]]])

cfq_forced_dispatch(c) ==
  /\ pc[c] = "drain" /\ cfqd.busy # {}
  /\ \E seeky \in SUBSET cfqd.busy, rest \in SetToSeqs(cfqd.queued) :
       /\ Step(Forced(cfqd, seeky))
       /\ queue_head' = queue_head \o rest
  /\ UNCHANGED <<plugged, stale, elv, inflight, issuing, pc>>

\* The drain's loop ends with a dispatch that returns 0.
Drained(c) ==
  /\ pc[c] = "drain" /\ cfqd.busy = {}
  /\ DrainTurnEnds(c, cfqd.queued)
  /\ UNCHANGED <<plugged, stale, unplug_work, cfqd>>
  /\ UNCHANGED <<queue_head, inflight, issuing>>

-----------------------------------------------------------------------------
(* The driver.                                                             *)

\* cfq_activate_request, when request_fn first looks at a request.
Activate(r) == cfqd' = [cfqd EXCEPT !.activated = @ \cup {r}]

\* request_fn starts a request and drops the lock to issue it.  When it has
\* the lock again it goes on like anybody who runs the queue (RunUnasked), so
\* the context is idle here.
Start(c) ==
  /\ pc[c] = "run" /\ queue_head # <<>>
  /\ queue_head' = Tail(queue_head)
  /\ inflight' = inflight \cup {Head(queue_head)}
  /\ At(c, "idle")
  /\ UNCHANGED issuing

RequestFn(c) ==
  \/ cfq_dispatch_requests(c)
  \/ /\ elv = "bypass" /\ DeviceBypassed(c)
     /\ UNCHANGED <<frameVars, cfqd>>
  \/ /\ DeviceBusy(c) \/ Start(c)
     /\ Activate(Head(queue_head))
     /\ UNCHANGED frameVars

\* cfq_deactivate_request, when the driver gives a request back.
cfq_deactivate_request(r) ==
  /\ LockFree /\ r \in inflight /\ inflight # {r}
  /\ inflight' = inflight \ {r}
  /\ queue_head' = <<r>> \o queue_head
  /\ cfqd' = [cfqd EXCEPT !.activated = @ \ {r}]
  /\ UNCHANGED <<frameVars, issuing, pc>>

RunUnasked(c) ==
  /\ c \in Tasks /\ elv \in {"attached", "bypass"} /\ RunQueue(c)
  /\ UNCHANGED <<frameVars, cfqd>>

\* cfq_arm_slice_timer, with no request of the active queue outstanding.
ArmSliceTimer(s) ==
  IF Of(s, s.active, s.dispatched) = {}
     /\ (s.active \in s.sync \/ s.busy \subseteq {s.active})
  THEN {[s EXCEPT !.wait_request = TRUE, !.armed = TRUE]} ELSE {}

\* The active queue completes a request: its slice begins with the first one;
\* it may be extended (wait_busy), expire, or be idled for.
SliceGoesOn(s, r) ==
  LET t == [s EXCEPT !.slice_new = FALSE]
      empty == Empty(s, s.active)
      waits == IF empty /\ s.busy \subseteq {s.active}
               THEN {t, [t EXCEPT !.wait_busy = TRUE]} ELSE {t}
  IN UNION {{w} \cup Expirations(w) \cup
            (IF r \in s.rq_sync /\ empty THEN ArmSliceTimer(w) ELSE {}) :
            w \in waits}

\* cfq_completed_request, then cfq_put_request.
cfq_completed_request(r) ==
  /\ DeviceComplete(r)
  /\ LET s == [cfqd EXCEPT !.dispatched = @ \ {r}, !.activated = @ \ {r}]
     IN \E t \in IF s.active = s.own[r] THEN SliceGoesOn(s, r) ELSE {s} :
          Step(PutRequest(
            IF t.activated = {} THEN ScheduleDispatch(t) ELSE t, r))
  /\ UNCHANGED <<plugged, stale, elv>>

-----------------------------------------------------------------------------
(* The timer, the work item, processes that exit, switches.                *)

TimerExpires ==
  /\ cfqd.armed /\ ~cfqd.firing
  /\ cfqd' = [cfqd EXCEPT !.armed = FALSE, !.firing = TRUE]
  /\ UNCHANGED <<frameVars, deviceVars>>

KickAfter(S) == {ScheduleDispatch(s) : s \in S}

\* What cfq_idle_slice_timer makes of the active queue.
TimedOut(s) ==
  IF s.active = NoCfqq \/ s.must_dispatch THEN {ScheduleDispatch(s)}
  ELSE (IF s.slice_new THEN {} ELSE KickAfter(Expirations(s))) \cup
       (IF s.busy = {} THEN {s}
        ELSE IF ~Empty(s, s.active) THEN {ScheduleDispatch(s)}
        ELSE KickAfter(Expirations(s)))

cfq_idle_slice_timer ==
  /\ LockFree /\ cfqd.firing
  /\ \E s \in TimedOut([cfqd EXCEPT !.firing = FALSE]) : Step(s)
  /\ UNCHANGED <<plugged, stale, elv, deviceVars>>

Kick == Kicked /\ UNCHANGED cfqd

cfq_exit_icq(p) ==
  /\ LockFree /\ elv \in {"attached", "bypass"}
  /\ cfqd.cic[p] # NewCfqData.cic[p]
  /\ \E s \in ExitIcq(cfqd, p) : Step(s)
  /\ UNCHANGED <<plugged, stale, elv, deviceVars>>

\* ioc_clear_queue after the drain, one io context at a time.
ClearIcq(p) ==
  /\ LockFree /\ elv = "detached" /\ cfqd.cic[p] # NewCfqData.cic[p]
  /\ \E s \in ExitIcq(cfqd, p) : Step(s)
  /\ UNCHANGED <<plugged, stale, elv, deviceVars>>

\* cfq_exit_queue: timer, callback and work item are waited for; what is left
\* of cfq_data, the pinned async queue included, must be free.
PutPinned(s) ==
  IF s.async_cfqq = NoCfqq THEN s
  ELSE [PutQueue(s, s.async_cfqq) EXCEPT !.async_cfqq = NoCfqq]

cfq_exit_queue ==
  /\ LockFree /\ elv = "detached" /\ pc[Kblockd] = "idle"
  /\ cfqd.cic = NewCfqData.cic /\ ~cfqd.firing
  /\ \E s \in Expirations([cfqd EXCEPT !.armed = FALSE]) : cfqd' = PutPinned(s)
  /\ unplug_work' = FALSE
  /\ elv' = "freed"
  /\ UNCHANGED <<plugged, stale, deviceVars>>

cfq_init_queue ==
  /\ elv = "freed"
  /\ cfqd' = NewCfqData
  /\ elv' = "attached"
  /\ UNCHANGED <<plugged, stale, unplug_work, deviceVars>>

-----------------------------------------------------------------------------
Request(r) ==
  \/ \E p \in Procs, kind \in {"sync", "async"} : cfq_set_request(p, kind, r)
  \/ \E c \in Tasks : cfq_insert_request(c, r) \/ InsertMerged(c, r)
  \/ \E rq \in Requests : cfq_merged_requests(rq, r)
  \/ cfq_completed_request(r) \/ cfq_deactivate_request(r)

Context(c) ==
  \/ RequestFn(c) \/ RunUnasked(c)
  \/ cfq_forced_dispatch(c) \/ Drained(c)
  \/ DrainStart(c) /\ UNCHANGED cfqd

Switch ==
  \/ BypassStart /\ UNCHANGED cfqd
  \/ cfq_exit_queue \/ cfq_init_queue
  \/ \E p \in Procs : cfq_exit_icq(p) \/ ClearIcq(p)

Next ==
  \/ \E r \in Requests : Request(r)
  \/ \E c \in Ctx : Context(c)
  \/ TimerExpires \/ cfq_idle_slice_timer \/ Kick
  \/ Switch

Spec == Init /\ [][Next]_vars

-----------------------------------------------------------------------------
(* Properties.                                                             *)

\* No BUG_ON of cfq fires, however merges, splits, exits of processes,
\* requeues, timers and drains come together: no queue is put more often than
\* it was got, none is freed with requests or on the round-robin list, the
\* dispatched queue is not empty, and the group cfq_choose_cfqg takes exists.
NoBug == ~cfqd.bug

\* References are exact: each process holds one on every queue it uses or is
\* scheduled to be merged into, each request one on its queue, and the group
\* one on the shared async queue, as cfq_data does on oom_cfqq.  One too few
\* frees a queue in use, one too many leaks it.
Holders(s, q) ==
  {x \in Procs \X {"sync", "async"} :
     LET u == s.cic[x[1]][x[2]]
     IN u # NoCfqq /\ q \in Chain(s, u) \cup {u}}

RefsExact ==
  \A q \in Queues :
    cfqd.ref[q] = Cardinality(Holders(cfqd, q))
                  + Cardinality(Allocated(cfqd, q))
                  + (IF q \in {Oom, cfqd.async_cfqq} THEN 1 ELSE 0)

\* The round-robin list has the queues with requests and the active one, and
\* no other: cfq_get_next_queue does not look whether a queue has requests,
\* and cfq_should_idle takes the service tree of the active one for granted.
BusyExactly ==
  cfqd.busy = {q \in Queues : ~Empty(cfqd, q)} \cup ({cfqd.active} \ {NoCfqq})

\* Idling always ends: when requests are queued, a context is inside
\* request_fn, the work item is queued, the idle timer runs, or the driver has
\* a request to start or to complete.
NoStranded ==
  cfqd.queued # {} =>
    \/ \E c \in Ctx : pc[c] # "idle"
    \/ unplug_work \/ cfqd.armed \/ cfqd.firing
    \/ queue_head # <<>> \/ inflight # {} \/ elv = "bypass"

=============================================================================
