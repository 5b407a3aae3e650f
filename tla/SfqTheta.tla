------------------------------ MODULE SfqTheta ------------------------------
(***************************************************************************)
(* launch_sfq.c (THETA), the scheduler that the SFQ experiments end with.  *)
(* One sfq_queue per process, in a ring with its list head; every dispatch *)
(* moves the cursor (os_sfqq) to the next queue and starts a timer of zero *)
(* delay, which kicks.  The list head is not recognised: wrong_sfqq        *)
(* remembers, once, the element after the second queue dispatched from,    *)
(* and the cursor passes over it.  The heap is commented out.              *)
(*                                                                         *)
(* sfq_set_request runs without q->queue_lock; the ring is linked there in *)
(* two writes, after a read of the tail.  The rest runs under the lock.    *)
(***************************************************************************)
EXTENDS KickedElevator

CONSTANTS REQUEST_DEPTH,
          NoSfqq,    \* a NULL pointer to a queue
          MaxSfqq    \* bound on the queues registered between two switches

ASSUME DepthAssumption == REQUEST_DEPTH \in Nat
ASSUME SfqqAssumption == MaxSfqq \in Nat /\ NoSfqq \notin 0 .. MaxSfqq
\* The word behind the list head is no process's pid (Owner).
ASSUME OwnersAssumption == 0 \notin Tasks

VARIABLES
  cur, prev,           \* per task: the request it sets up; the tail it read
  own,                 \* rq->elv.priv[0]
  nxt, tail, pid,      \* the ring: next pointers, head->prev; owners
  pending,             \* the linked requests of all queues, by arrival
  os_sfqq, wrong_sfqq, depth, sfqr_size, chara_locker,
  armed, firing        \* idle_slice_timer is queued; its callback runs

setupVars == <<cur, prev, own, nxt, tail, pid>>
queueVars == <<pending, os_sfqq, wrong_sfqq, depth, sfqr_size, chara_locker>>
vars == <<setupVars, queueVars, armed, firing, frameVars, deviceVars>>

ListHead == 0
Sfqqs == 1 .. MaxSfqq
Elements == 0 .. MaxSfqq

TypeOK ==
  /\ cur \in [Tasks -> Requests \cup {NoReq}] /\ prev \in [Tasks -> Elements]
  /\ own \in [Requests -> Sfqqs \cup {NoSfqq}]
  /\ nxt \in [Elements -> Elements] /\ tail \in Elements
  /\ pid \in Seq(Tasks)
  /\ pending \in Seq(Requests)
  /\ os_sfqq \in Elements \cup {NoSfqq}
  /\ wrong_sfqq \in Elements \cup {NoSfqq}
  /\ depth \in Nat /\ sfqr_size \in Nat
  /\ chara_locker \in BOOLEAN /\ armed \in BOOLEAN /\ firing \in BOOLEAN
  /\ FrameTypeOK({"setup", "link"})

Linked == Range(pending)
SettingUp == Range(cur) \ {NoReq}

EmptyRing == [q \in Elements |-> ListHead]

Init ==
  /\ cur = [p \in Tasks |-> NoReq] /\ prev = [p \in Tasks |-> ListHead]
  /\ own = [r \in Requests |-> NoSfqq]
  /\ nxt = EmptyRing /\ tail = ListHead /\ pid = <<>>
  /\ pending = <<>> /\ os_sfqq = NoSfqq /\ wrong_sfqq = NoSfqq
  /\ depth = 0 /\ sfqr_size = 0 /\ chara_locker = FALSE
  /\ armed = FALSE /\ firing = FALSE
  /\ FrameInit

Unchanging(step) ==
  step /\ UNCHANGED <<setupVars, queueVars, armed, firing>>
OnlyDevice(step) == Unchanging(step) /\ UNCHANGED frameVars

-----------------------------------------------------------------------------
(* sfq_set_request.                                                        *)

\* The k-th element after q.
After(q) == LET nth[k \in Elements] == IF k = 0 THEN q ELSE nxt[nth[k - 1]]
            IN  nth
Visited == Range(After(ListHead)) \ {ListHead}
QueuesOf(p) == {q \in Visited : pid[q] = p}

SetupBegins(p, r) ==
  /\ pc[p] = "idle" /\ elv = "attached"
  /\ r \notin SettingUp \cup OutstandingWith(Linked)
  /\ UNCHANGED <<queueVars, armed, firing, stale, unplug_work>>
  /\ UNCHANGED <<queue_head, inflight, issuing>>

sfq_set_request_known(p, r) ==
  /\ SetupBegins(p, r)
  /\ \E q \in QueuesOf(p) : own' = [own EXCEPT ![r] = q]
  /\ plugged' = plugged \cup {r}
  /\ UNCHANGED <<cur, prev, nxt, tail, pid, pc, elv>>

\* The process has no queue: allocate one, read head->prev.
sfq_set_request_new(p, r) ==
  /\ SetupBegins(p, r)
  /\ QueuesOf(p) = {} /\ Len(pid) < MaxSfqq
  /\ pid' = Append(pid, p)
  /\ own' = [own EXCEPT ![r] = Len(pid) + 1]
  /\ cur' = [cur EXCEPT ![p] = r] /\ prev' = [prev EXCEPT ![p] = tail]
  /\ At(p, "setup")
  /\ UNCHANGED <<nxt, tail, plugged, elv>>

\* The GFP_NOWAIT allocation fails, and start_tag is written to NULL.
sfq_set_request_fails(p, r) ==
  /\ SetupBegins(p, r)
  /\ elv' = "oops"
  /\ UNCHANGED <<setupVars, plugged, pc>>

\* list_add_tail: head->prev and new->next ...
LinkTail(p) ==
  /\ pc[p] = "setup"
  /\ tail' = own[cur[p]]
  /\ nxt' = [nxt EXCEPT ![own[cur[p]]] = ListHead]
  /\ At(p, "link")
  /\ UNCHANGED <<cur, prev, own, pid, queueVars, armed, firing, frameVars>>
  /\ UNCHANGED <<queue_head, inflight, issuing>>

\* ... then prev->next.
LinkPrev(p) ==
  /\ pc[p] = "link"
  /\ nxt' = [nxt EXCEPT ![prev[p]] = own[cur[p]]]
  /\ plugged' = plugged \cup {cur[p]}
  /\ cur' = [cur EXCEPT ![p] = NoReq] /\ prev' = [prev EXCEPT ![p] = ListHead]
  /\ At(p, "idle")
  /\ UNCHANGED <<own, tail, pid, queueVars, armed, firing, stale, unplug_work>>
  /\ UNCHANGED <<elv, queue_head, inflight, issuing>>

-----------------------------------------------------------------------------
(* Insertion by the task whose queue it is.                                *)

PluggedBy(p) == {r \in plugged : pid[own[r]] = p}

CountAddedForgotten == UNCHANGED sfqr_size
CountAdded == sfqr_size' = sfqr_size + 1

sfq_add_request(p, r) ==
  /\ Insert(p, r, PluggedBy(p))
  /\ pending' = Append(pending, r)
  /\ CountAdded
  /\ UNCHANGED <<os_sfqq, wrong_sfqq, depth, chara_locker, stale, unplug_work>>
  /\ UNCHANGED <<setupVars, armed, firing>>

Merge(p, r) ==
  \/ InsertMerge(p, r, PluggedBy(p), Linked)
  \/ \E v \in Requests : MergeLinked(p, r, v, PluggedBy(p), Linked)

-----------------------------------------------------------------------------
(* sfq_dispatch.                                                           *)

\* What is read as the pid of an element: of the list head, a part of the
\* timer behind it, which is nobody's.
Owner(q) == IF q = ListHead THEN ListHead ELSE pid[q]

PassNothing(w, q) == q

\* Behind next_dispatch: move on while the element's pid is that of w.
PassOver(w, q) ==
  After(q)[CHOOSE k \in Elements :
             /\ Owner(After(q)[k]) # Owner(w)
             /\ \A j \in 0 .. k - 1 : Owner(After(q)[j]) = Owner(w)]

\* The first time the element after the next one is remembered.
RememberAfterNext == nxt[nxt[os_sfqq]]
NextWrong == IF wrong_sfqq = NoSfqq THEN RememberAfterNext ELSE wrong_sfqq
NextSfqq ==
  IF wrong_sfqq = NoSfqq THEN PassOver(NextWrong, nxt[nxt[os_sfqq]])
                         ELSE PassOver(wrong_sfqq, nxt[os_sfqq])

First == os_sfqq = NoSfqq
Cursor == IF First THEN nxt[ListHead] ELSE NextSfqq

MoveCursor ==
  /\ os_sfqq' = Cursor
  /\ wrong_sfqq' = IF First THEN wrong_sfqq ELSE NextWrong

NoSfqqYet == First /\ nxt[ListHead] = ListHead
Positions(q) == {i \in DOMAIN pending : own[pending[i]] = q}
Empty == Cursor # ListHead /\ Positions(Cursor) = {}
Skips == ~First /\ Empty
OverDepth == depth > REQUEST_DEPTH

\* Every dispatch starts the timer, one that kicks too.
StartForgotten == armed' = armed
StartTimer == armed' = TRUE

Dispatching ==
  /\ StartTimer
  /\ UNCHANGED <<setupVars, sfqr_size, chara_locker, firing, plugged, stale>>
  /\ UNCHANGED <<inflight, issuing>>

\* Return 0, kicked unless there was nothing to look at.
sfq_dispatch_nothing ==
  /\ \/ NoSfqqYet /\ UNCHANGED <<os_sfqq, wrong_sfqq, unplug_work>>
     \/ ~NoSfqqYet /\ MoveCursor
        /\ \/ Skips /\ KickIf(sfqr_size # 0 /\ chara_locker)
           \/ ~Skips /\ OverDepth /\ KickIf(sfqr_size # 0)
           \/ ~Skips /\ ~OverDepth /\ Empty /\ UNCHANGED unplug_work
  /\ UNCHANGED <<pending, depth, queue_head>>

\* The list head is dispatched from: its "requests" are the counters behind
\* it in sfq_data, read as pointers.
sfq_dispatch_wild ==
  /\ ~NoSfqqYet /\ Cursor = ListHead /\ ~OverDepth
  /\ MoveCursor
  /\ elv' = "oops"
  /\ UNCHANGED <<pending, depth, unplug_work, queue_head>>

sfq_dispatch_one ==
  /\ ~NoSfqqYet /\ Cursor # ListHead /\ ~OverDepth
  /\ \E i \in Positions(Cursor) :
       /\ \A j \in Positions(Cursor) : i <= j
       /\ pending' = Without(pending, i)
       /\ Dispatched(pending[i])
  /\ MoveCursor
  /\ depth' = depth + 1
  /\ UNCHANGED unplug_work

Peek(c) ==
  /\ pc[c] = "run" /\ queue_head = <<>> /\ elv # "bypass"
  /\ Dispatching
  /\ \/ (sfq_dispatch_one \/ sfq_dispatch_wild) /\ UNCHANGED pc
     \/ sfq_dispatch_nothing /\ At(c, "idle") /\ UNCHANGED elv

Drain(c) ==
  /\ pc[c] = "drain"
  /\ Dispatching
  /\ \/ (sfq_dispatch_one \/ sfq_dispatch_wild) /\ UNCHANGED pc
     \/ sfq_dispatch_nothing /\ DrainTurnEnds(c, Linked \cup SettingUp)

-----------------------------------------------------------------------------
(* Completion, the timer and the end.                                      *)

FreeSlotForgotten == UNCHANGED depth
FreeSlot == depth' = depth - 1
KickNever == UNCHANGED <<unplug_work, chara_locker>>
KickIfMore ==
  /\ KickIf(sfqr_size' > 0)
  /\ chara_locker' = (chara_locker \/ sfqr_size' > 0)

\* hrtimer_try_to_cancel gives up on a timer whose callback runs.
sfq_completed(r) ==
  /\ DeviceComplete(r)
  /\ FreeSlot
  /\ armed' = (armed /\ firing)
  /\ sfqr_size' = sfqr_size - 1
  /\ KickIfMore
  /\ UNCHANGED <<setupVars, pending, os_sfqq, wrong_sfqq, firing>>
  /\ UNCHANGED <<plugged, stale, elv>>

\* The callback is a part of sfq_data, too.
TimerExpires ==
  /\ armed /\ ~firing
  /\ armed' = FALSE /\ firing' = TRUE
  /\ elv' = IF elv = "freed" THEN "oops" ELSE elv
  /\ UNCHANGED <<setupVars, queueVars, plugged, stale, unplug_work, deviceVars>>

sfq_idle_slice_timer ==
  /\ firing /\ LockFree
  /\ firing' = FALSE
  /\ KickIf(sfqr_size # 0)
  /\ elv' = IF elv = "freed" THEN "oops" ELSE elv
  /\ UNCHANGED <<setupVars, queueVars, armed, plugged, stale, deviceVars>>

\* cancel_work_sync and kfree; the hrtimer_cancel before is commented out.
sfq_exit_queue ==
  /\ elv = "detached"
  /\ elv' = "freed" /\ unplug_work' = FALSE
  /\ UNCHANGED <<setupVars, queueVars, armed, firing, plugged, stale>>
  /\ UNCHANGED deviceVars

sfq_init_queue ==
  /\ elv = "freed" /\ elv' = "attached"
  /\ ~armed /\ ~firing
  /\ own' = [r \in Requests |-> NoSfqq]
  /\ nxt' = EmptyRing /\ tail' = ListHead /\ pid' = <<>>
  /\ pending' = <<>> /\ os_sfqq' = NoSfqq /\ wrong_sfqq' = NoSfqq
  /\ depth' = 0 /\ sfqr_size' = 0 /\ chara_locker' = FALSE
  /\ UNCHANGED <<cur, prev, armed, firing, plugged, stale, unplug_work>>
  /\ UNCHANGED deviceVars

-----------------------------------------------------------------------------
SetUp(p, r) ==
  \/ sfq_set_request_known(p, r) \/ sfq_set_request_new(p, r)
  \/ sfq_set_request_fails(p, r)
Register(p) == LinkTail(p) \/ LinkPrev(p)
Flush(p, r) ==
  sfq_add_request(p, r) \/ (Unchanging(Merge(p, r)) /\ UNCHANGED unplug_work)
RequestFn(c) ==
  \/ Peek(c)
  \/ elv = "bypass" /\ OnlyDevice(DeviceBypassed(c))
  \/ OnlyDevice(DeviceBusy(c) \/ DeviceStart(c))
Issued(c) == OnlyDevice(DeviceIssued(c))
Unasked(c) ==
  \/ OnlyDevice(DeviceRequeue(c))
  \/ elv \in {"attached", "bypass"} /\ OnlyDevice(RunQueue(c))
Switch ==
  \/ Unchanging(BypassStart) \/ Unchanging(KickSuccessor)
  \/ sfq_exit_queue \/ sfq_init_queue
  \/ \E c \in Ctx : Unchanging(DrainStart(c)) \/ Drain(c)

Next ==
  /\ elv # "oops"
  /\ \/ \E p \in Tasks, r \in Requests : SetUp(p, r) \/ Flush(p, r)
     \/ \E p \in Tasks : Register(p)
     \/ \E c \in Ctx : RequestFn(c) \/ Issued(c) \/ Unasked(c)
     \/ \E r \in Requests : sfq_completed(r)
     \/ Unchanging(kick_queue) \/ TimerExpires \/ sfq_idle_slice_timer
     \/ Switch

(* As in SfqBeta.  A queue found empty is not kicked for before a first     *)
(* completion left something outstanding: the timer is relied on.           *)
Fairness ==
  /\ WF_vars(\E c \in Ctx : RequestFn(c) \/ Drain(c))
  /\ WF_vars(\E p \in Tasks : Register(p))
  /\ SF_vars(\E c \in Ctx : Issued(c))
  /\ SF_vars(\E p \in Tasks, r \in Requests : Flush(p, r))
  /\ SF_vars(\E r \in Requests : sfq_completed(r))
  /\ SF_vars(Unchanging(kick_queue))
  /\ SF_vars(\E c \in Ctx : Unchanging(DrainStart(c)))
  /\ WF_vars(TimerExpires) /\ SF_vars(sfq_idle_slice_timer)

\* No process begins to register while another one does.
Registering == {p \in Tasks : pc[p] \in {"setup", "link"}}
OneRegisters == Cardinality(Registering') <= 1

\* Between two switches no request is used twice: a finite workload.
NoReuse ==
  /\ \A r \in Requests \ SettingUp : r \in SettingUp' => own[r] = NoSfqq
  /\ \A r \in plugged' \ plugged : r \in SettingUp \/ own[r] = NoSfqq

SafeSpec == Init /\ [][Next]_vars
SingleSpec == Init /\ [][Next /\ OneRegisters]_vars

-----------------------------------------------------------------------------
(* Properties.                                                             *)

\* The device holds depth requests, REQUEST_DEPTH + 1 at the most, and
\* sfqr_size counts every request not yet completed: whatever registrations
\* race and wherever the cursor is.
CountsExact ==
  /\ depth = Held /\ depth <= REQUEST_DEPTH + 1
  /\ sfqr_size = Len(pending) + Held

\* No lost kick.  The cursor stops at an empty queue while others wait, and
\* that returns 0 often without a kick: then the timer is running.  A
\* completion cancels it, and kicks.
NoStranded ==
  pending # <<>> \/ queue_head # <<>> =>
    \/ \E c \in Ctx : pc[c] \in {"flush", "run", "issue", "drain"}
    \/ unplug_work \/ armed \/ firing
    \/ inflight # {} \/ elv = "bypass"
    \/ elv = "oops"

\* Once wrong_sfqq is the list head the cursor never stops there again,
\* whoever registers later and however registrations race: the "requests" of
\* the head, which are other fields of sfq_data, are not dispatched.
HeadPassedOver == wrong_sfqq = ListHead => os_sfqq # ListHead

\* Processes that stop submitting get everything they submitted, unless
\* wrong_sfqq is one of the queues, which the cursor then passes over.
BacklogDrains ==
  pending # <<>> ~>
    \/ Linked \cup Range(queue_head) \cup inflight = {}
    \/ wrong_sfqq \in Sfqqs
    \/ elv = "oops"
=============================================================================
