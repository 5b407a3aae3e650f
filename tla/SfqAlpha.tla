------------------------------ MODULE SfqAlpha ------------------------------
(***************************************************************************)
(* ssd_scheduler_alpha/sfq-shed_16_array_limit.c (ALPHA): one array heap   *)
(* of all requests, ordered by start tag; the tags advance with the finish *)
(* tag of the array's last element.  sfq_set_request reads the array and   *)
(* writes virtual_time without q->queue_lock, so it is split at each       *)
(* access.  Tags are counted in units of REQUEST_LENGTH / REQUEST_WEIGHT.  *)
(***************************************************************************)
EXTENDS KickedElevator, Heapify

CONSTANTS REQUEST_DEPTH,
          MaxTag    \* no request is set up once virtual_time is MaxTag

ASSUME DepthAssumption == REQUEST_DEPTH \in Nat \ {0}
ASSUME MaxTagAssumption == MaxTag \in Nat

VARIABLES
  requests,             \* requests[0 .. size-1], a node per request
  start_tag,            \* of each request's node
  virtual_time, depth,
  cur,                  \* per task: the request it is setting up
  latest_finish_tag     \* per task

arrayVars == <<requests, start_tag, virtual_time, depth, cur, latest_finish_tag>>
alphaVars == <<arrayVars, frameVars, deviceVars>>

AlphaTypeOK ==
  /\ requests \in Seq(Requests)
  /\ start_tag \in [Requests -> Nat]
  /\ virtual_time \in Nat /\ depth \in Nat
  /\ cur \in [Tasks -> Requests \cup {NoReq}]
  /\ latest_finish_tag \in [Tasks -> Nat]
  /\ FrameTypeOK({"last", "compare", "advance", "tag"})

InArray == Range(requests)
SettingUp == Range(cur) \ {NoReq}
finish_tag(r) == start_tag[r] + 1

AlphaInit ==
  /\ requests = <<>> /\ start_tag = [r \in Requests |-> 0]
  /\ virtual_time = 0 /\ depth = 0
  /\ cur = [p \in Tasks |-> NoReq]
  /\ latest_finish_tag = [p \in Tasks |-> 0]
  /\ FrameInit

KeepingArray(step) == step /\ UNCHANGED arrayVars
DeviceAlone(step) == KeepingArray(step) /\ UNCHANGED frameVars

-----------------------------------------------------------------------------
(* sfq_set_request.                                                        *)

\* With no request queued the tag is the virtual time as it is.
sfq_set_request(p, r) ==
  /\ pc[p] = "idle" /\ elv = "attached" /\ virtual_time < MaxTag
  /\ r \notin SettingUp \cup OutstandingWith(InArray)
  /\ cur' = [cur EXCEPT ![p] = r]
  /\ start_tag' = [start_tag EXCEPT ![r] = virtual_time]
  /\ At(p, IF requests = <<>> THEN "tag" ELSE "last")
  /\ UNCHANGED <<requests, virtual_time, depth, latest_finish_tag, frameVars>>
  /\ UNCHANGED <<queue_head, inflight, issuing>>

\* requests[size-1], unless the array has been emptied meanwhile, or size
\* counts an element that sfq_add_request has not written yet.
ReadLast(p) ==
  /\ pc[p] = "last"
  /\ \/ /\ requests # <<>>
        /\ latest_finish_tag' = [latest_finish_tag EXCEPT
             ![p] = finish_tag(requests[Len(requests)])]
        /\ At(p, "compare")
        /\ UNCHANGED elv
     \/ /\ requests = <<>> \/ plugged # {}
        /\ elv' = "oops"
        /\ UNCHANGED <<latest_finish_tag, pc>>
  /\ UNCHANGED <<requests, start_tag, virtual_time, depth, cur>>
  /\ UNCHANGED <<plugged, stale, unplug_work, queue_head, inflight, issuing>>

TagIsOther(p) == virtual_time # latest_finish_tag[p]
TagIsNewer(p) == virtual_time < latest_finish_tag[p]

CompareTags(p) ==
  /\ pc[p] = "compare"
  /\ At(p, IF TagIsNewer(p) THEN "advance" ELSE "tag")
  /\ UNCHANGED <<arrayVars, frameVars, queue_head, inflight, issuing>>

AdvanceTime(p) ==
  /\ pc[p] = "advance"
  /\ virtual_time' = latest_finish_tag[p]
  /\ At(p, "tag")
  /\ UNCHANGED <<requests, start_tag, depth, cur, latest_finish_tag, frameVars>>
  /\ UNCHANGED <<queue_head, inflight, issuing>>

AssignTags(p) ==
  /\ pc[p] = "tag"
  /\ start_tag' = [start_tag EXCEPT ![cur[p]] = virtual_time]
  /\ plugged' = plugged \cup {cur[p]}
  /\ cur' = [cur EXCEPT ![p] = NoReq]
  /\ At(p, "idle")
  /\ UNCHANGED <<requests, virtual_time, depth, latest_finish_tag>>
  /\ UNCHANGED <<stale, unplug_work, elv, queue_head, inflight, issuing>>

-----------------------------------------------------------------------------
sfq_add_request(p, r) ==
  /\ Insert(p, r, plugged)
  /\ requests' = insertNode(requests, r, start_tag)
  /\ UNCHANGED <<start_tag, virtual_time, depth, cur, latest_finish_tag>>
  /\ UNCHANGED <<stale, unplug_work>>

\* sfq_put_request of a request that a merge absorbed; no node is freed.
MergeAway(p, r) ==
  /\ \/ InsertMerge(p, r, plugged, InArray)
     \/ \E v \in Requests : MergeLinked(p, r, v, plugged, InArray)
  /\ KickIf(depth > 0)
  /\ UNCHANGED arrayVars

FullAtDepth == depth >= REQUEST_DEPTH
Full == depth > REQUEST_DEPTH

TakeSlotForgotten == UNCHANGED depth
TakeSlot == depth' = depth + 1

sfq_dispatch ==
  /\ requests # <<>> /\ ~Full
  /\ requests' = deleteNode(requests, start_tag)
  /\ Dispatched(requests[1])
  /\ TakeSlot

sfq_dispatch_nothing ==
  /\ requests = <<>> \/ Full
  /\ UNCHANGED <<requests, depth, queue_head>>

Asked ==
  /\ UNCHANGED <<start_tag, virtual_time, cur, latest_finish_tag>>
  /\ UNCHANGED <<plugged, stale, unplug_work, inflight, issuing>>

PeekArray(c) ==
  /\ pc[c] = "run" /\ queue_head = <<>> /\ elv # "bypass" /\ Asked
  /\ \/ sfq_dispatch /\ UNCHANGED pc
     \/ sfq_dispatch_nothing /\ At(c, "idle") /\ UNCHANGED elv

DrainArray(c) ==
  /\ pc[c] = "drain" /\ Asked
  /\ \/ sfq_dispatch /\ UNCHANGED pc
     \/ sfq_dispatch_nothing /\ DrainTurnEnds(c, InArray \cup SettingUp)

\* sfq_completed, and sfq_put_request when the request is freed at once.
FreeSlotForgotten == UNCHANGED depth
FreeSlot == depth' = depth - 1
sfq_completed(r) ==
  /\ DeviceComplete(r)
  /\ FreeSlot
  /\ KickIf(depth' > 0)
  /\ UNCHANGED <<requests, start_tag, virtual_time, cur, latest_finish_tag>>
  /\ UNCHANGED <<plugged, stale, elv>>

\* Only kfree(nd): the array and the work item are left.
sfq_exit_queue ==
  /\ elv = "detached" /\ elv' = "freed"
  /\ UNCHANGED <<arrayVars, plugged, stale, unplug_work, deviceVars>>

\* Another work item, not queued; the freed one may still be, and is shown
\* to run before this step if it ever does (KickAfterFree).
sfq_init_queue ==
  /\ elv = "freed" /\ elv' = "attached" /\ unplug_work' = FALSE
  /\ requests' = <<>> /\ virtual_time' = 0 /\ depth' = 0
  /\ UNCHANGED <<start_tag, cur, latest_finish_tag>>
  /\ UNCHANGED <<plugged, stale, deviceVars>>

-----------------------------------------------------------------------------
AlphaSetUp(p) ==
  \/ \E r \in Requests : sfq_set_request(p, r)
  \/ ReadLast(p) \/ CompareTags(p) \/ AdvanceTime(p) \/ AssignTags(p)
AlphaRequestFn(c) ==
  \/ PeekArray(c)
  \/ elv = "bypass" /\ DeviceAlone(DeviceBypassed(c))
  \/ DeviceAlone(DeviceBusy(c) \/ DeviceStart(c))
Issued(c) == DeviceAlone(DeviceIssued(c))
Unasked(c) ==
  \/ DeviceAlone(DeviceRequeue(c))
  \/ elv \in {"attached", "bypass"} /\ DeviceAlone(RunQueue(c))
Switch ==
  \/ KeepingArray(BypassStart) \/ sfq_exit_queue \/ sfq_init_queue
  \/ \E c \in Ctx : KeepingArray(DrainStart(c)) \/ DrainArray(c)

AlphaNext ==
  /\ elv # "oops"
  /\ \/ \E p \in Tasks : AlphaSetUp(p)
     \/ \E p \in Tasks, r \in Requests : sfq_add_request(p, r) \/ MergeAway(p, r)
     \/ \E c \in Ctx : AlphaRequestFn(c) \/ Issued(c) \/ Unasked(c)
     \/ \E r \in Requests : sfq_completed(r)
     \/ KeepingArray(Kicked)
     \/ Switch

AlphaSpec == AlphaInit /\ [][AlphaNext]_alphaVars

-----------------------------------------------------------------------------
(* Properties.                                                             *)

\* "dispatch the request with the smallest start_tag"
\* (ssd_scheduler_alpha/README.md:192), and lose no other one.
DispatchesLeast ==
  [][depth' > depth =>
       \E r \in InArray : /\ InArray' = InArray \ {r}
                          /\ Len(requests') = Len(requests) - 1
                          /\ \A s \in InArray : start_tag[r] <= start_tag[s]]_alphaVars

\* depth is the number of requests the device holds, at most one too many.
DepthExact == depth = Held /\ depth <= REQUEST_DEPTH + 1

\* No lost kick: neither sfq_completed nor sfq_put_request kicks after the
\* last completion, but two requests are out when one is held back.
NoStranded ==
  requests # <<>> \/ queue_head # <<>> =>
    \/ \E c \in Ctx : pc[c] \in {"flush", "run", "issue", "drain"}
    \/ unplug_work \/ inflight # {} \/ elv = "bypass"
    \/ elv = "oops"
=============================================================================
