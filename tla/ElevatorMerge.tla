---------------------------- MODULE ElevatorMerge ----------------------------
(***************************************************************************)
(* elevator_experiment/elevator.c between submission and driver: the merge *)
(* hash and the one-hit cache, insertion, the driver's list with its       *)
(* barriers and its scheduling boundary, over the kernel's own noop        *)
(* (noop_experiment/noop-iosched.c).  BlockDevice leaves the order of the  *)
(* driver's list open; here it is what elv_dispatch_sort makes it.         *)
(*                                                                         *)
(* Every step is one critical section of q->queue_lock, the loop of        *)
(* elv_attempt_insert_merge aside (joining).  The flags of a request are   *)
(* sets: soft, started, nomerge for REQ_SOFTBARRIER, REQ_STARTED and       *)
(* REQ_NOMERGE; a request in queue is the one with REQ_SORTED that counts. *)
(***************************************************************************)
EXTENDS Integers, Sequences, FiniteSets, SequencesExt

CONSTANTS Requests,    \* struct requests, recycled when freed
          NoReq,
          Sectors,     \* requests begin at 0 .. Sectors - 1
          MaxSectors   \* limit of the queue on the size of a request

ASSUME SectorsAssumption ==
  Sectors \in Nat \ {0} /\ MaxSectors \in Nat \ {0} /\ NoReq \notin Requests

VARIABLES
  rq,            \* [pos, end, dir]; dir is "pc" for a command to the device
  plug,          \* set up, not inserted
  queue,         \* noop's list
  queue_head, end_sector, boundary_rq,
  soft, started, nomerge,
  nr_sorted,
  hash,          \* the end under which a request is hashed, or NotHashed
  last_merge,
  joining,       \* what elv_attempt_insert_merge tries next
  fences, behind \* history: waiting BACK insertions; <<a, b>>: a fence, b it
                 \* or a request on the other side, a inserted first

mergeVars == <<hash, last_merge, nr_sorted>>
driverVars == <<queue_head, end_sector, boundary_rq, soft, started>>
mergingVars == <<rq, plug, queue, driverVars, nomerge, mergeVars, joining, fences, behind>>

NotHashed == 0
Free == [pos |-> 0, end |-> 0, dir |-> "free"]
Waiting == queue_head \o queue
Queued == Range(Waiting)
OnDevice == {r \in Requests : rq[r].dir # "free"} \ (plug \cup Queued)

MergingInit ==
  /\ rq = [r \in Requests |-> Free]
  /\ plug = {} /\ queue = <<>> /\ queue_head = <<>>
  /\ end_sector = 0 /\ boundary_rq = NoReq
  /\ soft = {} /\ started = {} /\ nomerge = {}
  /\ nr_sorted = 0 /\ hash = [r \in Requests |-> NotHashed]
  /\ last_merge = NoReq /\ joining = NoReq
  /\ fences = {} /\ behind = {}

Mergeable(r) ==
  rq[r].dir \in {"read", "write"} /\ r \notin soft \cup started \cup nomerge

-----------------------------------------------------------------------------
(* The hash.  Lookups also unhash what is no longer mergeable on their way, *)
(* which depends on the bucket: Swept.                                     *)

Unhashed(h, r) == [h EXCEPT ![r] = NotHashed]
Reposition(h, r, end) == [h EXCEPT ![r] = end]

Finds(v, sector) == hash[v] = sector /\ rq[v].end = sector /\ Mergeable(v)

Swept == {r \in Requests : hash[r] # NotHashed /\ ~Mergeable(r)}
Sweep ==
  \E gone \in SUBSET Swept :
    hash' = [r \in Requests |-> IF r \in gone THEN NotHashed ELSE hash[r]]

\* attempt_merge: next continues v and the two are not too large.
Joins(g, v, next) ==
  /\ v # next /\ Mergeable(v) /\ Mergeable(next)
  /\ g[v].dir = g[next].dir /\ g[v].end = g[next].pos
  /\ g[next].end - g[v].pos <= MaxSectors

\* What merges into v comes after the fences that wait.
Fenced(v) == {<<b, v>> : b \in fences}
Inherited(next, v) ==
  LET As(r) == IF r = next THEN v ELSE r
  IN  {<<As(p[1]), As(p[2])>> : p \in behind}

\* g is rq, with the bio that has made the two meet.
elv_merge_requests(g, v, next) ==
  /\ rq' = [g EXCEPT ![v].end = g[next].end, ![next] = Free]
  /\ hash' = Unhashed(Reposition(hash, v, g[next].end), next)
  /\ queue' = RemoveFirst(queue, next)               \* noop_merged_requests
  /\ nr_sorted' = IF next \in plug THEN nr_sorted ELSE nr_sorted - 1
  /\ plug' = plug \ {next}
  /\ nomerge' = nomerge \ {next}
  /\ last_merge' = v
  /\ behind' = Inherited(next, v) \cup Fenced(v)
  /\ UNCHANGED <<driverVars, fences>>

\* hashed: where v is hashed when the bio extends it at that end.
elv_merged_request(g, v, hashed) ==
  /\ rq' = g
  /\ hash' = hashed
  /\ last_merge' = v
  /\ behind' = behind \cup Fenced(v)
  /\ UNCHANGED <<plug, queue, driverVars, nomerge, nr_sorted, fences>>

-----------------------------------------------------------------------------
(* A bio of one sector.                                                    *)

Grown(v) == rq[v].end - rq[v].pos < MaxSectors
OneHit(v) == v = last_merge /\ Mergeable(v)

\* noop_former_request and noop_latter_request.
Latter(v, next) == \E i \in 1 .. Len(queue) - 1 : queue[i] = v /\ queue[i + 1] = next

BackMerge(v) ==
  LET g == [rq EXCEPT ![v].end = @ + 1]
      meets == {next \in Requests : Latter(v, next) /\ Joins(g, v, next)}
  IN  /\ OneHit(v) \/ Finds(v, rq[v].end)
      /\ Grown(v) /\ rq[v].end < Sectors
      /\ \/ meets = {} /\ elv_merged_request(g, v, Reposition(hash, v, g[v].end))
         \/ \E next \in meets : elv_merge_requests(g, v, next)

FrontMerge(v) ==
  LET g == [rq EXCEPT ![v].pos = @ - 1]
      meets == {prev \in Requests : Latter(prev, v) /\ Joins(g, prev, v)}
  IN  /\ OneHit(v)
      /\ Grown(v) /\ rq[v].pos > 0
      /\ \/ meets = {} /\ elv_merged_request(g, v, hash)
         \/ \E prev \in meets : elv_merge_requests(g, prev, v)

\* A bio, of any sector, does not fit: the request takes no more
\* (req_set_nomerge).
TooLarge(v) ==
  /\ OneHit(v) \/ Finds(v, rq[v].end)
  /\ ~Grown(v)
  /\ nomerge' = nomerge \cup {v}
  /\ last_merge' = IF last_merge = v THEN NoReq ELSE last_merge
  /\ UNCHANGED <<rq, plug, queue, driverVars, nr_sorted, hash, fences, behind>>

BioMerge == joining' = joining /\ \E v \in Range(queue) :
  BackMerge(v) \/ FrontMerge(v) \/ TooLarge(v)

\* No merge: the settings of the queue forbid it, or nothing fits.
GetRequest(r, pos, dir) ==
  /\ rq[r].dir = "free"
  /\ rq' = [rq EXCEPT ![r] = [pos |-> pos, end |-> pos + 1, dir |-> dir]]
  /\ plug' = plug \cup {r}
  /\ Sweep
  /\ UNCHANGED <<queue, driverVars, nomerge, nr_sorted, last_merge,
                 joining, fences, behind>>

-----------------------------------------------------------------------------
(* The driver's list.                                                      *)

\* The one-way elevator: up from the boundary, then up to the boundary.
After(r, p) ==
  LET ahead(v) == rq[v].pos >= end_sector
  IN  \/ ahead(p) /\ ~ahead(r)
      \/ ahead(p) = ahead(r) /\ rq[r].pos >= rq[p].pos

StopsAtStarted(p, r) == rq[p].dir # rq[r].dir \/ p \in started \/ After(r, p)

\* elv_dispatch_sort, going backwards, does not pass p with r.
Stops(p, r) == rq[p].dir # rq[r].dir \/ p \in soft \cup started \/ After(r, p)

Sorted(list, r) ==
  InsertAt(list, Max({0} \cup {i \in DOMAIN list : Stops(list[i], r)}) + 1, r)

\* elv_dispatch_sort of each request in taken, in noop's order.
SortedIn(list, taken) ==
  LET list_after[k \in 0 .. Len(taken)] ==
        IF k = 0 THEN list ELSE Sorted(list_after[k - 1], taken[k])
  IN  list_after[Len(taken)]

CacheKept(taken) == last_merge
CacheWithout(taken) == IF last_merge \in taken THEN NoReq ELSE last_merge

Dispatched(taken) ==
  /\ queue_head' = SortedIn(queue_head, taken)
  /\ hash' = [r \in Requests |-> IF r \in Range(taken) THEN NotHashed ELSE hash[r]]
  /\ last_merge' = CacheWithout(Range(taken))
  /\ nr_sorted' = nr_sorted - Len(taken)

\* The driver asks when its list is empty; a drain asks until the answer is 0.
noop_dispatch ==
  /\ queue_head = <<>> /\ queue # <<>>
  /\ Dispatched(<<Head(queue)>>)
  /\ queue' = Tail(queue)
  /\ UNCHANGED <<rq, plug, end_sector, boundary_rq, soft, started, nomerge,
                 joining, fences, behind>>

elv_drain_elevator ==
  /\ queue # <<>>
  /\ Dispatched(queue)
  /\ queue' = <<>>
  /\ UNCHANGED <<rq, plug, end_sector, boundary_rq, soft, started, nomerge,
                 joining, fences, behind>>

-----------------------------------------------------------------------------
(* __elv_add_request.                                                      *)

InsertFront(r) ==
  /\ r \in plug /\ rq[r].dir = "pc"
  /\ plug' = plug \ {r}
  /\ soft' = soft \cup {r}
  /\ queue_head' = <<r>> \o queue_head
  /\ UNCHANGED <<rq, queue, end_sector, boundary_rq, started, nomerge, mergeVars,
                 joining, fences, behind>>

\* A command, or a request that was set up without elevator data.
InsertBack(r) ==
  /\ r \in plug
  /\ plug' = plug \ {r}
  /\ soft' = soft \cup {r}
  /\ queue_head' = Append(SortedIn(queue_head, queue), r)
  /\ queue' = <<>>
  /\ hash' = [v \in Requests |-> IF v \in Range(queue) THEN NotHashed ELSE hash[v]]
  /\ last_merge' = CacheWithout(Range(queue))
  /\ nr_sorted' = nr_sorted - Len(queue)
  /\ fences' = fences \cup {r}
  /\ behind' = behind \cup {<<v, r>> : v \in Queued}
  /\ UNCHANGED <<rq, end_sector, boundary_rq, started, nomerge, joining>>

InsertSort(r) ==
  /\ r \in plug /\ rq[r].dir # "pc"
  /\ plug' = plug \ {r}
  /\ nr_sorted' = nr_sorted + 1
  /\ hash' = Reposition(hash, r, rq[r].end)
  /\ last_merge' = IF last_merge = NoReq THEN r ELSE last_merge
  /\ queue' = Append(queue, r)                         \* noop_add_request
  /\ behind' = behind \cup Fenced(r)
  /\ UNCHANGED <<rq, driverVars, nomerge, joining, fences>>

\* elv_attempt_insert_merge: the one-hit cache, or the hash ...
InsertMerge(r) ==
  /\ r \in plug
  /\ \/ last_merge # NoReq /\ Joins(rq, last_merge, r)
        /\ elv_merge_requests(rq, last_merge, r)
        /\ UNCHANGED joining
     \/ \E v \in Requests :
          /\ last_merge # NoReq => ~Joins(rq, last_merge, r)
          /\ Finds(v, rq[r].pos) /\ Joins(rq, v, r)
          /\ elv_merge_requests(rq, v, r)
          /\ joining' = v

\* ... and the request that has grown may continue another one.
MergeAgain ==
  \E v \in Requests :
    /\ Finds(v, rq[joining].pos) /\ Joins(rq, v, joining)
    /\ elv_merge_requests(rq, v, joining)
    /\ joining' = v

MergeEnds ==
  /\ \A v \in Requests : Finds(v, rq[joining].pos) => ~Joins(rq, v, joining)
  /\ joining' = NoReq
  /\ Sweep
  /\ UNCHANGED <<rq, plug, queue, driverVars, nomerge, nr_sorted, last_merge,
                 fences, behind>>

-----------------------------------------------------------------------------
(* The driver.                                                             *)

\* blk_peek_request; the end of a command may be any sector.
Peek(r) ==
  /\ queue_head # <<>> /\ r = Head(queue_head) /\ r \notin started
  /\ started' = started \cup {r}
  /\ \/ /\ boundary_rq \in {NoReq, r} /\ boundary_rq' = NoReq
        /\ end_sector' \in IF rq[r].dir = "pc" THEN 0 .. Sectors ELSE {rq[r].end}
     \/ boundary_rq \notin {NoReq, r} /\ UNCHANGED <<boundary_rq, end_sector>>
  /\ UNCHANGED <<rq, plug, queue, queue_head, soft, nomerge, mergeVars,
                 joining, fences, behind>>

Start(r) ==
  /\ queue_head # <<>> /\ r = Head(queue_head) /\ r \in started
  /\ queue_head' = Tail(queue_head)
  /\ fences' = fences \ {r}
  /\ behind' = {p \in behind : p[1] # r}
  /\ UNCHANGED <<rq, plug, queue, end_sector, boundary_rq, soft, started, nomerge,
                 mergeVars, joining>>

\* A barrier that is queued again moves the boundary.
elv_requeue_request(r) ==
  /\ r \in OnDevice
  /\ started' = started \ {r}
  /\ soft' = soft \cup {r}
  /\ queue_head' = <<r>> \o queue_head
  /\ IF r \in soft /\ rq[r].dir # "pc"
       THEN end_sector' = rq[r].end /\ boundary_rq' = r
       ELSE UNCHANGED <<end_sector, boundary_rq>>
  /\ UNCHANGED <<rq, plug, queue, nomerge, mergeVars, joining, fences, behind>>

Complete(r) ==
  /\ r \in OnDevice
  /\ rq' = [rq EXCEPT ![r] = Free]
  /\ soft' = soft \ {r} /\ started' = started \ {r} /\ nomerge' = nomerge \ {r}
  /\ UNCHANGED <<plug, queue, queue_head, end_sector, boundary_rq, mergeVars,
                 joining, fences, behind>>

-----------------------------------------------------------------------------
Submit(r) ==
  \/ \E pos \in 0 .. Sectors - 1, dir \in {"read", "write"} : GetRequest(r, pos, dir)
  \/ GetRequest(r, 0, "pc")
Insert(r) == InsertFront(r) \/ InsertBack(r) \/ InsertSort(r) \/ InsertMerge(r)
Driver(r) == Peek(r) \/ Start(r) \/ elv_requeue_request(r) \/ Complete(r)

MergingNext ==
  \/ /\ joining = NoReq
     /\ \/ BioMerge \/ noop_dispatch \/ elv_drain_elevator
        \/ \E r \in Requests : Submit(r) \/ Insert(r) \/ Driver(r)
  \/ joining # NoReq /\ (MergeAgain \/ MergeEnds)

MergingSpec == MergingInit /\ [][MergingNext]_mergingVars

-----------------------------------------------------------------------------
(* Properties.                                                             *)

\* What a later bio is merged into is found through the hash and last_merge:
\* both name requests in the elevator only, never one that was dispatched,
\* absorbed or freed; the hash files each under the sector it now ends at; and
\* nr_sorted counts them, so that "forced dispatching is broken"
\* (elevator.c:585) is never said of noop.
MergeStateAgrees ==
  /\ nr_sorted = Len(queue)
  /\ last_merge # NoReq => last_merge \in Range(queue)
  /\ \A r \in Requests : hash[r] # NotHashed => r \in Range(queue) /\ hash[r] = rq[r].end
  /\ \A r \in Range(queue) : Mergeable(r) => hash[r] # NotHashed
  /\ boundary_rq # NoReq => boundary_rq \in Range(queue_head)

\* A request inserted at the back is a fence, "barriers are scheduling
\* boundary" (elevator.c:602): what was queued before it, and what its bios
\* were merged into since, stays ahead; what was queued or merged later stays
\* behind, until the driver has taken the earlier one.
BackIsFence ==
  \A p \in behind :
    \E i, j \in DOMAIN Waiting : i < j /\ Waiting[i] = p[1] /\ Waiting[j] = p[2]
=============================================================================
