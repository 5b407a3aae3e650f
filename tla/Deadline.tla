------------------------------ MODULE Deadline ------------------------------
(***************************************************************************)
(* deadline_experiment/deadline_example.c: two FIFOs and two trees sorted  *)
(* by sector hold the waiting reads and writes; requests that follow one   *)
(* another in a tree are dispatched in batches.  deadline_dispatch_requests*)
(* answers 0 even when it dispatched, nothing kicks, and asked when        *)
(* nothing waits it follows pointers that were never set.  A bio merged in *)
(* front of a linked request lowers its sector, and the file has no        *)
(* elevator_merged_fn that would move it in its tree.                      *)
(***************************************************************************)
EXTENDS KickedElevator

CONSTANTS Sectors,
          fifo_batch, writes_starved

ASSUME SectorsAssumption == Sectors \subseteq Int
ASSUME BatchAssumption == fifo_batch \in Nat \ {0} /\ writes_starved \in Nat

VARIABLES
  dir, pos,               \* of each request: READ or WRITE, its first sector
  fifo_list, sort_list,   \* the waiting requests by arrival and by sector
  next_rq, batching, starved,
  passed                  \* history: reads dispatched while a write waits

ownVars ==
  <<dir, pos, fifo_list, sort_list, next_rq, batching, starved, passed>>
vars == <<ownVars, frameVars, deviceVars>>

READ == "READ"
WRITE == "WRITE"
Dirs == {READ, WRITE}

TypeOK ==
  /\ dir \in [Requests -> Dirs] /\ pos \in [Requests -> Sectors]
  /\ fifo_list \in [Dirs -> Seq(Requests)]
  /\ sort_list \in [Dirs -> Seq(Requests)]
  /\ next_rq \in [Dirs -> Requests \cup {NoReq}]
  /\ batching \in 0 .. fifo_batch /\ starved \in Nat /\ passed \in Nat
  /\ FrameTypeOK({})

Linked == Range(fifo_list[READ]) \cup Range(fifo_list[WRITE])

Init ==
  /\ dir = [r \in Requests |-> READ]
  /\ pos \in {[r \in Requests |-> s] : s \in Sectors}
  /\ fifo_list = [d \in Dirs |-> <<>>] /\ sort_list = [d \in Dirs |-> <<>>]
  /\ next_rq = [d \in Dirs |-> NoReq]
  /\ batching = 0 /\ starved = 0 /\ passed = 0
  /\ FrameInit

Unchanging(step) == step /\ UNCHANGED ownVars
OnlyDevice(step) == Unchanging(step) /\ UNCHANGED frameVars

\* A request gets its direction and sector when it is set up.
SetUp(r) ==
  /\ GetRequest(r, Linked)
  /\ \E d \in Dirs, s \in Sectors :
       dir' = [dir EXCEPT ![r] = d] /\ pos' = [pos EXCEPT ![r] = s]
  /\ UNCHANGED <<fifo_list, sort_list, next_rq, batching, starved, passed>>

-----------------------------------------------------------------------------
\* Where a descent that compares r with the nodes it meets can end: r went to
\* the right of its neighbour before place i and to the left of the one after.
Descents(tree, r, right(_), left(_)) ==
  {i \in 1 .. Len(tree) + 1 :
     /\ i > 1 => right(tree[i - 1])
     /\ i <= Len(tree) => left(tree[i])}

elv_rb_add_backwards(tree, r) ==
  {With(tree, i, r) : i \in Descents(tree, r, LAMBDA x : pos[r] <= pos[x],
                                              LAMBDA x : pos[r] > pos[x])}

\* elv_rb_add: behind the requests with the same sector.  A sorted tree has
\* one such place; in another it is the shape of the tree that decides.
elv_rb_add(tree, r) ==
  {With(tree, i, r) : i \in Descents(tree, r, LAMBDA x : pos[r] >= pos[x],
                                              LAMBDA x : pos[r] < pos[x])}

deadline_add_request(c, r) ==
  /\ Insert(c, r, plugged)
  /\ \E tree \in elv_rb_add(sort_list[dir[r]], r) :
       sort_list' = [sort_list EXCEPT ![dir[r]] = tree]
  /\ fifo_list' = [fifo_list EXCEPT ![dir[r]] = Append(@, r)]
  /\ UNCHANGED <<dir, pos, next_rq, batching, starved, passed>>
  /\ UNCHANGED <<stale, unplug_work>>

Merge(c, r) ==
  /\ \/ InsertMerge(c, r, plugged, Linked)
     \/ \E v \in Requests : MergeLinked(c, r, v, plugged, Linked)
  /\ UNCHANGED <<ownVars, unplug_work>>

\* blk_queue_bio merges a bio in front of q->last_merge, which may be any
\* linked request: a merge of a bio behind it makes it that.
FrontMerge(r) ==
  /\ LockFree /\ elv \in {"attached", "bypass"}
  /\ r \in Linked \ stale
  /\ \E s \in Sectors : s < pos[r] /\ pos' = [pos EXCEPT ![r] = s]
  /\ UNCHANGED <<dir, fifo_list, sort_list, next_rq, batching, starved>>
  /\ UNCHANGED <<passed, frameVars, deviceVars>>

-----------------------------------------------------------------------------
(* deadline_dispatch_requests.                                             *)

Waits(d) == fifo_list[d] # <<>>
Position(s, r) == CHOOSE i \in DOMAIN s : s[i] = r

\* rb_next, within the tree of the request.
deadline_latter_request(r) ==
  LET tree == sort_list[dir[r]]
      i == Position(tree, r)
  IN  IF i < Len(tree) THEN tree[i + 1] ELSE NoReq

\* deadline_move_request: what comes next is the request after r.
KeepOther(r) == [next_rq EXCEPT ![dir[r]] = deadline_latter_request(r)]
NextAfter(r) ==
  [d \in Dirs |-> IF d = dir[r] THEN deadline_latter_request(r) ELSE NoReq]

RemoveHead(s, r) == Tail(s)
RemoveRequest(s, r) == Without(s, Position(s, r))

deadline_move_request(r) ==
  /\ next_rq' = NextAfter(r)
  /\ fifo_list' = [fifo_list EXCEPT ![dir[r]] = RemoveRequest(@, r)]
  /\ sort_list' = [sort_list EXCEPT ![dir[r]] = Without(@, Position(@, r))]
  /\ queue_head' = Append(queue_head, r)
  /\ passed' = IF dir[r] = WRITE THEN 0
               ELSE IF Waits(WRITE) THEN passed + 1 ELSE passed
  /\ elv' = IF r \in stale THEN "oops" ELSE elv

\* A write in a batch goes before a read in a batch.
Next_rq == IF next_rq[WRITE] # NoReq THEN next_rq[WRITE] ELSE next_rq[READ]
InBatch == Next_rq # NoReq /\ batching < fifo_batch

ContinueBatch ==
  /\ InBatch
  /\ deadline_move_request(Next_rq)
  /\ batching' = batching + 1
  /\ UNCHANGED starved

\* A batch of reads, unless that was preferred writes_starved times while
\* writes waited; starved++ is evaluated only if writes wait.
WritesNeverStarved == FALSE
WritesStarved == Waits(WRITE) /\ starved >= writes_starved
ChosenDir == IF Waits(READ) /\ ~WritesStarved THEN READ ELSE WRITE
CountStarved ==
  starved' = IF ChosenDir = WRITE THEN 0
             ELSE IF Waits(WRITE) THEN starved + 1 ELSE starved

\* deadline_check_fifo: the oldest request may have expired, or not.
StartBatch ==
  /\ ~InBatch /\ (Waits(READ) \/ Waits(WRITE))
  /\ CountStarved
  /\ \/ deadline_move_request(Head(fifo_list[ChosenDir]))
     \/ /\ next_rq[ChosenDir] # NoReq
        /\ deadline_move_request(next_rq[ChosenDir])
  /\ batching' = 1

\* data_dir is read uninitialised, and the head of an empty list is taken
\* for a request.
DispatchWild ==
  /\ ~InBatch /\ ~Waits(READ) /\ ~Waits(WRITE)
  /\ elv' = "oops"
  /\ UNCHANGED <<fifo_list, sort_list, next_rq, batching, starved, passed>>
  /\ UNCHANGED queue_head

deadline_dispatch_requests ==
  /\ ContinueBatch \/ StartBatch \/ DispatchWild
  /\ UNCHANGED <<dir, pos, plugged, stale, unplug_work, inflight, issuing>>

\* The answer is 0 in any case: request_fn returns, the drain turns.
Peek(c) ==
  /\ pc[c] = "run" /\ queue_head = <<>> /\ elv # "bypass"
  /\ deadline_dispatch_requests
  /\ At(c, "idle")

\* A request is left at least on the driver's list.
Drain(c) ==
  /\ pc[c] = "drain"
  /\ deadline_dispatch_requests
  /\ At(c, "run")

-----------------------------------------------------------------------------
RequestFn(c) ==
  \/ Peek(c)
  \/ elv = "bypass" /\ OnlyDevice(DeviceBypassed(c))
  \/ OnlyDevice(DeviceBusy(c) \/ DeviceStart(c))
Next ==
  /\ elv # "oops"
  /\ \/ \E r \in Requests :
          SetUp(r) \/ FrontMerge(r) \/ OnlyDevice(DeviceComplete(r))
     \/ \E c \in Ctx, r \in Requests :
          deadline_add_request(c, r) \/ Merge(c, r)
     \/ \E c \in Ctx : RequestFn(c) \/ Drain(c)
     \/ \E c \in Ctx :
          OnlyDevice(DeviceIssued(c) \/ DeviceRequeue(c) \/ RunQueue(c))
     \/ Unchanging(BypassStart)
     \/ \E c \in Ctx : Unchanging(DrainStart(c))

Spec == Init /\ [][Next]_vars

-----------------------------------------------------------------------------
(* Properties.                                                             *)

\* fifo_list and sort_list hold the same requests, each once and in its own
\* direction: "requests are present on both" (deadline_example.c:19), although
\* a batch takes a request from the middle of the one by its place in the
\* other.  Requests that a merge has freed are still on both.
ListsAgree ==
  \A d \in Dirs :
    /\ Range(fifo_list[d]) = Range(sort_list[d])
    /\ \A r \in Range(fifo_list[d]) : dir[r] = d
    /\ Len(fifo_list[d]) = Cardinality(Range(fifo_list[d]))

\* The order of sector that next_rq relies on ("get the request after 'rq' in
\* sector-sorted order", deadline_example.c:40) is lost by a front merge into
\* a linked request and by nothing else: not by an insertion, whatever the
\* order of the sectors, nor by a dispatch out of the middle.
InOrder(d) ==
  \A i, j \in DOMAIN sort_list[d] :
    i <= j => pos[sort_list[d][i]] <= pos[sort_list[d][j]]
FrontMergedIn(d) == \E r \in Range(sort_list[d]) : pos'[r] < pos[r]
SortedUntilFrontMerge ==
  [][\A d \in Dirs : InOrder(d) => InOrder(d)' \/ FrontMergedIn(d)]_vars

\* next_rq is a pointer kept from one dispatch to the next, with merges and
\* insertions between them: it points at a request that is linked in the tree
\* of its direction, never at one that was dispatched since, and in one
\* direction at a time.  A request that a merge has freed stays linked, so
\* that next_rq may point at it: its dispatch is the "oops".
NextLinked ==
  /\ \A d \in Dirs : next_rq[d] # NoReq => next_rq[d] \in Range(sort_list[d])
  /\ next_rq[READ] = NoReq \/ next_rq[WRITE] = NoReq

\* "max times of read can starve a write" (deadline_example.c:14): a write
\* waits for the batch that is going on and for writes_starved more.
WritesGetTheirTurn == passed <= (writes_starved + 1) * fifo_batch
=============================================================================
