-------------------------- MODULE LimitedNoopsProofs --------------------------
(***************************************************************************)
(* Proofs about LimitedNoops for every depth limit, every finite set of    *)
(* requests and every set of contexts.                                     *)
(*                                                                         *)
(* NoStranded is not inductive.  When nobody runs the queue and no kick is *)
(* queued, what waits does so because of the limit or because the driver   *)
(* returned while others were in flight (Waits): in either case a          *)
(* completion is to come that will kick.  That rests on exact counts, and  *)
(* they on every request being in one place only (Placed).                 *)
(***************************************************************************)
EXTENDS LimitedNoops, BlockDeviceProofs

Types ==
  /\ queue \in Seq(Requests)
  /\ depth \in Nat /\ nr_size \in Nat
  /\ armed \in BOOLEAN /\ firing \in BOOLEAN
  /\ program \in {"noop_1", "congestion"} /\ left \in BOOLEAN
  /\ FrameTypeOK({})

Placed ==
  IsInjective(queue) /\ Apart(Range(queue), plugged, queue_head, inflight)

\* The limit of the program that is loaded.
Limit == IF noop_1 THEN REQUEST_DEPTH + 1 ELSE REQUEST_DEPTH

Counts ==
  /\ depth = Held /\ depth <= Limit + 1
  /\ congestion => nr_size >= Len(queue) + Held

Gone ==
  /\ elv \in {"detached", "freed"} =>
       /\ plugged = {} /\ queue = <<>> /\ queue_head = <<>> /\ inflight = {}
       /\ \A c \in Ctx : pc[c] = "idle"
  /\ \A c \in Ctx : pc[c] = "drain" => elv \in {"bypass", "oops"}

Timers ==
  /\ noop_1 => ~armed /\ ~firing
  /\ elv = "freed" => ~unplug_work /\ ~armed /\ ~firing

Idle == \A c \in Ctx : pc[c] = "idle"

Waits ==
  /\ queue # <<>> \/ queue_head # <<>>
  /\ Idle /\ ~unplug_work /\ elv = "attached"
  => inflight # {} /\ (noop_1 => depth >= 2)

IInv == Types /\ Placed /\ Counts /\ Gone /\ Timers /\ Waits

ownVars == <<queue, depth, left, nr_size, armed, firing, program>>

-----------------------------------------------------------------------------
(* One lemma per kind of step, of either program: IInv is preserved.       *)

\* The types in a form the other proofs use.
LEMMA TypeFacts ==
  ASSUME Types
  PROVE  /\ DeviceTypeOK /\ Held \in Nat /\ Len(queue_head) \in Nat
         /\ queue \in Seq(Requests) /\ Len(queue) \in Nat
         /\ Range(queue) \subseteq Requests
         /\ Limit \in Nat /\ (noop_1 => Limit >= 1) /\ (noop_1 <=> ~congestion)
<1>1. DeviceTypeOK /\ queue \in Seq(Requests)
  BY DEF Types, FrameTypeOK
<1>2. Held \in Nat /\ Len(queue_head) \in Nat
  BY <1>1, HeldType
<1>3. Len(queue) \in Nat /\ Range(queue) \subseteq Requests
  BY <1>1, LenProperties, RangeOfSeq
<1>4. Limit \in Nat /\ (noop_1 => Limit >= 1) /\ (noop_1 <=> ~congestion)
  BY DepthAssumption DEF Limit, noop_1, congestion, Types
<1> QED  BY <1>1, <1>2, <1>3, <1>4

\* Before a program is loaded, and after a switch, nothing is outstanding.
LEMMA InitIInv ==
  C!Init /\ left = FALSE /\ program \in {"noop_1", "congestion"} => IInv
<1> SUFFICES ASSUME C!Init, left = FALSE, program \in {"noop_1", "congestion"}
             PROVE  IInv
  OBVIOUS
<1> USE DEF C!Init, C!FrameInit, C!DeviceInit
<1>1. <<>> \in Seq(Requests) /\ Len(<<>>) = 0
  BY EmptySeq
<1>2. DeviceTypeOK
  BY <1>1 DEF DeviceTypeOK
<1>3. Types
  BY <1>1, <1>2 DEF Types, FrameTypeOK
<1>4. Held = 0
  BY <1>1, FS_EmptySet DEF Held
<1>5. Placed
  BY DEF Placed, Apart, IsInjective, Range
<1>6. Counts
  BY <1>1, <1>3, <1>4, TypeFacts DEF Counts
<1> QED  BY <1>3, <1>5, <1>6 DEF IInv, Gone, Timers, Waits

\* The device's steps that neither dispatch nor complete.
LEMMA DeviceIInv ==
  ASSUME IInv, NEW c \in Ctx, UNCHANGED <<ownVars, frameVars>>,
         \/ DeviceBusy(c) \/ DeviceStart(c) \/ DeviceIssued(c) \/ DeviceRequeue(c)
         \/ elv = "bypass" /\ DeviceBypassed(c)
         \/ elv \in {"attached", "bypass"} /\ RunQueue(c)
  PROVE  IInv'
<1> USE DEF IInv, ownVars, frameVars
<1>0. DeviceTypeOK /\ Held \in Nat
  BY TypeFacts
<1>1. Types /\ pc \in [Ctx -> {"idle", "flush", "run", "issue", "drain"}]
  BY DEF Types, FrameTypeOK
<1>2. ASSUME DeviceBusy(c) PROVE IInv'
  <2>1. DeviceTypeOK' /\ UNCHANGED <<queue_head, inflight>> /\ Held' = Held
    BY <1>0, <1>2, OtherHeld
  <2>2. pc' = [pc EXCEPT ![c] = "idle"] /\ pc[c] = "run"
    BY <1>2 DEF DeviceBusy, At
  <2>3. Types'
    BY <1>1, <2>1, <2>2 DEF Types, FrameTypeOK
  <2>4. Placed' /\ Counts' /\ Timers'
    BY <2>1 DEF Placed, Counts, Timers, Limit, noop_1, congestion
  <2>5. Gone'
    BY <1>1, <2>1, <2>2 DEF Gone
  <2>6. Waits'
    <3>1. Held >= 2 /\ inflight # {}
      BY <1>0, <1>2, HeldTwo DEF DeviceBusy
    <3> QED  BY <2>1, <3>1 DEF Waits, Counts
  <2> QED  BY <2>3, <2>4, <2>5, <2>6
<1>3. ASSUME DeviceStart(c) PROVE IInv'
  <2>1. DeviceTypeOK'
    BY <1>0, <1>3, StartHeld
  <2>2. /\ pc' = [pc EXCEPT ![c] = "issue"] /\ pc[c] = "run"
        /\ queue_head # <<>> /\ queue_head' = Tail(queue_head)
        /\ inflight' = inflight \cup {Head(queue_head)}
    BY <1>3 DEF DeviceStart, At
  <2>3. /\ Head(queue_head) \notin inflight
        /\ Apart(Range(queue), plugged, queue_head', inflight')
    BY <1>0, <2>2, ApartStart DEF Placed, DeviceTypeOK
  <2>4. Held' = Held
    BY <1>0, <1>3, <2>3, StartHeldExact
  <2>5. Types'
    BY <1>1, <2>1, <2>2 DEF Types, FrameTypeOK
  <2>6. Placed' /\ Counts' /\ Timers'
    BY <2>3, <2>4 DEF Placed, Counts, Timers, Limit, noop_1, congestion
  <2>7. Gone'
    BY <2>2 DEF Gone
  <2>8. Waits'
    BY <1>1, <2>2 DEF Waits, Idle
  <2> QED  BY <2>5, <2>6, <2>7, <2>8
<1>4. ASSUME DeviceRequeue(c) PROVE IInv'
  <2>1. DeviceTypeOK' /\ Held' = Held /\ inflight' # {}
    BY <1>0, <1>4, RequeueHeld
  <2>2. /\ pc' = [pc EXCEPT ![c] = "idle"] /\ pc[c] = "issue"
        /\ issuing[c] \in inflight /\ queue_head' = <<issuing[c]>> \o queue_head
        /\ inflight' = inflight \ {issuing[c]}
    BY <1>4 DEF DeviceRequeue, At
  <2>3. Apart(Range(queue), plugged, queue_head', inflight')
    BY <1>0, <2>2, ApartRequeue DEF Placed, DeviceTypeOK
  <2>4. Types'
    BY <1>1, <2>1, <2>2 DEF Types, FrameTypeOK
  <2>5. Placed' /\ Counts' /\ Timers'
    BY <2>1, <2>3 DEF Placed, Counts, Timers, Limit, noop_1, congestion
  <2>6. Gone'
    BY <2>2 DEF Gone
  <2>7. Waits'
    <3>1. Held >= 2
      BY <1>0, <1>4, ReturnsTwo
    <3> QED  BY <2>1, <3>1 DEF Waits, Counts
  <2> QED  BY <2>4, <2>5, <2>6, <2>7
<1>5. ASSUME DeviceIssued(c) \/ RunQueue(c), elv \in {"attached", "bypass"} \/ pc[c] # "idle"
      PROVE  IInv'
  <2>1. DeviceTypeOK' /\ UNCHANGED <<queue_head, inflight>> /\ Held' = Held
    BY <1>0, <1>5, OtherHeld
  <2>2. pc' = [pc EXCEPT ![c] = "run"]
    BY <1>5 DEF DeviceIssued, RunQueue, At
  <2>3. Types'
    BY <1>1, <2>1, <2>2 DEF Types, FrameTypeOK
  <2>4. Placed' /\ Counts' /\ Timers'
    BY <2>1 DEF Placed, Counts, Timers, Limit, noop_1, congestion
  <2>5. Gone'
    BY <1>1, <1>5, <2>1, <2>2 DEF Gone
  <2>6. Waits'
    BY <1>1, <2>2 DEF Waits, Idle
  <2> QED  BY <2>3, <2>4, <2>5, <2>6
<1>6. ASSUME elv = "bypass", DeviceBypassed(c) PROVE IInv'
  <2>1. DeviceTypeOK' /\ UNCHANGED <<queue_head, inflight>> /\ Held' = Held
    BY <1>0, <1>6, OtherHeld
  <2>2. pc' = [pc EXCEPT ![c] = "idle"]
    BY <1>6 DEF DeviceBypassed, At
  <2>3. Types'
    BY <1>1, <2>1, <2>2 DEF Types, FrameTypeOK
  <2>4. Placed' /\ Counts' /\ Timers'
    BY <2>1 DEF Placed, Counts, Timers, Limit, noop_1, congestion
  <2> QED  BY <1>6, <2>3, <2>4 DEF Gone, Waits
<1>7. DeviceIssued(c) => pc[c] # "idle"
  BY DEF DeviceIssued
<1> QED  BY <1>2, <1>3, <1>4, <1>5, <1>6, <1>7

\* Submission without an insertion, kicks, and the beginning of a switch.
FrameStep ==
  \/ \E r \in Requests : GetRequest(r, Range(queue))
  \/ \E c \in Ctx, r \in Requests :
       InsertMerge(c, r, plugged, Range(queue)) /\ UNCHANGED unplug_work
  \/ \E c \in Ctx, r, v \in Requests :
       MergeLinked(c, r, v, plugged, Range(queue)) /\ UNCHANGED unplug_work
  \/ kick_queue \/ KickSuccessor
  \/ BypassStart \/ \E c \in Ctx : DrainStart(c)

\* Any of them keeps IInv.
LEMMA FrameIInv ==
  ASSUME IInv, UNCHANGED ownVars, FrameStep
  PROVE  IInv'
<1> USE DEF IInv, ownVars, FrameStep
<1>0. DeviceTypeOK /\ Held \in Nat
  BY TypeFacts
<1>1. Types /\ pc \in [Ctx -> {"idle", "flush", "run", "issue", "drain"}]
  BY DEF Types, FrameTypeOK
<1>2. ASSUME UNCHANGED <<queue_head, inflight>>
      PROVE  Counts'
  BY <1>2 DEF Counts, Held, Limit, noop_1, congestion
<1>3. ASSUME NEW r \in Requests, GetRequest(r, Range(queue)) PROVE IInv'
  <2>1. plugged' = plugged \cup {r} /\ UNCHANGED <<stale, unplug_work, elv, deviceVars>>
    BY <1>3 DEF GetRequest
  <2>2. Types'
    BY <2>1 DEF Types, FrameTypeOK, DeviceTypeOK, deviceVars
  <2>3. Placed'
    BY <1>3, <2>1 DEF Placed, Apart, GetRequest, OutstandingWith, deviceVars
  <2> QED
    BY <1>2, <1>3, <2>1, <2>2, <2>3
    DEF Gone, Timers, Waits, Idle, GetRequest, noop_1, congestion, deviceVars
<1>4. ASSUME NEW c \in Ctx, NEW r \in Requests, Insert(c, r, plugged),
             stale' \subseteq Requests, UNCHANGED unplug_work
      PROVE  IInv'
  <2>1. /\ plugged' = plugged \ {r} /\ r \in plugged
        /\ UNCHANGED <<elv, queue_head, inflight, issuing>>
        /\ pc' = [pc EXCEPT ![c] = "run"] \/ pc' = [pc EXCEPT ![c] = "flush"]
    BY <1>4 DEF Insert, At
  <2>2. Types'
    BY <1>1, <1>4, <2>1 DEF Types, FrameTypeOK, DeviceTypeOK
  <2>3. Placed'
    BY <2>1 DEF Placed, Apart
  <2>4. Gone'
    BY <1>1, <2>1 DEF Gone
  <2>5. Waits'
    BY <1>1, <2>1 DEF Waits, Idle
  <2>6. Timers'
    BY <1>4, <2>1 DEF Timers, noop_1, congestion
  <2> QED  BY <1>2, <2>1, <2>2, <2>3, <2>4, <2>5, <2>6
<1>5. ASSUME NEW c \in Ctx, NEW r \in Requests,
             InsertMerge(c, r, plugged, Range(queue)), UNCHANGED unplug_work
      PROVE  IInv'
  BY <1>1, <1>4, <1>5 DEF InsertMerge, Types, FrameTypeOK
<1>6. ASSUME NEW c \in Ctx, NEW r \in Requests, NEW v \in Requests,
             MergeLinked(c, r, v, plugged, Range(queue)), UNCHANGED unplug_work
      PROVE  IInv'
  BY <1>1, <1>4, <1>6 DEF MergeLinked, Types, FrameTypeOK
<1>7. ASSUME kick_queue PROVE IInv'
  <2>1. /\ unplug_work' = FALSE /\ elv \in {"attached", "bypass"}
        /\ UNCHANGED <<plugged, stale, elv, queue_head, inflight, issuing>>
        /\ pc' = [pc EXCEPT ![Kblockd] = "run"]
    BY <1>7 DEF kick_queue, RunQueue, At
  <2>2. Types'
    BY <1>1, <2>1 DEF Types, FrameTypeOK, DeviceTypeOK
  <2>3. Placed' /\ Gone' /\ Timers'
    BY <2>1 DEF Placed, Gone, Timers, noop_1, congestion
  <2>4. Waits'
    BY <1>1, <2>1, KblockdAssumption DEF Waits, Idle
  <2> QED  BY <1>2, <2>1, <2>2, <2>3, <2>4
<1>8. ASSUME KickSuccessor PROVE IInv'
  BY <1>2, <1>8
  DEF KickSuccessor, Types, FrameTypeOK, DeviceTypeOK, Placed, Gone, Timers, Waits,
      noop_1, congestion, deviceVars
<1>10. ASSUME BypassStart PROVE IInv'
  BY <1>2, <1>10
  DEF BypassStart, Types, FrameTypeOK, DeviceTypeOK, Placed, Gone, Timers, Waits,
      noop_1, congestion, deviceVars
<1>11. ASSUME NEW c \in Ctx, DrainStart(c) PROVE IInv'
  <2>1. /\ UNCHANGED <<frameVars, queue_head, inflight, issuing>>
        /\ pc' = [pc EXCEPT ![c] = "drain"] /\ elv = "bypass"
    BY <1>11 DEF DrainStart, At
  <2>2. Types'
    BY <1>1, <2>1 DEF Types, FrameTypeOK, DeviceTypeOK, frameVars
  <2> QED
    BY <1>2, <2>1, <2>2
    DEF Placed, Gone, Timers, Waits, noop_1, congestion, frameVars
<1> QED
  BY <1>3, <1>5, <1>6, <1>7, <1>8, <1>10, <1>11

\* noop_add_request of either program.
LEMMA AddIInv ==
  ASSUME IInv, NEW c \in Ctx, NEW r \in Requests, Insert(c, r, plugged),
         queue' = Append(queue, r), nr_size' = nr_size + 1 \/ (noop_1 /\ nr_size' = nr_size),
         UNCHANGED <<depth, left, armed, firing, program, stale, unplug_work>>
  PROVE  IInv'
<1> USE DEF IInv
<1>0. Types /\ pc \in [Ctx -> {"idle", "flush", "run", "issue", "drain"}]
  BY DEF Types, FrameTypeOK
<1>1. /\ plugged' = plugged \ {r} /\ r \in plugged
      /\ UNCHANGED <<elv, queue_head, inflight, issuing>>
      /\ pc' = [pc EXCEPT ![c] = "run"] \/ pc' = [pc EXCEPT ![c] = "flush"]
  BY DEF Insert, At
<1>2. queue' \in Seq(Requests) /\ Len(queue') = Len(queue) + 1
  BY TypeFacts, AppendProperties
<1>3. Types'
  <2>1. nr_size' \in Nat
    BY <1>0 DEF Types
  <2>2. UNCHANGED <<depth, left, armed, firing, program, stale, unplug_work>>
    OBVIOUS
  <2> HIDE DEF IInv
  <2> QED  BY <1>0, <1>1, <1>2, <2>1, <2>2 DEF Types, FrameTypeOK, DeviceTypeOK
<1>4. Placed'
  <2>1. r \notin Range(queue)
    BY <1>1 DEF Placed, Apart
  <2>2. Range(queue') = Range(queue) \cup {r} /\ IsInjective(queue')
    BY <2>1, TypeFacts, AppendDistinct DEF Placed
  <2> QED  BY <1>1, <2>2 DEF Placed, Apart
<1>5. Counts'
  <2>1. Held' = Held /\ Limit' = Limit
    BY <1>1 DEF Held, Limit, noop_1
  <2> QED  BY <1>0, <1>2, <2>1, TypeFacts DEF Counts, noop_1, congestion, Types
<1>6. Gone' /\ Timers'
  BY <1>0, <1>1 DEF Gone, Timers, noop_1, congestion
<1>7. Waits'
  BY <1>0, <1>1 DEF Waits, Idle
<1> QED  BY <1>3, <1>4, <1>5, <1>6, <1>7

\* noop_dispatch takes a request, in request_fn or in a drain.
LEMMA DispatchIInv ==
  ASSUME IInv, NEW c \in Ctx, pc[c] \in {"run", "drain"},
         queue # <<>>, depth <= Limit, depth' = depth + 1,
         queue' = Tail(queue), Dispatched(Head(queue)),
         armed' \in BOOLEAN, armed' => armed,
         UNCHANGED <<left, nr_size, firing, program, plugged, stale, unplug_work,
                     inflight, issuing, pc>>
  PROVE  IInv'
<1> USE DEF IInv
<1> DEFINE r == Head(queue)
<1>0. DeviceTypeOK /\ queue \in Seq(Requests) /\ Held \in Nat /\ Types /\ Limit \in Nat
  BY TypeFacts
<1>1. /\ r \in Requests /\ queue' \in Seq(Requests) /\ Len(queue') = Len(queue) - 1
      /\ r \in Range(queue) /\ Range(queue') = Range(queue) \ {r}
      /\ IsInjective(queue')
  BY <1>0, HeadTailProperties, TailDistinct DEF Placed
<1> HIDE DEF r
<1>2. PICK i \in 1 .. Len(queue_head) + 1 : queue_head' = With(queue_head, i, r)
  BY DEF Dispatched, elv_dispatch_sort, r
<1>3. elv' \in {elv, "oops"}
  BY DEF Dispatched
<1>4. queue_head' \in Seq(Requests) /\ Held' = Held + 1
  BY <1>0, <1>1, DispatchHeld DEF Dispatched, r
<1>5. Types'
  <2>1. depth' \in Nat
    BY <1>0 DEF Types
  <2> QED  BY <1>0, <1>1, <1>3, <1>4, <2>1 DEF Types, FrameTypeOK, DeviceTypeOK
<1>6. Placed'
  <2>1. Apart(Range(queue) \ {r}, plugged, queue_head', inflight)
    BY <1>0, <1>1, <1>2, ApartDispatch DEF Placed, DeviceTypeOK
  <2> QED  BY <1>1, <2>1 DEF Placed
<1>7. Counts'
  <2>1. Limit' = Limit
    BY DEF Limit, noop_1
  <2> QED
    BY <1>0, <1>1, <1>4, <2>1, TypeFacts DEF Counts, congestion, Types
<1>8. Gone' /\ Timers'
  BY <1>3 DEF Gone, Timers, noop_1, congestion
<1>9. Waits'
  BY DEF Waits, Idle
<1> QED  BY <1>5, <1>6, <1>7, <1>8, <1>9

\* request_fn is given nothing: the list is empty, or the limit is reached.
LEMMA PeekNothingIInv ==
  ASSUME IInv, NEW c \in Ctx, pc[c] = "run", queue_head = <<>>, At(c, "idle"),
         queue = <<>> \/ depth > Limit,
         armed' \in BOOLEAN, armed' => armed,
         UNCHANGED <<queue, depth, left, nr_size, firing, program, frameVars,
                     queue_head, inflight, issuing>>
  PROVE  IInv'
<1> USE DEF IInv, frameVars
<1>0. Types /\ pc \in [Ctx -> {"idle", "flush", "run", "issue", "drain"}]
  BY DEF Types, FrameTypeOK
<1>1. pc' = [pc EXCEPT ![c] = "idle"]
  BY DEF At
<1>2. Types'
  BY <1>0, <1>1 DEF Types, FrameTypeOK, DeviceTypeOK
<1>3. Placed' /\ Counts'
  BY DEF Placed, Counts, Held, Limit, noop_1, congestion
<1>4. Gone' /\ Timers'
  BY <1>0, <1>1 DEF Gone, Timers, noop_1, congestion
<1>5. Waits'
  <2>1. SUFFICES ASSUME queue # <<>>
        PROVE  inflight # {} /\ (noop_1 => depth >= 2)
    BY DEF Waits, noop_1
  <2>2. depth > Limit /\ depth = Held
    BY <2>1 DEF Counts
  <2>3. Held > 0 /\ (noop_1 => depth >= 2)
    BY <1>0, <2>2, TypeFacts DEF Types
  <2> QED  BY <2>3, TypeFacts, HeldInFlight
<1> QED  BY <1>2, <1>3, <1>4, <1>5

\* A forced dispatch is given nothing: the drain turns, or ends when nothing
\* is outstanding.
LEMMA DrainNothingIInv ==
  ASSUME IInv, NEW c \in Ctx, pc[c] = "drain", DrainTurnEnds(c, Range(queue)),
         armed' \in BOOLEAN, armed' => armed, elv = "bypass",
         UNCHANGED <<queue, depth, left, nr_size, firing, program, plugged, stale,
                     unplug_work, queue_head, inflight, issuing>>
  PROVE  IInv'
<1> USE DEF IInv
<1>0. Types /\ pc \in [Ctx -> {"idle", "flush", "run", "issue", "drain"}]
  BY DEF Types, FrameTypeOK
<1>1. /\ pc' = [pc EXCEPT ![c] = IF queue_head = <<>> THEN "idle" ELSE "run"]
      /\ elv' = IF Quiescent(c, Range(queue)) THEN "detached" ELSE elv
  BY DEF DrainTurnEnds, At
<1>2. Types'
  BY <1>0, <1>1 DEF Types, FrameTypeOK, DeviceTypeOK
<1>3. Placed' /\ Counts' /\ Waits'
  BY <1>1 DEF Placed, Counts, Held, Limit, Waits, noop_1, congestion
<1>4. Timers'
  BY <1>1 DEF Timers, noop_1, congestion
<1>5. Gone'
  <2>1. CASE Quiescent(c, Range(queue))
    <3>1. /\ plugged = {} /\ Range(queue) = {} /\ Range(queue_head) = {} /\ inflight = {}
          /\ \A d \in Ctx \ {c} : pc[d] = "idle"
      BY <2>1 DEF Quiescent, OutstandingWith
    <3>2. queue = <<>> /\ queue_head = <<>>
      BY <3>1, TypeFacts, EmptyRange DEF DeviceTypeOK
    <3> QED  BY <1>0, <1>1, <3>1, <3>2 DEF Gone
  <2>2. CASE ~Quiescent(c, Range(queue))
    BY <1>1, <2>2 DEF Gone
  <2> QED  BY <2>1, <2>2
<1> QED  BY <1>2, <1>3, <1>4, <1>5

\* noop_completed: exact counts make it kick whenever something waits.
LEMMA CompleteIInv ==
  ASSUME IInv, NEW r \in Requests, DeviceComplete(r), depth' = depth - 1,
         \/ noop_1 /\ KickIf(depth' > 0) /\ UNCHANGED <<nr_size, armed>>
         \/ congestion /\ nr_size' = nr_size - 1 /\ KickIf(nr_size' > 0)
            /\ armed' = (armed \/ nr_size' > 0),
         UNCHANGED <<queue, left, firing, program, plugged, stale, elv>>
  PROVE  IInv'
<1> USE DEF IInv
<1>0. /\ DeviceTypeOK /\ Held \in Nat /\ Len(queue) \in Nat /\ Types
      /\ (noop_1 <=> ~congestion)
  BY TypeFacts
<1>1. DeviceTypeOK' /\ Held > 0 /\ Held' = Held - 1
  BY <1>0, CompleteHeld
<1>2. inflight' = inflight \ {r} /\ r \in inflight /\ UNCHANGED <<queue_head, pc>>
  BY DEF DeviceComplete
<1>3. depth = Held /\ (congestion => nr_size >= Len(queue) + Held)
  BY DEF Counts
<1>4. Types'
  <2>1. depth' \in Nat /\ nr_size' \in Nat
    BY <1>0, <1>1, <1>3 DEF Types
  <2>2. armed' \in BOOLEAN
    BY <1>0 DEF Types
  <2>3. unplug_work' \in BOOLEAN
    BY <1>0 DEF Types, FrameTypeOK, KickIf
  <2> QED  BY <1>0, <1>1, <1>2, <2>1, <2>2, <2>3 DEF Types, FrameTypeOK
<1>5. Placed'
  BY <1>2 DEF Placed, Apart
<1>6. Counts'
  <2>1. Limit' = Limit /\ Limit \in Nat
    BY TypeFacts DEF Limit, noop_1
  <2> QED  BY <1>0, <1>1, <1>3, <2>1 DEF Counts, noop_1, congestion, Types
<1>7. elv \notin {"detached", "freed"}
  BY <1>2 DEF Gone
<1>8. Gone' /\ Timers'
  BY <1>0, <1>2, <1>7 DEF Gone, Timers, noop_1, congestion
<1>9. Waits'
  <2>1. SUFFICES ASSUME queue # <<>> \/ queue_head # <<>>, Idle, ~unplug_work',
                        elv = "attached"
        PROVE  FALSE
    BY <1>2 DEF Waits, Idle
  <2>2. ~unplug_work
    BY <2>1 DEF KickIf
  <2>3. CASE noop_1
    <3>1. depth >= 2
      BY <2>1, <2>2, <2>3 DEF Waits
    <3>2. depth' > 0
      BY <1>0, <1>3, <3>1
    <3> QED  BY <1>0, <2>1, <2>3, <3>2 DEF KickIf
  <2>4. CASE congestion
    <3>1. Len(queue) + Held >= 2
      <4>1. CASE queue # <<>>
        <5>1. Len(queue) >= 1
          BY <4>1, EmptySeq, TypeFacts
        <5> QED  BY <1>0, <1>1, <5>1
      <4>2. CASE queue_head # <<>>
        BY <1>0, <1>2, <4>2, HeldTwo
      <4> QED  BY <2>1, <4>1, <4>2
    <3>2. nr_size' > 0
      BY <1>0, <1>3, <2>4, <3>1 DEF Types
    <3> QED  BY <1>0, <2>1, <2>4, <3>2 DEF KickIf
  <2> QED  BY <1>0, <2>3, <2>4
<1> QED  BY <1>4, <1>5, <1>6, <1>8, <1>9

\* noop_exit_queue, after a drain, and noop_init_queue of either program.
LEMMA ExitIInv ==
  ASSUME IInv, elv = "detached", elv' = IF queue # <<>> THEN "oops" ELSE "freed",
         unplug_work' = FALSE, left' \in BOOLEAN,
         \/ noop_1 /\ UNCHANGED armed
         \/ congestion /\ ~firing /\ armed' = FALSE,
         UNCHANGED <<queue, depth, nr_size, firing, program, plugged, stale, deviceVars>>
  PROVE  IInv'
<1> USE DEF IInv, deviceVars
<1>1. queue = <<>> /\ elv' = "freed" /\ (noop_1 <=> ~congestion)
  BY TypeFacts DEF Gone
<1>2. Types'
  BY <1>1 DEF Types, FrameTypeOK, DeviceTypeOK
<1>3. Placed' /\ Counts'
  BY DEF Placed, Counts, Held, Limit, noop_1, congestion
<1>4. Gone'
  BY <1>1 DEF Gone
<1>5. Timers' /\ Waits'
  BY <1>1 DEF Timers, Waits, noop_1, congestion
<1> QED  BY <1>2, <1>3, <1>4, <1>5

\* The program that is loaded starts from nothing.
LEMMA InitQueueIInv ==
  ASSUME IInv, elv = "freed", elv' = "attached", queue' = <<>>, depth' = 0,
         \/ noop_1 /\ UNCHANGED <<nr_size, armed, firing, unplug_work>>
         \/ /\ congestion /\ nr_size' = 0 /\ armed' = FALSE /\ firing' = FALSE
            /\ UNCHANGED unplug_work,
         UNCHANGED <<left, program, plugged, stale, deviceVars>>
  PROVE  IInv'
<1> USE DEF IInv
<1>0. Gone /\ Types /\ Timers /\ queue = <<>> /\ <<>> \in Seq(Requests) /\ Len(<<>>) = 0
  BY EmptySeq DEF Gone
<1>1. Types'
  <2>1. 0 \in Nat
    OBVIOUS
  <2>2. UNCHANGED <<queue_head, inflight, issuing, pc, plugged, stale, unplug_work, program, left>>
    BY DEF deviceVars
  <2> QED  BY <1>0, <2>1, <2>2 DEF Types, FrameTypeOK, DeviceTypeOK
<1>2. Placed'
  BY <1>0 DEF Placed, deviceVars
<1>3. Counts'
  <2>1. Held = 0 /\ Held' = Held
    BY <1>0, EmptySeq, FS_EmptySet DEF Gone, Held, deviceVars
  <2>2. Limit' = Limit /\ Limit \in Nat
    BY TypeFacts DEF Limit, noop_1
  <2> QED  BY <1>0, <2>1, <2>2, TypeFacts DEF Counts, noop_1, congestion
<1> QED
  BY <1>0, <1>1, <1>2, <1>3 DEF Gone, Timers, Waits, noop_1, congestion, deviceVars

\* Both programs keep what they do not own: the next one finds it released.
LEMMA LoadOtherIInv ==
  ASSUME IInv, LoadOther
  PROVE  IInv'
<1> USE DEF IInv, LoadOther
<1>0. Types /\ Gone /\ elv = "freed"
  OBVIOUS
<1>1. Types'
  BY <1>0 DEF Types, FrameTypeOK, DeviceTypeOK, deviceVars, frameVars
<1>2. Counts'
  <2>1. Len(<<>>) = 0 /\ Cardinality({}) = 0
    BY EmptySeq, FS_EmptySet
  <2>2. Held = 0 /\ queue = <<>>
    <3> HIDE DEF LoadOther, IInv
    <3>1. queue = <<>> /\ queue_head = <<>> /\ inflight = {}
      BY <1>0 DEF Gone
    <3> QED  BY <2>1, <3>1 DEF Held
  <2>3. Held' = 0 /\ UNCHANGED <<queue, depth, nr_size>>
    BY <2>2 DEF Held, deviceVars
  <2>4. depth' = 0 /\ nr_size' \in Nat /\ Len(queue') = 0
    BY <1>0, <2>1, <2>2, <2>3 DEF Counts, Types
  <2>5. Limit' \in Nat
    <3>1. REQUEST_DEPTH \in Nat
      BY DepthAssumption
    <3>2. Limit' \in {REQUEST_DEPTH, REQUEST_DEPTH + 1}
      BY DEF Limit
    <3> QED  BY <3>1, <3>2
  <2>6. depth' = Held'
    BY <2>3, <2>4
  <2>7. depth' <= Limit' + 1
    <3>1. \A n \in Nat : 0 <= n + 1
      OBVIOUS
    <3> HIDE DEF LoadOther, IInv
    <3>2. 0 <= Limit' + 1
      BY <2>5, <3>1
    <3> QED  BY <2>4, <3>2
  <2>8. nr_size' >= Len(queue') + Held'
    <3> HIDE DEF LoadOther, IInv
    <3> QED  BY <2>3, <2>4
  <2> QED  BY <2>6, <2>7, <2>8 DEF Counts
<1>3. Placed' /\ Gone' /\ Waits'
  BY <1>0 DEF Placed, Gone, Waits, deviceVars, frameVars
<1>4. Timers'
  BY <1>0 DEF Timers, noop_1, congestion, frameVars, Types
<1> QED  BY <1>1, <1>2, <1>3, <1>4

\* The work item of a freed noop_1.c stops the machine.
LEMMA KickAfterKfreeIInv ==
  ASSUME IInv, elv' = "oops",
         UNCHANGED <<ownVars, plugged, stale, unplug_work, deviceVars>>
  PROVE  IInv'
<1> USE DEF IInv, ownVars, deviceVars
<1>1. Types'
  BY DEF Types, FrameTypeOK, DeviceTypeOK
<1>2. Placed' /\ Counts'
  BY DEF Placed, Counts, Held, Limit, noop_1, congestion
<1>3. Gone' /\ Timers' /\ Waits'
  BY DEF Gone, Timers, Waits, Idle, noop_1, congestion
<1> QED  BY <1>1, <1>2, <1>3

\* The timer of noop_with_congestion.c expires, and its callback runs.
LEMMA TimerIInv ==
  ASSUME IInv, congestion, armed' \in BOOLEAN, firing' \in BOOLEAN,
         armed' => armed, firing' => armed \/ firing,
         unplug_work' = unplug_work \/ (firing /\ unplug_work' = TRUE),
         UNCHANGED <<queue, depth, left, nr_size, program, plugged, stale, elv, deviceVars>>
  PROVE  IInv'
<1> USE DEF IInv, deviceVars
<1>1. Types'
  BY DEF Types, FrameTypeOK, DeviceTypeOK
<1>2. Placed' /\ Counts' /\ Gone'
  BY DEF Placed, Counts, Held, Limit, Gone, noop_1, congestion
<1>3. Timers'
  BY TypeFacts DEF Timers, noop_1, congestion
<1>4. Waits'
  BY DEF Waits, Idle, noop_1
<1> QED  BY <1>1, <1>2, <1>3, <1>4
-----------------------------------------------------------------------------
(* What D and C share is this module's: both instances keep the names of   *)
(* the block layer and leave its variables as they are.                    *)

\* The actions of the block layer in noop_1.c's module are this module's.
LEMMA SameInNoop_1 ==
  /\ D!Linked = Range(queue) /\ D!frameVars = frameVars
  /\ D!kick_queue <=> kick_queue
  /\ D!KickSuccessor <=> KickSuccessor
  /\ D!BypassStart <=> BypassStart
  /\ \A c \in Ctx :
       /\ D!DeviceBusy(c) <=> DeviceBusy(c)
       /\ D!DeviceStart(c) <=> DeviceStart(c)
       /\ D!DeviceIssued(c) <=> DeviceIssued(c)
       /\ D!DeviceRequeue(c) <=> DeviceRequeue(c)
       /\ D!DeviceBypassed(c) <=> DeviceBypassed(c)
       /\ D!RunQueue(c) <=> RunQueue(c)
       /\ D!DrainStart(c) <=> DrainStart(c)
       /\ D!DrainTurnEnds(c, Range(queue)) <=> DrainTurnEnds(c, Range(queue))
       /\ D!At(c, "idle") <=> At(c, "idle")
  /\ \A r \in Requests :
       /\ D!DeviceComplete(r) <=> DeviceComplete(r)
       /\ D!GetRequest(r, Range(queue)) <=> GetRequest(r, Range(queue))
       /\ D!Dispatched(r) <=> Dispatched(r)
  /\ \A c \in Ctx, r \in Requests :
       /\ D!Insert(c, r, plugged) <=> Insert(c, r, plugged)
       /\ D!InsertMerge(c, r, plugged, Range(queue))
            <=> InsertMerge(c, r, plugged, Range(queue))
       /\ \A v \in Requests : D!MergeLinked(c, r, v, plugged, Range(queue))
                                <=> MergeLinked(c, r, v, plugged, Range(queue))
<1> USE DEF D!LockFree, LockFree, D!At, At, D!OutstandingWith, OutstandingWith,
            D!Range, Range, D!deviceVars, deviceVars, D!frameVars, frameVars
<1>1. D!Linked = Range(queue) /\ D!frameVars = frameVars
  BY DEF D!Linked
<1>2. /\ D!kick_queue <=> kick_queue
      /\ D!KickSuccessor <=> KickSuccessor
      /\ D!BypassStart <=> BypassStart
  BY DEF D!kick_queue, kick_queue, D!RunQueue, RunQueue, D!KickSuccessor, KickSuccessor,
         D!BypassStart, BypassStart
<1>3. ASSUME NEW c \in Ctx
      PROVE  /\ D!DeviceBusy(c) <=> DeviceBusy(c)
             /\ D!DeviceStart(c) <=> DeviceStart(c)
             /\ D!DeviceIssued(c) <=> DeviceIssued(c)
             /\ D!DeviceRequeue(c) <=> DeviceRequeue(c)
             /\ D!DeviceBypassed(c) <=> DeviceBypassed(c)
             /\ D!RunQueue(c) <=> RunQueue(c)
             /\ D!DrainStart(c) <=> DrainStart(c)
             /\ D!DrainTurnEnds(c, Range(queue)) <=> DrainTurnEnds(c, Range(queue))
             /\ D!At(c, "idle") <=> At(c, "idle")
  BY DEF D!DeviceBusy, DeviceBusy, D!DeviceStart, DeviceStart,
         D!DeviceIssued, DeviceIssued, D!DeviceRequeue, DeviceRequeue,
         D!DeviceBypassed, DeviceBypassed, D!RunQueue, RunQueue, D!DrainStart, DrainStart,
         D!Tasks, Tasks, D!DrainTurnEnds, DrainTurnEnds, D!Quiescent, Quiescent
<1>4. ASSUME NEW r \in Requests
      PROVE  /\ D!DeviceComplete(r) <=> DeviceComplete(r)
             /\ D!GetRequest(r, Range(queue)) <=> GetRequest(r, Range(queue))
             /\ D!Dispatched(r) <=> Dispatched(r)
  BY DEF D!DeviceComplete, DeviceComplete, D!GetRequest, GetRequest, D!Dispatched, Dispatched,
         D!elv_dispatch_sort, elv_dispatch_sort, D!With, With
<1>5. ASSUME NEW c \in Ctx, NEW r \in Requests
      PROVE  /\ D!Insert(c, r, plugged) <=> Insert(c, r, plugged)
             /\ D!InsertMerge(c, r, plugged, Range(queue))
                  <=> InsertMerge(c, r, plugged, Range(queue))
  BY DEF D!Insert, Insert, D!InsertMerge, InsertMerge, D!Tasks, Tasks
<1>6. ASSUME NEW c \in Ctx, NEW r \in Requests, NEW v \in Requests
      PROVE  D!MergeLinked(c, r, v, plugged, Range(queue))
               <=> MergeLinked(c, r, v, plugged, Range(queue))
  BY <1>5 DEF D!MergeLinked, MergeLinked, D!Cardinality, Cardinality
<1> HIDE DEF D!LockFree, LockFree, D!At, At, D!OutstandingWith, OutstandingWith,
             D!Range, Range, D!deviceVars, deviceVars, D!frameVars, frameVars
<1> QED  BY <1>1, <1>2, <1>3, <1>4, <1>5, <1>6

\* The actions of the block layer in noop_with_congestion.c's module are this module's.
LEMMA SameInCongestion ==
  /\ C!Linked = Range(queue) /\ C!frameVars = frameVars
  /\ C!kick_queue <=> kick_queue
  /\ C!KickSuccessor <=> KickSuccessor
  /\ C!BypassStart <=> BypassStart
  /\ \A c \in Ctx :
       /\ C!DeviceBusy(c) <=> DeviceBusy(c)
       /\ C!DeviceStart(c) <=> DeviceStart(c)
       /\ C!DeviceIssued(c) <=> DeviceIssued(c)
       /\ C!DeviceRequeue(c) <=> DeviceRequeue(c)
       /\ C!DeviceBypassed(c) <=> DeviceBypassed(c)
       /\ C!RunQueue(c) <=> RunQueue(c)
       /\ C!DrainStart(c) <=> DrainStart(c)
       /\ C!DrainTurnEnds(c, Range(queue)) <=> DrainTurnEnds(c, Range(queue))
       /\ C!At(c, "idle") <=> At(c, "idle")
  /\ \A r \in Requests :
       /\ C!DeviceComplete(r) <=> DeviceComplete(r)
       /\ C!GetRequest(r, Range(queue)) <=> GetRequest(r, Range(queue))
       /\ C!Dispatched(r) <=> Dispatched(r)
  /\ \A c \in Ctx, r \in Requests :
       /\ C!Insert(c, r, plugged) <=> Insert(c, r, plugged)
       /\ C!InsertMerge(c, r, plugged, Range(queue))
            <=> InsertMerge(c, r, plugged, Range(queue))
       /\ \A v \in Requests : C!MergeLinked(c, r, v, plugged, Range(queue))
                                <=> MergeLinked(c, r, v, plugged, Range(queue))
<1> USE DEF C!LockFree, LockFree, C!At, At, C!OutstandingWith, OutstandingWith,
            C!Range, Range, C!deviceVars, deviceVars, C!frameVars, frameVars
<1>1. C!Linked = Range(queue) /\ C!frameVars = frameVars
  BY DEF C!Linked
<1>2. /\ C!kick_queue <=> kick_queue
      /\ C!KickSuccessor <=> KickSuccessor
      /\ C!BypassStart <=> BypassStart
  BY DEF C!kick_queue, kick_queue, C!RunQueue, RunQueue, C!KickSuccessor, KickSuccessor,
         C!BypassStart, BypassStart
<1>3. ASSUME NEW c \in Ctx
      PROVE  /\ C!DeviceBusy(c) <=> DeviceBusy(c)
             /\ C!DeviceStart(c) <=> DeviceStart(c)
             /\ C!DeviceIssued(c) <=> DeviceIssued(c)
             /\ C!DeviceRequeue(c) <=> DeviceRequeue(c)
             /\ C!DeviceBypassed(c) <=> DeviceBypassed(c)
             /\ C!RunQueue(c) <=> RunQueue(c)
             /\ C!DrainStart(c) <=> DrainStart(c)
             /\ C!DrainTurnEnds(c, Range(queue)) <=> DrainTurnEnds(c, Range(queue))
             /\ C!At(c, "idle") <=> At(c, "idle")
  BY DEF C!DeviceBusy, DeviceBusy, C!DeviceStart, DeviceStart,
         C!DeviceIssued, DeviceIssued, C!DeviceRequeue, DeviceRequeue,
         C!DeviceBypassed, DeviceBypassed, C!RunQueue, RunQueue, C!DrainStart, DrainStart,
         C!Tasks, Tasks, C!DrainTurnEnds, DrainTurnEnds, C!Quiescent, Quiescent
<1>4. ASSUME NEW r \in Requests
      PROVE  /\ C!DeviceComplete(r) <=> DeviceComplete(r)
             /\ C!GetRequest(r, Range(queue)) <=> GetRequest(r, Range(queue))
             /\ C!Dispatched(r) <=> Dispatched(r)
  BY DEF C!DeviceComplete, DeviceComplete, C!GetRequest, GetRequest, C!Dispatched, Dispatched,
         C!elv_dispatch_sort, elv_dispatch_sort, C!With, With
<1>5. ASSUME NEW c \in Ctx, NEW r \in Requests
      PROVE  /\ C!Insert(c, r, plugged) <=> Insert(c, r, plugged)
             /\ C!InsertMerge(c, r, plugged, Range(queue))
                  <=> InsertMerge(c, r, plugged, Range(queue))
  BY DEF C!Insert, Insert, C!InsertMerge, InsertMerge, C!Tasks, Tasks
<1>6. ASSUME NEW c \in Ctx, NEW r \in Requests, NEW v \in Requests
      PROVE  C!MergeLinked(c, r, v, plugged, Range(queue))
               <=> MergeLinked(c, r, v, plugged, Range(queue))
  BY <1>5 DEF C!MergeLinked, MergeLinked, C!Cardinality, Cardinality
<1> HIDE DEF C!LockFree, LockFree, C!At, At, C!OutstandingWith, OutstandingWith,
             C!Range, Range, C!deviceVars, deviceVars, C!frameVars, frameVars
<1> QED  BY <1>1, <1>2, <1>3, <1>4, <1>5, <1>6

-----------------------------------------------------------------------------
(* The steps of the programs are steps of the kinds above.                 *)

\* Every step of noop_1.c preserves IInv.
LEMMA Noop_1Step ==
  ASSUME IInv, noop_1, D!Next, UNCHANGED <<nr_size, armed, firing, program>>
  PROVE  IInv'
<1>0. /\ depth \in Nat /\ queue \in Seq(Requests) /\ Limit = REQUEST_DEPTH + 1
      /\ armed \in BOOLEAN /\ REQUEST_DEPTH \in Nat
  BY DepthAssumption DEF IInv, Types, Limit
<1>1. ASSUME NEW r \in Requests, D!Unchanging(D!GetRequest(r, D!Linked))
      PROVE  IInv'
  <2>1. UNCHANGED ownVars /\ FrameStep
    BY <1>1, SameInNoop_1 DEF D!Unchanging, D!ownVars, ownVars, FrameStep
  <2> QED  BY <2>1, FrameIInv
<1>2. ASSUME NEW r \in Requests, D!noop_completed(r)
      PROVE  IInv'
  <2>1. /\ DeviceComplete(r) /\ depth' = depth - 1 /\ KickIf(depth' > 0)
        /\ UNCHANGED <<queue, left, plugged, stale, elv>>
    BY <1>2, SameInNoop_1 DEF D!noop_completed, D!FreeSlot, D!KickIf, KickIf
  <2> QED  BY <2>1, CompleteIInv
<1>3. ASSUME NEW c \in Ctx, NEW r \in Requests, D!Flush(c, r)
      PROVE  IInv'
  <2>1. CASE D!noop_add_request(c, r)
    <3>1. /\ Insert(c, r, plugged) /\ queue' = Append(queue, r)
          /\ UNCHANGED <<depth, left, stale, unplug_work>>
      BY <2>1, SameInNoop_1 DEF D!noop_add_request
    <3> QED  BY <3>1, AddIInv
  <2>2. CASE D!Merged(D!InsertMerge(c, r, plugged, D!Linked))
    <3>1. UNCHANGED ownVars /\ FrameStep
      BY <2>2, SameInNoop_1 DEF D!Merged, D!Unchanging, D!ownVars, ownVars, FrameStep
    <3> QED  BY <3>1, FrameIInv
  <2>3. ASSUME NEW v \in Requests, D!Merged(D!MergeLinked(c, r, v, plugged, D!Linked))
        PROVE  IInv'
    <3>1. UNCHANGED ownVars /\ FrameStep
      BY <2>3, SameInNoop_1 DEF D!Merged, D!Unchanging, D!ownVars, ownVars, FrameStep
    <3> QED  BY <3>1, FrameIInv
  <2> QED  BY <1>3, <2>1, <2>2, <2>3 DEF D!Flush
<1>4. ASSUME NEW c \in Ctx, pc[c] \in {"run", "drain"}, D!noop_dispatch,
             UNCHANGED <<pc, left, plugged, stale, unplug_work, inflight, issuing>>
      PROVE  IInv'
  <2>1. /\ ~(depth > REQUEST_DEPTH + 1) /\ queue # <<>> /\ depth' = depth + 1
        /\ queue' = Tail(queue) /\ D!Dispatched(Head(queue))
    BY <1>4 DEF D!noop_dispatch, D!Full, D!TakeSlot
  <2>2. Head(queue) \in Requests /\ depth <= Limit
    <3>1. Head(queue) \in Requests
      BY <1>0, <2>1, HeadTailProperties
    <3> QED  BY <1>0, <2>1, <3>1
  <2>3. Dispatched(Head(queue))
    BY <2>1, <2>2, SameInNoop_1
  <2> QED  BY <1>0, <1>4, <2>1, <2>2, <2>3, DispatchIInv
<1>5. ASSUME NEW c \in Ctx, D!Peek(c)
      PROVE  IInv'
  <2>1. pc[c] = "run" /\ queue_head = <<>>
        /\ UNCHANGED <<left, plugged, stale, unplug_work, inflight, issuing>>
    BY <1>5 DEF D!Peek
  <2>2. CASE D!noop_dispatch /\ UNCHANGED pc
    BY <1>4, <2>1, <2>2
  <2>3. CASE D!noop_dispatch_nothing /\ D!At(c, "idle") /\ UNCHANGED elv
    <3>1. /\ depth > Limit \/ queue = <<>>
          /\ UNCHANGED <<queue, depth, queue_head, frameVars>>
      BY <1>0, <2>1, <2>3 DEF D!noop_dispatch_nothing, D!Full, frameVars
    <3> QED  BY <1>0, <2>1, <2>3, <3>1, SameInNoop_1, PeekNothingIInv
  <2> QED  BY <1>5, <2>2, <2>3 DEF D!Peek
<1>6. ASSUME NEW c \in Ctx, D!Drain(c), elv # "oops"
      PROVE  IInv'
  <2>1. /\ pc[c] = "drain"
        /\ UNCHANGED <<left, plugged, stale, unplug_work, inflight, issuing>>
    BY <1>6 DEF D!Drain
  <2>2. CASE D!noop_dispatch /\ UNCHANGED pc
    BY <1>4, <2>1, <2>2
  <2>3. CASE D!noop_dispatch_nothing /\ D!DrainTurnEnds(c, D!Linked)
    <3>1. UNCHANGED <<queue, depth, queue_head>> /\ DrainTurnEnds(c, Range(queue))
      BY <2>3, SameInNoop_1 DEF D!noop_dispatch_nothing
    <3>2. elv = "bypass"
      BY <1>6, <2>1 DEF IInv, Gone
    <3> QED  BY <1>0, <2>1, <3>1, <3>2, DrainNothingIInv
  <2> QED  BY <1>6, <2>2, <2>3 DEF D!Drain
<1>7. ASSUME NEW c \in Ctx, D!RequestFn(c) \/ D!Issued(c) \/ D!Unasked(c)
      PROVE  IInv'
  <2>1. CASE D!Peek(c)
    BY <1>5, <2>1
  <2>2. CASE ~D!Peek(c)
    <3>1. /\ UNCHANGED <<ownVars, frameVars>>
          /\ \/ DeviceBusy(c) \/ DeviceStart(c) \/ DeviceIssued(c) \/ DeviceRequeue(c)
             \/ elv = "bypass" /\ DeviceBypassed(c)
             \/ elv \in {"attached", "bypass"} /\ RunQueue(c)
      BY <1>7, <2>2, SameInNoop_1
         DEF D!RequestFn, D!Issued, D!Unasked, D!OnlyDevice, D!Unchanging, D!ownVars, ownVars,
             D!frameVars, frameVars
    <3> QED  BY <3>1, DeviceIInv
  <2> QED  BY <2>1, <2>2
<1>8. ASSUME \/ D!Unchanging(D!kick_queue) \/ D!Unchanging(D!KickSuccessor)
             \/ D!KickAfterKfree
      PROVE  IInv'
  <2>1. CASE D!KickAfterKfree
    BY <2>1, KickAfterKfreeIInv
       DEF D!KickAfterKfree, D!ownVars, ownVars, D!deviceVars, deviceVars
  <2>2. CASE D!Unchanging(D!kick_queue) \/ D!Unchanging(D!KickSuccessor)
    <3>1. UNCHANGED ownVars /\ FrameStep
      BY <2>2, SameInNoop_1 DEF D!Unchanging, D!ownVars, ownVars, FrameStep
    <3> QED  BY <3>1, FrameIInv
  <2> QED  BY <1>8, <2>1, <2>2
<1>9. ASSUME D!Switch
      PROVE  IInv'
  <2>1. CASE D!noop_exit_queue
    BY <2>1, ExitIInv
       DEF D!noop_exit_queue, D!deviceVars, deviceVars, IInv, Types, FrameTypeOK
  <2>2. CASE D!noop_init_queue
    BY <2>2, InitQueueIInv DEF D!noop_init_queue, D!deviceVars, deviceVars
  <2>3. CASE \/ D!Unchanging(D!BypassStart)
             \/ \E c \in Ctx : D!Unchanging(D!DrainStart(c))
    <3>1. UNCHANGED ownVars /\ FrameStep
      BY <2>3, SameInNoop_1 DEF D!Unchanging, D!ownVars, ownVars, FrameStep
    <3> QED  BY <3>1, FrameIInv
  <2> QED  BY <1>9, <2>1, <2>2, <2>3 DEF D!Switch
<1> QED  BY <1>1, <1>2, <1>3, <1>6, <1>7, <1>8, <1>9 DEF D!Next

\* Every step of noop_with_congestion.c preserves IInv.
LEMMA CongestionStep ==
  ASSUME IInv, congestion, C!Next, UNCHANGED <<program, left>>
  PROVE  IInv'
<1>0. /\ depth \in Nat /\ queue \in Seq(Requests) /\ Limit = REQUEST_DEPTH
      /\ armed \in BOOLEAN /\ firing \in BOOLEAN /\ REQUEST_DEPTH \in Nat
  BY DepthAssumption DEF IInv, Types, Limit, noop_1, congestion
<1>1. ASSUME NEW r \in Requests, C!Unchanging(C!GetRequest(r, C!Linked))
      PROVE  IInv'
  <2>1. UNCHANGED ownVars /\ FrameStep
    BY <1>1, SameInCongestion DEF C!Unchanging, C!ownVars, ownVars, FrameStep
  <2> QED  BY <2>1, FrameIInv
<1>2. ASSUME NEW r \in Requests, C!noop_completed(r)
      PROVE  IInv'
  <2>1. /\ DeviceComplete(r) /\ depth' = depth - 1
        /\ nr_size' = nr_size - 1 /\ KickIf(nr_size' > 0)
        /\ armed' = (armed \/ nr_size' > 0)
        /\ UNCHANGED <<queue, firing, plugged, stale, elv>>
    BY <1>2, SameInCongestion DEF C!noop_completed, C!FreeSlot,
         C!KickIfMore, C!KickIf, KickIf
  <2> QED  BY <2>1, CompleteIInv
<1>3. ASSUME NEW c \in Ctx, NEW r \in Requests, C!Flush(c, r)
      PROVE  IInv'
  <2>1. CASE C!noop_add_request(c, r)
    <3>1. /\ Insert(c, r, plugged) /\ queue' = Append(queue, r)
          /\ nr_size' = nr_size + 1
          /\ UNCHANGED <<depth, armed, firing, stale, unplug_work>>
      BY <2>1, SameInCongestion DEF C!noop_add_request
    <3> QED  BY <3>1, AddIInv
  <2>2. CASE C!Merged(C!InsertMerge(c, r, plugged, C!Linked))
    <3>1. UNCHANGED ownVars /\ FrameStep
      BY <2>2, SameInCongestion DEF C!Merged, C!CountMerged, ownVars, FrameStep
    <3> QED  BY <3>1, FrameIInv
  <2>3. ASSUME NEW v \in Requests, C!Merged(C!MergeLinked(c, r, v, plugged, C!Linked))
        PROVE  IInv'
    <3>1. UNCHANGED ownVars /\ FrameStep
      BY <2>3, SameInCongestion DEF C!Merged, C!CountMerged, ownVars, FrameStep
    <3> QED  BY <3>1, FrameIInv
  <2> QED  BY <1>3, <2>1, <2>2, <2>3 DEF C!Flush
<1>4. ASSUME NEW c \in Ctx, pc[c] \in {"run", "drain"}, C!noop_dispatch,
             C!Asked, UNCHANGED pc
      PROVE  IInv'
  <2>1. /\ ~(depth > REQUEST_DEPTH) /\ queue # <<>> /\ depth' = depth + 1
        /\ queue' = Tail(queue) /\ C!Dispatched(Head(queue))
        /\ armed' \in BOOLEAN /\ (armed' => armed)
    BY <1>0, <1>4 DEF C!noop_dispatch, C!Full, C!TryToCancel
  <2>2. Head(queue) \in Requests /\ depth <= Limit
    <3>1. Head(queue) \in Requests
      BY <1>0, <2>1, HeadTailProperties
    <3> QED  BY <1>0, <2>1, <3>1
  <2>3. Dispatched(Head(queue))
    BY <2>1, <2>2, SameInCongestion
  <2> QED  BY <1>0, <1>4, <2>1, <2>2, <2>3, DispatchIInv DEF C!Asked
<1>5. ASSUME NEW c \in Ctx, C!Peek(c)
      PROVE  IInv'
  <2>1. pc[c] = "run" /\ queue_head = <<>> /\ C!Asked
    BY <1>5 DEF C!Peek
  <2>2. CASE C!noop_dispatch /\ UNCHANGED pc
    BY <1>4, <2>1, <2>2
  <2>3. CASE C!noop_dispatch_nothing /\ C!At(c, "idle") /\ UNCHANGED elv
    <3>1. /\ depth > Limit \/ queue = <<>>
          /\ UNCHANGED <<queue, depth, queue_head, frameVars>>
      BY <1>0, <2>1, <2>3 DEF C!noop_dispatch_nothing, C!Full, C!Asked, frameVars
    <3>2. armed' = armed \/ armed' = (armed /\ firing)
      BY <2>3 DEF C!noop_dispatch_nothing, C!TryToCancel
    <3>3. armed' \in BOOLEAN /\ (armed' => armed)
      BY <1>0, <3>2
    <3> QED
      BY <1>0, <2>1, <2>3, <3>1, <3>3, SameInCongestion, PeekNothingIInv DEF C!Asked
  <2> QED  BY <1>5, <2>2, <2>3 DEF C!Peek
<1>6. ASSUME NEW c \in Ctx, C!Drain(c), elv # "oops"
      PROVE  IInv'
  <2>1. pc[c] = "drain" /\ C!Asked
    BY <1>6 DEF C!Drain
  <2>2. CASE C!noop_dispatch /\ UNCHANGED pc
    BY <1>4, <2>1, <2>2
  <2>3. CASE C!noop_dispatch_nothing /\ C!DrainTurnEnds(c, C!Linked)
    <3>1. UNCHANGED <<queue, depth, queue_head>> /\ DrainTurnEnds(c, Range(queue))
      BY <2>3, SameInCongestion DEF C!noop_dispatch_nothing
    <3>3. armed' = armed \/ armed' = (armed /\ firing)
      BY <2>3 DEF C!noop_dispatch_nothing, C!TryToCancel
    <3>4. armed' \in BOOLEAN /\ (armed' => armed)
      BY <1>0, <3>3
    <3>2. elv = "bypass"
      BY <1>6, <2>1 DEF IInv, Gone
    <3> QED  BY <1>0, <2>1, <3>1, <3>2, <3>4, DrainNothingIInv DEF C!Asked
  <2> QED  BY <1>6, <2>2, <2>3 DEF C!Drain
<1>7. ASSUME NEW c \in Ctx, C!RequestFn(c) \/ C!Issued(c) \/ C!Unasked(c)
      PROVE  IInv'
  <2>1. CASE C!Peek(c)
    BY <1>5, <2>1
  <2>2. CASE ~C!Peek(c)
    <3>1. /\ UNCHANGED <<ownVars, frameVars>>
          /\ \/ DeviceBusy(c) \/ DeviceStart(c) \/ DeviceIssued(c) \/ DeviceRequeue(c)
             \/ elv = "bypass" /\ DeviceBypassed(c)
             \/ elv \in {"attached", "bypass"} /\ RunQueue(c)
      BY <1>7, <2>2, SameInCongestion
         DEF C!RequestFn, C!Issued, C!Unasked, C!OnlyDevice, C!Unchanging, C!ownVars, ownVars,
             C!frameVars, frameVars
    <3> QED  BY <3>1, DeviceIInv
  <2> QED  BY <2>1, <2>2
<1>8. ASSUME \/ C!Unchanging(C!kick_queue) \/ C!Unchanging(C!KickSuccessor)
             \/ C!TimerExpires \/ C!noop_idle_slice_timer
      PROVE  IInv'
  <2>1. CASE C!Unchanging(C!kick_queue)
    <3>1. UNCHANGED ownVars /\ FrameStep
      BY <2>1, SameInCongestion DEF C!Unchanging, C!ownVars, ownVars, FrameStep
    <3> QED  BY <3>1, FrameIInv
  <2>2. CASE C!Unchanging(C!KickSuccessor)
    <3>1. UNCHANGED ownVars /\ FrameStep
      BY <2>2, SameInCongestion DEF C!Unchanging, C!ownVars, ownVars, FrameStep
    <3> QED  BY <3>1, FrameIInv
  <2>3. CASE C!TimerExpires
    <3>1. /\ armed /\ armed' = FALSE /\ firing' = TRUE
          /\ UNCHANGED <<queue, depth, nr_size, frameVars, deviceVars>>
      BY <2>3 DEF C!TimerExpires, C!frameVars, frameVars, C!deviceVars, deviceVars
    <3> QED  BY <1>0, <3>1, TimerIInv DEF frameVars
  <2>4. CASE C!noop_idle_slice_timer
    <3>1. /\ firing /\ firing' = FALSE /\ KickIf(queue # <<>>)
          /\ UNCHANGED <<queue, depth, nr_size, armed, plugged, stale, elv, deviceVars>>
      BY <2>4 DEF C!noop_idle_slice_timer, C!KickIf, KickIf, C!deviceVars, deviceVars
    <3>2. unplug_work \in BOOLEAN
      BY DEF IInv, Types, FrameTypeOK
    <3>3. unplug_work' = unplug_work \/ unplug_work' = TRUE
      BY <3>1, <3>2 DEF KickIf
    <3>4. firing' \in BOOLEAN /\ armed' \in BOOLEAN /\ (armed' => armed) /\ ~firing'
      BY <1>0, <3>1
    <3> QED  BY <3>1, <3>3, <3>4, TimerIInv
  <2> QED  BY <1>8, <2>1, <2>2, <2>3, <2>4
<1>9. ASSUME C!Switch
      PROVE  IInv'
  <2>1. CASE C!noop_exit_queue
    <3>1. queue = <<>> /\ elv = "detached"
      BY <2>1 DEF IInv, Gone, C!noop_exit_queue
    <3>2. /\ elv' = "freed" /\ ~firing /\ armed' = FALSE /\ unplug_work' = FALSE
          /\ UNCHANGED <<queue, depth, nr_size, firing, plugged, stale, deviceVars>>
      BY <2>1, <3>1 DEF C!noop_exit_queue, C!CancelWaits, C!deviceVars, deviceVars
    <3>3. left' \in BOOLEAN
      BY DEF IInv, Types
    <3> QED  BY <3>1, <3>2, <3>3, ExitIInv
  <2>2. CASE C!noop_init_queue
    BY <2>2, InitQueueIInv DEF C!noop_init_queue, C!deviceVars, deviceVars
  <2>3. CASE \/ C!Unchanging(C!BypassStart)
             \/ \E c \in Ctx : C!Unchanging(C!DrainStart(c))
    <3>1. UNCHANGED ownVars /\ FrameStep
      BY <2>3, SameInCongestion DEF C!Unchanging, C!ownVars, ownVars, FrameStep
    <3> QED  BY <3>1, FrameIInv
  <2> QED  BY <1>9, <2>1, <2>2, <2>3 DEF C!Switch
<1> QED  BY <1>1, <1>2, <1>3, <1>6, <1>7, <1>8, <1>9 DEF C!Next

-----------------------------------------------------------------------------
(* The theorems.                                                           *)

\* IInv is an inductive invariant of either program and of a switch.
LEMMA StepIInv ==
  IInv /\ [Loaded(D!Next, C!Next) \/ LoadOther \/ LeftWorkRuns]_allVars => IInv'
<1> SUFFICES ASSUME IInv,
                    [Loaded(D!Next, C!Next) \/ LoadOther \/ LeftWorkRuns]_allVars
             PROVE  IInv'
  OBVIOUS
<1>1. CASE noop_1 /\ D!Next /\ UNCHANGED <<nr_size, armed, firing, program>>
  BY <1>1, Noop_1Step
<1>2. CASE congestion /\ C!Next /\ UNCHANGED <<program, left>>
  BY <1>2, CongestionStep
<1>3. CASE LoadOther
  BY <1>3, LoadOtherIInv
<1>4. CASE UNCHANGED allVars
  <2>1. UNCHANGED <<ownVars, frameVars, deviceVars>>
    BY <1>4 DEF allVars, ownVars
  <2> QED
    BY <2>1 DEF IInv, Types, Placed, Counts, Gone, Timers, Waits, Idle, Held, Limit,
                noop_1, congestion, FrameTypeOK, DeviceTypeOK, ownVars, frameVars, deviceVars
<1>5. CASE LeftWorkRuns
  BY <1>5, KickAfterKfreeIInv
     DEF LeftWorkRuns, D!KickAfterKfree, D!ownVars, ownVars, D!deviceVars, deviceVars
<1> QED  BY <1>1, <1>2, <1>3, <1>4, <1>5 DEF Loaded

\* IInv holds in every state of every behaviour.
THEOREM Invariance == Spec => []IInv
BY InitIInv, StepIInv, PTL DEF Spec

\* The state of either program keeps its type.
THEOREM TypeCorrect == Spec => []TypeOK
<1>1. IInv => TypeOK
  BY DEF IInv, Types, TypeOK, D!TypeOK, C!TypeOK, FrameTypeOK, D!FrameTypeOK,
         C!FrameTypeOK, DeviceTypeOK, D!DeviceTypeOK, C!DeviceTypeOK
<1> QED  BY <1>1, Invariance, PTL

\* noop_1.c's depth is exact, and exceeds the limit by one at most.
THEOREM DepthIsExact == Spec => []DepthExact
<1>1. IInv => DepthExact
  <2> SUFFICES ASSUME IInv, noop_1 PROVE D!DepthExact
    BY DEF DepthExact
  <2>1. D!Held = Held
    BY DEF D!Held, Held, D!Cardinality, Cardinality
  <2> QED  BY <2>1 DEF D!DepthExact, IInv, Counts, Limit
<1> QED  BY <1>1, Invariance, PTL

\* noop_with_congestion.c's counts never fall short of what is outstanding.
THEOREM CountsAreEnough == Spec => []CountsSuffice
<1>1. IInv => CountsSuffice
  <2> SUFFICES ASSUME IInv, congestion PROVE C!CountsSuffice
    BY DEF CountsSuffice
  <2>1. C!Held = Held /\ Limit = REQUEST_DEPTH
    BY TypeFacts DEF C!Held, Held, C!Cardinality, Cardinality, Limit, IInv
  <2> QED  BY <2>1 DEF C!CountsSuffice, IInv, Counts
<1> QED  BY <1>1, Invariance, PTL

\* Neither program loses a kick, whatever its limit.
THEOREM NothingStranded == Spec => []NoStranded
<1>1. IInv => NoStranded
  <2> SUFFICES ASSUME IInv, queue # <<>> \/ queue_head # <<>>, Idle,
                      ~unplug_work, inflight = {}, elv # "bypass", elv # "oops"
               PROVE  FALSE
    BY DEF NoStranded, D!NoStranded, C!NoStranded, Idle
  <2>1. elv \in {"attached", "bypass", "detached", "freed", "oops"}
    BY DEF IInv, Types, FrameTypeOK
  <2> QED  BY <2>1 DEF IInv, Gone, Waits
<1> QED  BY <1>1, Invariance, PTL

\* The BUG_ON of noop_exit_queue in either program cannot fire: a drain leaves
\* nothing, although its forced dispatches give up at the limit.
THEOREM DrainSuffices == Spec => []ExitFindsQueueEmpty
<1>1. IInv => ExitFindsQueueEmpty
  BY EmptyRange DEF ExitFindsQueueEmpty, D!ExitFindsQueueEmpty, D!OutstandingWith,
                    D!Linked, D!Range, Range, IInv, Gone
<1> QED  BY <1>1, Invariance, PTL

\* The timer and the work item of noop_with_congestion.c end before the
\* memory they are in.
THEOREM WorkIsStopped == Spec => []WorkStopsAtFree
<1>1. IInv => WorkStopsAtFree
  BY KblockdAssumption DEF WorkStopsAtFree, C!WorkStopsAtFree, IInv, Timers, Gone
<1> QED  BY <1>1, Invariance, PTL
=============================================================================
