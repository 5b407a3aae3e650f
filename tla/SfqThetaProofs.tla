---------------------------- MODULE SfqThetaProofs ----------------------------
(***************************************************************************)
(* Proofs about SfqTheta for every depth limit, every finite set of        *)
(* requests and every set of contexts.                                     *)
(*                                                                         *)
(* CountsExact and NoStranded hold whatever registrations race and         *)
(* wherever the cursor goes: the invariant IInv says nothing of the ring.  *)
(* Exact counts need every request to be in one place (Placed), among      *)
(* them the requests that tasks are setting up.  That the cursor never     *)
(* stops at a remembered list head needs little of the ring (RaceInv): its *)
(* pointers are to registered queues or to its head.  All theorems are of  *)
(* SafeSpec, in which registrations race with everything.                  *)
(***************************************************************************)
EXTENDS SfqTheta, BlockDeviceProofs

Labels == {"idle", "flush", "run", "issue", "drain", "setup", "link"}

Types ==
  /\ cur \in [Tasks -> Requests \cup {NoReq}]
  /\ pending \in Seq(Requests)
  /\ depth \in Nat /\ sfqr_size \in Nat
  /\ armed \in BOOLEAN /\ firing \in BOOLEAN
  /\ FrameTypeOK({"setup", "link"})

\* Every request is in one place; a task inside sfq_set_request has one.
Placed ==
  /\ IsInjective(pending)
  /\ Apart(Linked, plugged \cup SettingUp, queue_head, inflight)
  /\ plugged \cap SettingUp = {}
  /\ \A p, q \in Tasks : cur[p] = cur[q] /\ cur[p] # NoReq => p = q

InSetup == \A p \in Tasks : cur[p] # NoReq <=> pc[p] \in {"setup", "link"}

Gone ==
  /\ elv \in {"detached", "freed"} =>
       /\ plugged = {} /\ pending = <<>> /\ queue_head = <<>> /\ inflight = {}
       /\ \A c \in Ctx : pc[c] = "idle"
  /\ \A c \in Ctx : pc[c] = "drain" => elv \in {"bypass", "oops"}

IInv == Types /\ Placed /\ InSetup /\ CountsExact /\ Gone /\ NoStranded

-----------------------------------------------------------------------------
(* What the parts of the invariant depend on.                              *)

LEMMA TypeFacts ==
  ASSUME Types
  PROVE  /\ DeviceTypeOK /\ Held \in Nat /\ Len(queue_head) \in Nat
         /\ pending \in Seq(Requests) /\ Len(pending) \in Nat
         /\ Linked \subseteq Requests
         /\ DOMAIN pending = 1 .. Len(pending)
         /\ pc \in [Ctx -> Labels]
<1>1. DeviceTypeOK /\ pending \in Seq(Requests) /\ pc \in [Ctx -> Labels]
  BY DEF Types, FrameTypeOK, Labels
<1>2. Held \in Nat /\ Len(queue_head) \in Nat
  BY <1>1, HeldType
<1>3. Len(pending) \in Nat /\ Linked \subseteq Requests
      /\ DOMAIN pending = 1 .. Len(pending)
  BY <1>1, LenProperties, RangeOfSeq DEF Linked
<1> QED  BY <1>1, <1>2, <1>3

\* Steps that move no request between the elevator and the device.
LEMMA SameLists ==
  ASSUME CountsExact,
         UNCHANGED <<pending, queue_head, inflight, depth, sfqr_size>>
  PROVE  CountsExact'
BY DEF CountsExact, Held

LEMMA SamePlaces ==
  ASSUME Placed, UNCHANGED <<pending, queue_head, inflight, cur>>,
         plugged' \subseteq plugged
  PROVE  Placed'
BY DEF Placed, Apart, Linked, SettingUp

\* The queue is being run.
LEMMA Running ==
  ASSUME NEW c \in Ctx, pc'[c] \in {"flush", "run", "issue", "drain"}
  PROVE  NoStranded'
BY DEF NoStranded

LEMMA InitIInv == Init => IInv
<1> SUFFICES ASSUME Init PROVE IInv
  OBVIOUS
<1> USE DEF Init, FrameInit, DeviceInit
<1>1. <<>> \in Seq(Requests) /\ Len(<<>>) = 0
  BY EmptySeq
<1>2. Types
  BY <1>1 DEF Types, FrameTypeOK, DeviceTypeOK
<1>3. SettingUp = {} /\ Linked = {} /\ Range(queue_head) = {}
  BY DEF SettingUp, Linked, Range
<1>4. Placed
  BY <1>3 DEF Placed, Apart, IsInjective
<1>5. CountsExact
  BY <1>1, FS_EmptySet, DepthAssumption DEF CountsExact, Held
<1>6. InSetup
  BY DEF InSetup, Tasks
<1>7. Gone /\ NoStranded
  BY DEF Gone, NoStranded
<1> QED  BY <1>2, <1>4, <1>5, <1>6, <1>7 DEF IInv

-----------------------------------------------------------------------------
(* sfq_set_request, with its accesses to the ring.                         *)

LEMMA SetUpIInv ==
  ASSUME IInv, NEW p \in Tasks, NEW r \in Requests, SetUp(p, r)
  PROVE  IInv'
<1> USE DEF IInv
<1>0. /\ Types /\ p \in Ctx /\ pc \in [Ctx -> Labels] /\ DeviceTypeOK
      /\ cur \in [Tasks -> Requests \cup {NoReq}] /\ r # NoReq
  BY TypeFacts, RequestsAssumption DEF Types, Tasks
<1>1. ASSUME SetupBegins(p, r)
      PROVE  /\ UNCHANGED <<pending, depth, sfqr_size, armed, firing, stale>>
             /\ UNCHANGED <<unplug_work, queue_head, inflight, issuing>>
             /\ pc[p] = "idle" /\ elv = "attached" /\ r \notin SettingUp
             /\ r \notin plugged /\ r \notin Linked
             /\ r \notin Range(queue_head) /\ r \notin inflight
  BY <1>1 DEF SetupBegins, queueVars, OutstandingWith
<1>2. CASE sfq_set_request_known(p, r)
  <2>1. SetupBegins(p, r) /\ plugged' = plugged \cup {r} /\ UNCHANGED <<cur, pc, elv>>
    BY <1>2 DEF sfq_set_request_known
  <2>2. Types'
    BY <1>0, <1>1, <2>1 DEF Types, FrameTypeOK, DeviceTypeOK
  <2>3. Placed'
    BY <1>1, <2>1 DEF Placed, Apart, Linked, SettingUp
  <2>4. CountsExact'
    BY <1>1, <2>1, SameLists
  <2> QED
    BY <1>1, <2>1, <2>2, <2>3, <2>4 DEF InSetup, Gone, NoStranded
<1>3. CASE sfq_set_request_new(p, r)
  <2>1. /\ SetupBegins(p, r) /\ cur' = [cur EXCEPT ![p] = r]
        /\ pc' = [pc EXCEPT ![p] = "setup"] /\ UNCHANGED <<plugged, elv>>
    BY <1>3 DEF sfq_set_request_new, At
  <2>2. Types'
    BY <1>0, <1>1, <2>1 DEF Types, FrameTypeOK, DeviceTypeOK
  <2>3. SettingUp' \subseteq SettingUp \cup {r}
    BY <1>0, <2>1 DEF SettingUp, Range
  <2>4. \A q \in Tasks : cur[q] # r
    BY <1>0, <1>1, <2>1 DEF SettingUp, Range
  <2>5. Placed'
    <3>1. Apart(Linked, plugged \cup SettingUp', queue_head, inflight)
      BY <1>1, <2>1, <2>3 DEF Placed, Apart
    <3>2. \A q, s \in Tasks : cur'[q] = cur'[s] /\ cur'[q] # NoReq => q = s
      BY <1>0, <2>1, <2>4 DEF Placed
    <3> QED
      BY <1>1, <2>1, <2>3, <3>1, <3>2 DEF Placed, Linked
  <2>6. InSetup'
    BY <1>0, <2>1 DEF InSetup, Labels
  <2>7. CountsExact'
    BY <1>1, <2>1, SameLists
  <2>8. Gone' /\ NoStranded'
    BY <1>0, <1>1, <2>1 DEF Gone, NoStranded, Labels
  <2> QED  BY <2>2, <2>5, <2>6, <2>7, <2>8
<1>4. CASE sfq_set_request_fails(p, r)
  <2>1. SetupBegins(p, r) /\ elv' = "oops" /\ UNCHANGED <<cur, plugged, pc>>
    BY <1>4 DEF sfq_set_request_fails, setupVars
  <2>2. Types'
    BY <1>0, <1>1, <2>1 DEF Types, FrameTypeOK, DeviceTypeOK
  <2>3. Placed' /\ CountsExact'
    BY <1>1, <2>1, SameLists, SamePlaces
  <2> QED  BY <2>1, <2>2, <2>3 DEF InSetup, Gone, NoStranded
<1> QED  BY <1>2, <1>3, <1>4 DEF SetUp

LEMMA RegisterIInv ==
  ASSUME IInv, NEW p \in Tasks, Register(p)
  PROVE  IInv'
<1> USE DEF IInv
<1>0. /\ Types /\ p \in Ctx /\ pc \in [Ctx -> Labels] /\ DeviceTypeOK
      /\ cur \in [Tasks -> Requests \cup {NoReq}] /\ NoReq \notin Requests
  BY TypeFacts, RequestsAssumption DEF Types, Tasks
<1>1. CASE LinkTail(p)
  <2>1. /\ pc[p] = "setup" /\ pc' = [pc EXCEPT ![p] = "link"]
        /\ UNCHANGED <<cur, pending, depth, sfqr_size, armed, firing, frameVars>>
        /\ UNCHANGED <<queue_head, inflight, issuing>>
    BY <1>1 DEF LinkTail, At, queueVars
  <2>2. Types' /\ InSetup'
    BY <1>0, <2>1
       DEF Types, FrameTypeOK, DeviceTypeOK, frameVars, InSetup, Labels
  <2>3. Placed' /\ CountsExact'
    BY <2>1, SameLists, SamePlaces DEF frameVars
  <2> QED
    BY <1>0, <2>1, <2>2, <2>3 DEF Gone, NoStranded, frameVars, Labels
<1>2. CASE LinkPrev(p)
  <2>1. /\ pc[p] = "link" /\ pc' = [pc EXCEPT ![p] = "idle"]
        /\ plugged' = plugged \cup {cur[p]}
        /\ cur' = [cur EXCEPT ![p] = NoReq]
        /\ UNCHANGED <<pending, depth, sfqr_size, armed, firing, stale>>
        /\ UNCHANGED <<unplug_work, elv, queue_head, inflight, issuing>>
    BY <1>2 DEF LinkPrev, At, queueVars
  <2>2. cur[p] \in Requests /\ cur[p] # NoReq
    BY <1>0, <2>1 DEF InSetup
  <2>3. Types' /\ InSetup'
    BY <1>0, <2>1, <2>2 DEF Types, FrameTypeOK, DeviceTypeOK, InSetup, Labels
  <2>4. SettingUp' = SettingUp \ {cur[p]} /\ cur[p] \in SettingUp
    BY <1>0, <2>1, <2>2 DEF SettingUp, Range, Placed
  <2>5. Placed'
    <3>1. plugged' \cup SettingUp' = plugged \cup SettingUp
      BY <2>1, <2>4
    <3>2. \A q, s \in Tasks : cur'[q] = cur'[s] /\ cur'[q] # NoReq => q = s
      BY <1>0, <2>1 DEF Placed
    <3> QED  BY <2>1, <2>4, <3>1, <3>2 DEF Placed, Linked
  <2>6. CountsExact'
    BY <2>1, SameLists
  <2> QED
    BY <1>0, <2>1, <2>3, <2>5, <2>6 DEF Gone, NoStranded, Labels
<1> QED  BY <1>1, <1>2 DEF Register

-----------------------------------------------------------------------------
(* Insertion, merges and dispatches.                                       *)

LEMMA FlushIInv ==
  ASSUME IInv, NEW p \in Tasks, NEW r \in Requests, Flush(p, r)
  PROVE  IInv'
<1> USE DEF IInv
<1>0. /\ Types /\ p \in Ctx /\ pc \in [Ctx -> Labels] /\ DeviceTypeOK
      /\ pending \in Seq(Requests)
  BY TypeFacts DEF Types, Tasks
\* What an insertion and a merge have in common.
<1>1. ASSUME Insert(p, r, PluggedBy(p)), stale' \subseteq Requests,
             UNCHANGED <<cur, armed, firing, unplug_work>>
      PROVE  /\ r \in plugged /\ plugged' = plugged \ {r}
             /\ UNCHANGED <<elv, queue_head, inflight, issuing>>
             /\ FrameTypeOK({"setup", "link"})'
             /\ InSetup' /\ NoStranded'
             /\ (pending' = pending \/ elv \notin {"detached", "freed"}) => Gone'
             /\ elv \notin {"detached", "freed"}
  <2>1. /\ r \in plugged /\ plugged' = plugged \ {r}
        /\ UNCHANGED <<elv, queue_head, inflight, issuing>>
        /\ pc[p] \in {"idle", "flush"}
        /\ \E l \in {"run", "flush"} : pc' = [pc EXCEPT ![p] = l]
    BY <1>1 DEF Insert, PluggedBy, At
  <2>2. FrameTypeOK({"setup", "link"})'
    BY <1>0, <1>1, <2>1 DEF Types, FrameTypeOK, DeviceTypeOK
  <2>3. InSetup'
    BY <1>0, <1>1, <2>1 DEF InSetup, Labels
  <2>4. pc'[p] \in {"run", "flush"}
    BY <1>0, <2>1
  <2>5. NoStranded'
    BY <1>0, <2>4, Running
  <2>6. elv \notin {"detached", "freed"}
    BY <2>1 DEF Gone
  <2>7. Gone'
    BY <1>0, <2>1, <2>6 DEF Gone, Labels
  <2> QED  BY <2>1, <2>2, <2>3, <2>5, <2>6, <2>7
<1>2. CASE sfq_add_request(p, r)
  <2>1. /\ Insert(p, r, PluggedBy(p)) /\ pending' = Append(pending, r)
        /\ sfqr_size' = sfqr_size + 1
        /\ UNCHANGED <<depth, stale, unplug_work, cur, armed, firing>>
    BY <1>2 DEF sfq_add_request, CountAdded, setupVars
  <2>2. stale' \subseteq Requests
    BY <1>0, <2>1 DEF Types, FrameTypeOK
  <2>3. /\ r \in plugged /\ plugged' = plugged \ {r} /\ InSetup' /\ NoStranded'
        /\ UNCHANGED <<elv, queue_head, inflight, issuing>> /\ Gone'
        /\ FrameTypeOK({"setup", "link"})'
    BY <1>1, <2>1, <2>2
  <2>4. /\ pending' \in Seq(Requests) /\ Len(pending') = Len(pending) + 1
        /\ Linked' = Linked \cup {r}
        /\ r \notin Linked => IsInjective(pending')
    BY <1>0, <2>1, AppendProperties, AppendDistinct DEF Linked, Placed
  <2>5. Types'
    BY <1>0, <2>1, <2>3, <2>4 DEF Types
  <2>6. Placed'
    BY <2>1, <2>3, <2>4 DEF Placed, Apart, SettingUp
  <2>7. CountsExact'
    <3>1. Held' = Held
      BY <2>3 DEF Held
    <3> QED  BY <1>0, <2>1, <2>4, <3>1, TypeFacts DEF CountsExact
  <2> QED  BY <2>3, <2>5, <2>6, <2>7
<1>3. CASE Unchanging(Merge(p, r)) /\ UNCHANGED unplug_work
  <2>1. /\ Insert(p, r, PluggedBy(p)) /\ stale' \subseteq Requests
        /\ UNCHANGED <<pending, depth, sfqr_size, unplug_work, cur, armed, firing>>
    BY <1>0, <1>3
       DEF Unchanging, Merge, InsertMerge, MergeLinked, setupVars, queueVars,
           Types, FrameTypeOK
  <2>2. /\ plugged' = plugged \ {r} /\ InSetup' /\ NoStranded' /\ Gone'
        /\ UNCHANGED <<elv, queue_head, inflight, issuing>>
        /\ FrameTypeOK({"setup", "link"})'
    BY <1>1, <2>1
  <2>3. Types'
    BY <1>0, <2>1, <2>2 DEF Types
  <2>4. Placed' /\ CountsExact'
    BY <2>1, <2>2, SameLists, SamePlaces
  <2> QED  BY <2>2, <2>3, <2>4
<1> QED  BY <1>2, <1>3 DEF Flush

LEMMA DispatchIInv ==
  ASSUME IInv, NEW c \in Ctx, pc[c] \in {"run", "drain"},
         Dispatching, UNCHANGED pc, sfq_dispatch_one \/ sfq_dispatch_wild
  PROVE  IInv'
<1> USE DEF IInv
<1>0. /\ Types /\ pc \in [Ctx -> Labels] /\ DeviceTypeOK
      /\ pending \in Seq(Requests) /\ DOMAIN pending = 1 .. Len(pending)
      /\ Held \in Nat /\ Len(pending) \in Nat
  BY TypeFacts
<1>1. /\ UNCHANGED <<cur, sfqr_size, firing, plugged, stale, inflight, issuing>>
      /\ armed' = TRUE
  BY DEF Dispatching, StartTimer, setupVars
<1>2. InSetup' /\ NoStranded'
  BY <1>0, <1>1, Running DEF InSetup
<1>3. ASSUME elv' \in {elv, "oops"}, elv \notin {"detached", "freed"}
      PROVE  Gone'
  BY <1>3 DEF Gone
<1>4. elv \notin {"detached", "freed"}
  BY DEF Gone
<1>5. CASE sfq_dispatch_wild
  <2>1. /\ elv' = "oops" /\ UNCHANGED <<pending, depth, unplug_work, queue_head>>
    BY <1>5 DEF sfq_dispatch_wild
  <2>2. Types'
    BY <1>0, <1>1, <2>1 DEF Types, FrameTypeOK, DeviceTypeOK
  <2>3. Placed' /\ CountsExact'
    BY <1>1, <2>1, SameLists, SamePlaces
  <2> QED  BY <1>2, <1>3, <1>4, <2>1, <2>2, <2>3
<1>6. CASE sfq_dispatch_one
  <2>1. PICK i \in 1 .. Len(pending) :
             pending' = Without(pending, i) /\ Dispatched(pending[i])
    BY <1>0, <1>6 DEF sfq_dispatch_one, Positions
  <2>2. depth <= REQUEST_DEPTH /\ depth' = depth + 1 /\ UNCHANGED unplug_work
    BY <1>0, <1>6, DepthAssumption DEF sfq_dispatch_one, OverDepth, Types
  <2> DEFINE r == pending[i]
  <2>3. /\ r \in Requests /\ r \in Linked
        /\ pending' \in Seq(Requests) /\ Len(pending') = Len(pending) - 1
        /\ Linked' = Linked \ {r} /\ IsInjective(pending')
    <3>1. r \in Requests /\ r \in Linked
      BY <1>0, <2>1, ElementOfSeq DEF Linked, Range
    <3>2. pending' \in Seq(Requests) /\ Len(pending') = Len(pending) - 1
      BY <1>0, <2>1, WithoutProperties
    <3>3. IsInjective(pending)
      BY DEF Placed
    <3>4. Range(Without(pending, i)) = Range(pending) \ {pending[i]}
          /\ IsInjective(Without(pending, i))
      BY <1>0, <3>3, WithoutDistinct
    <3> QED  BY <2>1, <3>1, <3>2, <3>4 DEF Linked
  <2> HIDE DEF r
  <2>4. PICK k \in 1 .. Len(queue_head) + 1 : queue_head' = With(queue_head, k, r)
    BY <2>1 DEF Dispatched, elv_dispatch_sort, r
  <2>5. elv' \in {elv, "oops"}
    BY <2>1 DEF Dispatched
  <2>6. queue_head' \in Seq(Requests) /\ Held' = Held + 1
    BY <1>0, <1>1, <2>1, <2>3, DispatchHeld DEF Dispatched, r
  <2>7. Types'
    <3>1. depth' \in Nat
      BY <1>0, <2>2 DEF Types
    <3> QED
      BY <1>0, <1>1, <2>2, <2>3, <2>5, <2>6, <3>1
         DEF Types, FrameTypeOK, DeviceTypeOK
  <2>8. Placed'
    <3>1. Apart(Linked \ {r}, plugged \cup SettingUp, queue_head', inflight)
      BY <1>0, <2>3, <2>4, ApartDispatch DEF Placed, DeviceTypeOK
    <3> QED  BY <1>1, <2>3, <3>1 DEF Placed, SettingUp
  <2>9. CountsExact'
    BY <1>0, <1>1, <2>2, <2>3, <2>6, DepthAssumption DEF CountsExact, Types
  <2> QED  BY <1>2, <1>3, <1>4, <2>5, <2>7, <2>8, <2>9
<1> QED  BY <1>5, <1>6

\* Return 0: the timer has been started.
LEMMA DispatchNothingIInv ==
  ASSUME IInv, NEW c \in Ctx, Dispatching, sfq_dispatch_nothing,
         \/ pc[c] = "run" /\ At(c, "idle") /\ UNCHANGED elv
         \/ pc[c] = "drain" /\ DrainTurnEnds(c, Linked \cup SettingUp)
  PROVE  IInv'
<1> USE DEF IInv
<1>0. /\ Types /\ pc \in [Ctx -> Labels] /\ DeviceTypeOK
      /\ pending \in Seq(Requests)
      /\ cur \in [Tasks -> Requests \cup {NoReq}]
  BY TypeFacts DEF Types
<1>1. /\ UNCHANGED <<cur, sfqr_size, firing, plugged, stale, inflight, issuing>>
      /\ UNCHANGED <<pending, depth, queue_head>>
      /\ unplug_work' \in BOOLEAN /\ armed' = TRUE
  BY <1>0 DEF Dispatching, StartTimer, setupVars, sfq_dispatch_nothing, KickIf,
              Types, FrameTypeOK
<1>2. NoStranded'
  BY <1>1 DEF NoStranded
<1>3. Placed' /\ CountsExact'
  BY <1>1, SameLists, SamePlaces
<1>4. PICK l \in {"idle", "run"} : pc' = [pc EXCEPT ![c] = l]
  BY DEF At, DrainTurnEnds
<1>5. elv' \in {elv, "detached"}
  BY DEF DrainTurnEnds
<1>6. Types' /\ InSetup'
  BY <1>0, <1>1, <1>4, <1>5
     DEF Types, FrameTypeOK, DeviceTypeOK, InSetup, Labels
<1>7. CASE UNCHANGED elv
  <2> QED  BY <1>0, <1>1, <1>2, <1>3, <1>4, <1>6, <1>7 DEF Gone, Labels
<1>8. CASE elv' # elv
  <2>1. Quiescent(c, Linked \cup SettingUp) /\ DrainTurnEnds(c, Linked \cup SettingUp)
    BY <1>8 DEF DrainTurnEnds
  <2>2. /\ plugged = {} /\ Linked = {} /\ Range(queue_head) = {} /\ inflight = {}
        /\ \A d \in Ctx \ {c} : pc[d] = "idle"
    BY <2>1 DEF Quiescent, OutstandingWith
  <2>3. pending = <<>> /\ queue_head = <<>>
    BY <1>0, <2>2, EmptyRange DEF Linked, DeviceTypeOK
  <2>4. pc' = [pc EXCEPT ![c] = "idle"]
    BY <2>1, <2>3 DEF DrainTurnEnds, At
  <2>5. Gone'
    BY <1>0, <1>1, <1>5, <1>8, <2>2, <2>3, <2>4 DEF Gone
  <2> QED  BY <1>2, <1>3, <1>6, <2>5
<1> QED  BY <1>7, <1>8

-----------------------------------------------------------------------------
(* The device, the timer, kicks and switches.                              *)

LEMMA DeviceIInv ==
  ASSUME IInv, NEW c \in Ctx,
         UNCHANGED <<setupVars, queueVars, armed, firing, frameVars>>,
         \/ DeviceBusy(c) \/ DeviceStart(c) \/ DeviceIssued(c) \/ DeviceRequeue(c)
         \/ elv = "bypass" /\ DeviceBypassed(c)
         \/ elv \in {"attached", "bypass"} /\ RunQueue(c)
  PROVE  IInv'
<1> USE DEF IInv, setupVars, queueVars, frameVars
<1>0. /\ Types /\ pc \in [Ctx -> Labels] /\ DeviceTypeOK
      /\ cur \in [Tasks -> Requests \cup {NoReq}]
  BY TypeFacts DEF Types
<1>1. ASSUME DeviceTypeOK', Held' = Held,
             Apart(Linked, plugged \cup SettingUp, queue_head', inflight'),
             pc[c] \in {"idle", "run", "issue"},
             pc[c] = "idle" => elv \in {"attached", "bypass"},
             NEW l \in {"idle", "run", "issue"}, pc' = [pc EXCEPT ![c] = l],
             l = "idle" => inflight' # {} \/ elv = "bypass"
      PROVE  IInv'
  <2>1. Types' /\ InSetup'
    BY <1>0, <1>1 DEF Types, FrameTypeOK, InSetup, Labels
  <2>2. Placed'
    BY <1>1 DEF Placed, Linked, SettingUp
  <2>3. CountsExact'
    BY <1>1 DEF CountsExact
  <2>4. Gone'
    BY <1>0, <1>1 DEF Gone, Labels
  <2>5. NoStranded'
    BY <1>0, <1>1 DEF NoStranded
  <2> QED  BY <2>1, <2>2, <2>3, <2>4, <2>5
<1>2. Apart(Linked, plugged \cup SettingUp, queue_head, inflight)
  BY DEF Placed
<1>3. CASE DeviceStart(c)
  <2>1. /\ pc' = [pc EXCEPT ![c] = "issue"] /\ pc[c] = "run"
        /\ queue_head # <<>> /\ queue_head' = Tail(queue_head)
        /\ inflight' = inflight \cup {Head(queue_head)}
    BY <1>3 DEF DeviceStart, At
  <2>2. /\ Head(queue_head) \notin inflight
        /\ Apart(Linked, plugged \cup SettingUp, queue_head', inflight')
    BY <1>0, <1>2, <2>1, ApartStart DEF DeviceTypeOK
  <2>3. Held' = Held /\ DeviceTypeOK'
    BY <1>0, <1>3, <2>2, StartHeldExact, StartHeld
  <2> QED  BY <1>1, <2>1, <2>2, <2>3
<1>4. CASE DeviceRequeue(c)
  <2>1. DeviceTypeOK' /\ Held' = Held /\ inflight' # {}
    BY <1>0, <1>4, RequeueHeld
  <2>2. /\ pc' = [pc EXCEPT ![c] = "idle"] /\ pc[c] = "issue"
        /\ issuing[c] \in inflight /\ queue_head' = <<issuing[c]>> \o queue_head
        /\ inflight' = inflight \ {issuing[c]}
    BY <1>4 DEF DeviceRequeue, At
  <2>3. Apart(Linked, plugged \cup SettingUp, queue_head', inflight')
    BY <1>0, <1>2, <2>2, ApartRequeue DEF DeviceTypeOK
  <2> QED  BY <1>1, <2>1, <2>2, <2>3
<1>5. CASE \/ DeviceBusy(c) \/ DeviceIssued(c)
           \/ elv = "bypass" /\ DeviceBypassed(c)
           \/ elv \in {"attached", "bypass"} /\ RunQueue(c)
  <2>1. DeviceTypeOK' /\ UNCHANGED <<queue_head, inflight>> /\ Held' = Held
    BY <1>0, <1>5, OtherHeld
  <2>2. PICK l \in {"idle", "run"} :
             /\ pc' = [pc EXCEPT ![c] = l]
             /\ l = "idle" => inflight # {} \/ elv = "bypass"
             /\ pc[c] \in {"idle", "run", "issue"}
             /\ pc[c] = "idle" => elv \in {"attached", "bypass"}
    BY <1>5 DEF DeviceBusy, DeviceIssued, DeviceBypassed, RunQueue, At
  <2> QED  BY <1>1, <1>2, <2>1, <2>2
<1> QED  BY <1>3, <1>4, <1>5

\* A completion cancels the timer, and kicks if anything is left.
LEMMA CompleteIInv ==
  ASSUME IInv, NEW r \in Requests, sfq_completed(r)
  PROVE  IInv'
<1> USE DEF IInv
<1>0. /\ Types /\ pc \in [Ctx -> Labels] /\ DeviceTypeOK
      /\ Held \in Nat /\ Len(pending) \in Nat /\ Len(queue_head) \in Nat
      /\ pending \in Seq(Requests) /\ queue_head \in Seq(Requests)
  BY TypeFacts DEF DeviceTypeOK
<1>1. /\ DeviceComplete(r) /\ depth' = depth - 1 /\ sfqr_size' = sfqr_size - 1
      /\ armed' \in BOOLEAN
      /\ unplug_work' = (unplug_work \/ sfqr_size' > 0)
      /\ UNCHANGED <<cur, pending, firing, plugged, stale, elv>>
  BY <1>0 DEF sfq_completed, FreeSlot, KickIfMore, KickIf, setupVars, Types
<1>2. /\ inflight' = inflight \ {r} /\ r \in inflight
      /\ UNCHANGED <<queue_head, pc>>
  BY <1>1 DEF DeviceComplete
<1>3. DeviceTypeOK' /\ Held > 0 /\ Held' = Held - 1
  BY <1>0, <1>1, CompleteHeld
<1>4. CountsExact'
  BY <1>0, <1>1, <1>3, DepthAssumption DEF CountsExact, Types
<1>5. depth' \in Nat /\ sfqr_size' \in Nat
  BY <1>0, <1>1, <1>3 DEF CountsExact, Types
<1>6. Types'
  BY <1>0, <1>1, <1>2, <1>3, <1>5 DEF Types, FrameTypeOK
<1>7. Placed' /\ InSetup'
  BY <1>1, <1>2 DEF Placed, Apart, Linked, SettingUp, InSetup
<1>8. Gone'
  BY <1>1, <1>2 DEF Gone
<1>9. NoStranded'
  <2> SUFFICES ASSUME pending # <<>> \/ queue_head # <<>>
               PROVE  unplug_work'
    BY <1>1, <1>2 DEF NoStranded
  <2>1. Len(pending) > 0 \/ Len(queue_head) > 0
    BY <1>0, EmptySeq
  <2>2. sfqr_size' = Len(pending) + Held' /\ Held' \in Nat
    BY <1>0, <1>1, <1>3 DEF CountsExact
  <2>3. Held' = Len(queue_head) + Cardinality(inflight')
    BY <1>2 DEF Held
  <2>4. Cardinality(inflight') \in Nat
    BY <1>2, <1>0, HeldType, FS_RemoveElement, FS_CardinalityType
  <2>5. sfqr_size' > 0
    BY <1>0, <2>1, <2>2, <2>3, <2>4
  <2> QED  BY <1>1, <2>5
<1> QED  BY <1>4, <1>6, <1>7, <1>8, <1>9

\* What waits is counted.
LEMMA WaitingCounts ==
  ASSUME Types, CountsExact, pending # <<>> \/ queue_head # <<>>
  PROVE  sfqr_size # 0
<1>1. Len(pending) \in Nat /\ Len(queue_head) \in Nat
      /\ Cardinality(inflight) \in Nat
  BY TypeFacts, HeldType
<1>2. Len(pending) > 0 \/ Len(queue_head) > 0
  BY <1>1, EmptySeq, TypeFacts DEF DeviceTypeOK
<1> QED  BY <1>1, <1>2 DEF CountsExact, Held

\* The timer and the work item.
LEMMA KickIInv ==
  ASSUME IInv,
         \/ Unchanging(kick_queue) \/ TimerExpires \/ sfq_idle_slice_timer
         \/ Unchanging(KickSuccessor)
  PROVE  IInv'
<1> USE DEF IInv
<1>0. /\ Types /\ pc \in [Ctx -> Labels] /\ DeviceTypeOK
      /\ elv \in {"attached", "bypass", "detached", "freed", "oops"}
  BY TypeFacts DEF Types, FrameTypeOK
<1>1. ASSUME UNCHANGED <<setupVars, queueVars, plugged, stale, deviceVars>>,
             armed' \in BOOLEAN, firing' \in BOOLEAN, unplug_work' \in BOOLEAN,
             elv' \in {elv, "oops"},
             \/ unplug_work' \/ firing' \/ elv \in {"detached", "freed"}
             \/ pending = <<>> /\ queue_head = <<>>
      PROVE  IInv'
  <2>1. UNCHANGED <<cur, pending, depth, sfqr_size, plugged, stale, queue_head,
                    inflight, issuing, pc>>
    BY <1>1 DEF setupVars, queueVars, deviceVars
  <2>2. Types'
    BY <1>0, <1>1, <2>1 DEF Types, FrameTypeOK, DeviceTypeOK
  <2>3. Placed' /\ CountsExact' /\ InSetup'
    BY <2>1, SameLists, SamePlaces DEF InSetup
  <2>4. Gone'
    BY <1>1, <2>1 DEF Gone
  <2>5. NoStranded'
    BY <1>1, <2>1 DEF NoStranded, Gone
  <2> QED  BY <2>2, <2>3, <2>4, <2>5
<1>2. CASE Unchanging(kick_queue)
  <2>1. /\ UNCHANGED <<cur, pending, depth, sfqr_size, armed, firing, plugged>>
        /\ UNCHANGED <<stale, elv, queue_head, inflight, issuing>>
        /\ unplug_work' = FALSE /\ elv \in {"attached", "bypass"}
        /\ pc[Kblockd] = "idle" /\ pc' = [pc EXCEPT ![Kblockd] = "run"]
    BY <1>2 DEF Unchanging, kick_queue, RunQueue, At, setupVars, queueVars
  <2>2. Types'
    BY <1>0, <2>1 DEF Types, FrameTypeOK, DeviceTypeOK
  <2>3. Placed' /\ CountsExact'
    BY <2>1, SameLists, SamePlaces
  <2>4. InSetup' /\ Gone'
    BY <1>0, <2>1, KblockdAssumption DEF InSetup, Gone, Tasks, Labels
  <2>5. NoStranded'
    BY <1>0, <2>1, KblockdAssumption, Running
  <2> QED  BY <2>2, <2>3, <2>4, <2>5
<1>3. CASE TimerExpires
  BY <1>0, <1>1, <1>3 DEF TimerExpires, Types, FrameTypeOK
<1>4. CASE sfq_idle_slice_timer
  <2>1. unplug_work' = (unplug_work \/ sfqr_size # 0)
    BY <1>4 DEF sfq_idle_slice_timer, KickIf
  <2>2. unplug_work' \in BOOLEAN
    BY <1>0, <2>1 DEF Types, FrameTypeOK
  <2>3. unplug_work' \/ (pending = <<>> /\ queue_head = <<>>)
    BY <2>1, <1>0, WaitingCounts
  <2> QED  BY <1>0, <1>1, <1>4, <2>2, <2>3 DEF sfq_idle_slice_timer, Types
<1>5. CASE Unchanging(KickSuccessor)
  BY <1>0, <1>1, <1>5 DEF Unchanging, KickSuccessor, Types
<1> QED  BY <1>2, <1>3, <1>4, <1>5

\* A switch: the drain begins, the elevator data are freed and made again.
LEMMA SwitchIInv ==
  ASSUME IInv,
         \/ Unchanging(BypassStart) \/ sfq_exit_queue \/ sfq_init_queue
         \/ \E c \in Ctx : Unchanging(DrainStart(c))
  PROVE  IInv'
<1> USE DEF IInv
<1>0. /\ Types /\ pc \in [Ctx -> Labels] /\ DeviceTypeOK
  BY TypeFacts
<1>1. CASE Unchanging(BypassStart)
  <2>1. /\ UNCHANGED <<cur, pending, depth, sfqr_size, armed, firing, plugged>>
        /\ UNCHANGED <<stale, unplug_work, queue_head, inflight, issuing, pc>>
        /\ elv = "attached" /\ elv' = "bypass"
    BY <1>1 DEF Unchanging, BypassStart, setupVars, queueVars, deviceVars
  <2>2. Types' /\ InSetup' /\ Gone' /\ NoStranded'
    BY <1>0, <2>1
       DEF Types, FrameTypeOK, DeviceTypeOK, InSetup, Gone, NoStranded
  <2> QED  BY <2>1, <2>2, SameLists, SamePlaces
<1>2. CASE sfq_exit_queue
  <2>1. /\ UNCHANGED <<cur, pending, depth, sfqr_size, armed, firing, plugged>>
        /\ UNCHANGED <<stale, queue_head, inflight, issuing, pc>>
        /\ elv = "detached" /\ elv' = "freed" /\ unplug_work' = FALSE
    BY <1>2 DEF sfq_exit_queue, setupVars, queueVars, deviceVars
  <2>2. Types' /\ InSetup' /\ Gone'
    BY <1>0, <2>1 DEF Types, FrameTypeOK, DeviceTypeOK, InSetup, Gone
  <2>3. NoStranded'
    BY <2>1 DEF Gone, NoStranded
  <2> QED  BY <2>1, <2>2, <2>3, SameLists, SamePlaces
<1>3. CASE sfq_init_queue
  <2>1. /\ UNCHANGED <<cur, armed, firing, plugged, stale, unplug_work>>
        /\ UNCHANGED <<queue_head, inflight, issuing, pc>>
        /\ elv = "freed" /\ elv' = "attached"
        /\ pending' = <<>> /\ depth' = 0 /\ sfqr_size' = 0
    BY <1>3 DEF sfq_init_queue, deviceVars
  <2>2. pending = <<>> /\ queue_head = <<>> /\ inflight = {} /\ plugged = {}
        /\ \A c \in Ctx : pc[c] = "idle"
    BY <2>1 DEF Gone
  <2>3. Types'
    BY <1>0, <2>1, EmptySeq DEF Types, FrameTypeOK, DeviceTypeOK
  <2>4. CountsExact'
    BY <2>1, <2>2, FS_EmptySet, EmptySeq, DepthAssumption DEF CountsExact, Held
  <2>5. Placed' /\ InSetup'
    BY <2>1, <2>2, SamePlaces DEF InSetup
  <2>6. Gone' /\ NoStranded'
    BY <2>1, <2>2 DEF Gone, NoStranded
  <2> QED  BY <2>3, <2>4, <2>5, <2>6
<1>4. ASSUME NEW c \in Ctx, Unchanging(DrainStart(c)) PROVE IInv'
  <2>1. /\ UNCHANGED <<cur, pending, depth, sfqr_size, armed, firing, plugged>>
        /\ UNCHANGED <<stale, unplug_work, elv, queue_head, inflight, issuing>>
        /\ elv = "bypass" /\ pc[c] = "idle" /\ pc' = [pc EXCEPT ![c] = "drain"]
    BY <1>4 DEF Unchanging, DrainStart, At, setupVars, queueVars, frameVars
  <2>2. Types' /\ InSetup' /\ Gone'
    BY <1>0, <2>1 DEF Types, FrameTypeOK, DeviceTypeOK, InSetup, Gone, Labels
  <2>3. NoStranded'
    BY <2>1 DEF NoStranded
  <2> QED  BY <2>1, <2>2, <2>3, SameLists, SamePlaces
<1> QED  BY <1>1, <1>2, <1>3, <1>4

-----------------------------------------------------------------------------
LEMMA StepIInv == IInv /\ [Next]_vars => IInv'
<1> SUFFICES ASSUME IInv, [Next]_vars PROVE IInv'
  OBVIOUS
<1>1. ASSUME NEW p \in Tasks, NEW r \in Requests, SetUp(p, r) \/ Flush(p, r)
      PROVE  IInv'
  BY <1>1, SetUpIInv, FlushIInv
<1>2. ASSUME NEW p \in Tasks, Register(p) PROVE IInv'
  BY <1>2, RegisterIInv
<1>3. ASSUME NEW c \in Ctx, RequestFn(c) \/ Issued(c) \/ Unasked(c) PROVE IInv'
  <2>1. CASE Peek(c)
    BY <2>1, DispatchIInv, DispatchNothingIInv DEF Peek
  <2>2. CASE \/ elv = "bypass" /\ OnlyDevice(DeviceBypassed(c))
             \/ OnlyDevice(DeviceBusy(c) \/ DeviceStart(c))
             \/ Issued(c) \/ Unasked(c)
    BY <2>2, DeviceIInv DEF OnlyDevice, Unchanging, Issued, Unasked
  <2> QED  BY <1>3, <2>1, <2>2 DEF RequestFn
<1>4. ASSUME NEW r \in Requests, sfq_completed(r) PROVE IInv'
  BY <1>4, CompleteIInv
<1>5. CASE Unchanging(kick_queue) \/ TimerExpires \/ sfq_idle_slice_timer
  BY <1>5, KickIInv
<1>6. CASE Switch
  <2>1. ASSUME NEW c \in Ctx, Drain(c) PROVE IInv'
    BY <2>1, DispatchIInv, DispatchNothingIInv DEF Drain
  <2> QED  BY <1>6, <2>1, KickIInv, SwitchIInv DEF Switch
<1>7. CASE UNCHANGED vars
  BY <1>7, SameLists, SamePlaces
     DEF vars, setupVars, queueVars, frameVars, deviceVars, IInv, Types,
         FrameTypeOK, DeviceTypeOK, InSetup, Gone, NoStranded
<1> QED  BY <1>1, <1>2, <1>3, <1>4, <1>5, <1>6, <1>7 DEF Next

\* The invariant holds in every state, with any number of registrations
\* between any two steps.
THEOREM Invariance == SafeSpec => []IInv
<1>1. Init => IInv
  BY InitIInv
<1>2. IInv /\ [Next]_vars => IInv'
  BY StepIInv
<1> QED  BY <1>1, <1>2, PTL DEF SafeSpec

\* depth and sfqr_size of launch_sfq.c count exactly what they are for, and
\* the device never holds more than one request beyond REQUEST_DEPTH.
THEOREM CountersExact == SafeSpec => []CountsExact
<1>1. IInv => CountsExact
  BY DEF IInv
<1> QED  BY <1>1, Invariance, PTL

\* No lost kick: what waits is followed by a run, a kick, a timer or a
\* completion, wherever the cursor of sfq_dispatch stands.
THEOREM NothingStranded == SafeSpec => []NoStranded
<1>1. IInv => NoStranded
  BY DEF IInv
<1> QED  BY <1>1, Invariance, PTL
-----------------------------------------------------------------------------
(* The cursor, under any registrations.  Races may lose queues from the    *)
(* ring, but what the ring holds are registered queues, and the first one  *)
(* linked keeps the list head from pointing to itself.                     *)

Registers(p) == pc[p] \in {"setup", "link"}

Ring ==
  /\ pid \in Seq(Tasks) /\ Len(pid) <= MaxSfqq
  /\ nxt \in [Elements -> 0 .. Len(pid)] /\ DOMAIN own = Requests
  /\ \A p \in Tasks : Registers(p) => own[cur[p]] \in 1 .. Len(pid)

\* After the first dispatch the ring has a queue; as long as the list head is
\* not taken for a queue, the cursor is at one.
Passed ==
  /\ ~First => nxt[ListHead] # ListHead
  /\ wrong_sfqq \in {NoSfqq, ListHead} => os_sfqq \in (1 .. Len(pid)) \cup {NoSfqq}

RaceInv == Ring /\ Passed

LEMMA RingFacts ==
  ASSUME Ring
  PROVE  /\ MaxSfqq \in Nat /\ NoSfqq \notin 0 .. MaxSfqq
         /\ Len(pid) \in 0 .. MaxSfqq /\ nxt \in [Elements -> Elements]
         /\ \A q \in 1 .. Len(pid) : pid[q] \in Tasks
         /\ 0 \in Elements /\ ListHead = 0
<1>1. /\ MaxSfqq \in Nat /\ NoSfqq \notin 0 .. MaxSfqq
      /\ Len(pid) \in Nat /\ \A q \in 1 .. Len(pid) : pid[q] \in Tasks
  BY SfqqAssumption, LenProperties, ElementOfSeq DEF Ring
<1>2. Len(pid) \in 0 .. MaxSfqq /\ 0 .. Len(pid) \subseteq Elements
  BY <1>1 DEF Ring, Elements
<1> QED  BY <1>1, <1>2 DEF Ring, Elements, ListHead

\* What a walk from q along the ring reads.
LEMMA Walk ==
  ASSUME Ring, NEW q \in Elements
  PROVE  IsWalk(After(q), MaxSfqq, nxt, q)
<1> DEFINE nth[k \in Elements] == IF k = 0 THEN q ELSE nxt[nth[k - 1]]
<1>1. MaxSfqq \in Nat /\ nxt \in [0 .. MaxSfqq -> 0 .. MaxSfqq] /\ q \in 0 .. MaxSfqq
  BY RingFacts DEF Elements
<1>2. \E g : IsWalk(g, MaxSfqq, nxt, q)
  BY <1>1, IteratesExist
<1>3. nth = [k \in Elements |-> IF k = 0 THEN q ELSE nxt[nth[k - 1]]]
  BY <1>2 DEF IsWalk, Elements
<1>4. After(q) = nth
  BY DEF After
<1> HIDE DEF nth
<1> QED  BY <1>3, <1>4 DEF IsWalk, Elements

\* While wrong_sfqq is the list head, a move ends at a queue.
LEMMA PassesHead ==
  ASSUME Ring, nxt[ListHead] # ListHead, NEW q \in 0 .. Len(pid)
  PROVE  PassOver(ListHead, q) \in 1 .. Len(pid)
<1> DEFINE g == After(q)
           P(k) == /\ Owner(g[k]) # Owner(ListHead)
                   /\ \A j \in 0 .. k - 1 : Owner(g[j]) = Owner(ListHead)
<1>0. ListHead = 0 /\ Owner(0) = 0 /\ 0 \in Elements
  BY RingFacts DEF Owner, ListHead
<1>1. /\ MaxSfqq \in Nat /\ Len(pid) \in 0 .. MaxSfqq /\ q \in Elements
      /\ nxt[0] \in 1 .. Len(pid) /\ 1 \in Elements
  BY <1>0, RingFacts DEF Ring, Elements
<1>2. PassOver(ListHead, q) = g[CHOOSE k \in Elements : P(k)]
  BY DEF PassOver
<1>3. g[0] = q /\ g[1] = nxt[q]
  <2>1. g = [k \in 0 .. MaxSfqq |-> IF k = 0 THEN q ELSE nxt[g[k - 1]]]
    BY <1>1, Walk DEF IsWalk
  <2>2. 0 \in 0 .. MaxSfqq /\ 1 \in 0 .. MaxSfqq
    BY <1>0, <1>1 DEF Elements
  <2> HIDE DEF g
  <2> QED  BY <2>1, <2>2
<1>4. \A x \in 1 .. Len(pid) : Owner(x) # 0
  BY <1>1, RingFacts, OwnersAssumption DEF Owner, ListHead
<1> HIDE DEF g
<1>5. CASE q # 0
  <2>1. P(0)
    BY <1>0, <1>1, <1>3, <1>4, <1>5
  <2>2. \A k \in Elements : P(k) => k = 0
    <3> SUFFICES ASSUME NEW k \in Elements, P(k), k # 0 PROVE FALSE
      OBVIOUS
    <3>1. 0 \in 0 .. k - 1
      BY <1>1 DEF Elements
    <3>2. Owner(g[0]) = Owner(ListHead)
      BY <3>1
    <3> QED  BY <2>1, <3>2
  <2> HIDE DEF P
  <2>3. (CHOOSE k \in Elements : P(k)) = 0
    BY <1>0, <2>1, <2>2
  <2>4. PassOver(ListHead, q) = g[0]
    BY <1>2, <2>3
  <2> QED  BY <1>1, <1>3, <1>5, <2>4
<1>6. CASE q = 0
  <2>1. ~P(0)
    BY <1>0, <1>3, <1>6
  <2>2. P(1)
    BY <1>0, <1>1, <1>3, <1>4, <1>6
  <2>3. \A k \in Elements : P(k) => k = 1
    <3> SUFFICES ASSUME NEW k \in Elements, P(k), k # 1 PROVE FALSE
      OBVIOUS
    <3>1. k # 0
      BY <2>1
    <3>2. 1 \in 0 .. k - 1
      BY <1>1, <3>1 DEF Elements
    <3>3. Owner(g[1]) = Owner(ListHead)
      BY <3>2
    <3> QED  BY <2>2, <3>3
  <2> HIDE DEF P
  <2>4. (CHOOSE k \in Elements : P(k)) = 1
    BY <1>1, <2>2, <2>3
  <2>5. PassOver(ListHead, q) = g[1]
    BY <1>2, <2>4
  <2> QED  BY <1>1, <1>3, <1>6, <2>5
<1> QED  BY <1>5, <1>6

LEMMA InitRace == Init => RaceInv
<1> SUFFICES ASSUME Init PROVE RaceInv
  OBVIOUS
<1>1. pid = <<>> /\ Len(pid) = 0 /\ pid \in Seq(Tasks)
  BY EmptySeq DEF Init
<1>2. \A p \in Tasks : ~Registers(p)
  BY DEF Init, FrameInit, Registers, Tasks
<1>3. nxt \in [Elements -> 0 .. Len(pid)]
  BY <1>1 DEF Init, EmptyRing, ListHead
<1> QED
  BY <1>1, <1>2, <1>3, SfqqAssumption DEF Init, RaceInv, Ring, Passed, First

\* Steps that begin no registration and leave the ring and the cursor alone.
LEMMA QuietRing ==
  ASSUME Ring, UNCHANGED <<own, cur, nxt, pid>>,
         \A p \in Tasks : Registers(p)' => Registers(p)
  PROVE  Ring'
BY DEF Ring, Registers

LEMMA QuietRace ==
  ASSUME RaceInv, UNCHANGED <<setupVars, os_sfqq, wrong_sfqq>>,
         \A p \in Tasks : Registers(p)' => Registers(p)
  PROVE  RaceInv'
BY QuietRing DEF RaceInv, Passed, First, setupVars

LEMMA SetUpRace ==
  ASSUME IInv, RaceInv, NEW p \in Tasks, NEW r \in Requests, SetUp(p, r)
  PROVE  RaceInv'
<1>0. /\ Ring /\ Passed /\ p \in Ctx /\ pc \in [Ctx -> Labels]
      /\ cur \in [Tasks -> Requests \cup {NoReq}] /\ pid \in Seq(Tasks)
      /\ nxt \in [Elements -> 0 .. Len(pid)] /\ DOMAIN own = Requests
      /\ \A q \in Tasks : Registers(q) => own[cur[q]] \in 1 .. Len(pid)
  BY TypeFacts DEF IInv, Types, RaceInv, Ring, Tasks
<1>1. Len(pid) \in Nat /\ MaxSfqq \in Nat
  BY <1>0, RingFacts
<1>2. pc[p] = "idle" /\ r \notin SettingUp /\ UNCHANGED <<nxt, os_sfqq, wrong_sfqq>>
  BY DEF SetUp, sfq_set_request_known, sfq_set_request_new,
         sfq_set_request_fails, SetupBegins, queueVars, setupVars
<1>3. \A q \in Tasks : cur[q] # r
  BY <1>0, <1>2, RequestsAssumption DEF SettingUp, Range
<1>4. CASE sfq_set_request_known(p, r)
  <2>1. UNCHANGED <<cur, pid, pc>> /\ \E q \in QueuesOf(p) : own' = [own EXCEPT ![r] = q]
    BY <1>4 DEF sfq_set_request_known
  <2>2. DOMAIN own' = Requests /\ \A x \in Requests : x # r => own'[x] = own[x]
    BY <1>0, <2>1
  <2>3. \A q \in Tasks : Registers(q) => cur[q] \in Requests
    BY <1>0 DEF IInv, InSetup, Registers
  <2>4. Ring'
    BY <1>0, <1>2, <1>3, <2>1, <2>2, <2>3 DEF Ring, Registers
  <2> QED  BY <1>0, <1>2, <2>1, <2>4 DEF RaceInv, Passed, First
<1>5. CASE sfq_set_request_new(p, r)
  <2>1. /\ pc' = [pc EXCEPT ![p] = "setup"]
        /\ Len(pid) < MaxSfqq /\ pid' = Append(pid, p)
        /\ own' = [own EXCEPT ![r] = Len(pid) + 1]
        /\ cur' = [cur EXCEPT ![p] = r]
    BY <1>5 DEF sfq_set_request_new, At
  <2>2. Len(pid') = Len(pid) + 1 /\ pid' \in Seq(Tasks)
    BY <1>0, <2>1, AppendProperties
  <2>3. 1 .. Len(pid) \subseteq 1 .. Len(pid') /\ 0 .. Len(pid) \subseteq 0 .. Len(pid')
    BY <1>1, <2>2
  <2>4. DOMAIN own' = Requests /\ own'[r] \in 1 .. Len(pid') /\ cur'[p] = r
    BY <1>0, <1>1, <2>1, <2>2
  <2>5. ASSUME NEW q \in Tasks, Registers(q)', q # p
        PROVE  own'[cur'[q]] \in 1 .. Len(pid')
    <3>1. Registers(q) /\ cur'[q] = cur[q]
      BY <1>0, <2>1, <2>5 DEF Registers, Tasks
    <3>2. cur[q] \in Requests /\ cur[q] # r
      BY <1>0, <1>3, <3>1 DEF IInv, InSetup, Registers
    <3> QED  BY <1>0, <2>1, <2>3, <3>1, <3>2
  <2>6. nxt' \in [Elements -> 0 .. Len(pid')] /\ Len(pid') <= MaxSfqq
    BY <1>0, <1>1, <1>2, <2>1, <2>2, <2>3
  <2>7. Ring'
    BY <2>2, <2>4, <2>5, <2>6 DEF Ring
  <2> QED  BY <1>0, <1>2, <2>3, <2>7 DEF RaceInv, Passed, First
<1>6. CASE sfq_set_request_fails(p, r)
  <2>1. UNCHANGED setupVars /\ UNCHANGED pc
    BY <1>6 DEF sfq_set_request_fails
  <2> QED  BY <1>2, <2>1, QuietRace DEF Registers
<1> QED  BY <1>4, <1>5, <1>6 DEF SetUp

\* The two writes of list_add_tail point to registered queues, except for the
\* new queue's own pointer, which is to the list head.
LEMMA RegisterRace ==
  ASSUME IInv, RaceInv, NEW p \in Tasks, Register(p)
  PROVE  RaceInv'
<1>0. /\ Ring /\ Passed /\ p \in Ctx /\ pc \in [Ctx -> Labels]
      /\ nxt \in [Elements -> 0 .. Len(pid)] /\ Len(pid) \in Nat
      /\ 0 \in Elements /\ ListHead = 0
      /\ cur \in [Tasks -> Requests \cup {NoReq}]
  BY TypeFacts, RingFacts DEF IInv, Types, RaceInv, Ring, Tasks
<1>1. /\ Registers(p) /\ UNCHANGED <<own, pid, os_sfqq, wrong_sfqq>>
  BY DEF Register, LinkTail, LinkPrev, Registers, queueVars
<1>2. own[cur[p]] \in 1 .. Len(pid)
  BY <1>0, <1>1 DEF Ring
<1>3. ASSUME NEW q \in Tasks, Registers(q)'
      PROVE  Registers(q) /\ cur'[q] = cur[q]
  BY <1>0, <1>1, <1>3 DEF Register, LinkTail, LinkPrev, At, Registers, Tasks
<1>4. /\ nxt' \in [Elements -> 0 .. Len(pid)]
      /\ nxt[0] # 0 => nxt'[0] # 0
  <2>1. CASE LinkTail(p)
    <3>1. PICK q \in 1 .. Len(pid) : nxt' = [nxt EXCEPT ![q] = 0]
      BY <1>0, <1>2, <2>1 DEF LinkTail
    <3>2. 0 \in 0 .. Len(pid) /\ q # 0
      BY <1>0
    <3> QED  BY <1>0, <3>1, <3>2
  <2>2. CASE LinkPrev(p)
    <3>1. \E x, y : y \in 1 .. Len(pid) /\ nxt' = [nxt EXCEPT ![x] = y]
      BY <1>2, <2>2 DEF LinkPrev
    <3>2. PICK x, y : y \in 1 .. Len(pid) /\ nxt' = [nxt EXCEPT ![x] = y]
      BY <3>1
    <3>3. y \in 0 .. Len(pid) /\ y # 0
      BY <1>0, <3>2
    <3> QED  BY <1>0, <3>2, <3>3
  <2> QED  BY <2>1, <2>2 DEF Register
<1>5. Ring'
  BY <1>0, <1>1, <1>3, <1>4 DEF Ring
<1> QED  BY <1>0, <1>1, <1>4, <1>5 DEF RaceInv, Passed, First

\* A dispatch moves the cursor along the ring, and never to the list head.
LEMMA CursorRace ==
  ASSUME Ring, Passed, nxt[ListHead] # ListHead \/ ~First, MoveCursor
  PROVE  wrong_sfqq' \in {NoSfqq, ListHead} => os_sfqq' \in 1 .. Len(pid)
<1>0. SUFFICES ASSUME wrong_sfqq' \in {NoSfqq, ListHead}
               PROVE  os_sfqq' \in 1 .. Len(pid)
  OBVIOUS
<1>1. /\ MaxSfqq \in Nat /\ NoSfqq \notin 0 .. MaxSfqq
      /\ Len(pid) \in 0 .. MaxSfqq /\ ListHead = 0 /\ 0 \in Elements
      /\ nxt[ListHead] # ListHead
  BY RingFacts DEF Passed
<1>2. \A q \in 0 .. Len(pid) : nxt[q] \in 0 .. Len(pid)
  BY <1>1 DEF Ring, Elements
<1>3. CASE First
  <2>1. os_sfqq' = nxt[0] /\ nxt[0] # 0 /\ 0 \in 0 .. Len(pid)
    BY <1>1, <1>3 DEF MoveCursor, Cursor
  <2> QED  BY <1>1, <1>2, <2>1
<1>4. CASE ~First
  <2>1. wrong_sfqq' = NextWrong /\ os_sfqq' = NextSfqq
    BY <1>4 DEF MoveCursor, Cursor
  <2>2. wrong_sfqq \in {NoSfqq, ListHead} /\ os_sfqq \in 1 .. Len(pid)
    BY <1>0, <1>4, <2>1 DEF NextWrong, Passed, First
  <2>3. nxt[os_sfqq] \in 0 .. Len(pid) /\ nxt[nxt[os_sfqq]] \in 0 .. Len(pid)
    BY <1>1, <1>2, <2>2
  <2>4. NextWrong = ListHead
    BY <1>0, <1>1, <2>1, <2>2, <2>3 DEF NextWrong, RememberAfterNext
  <2>5. \E q \in 0 .. Len(pid) : os_sfqq' = PassOver(ListHead, q)
    BY <2>1, <2>2, <2>3, <2>4 DEF NextSfqq
  <2> QED  BY <1>1, <2>5, PassesHead
<1> QED  BY <1>3, <1>4

LEMMA DispatchRace ==
  ASSUME IInv, RaceInv, NEW c \in Ctx, Peek(c) \/ Drain(c)
  PROVE  RaceInv'
<1>0. Ring /\ Passed /\ pc \in [Ctx -> Labels]
  BY TypeFacts DEF IInv, RaceInv
<1>1. /\ UNCHANGED setupVars
      /\ \/ UNCHANGED pc
         \/ pc' = [pc EXCEPT ![c] = "idle"] \/ pc' = [pc EXCEPT ![c] = "run"]
  BY DEF Peek, Drain, Dispatching, DrainTurnEnds, At
<1>2. \A p \in Tasks : Registers(p)' => Registers(p)
  BY <1>0, <1>1 DEF Registers, Tasks
<1>3. CASE UNCHANGED <<os_sfqq, wrong_sfqq>>
  BY <1>1, <1>2, <1>3, QuietRace
<1>4. CASE ~NoSfqqYet /\ MoveCursor
  <2>1. wrong_sfqq' \in {NoSfqq, ListHead} => os_sfqq' \in 1 .. Len(pid)
    BY <1>0, <1>4, CursorRace DEF NoSfqqYet
  <2>2. nxt[ListHead] # ListHead
    BY <1>0, <1>4 DEF NoSfqqYet, Passed
  <2>3. Ring' /\ UNCHANGED <<nxt, pid>>
    BY <1>0, <1>1, <1>2, QuietRing DEF setupVars
  <2> QED  BY <2>1, <2>2, <2>3 DEF RaceInv, Passed
<1> QED
  BY <1>3, <1>4
     DEF Peek, Drain, sfq_dispatch_nothing, sfq_dispatch_one, sfq_dispatch_wild

LEMMA InitQueueRace ==
  ASSUME IInv, RaceInv, sfq_init_queue
  PROVE  RaceInv'
<1>1. \A p \in Tasks : ~Registers(p)'
  BY DEF IInv, Gone, sfq_init_queue, deviceVars, Registers, Tasks
<1>2. pid' = <<>> /\ pid' \in Seq(Tasks) /\ Len(pid') = 0
  BY EmptySeq DEF sfq_init_queue
<1>3. nxt' \in [Elements -> 0 .. Len(pid')]
  BY <1>2 DEF sfq_init_queue, EmptyRing, ListHead
<1> QED
  BY <1>1, <1>2, <1>3, SfqqAssumption
     DEF sfq_init_queue, RaceInv, Ring, Passed, First

\* All other steps, none of which speaks of the ring.
LEMMA OtherRace ==
  ASSUME IInv, RaceInv,
         \/ \E p \in Tasks, r \in Requests : Flush(p, r)
         \/ \E c \in Ctx :
              \/ OnlyDevice(\/ DeviceBypassed(c) \/ DeviceBusy(c) \/ DeviceStart(c)
                            \/ DeviceIssued(c) \/ DeviceRequeue(c) \/ RunQueue(c))
              \/ Unchanging(DrainStart(c))
         \/ \E r \in Requests : sfq_completed(r)
         \/ Unchanging(kick_queue) \/ TimerExpires \/ sfq_idle_slice_timer
         \/ Unchanging(BypassStart) \/ Unchanging(KickSuccessor)
         \/ sfq_exit_queue
  PROVE  RaceInv'
<1>0. pc \in [Ctx -> Labels] /\ Kblockd \in Ctx
  BY TypeFacts, KblockdAssumption DEF IInv
<1>1. ASSUME NEW c \in Ctx,
             pc' = [pc EXCEPT ![c] = "flush"] \/ pc' = [pc EXCEPT ![c] = "run"]
             \/ pc' = [pc EXCEPT ![c] = "issue"] \/ pc' = [pc EXCEPT ![c] = "idle"]
             \/ pc' = [pc EXCEPT ![c] = "drain"],
             UNCHANGED <<setupVars, os_sfqq, wrong_sfqq>>
      PROVE  RaceInv'
  BY <1>0, <1>1, QuietRace DEF Registers, Tasks
<1>2. ASSUME UNCHANGED <<setupVars, os_sfqq, wrong_sfqq, pc>>
      PROVE  RaceInv'
  BY <1>2, QuietRace DEF Registers
<1>3. ASSUME NEW p \in Tasks, NEW r \in Requests, Flush(p, r) PROVE RaceInv'
  <2>1. UNCHANGED <<setupVars, os_sfqq, wrong_sfqq>>
    BY <1>3 DEF Flush, sfq_add_request, Unchanging, queueVars
  <2>2. pc' = [pc EXCEPT ![p] = "run"] \/ pc' = [pc EXCEPT ![p] = "flush"]
    BY <1>3 DEF Flush, sfq_add_request, Merge, Unchanging, InsertMerge,
                MergeLinked, Insert, At
  <2> QED  BY <1>1, <2>1, <2>2 DEF Tasks
<1>4. ASSUME NEW c \in Ctx,
             \/ OnlyDevice(\/ DeviceBypassed(c) \/ DeviceBusy(c) \/ DeviceStart(c)
                           \/ DeviceIssued(c) \/ DeviceRequeue(c) \/ RunQueue(c))
             \/ Unchanging(DrainStart(c))
      PROVE  RaceInv'
  <2>1. UNCHANGED <<setupVars, os_sfqq, wrong_sfqq>>
    BY <1>4 DEF OnlyDevice, Unchanging, queueVars
  <2>2. \/ pc' = [pc EXCEPT ![c] = "run"] \/ pc' = [pc EXCEPT ![c] = "issue"]
        \/ pc' = [pc EXCEPT ![c] = "idle"] \/ pc' = [pc EXCEPT ![c] = "drain"]
    BY <1>4 DEF OnlyDevice, Unchanging, DeviceBypassed, DeviceBusy, DeviceStart,
                DeviceIssued, DeviceRequeue, RunQueue, DrainStart, At
  <2> QED  BY <1>1, <2>1, <2>2
<1>5. ASSUME NEW r \in Requests, sfq_completed(r) PROVE RaceInv'
  BY <1>2, <1>5 DEF sfq_completed, DeviceComplete
<1>6. CASE Unchanging(kick_queue)
  BY <1>0, <1>1, <1>6 DEF Unchanging, kick_queue, RunQueue, At, queueVars
<1>7. CASE \/ TimerExpires \/ sfq_idle_slice_timer
           \/ Unchanging(BypassStart) \/ Unchanging(KickSuccessor)
           \/ sfq_exit_queue
  BY <1>2, <1>7
     DEF TimerExpires, sfq_idle_slice_timer, Unchanging, BypassStart,
         KickSuccessor, sfq_exit_queue, queueVars, deviceVars
<1> QED  BY <1>3, <1>4, <1>5, <1>6, <1>7

LEMMA StepRace == IInv /\ RaceInv /\ [Next]_vars => RaceInv'
<1> SUFFICES ASSUME IInv, RaceInv, [Next]_vars PROVE RaceInv'
  OBVIOUS
<1>1. CASE UNCHANGED vars
  <2>1. UNCHANGED <<setupVars, os_sfqq, wrong_sfqq, pc>>
    BY <1>1 DEF vars, queueVars, deviceVars
  <2> QED  BY <2>1, QuietRace DEF Registers
<1>2. CASE Next
  <2>1. ASSUME NEW p \in Tasks, NEW r \in Requests, SetUp(p, r) PROVE RaceInv'
    BY <2>1, SetUpRace
  <2>2. ASSUME NEW p \in Tasks, Register(p) PROVE RaceInv'
    BY <2>2, RegisterRace
  <2>3. ASSUME NEW c \in Ctx, Peek(c) \/ Drain(c) PROVE RaceInv'
    BY <2>3, DispatchRace
  <2>4. CASE sfq_init_queue
    BY <2>4, InitQueueRace
  <2>5. ASSUME NEW c \in Ctx, RequestFn(c) \/ Issued(c) \/ Unasked(c) PROVE RaceInv'
    BY <2>3, <2>5, OtherRace DEF RequestFn, Issued, Unasked, OnlyDevice, Unchanging
  <2>6. CASE Switch
    BY <2>3, <2>4, <2>6, OtherRace DEF Switch
  <2> QED  BY <1>2, <2>1, <2>2, <2>5, <2>6, OtherRace DEF Next
<1> QED  BY <1>1, <1>2

\* Once wrong_sfqq of launch_sfq.c is the list head, sfq_dispatch never stops
\* at the list head again, with any number of queues registered later and any
\* registrations racing with each other and with dispatches.
THEOREM HeadNeverAgain == SafeSpec => []HeadPassedOver
<1>1. Init => IInv /\ RaceInv
  BY InitIInv, InitRace
<1>2. IInv /\ RaceInv /\ [Next]_vars => IInv' /\ RaceInv'
  BY StepIInv, StepRace
<1>3. RaceInv => HeadPassedOver
  BY RingFacts DEF RaceInv, Passed, HeadPassedOver
<1> QED  BY <1>1, <1>2, <1>3, PTL DEF SafeSpec
=============================================================================
