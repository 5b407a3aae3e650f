--------------------------- MODULE NoopKickProofs ---------------------------
(***************************************************************************)
(* Proofs about NoopKick for every finite set of requests, every set of    *)
(* contexts and every bound on leaked counts.                              *)
(*                                                                         *)
(* NoStranded is not inductive.  A completion keeps it because the count   *)
(* it decrements covers whatever still waits (NeverUndercounts), and the   *)
(* work item that runs after another elevator was attached keeps it        *)
(* because nothing waits any more (Gone), which the drain established.     *)
(***************************************************************************)
EXTENDS NoopKick, BlockDeviceProofs

Gone ==
  elv \in {"detached", "freed", "oops"} =>
    /\ plugged = {} /\ queue = <<>> /\ queue_head = <<>> /\ inflight = {}
    /\ \A c \in Ctx : pc[c] = "idle"

IInv == TypeOK /\ Gone /\ NeverUndercounts /\ NoStranded

-----------------------------------------------------------------------------
(* One lemma per kind of step: IInv is preserved.                          *)

\* noop_init_queue establishes the invariant.
LEMMA InitIInv == Init => IInv
<1> SUFFICES ASSUME Init PROVE IInv
  OBVIOUS
<1>1. TypeOK
  <2>1. <<>> \in Seq(Requests)
    OBVIOUS
  <2>2. issuing \in [Ctx -> Requests \cup {NoReq}]
    BY DEF Init, DeviceInit
  <2>3. pc \in [Ctx -> {"idle", "run", "issue", "drain"}]
    BY DEF Init
  <2> QED
    BY <2>1, <2>2, <2>3 DEF Init, DeviceInit, TypeOK, DeviceTypeOK
<1>2. Cardinality({}) = 0
  BY FS_EmptySet
<1>3. NeverUndercounts
  BY <1>2 DEF Init, DeviceInit, NeverUndercounts, Counted, Held
<1> QED  BY <1>1, <1>3 DEF IInv, Init, DeviceInit, Gone, NoStranded

\* A step that leaves the lists, the device, the count and the contexts alone
\* keeps what the invariant says of them.
LEMMA Untouched ==
  ASSUME NeverUndercounts, UNCHANGED <<queue, sfqr_size, deviceVars>>
  PROVE  NeverUndercounts'
BY DEF NeverUndercounts, Counted, Held, deviceVars

\* Submission: allocation, noop_add_request, and the two kinds of merge.
LEMMA SubmitIInv ==
  ASSUME IInv, NEW r \in Requests, Submit(r)
  PROVE  IInv'
<1> USE DEF IInv
<1>0. /\ DeviceTypeOK /\ Held \in Nat
      /\ queue \in Seq(Requests) /\ Len(queue) \in Nat
  BY HeldType, LenProperties DEF TypeOK
<1>1. CASE GetRequest(r)
  BY <1>1, Untouched
  DEF GetRequest, TypeOK, DeviceTypeOK, Gone, NoStranded, deviceVars
<1>2. CASE InsertMerge(r)
  BY <1>2, Untouched
  DEF InsertMerge, CountMerged, TypeOK, DeviceTypeOK, Gone, NoStranded,
  deviceVars
<1>3. ASSUME NEW c \in Ctx \ {Kblockd}, noop_add_request(c, r)
      PROVE  IInv'
  <2> USE DEF noop_add_request, CountAdded, Linked
  <2>1. DeviceTypeOK' /\ Held' = Held
    BY <1>0, <1>3, OtherHeld
  <2>2. pc' = [pc EXCEPT ![c] = "run"] /\ pc[c] = "idle"
    BY <1>3 DEF RunQueue, At
  <2>3. TypeOK'
    BY <1>3, <2>1, <2>2 DEF TypeOK
  <2>4. Gone'
    BY <1>3 DEF Gone
  <2>5. Len(queue') = Len(queue) + 1
    BY <1>0, <1>3, AppendProperties
  <2>6. NeverUndercounts'
    BY <1>0, <1>3, <2>1, <2>5 DEF NeverUndercounts, Counted, TypeOK
  <2>7. NoStranded'
    BY <2>2 DEF NoStranded, TypeOK
  <2> QED  BY <2>3, <2>4, <2>6, <2>7
<1>4. ASSUME NEW i \in DOMAIN queue, noop_merged_requests(r, i)
      PROVE  IInv'
  <2> USE DEF noop_merged_requests, CountMerged
  <2>1. i \in 1 .. Len(queue)
    BY <1>0
  <2>2. queue' \in Seq(Requests) /\ Len(queue') = Len(queue) - 1
    BY <1>0, <1>4, <2>1, WithoutProperties
  <2>3. TypeOK'
    BY <1>4, <2>2 DEF TypeOK, DeviceTypeOK, deviceVars
  <2>4. Gone'
    BY <1>4 DEF Gone, deviceVars
  <2>5. Held' = Held
    BY <1>4 DEF Held, deviceVars
  <2>6. NeverUndercounts'
    BY <1>0, <1>4, <2>2, <2>5 DEF NeverUndercounts, Counted, TypeOK
  <2>7. NoStranded'
    BY <1>4, <2>1 DEF NoStranded, deviceVars
  <2> QED  BY <2>3, <2>4, <2>6, <2>7
<1> QED  BY <1>1, <1>2, <1>3, <1>4 DEF Submit

\* noop_dispatch moves one request and does not change what is counted.
LEMMA DispatchMoves ==
  ASSUME TypeOK, noop_dispatch, UNCHANGED inflight
  PROVE  /\ queue' \in Seq(Requests) /\ queue_head' \in Seq(Requests)
         /\ unplug_work' \in BOOLEAN
         /\ Counted' = Counted
<1>1. /\ Head(queue) \in Requests /\ Tail(queue) \in Seq(Requests)
      /\ Len(Tail(queue)) = Len(queue) - 1
  BY HeadTailProperties DEF noop_dispatch, TypeOK
<1>2. queue_head' \in Seq(Requests) /\ Held' = Held + 1
  BY <1>1, DispatchHeld DEF noop_dispatch, TypeOK
<1>3. queue' \in Seq(Requests) /\ Len(queue') = Len(queue) - 1
  BY <1>1 DEF noop_dispatch
<1>4. Counted' = Counted
  BY <1>2, <1>3, HeldType, LenProperties DEF Counted, TypeOK
<1> QED  BY <1>2, <1>3, <1>4 DEF noop_dispatch, Kick, TypeOK

\* noop_dispatch on an empty queue only kicks.
LEMMA DispatchNothing ==
  ASSUME TypeOK, noop_dispatch_nothing, UNCHANGED inflight
  PROVE  /\ UNCHANGED <<queue, queue_head>> /\ queue = <<>>
         /\ unplug_work' \in BOOLEAN
         /\ Counted' = Counted
BY DEF noop_dispatch_nothing, Kick, TypeOK, Counted, Held

\* A context inside request_fn, holding the lock.
LEMMA RequestFnIInv ==
  ASSUME IInv, NEW c \in Ctx, RequestFn(c)
  PROVE  IInv'
<1> USE DEF IInv
<1>0. DeviceTypeOK /\ Held \in Nat /\ Len(queue) \in Nat
  BY HeldType, LenProperties DEF TypeOK
<1>1. ASSUME Peek(c), noop_dispatch, UNCHANGED pc
      PROVE  IInv'
  <2>1. TypeOK'
    BY <1>1, DispatchMoves DEF Peek, TypeOK, DeviceTypeOK
  <2>2. Gone'
    BY <1>1 DEF Peek, noop_dispatch, Gone
  <2>3. NeverUndercounts'
    BY <1>1, DispatchMoves DEF Peek, NeverUndercounts
  <2>4. NoStranded'
    BY <1>1 DEF Peek, NoStranded
  <2> QED  BY <2>1, <2>2, <2>3, <2>4
<1>2. ASSUME Peek(c), noop_dispatch_nothing, At(c, "idle")
      PROVE  IInv'
  <2>1. TypeOK'
    BY <1>2, DispatchNothing DEF Peek, At, TypeOK, DeviceTypeOK
  <2>2. Gone'
    BY <1>2, DispatchNothing DEF Peek, At, Gone
  <2>3. NeverUndercounts'
    BY <1>2, DispatchNothing DEF Peek, NeverUndercounts
  <2>4. NoStranded'
    BY <1>2, DispatchNothing DEF Peek, NoStranded
  <2> QED  BY <2>1, <2>2, <2>3, <2>4
<1>3. CASE OnlyDevice(DeviceBusy(c))
  <2> USE DEF OnlyDevice
  <2>1. DeviceTypeOK' /\ Held' = Held /\ UNCHANGED <<queue_head, inflight>>
    BY <1>0, <1>3, OtherHeld
  <2>2. TypeOK' /\ Gone'
    BY <1>3, <2>1 DEF DeviceBusy, At, TypeOK, Gone
  <2>3. NeverUndercounts' /\ NoStranded'
    BY <1>3, <2>1 DEF DeviceBusy, NeverUndercounts, Counted, NoStranded
  <2> QED  BY <2>2, <2>3
<1>4. CASE OnlyDevice(DeviceStart(c))
  <2> USE DEF OnlyDevice
  <2>1. DeviceTypeOK' /\ Held' <= Held /\ Held' \in Nat
    <3>1. DeviceTypeOK' /\ Held' <= Held
      BY <1>0, <1>4, StartHeld
    <3>2. inflight' \subseteq Requests /\ queue_head' \in Seq(Requests)
      BY <3>1 DEF DeviceTypeOK
    <3>3. Held' \in Nat
      BY <3>2, RequestsAssumption, FS_Subset, FS_CardinalityType, LenProperties
      DEF Held
    <3> QED  BY <3>1, <3>3
  <2>2. TypeOK'
    BY <1>4, <2>1 DEF DeviceStart, At, TypeOK
  <2>3. Gone'
    BY <1>4 DEF DeviceStart, Gone
  <2>4. NeverUndercounts'
    BY <1>0, <1>4, <2>1 DEF NeverUndercounts, Counted, TypeOK
  <2>5. NoStranded'
    BY <1>4 DEF DeviceStart, At, NoStranded, TypeOK
  <2> QED  BY <2>2, <2>3, <2>4, <2>5
<1>5. CASE OnlyDevice(DeviceBypassed(c)) /\ elv = "bypass"
  <2> USE DEF OnlyDevice
  <2>1. DeviceTypeOK' /\ Held' = Held /\ UNCHANGED <<queue_head, inflight>>
    BY <1>0, <1>5, OtherHeld
  <2>2. TypeOK' /\ Gone'
    BY <1>5, <2>1 DEF DeviceBypassed, At, TypeOK, Gone
  <2>3. NeverUndercounts' /\ NoStranded'
    BY <1>5, <2>1 DEF DeviceBypassed, NeverUndercounts, Counted, NoStranded
  <2> QED  BY <2>2, <2>3
<1> QED  BY <1>1, <1>2, <1>3, <1>4, <1>5 DEF RequestFn, Peek, OnlyDevice

\* A context outside the lock.
LEMMA OutsideIInv ==
  ASSUME IInv, NEW c \in Ctx, Issued(c) \/ Unasked(c)
  PROVE  IInv'
<1> USE DEF IInv
<1>0. DeviceTypeOK
  BY DEF TypeOK
<1>1. ASSUME OnlyDevice(DeviceIssued(c) \/ RunQueue(c)),
             elv \in {"attached", "bypass"} \/ DeviceIssued(c)
      PROVE  IInv'
  <2> USE DEF OnlyDevice
  <2>1. DeviceTypeOK' /\ Held' = Held /\ UNCHANGED <<queue_head, inflight>>
    BY <1>0, <1>1, OtherHeld
  <2>2. pc' = [pc EXCEPT ![c] = "run"]
    BY <1>1 DEF DeviceIssued, RunQueue, At
  <2>3. TypeOK'
    BY <1>1, <2>1, <2>2 DEF TypeOK
  <2>4. Gone'
    BY <1>1, <2>1 DEF DeviceIssued, Gone
  <2>5. NeverUndercounts'
    BY <1>1, <2>1 DEF NeverUndercounts, Counted
  <2>6. NoStranded'
    BY <2>2 DEF NoStranded, TypeOK
  <2> QED  BY <2>3, <2>4, <2>5, <2>6
<1>2. CASE OnlyDevice(DeviceRequeue(c))
  <2> USE DEF OnlyDevice
  <2>1. DeviceTypeOK' /\ Held' = Held /\ inflight' # {}
    BY <1>0, <1>2, RequeueHeld
  <2>2. TypeOK'
    BY <1>2, <2>1 DEF DeviceRequeue, At, TypeOK
  <2>3. Gone'
    BY <1>2 DEF DeviceRequeue, Gone
  <2>4. NeverUndercounts'
    BY <1>2, <2>1 DEF NeverUndercounts, Counted
  <2>5. NoStranded'
    BY <2>1 DEF NoStranded
  <2> QED  BY <2>2, <2>3, <2>4, <2>5
<1> QED  BY <1>1, <1>2 DEF Issued, Unasked, OnlyDevice

\* A completion: what is left to count is what NoStranded needs kicked.
LEMMA CompletedIInv ==
  ASSUME IInv, NEW r \in Requests, noop_completed(r)
  PROVE  IInv'
<1> USE DEF IInv
<1>0. DeviceTypeOK /\ Held \in Nat /\ Len(queue) \in Nat
      /\ Len(queue_head) \in Nat
  BY HeldType, LenProperties DEF TypeOK
<1>1. DeviceTypeOK' /\ Held > 0 /\ Held' = Held - 1
  BY <1>0, CompleteHeld DEF noop_completed
<1>2. sfqr_size' \in Nat /\ sfqr_size' >= Len(queue) + Held'
  BY <1>0, <1>1 DEF noop_completed, NeverUndercounts, Counted, TypeOK
<1>3. TypeOK'
  BY <1>1, <1>2 DEF noop_completed, KickIfMore, DeviceComplete, TypeOK
<1>4. Gone'
  BY DEF noop_completed, DeviceComplete, Gone
<1>5. NeverUndercounts'
  BY <1>2 DEF noop_completed, NeverUndercounts, Counted
<1>6. NoStranded'
  <2> USE DEF noop_completed, DeviceComplete
  <2>1. SUFFICES ASSUME queue # <<>> \/ queue_head # <<>> PROVE unplug_work'
    BY DEF NoStranded
  <2>2. Held' >= Len(queue_head)
    <3>1. inflight' \subseteq Requests
      BY <1>1 DEF DeviceTypeOK
    <3>2. Cardinality(inflight') \in Nat
      BY <3>1, RequestsAssumption, FS_Subset, FS_CardinalityType
    <3> QED  BY <1>0, <3>2 DEF Held
  <2>3. Len(queue) > 0 \/ Len(queue_head) > 0
    BY <1>0, <2>1, EmptySeq DEF TypeOK, DeviceTypeOK
  <2>4. Len(queue) + Held' > 0
    BY <1>0, <1>1, <2>2, <2>3
  <2>5. sfqr_size' > 0
    BY <1>0, <1>1, <1>2, <2>4
  <2> QED  BY <2>5 DEF KickIfMore
<1> QED  BY <1>3, <1>4, <1>5, <1>6

\* The work item, before and after another elevator is attached.
LEMMA KickedIInv ==
  ASSUME IInv, Kicked
  PROVE  IInv'
<1> USE DEF IInv
<1>0. DeviceTypeOK
  BY DEF TypeOK
<1>1. CASE sfq_kick_queue
  <2> USE DEF sfq_kick_queue
  <2>1. DeviceTypeOK' /\ Held' = Held /\ UNCHANGED <<queue_head, inflight>>
    BY <1>0, <1>1, KblockdAssumption, OtherHeld
  <2>2. pc' = [pc EXCEPT ![Kblockd] = "run"]
    BY <1>1 DEF RunQueue, At
  <2>3. TypeOK' /\ Gone'
    BY <1>1, <2>1, <2>2, KblockdAssumption DEF TypeOK, Gone
  <2>4. NeverUndercounts'
    BY <1>1, <2>1 DEF NeverUndercounts, Counted
  <2>5. pc'[Kblockd] = "run"
    BY <2>2, KblockdAssumption DEF TypeOK
  <2>6. NoStranded'
    BY <2>5, KblockdAssumption DEF NoStranded
  <2> QED  BY <2>3, <2>4, <2>6
<1>2. CASE KickSuccessor
  BY <1>2, Untouched
  DEF KickSuccessor, TypeOK, DeviceTypeOK, Gone, NoStranded, deviceVars
<1>3. CASE KickAfterFree
  BY <1>3, Untouched
  DEF KickAfterFree, TypeOK, DeviceTypeOK, Gone, NoStranded, deviceVars
<1> QED  BY <1>1, <1>2, <1>3 DEF Kicked

\* The drain: what it detaches holds nothing.
LEMMA DrainIInv ==
  ASSUME IInv, NEW c \in Ctx, Drain(c)
  PROVE  IInv'
<1> USE DEF IInv
<1>1. ASSUME Drain(c), noop_dispatch, UNCHANGED <<pc, elv>>
      PROVE  IInv'
  <2>1. TypeOK'
    BY <1>1, DispatchMoves DEF Drain, TypeOK, DeviceTypeOK
  <2>2. Gone'
    BY <1>1 DEF noop_dispatch, Gone
  <2>3. NeverUndercounts'
    BY <1>1, DispatchMoves DEF Drain, NeverUndercounts
  <2>4. NoStranded'
    BY <1>1 DEF Drain, NoStranded
  <2> QED  BY <2>1, <2>2, <2>3, <2>4
<1>2. ASSUME Drain(c), noop_dispatch_nothing,
             At(c, IF queue_head = <<>> THEN "idle" ELSE "run"),
             elv' = IF Quiescent(c) THEN "detached" ELSE elv
      PROVE  IInv'
  <2>1. TypeOK'
    BY <1>2, DispatchNothing DEF Drain, At, TypeOK, DeviceTypeOK
  <2>2. NeverUndercounts'
    BY <1>2, DispatchNothing DEF Drain, NeverUndercounts
  <2>3. Gone'
    <3>1. CASE Quiescent(c)
      <4>1. plugged = {} /\ inflight = {} /\ Range(queue_head) = {}
        BY <3>1 DEF Quiescent, Outstanding
      <4>2. queue_head = <<>>
        <5>1. SUFFICES ASSUME queue_head # <<>> PROVE FALSE
          OBVIOUS
        <5>2. queue_head[1] \in Range(queue_head)
          BY <5>1, EmptySeq, LenProperties DEF TypeOK, DeviceTypeOK, Range
        <5> QED  BY <4>1, <5>2
      <4>3. \A d \in Ctx : pc'[d] = "idle"
        BY <1>2, <3>1, <4>2 DEF At, Quiescent, TypeOK
      <4> QED  BY <1>2, <4>1, <4>2, <4>3, DispatchNothing DEF Drain, Gone
    <3>2. CASE ~Quiescent(c)
      BY <1>2, <3>2, DispatchNothing DEF Drain, At, Gone
    <3> QED  BY <3>1, <3>2
  <2>4. NoStranded'
    BY <1>2, DispatchNothing DEF Drain, At, NoStranded, TypeOK
  <2> QED  BY <2>1, <2>2, <2>3, <2>4
<1> QED  BY <1>1, <1>2 DEF Drain

\* The other steps of elevator_switch.
LEMMA SwitchIInv ==
  ASSUME IInv, Switch
  PROVE  IInv'
<1> USE DEF IInv
<1>1. CASE BypassStart
  BY <1>1, Untouched
  DEF BypassStart, TypeOK, DeviceTypeOK, Gone, NoStranded, deviceVars
<1>2. CASE noop_exit_queue
  BY <1>2, Untouched
  DEF noop_exit_queue, TypeOK, DeviceTypeOK, Gone, NoStranded, deviceVars
<1>3. CASE noop_init_queue
  <2>1. queue = <<>> /\ queue_head = <<>> /\ inflight = {}
    BY <1>3 DEF noop_init_queue, Gone
  <2>2. Cardinality(inflight) = 0
    BY <2>1, FS_EmptySet
  <2>3. TypeOK' /\ Gone' /\ NoStranded'
    BY <1>3, <2>1
    DEF noop_init_queue, TypeOK, DeviceTypeOK, Gone, NoStranded, deviceVars
  <2>4. NeverUndercounts'
    BY <1>3, <2>1, <2>2
    DEF noop_init_queue, NeverUndercounts, Counted, Held, deviceVars
  <2> QED  BY <2>3, <2>4
<1>4. ASSUME NEW c \in Ctx \ {Kblockd}, DrainStart(c)
      PROVE  IInv'
  <2>1. TypeOK' /\ Gone'
    BY <1>4 DEF DrainStart, At, TypeOK, DeviceTypeOK, Gone
  <2>2. NeverUndercounts' /\ NoStranded'
    BY <1>4
    DEF DrainStart, At, NeverUndercounts, Counted, Held, NoStranded, TypeOK
  <2> QED  BY <2>1, <2>2
<1> QED  BY <1>1, <1>2, <1>3, <1>4 DEF Switch

\* Every step.
LEMMA StepIInv == IInv /\ [Next]_vars => IInv'
<1> SUFFICES ASSUME IInv, [Next]_vars PROVE IInv'
  OBVIOUS
<1>1. ASSUME NEW r \in Requests, Submit(r) \/ noop_completed(r)
      PROVE  IInv'
  BY <1>1, SubmitIInv, CompletedIInv
<1>2. ASSUME NEW c \in Ctx,
             RequestFn(c) \/ Issued(c) \/ Unasked(c) \/ Drain(c)
      PROVE  IInv'
  BY <1>2, RequestFnIInv, OutsideIInv, DrainIInv
<1>3. CASE Kicked
  BY <1>3, KickedIInv
<1>4. CASE Switch
  BY <1>4, SwitchIInv
<1>5. CASE UNCHANGED vars
  BY <1>5, Untouched
  DEF vars, deviceVars, IInv, TypeOK, DeviceTypeOK, Gone, NoStranded
<1> QED  BY <1>1, <1>2, <1>3, <1>4, <1>5 DEF Next

-----------------------------------------------------------------------------
(* The theorems.                                                           *)

\* The conjunction is an invariant of launch.c's elevator.
THEOREM Invariance == SafeSpec => []IInv
<1>1. Init => IInv
  BY InitIInv
<1>2. IInv /\ [Next]_vars => IInv'
  BY StepIInv
<1> QED  BY <1>1, <1>2, PTL DEF SafeSpec

\* Every variable keeps its type; in particular --sfqr_size in noop_completed
\* never goes below 0.
THEOREM TypeCorrect == SafeSpec => []TypeOK
<1>1. IInv => TypeOK
  BY DEF IInv
<1> QED  BY <1>1, Invariance, PTL

\* However many requests, contexts, merges and elevator switches, a waiting
\* request always has a context, a work item or a completion coming for it:
\* noop_completed's and noop_dispatch's kicks leave no gap.
THEOREM KicksSuffice == SafeSpec => []NoStranded
<1>1. IInv => NoStranded
  BY DEF IInv
<1> QED  BY <1>1, Invariance, PTL

\* sfqr_size covers every request added and not completed, which is what the
\* kick in noop_completed relies on.
THEOREM CountCovers == SafeSpec => []NeverUndercounts
<1>1. IInv => NeverUndercounts
  BY DEF IInv
<1> QED  BY <1>1, Invariance, PTL

\* noop_exit_queue's BUG_ON never fires.
THEOREM DrainSuffices == SafeSpec => []ExitFindsQueueEmpty
<1>1. IInv => ExitFindsQueueEmpty
  <2> SUFFICES ASSUME Gone, elv = "detached" PROVE Outstanding = {}
    BY DEF IInv, ExitFindsQueueEmpty
  <2>1. Range(<<>>) = {}
    BY DEF Range
  <2> QED  BY <2>1 DEF Gone, Outstanding
<1> QED  BY <1>1, Invariance, PTL

-----------------------------------------------------------------------------
(* The line of the abstract server: a driver's list h, then a queue q.     *)

LEMMA LineAppend ==
  ASSUME NEW S, NEW h \in Seq(S), NEW q \in Seq(S), NEW r \in S
  PROVE  h \o Append(q, r) = Append(h \o q, r)
<1>1. <<r>> \in Seq(S)
  OBVIOUS
<1>2. h \o q \in Seq(S)
  BY ConcatProperties
<1>3. (h \o q) \o <<r>> = h \o (q \o <<r>>)
  BY <1>1, ConcatAssociative
<1> QED  BY <1>2, <1>3, AppendIsConcat

LEMMA LineCons ==
  ASSUME NEW S, NEW h \in Seq(S), NEW q \in Seq(S), NEW r \in S
  PROVE  (<<r>> \o h) \o q = <<r>> \o (h \o q)
<1>1. <<r>> \in Seq(S)
  OBVIOUS
<1> QED  BY <1>1, ConcatAssociative

\* blk_start_request takes the front of the line.
LEMMA LineTail ==
  ASSUME NEW S, NEW h \in Seq(S), NEW q \in Seq(S), h # <<>>
  PROVE  /\ h \o q \in Seq(S) /\ h \o q # <<>>
         /\ Head(h \o q) = Head(h) /\ Tail(h \o q) = Tail(h) \o q
<1> DEFINE l == h \o q
<1>1. /\ Len(h) \in Nat \ {0} /\ Len(q) \in Nat /\ Tail(h) \in Seq(S)
      /\ Len(Tail(h)) = Len(h) - 1
      /\ \A i \in 1 .. Len(h) - 1 : Tail(h)[i] = h[i + 1]
  BY EmptySeq, LenProperties, HeadTailProperties
<1>2. /\ l \in Seq(S) /\ Len(l) = Len(h) + Len(q)
      /\ \A i \in 1 .. Len(h) + Len(q) :
           l[i] = IF i <= Len(h) THEN h[i] ELSE q[i - Len(h)]
  BY ConcatProperties
<1> HIDE DEF l
<1>3. l # <<>> /\ Head(l) = l[1] /\ Head(h) = h[1] /\ l[1] = h[1]
  BY <1>1, <1>2, EmptySeq
<1>4. /\ Tail(l) \in Seq(S) /\ Len(Tail(l)) = Len(h) + Len(q) - 1
      /\ \A i \in 1 .. Len(h) + Len(q) - 1 : Tail(l)[i] = l[i + 1]
  BY <1>1, <1>2, <1>3, HeadTailProperties
<1> DEFINE t == Tail(h)
           u == t \o q
<1> HIDE DEF t
<1>5. /\ u \in Seq(S) /\ Len(u) = Len(h) + Len(q) - 1
      /\ \A i \in 1 .. Len(h) + Len(q) - 1 :
           u[i] = IF i <= Len(h) - 1 THEN t[i] ELSE q[i - (Len(h) - 1)]
  <2>1. t \in Seq(S) /\ Len(t) = Len(h) - 1
    BY <1>1 DEF t
  <2>2. /\ u \in Seq(S) /\ Len(u) = Len(t) + Len(q)
        /\ \A i \in 1 .. Len(t) + Len(q) :
             u[i] = IF i <= Len(t) THEN t[i] ELSE q[i - Len(t)]
    BY <2>1, ConcatProperties
  <2> HIDE DEF u
  <2>3. Len(t) + Len(q) = Len(h) + Len(q) - 1
    BY <1>1, <2>1
  <2> QED  BY <2>1, <2>2, <2>3
<1> HIDE DEF u
<1>6. ASSUME NEW i \in 1 .. Len(h) + Len(q) - 1 PROVE Tail(l)[i] = u[i]
  <2>1. CASE i <= Len(h) - 1
    <3>1. i + 1 \in 1 .. Len(h) + Len(q) /\ i + 1 <= Len(h) /\ i \in 1 .. Len(h) - 1
      BY <1>1, <2>1
    <3>2. u[i] = t[i] /\ t[i] = h[i + 1]
      BY <1>1, <1>5, <2>1, <3>1 DEF t
    <3>3. Tail(l)[i] = h[i + 1]
      BY <1>2, <1>4, <3>1
    <3> QED  BY <3>2, <3>3
  <2>2. CASE i > Len(h) - 1
    <3>1. i + 1 \in 1 .. Len(h) + Len(q) /\ ~(i + 1 <= Len(h))
          /\ i + 1 - Len(h) = i - (Len(h) - 1)
      BY <1>1, <2>2
    <3>2. Tail(l)[i] = q[i + 1 - Len(h)]
      BY <1>2, <1>4, <3>1
    <3>3. u[i] = q[i - (Len(h) - 1)]
      BY <1>1, <1>5, <2>2
    <3> QED  BY <3>1, <3>2, <3>3
  <2>3. i <= Len(h) - 1 \/ i > Len(h) - 1
    BY <1>1
  <2> QED  BY <2>1, <2>2, <2>3
<1>7. Tail(l) = u
  BY <1>4, <1>5, <1>6, SeqEqual
<1> QED  BY <1>2, <1>3, <1>7 DEF l, u, t

\* noop_merged_requests unlinks one behind the driver's list.
LEMMA LineWithout ==
  ASSUME NEW S, NEW h \in Seq(S), NEW q \in Seq(S), NEW i \in 1 .. Len(q)
  PROVE  h \o Without(q, i) = Without(h \o q, Len(h) + i)
<1> DEFINE l == h \o q
           n == Len(h)
           m == Len(q)
           v == Without(q, i)
           w == Without(l, n + i)
           u == h \o v
<1>1. n \in Nat /\ m \in Nat
  BY LenProperties
<1>2. /\ l \in Seq(S) /\ Len(l) = n + m
      /\ \A j \in 1 .. n + m : l[j] = IF j <= n THEN h[j] ELSE q[j - n]
  BY ConcatProperties
<1>3. /\ v \in Seq(S) /\ Len(v) = m - 1
      /\ \A j \in 1 .. m - 1 : v[j] = IF j < i THEN q[j] ELSE q[j + 1]
  BY WithoutProperties, WithoutElements
<1> HIDE DEF l, v, n, m
<1>4. /\ w \in Seq(S) /\ Len(w) = n + m - 1
      /\ \A j \in 1 .. n + m - 1 : w[j] = IF j < n + i THEN l[j] ELSE l[j + 1]
  <2>1. n + i \in 1 .. Len(l)
    BY <1>1, <1>2 DEF m
  <2>2. w \in Seq(S) /\ Len(w) = Len(l) - 1
    BY <1>2, <2>1, WithoutProperties
  <2>3. \A j \in 1 .. Len(l) - 1 : w[j] = IF j < n + i THEN l[j] ELSE l[j + 1]
    BY <1>2, <2>1, WithoutElements
  <2> HIDE DEF w
  <2>4. Len(l) - 1 = n + m - 1
    BY <1>1, <1>2
  <2> QED  BY <2>2, <2>3, <2>4
<1>5. /\ u \in Seq(S) /\ Len(u) = n + m - 1
      /\ \A j \in 1 .. n + m - 1 : u[j] = IF j <= n THEN h[j] ELSE v[j - n]
  <2>1. /\ u \in Seq(S) /\ Len(u) = n + Len(v)
        /\ \A j \in 1 .. n + Len(v) : u[j] = IF j <= n THEN h[j] ELSE v[j - n]
    BY <1>3, ConcatProperties DEF n
  <2> HIDE DEF u
  <2>2. n + Len(v) = n + m - 1
    BY <1>1, <1>3
  <2> QED  BY <2>1, <2>2
<1> HIDE DEF u, w
<1>6. ASSUME NEW j \in 1 .. n + m - 1 PROVE u[j] = w[j]
  <2>1. CASE j <= n
    <3>1. j \in 1 .. n + m /\ j < n + i
      BY <1>1, <2>1
    <3> QED  BY <1>2, <1>4, <1>5, <2>1, <3>1
  <2>2. CASE j > n /\ j - n < i
    <3>1. /\ j - n \in 1 .. m - 1 /\ j < n + i /\ j \in 1 .. n + m
          /\ ~(j <= n)
      BY <1>1, <2>2
    <3>2. u[j] = q[j - n]
      BY <1>3, <1>5, <2>2, <3>1
    <3>3. w[j] = q[j - n]
      BY <1>2, <1>4, <3>1
    <3> QED  BY <3>2, <3>3
  <2>3. CASE j > n /\ ~(j - n < i)
    <3>1. /\ j - n \in 1 .. m - 1 /\ ~(j < n + i) /\ j + 1 \in 1 .. n + m
          /\ j + 1 - n = j - n + 1 /\ ~(j + 1 <= n) /\ ~(j <= n)
      BY <1>1, <2>3
    <3>2. u[j] = q[j - n + 1]
      BY <1>3, <1>5, <2>3, <3>1
    <3>3. w[j] = l[j + 1]
      BY <1>4, <3>1
    <3>4. l[j + 1] = q[(j + 1) - n]
      BY <1>2, <3>1
    <3>5. (j + 1) - n = j - n + 1
      BY <1>1, <3>1
    <3> QED  BY <3>2, <3>3, <3>4, <3>5
  <2> QED  BY <1>1, <2>1, <2>2, <2>3
<1>7. u = w
  BY <1>4, <1>5, <1>6, SeqEqual
<1> QED  BY <1>7 DEF u, v, w, l, n

\* elv_dispatch_sort moves the first of the queue forwards in the line.
LEMMA LineSort ==
  ASSUME NEW S, NEW h \in Seq(S), NEW q \in Seq(S), q # <<>>,
         NEW i \in 1 .. Len(h) + 1
  PROVE  /\ (h \o q)[Len(h) + 1] = Head(q)
         /\ With(h, i, Head(q)) \o Tail(q)
              = With(Without(h \o q, Len(h) + 1), i, Head(q))
<1> DEFINE l == h \o q
           n == Len(h)
           m == Len(q)
           r == Head(q)
           t == Tail(q)
           a == With(h, i, r)
           u == a \o t
           v == Without(l, n + 1)
           w == With(v, i, r)
<1>1. n \in Nat /\ m \in Nat \ {0}
  BY LenProperties, EmptySeq
<1>2. /\ l \in Seq(S) /\ Len(l) = n + m
      /\ \A j \in 1 .. n + m : l[j] = IF j <= n THEN h[j] ELSE q[j - n]
  BY ConcatProperties
<1>3. /\ r \in S /\ t \in Seq(S) /\ Len(t) = m - 1 /\ r = q[1]
      /\ \A j \in 1 .. m - 1 : t[j] = q[j + 1]
  BY HeadTailProperties
<1>4. /\ a \in Seq(S) /\ Len(a) = n + 1
      /\ \A j \in 1 .. n + 1 :
           a[j] = IF j < i THEN h[j] ELSE IF j = i THEN r ELSE h[j - 1]
  <2> HIDE DEF r
  <2>1. a \in Seq(S) /\ Len(a) = n + 1
    BY <1>3, WithProperties
  <2>2. \A j \in 1 .. n + 1 :
          a[j] = IF j < i THEN h[j] ELSE IF j = i THEN r ELSE h[j - 1]
    BY <1>3, WithElements
  <2> QED  BY <2>1, <2>2
<1> HIDE DEF l, r, t, a
<1>5. /\ u \in Seq(S) /\ Len(u) = n + m
      /\ \A j \in 1 .. n + m : u[j] = IF j <= n + 1 THEN a[j] ELSE t[j - (n + 1)]
  <2>1. /\ u \in Seq(S) /\ Len(u) = Len(a) + Len(t)
        /\ \A j \in 1 .. Len(a) + Len(t) :
             u[j] = IF j <= Len(a) THEN a[j] ELSE t[j - Len(a)]
    BY <1>3, <1>4, ConcatProperties
  <2> HIDE DEF u, n, m
  <2>2. Len(a) + Len(t) = n + m
    BY <1>1, <1>3, <1>4
  <2> QED  BY <1>4, <2>1, <2>2
<1>6. /\ v \in Seq(S) /\ Len(v) = n + m - 1
      /\ \A j \in 1 .. n + m - 1 : v[j] = IF j < n + 1 THEN l[j] ELSE l[j + 1]
  <2> HIDE DEF n, m
  <2>1. n + 1 \in 1 .. Len(l)
    BY <1>1, <1>2
  <2>2. v \in Seq(S) /\ Len(v) = Len(l) - 1
    BY <1>2, <2>1, WithoutProperties
  <2>3. \A j \in 1 .. Len(l) - 1 : v[j] = IF j < n + 1 THEN l[j] ELSE l[j + 1]
    BY <1>2, <2>1, WithoutElements
  <2> HIDE DEF v
  <2>4. Len(l) - 1 = n + m - 1
    BY <1>1, <1>2
  <2> QED  BY <2>2, <2>3, <2>4
<1> HIDE DEF n, m, u, v
<1>7. /\ w \in Seq(S) /\ Len(w) = n + m
      /\ \A j \in 1 .. n + m :
           w[j] = IF j < i THEN v[j] ELSE IF j = i THEN r ELSE v[j - 1]
  <2>1. i \in 1 .. Len(v) + 1
    BY <1>1, <1>6 DEF n
  <2>2. Len(v) + 1 = n + m
    BY <1>1, <1>6
  <2>3. w \in Seq(S) /\ Len(w) = Len(v) + 1
    BY <1>3, <1>6, <2>1, WithProperties
  <2>4. \A j \in 1 .. Len(v) + 1 :
          w[j] = IF j < i THEN v[j] ELSE IF j = i THEN r ELSE v[j - 1]
    BY <1>3, <1>6, <2>1, WithElements
  <2> HIDE DEF w
  <2> QED  BY <2>2, <2>3, <2>4
<1> HIDE DEF w
<1>8. i \in 1 .. n + 1
  BY DEF n
<1>9. ASSUME NEW j \in 1 .. n + m PROVE u[j] = w[j]
  <2>1. CASE j < i
    <3>1. j <= n /\ j < n + 1 /\ j \in 1 .. n + m - 1
      BY <1>1, <1>8, <2>1
    <3>2. u[j] = h[j]
      BY <1>1, <1>4, <1>5, <2>1, <3>1
    <3>3. w[j] = h[j]
      BY <1>2, <1>6, <1>7, <2>1, <3>1
    <3> QED  BY <3>2, <3>3
  <2>2. CASE j = i
    BY <1>1, <1>4, <1>5, <1>7, <1>8, <2>2
  <2>3. CASE j > i /\ j <= n + 1
    <3>1. /\ j - 1 \in 1 .. n + m - 1 /\ j - 1 < n + 1 /\ j - 1 <= n
          /\ j - 1 \in 1 .. n + m /\ ~(j < i) /\ j # i
      BY <1>1, <1>8, <2>3
    <3>2. w[j] = h[j - 1]
      BY <1>2, <1>6, <1>7, <3>1
    <3>3. u[j] = h[j - 1]
      BY <1>1, <1>4, <1>5, <1>8, <2>3, <3>1
    <3> QED  BY <3>2, <3>3
  <2>4. CASE j > n + 1
    <3>1. /\ j - (n + 1) \in 1 .. m - 1 /\ ~(j <= n + 1) /\ ~(j < i) /\ j # i
          /\ j - 1 \in 1 .. n + m - 1 /\ ~(j - 1 < n + 1) /\ j - 1 + 1 = j
          /\ ~(j <= n) /\ j - (n + 1) + 1 = j - n
      BY <1>1, <1>8, <2>4
    <3>2. w[j] = q[j - n]
      BY <1>2, <1>6, <1>7, <3>1
    <3>3. u[j] = q[j - n]
      BY <1>3, <1>5, <3>1
    <3> QED  BY <3>2, <3>3
  <2> QED  BY <1>1, <1>8, <2>1, <2>2, <2>3, <2>4
<1>10. u = w
  BY <1>5, <1>7, <1>9, SeqEqual
<1>11. l[n + 1] = r
  BY <1>1, <1>2, <1>3
<1> QED  BY <1>10, <1>11 DEF u, w, v, a, t, r, l, n

-----------------------------------------------------------------------------
(* launch.c implements the FIFO server: each step is a step of FifoServer  *)
(* or leaves its variables alone.                                          *)

\* What arrives is new to the line and the device.
PlugApart ==
  plugged \cap (Range(queue) \cup Range(queue_head) \cup inflight) = {}

\* Who drains does so in bypass: sorting moves nothing at other times.
DrainsBypassed == \A c \in Ctx : pc[c] = "drain" => elv = "bypass"

SimInv == IInv /\ PlugApart /\ DrainsBypassed

ServerStep == [Server!Next]_(Server!vars)

LEMMA TailRange ==
  ASSUME NEW S, NEW s \in Seq(S), s # <<>>
  PROVE  Range(Tail(s)) \subseteq Range(s) /\ Head(s) \in Range(s)
<1>1. /\ Len(s) \in Nat \ {0} /\ DOMAIN s = 1 .. Len(s)
      /\ Tail(s) \in Seq(S) /\ Len(Tail(s)) = Len(s) - 1
      /\ DOMAIN Tail(s) = 1 .. Len(s) - 1
      /\ \A j \in 1 .. Len(s) - 1 : Tail(s)[j] = s[j + 1]
  BY HeadTailProperties, LenProperties, EmptySeq
<1>2. Head(s) = s[1]
  OBVIOUS
<1> QED  BY <1>1, <1>2 DEF Range

LEMMA WithoutRange ==
  ASSUME NEW S, NEW s \in Seq(S), NEW i \in 1 .. Len(s)
  PROVE  Range(Without(s, i)) \subseteq Range(s)
<1> DEFINE w == Without(s, i)
<1>1. /\ w \in Seq(S) /\ Len(w) = Len(s) - 1 /\ Len(s) \in Nat
      /\ DOMAIN w = 1 .. Len(s) - 1 /\ DOMAIN s = 1 .. Len(s)
  BY WithoutProperties, LenProperties
<1>2. \A j \in 1 .. Len(s) - 1 : w[j] = IF j < i THEN s[j] ELSE s[j + 1]
  BY WithoutElements
<1> HIDE DEF w
<1>3. Range(w) \subseteq Range(s)
  BY <1>1, <1>2 DEF Range
<1> QED  BY <1>3 DEF w

LEMMA LineFacts ==
  ASSUME TypeOK
  PROVE  /\ queue \in Seq(Requests) /\ queue_head \in Seq(Requests)
         /\ Len(queue) \in Nat /\ Len(queue_head) \in Nat
         /\ queue_head \o queue \in Seq(Requests)
         /\ Len(queue_head \o queue) = Len(queue_head) + Len(queue)
         /\ DOMAIN (queue_head \o queue) = 1 .. Len(queue_head) + Len(queue)
         /\ Range(queue_head \o queue) = Range(queue_head) \cup Range(queue)
<1>1. queue \in Seq(Requests) /\ queue_head \in Seq(Requests)
  BY DEF TypeOK, DeviceTypeOK
<1>2. /\ queue_head \o queue \in Seq(Requests)
      /\ Len(queue_head \o queue) = Len(queue_head) + Len(queue)
  BY <1>1, ConcatProperties
<1>3. Range(queue_head \o queue) = Range(queue_head) \cup Range(queue)
  BY <1>1, RangeConcatenation
<1> QED  BY <1>1, <1>2, <1>3, LenProperties

\* The mapped variables stay.
LEMMA Stutter ==
  ASSUME UNCHANGED <<queue, queue_head, inflight>>,
         (elv' = "bypass") = (elv = "bypass")
  PROVE  ServerStep
BY DEF ServerStep, Server!vars

\* The switch begins or ends to drain.
LEMMA DrainingChanges ==
  ASSUME UNCHANGED <<queue, queue_head, inflight>>
  PROVE  ServerStep
<1>1. Server!SetDraining((elv = "bypass")') /\ (elv = "bypass")' \in BOOLEAN
  BY DEF Server!SetDraining
<1>2. Server!Next
  BY <1>1 DEF Server!Next
<1> QED  BY <1>2 DEF ServerStep

\* noop_add_request is an arrival, noop_merged_requests an absorption.
LEMMA SubmitSim ==
  ASSUME SimInv, NEW r \in Requests, Submit(r)
  PROVE  PlugApart' /\ DrainsBypassed' /\ ServerStep
<1> USE DEF SimInv, IInv
<1>0. /\ queue \in Seq(Requests) /\ queue_head \in Seq(Requests)
      /\ Len(queue) \in Nat /\ Len(queue_head) \in Nat
      /\ queue_head \o queue \in Seq(Requests)
      /\ DOMAIN (queue_head \o queue) = 1 .. Len(queue_head) + Len(queue)
      /\ Len(queue_head \o queue) = Len(queue_head) + Len(queue)
      /\ Range(queue_head \o queue) = Range(queue_head) \cup Range(queue)
      /\ DOMAIN queue = 1 .. Len(queue)
  BY LineFacts, LenProperties
<1>1. CASE GetRequest(r) \/ InsertMerge(r)
  <2>1. UNCHANGED <<queue, queue_head, inflight, pc, elv>>
    BY <1>1 DEF GetRequest, InsertMerge, deviceVars
  <2>2. PlugApart'
    BY <1>1, <2>1 DEF PlugApart, GetRequest, InsertMerge, Outstanding
  <2> QED  BY <2>1, <2>2, Stutter DEF DrainsBypassed
<1>2. ASSUME NEW c \in Ctx \ {Kblockd}, noop_add_request(c, r)
      PROVE  PlugApart' /\ DrainsBypassed' /\ ServerStep
  <2>1. /\ r \in plugged /\ plugged' = plugged \ {r}
        /\ queue' = Append(queue, r) /\ pc' = [pc EXCEPT ![c] = "run"]
        /\ UNCHANGED <<elv, queue_head, inflight>>
    BY <1>2 DEF noop_add_request, Linked, RunQueue, At
  <2>2. Range(queue') = Range(queue) \cup {r}
    BY <1>0, <2>1, AppendDistinct
  <2>3. PlugApart' /\ DrainsBypassed'
    BY <2>1, <2>2 DEF PlugApart, DrainsBypassed, TypeOK
  <2>4. queue_head' \o queue' = Append(queue_head \o queue, r)
    BY <1>0, <2>1, LineAppend
  <2>5. r \notin Range(queue_head \o queue) \cup inflight
    BY <1>0, <2>1 DEF PlugApart
  <2>6. Server!Arrive(r)
    BY <2>1, <2>4, <2>5 DEF Server!Arrive, Server!Range, Range
  <2>7. Server!Next
    BY <2>6 DEF Server!Next
  <2> QED  BY <2>3, <2>7 DEF ServerStep
<1>3. ASSUME NEW i \in DOMAIN queue, noop_merged_requests(r, i)
      PROVE  PlugApart' /\ DrainsBypassed' /\ ServerStep
  <2>1. /\ plugged' = plugged \ {r} /\ queue' = Without(queue, i) /\ Len(queue) > 1
        /\ UNCHANGED <<elv, queue_head, inflight, pc>>
    BY <1>3 DEF noop_merged_requests, deviceVars
  <2>2. i \in 1 .. Len(queue) /\ Range(queue') \subseteq Range(queue)
    BY <1>0, <2>1, WithoutRange
  <2>3. PlugApart' /\ DrainsBypassed'
    BY <2>1, <2>2 DEF PlugApart, DrainsBypassed
  <2> DEFINE k == Len(queue_head) + i
  <2>4. queue_head' \o queue' = Without(queue_head \o queue, k)
    BY <1>0, <2>1, <2>2, LineWithout
  <2>5. k \in DOMAIN (queue_head \o queue) /\ Len(queue_head \o queue) > 1
    BY <1>0, <2>1, <2>2
  <2> HIDE DEF k
  <2>6. Server!Absorb(k)
    BY <2>1, <2>4, <2>5 DEF Server!Absorb, Server!Without, Without
  <2>7. Server!Next
    BY <2>5, <2>6 DEF Server!Next
  <2> QED  BY <2>3, <2>7 DEF ServerStep
<1> QED  BY <1>1, <1>2, <1>3 DEF Submit

\* noop_dispatch moves the front of the queue behind the driver's list or,
\* in the drain, forwards.
LEMMA DispatchSim ==
  ASSUME SimInv, noop_dispatch, UNCHANGED <<plugged, inflight, elv>>,
         queue_head = <<>> \/ elv = "bypass"
  PROVE  PlugApart' /\ ServerStep
<1> USE DEF SimInv, IInv
<1>0. /\ queue \in Seq(Requests) /\ queue_head \in Seq(Requests)
      /\ Len(queue) \in Nat /\ Len(queue_head) \in Nat
      /\ DOMAIN (queue_head \o queue) = 1 .. Len(queue_head) + Len(queue)
  BY LineFacts
<1>1. queue # <<>> /\ queue' = Tail(queue)
  BY DEF noop_dispatch
<1> DEFINE r == Head(queue)
<1>2. PICK i \in 1 .. Len(queue_head) + 1 : queue_head' = With(queue_head, i, r)
  BY DEF noop_dispatch, elv_dispatch_sort
<1>3. r \in Requests /\ r \in Range(queue) /\ Range(queue') \subseteq Range(queue)
  BY <1>0, <1>1, TailRange, HeadTailProperties
<1>4. (queue_head \o queue)[Len(queue_head) + 1] = r
      /\ queue_head' \o queue'
           = With(Without(queue_head \o queue, Len(queue_head) + 1), i, r)
  BY <1>0, <1>1, <1>2, LineSort
<1> HIDE DEF r
<1>5. PlugApart'
  <2>1. Range(queue_head') = Range(queue_head) \cup {r}
    BY <1>0, <1>2, <1>3, WithDistinct
  <2> QED  BY <1>3, <2>1 DEF PlugApart
<1>6. CASE elv = "bypass"
  <2> DEFINE k == Len(queue_head) + 1
  <2>1. k \in DOMAIN (queue_head \o queue) /\ i \in DOMAIN (queue_head \o queue)
        /\ i <= k
    <3>1. Len(queue) > 0
      BY <1>0, <1>1, EmptySeq
    <3> QED  BY <1>0, <3>1
  <2>2. /\ (queue_head \o queue)[k] = r
        /\ queue_head' \o queue' = With(Without(queue_head \o queue, k), i, r)
    BY <1>4
  <2> HIDE DEF k
  <2>3. Server!Reorder(k, i)
    BY <1>6, <2>1, <2>2
       DEF Server!Reorder, Server!With, Server!Without, With, Without
  <2>4. Server!Next
    BY <2>1, <2>3 DEF Server!Next
  <2> QED  BY <1>5, <2>4 DEF ServerStep
<1>7. CASE queue_head = <<>>
  <2>1. Len(queue_head) = 0 /\ i = 1
    BY <1>2, <1>7
  <2>2. queue_head' = <<r>>
    <3>1. SubSeq(queue_head, 1, 1 - 1) = <<>> /\ SubSeq(queue_head, 1, 0) = <<>>
      BY SubSeqEmpty
    <3>2. queue_head' = (<<>> \o <<r>>) \o <<>>
      BY <1>2, <2>1, <3>1 DEF With
    <3>3. <<r>> \in Seq(Requests)
      BY <1>3
    <3> QED  BY <3>2, <3>3, ConcatEmptySeq
  <2>3. queue_head' \o queue' = queue
    <3>1. queue = SubSeq(queue, 1, Len(queue)) /\ Tail(queue) = SubSeq(queue, 2, Len(queue))
      BY <1>0, <1>1, SubSeqFull, TailIsSubSeq
    <3>2. 1 \in 1 .. Len(queue) /\ Len(queue) \in 1 .. Len(queue)
      BY <1>0, <1>1, EmptySeq
    <3>3. SubSeq(queue, 1, Len(queue)) = <<queue[1]>> \o SubSeq(queue, 2, Len(queue))
      BY <1>0, <3>2, SubSeqRecursiveFirst
    <3> QED  BY <1>1, <2>2, <3>1, <3>3 DEF r
  <2>4. queue_head \o queue = queue
    BY <1>0, <1>7, ConcatEmptySeq
  <2>5. UNCHANGED Server!vars
    BY <2>3, <2>4 DEF Server!vars
  <2> QED  BY <1>5, <2>5 DEF ServerStep
<1> QED  BY <1>6, <1>7

\* A context in request_fn or in the drain: DeviceStart serves the front.
LEMMA ContextSim ==
  ASSUME SimInv, NEW c \in Ctx,
         RequestFn(c) \/ Issued(c) \/ Unasked(c) \/ Drain(c)
  PROVE  PlugApart' /\ DrainsBypassed' /\ ServerStep
<1> USE DEF SimInv, IInv
<1>0. /\ queue \in Seq(Requests) /\ queue_head \in Seq(Requests)
      /\ pc \in [Ctx -> {"idle", "run", "issue", "drain"}]
  BY LineFacts DEF TypeOK
\* The contexts' states and the request's places change independently.
<1>1. ASSUME NEW l \in {"idle", "run", "issue"}, pc' = [pc EXCEPT ![c] = l],
             elv' = elv
      PROVE  DrainsBypassed'
  BY <1>0, <1>1 DEF DrainsBypassed
<1>2. ASSUME UNCHANGED <<plugged, queue, queue_head, inflight, elv>>
      PROVE  PlugApart' /\ ServerStep
  BY <1>2, Stutter DEF PlugApart
<1>3. CASE Peek(c)
  <2>1. CASE noop_dispatch /\ UNCHANGED pc
    BY <1>3, <2>1, DispatchSim DEF Peek, DrainsBypassed
  <2>2. CASE noop_dispatch_nothing /\ At(c, "idle")
    BY <1>1, <1>2, <1>3, <2>2 DEF Peek, noop_dispatch_nothing, At
  <2> QED  BY <1>3, <2>1, <2>2 DEF Peek
<1>4. CASE OnlyDevice(DeviceBypassed(c) \/ DeviceBusy(c) \/ DeviceIssued(c)
                      \/ RunQueue(c))
  <2>1. /\ UNCHANGED <<plugged, queue, queue_head, inflight, elv>>
        /\ \E l \in {"idle", "run"} : pc' = [pc EXCEPT ![c] = l]
    BY <1>4 DEF OnlyDevice, DeviceBypassed, DeviceBusy, DeviceIssued, RunQueue, At
  <2> QED  BY <1>1, <1>2, <2>1
<1>5. CASE OnlyDevice(DeviceStart(c))
  <2>1. /\ queue_head # <<>> /\ queue_head' = Tail(queue_head)
        /\ inflight' = inflight \cup {Head(queue_head)}
        /\ UNCHANGED <<plugged, queue, elv>> /\ pc' = [pc EXCEPT ![c] = "issue"]
    BY <1>5 DEF OnlyDevice, DeviceStart, At
  <2>2. PlugApart'
    BY <1>0, <2>1, TailRange DEF PlugApart
  <2>3. Server!Serve
    BY <1>0, <2>1, LineTail DEF Server!Serve
  <2>4. Server!Next
    BY <2>3 DEF Server!Next
  <2> QED  BY <1>1, <2>1, <2>2, <2>4 DEF ServerStep
<1>6. CASE OnlyDevice(DeviceRequeue(c))
  <2> DEFINE r == issuing[c]
  <2>1. /\ r \in inflight /\ inflight' = inflight \ {r}
        /\ queue_head' = <<r>> \o queue_head
        /\ UNCHANGED <<plugged, queue, elv>> /\ pc' = [pc EXCEPT ![c] = "idle"]
    BY <1>6 DEF OnlyDevice, DeviceRequeue, At
  <2>2. r \in Requests
    BY <2>1 DEF TypeOK, DeviceTypeOK
  <2> HIDE DEF r
  <2>3. Range(queue_head') = Range(queue_head) \cup {r}
    BY <1>0, <2>1, <2>2, ConsDistinct
  <2>4. PlugApart'
    BY <2>1, <2>3 DEF PlugApart
  <2>5. queue_head' \o queue' = <<r>> \o (queue_head \o queue)
    BY <1>0, <2>1, <2>2, LineCons
  <2>6. Server!GiveBack(r)
    BY <2>1, <2>5 DEF Server!GiveBack
  <2>7. Server!Next
    BY <2>2, <2>6 DEF Server!Next
  <2> QED  BY <1>1, <2>1, <2>4, <2>7 DEF ServerStep
<1>7. CASE Drain(c)
  <2>0. pc[c] = "drain" /\ elv = "bypass" /\ UNCHANGED <<plugged, inflight>>
    BY <1>7 DEF Drain, DrainsBypassed
  <2>1. CASE noop_dispatch /\ UNCHANGED <<pc, elv>>
    BY <2>0, <2>1, DispatchSim DEF DrainsBypassed
  <2>2. CASE /\ noop_dispatch_nothing
             /\ At(c, IF queue_head = <<>> THEN "idle" ELSE "run")
             /\ elv' = IF Quiescent(c) THEN "detached" ELSE elv
    <3>1. UNCHANGED <<queue, queue_head>>
      BY <2>2 DEF noop_dispatch_nothing
    <3>2. PlugApart' /\ ServerStep
      BY <2>0, <3>1, DrainingChanges DEF PlugApart
    <3>3. DrainsBypassed'
      <4>1. CASE Quiescent(c)
        BY <1>0, <2>2, <4>1 DEF Quiescent, DrainsBypassed, At
      <4>2. CASE ~Quiescent(c)
        BY <1>0, <2>0, <2>2, <4>2 DEF DrainsBypassed, At
      <4> QED  BY <4>1, <4>2
    <3> QED  BY <3>2, <3>3
  <2> QED  BY <1>7, <2>1, <2>2 DEF Drain
<1> QED
  BY <1>3, <1>4, <1>5, <1>6, <1>7 DEF RequestFn, Issued, Unasked, OnlyDevice

\* Completions, kicks and the other steps of a switch.
LEMMA OtherSim ==
  ASSUME SimInv,
         \/ \E r \in Requests : noop_completed(r)
         \/ Kicked \/ Switch \/ UNCHANGED vars
  PROVE  PlugApart' /\ DrainsBypassed' /\ ServerStep
<1> USE DEF SimInv, IInv
<1>0. pc \in [Ctx -> {"idle", "run", "issue", "drain"}]
  BY DEF TypeOK
<1>1. ASSUME NEW r \in Requests, noop_completed(r)
      PROVE  PlugApart' /\ DrainsBypassed' /\ ServerStep
  <2>1. /\ r \in inflight /\ inflight' = inflight \ {r}
        /\ UNCHANGED <<plugged, queue, queue_head, pc, elv>>
    BY <1>1 DEF noop_completed, DeviceComplete
  <2>2. PlugApart' /\ DrainsBypassed'
    BY <2>1 DEF PlugApart, DrainsBypassed
  <2>3. Server!Finish(r)
    BY <2>1 DEF Server!Finish
  <2>4. Server!Next
    BY <2>3 DEF Server!Next
  <2> QED  BY <2>2, <2>4 DEF ServerStep
<1>2. ASSUME UNCHANGED <<plugged, queue, queue_head, inflight>>,
             \/ pc' = pc /\ (elv' = elv \/ \A c \in Ctx : pc[c] # "drain")
             \/ /\ elv' = elv
                /\ \E c \in Ctx, l \in {"idle", "run", "drain"} :
                     /\ pc' = [pc EXCEPT ![c] = l]
                     /\ l = "drain" => elv = "bypass"
      PROVE  PlugApart' /\ DrainsBypassed' /\ ServerStep
  <2>1. PlugApart' /\ ServerStep
    BY <1>2, DrainingChanges DEF PlugApart
  <2>2. DrainsBypassed'
    BY <1>0, <1>2 DEF DrainsBypassed
  <2> QED  BY <2>1, <2>2
<1>3. CASE Kicked
  <2>1. CASE sfq_kick_queue
    BY <1>2, <2>1, KblockdAssumption DEF sfq_kick_queue, RunQueue, At
  <2>2. CASE KickSuccessor
    BY <1>2, <2>2 DEF KickSuccessor, deviceVars
  <2>3. CASE KickAfterFree
    <3>1. \A c \in Ctx : pc[c] # "drain"
      BY <2>3 DEF KickAfterFree, DrainsBypassed
    <3> QED  BY <1>2, <2>3, <3>1 DEF KickAfterFree, deviceVars
  <2> QED  BY <1>3, <2>1, <2>2, <2>3 DEF Kicked
<1>4. CASE BypassStart
  <2>1. \A c \in Ctx : pc[c] # "drain"
    BY <1>4 DEF BypassStart, DrainsBypassed
  <2> QED  BY <1>2, <1>4, <2>1 DEF BypassStart, deviceVars
<1>5. CASE noop_exit_queue
  <2>1. \A c \in Ctx : pc[c] # "drain"
    BY <1>5 DEF noop_exit_queue, DrainsBypassed
  <2> QED  BY <1>2, <1>5, <2>1 DEF noop_exit_queue, deviceVars
<1>6. CASE noop_init_queue
  <2>1. queue = <<>> /\ \A c \in Ctx : pc[c] # "drain"
    BY <1>6 DEF noop_init_queue, Gone
  <2> QED  BY <1>2, <1>6, <2>1 DEF noop_init_queue, deviceVars
<1>7. CASE \E c \in Ctx \ {Kblockd} : DrainStart(c)
  BY <1>2, <1>7 DEF DrainStart, At
<1>8. CASE UNCHANGED vars
  BY <1>2, <1>8 DEF vars, deviceVars
<1> QED  BY <1>1, <1>3, <1>4, <1>5, <1>6, <1>7, <1>8 DEF Switch

LEMMA InitSim == Init => SimInv /\ Server!Init
<1> SUFFICES ASSUME Init PROVE SimInv /\ Server!Init
  OBVIOUS
<1>1. IInv
  BY InitIInv
<1>2. PlugApart /\ DrainsBypassed
  BY DEF Init, PlugApart, DrainsBypassed
<1>3. queue_head = <<>> /\ queue = <<>> /\ inflight = {} /\ elv = "attached"
  BY DEF Init, DeviceInit
<1>4. queue_head \o queue = <<>>
  BY <1>3
<1>5. Server!Init
  BY <1>3, <1>4 DEF Server!Init
<1> QED  BY <1>1, <1>2, <1>5 DEF SimInv

LEMMA StepSim == SimInv /\ [Next]_vars => SimInv' /\ [Server!Next]_(Server!vars)
<1> SUFFICES ASSUME SimInv, [Next]_vars PROVE SimInv' /\ ServerStep
  BY DEF ServerStep
<1>1. IInv'
  BY StepIInv DEF SimInv
<1>2. ASSUME NEW r \in Requests, Submit(r)
      PROVE  PlugApart' /\ DrainsBypassed' /\ ServerStep
  BY <1>2, SubmitSim
<1>3. ASSUME NEW c \in Ctx,
             RequestFn(c) \/ Issued(c) \/ Unasked(c) \/ Drain(c)
      PROVE  PlugApart' /\ DrainsBypassed' /\ ServerStep
  BY <1>3, ContextSim
<1>4. ASSUME \/ \E r \in Requests : noop_completed(r)
             \/ Kicked \/ Switch \/ UNCHANGED vars
      PROVE  PlugApart' /\ DrainsBypassed' /\ ServerStep
  BY <1>4, OtherSim
<1>5. PlugApart' /\ DrainsBypassed' /\ ServerStep
  BY <1>2, <1>3, <1>4 DEF Next
<1> QED  BY <1>1, <1>5 DEF SimInv

\* launch.c serves in the order of arrival: whatever contexts, merges,
\* requeues and switches do, its two lists in a row behave as the one line of
\* FifoServer, which only a drain reorders.  (That the line moves on is
\* liveness: ServesInOrder as a whole is model-checked.)
THEOREM Refinement == SafeSpec => Server!SafeSpec
<1>1. Init => SimInv /\ Server!Init
  BY InitSim
<1>2. SimInv /\ [Next]_vars => SimInv' /\ [Server!Next]_(Server!vars)
  BY StepSim
<1> QED  BY <1>1, <1>2, PTL DEF SafeSpec, Server!SafeSpec

=============================================================================
