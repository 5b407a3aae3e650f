---------------------------- MODULE SfqBetaProofs ----------------------------
(***************************************************************************)
(* Proofs about SfqBeta, for every number of processes and requests and    *)
(* every REQUEST_DEPTH.                                                    *)
(*                                                                         *)
(* Under SafeSpec, with registrations that race, in two layers:            *)
(*   IInv    the bound on depth is inductive only with HeapAtRest: the     *)
(*           dispatch that finds its queue empty skips the test of the     *)
(*           depth, and could exceed the limit if the heap held anything.  *)
(*           That depth covers what the device holds, and sfqr_size what   *)
(*           was added, gives the sign of both; Gone says that a           *)
(*           re-initialisation forgets nothing.                            *)
(*   Placed  a request is in one place, and in one position of it.         *)
(*                                                                         *)
(* As long as no registration has raced (RacedSpec), a third:              *)
(*   CalmInv the ring of queues is whole or one registration short of it,  *)
(*           the cursor follows the ring, and before the first dispatch    *)
(*           the first queue of the ring has a request.  That dispatch     *)
(*           does not kick: what it leaves waits for the kick of the       *)
(*           request it passed on.                                         *)
(***************************************************************************)
EXTENDS SfqBetaRaced, BlockDeviceProofs

USE DEF Labels

Gone ==
  elv \in {"detached", "untimed", "freed"} =>
    Outstanding = {} /\ \A c \in Ctx : pc[c] = "idle"

Timers ==
  /\ elv = "untimed" => ~armed /\ ~firing
  /\ WorkStopsAtFree

\* A process that registers has a request, and soon a queue.
RegisteringOK ==
  \A p \in Procs :
    /\ pc[p] \in Registering => cur[p] \in Requests
    /\ pc[p] \in {"count", "tail", "prev"} => own[cur[p]] \in Sfqqs

IInv ==
  /\ TypeOK /\ RegisteringOK
  /\ HeapAtRest /\ NeverUndercounts /\ DepthBound
  /\ Gone /\ Timers

-----------------------------------------------------------------------------
(* Kinds of steps.                                                         *)

\* Nothing the counts speak of has changed.
Still == UNCHANGED <<pending, heap, depth, sfqr_size>> /\ Held' = Held

\* A step that leaves the counted lists and the counts alone keeps their
\* relations.
LEMMA StillCounts ==
  ASSUME HeapAtRest, NeverUndercounts, DepthBound, Still
  PROVE  HeapAtRest' /\ NeverUndercounts' /\ DepthBound'
BY DEF HeapAtRest, NeverUndercounts, DepthBound, Still

\* An elevator that is in use keeps what Gone and Timers promise of others.
LEMMA InUse ==
  ASSUME elv' \in {"attached", "bypass", "oops"}
  PROVE  Gone' /\ Timers'
BY DEF Gone, Timers, WorkStopsAtFree

\* The elevator is in use as long as anybody is at work.
LEMMA WorkMeansInUse ==
  ASSUME TypeOK, Gone, elv # "oops",
         Outstanding # {} \/ \E c \in Ctx : pc[c] # "idle"
  PROVE  elv \in {"attached", "bypass"}
BY DEF TypeOK, Gone

\* sfq_init_queue establishes the invariant.
LEMMA InitIInv == Init => IInv
<1> SUFFICES ASSUME Init PROVE IInv
  OBVIOUS
<1>1. DeviceTypeOK
  BY DEF Init, DeviceInit, DeviceTypeOK
<1>2. TypeOK
  <2>1. /\ cur \in [Procs -> Requests \cup {NoReq}] /\ tmp \in [Procs -> Nat]
        /\ plugged \in [Procs -> SUBSET Requests]
        /\ own \in [Requests -> Sfqqs \cup {NoSfqq}]
    BY DEF Init
  <2>2. nxt \in [0 .. MaxSfqq -> 0 .. MaxSfqq] /\ tail \in 0 .. MaxSfqq
    BY BoundsAssumption DEF Init, EmptyRing, ListHead
  <2>3. pc \in [Ctx -> Labels]
    BY DEF Init
  <2>4. pid \in Seq(Procs) /\ pending \in Seq(Requests)
    BY DEF Init
  <2>5. 0 \in Nat /\ FALSE \in BOOLEAN
    OBVIOUS
  <2> QED  BY <1>1, <2>1, <2>2, <2>3, <2>4, <2>5 DEF Init, TypeOK
<1>3. RegisteringOK
  BY ProcsAssumption DEF Init, RegisteringOK, Registering
<1>4. Held = 0
  BY FS_EmptySet DEF Init, DeviceInit, Held
<1>5. HeapAtRest /\ NeverUndercounts /\ DepthBound
  BY <1>4, FS_EmptySet, DepthAssumption
  DEF Init, HeapAtRest, NeverUndercounts, DepthBound
<1>6. Gone /\ Timers
  BY DEF Init, Gone, Timers, WorkStopsAtFree
<1> QED  BY <1>2, <1>3, <1>5, <1>6 DEF IInv

-----------------------------------------------------------------------------
(* sfq_set_request.                                                        *)

\* The first step of sfq_set_request.
LEMMA SubmitIInv ==
  ASSUME IInv, NEW p \in Procs, NEW r \in Requests, Submit(p, r)
  PROVE  IInv'
<1> USE DEF IInv, SetupBegins
<1>0. p \in Ctx
  BY ProcsAssumption
<1>1. Still /\ UNCHANGED <<ringVars, queueVars, kickVars, elv, queue_head,
      inflight, issuing>>
  BY DEF Submit, sfq_set_request_known, sfq_set_request_new, Still, queueVars,
         Held
<1>2. HeapAtRest' /\ NeverUndercounts' /\ DepthBound'
  BY <1>1, StillCounts
<1>3. Gone' /\ Timers'
  BY <1>1, InUse DEF Submit, sfq_set_request_known, sfq_set_request_new
<1>4. CASE sfq_set_request_known(p, r)
  <2> USE DEF sfq_set_request_known
  <2>1. PICK q \in QueuesOf(p) : own' = [own EXCEPT ![r] = q]
    BY <1>4
  <2>2. q \in Sfqqs
    BY DEF QueuesOf, Visited
  <2>3. own' \in [Requests -> Sfqqs \cup {NoSfqq}]
    BY <2>1, <2>2 DEF TypeOK
  <2>4. plugged' \in [Procs -> SUBSET Requests]
    BY <1>4 DEF TypeOK
  <2>5. TypeOK'
    BY <1>1, <1>4, <2>3, <2>4
    DEF TypeOK, DeviceTypeOK, ringVars, queueVars, kickVars
  <2>6. RegisteringOK'
    BY <1>4, <2>1, <2>2 DEF RegisteringOK, TypeOK, Registering
  <2> QED  BY <1>2, <1>3, <2>5, <2>6
<1>5. CASE sfq_set_request_new(p, r)
  <2> USE DEF sfq_set_request_new, At
  <2>1. /\ cur' \in [Procs -> Requests \cup {NoReq}]
        /\ tmp' \in [Procs -> Nat]
    BY <1>5 DEF TypeOK
  <2>2. pc' \in [Ctx -> Labels]
    BY <1>5 DEF TypeOK, Registering
  <2>3. TypeOK'
    BY <1>1, <1>5, <2>1, <2>2
    DEF TypeOK, DeviceTypeOK, ringVars, queueVars, kickVars
  <2>4. RegisteringOK'
    BY <1>0, <1>5 DEF RegisteringOK, TypeOK, Registering
  <2> QED  BY <1>2, <1>3, <2>3, <2>4
<1> QED  BY <1>4, <1>5 DEF Submit

\* The later steps, which write the ring.
LEMMA RegisterIInv ==
  ASSUME IInv, NEW p \in Procs, Register(p), elv # "oops"
  PROVE  IInv'
<1> USE DEF IInv, RegisterStep, At
<1>0. p \in Ctx /\ pc[p] \in Registering
  BY ProcsAssumption
  DEF Register, GrowHeap, CountSfqq, LinkTail, LinkPrev, Registering
<1>1. Still /\ UNCHANGED <<queueVars, kickVars, elv, queue_head, inflight,
      issuing>>
  BY DEF Register, GrowHeap, CountSfqq, LinkTail, LinkPrev, Still, queueVars,
         Held
<1>2. HeapAtRest' /\ NeverUndercounts' /\ DepthBound'
  BY <1>1, StillCounts
<1>3. Gone' /\ Timers'
  <2>1. pc[p] # "idle"
    BY <1>0 DEF Registering
  <2>2. elv \in {"attached", "bypass"}
    BY <1>0, <2>1, WorkMeansInUse
  <2> QED  BY <1>1, <2>2, InUse
<1>4. cur[p] \in Requests /\ tmp[p] \in Nat
  BY <1>0 DEF RegisteringOK, TypeOK
<1>5. \A l \in {"idle"} \cup Registering :
        pc' = [pc EXCEPT ![p] = l] =>
          pc' \in [Ctx -> Labels]
  BY DEF TypeOK
<1>6. CASE GrowHeap(p)
  <2> USE DEF GrowHeap
  <2>1. pid' \in Seq(Procs) /\ Len(pid) \in Nat
    BY <1>6, AppendProperties, LenProperties DEF TypeOK
  <2>2. Len(pid) + 1 \in Sfqqs
    BY <1>6, <2>1, BoundsAssumption DEF Sfqqs
  <2>3. own' \in [Requests -> Sfqqs \cup {NoSfqq}]
    BY <1>6, <2>2 DEF TypeOK
  <2>4. tmp' \in [Procs -> Nat] /\ heap_limit_size' \in Nat
    BY <1>4, <1>6 DEF TypeOK
  <2>5. pc' \in [Ctx -> Labels]
    BY <1>5, <1>6 DEF Registering
  <2>6. TypeOK'
    BY <1>1, <1>6, <2>1, <2>3, <2>4, <2>5
    DEF TypeOK, DeviceTypeOK, queueVars, kickVars
  <2>7. RegisteringOK'
    BY <1>0, <1>4, <1>6, <2>2 DEF RegisteringOK, TypeOK, Registering
  <2> QED  BY <1>2, <1>3, <2>6, <2>7
<1>7. CASE CountSfqq(p)
  <2> USE DEF CountSfqq
  <2>1. tmp' \in [Procs -> Nat] /\ sfqq_size' \in Nat
    <3>1. tail \in Nat
      BY BoundsAssumption DEF TypeOK
    <3>2. sfqq_size' \in Nat
      BY <1>4, <1>7
    <3> QED  BY <1>7, <3>1, <3>2 DEF TypeOK
  <2>2. pc' \in [Ctx -> Labels]
    BY <1>5, <1>7 DEF Registering
  <2>3. TypeOK'
    BY <1>1, <1>7, <2>1, <2>2 DEF TypeOK, DeviceTypeOK, queueVars, kickVars
  <2>4. RegisteringOK'
    BY <1>0, <1>7 DEF RegisteringOK, TypeOK, Registering
  <2> QED  BY <1>2, <1>3, <2>3, <2>4
<1>8. CASE LinkTail(p)
  <2> USE DEF LinkTail
  <2>1. own[cur[p]] \in Sfqqs /\ Sfqqs \subseteq 0 .. MaxSfqq
    BY <1>8 DEF RegisteringOK, Sfqqs
  <2>2. tail' \in 0 .. MaxSfqq
    BY <1>8, <2>1
  <2>3. nxt' \in [0 .. MaxSfqq -> 0 .. MaxSfqq]
    <3>1. ListHead \in 0 .. MaxSfqq
      BY BoundsAssumption DEF ListHead
    <3>2. nxt \in [0 .. MaxSfqq -> 0 .. MaxSfqq]
      BY DEF TypeOK
    <3>3. nxt' = [nxt EXCEPT ![own[cur[p]]] = ListHead]
      BY <1>8
    <3> QED  BY <3>1, <3>2, <3>3
  <2>4. pc' \in [Ctx -> Labels]
    BY <1>5, <1>8 DEF Registering
  <2>5. TypeOK'
    BY <1>1, <1>8, <2>2, <2>3, <2>4
    DEF TypeOK, DeviceTypeOK, setupVars, queueVars, kickVars
  <2>6. RegisteringOK'
    BY <1>0, <1>8 DEF RegisteringOK, TypeOK, Registering, setupVars
  <2> QED  BY <1>2, <1>3, <2>5, <2>6
<1>9. CASE LinkPrev(p)
  <2> USE DEF LinkPrev
  <2>1. own[cur[p]] \in Sfqqs /\ Sfqqs \subseteq 0 .. MaxSfqq
    BY <1>9 DEF RegisteringOK, Sfqqs
  <2>2. nxt' \in [0 .. MaxSfqq -> 0 .. MaxSfqq]
    BY <1>9, <2>1 DEF TypeOK
  <2>3. /\ cur' \in [Procs -> Requests \cup {NoReq}] /\ tmp' \in [Procs -> Nat]
        /\ plugged' \in [Procs -> SUBSET Requests]
    BY <1>4, <1>9 DEF TypeOK
  <2>4. pc' \in [Ctx -> Labels]
    BY <1>5, <1>9
  <2>5. TypeOK'
    BY <1>1, <1>9, <2>2, <2>3, <2>4
    DEF TypeOK, DeviceTypeOK, queueVars, kickVars
  <2>6. RegisteringOK'
    BY <1>0, <1>9 DEF RegisteringOK, TypeOK, Registering
  <2> QED  BY <1>2, <1>3, <2>5, <2>6
<1> QED  BY <1>6, <1>7, <1>8, <1>9 DEF Register

-----------------------------------------------------------------------------
(* Insertion and dispatch.                                                 *)

\* A flush of a plug: sfq_add_request, or one of the two kinds of merge.
LEMMA FlushIInv ==
  ASSUME IInv, NEW p \in Procs, NEW r \in Requests, Flush(p, r), elv # "oops"
  PROVE  IInv'
<1> USE DEF IInv, Inserts
<1>0. p \in Ctx /\ Held \in Nat /\ Len(pending) \in Nat /\ heap = {}
      /\ Cardinality({}) = 0
  BY ProcsAssumption, HeldType, LenProperties, FS_EmptySet
  DEF TypeOK, HeapAtRest
<1>1. /\ Inserts(p, r)
      /\ stale' \subseteq Requests
      /\ \/ pending' = Append(pending, r) /\ sfqr_size' = sfqr_size + 1
         \/ UNCHANGED <<pending, sfqr_size>>
  BY DEF Flush, sfq_add_request, InsertMerge, MergeLinked, CountAdded,
         CountMerged,
         TypeOK
<1>2. Held' = Held
  BY <1>1 DEF Held
<1>3. /\ pending' \in Seq(Requests) /\ sfqr_size' \in Nat
      /\ sfqr_size' >= Len(pending') + Held
  <2>1. sfqr_size \in Nat /\ sfqr_size >= Len(pending) + Held
    BY <1>0 DEF TypeOK, NeverUndercounts
  <2>2. CASE pending' = Append(pending, r) /\ sfqr_size' = sfqr_size + 1
    BY <1>0, <2>1, <2>2, AppendProperties DEF TypeOK
  <2>3. CASE UNCHANGED <<pending, sfqr_size>>
    BY <2>1, <2>3 DEF TypeOK
  <2> QED  BY <1>1, <2>2, <2>3
<1>4. HeapAtRest' /\ NeverUndercounts' /\ DepthBound'
  BY <1>0, <1>1, <1>2, <1>3 DEF HeapAtRest, NeverUndercounts, DepthBound
<1>5. pc' = [pc EXCEPT ![p] = "run"] \/ pc' = [pc EXCEPT ![p] = "flush"]
  BY <1>1 DEF At
<1>6. TypeOK'
  <2>1. pc' \in [Ctx -> Labels]
    BY <1>5 DEF TypeOK
  <2>2. plugged' \in [Procs -> SUBSET Requests]
    BY <1>1 DEF TypeOK
  <2> QED  BY <1>1, <1>3, <2>1, <2>2
           DEF TypeOK, DeviceTypeOK, ringVars, kickVars
<1>7. RegisteringOK'
  <2>1. UNCHANGED <<cur, own>>
    BY <1>1
  <2>2. \A q \in Procs :
          pc'[q] \in {"grow", "count", "tail", "prev"} => pc'[q] = pc[q]
    BY <1>5, ProcsAssumption DEF TypeOK
  <2> QED  BY <2>1, <2>2 DEF RegisteringOK, Registering
<1>8. Gone' /\ Timers'
  <2>1. r \in plugged[p] /\ plugged[p] \in Range(plugged)
    BY <1>1 DEF TypeOK, Range
  <2>2. Outstanding # {}
    BY <2>1 DEF Outstanding, SetUp
  <2>3. elv \in {"attached", "bypass"}
    BY <2>2, WorkMeansInUse
  <2> QED  BY <1>1, <2>3, InUse
<1> QED  BY <1>4, <1>6, <1>7, <1>8

\* MoveCursor stays on the ring.
LEMMA CursorType ==
  ASSUME TypeOK, MoveCursor, ~NoSfqqYet
  PROVE  os_sfqq' \in 0 .. MaxSfqq /\ sfqq_total_seek' \in Nat
<1>1. \A q \in 0 .. MaxSfqq : nxt[q] \in 0 .. MaxSfqq
  BY DEF TypeOK
<1>2. ListHead \in 0 .. MaxSfqq
  BY BoundsAssumption DEF ListHead
<1>3. NextSfqq \in 0 .. MaxSfqq
  BY <1>1, <1>2 DEF NextSfqq, TypeOK
<1>4. NextSeek \in Nat
  BY DEF NextSeek, TypeOK
<1> QED  BY <1>3, <1>4 DEF MoveCursor

\* A dispatch that returns 0, or goes astray, moves nothing.
LEMMA DispatchNone ==
  ASSUME IInv, UNCHANGED inflight,
         sfq_dispatch_refused \/ sfq_dispatch_nothing \/ sfq_dispatch_wild
  PROVE  /\ UNCHANGED <<pending, heap, depth, queue_head>>
         /\ os_sfqq' \in (0 .. MaxSfqq) \cup {NoSfqq}
            /\ sfqq_total_seek' \in Nat
         /\ unplug_work' \in BOOLEAN
<1> USE DEF IInv
<1>1. unplug_work' \in BOOLEAN
  BY DEF sfq_dispatch_refused, sfq_dispatch_nothing, sfq_dispatch_wild,
         KickIf, TypeOK
<1>2. \/ UNCHANGED <<os_sfqq, sfqq_total_seek>>
      \/ MoveCursor /\ ~NoSfqqYet
  BY DEF sfq_dispatch_refused, sfq_dispatch_nothing, sfq_dispatch_wild
<1>3. os_sfqq' \in (0 .. MaxSfqq) \cup {NoSfqq} /\ sfqq_total_seek' \in Nat
  BY <1>2, CursorType DEF TypeOK
<1> QED
  BY <1>1, <1>3
  DEF sfq_dispatch_refused, sfq_dispatch_nothing, sfq_dispatch_wild

\* A dispatch that returns 1 takes one request off its queue: the oldest, of
\* which there is one, whether it went through the heap or not; and only
\* while depth is within the limit.
LEMMA DispatchOne ==
  ASSUME IInv, UNCHANGED inflight, sfq_dispatch_one
  PROVE  /\ pending' \in Seq(Requests) /\ Len(pending') = Len(pending) - 1
         /\ heap' = {}
         /\ queue_head' \in Seq(Requests) /\ Held' = Held + 1
         /\ depth <= REQUEST_DEPTH /\ depth' = depth + 1
         /\ os_sfqq' \in 0 .. MaxSfqq /\ sfqq_total_seek' \in Nat
         /\ unplug_work' \in BOOLEAN
         /\ elv' \in {elv, "oops"}
<1> USE DEF IInv
<1> DEFINE oldest == {pending[i] : i \in Oldest}
           loaded == IF HeapHasRoom THEN heap \cup oldest ELSE heap
           least  == IF loaded # {} THEN loaded ELSE oldest
<1>0. heap = {} /\ Len(pending) \in Nat /\ DOMAIN pending = 1 .. Len(pending)
      /\ DeviceTypeOK
  BY LenProperties DEF HeapAtRest, TypeOK
<1>1. Oldest \subseteq 1 .. Len(pending)
  BY <1>0 DEF Oldest, Positions
<1>2. \A i, j \in Oldest : i = j
  <2> SUFFICES ASSUME NEW i \in Oldest, NEW j \in Oldest PROVE i = j
    OBVIOUS
  <2>1. i <= j /\ j <= i
    BY DEF Oldest
  <2> QED  BY <1>0, <1>1, <2>1
<1>3. oldest \subseteq Requests
  BY <1>0, <1>1, ElementOfSeq DEF TypeOK
<1>4. least \subseteq oldest /\ loaded \subseteq oldest
  BY <1>0
<1>5. PICK r \in least : /\ elv_dispatch_sort(r)
                         /\ heap' = loaded \ {r}
                         /\ elv' = IF r \in stale THEN "oops" ELSE elv
  BY DEF sfq_dispatch_one, Popped
<1>6. oldest # {} /\ r \in Requests
  BY <1>3, <1>4, <1>5
<1>7. heap' = {}
  <2>1. \A x \in oldest : x = r
    BY <1>2, <1>4, <1>5
  <2> QED  BY <1>4, <1>5, <2>1
<1>8. queue_head' \in Seq(Requests) /\ Held' = Held + 1
  BY <1>0, <1>5, <1>6, DispatchHeld
<1>9. pending' \in Seq(Requests) /\ Len(pending') = Len(pending) - 1
  <2>1. pending' \in Unlinked
    BY <1>0, <1>6 DEF sfq_dispatch_one
  <2>2. PICK i \in Oldest : pending' = Without(pending, i)
    BY <2>1 DEF Unlinked
  <2>3. i \in 1 .. Len(pending)
    BY <1>1
  <2> QED  BY <2>2, <2>3, WithoutProperties DEF TypeOK
<1>10. depth <= REQUEST_DEPTH /\ depth' = depth + 1
  <2>1. Oldest # {}
    BY <1>6
  <2>2. ~OverDepth
    BY <2>1 DEF sfq_dispatch_one, Skips, Empty
  <2> QED  BY <2>2, DepthAssumption DEF sfq_dispatch_one, OverDepth, TypeOK
<1>11. os_sfqq' \in 0 .. MaxSfqq /\ sfqq_total_seek' \in Nat
  BY CursorType DEF sfq_dispatch_one
<1>12. unplug_work' \in BOOLEAN
  BY DEF sfq_dispatch_one, KickIf, TypeOK
<1> QED  BY <1>5, <1>7, <1>8, <1>9, <1>10, <1>11, <1>12

-----------------------------------------------------------------------------
(* The contexts in request_fn, the drain, and the device.                  *)

\* The steps of contexts other than registrations leave those alone.
LEMMA RegisteringKept ==
  ASSUME TypeOK, RegisteringOK, UNCHANGED <<cur, own>>,
         NEW c \in Ctx, NEW l \in {"idle", "flush", "run", "issue", "drain"},
         pc' = [pc EXCEPT ![c] = l]
  PROVE  /\ RegisteringOK'
         /\ pc' \in [Ctx -> Labels]
<1>1. pc' \in [Ctx -> Labels]
  BY DEF TypeOK
<1>2. \A q \in Procs :
        pc'[q] \in {"grow", "count", "tail", "prev"} => pc'[q] = pc[q]
  BY ProcsAssumption DEF TypeOK
<1>3. RegisteringOK'
  BY <1>2 DEF RegisteringOK, Registering
<1> QED  BY <1>1, <1>3

\* What both callers of sfq_dispatch do with it, but for elv.
LEMMA DispatchIInv ==
  ASSUME IInv, Dispatching, NEW c \in Ctx, pc[c] # "idle", elv # "oops",
         \/ (sfq_dispatch_one \/ sfq_dispatch_wild) /\ UNCHANGED pc
         \/ /\ sfq_dispatch_refused \/ sfq_dispatch_nothing
            /\ At(c, "idle") \/ At(c, "run")
            /\ elv' \in {"attached", "bypass", "oops", "detached"}
  PROVE  /\ TypeOK' /\ RegisteringOK'
         /\ HeapAtRest' /\ NeverUndercounts' /\ DepthBound'
         /\ (sfq_dispatch_one \/ sfq_dispatch_wild) => Gone' /\ Timers'
<1> USE DEF IInv, Dispatching
<1>0. /\ UNCHANGED <<setupVars, ringVars, sfqr_size, stale, firing, inflight,
         issuing>>
      /\ Held \in Nat /\ Len(pending) \in Nat /\ heap = {}
      /\ Cardinality({}) = 0 /\ depth \in Nat /\ sfqr_size \in Nat
  BY HeldType, LenProperties, FS_EmptySet DEF TypeOK, HeapAtRest
<1>1. elv \in {"attached", "bypass"}
  BY WorkMeansInUse
<1>2. armed' \in BOOLEAN
  BY DEF TryToCancel, TypeOK
<1>3. /\ RegisteringOK'
      /\ pc' \in [Ctx -> Labels]
  <2>1. UNCHANGED <<cur, own>>
    BY <1>0 DEF setupVars
  <2>2. CASE UNCHANGED pc
    BY <2>1, <2>2 DEF RegisteringOK, TypeOK
  <2>3. CASE At(c, "idle") \/ At(c, "run")
    BY <2>1, <2>3, RegisteringKept DEF At
  <2> QED  BY <2>2, <2>3
<1>4. CASE sfq_dispatch_one /\ UNCHANGED pc
  <2>1. TypeOK'
    BY <1>0, <1>1, <1>2, <1>3, <1>4, DispatchOne
    DEF TypeOK, DeviceTypeOK, setupVars, ringVars
  <2>2. HeapAtRest'
    BY <1>0, <1>4, DispatchOne DEF HeapAtRest
  <2>3. NeverUndercounts'
    <3>1. Cardinality(heap) = 0 /\ Cardinality(heap') = 0
      BY <1>0, <1>4, DispatchOne
    <3>2. /\ Len(pending') = Len(pending) - 1 /\ Held' = Held + 1
          /\ sfqr_size' = sfqr_size
      BY <1>0, <1>4, DispatchOne
    <3> QED  BY <1>0, <3>1, <3>2 DEF NeverUndercounts
  <2>4. DepthBound'
    BY <1>0, <1>4, DispatchOne, DepthAssumption DEF DepthBound
  <2>5. Gone' /\ Timers'
    BY <1>0, <1>1, <1>4, DispatchOne, InUse
  <2> QED  BY <1>3, <2>1, <2>2, <2>3, <2>4, <2>5
<1>5. ASSUME sfq_dispatch_refused \/ sfq_dispatch_nothing \/ sfq_dispatch_wild,
             elv' \in {"attached", "bypass", "oops", "detached"}
      PROVE  TypeOK' /\ HeapAtRest' /\ NeverUndercounts' /\ DepthBound'
  <2>1. TypeOK'
    BY <1>0, <1>2, <1>3, <1>5, DispatchNone
    DEF TypeOK, DeviceTypeOK, setupVars, ringVars
  <2>2. Still
    BY <1>0, <1>5, DispatchNone DEF Still, Held
  <2> QED  BY <2>1, <2>2, StillCounts
<1>6. ASSUME sfq_dispatch_wild
      PROVE  elv' = "oops" /\ Gone' /\ Timers'
  BY <1>6, InUse DEF sfq_dispatch_wild
<1>7. ASSUME sfq_dispatch_one
      PROVE  Gone' /\ Timers'
  BY <1>0, <1>1, <1>7, DispatchOne, InUse
<1> QED  BY <1>3, <1>4, <1>5, <1>6, <1>7

\* A context inside request_fn, holding the lock.
LEMMA RequestFnIInv ==
  ASSUME IInv, NEW c \in Ctx, RequestFn(c), elv # "oops"
  PROVE  IInv'
<1> USE DEF IInv
<1>0. DeviceTypeOK /\ Held \in Nat
  BY HeldType DEF TypeOK
<1>1. pc[c] # "idle" /\ elv \in {"attached", "bypass"}
  <2>1. pc[c] = "run"
    BY DEF RequestFn, Peek, OnlyDevice, DeviceBusy, DeviceBypassed, DeviceStart
  <2> QED  BY <2>1, WorkMeansInUse
<1>2. CASE Peek(c)
  <2>1. CASE (sfq_dispatch_one \/ sfq_dispatch_wild) /\ UNCHANGED pc
    BY <1>1, <1>2, <2>1, DispatchIInv DEF Peek
  <2>2. CASE /\ sfq_dispatch_refused \/ sfq_dispatch_nothing
             /\ At(c, "idle") /\ UNCHANGED elv
    <3>1. Gone' /\ Timers'
      BY <1>1, <2>2, InUse
    <3> QED  BY <1>1, <1>2, <2>2, <3>1, DispatchIInv DEF Peek
  <2> QED  BY <1>2, <2>1, <2>2 DEF Peek
<1>3. ASSUME OnlyDevice(DeviceBusy(c) \/ DeviceBypassed(c) \/ DeviceStart(c))
      PROVE  IInv'
  <2> USE DEF OnlyDevice
  <2>1. Gone' /\ Timers'
    BY <1>1, <1>3, InUse
  <2>2. pc' = [pc EXCEPT ![c] = "idle"] \/ pc' = [pc EXCEPT ![c] = "issue"]
    BY <1>3 DEF DeviceBusy, DeviceBypassed, DeviceStart, At
  <2>3. /\ RegisteringOK'
        /\ pc' \in [Ctx -> Labels]
    BY <1>3, <2>2, RegisteringKept DEF setupVars
  <2>4. DeviceTypeOK' /\ Held' <= Held
    <3>1. CASE DeviceBusy(c) \/ DeviceBypassed(c)
      <4>1. DeviceTypeOK' /\ Held' = Held
        BY <1>0, <3>1, OtherHeld
      <4> QED  BY <1>0, <4>1
    <3>2. CASE DeviceStart(c)
      BY <1>0, <3>2, StartHeld
    <3> QED  BY <1>3, <3>1, <3>2
  <2>5. Held' \in Nat
    <3>1. inflight' \subseteq Requests /\ queue_head' \in Seq(Requests)
      BY <2>4 DEF DeviceTypeOK
    <3> QED  BY <3>1, RequestsAssumption, FS_Subset, FS_CardinalityType,
        LenProperties
             DEF Held
  <2>6. TypeOK'
    BY <1>3, <2>3, <2>4 DEF TypeOK, setupVars, ringVars, queueVars, kickVars
  <2>7. HeapAtRest' /\ NeverUndercounts' /\ DepthBound'
    <3>1. Cardinality(heap) = 0 /\ Len(pending) \in Nat
      BY FS_EmptySet, LenProperties DEF HeapAtRest, TypeOK
    <3> QED  BY <1>0, <1>3, <2>4, <2>5, <3>1
             DEF HeapAtRest, NeverUndercounts, DepthBound, TypeOK, queueVars
  <2> QED  BY <2>1, <2>3, <2>6, <2>7
<1> QED  BY <1>2, <1>3 DEF RequestFn, OnlyDevice

\* A context that enters request_fn, or comes back to it, or puts its request
\* back: the counts and what is held stay.
LEMMA EntersIInv ==
  ASSUME IInv, NEW c \in Ctx, elv \in {"attached", "bypass"}, UNCHANGED elv,
         DeviceIssued(c) \/ DeviceRequeue(c) \/ RunQueue(c),
         UNCHANGED <<setupVars, ringVars, queueVars, armed, firing>>,
         unplug_work' \in BOOLEAN
  PROVE  IInv'
<1> USE DEF IInv
<1>0. DeviceTypeOK
  BY DEF TypeOK
<1>1. DeviceTypeOK' /\ Held' = Held
  BY <1>0, OtherHeld, RequeueHeld
<1>2. pc' = [pc EXCEPT ![c] = "idle"] \/ pc' = [pc EXCEPT ![c] = "run"]
  BY DEF DeviceIssued, DeviceRequeue, RunQueue, At
<1>3. /\ RegisteringOK'
      /\ pc' \in [Ctx -> Labels]
  BY <1>2, RegisteringKept DEF setupVars
<1>4. TypeOK'
  BY <1>1, <1>3 DEF TypeOK, setupVars, ringVars, queueVars
<1>5. HeapAtRest' /\ NeverUndercounts' /\ DepthBound'
  BY <1>1, StillCounts DEF Still, queueVars
<1>6. Gone' /\ Timers'
  BY InUse
<1> QED  BY <1>3, <1>4, <1>5, <1>6

\* A completion frees a slot and counts down; there was one to free.
LEMMA CompletedIInv ==
  ASSUME IInv, NEW r \in Requests, sfq_completed(r), elv # "oops"
  PROVE  IInv'
<1> USE DEF IInv, sfq_completed
<1>0. /\ DeviceTypeOK /\ Held \in Nat /\ Len(pending) \in Nat
      /\ heap = {} /\ Cardinality({}) = 0
  BY HeldType, LenProperties, FS_EmptySet DEF TypeOK, HeapAtRest
<1>1. DeviceTypeOK' /\ Held > 0 /\ Held' = Held - 1
  BY <1>0, CompleteHeld
<1>2. UNCHANGED pc
  BY DEF DeviceComplete
<1>3. depth' = depth - 1 /\ sfqr_size' = sfqr_size - 1
  BY DEF FreeSlot
<1>4. depth' \in Nat /\ sfqr_size' \in Nat
  BY <1>0, <1>1, <1>3 DEF TypeOK, NeverUndercounts, DepthBound
<1>5. unplug_work' \in BOOLEAN /\ armed' \in BOOLEAN
  BY DEF KickIfMore, KickIf, TypeOK
<1>6. TypeOK'
  BY <1>1, <1>2, <1>4, <1>5 DEF TypeOK, setupVars, ringVars
<1>7. RegisteringOK'
  BY <1>2 DEF RegisteringOK, setupVars
<1>8. HeapAtRest' /\ NeverUndercounts' /\ DepthBound'
  BY <1>0, <1>1, <1>3, DepthAssumption
  DEF HeapAtRest, NeverUndercounts, DepthBound, TypeOK
<1>9. Gone' /\ Timers'
  <2>1. Outstanding # {}
    BY DEF DeviceComplete, Outstanding
  <2>2. elv \in {"attached", "bypass"}
    BY <2>1, WorkMeansInUse
  <2> QED  BY <2>2, InUse
<1> QED  BY <1>6, <1>7, <1>8, <1>9

-----------------------------------------------------------------------------
(* The timer, the kick, and the switch.                                    *)

\* The two halves of the timer.
LEMMA TimedIInv ==
  ASSUME IInv, Timed
  PROVE  IInv'
<1> USE DEF IInv
<1>1. /\ UNCHANGED <<setupVars, ringVars, queueVars, elv, deviceVars>>
      /\ armed' \in BOOLEAN /\ firing' \in BOOLEAN /\ unplug_work' \in BOOLEAN
      /\ armed \/ firing
      /\ unplug_work' \/ armed' \/ firing' => armed \/ firing \/ unplug_work
  BY DEF Timed, TimerExpires, sfq_idle_slice_timer, KickIf, TypeOK
<1>2. TypeOK'
  BY <1>1 DEF TypeOK, DeviceTypeOK, setupVars, ringVars, queueVars, deviceVars
<1>3. RegisteringOK'
  BY <1>1 DEF RegisteringOK, setupVars, deviceVars
<1>4. HeapAtRest' /\ NeverUndercounts' /\ DepthBound'
  BY <1>1, StillCounts DEF Still, Held, queueVars, deviceVars
<1>5. Gone'
  BY <1>1 DEF Gone, Outstanding, SetUp, setupVars, queueVars, deviceVars
<1>6. Timers'
  BY <1>1 DEF Timers, WorkStopsAtFree
<1> QED  BY <1>2, <1>3, <1>4, <1>5, <1>6

\* The steps of a switch that touch nothing but elv and the work items.
LEMMA SwitchedIInv ==
  ASSUME IInv, UNCHANGED <<setupVars, ringVars, queueVars, deviceVars>>,
         unplug_work' \in BOOLEAN, armed' \in BOOLEAN, firing' \in BOOLEAN,
         \/ elv = "attached" /\ elv' = "bypass"
         \/ elv \in {"detached", "untimed", "freed"}
            /\ elv' \in {"detached", "untimed", "freed"},
         Timers'
  PROVE  IInv'
<1> USE DEF IInv
<1>1. TypeOK'
  BY DEF TypeOK, DeviceTypeOK, setupVars, ringVars, queueVars, deviceVars
<1>2. RegisteringOK'
  BY DEF RegisteringOK, setupVars, deviceVars
<1>3. HeapAtRest' /\ NeverUndercounts' /\ DepthBound'
  BY StillCounts DEF Still, Held, queueVars, deviceVars
<1>4. Gone'
  BY DEF Gone, Outstanding, SetUp, setupVars, queueVars, deviceVars
<1> QED  BY <1>1, <1>2, <1>3, <1>4

\* One turn of the drain loop, and its end.
LEMMA DrainIInv ==
  ASSUME IInv, NEW c \in Ctx, Drain(c), elv # "oops"
  PROVE  IInv'
<1> USE DEF IInv
<1>0. pc[c] # "idle" /\ elv \in {"attached", "bypass"} /\ Dispatching
  <2>1. pc[c] = "drain" /\ Dispatching
    BY DEF Drain
  <2> QED  BY <2>1, WorkMeansInUse
<1>1. CASE (sfq_dispatch_one \/ sfq_dispatch_wild) /\ UNCHANGED pc
  BY <1>0, <1>1, DispatchIInv
<1>2. CASE /\ sfq_dispatch_refused \/ sfq_dispatch_nothing
           /\ At(c, IF queue_head = <<>> THEN "idle" ELSE "run")
           /\ elv' = IF Quiescent(c) THEN "detached" ELSE elv
  <2>1. (At(c, "idle") \/ At(c, "run")) /\ elv' \in {"attached", "bypass",
        "detached"}
    BY <1>0, <1>2
  <2>2. /\ TypeOK' /\ RegisteringOK'
        /\ HeapAtRest' /\ NeverUndercounts' /\ DepthBound'
    BY <1>0, <1>2, <2>1, DispatchIInv
  <2>3. CASE Quiescent(c)
    <3>1. elv' = "detached"
      BY <1>2, <2>3
    <3>2. Outstanding = {} /\ \A d \in Ctx \ {c} : pc[d] = "idle"
      BY <2>3 DEF Quiescent
    <3>3. queue_head = <<>>
      <4>1. Range(queue_head) = {}
        BY <3>2 DEF Outstanding
      <4>2. DOMAIN queue_head = {}
        BY <4>1 DEF Range
      <4>3. queue_head \in Seq(Requests) /\ Len(queue_head) = 0
        BY <4>2, LenProperties DEF TypeOK, DeviceTypeOK
      <4> QED  BY <4>3, EmptySeq
    <3>4. pc' = [pc EXCEPT ![c] = "idle"]
      BY <1>2, <3>3 DEF At
    <3>5. \A d \in Ctx : pc'[d] = "idle"
      BY <3>2, <3>4 DEF TypeOK
    <3>6. Outstanding' = {}
      <4>1. UNCHANGED <<setupVars, inflight>>
        BY <1>0 DEF Dispatching
      <4>2. UNCHANGED <<pending, heap, queue_head>>
        BY <1>2, <4>1, DispatchNone
      <4> QED  BY <3>2, <4>1, <4>2 DEF Outstanding, SetUp, setupVars
    <3>7. Gone' /\ Timers'
      BY <3>1, <3>5, <3>6 DEF Gone, Timers, WorkStopsAtFree
    <3> QED  BY <2>2, <3>7
  <2>4. CASE ~Quiescent(c)
    <3>1. Gone' /\ Timers'
      BY <1>0, <1>2, <2>4, InUse
    <3> QED  BY <2>2, <3>1
  <2> QED  BY <2>3, <2>4
<1> QED  BY <1>1, <1>2 DEF Drain

\* The switch away and the re-initialisation.
LEMMA SwitchIInv ==
  ASSUME IInv, Switch, elv # "oops"
  PROVE  IInv'
<1> USE DEF IInv
<1>1. CASE BypassStart
  <2>1. Timers'
    BY <1>1, InUse DEF BypassStart, OnlyElv
  <2> QED  BY <1>1, <2>1, SwitchedIInv
           DEF BypassStart, OnlyElv, kickVars, TypeOK
<1>2. CASE CancelTimer
  <2>1. Timers'
    BY <1>2 DEF CancelTimer, CallbackDone, OnlyElv, Timers, WorkStopsAtFree
  <2> QED  BY <1>2, <2>1, SwitchedIInv DEF CancelTimer, OnlyElv, TypeOK
<1>3. CASE sfq_exit_queue
  <2>1. pc[Kblockd] = "idle"
    BY <1>3, KblockdAssumption DEF sfq_exit_queue, OnlyElv, Gone
  <2>2. Timers'
    BY <1>3, <2>1
    DEF sfq_exit_queue, OnlyElv, Timers, WorkStopsAtFree, deviceVars
  <2> QED  BY <1>3, <2>2, SwitchedIInv DEF sfq_exit_queue, OnlyElv, TypeOK
<1>4. CASE KickSuccessor
  <2>1. Timers'
    BY <1>4 DEF KickSuccessor, Timers, WorkStopsAtFree
  <2> QED  BY <1>4, <2>1, SwitchedIInv DEF KickSuccessor, TypeOK
<1>5. CASE sfq_init_queue
  <2> USE DEF sfq_init_queue
  <2>1. Outstanding = {} /\ \A c \in Ctx : pc[c] = "idle"
    BY <1>5 DEF Gone
  <2>2. TypeOK'
    <3>1. own' \in [Requests -> Sfqqs \cup {NoSfqq}]
      BY <1>5
    <3>2. nxt' \in [0 .. MaxSfqq -> 0 .. MaxSfqq] /\ tail' \in 0 .. MaxSfqq
      BY <1>5, BoundsAssumption DEF EmptyRing, ListHead
    <3>3. pid' \in Seq(Procs) /\ pending' \in Seq(Requests)
      BY <1>5
    <3>4. 0 \in Nat /\ FALSE \in BOOLEAN
      OBVIOUS
    <3> QED  BY <1>5, <3>1, <3>2, <3>3, <3>4
             DEF TypeOK, DeviceTypeOK, deviceVars
  <2>3. RegisteringOK'
    BY <1>5, <2>1, ProcsAssumption DEF RegisteringOK, Registering, deviceVars
  <2>4. Held' = 0
    <3>1. Range(queue_head) = {} /\ inflight = {}
      BY <2>1 DEF Outstanding
    <3>2. DOMAIN queue_head = {}
      BY <3>1 DEF Range
    <3>3. Len(queue_head) = 0
      BY <3>2, LenProperties DEF TypeOK, DeviceTypeOK
    <3> QED  BY <1>5, <3>1, <3>3, FS_EmptySet DEF Held, deviceVars
  <2>5. HeapAtRest' /\ NeverUndercounts' /\ DepthBound'
    BY <1>5, <2>4, FS_EmptySet, DepthAssumption
    DEF HeapAtRest, NeverUndercounts, DepthBound
  <2>6. Gone' /\ Timers'
    BY <1>5, InUse
  <2> QED  BY <2>2, <2>3, <2>5, <2>6
<1>6. ASSUME NEW p \in Procs, DrainStart(p)
      PROVE  IInv'
  <2> USE DEF DrainStart
  <2>0. p \in Ctx
    BY ProcsAssumption
  <2>1. /\ RegisteringOK'
        /\ pc' \in [Ctx -> Labels]
    BY <1>6, <2>0, RegisteringKept DEF At, setupVars
  <2>2. TypeOK'
    BY <1>6, <2>1
    DEF TypeOK, DeviceTypeOK, setupVars, ringVars, queueVars, kickVars
  <2>3. HeapAtRest' /\ NeverUndercounts' /\ DepthBound'
    BY <1>6, StillCounts DEF Still, Held, queueVars
  <2>4. Gone' /\ Timers'
    BY <1>6, InUse
  <2> QED  BY <2>1, <2>2, <2>3, <2>4
<1>7. ASSUME NEW p \in Procs, Drain(p)
      PROVE  IInv'
  BY <1>7, ProcsAssumption, DrainIInv
<1> QED  BY <1>1, <1>2, <1>3, <1>4, <1>5, <1>6, <1>7 DEF Switch

-----------------------------------------------------------------------------
(* A request is in one place, whatever registrations race.                 *)

\* The requests that processes set up or have plugged are different ones.
OwnSetUps ==
  \A p, q \in Procs :
    /\ cur[p] = cur[q] /\ cur[p] # NoReq => p = q
    /\ cur[p] \notin plugged[q]
    /\ plugged[p] \cap plugged[q] # {} => p = q

Placed ==
  /\ IsInjective(pending)
  /\ OwnSetUps
  /\ Apart(Range(pending), SetUp, queue_head, inflight)

\* What is set up, element by element.
LEMMA SetUpElements ==
  ASSUME TypeOK, NEW r
  PROVE  r \in SetUp <=>
           \E p \in Procs : (r = cur[p] /\ r # NoReq) \/ r \in plugged[p]
<1>1. DOMAIN cur = Procs /\ DOMAIN plugged = Procs
  BY DEF TypeOK
<1>2. \A x : x \in Range(cur) <=> \E p \in Procs : x = cur[p]
  BY <1>1 DEF Range
<1>3. \A X : X \in Range(plugged) <=> \E p \in Procs : X = plugged[p]
  BY <1>1 DEF Range
<1> QED  BY <1>2, <1>3 DEF SetUp

LEMMA SetUpPrimed ==
  ASSUME TypeOK', NEW r \in SetUp'
  PROVE  \E p \in Procs : (r = cur'[p] /\ r # NoReq) \/ r \in plugged'[p]
<1>1. DOMAIN cur' = Procs /\ DOMAIN plugged' = Procs
  BY DEF TypeOK
<1> QED  BY <1>1 DEF SetUp, Range

\* A step that sets up no request and moves none.
LEMMA SamePlaces ==
  ASSUME Placed, UNCHANGED <<cur, plugged, pending, queue_head, inflight>>
  PROVE  Placed'
BY DEF Placed, OwnSetUps, Apart, SetUp

LEMMA SubmitPlaced ==
  ASSUME IInv, IInv', Placed, NEW p \in Procs, NEW r \in Requests, Submit(p, r)
  PROVE  Placed'
<1>0. /\ TypeOK /\ TypeOK' /\ r # NoReq
      /\ cur \in [Procs -> Requests \cup {NoReq}]
      /\ plugged \in [Procs -> SUBSET Requests]
  BY RequestsAssumption DEF IInv, TypeOK
<1>1. /\ r \notin SetUp /\ r \notin Range(pending) /\ r \notin Range(queue_head)
      /\ r \notin inflight
      /\ UNCHANGED <<pending, queue_head, inflight>>
  BY DEF Submit, sfq_set_request_known, sfq_set_request_new, SetupBegins,
         Outstanding, queueVars
<1>2. \A q \in Procs : cur[q] # r /\ r \notin plugged[q]
  BY <1>0, <1>1, SetUpElements
<1>3. \/ UNCHANGED cur /\ plugged' = [plugged EXCEPT ![p] = @ \cup {r}]
      \/ UNCHANGED plugged /\ cur' = [cur EXCEPT ![p] = r]
  BY DEF Submit, sfq_set_request_known, sfq_set_request_new
<1>4. OwnSetUps'
  <2>1. CASE UNCHANGED cur /\ plugged' = [plugged EXCEPT ![p] = @ \cup {r}]
    BY <1>0, <1>2, <2>1 DEF Placed, OwnSetUps
  <2>2. CASE UNCHANGED plugged /\ cur' = [cur EXCEPT ![p] = r]
    BY <1>0, <1>2, <2>2 DEF Placed, OwnSetUps
  <2> QED  BY <1>3, <2>1, <2>2
<1>5. SetUp' \subseteq SetUp \cup {r}
  <2> SUFFICES ASSUME NEW x \in SetUp' PROVE x \in SetUp \cup {r}
    OBVIOUS
  <2>1. \A y : y \in SetUp <=>
           \E q \in Procs : (y = cur[q] /\ y # NoReq) \/ y \in plugged[q]
    BY <1>0, SetUpElements
  <2>2. PICK q \in Procs : (x = cur'[q] /\ x # NoReq) \/ x \in plugged'[q]
    BY <1>0, SetUpPrimed
  <2> QED  BY <1>0, <1>3, <2>1, <2>2
<1> QED  BY <1>1, <1>4, <1>5 DEF Placed, Apart

\* The end of a registration plugs the request; the rest of it moves nothing.
LEMMA RegisterPlaced ==
  ASSUME IInv, IInv', Placed, NEW p \in Procs, Register(p)
  PROVE  Placed'
<1>0. /\ TypeOK /\ TypeOK' /\ NoReq \notin Requests
      /\ cur \in [Procs -> Requests \cup {NoReq}]
      /\ plugged \in [Procs -> SUBSET Requests]
  BY RequestsAssumption DEF IInv, TypeOK
<1>1. CASE GrowHeap(p) \/ CountSfqq(p) \/ LinkTail(p)
  BY <1>1, SamePlaces
     DEF GrowHeap, CountSfqq, LinkTail, RegisterStep, queueVars, setupVars
<1>2. CASE LinkPrev(p)
  <2>1. /\ plugged' = [plugged EXCEPT ![p] = @ \cup {cur[p]}]
        /\ cur' = [cur EXCEPT ![p] = NoReq]
        /\ UNCHANGED <<pending, queue_head, inflight>>
    BY <1>2 DEF LinkPrev, RegisterStep, queueVars
  <2>2. cur[p] \in Requests
    BY <1>2 DEF LinkPrev, RegisterStep, Registering, IInv, RegisteringOK
  <2>3. OwnSetUps'
    BY <1>0, <2>1, <2>2 DEF Placed, OwnSetUps
  <2>4. SetUp' \subseteq SetUp
    <3> SUFFICES ASSUME NEW x \in SetUp' PROVE x \in SetUp
      OBVIOUS
    <3>1. \A y : y \in SetUp <=>
             \E q \in Procs : (y = cur[q] /\ y # NoReq) \/ y \in plugged[q]
      BY <1>0, SetUpElements
    <3>2. PICK q \in Procs : (x = cur'[q] /\ x # NoReq) \/ x \in plugged'[q]
      BY <1>0, SetUpPrimed
    <3> QED  BY <1>0, <2>1, <2>2, <3>1, <3>2
  <2> QED  BY <2>1, <2>3, <2>4 DEF Placed, Apart
<1> QED  BY <1>1, <1>2 DEF Register

LEMMA FlushPlaced ==
  ASSUME IInv, IInv', Placed, NEW p \in Procs, NEW r \in Requests, Flush(p, r)
  PROVE  Placed'
<1>0. /\ TypeOK /\ TypeOK' /\ NoReq \notin Requests /\ pending \in Seq(Requests)
      /\ cur \in [Procs -> Requests \cup {NoReq}]
      /\ plugged \in [Procs -> SUBSET Requests]
  BY RequestsAssumption DEF IInv, TypeOK
<1>1. /\ r \in plugged[p] /\ plugged' = [plugged EXCEPT ![p] = @ \ {r}]
      /\ UNCHANGED <<cur, queue_head, inflight>>
      /\ pending' \in {pending, Append(pending, r)}
  BY DEF Flush, sfq_add_request, InsertMerge, MergeLinked, Inserts
<1>2. OwnSetUps'
  BY <1>0, <1>1 DEF Placed, OwnSetUps
<1>3. \A y : y \in SetUp <=>
         \E q \in Procs : (y = cur[q] /\ y # NoReq) \/ y \in plugged[q]
  BY <1>0, SetUpElements
<1>4. SetUp' \subseteq SetUp \ {r} /\ r \in SetUp
  <2>1. ASSUME NEW x \in SetUp' PROVE x \in SetUp \ {r}
    <3>1. PICK q \in Procs : (x = cur'[q] /\ x # NoReq) \/ x \in plugged'[q]
      BY <1>0, SetUpPrimed
    <3> QED  BY <1>0, <1>1, <1>3, <3>1 DEF Placed, OwnSetUps
  <2> QED  BY <1>1, <1>3, <2>1
<1>5. r \notin Range(pending) /\ r \notin Range(queue_head) /\ r \notin inflight
  BY <1>4 DEF Placed, Apart
<1>6. Range(pending') \subseteq Range(pending) \cup {r} /\ IsInjective(pending')
  <2>1. /\ Range(Append(pending, r)) = Range(pending) \cup {r}
        /\ IsInjective(pending) => IsInjective(Append(pending, r))
    BY <1>0, <1>5, AppendDistinct
  <2>2. IsInjective(pending)
    BY DEF Placed
  <2> QED  BY <1>1, <2>1, <2>2
<1> QED  BY <1>1, <1>2, <1>4, <1>5, <1>6 DEF Placed, Apart

\* A dispatch that returns 1 hands over the request it unlinks, the oldest of
\* the queue under the cursor.
LEMMA DispatchTakes ==
  ASSUME IInv, sfq_dispatch_one
  PROVE  \E i \in Oldest : /\ i \in 1 .. Len(pending)
                           /\ pending' = Without(pending, i)
                           /\ elv_dispatch_sort(pending[i])
<1> DEFINE oldest == {pending[i] : i \in Oldest}
           loaded == IF HeapHasRoom THEN heap \cup oldest ELSE heap
           least  == IF loaded # {} THEN loaded ELSE oldest
<1>1. heap = {} /\ DOMAIN pending = 1 .. Len(pending)
  BY LenProperties DEF IInv, TypeOK, HeapAtRest
<1>2. Oldest \subseteq 1 .. Len(pending)
  BY <1>1 DEF Oldest, Positions
<1>3. PICK r \in least : elv_dispatch_sort(r)
  BY DEF sfq_dispatch_one
<1>4. r \in oldest
  BY <1>1, <1>3
<1>5. pending' \in Unlinked
  BY <1>1, <1>4 DEF sfq_dispatch_one
<1>6. PICK i \in Oldest : pending' = Without(pending, i)
  BY <1>5 DEF Unlinked
<1>7. PICK j \in Oldest : r = pending[j]
  BY <1>4
<1>8. i = j
  <2>1. i <= j /\ j <= i
    BY DEF Oldest
  <2>2. i \in Int /\ j \in Int
    BY <1>2
  <2> QED  BY <2>1, <2>2
<1> QED  BY <1>2, <1>3, <1>6, <1>7, <1>8

LEMMA DispatchPlaced ==
  ASSUME IInv, Placed, Dispatching,
         \/ sfq_dispatch_one \/ sfq_dispatch_wild
         \/ sfq_dispatch_refused \/ sfq_dispatch_nothing
  PROVE  Placed'
<1>0. /\ pending \in Seq(Requests) /\ queue_head \in Seq(Requests)
      /\ UNCHANGED <<cur, plugged, inflight>>
  BY DEF IInv, TypeOK, DeviceTypeOK, Dispatching, setupVars
<1>1. CASE sfq_dispatch_wild \/ sfq_dispatch_refused \/ sfq_dispatch_nothing
  <2>1. UNCHANGED <<pending, queue_head>>
    BY <1>0, <1>1, DispatchNone
  <2> QED  BY <1>0, <2>1, SamePlaces
<1>2. CASE sfq_dispatch_one
  <2>1. PICK i \in 1 .. Len(pending) : /\ pending' = Without(pending, i)
                                       /\ elv_dispatch_sort(pending[i])
    BY <1>2, DispatchTakes
  <2> DEFINE r == pending[i]
  <2>2. PICK k \in 1 .. Len(queue_head) + 1 :
          queue_head' = With(queue_head, k, r)
    BY <2>1 DEF elv_dispatch_sort
  <2>3. IsInjective(pending) /\ r \in Requests /\ r \in Range(pending)
    BY <1>0, <2>1, ElementOfSeq, LenProperties DEF Placed, Range
  <2>4. Range(pending') = Range(pending) \ {r} /\ IsInjective(pending')
    BY <1>0, <2>1, <2>3, WithoutDistinct
  <2> HIDE DEF r
  <2>5. Apart(Range(pending) \ {r}, SetUp, queue_head', inflight)
    BY <1>0, <2>2, <2>3, ApartDispatch DEF Placed
  <2>6. SetUp' = SetUp /\ OwnSetUps'
    BY <1>0 DEF SetUp, OwnSetUps, Placed
  <2> QED  BY <1>0, <2>4, <2>5, <2>6 DEF Placed
<1> QED  BY <1>1, <1>2

LEMMA DevicePlaced ==
  ASSUME IInv, Placed, NEW c \in Ctx, UNCHANGED <<setupVars, pending>>,
         \/ DeviceBusy(c) \/ DeviceBypassed(c) \/ DeviceStart(c)
         \/ DeviceIssued(c) \/ DeviceRequeue(c) \/ RunQueue(c)
  PROVE  Placed'
<1> USE DEF setupVars
<1>0. queue_head \in Seq(Requests) /\ issuing \in [Ctx -> Requests \cup {NoReq}]
      /\ inflight \subseteq Requests
  BY DEF IInv, TypeOK, DeviceTypeOK
<1>1. Apart(Range(pending), SetUp, queue_head, inflight)
  BY DEF Placed
<1>2. Apart(Range(pending), SetUp, queue_head', inflight')
  <2>1. CASE DeviceStart(c)
    BY <1>0, <1>1, <2>1, ApartStart DEF DeviceStart
  <2>2. CASE DeviceRequeue(c)
    <3>1. issuing[c] \in inflight /\ issuing[c] \in Requests
      BY <1>0, <2>2 DEF DeviceRequeue
    <3> QED  BY <1>0, <1>1, <2>2, <3>1, ApartRequeue DEF DeviceRequeue
  <2>3. CASE DeviceBusy(c) \/ DeviceBypassed(c) \/ DeviceIssued(c) \/ RunQueue(c)
    BY <1>1, <2>3 DEF DeviceBusy, DeviceBypassed, DeviceIssued, RunQueue
  <2> QED  BY <2>1, <2>2, <2>3
<1>3. SetUp' = SetUp /\ OwnSetUps'
  BY DEF SetUp, OwnSetUps, Placed
<1> QED  BY <1>2, <1>3 DEF Placed

LEMMA InitPlaced == Init => Placed
<1> SUFFICES ASSUME Init PROVE Placed
  OBVIOUS
<1> USE DEF Init, DeviceInit
<1>1. Range(pending) = {} /\ Range(queue_head) = {} /\ IsInjective(pending)
      /\ IsInjective(queue_head)
  BY EmptySeq DEF Range, IsInjective
<1>2. OwnSetUps
  BY DEF OwnSetUps
<1> QED  BY <1>1, <1>2 DEF Placed, Apart

LEMMA NextPlaced == IInv /\ IInv' /\ Placed /\ [Next]_vars => Placed'
<1> SUFFICES ASSUME IInv, IInv', Placed, [Next]_vars PROVE Placed'
  OBVIOUS
<1>1. ASSUME NEW p \in Procs, NEW r \in Requests,
             Register(p) \/ Submit(p, r) \/ Flush(p, r)
      PROVE  Placed'
  BY <1>1, RegisterPlaced, SubmitPlaced, FlushPlaced
<1>2. ASSUME NEW p \in Procs, Register(p) PROVE Placed'
  BY <1>2, RegisterPlaced
<1>3. ASSUME NEW c \in Ctx, RequestFn(c) \/ Issued(c) \/ Unasked(c) PROVE Placed'
  <2>1. CASE Peek(c)
    BY <2>1, DispatchPlaced DEF Peek
  <2>2. CASE ~Peek(c)
    BY <1>3, <2>2, DevicePlaced
       DEF RequestFn, Issued, Unasked, OnlyDevice, queueVars
  <2> QED  BY <2>1, <2>2
<1>4. ASSUME NEW r \in Requests, sfq_completed(r) PROVE Placed'
  <2>1. /\ inflight' \subseteq inflight
        /\ UNCHANGED <<cur, plugged, pending, queue_head>>
    BY <1>4 DEF sfq_completed, DeviceComplete, setupVars
  <2> QED  BY <2>1 DEF Placed, Apart, OwnSetUps, SetUp
<1>5. CASE sfq_kick_queue
  BY <1>5, KblockdAssumption, DevicePlaced DEF sfq_kick_queue, queueVars
<1>6. CASE Timed \/ BypassStart \/ CancelTimer \/ sfq_exit_queue \/ KickSuccessor
           \/ UNCHANGED vars
  BY <1>6, SamePlaces
     DEF Timed, TimerExpires, sfq_idle_slice_timer, BypassStart, CancelTimer,
         sfq_exit_queue, KickSuccessor, OnlyElv, vars, setupVars, queueVars,
         deviceVars
<1>7. CASE sfq_init_queue
  <2>1. /\ Outstanding = {} /\ pending' = <<>>
        /\ UNCHANGED <<cur, plugged, queue_head, inflight>>
    BY <1>7 DEF sfq_init_queue, deviceVars, IInv, Gone
  <2>2. Range(pending') = {} /\ IsInjective(pending')
    BY <2>1, EmptySeq DEF Range, IsInjective
  <2> QED  BY <2>1, <2>2 DEF Placed, Apart, OwnSetUps, SetUp
<1>8. ASSUME NEW p \in Procs, DrainStart(p) \/ Drain(p) PROVE Placed'
  <2>1. CASE DrainStart(p)
    BY <2>1, SamePlaces DEF DrainStart, setupVars, queueVars
  <2>2. CASE Drain(p)
    BY <2>2, DispatchPlaced DEF Drain
  <2> QED  BY <1>8, <2>1, <2>2
<1> QED
  BY <1>1, <1>2, <1>3, <1>4, <1>5, <1>6, <1>7, <1>8 DEF Next, Working, Switch

\* Lists without repetitions in disjoint places: the numbers add up.
LEMMA PlacedCounts ==
  ASSUME IInv, Placed
  PROVE  OnePlace
<1> DEFINE P == Range(pending)
           Q == Range(queue_head)
<1>1. /\ pending \in Seq(Requests) /\ queue_head \in Seq(Requests)
      /\ inflight \subseteq Requests /\ TypeOK /\ heap = {}
      /\ IsFiniteSet(Requests)
  BY RequestsAssumption DEF IInv, TypeOK, DeviceTypeOK, HeapAtRest
<1>2. /\ IsFiniteSet(P) /\ Cardinality(P) = Len(pending)
      /\ IsFiniteSet(Q) /\ Cardinality(Q) = Len(queue_head)
  BY <1>1, DistinctLen DEF Placed, Apart
<1>3. IsFiniteSet(inflight) /\ IsFiniteSet(SetUp)
  <2>1. SetUp \subseteq Requests
    <3> SUFFICES ASSUME NEW r \in SetUp PROVE r \in Requests
      OBVIOUS
    <3>1. \E p \in Procs : (r = cur[p] /\ r # NoReq) \/ r \in plugged[p]
      BY <1>1, SetUpElements
    <3> QED  BY <1>1, <3>1 DEF TypeOK
  <2> QED  BY <1>1, <2>1, FS_Subset
<1>4. /\ SetUp \cap P = {} /\ (SetUp \cup P) \cap Q = {}
      /\ ((SetUp \cup P) \cup Q) \cap inflight = {}
  BY DEF Placed, Apart
<1> HIDE DEF P, Q
<1>5. /\ IsFiniteSet(SetUp \cup P)
      /\ Cardinality(SetUp \cup P) = Cardinality(SetUp) + Cardinality(P) - Cardinality(SetUp \cap P)
  BY <1>2, <1>3, FS_Union
<1>6. /\ IsFiniteSet((SetUp \cup P) \cup Q)
      /\ Cardinality((SetUp \cup P) \cup Q)
           = Cardinality(SetUp \cup P) + Cardinality(Q) - Cardinality((SetUp \cup P) \cap Q)
  BY <1>2, <1>5, FS_Union
<1>7. Cardinality(((SetUp \cup P) \cup Q) \cup inflight)
        = Cardinality((SetUp \cup P) \cup Q) + Cardinality(inflight)
            - Cardinality(((SetUp \cup P) \cup Q) \cap inflight)
  BY <1>3, <1>6, FS_Union
<1>8. Outstanding = ((SetUp \cup P) \cup Q) \cup inflight
  BY <1>1 DEF Outstanding, P, Q
<1>9. /\ Cardinality(SetUp) \in Nat /\ Cardinality(P) \in Nat
      /\ Cardinality(Q) \in Nat /\ Cardinality(inflight) \in Nat
      /\ Cardinality({}) = 0
  BY <1>2, <1>3, FS_CardinalityType, FS_EmptySet
<1>10. Cardinality(Outstanding) =
         Cardinality(SetUp) + Cardinality(P) + Cardinality(Q) + Cardinality(inflight)
  <2>0. /\ Cardinality(SetUp \cap P) = 0
        /\ Cardinality((SetUp \cup P) \cap Q) = 0
        /\ Cardinality(((SetUp \cup P) \cup Q) \cap inflight) = 0
    BY <1>4, <1>9, Zenon
  <2>1. Cardinality(SetUp \cup P) = Cardinality(SetUp) + Cardinality(P)
    BY <1>5, <1>9, <2>0
  <2>2. Cardinality((SetUp \cup P) \cup Q)
          = Cardinality(SetUp \cup P) + Cardinality(Q)
    BY <1>6, <1>9, <2>0, <2>1
  <2>3. Cardinality(((SetUp \cup P) \cup Q) \cup inflight)
          = Cardinality((SetUp \cup P) \cup Q) + Cardinality(inflight)
    BY <1>7, <1>9, <2>0, <2>1, <2>2
  <2> QED  BY <1>8, <2>1, <2>2, <2>3
<1> QED  BY <1>1, <1>2, <1>9, <1>10 DEF OnePlace, Held

-----------------------------------------------------------------------------
(* The theorems.                                                           *)

\* Every step keeps the invariant.
LEMMA NextIInv == IInv /\ [Next]_vars => IInv'
<1> SUFFICES ASSUME IInv, [Next]_vars PROVE IInv'
  OBVIOUS
<1>1. CASE UNCHANGED vars
  BY <1>1
  DEF vars, IInv, TypeOK, DeviceTypeOK, RegisteringOK, HeapAtRest,
      NeverUndercounts, DepthBound, Held, Gone, Outstanding, SetUp, Timers,
      WorkStopsAtFree, setupVars, ringVars, queueVars, kickVars, deviceVars
<1>2. CASE Next
  <2>0. elv # "oops"
    BY <1>2 DEF Next
  <2>1. ASSUME NEW p \in Procs, Register(p) PROVE IInv'
    BY <2>0, <2>1, RegisterIInv
  <2>2. ASSUME NEW p \in Procs, NEW r \in Requests, Submit(p, r) \/ Flush(p, r)
        PROVE  IInv'
    BY <2>0, <2>2, SubmitIInv, FlushIInv
  <2>3. ASSUME NEW c \in Ctx, RequestFn(c) PROVE IInv'
    BY <2>0, <2>3, RequestFnIInv
  <2>4. ASSUME NEW c \in Ctx, Issued(c) \/ Unasked(c) PROVE IInv'
    <3>1. elv \in {"attached", "bypass"}
      <4>1. CASE DeviceIssued(c) \/ DeviceRequeue(c)
        <5>1. pc[c] # "idle"
          BY <4>1 DEF DeviceIssued, DeviceRequeue
        <5> QED  BY <2>0, <5>1, WorkMeansInUse DEF IInv
      <4> QED  BY <2>4, <4>1 DEF Issued, Unasked, OnlyDevice
    <3> QED  BY <2>4, <3>1, EntersIInv
             DEF Issued, Unasked, OnlyDevice, kickVars, IInv, TypeOK
  <2>5. ASSUME NEW r \in Requests, sfq_completed(r) PROVE IInv'
    BY <2>0, <2>5, CompletedIInv
  <2>6. CASE sfq_kick_queue
    BY <2>6, KblockdAssumption, EntersIInv DEF sfq_kick_queue
  <2>7. CASE Timed
    BY <2>7, TimedIInv
  <2>8. CASE Switch
    BY <2>0, <2>8, SwitchIInv
  <2> QED
    BY <1>2, <2>1, <2>2, <2>3, <2>4, <2>5, <2>6, <2>7, <2>8 DEF Next, Working
<1> QED  BY <1>1, <1>2

\* The strengthened invariant of the BETA scheduler, under every interleaving
\* of registrations, dispatches, completions, kicks and switches.
THEOREM Invariance == SafeSpec => []IInv
<1>1. Init => IInv
  BY InitIInv
<1>2. IInv /\ [Next]_vars => IInv'
  BY NextIInv
<1> QED  BY <1>1, <1>2, PTL DEF SafeSpec

\* Types: depth and sfqr_size never go negative.
THEOREM TypeCorrect == SafeSpec => []TypeOK
BY Invariance, PTL DEF IInv

\* At most REQUEST_DEPTH + 1 requests are held by the driver and the device.
THEOREM DepthBounded == SafeSpec => []DepthBound
BY Invariance, PTL DEF IInv

\* sfqr_size covers what waits, so no kick it guards is missed.
THEOREM CountCovers == SafeSpec => []NeverUndercounts
BY Invariance, PTL DEF IInv

\* The heap of sfq_dispatch is empty whenever the lock is free.
THEOREM HeapNeverHolds == SafeSpec => []HeapAtRest
BY Invariance, PTL DEF IInv

\* sfq_exit_queue leaves neither timer nor work item on the freed sfq_data.
THEOREM ExitStopsWork == SafeSpec => []WorkStopsAtFree
<1>1. IInv => WorkStopsAtFree
  BY DEF IInv, Timers
<1> QED  BY <1>1, Invariance, PTL

\* No request is lost or doubled on its way from a process to the device: the
\* places it can be in are disjoint, whatever registrations race.
THEOREM EveryRequestOnce == SafeSpec => []OnePlace
<1>1. Init => IInv /\ Placed
  BY InitIInv, InitPlaced
<1>2. IInv /\ Placed /\ [Next]_vars => IInv' /\ Placed'
  BY NextIInv, NextPlaced
<1>3. IInv /\ Placed => OnePlace
  BY PlacedCounts
<1> QED  BY <1>1, <1>2, <1>3, PTL DEF SafeSpec

-----------------------------------------------------------------------------
(* As long as no registration races: one process at a time registers, and  *)
(* the cursor stands while a counted queue waits for its link.  Everything *)
(* else goes on meanwhile.                                                 *)

HIDE DEF Labels

\* Somebody has allocated a queue and not linked it yet; the queues linked.
Building == \E p \in Procs : pc[p] \in {"count", "tail", "prev"}
Linked == IF Building THEN Len(pid) - 1 ELSE Len(pid)

\* The ring is whole, or one registration short of it.
Ring ==
  /\ Len(pid) <= MaxSfqq
  /\ \A q \in 0 .. MaxSfqq : nxt[q] = IF q < Linked THEN q + 1 ELSE ListHead
  /\ ~Building => tail = Len(pid) /\ sfqq_size = Len(pid)
  /\ \A p, q \in Procs : pc[p] \in Registering /\ pc[q] \in Registering => p = q
  /\ \A p \in Procs :
       /\ pc[p] \in {"count", "tail", "prev"} =>
            /\ Len(pid) > 0 /\ tmp[p] = Len(pid) - 1
            /\ own[cur[p]] = Len(pid) /\ pid[Len(pid)] = p
            /\ sfqq_size = IF pc[p] = "count" THEN Len(pid) - 1 ELSE Len(pid)
            /\ tail = IF pc[p] = "prev" THEN Len(pid) ELSE Len(pid) - 1
       /\ pc[p] = "grow" => \A q \in 1 .. Len(pid) : pid[q] # p

\* Every process has one queue, and what it submits belongs to that queue.
Owners ==
  /\ \A a, b \in 1 .. Len(pid) : pid[a] = pid[b] => a = b
  /\ \A p \in Procs : \A r \in plugged[p] :
       own[r] \in 1 .. Linked /\ pid[own[r]] = p
  /\ \A i \in 1 .. Len(pending) : own[pending[i]] \in 1 .. Linked

Cursor ==
  IF os_sfqq = NoSfqq THEN depth = 0 /\ sfqq_total_seek = 0
  ELSE sfqq_total_seek \in 1 .. Linked /\ os_sfqq = sfqq_total_seek

Locked(c) == pc[c] \in {"flush", "run", "drain"}
Mutex ==
  /\ \A c, d \in Ctx : Locked(c) /\ Locked(d) => c = d
  /\ \A c \in Ctx : pc[c] = "drain" => elv \in {"bypass", "oops"}

\* Before the first dispatch: what is pending was added by the process that
\* holds the lock, and the first queue of the ring has a request.
First ==
  os_sfqq = NoSfqq /\ elv = "attached" =>
    /\ pending # <<>> =>
         \E p \in Procs :
           /\ pc[p] \in {"flush", "run"}
           /\ \A i \in 1 .. Len(pending) : pid[own[pending[i]]] = p
    /\ Linked > 0 =>
         \/ \E i \in 1 .. Len(pending) : own[pending[i]] = 1
         \/ \E p \in Procs : \E r \in plugged[p] : own[r] = 1

CalmInv == Ring /\ Owners /\ Cursor /\ Mutex /\ First /\ NoStranded

LEMMA LinkedType ==
  ASSUME TypeOK, Ring
  PROVE  /\ Len(pid) \in 0 .. MaxSfqq /\ Linked \in 0 .. MaxSfqq
         /\ Linked <= Len(pid)
         /\ MaxSfqq \in Nat /\ NoSfqq \notin 0 .. MaxSfqq
<1>1. Len(pid) \in Nat /\ MaxSfqq \in Nat /\ NoSfqq \notin 0 .. MaxSfqq
  BY LenProperties, BoundsAssumption DEF TypeOK
<1>2. Building => Len(pid) > 0
  BY DEF Ring, Building
<1>3. Len(pid) <= MaxSfqq
  BY DEF Ring
<1> QED  BY <1>1, <1>2, <1>3 DEF Linked

\* A step outside registrations leaves the ring as it is.
LEMMA QuietRing ==
  ASSUME TypeOK, Ring, UNCHANGED <<ringVars, cur, tmp>>,
         \A p \in Procs : pc[p] \in Registering => own'[cur[p]] = own[cur[p]],
         NEW c \in Ctx, NEW l, l \notin Registering,
         \/ UNCHANGED pc
         \/ pc[c] \notin Registering /\ pc' = [pc EXCEPT ![c] = l]
  PROVE  Ring' /\ Linked' = Linked
<1> USE DEF ringVars
<1>1. \A p \in Procs :
        /\ pc'[p] \in Registering <=> pc[p] \in Registering
        /\ pc[p] \in Registering => pc'[p] = pc[p]
  BY ProcsAssumption DEF TypeOK
<1>2. {"count", "tail", "prev"} \subseteq Registering /\ "grow" \in Registering
  BY DEF Registering
<1>3. \A p \in Procs :
        /\ pc'[p] \in {"count", "tail", "prev"} <=> pc[p] \in {"count", "tail", "prev"}
        /\ pc'[p] = "grow" <=> pc[p] = "grow"
  BY <1>1, <1>2
<1>4. Building' = Building
  BY <1>3 DEF Building
<1>5. Linked' = Linked
  BY <1>4 DEF Linked
<1>6. ASSUME NEW p \in Procs
      PROVE  /\ pc'[p] \in {"count", "tail", "prev"} =>
                  /\ Len(pid) > 0 /\ tmp'[p] = Len(pid) - 1
                  /\ own'[cur[p]] = Len(pid) /\ pid[Len(pid)] = p
                  /\ sfqq_size = IF pc'[p] = "count" THEN Len(pid) - 1 ELSE Len(pid)
                  /\ tail = IF pc'[p] = "prev" THEN Len(pid) ELSE Len(pid) - 1
             /\ pc'[p] = "grow" => \A q \in 1 .. Len(pid) : pid[q] # p
  BY <1>1, <1>2, <1>3 DEF Ring
<1>7. \A p, q \in Procs : pc'[p] \in Registering /\ pc'[q] \in Registering => p = q
  BY <1>1 DEF Ring
<1> QED  BY <1>4, <1>5, <1>6, <1>7 DEF Ring

\* The ring leads from the list head to each queue in turn.
LEMMA Steps ==
  ASSUME TypeOK, Ring, NEW nth,
         nth = [k \in 0 .. MaxSfqq |-> IF k = 0 THEN ListHead ELSE nxt[nth[k - 1]]]
  PROVE  /\ \A k \in 0 .. Linked : nth[k] = k
         /\ \A k \in 0 .. MaxSfqq : nth[k] \in 0 .. Linked
<1>1. MaxSfqq \in Nat /\ Linked \in 0 .. MaxSfqq
  BY LinkedType
<1>2. \A q \in 0 .. MaxSfqq : nxt[q] = IF q < Linked THEN q + 1 ELSE 0
  BY DEF Ring, ListHead
<1>3. IsWalk(nth, MaxSfqq, nxt, 0)
  BY DEF ListHead, IsWalk
<1> QED  BY <1>1, <1>2, <1>3, RingWalk

LEMMA WalkExists ==
  ASSUME TypeOK
  PROVE  \E g : g = [k \in 0 .. MaxSfqq |->
                       IF k = 0 THEN ListHead ELSE nxt[g[k - 1]]]
<1>1. MaxSfqq \in Nat /\ ListHead \in 0 .. MaxSfqq
  BY BoundsAssumption DEF ListHead
<1>2. nxt \in [0 .. MaxSfqq -> 0 .. MaxSfqq]
  BY DEF TypeOK
<1>3. \E g \in [0 .. MaxSfqq -> 0 .. MaxSfqq] : IsWalk(g, MaxSfqq, nxt, ListHead)
  BY <1>1, <1>2, IteratesExist
<1> QED  BY <1>3 DEF IsWalk

\* The two walks of SfqBeta along the ring.
LEMMA VisitedIsRing ==
  ASSUME TypeOK, Ring
  PROVE  Visited = 1 .. Linked
<1> DEFINE nth[k \in 0 .. MaxSfqq] == IF k = 0 THEN ListHead ELSE nxt[nth[k - 1]]
<1>1. nth = [k \in 0 .. MaxSfqq |-> IF k = 0 THEN ListHead ELSE nxt[nth[k - 1]]]
  BY WalkExists
<1>2. Visited = {q \in Sfqqs : \E k \in 0 .. MaxSfqq : nth[k] = q}
  BY DEF Visited
<1> HIDE DEF nth
<1>3. /\ \A k \in 0 .. Linked : nth[k] = k
      /\ \A k \in 0 .. MaxSfqq : nth[k] \in 0 .. Linked
  BY <1>1, Steps
<1>4. Linked \in 0 .. MaxSfqq /\ MaxSfqq \in Nat
  BY LinkedType
<1> QED  BY <1>2, <1>3, <1>4 DEF Sfqqs

LEMMA CursorFollows ==
  ASSUME TypeOK, Ring, Cursor
  PROVE  CursorAgrees
<1> DEFINE nth[k \in 0 .. MaxSfqq] == IF k = 0 THEN ListHead ELSE nxt[nth[k - 1]]
<1>1. nth = [k \in 0 .. MaxSfqq |-> IF k = 0 THEN ListHead ELSE nxt[nth[k - 1]]]
  BY WalkExists
<1>2. CursorAgrees <=>
        (os_sfqq # NoSfqq =>
           sfqq_total_seek \in Sfqqs /\ os_sfqq = nth[sfqq_total_seek])
  BY DEF CursorAgrees
<1> HIDE DEF nth
<1>3. \A k \in 0 .. Linked : nth[k] = k
  BY <1>1, Steps
<1>4. Linked \in 0 .. MaxSfqq /\ MaxSfqq \in Nat
  BY LinkedType
<1> QED  BY <1>2, <1>3, <1>4 DEF Cursor, Sfqqs

-----------------------------------------------------------------------------
(* The steps that are no race.                                             *)

\* A process starts to set up a request.
LEMMA SubmitCalm ==
  ASSUME IInv, Placed, CalmInv, ~Race,
         NEW p \in Procs, NEW r \in Requests, Submit(p, r)
  PROVE  CalmInv'
<1> USE DEF SetupBegins
<1>0. /\ TypeOK /\ p \in Ctx /\ Ring /\ Owners /\ Cursor /\ Mutex /\ First
      /\ pc \in [Ctx -> Labels] /\ DOMAIN pending = 1 .. Len(pending)
      /\ plugged \in [Procs -> SUBSET Requests]
      /\ own \in [Requests -> Sfqqs \cup {NoSfqq}]
      /\ Linked \in Nat /\ MaxSfqq \in Nat
      /\ \A i \in 1 .. Len(pending) : pending[i] \in Requests
  BY ProcsAssumption, LenProperties, LinkedType, ElementOfSeq
     DEF IInv, CalmInv, TypeOK
<1>1. /\ pc[p] = "idle" /\ elv = "attached"
      /\ r \notin SetUp /\ r \notin Range(pending)
      /\ UNCHANGED <<nxt, tail, pid, sfqq_size, heap_limit_size, ringVars>>
      /\ UNCHANGED <<pending, os_sfqq, sfqq_total_seek, depth, sfqr_size, elv>>
      /\ UNCHANGED <<heap, queue_head, inflight, unplug_work, armed, firing>>
  BY DEF Submit, sfq_set_request_known, sfq_set_request_new, Outstanding,
         ringVars, queueVars, kickVars
<1>2. /\ \A i \in 1 .. Len(pending) : pending[i] # r
      /\ \A q \in Procs : r \notin plugged[q]
  <2>1. \A q \in Procs : r \notin plugged[q]
    BY <1>0, <1>1, SetUpElements
  <2> QED  BY <1>0, <1>1, <2>1 DEF Range
<1>3. CASE sfq_set_request_known(p, r)
  <2>1. PICK q \in QueuesOf(p) : own' = [own EXCEPT ![r] = q]
    BY <1>3 DEF sfq_set_request_known
  <2>2. plugged' = [plugged EXCEPT ![p] = @ \cup {r}] /\ UNCHANGED pc
    BY <1>3 DEF sfq_set_request_known
  <2>3. Ring' /\ Linked' = Linked
    <3>1. "idle" \notin Registering /\ UNCHANGED <<cur, tmp>>
      BY <1>3 DEF Registering, sfq_set_request_known
    <3>2. ASSUME NEW s \in Procs, pc[s] \in Registering
          PROVE  own'[cur[s]] = own[cur[s]]
      <4>1. cur[s] \in Requests
        BY <3>2 DEF IInv, RegisteringOK
      <4>2. cur[s] \in SetUp
        BY <1>0, <4>1, SetUpElements, RequestsAssumption
      <4> QED  BY <1>0, <1>1, <2>1, <4>1, <4>2
    <3> QED  BY <1>0, <1>1, <2>2, <3>1, <3>2, QuietRing
  <2>4. q \in 1 .. Linked /\ pid[q] = p
    BY <1>0, VisitedIsRing DEF QueuesOf
  <2>5. /\ own'[r] = q /\ \A x \in Requests : x # r => own'[x] = own[x]
        /\ r \in plugged'[p]
        /\ \A s \in Procs : \A x \in plugged'[s] :
             (x \in plugged[s] /\ x # r) \/ (s = p /\ x = r)
        /\ \A s \in Procs : plugged[s] \subseteq plugged'[s]
        /\ \A s \in Procs : plugged[s] \subseteq Requests
    BY <1>0, <1>2, <2>1, <2>2
  <2>6. Owners'
    <3>1. \A s \in Procs : \A x \in plugged'[s] :
            own'[x] \in 1 .. Linked /\ pid[own'[x]] = s
      <4>1. \A s \in Procs : \A x \in plugged[s] :
              own[x] \in 1 .. Linked /\ pid[own[x]] = s
        BY <1>0 DEF Owners
      <4> TAKE s \in Procs
      <4> TAKE x \in plugged'[s]
      <4>2. CASE x \in plugged[s] /\ x # r
        BY <2>5, <4>1, <4>2
      <4>3. CASE s = p /\ x = r
        BY <2>4, <2>5, <4>3
      <4> QED  BY <2>5, <4>2, <4>3
    <3>2. \A i \in 1 .. Len(pending) : own'[pending[i]] \in 1 .. Linked
      BY <1>0, <1>2, <2>5 DEF Owners
    <3>3. \A a, b \in 1 .. Len(pid) : pid[a] = pid[b] => a = b
      BY <1>0 DEF Owners
    <3> QED  BY <1>1, <2>3, <3>1, <3>2, <3>3 DEF Owners
  <2>7. Cursor' /\ Mutex'
    BY <1>0, <1>1, <2>2, <2>3 DEF Cursor, Mutex, Locked
  <2>8. First'
    <3>1. \A i \in 1 .. Len(pending) : own'[pending[i]] = own[pending[i]]
      BY <1>0, <1>2, <2>5
    <3>2. \A s \in Procs : \A x \in plugged[s] : x \in plugged'[s] /\ own'[x] = own[x]
      BY <1>0, <1>2, <2>5
    <3> QED  BY <1>0, <1>1, <2>2, <2>3, <3>1, <3>2 DEF First
  <2>9. NoStranded'
    BY <2>5 DEF NoStranded
  <2> QED  BY <2>3, <2>6, <2>7, <2>8, <2>9 DEF CalmInv
<1>4. CASE sfq_set_request_new(p, r)
  <2>1. /\ QueuesOf(p) = {} /\ pc' = [pc EXCEPT ![p] = "grow"]
        /\ UNCHANGED <<plugged, own>>
    BY <1>4 DEF sfq_set_request_new, At
  <2>2. /\ \A q \in Procs : pc[q] \notin Registering
        /\ \A q \in Procs : q # p => pc'[q] \notin Registering
        /\ pc'[p] = "grow"
    <3>1. pc'[p] = "grow" /\ \A c \in Ctx : c # p => pc'[c] = pc[c]
      BY <1>0, <2>1
    <3>2. \A q \in Procs : q # p => pc'[q] \notin Registering
      BY <3>1 DEF Race, Registering
    <3> QED  BY <1>0, <1>1, <3>1, <3>2, ProcsAssumption DEF Registering
  <2>3. ~Building /\ ~Building' /\ Linked' = Linked /\ Linked = Len(pid)
    BY <1>1, <2>2 DEF Building, Linked, Registering
  <2>4. \A q \in 1 .. Len(pid) : pid[q] # p
    BY <1>0, <2>1, <2>3, VisitedIsRing DEF QueuesOf
  <2>5. Ring'
    BY <1>0, <1>1, <2>2, <2>3, <2>4 DEF Ring, Registering
  <2>6. Owners' /\ Cursor'
    BY <1>0, <1>1, <2>1, <2>3 DEF Owners, Cursor
  <2>7. Mutex'
    BY <1>0, <1>1, <2>1, <2>2 DEF Mutex, Locked
  <2>8. First'
    <3>1. \A s \in Procs : pc[s] \in {"flush", "run"} => pc'[s] = pc[s]
      BY <1>0, <1>1, <2>1
    <3> QED  BY <1>0, <1>1, <2>1, <2>3, <3>1 DEF First
  <2>9. NoStranded'
    BY <1>0, <2>2 DEF NoStranded
  <2> QED  BY <2>5, <2>6, <2>7, <2>8, <2>9 DEF CalmInv
<1> QED  BY <1>3, <1>4 DEF Submit

\* The registration of a queue, step by step; nobody else moves.
LEMMA RegisterCalm ==
  ASSUME IInv, Placed, CalmInv, ~Race, NEW p \in Procs, Register(p)
  PROVE  CalmInv'
<1> USE DEF RegisterStep, At
<1>0. /\ TypeOK /\ p \in Ctx /\ Ring /\ Owners /\ Cursor /\ Mutex /\ First
      /\ pc \in [Ctx -> Labels] /\ DOMAIN pending = 1 .. Len(pending)
      /\ plugged \in [Procs -> SUBSET Requests]
      /\ cur \in [Procs -> Requests \cup {NoReq}] /\ tmp \in [Procs -> Nat]
      /\ own \in [Requests -> Sfqqs \cup {NoSfqq}]
      /\ nxt \in [0 .. MaxSfqq -> 0 .. MaxSfqq]
      /\ pid \in Seq(Procs) /\ Len(pid) \in Nat /\ Linked \in Nat
      /\ Len(pid) <= MaxSfqq /\ MaxSfqq \in Nat
      /\ \A i \in 1 .. Len(pending) : pending[i] \in Requests
  BY ProcsAssumption, LenProperties, LinkedType, ElementOfSeq
     DEF IInv, CalmInv, TypeOK
<1>1. /\ pc[p] \in Registering
      /\ UNCHANGED <<pending, os_sfqq, sfqq_total_seek, depth, sfqr_size, elv>>
      /\ UNCHANGED <<heap, queue_head, inflight, unplug_work, armed, firing>>
      /\ \E l \in Registering \cup {"idle"} : pc' = [pc EXCEPT ![p] = l]
  BY DEF Register, GrowHeap, CountSfqq, LinkTail, LinkPrev, queueVars, kickVars,
         Registering
<1>2. /\ \A q \in Procs : q # p => pc[q] \notin Registering
      /\ \A q \in Procs : q # p => pc'[q] \notin Registering
      /\ \A c \in Ctx : c # p => pc'[c] = pc[c]
      /\ pc'[p] \in Registering \cup {"idle"}
  <2>1. PICK l \in Registering \cup {"idle"} : pc' = [pc EXCEPT ![p] = l]
    BY <1>1
  <2>2. \A q \in Procs : q # p => pc[q] \notin Registering
    BY <1>0, <1>1 DEF Ring
  <2>3. \A c \in Ctx : c # p => pc'[c] = pc[c]
    BY <1>0, <2>1
  <2> QED  BY <1>0, <2>1, <2>2, <2>3, ProcsAssumption
<1>3. cur[p] \in Requests
  BY <1>1 DEF IInv, RegisteringOK
\* No queued request is the one that is set up.
<1>4. /\ \A i \in 1 .. Len(pending) : pending[i] # cur[p]
      /\ \A q \in Procs : cur[p] \notin plugged[q]
  <2>1. cur[p] \in SetUp
    BY <1>0, <1>3, SetUpElements, RequestsAssumption
  <2>2. \A i \in 1 .. Len(pending) : pending[i] \in Range(pending)
    BY <1>0 DEF Range
  <2> QED  BY <2>1, <2>2 DEF Placed, OwnSetUps, Apart
<1>5. Mutex'
  BY <1>0, <1>1, <1>2 DEF Mutex, Locked, Registering
<1>6. \A s \in Procs : pc[s] \in {"flush", "run"} => pc'[s] = pc[s]
  BY <1>1, <1>2, ProcsAssumption DEF Registering
<1>7. pc'[p] # "idle" => NoStranded'
  BY <1>0 DEF NoStranded
<1>8. CASE GrowHeap(p)
  <2>1. /\ pc[p] = "grow" /\ pc'[p] = "count" /\ pid' = Append(pid, p)
        /\ own' = [own EXCEPT ![cur[p]] = Len(pid) + 1]
        /\ tmp' = [tmp EXCEPT ![p] = sfqq_size] /\ Len(pid) < MaxSfqq
        /\ UNCHANGED <<cur, plugged, nxt, tail, sfqq_size>>
    BY <1>0, <1>8 DEF GrowHeap
  <2>2. /\ Len(pid') = Len(pid) + 1 /\ pid'[Len(pid) + 1] = p
        /\ \A q \in 1 .. Len(pid) : pid'[q] = pid[q]
    BY <1>0, <2>1, AppendProperties
  <2>3. ~Building /\ Building' /\ Linked' = Linked /\ Linked = Len(pid)
    <3>1. ~Building /\ Building'
      BY <1>2, <2>1 DEF Building, Registering
    <3>2. Linked = Len(pid) /\ Linked' = Len(pid') - 1
      BY <3>1 DEF Linked
    <3> QED  BY <1>0, <2>2, <3>1, <3>2
  <2>4. \A x \in Requests : x # cur[p] => own'[x] = own[x]
    BY <1>0, <2>1
  <2>5. Ring'
    <3>1. tmp'[p] = Len(pid) /\ own'[cur[p]] = Len(pid) + 1 /\ tail = Len(pid)
          /\ sfqq_size = Len(pid)
      BY <1>0, <1>3, <2>1, <2>3 DEF Ring
    <3>2. \A q \in 0 .. MaxSfqq : nxt'[q] = IF q < Linked' THEN q + 1 ELSE ListHead
      BY <1>0, <2>1, <2>3 DEF Ring
    <3>3. \A q \in Procs : pc'[q] \in Registering => q = p
      BY <1>2
    <3>4. Len(pid') <= MaxSfqq /\ Len(pid') > 0 /\ Len(pid') - 1 = Len(pid)
      BY <1>0, <2>1, <2>2
    <3> QED
      BY <2>1, <2>2, <2>3, <3>1, <3>2, <3>3, <3>4 DEF Ring, Registering
  <2>6. Owners'
    <3>1. \A q \in 1 .. Len(pid) : pid[q] # p
      BY <1>0, <2>1 DEF Ring
    <3>2. \A a, b \in 1 .. Len(pid') : pid'[a] = pid'[b] => a = b
      <4>1. \A a, b \in 1 .. Len(pid) : pid[a] = pid[b] => a = b
        BY <1>0 DEF Owners
      <4>2. \A a \in 1 .. Len(pid') : a \in 1 .. Len(pid) \/ a = Len(pid) + 1
        BY <1>0, <2>2
      <4> QED  BY <2>2, <3>1, <4>1, <4>2
    <3>3. \A s \in Procs : \A x \in plugged[s] : own'[x] = own[x]
      BY <1>0, <1>4, <2>4
    <3>4. \A i \in 1 .. Len(pending) : own'[pending[i]] = own[pending[i]]
      BY <1>0, <1>4, <2>4
    <3>5. \A q \in 1 .. Linked : pid'[q] = pid[q]
      BY <2>2, <2>3
    <3>6. /\ \A s \in Procs : \A x \in plugged[s] :
                own[x] \in 1 .. Linked /\ pid[own[x]] = s
          /\ \A i \in 1 .. Len(pending) : own[pending[i]] \in 1 .. Linked
      BY <1>0 DEF Owners
    <3>7. \A s \in Procs : \A x \in plugged'[s] :
            own'[x] \in 1 .. Linked' /\ pid'[own'[x]] = s
      BY <2>1, <2>3, <3>3, <3>5, <3>6
    <3>8. \A i \in 1 .. Len(pending') : own'[pending'[i]] \in 1 .. Linked'
      BY <1>1, <2>3, <3>4, <3>6
    <3> QED  BY <3>2, <3>7, <3>8 DEF Owners
  <2>7. Cursor'
    BY <1>0, <1>1, <2>3 DEF Cursor
  <2>8. First'
    <3>1. \A i \in 1 .. Len(pending) : own'[pending[i]] = own[pending[i]]
      BY <1>0, <1>4, <2>4
    <3>2. \A i \in 1 .. Len(pending) : pid'[own[pending[i]]] = pid[own[pending[i]]]
      BY <1>0, <2>2, <2>3 DEF Owners
    <3>3. \A s \in Procs : \A x \in plugged[s] : own'[x] = own[x]
      BY <1>0, <1>4, <2>4
    <3> SUFFICES ASSUME os_sfqq = NoSfqq, elv = "attached" PROVE First'
      BY <1>1 DEF First
    <3>4. pending' # <<>> =>
            \E s \in Procs :
              /\ pc'[s] \in {"flush", "run"}
              /\ \A i \in 1 .. Len(pending') : pid'[own'[pending'[i]]] = s
      <4>1. \A i \in 1 .. Len(pending) : pid'[own'[pending[i]]] = pid[own[pending[i]]]
        BY <3>1, <3>2
      <4>2. pending # <<>> =>
              \E s \in Procs :
                /\ pc'[s] \in {"flush", "run"}
                /\ \A i \in 1 .. Len(pending) : pid[own[pending[i]]] = s
        BY <1>0, <1>6 DEF First
      <4> QED  BY <1>1, <4>1, <4>2
    <3>5. Linked' > 0 =>
            \/ \E i \in 1 .. Len(pending') : own'[pending'[i]] = 1
            \/ \E s \in Procs : \E x \in plugged'[s] : own'[x] = 1
      BY <1>0, <1>1, <2>1, <2>3, <3>1, <3>3 DEF First
    <3> QED  BY <3>4, <3>5 DEF First
  <2> QED  BY <1>5, <1>7, <2>1, <2>5, <2>6, <2>7, <2>8 DEF CalmInv
<1>9. CASE CountSfqq(p) \/ LinkTail(p)
  <2>1. /\ pc[p] \in {"count", "tail"} /\ pc'[p] \in {"tail", "prev"}
        /\ UNCHANGED <<cur, plugged, own, pid>>
    BY <1>0, <1>9 DEF CountSfqq, LinkTail, setupVars
  <2>2. Building /\ Building' /\ Linked' = Linked /\ Linked = Len(pid) - 1
    BY <2>1 DEF Building, Linked
  <2>3. Ring'
    <3>1. CASE CountSfqq(p)
      <4>1. /\ pc[p] = "count" /\ pc'[p] = "tail" /\ sfqq_size' = tmp[p] + 1
            /\ tmp' = [tmp EXCEPT ![p] = tail] /\ UNCHANGED <<nxt, tail>>
        BY <1>0, <3>1 DEF CountSfqq
      <4>2. tmp'[p] = Len(pid) - 1 /\ sfqq_size' = Len(pid) /\ tail = Len(pid) - 1
        <5>1. tmp[p] = Len(pid) - 1 /\ tail = Len(pid) - 1 /\ Len(pid) > 0
          BY <1>0, <4>1 DEF Ring
        <5>2. tmp'[p] = tail
          BY <1>0, <4>1
        <5> QED  BY <1>0, <4>1, <5>1, <5>2
      <4>3. /\ Len(pid') <= MaxSfqq
            /\ \A q \in 0 .. MaxSfqq : nxt'[q] = IF q < Linked' THEN q + 1 ELSE ListHead
        BY <1>0, <2>1, <2>2, <4>1 DEF Ring
      <4>4. /\ Len(pid') > 0 /\ own'[cur'[p]] = Len(pid') /\ pid'[Len(pid')] = p
            /\ tail' = Len(pid') - 1 /\ pc'[p] = "tail"
        <5>1. Len(pid) > 0 /\ own[cur[p]] = Len(pid) /\ pid[Len(pid)] = p
          BY <1>0, <4>1 DEF Ring
        <5> QED  BY <1>0, <2>1, <4>1, <4>2, <5>1
      <4>5. \A q \in Procs : q # p => pc'[q] \notin Registering
        BY <1>2
      <4> QED  BY <2>1, <2>2, <4>2, <4>3, <4>4, <4>5 DEF Ring, Registering
    <3>2. CASE LinkTail(p)
      <4>1. /\ pc[p] = "tail" /\ pc'[p] = "prev" /\ tail' = own[cur[p]]
            /\ nxt' = [nxt EXCEPT ![own[cur[p]]] = ListHead]
            /\ UNCHANGED <<tmp, sfqq_size>>
        BY <1>0, <3>2 DEF LinkTail, setupVars
      <4>2. own[cur[p]] = Len(pid)
        BY <1>0, <4>1 DEF Ring
      <4>3. \A q \in 0 .. MaxSfqq : nxt'[q] = IF q < Linked' THEN q + 1 ELSE ListHead
        <5>1. \A q \in 0 .. MaxSfqq : nxt[q] = IF q < Linked THEN q + 1 ELSE ListHead
          BY <1>0 DEF Ring
        <5>2. \A q \in 0 .. MaxSfqq :
                nxt'[q] = IF q = Len(pid) THEN ListHead ELSE nxt[q]
          BY <1>0, <4>1, <4>2
        <5>3. ~(Len(pid) < Linked)
          BY <1>0, <2>2
        <5> QED  BY <2>2, <5>1, <5>2, <5>3
      <4> QED  BY <1>0, <1>2, <2>1, <2>2, <4>1, <4>2, <4>3 DEF Ring, Registering
    <3> QED  BY <1>9, <3>1, <3>2
  <2>4. Owners' /\ Cursor'
    BY <1>0, <1>1, <2>1, <2>2 DEF Owners, Cursor
  <2>5. First'
    <3> SUFFICES ASSUME os_sfqq = NoSfqq, elv = "attached" PROVE First'
      BY <1>1 DEF First
    <3>1. pending # <<>> =>
            \E s \in Procs :
              /\ pc'[s] \in {"flush", "run"}
              /\ \A i \in 1 .. Len(pending) : pid[own[pending[i]]] = s
      BY <1>0, <1>6 DEF First
    <3>2. Linked > 0 =>
            \/ \E i \in 1 .. Len(pending) : own[pending[i]] = 1
            \/ \E s \in Procs : \E x \in plugged[s] : own[x] = 1
      BY <1>0 DEF First
    <3> QED  BY <1>1, <2>1, <2>2, <3>1, <3>2 DEF First
  <2> QED  BY <1>5, <1>7, <2>1, <2>3, <2>4, <2>5 DEF CalmInv
<1>10. CASE LinkPrev(p)
  <2>1. /\ pc[p] = "prev" /\ pc'[p] = "idle"
        /\ nxt' = [nxt EXCEPT ![tmp[p]] = own[cur[p]]]
        /\ plugged' = [plugged EXCEPT ![p] = @ \cup {cur[p]}]
        /\ UNCHANGED <<own, tail, pid, sfqq_size>>
    BY <1>0, <1>10 DEF LinkPrev
  <2>2. /\ Building /\ ~Building' /\ Linked = Len(pid) - 1 /\ Linked' = Len(pid)
    BY <1>2, <2>1 DEF Building, Linked, Registering
  <2>3. /\ own[cur[p]] = Len(pid) /\ pid[Len(pid)] = p /\ tmp[p] = Len(pid) - 1
        /\ Len(pid) > 0 /\ tail = Len(pid) /\ sfqq_size = Len(pid)
    BY <1>0, <2>1 DEF Ring
  <2>4. Ring'
    <3>1. \A q \in 0 .. MaxSfqq : nxt'[q] = IF q < Linked' THEN q + 1 ELSE ListHead
      BY <1>0, <2>1, <2>2, <2>3 DEF Ring
    <3> QED  BY <1>0, <1>2, <2>1, <2>2, <2>3, <3>1 DEF Ring, Registering
  <2>5. /\ cur[p] \in plugged'[p]
        /\ \A s \in Procs : plugged[s] \subseteq plugged'[s]
        /\ \A s \in Procs : \A x \in plugged'[s] :
             x \in plugged[s] \/ (s = p /\ x = cur[p])
    BY <1>0, <2>1
  <2>6. \A q \in 1 .. Linked : q \in 1 .. Linked'
    BY <1>0, <2>2
  <2>7. Owners'
    <3>1. own[cur[p]] \in 1 .. Linked' /\ pid[own[cur[p]]] = p
      BY <1>0, <2>2, <2>3
    <3>2. \A s \in Procs : \A x \in plugged'[s] :
            own[x] \in 1 .. Linked' /\ pid[own[x]] = s
      BY <1>0, <2>5, <2>6, <3>1 DEF Owners
    <3>3. \A i \in 1 .. Len(pending) : own[pending[i]] \in 1 .. Linked'
      BY <1>0, <2>6 DEF Owners
    <3>4. \A a, b \in 1 .. Len(pid) : pid[a] = pid[b] => a = b
      BY <1>0 DEF Owners
    <3> QED  BY <1>1, <2>1, <3>2, <3>3, <3>4 DEF Owners
  <2>8. Cursor'
    BY <1>0, <1>1, <2>6 DEF Cursor
  <2>10. First'
    <3> SUFFICES ASSUME os_sfqq = NoSfqq, elv = "attached" PROVE First'
      BY <1>1 DEF First
    <3>1. Linked > 0 \/ own[cur[p]] = 1
      BY <1>0, <2>2, <2>3
    <3>2. \/ \E i \in 1 .. Len(pending) : own[pending[i]] = 1
          \/ \E s \in Procs : \E x \in plugged'[s] : own[x] = 1
      BY <1>0, <2>5, <3>1 DEF First
    <3>3. pending # <<>> =>
            \E s \in Procs :
              /\ pc'[s] \in {"flush", "run"}
              /\ \A i \in 1 .. Len(pending) : pid[own[pending[i]]] = s
      BY <1>0, <1>6 DEF First
    <3> QED  BY <1>1, <2>1, <3>2, <3>3 DEF First
  <2>9. NoStranded'
    BY <2>5 DEF NoStranded
  <2> QED  BY <1>5, <2>4, <2>7, <2>8, <2>9, <2>10 DEF CalmInv
<1> QED  BY <1>8, <1>9, <1>10 DEF Register

\* The lists of an invariant state.
LEMMA CalmTypes ==
  ASSUME IInv, CalmInv
  PROVE  /\ TypeOK /\ Ring /\ Owners /\ Cursor /\ Mutex /\ First /\ NoStranded
         /\ pc \in [Ctx -> Labels]
         /\ pending \in Seq(Requests) /\ Len(pending) \in Nat
         /\ queue_head \in Seq(Requests) /\ Len(queue_head) \in Nat
         /\ Cardinality(inflight) \in Nat
         /\ DOMAIN pending = 1 .. Len(pending) /\ heap = {}
         /\ pending # <<>> => Len(pending) > 0
         /\ queue_head # <<>> => Len(queue_head) > 0
         /\ Linked \in 0 .. MaxSfqq /\ MaxSfqq \in Nat /\ Linked \in Nat
         /\ NoSfqq \notin 0 .. MaxSfqq
<1>1. TypeOK /\ HeapAtRest /\ DeviceTypeOK
  BY DEF IInv, TypeOK
<1>2. pending \in Seq(Requests) /\ queue_head \in Seq(Requests)
  BY <1>1 DEF TypeOK, DeviceTypeOK
<1>3. /\ Len(pending) \in Nat /\ Len(queue_head) \in Nat
      /\ DOMAIN pending = 1 .. Len(pending)
      /\ pending # <<>> => Len(pending) > 0
      /\ queue_head # <<>> => Len(queue_head) > 0
  BY <1>2, LenProperties, EmptySeq
<1>4. /\ Linked \in 0 .. MaxSfqq /\ MaxSfqq \in Nat /\ Linked \in Nat
      /\ NoSfqq \notin 0 .. MaxSfqq
  BY <1>1, LinkedType DEF CalmInv
<1>5. Cardinality(inflight) \in Nat
  BY <1>1, HeldType
<1> QED  BY <1>1, <1>2, <1>3, <1>4, <1>5 DEF CalmInv, TypeOK, HeapAtRest

\* What waits is counted, so that a kick that asks the count is not missed.
LEMMA WaitingCounts ==
  ASSUME IInv, CalmInv, pending # <<>> \/ queue_head # <<>>
  PROVE  sfqr_size \in Nat /\ sfqr_size > 0
<1>1. Len(pending) > 0 \/ Len(queue_head) > 0
  BY CalmTypes
<1>2. sfqr_size \in Nat /\ sfqr_size >= Len(pending) + Cardinality(heap) + Held
  BY DEF IInv, NeverUndercounts, TypeOK
<1>3. Cardinality(heap) = 0
  BY CalmTypes, FS_EmptySet
<1> QED  BY <1>1, <1>2, <1>3, CalmTypes DEF Held

\* Nothing has reached the device before the first dispatch.
LEMMA NothingHeld ==
  ASSUME IInv, CalmInv, os_sfqq = NoSfqq
  PROVE  queue_head = <<>> /\ inflight = {}
<1>1. Held <= 0
  BY CalmTypes DEF IInv, DepthBound, Cursor
<1>2. Len(queue_head) = 0 /\ Cardinality(inflight) = 0
  BY <1>1, CalmTypes DEF Held
<1>3. IsFiniteSet(inflight)
  BY HeldType DEF IInv, TypeOK
<1> QED  BY <1>2, <1>3, CalmTypes, FS_EmptySet

\* A process inserts what it has plugged.
LEMMA FlushCalm ==
  ASSUME IInv, Placed, CalmInv, ~Race,
         NEW p \in Procs, NEW r \in Requests, Flush(p, r)
  PROVE  CalmInv'
<1>0. /\ TypeOK /\ p \in Ctx /\ Ring /\ Owners /\ Cursor /\ Mutex /\ First
      /\ pc \in [Ctx -> Labels] /\ pending \in Seq(Requests)
      /\ Len(pending) \in Nat /\ DOMAIN pending = 1 .. Len(pending)
      /\ pending # <<>> => Len(pending) > 0
      /\ plugged \in [Procs -> SUBSET Requests]
  BY ProcsAssumption, CalmTypes DEF TypeOK
<1>1. /\ pc[p] = "flush" \/ (pc[p] = "idle" /\ LockFree)
      /\ r \in plugged[p] /\ plugged' = [plugged EXCEPT ![p] = @ \ {r}]
      /\ UNCHANGED <<own, ringVars, elv, os_sfqq, sfqq_total_seek, depth>>
      /\ \/ pending' = Append(pending, r)
         \/ pending' = pending /\ Range(pending) # {}
      /\ \E l \in {"run", "flush"} : pc' = [pc EXCEPT ![p] = l]
  BY CalmTypes
     DEF Flush, sfq_add_request, InsertMerge, MergeLinked, Inserts, At, Mergeable
<1>2. PICK l \in {"run", "flush"} : pc' = [pc EXCEPT ![p] = l]
  BY <1>1
<1>3. /\ pc'[p] = l /\ \A c \in Ctx : c # p => pc'[c] = pc[c]
      /\ \A c \in Ctx : c # p => ~Locked(c)
  <2>1. \A c \in Ctx : c # p => ~Locked(c)
    BY <1>0, <1>1 DEF Mutex, Locked, LockFree
  <2> QED  BY <1>0, <1>2, <2>1
<1>4. /\ Ring' /\ Linked' = Linked /\ UNCHANGED pid
      /\ Linked \in Nat /\ Len(pid) \in Nat /\ Linked <= Len(pid)
  <2>1. l \notin Registering /\ pc[p] \notin Registering
    BY <1>1 DEF Registering
  <2>2. UNCHANGED <<cur, tmp>>
    BY DEF Flush, sfq_add_request, InsertMerge, MergeLinked, Inserts
  <2>3. Ring' /\ Linked' = Linked
    BY <1>0, <1>1, <1>2, <2>1, <2>2, QuietRing
  <2>4. Linked \in Nat /\ Len(pid) \in Nat /\ Linked <= Len(pid)
    BY <1>0, LinkedType
  <2> QED  BY <1>1, <2>3, <2>4 DEF ringVars
<1>5. own[r] \in 1 .. Linked /\ pid[own[r]] = p
  BY <1>0, <1>1 DEF Owners
\* Before the first dispatch, what is pending is of this flush.
<1>6. ASSUME os_sfqq = NoSfqq, elv = "attached", pending # <<>>
      PROVE  \A i \in 1 .. Len(pending) : pid[own[pending[i]]] = p
  <2>1. PICK s \in Procs :
          /\ pc[s] \in {"flush", "run"}
          /\ \A i \in 1 .. Len(pending) : pid[own[pending[i]]] = s
    BY <1>0, <1>6 DEF First
  <2>2. s = p
    BY <1>3, <2>1, ProcsAssumption DEF Locked
  <2> QED  BY <2>1, <2>2
<1>7. /\ Len(pending') \in Nat
      /\ \A i \in 1 .. Len(pending) : i \in 1 .. Len(pending') /\ pending'[i] = pending[i]
      /\ \A i \in 1 .. Len(pending') :
           (i \in 1 .. Len(pending) /\ pending'[i] = pending[i]) \/ pending'[i] = r
      /\ pending' # pending => \E i \in 1 .. Len(pending') : pending'[i] = r
      /\ pending' = pending => Len(pending) > 0
  <2>1. CASE pending' = Append(pending, r)
    <3>1. /\ Len(pending') = Len(pending) + 1 /\ pending'[Len(pending) + 1] = r
          /\ \A i \in 1 .. Len(pending) : pending'[i] = pending[i]
      BY <1>0, <2>1, AppendProperties
    <3> QED  BY <1>0, <3>1
  <2>2. CASE pending' = pending /\ Range(pending) # {}
    <3>1. pending # <<>>
      BY <1>0, <2>2, EmptySeq DEF Range
    <3> QED  BY <1>0, <2>2, <3>1
  <2> QED  BY <1>1, <2>1, <2>2
<1>8. /\ \A s \in Procs : plugged'[s] \subseteq plugged[s]
      /\ \A s \in Procs : \A x \in plugged[s] : x # r => x \in plugged'[s]
  BY <1>0, <1>1
<1>9. Owners'
  <2>1. \A s \in Procs : \A x \in plugged'[s] :
          own[x] \in 1 .. Linked /\ pid[own[x]] = s
    BY <1>0, <1>8 DEF Owners
  <2>2. \A i \in 1 .. Len(pending') : own[pending'[i]] \in 1 .. Linked
    BY <1>0, <1>5, <1>7 DEF Owners
  <2>3. \A a, b \in 1 .. Len(pid) : pid[a] = pid[b] => a = b
    BY <1>0 DEF Owners
  <2> QED  BY <1>1, <1>4, <2>1, <2>2, <2>3 DEF Owners
<1>10. Cursor'
  BY <1>0, <1>1, <1>4 DEF Cursor
<1>11. Mutex'
  BY <1>0, <1>1, <1>2, <1>3 DEF Mutex, Locked
<1>12. First'
  <2> SUFFICES ASSUME os_sfqq = NoSfqq, elv = "attached" PROVE First'
    BY <1>1 DEF First
  <2>1. \A i \in 1 .. Len(pending') : pid[own[pending'[i]]] = p
    BY <1>0, <1>5, <1>6, <1>7
  <2>2. ASSUME Linked > 0
        PROVE  \/ \E i \in 1 .. Len(pending') : own[pending'[i]] = 1
               \/ \E s \in Procs : \E x \in plugged'[s] : own[x] = 1
    <3>1. CASE \E i \in 1 .. Len(pending) : own[pending[i]] = 1
      BY <1>7, <3>1
    <3>2. CASE \E s \in Procs : \E x \in plugged[s] : own[x] = 1
      <4>0. PICK s \in Procs : \E x \in plugged[s] : own[x] = 1
        BY <3>2
      <4>1. PICK x \in plugged[s] : own[x] = 1
        BY <4>0
      <4>2. CASE x # r
        BY <1>8, <4>1, <4>2
      <4>3. CASE x = r /\ pending' # pending
        BY <1>7, <4>1, <4>3
      <4>4. CASE x = r /\ pending' = pending
        <5>1. 1 \in 1 .. Len(pending) /\ pending # <<>>
          BY <1>0, <1>7, <4>4, EmptySeq
        <5>2. pid[own[pending[1]]] = p /\ pid[1] = p
          BY <1>5, <1>6, <4>1, <4>4, <5>1
        <5>3. own[pending[1]] \in 1 .. Len(pid) /\ 1 \in 1 .. Len(pid)
          BY <1>0, <1>4, <1>5, <4>1, <4>4, <5>1 DEF Owners
        <5>4. own[pending[1]] = 1
          BY <1>0, <5>2, <5>3 DEF Owners
        <5> QED  BY <4>4, <5>1, <5>4
      <4> QED  BY <4>2, <4>3, <4>4
    <3> QED  BY <1>0, <2>2, <3>1, <3>2 DEF First
  <2> QED  BY <1>1, <1>2, <1>3, <1>4, <2>1, <2>2 DEF First
<1>13. NoStranded'
  BY <1>0, <1>2, <1>3 DEF NoStranded
<1> QED  BY <1>4, <1>9, <1>10, <1>11, <1>12, <1>13 DEF CalmInv

\* The cursor goes to the next queue, from the last one to the first.
LEMMA CursorMoves ==
  ASSUME IInv, CalmInv, MoveCursor, ~NoSfqqYet, ~Race
  PROVE  /\ sfqq_total_seek' \in 1 .. Linked /\ os_sfqq' = sfqq_total_seek'
         /\ os_sfqq' # NoSfqq /\ NextSfqq # ListHead
         /\ os_sfqq = NoSfqq => NextSfqq = 1 /\ Linked > 0
<1>0. /\ Ring /\ Cursor /\ Linked \in 0 .. MaxSfqq /\ MaxSfqq \in Nat
      /\ NoSfqq \notin 0 .. MaxSfqq /\ Len(pid) \in Nat
  BY CalmTypes, LinkedType
<1>2. sfqq_total_seek' = NextSeek /\ os_sfqq' = NextSfqq
  BY DEF MoveCursor
<1>10. sfqq_size = Linked
  <2>1. CASE Unlisted = {}
    <3>1. ~Building \/ \E p \in Procs : pc[p] = "count"
      BY <2>1 DEF Building, Unlisted
    <3>2. ASSUME NEW p \in Procs, pc[p] = "count" PROVE sfqq_size = Linked
      BY <1>0, <3>2 DEF Ring, Linked, Building
    <3> QED  BY <1>0, <3>1, <3>2 DEF Ring, Linked
  <2>2. CASE Unlisted # {}
    <3>1. UNCHANGED <<os_sfqq, sfqq_total_seek>>
      BY <2>2 DEF Race
    <3>2. PICK p \in Procs : pc[p] \in {"tail", "prev"}
      BY <2>2 DEF Unlisted
    <3>3. sfqq_size = Linked + 1
      <4>1. Building
        BY <3>2 DEF Building
      <4>2. sfqq_size = Len(pid)
        BY <1>0, <3>2 DEF Ring
      <4> QED  BY <1>0, <4>1, <4>2 DEF Linked
    <3>4. os_sfqq # NoSfqq
      <4>1. 0 \in 0 .. MaxSfqq
        BY <1>0
      <4>2. nxt[0] \in 0 .. MaxSfqq
        BY <4>1, CalmTypes DEF TypeOK
      <4> QED  BY <1>0, <1>2, <3>1, <4>2 DEF NextSfqq, ListHead
    <3>5. sfqq_total_seek \in 1 .. Linked
      BY <1>0, <3>4 DEF Cursor
    <3> QED  BY <1>0, <1>2, <3>1, <3>3, <3>5 DEF NextSeek, Lapped
  <2> QED  BY <2>1, <2>2
<1>1. /\ sfqq_size = Linked
      /\ \A q \in 0 .. MaxSfqq : nxt[q] = IF q < Linked THEN q + 1 ELSE 0
  BY <1>0, <1>10 DEF Ring, ListHead
<1>3. nxt[0] = IF 0 < Linked THEN 1 ELSE 0
  BY <1>0, <1>1
<1>4. CASE os_sfqq = NoSfqq
  <2>1. NextSfqq = nxt[0] /\ NextSeek = 1 /\ nxt[0] # 0
    BY <1>0, <1>4 DEF NextSfqq, NextSeek, NoSfqqYet, Cursor, ListHead
  <2> QED  BY <1>0, <1>2, <1>3, <2>1 DEF ListHead
<1>5. CASE os_sfqq # NoSfqq
  <2>1. sfqq_total_seek \in 1 .. Linked /\ os_sfqq = sfqq_total_seek
    BY <1>0, <1>5 DEF Cursor
  <2>2. CASE Lapped
    <3>1. sfqq_total_seek = Linked
      BY <1>1, <2>2 DEF Lapped
    <3>2. nxt[os_sfqq] = 0
      BY <1>0, <1>1, <2>1, <3>1
    <3>3. NextSfqq = 1 /\ NextSeek = 1
      BY <1>0, <1>3, <1>5, <2>1, <2>2, <3>2 DEF NextSfqq, NextSeek
    <3> QED  BY <1>0, <1>2, <1>5, <2>1, <3>3 DEF ListHead
  <2>3. CASE ~Lapped
    <3>1. sfqq_total_seek < Linked
      BY <1>0, <1>1, <2>1, <2>3 DEF Lapped
    <3>2. nxt[os_sfqq] = sfqq_total_seek + 1
      BY <1>0, <1>1, <2>1, <3>1
    <3>3. NextSfqq = sfqq_total_seek + 1 /\ NextSeek = sfqq_total_seek + 1
      BY <1>5, <2>3, <3>2 DEF NextSfqq, NextSeek
    <3> QED  BY <1>0, <1>2, <1>5, <2>1, <3>1, <3>3 DEF ListHead
  <2> QED  BY <2>2, <2>3
<1> QED  BY <1>4, <1>5

\* The queue under the cursor is empty only if none of its requests waits.
LEMMA OldestExists ==
  ASSUME IInv, CalmInv, NEW i \in 1 .. Len(pending), own[pending[i]] = NextSfqq
  PROVE  Oldest # {}
<1>1. Len(pending) \in Nat /\ DOMAIN pending = 1 .. Len(pending)
  BY CalmTypes
<1> DEFINE T == Positions(NextSfqq)
<1>2. T \subseteq Nat /\ T # {}
  BY <1>1 DEF Positions
<1>3. \E x \in T : \A y \in T : x <= y
  <2> HIDE DEF T
  <2> QED  BY <1>2, LeastNat
<1> QED  BY <1>3 DEF Oldest

\* One dispatch of a context inside request_fn or of the drain.
LEMMA DispatchCalm ==
  ASSUME IInv, IInv', CalmInv, ~Race, Dispatching,
         NEW c \in Ctx, pc[c] \in {"run", "drain"}, UNCHANGED pc,
         sfq_dispatch_one \/ sfq_dispatch_wild
  PROVE  CalmInv'
<1>0. /\ TypeOK /\ Ring /\ Owners /\ Cursor /\ Mutex
      /\ pending \in Seq(Requests) /\ Len(pending) \in Nat
  BY CalmTypes
<1>1. /\ UNCHANGED <<ringVars, pid, own, plugged, stale, inflight>>
      /\ MoveCursor /\ ~NoSfqqYet
  BY DEF Dispatching, setupVars, ringVars, sfq_dispatch_one, sfq_dispatch_wild
<1>2. Ring' /\ Linked' = Linked
  <2>1. "run" \notin Registering /\ UNCHANGED <<cur, tmp>>
    BY DEF Registering, Dispatching, setupVars
  <2> QED  BY <1>0, <1>1, <2>1, QuietRing
<1>4. /\ sfqq_total_seek' \in 1 .. Linked /\ os_sfqq' = sfqq_total_seek'
      /\ os_sfqq' # NoSfqq /\ NextSfqq # ListHead
  BY <1>1, CursorMoves
<1>5. sfq_dispatch_one
  BY <1>4 DEF sfq_dispatch_wild
<1>6. PICK i \in 1 .. Len(pending) : pending' = Without(pending, i)
  BY <1>5, DispatchTakes
<1>7. Owners'
  <2>1. /\ Len(pending') = Len(pending) - 1
        /\ \A j \in 1 .. Len(pending) - 1 :
             pending'[j] = IF j < i THEN pending[j] ELSE pending[j + 1]
    BY <1>0, <1>6, WithoutElements, WithoutProperties
  <2>2. \A j \in 1 .. Len(pending') :
          \E k \in 1 .. Len(pending) : pending'[j] = pending[k]
    BY <1>0, <2>1
  <2> QED  BY <1>0, <1>1, <1>2, <2>2 DEF Owners
<1>8. Cursor'
  BY <1>2, <1>4 DEF Cursor
<1>9. Mutex'
  <2>1. elv' \in {elv, "oops"}
    BY <1>5 DEF sfq_dispatch_one
  <2> QED  BY <1>0, <2>1 DEF Mutex, Locked
<1>10. First'
  BY <1>4 DEF First
<1>11. NoStranded'
  BY DEF NoStranded
<1> QED  BY <1>2, <1>7, <1>8, <1>9, <1>10, <1>11 DEF CalmInv

\* A dispatch that returns 0: the caller leaves, and somebody will come back
\* for what waits.
LEMMA ReturnCalm ==
  ASSUME IInv, IInv', CalmInv, ~Race, Dispatching, NEW c \in Ctx,
         sfq_dispatch_refused \/ sfq_dispatch_nothing, elv # "oops",
         \/ /\ pc[c] = "run" /\ queue_head = <<>> /\ elv # "bypass"
            /\ At(c, "idle") /\ UNCHANGED elv
         \/ /\ pc[c] = "drain"
            /\ At(c, IF queue_head = <<>> THEN "idle" ELSE "run")
            /\ elv' = IF Quiescent(c) THEN "detached" ELSE elv
  PROVE  CalmInv'
<1>0. /\ TypeOK /\ Ring /\ Owners /\ Cursor /\ Mutex /\ First
      /\ pc \in [Ctx -> Labels] /\ pending \in Seq(Requests)
      /\ queue_head \in Seq(Requests)
      /\ Len(pending) \in Nat /\ DOMAIN pending = 1 .. Len(pending)
      /\ pending # <<>> => Len(pending) > 0
      /\ Linked \in 0 .. MaxSfqq /\ MaxSfqq \in Nat
  BY CalmTypes DEF TypeOK
<1>1. /\ UNCHANGED <<ringVars, pid, own, plugged, inflight, sfqr_size, firing>>
      /\ UNCHANGED <<pending, depth, queue_head>>
  <2>1. UNCHANGED <<ringVars, pid, own, plugged, inflight, sfqr_size, firing>>
    BY DEF Dispatching, setupVars, ringVars
  <2> QED  BY <2>1, DispatchNone
<1>2. PICK l \in {"idle", "run"} : pc' = [pc EXCEPT ![c] = l]
  BY DEF At
<1>3. Ring' /\ Linked' = Linked
  <2>1. l \notin Registering /\ pc[c] \notin Registering /\ UNCHANGED <<cur, tmp>>
    BY DEF Registering, Dispatching, setupVars
  <2> QED  BY <1>0, <1>1, <1>2, <2>1, QuietRing
<1>5. Owners'
  BY <1>0, <1>1, <1>3 DEF Owners
<1>6. \/ NoSfqqYet /\ UNCHANGED <<os_sfqq, sfqq_total_seek>>
      \/ ~NoSfqqYet /\ MoveCursor
  BY DEF sfq_dispatch_refused, sfq_dispatch_nothing
<1>7. Cursor'
  <2>1. CASE NoSfqqYet /\ UNCHANGED <<os_sfqq, sfqq_total_seek>>
    BY <1>0, <1>1, <1>3, <2>1 DEF Cursor
  <2>2. CASE ~NoSfqqYet /\ MoveCursor
    BY <1>3, <2>2, CursorMoves DEF Cursor
  <2> QED  BY <1>6, <2>1, <2>2
<1>8. elv' \in {elv, "detached"} /\ (pc[c] = "drain" => elv = "bypass")
  BY <1>0 DEF Mutex
<1>9. Mutex'
  <2>1. \A d \in Ctx : d # c => ~Locked(d)
    BY <1>0 DEF Mutex, Locked
  <2>2. \A d \in Ctx : d # c => pc'[d] = pc[d]
    BY <1>0, <1>2
  <2>3. pc'[c] # "drain"
    BY <1>0, <1>2
  <2> QED  BY <2>1, <2>2, <2>3 DEF Mutex, Locked
\* No queue at all: nothing has been added yet.
<1>10. NoSfqqYet => pending = <<>>
  <2> SUFFICES ASSUME pending # <<>> PROVE ~NoSfqqYet
    OBVIOUS
  <2>1. own[pending[1]] \in 1 .. Linked
    BY <1>0 DEF Owners
  <2>2. nxt[0] = 1
    BY <1>0, <2>1 DEF Ring
  <2> QED  BY <2>2 DEF NoSfqqYet, ListHead
<1>11. First'
  <2>1. CASE NoSfqqYet /\ UNCHANGED <<os_sfqq, sfqq_total_seek>>
    BY <1>0, <1>1, <1>3, <1>8, <1>10, <2>1 DEF First
  <2>2. CASE ~NoSfqqYet /\ MoveCursor
    BY <2>2, CursorMoves DEF First
  <2> QED  BY <1>6, <2>1, <2>2
<1>12. NoStranded'
  <2>1. CASE pc[c] = "drain"
    <3>1. CASE ~Quiescent(c)
      <4>1. elv' = "bypass"
        BY <1>8, <2>1, <3>1
      <4> QED  BY <4>1 DEF NoStranded
    <3>2. CASE Quiescent(c)
      <4>1. Range(pending) = {} /\ Range(queue_head) = {}
        BY <3>2 DEF Quiescent, Outstanding
      <4>2. pending = <<>> /\ queue_head = <<>>
        BY <1>0, <4>1, EmptyRange
      <4> QED  BY <1>1, <4>2 DEF NoStranded
    <3> QED  BY <3>1, <3>2
  <2>2. CASE pc[c] = "run" /\ queue_head = <<>> /\ elv # "bypass"
    <3>1. elv = "attached"
      <4>1. pc[c] # "idle"
        BY <2>2
      <4> QED  BY <2>2, <4>1, WorkMeansInUse DEF IInv
    <3> SUFFICES ASSUME pending # <<>> PROVE NoStranded'
      BY <1>1, <2>2 DEF NoStranded
    <3>2. SomeCounted
      BY WaitingCounts DEF SomeCounted
    <3>3. ~NoSfqqYet
      BY <1>10
    <3>4. CASE unplug_work'
      BY <3>4 DEF NoStranded
    <3>5. CASE ~unplug_work'
      <4>1. sfq_dispatch_nothing /\ ~Skips /\ Empty
        BY <3>2, <3>3, <3>5 DEF sfq_dispatch_refused, sfq_dispatch_nothing, KickIf
      <4>2. os_sfqq = NoSfqq
        BY <4>1 DEF Skips
      <4>3. NextSfqq = 1 /\ Linked > 0
        BY <1>6, <3>3, <4>2, CursorMoves
      <4>4. \A i \in 1 .. Len(pending) : own[pending[i]] # 1
        BY <4>1, <4>3, OldestExists DEF Empty
      <4>5. \E p \in Procs : \E r \in plugged[p] : own[r] = 1
        BY <1>0, <3>1, <4>2, <4>3, <4>4 DEF First
      <4> QED  BY <1>1, <4>5 DEF NoStranded
    <3> QED  BY <3>4, <3>5
  <2> QED  BY <2>1, <2>2
<1> QED  BY <1>3, <1>5, <1>7, <1>9, <1>11, <1>12 DEF CalmInv

\* The steps of a context inside request_fn that the elevator takes no part
\* in, and its entries.
LEMMA DeviceCalm ==
  ASSUME IInv, CalmInv, ~Race, NEW c \in Ctx,
         UNCHANGED <<setupVars, ringVars, queueVars, armed, firing, elv>>,
         unplug_work \/ ~unplug_work',
         \/ UNCHANGED unplug_work
            /\ \/ elv = "bypass" /\ DeviceBypassed(c)
               \/ DeviceBusy(c) \/ DeviceStart(c) \/ DeviceIssued(c)
               \/ DeviceRequeue(c)
         \/ RunQueue(c)
  PROVE  CalmInv'
<1>0. /\ TypeOK /\ Ring /\ Owners /\ Cursor /\ Mutex /\ First
      /\ pc \in [Ctx -> Labels] /\ pending \in Seq(Requests)
      /\ issuing \in [Ctx -> Requests \cup {NoReq}]
  BY CalmTypes DEF TypeOK, DeviceTypeOK
<1>1. /\ UNCHANGED <<ringVars, pid, own, plugged, pending, os_sfqq, elv>>
      /\ UNCHANGED <<sfqq_total_seek, depth, sfqr_size>>
  BY DEF setupVars, ringVars, queueVars
<1>2. /\ Locked(c) \/ LockFree
      /\ pc[c] \in {"idle", "run", "issue"}
      /\ \E l \in {"idle", "run", "issue"} : pc' = [pc EXCEPT ![c] = l]
  BY DEF DeviceBypassed, DeviceBusy, DeviceStart, DeviceIssued, DeviceRequeue,
         RunQueue, At, Locked
<1>3. PICK l \in {"idle", "run", "issue"} : pc' = [pc EXCEPT ![c] = l]
  BY <1>2
<1>4. Ring' /\ Linked' = Linked
  <2>1. l \notin Registering /\ pc[c] \notin Registering /\ UNCHANGED <<cur, tmp>>
    BY <1>2 DEF Registering, setupVars
  <2> QED  BY <1>0, <1>1, <1>3, <2>1, QuietRing
<1>5. Owners' /\ Cursor'
  BY <1>0, <1>1, <1>4 DEF Owners, Cursor
<1>6. Mutex'
  <2>1. \A d \in Ctx : d # c => ~Locked(d)
    BY <1>0, <1>2 DEF Mutex, Locked, LockFree
  <2>2. \A d \in Ctx : d # c => pc'[d] = pc[d]
    BY <1>0, <1>3
  <2>3. pc'[c] # "drain"
    BY <1>0, <1>3
  <2> QED  BY <2>1, <2>2, <2>3 DEF Mutex, Locked
<1>7. First'
  <2> SUFFICES ASSUME os_sfqq = NoSfqq, elv = "attached" PROVE First'
    BY <1>1 DEF First
  <2>1. queue_head = <<>> /\ inflight = {}
    BY NothingHeld
  <2>2. LockFree
    BY <2>1 DEF DeviceBypassed, DeviceBusy, DeviceStart, DeviceIssued,
                DeviceRequeue, RunQueue
  <2>3. pending = <<>>
    BY <2>2, <1>0, ProcsAssumption DEF First, LockFree
  <2> QED  BY <1>0, <1>1, <1>4, <2>3 DEF First
<1>8. NoStranded'
  <2>1. CASE l # "idle"
    BY <1>0, <1>3, <2>1 DEF NoStranded
  <2>2. CASE l = "idle"
    <3>1. pc'[c] = "idle"
      BY <1>0, <1>3, <2>2
    <3>2. DeviceBusy(c) \/ DeviceRequeue(c) \/ (elv = "bypass" /\ DeviceBypassed(c))
      BY <1>0, <3>1 DEF DeviceStart, DeviceIssued, RunQueue, At
    <3>3. inflight' # {} \/ elv = "bypass"
      BY <3>2 DEF DeviceBusy, DeviceRequeue
    <3> QED  BY <1>1, <3>3 DEF NoStranded
  <2> QED  BY <2>1, <2>2
<1> QED  BY <1>4, <1>5, <1>6, <1>7, <1>8 DEF CalmInv

\* A completion kicks if anything is left.
LEMMA CompletedCalm ==
  ASSUME IInv, IInv', CalmInv, ~Race,
         NEW r \in Requests, sfq_completed(r)
  PROVE  CalmInv'
<1>0. /\ TypeOK /\ Ring /\ Owners /\ Cursor /\ Mutex
      /\ pending \in Seq(Requests) /\ Len(pending) \in Nat
      /\ queue_head \in Seq(Requests) /\ Len(queue_head) \in Nat
      /\ pending # <<>> => Len(pending) > 0
      /\ queue_head # <<>> => Len(queue_head) > 0
  BY CalmTypes
<1>1. /\ UNCHANGED <<ringVars, pid, own, plugged, pending, os_sfqq>>
      /\ UNCHANGED <<sfqq_total_seek, heap, elv, queue_head, pc>>
      /\ r \in inflight /\ unplug_work' = (unplug_work \/ sfqr_size' > 0)
  BY DEF sfq_completed, setupVars, ringVars, KickIfMore, KickIf, DeviceComplete
<1>2. Ring' /\ Linked' = Linked
  <2>1. "run" \notin Registering /\ UNCHANGED <<cur, tmp>>
    BY DEF Registering, sfq_completed, setupVars
  <2> QED  BY <1>0, <1>1, <2>1, KblockdAssumption, QuietRing
<1>3. os_sfqq # NoSfqq
  BY <1>1, NothingHeld
<1>4. Owners' /\ Cursor' /\ Mutex' /\ First'
  BY <1>0, <1>1, <1>2, <1>3 DEF Owners, Cursor, Mutex, Locked, First
<1>5. NoStranded'
  <2> SUFFICES ASSUME pending # <<>> \/ queue_head # <<>> PROVE unplug_work'
    BY <1>1 DEF NoStranded
  <2>1. sfqr_size' \in Nat /\ sfqr_size' >= Len(pending) + Cardinality(heap') + Held'
    BY <1>1 DEF IInv, TypeOK, NeverUndercounts
  <2>2. Cardinality(heap') = 0
    BY FS_EmptySet DEF IInv, HeapAtRest
  <2>3. Held' = Len(queue_head) + Cardinality(inflight')
    BY <1>1 DEF Held
  <2>4. Cardinality(inflight') \in Nat
    <3>1. (DeviceTypeOK => Cardinality(inflight) \in Nat)'
      BY HeldType, PTL
    <3> QED  BY <3>1 DEF IInv, TypeOK
  <2>5. sfqr_size' > 0
    BY <1>0, <2>1, <2>2, <2>3, <2>4
  <2> QED  BY <1>1, <2>5
<1> QED  BY <1>2, <1>4, <1>5 DEF CalmInv

\* Steps that touch neither the requests nor the ring.
LEMMA AsideCalm ==
  ASSUME IInv, CalmInv, ~Race, Timed \/ Switch, ~sfq_init_queue,
         \A p \in Procs : ~Drain(p)
  PROVE  CalmInv'
<1>0. /\ TypeOK /\ Ring /\ Owners /\ Cursor /\ Mutex /\ First /\ NoStranded
      /\ pc \in [Ctx -> Labels] /\ pending \in Seq(Requests)
      /\ queue_head \in Seq(Requests)
  BY CalmTypes DEF TypeOK
<1>1. /\ UNCHANGED <<setupVars, ringVars, queueVars>>
      /\ UNCHANGED <<ringVars, pid, own, plugged, pending, os_sfqq>>
      /\ UNCHANGED <<sfqq_total_seek, depth, queue_head, inflight>>
  BY DEF Timed, TimerExpires, sfq_idle_slice_timer, Switch, BypassStart,
         CancelTimer, sfq_exit_queue, KickSuccessor, OnlyElv, DrainStart,
         setupVars, ringVars, queueVars, deviceVars
<1>2. ASSUME NEW c \in Ctx, NEW l \in {"idle", "drain"},
             UNCHANGED pc \/ (pc[c] = "idle" /\ pc' = [pc EXCEPT ![c] = l])
      PROVE  Ring' /\ Owners' /\ Cursor' /\ Linked' = Linked
  <2>1. l \notin Registering /\ "idle" \notin Registering /\ UNCHANGED <<cur, tmp>>
    BY <1>1 DEF Registering, setupVars
  <2>2. Ring' /\ Linked' = Linked
    BY <1>0, <1>1, <1>2, <2>1, QuietRing
  <2> QED  BY <1>0, <1>1, <2>2 DEF Owners, Cursor
<1>3. CASE Timed
  <2>1. UNCHANGED <<pc, elv>>
    BY <1>3 DEF Timed, TimerExpires, sfq_idle_slice_timer, deviceVars
  <2>2. Ring' /\ Owners' /\ Cursor' /\ Linked' = Linked
    BY <1>2, <2>1, KblockdAssumption
  <2>3. Mutex' /\ First'
    BY <1>0, <1>1, <2>1, <2>2 DEF Mutex, Locked, First
  <2>4. NoStranded'
    <3>1. CASE TimerExpires
      BY <3>1 DEF TimerExpires, NoStranded
    <3>2. CASE sfq_idle_slice_timer
      <4>1. pending # <<>> \/ queue_head # <<>> => SomeCounted
        BY WaitingCounts DEF SomeCounted
      <4> QED  BY <1>1, <3>2, <4>1
               DEF sfq_idle_slice_timer, KickIf, NoStranded
    <3> QED  BY <1>3, <3>1, <3>2 DEF Timed
  <2> QED  BY <2>2, <2>3, <2>4 DEF CalmInv
<1>4. CASE BypassStart
  <2>1. UNCHANGED pc /\ elv' = "bypass" /\ LockFree
    BY <1>4 DEF BypassStart, OnlyElv, deviceVars
  <2>2. Ring' /\ Owners' /\ Cursor'
    BY <1>2, <2>1, KblockdAssumption
  <2>3. Mutex' /\ First' /\ NoStranded'
    BY <1>0, <2>1 DEF Mutex, Locked, First, NoStranded
  <2> QED  BY <2>2, <2>3 DEF CalmInv
<1>5. CASE CancelTimer \/ sfq_exit_queue \/ KickSuccessor
  <2>1. /\ UNCHANGED pc /\ elv \in {"detached", "untimed"}
        /\ elv' \in {"detached", "untimed", "freed"}
    BY <1>5 DEF CancelTimer, sfq_exit_queue, KickSuccessor, OnlyElv, deviceVars
  <2>2. Ring' /\ Owners' /\ Cursor'
    BY <1>2, <2>1, KblockdAssumption
  <2>3. Range(pending) = {} /\ Range(queue_head) = {}
        /\ \A c \in Ctx : pc[c] = "idle"
    BY <2>1 DEF IInv, Gone, Outstanding
  <2>4. pending = <<>> /\ queue_head = <<>>
    BY <1>0, <2>3, EmptyRange
  <2>5. Mutex' /\ First' /\ NoStranded'
    BY <1>1, <2>1, <2>3, <2>4 DEF Mutex, Locked, First, NoStranded
  <2> QED  BY <2>2, <2>5 DEF CalmInv
<1>6. ASSUME NEW p \in Procs, DrainStart(p) PROVE CalmInv'
  <2>1. /\ LockFree /\ pc[p] = "idle" /\ elv = "bypass" /\ elv' = "bypass"
        /\ pc' = [pc EXCEPT ![p] = "drain"] /\ p \in Ctx
    BY <1>6, ProcsAssumption DEF DrainStart, At
  <2>2. Ring' /\ Owners' /\ Cursor'
    BY <1>2, <2>1
  <2>3. \A d \in Ctx : d # p => pc'[d] = pc[d] /\ ~Locked(d)
    BY <1>0, <2>1 DEF LockFree, Locked
  <2>4. Mutex' /\ First' /\ NoStranded'
    BY <1>0, <2>1, <2>3 DEF Mutex, Locked, First, NoStranded
  <2> QED  BY <2>2, <2>4 DEF CalmInv
<1> QED  BY <1>3, <1>4, <1>5, <1>6 DEF Switch

\* Init and a later sfq_init_queue: an empty ring.
Fresh ==
  /\ nxt = EmptyRing /\ tail = ListHead /\ pid = <<>> /\ sfqq_size = 0
  /\ pending = <<>> /\ queue_head = <<>>
  /\ os_sfqq = NoSfqq /\ sfqq_total_seek = 0 /\ depth = 0
  /\ \A c \in Ctx : pc[c] = "idle"
  /\ \A p \in Procs : plugged[p] = {}

LEMMA FreshCalm == TypeOK /\ Fresh => CalmInv
<1> SUFFICES ASSUME TypeOK, Fresh PROVE CalmInv
  OBVIOUS
<1> USE DEF Fresh
<1>1. Len(<<>>) = 0 /\ ~Building
  BY EmptySeq, ProcsAssumption DEF Building
<1>2. Linked = 0
  BY <1>1 DEF Linked
<1>3. Ring
  BY <1>1, <1>2, ProcsAssumption, BoundsAssumption DEF Ring, EmptyRing, ListHead
<1>4. Owners
  BY <1>1, <1>2 DEF Owners
<1>5. Cursor /\ Mutex /\ First /\ NoStranded
  BY <1>2 DEF Cursor, Mutex, Locked, First, NoStranded
<1> QED  BY <1>3, <1>4, <1>5 DEF CalmInv

LEMMA InitCalm == Init => CalmInv
<1> SUFFICES ASSUME Init PROVE CalmInv
  OBVIOUS
<1>1. TypeOK
  BY InitIInv DEF IInv
<1> QED  BY <1>1, FreshCalm DEF Init, DeviceInit, Fresh

LEMMA RestartCalm ==
  ASSUME IInv, IInv', sfq_init_queue
  PROVE  CalmInv'
<1>1. /\ nxt' = EmptyRing /\ tail' = ListHead /\ pid' = <<>> /\ sfqq_size' = 0
      /\ pending' = <<>> /\ os_sfqq' = NoSfqq /\ sfqq_total_seek' = 0
      /\ depth' = 0 /\ UNCHANGED <<plugged, queue_head, pc>>
      /\ elv = "freed"
  BY DEF sfq_init_queue, deviceVars
<1>2. Outstanding = {} /\ \A c \in Ctx : pc[c] = "idle"
  BY <1>1 DEF IInv, Gone
<1>3. queue_head = <<>>
  BY <1>2, EmptyRange DEF Outstanding, IInv, TypeOK, DeviceTypeOK
<1>4. \A p \in Procs : plugged[p] = {}
  BY <1>2, SetUpElements DEF Outstanding, IInv
<1>5. TypeOK'
  BY DEF IInv
<1>6. Fresh'
  BY <1>1, <1>2, <1>3, <1>4 DEF Fresh, EmptyRing
<1>7. (TypeOK /\ Fresh => CalmInv)'
  BY FreshCalm, PTL
<1> QED  BY <1>5, <1>6, <1>7

LEMMA NextCalm ==
  IInv /\ IInv' /\ Placed /\ CalmInv /\ [Next /\ ~Race]_vars => CalmInv'
<1> SUFFICES ASSUME IInv, IInv', Placed, CalmInv, [Next /\ ~Race]_vars
             PROVE  CalmInv'
  OBVIOUS
<1>1. CASE UNCHANGED vars
  <2> USE <1>1
  <2>1. UNCHANGED <<cur, tmp, plugged, own, nxt, tail, pid, sfqq_size, pending,
                    os_sfqq, sfqq_total_seek, depth, unplug_work, armed, firing>>
        /\ UNCHANGED <<elv, queue_head, inflight, pc>>
    BY DEF vars, setupVars, ringVars, queueVars, kickVars, deviceVars
  <2>2. Building' = Building /\ Linked' = Linked
    BY <2>1 DEF Building, Linked
  <2> QED  BY <2>1, <2>2, CalmTypes
           DEF CalmInv, Ring, Owners, Cursor, Mutex, Locked, First, NoStranded
<1>2. CASE Next /\ ~Race
  <2>0. elv # "oops" /\ ~Race
    BY <1>2 DEF Next
  <2>1. ASSUME NEW p \in Procs, NEW r \in Requests, Submit(p, r) \/ Flush(p, r)
        PROVE  CalmInv'
    BY <2>0, <2>1, SubmitCalm, FlushCalm
  <2>2. ASSUME NEW p \in Procs, Register(p) PROVE CalmInv'
    BY <2>0, <2>2, RegisterCalm
  <2>3. ASSUME NEW c \in Ctx, Peek(c) PROVE CalmInv'
    BY <2>0, <2>3, DispatchCalm, ReturnCalm DEF Peek
  <2>4. ASSUME NEW p \in Procs, Drain(p) PROVE CalmInv'
    BY <2>0, <2>4, ProcsAssumption, DispatchCalm, ReturnCalm DEF Drain
  <2>5. ASSUME NEW c \in Ctx,
               \/ elv = "bypass" /\ OnlyDevice(DeviceBypassed(c))
               \/ OnlyDevice(DeviceBusy(c) \/ DeviceStart(c))
               \/ Issued(c) \/ Unasked(c)
        PROVE  CalmInv'
    BY <2>0, <2>5, DeviceCalm DEF OnlyDevice, Issued, Unasked, kickVars
  <2>6. ASSUME NEW r \in Requests, sfq_completed(r) PROVE CalmInv'
    BY <2>0, <2>6, CompletedCalm
  <2>7. CASE sfq_kick_queue
    BY <2>0, <2>7, KblockdAssumption, DeviceCalm DEF sfq_kick_queue
  <2>8. CASE Timed \/ Switch
    BY <2>0, <2>4, <2>8, AsideCalm, RestartCalm
  <2> QED  BY <1>2, <2>1, <2>2, <2>3, <2>5, <2>6, <2>7, <2>8
           DEF Next, Working, RequestFn
<1> QED  BY <1>1, <1>2

-----------------------------------------------------------------------------
(* The theorems about what only a race can do.                             *)

\* Until a registration races, the list of queues, the cursor and the first
\* dispatch are as sfq_dispatch takes them to be.
THEOREM CalmUntilRace == RacedSpec => [](IInv /\ Placed /\ (raced \/ CalmInv))
<1>1. RacedInit => IInv /\ Placed /\ (raced \/ CalmInv)
  BY InitIInv, InitPlaced, InitCalm DEF RacedInit
<1>2. IInv /\ Placed /\ (raced \/ CalmInv) /\ [RacedNext]_<<vars, raced>>
        => IInv' /\ Placed' /\ (raced \/ CalmInv)'
  <2> SUFFICES ASSUME IInv, Placed, raced \/ CalmInv, [RacedNext]_<<vars, raced>>
               PROVE  IInv' /\ Placed' /\ (raced' \/ CalmInv')
    OBVIOUS
  <2>1. [Next]_vars
    BY DEF RacedNext
  <2>2. IInv' /\ Placed'
    BY <2>1, NextIInv, NextPlaced
  <2>3. ASSUME ~raced' PROVE CalmInv'
    <3>1. CalmInv /\ [Next /\ ~Race]_vars
      BY <2>3 DEF RacedNext
    <3> QED  BY <2>2, <3>1, NextCalm
  <2> QED  BY <2>2, <2>3
<1> QED  BY <1>1, <1>2, PTL DEF RacedSpec

\* The cursor of sfq_dispatch and its count of moves agree, and the step over
\* the list head comes when the cursor is on the last queue, with any number of
\* processes, until two register at once or the cursor moves while a counted
\* queue is not linked.
THEOREM CursorExact == RacedSpec => []CursorStraysOnlyInRaces
<1>1. IInv /\ (raced \/ CalmInv) => CursorStraysOnlyInRaces
  BY CursorFollows DEF IInv, CalmInv, CursorStraysOnlyInRaces
<1> QED  BY <1>1, CalmUntilRace, PTL

\* No kick is lost but in a race, although the first dispatch does not kick:
\* what it leaves behind waits for the plug of the process whose queue it
\* looked at.
THEOREM NothingStranded == RacedSpec => []StrandsOnlyInRaces
<1>1. raced \/ CalmInv => StrandsOnlyInRaces
  BY DEF CalmInv, StrandsOnlyInRaces
<1> QED  BY <1>1, CalmUntilRace, PTL
=============================================================================
