---------------------------- MODULE SortingProofs ----------------------------
(***************************************************************************)
(* Proofs about the two elevators that dispatch in an order of their own:  *)
(* Deadline, whose trees are sorted by sector, and SfqAlpha, whose array   *)
(* is a heap of start tags.  They hold for every finite set of requests    *)
(* and every set of contexts, every set of sectors, fifo_batch and         *)
(* writes_starved, and every REQUEST_DEPTH.                                *)
(*                                                                         *)
(* Deadline: the FIFO and the tree of a direction are updated by different *)
(* code; the invariant Lists says that they stay two orders of one set     *)
(* without repetition, which is what keeps next_rq pointing into its tree. *)
(* Turn bounds the reads that go before a write by the batches counted in  *)
(* starved, the batch that goes on included.  Only a front merge can put a *)
(* tree out of order (OrderLostByFrontMerge).                              *)
(*                                                                         *)
(* ALPHA: insertNode and deleteNode are shown to keep the requests and the *)
(* heap order in arrays of any length (InsertNode, DeleteNode), although   *)
(* both are recursive: the recursion of a hole that moves is a function    *)
(* that exists (SiftExists), and it leaves at every index what the loop    *)
(* leaves there (RisenHolds, SunkHolds).  A tag is written only while its  *)
(* request is outside the array, so that the order survives the unlocked   *)
(* reads and writes of sfq_set_request (Heaped, OnePlace).                 *)
(* What they can do to the virtual time is AlphaTime's: a task about to    *)
(* write a finish tag has a later one, or is in overtaken, the history     *)
(* variable of MCSfqAlpha (AdvancesForward).                               *)
(***************************************************************************)
EXTENDS Deadline, MCSfqAlpha, BlockDeviceProofs

-----------------------------------------------------------------------------
(* Deadline.                                                               *)

\* Both lists of a direction; requests to be inserted are in neither.
Lists ==
  /\ plugged \cap Linked = {}
  /\ \A d \in Dirs :
       /\ IsInjective(fifo_list[d]) /\ IsInjective(sort_list[d])
       /\ Range(fifo_list[d]) = Range(sort_list[d])
       /\ \A r \in Range(fifo_list[d]) : dir[r] = d

Ascending(tree, at) ==
  \A i, j \in DOMAIN tree : i <= j => at[tree[i]] <= at[tree[j]]
\* starved counts the batches of reads begun while a write waits; one more
\* was going on when the write came.
Turn ==
  /\ passed <= starved * fifo_batch + batching
  /\ starved <= writes_starved
  /\ passed > 0 => Waits(WRITE)

IInv == TypeOK /\ Lists /\ NextLinked /\ Turn

-----------------------------------------------------------------------------
(* Lists.                                                                  *)

\* A list without repetition is as long as its set is large.
LEMMA DistinctLength ==
  ASSUME NEW S, NEW s \in Seq(S), IsInjective(s)
  PROVE  Len(s) = Cardinality(Range(s))
<1>1. Len(s) \in Nat /\ DOMAIN s = 1 .. Len(s) /\ s \in [1 .. Len(s) -> S]
  BY LenProperties
<1>2. s \in [1 .. Len(s) -> Range(s)]
  BY <1>1 DEF Range
<1>3. s \in Bijection(1 .. Len(s), Range(s))
  BY <1>1, <1>2 DEF Bijection, Injection, Surjection, IsInjective, Range
<1>4. IsFiniteSet(1 .. Len(s)) /\ Cardinality(1 .. Len(s)) = Len(s)
  BY <1>1, FS_Interval
<1> QED  BY <1>3, <1>4, FS_Bijection DEF ExistsBijection

\* elv_rb_add puts the request somewhere in the tree, and keeps an ascending
\* tree ascending: the neighbours of the place bound all the others.
LEMMA InsertSorted ==
  ASSUME TypeOK, NEW tree \in Seq(Requests), NEW r \in Requests,
         NEW t \in elv_rb_add(tree, r)
  PROVE  \E k \in 1 .. Len(tree) + 1 :
            /\ t = With(tree, k, r)
            /\ Ascending(tree, pos) => Ascending(t, pos)
<1>1. /\ Len(tree) \in Nat /\ DOMAIN tree = 1 .. Len(tree)
      /\ \A i \in 1 .. Len(tree) : tree[i] \in Requests
  BY LenProperties, ElementOfSeq
<1>2. \A x \in Requests : pos[x] \in Int
  BY SectorsAssumption DEF TypeOK
<1>3. \A i \in 1 .. Len(tree) : pos[tree[i]] \in Int
  BY <1>1, <1>2
<1>4. PICK k \in 1 .. Len(tree) + 1 :
        /\ t = With(tree, k, r)
        /\ k > 1 => pos[r] >= pos[tree[k - 1]]
        /\ k <= Len(tree) => pos[r] < pos[tree[k]]
  BY DEF elv_rb_add, Descents
<1>5. SUFFICES ASSUME Ascending(tree, pos) PROVE Ascending(t, pos)
  BY <1>4
<1>6. \A a, b \in 1 .. Len(tree) : a <= b => pos[tree[a]] <= pos[tree[b]]
  BY <1>1, <1>5 DEF Ascending
<1>7. ASSUME NEW i \in 1 .. Len(tree)
      PROVE  IF i < k THEN pos[tree[i]] <= pos[r] ELSE pos[r] < pos[tree[i]]
  <2>1. pos[r] \in Int /\ pos[tree[i]] \in Int
    BY <1>2, <1>3
  <2>2. CASE i < k
    <3>1. k - 1 \in 1 .. Len(tree) /\ i <= k - 1 /\ k > 1
      BY <1>1, <2>2
    <3>2. pos[tree[i]] <= pos[tree[k - 1]] /\ pos[tree[k - 1]] <= pos[r]
      BY <1>2, <1>3, <1>4, <1>6, <3>1
    <3>3. pos[tree[k - 1]] \in Int
      BY <1>3, <3>1
    <3> QED  BY <2>1, <2>2, <3>2, <3>3
  <2>3. CASE ~(i < k)
    <3>1. k \in 1 .. Len(tree) /\ k <= i /\ k <= Len(tree)
      BY <1>1, <2>3
    <3>2. pos[tree[k]] <= pos[tree[i]] /\ pos[r] < pos[tree[k]]
      BY <1>4, <1>6, <3>1
    <3>3. pos[tree[k]] \in Int
      BY <1>3, <3>1
    <3> QED  BY <2>1, <2>3, <3>2, <3>3
  <2> QED  BY <2>2, <2>3
<1>8. \A i \in 1 .. Len(tree) : i < k <=> pos[tree[i]] <= pos[r]
  <2>1. ASSUME NEW i \in 1 .. Len(tree) PROVE i < k <=> pos[tree[i]] <= pos[r]
    <3>1. pos[r] \in Int /\ pos[tree[i]] \in Int
      BY <1>2, <1>3
    <3> QED  BY <1>7, <3>1
  <2> QED  BY <2>1
<1>9. /\ t \in Seq(Requests) /\ Len(t) = Len(tree) + 1
      /\ DOMAIN t = 1 .. Len(tree) + 1
  BY <1>1, <1>4, WithProperties, LenProperties
<1>10. \A j \in 1 .. Len(tree) + 1 :
         t[j] = IF j < k THEN tree[j] ELSE IF j = k THEN r ELSE tree[j - 1]
  BY <1>4, WithElements
<1>11. ASSUME NEW i \in 1 .. Len(tree) + 1, NEW j \in 1 .. Len(tree) + 1, i <= j
       PROVE  pos[t[i]] <= pos[t[j]]
  <2>1. pos[r] \in Int
    BY <1>2
  <2>2. \A a, b \in 1 .. Len(tree) : a <= b => pos[tree[a]] <= pos[tree[b]]
    BY <1>6
  <2>3. CASE j < k
    <3>1. i \in 1 .. Len(tree) /\ j \in 1 .. Len(tree) /\ i < k
      BY <1>1, <1>1, <1>11, <2>3
    <3> QED  BY <1>10, <1>11, <2>2, <2>3, <3>1
  <2>4. CASE j = k
    <3>1. CASE i = k
      BY <1>10, <2>1, <2>4, <3>1
    <3>2. CASE i < k
      <4>1. i \in 1 .. Len(tree)
        BY <1>1, <1>1, <3>2
      <4> QED  BY <1>8, <1>10, <2>4, <3>2, <4>1
    <3> QED  BY <1>1, <1>11, <2>4, <3>1, <3>2
  <2>5. CASE j > k
    <3>1. j - 1 \in 1 .. Len(tree) /\ ~(j - 1 < k) /\ t[j] = tree[j - 1]
      BY <1>1, <1>1, <1>10, <2>5
    <3>2. pos[r] < pos[tree[j - 1]]
      BY <1>3, <1>8, <2>1, <3>1
    <3>3. CASE i < k
      <4>1. i \in 1 .. Len(tree) /\ i <= j - 1 /\ t[i] = tree[i]
        BY <1>1, <1>1, <1>10, <2>5, <3>3
      <4> QED  BY <2>2, <3>1, <4>1
    <3>4. CASE i = k
      <4>1. t[i] = r
        BY <1>10, <3>4
      <4> QED  BY <1>3, <2>1, <3>1, <3>2, <4>1
    <3>5. CASE i > k
      <4>1. i - 1 \in 1 .. Len(tree) /\ i - 1 <= j - 1 /\ t[i] = tree[i - 1]
        BY <1>1, <1>1, <1>10, <1>11, <3>5
      <4> QED  BY <2>2, <3>1, <4>1
    <3> QED  BY <1>1, <3>3, <3>4, <3>5
  <2> QED  BY <1>1, <2>3, <2>4, <2>5
<1> QED  BY <1>9, <1>11 DEF Ascending

\* elv_rb_del, too.
LEMMA RemoveSorted ==
  ASSUME TypeOK, NEW tree \in Seq(Requests), NEW i \in 1 .. Len(tree),
         Ascending(tree, pos)
  PROVE  Ascending(Without(tree, i), pos)
<1> DEFINE w == Without(tree, i)
<1>1. /\ Len(tree) \in Nat /\ DOMAIN tree = 1 .. Len(tree)
      /\ DOMAIN w = 1 .. Len(tree) - 1
  BY WithoutProperties, LenProperties
<1>2. \A j \in 1 .. Len(tree) - 1 : w[j] = IF j < i THEN tree[j] ELSE tree[j + 1]
  BY WithoutElements
<1> HIDE DEF w
<1>3. \A a, b \in 1 .. Len(tree) : a <= b => pos[tree[a]] <= pos[tree[b]]
  BY <1>1 DEF Ascending
<1>4. ASSUME NEW a \in 1 .. Len(tree) - 1, NEW b \in 1 .. Len(tree) - 1, a <= b
      PROVE  pos[w[a]] <= pos[w[b]]
  <2>1. /\ a \in 1 .. Len(tree) /\ a + 1 \in 1 .. Len(tree)
        /\ b \in 1 .. Len(tree) /\ b + 1 \in 1 .. Len(tree)
        /\ a <= b + 1 /\ a + 1 <= b + 1 /\ (b < i => a < i)
    BY <1>1, <1>4
  <2> QED  BY <1>2, <1>3, <1>4, <2>1
<1>5. Ascending(w, pos)
  BY <1>1, <1>4 DEF Ascending
<1> QED  BY <1>5 DEF w

-----------------------------------------------------------------------------
(* Steps that leave the lists alone.                                       *)

Labels == {"idle", "flush", "run", "issue", "drain"}

LEMMA TypeFacts ==
  ASSUME TypeOK
  PROVE  /\ DeviceTypeOK /\ pc \in [Ctx -> Labels]
         /\ \A d \in Dirs : /\ fifo_list[d] \in Seq(Requests)
                            /\ sort_list[d] \in Seq(Requests)
         /\ \A r \in Requests : dir[r] \in Dirs
         /\ fifo_batch \in Nat \ {0} /\ writes_starved \in Nat
BY BatchAssumption DEF TypeOK, FrameTypeOK, Labels

LEMMA WhereLinked ==
  ASSUME Lists
  PROVE  \A d \in Dirs : /\ Range(fifo_list[d]) \subseteq Linked
                         /\ Range(sort_list[d]) \subseteq Linked
BY DEF Lists, Linked, Dirs

\* An insertion or a merge takes a request out of a plug at most, and the
\* device's steps move none of the elevator's.
LEMMA OtherIInv ==
  ASSUME IInv, UNCHANGED ownVars, FrameTypeOK({})', plugged' \subseteq plugged
  PROVE  IInv'
<1> USE DEF IInv, ownVars
<1>1. TypeOK'
  BY DEF TypeOK
<1>2. Lists'
  BY DEF Lists, Linked
<1>3. NextLinked' /\ Turn'
  BY DEF NextLinked, Turn, Waits
<1> QED  BY <1>1, <1>2, <1>3

LEMMA InitIInv == Init => IInv
<1> SUFFICES ASSUME Init PROVE IInv
  OBVIOUS
<1> USE DEF Init, FrameInit, DeviceInit
<1>1. <<>> \in Seq(Requests) /\ Len(<<>>) = 0
  BY EmptySeq
<1>2. TypeOK
  <2>1. FrameTypeOK({})
    BY <1>1 DEF FrameTypeOK, DeviceTypeOK
  <2>2. dir \in [Requests -> Dirs] /\ pos \in [Requests -> Sectors]
    BY DEF Dirs
  <2>3. 0 \in 0 .. fifo_batch /\ 0 \in Nat
    BY BatchAssumption
  <2> QED  BY <1>1, <2>1, <2>2, <2>3 DEF TypeOK
<1>3. \A d \in Dirs : /\ Range(fifo_list[d]) = {} /\ Range(sort_list[d]) = {}
                      /\ IsInjective(fifo_list[d]) /\ IsInjective(sort_list[d])
  BY DEF Range, IsInjective
<1>4. Lists
  BY <1>3 DEF Lists
<1>5. NextLinked
  BY DEF NextLinked, Dirs
<1>6. Turn
  BY BatchAssumption DEF Turn
<1> QED  BY <1>2, <1>4, <1>5, <1>6 DEF IInv

LEMMA SetUpIInv ==
  ASSUME IInv, NEW r \in Requests, SetUp(r)
  PROVE  IInv'
<1> USE DEF IInv
<1>1. /\ r \notin Linked /\ plugged' = plugged \cup {r}
      /\ UNCHANGED <<stale, unplug_work, elv, queue_head, inflight, issuing, pc>>
      /\ UNCHANGED <<fifo_list, sort_list, next_rq, batching, starved, passed>>
  BY DEF SetUp, GetRequest, OutstandingWith, deviceVars
<1>2. PICK d \in Dirs, s \in Sectors :
        dir' = [dir EXCEPT ![r] = d] /\ pos' = [pos EXCEPT ![r] = s]
  BY DEF SetUp
<1>3. TypeOK'
  BY <1>1, <1>2 DEF TypeOK, FrameTypeOK, DeviceTypeOK
<1>4. \A x \in Linked : dir'[x] = dir[x]
  BY <1>1, <1>2 DEF TypeOK
<1>5. Linked' = Linked
  BY <1>1 DEF Linked
<1>6. Lists'
  BY <1>1, <1>4, <1>5, WhereLinked DEF Lists
<1>8. NextLinked' /\ Turn'
  BY <1>1 DEF NextLinked, Turn, Waits
<1> QED  BY <1>3, <1>6, <1>8

\* A front merge changes a sector, on which nothing else here depends.
LEMMA FrontMergeIInv ==
  ASSUME IInv, NEW r \in Requests, FrontMerge(r)
  PROVE  IInv'
<1> USE DEF IInv
<1>1. /\ UNCHANGED <<dir, fifo_list, sort_list, next_rq, batching, starved, passed>>
      /\ UNCHANGED <<plugged, stale, unplug_work, elv>>
      /\ UNCHANGED <<queue_head, inflight, issuing, pc>>
      /\ \E s \in Sectors : pos' = [pos EXCEPT ![r] = s]
  BY DEF FrontMerge, frameVars, deviceVars
<1>2. TypeOK'
  BY <1>1 DEF TypeOK, FrameTypeOK, DeviceTypeOK
<1>3. Lists' /\ NextLinked' /\ Turn'
  BY <1>1 DEF Lists, Linked, NextLinked, Turn, Waits
<1> QED  BY <1>2, <1>3

\* A plug is flushed: type correctness of what insertions have in common.
LEMMA InsertTypes ==
  ASSUME TypeOK, NEW c \in Ctx, NEW r \in Requests, Insert(c, r, plugged),
         stale' \subseteq Requests, UNCHANGED unplug_work
  PROVE  /\ FrameTypeOK({})' /\ r \in plugged /\ plugged' = plugged \ {r}
<1>1. /\ r \in plugged /\ plugged' = plugged \ {r}
      /\ UNCHANGED <<elv, queue_head, inflight, issuing>>
      /\ \E l \in {"run", "flush"} : pc' = [pc EXCEPT ![c] = l]
  BY DEF Insert, At
<1> QED  BY <1>1 DEF TypeOK, FrameTypeOK, DeviceTypeOK

LEMMA MergeIInv ==
  ASSUME IInv, NEW c \in Ctx, NEW r \in Requests, Merge(c, r)
  PROVE  IInv'
<1> USE DEF IInv
<1>1. /\ Insert(c, r, plugged) /\ UNCHANGED <<ownVars, unplug_work>>
      /\ stale' \subseteq Requests
  BY DEF Merge, InsertMerge, MergeLinked, TypeOK, FrameTypeOK
<1>2. FrameTypeOK({})' /\ plugged' \subseteq plugged
  BY <1>1, InsertTypes
<1> QED  BY <1>1, <1>2, OtherIInv

\* What the device, kicks and switches do.
LEMMA DeviceIInv ==
  ASSUME IInv, UNCHANGED ownVars, NEW c \in Ctx,
         \/ /\ UNCHANGED frameVars
            /\ \/ DeviceBusy(c) \/ DeviceBypassed(c) \/ DeviceStart(c)
               \/ DeviceIssued(c) \/ DeviceRequeue(c) \/ RunQueue(c)
               \/ \E r \in Requests : DeviceComplete(r)
         \/ BypassStart \/ DrainStart(c)
  PROVE  IInv'
<1> USE DEF IInv
<1>0. /\ DeviceTypeOK /\ pc \in [Ctx -> Labels] /\ unplug_work \in BOOLEAN
      /\ plugged \subseteq Requests /\ stale \subseteq Requests
      /\ elv \in {"attached", "bypass", "detached", "freed", "oops"}
  BY TypeFacts DEF TypeOK, FrameTypeOK
<1>1. DeviceTypeOK'
  <2>1. CASE BypassStart \/ DrainStart(c)
    BY <1>0, <2>1 DEF BypassStart, DrainStart, DeviceTypeOK, deviceVars
  <2>2. CASE \E r \in Requests : DeviceComplete(r)
    BY <1>0, <2>2, CompleteHeld
  <2>3. CASE DeviceStart(c)
    BY <1>0, <2>3, StartHeld
  <2>4. CASE DeviceRequeue(c)
    BY <1>0, <2>4, RequeueHeld
  <2>5. CASE DeviceBusy(c) \/ DeviceBypassed(c) \/ DeviceIssued(c) \/ RunQueue(c)
    BY <1>0, <2>5, OtherHeld
  <2> QED  BY <2>1, <2>2, <2>3, <2>4, <2>5
<1>2. pc' \in [Ctx -> Labels]
  BY <1>0 DEF DeviceBusy, DeviceBypassed, DeviceStart, DeviceIssued,
              DeviceRequeue, RunQueue, DeviceComplete, BypassStart, DrainStart,
              At, deviceVars, Labels
<1>3. /\ UNCHANGED <<plugged, stale, unplug_work>>
      /\ elv' \in {elv, "bypass"}
  BY DEF BypassStart, DrainStart, frameVars
<1>4. FrameTypeOK({})'
  BY <1>0, <1>1, <1>2, <1>3 DEF FrameTypeOK, Labels
<1> QED  BY <1>3, <1>4, OtherIInv

-----------------------------------------------------------------------------
(* Insertion.                                                              *)

LEMMA AddIInv ==
  ASSUME IInv, NEW c \in Ctx, NEW r \in Requests, deadline_add_request(c, r)
  PROVE  IInv'
<1> USE DEF IInv
<1> DEFINE d == dir[r]
<1>0. /\ d \in Dirs /\ sort_list[d] \in Seq(Requests)
      /\ fifo_list[d] \in Seq(Requests)
  BY TypeFacts
<1>1. /\ Insert(c, r, plugged) /\ UNCHANGED <<stale, unplug_work>>
      /\ UNCHANGED <<dir, pos, next_rq, batching, starved, passed>>
      /\ \E tree \in elv_rb_add(sort_list[d], r) :
           sort_list' = [sort_list EXCEPT ![d] = tree]
      /\ fifo_list' = [fifo_list EXCEPT ![d] = Append(fifo_list[d], r)]
  BY DEF deadline_add_request
<1>2. FrameTypeOK({})' /\ r \in plugged /\ plugged' = plugged \ {r}
  BY <1>1, InsertTypes DEF TypeOK, FrameTypeOK
<1>3. PICK k \in 1 .. Len(sort_list[d]) + 1 :
        sort_list' = [sort_list EXCEPT ![d] = With(sort_list[d], k, r)]
  <2>1. PICK tree \in elv_rb_add(sort_list[d], r) :
          sort_list' = [sort_list EXCEPT ![d] = tree]
    BY <1>1
  <2> QED  BY <1>0, <2>1, InsertSorted
<1> DEFINE f == Append(fifo_list[d], r)
           t == With(sort_list[d], k, r)
<1>4. r \notin Range(fifo_list[d]) /\ r \notin Range(sort_list[d])
  BY <1>0, <1>2, WhereLinked DEF Lists
<1>5. f \in Seq(Requests) /\ Range(f) = Range(fifo_list[d]) \cup {r} /\ IsInjective(f)
  <2>1. IsInjective(fifo_list[d])
    BY <1>0 DEF Lists
  <2>2. f \in Seq(Requests)
    BY <1>0, AppendProperties
  <2> QED  BY <1>0, <1>4, <2>1, <2>2, AppendDistinct
<1>6. t \in Seq(Requests) /\ Range(t) = Range(sort_list[d]) \cup {r} /\ IsInjective(t)
  <2>1. IsInjective(sort_list[d])
    BY <1>0 DEF Lists
  <2>2. t \in Seq(Requests)
    BY <1>0, WithProperties
  <2> QED  BY <1>0, <1>4, <2>1, <2>2, WithDistinct
<1>8. sort_list' = [sort_list EXCEPT ![d] = t] /\ fifo_list' = [fifo_list EXCEPT ![d] = f]
  BY <1>1, <1>3
<1> HIDE DEF f, t
<1>9. TypeOK'
  BY <1>1, <1>2, <1>5, <1>6, <1>8 DEF TypeOK
<1>10. \A e \in Dirs : /\ fifo_list'[e] = IF e = d THEN f ELSE fifo_list[e]
                       /\ sort_list'[e] = IF e = d THEN t ELSE sort_list[e]
  BY <1>8 DEF TypeOK
<1>11. Lists'
  <2>1. Linked' \subseteq Linked \cup {r}
    BY <1>5, <1>10 DEF Linked, Dirs
  <2>2. plugged' \cap Linked' = {}
    BY <1>2, <2>1 DEF Lists
  <2>3. ASSUME NEW e \in Dirs
        PROVE  /\ IsInjective(fifo_list'[e]) /\ IsInjective(sort_list'[e])
               /\ Range(fifo_list'[e]) = Range(sort_list'[e])
               /\ \A x \in Range(fifo_list'[e]) : dir'[x] = e
    <3>1. /\ Range(fifo_list[e]) = Range(sort_list[e])
          /\ IsInjective(fifo_list[e]) /\ IsInjective(sort_list[e])
          /\ \A x \in Range(fifo_list[e]) : dir[x] = e
      BY DEF Lists
    <3>2. CASE e = d
      <4>1. fifo_list'[e] = f /\ sort_list'[e] = t /\ dir' = dir /\ dir[r] = e
        BY <1>1, <1>10, <3>2
      <4>2. Range(f) = Range(t) /\ \A x \in Range(f) : dir[x] = e
        BY <1>5, <1>6, <3>1, <3>2, <4>1
      <4> QED  BY <1>5, <1>6, <4>1, <4>2
    <3>3. CASE e # d
      BY <1>1, <1>10, <3>1, <3>3
    <3> QED  BY <3>2, <3>3
  <2> QED  BY <2>2, <2>3 DEF Lists
<1>13. NextLinked'
  BY <1>1, <1>6, <1>10 DEF NextLinked
<1>14. Turn'
  <2>1. f # <<>>
    BY <1>0, AppendProperties, EmptySeq DEF f
  <2>2. Waits(WRITE) => Waits(WRITE)'
    BY <1>10, <2>1 DEF Waits, Dirs
  <2> QED  BY <1>1, <2>2 DEF Turn
<1> QED  BY <1>9, <1>11, <1>13, <1>14

-----------------------------------------------------------------------------
(* deadline_dispatch_requests.                                             *)

LEMMA PositionFound ==
  ASSUME NEW S, NEW s \in Seq(S), NEW r \in Range(s)
  PROVE  Position(s, r) \in 1 .. Len(s) /\ s[Position(s, r)] = r
<1>1. DOMAIN s = 1 .. Len(s)
  BY LenProperties
<1>2. \E i \in DOMAIN s : s[i] = r
  BY DEF Range
<1> QED  BY <1>1, <1>2 DEF Position

\* What follows a request in its tree waits, and is another one.
LEMMA LatterWaits ==
  ASSUME TypeOK, Lists, NEW r \in Requests, r \in Range(sort_list[dir[r]]),
         deadline_latter_request(r) # NoReq
  PROVE  deadline_latter_request(r) \in Range(sort_list[dir[r]]) \ {r}
<1> DEFINE tree == sort_list[dir[r]]
           i == Position(tree, r)
<1>1. dir[r] \in Dirs /\ tree \in Seq(Requests) /\ DOMAIN tree = 1 .. Len(tree)
      /\ Len(tree) \in Nat
  BY TypeFacts, LenProperties
<1>2. i \in 1 .. Len(tree) /\ tree[i] = r
  BY <1>1, PositionFound
<1>3. IsInjective(tree)
  BY <1>1 DEF Lists
<1>4. i < Len(tree) /\ deadline_latter_request(r) = tree[i + 1]
  BY DEF deadline_latter_request
<1> HIDE DEF tree, i
<1>5. tree[i + 1] \in Range(tree) /\ tree[i + 1] # r
  BY <1>1, <1>2, <1>3, <1>4 DEF Range, IsInjective
<1> QED  BY <1>4, <1>5 DEF tree

LEMMA MoveFacts ==
  ASSUME IInv, NEW r \in Requests, r \in Range(fifo_list[dir[r]]),
         deadline_move_request(r), UNCHANGED <<dir, pos, plugged>>
  PROVE  /\ fifo_list' \in [Dirs -> Seq(Requests)]
         /\ sort_list' \in [Dirs -> Seq(Requests)]
         /\ next_rq' \in [Dirs -> Requests \cup {NoReq}]
         /\ queue_head' \in Seq(Requests) /\ passed' \in Nat
         /\ elv' \in {elv, "oops"}
         /\ Lists' /\ NextLinked'
         /\ dir[r] = WRITE => passed' = 0
         /\ dir[r] = READ =>
              /\ passed' = IF Waits(WRITE) THEN passed + 1 ELSE passed
              /\ Waits(WRITE)' <=> Waits(WRITE)
<1> USE DEF IInv
<1> DEFINE d == dir[r]
           i == Position(fifo_list[d], r)
           j == Position(sort_list[d], r)
           f == Without(fifo_list[d], i)
           t == Without(sort_list[d], j)
<1>0. /\ d \in Dirs /\ sort_list[d] \in Seq(Requests)
      /\ fifo_list[d] \in Seq(Requests)
      /\ r \in Range(sort_list[d])
      /\ IsInjective(fifo_list[d]) /\ IsInjective(sort_list[d])
  BY TypeFacts DEF Lists
<1>1. /\ next_rq' = NextAfter(r)
      /\ fifo_list' = [fifo_list EXCEPT ![d] = f]
      /\ sort_list' = [sort_list EXCEPT ![d] = t]
      /\ queue_head' = Append(queue_head, r)
      /\ passed' = IF d = WRITE THEN 0
                   ELSE IF Waits(WRITE) THEN passed + 1 ELSE passed
      /\ elv' \in {elv, "oops"}
  BY DEF deadline_move_request, RemoveRequest
<1>2. /\ i \in 1 .. Len(fifo_list[d]) /\ fifo_list[d][i] = r
      /\ j \in 1 .. Len(sort_list[d]) /\ sort_list[d][j] = r
  BY <1>0, PositionFound
<1> HIDE DEF i, j
<1>3. f \in Seq(Requests) /\ Range(f) = Range(fifo_list[d]) \ {r} /\ IsInjective(f)
  <2>1. f \in Seq(Requests)
    BY <1>0, <1>2, WithoutProperties
  <2> QED  BY <1>0, <1>2, <2>1, WithoutDistinct
<1>4. t \in Seq(Requests) /\ Range(t) = Range(sort_list[d]) \ {r} /\ IsInjective(t)
  <2>1. t \in Seq(Requests)
    BY <1>0, <1>2, WithoutProperties
  <2> QED  BY <1>0, <1>2, <2>1, WithoutDistinct
<1> HIDE DEF f, t
<1>6. \A e \in Dirs : /\ fifo_list'[e] = IF e = d THEN f ELSE fifo_list[e]
                      /\ sort_list'[e] = IF e = d THEN t ELSE sort_list[e]
  BY <1>1 DEF TypeOK
<1>7. deadline_latter_request(r) \in (Range(sort_list[d]) \ {r}) \cup {NoReq}
  BY <1>0, LatterWaits
<1>8. next_rq' \in [Dirs -> Requests \cup {NoReq}]
  <2>1. Range(sort_list[d]) \subseteq Requests
    BY <1>0, RangeOfSeq
  <2> QED  BY <1>1, <1>7, <2>1 DEF NextAfter
<1>9. queue_head' \in Seq(Requests) /\ passed' \in Nat
  BY <1>1, TypeFacts, AppendProperties DEF TypeOK, DeviceTypeOK
<1>10. fifo_list' \in [Dirs -> Seq(Requests)] /\ sort_list' \in [Dirs -> Seq(Requests)]
  BY <1>1, <1>3, <1>4 DEF TypeOK
<1>11. Lists'
  <2>1. Linked' \subseteq Linked
    BY <1>3, <1>6 DEF Linked, Dirs
  <2>2. ASSUME NEW e \in Dirs
        PROVE  /\ IsInjective(fifo_list'[e]) /\ IsInjective(sort_list'[e])
               /\ Range(fifo_list'[e]) = Range(sort_list'[e])
               /\ \A x \in Range(fifo_list'[e]) : dir'[x] = e
    <3>1. /\ Range(fifo_list[e]) = Range(sort_list[e])
          /\ IsInjective(fifo_list[e]) /\ IsInjective(sort_list[e])
          /\ \A x \in Range(fifo_list[e]) : dir[x] = e
      BY DEF Lists
    <3>2. CASE e = d
      BY <1>3, <1>4, <1>6, <3>1, <3>2
    <3>3. CASE e # d
      BY <1>6, <3>1, <3>3
    <3> QED  BY <3>2, <3>3
  <2> QED  BY <2>1, <2>2 DEF Lists
<1>13. NextLinked'
  <2>1. \A e \in Dirs : next_rq'[e] = IF e = d THEN deadline_latter_request(r) ELSE NoReq
    BY <1>1 DEF NextAfter
  <2>2. \A e \in Dirs : next_rq'[e] # NoReq => next_rq'[e] \in Range(sort_list'[e])
    BY <1>4, <1>6, <1>7, <2>1
  <2>3. READ \in Dirs /\ WRITE \in Dirs /\ READ # WRITE
    BY DEF Dirs, READ, WRITE
  <2> QED  BY <2>1, <2>2, <2>3 DEF NextLinked
<1>14. d = READ => Waits(WRITE)' = Waits(WRITE)
  BY <1>6 DEF Waits, Dirs, READ, WRITE
<1> QED
  BY <1>1, <1>8, <1>9, <1>10, <1>11, <1>13, <1>14 DEF READ, WRITE

\* Reads before a write, counted.
LEMMA MoreReads ==
  ASSUME NEW f \in Nat, NEW s \in Nat, NEW w \in Nat, s <= w
  PROVE  /\ s * f \in Nat /\ (s + 1) * f = s * f + f
         /\ s * f <= w * f
<1>1. \A a, b \in Nat : a * b \in Nat
  OBVIOUS
<1>2. w - s \in Nat /\ w = s + (w - s)
  OBVIOUS
<1>3. w * f = s * f + (w - s) * f
  BY <1>2
<1> QED  BY <1>1, <1>2, <1>3

\* A step of a batch: dispatches are counted in batching and, a new batch of
\* reads with writes waiting, in starved.
LEMMA DispatchTurn ==
  ASSUME IInv, ContinueBatch \/ StartBatch, UNCHANGED <<dir, pos, plugged>>
  PROVE  \E r \in Requests :
           /\ r \in Range(fifo_list[dir[r]]) /\ deadline_move_request(r)
           /\ batching' \in 0 .. fifo_batch /\ starved' \in Nat /\ Turn'
<1> USE DEF IInv
<1>0. /\ batching \in 0 .. fifo_batch /\ starved \in Nat /\ passed \in Nat
      /\ fifo_batch \in Nat \ {0} /\ writes_starved \in Nat
      /\ passed <= starved * fifo_batch + batching /\ starved <= writes_starved
      /\ passed > 0 => Waits(WRITE)
      /\ READ \in Dirs /\ WRITE \in Dirs /\ Dirs = {READ, WRITE} /\ READ # WRITE
  BY TypeFacts DEF TypeOK, Turn, Dirs, READ, WRITE
<1>1. /\ starved * fifo_batch \in Nat
      /\ (starved + 1) * fifo_batch = starved * fifo_batch + fifo_batch
  BY <1>0, MoreReads
\* What next_rq points at waits, and in its own direction.
<1>2. ASSUME NEW d \in Dirs, next_rq[d] # NoReq
      PROVE  next_rq[d] \in Range(fifo_list[d]) /\ dir[next_rq[d]] = d
  BY <1>2 DEF NextLinked, Lists
<1>3. \A d \in Dirs : Range(fifo_list[d]) \subseteq Requests
  BY TypeFacts, RangeOfSeq
<1>4. CASE ContinueBatch
  <2> DEFINE r == Next_rq
  <2>1. /\ r # NoReq /\ batching < fifo_batch /\ deadline_move_request(r)
        /\ batching' = batching + 1 /\ starved' = starved
    BY <1>4 DEF ContinueBatch, InBatch
  <2>2. r \in Range(fifo_list[dir[r]]) /\ r \in Requests /\ dir[r] \in Dirs
    BY <1>0, <1>2, <1>3, <2>1 DEF Next_rq
  <2> HIDE DEF r
  <2>3. /\ dir[r] = WRITE => passed' = 0
        /\ dir[r] = READ =>
             /\ passed' = IF Waits(WRITE) THEN passed + 1 ELSE passed
             /\ Waits(WRITE)' <=> Waits(WRITE)
    BY <2>1, <2>2, MoveFacts
  <2>4. batching' \in 0 .. fifo_batch
    BY <1>0, <2>1
  <2>5. Turn'
    <3>1. CASE dir[r] = WRITE
      <4>1. passed' = 0
        BY <2>3, <3>1
      <4> QED  BY <1>0, <1>1, <2>1, <4>1 DEF Turn
    <3>2. CASE dir[r] = READ
      <4>1. passed' <= passed + 1 /\ (passed' > 0 => Waits(WRITE)')
        BY <1>0, <2>3, <3>2
      <4>2. passed' \in Nat
        BY <1>0, <2>3, <3>2
      <4> QED  BY <1>0, <1>1, <2>1, <4>1, <4>2 DEF Turn
    <3> QED  BY <1>0, <2>2, <3>1, <3>2
  <2> QED  BY <1>0, <2>1, <2>2, <2>4, <2>5
<1>5. CASE StartBatch
  <2>1. ChosenDir \in Dirs /\ Waits(ChosenDir)
    BY <1>0, <1>5 DEF StartBatch, ChosenDir, WritesStarved
  <2>2. PICK r : /\ deadline_move_request(r)
                 /\ \/ r = Head(fifo_list[ChosenDir])
                    \/ next_rq[ChosenDir] # NoReq /\ r = next_rq[ChosenDir]
    BY <1>5 DEF StartBatch
  <2>3. r \in Range(fifo_list[ChosenDir]) /\ dir[r] = ChosenDir
    <3>1. CASE r = Head(fifo_list[ChosenDir])
      <4>1. Head(fifo_list[ChosenDir]) \in Range(fifo_list[ChosenDir])
        BY <2>1, TypeFacts, TailDistinct DEF Lists, Waits
      <4> QED  BY <2>1, <3>1, <4>1 DEF Lists
    <3>2. CASE next_rq[ChosenDir] # NoReq /\ r = next_rq[ChosenDir]
      BY <1>2, <2>1, <3>2
    <3> QED  BY <2>2, <3>1, <3>2
  <2>4. r \in Requests
    BY <1>3, <2>1, <2>3
  <2>5. /\ dir[r] = WRITE => passed' = 0
        /\ dir[r] = READ =>
             /\ passed' = IF Waits(WRITE) THEN passed + 1 ELSE passed
             /\ Waits(WRITE)' <=> Waits(WRITE)
    BY <2>2, <2>3, <2>4, MoveFacts
  <2>6. /\ batching' = 1 /\ batching' \in 0 .. fifo_batch
        /\ starved' = IF ChosenDir = WRITE THEN 0
                      ELSE IF Waits(WRITE) THEN starved + 1 ELSE starved
    BY <1>0, <1>5 DEF StartBatch, CountStarved
  <2>7. CASE ChosenDir = WRITE
    <3>1. passed' = 0 /\ starved' = 0 /\ starved' * fifo_batch = 0
      BY <1>0, <2>3, <2>5, <2>6, <2>7
    <3> QED  BY <1>0, <2>2, <2>3, <2>4, <2>6, <3>1 DEF Turn
  <2>8. CASE ChosenDir = READ /\ Waits(WRITE)
    <3>1. starved < writes_starved
      BY <1>0, <2>8 DEF ChosenDir, WritesStarved
    <3>2. passed' = passed + 1 /\ starved' = starved + 1 /\ Waits(WRITE)'
      BY <1>0, <2>3, <2>5, <2>6, <2>8
    <3>3. passed' <= starved' * fifo_batch + batching'
      BY <1>0, <1>1, <2>6, <3>2
    <3> QED  BY <1>0, <2>2, <2>3, <2>4, <2>6, <3>1, <3>2, <3>3 DEF Turn
  <2>9. CASE ChosenDir = READ /\ ~Waits(WRITE)
    <3>1. passed' = 0 /\ starved' = starved
      BY <1>0, <2>3, <2>5, <2>6, <2>9
    <3> QED  BY <1>0, <1>1, <2>2, <2>3, <2>4, <2>6, <3>1 DEF Turn
  <2> QED  BY <1>0, <2>1, <2>7, <2>8, <2>9
<1> QED  BY <1>4, <1>5

LEMMA DispatchIInv ==
  ASSUME IInv, NEW c \in Ctx, NEW l \in {"idle", "run"}, At(c, l),
         deadline_dispatch_requests
  PROVE  IInv'
<1> USE DEF IInv
<1>1. /\ UNCHANGED <<dir, pos, plugged, stale, unplug_work, inflight, issuing>>
      /\ pc' = [pc EXCEPT ![c] = l]
  BY DEF deadline_dispatch_requests, At
<1>2. ASSUME queue_head' \in Seq(Requests), elv' \in {elv, "oops"}
      PROVE  FrameTypeOK({})'
  BY <1>1, <1>2 DEF TypeOK, FrameTypeOK, DeviceTypeOK
<1>3. CASE ContinueBatch \/ StartBatch
  <2>1. PICK r \in Requests :
          /\ r \in Range(fifo_list[dir[r]]) /\ deadline_move_request(r)
          /\ batching' \in 0 .. fifo_batch /\ starved' \in Nat /\ Turn'
    BY <1>1, <1>3, DispatchTurn
  <2>2. /\ fifo_list' \in [Dirs -> Seq(Requests)]
        /\ sort_list' \in [Dirs -> Seq(Requests)]
        /\ next_rq' \in [Dirs -> Requests \cup {NoReq}]
        /\ queue_head' \in Seq(Requests) /\ passed' \in Nat
        /\ elv' \in {elv, "oops"}
        /\ Lists' /\ NextLinked'
    BY <1>1, <2>1, MoveFacts
  <2>3. TypeOK'
    BY <1>1, <1>2, <2>1, <2>2 DEF TypeOK
  <2> QED  BY <2>1, <2>2, <2>3
<1>4. CASE DispatchWild
  <2>1. /\ elv' = "oops" /\ queue_head' = queue_head /\ UNCHANGED ownVars
    BY <1>1, <1>4 DEF DispatchWild, ownVars
  <2>2. queue_head' \in Seq(Requests)
    BY <2>1 DEF TypeOK, FrameTypeOK, DeviceTypeOK
  <2> QED  BY <1>1, <1>2, <2>1, <2>2, OtherIInv
<1> QED  BY <1>3, <1>4 DEF deadline_dispatch_requests

-----------------------------------------------------------------------------
(* The invariant and what it implies.                                      *)

LEMMA NextIInv == IInv /\ [Next]_vars => IInv'
<1> SUFFICES ASSUME IInv, [Next]_vars PROVE IInv'
  OBVIOUS
<1>1. CASE UNCHANGED vars
  <2>1. UNCHANGED ownVars /\ FrameTypeOK({})' /\ plugged' \subseteq plugged
    BY <1>1 DEF vars, frameVars, deviceVars, IInv, TypeOK, FrameTypeOK, DeviceTypeOK
  <2> QED  BY <2>1, OtherIInv
<1>2. CASE \E r \in Requests : SetUp(r)
  BY <1>2, SetUpIInv
<1>3. CASE \E r \in Requests : OnlyDevice(DeviceComplete(r))
  BY <1>3, DeviceIInv, KblockdAssumption DEF OnlyDevice, Unchanging
<1>4. CASE \E c \in Ctx, r \in Requests : deadline_add_request(c, r)
  BY <1>4, AddIInv
<1>5. CASE \E c \in Ctx, r \in Requests : Merge(c, r)
  BY <1>5, MergeIInv
<1>9. CASE \E r \in Requests : FrontMerge(r)
  BY <1>9, FrontMergeIInv
<1>6. CASE \E c \in Ctx : Peek(c) \/ Drain(c)
  BY <1>6, DispatchIInv DEF Peek, Drain
<1>7. ASSUME NEW c \in Ctx,
             \/ elv = "bypass" /\ OnlyDevice(DeviceBypassed(c))
             \/ OnlyDevice(DeviceBusy(c) \/ DeviceStart(c))
             \/ OnlyDevice(DeviceIssued(c) \/ DeviceRequeue(c) \/ RunQueue(c))
             \/ Unchanging(BypassStart) \/ Unchanging(DrainStart(c))
      PROVE  IInv'
  BY <1>7, DeviceIInv DEF OnlyDevice, Unchanging
<1>8. CASE Unchanging(BypassStart)
  BY <1>7, <1>8, KblockdAssumption
<1> QED
  BY <1>1, <1>2, <1>3, <1>4, <1>5, <1>6, <1>7, <1>8, <1>9 DEF Next, RequestFn

\* The lists, the pointers and the counters, whatever the sizes.
THEOREM Invariance == Spec => []IInv
BY InitIInv, NextIInv, PTL DEF Spec

\* Every variable keeps its type; batching never passes fifo_batch.
THEOREM TypeCorrect == Spec => []TypeOK
<1>1. IInv => TypeOK
  BY DEF IInv
<1> QED  BY <1>1, Invariance, PTL

\* fifo_list and sort_list are two orders of the same requests, of one
\* direction each, although insertion and deadline_move_request update them
\* one after the other.
THEOREM TwoOrders == Spec => []ListsAgree
<1>1. ASSUME IInv PROVE ListsAgree
  <2>1. ASSUME NEW d \in Dirs
        PROVE  /\ Range(fifo_list[d]) = Range(sort_list[d])
               /\ \A r \in Range(fifo_list[d]) : dir[r] = d
               /\ Len(fifo_list[d]) = Cardinality(Range(fifo_list[d]))
    BY <1>1, TypeFacts, DistinctLength DEF IInv, Lists
  <2> QED  BY <2>1 DEF ListsAgree
<1> QED  BY <1>1, Invariance, PTL

\* A tree is put out of the order of its sectors by a front merge into one of
\* its requests only.
THEOREM OrderLostByFrontMerge == Spec => SortedUntilFrontMerge
<1>1. ASSUME IInv, [Next]_vars, NEW d \in Dirs, InOrder(d)
      PROVE  InOrder(d)' \/ FrontMergedIn(d)
  <2> USE DEF IInv
  <2>1. /\ sort_list[d] \in Seq(Requests) /\ sort_list \in [Dirs -> Seq(Requests)]
        /\ Ascending(sort_list[d], pos)
        /\ \A i \in DOMAIN sort_list[d] : sort_list[d][i] \in Range(sort_list[d])
    BY <1>1, TypeFacts DEF TypeOK, InOrder, Ascending, Range
  <2>2. SUFFICES ASSUME ~ FrontMergedIn(d) PROVE Ascending(sort_list'[d], pos')
    BY DEF InOrder, Ascending
  <2>3. CASE UNCHANGED <<sort_list, pos>>
    BY <2>1, <2>3
  <2>4. ASSUME NEW r \in Requests, SetUp(r) PROVE Ascending(sort_list'[d], pos')
    <3>1. sort_list' = sort_list /\ r \notin Linked
          /\ \E s \in Sectors : pos' = [pos EXCEPT ![r] = s]
      BY <2>4 DEF SetUp, GetRequest, OutstandingWith
    <3>2. \A x \in Range(sort_list[d]) : pos'[x] = pos[x]
      BY <1>1, <3>1, WhereLinked DEF TypeOK
    <3> QED  BY <2>1, <3>1, <3>2 DEF Ascending
  <2>5. ASSUME NEW r \in Requests, FrontMerge(r) PROVE Ascending(sort_list'[d], pos')
    <3>1. PICK s \in Sectors : s < pos[r] /\ pos' = [pos EXCEPT ![r] = s]
      BY <2>5 DEF FrontMerge
    <3>2. pos'[r] < pos[r] /\ sort_list' = sort_list
      BY <1>1, <2>5, <3>1 DEF FrontMerge, TypeOK
    <3>3. r \notin Range(sort_list[d])
      BY <2>2, <3>2 DEF FrontMergedIn
    <3>4. \A x \in Range(sort_list[d]) : pos'[x] = pos[x]
      BY <1>1, <2>1, <3>1, <3>3, RangeOfSeq DEF TypeOK
    <3> QED  BY <2>1, <3>2, <3>4 DEF Ascending
  <2>6. ASSUME NEW c \in Ctx, NEW r \in Requests, deadline_add_request(c, r)
        PROVE  Ascending(sort_list'[d], pos')
    <3>1. /\ pos' = pos
          /\ \E tree \in elv_rb_add(sort_list[dir[r]], r) :
               sort_list' = [sort_list EXCEPT ![dir[r]] = tree]
      BY <2>6 DEF deadline_add_request
    <3>2. PICK tree \in elv_rb_add(sort_list[dir[r]], r) :
            sort_list' = [sort_list EXCEPT ![dir[r]] = tree]
      BY <3>1
    <3>3. CASE dir[r] = d
      <4>1. sort_list'[d] = tree
        BY <2>1, <3>2, <3>3
      <4>2. Ascending(tree, pos)
        BY <1>1, <2>1, <3>2, <3>3, InsertSorted
      <4> QED  BY <3>1, <4>1, <4>2
    <3>4. CASE dir[r] # d
      BY <2>1, <3>1, <3>2, <3>4
    <3> QED  BY <3>3, <3>4
  <2>7. ASSUME ContinueBatch \/ StartBatch, UNCHANGED <<dir, pos, plugged>>
        PROVE  Ascending(sort_list'[d], pos')
    <3>1. PICK r \in Requests :
            r \in Range(fifo_list[dir[r]]) /\ deadline_move_request(r)
      BY <1>1, <2>7, DispatchTurn
    <3>2. /\ dir[r] \in Dirs /\ r \in Range(sort_list[dir[r]])
          /\ sort_list[dir[r]] \in Seq(Requests)
      BY <1>1, <3>1, TypeFacts DEF Lists
    <3> DEFINE i == Position(sort_list[dir[r]], r)
    <3>3. /\ i \in 1 .. Len(sort_list[dir[r]])
          /\ sort_list' = [sort_list EXCEPT ![dir[r]] = Without(sort_list[dir[r]], i)]
      BY <3>1, <3>2, PositionFound DEF deadline_move_request
    <3> HIDE DEF i
    <3>4. CASE dir[r] = d
      <4>1. sort_list'[d] = Without(sort_list[d], i)
        BY <2>1, <3>3, <3>4
      <4>2. Ascending(Without(sort_list[d], i), pos)
        BY <1>1, <2>1, <3>3, <3>4, RemoveSorted
      <4> QED  BY <2>7, <4>1, <4>2
    <3>5. CASE dir[r] # d
      BY <2>1, <2>7, <3>3, <3>5
    <3> QED  BY <3>4, <3>5
  <2>8. ASSUME NEW c \in Ctx, Peek(c) \/ Drain(c)
        PROVE  Ascending(sort_list'[d], pos')
    <3>1. deadline_dispatch_requests /\ UNCHANGED <<dir, pos, plugged>>
      BY <2>8 DEF Peek, Drain, deadline_dispatch_requests
    <3>2. CASE DispatchWild
      BY <2>3, <3>1, <3>2 DEF DispatchWild
    <3> QED  BY <2>7, <3>1, <3>2 DEF deadline_dispatch_requests
  <2>9. CASE \/ \E r \in Requests : OnlyDevice(DeviceComplete(r))
             \/ \E c \in Ctx, r \in Requests : Merge(c, r)
             \/ \E c \in Ctx :
                  \/ OnlyDevice(DeviceBypassed(c))
                  \/ OnlyDevice(DeviceBusy(c) \/ DeviceStart(c))
                  \/ OnlyDevice(DeviceIssued(c) \/ DeviceRequeue(c) \/ RunQueue(c))
                  \/ Unchanging(DrainStart(c))
             \/ Unchanging(BypassStart) \/ UNCHANGED vars
    BY <2>3, <2>9 DEF OnlyDevice, Unchanging, Merge, ownVars, vars
  <2> QED  BY <1>1, <2>4, <2>5, <2>6, <2>8, <2>9 DEF Next, RequestFn
<1>2. IInv /\ [Next]_vars
        => [\A d \in Dirs : InOrder(d) => InOrder(d)' \/ FrontMergedIn(d)]_vars
  BY <1>1
<1> QED  BY <1>2, Invariance, PTL DEF Spec, SortedUntilFrontMerge

\* The request to go on with is linked in its tree, in one direction at most:
\* next_rq is kept between dispatches and replaced by each.
THEOREM PointerLinked == Spec => []NextLinked
<1>1. IInv => NextLinked
  BY DEF IInv
<1> QED  BY <1>1, Invariance, PTL

\* No more than writes_starved batches of reads, and the one that goes on,
\* are dispatched while a write waits.
THEOREM WritesNotStarved == Spec => []WritesGetTheirTurn
<1>1. ASSUME IInv PROVE WritesGetTheirTurn
  <2>1. /\ batching \in 0 .. fifo_batch /\ starved \in Nat /\ passed \in Nat
        /\ fifo_batch \in Nat /\ writes_starved \in Nat
        /\ passed <= starved * fifo_batch + batching /\ starved <= writes_starved
    BY <1>1, TypeFacts DEF IInv, TypeOK, Turn
  <2>2. /\ starved * fifo_batch \in Nat /\ writes_starved * fifo_batch \in Nat
        /\ starved * fifo_batch <= writes_starved * fifo_batch
        /\ (writes_starved + 1) * fifo_batch = writes_starved * fifo_batch + fifo_batch
    BY <2>1, MoreReads
  <2> QED  BY <2>1, <2>2 DEF WritesGetTheirTurn
<1> QED  BY <1>1, Invariance, PTL

-----------------------------------------------------------------------------
(* The array heap.                                                         *)

\* Every node but those of the set Free has a parent whose key is no greater.
HeapBut(a, n, Free, key) ==
  \A j \in 2 .. n : j \div 2 \notin Free => key[a[j \div 2]] <= key[a[j]]

HeapOf(h, key) == HeapBut(h, Len(h), {}, key)

\* The array a without repetition from i to n, holding the set S there.
Holds(a, i, n, S) ==
  /\ \A j, k \in i .. n : a[j] = a[k] => j = k
  /\ \A j \in i .. n : a[j] \in S
  /\ \A x \in S : \E j \in i .. n : a[j] = x

LEMMA Halves ==
  ASSUME NEW n \in Nat
  PROVE  /\ \A j \in 2 .. n : j \div 2 \in 1 .. j - 1
         /\ \A i \in Nat \ {0}, j \in 2 .. n : j \div 2 = i <=> j = 2 * i \/ j = 2 * i + 1
OBVIOUS

\* f[i] is what the array becomes when the hole is at i: the recursions of
\* insertNode and heapify, with p where the hole goes and b where it stays.
IsSift(f, S, A, p, v, b) ==
  f = [i \in S |-> IF i \in A THEN [f[p[i]] EXCEPT ![i] = v[i]] ELSE b[i]]

LEMMA SiftExists ==
  ASSUME NEW S, NEW N \in Nat, NEW rank \in [S -> 0 .. N], NEW A \in SUBSET S,
         NEW p \in [A -> S], \A i \in A : rank[p[i]] < rank[i],
         NEW v, NEW b
  PROVE  \E f : IsSift(f, S, A, p, v, b)
<1> DEFINE Below(m) == {i \in S : rank[i] < m}
           Bad == {m \in Nat : ~ \E f : IsSift(f, Below(m), A, p, v, b)}
<1>1. ASSUME Bad # {} PROVE FALSE
  <2>1. PICK m \in Bad : \A k \in Bad : m <= k
    BY <1>1, LeastNat
  <2>2. m # 0
    <3>1. Below(0) = {}
      OBVIOUS
    <3>2. IsSift([i \in {} |-> 0], {}, A, p, v, b)
      BY DEF IsSift
    <3> QED  BY <3>1, <3>2
  <2>3. PICK f : IsSift(f, Below(m - 1), A, p, v, b)
    BY <2>1, <2>2
  <2> DEFINE g == [i \in Below(m) |->
                     IF i \in A THEN [f[p[i]] EXCEPT ![i] = v[i]] ELSE b[i]]
  <2>4. \A i \in Below(m - 1) : g[i] = f[i]
    <3>1. \A i \in Below(m - 1) : i \in Below(m)
      OBVIOUS
    <3> QED  BY <3>1, <2>3, Zenon DEF IsSift
  <2>5. \A i \in Below(m) : i \in A => p[i] \in Below(m - 1)
    BY <2>1
  <2>6. IsSift(g, Below(m), A, p, v, b)
    <3> HIDE DEF Below
    <3>1. \A i \in Below(m) : i \in A => g[p[i]] = f[p[i]]
      BY <2>4, <2>5
    <3> QED  BY <3>1, Zenon DEF IsSift
  <2> QED  BY <2>1, <2>6
<1>2. PICK f : IsSift(f, Below(N + 1), A, p, v, b)
  BY <1>1
<1>3. Below(N + 1) = S
  OBVIOUS
<1> QED  BY <1>2, <1>3

\* The while loop of insertNode, with the hole at each place.
Risen(f, h, nd, key) ==
  \A i \in 1 .. Len(h) + 1 :
    f[i] = IF i > 1 /\ key[nd] < key[h[i \div 2]]
             THEN [f[i \div 2] EXCEPT ![i] = h[i \div 2]]
             ELSE [Append(h, nd) EXCEPT ![i] = nd]

LEMMA InsertSifts ==
  ASSUME NEW S, NEW h \in Seq(S), NEW nd \in S, NEW key
  PROVE  \E f : insertNode(h, nd, key) = f[Len(h) + 1] /\ Risen(f, h, nd, key)
<1> DEFINE I == 1 .. Len(h) + 1
           Def(f) == f = [i \in I |->
                            IF i > 1 /\ key[nd] < key[h[i \div 2]]
                              THEN [f[i \div 2] EXCEPT ![i] = h[i \div 2]]
                              ELSE [Append(h, nd) EXCEPT ![i] = nd]]
           A == {i \in I : i > 1 /\ key[nd] < key[h[i \div 2]]}
           p == [i \in A |-> i \div 2]
           v == [i \in I |-> h[i \div 2]]
           b == [i \in I |-> [Append(h, nd) EXCEPT ![i] = nd]]
           rank == [i \in I |-> i]
<1>1. insertNode(h, nd, key) = (CHOOSE f : Def(f))[Len(h) + 1]
  BY DEF insertNode
<1>2. Len(h) + 1 \in Nat
  BY LenProperties
<1>3. A \subseteq I /\ \A i \in A : i \div 2 \in 1 .. i - 1 /\ i \div 2 \in I
  BY <1>2, Halves
<1>4. rank \in [I -> 0 .. Len(h) + 1]
  BY <1>2
<1>5. p \in [A -> I] /\ \A i \in A : rank[p[i]] < rank[i]
  BY <1>3
<1>6. \E f : IsSift(f, I, A, p, v, b)
  <2> HIDE DEF I, A, p, v, b, rank
  <2> QED  BY <1>2, <1>3, <1>4, <1>5, SiftExists
<1>7. PICK f : IsSift(f, I, A, p, v, b)
  BY <1>6
<1>8. Def(f)
  <2>1. \A i \in I : (IF i \in A THEN [f[p[i]] EXCEPT ![i] = v[i]] ELSE b[i])
           = IF i > 1 /\ key[nd] < key[h[i \div 2]]
               THEN [f[i \div 2] EXCEPT ![i] = h[i \div 2]]
               ELSE [Append(h, nd) EXCEPT ![i] = nd]
    <3> SUFFICES ASSUME NEW i \in I
                 PROVE (IF i \in A THEN [f[p[i]] EXCEPT ![i] = v[i]] ELSE b[i])
                   = IF i > 1 /\ key[nd] < key[h[i \div 2]]
                       THEN [f[i \div 2] EXCEPT ![i] = h[i \div 2]]
                       ELSE [Append(h, nd) EXCEPT ![i] = nd]
      OBVIOUS
    <3>1. CASE i \in A
      <4>1. i > 1 /\ key[nd] < key[h[i \div 2]] /\ p[i] = i \div 2 /\ v[i] = h[i \div 2]
        BY <3>1
      <4> HIDE DEF A, p, v, b
      <4> QED  BY <3>1, <4>1, Zenon
    <3>2. CASE i \notin A
      <4>1. ~ (i > 1 /\ key[nd] < key[h[i \div 2]]) /\ b[i] = [Append(h, nd) EXCEPT ![i] = nd]
        BY <3>2
      <4> HIDE DEF A, p, v, b
      <4> QED  BY <3>2, <4>1, Zenon
    <3> QED  BY <3>1, <3>2
  <2> HIDE DEF I, A, p, v, b, rank
  <2> QED  BY <1>7, <2>1, Zenon DEF IsSift
<1>9. Def(CHOOSE g : Def(g))
  <2> HIDE DEF Def
  <2> QED  BY <1>8
<1> DEFINE c == CHOOSE g : Def(g)
<1>10. Risen(c, h, nd, key)
  <2> HIDE DEF c
  <2>1. Def(c)
    BY <1>9 DEF c
  <2> QED  BY <2>1, Zenon DEF Risen
<1> HIDE DEF Def
<1> QED  BY <1>1, <1>10 DEF c

LEMMA HoldsAll ==
  ASSUME NEW n, NEW a, DOMAIN a = 1 .. n, NEW T, Holds(a, 1, n, T)
  PROVE  IsInjective(a) /\ Range(a) = T
<1>1. IsInjective(a)
  BY DEF IsInjective, Holds
<1>2. \A x \in Range(a) : x \in T
  BY DEF Range, Holds
<1>3. \A x \in T : x \in Range(a)
  BY DEF Range, Holds
<1> QED  BY <1>1, <1>2, <1>3

\* One place of the array is overwritten with something new.
LEMMA HoldsPut ==
  ASSUME NEW N \in Nat, NEW i \in Nat, NEW n \in 0 .. N,
         NEW T, NEW a, DOMAIN a = 1 .. N, i >= 1,
         Holds(a, i, n, T), NEW j \in i .. n, NEW x, x \notin T
  PROVE  Holds([a EXCEPT ![j] = x], i, n, (T \ {a[j]}) \cup {x})
<1> DEFINE c == [a EXCEPT ![j] = x]
<1>1. \A k \in i .. n : k \in DOMAIN a /\ c[k] = IF k = j THEN x ELSE a[k]
  OBVIOUS
<1> HIDE DEF c
<1>2. \A k, l \in i .. n : c[k] = c[l] => k = l
  BY <1>1 DEF Holds
<1>3. \A k \in i .. n : c[k] \in (T \ {a[j]}) \cup {x}
  BY <1>1 DEF Holds
<1>4. ASSUME NEW y \in (T \ {a[j]}) \cup {x} PROVE \E k \in i .. n : c[k] = y
  <2>1. CASE y = x
    BY <1>1, <2>1
  <2>2. CASE y # x
    <3>1. PICK k \in i .. n : a[k] = y
      BY <2>2 DEF Holds
    <3>2. k # j
      BY <2>2, <3>1
    <3> QED  BY <1>1, <3>1, <3>2
  <2> QED  BY <2>1, <2>2
<1>5. Holds(c, i, n, (T \ {a[j]}) \cup {x})
  BY <1>2, <1>3, <1>4 DEF Holds
<1> QED  BY <1>5 DEF c

\* insertNode, the hole at i inside the old array: what the places 1 to n hold.
LEMMA RisenHolds ==
  ASSUME NEW S, NEW h \in Seq(S), NEW nd \in S, NEW key, IsInjective(h),
         nd \notin Range(h), NEW f, Risen(f, h, nd, key)
  PROVE  \A i \in 1 .. Len(h) :
           /\ f[i] \in Seq(S) /\ Len(f[i]) = Len(h) + 1
           /\ f[i] \in [1 .. Len(h) + 1 -> S]
           /\ \A j \in i + 1 .. Len(h) : f[i][j] = h[j]
           /\ Holds(f[i], 1, Len(h), (Range(h) \ {h[i]}) \cup {nd})
<1> DEFINE n == Len(h)
           P(i) == /\ f[i] \in Seq(S) /\ Len(f[i]) = n + 1
                   /\ f[i] \in [1 .. n + 1 -> S]
                   /\ \A j \in i + 1 .. n : f[i][j] = h[j]
                   /\ Holds(f[i], 1, n, (Range(h) \ {h[i]}) \cup {nd})
           Bad == {i \in 1 .. n : ~ P(i)}
<1>0. /\ n \in Nat /\ DOMAIN h = 1 .. n /\ \A j \in 1 .. n : h[j] \in S
      /\ Append(h, nd) \in Seq(S) /\ Len(Append(h, nd)) = n + 1
      /\ Append(h, nd) \in [1 .. n + 1 -> S]
      /\ \A j \in 1 .. n : Append(h, nd)[j] = h[j]
  <2>1. n \in Nat /\ DOMAIN h = 1 .. n /\ \A j \in 1 .. n : h[j] \in S
    BY LenProperties, ElementOfSeq
  <2>2. /\ Append(h, nd) \in Seq(S) /\ Len(Append(h, nd)) = n + 1
        /\ \A j \in 1 .. n : Append(h, nd)[j] = h[j]
    BY <2>1, AppendProperties
  <2> QED  BY <2>1, <2>2, LenProperties
<1>1. Holds(Append(h, nd), 1, n, Range(h))
  BY <1>0 DEF Holds, Range, IsInjective
<1> HIDE DEF n
<1>2. SUFFICES ASSUME Bad # {} PROVE FALSE
  <2>1. \A i \in 1 .. n : P(i)
    BY <1>2
  <2> QED  BY <2>1 DEF n
<1> HIDE DEF P
<1>3. PICK i \in Bad : \A j \in Bad : i <= j
  <2>1. Bad \subseteq Nat
    BY <1>0
  <2> HIDE DEF Bad
  <2> QED  BY <2>1, <1>2, LeastNat
<1>4. i \in 1 .. n /\ i \in 1 .. n + 1 /\ i \in 1 .. Len(h) + 1
  BY <1>0, <1>3 DEF n
<1>5. CASE i > 1 /\ key[nd] < key[h[i \div 2]]
  <2> DEFINE k == i \div 2
  <2>1. k \in 1 .. i - 1 /\ k \in 1 .. n
    BY <1>0, <1>4, <1>5, Halves
  <2>2. f[i] = [f[k] EXCEPT ![i] = h[k]]
    BY <1>4, <1>5 DEF Risen
  <2> HIDE DEF k
  <2>3. P(k)
    BY <1>0, <1>3, <1>4, <2>1
  <2> USE DEF P
  <2>4. /\ f[i] \in Seq(S) /\ Len(f[i]) = n + 1
        /\ f[i] \in [1 .. n + 1 -> S]
    <3>1. f[k] \in Seq(S) /\ i \in 1 .. Len(f[k]) /\ h[k] \in S /\ Len(f[k]) = n + 1
      BY <1>0, <1>4, <2>1, <2>3
    <3>2. f[i] \in Seq(S) /\ Len(f[i]) = n + 1
      BY <2>2, <3>1, ExceptSeq
    <3> QED  BY <3>2, LenProperties
  <2>5. \A j \in i + 1 .. n : f[i][j] = h[j]
    BY <1>0, <1>4, <2>1, <2>2, <2>3
  <2>6. f[k][i] = h[i] /\ h[i] # h[k] /\ h[k] \in Range(h) /\ h[i] \in Range(h)
    BY <1>0, <1>4, <2>1, <2>3 DEF IsInjective, Range
  <2> DEFINE T == (Range(h) \ {h[k]}) \cup {nd}
  <2>7. Holds(f[i], 1, n, (T \ {h[i]}) \cup {h[k]})
    <3>1. h[k] \notin T
      BY <2>6
    <3>2. DOMAIN f[k] = 1 .. n + 1 /\ Holds(f[k], 1, n, T)
      BY <2>3
    <3>3. 1 \in Nat /\ n + 1 \in Nat /\ n \in 0 .. n + 1 /\ i \in 1 .. n /\ 1 >= 1
      BY <1>0, <1>4
    <3> HIDE DEF T, P
    <3>4. Holds([f[k] EXCEPT ![i] = h[k]], 1, n, (T \ {f[k][i]}) \cup {h[k]})
      BY <3>1, <3>2, <3>3, HoldsPut
    <3> QED  BY <2>2, <2>6, <3>4
  <2>8. (T \ {h[i]}) \cup {h[k]} = (Range(h) \ {h[i]}) \cup {nd}
    BY <2>6
  <2> QED  BY <1>3, <2>4, <2>5, <2>7, <2>8
<1>6. CASE ~ (i > 1 /\ key[nd] < key[h[i \div 2]])
  <2>1. f[i] = [Append(h, nd) EXCEPT ![i] = nd]
    BY <1>4, <1>6 DEF Risen
  <2> DEFINE a == Append(h, nd)
  <2>2. /\ a \in Seq(S) /\ Len(a) = n + 1
        /\ a \in [1 .. n + 1 -> S] /\ \A j \in 1 .. n : a[j] = h[j]
        /\ Holds(a, 1, n, Range(h)) /\ f[i] = [a EXCEPT ![i] = nd]
    BY <1>0, <1>1, <2>1
  <2> HIDE DEF a
  <2>3. f[i] \in [1 .. n + 1 -> S] /\ \A j \in i + 1 .. n : f[i][j] = h[j]
    BY <1>0, <1>4, <2>2
  <2>4. Holds(f[i], 1, n, (Range(h) \ {h[i]}) \cup {nd})
    <3>1. 1 \in Nat /\ n + 1 \in Nat /\ n \in 0 .. n + 1 /\ i \in 1 .. n /\ 1 >= 1
      BY <1>0, <1>4
    <3>2. DOMAIN a = 1 .. n + 1
      BY <2>2
    <3>3. Holds([a EXCEPT ![i] = nd], 1, n, (Range(h) \ {a[i]}) \cup {nd})
      BY <2>2, <3>1, <3>2, HoldsPut
    <3> QED  BY <1>4, <2>2, <3>3
  <2>5. f[i] \in Seq(S) /\ Len(f[i]) = n + 1
    BY <1>4, <2>2, ExceptSeq
  <2> QED  BY <1>3, <2>3, <2>4, <2>5 DEF P
<1> QED  BY <1>5, <1>6

\* The node rises past greater ones only, so the order holds on the way.
LEMMA RisenHeap ==
  ASSUME NEW S, NEW h \in Seq(S), NEW nd \in S, NEW key \in [S -> Nat],
         IsInjective(h), nd \notin Range(h), HeapOf(h, key),
         NEW f, Risen(f, h, nd, key)
  PROVE  \A i \in 1 .. Len(h) :
           key[nd] < key[h[i]] =>
             /\ HeapBut(f[i], Len(h), {}, key)
             /\ key[f[i][i]] <= key[h[i]]
<1> DEFINE n == Len(h)
           P(i) == key[nd] < key[h[i]] =>
                     /\ HeapBut(f[i], n, {}, key)
                     /\ key[f[i][i]] <= key[h[i]]
           Bad == {i \in 1 .. n : ~ P(i)}
<1>0. /\ n \in Nat /\ DOMAIN h = 1 .. n /\ \A j \in 1 .. n : h[j] \in S
      /\ Append(h, nd) \in Seq(S) /\ Len(Append(h, nd)) = n + 1
      /\ Append(h, nd) \in [1 .. n + 1 -> S]
      /\ \A j \in 1 .. n : Append(h, nd)[j] = h[j]
  <2>1. n \in Nat /\ DOMAIN h = 1 .. n /\ \A j \in 1 .. n : h[j] \in S
    BY LenProperties, ElementOfSeq
  <2>2. /\ Append(h, nd) \in Seq(S) /\ Len(Append(h, nd)) = n + 1
        /\ \A j \in 1 .. n : Append(h, nd)[j] = h[j]
    BY <2>1, AppendProperties
  <2> QED  BY <2>1, <2>2, LenProperties
<1>1. \A i \in 1 .. n : /\ DOMAIN f[i] = 1 .. n + 1 /\ \A j \in 1 .. n + 1 : f[i][j] \in S
                        /\ \A j \in i + 1 .. n : f[i][j] = h[j]
  <2>1. \A i \in 1 .. Len(h) :
          /\ f[i] \in Seq(S) /\ Len(f[i]) = Len(h) + 1
          /\ f[i] \in [1 .. Len(h) + 1 -> S]
          /\ \A j \in i + 1 .. Len(h) : f[i][j] = h[j]
          /\ Holds(f[i], 1, Len(h), (Range(h) \ {h[i]}) \cup {nd})
    BY RisenHolds, Zenon
  <2> QED  BY <2>1
<1>2. \A j \in 2 .. n : key[h[j \div 2]] <= key[h[j]]
  BY DEF HeapOf, HeapBut
<1>3. \A j \in 1 .. n : key[h[j]] \in Nat
  BY <1>0
<1>4. key[nd] \in Nat
  OBVIOUS
<1> HIDE DEF n, P
<1> SUFFICES ASSUME Bad # {} PROVE FALSE
  <2>1. \A i \in 1 .. n : P(i)
    OBVIOUS
  <2> QED  BY <2>1 DEF n, P
<1>5. PICK i \in Bad : \A j \in Bad : i <= j
  <2>1. Bad \subseteq Nat
    BY <1>0
  <2> HIDE DEF Bad
  <2> QED  BY <2>1, LeastNat
<1>6. i \in 1 .. n /\ i \in 1 .. n + 1 /\ i \in 1 .. Len(h) + 1 /\ ~ P(i)
  BY <1>0, <1>5 DEF n
<1>7. key[nd] < key[h[i]]
  BY <1>6 DEF P
<1>8. CASE i > 1 /\ key[nd] < key[h[i \div 2]]
  <2> DEFINE k == i \div 2
  <2>1. k \in 1 .. i - 1 /\ k \in 1 .. n
    BY <1>0, <1>6, <1>8, Halves
  <2>2. f[i] = [f[k] EXCEPT ![i] = h[k]]
    BY <1>6, <1>8 DEF Risen
  <2>3. key[h[k]] <= key[h[i]] /\ key[nd] < key[h[k]]
    BY <1>2, <1>6, <1>8
  <2>4. \A j \in 2 .. n : j \div 2 \in 1 .. j - 1 /\ (j = i => j \div 2 = k)
    BY <1>0, Halves
  <2> HIDE DEF k
  <2>5. P(k)
    BY <1>5, <2>1
  <2>6. \A j \in 2 .. n : key[f[k][j \div 2]] <= key[f[k][j]]
    BY <2>3, <2>5 DEF P, HeapBut
  <2>7. key[f[k][k]] <= key[h[k]] /\ key[f[k][k]] \in Nat
    <3>1. k \in 1 .. n + 1 /\ f[k][k] \in S
      BY <1>0, <1>1, <2>1
    <3> QED  BY <2>3, <2>5, <3>1 DEF P
  <2>8. \A j \in 1 .. n : f[i][j] = IF j = i THEN h[k] ELSE f[k][j]
    <3>0. DOMAIN f[k] = 1 .. n + 1 /\ n \in Nat
      BY <1>0, <1>1, <2>1
    <3>1. \A j \in 1 .. n : j \in DOMAIN f[k]
      BY ONLY <3>0
    <3> QED  BY ONLY <2>2, <3>1, Zenon
  <2>9. \A j \in k + 1 .. n : f[k][j] = h[j]
    BY <1>1, <2>1
  <2>10. ASSUME NEW j \in 2 .. n PROVE key[f[i][j \div 2]] <= key[f[i][j]]
    <3>1. j \div 2 \in 1 .. j - 1 /\ j \div 2 \in 1 .. n /\ j \in 1 .. n
      BY <1>0, <2>4
    <3>2. CASE j = i
      <4>1. j \div 2 = k /\ k # i
        BY <2>1, <2>4, <3>2
      <4>2. f[i][j \div 2] = f[k][k] /\ f[i][j] = h[k]
        BY <1>6, <2>1, <2>8, <3>2, <4>1
      <4>3. key[f[k][k]] <= key[h[k]]
        BY <2>7
      <4> QED  BY ONLY <4>2, <4>3
    <3>3. CASE j # i /\ j \div 2 = i
      <4>1. j \in k + 1 .. n
        BY <2>1, <3>1, <3>3
      <4>2. f[i][j] = h[j] /\ f[i][i] = h[k]
        BY <1>6, <2>8, <2>9, <3>1, <3>3, <4>1
      <4>3. key[h[i]] <= key[h[j]]
        BY <1>2, <3>3
      <4>4. key[h[k]] \in Nat /\ key[h[i]] \in Nat /\ key[h[j]] \in Nat
        BY <1>3, <1>6, <2>1, <3>1
      <4>5. key[h[k]] <= key[h[j]]
        BY <2>3, <4>3, <4>4
      <4> QED  BY <3>3, <4>2, <4>5
    <3>4. CASE j # i /\ j \div 2 # i
      BY <2>6, <2>8, <3>1, <3>4
    <3> QED  BY <3>2, <3>3, <3>4
  <2>11. key[f[i][i]] <= key[h[i]]
    BY <1>6, <2>3, <2>8
  <2>12. P(i)
    BY <2>10, <2>11 DEF P, HeapBut
  <2> QED  BY <1>6, <2>12
<1>9. CASE ~ (i > 1 /\ key[nd] < key[h[i \div 2]])
  <2>1. f[i] = [Append(h, nd) EXCEPT ![i] = nd]
    BY <1>6, <1>9 DEF Risen
  <2>2. \A j \in 1 .. n : f[i][j] = IF j = i THEN nd ELSE h[j]
    <3> DEFINE a == Append(h, nd)
    <3>1. DOMAIN a = 1 .. n + 1 /\ f[i] = [a EXCEPT ![i] = nd] /\ \A j \in 1 .. n : a[j] = h[j]
      BY <1>0, <2>1
    <3> HIDE DEF a
    <3> QED  BY <1>0, <3>1
  <2>3. ASSUME NEW j \in 2 .. n PROVE key[f[i][j \div 2]] <= key[f[i][j]]
    <3>1. j \div 2 \in 1 .. j - 1 /\ j \div 2 \in 1 .. n /\ j \in 1 .. n
      <4> DEFINE half == j \div 2
      <4>1. half \in 1 .. j - 1
        BY <1>0, Halves
      <4> HIDE DEF half
      <4>2. half \in 1 .. n /\ j \in 1 .. n
        BY <1>0, <4>1
      <4> QED  BY <4>1, <4>2 DEF half
    <3>2. key[h[j \div 2]] <= key[h[j]]
      BY <1>2
    <3>3. CASE j = i
      <4>1. key[h[j \div 2]] <= key[nd] /\ j \div 2 # i
        BY <1>3, <1>4, <1>9, <3>1, <3>3
      <4> QED  BY <2>2, <3>1, <3>3, <4>1
    <3>4. CASE j # i
      <4>1. f[i][j] = h[j] /\ key[h[j]] \in Nat /\ key[h[i]] \in Nat
        BY <1>3, <1>6, <2>2, <3>1, <3>4
      <4>2. CASE j \div 2 = i
        <5>1. f[i][j \div 2] = nd
          BY <1>6, <2>2, <4>2
        <5> QED  BY <1>4, <1>7, <3>2, <4>1, <4>2, <5>1
      <4>3. CASE j \div 2 # i
        <5>1. f[i][j \div 2] = h[j \div 2]
          BY <2>2, <3>1, <4>3
        <5> QED  BY <3>2, <4>1, <5>1
      <4> QED  BY <4>2, <4>3
    <3> QED  BY <3>3, <3>4
  <2>4. key[f[i][i]] <= key[h[i]]
    BY <1>3, <1>4, <1>6, <1>7, <2>2
  <2>5. P(i)
    BY <2>3, <2>4 DEF P, HeapBut
  <2> QED  BY <1>6, <2>5
<1> QED  BY <1>8, <1>9

\* insertNode adds the node, loses none, and keeps the order.
THEOREM InsertNode ==
  ASSUME NEW S, NEW h \in Seq(S), NEW nd \in S, NEW key \in [S -> Nat],
         IsInjective(h), nd \notin Range(h), HeapOf(h, key)
  PROVE  LET more == insertNode(h, nd, key)
         IN  /\ more \in Seq(S) /\ Len(more) = Len(h) + 1
             /\ IsInjective(more) /\ Range(more) = Range(h) \cup {nd}
             /\ HeapOf(more, key)
<1> DEFINE n == Len(h)
           a == Append(h, nd)
           more == insertNode(h, nd, key)
<1>0. /\ n \in Nat /\ DOMAIN h = 1 .. n /\ \A j \in 1 .. n : h[j] \in S /\ h[j] \in Range(h)
      /\ a \in [1 .. n + 1 -> S] /\ a \in Seq(S)
      /\ \A j \in 1 .. n : a[j] = h[j]
      /\ a[n + 1] = nd
  <2>1. n \in Nat /\ DOMAIN h = 1 .. n /\ \A j \in 1 .. n : h[j] \in S /\ h[j] \in Range(h)
    BY LenProperties, ElementOfSeq DEF Range
  <2>2. /\ a \in Seq(S) /\ Len(a) = n + 1 /\ a[n + 1] = nd
        /\ \A j \in 1 .. n : a[j] = h[j]
    BY <2>1, AppendProperties
  <2> QED  BY <2>1, <2>2, LenProperties
<1>1. PICK f : more = f[n + 1] /\ Risen(f, h, nd, key)
  BY InsertSifts
<1>2. \A i \in 1 .. n :
        /\ f[i] \in Seq(S) /\ Len(f[i]) = n + 1
        /\ f[i] \in [1 .. n + 1 -> S]
        /\ \A j \in i + 1 .. n : f[i][j] = h[j]
        /\ Holds(f[i], 1, n, (Range(h) \ {h[i]}) \cup {nd})
  BY <1>1, RisenHolds
<1>3. \A i \in 1 .. n : key[nd] < key[h[i]] =>
        HeapBut(f[i], n, {}, key) /\ key[f[i][i]] <= key[h[i]]
  BY <1>1, RisenHeap
<1>4. \A j \in 2 .. n : key[h[j \div 2]] <= key[h[j]]
  BY DEF HeapOf, HeapBut
<1>5. \A j \in 2 .. n + 1 : j \div 2 \in 1 .. j - 1 /\ j \div 2 \in 1 .. n
  BY <1>0, Halves
<1> DEFINE k == (n + 1) \div 2
           Rose == n + 1 > 1 /\ key[nd] < key[h[k]]
<1>6. f[n + 1] = IF Rose THEN [f[k] EXCEPT ![n + 1] = h[k]] ELSE [a EXCEPT ![n + 1] = nd]
  <2>1. n + 1 \in 1 .. Len(h) + 1
    BY <1>0
  <2> QED  BY <1>1, <2>1, Zenon DEF Risen
<1>7. n + 1 > 1 => k \in 1 .. n
  BY <1>0, <1>5
<1>8. \A j \in 2 .. n + 1 : j = n + 1 => j \div 2 = k
  OBVIOUS
<1> HIDE DEF n, a, more, k
<1>9. CASE Rose
  <2>1. more = [f[k] EXCEPT ![n + 1] = h[k]] /\ k \in 1 .. n
    BY <1>1, <1>6, <1>7, <1>9
  <2>2. /\ f[k] \in [1 .. n + 1 -> S] /\ Holds(f[k], 1, n, (Range(h) \ {h[k]}) \cup {nd})
        /\ HeapBut(f[k], n, {}, key) /\ key[f[k][k]] <= key[h[k]]
    BY <1>2, <1>3, <1>9, <2>1
  <2>3. more \in [1 .. n + 1 -> S]
        /\ \A j \in 1 .. n + 1 : more[j] = IF j = n + 1 THEN h[k] ELSE f[k][j]
    BY <1>0, <2>1, <2>2
  <2>4. \A i, j \in 1 .. n + 1 : more[i] = more[j] => i = j
    <3>1. \A j \in 1 .. n : f[k][j] # h[k]
      BY <1>0, <2>1, <2>2 DEF Holds
    <3>2. \A i, j \in 1 .. n : f[k][i] = f[k][j] => i = j
      BY <2>2 DEF Holds
    <3>3. ASSUME NEW i \in 1 .. n + 1, NEW j \in 1 .. n + 1, more[i] = more[j] PROVE i = j
      <4>1. (i = n + 1 \/ i \in 1 .. n) /\ (j = n + 1 \/ j \in 1 .. n)
        BY <1>0
      <4> QED  BY <2>3, <3>1, <3>2, <3>3, <4>1
    <3> QED  BY <3>3
  <2>5. Range(more) = Range(h) \cup {nd}
    <3>1. ASSUME NEW j \in 1 .. n + 1 PROVE more[j] \in Range(h) \cup {nd}
      <4>1. \A i \in 1 .. n : f[k][i] \in Range(h) \cup {nd}
        BY <2>2 DEF Holds
      <4>2. h[k] \in Range(h) /\ (j = n + 1 \/ j \in 1 .. n)
        BY <1>0, <2>1
      <4> QED  BY <2>3, <4>1, <4>2
    <3>2. ASSUME NEW x \in Range(h) \cup {nd} PROVE \E j \in 1 .. n + 1 : more[j] = x
      <4>1. CASE x = h[k]
        BY <1>0, <2>3, <4>1
      <4>2. CASE x # h[k]
        <5>1. PICK j \in 1 .. n : f[k][j] = x
          BY <2>2, <4>2 DEF Holds
        <5>2. j \in 1 .. n + 1 /\ j # n + 1
          BY <1>0
        <5> QED  BY <2>3, <5>1, <5>2
      <4> QED  BY <4>1, <4>2
    <3>3. DOMAIN more = 1 .. n + 1
      BY <2>3
    <3> QED  BY <3>1, <3>2, <3>3 DEF Range
  <2>6. ASSUME NEW j \in 2 .. n + 1 PROVE key[more[j \div 2]] <= key[more[j]]
    <3>1. j \div 2 \in 1 .. n /\ j \div 2 # n + 1 /\ j \div 2 \in 1 .. n + 1 /\ j \in 1 .. n + 1
      BY <1>0, <1>5
    <3>2. CASE j = n + 1
      BY <1>8, <2>2, <2>3, <3>1, <3>2
    <3>3. CASE j # n + 1
      <4>1. j \in 2 .. n
        BY <1>0, <3>3
      <4> QED  BY <2>2, <2>3, <3>1, <3>3, <4>1 DEF HeapBut
    <3> QED  BY <3>2, <3>3
  <2>7. more \in Seq(S) /\ Len(more) = n + 1
    <3>1. f[k] \in Seq(S) /\ Len(f[k]) = n + 1 /\ h[k] \in S
      BY <1>0, <1>2, <2>1
    <3>2. n + 1 \in 1 .. Len(f[k])
      BY <1>0, <3>1
    <3> QED  BY <2>1, <3>1, <3>2, ExceptSeq
  <2> QED  BY <2>3, <2>4, <2>5, <2>6, <2>7 DEF IsInjective, HeapOf, HeapBut, n, more
<1>10. CASE ~Rose
  <2>1. more = a
    <3>1. more = [a EXCEPT ![n + 1] = nd]
      BY <1>1, <1>6, <1>10
    <3> QED  BY <1>0, <3>1
  <2>2. /\ more \in Seq(S) /\ Len(more) = n + 1
        /\ Range(more) = Range(h) \cup {nd} /\ IsInjective(more)
    BY <2>1, AppendDistinct, AppendProperties DEF a, n
  <2>3. ASSUME NEW j \in 2 .. n + 1 PROVE key[more[j \div 2]] <= key[more[j]]
    <3>1. j \div 2 \in 1 .. n /\ j \in 1 .. n + 1
      BY <1>0, <1>5
    <3>2. CASE j = n + 1
      <4>1. j \div 2 = k /\ n + 1 > 1
        BY <1>0, <1>8, <3>2
      <4>2. key[h[k]] <= key[nd] /\ k \in 1 .. n
        <5>1. k \in 1 .. n
          BY <1>7, <4>1
        <5>2. key[h[k]] \in Nat /\ key[nd] \in Nat
          BY <1>0, <5>1
        <5> QED  BY <1>10, <4>1, <5>1, <5>2
      <4> QED  BY <1>0, <2>1, <3>2, <4>1, <4>2
    <3>3. CASE j # n + 1
      <4>1. j \in 2 .. n /\ j \in 1 .. n
        BY <1>0, <3>3
      <4> QED  BY <1>0, <1>4, <2>1, <3>1, <4>1
    <3> QED  BY <3>2, <3>3
  <2> QED  BY <2>2, <2>3 DEF HeapOf, HeapBut, n, more
<1> QED  BY <1>9, <1>10

LEMMA GreatestTo ==
  ASSUME NEW n \in Nat, NEW T, T \subseteq 0 .. n, T # {}
  PROVE  \E x \in T : \A y \in T : y <= x
<1> DEFINE U == {n - x : x \in T}
<1>1. U \subseteq Nat /\ U # {}
  <2>1. ASSUME NEW x \in T PROVE n - x \in Nat
    OBVIOUS
  <2> QED  BY <2>1
<1>2. PICK u \in U : \A w \in U : u <= w
  <2> HIDE DEF U
  <2> QED  BY <1>1, LeastNat
<1>3. PICK x \in T : u = n - x
  BY <1>2
<1>4. ASSUME NEW y \in T PROVE y <= x
  <2>1. u <= n - y
    BY <1>2
  <2> QED  BY <1>3, <2>1
<1> QED  BY <1>4

\* Where the node nd sinks to from i: nowhere, or to a child that is less than
\* it and no greater than the other one.
LEMMA SmallestChild ==
  ASSUME NEW S, NEW h \in Seq(S), NEW nd \in S, NEW key \in [S -> Nat],
         NEW i \in 1 .. Len(h)
  PROVE  LET s == smallest(h, nd, i, key)
         IN  \/ s = i /\ \A j \in 2 .. Len(h) : j \div 2 = i => key[nd] <= key[h[j]]
             \/ /\ s \in 2 .. Len(h) /\ s > i /\ s \div 2 = i
                /\ key[h[s]] < key[nd]
                /\ \A j \in 2 .. Len(h) : j \div 2 = i => key[h[s]] <= key[h[j]]
<1> DEFINE n == Len(h)
           s == smallest(h, nd, i, key)
<1>1. n \in Nat /\ i \in Nat \ {0} /\ \A j \in 1 .. n : h[j] \in S /\ key[h[j]] \in Nat
  BY LenProperties, ElementOfSeq
<1>2. key[nd] \in Nat
  OBVIOUS
<1>3. \A j \in 2 .. n : j \div 2 = i <=> j = 2 * i \/ j = 2 * i + 1
  BY <1>1, Halves
<1> DEFINE l == smallestLeft(h, nd, i, key)
           KeyAt(j) == IF j = i THEN key[nd] ELSE key[h[j]]
<1>4. l = IF 2 * i <= n /\ key[h[2 * i]] < key[nd] THEN 2 * i ELSE i
  BY DEF smallestLeft
<1>5. s = IF 2 * i + 1 <= n /\ KeyAt(2 * i + 1) < KeyAt(l) THEN 2 * i + 1 ELSE l
  BY DEF smallest
<1>6. 2 * i # i /\ 2 * i + 1 # i /\ 2 * i > i /\ 2 * i + 1 > i
  BY <1>1
<1> HIDE DEF s, l, n
<1>7. CASE 2 * i <= n /\ key[h[2 * i]] < key[nd]
  <2>1. l = 2 * i /\ KeyAt(l) = key[h[2 * i]] /\ 2 * i \in 2 .. n
    BY <1>1, <1>4, <1>6, <1>7
  <2>2. CASE 2 * i + 1 <= n /\ key[h[2 * i + 1]] < key[h[2 * i]]
    <3>1. s = 2 * i + 1 /\ 2 * i + 1 \in 2 .. n
      BY <1>1, <1>5, <1>6, <2>1, <2>2
    <3>2. key[h[2 * i + 1]] < key[nd]
      BY <1>1, <1>2, <1>7, <2>1, <2>2, <3>1
    <3>3. \A j \in 2 .. n : j \div 2 = i => key[h[s]] <= key[h[j]]
      <4> SUFFICES ASSUME NEW j \in 2 .. n, j \div 2 = i PROVE key[h[s]] <= key[h[j]]
        OBVIOUS
      <4>1. (j = 2 * i \/ j = 2 * i + 1) /\ j \in 1 .. n /\ j <= n
        BY <1>1, <1>3
      <4>2. key[h[j]] \in Nat /\ key[h[s]] \in Nat
        BY <1>1, <2>1, <3>1, <4>1
      <4>3. CASE j = 2 * i
        BY <2>2, <3>1, <4>1, <4>2, <4>3
      <4>4. CASE j = 2 * i + 1
        BY <3>1, <4>1, <4>2, <4>4
      <4> QED  BY <4>1, <4>3, <4>4
    <3>4. s \div 2 = i
      BY <1>3, <3>1
    <3> QED  BY <1>6, <3>1, <3>2, <3>3, <3>4 DEF s, n
  <2>3. CASE ~ (2 * i + 1 <= n /\ key[h[2 * i + 1]] < key[h[2 * i]])
    <3>1. s = 2 * i
      BY <1>5, <1>6, <2>1, <2>3
    <3>2. \A j \in 2 .. n : j \div 2 = i => key[h[s]] <= key[h[j]]
      <4> SUFFICES ASSUME NEW j \in 2 .. n, j \div 2 = i PROVE key[h[s]] <= key[h[j]]
        OBVIOUS
      <4>1. (j = 2 * i \/ j = 2 * i + 1) /\ j \in 1 .. n /\ j <= n
        BY <1>1, <1>3
      <4>2. key[h[j]] \in Nat /\ key[h[s]] \in Nat
        BY <1>1, <2>1, <3>1, <4>1
      <4>3. CASE j = 2 * i
        BY <3>1, <4>1, <4>2, <4>3
      <4>4. CASE j = 2 * i + 1
        BY <2>3, <3>1, <4>1, <4>2, <4>4
      <4> QED  BY <4>1, <4>3, <4>4
    <3>3. s \div 2 = i
      BY <1>3, <2>1, <3>1
    <3> QED  BY <1>6, <1>7, <2>1, <3>1, <3>2, <3>3 DEF s, n
  <2> QED  BY <2>2, <2>3
<1>8. CASE ~ (2 * i <= n /\ key[h[2 * i]] < key[nd])
  <2>1. l = i /\ KeyAt(l) = key[nd]
    BY <1>4, <1>8
  <2>2. CASE 2 * i + 1 <= n /\ key[h[2 * i + 1]] < key[nd]
    <3>1. s = 2 * i + 1 /\ 2 * i + 1 \in 2 .. n /\ 2 * i \in 2 .. n
      BY <1>1, <1>5, <1>6, <2>1, <2>2
    <3>2. key[nd] <= key[h[2 * i]]
      BY <1>1, <1>2, <1>8, <3>1
    <3>3. \A j \in 2 .. n : j \div 2 = i => key[h[s]] <= key[h[j]]
      <4> SUFFICES ASSUME NEW j \in 2 .. n, j \div 2 = i PROVE key[h[s]] <= key[h[j]]
        OBVIOUS
      <4>1. (j = 2 * i \/ j = 2 * i + 1) /\ j \in 1 .. n /\ j <= n
        BY <1>1, <1>3
      <4>2. key[h[j]] \in Nat /\ key[h[s]] \in Nat
        BY <1>1, <2>1, <3>1, <4>1
      <4>3. CASE j = 2 * i
        BY <2>2, <3>1, <3>2, <4>1, <4>2, <4>3
      <4>4. CASE j = 2 * i + 1
        BY <3>1, <4>1, <4>2, <4>4
      <4> QED  BY <4>1, <4>3, <4>4
    <3>4. s \div 2 = i
      BY <1>3, <3>1
    <3> QED  BY <1>6, <2>2, <3>1, <3>3, <3>4 DEF s, n
  <2>3. CASE ~ (2 * i + 1 <= n /\ key[h[2 * i + 1]] < key[nd])
    <3>1. s = i
      BY <1>5, <1>6, <2>1, <2>3
    <3>2. \A j \in 2 .. n : j \div 2 = i => key[nd] <= key[h[j]]
      <4> SUFFICES ASSUME NEW j \in 2 .. n, j \div 2 = i PROVE key[nd] <= key[h[j]]
        OBVIOUS
      <4>1. (j = 2 * i \/ j = 2 * i + 1) /\ j \in 1 .. n /\ j <= n
        BY <1>1, <1>3
      <4>2. key[h[j]] \in Nat /\ key[nd] \in Nat
        BY <1>1, <1>2, <4>1
      <4>3. CASE j = 2 * i
        BY <1>8, <4>1, <4>2, <4>3
      <4>4. CASE j = 2 * i + 1
        BY <2>3, <4>1, <4>2, <4>4
      <4> QED  BY <4>1, <4>3, <4>4
    <3> QED  BY <3>1, <3>2 DEF s, n
  <2> QED  BY <2>2, <2>3
<1> QED  BY <1>7, <1>8

\* The recursion of heapify, from each place.
Sunk(f, h, key) ==
  \A i \in 1 .. Len(h) :
    f[i] = IF smallest(h, h[1], i, key) = i
             THEN [h EXCEPT ![i] = h[1]]
             ELSE [f[smallest(h, h[1], i, key)] EXCEPT
                     ![i] = h[smallest(h, h[1], i, key)]]

LEMMA HeapifySifts ==
  ASSUME NEW S, NEW h \in Seq(S), h # <<>>, NEW key \in [S -> Nat]
  PROVE  \E f : heapify(h, key) = f[1] /\ Sunk(f, h, key)
<1> DEFINE I == 1 .. Len(h)
           s(i) == smallest(h, h[1], i, key)
           Def(f) == f = [i \in I |-> IF s(i) = i THEN [h EXCEPT ![i] = h[1]]
                                      ELSE [f[s(i)] EXCEPT ![i] = h[s(i)]]]
           A == {i \in I : s(i) # i}
           p == [i \in A |-> s(i)]
           v == [i \in I |-> h[s(i)]]
           b == [i \in I |-> [h EXCEPT ![i] = h[1]]]
           rank == [i \in I |-> Len(h) - i]
<1>0. Len(h) \in Nat /\ DOMAIN h = I /\ h[1] \in S
  <2>1. Len(h) \in Nat /\ DOMAIN h = I /\ Len(h) # 0
    BY LenProperties, EmptySeq
  <2> QED  BY <2>1, ElementOfSeq
<1>1. heapify(h, key) = (CHOOSE f : Def(f))[1]
  BY <1>0, Zenon DEF heapify
<1>2. ASSUME NEW i \in A PROVE s(i) \in I /\ s(i) > i
  <2>1. i \in 1 .. Len(h) /\ s(i) # i
    BY <1>2
  <2>2. s(i) \in 2 .. Len(h) /\ s(i) > i
    BY <1>0, <2>1, SmallestChild
  <2> QED  BY <1>0, <2>2
<1>3. A \in SUBSET I /\ p \in [A -> I]
  BY <1>2
<1>4. rank \in [I -> 0 .. Len(h)]
  BY <1>0
<1>5. ASSUME NEW i \in A PROVE rank[p[i]] < rank[i]
  <2>1. p[i] = s(i) /\ i \in I /\ s(i) \in I /\ s(i) > i
    BY <1>2
  <2> HIDE DEF s, p
  <2> QED  BY <1>0, <2>1
<1>6. PICK f : IsSift(f, I, A, p, v, b)
  <2> HIDE DEF I, A, p, v, b, rank
  <2> QED  BY <1>0, <1>3, <1>4, <1>5, SiftExists
<1>7. Def(f)
  <2>1. ASSUME NEW i \in I
        PROVE (IF i \in A THEN [f[p[i]] EXCEPT ![i] = v[i]] ELSE b[i])
              = IF s(i) = i THEN [h EXCEPT ![i] = h[1]]
                            ELSE [f[s(i)] EXCEPT ![i] = h[s(i)]]
    <3>1. CASE i \in A
      <4>1. s(i) # i /\ p[i] = s(i) /\ v[i] = h[s(i)]
        BY <3>1
      <4> HIDE DEF A, p, v, b, s
      <4> QED  BY <3>1, <4>1, Zenon
    <3>2. CASE i \notin A
      <4>1. s(i) = i /\ b[i] = [h EXCEPT ![i] = h[1]]
        BY <3>2
      <4> HIDE DEF A, p, v, b, s
      <4> QED  BY <3>2, <4>1, Zenon
    <3> QED  BY <3>1, <3>2
  <2> HIDE DEF I, A, p, v, b, rank, s
  <2> QED  BY <1>6, <2>1, Zenon DEF IsSift
<1> DEFINE c == CHOOSE g : Def(g)
<1>8. Def(c)
  <2> HIDE DEF Def
  <2> QED  BY <1>7
<1>9. Sunk(c, h, key)
  <2> HIDE DEF c
  <2> QED  BY <1>8, Zenon DEF Sunk
<1> HIDE DEF Def
<1> QED  BY <1>1, <1>9 DEF c

\* heapify, from a place i below the root: what the places 2 to n hold.
LEMMA SunkHolds ==
  ASSUME NEW S, NEW h \in Seq(S), h # <<>>, NEW key \in [S -> Nat], IsInjective(h),
         NEW f, Sunk(f, h, key)
  PROVE  \A i \in 2 .. Len(h) :
           /\ f[i] \in Seq(S) /\ Len(f[i]) = Len(h)
           /\ \A j \in 1 .. i - 1 : f[i][j] = h[j]
           /\ Holds(f[i], 2, Len(h), Range(h) \ {h[i]})
<1> DEFINE n == Len(h)
           s(i) == smallest(h, h[1], i, key)
           P(i) == /\ f[i] \in Seq(S) /\ Len(f[i]) = n
                   /\ \A j \in 1 .. i - 1 : f[i][j] = h[j]
                   /\ Holds(f[i], 2, n, Range(h) \ {h[i]})
           Bad == {i \in 2 .. n : ~ P(i)}
<1>0. /\ n \in Nat \ {0} /\ DOMAIN h = 1 .. n
      /\ \A j \in 1 .. n : h[j] \in S /\ h[j] \in Range(h)
      /\ h[1] \in S /\ h[1] \in Range(h)
  <2>1. n \in Nat /\ DOMAIN h = 1 .. n /\ n # 0
    BY LenProperties, EmptySeq
  <2>2. \A j \in 1 .. n : h[j] \in S /\ h[j] \in Range(h)
    BY <2>1, ElementOfSeq DEF Range
  <2> QED  BY <2>1, <2>2
<1>1. Holds(h, 2, n, Range(h) \ {h[1]})
  <2>1. \A j, k \in 1 .. n : h[j] = h[k] => j = k
    BY <1>0 DEF IsInjective
  <2>2. \A x \in Range(h) : \E j \in 1 .. n : h[j] = x
    BY <1>0 DEF Range
  <2>3. ASSUME NEW j \in 2 .. n PROVE h[j] \in Range(h) \ {h[1]} /\ j \in 1 .. n
    BY <1>0, <2>1
  <2>4. ASSUME NEW x \in Range(h) \ {h[1]} PROVE \E j \in 2 .. n : h[j] = x
    <3>1. PICK j \in 1 .. n : h[j] = x
      BY <2>2
    <3>2. j # 1
      BY <3>1
    <3> QED  BY <1>0, <3>1, <3>2
  <2> QED  BY <2>1, <2>3, <2>4 DEF Holds
<1> HIDE DEF n, P, s
<1> SUFFICES ASSUME Bad # {} PROVE FALSE
  <2>1. \A i \in 2 .. n : P(i)
    OBVIOUS
  <2> QED  BY <2>1 DEF n, P
<1>2. PICK i \in Bad : \A j \in Bad : j <= i
  <2>1. Bad \subseteq 0 .. n
    BY <1>0
  <2> HIDE DEF Bad
  <2> QED  BY <1>0, <2>1, GreatestTo
<1>3. i \in 2 .. n /\ i \in 1 .. n /\ ~ P(i)
  BY <1>0, <1>2
<1>4. \/ s(i) = i
      \/ s(i) \in 2 .. n /\ s(i) > i
  BY <1>0, <1>3, SmallestChild DEF n, s
<1>5. f[i] = IF s(i) = i THEN [h EXCEPT ![i] = h[1]] ELSE [f[s(i)] EXCEPT ![i] = h[s(i)]]
  BY <1>3, Zenon DEF Sunk, n, s
<1>6. 2 \in Nat /\ 2 >= 1 /\ n \in Nat /\ n \in 0 .. n
  BY <1>0
<1>7. h[i] # h[1]
  BY <1>0, <1>3 DEF IsInjective
<1>8. CASE s(i) = i
  <2>1. f[i] = [h EXCEPT ![i] = h[1]]
    BY <1>5, <1>8
  <2>2. f[i] \in Seq(S) /\ Len(f[i]) = n
    BY <1>0, <1>3, <2>1, ExceptSeq DEF n
  <2>3. \A j \in 1 .. i - 1 : f[i][j] = h[j]
    BY <1>0, <1>3, <2>1
  <2> DEFINE T == Range(h) \ {h[1]}
  <2>4. Holds(f[i], 2, n, (T \ {h[i]}) \cup {h[1]})
    <3>1. h[1] \notin T
      OBVIOUS
    <3> HIDE DEF T
    <3>2. DOMAIN h = 1 .. n /\ Holds(h, 2, n, T)
      BY <1>0, <1>1 DEF T
    <3>3. Holds([h EXCEPT ![i] = h[1]], 2, n, (T \ {h[i]}) \cup {h[1]})
      BY <1>3, <1>6, <3>1, <3>2, HoldsPut
    <3> QED  BY <2>1, <3>3
  <2>5. (T \ {h[i]}) \cup {h[1]} = Range(h) \ {h[i]}
    BY <1>0, <1>7
  <2> QED  BY <1>3, <2>2, <2>3, <2>4, <2>5 DEF P
<1>9. CASE s(i) # i
  <2> DEFINE k == s(i)
  <2>1. k \in 2 .. n /\ k > i /\ f[i] = [f[k] EXCEPT ![i] = h[k]] /\ k \in 1 .. n
    BY <1>0, <1>4, <1>5, <1>9
  <2> HIDE DEF k
  <2>2. P(k)
    BY <1>0, <1>2, <1>3, <2>1
  <2>3. f[k] \in Seq(S) /\ Len(f[k]) = n /\ DOMAIN f[k] = 1 .. n
    BY <2>2, LenProperties DEF P
  <2>4. f[i] \in Seq(S) /\ Len(f[i]) = n
    <3>1. h[k] \in S /\ i \in 1 .. Len(f[k])
      BY <1>0, <1>3, <2>1, <2>3
    <3> QED  BY <2>1, <2>3, <3>1, ExceptSeq
  <2>5. \A j \in 1 .. i : f[k][j] = h[j]
    BY <1>3, <2>1, <2>2 DEF P
  <2>6. \A j \in 1 .. i - 1 : f[i][j] = h[j]
    <3>1. ASSUME NEW j \in 1 .. i - 1 PROVE j # i /\ j \in 1 .. n /\ j \in 1 .. i
      BY <1>0, <1>3
    <3> QED  BY <2>1, <2>3, <2>5, <3>1
  <2> DEFINE T == Range(h) \ {h[k]}
  <2>7. Holds(f[i], 2, n, (T \ {h[i]}) \cup {h[k]})
    <3>1. h[k] \notin T
      OBVIOUS
    <3>2. Holds(f[k], 2, n, T)
      BY <2>2 DEF P
    <3> HIDE DEF T
    <3>3. Holds([f[k] EXCEPT ![i] = h[k]], 2, n, (T \ {f[k][i]}) \cup {h[k]})
      BY <1>3, <1>6, <2>3, <3>1, <3>2, HoldsPut
    <3>4. f[k][i] = h[i]
      BY <1>3, <2>5
    <3> QED  BY <2>1, <3>3, <3>4
  <2>8. (T \ {h[i]}) \cup {h[k]} = Range(h) \ {h[i]}
    <3>1. k # i /\ k \in DOMAIN h /\ i \in DOMAIN h
      BY <1>0, <1>3, <2>1
    <3>2. h[k] # h[i] /\ h[k] \in Range(h)
      BY <1>0, <2>1, <3>1 DEF IsInjective
    <3> QED  BY <3>2
  <2> QED  BY <1>3, <2>4, <2>6, <2>7, <2>8 DEF P
<1> QED  BY <1>8, <1>9

\* Below the root the order holds on the way down: a child that rises is no
\* less than the node it replaces, and the root that sinks is greater.
LEMMA SunkHeap ==
  ASSUME NEW S, NEW h \in Seq(S), h # <<>>, NEW key \in [S -> Nat], IsInjective(h),
         HeapBut(h, Len(h), {1}, key), NEW f, Sunk(f, h, key)
  PROVE  \A i \in 2 .. Len(h) :
           key[h[i]] < key[h[1]] =>
             /\ HeapBut(f[i], Len(h), {1}, key)
             /\ \A j \in 2 .. Len(h) : key[h[j]] <= key[f[i][j]]
<1> DEFINE n == Len(h)
           s(i) == smallest(h, h[1], i, key)
           P(i) == key[h[i]] < key[h[1]] =>
                     /\ HeapBut(f[i], n, {1}, key)
                     /\ \A j \in 2 .. n : key[h[j]] <= key[f[i][j]]
           Bad == {i \in 2 .. n : ~ P(i)}
<1>0. /\ n \in Nat \ {0} /\ DOMAIN h = 1 .. n
      /\ \A j \in 1 .. n : h[j] \in S /\ key[h[j]] \in Nat
      /\ h[1] \in S /\ key[h[1]] \in Nat
  <2>1. n \in Nat /\ DOMAIN h = 1 .. n /\ n # 0
    BY LenProperties, EmptySeq
  <2>2. \A j \in 1 .. n : h[j] \in S /\ key[h[j]] \in Nat
    BY <2>1, ElementOfSeq
  <2>3. 1 \in 1 .. n
    BY <2>1
  <2> QED  BY <2>1, <2>2, <2>3
<1>1. \A i \in 2 .. n :
        /\ f[i] \in Seq(S) /\ Len(f[i]) = n
        /\ \A j \in 1 .. i - 1 : f[i][j] = h[j]
        /\ Holds(f[i], 2, n, Range(h) \ {h[i]})
  BY SunkHolds, Zenon
<1>2. \A i \in 2 .. n : DOMAIN f[i] = 1 .. n /\ \A j \in 1 .. n : f[i][j] \in S /\ key[f[i][j]] \in Nat
  <2> SUFFICES ASSUME NEW i \in 2 .. n
               PROVE DOMAIN f[i] = 1 .. n /\ \A j \in 1 .. n : f[i][j] \in S /\ key[f[i][j]] \in Nat
    OBVIOUS
  <2>1. f[i] \in Seq(S) /\ Len(f[i]) = n
    BY <1>1
  <2> HIDE DEF n
  <2> QED  BY <2>1, LenProperties, ElementOfSeq
<1>3. \A j \in 2 .. n : j \div 2 # 1 => key[h[j \div 2]] <= key[h[j]]
  BY DEF HeapBut
<1>4. \A j \in 2 .. n : j \div 2 \in 1 .. j - 1 /\ j \div 2 \in 1 .. n /\ j \in 1 .. n
                        /\ (j \div 2 # 1 => j \div 2 \in 2 .. n)
  BY <1>0, Halves
<1> HIDE DEF n, P, s
<1> SUFFICES ASSUME Bad # {} PROVE FALSE
  <2>1. \A i \in 2 .. n : P(i)
    OBVIOUS
  <2> QED  BY <2>1 DEF n, P
<1>5. PICK i \in Bad : \A j \in Bad : j <= i
  <2>1. Bad \subseteq 0 .. n
    BY <1>0
  <2> HIDE DEF Bad
  <2> QED  BY <1>0, <2>1, GreatestTo
<1>6. i \in 2 .. n /\ i \in 1 .. n /\ ~ P(i)
  BY <1>0, <1>5
<1>7. key[h[i]] < key[h[1]]
  BY <1>6 DEF P
<1>8. \/ s(i) = i /\ \A j \in 2 .. n : j \div 2 = i => key[h[1]] <= key[h[j]]
      \/ /\ s(i) \in 2 .. n /\ s(i) > i /\ s(i) \div 2 = i
         /\ key[h[s(i)]] < key[h[1]]
         /\ \A j \in 2 .. n : j \div 2 = i => key[h[s(i)]] <= key[h[j]]
  BY <1>0, <1>6, SmallestChild DEF n, s
<1>9. f[i] = IF s(i) = i THEN [h EXCEPT ![i] = h[1]] ELSE [f[s(i)] EXCEPT ![i] = h[s(i)]]
  BY <1>6, Zenon DEF Sunk, n, s
<1>10. CASE s(i) = i
  <2>1. \A j \in 2 .. n : j \div 2 = i => key[h[1]] <= key[h[j]]
    BY <1>8, <1>10
  <2>2. \A j \in 1 .. n : f[i][j] = IF j = i THEN h[1] ELSE h[j]
    BY <1>0, <1>9, <1>10
  <2>3. ASSUME NEW j \in 2 .. n, j \div 2 # 1 PROVE key[f[i][j \div 2]] <= key[f[i][j]]
    <3>1. j \div 2 \in 1 .. n /\ j \div 2 \in 1 .. j - 1 /\ j \in 1 .. n
          /\ key[h[j \div 2]] <= key[h[j]] /\ key[h[j \div 2]] \in Nat /\ key[h[j]] \in Nat
      BY <1>0, <1>3, <1>4, <2>3
    <3>2. CASE j = i
      <4>1. f[i][j] = h[1] /\ f[i][j \div 2] = h[j \div 2]
        BY <2>2, <3>1, <3>2
      <4>2. key[h[j \div 2]] <= key[h[1]]
        BY <1>0, <1>7, <3>1, <3>2
      <4> QED  BY <4>1, <4>2
    <3>3. CASE j # i /\ j \div 2 = i
      <4>1. f[i][j] = h[j] /\ f[i][j \div 2] = h[1]
        BY <2>2, <3>1, <3>3
      <4> QED  BY <2>1, <3>3, <4>1
    <3>4. CASE j # i /\ j \div 2 # i
      BY <2>2, <3>1, <3>4
    <3> QED  BY <3>2, <3>3, <3>4
  <2>4. ASSUME NEW j \in 2 .. n PROVE key[h[j]] <= key[f[i][j]]
    <3>1. j \in 1 .. n /\ key[h[j]] \in Nat
      BY <1>0, <1>4
    <3>2. CASE j = i
      <4>1. f[i][j] = h[1]
        BY <2>2, <3>1, <3>2
      <4> QED  BY <1>0, <1>7, <3>1, <3>2, <4>1
    <3>3. CASE j # i
      <4>1. f[i][j] = h[j]
        BY <2>2, <3>1, <3>3
      <4> QED  BY <3>1, <4>1
    <3> QED  BY <3>2, <3>3
  <2> QED  BY <1>6, <2>3, <2>4 DEF P, HeapBut
<1>11. CASE s(i) # i
  <2> DEFINE k == s(i)
  <2>1. /\ k \in 2 .. n /\ k > i /\ k \in 1 .. n /\ k \div 2 = i
        /\ key[h[k]] < key[h[1]]
        /\ \A j \in 2 .. n : j \div 2 = i => key[h[k]] <= key[h[j]]
        /\ f[i] = [f[k] EXCEPT ![i] = h[k]]
    BY <1>0, <1>8, <1>9, <1>11
  <2> HIDE DEF k
  <2>2. P(k)
    BY <1>0, <1>5, <1>6, <2>1
  <2>3. /\ \A j \in 2 .. n : j \div 2 # 1 => key[f[k][j \div 2]] <= key[f[k][j]]
        /\ \A j \in 2 .. n : key[h[j]] <= key[f[k][j]]
    BY <2>1, <2>2 DEF P, HeapBut
  <2>4. \A j \in 1 .. n : f[i][j] = IF j = i THEN h[k] ELSE f[k][j]
    <3>1. DOMAIN f[k] = 1 .. n
      BY <1>2, <2>1
    <3> QED  BY <2>1, <3>1
  <2>5. \A j \in 1 .. i : f[k][j] = h[j]
    <3>1. \A j \in 1 .. k - 1 : f[k][j] = h[j]
      BY <1>1, <2>1
    <3>2. \A j \in 1 .. i : j \in 1 .. k - 1
      BY <1>6, <2>1
    <3> QED  BY <3>1, <3>2
  <2>6. key[h[i]] <= key[h[k]] /\ key[h[i]] \in Nat /\ key[h[k]] \in Nat
    <3>1. i # 1
      BY <1>0, <1>6
    <3> QED  BY <1>0, <1>3, <1>6, <2>1, <3>1
  <2>7. ASSUME NEW j \in 2 .. n, j \div 2 # 1 PROVE key[f[i][j \div 2]] <= key[f[i][j]]
    <3>1. j \div 2 \in 1 .. n /\ j \div 2 \in 1 .. j - 1 /\ j \in 1 .. n
          /\ key[h[j \div 2]] <= key[h[j]] /\ key[h[j \div 2]] \in Nat /\ key[h[j]] \in Nat
          /\ key[f[k][j]] \in Nat
      BY <1>0, <1>2, <1>3, <1>4, <2>1, <2>7
    <3>2. CASE j = i
      <4>1. f[i][j] = h[k] /\ f[i][j \div 2] = f[k][j \div 2]
        BY <2>4, <3>1, <3>2
      <4>2. f[k][j \div 2] = h[j \div 2]
        <5>1. j \div 2 \in 1 .. i
          BY <1>6, <3>1, <3>2
        <5> QED  BY <2>5, <5>1
      <4>3. key[h[j \div 2]] <= key[h[k]]
        BY <2>6, <3>1, <3>2
      <4> QED  BY <4>1, <4>2, <4>3
    <3>3. CASE j # i /\ j \div 2 = i
      <4>1. f[i][j] = f[k][j] /\ f[i][j \div 2] = h[k]
        BY <2>4, <3>1, <3>3
      <4>2. key[h[k]] <= key[h[j]] /\ key[h[j]] <= key[f[k][j]]
        BY <2>1, <2>3, <3>3
      <4>3. key[h[k]] \in Nat /\ key[h[j]] \in Nat /\ key[f[k][j]] \in Nat
        BY <2>6, <3>1
      <4>4. key[h[k]] <= key[f[k][j]]
        BY ONLY <4>2, <4>3
      <4> QED  BY <4>1, <4>4
    <3>4. CASE j # i /\ j \div 2 # i
      <4>1. f[i][j] = f[k][j] /\ f[i][j \div 2] = f[k][j \div 2]
        BY <2>4, <3>1, <3>4
      <4> QED  BY <2>3, <2>7, <4>1
    <3> QED  BY <3>2, <3>3, <3>4
  <2>8. ASSUME NEW j \in 2 .. n PROVE key[h[j]] <= key[f[i][j]]
    <3>1. j \in 1 .. n
      BY <1>4
    <3>2. CASE j = i
      <4>1. f[i][j] = h[k]
        BY <2>4, <3>1, <3>2
      <4> QED  BY <2>6, <3>2, <4>1
    <3>3. CASE j # i
      <4>1. f[i][j] = f[k][j]
        BY <2>4, <3>1, <3>3
      <4> QED  BY <2>3, <4>1
    <3> QED  BY <3>2, <3>3
  <2> QED  BY <1>6, <2>7, <2>8 DEF P, HeapBut
<1> QED  BY <1>10, <1>11

\* heapify puts the root in order, and moves nodes only.
LEMMA HeapifyNode ==
  ASSUME NEW S, NEW h \in Seq(S), h # <<>>, NEW key \in [S -> Nat], IsInjective(h),
         HeapBut(h, Len(h), {1}, key)
  PROVE  LET sunk == heapify(h, key)
         IN  /\ sunk \in Seq(S) /\ Len(sunk) = Len(h)
             /\ IsInjective(sunk) /\ Range(sunk) = Range(h)
             /\ HeapOf(sunk, key)
<1> DEFINE n == Len(h)
           sunk == heapify(h, key)
           s == smallest(h, h[1], 1, key)
<1>0. /\ n \in Nat \ {0} /\ DOMAIN h = 1 .. n
      /\ \A j \in 1 .. n : h[j] \in S /\ h[j] \in Range(h) /\ key[h[j]] \in Nat
      /\ 1 \in 1 .. n /\ h[1] \in S /\ key[h[1]] \in Nat
  <2>1. n \in Nat /\ DOMAIN h = 1 .. n /\ n # 0
    BY LenProperties, EmptySeq
  <2>2. \A j \in 1 .. n : h[j] \in S /\ h[j] \in Range(h) /\ key[h[j]] \in Nat
    BY <2>1, ElementOfSeq DEF Range
  <2>3. 1 \in 1 .. n
    BY <2>1
  <2> QED  BY <2>1, <2>2, <2>3
<1>1. PICK f : sunk = f[1] /\ Sunk(f, h, key)
  BY HeapifySifts
<1>2. sunk = IF s = 1 THEN [h EXCEPT ![1] = h[1]] ELSE [f[s] EXCEPT ![1] = h[s]]
  BY <1>0, <1>1, Zenon DEF Sunk
<1>3. \/ s = 1 /\ \A j \in 2 .. n : j \div 2 = 1 => key[h[1]] <= key[h[j]]
      \/ /\ s \in 2 .. n /\ s > 1 /\ s \div 2 = 1
         /\ key[h[s]] < key[h[1]]
         /\ \A j \in 2 .. n : j \div 2 = 1 => key[h[s]] <= key[h[j]]
  BY <1>0, SmallestChild
<1>4. \A j \in 2 .. n : j \div 2 # 1 => key[h[j \div 2]] <= key[h[j]]
  BY DEF HeapBut
<1>5. \A j \in 2 .. n : j \div 2 \in 1 .. n /\ j \div 2 # j /\ j \in 1 .. n /\ j # 1
  BY <1>0, Halves
<1>6. CASE s = 1
  <2>1. sunk = h
    BY <1>0, <1>2, <1>6
  <2>2. \A j \in 2 .. n : key[h[j \div 2]] <= key[h[j]]
    <3> SUFFICES ASSUME NEW j \in 2 .. n PROVE key[h[j \div 2]] <= key[h[j]]
      OBVIOUS
    <3>1. CASE j \div 2 = 1
      <4>1. key[h[1]] <= key[h[j]]
        BY <1>3, <1>6, <3>1
      <4> QED  BY <3>1, <4>1
    <3>2. CASE j \div 2 # 1
      BY <1>4, <3>2
    <3> QED  BY <3>1, <3>2
  <2> QED  BY <2>1, <2>2 DEF HeapOf, HeapBut
<1>7. CASE s # 1
  <2>1. /\ s \in 2 .. n /\ s \in 1 .. n /\ key[h[s]] < key[h[1]]
        /\ \A j \in 2 .. n : j \div 2 = 1 => key[h[s]] <= key[h[j]]
        /\ sunk = [f[s] EXCEPT ![1] = h[s]]
    BY <1>2, <1>3, <1>5, <1>7
  <2>2. /\ f[s] \in Seq(S) /\ Len(f[s]) = n
        /\ Holds(f[s], 2, n, Range(h) \ {h[s]})
    <3>1. \A i \in 2 .. n :
            /\ f[i] \in Seq(S) /\ Len(f[i]) = n
            /\ \A j \in 1 .. i - 1 : f[i][j] = h[j]
            /\ Holds(f[i], 2, n, Range(h) \ {h[i]})
      BY <1>1, SunkHolds, Zenon
    <3> QED  BY <2>1, <3>1
  <2>3. /\ \A j \in 2 .. n : j \div 2 # 1 => key[f[s][j \div 2]] <= key[f[s][j]]
        /\ \A j \in 2 .. n : key[h[j]] <= key[f[s][j]]
    <3>1. \A i \in 2 .. n :
           key[h[i]] < key[h[1]] =>
             /\ HeapBut(f[i], n, {1}, key)
             /\ \A j \in 2 .. n : key[h[j]] <= key[f[i][j]]
      BY <1>1, SunkHeap, Zenon
    <3>2. HeapBut(f[s], n, {1}, key) /\ \A j \in 2 .. n : key[h[j]] <= key[f[s][j]]
      BY <2>1, <3>1
    <3> QED  BY <3>2 DEF HeapBut
  <2> HIDE DEF s, sunk, n
  <2>4. DOMAIN f[s] = 1 .. n /\ \A j \in 1 .. n : key[f[s][j]] \in Nat
    <3>1. DOMAIN f[s] = 1 .. n /\ \A j \in 1 .. n : f[s][j] \in S
      BY <2>2, LenProperties, ElementOfSeq
    <3> QED  BY <3>1
  <2>5. sunk \in Seq(S) /\ Len(sunk) = n /\ DOMAIN sunk = 1 .. n
    <3>1. h[s] \in S /\ 1 \in 1 .. Len(f[s])
      BY <1>0, <2>1, <2>2
    <3>2. sunk \in Seq(S) /\ Len(sunk) = n
      BY <2>1, <2>2, <3>1, ExceptSeq
    <3> QED  BY <3>2, LenProperties
  <2>6. \A j \in 1 .. n : sunk[j] = IF j = 1 THEN h[s] ELSE f[s][j]
    BY <2>1, <2>4
  <2>7. Holds(sunk, 1, n, Range(h))
    <3>1. \A j \in 1 .. n : j = 1 \/ j \in 2 .. n
      BY <1>0
    <3>2. \A j \in 2 .. n : sunk[j] = f[s][j] /\ sunk[j] # h[s] /\ sunk[j] \in Range(h)
      BY <1>5, <2>2, <2>6 DEF Holds
    <3>3. sunk[1] = h[s] /\ h[s] \in Range(h)
      BY <1>0, <2>1, <2>6
    <3>4. \A j, k \in 2 .. n : f[s][j] = f[s][k] => j = k
      BY <2>2 DEF Holds
    <3>5. \A j, k \in 1 .. n : sunk[j] = sunk[k] => j = k
      BY <3>1, <3>2, <3>3, <3>4, Zenon
    <3>6. \A j \in 1 .. n : sunk[j] \in Range(h)
      BY <3>1, <3>2, <3>3, Zenon
    <3>7. ASSUME NEW x \in Range(h) PROVE \E j \in 1 .. n : sunk[j] = x
      <4>1. CASE x = h[s]
        BY <1>0, <3>3, <4>1
      <4>2. CASE x # h[s]
        <5>1. PICK j \in 2 .. n : f[s][j] = x
          BY <2>2, <4>2 DEF Holds
        <5> QED  BY <1>5, <3>2, <5>1
      <4> QED  BY <4>1, <4>2
    <3> QED  BY <3>5, <3>6, <3>7 DEF Holds
  <2>8. IsInjective(sunk) /\ Range(sunk) = Range(h)
    BY <2>5, <2>7, HoldsAll
  <2>9. ASSUME NEW j \in 2 .. n PROVE key[sunk[j \div 2]] <= key[sunk[j]]
    <3>1. sunk[j] = f[s][j] /\ j \div 2 \in 1 .. n /\ j \in 1 .. n
      BY <1>5, <2>6
    <3>2. CASE j \div 2 = 1
      <4>1. sunk[j \div 2] = h[s]
        BY <2>6, <3>1, <3>2
      <4>2. key[h[s]] <= key[h[j]] /\ key[h[j]] <= key[f[s][j]]
        BY <2>1, <2>3, <3>2
      <4>3. key[h[s]] \in Nat /\ key[h[j]] \in Nat /\ key[f[s][j]] \in Nat
        BY <1>0, <2>1, <2>4, <3>1
      <4>4. key[h[s]] <= key[f[s][j]]
        BY ONLY <4>2, <4>3
      <4> QED  BY <3>1, <4>1, <4>4
    <3>3. CASE j \div 2 # 1
      <4>1. sunk[j \div 2] = f[s][j \div 2]
        BY <2>6, <3>1, <3>3
      <4> QED  BY <2>3, <3>1, <3>3, <4>1
    <3> QED  BY <3>2, <3>3
  <2> QED  BY <2>5, <2>8, <2>9 DEF HeapOf, HeapBut, sunk, n
<1> QED  BY <1>6, <1>7

\* deleteNode takes the root and nothing else, and keeps the order.
THEOREM DeleteNode ==
  ASSUME NEW S, NEW h \in Seq(S), h # <<>>, NEW key \in [S -> Nat], IsInjective(h),
         HeapOf(h, key)
  PROVE  LET less == deleteNode(h, key)
         IN  /\ less \in Seq(S) /\ Len(less) = Len(h) - 1
             /\ IsInjective(less) /\ Range(less) = Range(h) \ {h[1]}
             /\ HeapOf(less, key)
<1> DEFINE n == Len(h)
           short == SubSeq(h, 1, n - 1)
           moved == [short EXCEPT ![1] = h[n]]
<1>0. /\ n \in Nat \ {0} /\ DOMAIN h = 1 .. n
      /\ \A j \in 1 .. n : h[j] \in S /\ h[j] \in Range(h) /\ key[h[j]] \in Nat
      /\ 1 \in 1 .. n /\ n \in 1 .. n
  <2>1. n \in Nat /\ DOMAIN h = 1 .. n /\ n # 0
    BY LenProperties, EmptySeq
  <2>2. \A j \in 1 .. n : h[j] \in S /\ h[j] \in Range(h) /\ key[h[j]] \in Nat
    BY <2>1, ElementOfSeq DEF Range
  <2>3. 1 \in 1 .. n /\ n \in 1 .. n
    BY <2>1
  <2> QED  BY <2>1, <2>2, <2>3
<1>1. \A j, k \in 1 .. n : h[j] = h[k] => j = k
  BY <1>0 DEF IsInjective
<1>2. CASE n = 1
  <2>1. deleteNode(h, key) = <<>>
    BY <1>2 DEF deleteNode
  <2>2. Range(h) = {h[1]}
    BY <1>0, <1>2 DEF Range
  <2>3. <<>> \in Seq(S) /\ Len(<<>>) = 0 /\ IsInjective(<<>>) /\ Range(<<>>) = {}
    BY EmptySeq DEF IsInjective, Range
  <2>4. HeapOf(<<>>, key)
    BY <2>3 DEF HeapOf, HeapBut
  <2> QED  BY <1>2, <2>1, <2>2, <2>3, <2>4
<1>3. CASE n # 1
  <2>1. deleteNode(h, key) = heapify(moved, key)
    BY <1>3 DEF deleteNode
  <2>2. n - 1 \in Nat /\ n - 1 >= 1 /\ \A j \in 1 .. n - 1 : j \in 1 .. n /\ j # n
    <3>1. n \in Nat \ {0} /\ n # 1
      BY <1>0, <1>3
    <3> HIDE DEF n
    <3> QED  BY ONLY <3>1
  <2>3. /\ short \in Seq(S) /\ Len(short) = n - 1
        /\ \A j \in 1 .. n - 1 : short[j] = h[j]
    <3>1. \A j \in 1 .. n - 1 : h[j] \in S
      BY <1>0, <2>2
    <3> QED  BY <2>2, <3>1, SubSeqProperties
  <2> HIDE DEF n, short
  <2>4. moved \in Seq(S) /\ Len(moved) = n - 1 /\ DOMAIN moved = 1 .. n - 1
    <3>1. 1 \in 1 .. Len(short) /\ h[n] \in S
      BY <1>0, <2>2, <2>3
    <3>2. moved \in Seq(S) /\ Len(moved) = n - 1
      BY <2>3, <3>1, ExceptSeq
    <3> HIDE DEF moved
    <3> QED  BY <3>2, LenProperties
  <2>5. \A j \in 1 .. n - 1 : moved[j] = IF j = 1 THEN h[n] ELSE h[j]
    <3>1. DOMAIN short = 1 .. n - 1
      BY <2>3, LenProperties
    <3> QED  BY <2>3, <3>1
  <2> HIDE DEF moved
  <2>6. moved # <<>>
    BY <2>2, <2>4, EmptySeq
  <2>7. IsInjective(moved)
    <3> SUFFICES ASSUME NEW j \in 1 .. n - 1, NEW k \in 1 .. n - 1, moved[j] = moved[k]
                 PROVE j = k
      BY <2>4 DEF IsInjective
    <3>1. j \in 1 .. n /\ k \in 1 .. n /\ j # n /\ k # n
      BY <2>2
    <3> QED  BY <1>0, <1>1, <2>5, <3>1
  <2>8. Range(moved) = Range(h) \ {h[1]}
    <3>1. ASSUME NEW j \in 1 .. n - 1 PROVE moved[j] \in Range(h) \ {h[1]}
      <4>1. j \in 1 .. n /\ j # n
        BY <2>2
      <4>2. CASE j = 1
        BY <1>0, <1>1, <1>3, <2>5, <4>2
      <4>3. CASE j # 1
        BY <1>0, <1>1, <2>5, <4>1, <4>3
      <4> QED  BY <4>2, <4>3
    <3>2. ASSUME NEW x \in Range(h) \ {h[1]} PROVE \E j \in 1 .. n - 1 : moved[j] = x
      <4>1. PICK k \in 1 .. n : h[k] = x
        BY <1>0 DEF Range
      <4>2. CASE k = n
        <5>1. 1 \in 1 .. n - 1
          BY <2>2
        <5> QED  BY <2>5, <4>1, <4>2, <5>1
      <4>3. CASE k # n
        <5>1. k \in 1 .. n - 1 /\ k # 1
          BY <1>0, <4>1, <4>3
        <5> QED  BY <2>5, <4>1, <5>1
      <4> QED  BY <4>2, <4>3
    <3>3. \A x \in Range(h) \ {h[1]} : \E j \in 1 .. n - 1 : moved[j] = x
      BY <3>2
    <3>4. \A j, k \in 1 .. n - 1 : moved[j] = moved[k] => j = k
      BY <2>4, <2>7 DEF IsInjective
    <3>5. Holds(moved, 1, n - 1, Range(h) \ {h[1]})
      BY <3>1, <3>3, <3>4 DEF Holds
    <3> QED  BY <2>4, <3>5, HoldsAll
  <2>9. HeapBut(moved, n - 1, {1}, key)
    <3> SUFFICES ASSUME NEW j \in 2 .. n - 1, j \div 2 # 1
                 PROVE  key[moved[j \div 2]] <= key[moved[j]]
      BY DEF HeapBut
    <3>1. j \div 2 \in 1 .. j - 1 /\ j \div 2 \in 1 .. n - 1 /\ j \in 1 .. n - 1
          /\ j # 1 /\ j \in 2 .. n
      BY <2>2, Halves
    <3>2. moved[j] = h[j] /\ moved[j \div 2] = h[j \div 2]
      BY <2>5, <3>1
    <3>3. key[h[j \div 2]] <= key[h[j]]
      BY <3>1 DEF HeapOf, HeapBut, n
    <3> QED  BY <3>2, <3>3
  <2>10. /\ heapify(moved, key) \in Seq(S) /\ Len(heapify(moved, key)) = Len(moved)
         /\ IsInjective(heapify(moved, key)) /\ Range(heapify(moved, key)) = Range(moved)
         /\ HeapOf(heapify(moved, key), key)
    BY <2>4, <2>6, <2>7, <2>9, HeapifyNode
  <2> QED  BY <2>1, <2>4, <2>8, <2>10 DEF n
<1> QED  BY <1>2, <1>3

\* No node is less than the root.
THEOREM RootLeast ==
  ASSUME NEW S, NEW h \in Seq(S), NEW key \in [S -> Nat], HeapOf(h, key)
  PROVE  \A x \in Range(h) : key[h[1]] <= key[x]
<1> DEFINE n == Len(h)
           Bad == {i \in 1 .. n : ~ (key[h[1]] <= key[h[i]])}
<1>1. /\ n \in Nat /\ DOMAIN h = 1 .. n
      /\ \A j \in 1 .. n : h[j] \in S /\ key[h[j]] \in Nat
  <2>1. n \in Nat /\ DOMAIN h = 1 .. n
    BY LenProperties
  <2> QED  BY <2>1, ElementOfSeq
<1>2. ASSUME Bad # {} PROVE FALSE
  <2>1. PICK i \in Bad : \A j \in Bad : i <= j
    <3>1. Bad \subseteq Nat
      BY <1>1
    <3> HIDE DEF Bad
    <3> QED  BY <1>2, <3>1, LeastNat
  <2>2. i \in 1 .. n /\ ~ (key[h[1]] <= key[h[i]]) /\ 1 \in 1 .. n
    BY <1>1, <2>1
  <2>3. i # 1
    BY <1>1, <2>2
  <2>4. i \in 2 .. n
    BY <2>2, <2>3
  <2> HIDE DEF n
  <2>5. i \div 2 \in 1 .. i - 1 /\ i \div 2 \in 1 .. n
    BY <1>1, <2>4, Halves
  <2>6. key[h[1]] <= key[h[i \div 2]]
    BY <2>1, <2>2, <2>5
  <2>7. key[h[i \div 2]] <= key[h[i]]
    BY <2>4 DEF HeapOf, HeapBut, n
  <2>8. key[h[1]] \in Nat /\ key[h[i]] \in Nat /\ key[h[i \div 2]] \in Nat
    BY <1>1, <2>2, <2>5
  <2> QED  BY <2>2, <2>6, <2>7, <2>8
<1>3. \A i \in 1 .. n : key[h[1]] <= key[h[i]]
  BY <1>2
<1> QED  BY <1>1, <1>3 DEF Range

-----------------------------------------------------------------------------
(* The state machine.                                                      *)

AlphaLabels ==
  {"idle", "flush", "run", "issue", "drain", "last", "compare", "advance", "tag"}

\* Every request is in one place; a task inside sfq_set_request has one.
OnePlace ==
  /\ IsInjective(requests)
  /\ Apart(InArray, plugged \cup SettingUp, queue_head, inflight)
  /\ plugged \cap SettingUp = {}
  /\ \A p, q \in Tasks : cur[p] = cur[q] /\ cur[p] # NoReq => p = q

HasRequest ==
  \A p \in Tasks : cur[p] # NoReq <=> pc[p] \in {"last", "compare", "advance", "tag"}

Heaped == HeapOf(requests, start_tag)

NothingLeft ==
  /\ elv \in {"detached", "freed"} =>
       /\ plugged = {} /\ requests = <<>> /\ queue_head = <<>> /\ inflight = {}
       /\ \A c \in Ctx : pc[c] = "idle"
  /\ \A c \in Ctx : pc[c] = "drain" => elv \in {"bypass", "oops"}

\* What an idle elevator holds back is followed by two requests at least: the
\* completion of the first one finds depth > 0 and kicks.
Following ==
  \/ \E c \in Ctx : pc[c] \in {"flush", "run", "issue", "drain"}
  \/ unplug_work \/ elv # "attached"
  \/ requests = <<>> /\ queue_head = <<>>
  \/ inflight # {} /\ depth >= 2

AlphaInv ==
  /\ AlphaTypeOK /\ OnePlace /\ HasRequest /\ Heaped /\ DepthExact
  /\ NothingLeft /\ Following

LEMMA AlphaFacts ==
  ASSUME AlphaTypeOK
  PROVE  /\ DeviceTypeOK /\ Held \in Nat /\ Len(queue_head) \in Nat
         /\ requests \in Seq(Requests) /\ Len(requests) \in Nat
         /\ DOMAIN requests = 1 .. Len(requests)
         /\ InArray \subseteq Requests
         /\ pc \in [Ctx -> AlphaLabels]
         /\ cur \in [Tasks -> Requests \cup {NoReq}]
         /\ start_tag \in [Requests -> Nat]
<1>1. /\ DeviceTypeOK /\ requests \in Seq(Requests) /\ pc \in [Ctx -> AlphaLabels]
      /\ cur \in [Tasks -> Requests \cup {NoReq}] /\ start_tag \in [Requests -> Nat]
  BY DEF AlphaTypeOK, FrameTypeOK, AlphaLabels
<1>2. Held \in Nat /\ Len(queue_head) \in Nat
  BY <1>1, HeldType
<1>3. /\ Len(requests) \in Nat /\ InArray \subseteq Requests
      /\ DOMAIN requests = 1 .. Len(requests)
  BY <1>1, LenProperties, RangeOfSeq DEF InArray
<1> QED  BY <1>1, <1>2, <1>3

\* Steps that move no request between the array and the device.
LEMMA SameHeld ==
  ASSUME DepthExact, UNCHANGED <<queue_head, inflight, depth>>
  PROVE  DepthExact'
BY DEF DepthExact, Held

LEMMA SameOnePlace ==
  ASSUME OnePlace, UNCHANGED <<requests, queue_head, inflight, cur>>,
         plugged' \subseteq plugged
  PROVE  OnePlace'
BY DEF OnePlace, Apart, InArray, SettingUp

\* The array stays a heap when the tag of a request outside it is written.
LEMMA SameHeap ==
  ASSUME AlphaTypeOK, Heaped, UNCHANGED requests,
         \A r \in InArray : start_tag'[r] = start_tag[r]
  PROVE  Heaped'
<1>1. \A i \in 1 .. Len(requests) : requests[i] \in InArray
  BY AlphaFacts DEF InArray, Range
<1>2. \A j \in 2 .. Len(requests) : j \in 1 .. Len(requests) /\ j \div 2 \in 1 .. Len(requests)
  BY AlphaFacts, Halves
<1> QED  BY <1>1, <1>2 DEF Heaped, HeapOf, HeapBut

LEMMA AlphaInitInv == AlphaInit => AlphaInv
<1> SUFFICES ASSUME AlphaInit PROVE AlphaInv
  OBVIOUS
<1> USE DEF AlphaInit, FrameInit, DeviceInit
<1>1. <<>> \in Seq(Requests) /\ Len(<<>>) = 0
  BY EmptySeq
<1>2. AlphaTypeOK
  BY <1>1 DEF AlphaTypeOK, FrameTypeOK, DeviceTypeOK
<1>3. SettingUp = {} /\ InArray = {} /\ Range(queue_head) = {}
  BY DEF SettingUp, InArray, Range
<1>4. OnePlace
  BY <1>3 DEF OnePlace, Apart, IsInjective
<1>5. DepthExact
  BY <1>1, FS_EmptySet, DepthAssumption DEF DepthExact, Held
<1>6. HasRequest
  BY DEF HasRequest, Tasks
<1>7. Heaped
  BY <1>1 DEF Heaped, HeapOf, HeapBut
<1>8. NothingLeft /\ Following
  BY DEF NothingLeft, Following
<1> QED  BY <1>2, <1>4, <1>5, <1>6, <1>7, <1>8 DEF AlphaInv

-----------------------------------------------------------------------------
(* sfq_set_request, access by access.                                      *)

LEMMA SetRequestInv ==
  ASSUME AlphaInv, NEW p \in Tasks, NEW r \in Requests, sfq_set_request(p, r)
  PROVE  AlphaInv'
<1> USE DEF AlphaInv
<1>0. /\ AlphaTypeOK /\ p \in Ctx /\ pc \in [Ctx -> AlphaLabels] /\ DeviceTypeOK
      /\ cur \in [Tasks -> Requests \cup {NoReq}] /\ r # NoReq
      /\ start_tag \in [Requests -> Nat] /\ virtual_time \in Nat
  BY AlphaFacts, RequestsAssumption DEF AlphaTypeOK, Tasks
<1>1. /\ pc[p] = "idle" /\ elv = "attached" /\ cur' = [cur EXCEPT ![p] = r]
      /\ start_tag' = [start_tag EXCEPT ![r] = virtual_time]
      /\ UNCHANGED <<requests, virtual_time, depth, latest_finish_tag, frameVars>>
      /\ UNCHANGED <<plugged, stale, unplug_work, elv>>
      /\ UNCHANGED <<queue_head, inflight, issuing>>
      /\ r \notin SettingUp /\ r \notin plugged /\ r \notin InArray
      /\ r \notin Range(queue_head) /\ r \notin inflight
  BY DEF sfq_set_request, OutstandingWith, frameVars
<1>2. PICK l \in {"tag", "last"} : pc' = [pc EXCEPT ![p] = l]
  BY DEF sfq_set_request, At
<1>3. AlphaTypeOK'
  BY <1>0, <1>1, <1>2 DEF AlphaTypeOK, FrameTypeOK, DeviceTypeOK
<1>4. SettingUp' \subseteq SettingUp \cup {r}
  BY <1>0, <1>1 DEF SettingUp, Range
<1>5. \A q \in Tasks : cur[q] # r
  BY <1>0, <1>1 DEF SettingUp, Range
<1>6. OnePlace'
  <2>1. Apart(InArray, plugged \cup SettingUp', queue_head, inflight)
    BY <1>1, <1>4 DEF OnePlace, Apart
  <2>2. \A q, s \in Tasks : cur'[q] = cur'[s] /\ cur'[q] # NoReq => q = s
    BY <1>0, <1>1, <1>5 DEF OnePlace
  <2> QED
    BY <1>1, <1>4, <2>1, <2>2 DEF OnePlace, InArray
<1>7. HasRequest'
  BY <1>0, <1>1, <1>2 DEF HasRequest, AlphaLabels
<1>8. Heaped'
  <2>1. \A x \in InArray : start_tag'[x] = start_tag[x]
    BY <1>0, <1>1, AlphaFacts
  <2> QED  BY <1>1, <2>1, SameHeap
<1>9. DepthExact'
  BY <1>1, SameHeld
<1>10. NothingLeft' /\ Following'
  BY <1>0, <1>1, <1>2 DEF NothingLeft, Following, AlphaLabels
<1> QED  BY <1>3, <1>6, <1>7, <1>8, <1>9, <1>10

\* The reads and the write of virtual_time move no request.
LEMMA ReadTagsInv ==
  ASSUME AlphaInv, NEW p \in Tasks, ReadLast(p) \/ CompareTags(p) \/ AdvanceTime(p)
  PROVE  AlphaInv'
<1> USE DEF AlphaInv
<1>0. /\ AlphaTypeOK /\ p \in Ctx /\ pc \in [Ctx -> AlphaLabels] /\ DeviceTypeOK
      /\ requests \in Seq(Requests) /\ DOMAIN requests = 1 .. Len(requests)
      /\ start_tag \in [Requests -> Nat] /\ latest_finish_tag \in [Tasks -> Nat]
  BY AlphaFacts DEF AlphaTypeOK, Tasks
<1>1. /\ UNCHANGED <<requests, start_tag, depth, cur, plugged, stale, unplug_work>>
      /\ UNCHANGED <<queue_head, inflight, issuing>>
  BY DEF ReadLast, CompareTags, AdvanceTime, arrayVars, frameVars
<1>2. /\ pc[p] \in {"last", "compare", "advance"} /\ elv' \in {elv, "oops"}
      /\ \E l \in {pc[p], "compare", "advance", "tag"} : pc' = [pc EXCEPT ![p] = l]
      /\ latest_finish_tag' \in [Tasks -> Nat] /\ virtual_time' \in Nat
  <2>1. CASE ReadLast(p)
    <3>1. pc[p] = "last" /\ virtual_time' = virtual_time
      BY <2>1 DEF ReadLast
    <3>2. CASE /\ requests # <<>>
               /\ latest_finish_tag' = [latest_finish_tag EXCEPT
                    ![p] = finish_tag(requests[Len(requests)])]
               /\ At(p, "compare") /\ UNCHANGED elv
      <4>1. requests[Len(requests)] \in Requests
        BY <1>0, <3>2, LenProperties, ElementOfSeq, EmptySeq
      <4>2. finish_tag(requests[Len(requests)]) \in Nat
        BY <1>0, <4>1 DEF finish_tag
      <4> QED  BY <1>0, <3>1, <3>2, <4>2 DEF At, AlphaTypeOK
    <3>3. CASE elv' = "oops" /\ UNCHANGED <<latest_finish_tag, pc>>
      <4>1. pc' = [pc EXCEPT ![p] = pc[p]]
        BY <1>0, <3>3
      <4> QED  BY <1>0, <3>1, <3>3, <4>1 DEF AlphaTypeOK
    <3> QED  BY <2>1, <3>2, <3>3 DEF ReadLast
  <2>2. CASE CompareTags(p)
    BY <1>0, <2>2 DEF CompareTags, At, arrayVars, frameVars, AlphaTypeOK
  <2>3. CASE AdvanceTime(p)
    BY <1>0, <2>3 DEF AdvanceTime, At, frameVars, AlphaTypeOK
  <2> QED  BY <2>1, <2>2, <2>3
<1>3. PICK l \in {pc[p], "compare", "advance", "tag"} : pc' = [pc EXCEPT ![p] = l]
  BY <1>2
<1>4. AlphaTypeOK'
  BY <1>0, <1>1, <1>2, <1>3 DEF AlphaTypeOK, FrameTypeOK, DeviceTypeOK, AlphaLabels
<1>5. OnePlace' /\ DepthExact'
  BY <1>1, SameOnePlace, SameHeld
<1>6. HasRequest'
  BY <1>0, <1>1, <1>2, <1>3 DEF HasRequest, AlphaLabels
<1>7. Heaped'
  BY <1>1, SameHeap
<1>8. NothingLeft' /\ Following'
  BY <1>0, <1>1, <1>2, <1>3 DEF NothingLeft, Following, AlphaLabels
<1> QED  BY <1>4, <1>5, <1>6, <1>7, <1>8

\* The request gets its tag and goes to the plug of the task.
LEMMA AssignInv ==
  ASSUME AlphaInv, NEW p \in Tasks, AssignTags(p)
  PROVE  AlphaInv'
<1> USE DEF AlphaInv
<1>0. /\ AlphaTypeOK /\ p \in Ctx /\ pc \in [Ctx -> AlphaLabels] /\ DeviceTypeOK
      /\ cur \in [Tasks -> Requests \cup {NoReq}] /\ NoReq \notin Requests
      /\ start_tag \in [Requests -> Nat] /\ virtual_time \in Nat
  BY AlphaFacts, RequestsAssumption DEF AlphaTypeOK, Tasks
<1>1. /\ pc[p] = "tag" /\ pc' = [pc EXCEPT ![p] = "idle"]
      /\ start_tag' = [start_tag EXCEPT ![cur[p]] = virtual_time]
      /\ plugged' = plugged \cup {cur[p]} /\ cur' = [cur EXCEPT ![p] = NoReq]
      /\ UNCHANGED <<requests, virtual_time, depth, latest_finish_tag>>
      /\ UNCHANGED <<stale, unplug_work, elv, queue_head, inflight, issuing>>
  BY DEF AssignTags, At
<1>2. cur[p] \in Requests /\ cur[p] # NoReq
  BY <1>0, <1>1 DEF HasRequest
<1>3. AlphaTypeOK' /\ HasRequest'
  BY <1>0, <1>1, <1>2 DEF AlphaTypeOK, FrameTypeOK, DeviceTypeOK, HasRequest, AlphaLabels
<1>4. SettingUp' = SettingUp \ {cur[p]} /\ cur[p] \in SettingUp
  BY <1>0, <1>1, <1>2 DEF SettingUp, Range, OnePlace
<1>5. OnePlace'
  <2>1. plugged' \cup SettingUp' = plugged \cup SettingUp
    BY <1>1, <1>4
  <2>2. \A q, s \in Tasks : cur'[q] = cur'[s] /\ cur'[q] # NoReq => q = s
    BY <1>0, <1>1 DEF OnePlace
  <2> QED  BY <1>1, <1>4, <2>1, <2>2 DEF OnePlace, InArray
<1>6. Heaped'
  <2>1. cur[p] \notin InArray
    BY <1>4 DEF OnePlace, Apart
  <2>2. \A x \in InArray : start_tag'[x] = start_tag[x]
    BY <1>0, <1>1, <2>1, AlphaFacts
  <2> QED  BY <1>1, <2>2, SameHeap
<1>7. DepthExact'
  BY <1>1, SameHeld
<1>8. NothingLeft' /\ Following'
  BY <1>0, <1>1, <1>3 DEF NothingLeft, Following, AlphaLabels, HasRequest
<1> QED  BY <1>3, <1>5, <1>6, <1>7, <1>8

-----------------------------------------------------------------------------
(* Insertion, merges and dispatches.                                       *)

\* What an insertion and a merge have in common.
LEMMA InsertCommon ==
  ASSUME AlphaInv, NEW p \in Tasks, NEW r \in Requests, Insert(p, r, plugged),
         stale' \subseteq Requests, unplug_work' \in BOOLEAN, UNCHANGED cur
  PROVE  /\ r \in plugged /\ plugged' = plugged \ {r}
         /\ UNCHANGED <<elv, queue_head, inflight, issuing>>
         /\ FrameTypeOK({"last", "compare", "advance", "tag"})'
         /\ HasRequest' /\ NothingLeft' /\ Following'
<1> USE DEF AlphaInv
<1>0. /\ AlphaTypeOK /\ p \in Ctx /\ pc \in [Ctx -> AlphaLabels] /\ DeviceTypeOK
      /\ cur \in [Tasks -> Requests \cup {NoReq}]
  BY AlphaFacts DEF Tasks
<1>1. /\ r \in plugged /\ plugged' = plugged \ {r}
      /\ UNCHANGED <<elv, queue_head, inflight, issuing>>
      /\ pc[p] \in {"idle", "flush"}
      /\ \E l \in {"run", "flush"} : pc' = [pc EXCEPT ![p] = l]
  BY DEF Insert, At
<1>2. FrameTypeOK({"last", "compare", "advance", "tag"})'
  BY <1>0, <1>1 DEF AlphaTypeOK, FrameTypeOK, DeviceTypeOK
<1>3. HasRequest'
  BY <1>0, <1>1 DEF HasRequest, AlphaLabels
<1>4. pc'[p] \in {"run", "flush"}
  BY <1>0, <1>1
<1>5. Following'
  BY <1>0, <1>4 DEF Following
<1>6. elv \notin {"detached", "freed"}
  BY <1>1 DEF NothingLeft
<1>7. NothingLeft'
  BY <1>0, <1>1, <1>6 DEF NothingLeft, AlphaLabels
<1> QED  BY <1>1, <1>2, <1>3, <1>5, <1>7

\* The request enters the array at its place in the heap.
LEMMA AddInv ==
  ASSUME AlphaInv, NEW p \in Tasks, NEW r \in Requests, sfq_add_request(p, r)
  PROVE  AlphaInv'
<1> USE DEF AlphaInv
<1>0. /\ AlphaTypeOK /\ requests \in Seq(Requests) /\ start_tag \in [Requests -> Nat]
  BY AlphaFacts
<1>1. /\ Insert(p, r, plugged) /\ requests' = insertNode(requests, r, start_tag)
      /\ UNCHANGED <<start_tag, virtual_time, depth, cur, latest_finish_tag>>
      /\ UNCHANGED <<stale, unplug_work>>
  BY DEF sfq_add_request
<1>2. stale' \subseteq Requests /\ unplug_work' \in BOOLEAN
  BY <1>0, <1>1 DEF AlphaTypeOK, FrameTypeOK
<1>3. /\ r \in plugged /\ plugged' = plugged \ {r}
      /\ UNCHANGED <<elv, queue_head, inflight, issuing>>
      /\ FrameTypeOK({"last", "compare", "advance", "tag"})'
      /\ HasRequest' /\ NothingLeft' /\ Following'
  BY <1>1, <1>2, InsertCommon
<1>4. IsInjective(requests) /\ r \notin Range(requests)
  BY <1>3 DEF OnePlace, Apart, InArray
<1>5. HeapOf(requests, start_tag)
  BY DEF Heaped
<1>6. /\ requests' \in Seq(Requests) /\ IsInjective(requests')
      /\ InArray' = InArray \cup {r} /\ HeapOf(requests', start_tag)
  BY <1>0, <1>1, <1>4, <1>5, InsertNode DEF InArray
<1>7. AlphaTypeOK'
  BY <1>0, <1>1, <1>3, <1>6 DEF AlphaTypeOK
<1>8. OnePlace'
  BY <1>1, <1>3, <1>6 DEF OnePlace, Apart, SettingUp
<1>9. Heaped'
  BY <1>1, <1>6 DEF Heaped
<1>10. DepthExact'
  BY <1>1, <1>3, SameHeld
<1> QED  BY <1>3, <1>7, <1>8, <1>9, <1>10

LEMMA MergeInv ==
  ASSUME AlphaInv, NEW p \in Tasks, NEW r \in Requests, MergeAway(p, r)
  PROVE  AlphaInv'
<1> USE DEF AlphaInv
<1>0. AlphaTypeOK
  OBVIOUS
<1>1. /\ Insert(p, r, plugged) /\ stale' \subseteq Requests
      /\ UNCHANGED <<requests, start_tag, virtual_time, depth, cur, latest_finish_tag>>
  BY <1>0 DEF MergeAway, InsertMerge, MergeLinked, arrayVars, AlphaTypeOK, FrameTypeOK
<1>2. unplug_work' \in BOOLEAN
  BY <1>0 DEF MergeAway, KickIf, AlphaTypeOK, FrameTypeOK
<1>3. /\ r \in plugged /\ plugged' = plugged \ {r}
      /\ UNCHANGED <<elv, queue_head, inflight, issuing>>
      /\ FrameTypeOK({"last", "compare", "advance", "tag"})'
      /\ HasRequest' /\ NothingLeft' /\ Following'
  BY <1>1, <1>2, InsertCommon
<1>4. AlphaTypeOK'
  BY <1>0, <1>1, <1>3 DEF AlphaTypeOK
<1>5. OnePlace' /\ DepthExact' /\ Heaped'
  BY <1>1, <1>3, SameOnePlace, SameHeld, SameHeap
<1> QED  BY <1>3, <1>4, <1>5

\* The root leaves the array, and nothing else does.
LEMMA TakesRoot ==
  ASSUME AlphaInv, sfq_dispatch
  PROVE  /\ requests[1] \in InArray /\ requests[1] \in Requests
         /\ requests' \in Seq(Requests) /\ Len(requests') = Len(requests) - 1
         /\ IsInjective(requests') /\ InArray' = InArray \ {requests[1]}
         /\ HeapOf(requests', start_tag)
         /\ \A s \in InArray : start_tag[requests[1]] <= start_tag[s]
<1>0. /\ requests \in Seq(Requests) /\ start_tag \in [Requests -> Nat]
      /\ DOMAIN requests = 1 .. Len(requests) /\ Len(requests) \in Nat
      /\ IsInjective(requests) /\ HeapOf(requests, start_tag)
  BY AlphaFacts DEF AlphaInv, OnePlace, Heaped
<1>1. requests # <<>> /\ requests' = deleteNode(requests, start_tag)
  BY DEF sfq_dispatch
<1>2. 1 \in DOMAIN requests
  BY <1>0, <1>1, EmptySeq
<1>3. requests[1] \in InArray /\ requests[1] \in Requests
  BY <1>0, <1>2, ElementOfSeq DEF InArray, Range
<1>4. /\ requests' \in Seq(Requests) /\ Len(requests') = Len(requests) - 1
      /\ IsInjective(requests') /\ InArray' = InArray \ {requests[1]}
      /\ HeapOf(requests', start_tag)
  BY <1>0, <1>1, DeleteNode DEF InArray
<1>5. \A s \in InArray : start_tag[requests[1]] <= start_tag[s]
  BY <1>0, RootLeast DEF InArray
<1> QED  BY <1>3, <1>4, <1>5

LEMMA AlphaDispatchInv ==
  ASSUME AlphaInv, NEW c \in Ctx, pc[c] \in {"run", "drain"},
         Asked, sfq_dispatch, UNCHANGED pc
  PROVE  AlphaInv'
<1> USE DEF AlphaInv
<1>0. /\ AlphaTypeOK /\ pc \in [Ctx -> AlphaLabels] /\ DeviceTypeOK
      /\ Held \in Nat /\ depth \in Nat
  BY AlphaFacts DEF AlphaTypeOK
<1>1. /\ UNCHANGED <<start_tag, virtual_time, cur, latest_finish_tag>>
      /\ UNCHANGED <<plugged, stale, unplug_work, inflight, issuing, pc>>
      /\ depth <= REQUEST_DEPTH /\ depth' = depth + 1 /\ Dispatched(requests[1])
  BY <1>0, DepthAssumption DEF Asked, sfq_dispatch, Full, TakeSlot
<1> DEFINE r == requests[1]
<1>2. /\ r \in InArray /\ r \in Requests /\ requests' \in Seq(Requests)
      /\ IsInjective(requests') /\ InArray' = InArray \ {r}
      /\ HeapOf(requests', start_tag)
  BY TakesRoot
<1> HIDE DEF r
<1>3. PICK k \in 1 .. Len(queue_head) + 1 : queue_head' = With(queue_head, k, r)
  BY <1>1 DEF Dispatched, elv_dispatch_sort, r
<1>4. elv' \in {elv, "oops"}
  BY <1>1 DEF Dispatched
<1>5. queue_head' \in Seq(Requests) /\ Held' = Held + 1
  BY <1>0, <1>1, <1>2, DispatchHeld DEF Dispatched, r
<1>6. AlphaTypeOK'
  <2>1. depth' \in Nat
    BY <1>0, <1>1
  <2> QED
    BY <1>0, <1>1, <1>2, <1>4, <1>5, <2>1 DEF AlphaTypeOK, FrameTypeOK, DeviceTypeOK
<1>7. OnePlace'
  <2>1. Apart(InArray \ {r}, plugged \cup SettingUp, queue_head', inflight)
    BY <1>0, <1>2, <1>3, ApartDispatch DEF OnePlace, DeviceTypeOK
  <2> QED  BY <1>1, <1>2, <2>1 DEF OnePlace, SettingUp
<1>8. HasRequest' /\ Heaped'
  BY <1>1, <1>2 DEF HasRequest, Heaped
<1>9. DepthExact'
  BY <1>0, <1>1, <1>5, DepthAssumption DEF DepthExact
<1>10. NothingLeft'
  <2>1. elv \notin {"detached", "freed"}
    BY DEF NothingLeft
  <2> QED  BY <1>1, <1>4, <2>1 DEF NothingLeft
<1>11. Following'
  BY <1>1 DEF Following
<1> QED  BY <1>6, <1>7, <1>8, <1>9, <1>10, <1>11

\* Nothing waits, or two requests at least are out.
LEMMA AlphaNothingInv ==
  ASSUME AlphaInv, NEW c \in Ctx, Asked, sfq_dispatch_nothing,
         \/ pc[c] = "run" /\ queue_head = <<>> /\ At(c, "idle") /\ UNCHANGED elv
         \/ pc[c] = "drain" /\ elv # "oops" /\ DrainTurnEnds(c, InArray \cup SettingUp)
  PROVE  AlphaInv'
<1> USE DEF AlphaInv
<1>0. /\ AlphaTypeOK /\ pc \in [Ctx -> AlphaLabels] /\ DeviceTypeOK
      /\ requests \in Seq(Requests) /\ cur \in [Tasks -> Requests \cup {NoReq}]
      /\ depth \in Nat
  BY AlphaFacts DEF AlphaTypeOK
<1>1. /\ UNCHANGED <<start_tag, virtual_time, cur, latest_finish_tag>>
      /\ UNCHANGED <<plugged, stale, unplug_work, inflight, issuing>>
      /\ UNCHANGED <<requests, depth, queue_head>>
  BY DEF Asked, sfq_dispatch_nothing
<1>2. PICK l \in {"idle", "run"} : pc' = [pc EXCEPT ![c] = l]
  BY DEF At, DrainTurnEnds
<1>3. elv' \in {elv, "detached"}
  BY DEF DrainTurnEnds
<1>4. AlphaTypeOK' /\ HasRequest'
  BY <1>0, <1>1, <1>2, <1>3
     DEF AlphaTypeOK, FrameTypeOK, DeviceTypeOK, HasRequest, AlphaLabels
<1>5. OnePlace' /\ DepthExact' /\ Heaped'
  BY <1>1, SameOnePlace, SameHeld, SameHeap
<1>6. Following'
  <2>1. CASE pc[c] = "run" /\ queue_head = <<>> /\ UNCHANGED elv
    <3>1. requests # <<>> => depth >= 2
      BY <1>0, DepthAssumption DEF sfq_dispatch_nothing, Full
    <3>2. requests # <<>> => inflight # {}
      BY <1>0, <2>1, <3>1, HeldInFlight DEF DepthExact
    <3> QED  BY <1>1, <2>1, <3>1, <3>2 DEF Following
  <2>2. CASE pc[c] = "drain" /\ elv # "oops"
    BY <1>3, <2>2 DEF Following, NothingLeft
  <2> QED  BY <2>1, <2>2
<1>7. CASE UNCHANGED elv
  <2>1. NothingLeft'
    BY <1>0, <1>1, <1>2, <1>7 DEF NothingLeft, AlphaLabels
  <2> QED  BY <1>4, <1>5, <1>6, <2>1
<1>8. CASE elv' # elv
  <2>1. /\ Quiescent(c, InArray \cup SettingUp)
        /\ DrainTurnEnds(c, InArray \cup SettingUp)
    BY <1>8 DEF DrainTurnEnds
  <2>2. /\ plugged = {} /\ InArray = {} /\ Range(queue_head) = {} /\ inflight = {}
        /\ \A d \in Ctx \ {c} : pc[d] = "idle"
    BY <2>1 DEF Quiescent, OutstandingWith
  <2>3. requests = <<>> /\ queue_head = <<>>
    BY <1>0, <2>2, EmptyRange DEF InArray, DeviceTypeOK
  <2>4. pc' = [pc EXCEPT ![c] = "idle"]
    BY <2>1, <2>3 DEF DrainTurnEnds, At
  <2>5. NothingLeft'
    BY <1>0, <1>1, <1>3, <1>8, <2>2, <2>3, <2>4 DEF NothingLeft
  <2> QED  BY <1>4, <1>5, <1>6, <2>5
<1> QED  BY <1>7, <1>8

-----------------------------------------------------------------------------
(* The device, kicks and switches.                                         *)

LEMMA AlphaDeviceInv ==
  ASSUME AlphaInv, NEW c \in Ctx, UNCHANGED <<arrayVars, frameVars>>,
         \/ DeviceBusy(c) \/ DeviceStart(c) \/ DeviceIssued(c) \/ DeviceRequeue(c)
         \/ elv = "bypass" /\ DeviceBypassed(c)
         \/ elv \in {"attached", "bypass"} /\ RunQueue(c)
  PROVE  AlphaInv'
<1> USE DEF AlphaInv, arrayVars, frameVars
<1>0. /\ AlphaTypeOK /\ pc \in [Ctx -> AlphaLabels] /\ DeviceTypeOK
      /\ cur \in [Tasks -> Requests \cup {NoReq}]
  BY AlphaFacts
<1>1. ASSUME DeviceTypeOK', Held' = Held,
             Apart(InArray, plugged \cup SettingUp, queue_head', inflight'),
             pc[c] \in {"idle", "run", "issue"},
             pc[c] = "idle" => elv \in {"attached", "bypass"},
             NEW l \in {"idle", "run", "issue"}, pc' = [pc EXCEPT ![c] = l],
             l = "idle" => (inflight' # {} /\ depth >= 2) \/ elv = "bypass"
      PROVE  AlphaInv'
  <2>1. AlphaTypeOK' /\ HasRequest'
    BY <1>0, <1>1 DEF AlphaTypeOK, FrameTypeOK, HasRequest, AlphaLabels
  <2>2. OnePlace' /\ Heaped'
    BY <1>1 DEF OnePlace, InArray, SettingUp, Heaped
  <2>3. DepthExact'
    BY <1>1 DEF DepthExact
  <2>4. NothingLeft'
    BY <1>0, <1>1 DEF NothingLeft, AlphaLabels
  <2>5. Following'
    BY <1>0, <1>1 DEF Following
  <2> QED  BY <2>1, <2>2, <2>3, <2>4, <2>5
<1>2. Apart(InArray, plugged \cup SettingUp, queue_head, inflight)
  BY DEF OnePlace
<1>3. CASE DeviceStart(c)
  <2>1. /\ pc' = [pc EXCEPT ![c] = "issue"] /\ pc[c] = "run"
        /\ queue_head # <<>> /\ queue_head' = Tail(queue_head)
        /\ inflight' = inflight \cup {Head(queue_head)}
    BY <1>3 DEF DeviceStart, At
  <2>2. /\ Head(queue_head) \notin inflight
        /\ Apart(InArray, plugged \cup SettingUp, queue_head', inflight')
    BY <1>0, <1>2, <2>1, ApartStart DEF DeviceTypeOK
  <2>3. Held' = Held /\ DeviceTypeOK'
    BY <1>0, <1>3, <2>2, StartHeldExact, StartHeld
  <2> QED  BY <1>1, <2>1, <2>2, <2>3
<1>4. CASE DeviceRequeue(c)
  <2>1. DeviceTypeOK' /\ Held' = Held /\ inflight' # {} /\ depth >= 2
    BY <1>0, <1>4, RequeueHeld, ReturnsTwo DEF DepthExact
  <2>2. /\ pc' = [pc EXCEPT ![c] = "idle"] /\ pc[c] = "issue"
        /\ issuing[c] \in inflight /\ queue_head' = <<issuing[c]>> \o queue_head
        /\ inflight' = inflight \ {issuing[c]}
    BY <1>4 DEF DeviceRequeue, At
  <2>3. Apart(InArray, plugged \cup SettingUp, queue_head', inflight')
    BY <1>0, <1>2, <2>2, ApartRequeue DEF DeviceTypeOK
  <2> QED  BY <1>1, <2>1, <2>2, <2>3
<1>5. CASE \/ DeviceBusy(c) \/ DeviceIssued(c)
           \/ elv = "bypass" /\ DeviceBypassed(c)
           \/ elv \in {"attached", "bypass"} /\ RunQueue(c)
  <2>1. DeviceTypeOK' /\ UNCHANGED <<queue_head, inflight>> /\ Held' = Held
    BY <1>0, <1>5, OtherHeld
  <2>2. DeviceBusy(c) => inflight # {} /\ depth >= 2
    BY <1>0, HeldTwo DEF DeviceBusy, DepthExact
  <2>3. PICK l \in {"idle", "run"} :
             /\ pc' = [pc EXCEPT ![c] = l]
             /\ l = "idle" => (inflight # {} /\ depth >= 2) \/ elv = "bypass"
             /\ pc[c] \in {"idle", "run", "issue"}
             /\ pc[c] = "idle" => elv \in {"attached", "bypass"}
    BY <1>5, <2>2 DEF DeviceBusy, DeviceIssued, DeviceBypassed, RunQueue, At
  <2> QED  BY <1>1, <1>2, <2>1, <2>3
<1> QED  BY <1>3, <1>4, <1>5

\* The completion before the last one finds depth > 0.
LEMMA AlphaCompleteInv ==
  ASSUME AlphaInv, NEW r \in Requests, sfq_completed(r)
  PROVE  AlphaInv'
<1> USE DEF AlphaInv
<1>0. /\ AlphaTypeOK /\ DeviceTypeOK /\ Held \in Nat /\ depth \in Nat
  BY AlphaFacts DEF AlphaTypeOK
<1>1. /\ DeviceComplete(r) /\ depth' = depth - 1
      /\ unplug_work' = (unplug_work \/ depth' > 0)
      /\ UNCHANGED <<requests, start_tag, virtual_time, cur, latest_finish_tag>>
      /\ UNCHANGED <<plugged, stale, elv>>
  BY DEF sfq_completed, FreeSlot, KickIf
<1>2. inflight' = inflight \ {r} /\ r \in inflight /\ UNCHANGED <<queue_head, pc>>
  BY <1>1 DEF DeviceComplete
<1>3. DeviceTypeOK' /\ Held > 0 /\ Held' = Held - 1
  BY <1>0, <1>1, CompleteHeld
<1>4. DepthExact' /\ depth' \in Nat
  BY <1>0, <1>1, <1>3, DepthAssumption DEF DepthExact
<1>5. AlphaTypeOK'
  BY <1>0, <1>1, <1>2, <1>3, <1>4 DEF AlphaTypeOK, FrameTypeOK
<1>6. OnePlace' /\ HasRequest' /\ Heaped' /\ NothingLeft'
  BY <1>1, <1>2 DEF OnePlace, Apart, InArray, SettingUp, HasRequest, Heaped, NothingLeft
<1>7. Following'
  <2>1. depth >= 2 => depth' > 0
    BY <1>0, <1>1
  <2>2. depth >= 2 => unplug_work'
    BY <1>1, <2>1, Zenon
  <2> QED  BY <1>1, <1>2, <2>2 DEF Following
<1> QED  BY <1>4, <1>5, <1>6, <1>7

LEMMA AlphaKickInv ==
  ASSUME AlphaInv, KeepingArray(Kicked)
  PROVE  AlphaInv'
<1> USE DEF AlphaInv
<1>0. AlphaTypeOK /\ pc \in [Ctx -> AlphaLabels] /\ DeviceTypeOK
  BY AlphaFacts
<1>1. /\ UNCHANGED <<requests, start_tag, virtual_time, depth, cur, latest_finish_tag>>
      /\ UNCHANGED <<plugged, stale, queue_head, inflight, issuing>>
  BY DEF KeepingArray, Kicked, kick_queue, KickSuccessor, KickAfterFree, RunQueue,
         arrayVars, deviceVars
<1>2. OnePlace' /\ DepthExact' /\ Heaped'
  BY <1>1, SameOnePlace, SameHeld, SameHeap
<1>3. CASE kick_queue
  <2>1. /\ unplug_work' = FALSE /\ elv \in {"attached", "bypass"} /\ elv' = elv
        /\ pc[Kblockd] = "idle" /\ pc' = [pc EXCEPT ![Kblockd] = "run"]
    BY <1>3 DEF kick_queue, RunQueue, At
  <2>2. AlphaTypeOK'
    BY <1>0, <1>1, <2>1 DEF AlphaTypeOK, FrameTypeOK, DeviceTypeOK
  <2>3. HasRequest' /\ NothingLeft'
    BY <1>0, <1>1, <2>1, KblockdAssumption DEF HasRequest, NothingLeft, Tasks, AlphaLabels
  <2>4. Following'
    BY <1>0, <2>1, KblockdAssumption DEF Following
  <2> QED  BY <1>2, <2>2, <2>3, <2>4
<1>4. CASE KickSuccessor \/ KickAfterFree
  <2>1. /\ UNCHANGED pc /\ unplug_work' \in {unplug_work, FALSE}
        /\ elv' \in {elv, "oops"} /\ elv \in {"detached", "freed"}
    BY <1>4 DEF KickSuccessor, KickAfterFree, deviceVars
  <2>2. AlphaTypeOK'
    BY <1>0, <1>1, <2>1 DEF AlphaTypeOK, FrameTypeOK, DeviceTypeOK
  <2>3. HasRequest' /\ NothingLeft' /\ Following'
    BY <1>1, <2>1 DEF HasRequest, NothingLeft, Following
  <2> QED  BY <1>2, <2>2, <2>3
<1> QED  BY <1>3, <1>4 DEF KeepingArray, Kicked

\* A switch: the drain begins, the elevator data are freed and made again.
LEMMA AlphaSwitchInv ==
  ASSUME AlphaInv,
         \/ KeepingArray(BypassStart) \/ sfq_exit_queue \/ sfq_init_queue
         \/ \E c \in Ctx : KeepingArray(DrainStart(c))
  PROVE  AlphaInv'
<1> USE DEF AlphaInv
<1>0. AlphaTypeOK /\ pc \in [Ctx -> AlphaLabels] /\ DeviceTypeOK
  BY AlphaFacts
<1>1. CASE KeepingArray(BypassStart) \/ sfq_exit_queue
  <2>1. /\ UNCHANGED <<requests, start_tag, virtual_time, depth, cur>>
        /\ UNCHANGED <<latest_finish_tag, plugged, stale, unplug_work, pc>>
        /\ UNCHANGED <<queue_head, inflight, issuing>>
        /\ \/ elv = "attached" /\ elv' = "bypass"
           \/ elv = "detached" /\ elv' = "freed"
    BY <1>1 DEF KeepingArray, BypassStart, sfq_exit_queue, arrayVars, deviceVars
  <2>2. AlphaTypeOK' /\ HasRequest' /\ NothingLeft' /\ Following'
    BY <1>0, <2>1 DEF AlphaTypeOK, FrameTypeOK, DeviceTypeOK, HasRequest,
                      NothingLeft, Following
  <2> QED  BY <2>1, <2>2, SameOnePlace, SameHeld, SameHeap
<1>2. CASE sfq_init_queue
  <2>1. /\ UNCHANGED <<start_tag, cur, latest_finish_tag, plugged, stale>>
        /\ UNCHANGED <<queue_head, inflight, issuing, pc>> /\ unplug_work' = FALSE
        /\ elv = "freed" /\ elv' = "attached"
        /\ requests' = <<>> /\ virtual_time' = 0 /\ depth' = 0
    BY <1>2 DEF sfq_init_queue, deviceVars
  <2>2. requests = <<>> /\ queue_head = <<>> /\ inflight = {} /\ plugged = {}
        /\ \A c \in Ctx : pc[c] = "idle"
    BY <2>1 DEF NothingLeft
  <2>3. AlphaTypeOK'
    BY <1>0, <2>1, EmptySeq DEF AlphaTypeOK, FrameTypeOK, DeviceTypeOK
  <2>4. DepthExact'
    BY <2>1, <2>2, FS_EmptySet, EmptySeq, DepthAssumption DEF DepthExact, Held
  <2>5. OnePlace' /\ HasRequest' /\ Heaped'
    BY <2>1, <2>2, SameOnePlace, SameHeap DEF HasRequest
  <2>6. NothingLeft' /\ Following'
    BY <2>1, <2>2 DEF NothingLeft, Following
  <2> QED  BY <2>3, <2>4, <2>5, <2>6
<1>3. ASSUME NEW c \in Ctx, KeepingArray(DrainStart(c)) PROVE AlphaInv'
  <2>1. /\ UNCHANGED <<requests, start_tag, virtual_time, depth, cur>>
        /\ UNCHANGED <<latest_finish_tag, plugged, stale, unplug_work, elv>>
        /\ UNCHANGED <<queue_head, inflight, issuing>>
        /\ elv = "bypass" /\ pc[c] = "idle" /\ pc' = [pc EXCEPT ![c] = "drain"]
    BY <1>3 DEF KeepingArray, DrainStart, At, arrayVars, frameVars
  <2>2. AlphaTypeOK' /\ HasRequest' /\ NothingLeft'
    BY <1>0, <2>1 DEF AlphaTypeOK, FrameTypeOK, DeviceTypeOK, HasRequest,
                      NothingLeft, AlphaLabels
  <2>3. Following'
    BY <2>1 DEF Following
  <2> QED  BY <2>1, <2>2, <2>3, SameOnePlace, SameHeld, SameHeap
<1> QED  BY <1>1, <1>2, <1>3

-----------------------------------------------------------------------------
LEMMA AlphaStepInv == AlphaInv /\ [AlphaNext]_alphaVars => AlphaInv'
<1> SUFFICES ASSUME AlphaInv, [AlphaNext]_alphaVars PROVE AlphaInv'
  OBVIOUS
<1>1. ASSUME NEW p \in Tasks, AlphaSetUp(p) PROVE AlphaInv'
  BY <1>1, SetRequestInv, ReadTagsInv, AssignInv DEF AlphaSetUp
<1>2. ASSUME NEW p \in Tasks, NEW r \in Requests,
             sfq_add_request(p, r) \/ MergeAway(p, r)
      PROVE  AlphaInv'
  BY <1>2, AddInv, MergeInv
<1>3. ASSUME NEW c \in Ctx, AlphaRequestFn(c) \/ Issued(c) \/ Unasked(c)
      PROVE  AlphaInv'
  <2>1. CASE PeekArray(c)
    BY <2>1, AlphaDispatchInv, AlphaNothingInv DEF PeekArray
  <2>2. CASE \/ elv = "bypass" /\ DeviceAlone(DeviceBypassed(c))
             \/ DeviceAlone(DeviceBusy(c) \/ DeviceStart(c))
             \/ Issued(c) \/ Unasked(c)
    BY <2>2, AlphaDeviceInv DEF DeviceAlone, KeepingArray, Issued, Unasked
  <2> QED  BY <1>3, <2>1, <2>2 DEF AlphaRequestFn
<1>4. ASSUME NEW r \in Requests, sfq_completed(r) PROVE AlphaInv'
  BY <1>4, AlphaCompleteInv
<1>5. CASE KeepingArray(Kicked)
  BY <1>5, AlphaKickInv
<1>6. CASE Switch /\ elv # "oops"
  <2>1. ASSUME NEW c \in Ctx, DrainArray(c) PROVE AlphaInv'
    BY <1>6, <2>1, AlphaDispatchInv, AlphaNothingInv DEF DrainArray
  <2> QED  BY <1>6, <2>1, AlphaSwitchInv DEF Switch
<1>7. CASE UNCHANGED alphaVars
  <2>1. /\ UNCHANGED <<requests, start_tag, virtual_time, depth, cur>>
        /\ UNCHANGED <<latest_finish_tag, plugged, stale, unplug_work, elv>>
        /\ UNCHANGED <<queue_head, inflight, issuing, pc>>
    BY <1>7 DEF alphaVars, arrayVars, frameVars, deviceVars
  <2>2. AlphaTypeOK' /\ HasRequest' /\ NothingLeft' /\ Following'
    BY <2>1 DEF AlphaInv, AlphaTypeOK, FrameTypeOK, DeviceTypeOK, HasRequest,
                NothingLeft, Following
  <2> QED  BY <2>1, <2>2, SameOnePlace, SameHeld, SameHeap DEF AlphaInv
<1> QED  BY <1>1, <1>2, <1>3, <1>4, <1>5, <1>6, <1>7 DEF AlphaNext

\* The invariant holds in every state, whatever the tasks inside
\* sfq_set_request read and write without the lock.
THEOREM AlphaInvariance == AlphaSpec => []AlphaInv
<1>1. AlphaInit => AlphaInv
  BY AlphaInitInv
<1>2. AlphaInv /\ [AlphaNext]_alphaVars => AlphaInv'
  BY AlphaStepInv
<1> QED  BY <1>1, <1>2, PTL DEF AlphaSpec

\* depth counts what the device holds, one request beyond REQUEST_DEPTH at
\* most.
THEOREM AlphaDepth == AlphaSpec => []DepthExact
<1>1. AlphaInv => DepthExact
  BY DEF AlphaInv
<1> QED  BY <1>1, AlphaInvariance, PTL

\* No lost kick: the completion that does not kick is the last of two or more
\* when anything is held back, and the one before it kicked.
THEOREM AlphaNotStranded == AlphaSpec => []NoStranded
<1>1. AlphaInv => NoStranded
  BY DEF AlphaInv, AlphaTypeOK, FrameTypeOK, Following, NothingLeft, NoStranded
<1> QED  BY <1>1, AlphaInvariance, PTL

-----------------------------------------------------------------------------
\* Only a dispatch increases depth.
LEMMA OnlyDispatchCounts ==
  ASSUME AlphaInv, AlphaNext, depth' > depth
  PROVE  sfq_dispatch /\ UNCHANGED start_tag
<1>0. depth \in Nat
  BY DEF AlphaInv, AlphaTypeOK
<1>1. ~ (depth' = depth) /\ ~ (depth' = depth - 1)
  BY <1>0
<1>2. ASSUME NEW p \in Tasks, AlphaSetUp(p) PROVE FALSE
  BY <1>1, <1>2 DEF AlphaSetUp, sfq_set_request, ReadLast, CompareTags, AdvanceTime,
                    AssignTags, arrayVars
<1>3. ASSUME NEW p \in Tasks, NEW r \in Requests,
             sfq_add_request(p, r) \/ MergeAway(p, r)
      PROVE  FALSE
  BY <1>1, <1>3 DEF sfq_add_request, MergeAway, arrayVars
<1>4. ASSUME NEW c \in Ctx, AlphaRequestFn(c) \/ Issued(c) \/ Unasked(c)
      PROVE  sfq_dispatch /\ UNCHANGED start_tag
  <2>1. ASSUME UNCHANGED arrayVars PROVE FALSE
    BY <1>1, <2>1 DEF arrayVars
  <2>2. CASE PeekArray(c)
    BY <1>1, <2>2 DEF PeekArray, Asked, sfq_dispatch_nothing
  <2> QED  BY <1>4, <2>1, <2>2 DEF AlphaRequestFn, Issued, Unasked, DeviceAlone, KeepingArray
<1>5. ASSUME NEW r \in Requests, sfq_completed(r) PROVE FALSE
  BY <1>1, <1>5 DEF sfq_completed, FreeSlot
<1>6. CASE KeepingArray(Kicked)
  BY <1>1, <1>6 DEF KeepingArray, arrayVars
<1>7. CASE Switch
  <2>1. ASSUME UNCHANGED arrayVars PROVE FALSE
    BY <1>1, <2>1 DEF arrayVars
  <2>2. CASE sfq_init_queue
    BY <1>0, <2>2 DEF sfq_init_queue
  <2>3. ASSUME NEW c \in Ctx, DrainArray(c)
        PROVE  sfq_dispatch /\ UNCHANGED start_tag
    BY <1>1, <2>3 DEF DrainArray, Asked, sfq_dispatch_nothing
  <2> QED  BY <1>7, <2>1, <2>2, <2>3 DEF Switch, KeepingArray, sfq_exit_queue
<1> QED  BY <1>2, <1>3, <1>4, <1>5, <1>6, <1>7 DEF AlphaNext

\* A dispatch takes a request of the least start tag out of the array and
\* loses no other one, for arrays of any length.
THEOREM AlphaLeast == AlphaSpec => DispatchesLeast
<1> DEFINE Takes ==
      depth' > depth =>
        \E r \in InArray : /\ InArray' = InArray \ {r}
                           /\ Len(requests') = Len(requests) - 1
                           /\ \A s \in InArray : start_tag[r] <= start_tag[s]
<1>1. AlphaInv /\ [AlphaNext]_alphaVars => [Takes]_alphaVars
  <2> SUFFICES ASSUME AlphaInv, AlphaNext, depth' > depth
               PROVE  \E r \in InArray :
                        /\ InArray' = InArray \ {r}
                        /\ Len(requests') = Len(requests) - 1
                        /\ \A s \in InArray : start_tag[r] <= start_tag[s]
    OBVIOUS
  <2>1. sfq_dispatch
    BY OnlyDispatchCounts
  <2> QED  BY <2>1, TakesRoot
<1> QED  BY <1>1, AlphaInvariance, PTL DEF AlphaSpec, DispatchesLeast

-----------------------------------------------------------------------------
(* The virtual time.                                                       *)

LEMMA StillAdvancing ==
  ASSUME AlphaInv, NEW c \in Ctx, NEW label, At(c, label), label # "advance",
         NEW p \in Tasks, pc'[p] = "advance"
  PROVE  pc[p] = "advance" /\ p # c
<1>1. pc \in [Ctx -> AlphaLabels] /\ p \in Ctx
  BY AlphaFacts DEF AlphaInv, Tasks
<1> QED  BY <1>1 DEF At

\* What a task compares its finish tag with is the time it advances, unless
\* another task has advanced it: then the task is overtaken.
AdvancesForward ==
  \A p \in Tasks : pc[p] = "advance" /\ p \notin overtaken =>
    virtual_time < latest_finish_tag[p]

LEMMA OnlyCompareAdvances ==
  ASSUME AlphaInv, AlphaNext, NEW p \in Tasks, pc'[p] = "advance"
  PROVE  \/ pc[p] = "advance" /\ latest_finish_tag'[p] = latest_finish_tag[p]
         \/ /\ virtual_time < latest_finish_tag[p]
            /\ pc[p] # "advance" /\ UNCHANGED <<virtual_time, latest_finish_tag>>
<1> DEFINE Goal == pc[p] = "advance" /\ latest_finish_tag'[p] = latest_finish_tag[p]
<1>1. /\ pc \in [Ctx -> AlphaLabels] /\ p \in Ctx /\ Tasks \subseteq Ctx
      /\ latest_finish_tag \in [Tasks -> Nat]
  BY AlphaFacts DEF AlphaInv, AlphaTypeOK, Tasks
<1>2. ASSUME NEW q \in Tasks, AlphaSetUp(q)
      PROVE  \/ Goal
             \/ /\ virtual_time < latest_finish_tag[p]
                /\ pc[p] # "advance" /\ UNCHANGED <<virtual_time, latest_finish_tag>>
  <2>1. ASSUME NEW r \in Requests, sfq_set_request(q, r) PROVE Goal
    <3>1. At(q, "tag") \/ At(q, "last")
      BY <2>1 DEF sfq_set_request, At
    <3> QED  BY <1>1, <2>1, <3>1, StillAdvancing DEF sfq_set_request
  <2>2. CASE ReadLast(q)
    <3>1. CASE pc' = pc /\ UNCHANGED latest_finish_tag
      BY <3>1
    <3>2. CASE At(q, "compare")
               /\ latest_finish_tag' = [latest_finish_tag EXCEPT
                    ![q] = finish_tag(requests[Len(requests)])]
      <4>1. pc[p] = "advance" /\ p # q
        BY <1>1, <3>2, StillAdvancing
      <4> QED  BY <1>1, <3>2, <4>1
    <3> QED  BY <2>2, <3>1, <3>2 DEF ReadLast
  <2>3. CASE CompareTags(q)
    <3>1. UNCHANGED <<virtual_time, latest_finish_tag>> /\ pc[q] = "compare"
      BY <2>3 DEF CompareTags, arrayVars
    <3>2. CASE TagIsNewer(q)
      <4>1. At(q, "advance")
        BY <2>3, <3>2 DEF CompareTags
      <4> QED  BY <1>1, <3>1, <3>2, <4>1 DEF At, TagIsNewer
    <3>3. CASE ~ TagIsNewer(q)
      <4>1. At(q, "tag")
        BY <2>3, <3>3 DEF CompareTags
      <4> QED  BY <1>1, <3>1, <4>1, StillAdvancing
    <3> QED  BY <3>2, <3>3
  <2>4. CASE AdvanceTime(q)
    BY <1>1, <2>4, StillAdvancing DEF AdvanceTime
  <2>5. CASE AssignTags(q)
    BY <1>1, <2>5, StillAdvancing DEF AssignTags
  <2> QED  BY <1>2, <2>1, <2>2, <2>3, <2>4, <2>5 DEF AlphaSetUp
<1>3. ASSUME NEW q \in Tasks, NEW r \in Requests,
             sfq_add_request(q, r) \/ MergeAway(q, r)
      PROVE  Goal
  <2>1. At(q, "run") \/ At(q, "flush")
    BY <1>3 DEF sfq_add_request, MergeAway, InsertMerge, MergeLinked, Insert
  <2>2. UNCHANGED latest_finish_tag
    BY <1>3 DEF sfq_add_request, MergeAway, arrayVars
  <2> QED  BY <1>1, <2>1, <2>2, StillAdvancing
<1>4. ASSUME NEW c \in Ctx, AlphaRequestFn(c) \/ Issued(c) \/ Unasked(c)
      PROVE  Goal
  <2>1. CASE PeekArray(c)
    BY <2>1, StillAdvancing DEF PeekArray, Asked
  <2>2. CASE UNCHANGED arrayVars
             /\ (\/ DeviceBypassed(c) \/ DeviceBusy(c) \/ DeviceStart(c)
                 \/ DeviceIssued(c) \/ DeviceRequeue(c) \/ RunQueue(c))
    <3>1. UNCHANGED latest_finish_tag
      BY <2>2 DEF arrayVars
    <3>2. At(c, "idle") \/ At(c, "issue") \/ At(c, "run")
      BY <2>2 DEF DeviceBypassed, DeviceBusy, DeviceStart, DeviceIssued, DeviceRequeue,
                  RunQueue
    <3> QED  BY <3>1, <3>2, StillAdvancing
  <2> QED  BY <1>4, <2>1, <2>2 DEF AlphaRequestFn, Issued, Unasked, DeviceAlone,
                                   KeepingArray
<1>5. ASSUME NEW r \in Requests, sfq_completed(r) PROVE Goal
  BY <1>5 DEF sfq_completed, DeviceComplete
<1>6. CASE KeepingArray(Kicked)
  <2>1. UNCHANGED latest_finish_tag
    BY <1>6 DEF KeepingArray, arrayVars
  <2>2. At(Kblockd, "run") \/ pc' = pc
    BY <1>6 DEF KeepingArray, Kicked, kick_queue, KickSuccessor, KickAfterFree, RunQueue,
                deviceVars
  <2> QED  BY <2>1, <2>2, StillAdvancing, KblockdAssumption
<1>7. CASE Switch
  <2>1. UNCHANGED latest_finish_tag
    BY <1>7 DEF Switch, KeepingArray, arrayVars, sfq_exit_queue, sfq_init_queue,
                DrainArray, Asked
  <2>2. pc' = pc \/ \E c \in Ctx, l \in AlphaLabels \ {"advance"} : At(c, l)
    <3>1. CASE KeepingArray(BypassStart) \/ sfq_exit_queue \/ sfq_init_queue
      BY <3>1 DEF KeepingArray, BypassStart, sfq_exit_queue, sfq_init_queue, deviceVars
    <3>2. ASSUME NEW c \in Ctx, KeepingArray(DrainStart(c)) PROVE At(c, "drain")
      BY <3>2 DEF KeepingArray, DrainStart
    <3>3. ASSUME NEW c \in Ctx, DrainArray(c)
          PROVE  pc' = pc \/ At(c, "idle") \/ At(c, "run")
      BY <3>3 DEF DrainArray, DrainTurnEnds
    <3> QED  BY <1>7, <3>1, <3>2, <3>3 DEF Switch, AlphaLabels
  <2> QED  BY <2>1, <2>2, StillAdvancing
<1> QED  BY <1>2, <1>3, <1>4, <1>5, <1>6, <1>7 DEF AlphaNext

\* Only AdvanceTime changes the time of an attached elevator.
LEMMA OnlyAdvanceChangesTime ==
  ASSUME AlphaNext, elv = "attached", virtual_time' # virtual_time
  PROVE  \E p \in Tasks : AdvanceTime(p)
<1>1. ASSUME NEW p \in Tasks, AlphaSetUp(p) PROVE AdvanceTime(p)
  BY <1>1 DEF AlphaSetUp, sfq_set_request, ReadLast, CompareTags, AssignTags, arrayVars
<1>2. ASSUME NEW p \in Tasks, NEW r \in Requests,
             sfq_add_request(p, r) \/ MergeAway(p, r)
      PROVE  FALSE
  BY <1>2 DEF sfq_add_request, MergeAway, arrayVars
<1>3. ASSUME NEW c \in Ctx, AlphaRequestFn(c) \/ Issued(c) \/ Unasked(c)
      PROVE  FALSE
  BY <1>3 DEF AlphaRequestFn, Issued, Unasked, DeviceAlone, KeepingArray, arrayVars,
              PeekArray, Asked
<1>4. ASSUME NEW r \in Requests, sfq_completed(r) PROVE FALSE
  BY <1>4 DEF sfq_completed
<1>5. CASE KeepingArray(Kicked)
  BY <1>5 DEF KeepingArray, arrayVars
<1>6. CASE Switch
  BY <1>6 DEF Switch, KeepingArray, arrayVars, sfq_exit_queue, sfq_init_queue,
              DrainArray, Asked
<1> QED  BY <1>1, <1>2, <1>3, <1>4, <1>5, <1>6 DEF AlphaNext

LEMMA AdvancesForwardStep ==
  ASSUME AlphaInv, AdvancesForward, AlphaNext, Overtakes
  PROVE  AdvancesForward'
<1> SUFFICES ASSUME NEW p \in Tasks, pc'[p] = "advance", p \notin overtaken'
             PROVE  virtual_time' < latest_finish_tag'[p]
  BY DEF AdvancesForward
<1>1. CASE pc[p] = "advance" /\ latest_finish_tag'[p] = latest_finish_tag[p]
  <2>1. p \notin overtaken /\ virtual_time' = virtual_time
    BY <1>1 DEF Overtakes
  <2> QED  BY <1>1, <2>1 DEF AdvancesForward
<1>2. CASE /\ virtual_time < latest_finish_tag[p]
           /\ pc[p] # "advance" /\ UNCHANGED <<virtual_time, latest_finish_tag>>
  BY <1>2
<1> QED  BY <1>1, <1>2, OnlyCompareAdvances

\* The virtual time of an attached elevator goes back only where a task of
\* sfq_set_request writes a finish tag that another task has overtaken between
\* its comparison and its write.
THEOREM AlphaTime == MCSpec => GoesBackOnlyInRaces
<1> DEFINE Forward ==
      elv = "attached" /\ virtual_time' < virtual_time =>
        \E p \in overtaken : pc'[p] = "tag"
<1>1. MCInit => AdvancesForward
  BY DEF MCInit, AlphaInit, FrameInit, Tasks, AdvancesForward
<1>2. MCSpec => []AlphaInv
  <2>1. MCInit => AlphaInit
    BY DEF MCInit
  <2>2. [AlphaNext /\ Overtakes]_<<alphaVars, overtaken>> => [AlphaNext]_alphaVars
    OBVIOUS
  <2> QED  BY <2>1, <2>2, AlphaInvariance, PTL DEF MCSpec, AlphaSpec
<1>3. AlphaInv /\ AdvancesForward /\ [AlphaNext /\ Overtakes]_<<alphaVars, overtaken>>
        => AdvancesForward'
  <2>1. CASE UNCHANGED <<alphaVars, overtaken>>
    BY <2>1 DEF AdvancesForward, alphaVars, arrayVars, deviceVars
  <2> QED  BY <2>1, AdvancesForwardStep
<1>4. AlphaInv /\ AdvancesForward /\ [AlphaNext /\ Overtakes]_<<alphaVars, overtaken>>
        => [Forward]_<<alphaVars, overtaken>>
  <2> SUFFICES ASSUME AlphaInv, AdvancesForward, AlphaNext, Overtakes,
                      elv = "attached", virtual_time' < virtual_time
               PROVE  \E p \in overtaken : pc'[p] = "tag"
    OBVIOUS
  <2>1. virtual_time \in Nat /\ latest_finish_tag \in [Tasks -> Nat]
    BY DEF AlphaInv, AlphaTypeOK
  <2>2. virtual_time' # virtual_time
    BY <2>1
  <2>3. PICK p \in Tasks : AdvanceTime(p)
    BY <2>2, OnlyAdvanceChangesTime
  <2>4. /\ pc[p] = "advance" /\ virtual_time' = latest_finish_tag[p] /\ pc'[p] = "tag"
    <3>1. pc \in [Ctx -> AlphaLabels] /\ p \in Ctx
      BY AlphaFacts DEF AlphaInv, Tasks
    <3> QED  BY <2>3, <3>1 DEF AdvanceTime, At
  <2>5. ~ (virtual_time < latest_finish_tag[p])
    BY <2>1, <2>4
  <2> QED  BY <2>4, <2>5 DEF AdvancesForward
<1> QED  BY <1>1, <1>2, <1>3, <1>4, PTL DEF MCSpec, GoesBackOnlyInRaces

=============================================================================
