------------------------------ MODULE CfqProofs -------------------------------
(***************************************************************************)
(* Proofs about Cfq for all finite sets of processes, of requests and of   *)
(* queues, and every set of contexts.                                      *)
(*                                                                         *)
(* Most operators of CfqQueues take cfq_data through a few expiries and    *)
(* puts of references.  What those keep is said once (Kept): what is       *)
(* queued and outstanding, a whole round-robin list, and an idle timer     *)
(* that is only cancelled together with a kick.  The references come       *)
(* second, on top of that: every operator takes balanced books to balanced *)
(* books (Balanced), by way of states in which a put is still due.         *)
(***************************************************************************)
EXTENDS Cfq, BlockDeviceProofs

Fields == {"ref", "new_cfqq", "sync", "coop", "cic", "async_cfqq", "own",
           "rq_sync", "queued", "dispatched", "activated", "busy", "active",
           "slice_new", "wait_request", "must_dispatch", "wait_busy",
           "armed", "firing", "kick", "bug"}

Kinds == {"sync", "async"}

\* The types of what the list, the driver and the timer depend on.
Data(s) ==
  /\ DOMAIN s = Fields
  /\ s.new_cfqq \in [Queues -> MaybeQueue]
  /\ s.cic \in [Procs -> [Kinds -> MaybeQueue]]
  /\ s.own \in [Requests -> MaybeQueue]
  /\ s.async_cfqq \in MaybeQueue /\ s.active \in MaybeQueue
  /\ s.queued \subseteq Requests /\ \A r \in s.queued : s.own[r] \in Queues
  /\ s.armed \in BOOLEAN /\ s.firing \in BOOLEAN /\ s.kick \in BOOLEAN

\* The merges scheduled lead somewhere.
Acyclic(s) ==
  \A S \in SUBSET Queues : S # {} => \E q \in S : s.new_cfqq[q] \notin S

\* BusyExactly, of any cfq_data.
Listed(s) ==
  s.busy = {q \in Queues : ~Empty(s, q)} \cup ({s.active} \ {NoCfqq})

Good(s) == Data(s) /\ Acyclic(s) /\ Listed(s)

\* The timer, its callback or the work item will run the queue.
Live(s) == s.kick \/ s.armed \/ s.firing

Kept(s, t) ==
  /\ Good(t)
  /\ t.queued = s.queued /\ t.dispatched = s.dispatched
  /\ t.activated = s.activated /\ t.own = s.own /\ t.firing = s.firing
  /\ t.busy \subseteq s.busy /\ t.active \in {s.active, NoCfqq}
  /\ Live(s) => Live(t) \/ t.busy = {}

-----------------------------------------------------------------------------
(* The active queue and its slice.                                         *)

LEMMA QueueFacts ==
  /\ NoCfqq \notin Queues /\ Oom \in Queues /\ Oom \notin Cfqqs
  /\ Queues \subseteq MaybeQueue /\ NoCfqq \in MaybeQueue
  /\ IsFiniteSet(Queues) /\ Cardinality(Queues) \in Nat
<1>1. IsFiniteSet(Queues)
  BY CfqqsAssumption, FS_AddElement DEF Queues
<1> QED  BY <1>1, CfqqsAssumption, FS_CardinalityType DEF Queues, MaybeQueue

\* Nothing the list depends on has changed.
LEMMA SameListed ==
  ASSUME NEW s, NEW t, Listed(s), t.queued = s.queued, t.own = s.own,
         t.busy = s.busy, t.active = s.active
  PROVE  Listed(t)
BY DEF Listed, Empty, Of

LEMMA ExpireKeeps ==
  ASSUME NEW s, Good(s), s.active # NoCfqq, NEW seeky \in BOOLEAN
  PROVE  LET e == Expire(s, seeky)
         IN  /\ Good(e) /\ e.active = NoCfqq /\ e.busy \subseteq s.busy
             /\ e.queued = s.queued /\ e.dispatched = s.dispatched
             /\ e.activated = s.activated /\ e.own = s.own
             /\ e.firing = s.firing /\ e.kick = s.kick
             /\ e.cic = s.cic /\ e.new_cfqq = s.new_cfqq
             /\ e.async_cfqq = s.async_cfqq /\ e.sync = s.sync
<1> DEFINE e == Expire(s, seeky)
<1>1. DOMAIN s = Fields
  BY DEF Good, Data
<1>2. /\ DOMAIN e = Fields /\ e.active = NoCfqq
      /\ e.busy = LeaveIfEmpty(s, s.active)
      /\ e.queued = s.queued /\ e.dispatched = s.dispatched
      /\ e.activated = s.activated /\ e.own = s.own
      /\ e.firing = s.firing /\ e.kick = s.kick
      /\ e.cic = s.cic /\ e.new_cfqq = s.new_cfqq
      /\ e.async_cfqq = s.async_cfqq /\ e.sync = s.sync
  BY <1>1 DEF Expire, DelTimer, Fields
<1>3. e.armed \in BOOLEAN
  BY <1>1 DEF Expire, DelTimer, Fields, Good, Data
<1>4. Data(e)
  BY <1>1, <1>2, <1>3, QueueFacts DEF Good, Data
<1>5. Acyclic(e)
  BY <1>2 DEF Good, Acyclic
<1>6. \A q \in Queues : Empty(e, q) <=> Empty(s, q)
  BY <1>2 DEF Empty, Of
<1>7. Listed(e)
  <2>1. s.active \in Queues
    BY DEF Good, Data, MaybeQueue
  <2>2. e.busy = {q \in Queues : ~Empty(s, q)}
    BY <1>2, <2>1 DEF Good, Listed, LeaveIfEmpty
  <2> HIDE DEF e
  <2> QED  BY <1>2, <1>6, <2>2 DEF Listed
<1>8. e.busy \subseteq s.busy
  BY <1>2 DEF LeaveIfEmpty
<1> QED  BY <1>2, <1>4, <1>5, <1>7, <1>8 DEF Good

\* cfq_schedule_dispatch: a kick, if there is anything to dispatch.
LEMMA ScheduleFields ==
  ASSUME NEW s, Good(s)
  PROVE  LET t == ScheduleDispatch(s)
         IN  /\ Good(t) /\ (t.kick \/ t.busy = {})
             /\ t.busy = s.busy /\ t.active = s.active
             /\ t.queued = s.queued /\ t.dispatched = s.dispatched
             /\ t.activated = s.activated /\ t.own = s.own
             /\ t.firing = s.firing /\ t.armed = s.armed
             /\ t.cic = s.cic /\ t.new_cfqq = s.new_cfqq
             /\ t.async_cfqq = s.async_cfqq
<1> DEFINE t == ScheduleDispatch(s)
<1>1. DOMAIN s = Fields /\ s.kick \in BOOLEAN
  BY DEF Good, Data
<1>2. /\ DOMAIN t = Fields /\ (t.kick \/ t.busy = {}) /\ t.kick \in BOOLEAN
      /\ t.busy = s.busy /\ t.active = s.active
      /\ t.queued = s.queued /\ t.dispatched = s.dispatched
      /\ t.activated = s.activated /\ t.own = s.own
      /\ t.firing = s.firing /\ t.armed = s.armed
      /\ t.cic = s.cic /\ t.new_cfqq = s.new_cfqq
      /\ t.async_cfqq = s.async_cfqq
  BY <1>1 DEF ScheduleDispatch, Fields
<1> HIDE DEF t
<1>3. Data(t) /\ Acyclic(t) /\ Listed(t)
  BY <1>2, SameListed DEF Good, Data, Acyclic
<1> QED  BY <1>2, <1>3 DEF Good, t

LEMMA BugFields ==
  ASSUME NEW s, Good(s), NEW P
  PROVE  LET t == BugIf(P, s)
         IN  /\ Good(t) /\ t.busy = s.busy /\ t.active = s.active
             /\ t.queued = s.queued /\ t.dispatched = s.dispatched
             /\ t.activated = s.activated /\ t.own = s.own
             /\ t.firing = s.firing /\ t.armed = s.armed /\ t.kick = s.kick
             /\ t.cic = s.cic /\ t.new_cfqq = s.new_cfqq
             /\ t.async_cfqq = s.async_cfqq
<1> DEFINE t == BugIf(P, s)
<1>1. DOMAIN s = Fields
  BY DEF Good, Data
<1>2. /\ DOMAIN t = Fields
      /\ t.busy = s.busy /\ t.active = s.active
      /\ t.queued = s.queued /\ t.dispatched = s.dispatched
      /\ t.activated = s.activated /\ t.own = s.own
      /\ t.firing = s.firing /\ t.armed = s.armed /\ t.kick = s.kick
      /\ t.cic = s.cic /\ t.new_cfqq = s.new_cfqq
      /\ t.async_cfqq = s.async_cfqq
  BY <1>1 DEF BugIf, Fields
<1> HIDE DEF t
<1>3. Data(t) /\ Acyclic(t) /\ Listed(t)
  BY <1>2, SameListed DEF Good, Data, Acyclic
<1> QED  BY <1>2, <1>3 DEF Good, t

-----------------------------------------------------------------------------
(* References.                                                             *)

LEMMA KeptSelf ==
  ASSUME NEW s, Good(s)
  PROVE  Kept(s, s)
BY DEF Kept

\* The last put of a queue ends its slice, and kicks if others are busy.
LEMMA PutFields ==
  ASSUME NEW s, Good(s), NEW q \in Queues
  PROVE  LET t == PutQueue(s, q)
         IN  /\ Good(t) /\ t.busy \subseteq s.busy
             /\ t.active \in {s.active, NoCfqq}
             /\ t.queued = s.queued /\ t.dispatched = s.dispatched
             /\ t.activated = s.activated /\ t.own = s.own
             /\ t.firing = s.firing /\ t.cic = s.cic
             /\ t.async_cfqq = s.async_cfqq
             /\ \A p \in Queues : t.new_cfqq[p] \in {s.new_cfqq[p], NoCfqq}
             /\ Live(s) => Live(t) \/ t.busy = {}
<1> DEFINE a == [s EXCEPT !.ref[q] = @ - 1]
           e == ExpireIfActive(a, q)
           P == Allocated(a, q) # {} \/ ~Empty(a, q) \/ q \in e.busy
           u == BugIf(P, e)
           v == [u EXCEPT !.new_cfqq[q] = NoCfqq, !.coop[q] = "none",
                          !.sync = @ \ {q}]
<1>0. DOMAIN s = Fields
  BY DEF Good, Data
<1>1. CASE s.ref[q] <= 0
  BY <1>1, BugFields DEF PutQueue, Live
<1>2. CASE ~(s.ref[q] <= 0)
  <2>1. PutQueue(s, q) = IF a.ref[q] > 0 THEN a ELSE v
    BY <1>2 DEF PutQueue
  <2>2. /\ DOMAIN a = Fields /\ a.busy = s.busy /\ a.active = s.active
        /\ a.queued = s.queued /\ a.dispatched = s.dispatched
        /\ a.activated = s.activated /\ a.own = s.own
        /\ a.firing = s.firing /\ a.armed = s.armed /\ a.kick = s.kick
        /\ a.cic = s.cic /\ a.new_cfqq = s.new_cfqq
        /\ a.async_cfqq = s.async_cfqq
    BY <1>0 DEF Fields
  <2> HIDE DEF a
  <2>3. Good(a)
    <3>1. Data(a) /\ Acyclic(a) /\ Listed(a)
      BY <2>2, SameListed DEF Good, Data, Acyclic
    <3> QED  BY <3>1 DEF Good
  <2>4. /\ Good(e) /\ e.busy \subseteq a.busy
        /\ e.active \in {a.active, NoCfqq}
        /\ e.queued = a.queued /\ e.dispatched = a.dispatched
        /\ e.activated = a.activated /\ e.own = a.own /\ e.firing = a.firing
        /\ e.cic = a.cic /\ e.new_cfqq = a.new_cfqq
        /\ e.async_cfqq = a.async_cfqq
        /\ (e = a \/ e.kick \/ e.busy = {})
    <3>1. CASE a.active = q
      <4> DEFINE x == Expire(a, FALSE)
      <4>1. a.active # NoCfqq
        BY <3>1, QueueFacts
      <4>2. /\ Good(x) /\ x.active = NoCfqq /\ x.busy \subseteq a.busy
            /\ x.queued = a.queued /\ x.dispatched = a.dispatched
            /\ x.activated = a.activated /\ x.own = a.own
            /\ x.firing = a.firing /\ x.cic = a.cic
            /\ x.new_cfqq = a.new_cfqq /\ x.async_cfqq = a.async_cfqq
        BY <2>3, <4>1, ExpireKeeps
      <4>3. e = ScheduleDispatch(x)
        BY <3>1 DEF ExpireIfActive
      <4> HIDE DEF x, e
      <4> QED  BY <4>2, <4>3, ScheduleFields
    <3>2. CASE a.active # q
      BY <2>3, <3>2 DEF ExpireIfActive
    <3> QED  BY <3>1, <3>2
  <2> HIDE DEF e, P
  <2>5. /\ Good(u) /\ u.busy = e.busy /\ u.active = e.active
        /\ u.queued = e.queued /\ u.dispatched = e.dispatched
        /\ u.activated = e.activated /\ u.own = e.own /\ u.firing = e.firing
        /\ u.armed = e.armed /\ u.kick = e.kick
        /\ u.cic = e.cic /\ u.new_cfqq = e.new_cfqq
        /\ u.async_cfqq = e.async_cfqq
    BY <2>4, BugFields
  <2> HIDE DEF u
  <2>6. DOMAIN u = Fields
    BY <2>5 DEF Good, Data
  <2>7. /\ DOMAIN v = Fields /\ v.busy = u.busy /\ v.active = u.active
        /\ v.queued = u.queued /\ v.dispatched = u.dispatched
        /\ v.activated = u.activated /\ v.own = u.own
        /\ v.firing = u.firing /\ v.armed = u.armed /\ v.kick = u.kick
        /\ v.cic = u.cic /\ v.async_cfqq = u.async_cfqq
        /\ v.new_cfqq = [u.new_cfqq EXCEPT ![q] = NoCfqq]
    BY <2>6 DEF Fields
  <2> HIDE DEF v
  <2>8. /\ v.new_cfqq \in [Queues -> MaybeQueue] /\ v.new_cfqq[q] = NoCfqq
        /\ \A p \in Queues : v.new_cfqq[p] \in {u.new_cfqq[p], NoCfqq}
    BY <2>5, <2>7, QueueFacts DEF Good, Data
  <2>9. Data(v)
    BY <2>5, <2>7, <2>8 DEF Good, Data
  <2>10. Acyclic(v)
    <3> SUFFICES ASSUME NEW S \in SUBSET Queues, S # {},
                        \A p \in S : v.new_cfqq[p] \in S
                 PROVE  FALSE
      BY DEF Acyclic
    <3>1. \A p \in S : u.new_cfqq[p] \in S
      BY <2>8, QueueFacts
    <3> QED  BY <2>5, <3>1 DEF Good, Acyclic
  <2>11. Listed(v)
    BY <2>5, <2>7, SameListed DEF Good
  <2>12. Good(v)
    BY <2>9, <2>10, <2>11 DEF Good
  <2>13. Live(s) => Live(v) \/ v.busy = {}
    BY <2>2, <2>4, <2>5, <2>7 DEF Live
  <2>14. /\ v.busy \subseteq s.busy /\ v.active \in {s.active, NoCfqq}
         /\ v.queued = s.queued /\ v.dispatched = s.dispatched
         /\ v.activated = s.activated /\ v.own = s.own
         /\ v.firing = s.firing /\ v.cic = s.cic
         /\ v.async_cfqq = s.async_cfqq
         /\ \A p \in Queues : v.new_cfqq[p] \in {s.new_cfqq[p], NoCfqq}
    BY <2>2, <2>4, <2>5, <2>7, <2>8
  <2>15. Live(s) => Live(a)
    BY <2>2 DEF Live
  <2> QED  BY <2>1, <2>2, <2>3, <2>12, <2>13, <2>14, <2>15
<1> QED  BY <1>1, <1>2
\* The walk along the merges that q is scheduled for.
LEMMA AheadFacts ==
  ASSUME NEW s, Good(s), NEW q \in Queues
  PROVE  LET g == Ahead(s, q)  N == Cardinality(Queues)
         IN  /\ g \in [0 .. N -> MaybeQueue] /\ g[0] = q
             /\ \A n \in 1 .. N :
                  g[n] = IF g[n - 1] = NoCfqq \/ s.new_cfqq[g[n - 1]] = q
                         THEN NoCfqq ELSE s.new_cfqq[g[n - 1]]
<1> DEFINE N == Cardinality(Queues)
           f == [p \in MaybeQueue |->
                   IF p = NoCfqq \/ s.new_cfqq[p] = q THEN NoCfqq
                   ELSE s.new_cfqq[p]]
           g[n \in 0 .. N] ==
             IF n = 0 THEN q
             ELSE LET p == g[n - 1]
                  IN IF p = NoCfqq \/ s.new_cfqq[p] = q THEN NoCfqq
                     ELSE s.new_cfqq[p]
<1>1. N \in Nat /\ q \in MaybeQueue /\ NoCfqq \in MaybeQueue
  BY QueueFacts
<1>2. s.new_cfqq \in [Queues -> MaybeQueue]
  BY DEF Good, Data
<1>3. \A p \in MaybeQueue : p # NoCfqq => s.new_cfqq[p] \in MaybeQueue
  BY <1>2 DEF MaybeQueue
<1>4. f \in [MaybeQueue -> MaybeQueue]
  BY <1>1, <1>3
<1>5. PICK h \in [0 .. N -> MaybeQueue] : IsWalk(h, N, f, q)
  <2> HIDE DEF f, N
  <2> QED  BY <1>1, <1>4, IteratesExist
<1>6. h = [n \in 0 .. N |->
             IF n = 0 THEN q
             ELSE IF h[n - 1] = NoCfqq \/ s.new_cfqq[h[n - 1]] = q THEN NoCfqq
                  ELSE s.new_cfqq[h[n - 1]]]
  <2>1. h = [n \in 0 .. N |-> IF n = 0 THEN q ELSE f[h[n - 1]]]
    <3> HIDE DEF f, N
    <3> QED  BY <1>5 DEF IsWalk
  <2>2. \A n \in 0 .. N : n # 0 => h[n - 1] \in MaybeQueue
    <3> HIDE DEF f, N
    <3>1. \A n \in 0 .. N : n # 0 => n - 1 \in 0 .. N
      BY <1>1
    <3> QED  BY <1>5, <3>1
  <2>3. \A n \in 0 .. N : n # 0 =>
          f[h[n - 1]] = IF h[n - 1] = NoCfqq \/ s.new_cfqq[h[n - 1]] = q
                        THEN NoCfqq ELSE s.new_cfqq[h[n - 1]]
    BY <2>2
  <2> HIDE DEF f, N
  <2> QED  BY <2>1, <2>3
<1>7. g = [n \in 0 .. N |->
             IF n = 0 THEN q
             ELSE IF g[n - 1] = NoCfqq \/ s.new_cfqq[g[n - 1]] = q THEN NoCfqq
                  ELSE s.new_cfqq[g[n - 1]]]
  BY <1>6
<1>8. Ahead(s, q) = g
  BY DEF Ahead
<1> HIDE DEF g, N
<1>9. /\ DOMAIN g = 0 .. N /\ g[0] = q
      /\ \A n \in 1 .. N :
           g[n] = IF g[n - 1] = NoCfqq \/ s.new_cfqq[g[n - 1]] = q
                  THEN NoCfqq ELSE s.new_cfqq[g[n - 1]]
  <2>1. \A n \in 1 .. N : n \in 0 .. N /\ n # 0
    BY <1>1
  <2>2. 0 \in 0 .. N
    BY <1>1
  <2> QED  BY <1>7, <2>1, <2>2
<1>10. ASSUME NEW n \in 0 .. N PROVE g[n] \in MaybeQueue
  <2> DEFINE Bad == {m \in 0 .. N : g[m] \notin MaybeQueue}
  <2> SUFFICES ASSUME Bad # {} PROVE FALSE
    OBVIOUS
  <2>1. Bad \subseteq Nat
    BY <1>1
  <2>2. PICK m \in Bad : \A i \in Bad : m <= i
    <3> HIDE DEF Bad
    <3> QED  BY <2>1, LeastNat
  <2>3. m \in 1 .. N /\ m - 1 \in 0 .. N /\ ~(m <= m - 1)
    BY <1>1, <1>9, <2>2
  <2>4. g[m - 1] \in MaybeQueue
    BY <2>2, <2>3
  <2> QED  BY <1>1, <1>3, <1>9, <2>2, <2>3, <2>4
<1>11. g \in [0 .. N -> MaybeQueue]
  <2>1. g = [n \in 0 .. N |-> g[n]]
    BY <1>7
  <2> QED  BY <1>10, <2>1
<1> QED  BY <1>8, <1>9, <1>11 DEF N

\* The puts of a walk, one after the other.
IsPuts(g, N, s, a) ==
  g = [n \in 0 .. N |->
         IF n = 0 THEN s
         ELSE IF a[n] = NoCfqq THEN g[n - 1] ELSE PutQueue(g[n - 1], a[n])]

LEMMA PutsExist ==
  ASSUME NEW N \in Nat, NEW s, NEW a
  PROVE  \E g : IsPuts(g, N, s, a)
<1> DEFINE Bad == {m \in Nat : ~ \E g : IsPuts(g, m, s, a)}
<1> SUFFICES ASSUME Bad # {} PROVE FALSE
  OBVIOUS
<1>1. PICK m \in Bad : \A i \in Bad : m <= i
  BY LeastNat
<1>2. m # 0
  <2> SUFFICES ASSUME m = 0 PROVE FALSE
    OBVIOUS
  <2>1. IsPuts([n \in 0 .. 0 |-> s], 0, s, a)
    BY DEF IsPuts
  <2> QED  BY <1>1, <2>1
<1>3. m - 1 \in Nat /\ m - 1 \notin Bad
  BY <1>1, <1>2
<1>4. PICK g : IsPuts(g, m - 1, s, a)
  BY <1>3
<1> DEFINE After(f, n) ==
             IF n = 0 THEN s
             ELSE IF a[n] = NoCfqq THEN f[n - 1] ELSE PutQueue(f[n - 1], a[n])
           h == [n \in 0 .. m |-> IF n = m THEN After(g, m) ELSE g[n]]
<1>5. /\ m \in Nat /\ m > 0
      /\ \A n \in 0 .. m : n # m => n \in 0 .. m - 1
      /\ \A n \in 0 .. m : n # 0 => n - 1 \in 0 .. m /\ n - 1 # m
  BY <1>1, <1>2
<1>6. \A n \in 0 .. m - 1 : g[n] = After(g, n)
  BY <1>4 DEF IsPuts
<1>7. \A n \in 0 .. m : n # 0 => h[n - 1] = g[n - 1]
  BY <1>5
<1>8. \A n \in 0 .. m : h[n] = After(g, n)
  BY <1>5, <1>6
<1>9. \A n \in 0 .. m : After(h, n) = After(g, n)
  BY <1>7
<1>10. h = [n \in 0 .. m |-> h[n]]
  OBVIOUS
<1>11. h = [n \in 0 .. m |-> After(h, n)]
  <2> HIDE DEF h, After
  <2> QED  BY <1>8, <1>9, <1>10
<1>12. IsPuts(h, m, s, a)
  <2> HIDE DEF h
  <2> QED  BY <1>11 DEF IsPuts
<1> QED  BY <1>1, <1>12

\* What several puts in a row keep.
Puts(s, t) ==
  /\ Good(t) /\ t.busy \subseteq s.busy
  /\ t.active \in {s.active, NoCfqq}
  /\ t.queued = s.queued /\ t.dispatched = s.dispatched
  /\ t.activated = s.activated /\ t.own = s.own
  /\ t.firing = s.firing /\ t.cic = s.cic /\ t.async_cfqq = s.async_cfqq
  /\ \A p \in Queues : t.new_cfqq[p] \in {s.new_cfqq[p], NoCfqq}
  /\ Live(s) => Live(t) \/ t.busy = {}

LEMMA PutPuts ==
  ASSUME NEW s, NEW t, Puts(s, t), NEW q \in Queues
  PROVE  Puts(s, PutQueue(t, q))
<1> DEFINE u == PutQueue(t, q)
<1>1. /\ Good(u) /\ u.busy \subseteq t.busy
      /\ u.active \in {t.active, NoCfqq}
      /\ u.queued = t.queued /\ u.dispatched = t.dispatched
      /\ u.activated = t.activated /\ u.own = t.own
      /\ u.firing = t.firing /\ u.cic = t.cic
      /\ u.async_cfqq = t.async_cfqq
      /\ \A p \in Queues : u.new_cfqq[p] \in {t.new_cfqq[p], NoCfqq}
      /\ Live(t) => Live(u) \/ u.busy = {}
  BY PutFields DEF Puts
<1> HIDE DEF u
<1>2. Live(s) => Live(u) \/ u.busy = {}
  BY <1>1 DEF Puts
<1>3. \A p \in Queues : u.new_cfqq[p] \in {s.new_cfqq[p], NoCfqq}
  BY <1>1 DEF Puts
<1>4. Puts(s, u)
  BY <1>1, <1>2, <1>3 DEF Puts
<1> QED  BY <1>4 DEF u

\* cfq_put_cooperator as a sequence of puts.
LEMMA CooperatorWalk ==
  ASSUME NEW s, Good(s), NEW q \in Queues
  PROVE  \E put : /\ put[0] = s /\ put[Cardinality(Queues)] = PutCooperator(s, q)
                  /\ \A n \in 1 .. Cardinality(Queues) :
                       put[n] = IF Ahead(s, q)[n] = NoCfqq THEN put[n - 1]
                                ELSE PutQueue(put[n - 1], Ahead(s, q)[n])
<1> DEFINE N == Cardinality(Queues)
           a == Ahead(s, q)
           put[n \in 0 .. N] ==
             IF n = 0 THEN s
             ELSE LET p == Ahead(s, q)[n]
                  IN IF p = NoCfqq THEN put[n - 1] ELSE PutQueue(put[n - 1], p)
<1>1. N \in Nat /\ a \in [0 .. N -> MaybeQueue]
  BY QueueFacts, AheadFacts
<1>2. \E g : IsPuts(g, N, s, a)
  <2> HIDE DEF N, a
  <2> QED  BY <1>1, PutsExist
<1>3. put = [n \in 0 .. N |->
               IF n = 0 THEN s
               ELSE IF a[n] = NoCfqq THEN put[n - 1] ELSE PutQueue(put[n - 1], a[n])]
  BY <1>2 DEF IsPuts
<1>4. PutCooperator(s, q) = put[N]
  BY DEF PutCooperator
<1>5. 0 \in 0 .. N /\ \A n \in 1 .. N : n \in 0 .. N /\ n # 0
  BY <1>1
<1> HIDE DEF put, a, N
<1>6. /\ put[0] = s
      /\ \A n \in 1 .. N : put[n] = IF a[n] = NoCfqq THEN put[n - 1]
                                    ELSE PutQueue(put[n - 1], a[n])
  BY <1>3, <1>5
<1> QED  BY <1>4, <1>6 DEF a, N

LEMMA CooperatorPuts ==
  ASSUME NEW s, Good(s), NEW q \in Queues
  PROVE  Puts(s, PutCooperator(s, q))
<1> DEFINE N == Cardinality(Queues)
           a == Ahead(s, q)
<1>1. N \in Nat /\ a \in [0 .. N -> MaybeQueue]
  BY QueueFacts, AheadFacts
<1>2. PICK put : /\ put[0] = s /\ put[N] = PutCooperator(s, q)
                 /\ \A n \in 1 .. N :
                      put[n] = IF a[n] = NoCfqq THEN put[n - 1]
                               ELSE PutQueue(put[n - 1], a[n])
  BY CooperatorWalk
<1> HIDE DEF a, N
<1>3. ASSUME NEW n \in 0 .. N PROVE Puts(s, put[n])
  <2> DEFINE Bad == {m \in 0 .. N : ~Puts(s, put[m])}
  <2> SUFFICES ASSUME Bad # {} PROVE FALSE
    OBVIOUS
  <2>1. Bad \subseteq Nat
    BY <1>1
  <2>2. PICK m \in Bad : \A i \in Bad : m <= i
    <3> HIDE DEF Bad
    <3> QED  BY <2>1, LeastNat
  <2>3. Puts(s, s)
    BY DEF Puts
  <2>4. m \in 1 .. N /\ m \in 0 .. N /\ m - 1 \in 0 .. N /\ ~(m <= m - 1)
    BY <1>1, <1>2, <2>2, <2>3
  <2>5. Puts(s, put[m - 1])
    BY <2>2, <2>4
  <2>6. put[m] = IF a[m] = NoCfqq THEN put[m - 1] ELSE PutQueue(put[m - 1], a[m])
    BY <1>2, <2>4
  <2>7. a[m] \in MaybeQueue
    BY <1>1, <2>4
  <2>8. CASE a[m] = NoCfqq
    BY <2>2, <2>5, <2>6, <2>8
  <2>9. CASE a[m] # NoCfqq
    <3>1. a[m] \in Queues
      BY <2>7, <2>9 DEF MaybeQueue
    <3>2. Puts(s, PutQueue(put[m - 1], a[m]))
      BY <2>5, <3>1, PutPuts
    <3> QED  BY <2>2, <2>6, <2>9, <3>2
  <2> QED  BY <2>8, <2>9
<1>4. N \in 0 .. N
  BY <1>1
<1> QED  BY <1>2, <1>3, <1>4

\* Puts keep what Kept says.
LEMMA PutsKept ==
  ASSUME NEW s, NEW t, Puts(s, t)
  PROVE  Kept(s, t)
BY DEF Puts, Kept

LEMMA KeptTwice ==
  ASSUME NEW s, NEW t, NEW u, Kept(s, t), Kept(t, u)
  PROVE  Kept(s, u)
BY DEF Kept

\* Changes to what none of this depends on.
LEMMA Unrelated ==
  ASSUME NEW s, NEW t, Kept(s, t), NEW u, Data(u), u.new_cfqq = t.new_cfqq,
         u.queued = t.queued, u.dispatched = t.dispatched,
         u.activated = t.activated, u.own = t.own, u.firing = t.firing,
         u.busy = t.busy, u.active = t.active,
         u.armed = t.armed, u.kick = t.kick
  PROVE  Kept(s, u)
<1>1. Acyclic(u) /\ Listed(u)
  BY SameListed DEF Kept, Good, Acyclic
<1> QED  BY <1>1 DEF Kept, Good, Live

LEMMA CicType ==
  ASSUME NEW c \in [Procs -> [Kinds -> MaybeQueue]], NEW p \in Procs,
         NEW kind \in Kinds, NEW q \in MaybeQueue
  PROVE  LET d == [c EXCEPT ![p][kind] = q]
         IN  /\ d \in [Procs -> [Kinds -> MaybeQueue]] /\ d[p][kind] = q
             /\ \A k \in Kinds : k # kind => d[p][k] = c[p][k]
OBVIOUS

\* A slice that ends.
LEMMA ExpirationsFields ==
  ASSUME NEW s, Good(s), NEW e \in Expirations(s)
  PROVE  /\ Good(e) /\ e.active = NoCfqq /\ e.busy \subseteq s.busy
         /\ e.queued = s.queued /\ e.dispatched = s.dispatched
         /\ e.activated = s.activated /\ e.own = s.own
         /\ e.firing = s.firing /\ e.kick = s.kick
         /\ e.cic = s.cic /\ e.new_cfqq = s.new_cfqq
         /\ e.async_cfqq = s.async_cfqq
<1>1. CASE s.active = NoCfqq
  BY <1>1 DEF Expirations
<1>2. CASE s.active # NoCfqq
  <2>1. PICK seeky \in BOOLEAN : e = Expire(s, seeky)
    BY <1>2 DEF Expirations
  <2> QED  BY <1>2, <2>1, ExpireKeeps
<1> QED  BY <1>1, <1>2

LEMMA ExpiredAndKicked ==
  ASSUME NEW s, Good(s), NEW e \in Expirations(s)
  PROVE  /\ Puts(s, ScheduleDispatch(e))
         /\ Live(ScheduleDispatch(e)) \/ ScheduleDispatch(e).busy = {}
<1> DEFINE t == ScheduleDispatch(e)
<1>1. /\ Good(e) /\ e.active = NoCfqq /\ e.busy \subseteq s.busy
      /\ e.queued = s.queued /\ e.dispatched = s.dispatched
      /\ e.activated = s.activated /\ e.own = s.own
      /\ e.firing = s.firing /\ e.kick = s.kick
      /\ e.cic = s.cic /\ e.new_cfqq = s.new_cfqq
      /\ e.async_cfqq = s.async_cfqq
  BY ExpirationsFields
<1>2. /\ Good(t) /\ (t.kick \/ t.busy = {})
      /\ t.busy = e.busy /\ t.active = e.active
      /\ t.queued = e.queued /\ t.dispatched = e.dispatched
      /\ t.activated = e.activated /\ t.own = e.own
      /\ t.firing = e.firing /\ t.cic = e.cic /\ t.new_cfqq = e.new_cfqq
      /\ t.async_cfqq = e.async_cfqq
  BY <1>1, ScheduleFields
<1> HIDE DEF t
<1>3. Puts(s, t) /\ (Live(t) \/ t.busy = {})
  BY <1>1, <1>2 DEF Puts, Live
<1> QED  BY <1>3 DEF t

LEMMA ExitCfqqPuts ==
  ASSUME NEW s, Good(s), NEW q \in Queues, NEW u \in ExitCfqq(s, q)
  PROVE  Puts(s, u)
<1>1. PICK t \in IF s.active = q THEN {ScheduleDispatch(e) : e \in Expirations(s)}
                 ELSE {s} :
        u = PutQueue(PutCooperator(t, q), q)
  BY DEF ExitCfqq
<1>2. Puts(s, t)
  <2>1. CASE s.active = q
    BY <1>1, <2>1, ExpiredAndKicked
  <2>2. CASE s.active # q
    BY <1>1, <2>2 DEF Puts
  <2> QED  BY <2>1, <2>2
<1>3. Puts(t, PutCooperator(t, q))
  BY <1>2, CooperatorPuts DEF Puts
<1>4. Puts(t, u)
  BY <1>1, <1>3, PutPuts
<1> QED  BY <1>2, <1>4 DEF Puts

LEMMA ExitKindKept ==
  ASSUME NEW s, Good(s), NEW p \in Procs, NEW kind \in Kinds,
         NEW u \in ExitKind(s, p, kind)
  PROVE  Kept(s, u)
<1>1. CASE s.cic[p][kind] = NoCfqq
  BY <1>1, KeptSelf DEF ExitKind
<1>2. CASE s.cic[p][kind] # NoCfqq
  <2>1. s.cic[p][kind] \in Queues
    BY <1>2 DEF Good, Data, MaybeQueue
  <2>2. PICK t \in ExitCfqq(s, s.cic[p][kind]) :
          u = [t EXCEPT !.cic[p][kind] = NoCfqq]
    BY <1>2 DEF ExitKind
  <2>3. Kept(s, t) /\ Data(t)
    BY <2>1, <2>2, ExitCfqqPuts, PutsKept DEF Kept, Good
  <2>4. /\ DOMAIN u = Fields /\ u.cic = [t.cic EXCEPT ![p][kind] = NoCfqq]
        /\ u.new_cfqq = t.new_cfqq /\ u.async_cfqq = t.async_cfqq
        /\ u.queued = t.queued /\ u.dispatched = t.dispatched
        /\ u.activated = t.activated /\ u.own = t.own /\ u.firing = t.firing
        /\ u.busy = t.busy /\ u.active = t.active
        /\ u.armed = t.armed /\ u.kick = t.kick
    BY <2>2, <2>3 DEF Data, Fields
  <2>5. u.cic \in [Procs -> [Kinds -> MaybeQueue]]
    BY <2>3, <2>4, CicType, QueueFacts DEF Data
  <2>6. Data(u)
    BY <2>3, <2>4, <2>5 DEF Data
  <2> QED  BY <2>3, <2>4, <2>6, Unrelated
<1> QED  BY <1>1, <1>2

LEMMA ExitIcqKept ==
  ASSUME NEW s, Good(s), NEW p \in Procs, NEW u \in ExitIcq(s, p)
  PROVE  Kept(s, u)
<1>1. PICK t \in ExitKind(s, p, "async") : u \in ExitKind(t, p, "sync")
  BY DEF ExitIcq
<1>2. Kept(s, t)
  BY <1>1, ExitKindKept DEF Kinds
<1>3. Kept(t, u)
  BY <1>1, <1>2, ExitKindKept DEF Kinds, Kept
<1> QED  BY <1>2, <1>3, KeptTwice

-----------------------------------------------------------------------------
(* The queue of a request.                                                 *)

LEMMA GetQueueKept ==
  ASSUME NEW s, Good(s), NEW p \in Procs, NEW kind \in Kinds,
         NEW fresh \in Queues
  PROVE  LET u == GetQueue(s, p, kind, fresh)
         IN  Kept(s, u) /\ u.cic[p][kind] \in Queues
<1> DEFINE shared == kind = "async" /\ s.async_cfqq # NoCfqq
           new    == ~shared /\ fresh # Oom /\ s.ref[fresh] = 0
           pinned == new /\ kind = "async"
           q == IF shared THEN s.async_cfqq ELSE IF new THEN fresh ELSE Oom
           u == GetQueue(s, p, kind, fresh)
<1>1. DOMAIN s = Fields /\ s.async_cfqq \in MaybeQueue
      /\ s.cic \in [Procs -> [Kinds -> MaybeQueue]]
  BY DEF Good, Data
<1>2. q \in Queues /\ q \in MaybeQueue
  BY <1>1, QueueFacts DEF MaybeQueue
<1>3. u = [s EXCEPT !.cic[p][kind] = q,
             !.ref[q] = @ + (IF pinned THEN 2 ELSE 1),
             !.async_cfqq = IF pinned THEN q ELSE @,
             !.sync = IF new /\ kind = "sync" THEN @ \cup {q} ELSE @]
  BY DEF GetQueue
<1> HIDE DEF q, u, new, pinned
<1>4. /\ DOMAIN u = Fields /\ u.cic = [s.cic EXCEPT ![p][kind] = q]
      /\ u.new_cfqq = s.new_cfqq /\ u.async_cfqq \in {s.async_cfqq, q}
      /\ u.queued = s.queued /\ u.dispatched = s.dispatched
      /\ u.activated = s.activated /\ u.own = s.own /\ u.firing = s.firing
      /\ u.busy = s.busy /\ u.active = s.active
      /\ u.armed = s.armed /\ u.kick = s.kick
  BY <1>1, <1>3 DEF Fields
<1>5. u.cic \in [Procs -> [Kinds -> MaybeQueue]] /\ u.cic[p][kind] = q
  BY <1>1, <1>2, <1>4, CicType
<1>6. Data(u)
  BY <1>2, <1>4, <1>5 DEF Good, Data
<1>7. Kept(s, u)
  BY <1>4, <1>6, KeptSelf, Unrelated
<1> QED  BY <1>2, <1>5, <1>7 DEF u

\* The process moves to the queue it was scheduled for.
LEMMA MergeCfqqsKept ==
  ASSUME NEW s, Good(s), NEW p \in Procs, NEW q \in Queues,
         s.new_cfqq[q] # NoCfqq, NEW kind \in Kinds, s.cic[p][kind] # NoCfqq
  PROVE  LET u == MergeCfqqs(s, p, q)
         IN  Kept(s, u) /\ u.cic[p][kind] \in Queues
<1> DEFINE n == s.new_cfqq[q]
           t == [s EXCEPT !.cic[p]["sync"] = n,
                          !.coop[n] = IF @ = "none" THEN "coop" ELSE @]
           u == MergeCfqqs(s, p, q)
<1>1. DOMAIN s = Fields /\ s.new_cfqq \in [Queues -> MaybeQueue]
      /\ s.cic \in [Procs -> [Kinds -> MaybeQueue]] /\ "sync" \in Kinds
  BY DEF Good, Data, Kinds
<1>2. n \in Queues /\ n \in MaybeQueue /\ s.cic[p][kind] \in Queues
  BY <1>1 DEF MaybeQueue
<1>3. u = PutQueue(t, q)
  BY DEF MergeCfqqs
<1> HIDE DEF n, u
<1>4. /\ DOMAIN t = Fields /\ t.cic = [s.cic EXCEPT ![p]["sync"] = n]
      /\ t.new_cfqq = s.new_cfqq /\ t.async_cfqq = s.async_cfqq
      /\ t.queued = s.queued /\ t.dispatched = s.dispatched
      /\ t.activated = s.activated /\ t.own = s.own /\ t.firing = s.firing
      /\ t.busy = s.busy /\ t.active = s.active
      /\ t.armed = s.armed /\ t.kick = s.kick
  BY <1>1 DEF Fields
<1> HIDE DEF t
<1>5. /\ t.cic \in [Procs -> [Kinds -> MaybeQueue]] /\ t.cic[p]["sync"] = n
      /\ \A k \in Kinds : k # "sync" => t.cic[p][k] = s.cic[p][k]
  BY <1>1, <1>2, <1>4, CicType
<1>6. Data(t)
  BY <1>4, <1>5 DEF Good, Data
<1>7. Kept(s, t)
  BY <1>4, <1>6, KeptSelf, Unrelated
<1>8. Puts(t, u)
  BY <1>3, <1>7, PutFields DEF Puts, Kept
<1>9. u.cic[p][kind] \in Queues
  BY <1>2, <1>5, <1>8 DEF Puts
<1> QED  BY <1>7, <1>8, <1>9, PutsKept, KeptTwice DEF u

LEMMA SplitKept ==
  ASSUME NEW s, Good(s), NEW p \in Procs, NEW q \in Queues
  PROVE  Kept(s, SplitCfqq(s, p, q))
<1> DEFINE a == [s EXCEPT !.coop[q] = "none"]
           b == [s EXCEPT !.cic[p]["sync"] = NoCfqq]
<1>1. DOMAIN s = Fields /\ s.cic \in [Procs -> [Kinds -> MaybeQueue]]
      /\ "sync" \in Kinds
  BY DEF Good, Data, Kinds
<1>2. Kept(s, a)
  <2>1. /\ DOMAIN a = Fields /\ a.cic = s.cic
        /\ a.new_cfqq = s.new_cfqq /\ a.async_cfqq = s.async_cfqq
        /\ a.queued = s.queued /\ a.dispatched = s.dispatched
        /\ a.activated = s.activated /\ a.own = s.own /\ a.firing = s.firing
        /\ a.busy = s.busy /\ a.active = s.active
        /\ a.armed = s.armed /\ a.kick = s.kick
    BY <1>1 DEF Fields
  <2> HIDE DEF a
  <2>2. Data(a)
    BY <2>1 DEF Good, Data
  <2> QED  BY <2>1, <2>2, KeptSelf, Unrelated
<1>3. Kept(s, b)
  <2>1. /\ DOMAIN b = Fields /\ b.cic = [s.cic EXCEPT ![p]["sync"] = NoCfqq]
        /\ b.new_cfqq = s.new_cfqq /\ b.async_cfqq = s.async_cfqq
        /\ b.queued = s.queued /\ b.dispatched = s.dispatched
        /\ b.activated = s.activated /\ b.own = s.own /\ b.firing = s.firing
        /\ b.busy = s.busy /\ b.active = s.active
        /\ b.armed = s.armed /\ b.kick = s.kick
    BY <1>1 DEF Fields
  <2> HIDE DEF b
  <2>2. b.cic \in [Procs -> [Kinds -> MaybeQueue]]
    BY <1>1, <2>1, CicType, QueueFacts
  <2>3. Data(b)
    BY <2>1, <2>2 DEF Good, Data
  <2> QED  BY <2>1, <2>3, KeptSelf, Unrelated
<1>4. Puts(b, PutCooperator(b, q))
  BY <1>3, CooperatorPuts DEF Kept
<1>5. Puts(b, PutQueue(PutCooperator(b, q), q))
  BY <1>4, PutPuts
<1>6. Kept(s, PutQueue(PutCooperator(b, q), q))
  BY <1>3, <1>5, PutsKept, KeptTwice
<1> HIDE DEF a
<1> QED  BY <1>2, <1>6 DEF SplitCfqq, a

LEMMA FindQueueKept ==
  ASSUME NEW s, Good(s), NEW p \in Procs, NEW kind \in Kinds,
         NEW fresh \in Queues
  PROVE  LET u == FindQueue(s, p, kind, fresh)
         IN  Kept(s, u) /\ u.cic[p][kind] \in Queues
<1> DEFINE q == s.cic[p][kind]
           t == IF s.coop[q] = "split" THEN SplitCfqq(s, p, q) ELSE s
           u == FindQueue(s, p, kind, fresh)
<1>1. q \in MaybeQueue
  BY DEF Good, Data
<1>2. CASE q = NoCfqq
  <2>1. u = GetQueue(s, p, kind, fresh)
    BY <1>2, QueueFacts DEF FindQueue
  <2> QED  BY <2>1, GetQueueKept
<1>3. CASE q = Oom
  <2> DEFINE v == PutQueue(s, q)
  <2>1. u = GetQueue(v, p, kind, fresh)
    BY <1>3, QueueFacts DEF FindQueue
  <2>2. Puts(s, v)
    BY <1>3, PutFields, QueueFacts DEF Puts
  <2> HIDE DEF v
  <2>3. Kept(v, u) /\ u.cic[p][kind] \in Queues
    BY <2>1, <2>2, GetQueueKept DEF Puts
  <2> QED  BY <2>2, <2>3, PutsKept, KeptTwice
<1>4. CASE q # NoCfqq /\ q # Oom
  <2>1. q \in Queues
    BY <1>1, <1>4 DEF MaybeQueue
  <2>2. Kept(s, t)
    BY <2>1, SplitKept, KeptSelf
  <2>3. u = IF t.cic[p][kind] = NoCfqq THEN GetQueue(t, p, kind, fresh)
            ELSE IF t.new_cfqq[q] # NoCfqq THEN MergeCfqqs(t, p, q) ELSE t
    BY <1>4 DEF FindQueue
  <2> HIDE DEF t, q, u
  <2>4. Good(t)
    BY <2>2 DEF Kept
  <2>5. CASE t.cic[p][kind] = NoCfqq
    BY <2>2, <2>3, <2>4, <2>5, GetQueueKept, KeptTwice DEF u
  <2>6. CASE t.cic[p][kind] # NoCfqq /\ t.new_cfqq[q] # NoCfqq
    <3>1. u = MergeCfqqs(t, p, q)
      BY <2>3, <2>6
    <3>2. Kept(t, u) /\ u.cic[p][kind] \in Queues
      BY <2>1, <2>4, <2>6, <3>1, MergeCfqqsKept
    <3> QED  BY <2>2, <3>2, KeptTwice DEF u
  <2>7. CASE t.cic[p][kind] # NoCfqq /\ t.new_cfqq[q] = NoCfqq
    <3>1. u = t
      BY <2>3, <2>7
    <3>2. t.cic[p][kind] \in Queues
      BY <2>4, <2>7 DEF Good, Data, MaybeQueue
    <3> QED  BY <2>2, <3>1, <3>2 DEF u
  <2> QED  BY <2>5, <2>6, <2>7
<1> QED  BY <1>2, <1>3, <1>4

\* A request that is set up is nowhere else; its queue is a queue.
LEMMA SetRequestFields ==
  ASSUME NEW s, Good(s), NEW p \in Procs, NEW kind \in Kinds,
         NEW fresh \in Queues, NEW r \in Requests, r \notin s.queued
  PROVE  LET u == SetRequest(s, p, kind, fresh, r)
         IN  /\ Good(u) /\ u.busy \subseteq s.busy
             /\ u.queued = s.queued /\ u.dispatched = s.dispatched
             /\ u.activated = s.activated /\ u.own[r] \in Queues
             /\ \A x \in Requests : x # r => u.own[x] = s.own[x]
             /\ Live(s) => Live(u) \/ u.busy = {}
<1> DEFINE t == FindQueue(s, p, kind, fresh)
           q == t.cic[p][kind]
           u == SetRequest(s, p, kind, fresh, r)
<1>1. Kept(s, t) /\ q \in Queues
  BY FindQueueKept
<1>2. u = [t EXCEPT !.own[r] = q, !.ref[q] = @ + 1,
             !.rq_sync = IF kind = "sync" THEN @ \cup {r} ELSE @]
  BY DEF SetRequest
<1> HIDE DEF t, q, u
<1>3. DOMAIN t = Fields /\ t.own \in [Requests -> MaybeQueue] /\ Good(t)
  BY <1>1 DEF Kept, Good, Data
<1>4. /\ DOMAIN u = Fields /\ u.cic = t.cic /\ u.own = [t.own EXCEPT ![r] = q]
      /\ u.new_cfqq = t.new_cfqq /\ u.async_cfqq = t.async_cfqq
      /\ u.queued = t.queued /\ u.dispatched = t.dispatched
      /\ u.activated = t.activated /\ u.firing = t.firing
      /\ u.busy = t.busy /\ u.active = t.active
      /\ u.armed = t.armed /\ u.kick = t.kick
  BY <1>2, <1>3 DEF Fields
<1>5. /\ u.own \in [Requests -> MaybeQueue] /\ u.own[r] = q
      /\ \A x \in Requests : x # r => u.own[x] = t.own[x]
  BY <1>1, <1>3, <1>4, QueueFacts
<1>6. \A x \in t.queued : u.own[x] = t.own[x]
  BY <1>1, <1>3, <1>5 DEF Kept, Good, Data
<1>7. Data(u) /\ Acyclic(u)
  BY <1>3, <1>4, <1>5, <1>6 DEF Good, Data, Acyclic
<1>8. Listed(u)
  <2>1. \A x \in Queues : Empty(u, x) <=> Empty(t, x)
    BY <1>4, <1>6 DEF Empty, Of
  <2> QED  BY <1>3, <1>4, <2>1 DEF Good, Listed
<1>9. Live(s) => Live(u) \/ u.busy = {}
  BY <1>1, <1>4 DEF Kept, Live
<1>10. /\ u.queued = s.queued /\ u.dispatched = s.dispatched
       /\ u.activated = s.activated /\ u.busy \subseteq s.busy
       /\ \A x \in Requests : x # r => u.own[x] = s.own[x]
  BY <1>1, <1>4, <1>5 DEF Kept
<1> QED  BY <1>1, <1>5, <1>7, <1>8, <1>9, <1>10 DEF Good, u

LEMMA PutRequestFields ==
  ASSUME NEW s, Good(s), NEW r \in Requests, r \notin s.queued,
         s.own[r] \in Queues
  PROVE  LET u == PutRequest(s, r)
         IN  /\ Good(u) /\ u.busy \subseteq s.busy
             /\ u.queued = s.queued /\ u.dispatched = s.dispatched
             /\ u.activated = s.activated
             /\ \A x \in Requests : x # r => u.own[x] = s.own[x]
             /\ Live(s) => Live(u) \/ u.busy = {}
<1> DEFINE t == [s EXCEPT !.own[r] = NoCfqq, !.rq_sync = @ \ {r}]
           u == PutRequest(s, r)
<1>1. DOMAIN s = Fields /\ s.own \in [Requests -> MaybeQueue]
  BY DEF Good, Data
<1>2. /\ DOMAIN t = Fields /\ t.cic = s.cic
      /\ t.own = [s.own EXCEPT ![r] = NoCfqq]
      /\ t.new_cfqq = s.new_cfqq /\ t.async_cfqq = s.async_cfqq
      /\ t.queued = s.queued /\ t.dispatched = s.dispatched
      /\ t.activated = s.activated /\ t.firing = s.firing
      /\ t.busy = s.busy /\ t.active = s.active
      /\ t.armed = s.armed /\ t.kick = s.kick
  BY <1>1 DEF Fields
<1>3. u = PutQueue(t, s.own[r])
  BY DEF PutRequest
<1> HIDE DEF t, u
<1>4. /\ t.own \in [Requests -> MaybeQueue]
      /\ \A x \in Requests : x # r => t.own[x] = s.own[x]
  BY <1>1, <1>2, QueueFacts
<1>5. \A x \in s.queued : t.own[x] = s.own[x]
  BY <1>4 DEF Good, Data
<1>6. Data(t) /\ Acyclic(t)
  BY <1>2, <1>4, <1>5 DEF Good, Data, Acyclic
<1>7. Listed(t)
  <2>1. \A x \in Queues : Empty(t, x) <=> Empty(s, x)
    BY <1>2, <1>5 DEF Empty, Of
  <2> QED  BY <1>2, <2>1 DEF Good, Listed
<1>8. Puts(t, u)
  BY <1>3, <1>6, <1>7, PutFields DEF Good, Puts
<1>9. Live(s) => Live(u) \/ u.busy = {}
  BY <1>2, <1>8 DEF Puts, Live
<1> QED  BY <1>2, <1>4, <1>8, <1>9 DEF Puts, u

-----------------------------------------------------------------------------
(* The queue to dispatch from.                                             *)

LEMMA SetActiveFields ==
  ASSUME NEW s, Good(s), s.active = NoCfqq, NEW q \in Queues, ~Empty(s, q)
  PROVE  LET u == SetActive(s, q)
         IN  /\ Good(u) /\ u.active = q
             /\ u.queued = s.queued /\ u.dispatched = s.dispatched
             /\ u.activated = s.activated /\ u.own = s.own
<1> DEFINE u == SetActive(s, q)
<1>1. DOMAIN s = Fields
  BY DEF Good, Data
<1>2. /\ DOMAIN u = Fields /\ u.active = q /\ u.cic = s.cic
      /\ u.new_cfqq = s.new_cfqq /\ u.async_cfqq = s.async_cfqq
      /\ u.queued = s.queued /\ u.dispatched = s.dispatched
      /\ u.activated = s.activated /\ u.own = s.own /\ u.firing = s.firing
      /\ u.busy = s.busy /\ u.kick = s.kick
      /\ u.armed = (s.armed /\ s.firing)
  BY <1>1 DEF SetActive, DelTimer, Fields
<1> HIDE DEF u
<1>3. Data(u) /\ Acyclic(u)
  BY <1>2, QueueFacts DEF Good, Data, Acyclic
<1>4. \A p \in Queues : Empty(u, p) <=> Empty(s, p)
  BY <1>2 DEF Empty, Of
<1>5. Listed(u)
  BY <1>2, <1>4 DEF Good, Listed
<1> QED  BY <1>2, <1>3, <1>5 DEF Good, u

\* The last queue of a chain of merges: there is one.
LEMMA ChainEnds ==
  ASSUME NEW s, Good(s), NEW n \in Queues
  PROVE  /\ Chain(s, n) \subseteq Queues
         /\ \E e \in Chain(s, n) \cup {n} : s.new_cfqq[e] = NoCfqq
<1> DEFINE N == Cardinality(Queues)
           a == Ahead(s, n)
<1>1. N \in Nat /\ NoCfqq \notin Queues /\ IsFiniteSet(Queues)
  BY QueueFacts
<1>2. /\ a \in [0 .. N -> MaybeQueue] /\ a[0] = n
      /\ \A k \in 1 .. N : a[k] = IF a[k - 1] = NoCfqq \/ s.new_cfqq[a[k - 1]] = n
                                  THEN NoCfqq ELSE s.new_cfqq[a[k - 1]]
  BY AheadFacts
<1>3. Chain(s, n) = {a[k] : k \in 1 .. N} \ {NoCfqq}
  BY DEF Chain
<1>4. \A S \in SUBSET Queues : S # {} => \E q \in S : s.new_cfqq[q] \notin S
  BY DEF Good, Acyclic
<1> HIDE DEF a, N
<1>5. \A k \in 0 .. N : a[k] # NoCfqq => a[k] \in Queues
  BY <1>2 DEF MaybeQueue
<1>6. \A k \in 0 .. N : a[k] # NoCfqq => a[k] \in Chain(s, n) \cup {n}
  <2>1. \A k \in 0 .. N : k = 0 \/ k \in 1 .. N
    BY <1>1
  <2> QED  BY <1>2, <1>3, <2>1
<1>7. \A k \in 1 .. N : a[k] # NoCfqq => a[k] = s.new_cfqq[a[k - 1]]
  BY <1>2
\* A walk that comes back would be a cycle.
<1>8. ASSUME NEW i \in 0 .. N, NEW j \in 0 .. N, i < j,
             \A k \in i .. j - 1 : a[k] # NoCfqq,
             s.new_cfqq[a[j - 1]] = a[i],
             \A k \in i + 1 .. j - 1 : a[k] = s.new_cfqq[a[k - 1]]
      PROVE  FALSE
  <2> DEFINE S == {a[k] : k \in i .. j - 1}
  <2>1. i \in Nat /\ j \in Nat /\ i \in i .. j - 1
        /\ \A k \in i .. j - 1 : k \in 0 .. N
    BY <1>1, <1>8
  <2>2. S \in SUBSET Queues /\ S # {}
    BY <1>5, <1>8, <2>1
  <2>3. PICK q \in S : s.new_cfqq[q] \notin S
    BY <1>4, <2>2
  <2>4. PICK k \in i .. j - 1 : q = a[k]
    BY <2>3
  <2>5. CASE k = j - 1
    BY <1>8, <2>1, <2>3, <2>4, <2>5
  <2>6. CASE k # j - 1
    <3>1. k + 1 \in i .. j - 1 /\ k + 1 \in i + 1 .. j - 1 /\ (k + 1) - 1 = k
      BY <2>1, <2>4, <2>6
    <3>2. a[k + 1] = s.new_cfqq[a[k]]
      BY <1>8, <3>1
    <3> QED  BY <2>3, <2>4, <3>1, <3>2
  <2> QED  BY <2>5, <2>6
<1>9. ASSUME \A e \in Chain(s, n) \cup {n} : s.new_cfqq[e] # NoCfqq
      PROVE  FALSE
  <2>1. CASE \E k \in 0 .. N : a[k] = NoCfqq
    <3> DEFINE T == {k \in 0 .. N : a[k] = NoCfqq}
    <3>1. T \subseteq Nat /\ T # {}
      BY <1>1, <2>1
    <3>2. PICK k \in T : \A i \in T : k <= i
      <4> HIDE DEF T
      <4> QED  BY <3>1, LeastNat
    <3>3. k \in 1 .. N /\ k - 1 \in 0 .. N /\ 0 \in 0 .. N /\ 0 < k
      BY <1>1, <1>2, <3>2
    <3>4. \A i \in 0 .. k - 1 : a[i] # NoCfqq
      <4> SUFFICES ASSUME NEW i \in 0 .. k - 1, a[i] = NoCfqq PROVE FALSE
        OBVIOUS
      <4>1. i \in 0 .. N /\ ~(k <= i)
        BY <1>1, <3>3
      <4> QED  BY <3>2, <4>1
    <3>5. k - 1 \in 0 .. k - 1
      BY <1>1, <3>3
    <3>6. s.new_cfqq[a[k - 1]] = a[0]
      BY <1>2, <1>6, <1>9, <3>2, <3>3, <3>4, <3>5
    <3>7. \A i \in 0 + 1 .. k - 1 : a[i] = s.new_cfqq[a[i - 1]]
      <4> SUFFICES ASSUME NEW i \in 0 + 1 .. k - 1
                   PROVE  a[i] = s.new_cfqq[a[i - 1]]
        OBVIOUS
      <4>1. i \in 1 .. N /\ i \in 0 .. k - 1
        BY <1>1, <3>3
      <4> QED  BY <1>7, <3>4, <4>1
    <3>8. k \in 0 .. N
      BY <3>2
    <3> QED  BY <1>8, <3>3, <3>4, <3>6, <3>7, <3>8
  <2>2. CASE \A k \in 0 .. N : a[k] # NoCfqq
    <3>1. a \in [0 .. N -> Queues]
      BY <1>2, <1>5, <2>2
    <3>2. IsFiniteSet(0 .. N) /\ Cardinality(0 .. N) = N + 1
      BY <1>1, FS_Interval
    <3>3. \E i, j \in 0 .. N : i # j /\ a[i] = a[j]
      <4>1. Cardinality(Queues) < Cardinality(0 .. N)
        BY <1>1, <3>2 DEF N
      <4> QED  BY <1>1, <3>1, <3>2, <4>1, FS_PigeonHole
    <3>4. \E i, j \in 0 .. N : i < j /\ a[i] = a[j]
      BY <1>1, <3>3
    <3>5. PICK i \in 0 .. N : \E j \in 0 .. N : i < j /\ a[i] = a[j]
      BY <3>4
    <3>6. PICK j \in 0 .. N : i < j /\ a[i] = a[j]
      BY <3>5
    <3>7. \A k \in i .. j - 1 : k \in 0 .. N
      BY <1>1, <3>6
    <3>8. j \in 1 .. N /\ \A k \in i + 1 .. j - 1 : k \in 1 .. N
      BY <1>1, <3>6
    <3>9. \A k \in 1 .. N : k \in 0 .. N
      BY <1>1
    <3>10. \A k \in 1 .. N : a[k] = s.new_cfqq[a[k - 1]]
      BY <1>7, <2>2, <3>9
    <3> QED  BY <1>8, <2>2, <3>6, <3>7, <3>8, <3>10
  <2> QED  BY <2>1, <2>2
<1>10. Chain(s, n) \subseteq Queues
  <2>1. \A k \in 1 .. N : k \in 0 .. N
    BY <1>1
  <2> QED  BY <1>3, <1>5, <2>1
<1> QED  BY <1>9, <1>10

LEMMA MergeIntoKept ==
  ASSUME NEW s, Good(s), NEW q \in Queues, NEW n \in Queues, q # n,
         s.new_cfqq[n] = NoCfqq
  PROVE  LET u == MergeInto(s, q, n)
         IN  Kept(s, u) /\ u.busy = s.busy /\ u.active = s.active
<1> DEFINE u == MergeInto(s, q, n)
<1>1. DOMAIN s = Fields /\ s.new_cfqq \in [Queues -> MaybeQueue]
  BY DEF Good, Data
<1>2. /\ DOMAIN u = Fields /\ u.active = s.active /\ u.cic = s.cic
      /\ u.new_cfqq = [s.new_cfqq EXCEPT ![q] = n]
      /\ u.async_cfqq = s.async_cfqq
      /\ u.queued = s.queued /\ u.dispatched = s.dispatched
      /\ u.activated = s.activated /\ u.own = s.own /\ u.firing = s.firing
      /\ u.busy = s.busy /\ u.kick = s.kick /\ u.armed = s.armed
  BY <1>1 DEF MergeInto, Fields
<1> HIDE DEF u
<1>3. u.new_cfqq \in [Queues -> MaybeQueue]
  BY <1>1, <1>2, QueueFacts
<1>4. Data(u)
  BY <1>2, <1>3 DEF Good, Data
<1>5. Acyclic(u)
  <2> SUFFICES ASSUME NEW S \in SUBSET Queues, S # {},
                      \A p \in S : u.new_cfqq[p] \in S
               PROVE  FALSE
    BY DEF Acyclic
  <2>1. q \notin S
    BY <1>1, <1>2, QueueFacts
  <2>2. \A p \in S : s.new_cfqq[p] \in S
    BY <1>1, <1>2, <2>1
  <2> QED  BY <2>2 DEF Good, Acyclic
<1>6. Listed(u)
  BY <1>2, SameListed DEF Good
<1>7. Kept(s, u)
  BY <1>2, <1>4, <1>5, <1>6 DEF Kept, Good, Live
<1> QED  BY <1>2, <1>7 DEF u

LEMMA SetupMergeKept ==
  ASSUME NEW s, Good(s), NEW q \in Queues, NEW n \in Queues, q # n,
         s.new_cfqq[q] = NoCfqq
  PROVE  LET u == SetupMerge(s, q, n)
         IN  Kept(s, u) /\ u.busy = s.busy /\ u.active = s.active
<1> DEFINE last == CHOOSE e \in Chain(s, n) \cup {n} : s.new_cfqq[e] = NoCfqq
           u == SetupMerge(s, q, n)
<1>1. last \in Chain(s, n) \cup {n} /\ s.new_cfqq[last] = NoCfqq
      /\ last \in Queues
  BY ChainEnds
<1>2. \/ u = s
      \/ q \notin Chain(s, n) /\ u \in {MergeInto(s, q, last), MergeInto(s, last, q)}
  BY DEF SetupMerge
<1> HIDE DEF last, u
<1>3. CASE u = s
  BY <1>3, KeptSelf DEF u
<1>4. CASE q \notin Chain(s, n) /\ u \in {MergeInto(s, q, last), MergeInto(s, last, q)}
  <2>1. q # last
    BY <1>1, <1>4
  <2>2. LET v == MergeInto(s, q, last)
        IN  Kept(s, v) /\ v.busy = s.busy /\ v.active = s.active
    BY <1>1, <2>1, MergeIntoKept
  <2>3. LET v == MergeInto(s, last, q)
        IN  Kept(s, v) /\ v.busy = s.busy /\ v.active = s.active
    BY <1>1, <2>1, MergeIntoKept
  <2> QED  BY <1>4, <2>2, <2>3 DEF u
<1> QED  BY <1>2, <1>3, <1>4

\* A sound choice: a queue that is active and has a request, or none, and
\* then there is nothing to do or something will run the queue again.
Sound(s, o) ==
  /\ Good(o.s)
  /\ o.s.queued = s.queued /\ o.s.dispatched = s.dispatched
  /\ o.s.activated = s.activated /\ o.s.own = s.own
  /\ IF o.from = NoCfqq THEN s.queued = {} \/ s.dispatched # {} \/ Live(o.s)
     ELSE o.from = o.s.active /\ o.from \in Queues /\ ~Empty(o.s, o.from)

LEMMA NothingSound ==
  ASSUME NEW s, Good(s), s.queued = {} \/ s.dispatched # {} \/ Live(s),
         NEW o \in Nothing(s)
  PROVE  Sound(s, o)
BY DEF Nothing, Outcome, Sound

LEMMA NewQueueSound ==
  ASSUME NEW s, Good(s), s.active = NoCfqq, NEW o \in NewQueue(s)
  PROVE  Sound(s, o)
<1>1. DOMAIN s = Fields /\ s.busy = {q \in Queues : ~Empty(s, q)}
  BY DEF Good, Data, Listed
<1>2. CASE s.busy = {}
  <2>1. s.queued = {}
    <3> SUFFICES ASSUME NEW r \in s.queued PROVE FALSE
      OBVIOUS
    <3>1. s.own[r] \in Queues /\ ~Empty(s, s.own[r])
      BY DEF Good, Data, Empty, Of
    <3> QED  BY <1>1, <1>2, <3>1
  <2> DEFINE t == BugIf(TRUE, s)
  <2>2. o \in Nothing(t)
    BY <1>2 DEF NewQueue
  <2>3. /\ Good(t) /\ t.queued = s.queued /\ t.dispatched = s.dispatched
        /\ t.activated = s.activated /\ t.own = s.own
    BY BugFields
  <2> HIDE DEF t
  <2>4. o.s = t /\ o.from = NoCfqq
    BY <2>2 DEF Nothing, Outcome
  <2> QED  BY <2>1, <2>3, <2>4 DEF Sound
<1>3. CASE s.busy # {} /\ s.queued = {}
  <2> DEFINE t == [s EXCEPT !.active = NoCfqq]
  <2>1. \A q \in Queues : Empty(s, q)
    BY <1>3 DEF Empty, Of
  <2> QED  BY <1>1, <1>3, <2>1
<1>4. CASE s.busy # {} /\ s.queued # {}
  <2>1. PICK q \in s.busy : o = Outcome(SetActive(s, q), q)
    BY <1>4 DEF NewQueue
  <2>2. q \in Queues /\ ~Empty(s, q)
    BY <1>1
  <2> DEFINE u == SetActive(s, q)
  <2>3. /\ Good(u) /\ u.active = q
        /\ u.queued = s.queued /\ u.dispatched = s.dispatched
        /\ u.activated = s.activated /\ u.own = s.own
    BY <2>2, SetActiveFields
  <2>4. o.s = u /\ o.from = q
    BY <2>1 DEF Outcome
  <2> HIDE DEF u
  <2>5. ~Empty(u, q)
    BY <2>2, <2>3 DEF Empty, Of
  <2> QED  BY <2>2, <2>3, <2>4, <2>5, QueueFacts DEF Sound
<1> QED  BY <1>2, <1>3, <1>4

LEMMA ExpireAndNewSound ==
  ASSUME NEW s, Good(s), NEW o \in ExpireAndNew(s)
  PROVE  Sound(s, o)
<1>1. PICK e \in Expirations(s) : o \in NewQueue(e)
  BY DEF ExpireAndNew
<1>2. /\ Good(e) /\ e.active = NoCfqq
      /\ e.queued = s.queued /\ e.dispatched = s.dispatched
      /\ e.activated = s.activated /\ e.own = s.own
  BY ExpirationsFields
<1>3. Sound(e, o)
  BY <1>1, <1>2, NewQueueSound
<1> QED  BY <1>2, <1>3 DEF Sound

LEMMA CheckGroupIdleSound ==
  ASSUME NEW s, Good(s), NEW o \in CheckGroupIdle(s)
  PROVE  Sound(s, o)
<1>1. CASE o \in ExpireAndNew(s)
  BY <1>1, ExpireAndNewSound
<1>2. CASE o \notin ExpireAndNew(s)
  <2>1. s.dispatched # {} /\ o \in Nothing(s)
    BY <1>2 DEF CheckGroupIdle
  <2> QED  BY <2>1, NothingSound
<1> QED  BY <1>1, <1>2

LEMMA CooperateSound ==
  ASSUME NEW s, Good(s), s.active # NoCfqq, NEW p \in Cooperators(s, s.active),
         NEW o \in Cooperate(s, p)
  PROVE  Sound(s, o)
<1>1. p # s.active /\ ~Empty(s, p)
  BY DEF Cooperators
<1>2. p \in Queues
  <2>1. PICK r \in s.queued : s.own[r] = p
    BY <1>1 DEF Empty, Of
  <2> QED  BY <2>1 DEF Good, Data
<1>3. s.active \in Queues
  BY DEF Good, Data, MaybeQueue
<1> DEFINE m == IF s.new_cfqq[s.active] = NoCfqq THEN SetupMerge(s, s.active, p)
                ELSE s
<1>4. Kept(s, m)
  BY <1>1, <1>2, <1>3, SetupMergeKept, KeptSelf
<1>5. PICK e \in Expirations(m) : o = Outcome(SetActive(e, p), p)
  BY DEF Cooperate
<1> HIDE DEF m
<1>6. /\ Good(e) /\ e.active = NoCfqq
      /\ e.queued = s.queued /\ e.dispatched = s.dispatched
      /\ e.activated = s.activated /\ e.own = s.own
  BY <1>4, ExpirationsFields DEF Kept
<1>7. ~Empty(e, p)
  BY <1>1, <1>6 DEF Empty, Of
<1> DEFINE u == SetActive(e, p)
<1>8. /\ Good(u) /\ u.active = p
      /\ u.queued = e.queued /\ u.dispatched = e.dispatched
      /\ u.activated = e.activated /\ u.own = e.own
  BY <1>2, <1>6, <1>7, SetActiveFields
<1>9. o.s = u /\ o.from = p
  BY <1>5 DEF Outcome
<1> HIDE DEF u
<1>10. ~Empty(u, p)
  BY <1>7, <1>8 DEF Empty, Of
<1> QED  BY <1>2, <1>6, <1>8, <1>9, <1>10, QueueFacts DEF Sound

LEMMA SelectSound ==
  ASSUME NEW s, Good(s), NEW o \in Select(s)
  PROVE  Sound(s, o)
<1> DEFINE q == s.active
<1>0. MayIdleFor(s, q) => s.dispatched # {}
  BY DEF MayIdleFor, Of
<1>1. CASE q = NoCfqq
  BY <1>1, NewQueueSound DEF Select
<1>2. CASE q # NoCfqq /\ s.queued = {}
  BY <1>2, NothingSound DEF Select
<1>3. CASE o \in ExpireAndNew(s)
  BY <1>3, ExpireAndNewSound
<1>4. CASE q # NoCfqq /\ o \in SliceUsed(s)
  <2>1. o \in CheckGroupIdle(s) \/ (MayIdleFor(s, q) /\ o \in Nothing(s))
    BY <1>4 DEF SliceUsed
  <2> QED  BY <1>0, <2>1, CheckGroupIdleSound, NothingSound
<1>5. CASE q # NoCfqq /\ ~Empty(s, q) /\ o = Outcome(s, q)
  <2>1. q \in Queues
    BY <1>5 DEF Good, Data, MaybeQueue
  <2> QED  BY <1>5, <2>1 DEF Sound, Outcome
<1>6. CASE q # NoCfqq /\ o \in IdleOrNew(s)
  <2>1. \/ (s.armed \/ s.firing) /\ o \in Nothing(s)
        \/ o \in CheckGroupIdle(s)
        \/ MayIdleFor(s, q) /\ o \in Nothing(s)
    BY <1>6 DEF IdleOrNew
  <2> QED  BY <1>0, <2>1, CheckGroupIdleSound, NothingSound DEF Live
<1>7. CASE q # NoCfqq /\ \E p \in Cooperators(s, q) : o \in Cooperate(s, p)
  BY <1>7, CooperateSound
<1> QED  BY <1>1, <1>2, <1>3, <1>4, <1>5, <1>6, <1>7 DEF Select

-----------------------------------------------------------------------------
(* The invariant.                                                          *)

\* Every request is in one place; what was dispatched is with the driver or
\* the device, and belongs to a queue, as does what is plugged.
Places ==
  /\ Apart(cfqd.queued, plugged, queue_head, inflight)
  /\ cfqd.dispatched = Range(queue_head) \cup inflight
  /\ cfqd.activated \subseteq cfqd.dispatched
  /\ \A r \in plugged \cup cfqd.dispatched : cfqd.own[r] \in Queues

Gone ==
  elv \in {"detached", "freed", "oops"} =>
    cfqd.queued = {} /\ plugged = {} /\ cfqd.dispatched = {}

IInv == FrameTypeOK({}) /\ Good(cfqd) /\ Places /\ Gone /\ NoStranded

LEMMA StepFields ==
  ASSUME NEW t, Good(t), Step(t)
  PROVE  /\ Good(cfqd') /\ unplug_work' = (unplug_work \/ t.kick)
         /\ cfqd'.queued = t.queued /\ cfqd'.dispatched = t.dispatched
         /\ cfqd'.activated = t.activated /\ cfqd'.own = t.own
         /\ cfqd'.armed = t.armed /\ cfqd'.firing = t.firing
<1>1. DOMAIN t = Fields /\ cfqd' = [t EXCEPT !.kick = FALSE]
  BY DEF Step, Good, Data
<1>2. /\ DOMAIN cfqd' = Fields /\ cfqd'.kick = FALSE
      /\ cfqd'.queued = t.queued /\ cfqd'.dispatched = t.dispatched
      /\ cfqd'.activated = t.activated /\ cfqd'.own = t.own
      /\ cfqd'.armed = t.armed /\ cfqd'.firing = t.firing
      /\ cfqd'.cic = t.cic /\ cfqd'.new_cfqq = t.new_cfqq
      /\ cfqd'.async_cfqq = t.async_cfqq
      /\ cfqd'.busy = t.busy /\ cfqd'.active = t.active
  BY <1>1 DEF Fields
<1>3. Data(cfqd') /\ Acyclic(cfqd') /\ Listed(cfqd')
  BY <1>2, SameListed DEF Good, Data, Acyclic
<1> QED  BY <1>2, <1>3 DEF Good, Step, KickIf

LEMMA NothingQueued ==
  ASSUME NEW s, Good(s), s.busy = {}
  PROVE  s.queued = {}
<1> SUFFICES ASSUME NEW r \in s.queued PROVE FALSE
  OBVIOUS
<1>1. s.own[r] \in Queues /\ ~Empty(s, s.own[r])
  BY DEF Good, Data, Empty, Of
<1> QED  BY <1>1 DEF Good, Listed

\* A step after which something will run the queue ...
LEMMA StepRuns ==
  ASSUME NEW t, Good(t), Step(t), Live(t) \/ t.busy = {} \/ t.queued = {}
  PROVE  NoStranded'
<1>1. t.busy = {} => t.queued = {}
  BY NothingQueued
<1>2. /\ unplug_work' = (unplug_work \/ t.kick) /\ cfqd'.queued = t.queued
      /\ cfqd'.armed = t.armed /\ cfqd'.firing = t.firing
  BY StepFields
<1> QED  BY <1>1, <1>2 DEF NoStranded, Live

\* ... and one that takes nothing of it away.
LEMMA StepKeeps ==
  ASSUME NoStranded, NEW t, Good(t), Step(t),
         t.queued \subseteq cfqd.queued, Live(cfqd) => Live(t) \/ t.busy = {},
         UNCHANGED <<queue_head, inflight, pc, elv>>
  PROVE  NoStranded'
<1>1. /\ unplug_work' = (unplug_work \/ t.kick) /\ cfqd'.queued = t.queued
  BY StepFields
<1>2. CASE Live(t) \/ t.busy = {}
  BY <1>2, StepRuns
<1>3. CASE ~Live(cfqd)
  BY <1>1, <1>3 DEF NoStranded, Live
<1> QED  BY <1>2, <1>3

\* A context that is not idle is running the queue.
LEMMA Busy ==
  ASSUME NEW c \in Ctx, pc'[c] # "idle"
  PROVE  NoStranded'
BY DEF NoStranded

LEMMA InitIInv == Init => IInv
<1> SUFFICES ASSUME Init PROVE IInv
  OBVIOUS
<1> USE DEF Init, FrameInit, DeviceInit
<1>1. FrameTypeOK({})
  BY EmptySeq DEF FrameTypeOK, DeviceTypeOK
<1>2. /\ DOMAIN cfqd = Fields
      /\ cfqd.new_cfqq = [q \in Queues |-> NoCfqq]
      /\ cfqd.cic = [p \in Procs |-> [k \in {"sync", "async"} |-> NoCfqq]]
      /\ cfqd.own = [r \in Requests |-> NoCfqq]
      /\ cfqd.async_cfqq = NoCfqq /\ cfqd.active = NoCfqq
      /\ cfqd.queued = {} /\ cfqd.dispatched = {} /\ cfqd.activated = {}
      /\ cfqd.busy = {} /\ cfqd.armed = FALSE /\ cfqd.firing = FALSE
      /\ cfqd.kick = FALSE
  BY DEF NewCfqData, Fields
<1>3. Data(cfqd)
  <2>1. [k \in {"sync", "async"} |-> NoCfqq] \in [Kinds -> MaybeQueue]
    BY QueueFacts DEF Kinds
  <2>2. /\ cfqd.new_cfqq \in [Queues -> MaybeQueue]
        /\ cfqd.cic \in [Procs -> [Kinds -> MaybeQueue]]
        /\ cfqd.own \in [Requests -> MaybeQueue]
    BY <1>2, <2>1, QueueFacts
  <2> QED  BY <1>2, <2>2, QueueFacts DEF Data
<1>4. Acyclic(cfqd) /\ Listed(cfqd)
  BY <1>2, QueueFacts DEF Acyclic, Listed, Empty, Of
<1>5. Places
  <2>1. Range(queue_head) = {} /\ IsInjective(queue_head)
    BY DEF Range, IsInjective
  <2> QED  BY <1>2, <2>1 DEF Places, Apart
<1>6. Gone /\ NoStranded
  BY <1>2 DEF Gone, NoStranded
<1> QED  BY <1>1, <1>3, <1>4, <1>5, <1>6 DEF IInv, Good

-----------------------------------------------------------------------------
(* Requests come.                                                          *)

LEMMA SetRequestIInv ==
  ASSUME IInv, NEW p \in Procs, NEW kind \in {"sync", "async"},
         NEW r \in Requests, cfq_set_request(p, kind, r)
  PROVE  IInv'
<1> USE DEF IInv
<1>1. PICK fresh \in Queues : Step(SetRequest(cfqd, p, kind, fresh, r))
  BY DEF cfq_set_request
<1>2. /\ elv = "attached" /\ plugged' = plugged \cup {r}
      /\ r \notin plugged /\ r \notin cfqd.queued
      /\ r \notin Range(queue_head) /\ r \notin inflight
      /\ UNCHANGED <<stale, elv, queue_head, inflight, issuing, pc>>
  BY DEF cfq_set_request, OutstandingWith, deviceVars
<1> DEFINE t == SetRequest(cfqd, p, kind, fresh, r)
<1>3. /\ Good(t) /\ t.busy \subseteq cfqd.busy
      /\ t.queued = cfqd.queued /\ t.dispatched = cfqd.dispatched
      /\ t.activated = cfqd.activated /\ t.own[r] \in Queues
      /\ \A x \in Requests : x # r => t.own[x] = cfqd.own[x]
      /\ Live(cfqd) => Live(t) \/ t.busy = {}
  BY <1>2, SetRequestFields DEF Kinds
<1> HIDE DEF t
<1>4. /\ Good(cfqd') /\ unplug_work' = (unplug_work \/ t.kick)
      /\ cfqd'.queued = t.queued /\ cfqd'.dispatched = t.dispatched
      /\ cfqd'.activated = t.activated /\ cfqd'.own = t.own
  BY <1>1, <1>3, StepFields DEF t
<1>5. FrameTypeOK({})'
  BY <1>2, <1>3, <1>4 DEF FrameTypeOK, DeviceTypeOK, Good, Data
<1>6. Places'
  <2>1. plugged \subseteq Requests /\ cfqd.dispatched \subseteq Requests
    BY RangeOfSeq DEF Places, FrameTypeOK, DeviceTypeOK
  <2>2. Apart(cfqd.queued, plugged \cup {r}, queue_head, inflight)
    BY <1>2 DEF Places, Apart
  <2> QED  BY <1>2, <1>3, <1>4, <2>1, <2>2 DEF Places
<1>7. NoStranded'
  BY <1>1, <1>2, <1>3, StepKeeps DEF t
<1>8. Gone'
  BY <1>2 DEF Gone
<1> QED  BY <1>4, <1>5, <1>6, <1>7, <1>8

\* cfq_add_rq_rb puts the queue of the request on the list.
LEMMA AddRequestFields ==
  ASSUME NEW s, Good(s), NEW r \in Requests, s.own[r] \in Queues
  PROVE  LET t == AddRequest(s, r)
         IN  /\ Good(t) /\ t.queued = s.queued \cup {r}
             /\ t.dispatched = s.dispatched /\ t.activated = s.activated
             /\ t.own = s.own /\ t.active = s.active
             /\ t.armed = s.armed /\ t.firing = s.firing /\ t.kick = s.kick
<1> DEFINE t == AddRequest(s, r)
<1>1. DOMAIN s = Fields
  BY DEF Good, Data
<1>2. /\ DOMAIN t = Fields /\ t.active = s.active /\ t.cic = s.cic
      /\ t.new_cfqq = s.new_cfqq /\ t.async_cfqq = s.async_cfqq
      /\ t.queued = s.queued \cup {r} /\ t.dispatched = s.dispatched
      /\ t.activated = s.activated /\ t.own = s.own /\ t.firing = s.firing
      /\ t.busy = s.busy \cup {s.own[r]}
      /\ t.kick = s.kick /\ t.armed = s.armed
  BY <1>1 DEF AddRequest, Fields
<1> HIDE DEF t
<1>3. Data(t) /\ Acyclic(t)
  BY <1>2 DEF Good, Data, Acyclic
<1>4. \A q \in Queues : ~Empty(t, q) <=> ~Empty(s, q) \/ q = s.own[r]
  BY <1>2 DEF Empty, Of
<1>5. Listed(t)
  BY <1>2, <1>4 DEF Good, Listed
<1> QED  BY <1>2, <1>3, <1>5 DEF Good, t

\* What cfq_rq_enqueued makes of cfq_data, s with the request added.
LEMMA Enqueued ==
  ASSUME NEW s, Good(s), s.queued # {}, NEW c \in Ctx, NEW r,
         \/ Preempts(c, s, r) \/ EndsWait(c, s) \/ Step(s)
  PROVE  \E t : /\ Good(t) /\ Step(t)
                /\ t.queued = s.queued /\ t.dispatched = s.dispatched
                /\ t.activated = s.activated /\ t.own = s.own
<1>1. DOMAIN s = Fields
  BY DEF Good, Data
<1>2. CASE Step(s)
  BY <1>2
<1>3. ASSUME NEW e \in Expirations(s), Step(BugIf(s.own[r] \notin e.busy, e))
      PROVE  \E t : /\ Good(t) /\ Step(t)
                    /\ t.queued = s.queued /\ t.dispatched = s.dispatched
                    /\ t.activated = s.activated /\ t.own = s.own
  <2> DEFINE t == BugIf(s.own[r] \notin e.busy, e)
  <2>1. /\ Good(e) /\ e.queued = s.queued /\ e.dispatched = s.dispatched
        /\ e.activated = s.activated /\ e.own = s.own
    BY ExpirationsFields
  <2>2. /\ Good(t) /\ t.queued = e.queued /\ t.dispatched = e.dispatched
        /\ t.activated = e.activated /\ t.own = e.own
    BY <2>1, BugFields
  <2>3. Step(t)
    BY <1>3
  <2> HIDE DEF t
  <2> QED  BY <2>1, <2>2, <2>3
<1>4. CASE Step([DelTimer(s) EXCEPT !.wait_request = FALSE])
  <2> DEFINE t == [DelTimer(s) EXCEPT !.wait_request = FALSE]
  <2>1. /\ DOMAIN t = Fields /\ t.active = s.active /\ t.cic = s.cic
        /\ t.new_cfqq = s.new_cfqq /\ t.async_cfqq = s.async_cfqq
        /\ t.queued = s.queued /\ t.dispatched = s.dispatched
        /\ t.activated = s.activated /\ t.own = s.own
        /\ t.firing = s.firing /\ t.busy = s.busy /\ t.kick = s.kick
        /\ t.armed = (s.armed /\ s.firing)
    BY <1>1 DEF DelTimer, Fields
  <2>2. Step(t)
    BY <1>4
  <2> HIDE DEF t
  <2>3. Data(t) /\ Acyclic(t) /\ Listed(t)
    BY <2>1, SameListed DEF Good, Data, Acyclic
  <2> QED  BY <2>1, <2>2, <2>3 DEF Good
<1>5. CASE Step([s EXCEPT !.must_dispatch = TRUE])
  <2> DEFINE t == [s EXCEPT !.must_dispatch = TRUE]
  <2>1. /\ DOMAIN t = Fields /\ t.active = s.active /\ t.cic = s.cic
        /\ t.new_cfqq = s.new_cfqq /\ t.async_cfqq = s.async_cfqq
        /\ t.queued = s.queued /\ t.dispatched = s.dispatched
        /\ t.activated = s.activated /\ t.own = s.own
        /\ t.firing = s.firing /\ t.busy = s.busy /\ t.kick = s.kick
        /\ t.armed = s.armed
    BY <1>1 DEF Fields
  <2>2. Step(t)
    BY <1>5
  <2> HIDE DEF t
  <2>3. Data(t) /\ Acyclic(t) /\ Listed(t)
    BY <2>1, SameListed DEF Good, Data, Acyclic
  <2> QED  BY <2>1, <2>2, <2>3 DEF Good
<1> QED  BY <1>2, <1>3, <1>4, <1>5 DEF Preempts, EndsWait

LEMMA InsertFacts ==
  ASSUME FrameTypeOK({}), NEW c \in Ctx, NEW r \in Requests, Insert(c, r, plugged)
  PROVE  /\ r \in plugged /\ plugged' = plugged \ {r}
         /\ pc'[c] # "idle"
         /\ pc' \in [Ctx -> {"idle", "flush", "run", "issue", "drain"}]
         /\ UNCHANGED <<elv, queue_head, inflight, issuing>>
<1>1. /\ pc \in [Ctx -> {"idle", "flush", "run", "issue", "drain"}]
      /\ At(c, "run") \/ At(c, "flush")
      /\ r \in plugged /\ plugged' = plugged \ {r}
      /\ UNCHANGED <<elv, queue_head, inflight, issuing>>
  BY DEF FrameTypeOK, Insert
<1> QED  BY <1>1 DEF At

LEMMA InsertIInv ==
  ASSUME IInv, NEW c \in Ctx, NEW r \in Requests, cfq_insert_request(c, r)
  PROVE  IInv'
<1> USE DEF IInv
<1> DEFINE s == AddRequest(cfqd, r)
<1>1. /\ r \in plugged /\ plugged' = plugged \ {r}
      /\ pc'[c] # "idle"
      /\ pc' \in [Ctx -> {"idle", "flush", "run", "issue", "drain"}]
      /\ UNCHANGED <<stale, elv, queue_head, inflight, issuing>>
  BY InsertFacts DEF cfq_insert_request
<1>2. /\ Good(s) /\ s.queued = cfqd.queued \cup {r}
      /\ s.dispatched = cfqd.dispatched /\ s.activated = cfqd.activated
      /\ s.own = cfqd.own
  BY <1>1, AddRequestFields DEF Places
<1>3. Preempts(c, s, r) \/ EndsWait(c, s) \/ Step(s)
  BY DEF cfq_insert_request
<1> HIDE DEF s
<1>4. PICK t : /\ Good(t) /\ Step(t)
               /\ t.queued = s.queued /\ t.dispatched = s.dispatched
               /\ t.activated = s.activated /\ t.own = s.own
  BY <1>2, <1>3, Enqueued
<1>5. /\ Good(cfqd') /\ unplug_work' = (unplug_work \/ t.kick)
      /\ cfqd'.queued = cfqd.queued \cup {r}
      /\ cfqd'.dispatched = cfqd.dispatched
      /\ cfqd'.activated = cfqd.activated /\ cfqd'.own = cfqd.own
  BY <1>2, <1>4, StepFields
<1>6. FrameTypeOK({})'
  BY <1>1, <1>4, <1>5 DEF FrameTypeOK, DeviceTypeOK, Good, Data
<1>7. Places'
  <2>1. Apart(cfqd.queued \cup {r}, plugged \ {r}, queue_head, inflight)
    BY <1>1 DEF Places, Apart
  <2> QED  BY <1>1, <1>5, <2>1 DEF Places
<1>8. Gone'
  BY <1>1 DEF Gone
<1>9. NoStranded'
  BY <1>1, Busy
<1> QED  BY <1>5, <1>6, <1>7, <1>8, <1>9

\* The request is freed, and what it is merged into stays.
LEMMA InsertMergedIInv ==
  ASSUME IInv, NEW c \in Ctx, NEW r \in Requests, InsertMerged(c, r)
  PROVE  IInv'
<1> USE DEF IInv
<1> DEFINE t == PutRequest(cfqd, r)
<1>1. /\ r \in plugged /\ plugged' = plugged \ {r}
      /\ pc'[c] # "idle"
      /\ pc' \in [Ctx -> {"idle", "flush", "run", "issue", "drain"}]
      /\ UNCHANGED <<stale, elv, queue_head, inflight, issuing>>
  BY InsertFacts DEF InsertMerged
<1>2. r \notin cfqd.queued /\ r \notin cfqd.dispatched /\ cfqd.own[r] \in Queues
  BY <1>1 DEF Places, Apart
<1>3. /\ Good(t) /\ t.queued = cfqd.queued
      /\ t.dispatched = cfqd.dispatched /\ t.activated = cfqd.activated
      /\ \A x \in Requests : x # r => t.own[x] = cfqd.own[x]
  BY <1>2, PutRequestFields
<1>4. Step(t)
  BY DEF InsertMerged
<1> HIDE DEF t
<1>5. /\ Good(cfqd') /\ unplug_work' = (unplug_work \/ t.kick)
      /\ cfqd'.queued = t.queued /\ cfqd'.dispatched = t.dispatched
      /\ cfqd'.activated = t.activated /\ cfqd'.own = t.own
  BY <1>3, <1>4, StepFields
<1>6. FrameTypeOK({})'
  BY <1>1, <1>3, <1>5 DEF FrameTypeOK, DeviceTypeOK, Good, Data
<1>7. Places'
  <2>1. plugged \subseteq Requests /\ cfqd.dispatched \subseteq Requests
    BY RangeOfSeq DEF Places, FrameTypeOK, DeviceTypeOK
  <2>2. Apart(cfqd.queued, plugged \ {r}, queue_head, inflight)
    BY DEF Places, Apart
  <2> QED  BY <1>1, <1>2, <1>3, <1>5, <2>1, <2>2 DEF Places
<1>8. Gone'
  BY <1>1 DEF Gone
<1>9. NoStranded'
  BY <1>1, Busy
<1> QED  BY <1>5, <1>6, <1>7, <1>8, <1>9

\* Of two queued requests of a queue one goes, so the queue stays on the list.
LEMMA RemovedKeeps ==
  ASSUME NEW s, Good(s), NEW rq \in s.queued, NEW next \in s.queued,
         rq # next, s.own[rq] = s.own[next]
  PROVE  LET t == [s EXCEPT !.queued = @ \ {next}]
         IN  /\ Good(t) /\ t.queued = s.queued \ {next} /\ t.own = s.own
             /\ t.dispatched = s.dispatched /\ t.activated = s.activated
             /\ t.armed = s.armed /\ t.firing = s.firing /\ t.kick = s.kick
<1> DEFINE t == [s EXCEPT !.queued = @ \ {next}]
<1>1. DOMAIN s = Fields
  BY DEF Good, Data
<1>2. /\ DOMAIN t = Fields /\ t.active = s.active /\ t.cic = s.cic
      /\ t.new_cfqq = s.new_cfqq /\ t.async_cfqq = s.async_cfqq
      /\ t.queued = s.queued \ {next} /\ t.dispatched = s.dispatched
      /\ t.activated = s.activated /\ t.own = s.own
      /\ t.firing = s.firing /\ t.busy = s.busy /\ t.kick = s.kick
      /\ t.armed = s.armed
  BY <1>1 DEF Fields
<1> HIDE DEF t
<1>3. Data(t) /\ Acyclic(t)
  BY <1>2 DEF Good, Data, Acyclic
<1>4. \A q \in Queues : Empty(t, q) <=> Empty(s, q)
  BY <1>2 DEF Empty, Of
<1>5. Listed(t)
  BY <1>2, <1>4 DEF Good, Listed
<1> QED  BY <1>2, <1>3, <1>5 DEF Good, t

LEMMA MergedRequestsIInv ==
  ASSUME IInv, NEW rq \in Requests, NEW next \in Requests,
         cfq_merged_requests(rq, next)
  PROVE  IInv'
<1> USE DEF IInv
<1> DEFINE m == [cfqd EXCEPT !.queued = @ \ {next}]
           t == PutRequest(m, next)
<1>1. /\ rq \in cfqd.queued /\ next \in cfqd.queued /\ rq # next
      /\ cfqd.own[rq] = cfqd.own[next] /\ Step(t) /\ elv = "attached"
      /\ UNCHANGED <<plugged, stale, elv, queue_head, inflight, issuing, pc>>
  BY DEF cfq_merged_requests, deviceVars
<1>2. /\ Good(m) /\ m.queued = cfqd.queued \ {next} /\ m.own = cfqd.own
      /\ m.dispatched = cfqd.dispatched /\ m.activated = cfqd.activated
      /\ m.armed = cfqd.armed /\ m.firing = cfqd.firing /\ m.kick = cfqd.kick
  BY <1>1, RemovedKeeps
<1>3. cfqd.own[next] \in Queues
  BY <1>1 DEF Good, Data
<1> HIDE DEF m
<1>4. /\ Good(t) /\ t.queued = m.queued
      /\ t.dispatched = m.dispatched /\ t.activated = m.activated
      /\ \A x \in Requests : x # next => t.own[x] = m.own[x]
      /\ Live(m) => Live(t) \/ t.busy = {}
  BY <1>2, <1>3, PutRequestFields
<1> HIDE DEF t
<1>5. /\ Good(cfqd') /\ unplug_work' = (unplug_work \/ t.kick)
      /\ cfqd'.queued = t.queued /\ cfqd'.dispatched = t.dispatched
      /\ cfqd'.activated = t.activated /\ cfqd'.own = t.own
  BY <1>1, <1>4, StepFields
<1>6. FrameTypeOK({})'
  BY <1>1, <1>4, <1>5 DEF FrameTypeOK, DeviceTypeOK, Good, Data
<1>7. Places'
  <2>1. plugged \subseteq Requests /\ cfqd.dispatched \subseteq Requests
    BY RangeOfSeq DEF Places, FrameTypeOK, DeviceTypeOK
  <2>2. /\ Apart(cfqd.queued \ {next}, plugged, queue_head, inflight)
        /\ next \notin plugged /\ next \notin cfqd.dispatched
    BY <1>1 DEF Places, Apart
  <2> QED  BY <1>1, <1>2, <1>4, <1>5, <2>1, <2>2 DEF Places
<1>8. Gone'
  BY <1>1 DEF Gone
<1>9. NoStranded'
  <2>1. Live(cfqd) => Live(t) \/ t.busy = {}
    BY <1>2, <1>4 DEF Live
  <2>2. t.queued \subseteq cfqd.queued
    BY <1>2, <1>4
  <2> QED  BY <1>1, <1>4, <2>1, <2>2, StepKeeps
<1> QED  BY <1>5, <1>6, <1>7, <1>8, <1>9

-----------------------------------------------------------------------------
(* Dispatching.                                                            *)

\* A request leaves the active queue, which stays on the list.
LEMMA DispatchFields ==
  ASSUME NEW s, Good(s), s.active # NoCfqq,
         NEW r \in Of(s, s.active, s.queued),
         NEW t \in cfq_dispatch_request(s, s.active, r)
  PROVE  /\ Good(t) /\ t.queued = s.queued \ {r} /\ t.own = s.own
         /\ t.dispatched = s.dispatched \cup {r} /\ t.activated = s.activated
<1> DEFINE u == [s EXCEPT !.queued = @ \ {r}, !.dispatched = @ \cup {r},
                          !.must_dispatch = FALSE]
<1>1. DOMAIN s = Fields
  BY DEF Good, Data
<1>2. /\ DOMAIN u = Fields /\ u.active = s.active /\ u.cic = s.cic
      /\ u.new_cfqq = s.new_cfqq /\ u.async_cfqq = s.async_cfqq
      /\ u.queued = s.queued \ {r} /\ u.dispatched = s.dispatched \cup {r}
      /\ u.activated = s.activated /\ u.own = s.own
      /\ u.firing = s.firing /\ u.busy = s.busy /\ u.kick = s.kick
      /\ u.armed = s.armed
  BY <1>1 DEF Fields
<1>3. t = u \/ t \in Expirations(u)
  BY DEF cfq_dispatch_request
<1> HIDE DEF u
<1>4. Data(u) /\ Acyclic(u)
  BY <1>2 DEF Good, Data, Acyclic
<1>5. Listed(u)
  <2>1. s.own[r] = s.active /\ s.active \in Queues
    BY DEF Of, Good, Data, MaybeQueue
  <2>2. \A q \in Queues \ {s.active} : Empty(u, q) <=> Empty(s, q)
    BY <1>2, <2>1 DEF Empty, Of
  <2> QED  BY <1>2, <2>1, <2>2 DEF Good, Listed
<1>6. Good(u)
  BY <1>4, <1>5 DEF Good
<1> QED  BY <1>2, <1>3, <1>6, ExpirationsFields

\* request_fn that has nothing to dispatch now returns, and something is left
\* that makes it look again.
LEMMA DispatchNoneIInv ==
  ASSUME IInv, NEW c \in Ctx, NEW o, Sound(cfqd, o),
         o.from = NoCfqq \/ MayRefuse(o.s, o.from) \/ Empty(o.s, o.from),
         Step(BugIf(o.from # NoCfqq /\ Empty(o.s, o.from), o.s)),
         At(c, "idle"),
         UNCHANGED <<plugged, stale, elv, queue_head, inflight, issuing>>
  PROVE  IInv'
<1> USE DEF IInv
<1> DEFINE t == BugIf(o.from # NoCfqq /\ Empty(o.s, o.from), o.s)
<1>1. /\ Good(t) /\ t.queued = cfqd.queued
      /\ t.dispatched = cfqd.dispatched /\ t.activated = cfqd.activated
      /\ t.own = cfqd.own /\ (Live(o.s) => Live(t))
  BY BugFields DEF Sound, Live
<1>2. Step(t)
  OBVIOUS
<1> HIDE DEF t
<1>3. /\ Good(cfqd') /\ unplug_work' = (unplug_work \/ t.kick)
      /\ cfqd'.queued = cfqd.queued
      /\ cfqd'.dispatched = cfqd.dispatched
      /\ cfqd'.activated = cfqd.activated /\ cfqd'.own = cfqd.own
  BY <1>1, <1>2, StepFields
<1>4. pc' \in [Ctx -> {"idle", "flush", "run", "issue", "drain"}]
  BY DEF At, FrameTypeOK
<1>5. FrameTypeOK({})'
  BY <1>1, <1>3, <1>4 DEF FrameTypeOK, DeviceTypeOK, Good, Data
<1>6. Places' /\ Gone'
  BY <1>3 DEF Places, Gone
<1>7. NoStranded'
  <2>1. MayRefuse(o.s, o.from) => o.s.dispatched # {}
    BY DEF MayRefuse, Of
  <2>2. cfqd.queued = {} \/ cfqd.dispatched # {} \/ Live(t)
    BY <1>1, <2>1, QueueFacts DEF Sound
  <2>3. CASE cfqd.dispatched # {}
    <3>1. queue_head # <<>> \/ inflight # {}
      <4>1. queue_head = <<>> => Range(queue_head) = {}
        BY DEF Range
      <4> QED  BY <2>3, <4>1 DEF Places
    <3> QED  BY <3>1 DEF NoStranded
  <2>4. CASE cfqd.queued = {} \/ Live(t)
    BY <1>1, <1>2, <2>4, StepRuns
  <2> QED  BY <2>2, <2>3, <2>4
<1> QED  BY <1>3, <1>5, <1>6, <1>7

LEMMA DispatchOneIInv ==
  ASSUME IInv, NEW c \in Ctx, pc[c] = "run", elv = "attached",
         NEW o, Sound(cfqd, o), o.from # NoCfqq,
         NEW r \in Of(o.s, o.from, o.s.queued), elv_dispatch_sort(r),
         NEW t \in cfq_dispatch_request(o.s, o.from, r), Step(t),
         UNCHANGED <<plugged, stale, elv, inflight, issuing, pc>>
  PROVE  IInv'
<1> USE DEF IInv
<1>1. /\ o.from = o.s.active /\ Good(o.s) /\ r \in cfqd.queued
      /\ o.s.queued = cfqd.queued /\ o.s.dispatched = cfqd.dispatched
      /\ o.s.activated = cfqd.activated /\ o.s.own = cfqd.own
  BY DEF Sound, Of
<1>2. /\ Good(t) /\ t.queued = cfqd.queued \ {r} /\ t.own = cfqd.own
      /\ t.dispatched = cfqd.dispatched \cup {r}
      /\ t.activated = cfqd.activated
  BY <1>1, DispatchFields
<1>3. /\ Good(cfqd') /\ unplug_work' = (unplug_work \/ t.kick)
      /\ cfqd'.queued = t.queued /\ cfqd'.dispatched = t.dispatched
      /\ cfqd'.activated = t.activated /\ cfqd'.own = t.own
  BY <1>2, StepFields
<1>4. r \in Requests /\ queue_head \in Seq(Requests)
  BY <1>1 DEF FrameTypeOK, DeviceTypeOK, Good, Data
<1>5. PICK i \in 1 .. Len(queue_head) + 1 : queue_head' = With(queue_head, i, r)
  BY DEF elv_dispatch_sort
<1>6. queue_head' \in Seq(Requests)
  BY <1>4, <1>5, WithProperties
<1>7. Range(queue_head') = Range(queue_head) \cup {r}
  BY <1>4, <1>5, WithDistinct
<1>8. Apart(cfqd.queued \ {r}, plugged, queue_head', inflight)
  BY <1>1, <1>4, <1>5, ApartDispatch DEF Places
<1>9. FrameTypeOK({})'
  BY <1>2, <1>3, <1>6 DEF FrameTypeOK, DeviceTypeOK, Good, Data
<1>10. Places'
  <2>1. cfqd.own[r] \in Queues
    BY <1>1 DEF Good, Data
  <2> QED  BY <1>2, <1>3, <1>7, <1>8, <2>1 DEF Places
<1>11. Gone' /\ NoStranded'
  BY DEF Gone, NoStranded
<1> QED  BY <1>3, <1>9, <1>10, <1>11

LEMMA DispatchIInv ==
  ASSUME IInv, NEW c \in Ctx, cfq_dispatch_requests(c)
  PROVE  IInv'
<1>1. PICK o \in IF cfqd.busy = {} THEN Nothing(cfqd) ELSE Select(cfqd) :
       \/ /\ o.from = NoCfqq \/ MayRefuse(o.s, o.from) \/ Empty(o.s, o.from)
          /\ Step(BugIf(o.from # NoCfqq /\ Empty(o.s, o.from), o.s))
          /\ At(c, "idle") /\ UNCHANGED queue_head
       \/ \E r \in Of(o.s, o.from, o.s.queued) :
            /\ elv_dispatch_sort(r)
            /\ \E t \in cfq_dispatch_request(o.s, o.from, r) : Step(t)
            /\ UNCHANGED pc
  BY DEF cfq_dispatch_requests
<1>2. Sound(cfqd, o)
  <2>1. Good(cfqd)
    BY DEF IInv
  <2>2. CASE cfqd.busy = {}
    BY <1>1, <2>1, <2>2, NothingQueued, NothingSound
  <2>3. CASE cfqd.busy # {}
    BY <1>1, <2>1, <2>3, SelectSound
  <2> QED  BY <2>2, <2>3
<1>3. /\ pc[c] = "run" /\ elv = "attached"
      /\ UNCHANGED <<plugged, stale, elv, inflight, issuing>>
  BY DEF cfq_dispatch_requests
<1>4. CASE /\ o.from = NoCfqq \/ MayRefuse(o.s, o.from) \/ Empty(o.s, o.from)
           /\ Step(BugIf(o.from # NoCfqq /\ Empty(o.s, o.from), o.s))
           /\ At(c, "idle") /\ UNCHANGED queue_head
  BY <1>2, <1>3, <1>4, DispatchNoneIInv
<1>5. ASSUME NEW r \in Of(o.s, o.from, o.s.queued), elv_dispatch_sort(r),
             NEW t \in cfq_dispatch_request(o.s, o.from, r), Step(t),
             UNCHANGED pc
      PROVE  IInv'
  <2>1. r \in o.s.queued /\ o.s.own[r] = o.from /\ Good(o.s)
    BY <1>2 DEF Of, Sound
  <2>2. o.from # NoCfqq
    BY <2>1, QueueFacts DEF Good, Data
  <2> QED  BY <1>2, <1>3, <1>5, <2>2, DispatchOneIInv
<1> QED  BY <1>1, <1>4, <1>5

\* What cfq_forced_dispatch hands over: all that is queued, in some order.
LEMMA AllInOrder ==
  ASSUME NEW S \in SUBSET Requests, NEW rest \in SetToSeqs(S)
  PROVE  rest \in Seq(Requests) /\ Range(rest) = S /\ IsInjective(rest)
<1> DEFINE N == Cardinality(S)
<1>1. IsFiniteSet(S) /\ N \in Nat
  BY RequestsAssumption, FS_Subset, FS_CardinalityType
<1>2. /\ rest \in [1 .. N -> S]
      /\ \A i, j \in 1 .. N : i # j => rest[i] # rest[j]
  BY DEF SetToSeqs
<1>3. DOMAIN rest = 1 .. N /\ IsInjective(rest)
  BY <1>2 DEF IsInjective
<1>4. rest \in Seq(Requests)
  BY <1>1, <1>2 DEF Seq
<1>5. rest \in Injection(1 .. N, S)
  BY <1>2, <1>3 DEF Injection
<1>6. Cardinality(1 .. N) = N
  <2>1. 0 \in Int /\ 1 \in Int /\ N \in Int
    BY <1>1
  <2>2. Cardinality(1 .. N) = IF 1 > N THEN 0 ELSE N - 1 + 1
    BY <2>1, FS_Interval
  <2> QED  BY <1>1, <2>2
<1>7. rest \in Surjection(1 .. N, S)
  BY <1>1, <1>5, <1>6, FS_Injection
<1> QED  BY <1>2, <1>3, <1>4, <1>7 DEF Surjection, Range

LEMMA ApartDrained ==
  ASSUME NEW linked \in SUBSET Requests, NEW head \in Seq(Requests),
         NEW plug, NEW fly, Apart(linked, plug, head, fly),
         NEW rest \in SetToSeqs(linked)
  PROVE  /\ head \o rest \in Seq(Requests)
         /\ Range(head \o rest) = Range(head) \cup linked
         /\ Apart({}, plug, head \o rest, fly)
<1> DEFINE all == head \o rest
<1>1. rest \in Seq(Requests) /\ Range(rest) = linked /\ IsInjective(rest)
  BY AllInOrder
<1>2. all \in Seq(Requests) /\ Range(all) = Range(head) \cup linked
  BY <1>1, RangeConcatenation
<1>3. /\ Len(head) \in Nat /\ Len(rest) \in Nat
      /\ DOMAIN head = 1 .. Len(head) /\ DOMAIN rest = 1 .. Len(rest)
      /\ DOMAIN all = 1 .. Len(head) + Len(rest)
      /\ \A i \in 1 .. Len(head) + Len(rest) :
           all[i] = IF i <= Len(head) THEN head[i] ELSE rest[i - Len(head)]
  BY <1>1
<1> HIDE DEF all
<1>4. IsInjective(head) /\ Range(head) \cap Range(rest) = {}
  BY <1>1 DEF Apart
<1>5. \A i \in 1 .. Len(head), j \in 1 .. Len(rest) : head[i] # rest[j]
  BY <1>3, <1>4 DEF Range
<1>6. IsInjective(all)
  <2> SUFFICES ASSUME NEW i \in 1 .. Len(head) + Len(rest),
                      NEW j \in 1 .. Len(head) + Len(rest), all[i] = all[j]
               PROVE  i = j
    BY <1>3 DEF IsInjective
  <2>1. CASE i <= Len(head) /\ j <= Len(head)
    BY <1>3, <1>4, <2>1 DEF IsInjective
  <2>2. CASE i > Len(head) /\ j > Len(head)
    <3>1. /\ i - Len(head) \in 1 .. Len(rest) /\ j - Len(head) \in 1 .. Len(rest)
          /\ rest[i - Len(head)] = rest[j - Len(head)]
      BY <1>3, <2>2
    <3>2. i - Len(head) = j - Len(head)
      BY <1>1, <1>3, <3>1 DEF IsInjective
    <3> QED  BY <1>3, <3>2
  <2>3. CASE i <= Len(head) /\ j > Len(head)
    BY <1>3, <1>5, <2>3
  <2>4. CASE i > Len(head) /\ j <= Len(head)
    BY <1>3, <1>5, <2>4
  <2> QED  BY <1>3, <2>1, <2>2, <2>3, <2>4
<1>7. Apart({}, plug, all, fly)
  BY <1>2, <1>6 DEF Apart
<1> QED  BY <1>2, <1>7 DEF all

\* A forced dispatch leaves an empty list, and no queue active.
LEMMA ForcedFields ==
  ASSUME NEW s, Good(s), NEW seeky
  PROVE  LET t == Forced(s, seeky)
         IN  /\ Good(t) /\ t.queued = {} /\ t.own = s.own
             /\ t.dispatched = s.dispatched \cup s.queued
             /\ t.activated = s.activated
<1> DEFINE x == DelTimer(s)
           e == IF s.active = NoCfqq THEN s ELSE Expire(s, s.active \in seeky)
           u == [e EXCEPT !.armed = IF e.busy = {} THEN @ ELSE x.armed,
                  !.dispatched = @ \cup s.queued, !.queued = {}, !.busy = {},
                  !.coop = [q \in Queues |->
                     IF e.coop[q] = "coop" /\ q \in e.busy \cap seeky
                     THEN "split" ELSE e.coop[q]]]
           P == \E q \in e.busy : Empty(e, q)
           t == BugIf(P, u)
<1>1. DOMAIN s = Fields /\ s.armed \in BOOLEAN /\ s.firing \in BOOLEAN
  BY DEF Good, Data
<1>2. x.armed \in BOOLEAN
  BY <1>1 DEF DelTimer, Fields
<1>3. /\ Good(e) /\ e.active = NoCfqq /\ e.queued = s.queued
      /\ e.dispatched = s.dispatched /\ e.activated = s.activated
      /\ e.own = s.own
  <2>1. CASE s.active = NoCfqq
    BY <2>1
  <2>2. CASE s.active # NoCfqq
    <3> DEFINE seek == s.active \in seeky
    <3>1. seek \in BOOLEAN
      OBVIOUS
    <3> HIDE DEF seek
    <3>2. /\ Good(Expire(s, seek)) /\ Expire(s, seek).active = NoCfqq
          /\ Expire(s, seek).queued = s.queued
          /\ Expire(s, seek).dispatched = s.dispatched
          /\ Expire(s, seek).activated = s.activated
          /\ Expire(s, seek).own = s.own
      BY <2>2, <3>1, ExpireKeeps
    <3> QED  BY <2>2, <3>2 DEF seek
  <2> QED  BY <2>1, <2>2
<1>4. Forced(s, seeky) = t
  BY DEF Forced
<1> HIDE DEF e, x
<1>5. DOMAIN e = Fields /\ e.armed \in BOOLEAN
  BY <1>3 DEF Good, Data
<1>6. /\ DOMAIN u = Fields /\ u.active = e.active /\ u.cic = e.cic
      /\ u.new_cfqq = e.new_cfqq /\ u.async_cfqq = e.async_cfqq
      /\ u.queued = {} /\ u.dispatched = e.dispatched \cup s.queued
      /\ u.activated = e.activated /\ u.own = e.own
      /\ u.firing = e.firing /\ u.busy = {} /\ u.kick = e.kick
      /\ u.armed \in BOOLEAN
  BY <1>2, <1>5 DEF Fields
<1> HIDE DEF u, P
<1>7. Data(u) /\ Acyclic(u)
  BY <1>3, <1>6 DEF Good, Data, Acyclic
<1>8. Listed(u)
  BY <1>3, <1>6 DEF Listed, Empty, Of
<1>9. Good(u)
  BY <1>7, <1>8 DEF Good
<1> QED  BY <1>3, <1>4, <1>6, <1>9, BugFields

LEMMA ForcedIInv ==
  ASSUME IInv, NEW c \in Ctx, cfq_forced_dispatch(c)
  PROVE  IInv'
<1> USE DEF IInv
<1>1. PICK seeky \in SUBSET cfqd.busy, rest \in SetToSeqs(cfqd.queued) :
        Step(Forced(cfqd, seeky)) /\ queue_head' = queue_head \o rest
  BY DEF cfq_forced_dispatch
<1>2. /\ pc[c] = "drain"
      /\ UNCHANGED <<plugged, stale, elv, inflight, issuing, pc>>
  BY DEF cfq_forced_dispatch
<1> DEFINE t == Forced(cfqd, seeky)
<1>3. /\ Good(t) /\ t.queued = {} /\ t.own = cfqd.own
      /\ t.dispatched = cfqd.dispatched \cup cfqd.queued
      /\ t.activated = cfqd.activated
  BY ForcedFields
<1>4. Step(t)
  BY <1>1
<1> HIDE DEF t
<1>5. /\ Good(cfqd') /\ unplug_work' = (unplug_work \/ t.kick)
      /\ cfqd'.queued = t.queued /\ cfqd'.dispatched = t.dispatched
      /\ cfqd'.activated = t.activated /\ cfqd'.own = t.own
  BY <1>3, <1>4, StepFields
<1>6. cfqd.queued \in SUBSET Requests /\ queue_head \in Seq(Requests)
  BY DEF Good, Data, FrameTypeOK, DeviceTypeOK
<1>7. /\ queue_head' \in Seq(Requests)
      /\ Range(queue_head') = Range(queue_head) \cup cfqd.queued
      /\ Apart({}, plugged, queue_head', inflight)
  BY <1>1, <1>6, ApartDrained DEF Places
<1>8. FrameTypeOK({})'
  BY <1>2, <1>3, <1>5, <1>7 DEF FrameTypeOK, DeviceTypeOK, Good, Data
<1>9. Places'
  <2>1. \A r \in cfqd.queued : cfqd.own[r] \in Queues
    BY DEF Good, Data
  <2> QED  BY <1>2, <1>3, <1>5, <1>7, <2>1 DEF Places
<1>10. Gone'
  BY <1>2, <1>3, <1>5 DEF Gone
<1>11. NoStranded'
  BY <1>3, <1>5 DEF NoStranded
<1> QED  BY <1>5, <1>8, <1>9, <1>10, <1>11

LEMMA DrainedIInv ==
  ASSUME IInv, NEW c \in Ctx, Drained(c)
  PROVE  IInv'
<1> USE DEF IInv
<1>1. /\ cfqd.queued = {} /\ DrainTurnEnds(c, cfqd.queued)
      /\ UNCHANGED <<plugged, stale, unplug_work, cfqd,
                     queue_head, inflight, issuing>>
  BY NothingQueued DEF Drained
<1>2. pc' \in [Ctx -> {"idle", "flush", "run", "issue", "drain"}]
  BY <1>1 DEF DrainTurnEnds, At, FrameTypeOK
<1>3. \/ elv' = elv
      \/ elv' = "detached" /\ plugged = {} /\ cfqd.dispatched = {}
  BY <1>1 DEF DrainTurnEnds, Quiescent, OutstandingWith, Places
<1>4. FrameTypeOK({})'
  BY <1>1, <1>2, <1>3 DEF FrameTypeOK, DeviceTypeOK
<1>5. Places' /\ Gone' /\ NoStranded'
  BY <1>1, <1>3 DEF Places, Gone, NoStranded
<1>6. Good(cfqd')
  BY <1>1
<1> QED  BY <1>4, <1>5, <1>6

-----------------------------------------------------------------------------
(* The driver.                                                             *)

\* cfq_activate_request and cfq_deactivate_request only count.
LEMMA ActivatedFields ==
  ASSUME NEW s, Good(s), NEW S
  PROVE  LET t == [s EXCEPT !.activated = S]
         IN  /\ Good(t) /\ t.activated = S /\ t.own = s.own
             /\ t.queued = s.queued /\ t.dispatched = s.dispatched
             /\ t.armed = s.armed /\ t.firing = s.firing
<1> DEFINE t == [s EXCEPT !.activated = S]
<1>1. DOMAIN s = Fields
  BY DEF Good, Data
<1>2. /\ DOMAIN t = Fields /\ t.active = s.active /\ t.cic = s.cic
      /\ t.new_cfqq = s.new_cfqq /\ t.async_cfqq = s.async_cfqq
      /\ t.queued = s.queued /\ t.dispatched = s.dispatched
      /\ t.activated = S /\ t.own = s.own
      /\ t.firing = s.firing /\ t.busy = s.busy /\ t.kick = s.kick
      /\ t.armed = s.armed
  BY <1>1 DEF Fields
<1> HIDE DEF t
<1>3. Data(t) /\ Acyclic(t) /\ Listed(t)
  BY <1>2, SameListed DEF Good, Data, Acyclic
<1> QED  BY <1>2, <1>3 DEF Good, t

\* request_fn looks at the first request: the device is busy, or it starts.
LEMMA StartIInv ==
  ASSUME IInv, NEW c \in Ctx, DeviceBusy(c) \/ Start(c),
         Activate(Head(queue_head)), UNCHANGED frameVars
  PROVE  IInv'
<1> USE DEF IInv
<1> DEFINE r == Head(queue_head)
           t == [cfqd EXCEPT !.activated = cfqd.activated \cup {r}]
<1>1. /\ queue_head # <<>> /\ queue_head \in Seq(Requests)
      /\ inflight \subseteq Requests /\ At(c, "idle") /\ UNCHANGED issuing
  BY DEF DeviceBusy, Start, FrameTypeOK, DeviceTypeOK
<1>2. /\ r \in Requests /\ Tail(queue_head) \in Seq(Requests)
      /\ r \in Range(queue_head)
      /\ Range(Tail(queue_head)) = Range(queue_head) \ {r}
  BY <1>1, TailDistinct, HeadTailProperties DEF Places, Apart
<1>3. cfqd' = t
  BY DEF Activate
<1>4. /\ Good(t) /\ t.activated = cfqd.activated \cup {r} /\ t.own = cfqd.own
      /\ t.queued = cfqd.queued /\ t.dispatched = cfqd.dispatched
  BY ActivatedFields
<1> HIDE DEF t
<1>5. pc' \in [Ctx -> {"idle", "flush", "run", "issue", "drain"}]
  BY <1>1 DEF At, FrameTypeOK
<1>6. /\ queue_head' \in Seq(Requests) /\ inflight' \subseteq Requests
      /\ Range(queue_head') \cup inflight' = Range(queue_head) \cup inflight
      /\ Apart(cfqd.queued, plugged, queue_head', inflight')
      /\ queue_head' # <<>> \/ inflight' # {}
  <2>1. CASE DeviceBusy(c)
    BY <1>1, <2>1 DEF DeviceBusy, Places
  <2>2. CASE Start(c)
    <3>1. queue_head' = Tail(queue_head) /\ inflight' = inflight \cup {r}
      BY <2>2 DEF Start
    <3>2. Apart(cfqd.queued, plugged, queue_head', inflight')
      BY <1>1, <3>1, ApartStart DEF Places
    <3> HIDE DEF r
    <3> QED  BY <1>1, <1>2, <3>1, <3>2
  <2> QED  BY <2>1, <2>2
<1> HIDE DEF r
<1>7. FrameTypeOK({})'
  BY <1>1, <1>5, <1>6 DEF FrameTypeOK, DeviceTypeOK, frameVars
<1>8. Places'
  BY <1>2, <1>3, <1>4, <1>6 DEF Places, frameVars
<1>9. Gone'
  BY <1>3, <1>4 DEF Gone, frameVars
<1>10. NoStranded'
  BY <1>6 DEF NoStranded
<1> QED  BY <1>3, <1>4, <1>7, <1>8, <1>9, <1>10

LEMMA DeactivateIInv ==
  ASSUME IInv, NEW r \in Requests, cfq_deactivate_request(r)
  PROVE  IInv'
<1> USE DEF IInv
<1> DEFINE t == [cfqd EXCEPT !.activated = cfqd.activated \ {r}]
<1>1. /\ r \in inflight /\ inflight' = inflight \ {r}
      /\ queue_head' = <<r>> \o queue_head /\ cfqd' = t
      /\ UNCHANGED <<frameVars, issuing, pc>>
  BY DEF cfq_deactivate_request
<1>2. /\ Good(t) /\ t.activated = cfqd.activated \ {r} /\ t.own = cfqd.own
      /\ t.queued = cfqd.queued /\ t.dispatched = cfqd.dispatched
  BY ActivatedFields
<1> HIDE DEF t
<1>3. queue_head \in Seq(Requests) /\ <<r>> \in Seq(Requests)
  BY DEF FrameTypeOK, DeviceTypeOK
<1>4. /\ queue_head' \in Seq(Requests)
      /\ Range(queue_head') = Range(queue_head) \cup {r}
  BY <1>1, <1>3, ConsDistinct
<1>5. Apart(cfqd.queued, plugged, queue_head', inflight')
  BY <1>1, <1>3, ApartRequeue DEF Places
<1>6. FrameTypeOK({})'
  BY <1>1, <1>4 DEF FrameTypeOK, DeviceTypeOK, frameVars
<1>7. Places'
  BY <1>1, <1>2, <1>4, <1>5 DEF Places, frameVars
<1>8. Gone'
  BY <1>1, <1>2 DEF Gone, frameVars
<1>9. NoStranded'
  <2>1. queue_head' = <<>> => Range(queue_head') = {}
    BY DEF Range
  <2> QED  BY <1>4, <2>1 DEF NoStranded
<1> QED  BY <1>1, <1>2, <1>6, <1>7, <1>8, <1>9

\* cfq_data stays, and the context is inside request_fn or the drain.
LEMMA EntersIInv ==
  ASSUME IInv, NEW c \in Ctx, NEW label \in {"run", "drain"}, At(c, label),
         unplug_work' \in BOOLEAN,
         UNCHANGED <<plugged, stale, elv, queue_head, inflight, issuing, cfqd>>
  PROVE  IInv'
<1> USE DEF IInv
<1>1. pc' \in [Ctx -> {"idle", "flush", "run", "issue", "drain"}]
  BY DEF At, FrameTypeOK
<1>2. pc'[c] # "idle"
  BY DEF At, FrameTypeOK
<1>3. FrameTypeOK({})'
  BY <1>1 DEF FrameTypeOK, DeviceTypeOK
<1>4. Places' /\ Gone' /\ Good(cfqd')
  BY DEF Places, Gone
<1> QED  BY <1>2, <1>3, <1>4, Busy

\* A bypassed queue with an empty driver's list: the drain will look.
LEMMA BypassedIInv ==
  ASSUME IInv, NEW c \in Ctx, elv = "bypass", DeviceBypassed(c),
         UNCHANGED <<frameVars, cfqd>>
  PROVE  IInv'
<1> USE DEF IInv
<1>1. /\ At(c, "idle") /\ UNCHANGED <<queue_head, inflight, issuing>>
      /\ UNCHANGED <<plugged, stale, unplug_work, elv, cfqd>>
  BY DEF DeviceBypassed, frameVars
<1>2. pc' \in [Ctx -> {"idle", "flush", "run", "issue", "drain"}]
  BY <1>1 DEF At, FrameTypeOK
<1>3. FrameTypeOK({})'
  BY <1>1, <1>2 DEF FrameTypeOK, DeviceTypeOK
<1>4. Places' /\ Gone' /\ NoStranded' /\ Good(cfqd')
  BY <1>1 DEF Places, Gone, NoStranded
<1> QED  BY <1>3, <1>4

\* The slice of the queue that completes a request goes on or ends, and a
\* timer may be armed.
LEMMA SliceFields ==
  ASSUME NEW s, Good(s), NEW r, NEW t \in SliceGoesOn(s, r)
  PROVE  /\ Good(t) /\ t.queued = s.queued /\ t.dispatched = s.dispatched
         /\ t.activated = s.activated /\ t.own = s.own
<1> DEFINE a == [s EXCEPT !.slice_new = FALSE]
           b == [a EXCEPT !.wait_busy = TRUE]
           Same(x) == /\ Good(x) /\ x.queued = s.queued
                      /\ x.dispatched = s.dispatched
                      /\ x.activated = s.activated /\ x.own = s.own
<1>1. PICK w \in {a, b} :
        \/ t = w \/ t \in Expirations(w) \/ t \in ArmSliceTimer(w)
  <2> DEFINE empty == Empty(s, s.active)
             waits == IF empty /\ s.busy \subseteq {s.active}
                      THEN {a, b} ELSE {a}
  <2>1. t \in UNION {{w} \cup Expirations(w) \cup
                     (IF r \in s.rq_sync /\ empty THEN ArmSliceTimer(w) ELSE {}) :
                     w \in waits}
    BY DEF SliceGoesOn
  <2>2. waits \subseteq {a, b}
    OBVIOUS
  <2> HIDE DEF a, b, empty, waits
  <2> QED  BY <2>1, <2>2
<1>2. DOMAIN s = Fields
  BY DEF Good, Data
<1>3. Same(w)
  <2>1. /\ DOMAIN w = Fields /\ w.active = s.active /\ w.cic = s.cic
        /\ w.new_cfqq = s.new_cfqq /\ w.async_cfqq = s.async_cfqq
        /\ w.queued = s.queued /\ w.dispatched = s.dispatched
        /\ w.activated = s.activated /\ w.own = s.own
        /\ w.firing = s.firing /\ w.busy = s.busy /\ w.kick = s.kick
        /\ w.armed = s.armed
    BY <1>2 DEF Fields
  <2> HIDE DEF a, b
  <2>2. Data(w) /\ Acyclic(w) /\ Listed(w)
    BY <2>1, SameListed DEF Good, Data, Acyclic
  <2> QED  BY <2>1, <2>2 DEF Good
<1> HIDE DEF a, b
<1>4. CASE t = w
  BY <1>3, <1>4
<1>5. CASE t \in Expirations(w)
  BY <1>3, <1>5, ExpirationsFields
<1>6. CASE t \in ArmSliceTimer(w)
  <2>1. t = [w EXCEPT !.wait_request = TRUE, !.armed = TRUE]
    BY <1>6 DEF ArmSliceTimer
  <2>2. DOMAIN w = Fields
    BY <1>3 DEF Good, Data
  <2>3. /\ DOMAIN t = Fields /\ t.active = w.active /\ t.cic = w.cic
        /\ t.new_cfqq = w.new_cfqq /\ t.async_cfqq = w.async_cfqq
        /\ t.queued = w.queued /\ t.dispatched = w.dispatched
        /\ t.activated = w.activated /\ t.own = w.own
        /\ t.firing = w.firing /\ t.busy = w.busy /\ t.kick = w.kick
        /\ t.armed = TRUE
    BY <2>1, <2>2 DEF Fields
  <2>4. Data(t) /\ Acyclic(t) /\ Listed(t)
    BY <1>3, <2>3, SameListed DEF Good, Data, Acyclic
  <2> QED  BY <1>3, <2>3, <2>4 DEF Good
<1> QED  BY <1>1, <1>4, <1>5, <1>6

\* The last request that the driver had started kicks, and so the queue is
\* run again; an earlier one leaves another request with the driver.
LEMMA CompletedIInv ==
  ASSUME IInv, NEW r \in Requests, cfq_completed_request(r)
  PROVE  IInv'
<1> USE DEF IInv
<1> DEFINE s == [cfqd EXCEPT !.dispatched = @ \ {r}, !.activated = @ \ {r}]
<1>1. /\ r \in inflight /\ inflight' = inflight \ {r}
      /\ issuing' \in [Ctx -> Requests \cup {NoReq}]
      /\ UNCHANGED <<queue_head, pc, plugged, stale, elv>>
  BY DEF cfq_completed_request, DeviceComplete, FrameTypeOK, DeviceTypeOK
<1>2. r \notin cfqd.queued /\ r \notin plugged /\ r \notin Range(queue_head)
  BY <1>1 DEF Places, Apart
<1>3. PICK t \in IF s.active = s.own[r] THEN SliceGoesOn(s, r) ELSE {s} :
        Step(PutRequest(
               IF t.activated = {} THEN ScheduleDispatch(t) ELSE t, r))
  BY DEF cfq_completed_request
<1>4. /\ Good(s) /\ s.queued = cfqd.queued /\ s.own = cfqd.own
      /\ s.dispatched = cfqd.dispatched \ {r}
      /\ s.activated = cfqd.activated \ {r}
  <2>1. DOMAIN cfqd = Fields
    BY DEF Good, Data
  <2>2. /\ DOMAIN s = Fields /\ s.active = cfqd.active /\ s.cic = cfqd.cic
        /\ s.new_cfqq = cfqd.new_cfqq /\ s.async_cfqq = cfqd.async_cfqq
        /\ s.queued = cfqd.queued /\ s.dispatched = cfqd.dispatched \ {r}
        /\ s.activated = cfqd.activated \ {r} /\ s.own = cfqd.own
        /\ s.firing = cfqd.firing /\ s.busy = cfqd.busy
        /\ s.kick = cfqd.kick /\ s.armed = cfqd.armed
    BY <2>1 DEF Fields
  <2> HIDE DEF s
  <2>3. Data(s) /\ Acyclic(s) /\ Listed(s)
    BY <2>2, SameListed DEF Good, Data, Acyclic
  <2> QED  BY <2>2, <2>3 DEF Good
<1> HIDE DEF s
<1>5. /\ Good(t) /\ t.queued = s.queued /\ t.own = s.own
      /\ t.dispatched = s.dispatched /\ t.activated = s.activated
  BY <1>3, <1>4, SliceFields
<1> DEFINE u == IF t.activated = {} THEN ScheduleDispatch(t) ELSE t
           v == PutRequest(u, r)
<1>6. /\ Good(u) /\ u.queued = t.queued /\ u.own = t.own
      /\ u.dispatched = t.dispatched /\ u.activated = t.activated
      /\ t.activated # {} \/ Live(u) \/ u.busy = {}
  <2>1. CASE t.activated = {}
    BY <1>5, <2>1, ScheduleFields DEF Live
  <2>2. CASE t.activated # {}
    BY <1>5, <2>2
  <2> QED  BY <2>1, <2>2
<1>7. Step(v)
  BY <1>3
<1> HIDE DEF u
<1>8. cfqd.own[r] \in Queues
  BY <1>1 DEF Places
<1>9. /\ Good(v) /\ v.busy \subseteq u.busy /\ v.queued = u.queued
      /\ v.dispatched = u.dispatched /\ v.activated = u.activated
      /\ \A x \in Requests : x # r => v.own[x] = u.own[x]
      /\ Live(u) => Live(v) \/ v.busy = {}
  BY <1>2, <1>4, <1>5, <1>6, <1>8, PutRequestFields
<1> HIDE DEF v
<1>10. /\ Good(cfqd') /\ unplug_work' = (unplug_work \/ v.kick)
       /\ cfqd'.queued = v.queued /\ cfqd'.dispatched = v.dispatched
       /\ cfqd'.activated = v.activated /\ cfqd'.own = v.own
  BY <1>7, <1>9, StepFields
<1>11. FrameTypeOK({})'
  BY <1>1, <1>9, <1>10 DEF FrameTypeOK, DeviceTypeOK, Good, Data
<1>12. Places'
  <2>1. plugged \subseteq Requests /\ cfqd.dispatched \subseteq Requests
    BY RangeOfSeq DEF Places, FrameTypeOK, DeviceTypeOK
  <2>2. Apart(cfqd.queued, plugged, queue_head, inflight \ {r})
    BY DEF Places, Apart
  <2>3. cfqd.dispatched \ {r} = Range(queue_head) \cup (inflight \ {r})
    BY <1>2 DEF Places
  <2>4. \A x \in plugged \cup (cfqd.dispatched \ {r}) : v.own[x] = cfqd.own[x]
    BY <1>2, <1>4, <1>5, <1>6, <1>9, <2>1
  <2> QED  BY <1>1, <1>4, <1>5, <1>6, <1>9, <1>10, <2>2, <2>3, <2>4 DEF Places
<1>13. Gone'
  BY <1>1, <1>4, <1>5, <1>6, <1>9, <1>10 DEF Gone
<1>14. NoStranded'
  <2>1. CASE t.activated # {}
    <3>1. Range(queue_head) \cup (inflight \ {r}) # {}
      BY <1>2, <1>4, <1>5, <2>1 DEF Places
    <3>2. queue_head = <<>> => Range(queue_head) = {}
      BY DEF Range
    <3> QED  BY <1>1, <3>1, <3>2 DEF NoStranded
  <2>2. CASE Live(u) \/ u.busy = {}
    <3>1. Live(v) \/ v.busy = {}
      BY <1>9, <2>2
    <3> QED  BY <1>7, <1>9, <3>1, StepRuns
  <2> QED  BY <1>6, <2>1, <2>2
<1> QED  BY <1>10, <1>11, <1>12, <1>13, <1>14

-----------------------------------------------------------------------------
(* The timer, processes that exit, switches.                               *)

\* Of what was in front of the lock, only cfq_data changes, and it is Kept.
LEMMA KeptIInv ==
  ASSUME IInv, NEW t, Kept(cfqd, t), Step(t),
         UNCHANGED <<plugged, stale, elv, deviceVars>>
  PROVE  IInv'
<1> USE DEF IInv
<1>1. /\ Good(t) /\ t.queued = cfqd.queued /\ t.dispatched = cfqd.dispatched
      /\ t.activated = cfqd.activated /\ t.own = cfqd.own
      /\ Live(cfqd) => Live(t) \/ t.busy = {}
  BY DEF Kept
<1>2. /\ Good(cfqd') /\ unplug_work' = (unplug_work \/ t.kick)
      /\ cfqd'.queued = t.queued /\ cfqd'.dispatched = t.dispatched
      /\ cfqd'.activated = t.activated /\ cfqd'.own = t.own
  BY <1>1, StepFields
<1>3. FrameTypeOK({})'
  BY <1>1, <1>2 DEF FrameTypeOK, DeviceTypeOK, deviceVars, Good, Data
<1>4. Places' /\ Gone'
  BY <1>1, <1>2 DEF Places, Gone, deviceVars
<1>5. NoStranded'
  BY <1>1, StepKeeps DEF deviceVars
<1> QED  BY <1>2, <1>3, <1>4, <1>5

LEMMA TimerExpiresIInv ==
  ASSUME IInv, TimerExpires
  PROVE  IInv'
<1> USE DEF IInv
<1>1. /\ cfqd' = [cfqd EXCEPT !.armed = FALSE, !.firing = TRUE]
      /\ UNCHANGED <<plugged, stale, unplug_work, elv,
                     queue_head, inflight, issuing, pc>>
  BY DEF TimerExpires, frameVars, deviceVars
<1>2. DOMAIN cfqd = Fields
  BY DEF Good, Data
<1>3. /\ DOMAIN cfqd' = Fields /\ cfqd'.active = cfqd.active
      /\ cfqd'.cic = cfqd.cic /\ cfqd'.new_cfqq = cfqd.new_cfqq
      /\ cfqd'.async_cfqq = cfqd.async_cfqq /\ cfqd'.queued = cfqd.queued
      /\ cfqd'.dispatched = cfqd.dispatched
      /\ cfqd'.activated = cfqd.activated /\ cfqd'.own = cfqd.own
      /\ cfqd'.busy = cfqd.busy /\ cfqd'.kick = cfqd.kick
      /\ cfqd'.armed = FALSE /\ cfqd'.firing = TRUE
  BY <1>1, <1>2 DEF Fields
<1>4. Data(cfqd') /\ Acyclic(cfqd') /\ Listed(cfqd')
  BY <1>3, SameListed DEF Good, Data, Acyclic
<1>5. FrameTypeOK({})'
  BY <1>1 DEF FrameTypeOK, DeviceTypeOK
<1>6. Places' /\ Gone' /\ NoStranded'
  BY <1>1, <1>3 DEF Places, Gone, NoStranded
<1> QED  BY <1>4, <1>5, <1>6 DEF Good

\* The callback kicks, or the list is empty.
LEMMA TimedOutFields ==
  ASSUME NEW s, Good(s), NEW t \in TimedOut(s)
  PROVE  /\ Good(t) /\ t.queued = s.queued /\ t.dispatched = s.dispatched
         /\ t.activated = s.activated /\ t.own = s.own
         /\ Live(t) \/ t.busy = {}
<1>1. CASE t = ScheduleDispatch(s)
  BY <1>1, ScheduleFields DEF Live
<1>2. CASE t = s /\ s.busy = {}
  BY <1>2
<1>3. CASE t \in KickAfter(Expirations(s))
  <2>1. PICK e \in Expirations(s) : t = ScheduleDispatch(e)
    BY <1>3 DEF KickAfter
  <2>2. /\ Good(e) /\ e.queued = s.queued /\ e.dispatched = s.dispatched
        /\ e.activated = s.activated /\ e.own = s.own
    BY ExpirationsFields
  <2> QED  BY <2>1, <2>2, ScheduleFields DEF Live
<1> QED  BY <1>1, <1>2, <1>3 DEF TimedOut

LEMMA IdleSliceTimerIInv ==
  ASSUME IInv, cfq_idle_slice_timer
  PROVE  IInv'
<1> USE DEF IInv
<1> DEFINE s == [cfqd EXCEPT !.firing = FALSE]
<1>1. PICK t \in TimedOut(s) : Step(t)
  BY DEF cfq_idle_slice_timer
<1>2. UNCHANGED <<plugged, stale, elv, queue_head, inflight, issuing, pc>>
  BY DEF cfq_idle_slice_timer, deviceVars
<1>3. /\ Good(s) /\ s.queued = cfqd.queued /\ s.own = cfqd.own
      /\ s.dispatched = cfqd.dispatched /\ s.activated = cfqd.activated
  <2>1. DOMAIN cfqd = Fields
    BY DEF Good, Data
  <2>2. /\ DOMAIN s = Fields /\ s.active = cfqd.active /\ s.cic = cfqd.cic
        /\ s.new_cfqq = cfqd.new_cfqq /\ s.async_cfqq = cfqd.async_cfqq
        /\ s.queued = cfqd.queued /\ s.dispatched = cfqd.dispatched
        /\ s.activated = cfqd.activated /\ s.own = cfqd.own
        /\ s.firing = FALSE /\ s.busy = cfqd.busy
        /\ s.kick = cfqd.kick /\ s.armed = cfqd.armed
    BY <2>1 DEF Fields
  <2> HIDE DEF s
  <2>3. Data(s) /\ Acyclic(s) /\ Listed(s)
    BY <2>2, SameListed DEF Good, Data, Acyclic
  <2> QED  BY <2>2, <2>3 DEF Good
<1> HIDE DEF s
<1>4. /\ Good(t) /\ t.queued = s.queued /\ t.dispatched = s.dispatched
      /\ t.activated = s.activated /\ t.own = s.own
      /\ Live(t) \/ t.busy = {}
  BY <1>1, <1>3, TimedOutFields
<1>5. /\ Good(cfqd') /\ unplug_work' = (unplug_work \/ t.kick)
      /\ cfqd'.queued = t.queued /\ cfqd'.dispatched = t.dispatched
      /\ cfqd'.activated = t.activated /\ cfqd'.own = t.own
  BY <1>1, <1>4, StepFields
<1>6. FrameTypeOK({})'
  BY <1>2, <1>4, <1>5 DEF FrameTypeOK, DeviceTypeOK, Good, Data
<1>7. Places' /\ Gone'
  BY <1>2, <1>3, <1>4, <1>5 DEF Places, Gone
<1>8. NoStranded'
  BY <1>1, <1>4, StepRuns
<1> QED  BY <1>5, <1>6, <1>7, <1>8

LEMMA KickIInv ==
  ASSUME IInv, Kick
  PROVE  IInv'
<1> USE DEF IInv
<1>1. UNCHANGED cfqd
  BY DEF Kick
<1>2. CASE kick_queue
  <2>1. /\ At(Kblockd, "run") /\ unplug_work' = FALSE
        /\ UNCHANGED <<plugged, stale, elv, queue_head, inflight, issuing>>
    BY <1>2 DEF kick_queue, RunQueue
  <2> QED  BY <1>1, <2>1, EntersIInv, KblockdAssumption
<1>3. CASE KickSuccessor \/ KickAfterFree
  <2>1. /\ unplug_work' \in BOOLEAN
        /\ elv \in {"detached", "freed"} /\ elv' \in {elv, "oops"}
        /\ UNCHANGED <<plugged, stale, queue_head, inflight, issuing, pc>>
    BY <1>3 DEF KickSuccessor, KickAfterFree, deviceVars, FrameTypeOK
  <2>2. FrameTypeOK({})'
    BY <2>1 DEF FrameTypeOK, DeviceTypeOK
  <2>3. Places' /\ Gone' /\ NoStranded' /\ Good(cfqd')
    BY <1>1, <2>1 DEF Places, Gone, NoStranded
  <2> QED  BY <2>2, <2>3
<1> QED  BY <1>2, <1>3 DEF Kick, Kicked

LEMMA ExitIInv ==
  ASSUME IInv, NEW p \in Procs, cfq_exit_icq(p) \/ ClearIcq(p)
  PROVE  IInv'
<1>1. PICK t \in ExitIcq(cfqd, p) : Step(t)
  BY DEF cfq_exit_icq, ClearIcq
<1>2. UNCHANGED <<plugged, stale, elv, deviceVars>>
  BY DEF cfq_exit_icq, ClearIcq
<1>3. Kept(cfqd, t)
  BY <1>1, ExitIcqKept DEF IInv
<1> QED  BY <1>1, <1>2, <1>3, KeptIInv

\* cfq_exit_queue puts the async queue that the group had pinned.
LEMMA ExitQueueIInv ==
  ASSUME IInv, cfq_exit_queue
  PROVE  IInv'
<1> USE DEF IInv
<1> DEFINE s == [cfqd EXCEPT !.armed = FALSE]
<1>1. PICK e \in Expirations(s) : cfqd' = PutPinned(e)
  BY DEF cfq_exit_queue
<1>2. /\ elv = "detached" /\ elv' = "freed" /\ unplug_work' = FALSE
      /\ UNCHANGED <<plugged, stale, queue_head, inflight, issuing, pc>>
  BY DEF cfq_exit_queue, deviceVars
<1>3. /\ Good(s) /\ s.queued = cfqd.queued /\ s.own = cfqd.own
      /\ s.dispatched = cfqd.dispatched /\ s.activated = cfqd.activated
  <2>1. DOMAIN cfqd = Fields
    BY DEF Good, Data
  <2>2. /\ DOMAIN s = Fields /\ s.active = cfqd.active /\ s.cic = cfqd.cic
        /\ s.new_cfqq = cfqd.new_cfqq /\ s.async_cfqq = cfqd.async_cfqq
        /\ s.queued = cfqd.queued /\ s.dispatched = cfqd.dispatched
        /\ s.activated = cfqd.activated /\ s.own = cfqd.own
        /\ s.firing = cfqd.firing /\ s.busy = cfqd.busy
        /\ s.kick = cfqd.kick /\ s.armed = FALSE
    BY <2>1 DEF Fields
  <2> HIDE DEF s
  <2>3. Data(s) /\ Acyclic(s) /\ Listed(s)
    BY <2>2, SameListed DEF Good, Data, Acyclic
  <2> QED  BY <2>2, <2>3 DEF Good
<1> HIDE DEF s
<1>4. /\ Good(e) /\ e.queued = s.queued /\ e.dispatched = s.dispatched
      /\ e.activated = s.activated /\ e.own = s.own
  BY <1>1, <1>3, ExpirationsFields
<1>5. /\ Good(cfqd') /\ cfqd'.queued = e.queued
      /\ cfqd'.dispatched = e.dispatched
      /\ cfqd'.activated = e.activated /\ cfqd'.own = e.own
  <2>1. CASE e.async_cfqq = NoCfqq
    BY <1>1, <1>4, <2>1 DEF PutPinned
  <2>2. CASE e.async_cfqq # NoCfqq
    <3> DEFINE t == PutQueue(e, e.async_cfqq)
    <3>1. cfqd' = [t EXCEPT !.async_cfqq = NoCfqq]
      BY <1>1, <2>2 DEF PutPinned
    <3>2. e.async_cfqq \in Queues
      BY <1>4, <2>2 DEF Good, Data, MaybeQueue
    <3>3. /\ Good(t) /\ t.queued = e.queued /\ t.dispatched = e.dispatched
          /\ t.activated = e.activated /\ t.own = e.own
      BY <1>4, <3>2, PutFields
    <3> HIDE DEF t
    <3>4. DOMAIN t = Fields
      BY <3>3 DEF Good, Data
    <3>5. /\ DOMAIN cfqd' = Fields /\ cfqd'.active = t.active
          /\ cfqd'.cic = t.cic /\ cfqd'.new_cfqq = t.new_cfqq
          /\ cfqd'.async_cfqq = NoCfqq /\ cfqd'.queued = t.queued
          /\ cfqd'.dispatched = t.dispatched
          /\ cfqd'.activated = t.activated /\ cfqd'.own = t.own
          /\ cfqd'.firing = t.firing /\ cfqd'.busy = t.busy
          /\ cfqd'.kick = t.kick /\ cfqd'.armed = t.armed
      BY <3>1, <3>4 DEF Fields
    <3>6. Data(cfqd') /\ Acyclic(cfqd') /\ Listed(cfqd')
      BY <3>3, <3>5, SameListed, QueueFacts DEF Good, Data, Acyclic
    <3> QED  BY <3>3, <3>5, <3>6 DEF Good
  <2> QED  BY <2>1, <2>2
<1>6. FrameTypeOK({})'
  BY <1>2 DEF FrameTypeOK, DeviceTypeOK
<1>7. Places' /\ Gone' /\ NoStranded'
  BY <1>2, <1>3, <1>4, <1>5 DEF Places, Gone, NoStranded
<1> QED  BY <1>5, <1>6, <1>7

\* cfq_init_queue starts from empty cfq_data; nothing has been left over.
LEMMA NewDataGood == Good(NewCfqData)
<1> DEFINE n == NewCfqData
<1>1. /\ DOMAIN n = Fields
      /\ n.new_cfqq = [q \in Queues |-> NoCfqq]
      /\ n.cic = [p \in Procs |-> [k \in {"sync", "async"} |-> NoCfqq]]
      /\ n.own = [r \in Requests |-> NoCfqq]
      /\ n.async_cfqq = NoCfqq /\ n.active = NoCfqq
      /\ n.queued = {} /\ n.busy = {} /\ n.armed = FALSE
      /\ n.firing = FALSE /\ n.kick = FALSE
  BY DEF NewCfqData, Fields
<1> HIDE DEF n
<1>2. [k \in {"sync", "async"} |-> NoCfqq] \in [Kinds -> MaybeQueue]
  BY QueueFacts DEF Kinds
<1>3. /\ n.new_cfqq \in [Queues -> MaybeQueue]
      /\ n.cic \in [Procs -> [Kinds -> MaybeQueue]]
      /\ n.own \in [Requests -> MaybeQueue]
  BY <1>1, <1>2, QueueFacts
<1>4. Data(n)
  BY <1>1, <1>3, QueueFacts DEF Data
<1>5. Acyclic(n) /\ Listed(n)
  BY <1>1, QueueFacts DEF Acyclic, Listed, Empty, Of
<1> QED  BY <1>4, <1>5 DEF Good, n

LEMMA InitQueueIInv ==
  ASSUME IInv, cfq_init_queue
  PROVE  IInv'
<1> USE DEF IInv
<1>1. /\ elv = "freed" /\ elv' = "attached" /\ cfqd' = NewCfqData
      /\ UNCHANGED <<plugged, stale, unplug_work,
                     queue_head, inflight, issuing, pc>>
  BY DEF cfq_init_queue, deviceVars
<1>2. /\ cfqd'.queued = {} /\ cfqd'.dispatched = {} /\ cfqd'.activated = {}
  BY <1>1 DEF NewCfqData
<1>3. plugged = {} /\ cfqd.dispatched = {} /\ cfqd.queued = {}
  BY <1>1 DEF Gone
<1>4. FrameTypeOK({})'
  BY <1>1 DEF FrameTypeOK, DeviceTypeOK
<1>5. Places' /\ Gone' /\ NoStranded'
  BY <1>1, <1>2, <1>3 DEF Places, Gone, NoStranded
<1> QED  BY <1>1, <1>4, <1>5, NewDataGood

LEMMA BypassStartIInv ==
  ASSUME IInv, BypassStart, UNCHANGED cfqd
  PROVE  IInv'
<1> USE DEF IInv
<1>1. /\ elv' = "bypass"
      /\ UNCHANGED <<plugged, stale, unplug_work,
                     queue_head, inflight, issuing, pc>>
  BY DEF BypassStart, deviceVars
<1>2. FrameTypeOK({})'
  BY <1>1 DEF FrameTypeOK, DeviceTypeOK
<1> QED  BY <1>1, <1>2 DEF Places, Gone, NoStranded

-----------------------------------------------------------------------------
(* The theorems.                                                           *)

LEMMA StutterIInv ==
  ASSUME IInv, UNCHANGED vars
  PROVE  IInv'
<1>1. UNCHANGED <<plugged, stale, unplug_work, elv,
                  queue_head, inflight, issuing, pc, cfqd>>
  BY DEF vars, frameVars, deviceVars
<1>2. FrameTypeOK({})'
  BY <1>1 DEF IInv, FrameTypeOK, DeviceTypeOK
<1> QED  BY <1>1, <1>2 DEF IInv, Places, Gone, NoStranded

LEMMA ContextIInv ==
  ASSUME IInv, NEW c \in Ctx, Context(c)
  PROVE  IInv'
<1>1. CASE cfq_dispatch_requests(c)
  BY <1>1, DispatchIInv
<1>2. CASE elv = "bypass" /\ DeviceBypassed(c) /\ UNCHANGED <<frameVars, cfqd>>
  BY <1>2, BypassedIInv
<1>3. CASE /\ DeviceBusy(c) \/ Start(c)
           /\ Activate(Head(queue_head)) /\ UNCHANGED frameVars
  BY <1>3, StartIInv
<1>4. CASE RunUnasked(c)
  <2>1. /\ At(c, "run") /\ unplug_work' = unplug_work
        /\ UNCHANGED <<plugged, stale, elv, queue_head, inflight, issuing, cfqd>>
    BY <1>4 DEF RunUnasked, RunQueue, frameVars
  <2>2. unplug_work' \in BOOLEAN
    BY <2>1 DEF IInv, FrameTypeOK
  <2> QED  BY <2>1, <2>2, EntersIInv
<1>5. CASE cfq_forced_dispatch(c)
  BY <1>5, ForcedIInv
<1>6. CASE Drained(c)
  BY <1>6, DrainedIInv
<1>7. CASE DrainStart(c) /\ UNCHANGED cfqd
  <2>1. /\ At(c, "drain") /\ unplug_work' = unplug_work
        /\ UNCHANGED <<plugged, stale, elv, queue_head, inflight, issuing, cfqd>>
    BY <1>7 DEF DrainStart, frameVars
  <2>2. unplug_work' \in BOOLEAN
    BY <2>1 DEF IInv, FrameTypeOK
  <2> QED  BY <2>1, <2>2, EntersIInv
<1> QED  BY <1>1, <1>2, <1>3, <1>4, <1>5, <1>6, <1>7 DEF Context, RequestFn

LEMMA RequestIInv ==
  ASSUME IInv, NEW r \in Requests, Request(r)
  PROVE  IInv'
<1>1. ASSUME NEW p \in Procs, NEW kind \in {"sync", "async"},
             cfq_set_request(p, kind, r)
      PROVE  IInv'
  BY <1>1, SetRequestIInv
<1>2. ASSUME NEW c \in Tasks, cfq_insert_request(c, r) \/ InsertMerged(c, r)
      PROVE  IInv'
  BY <1>2, InsertIInv, InsertMergedIInv DEF Tasks
<1>3. ASSUME NEW rq \in Requests, cfq_merged_requests(rq, r)
      PROVE  IInv'
  BY <1>3, MergedRequestsIInv
<1>4. CASE cfq_completed_request(r)
  BY <1>4, CompletedIInv
<1>5. CASE cfq_deactivate_request(r)
  BY <1>5, DeactivateIInv
<1> QED  BY <1>1, <1>2, <1>3, <1>4, <1>5 DEF Request

LEMMA StepIInv == IInv /\ [Next]_vars => IInv'
<1> SUFFICES ASSUME IInv, [Next]_vars PROVE IInv'
  OBVIOUS
<1>1. CASE \E r \in Requests : Request(r)
  BY <1>1, RequestIInv
<1>2. CASE \E c \in Ctx : Context(c)
  BY <1>2, ContextIInv
<1>3. CASE TimerExpires \/ cfq_idle_slice_timer \/ Kick
  BY <1>3, TimerExpiresIInv, IdleSliceTimerIInv, KickIInv
<1>4. CASE Switch
  BY <1>4, BypassStartIInv, ExitQueueIInv, InitQueueIInv, ExitIInv DEF Switch
<1>5. CASE UNCHANGED vars
  BY <1>5, StutterIInv
<1> QED  BY <1>1, <1>2, <1>3, <1>4, <1>5 DEF Next

\* The invariant holds of every behaviour.
THEOREM Invariance == Spec => []IInv
<1> QED  BY InitIInv, StepIInv, PTL DEF Spec

\* The round-robin list is exact, however requests are enqueued, merged and
\* dispatched, queues merged, split and freed, and processes exit: it has the
\* queues with requests and the active one, as cfq_get_next_queue and
\* cfq_should_idle take for granted.
THEOREM ListExact == Spec => []BusyExactly
<1>1. IInv => BusyExactly
  BY DEF IInv, Good, Listed, BusyExactly
<1> QED  BY <1>1, Invariance, PTL

\* Idling always ends: whenever requests are queued, a context is inside
\* request_fn, the work item is queued, the idle timer or its callback is
\* there, or the driver has a request whose start or completion comes back to
\* cfq_completed_request.
THEOREM NothingStranded == Spec => []NoStranded
<1>1. IInv => NoStranded
  BY DEF IInv
<1> QED  BY <1>1, Invariance, PTL

-----------------------------------------------------------------------------
(* Paths of merges.  The queues that a process holds when it uses q: the   *)
(* least set with q that every merge scheduled leads into.                 *)

Closed(f, S) == \A z \in S : f[z] \in S \cup {NoCfqq}

Path(f, q) ==
  {y \in Queues : \A S \in SUBSET Queues :
                    Closed(f, S) /\ q \in S \cup {NoCfqq} => y \in S}

Merges == [Queues -> MaybeQueue]

LEMMA PathLeast ==
  ASSUME NEW f, NEW q, NEW S \in SUBSET Queues, Closed(f, S),
         q \in S \cup {NoCfqq}
  PROVE  Path(f, q) \subseteq S
BY DEF Path

LEMMA PathClosed ==
  ASSUME NEW f \in Merges, NEW q \in MaybeQueue
  PROVE  /\ Path(f, q) \in SUBSET Queues /\ Closed(f, Path(f, q))
         /\ q \in Path(f, q) \cup {NoCfqq}
         /\ \A z \in Path(f, q) : Path(f, z) \subseteq Path(f, q)
<1>1. Path(f, q) \in SUBSET Queues
  BY DEF Path
<1>2. Closed(f, Path(f, q))
  <2> SUFFICES ASSUME NEW z \in Path(f, q), f[z] # NoCfqq
               PROVE  f[z] \in Path(f, q)
    BY DEF Closed
  <2>1. z \in Queues /\ f[z] \in Queues
    BY <1>1 DEF Merges, MaybeQueue
  <2>2. ASSUME NEW S \in SUBSET Queues, Closed(f, S), q \in S \cup {NoCfqq}
        PROVE  f[z] \in S
    <3>1. z \in S
      BY <2>2 DEF Path
    <3> QED  BY <2>2, <3>1 DEF Closed
  <2> QED  BY <2>1, <2>2 DEF Path
<1>3. q \in Path(f, q) \cup {NoCfqq}
  BY DEF Path, MaybeQueue
<1>4. \A z \in Path(f, q) : Path(f, z) \subseteq Path(f, q)
  BY <1>1, <1>2, PathLeast
<1> QED  BY <1>1, <1>2, <1>3, <1>4

\* No queue, no path.
LEMMA PathNone ==
  ASSUME NEW f
  PROVE  Path(f, NoCfqq) = {}
<1>1. Closed(f, {}) /\ {} \in SUBSET Queues
  BY DEF Closed
<1> QED  BY <1>1, PathLeast

\* A path depends on the merges along it only.
LEMMA PathSame ==
  ASSUME NEW f \in Merges, NEW g \in Merges, NEW q \in MaybeQueue,
         \A z \in Path(f, q) : g[z] = f[z]
  PROVE  Path(g, q) = Path(f, q)
<1>1. /\ Path(f, q) \in SUBSET Queues /\ Closed(f, Path(f, q))
      /\ q \in Path(f, q) \cup {NoCfqq}
  BY PathClosed
<1>2. /\ Path(g, q) \in SUBSET Queues /\ Closed(g, Path(g, q))
      /\ q \in Path(g, q) \cup {NoCfqq}
  BY PathClosed
<1>3. Closed(g, Path(f, q))
  BY <1>1 DEF Closed
<1>4. Path(g, q) \subseteq Path(f, q)
  BY <1>1, <1>3, PathLeast
<1>5. Closed(f, Path(g, q))
  BY <1>2, <1>4 DEF Closed
<1>6. Path(f, q) \subseteq Path(g, q)
  BY <1>2, <1>5, PathLeast
<1> QED  BY <1>4, <1>6

\* A path is its first queue and the path of the merge that this is
\* scheduled for.
LEMMA PathStep ==
  ASSUME NEW f \in Merges, NEW q \in Queues
  PROVE  Path(f, q) = {q} \cup Path(f, f[q])
<1>1. f[q] \in MaybeQueue /\ q \in MaybeQueue
  BY QueueFacts DEF Merges
<1>2. /\ Path(f, q) \in SUBSET Queues /\ Closed(f, Path(f, q))
      /\ q \in Path(f, q)
  BY <1>1, PathClosed, QueueFacts
<1>3. /\ Path(f, f[q]) \in SUBSET Queues /\ Closed(f, Path(f, f[q]))
      /\ f[q] \in Path(f, f[q]) \cup {NoCfqq}
  BY <1>1, PathClosed
<1> DEFINE S == {q} \cup Path(f, f[q])
<1>4. Closed(f, S) /\ S \in SUBSET Queues /\ q \in S \cup {NoCfqq}
  BY <1>3 DEF Closed
<1>5. Path(f, q) \subseteq S
  <2> HIDE DEF S
  <2> QED  BY <1>4, PathLeast
<1>6. f[q] \in Path(f, q) \cup {NoCfqq}
  BY <1>2 DEF Closed
<1>7. Path(f, f[q]) \subseteq Path(f, q)
  BY <1>2, <1>6, PathLeast
<1> QED  BY <1>2, <1>5, <1>7

NoCycle(f) == \A S \in SUBSET Queues : S # {} => \E q \in S : f[q] \notin S

\* It does not come back.
LEMMA PathAcyclic ==
  ASSUME NEW f \in Merges, NoCycle(f), NEW q \in Queues
  PROVE  q \notin Path(f, f[q])
<1> SUFFICES ASSUME q \in Path(f, f[q]) PROVE FALSE
  OBVIOUS
<1> DEFINE T == {y \in Queues : q \in Path(f, f[y])}
<1>1. T \in SUBSET Queues /\ q \in T
  OBVIOUS
<1>2. ASSUME NEW y \in T PROVE f[y] \in T
  <2>1. y \in Queues /\ q \in Path(f, f[y])
    OBVIOUS
  <2>2. f[y] # NoCfqq
    BY <2>1, PathNone
  <2>3. f[y] \in Queues
    BY <2>1, <2>2 DEF Merges, MaybeQueue
  <2>4. Path(f, f[y]) = {f[y]} \cup Path(f, f[f[y]])
    BY <2>3, PathStep
  <2>5. q \in Path(f, f[f[y]])
    BY <2>1, <2>4
  <2> QED  BY <2>3, <2>5
<1> QED  BY <1>1, <1>2 DEF NoCycle

\* It has one end.
LEMMA PathEnd ==
  ASSUME NEW f \in Merges, NEW q \in MaybeQueue, NEW a \in Path(f, q),
         NEW b \in Path(f, q), f[a] = NoCfqq, f[b] = NoCfqq
  PROVE  a = b
<1> DEFINE S == {y \in Path(f, q) : b \in Path(f, y)}
<1>1. /\ Path(f, q) \in SUBSET Queues /\ Closed(f, Path(f, q))
      /\ q \in Path(f, q) \cup {NoCfqq}
  BY PathClosed
<1>2. S \in SUBSET Queues /\ q \in S \cup {NoCfqq}
  BY <1>1
<1>3. Closed(f, S)
  <2> SUFFICES ASSUME NEW y \in S, f[y] # NoCfqq PROVE f[y] \in S
    BY DEF Closed
  <2>1. f[y] \in Path(f, q) /\ y \in Queues /\ b \in Path(f, y)
    BY <1>1 DEF Closed
  <2>2. b # y /\ Path(f, y) = {y} \cup Path(f, f[y])
    BY <2>1, PathStep
  <2> QED  BY <2>1, <2>2
<1>4. a \in S
  <2> HIDE DEF S
  <2> QED  BY <1>2, <1>3, PathLeast
<1>5. Path(f, a) = {a} \cup Path(f, NoCfqq)
  BY <1>1, PathStep
<1> QED  BY <1>4, <1>5, PathNone

\* When two ends are merged, the paths to the first end at the second, and
\* no other path changes.
LEMMA PathMerge ==
  ASSUME NEW f \in Merges, NEW a \in Queues, NEW b \in Queues, a # b,
         f[a] = NoCfqq, f[b] = NoCfqq, NEW q \in MaybeQueue
  PROVE  LET g == [f EXCEPT ![a] = b]
         IN  IF a \in Path(f, q)
             THEN b \notin Path(f, q) /\ Path(g, q) = Path(f, q) \cup {b}
             ELSE Path(g, q) = Path(f, q)
<1> DEFINE g == [f EXCEPT ![a] = b]
<1>1. /\ g \in Merges /\ g[a] = b /\ g[b] = NoCfqq
      /\ \A z \in Queues : z # a => g[z] = f[z]
  BY QueueFacts DEF Merges
<1> HIDE DEF g
<1>2. /\ Path(f, q) \in SUBSET Queues /\ Closed(f, Path(f, q))
      /\ q \in Path(f, q) \cup {NoCfqq}
  BY PathClosed
<1>3. CASE a \notin Path(f, q)
  <2>1. Path(g, q) = Path(f, q)
    BY <1>1, <1>2, <1>3, PathSame
  <2> QED  BY <1>3, <2>1 DEF g
<1>4. CASE a \in Path(f, q)
  <2>1. b \notin Path(f, q)
    BY <1>4, PathEnd
  <2>2. /\ Path(g, q) \in SUBSET Queues /\ Closed(g, Path(g, q))
        /\ q \in Path(g, q) \cup {NoCfqq}
    BY <1>1, PathClosed
  <2> DEFINE S == Path(f, q) \cup {b}
  <2>3. Closed(g, S) /\ S \in SUBSET Queues /\ q \in S \cup {NoCfqq}
    BY <1>1, <1>2 DEF Closed
  <2>4. Path(g, q) \subseteq S
    <3> HIDE DEF S
    <3> QED  BY <2>3, PathLeast
  <2>5. Closed(f, Path(g, q))
    BY <1>1, <2>2 DEF Closed
  <2>6. Path(f, q) \subseteq Path(g, q)
    BY <2>2, <2>5, PathLeast
  <2>7. b \in Path(g, q)
    BY <1>1, <1>4, <2>2, <2>6, QueueFacts DEF Closed
  <2> QED  BY <1>4, <2>1, <2>4, <2>6, <2>7 DEF g
<1> QED  BY <1>3, <1>4

\* The walk along the merges stays in a set that they lead into ...
LEMMA AheadStays ==
  ASSUME NEW s, Good(s), NEW q \in Queues, NEW S \in SUBSET Queues,
         Closed(s.new_cfqq, S), NEW i \in 0 .. Cardinality(Queues),
         Ahead(s, q)[i] \in S \cup {NoCfqq},
         NEW j \in i .. Cardinality(Queues)
  PROVE  Ahead(s, q)[j] \in S \cup {NoCfqq}
<1> DEFINE N == Cardinality(Queues)
           g == Ahead(s, q)
           Bad == {m \in i .. N : g[m] \notin S \cup {NoCfqq}}
<1>1. N \in Nat /\ i \in Nat /\ i <= N
  BY QueueFacts
<1>2. /\ g[0] = q
      /\ \A n \in 1 .. N :
           g[n] = IF g[n - 1] = NoCfqq \/ s.new_cfqq[g[n - 1]] = q
                  THEN NoCfqq ELSE s.new_cfqq[g[n - 1]]
  BY AheadFacts
<1> SUFFICES ASSUME Bad # {} PROVE FALSE
  OBVIOUS
<1> HIDE DEF g, N
<1>3. Bad \subseteq Nat
  BY <1>1
<1>4. PICK m \in Bad : \A k \in Bad : m <= k
  <2> HIDE DEF Bad
  <2> QED  BY <1>3, LeastNat
<1>5. g[i] \in S \cup {NoCfqq}
  BY DEF g
<1>6. m \in i .. N /\ m # i /\ g[m] \notin S \cup {NoCfqq}
  BY <1>4, <1>5
<1>7. m \in 1 .. N /\ m - 1 \in i .. N /\ ~(m <= m - 1)
  BY <1>1, <1>6
<1>8. g[m - 1] \in S \cup {NoCfqq}
  BY <1>4, <1>7
<1> QED  BY <1>2, <1>6, <1>7, <1>8 DEF Closed

\* ... so it visits no queue twice, and visits the whole path.
LEMMA AheadOnce ==
  ASSUME NEW s, Good(s), NEW q \in Queues,
         NEW i \in 0 .. Cardinality(Queues), NEW j \in i .. Cardinality(Queues),
         i # j, Ahead(s, q)[j] # NoCfqq
  PROVE  Ahead(s, q)[i] # Ahead(s, q)[j]
<1> DEFINE N == Cardinality(Queues)
           g == Ahead(s, q)
           f == s.new_cfqq
<1>1. N \in Nat /\ i \in Nat /\ j \in Nat
  BY QueueFacts
<1>2. /\ g \in [0 .. N -> MaybeQueue]
      /\ \A n \in 1 .. N :
           g[n] = IF g[n - 1] = NoCfqq \/ f[g[n - 1]] = q
                  THEN NoCfqq ELSE f[g[n - 1]]
  BY AheadFacts
<1>3. f \in Merges /\ NoCycle(f)
  BY DEF Good, Data, Acyclic, Merges, NoCycle
<1>4. CASE g[i] = NoCfqq
  BY <1>4
<1>5. CASE g[i] # NoCfqq
  <2>1. g[i] \in Queues
    BY <1>2, <1>5 DEF MaybeQueue
  <2> DEFINE S == Path(f, f[g[i]])
  <2>2. f[g[i]] \in MaybeQueue
    BY <1>3, <2>1 DEF Merges
  <2>3. S \in SUBSET Queues /\ Closed(f, S) /\ f[g[i]] \in S \cup {NoCfqq}
    BY <1>3, <2>2, PathClosed
  <2>4. i + 1 \in 1 .. N /\ i + 1 \in 0 .. N /\ j \in i + 1 .. N
        /\ (i + 1) - 1 = i
    BY <1>1
  <2>5. g[i + 1] \in S \cup {NoCfqq}
    <3> HIDE DEF S, f, g, N
    <3> QED  BY <1>2, <2>3, <2>4
  <2>6. g[j] \in S \cup {NoCfqq}
    <3> HIDE DEF S
    <3> QED  BY <2>3, <2>4, <2>5, AheadStays
  <2>7. g[i] \notin S
    <3> HIDE DEF f, g
    <3> QED  BY <1>3, <2>1, PathAcyclic
  <2> QED  BY <2>6, <2>7
<1> QED  BY <1>4, <1>5

LEMMA ChainPath ==
  ASSUME NEW s, Good(s), NEW q \in Queues
  PROVE  Chain(s, q) \cup {q} = Path(s.new_cfqq, q)
<1> DEFINE N == Cardinality(Queues)
           g == Ahead(s, q)
           f == s.new_cfqq
<1>1. N \in Nat /\ 0 \in 0 .. N /\ q \in MaybeQueue /\ q # NoCfqq
  BY QueueFacts
<1>2. /\ g \in [0 .. N -> MaybeQueue] /\ g[0] = q
      /\ \A n \in 1 .. N :
           g[n] = IF g[n - 1] = NoCfqq \/ f[g[n - 1]] = q
                  THEN NoCfqq ELSE f[g[n - 1]]
  BY AheadFacts
<1>3. f \in Merges
  BY DEF Good, Data, Merges
<1>4. Chain(s, q) = {g[k] : k \in 1 .. N} \ {NoCfqq}
  BY DEF Chain
<1>5. /\ Path(f, q) \in SUBSET Queues /\ Closed(f, Path(f, q))
      /\ q \in Path(f, q) \cup {NoCfqq}
  <2> HIDE DEF f
  <2> QED  BY <1>1, <1>3, PathClosed
<1>6. Chain(s, q) \subseteq Path(f, q)
  <2> SUFFICES ASSUME NEW k \in 1 .. N, g[k] # NoCfqq
               PROVE  g[k] \in Path(f, q)
    BY <1>4
  <2>1. k \in 0 .. N
    BY <1>1
  <2>2. g[0] \in Path(f, q) \cup {NoCfqq}
    BY <1>2, <1>5
  <2> QED  BY <1>1, <1>5, <2>1, <2>2, AheadStays
<1>7. PICK e \in Chain(s, q) \cup {q} : f[e] = NoCfqq
  BY ChainEnds
<1>8. PICK k \in 0 .. N : e = g[k] /\ g[k] # NoCfqq
  <2>1. \A n \in 1 .. N : n \in 0 .. N
    BY <1>1
  <2> HIDE DEF g, N, f
  <2> QED  BY <1>1, <1>2, <1>4, <1>7, <2>1
<1>9. ASSUME NEW i \in 0 .. k PROVE g[i] # NoCfqq /\ g[i] \in Chain(s, q) \cup {q}
  <2>1. i \in 0 .. N /\ k \in i .. N /\ (i = 0 \/ i \in 1 .. N)
    BY <1>1
  <2>2. g[i] # NoCfqq
    <3> SUFFICES ASSUME g[i] = NoCfqq PROVE FALSE
      OBVIOUS
    <3>1. Closed(f, {}) /\ {} \in SUBSET Queues /\ g[i] \in {} \cup {NoCfqq}
      BY DEF Closed
    <3>2. g[k] \in {} \cup {NoCfqq}
      BY <2>1, <3>1, AheadStays
    <3> QED  BY <1>8, <3>2
  <2> HIDE DEF g, N
  <2> QED  BY <1>2, <1>4, <2>1, <2>2
<1> DEFINE S == {g[i] : i \in 0 .. k}
<1>10. S \in SUBSET Queues /\ S \subseteq Chain(s, q) \cup {q}
       /\ q \in S \cup {NoCfqq}
  <2>1. 0 \in 0 .. k
    BY <1>1
  <2>2. S \subseteq Chain(s, q) \cup {q}
    <3> HIDE DEF g
    <3> QED  BY <1>9
  <2>3. Chain(s, q) \cup {q} \subseteq Queues
    BY <1>5, <1>6
  <2>4. q \in S
    <3> HIDE DEF g
    <3> QED  BY <1>2, <2>1
  <2> QED  BY <2>2, <2>3, <2>4
<1>11. Closed(f, S)
  <2> SUFFICES ASSUME NEW i \in 0 .. k PROVE f[g[i]] \in S \cup {NoCfqq}
    BY DEF Closed
  <2>1. CASE i = k
    BY <1>7, <1>8, <2>1
  <2>2. CASE i # k
    <3>1. i + 1 \in 0 .. k /\ i + 1 \in 1 .. N /\ (i + 1) - 1 = i
      BY <1>1, <2>2
    <3>2. g[i + 1] # NoCfqq
      BY <1>9, <3>1
    <3>3. f[g[i]] = g[i + 1]
      <4> HIDE DEF g, N, f
      <4> QED  BY <1>2, <3>1, <3>2
    <3> QED  BY <3>1, <3>3
  <2> QED  BY <2>1, <2>2
<1>12. Path(f, q) \subseteq S
  <2> HIDE DEF S, f
  <2> QED  BY <1>10, <1>11, PathLeast
<1> QED  BY <1>1, <1>5, <1>6, <1>10, <1>12

-----------------------------------------------------------------------------
(* The books.  A reference is held by a process, a request or the pin of a *)
(* queue; between a change of those and the put that follows it, a set D   *)
(* of queues has one reference each that nobody holds.  The processes'     *)
(* queues c and the pinned queue a are those of the end of the operation.  *)

Cics == [Procs -> [Kinds -> MaybeQueue]]
One(P) == IF P THEN 1 ELSE 0

Claims(f, c, q) == {x \in Procs \X Kinds : q \in Path(f, c[x[1]][x[2]])}

Account(s, c, a, D) ==
  \A q \in Queues :
    s.ref[q] = Cardinality(Claims(s.new_cfqq, c, q))
               + Cardinality(Allocated(s, q))
               + One(q \in {Oom, a}) + One(q \in D)

\* Only sync queues in use merge, and are marked as cooperating; processes
\* have no others as their sync queues, and share their async queue.  No BUG
\* has fired.
Marks(s, c, a) ==
  /\ s.bug = FALSE
  /\ s.ref \in [Queues -> Int]
  /\ s.coop \in [Queues -> {"none", "coop", "split"}]
  /\ s.sync \subseteq Cfqqs /\ c \in Cics
  /\ a \in MaybeQueue \ (s.sync \cup {Oom})
  /\ \A q \in Queues \ s.sync : s.new_cfqq[q] = NoCfqq /\ s.coop[q] = "none"
  /\ \A q \in s.sync : s.ref[q] # 0
  /\ \A p \in Procs :
       /\ c[p]["async"] \in {NoCfqq, Oom, a}
       /\ c[p]["sync"] = Oom \/ Path(s.new_cfqq, c[p]["sync"]) \subseteq s.sync

Counted(s, c, a, D) == Account(s, c, a, D) /\ Marks(s, c, a)

LEMMA ClaimsFinite ==
  ASSUME NEW f, NEW c, NEW q
  PROVE  IsFiniteSet(Claims(f, c, q)) /\ Cardinality(Claims(f, c, q)) \in Nat
<1>1. IsFiniteSet(Kinds)
  <2>1. IsFiniteSet({"sync"}) /\ IsFiniteSet({"async"})
    BY FS_Singleton
  <2>2. Kinds = {"sync"} \cup {"async"}
    BY DEF Kinds
  <2> QED  BY <2>1, <2>2, FS_Union
<1>2. IsFiniteSet(Procs \X Kinds)
  BY <1>1, CfqqsAssumption, FS_Product
<1>3. Claims(f, c, q) \subseteq Procs \X Kinds
  BY DEF Claims
<1> QED  BY <1>2, <1>3, FS_Subset, FS_CardinalityType

LEMMA AllocatedFinite ==
  ASSUME NEW s, NEW q
  PROVE  /\ IsFiniteSet(Allocated(s, q)) /\ Cardinality(Allocated(s, q)) \in Nat
         /\ Cardinality(Allocated(s, q)) = 0 => Allocated(s, q) = {}
<1>1. Allocated(s, q) \subseteq Requests
  BY DEF Allocated, Of
<1> QED  BY <1>1, RequestsAssumption, FS_Subset, FS_CardinalityType, FS_EmptySet

LEMMA NoClaims ==
  ASSUME NEW f, NEW c \in Cics, NEW q, Cardinality(Claims(f, c, q)) = 0,
         NEW p \in Procs, NEW kind \in Kinds
  PROVE  q \notin Path(f, c[p][kind])
<1>1. Claims(f, c, q) = {}
  BY ClaimsFinite, FS_EmptySet
<1>2. <<p, kind>> \in Procs \X Kinds
        /\ <<p, kind>>[1] = p /\ <<p, kind>>[2] = kind
  OBVIOUS
<1> QED  BY <1>1, <1>2 DEF Claims

\* A set of which one element comes or goes.
LEMMA CountChange ==
  ASSUME NEW A, NEW B, IsFiniteSet(A), IsFiniteSet(B), NEW x,
         A \ {x} = B \ {x}
  PROVE  Cardinality(B) = Cardinality(A) - One(x \in A) + One(x \in B)
<1> DEFINE R == A \ {x}
<1>1. IsFiniteSet(R) /\ Cardinality(R) \in Nat
  BY FS_Subset, FS_CardinalityType
<1>2. Cardinality(A) = Cardinality(R) + One(x \in A)
  <2>1. CASE x \in A
    <3>1. Cardinality(R) = Cardinality(A) - 1
      BY <2>1, FS_RemoveElement
    <3>2. Cardinality(A) \in Nat /\ One(x \in A) = 1
      BY <2>1, FS_CardinalityType DEF One
    <3> HIDE DEF R
    <3> QED  BY <1>1, <3>1, <3>2
  <2>2. CASE x \notin A
    <3>1. R = A /\ One(x \in A) = 0
      BY <2>2 DEF One
    <3> HIDE DEF R
    <3> QED  BY <1>1, <3>1
  <2> QED  BY <2>1, <2>2
<1>3. Cardinality(B) = Cardinality(R) + One(x \in B)
  <2>1. CASE x \in B
    <3>1. Cardinality(R) = Cardinality(B) - 1
      BY <2>1, FS_RemoveElement
    <3>2. Cardinality(B) \in Nat /\ One(x \in B) = 1
      BY <2>1, FS_CardinalityType DEF One
    <3> HIDE DEF R
    <3> QED  BY <1>1, <3>1, <3>2
  <2>2. CASE x \notin B
    <3>1. R = B /\ One(x \in B) = 0
      BY <2>2 DEF One
    <3> HIDE DEF R
    <3> QED  BY <1>1, <3>1
  <2> QED  BY <2>1, <2>2
<1> HIDE DEF R
<1> QED  BY <1>1, <1>2, <1>3 DEF One

\* A process moves to another queue: it gives up the path from the old one
\* and claims that from the new one.
Moved(c, d, p, kind, n) ==
  /\ d \in Cics /\ d[p][kind] = n
  /\ \A x \in Procs, k \in Kinds :
       x # p \/ k # kind => d[x][k] = c[x][k]

LEMMA CicMoved ==
  ASSUME NEW c \in Cics, NEW p \in Procs, NEW kind \in Kinds,
         NEW n \in MaybeQueue
  PROVE  Moved(c, [c EXCEPT ![p][kind] = n], p, kind, n)
BY DEF Moved, Cics

LEMMA ClaimsMove ==
  ASSUME NEW f, NEW c \in Cics, NEW d, NEW p \in Procs, NEW kind \in Kinds,
         NEW n, Moved(c, d, p, kind, n), NEW q
  PROVE  Cardinality(Claims(f, d, q))
           = Cardinality(Claims(f, c, q)) - One(q \in Path(f, c[p][kind]))
             + One(q \in Path(f, n))
<1> DEFINE x == <<p, kind>>
           A == Claims(f, c, q)
           B == Claims(f, d, q)
<1>1. x \in Procs \X Kinds /\ x[1] = p /\ x[2] = kind
  OBVIOUS
<1>2. \A y \in Procs \X Kinds : y # x => d[y[1]][y[2]] = c[y[1]][y[2]]
  BY DEF Moved
<1>3. x \in A <=> q \in Path(f, c[p][kind])
  BY <1>1 DEF Claims
<1>4. x \in B <=> q \in Path(f, n)
  BY <1>1 DEF Claims, Moved
<1> HIDE DEF x
<1>5. A \ {x} = B \ {x}
  BY <1>2 DEF Claims
<1>6. IsFiniteSet(A) /\ IsFiniteSet(B)
  BY ClaimsFinite
<1> HIDE DEF A, B
<1>7. Cardinality(B) = Cardinality(A) - One(x \in A) + One(x \in B)
  BY <1>5, <1>6, CountChange
<1> QED  BY <1>3, <1>4, <1>7 DEF A, B

\* What leaves the books alone.
SameBooks(s, t) ==
  /\ t.ref = s.ref /\ t.new_cfqq = s.new_cfqq /\ t.sync = s.sync
  /\ t.own = s.own /\ t.cic = s.cic /\ t.async_cfqq = s.async_cfqq
  /\ t.bug = s.bug /\ t.coop \in [Queues -> {"none", "coop", "split"}]
  /\ \A q \in Queues : s.coop[q] = "none" => t.coop[q] = "none"

LEMMA SameCounted ==
  ASSUME NEW s, NEW t, SameBooks(s, t), NEW c, NEW a, NEW D,
         Counted(s, c, a, D)
  PROVE  Counted(t, c, a, D)
<1>1. \A q \in Queues : Allocated(t, q) = Allocated(s, q)
  BY DEF SameBooks, Allocated, Of
<1>2. Account(t, c, a, D)
  BY <1>1 DEF SameBooks, Counted, Account
<1>3. Marks(t, c, a)
  BY DEF SameBooks, Counted, Marks
<1> QED  BY <1>2, <1>3 DEF Counted

LEMMA SameTwice ==
  ASSUME NEW s, NEW t, NEW u, SameBooks(s, t), SameBooks(t, u)
  PROVE  SameBooks(s, u)
BY DEF SameBooks

LEMMA SameSelf ==
  ASSUME NEW s, NEW c, NEW a, NEW D, Counted(s, c, a, D)
  PROVE  SameBooks(s, s)
BY DEF SameBooks, Counted, Marks

LEMMA ExpireSame ==
  ASSUME NEW s, Good(s), SameBooks(s, s), s.active # NoCfqq,
         NEW seeky \in BOOLEAN
  PROVE  SameBooks(s, Expire(s, seeky))
<1> DEFINE e == Expire(s, seeky)
           q == s.active
<1>1. DOMAIN s = Fields /\ q \in Queues
  BY DEF Good, Data, MaybeQueue
<1>2. /\ e.ref = s.ref /\ e.new_cfqq = s.new_cfqq /\ e.sync = s.sync
      /\ e.own = s.own /\ e.cic = s.cic /\ e.async_cfqq = s.async_cfqq
      /\ e.bug = s.bug
  BY <1>1 DEF Expire, DelTimer, Fields
<1>3. e.coop = [s.coop EXCEPT ![q] = IF s.coop[q] = "coop" /\ seeky
                                     THEN "split" ELSE s.coop[q]]
  BY <1>1 DEF Expire, DelTimer, Fields
<1> HIDE DEF e
<1>4. /\ e.coop \in [Queues -> {"none", "coop", "split"}]
      /\ \A y \in Queues : s.coop[y] = "none" => e.coop[y] = "none"
  BY <1>1, <1>3 DEF SameBooks
<1>5. SameBooks(s, e)
  BY <1>2, <1>4 DEF SameBooks
<1> QED  BY <1>5 DEF e

LEMMA ScheduleSame ==
  ASSUME NEW s, Good(s), SameBooks(s, s)
  PROVE  SameBooks(s, ScheduleDispatch(s))
<1> DEFINE t == ScheduleDispatch(s)
<1>1. DOMAIN s = Fields
  BY DEF Good, Data
<1>2. /\ t.ref = s.ref /\ t.new_cfqq = s.new_cfqq /\ t.sync = s.sync
      /\ t.own = s.own /\ t.cic = s.cic /\ t.async_cfqq = s.async_cfqq
      /\ t.bug = s.bug /\ t.coop = s.coop
  BY <1>1 DEF ScheduleDispatch, Fields
<1> HIDE DEF t
<1>3. SameBooks(s, t)
  BY <1>2 DEF SameBooks
<1> QED  BY <1>3 DEF t

LEMMA ExpirationsSame ==
  ASSUME NEW s, Good(s), SameBooks(s, s), NEW e \in Expirations(s)
  PROVE  SameBooks(s, e)
<1>1. CASE s.active = NoCfqq
  BY <1>1 DEF Expirations
<1>2. CASE s.active # NoCfqq
  <2>1. PICK seeky \in BOOLEAN : e = Expire(s, seeky)
    BY <1>2 DEF Expirations
  <2> QED  BY <1>2, <2>1, ExpireSame
<1> QED  BY <1>1, <1>2

LEMMA KickedSame ==
  ASSUME NEW s, Good(s), SameBooks(s, s), NEW e \in Expirations(s)
  PROVE  SameBooks(s, ScheduleDispatch(e))
<1>1. SameBooks(s, e) /\ Good(e)
  BY ExpirationsSame, ExpirationsFields
<1>2. SameBooks(e, e)
  BY <1>1 DEF SameBooks
<1>3. SameBooks(e, ScheduleDispatch(e))
  BY <1>1, <1>2, ScheduleSame
<1> QED  BY <1>1, <1>3, SameTwice

\* A reference that nobody holds is put.  With the last one the queue is
\* freed: no process has it on its path, no request belongs to it, and it is
\* off the round-robin list.
LEMMA PutCounted ==
  ASSUME NEW s, Good(s), NEW c, NEW a, NEW D, Counted(s, c, a, D),
         NEW q \in Queues, q \in D
  PROVE  Counted(PutQueue(s, q), c, a, D \ {q})
<1> DEFINE x == [s EXCEPT !.ref[q] = @ - 1]
           e == ExpireIfActive(x, q)
           P == Allocated(x, q) # {} \/ ~Empty(x, q) \/ q \in e.busy
           u == BugIf(P, e)
           v == [u EXCEPT !.new_cfqq[q] = NoCfqq, !.coop[q] = "none",
                          !.sync = @ \ {q}]
<1>1. DOMAIN s = Fields /\ s.ref \in [Queues -> Int] /\ s.bug = FALSE
  BY DEF Good, Data, Counted, Marks
<1>2. /\ s.ref[q] \in Int
      /\ s.ref[q] = Cardinality(Claims(s.new_cfqq, c, q))
                    + Cardinality(Allocated(s, q)) + One(q \in {Oom, a}) + 1
  BY <1>1 DEF Counted, Account, One
<1>3. /\ Cardinality(Claims(s.new_cfqq, c, q)) \in Nat
      /\ Cardinality(Allocated(s, q)) \in Nat
  BY ClaimsFinite, AllocatedFinite
<1>4. One(q \in {Oom, a}) \in {0, 1}
  BY DEF One
<1>5. ~(s.ref[q] <= 0)
  BY <1>2, <1>3, <1>4
<1>6. PutQueue(s, q) = IF x.ref[q] > 0 THEN x ELSE v
  BY <1>5 DEF PutQueue
<1>7. /\ DOMAIN x = Fields /\ x.busy = s.busy /\ x.active = s.active
      /\ x.queued = s.queued /\ x.own = s.own
      /\ x.firing = s.firing /\ x.armed = s.armed /\ x.kick = s.kick
      /\ x.cic = s.cic /\ x.new_cfqq = s.new_cfqq /\ x.sync = s.sync
      /\ x.async_cfqq = s.async_cfqq /\ x.coop = s.coop /\ x.bug = s.bug
      /\ x.ref = [s.ref EXCEPT ![q] = s.ref[q] - 1]
  BY <1>1 DEF Fields
<1> HIDE DEF x
<1>8. /\ x.ref \in [Queues -> Int] /\ x.ref[q] = s.ref[q] - 1
      /\ \A y \in Queues : y # q => x.ref[y] = s.ref[y]
  BY <1>1, <1>7
<1>9. Good(x)
  <2>1. Data(x) /\ Acyclic(x) /\ Listed(x)
    BY <1>7, SameListed DEF Good, Data, Acyclic
  <2> QED  BY <2>1 DEF Good
<1>10. Account(x, c, a, D \ {q})
  <2> SUFFICES ASSUME NEW y \in Queues
               PROVE  x.ref[y] = Cardinality(Claims(s.new_cfqq, c, y))
                                 + Cardinality(Allocated(s, y))
                                 + One(y \in {Oom, a}) + One(y \in D \ {q})
    <3>1. \A z \in Queues : Allocated(x, z) = Allocated(s, z)
      BY <1>7 DEF Allocated, Of
    <3> QED  BY <1>7, <3>1 DEF Account
  <2>1. CASE y = q
    <3>1. One(q \in D \ {q}) = 0
      BY DEF One
    <3> QED  BY <1>2, <1>3, <1>4, <1>8, <2>1, <3>1
  <2>2. CASE y # q
    <3>1. One(y \in D \ {q}) = One(y \in D)
      BY <2>2 DEF One
    <3> QED  BY <1>8, <2>2, <3>1 DEF Counted, Account
  <2> QED  BY <2>1, <2>2
<1>11. CASE x.ref[q] > 0
  <2>1. Marks(x, c, a)
    BY <1>7, <1>8, <1>11 DEF Counted, Marks
  <2> QED  BY <1>6, <1>10, <1>11, <2>1 DEF Counted
<1>12. CASE ~(x.ref[q] > 0)
  <2>1. /\ x.ref[q] = 0 /\ Cardinality(Claims(s.new_cfqq, c, q)) = 0
        /\ Cardinality(Allocated(s, q)) = 0 /\ One(q \in {Oom, a}) = 0
    BY <1>2, <1>3, <1>4, <1>8, <1>12
  <2>2. Allocated(s, q) = {} /\ q \notin {Oom, a}
    BY <2>1, AllocatedFinite DEF One
  <2>3. Good(e) /\ SameBooks(x, e) /\ e.active # q /\ e.queued = x.queued
    <3>1. SameBooks(x, x)
      BY <1>7 DEF SameBooks, Counted, Marks
    <3>2. CASE x.active = q
      <4> DEFINE z == Expire(x, FALSE)
      <4>1. x.active # NoCfqq
        BY <3>2, QueueFacts
      <4>2. Good(z) /\ z.active = NoCfqq /\ z.queued = x.queued
        BY <1>9, <4>1, ExpireKeeps
      <4>3. SameBooks(x, z)
        BY <1>9, <3>1, <4>1, ExpireSame
      <4>4. e = ScheduleDispatch(z)
        BY <3>2 DEF ExpireIfActive
      <4> HIDE DEF z, e
      <4>5. Good(e) /\ e.active = NoCfqq /\ e.queued = z.queued
        BY <4>2, <4>4, ScheduleFields
      <4>6. SameBooks(z, z)
        BY <4>3 DEF SameBooks
      <4>7. SameBooks(x, e)
        BY <4>2, <4>3, <4>4, <4>6, ScheduleSame, SameTwice
      <4> QED  BY <4>2, <4>5, <4>7, QueueFacts
    <3>3. CASE x.active # q
      BY <1>9, <3>1, <3>3 DEF ExpireIfActive
    <3> QED  BY <3>2, <3>3
  <2> HIDE DEF e
  <2>4. P = FALSE
    <3>1. Allocated(x, q) = {}
      BY <1>7, <2>2 DEF Allocated, Of
    <3>2. Empty(x, q) /\ Empty(e, q)
      BY <1>7, <1>9, <2>2, <2>3 DEF Allocated, Empty, Of, Good, Data, SameBooks
    <3>3. q \notin e.busy
      BY <2>3, <3>2 DEF Good, Listed
    <3> QED  BY <3>1, <3>2, <3>3
  <2> HIDE DEF P
  <2>5. DOMAIN e = Fields
    BY <2>3 DEF Good, Data
  <2>6. /\ DOMAIN u = Fields /\ u.ref = e.ref /\ u.new_cfqq = e.new_cfqq
        /\ u.sync = e.sync /\ u.own = e.own /\ u.coop = e.coop
        /\ u.bug = (e.bug \/ P)
    BY <2>5 DEF BugIf, Fields
  <2> HIDE DEF u
  <2>7. /\ v.ref = u.ref /\ v.own = u.own /\ v.bug = u.bug
        /\ v.new_cfqq = [u.new_cfqq EXCEPT ![q] = NoCfqq]
        /\ v.coop = [u.coop EXCEPT ![q] = "none"]
        /\ v.sync = u.sync \ {q}
    BY <2>6 DEF Fields
  <2> HIDE DEF v
  <2>8. e.bug = FALSE
    BY <1>1, <1>7, <2>3 DEF SameBooks
  <2>9. v.bug = FALSE
    BY <2>4, <2>6, <2>7, <2>8
  <2>10. /\ v.ref = x.ref /\ v.own = s.own /\ v.bug = FALSE
        /\ v.new_cfqq = [s.new_cfqq EXCEPT ![q] = NoCfqq]
        /\ v.sync = s.sync \ {q}
    BY <1>7, <2>3, <2>6, <2>7, <2>9 DEF SameBooks
  <2>11. /\ v.coop \in [Queues -> {"none", "coop", "split"}]
        /\ v.coop[q] = "none"
        /\ \A y \in Queues : s.coop[y] = "none" => v.coop[y] = "none"
    <3>1. /\ e.coop \in [Queues -> {"none", "coop", "split"}]
          /\ \A y \in Queues : s.coop[y] = "none" => e.coop[y] = "none"
      BY <1>7, <2>3 DEF SameBooks
    <3> QED  BY <2>6, <2>7, <3>1
  <2>12. /\ s.new_cfqq \in Merges /\ v.new_cfqq \in Merges
         /\ v.new_cfqq[q] = NoCfqq
         /\ \A y \in Queues : y # q => v.new_cfqq[y] = s.new_cfqq[y]
    BY <2>10, QueueFacts DEF Good, Data, Merges
  <2>13. c \in Cics
    BY DEF Counted, Marks
  <2>14. ASSUME NEW p \in Procs, NEW kind \in Kinds
         PROVE  /\ Path(v.new_cfqq, c[p][kind]) = Path(s.new_cfqq, c[p][kind])
                /\ q \notin Path(s.new_cfqq, c[p][kind])
    <3>1. c[p][kind] \in MaybeQueue
      BY <2>13 DEF Cics
    <3>2. q \notin Path(s.new_cfqq, c[p][kind])
      BY <2>1, <2>13, NoClaims
    <3>3. Path(s.new_cfqq, c[p][kind]) \subseteq Queues
      BY DEF Path
    <3> QED  BY <2>12, <3>1, <3>2, <3>3, PathSame
  <2>15. \A y \in Queues : Claims(v.new_cfqq, c, y) = Claims(s.new_cfqq, c, y)
    BY <2>14 DEF Claims
  <2>16. Account(v, c, a, D \ {q})
    <3>1. \A y \in Queues : Allocated(v, y) = Allocated(x, y)
      BY <1>7, <2>10 DEF Allocated, Of
    <3> QED  BY <1>7, <1>10, <2>10, <2>15, <3>1 DEF Account
  <2>17. Marks(v, c, a)
    <3>1. /\ v.ref \in [Queues -> Int] /\ v.sync \subseteq Cfqqs
          /\ a \in MaybeQueue \ (v.sync \cup {Oom})
          /\ \A y \in v.sync : v.ref[y] # 0
      BY <1>8, <2>10 DEF Counted, Marks, Queues
    <3>2. \A y \in Queues \ v.sync :
            v.new_cfqq[y] = NoCfqq /\ v.coop[y] = "none"
      BY <2>10, <2>11, <2>12 DEF Counted, Marks
    <3>3. ASSUME NEW p \in Procs
          PROVE  /\ c[p]["async"] \in {NoCfqq, Oom, a}
                 /\ \/ c[p]["sync"] = Oom
                    \/ Path(v.new_cfqq, c[p]["sync"]) \subseteq v.sync
      <4>1. /\ Path(v.new_cfqq, c[p]["sync"]) = Path(s.new_cfqq, c[p]["sync"])
            /\ q \notin Path(s.new_cfqq, c[p]["sync"])
        BY <2>14 DEF Kinds
      <4> QED  BY <2>10, <4>1 DEF Counted, Marks
    <3> QED  BY <2>10, <2>11, <2>13, <3>1, <3>2, <3>3 DEF Marks
  <2> QED  BY <1>6, <1>12, <2>16, <2>17 DEF Counted
<1> QED  BY <1>11, <1>12

\* A process that leaves the queue q gives back what it held along the path.
LEMMA CooperatorCounted ==
  ASSUME NEW s, Good(s), NEW q \in Queues, NEW c, NEW a,
         Counted(s, c, a, Path(s.new_cfqq, q))
  PROVE  Counted(PutCooperator(s, q), c, a, {q})
<1> DEFINE N == Cardinality(Queues)
           g == Ahead(s, q)
           D == Path(s.new_cfqq, q)
           Due(n) == D \ {g[k] : k \in 1 .. n}
<1>1. N \in Nat
  BY QueueFacts
<1>2. g \in [0 .. N -> MaybeQueue] /\ g[0] = q
  BY AheadFacts
<1>3. D = Chain(s, q) \cup {q} /\ NoCfqq \notin D
  BY ChainPath, QueueFacts DEF Path
<1>4. Chain(s, q) = {g[k] : k \in 1 .. N} \ {NoCfqq}
  BY DEF Chain
<1>5. \A k \in 1 .. N : g[k] # NoCfqq => g[k] # q /\ g[k] \in D
  <2> SUFFICES ASSUME NEW k \in 1 .. N, g[k] # NoCfqq
               PROVE  g[k] # q /\ g[k] \in D
    OBVIOUS
  <2>1. 0 \in 0 .. N /\ k \in 0 .. N /\ 0 # k
    BY <1>1
  <2>2. g[0] # g[k]
    BY <2>1, AheadOnce
  <2> QED  BY <1>2, <1>3, <1>4, <2>2
<1>6. PICK put : /\ put[0] = s /\ put[N] = PutCooperator(s, q)
                 /\ \A n \in 1 .. N :
                      put[n] = IF g[n] = NoCfqq THEN put[n - 1]
                               ELSE PutQueue(put[n - 1], g[n])
  BY CooperatorWalk
<1>7. ASSUME NEW n \in 0 .. N
      PROVE  Good(put[n]) /\ Counted(put[n], c, a, Due(n))
  <2> DEFINE OK(m) == Good(put[m]) /\ Counted(put[m], c, a, Due(m))
             Bad == {m \in 0 .. N : ~OK(m)}
  <2> SUFFICES ASSUME Bad # {} PROVE FALSE
    OBVIOUS
  <2>1. Bad \subseteq Nat
    BY <1>1
  <2>2. PICK m \in Bad : \A i \in Bad : m <= i
    <3> HIDE DEF Bad
    <3> QED  BY <2>1, LeastNat
  <2>3. OK(0)
    <3>1. Due(0) = D
      <4>1. 1 .. 0 = {}
        OBVIOUS
      <4> QED  BY <4>1
    <3> QED  BY <1>6, <3>1
  <2>4. m \in 1 .. N /\ m - 1 \in 0 .. N /\ ~(m <= m - 1)
    <3>1. m \in 0 .. N /\ m # 0
      BY <2>2, <2>3
    <3> QED  BY <1>1, <3>1
  <2>5. OK(m - 1)
    <3> HIDE DEF OK
    <3> QED  BY <2>2, <2>4
  <2>6. 1 .. m = (1 .. m - 1) \cup {m}
    BY <1>1, <2>4
  <2>7. Due(m) = Due(m - 1) \ {g[m]}
    <3> HIDE DEF g, D
    <3> QED  BY <2>6
  <2>8. put[m] = IF g[m] = NoCfqq THEN put[m - 1] ELSE PutQueue(put[m - 1], g[m])
    BY <1>6, <2>4
  <2>9. CASE g[m] = NoCfqq
    <3>1. Due(m) = Due(m - 1)
      BY <1>3, <2>7, <2>9
    <3> HIDE DEF Due
    <3> QED  BY <2>2, <2>5, <2>8, <2>9, <3>1
  <2>10. CASE g[m] # NoCfqq
    <3>1. g[m] \in Queues
      BY <1>5, <2>4, <2>10 DEF Path
    <3>2. \A k \in 1 .. m - 1 : g[k] # g[m]
      <4> SUFFICES ASSUME NEW k \in 1 .. m - 1 PROVE g[k] # g[m]
        OBVIOUS
      <4>1. k \in 0 .. N /\ m \in k .. N /\ k # m
        BY <1>1, <2>4
      <4> QED  BY <2>10, <4>1, AheadOnce
    <3>3. g[m] \in Due(m - 1)
      <4> HIDE DEF g, D
      <4> QED  BY <1>5, <2>4, <2>10, <3>2
    <3> HIDE DEF Due, g
    <3>4. Counted(PutQueue(put[m - 1], g[m]), c, a, Due(m - 1) \ {g[m]})
      BY <2>5, <3>1, <3>3, PutCounted
    <3>5. Good(PutQueue(put[m - 1], g[m]))
      BY <2>5, <3>1, PutFields
    <3> QED  BY <2>2, <2>7, <2>8, <2>10, <3>4, <3>5
  <2> QED  BY <2>9, <2>10
<1>8. Due(N) = {q}
  <2> HIDE DEF g, D
  <2> QED  BY <1>3, <1>4, <1>5
<1>9. N \in 0 .. N
  BY <1>1
<1> HIDE DEF Due
<1> QED  BY <1>6, <1>7, <1>8, <1>9

\* The books do not depend on the processes' queues of cfq_data itself.
LEMMA CountedFields ==
  ASSUME NEW s, NEW t, NEW c, NEW a, NEW D, Counted(s, c, a, D),
         t.ref = s.ref, t.new_cfqq = s.new_cfqq, t.sync = s.sync,
         t.own = s.own, t.coop = s.coop, t.bug = s.bug
  PROVE  Counted(t, c, a, D)
<1>1. \A q \in Queues : Allocated(t, q) = Allocated(s, q)
  BY DEF Allocated, Of
<1>2. Account(t, c, a, D)
  BY <1>1 DEF Counted, Account
<1>3. Marks(t, c, a)
  BY DEF Counted, Marks
<1> QED  BY <1>2, <1>3 DEF Counted

\* At the end of every operation the books are balanced.
Balanced(s) == Counted(s, s.cic, s.async_cfqq, {})

\* A process leaves a queue: nobody holds the references along its path.
LEMMA LeaveCounted ==
  ASSUME NEW s, NEW c, NEW a, Counted(s, c, a, {}),
         NEW p \in Procs, NEW kind \in Kinds
  PROVE  Counted(s, [c EXCEPT ![p][kind] = NoCfqq], a,
                 Path(s.new_cfqq, c[p][kind]))
<1> DEFINE d == [c EXCEPT ![p][kind] = NoCfqq]
           D == Path(s.new_cfqq, c[p][kind])
<1>1. c \in Cics /\ NoCfqq \in MaybeQueue
  BY QueueFacts DEF Counted, Marks
<1>2. Moved(c, d, p, kind, NoCfqq)
  BY <1>1, CicMoved
<1> HIDE DEF d
<1>3. \A q \in Queues :
        Cardinality(Claims(s.new_cfqq, d, q))
          = Cardinality(Claims(s.new_cfqq, c, q)) - One(q \in D) + 0
  <2> SUFFICES ASSUME NEW q \in Queues
               PROVE  Cardinality(Claims(s.new_cfqq, d, q))
                        = Cardinality(Claims(s.new_cfqq, c, q)) - One(q \in D) + 0
    OBVIOUS
  <2>1. One(q \in Path(s.new_cfqq, NoCfqq)) = 0
    BY PathNone DEF One
  <2> QED  BY <1>1, <1>2, <2>1, ClaimsMove
<1> HIDE DEF D
<1>4. Account(s, d, a, D)
  <2> SUFFICES ASSUME NEW q \in Queues
               PROVE  s.ref[q] = Cardinality(Claims(s.new_cfqq, d, q))
                                 + Cardinality(Allocated(s, q))
                                 + One(q \in {Oom, a}) + One(q \in D)
    BY DEF Account
  <2>1. s.ref[q] = Cardinality(Claims(s.new_cfqq, c, q))
                   + Cardinality(Allocated(s, q)) + One(q \in {Oom, a}) + 0
    <3>1. One(q \in {}) = 0
      BY DEF One
    <3> QED  BY <3>1 DEF Counted, Account
  <2>2. /\ Cardinality(Claims(s.new_cfqq, c, q)) \in Nat
        /\ Cardinality(Allocated(s, q)) \in Nat
    BY ClaimsFinite, AllocatedFinite
  <2>3. One(q \in {Oom, a}) \in {0, 1} /\ One(q \in D) \in {0, 1}
    BY DEF One
  <2> QED  BY <1>3, <2>1, <2>2, <2>3
<1>5. Marks(s, d, a)
  <2>1. ASSUME NEW x \in Procs
        PROVE  /\ d[x]["async"] \in {NoCfqq, Oom, a}
               /\ \/ d[x]["sync"] = Oom
                  \/ Path(s.new_cfqq, d[x]["sync"]) \subseteq s.sync
    <3>1. /\ d[x]["async"] \in {c[x]["async"], NoCfqq}
          /\ d[x]["sync"] \in {c[x]["sync"], NoCfqq}
      BY <1>2 DEF Kinds, Moved
    <3>2. Path(s.new_cfqq, NoCfqq) = {}
      BY PathNone
    <3> QED  BY <3>1, <3>2 DEF Counted, Marks
  <2> QED  BY <1>2, <2>1 DEF Counted, Marks, Moved
<1> QED  BY <1>4, <1>5 DEF Counted, d, D

LEMMA ExitCfqqCounted ==
  ASSUME NEW s, Good(s), NEW q \in Queues, NEW c, NEW a,
         Counted(s, c, a, Path(s.new_cfqq, q)), NEW u \in ExitCfqq(s, q)
  PROVE  Counted(u, c, a, {})
<1>1. PICK t \in IF s.active = q THEN {ScheduleDispatch(e) : e \in Expirations(s)}
                 ELSE {s} :
        u = PutQueue(PutCooperator(t, q), q)
  BY DEF ExitCfqq
<1>2. SameBooks(s, s)
  BY SameSelf
<1>3. SameBooks(s, t) /\ Good(t)
  <2>1. CASE s.active = q
    BY <1>1, <1>2, <2>1, KickedSame, ExpiredAndKicked DEF Puts
  <2>2. CASE s.active # q
    BY <1>1, <1>2, <2>2
  <2> QED  BY <2>1, <2>2
<1>4. Counted(t, c, a, Path(t.new_cfqq, q))
  <2>1. t.new_cfqq = s.new_cfqq
    BY <1>3 DEF SameBooks
  <2> QED  BY <1>3, <2>1, SameCounted
<1>5. Counted(PutCooperator(t, q), c, a, {q})
  BY <1>3, <1>4, CooperatorCounted
<1>6. Good(PutCooperator(t, q))
  BY <1>3, CooperatorPuts DEF Puts
<1>7. Counted(u, c, a, {q} \ {q})
  BY <1>1, <1>5, <1>6, PutCounted
<1>8. {q} \ {q} = {}
  OBVIOUS
<1> QED  BY <1>7, <1>8

LEMMA ExitKindCounted ==
  ASSUME NEW s, Good(s), Balanced(s), NEW p \in Procs, NEW kind \in Kinds,
         NEW u \in ExitKind(s, p, kind)
  PROVE  Balanced(u)
<1>1. CASE s.cic[p][kind] = NoCfqq
  BY <1>1 DEF ExitKind
<1>2. CASE s.cic[p][kind] # NoCfqq
  <2> DEFINE q == s.cic[p][kind]
             d == [s.cic EXCEPT ![p][kind] = NoCfqq]
  <2>1. q \in Queues
    BY <1>2 DEF Good, Data, MaybeQueue
  <2>2. PICK t \in ExitCfqq(s, q) : u = [t EXCEPT !.cic[p][kind] = NoCfqq]
    BY <1>2 DEF ExitKind
  <2>3. Counted(s, d, s.async_cfqq, Path(s.new_cfqq, q))
    BY LeaveCounted DEF Balanced
  <2>4. Counted(t, d, s.async_cfqq, {})
    <3> HIDE DEF q, d
    <3> QED  BY <2>1, <2>2, <2>3, ExitCfqqCounted
  <2>5. t.cic = s.cic /\ t.async_cfqq = s.async_cfqq /\ DOMAIN t = Fields
    <3> HIDE DEF q
    <3> QED  BY <2>1, <2>2, ExitCfqqPuts DEF Puts, Good, Data
  <2>6. /\ u.cic = d /\ u.async_cfqq = t.async_cfqq
        /\ u.ref = t.ref /\ u.new_cfqq = t.new_cfqq /\ u.sync = t.sync
        /\ u.own = t.own /\ u.coop = t.coop /\ u.bug = t.bug
    BY <2>2, <2>5 DEF Fields
  <2> HIDE DEF d
  <2>7. Counted(u, d, s.async_cfqq, {})
    BY <2>4, <2>6, CountedFields
  <2> QED  BY <2>5, <2>6, <2>7 DEF Balanced
<1> QED  BY <1>1, <1>2

LEMMA ExitIcqCounted ==
  ASSUME NEW s, Good(s), Balanced(s), NEW p \in Procs, NEW u \in ExitIcq(s, p)
  PROVE  Balanced(u)
<1>1. PICK t \in ExitKind(s, p, "async") : u \in ExitKind(t, p, "sync")
  BY DEF ExitIcq
<1>2. Balanced(t) /\ Good(t)
  BY <1>1, ExitKindCounted, ExitKindKept DEF Kinds, Kept
<1> QED  BY <1>1, <1>2, ExitKindCounted DEF Kinds

-----------------------------------------------------------------------------
(* The queue of a request.                                                 *)

\* A queue that merges with none is its own path.
LEMMA PathAlone ==
  ASSUME NEW f \in Merges, NEW q \in Queues, f[q] = NoCfqq
  PROVE  Path(f, q) = {q}
BY PathStep, PathNone

\* The process gets a queue: a new one, the shared one or oom_cfqq.
LEMMA GetQueueCounted ==
  ASSUME NEW s, Good(s), NEW p \in Procs, NEW kind \in Kinds,
         NEW fresh \in Queues,
         Counted(s, [s.cic EXCEPT ![p][kind] = NoCfqq], s.async_cfqq, {})
  PROVE  Balanced(GetQueue(s, p, kind, fresh))
<1> DEFINE shared == kind = "async" /\ s.async_cfqq # NoCfqq
           new    == ~shared /\ fresh # Oom /\ s.ref[fresh] = 0
           pinned == new /\ kind = "async"
           q == IF shared THEN s.async_cfqq ELSE IF new THEN fresh ELSE Oom
           u == GetQueue(s, p, kind, fresh)
           c == [s.cic EXCEPT ![p][kind] = NoCfqq]
           a == s.async_cfqq
           f == s.new_cfqq
<1>1. /\ DOMAIN s = Fields /\ a \in MaybeQueue /\ s.cic \in Cics
      /\ f \in Merges
  BY DEF Good, Data, Cics, Merges
<1>2. Account(s, c, a, {}) /\ Marks(s, c, a)
  BY DEF Counted
<1>3. u = [s EXCEPT !.cic[p][kind] = q,
             !.ref[q] = @ + (IF pinned THEN 2 ELSE 1),
             !.async_cfqq = IF pinned THEN q ELSE @,
             !.sync = IF new /\ kind = "sync" THEN @ \cup {q} ELSE @]
  BY DEF GetQueue
<1>4. q \in Queues /\ q \notin s.sync /\ q \in MaybeQueue
  <2>1. Oom \notin s.sync /\ a \notin s.sync
    BY <1>2, QueueFacts DEF Marks
  <2>2. new => fresh \notin s.sync
    BY <1>2 DEF Marks
  <2>3. shared => a \in Queues
    BY <1>1 DEF MaybeQueue
  <2> HIDE DEF c, a
  <2> QED  BY <2>1, <2>2, <2>3, QueueFacts DEF a
<1>5. /\ shared => kind = "async" /\ q = a
      /\ new => q = fresh /\ q # Oom /\ s.ref[q] = 0
      /\ ~shared /\ ~new => q = Oom
      /\ pinned <=> new /\ kind = "async"
      /\ pinned => a = NoCfqq
      /\ shared => ~new
  OBVIOUS
<1> HIDE DEF q, u, new, pinned, shared
<1>6. /\ u.cic = [s.cic EXCEPT ![p][kind] = q]
      /\ u.new_cfqq = f /\ u.own = s.own /\ u.coop = s.coop /\ u.bug = s.bug
      /\ u.ref = [s.ref EXCEPT ![q] = s.ref[q] + (IF pinned THEN 2 ELSE 1)]
      /\ u.async_cfqq = IF pinned THEN q ELSE a
      /\ u.sync = IF new /\ kind = "sync" THEN s.sync \cup {q} ELSE s.sync
  BY <1>1, <1>3 DEF Fields
<1>7. c \in Cics /\ c[p][kind] = NoCfqq /\ Moved(c, u.cic, p, kind, q)
  <2>1. Moved(s.cic, c, p, kind, NoCfqq)
    BY <1>1, CicMoved, QueueFacts
  <2> HIDE DEF c
  <2>2. Moved(s.cic, u.cic, p, kind, q)
    BY <1>1, <1>4, <1>6, CicMoved
  <2> QED  BY <2>1, <2>2 DEF Moved
<1> HIDE DEF c
<1>8. Path(f, q) = {q}
  <2>1. f[q] = NoCfqq
    BY <1>2, <1>4 DEF Marks
  <2> HIDE DEF f
  <2> QED  BY <1>1, <1>4, <2>1, PathAlone
<1>9. a \in Queues => s.ref[a] # 0
  <2> SUFFICES ASSUME a \in Queues PROVE s.ref[a] # 0
    OBVIOUS
  <2> HIDE DEF a
  <2>1. s.ref[a] = Cardinality(Claims(f, c, a)) + Cardinality(Allocated(s, a))
                   + One(a \in {Oom, a}) + One(a \in {})
    BY <1>2 DEF Account
  <2>2. One(a \in {Oom, a}) = 1 /\ One(a \in {}) = 0
    BY DEF One
  <2>3. /\ Cardinality(Claims(f, c, a)) \in Nat
        /\ Cardinality(Allocated(s, a)) \in Nat
    BY ClaimsFinite, AllocatedFinite
  <2> QED  BY <2>1, <2>2, <2>3
<1>10. /\ u.ref \in [Queues -> Int]
       /\ u.ref[q] = s.ref[q] + (IF pinned THEN 2 ELSE 1)
       /\ s.ref[q] \in Int
       /\ \A y \in Queues : y # q => u.ref[y] = s.ref[y]
  BY <1>2, <1>4, <1>6 DEF Marks
<1>11. ASSUME NEW y \in Queues
       PROVE  u.ref[y] = Cardinality(Claims(f, u.cic, y))
                         + Cardinality(Allocated(u, y))
                         + One(y \in {Oom, u.async_cfqq}) + One(y \in {})
  <2>1. Allocated(u, y) = Allocated(s, y)
    BY <1>6 DEF Allocated, Of
  <2>2. /\ One(y \in {}) = 0 /\ One(y \in Path(f, NoCfqq)) = 0
        /\ One(y \in {Oom, a}) \in {0, 1}
    BY PathNone DEF One
  <2>4. Cardinality(Claims(f, u.cic, y))
          = Cardinality(Claims(f, c, y)) - 0 + One(y \in {q})
    <3> HIDE DEF f, a
    <3>1. Cardinality(Claims(f, u.cic, y))
            = Cardinality(Claims(f, c, y)) - One(y \in Path(f, c[p][kind]))
              + One(y \in Path(f, q))
      BY <1>7, ClaimsMove
    <3> QED  BY <1>7, <1>8, <2>2, <3>1
  <2>5. /\ Cardinality(Claims(f, c, y)) \in Nat
        /\ Cardinality(Allocated(s, y)) \in Nat
    BY ClaimsFinite, AllocatedFinite
  <2>6. s.ref[y] = Cardinality(Claims(f, c, y)) + Cardinality(Allocated(s, y))
                   + One(y \in {Oom, a}) + 0
    BY <1>2, <2>2 DEF Account
  <2>7. CASE y # q
    <3>1. One(y \in {q}) = 0
      BY <2>7 DEF One
    <3>2. One(y \in {Oom, u.async_cfqq}) = One(y \in {Oom, a})
      BY <1>5, <1>6, <2>7, QueueFacts DEF One
    <3> HIDE DEF a, f
    <3> QED  BY <1>10, <2>1, <2>2, <2>4, <2>5, <2>6, <2>7, <3>1, <3>2
  <2>8. CASE y = q /\ ~pinned
    <3>1. One(y \in {q}) = 1
      BY <2>8 DEF One
    <3>2. u.async_cfqq = a /\ u.ref[y] = s.ref[y] + 1
      BY <1>6, <1>10, <2>8
    <3> HIDE DEF a, f
    <3> QED  BY <2>1, <2>2, <2>4, <2>5, <2>6, <3>1, <3>2
  <2>9. CASE y = q /\ pinned
    <3>1. One(y \in {q}) = 1
      BY <2>9 DEF One
    <3>2. u.async_cfqq = q /\ u.ref[y] = s.ref[y] + 2
      BY <1>6, <1>10, <2>9
    <3>3. One(y \in {Oom, u.async_cfqq}) = 1
      BY <2>9, <3>2 DEF One
    <3>4. One(y \in {Oom, a}) = 0
      BY <1>5, <2>9, QueueFacts DEF One
    <3> HIDE DEF a, f
    <3> QED  BY <2>1, <2>2, <2>4, <2>5, <2>6, <3>1, <3>2, <3>3, <3>4
  <2> QED  BY <2>7, <2>8, <2>9
<1>12. Marks(u, u.cic, u.async_cfqq)
  <2>1. u.sync \subseteq Cfqqs
    <3>1. new => q \in Cfqqs
      BY <1>4, <1>5 DEF Queues
    <3> QED  BY <1>2, <1>6, <3>1 DEF Marks
  <2>2. u.async_cfqq \in MaybeQueue \ (u.sync \cup {Oom})
    <3>1. CASE pinned
      <4>1. kind # "sync" /\ q # Oom
        BY <1>5, <3>1
      <4> QED  BY <1>4, <1>6, <3>1, <4>1
    <3>2. CASE ~pinned
      <4>1. a \in MaybeQueue \ (s.sync \cup {Oom})
        BY <1>2 DEF Marks
      <4>2. new => q # a
        BY <1>4, <1>5, <1>9
      <4> HIDE DEF a
      <4> QED  BY <1>6, <3>2, <4>1, <4>2
    <3> QED  BY <3>1, <3>2
  <2>3. \A y \in Queues \ u.sync : f[y] = NoCfqq /\ u.coop[y] = "none"
    BY <1>2, <1>6 DEF Marks
  <2>4. \A y \in u.sync : u.ref[y] # 0
    <3>1. CASE new /\ kind = "sync"
      <4>1. u.ref[q] = 1
        BY <1>5, <1>10, <3>1
      <4> QED  BY <1>2, <1>4, <1>6, <1>10, <3>1, <4>1, <2>1 DEF Marks, Queues
    <3>2. CASE ~(new /\ kind = "sync")
      <4>1. u.sync = s.sync
        BY <1>6, <3>2
      <4>2. \A y \in s.sync : y # q /\ y \in Queues
        BY <1>2, <1>4 DEF Marks, Queues
      <4> QED  BY <1>2, <1>10, <4>1, <4>2 DEF Marks
    <3> QED  BY <3>1, <3>2
  <2>5. ASSUME NEW x \in Procs
        PROVE  u.cic[x]["async"] \in {NoCfqq, Oom, u.async_cfqq}
    <3>1. CASE x = p /\ kind = "async"
      <4>1. u.cic[x]["async"] = q
        BY <1>7, <3>1 DEF Moved
      <4> QED  BY <1>5, <1>6, <3>1, <4>1
    <3>2. CASE ~(x = p /\ kind = "async")
      <4>1. u.cic[x]["async"] = c[x]["async"]
        BY <1>7, <3>2 DEF Kinds, Moved
      <4>2. c[x]["async"] \in {NoCfqq, Oom, a}
        BY <1>2 DEF Marks
      <4> QED  BY <1>5, <1>6, <4>1, <4>2
    <3> QED  BY <3>1, <3>2
  <2>6. ASSUME NEW x \in Procs
        PROVE  u.cic[x]["sync"] = Oom \/ Path(f, u.cic[x]["sync"]) \subseteq u.sync
    <3>1. CASE x = p /\ kind = "sync"
      <4>1. u.cic[x]["sync"] = q
        BY <1>7, <3>1 DEF Moved
      <4>2. q = Oom \/ u.sync = s.sync \cup {q}
        BY <1>5, <1>6, <3>1
      <4> QED  BY <1>8, <4>1, <4>2
    <3>2. CASE ~(x = p /\ kind = "sync")
      <4>1. u.cic[x]["sync"] = c[x]["sync"]
        BY <1>7, <3>2 DEF Kinds, Moved
      <4>2. c[x]["sync"] = Oom \/ Path(f, c[x]["sync"]) \subseteq s.sync
        BY <1>2 DEF Marks
      <4>3. s.sync \subseteq u.sync
        BY <1>6
      <4> QED  BY <4>1, <4>2, <4>3
    <3> QED  BY <3>1, <3>2
  <2> HIDE DEF f, a
  <2> QED  BY <1>2, <1>6, <1>7, <1>10, <2>1, <2>2, <2>3, <2>4, <2>5, <2>6 DEF Marks, Moved
<1>13. Account(u, u.cic, u.async_cfqq, {})
  BY <1>6, <1>11 DEF Account
<1> QED  BY <1>12, <1>13 DEF Balanced, Counted, u

\* The process moves on along its path, and gives back its reference to the
\* queue it leaves.
LEMMA MergeCounted ==
  ASSUME NEW s, Good(s), Balanced(s), NEW p \in Procs, NEW q \in Queues,
         q = s.cic[p]["sync"], q # Oom, s.new_cfqq[q] # NoCfqq
  PROVE  Balanced(MergeCfqqs(s, p, q))
<1> DEFINE f == s.new_cfqq
           n == f[q]
           c == s.cic
           a == s.async_cfqq
           t == [s EXCEPT !.cic[p]["sync"] = n,
                          !.coop[n] = IF @ = "none" THEN "coop" ELSE @]
           u == PutQueue(t, q)
<1>1. /\ DOMAIN s = Fields /\ f \in Merges /\ NoCycle(f) /\ c \in Cics
      /\ a \in MaybeQueue /\ "sync" \in Kinds
  BY DEF Good, Data, Acyclic, Merges, NoCycle, Cics, Kinds
<1>2. n \in Queues /\ n \in MaybeQueue
  BY <1>1 DEF Merges, MaybeQueue
<1>3. Account(s, c, a, {}) /\ Marks(s, c, a)
  BY DEF Balanced, Counted
<1>4. /\ DOMAIN t = Fields /\ t.cic = [c EXCEPT ![p]["sync"] = n]
      /\ t.new_cfqq = f /\ t.async_cfqq = a /\ t.ref = s.ref
      /\ t.sync = s.sync /\ t.bug = s.bug
      /\ t.coop = [s.coop EXCEPT ![n] = IF s.coop[n] = "none" THEN "coop"
                                        ELSE s.coop[n]]
      /\ t.queued = s.queued /\ t.dispatched = s.dispatched
      /\ t.activated = s.activated /\ t.own = s.own /\ t.firing = s.firing
      /\ t.busy = s.busy /\ t.active = s.active
      /\ t.armed = s.armed /\ t.kick = s.kick
  BY <1>1 DEF Fields
<1>5. MergeCfqqs(s, p, q) = u
  BY DEF MergeCfqqs
<1> HIDE DEF t, f, n, c, a
<1>6. Moved(c, t.cic, p, "sync", n)
  BY <1>1, <1>2, <1>4, CicMoved
<1>7. Good(t)
  <2>1. t.cic \in [Procs -> [Kinds -> MaybeQueue]]
    BY <1>6 DEF Moved, Cics
  <2>2. Data(t)
    BY <1>4, <2>1 DEF Good, Data, f, a
  <2> QED  BY <1>4, <2>2, KeptSelf, Unrelated DEF Kept, f
<1>8. Path(f, q) = {q} \cup Path(f, n) /\ q \notin Path(f, n)
  BY <1>1, PathStep, PathAcyclic DEF n
<1>9. Path(f, q) \subseteq s.sync /\ n \in s.sync
  <2>1. Path(f, q) \subseteq s.sync
    BY <1>3 DEF Marks, c, f
  <2>2. n \in Path(f, n)
    BY <1>1, <1>2, PathClosed, QueueFacts
  <2> QED  BY <1>8, <2>1, <2>2
<1>10. Account(t, t.cic, a, {q})
  <2>7. \A y \in Queues : Allocated(t, y) = Allocated(s, y)
    BY <1>4 DEF Allocated, Of
  <2> SUFFICES ASSUME NEW y \in Queues
               PROVE  s.ref[y] = Cardinality(Claims(f, t.cic, y))
                                 + Cardinality(Allocated(s, y))
                                 + One(y \in {Oom, a}) + One(y \in {q})
    BY <1>4, <2>7 DEF Account
  <2>1. c[p]["sync"] = q
    BY DEF c
  <2>2. Cardinality(Claims(f, t.cic, y))
          = Cardinality(Claims(f, c, y)) - One(y \in Path(f, q))
            + One(y \in Path(f, n))
    BY <1>1, <1>6, <2>1, ClaimsMove
  <2>3. One(y \in Path(f, q)) = One(y \in Path(f, n)) + One(y \in {q})
    BY <1>8 DEF One
  <2>4. /\ One(y \in Path(f, n)) \in {0, 1} /\ One(y \in {q}) \in {0, 1}
        /\ One(y \in {Oom, a}) \in {0, 1} /\ One(y \in {}) = 0
    BY DEF One
  <2>5. /\ Cardinality(Claims(f, c, y)) \in Nat
        /\ Cardinality(Allocated(s, y)) \in Nat
    BY ClaimsFinite, AllocatedFinite
  <2>6. s.ref[y] = Cardinality(Claims(f, c, y)) + Cardinality(Allocated(s, y))
                   + One(y \in {Oom, a}) + One(y \in {})
    BY <1>3 DEF Account, f
  <2> QED  BY <2>2, <2>3, <2>4, <2>5, <2>6
<1>11. Marks(t, t.cic, a)
  <2>1. /\ t.coop \in [Queues -> {"none", "coop", "split"}]
        /\ \A y \in Queues : y # n => t.coop[y] = s.coop[y]
    BY <1>2, <1>3, <1>4 DEF Marks
  <2>2. \A y \in Queues \ s.sync : f[y] = NoCfqq /\ t.coop[y] = "none"
    BY <1>3, <1>9, <2>1 DEF Marks, f
  <2>3. ASSUME NEW x \in Procs
        PROVE  /\ t.cic[x]["async"] \in {NoCfqq, Oom, a}
               /\ \/ t.cic[x]["sync"] = Oom
                  \/ Path(f, t.cic[x]["sync"]) \subseteq s.sync
    <3>1. t.cic[x]["async"] = c[x]["async"]
      BY <1>6 DEF Moved, Kinds
    <3>2. t.cic[x]["sync"] \in {c[x]["sync"], n}
      BY <1>6 DEF Moved, Kinds
    <3> QED  BY <1>3, <1>8, <1>9, <3>1, <3>2 DEF Marks, f
  <2> QED  BY <1>3, <1>4, <1>6, <2>1, <2>2, <2>3 DEF Marks, Moved
<1>12. Counted(u, t.cic, a, {q} \ {q})
  BY <1>7, <1>10, <1>11, PutCounted DEF Counted
<1>13. u.cic = t.cic /\ u.async_cfqq = a /\ {q} \ {q} = {}
  BY <1>4, <1>7, PutFields
<1> HIDE DEF u
<1> QED  BY <1>5, <1>12, <1>13 DEF Balanced

LEMMA SplitCounted ==
  ASSUME NEW s, Good(s), Balanced(s), NEW p \in Procs, NEW q \in Queues,
         q = s.cic[p]["sync"]
  PROVE  LET t == SplitCfqq(s, p, q)
         IN  Balanced(t) /\ (t.cic[p]["sync"] = NoCfqq \/ SameBooks(s, t))
<1> DEFINE d == [s.cic EXCEPT ![p]["sync"] = NoCfqq]
           x == [s EXCEPT !.coop[q] = "none"]
           b == [s EXCEPT !.cic[p]["sync"] = NoCfqq]
           v == PutCooperator(b, q)
           u == PutQueue(v, q)
           a == s.async_cfqq
<1>1. DOMAIN s = Fields /\ s.cic \in Cics /\ "sync" \in Kinds
  BY DEF Good, Data, Kinds, Cics
<1>2. CASE ProcessRefs(s, q) = 1
  <2>1. SplitCfqq(s, p, q) = x
    BY <1>2 DEF SplitCfqq
  <2>2. /\ x.ref = s.ref /\ x.new_cfqq = s.new_cfqq /\ x.sync = s.sync
        /\ x.own = s.own /\ x.cic = s.cic /\ x.async_cfqq = s.async_cfqq
        /\ x.bug = s.bug /\ x.coop = [s.coop EXCEPT ![q] = "none"]
    BY <1>1 DEF Fields
  <2> HIDE DEF x
  <2>3. s.coop \in [Queues -> {"none", "coop", "split"}]
    BY DEF Balanced, Counted, Marks
  <2>4. SameBooks(s, x)
    BY <2>2, <2>3 DEF SameBooks
  <2>5. Balanced(x)
    BY <2>2, <2>4, SameCounted DEF Balanced
  <2> QED  BY <2>1, <2>4, <2>5
<1>3. CASE ProcessRefs(s, q) # 1
  <2>1. SplitCfqq(s, p, q) = u
    BY <1>3 DEF SplitCfqq
  <2>2. /\ DOMAIN b = Fields /\ b.cic = d
        /\ b.new_cfqq = s.new_cfqq /\ b.async_cfqq = s.async_cfqq
        /\ b.ref = s.ref /\ b.sync = s.sync /\ b.coop = s.coop
        /\ b.bug = s.bug
        /\ b.queued = s.queued /\ b.dispatched = s.dispatched
        /\ b.activated = s.activated /\ b.own = s.own /\ b.firing = s.firing
        /\ b.busy = s.busy /\ b.active = s.active
        /\ b.armed = s.armed /\ b.kick = s.kick
    BY <1>1 DEF Fields
  <2> HIDE DEF b
  <2>3. Moved(s.cic, d, p, "sync", NoCfqq)
    BY <1>1, CicMoved, QueueFacts
  <2>4. Counted(s, d, a, Path(s.new_cfqq, q))
    BY <1>1, LeaveCounted DEF Balanced
  <2> HIDE DEF d
  <2>5. Good(b)
    <3>1. b.cic \in [Procs -> [Kinds -> MaybeQueue]]
      BY <2>2, <2>3 DEF Moved, Cics
    <3>2. Data(b)
      BY <2>2, <3>1 DEF Good, Data
    <3> QED  BY <2>2, <3>2, KeptSelf, Unrelated DEF Kept
  <2>6. Counted(b, d, a, Path(b.new_cfqq, q))
    BY <2>2, <2>4, CountedFields
  <2>7. Counted(v, d, a, {q})
    BY <2>5, <2>6, CooperatorCounted
  <2>8. Good(v) /\ v.cic = d /\ v.async_cfqq = a
    BY <2>2, <2>5, CooperatorPuts DEF Puts
  <2> HIDE DEF v
  <2>9. Counted(u, d, a, {q} \ {q})
    BY <2>7, <2>8, PutCounted
  <2>10. u.cic = d /\ u.async_cfqq = a /\ {q} \ {q} = {}
    BY <2>8, PutFields
  <2> HIDE DEF u
  <2> QED  BY <2>1, <2>3, <2>9, <2>10 DEF Balanced, Moved
<1> QED  BY <1>2, <1>3

\* A process without a queue gets one.
LEMMA GetFirstCounted ==
  ASSUME NEW s, Good(s), Balanced(s), NEW p \in Procs, NEW kind \in Kinds,
         NEW fresh \in Queues, s.cic[p][kind] = NoCfqq
  PROVE  Balanced(GetQueue(s, p, kind, fresh))
<1>1. Counted(s, [s.cic EXCEPT ![p][kind] = NoCfqq], s.async_cfqq,
              Path(s.new_cfqq, s.cic[p][kind]))
  BY LeaveCounted DEF Balanced
<1>2. Path(s.new_cfqq, s.cic[p][kind]) = {}
  BY PathNone
<1>3. Counted(s, [s.cic EXCEPT ![p][kind] = NoCfqq], s.async_cfqq, {})
  BY <1>1, <1>2
<1> QED  BY <1>3, GetQueueCounted

\* Only the sync queue of a process is a sync queue.
LEMMA SyncKind ==
  ASSUME NEW s, Balanced(s), NEW p \in Procs, NEW kind \in Kinds,
         s.cic[p][kind] \in s.sync
  PROVE  kind = "sync"
<1>1. /\ s.cic[p]["async"] \in {NoCfqq, Oom, s.async_cfqq}
      /\ s.async_cfqq \notin s.sync /\ s.sync \subseteq Cfqqs
  BY DEF Balanced, Counted, Marks
<1>2. s.cic[p]["async"] \notin s.sync
  BY <1>1, QueueFacts DEF Queues
<1> QED  BY <1>2 DEF Kinds

LEMMA FindQueueCounted ==
  ASSUME NEW s, Good(s), Balanced(s), NEW p \in Procs, NEW kind \in Kinds,
         NEW fresh \in Queues
  PROVE  Balanced(FindQueue(s, p, kind, fresh))
<1> DEFINE q == s.cic[p][kind]
           t == IF s.coop[q] = "split" THEN SplitCfqq(s, p, q) ELSE s
           u == FindQueue(s, p, kind, fresh)
<1>1. q \in MaybeQueue
  BY DEF Good, Data
<1>2. CASE q = NoCfqq
  <2>1. u = GetQueue(s, p, kind, fresh)
    BY <1>2, QueueFacts DEF FindQueue
  <2> QED  BY <1>2, <2>1, GetFirstCounted
<1>3. CASE q = Oom
  <2> DEFINE v == PutQueue(s, q)
             d == [s.cic EXCEPT ![p][kind] = NoCfqq]
  <2>1. u = GetQueue(v, p, kind, fresh)
    BY <1>3, QueueFacts DEF FindQueue
  <2>2. s.new_cfqq \in Merges /\ q \in Queues /\ s.new_cfqq[q] = NoCfqq
    <3>1. s.sync \subseteq Cfqqs
      BY DEF Balanced, Counted, Marks
    <3> QED  BY <1>3, <3>1, QueueFacts DEF Good, Data, Merges, Balanced, Counted, Marks
  <2>3. Counted(s, d, s.async_cfqq, {q})
    <3>1. Path(s.new_cfqq, q) = {q}
      <4> HIDE DEF q
      <4> QED  BY <2>2, PathAlone
    <3>2. Counted(s, d, s.async_cfqq, Path(s.new_cfqq, q))
      BY LeaveCounted DEF Balanced
    <3> HIDE DEF q, d
    <3> QED  BY <3>1, <3>2
  <2> HIDE DEF q
  <2>4. Counted(v, d, s.async_cfqq, {q} \ {q})
    <3> HIDE DEF d
    <3> QED  BY <2>2, <2>3, PutCounted
  <2>5. v.cic = s.cic /\ v.async_cfqq = s.async_cfqq /\ Good(v)
    BY <2>2, PutFields
  <2> HIDE DEF v
  <2>6. {q} \ {q} = {}
    OBVIOUS
  <2>7. Counted(v, [v.cic EXCEPT ![p][kind] = NoCfqq], v.async_cfqq, {})
    BY <2>4, <2>5, <2>6
  <2> QED  BY <2>1, <2>5, <2>7, GetQueueCounted
<1>4. CASE q # NoCfqq /\ q # Oom
  <2>1. q \in Queues
    BY <1>1, <1>4 DEF MaybeQueue
  <2>2. Good(t)
    BY <2>1, SplitKept DEF Kept
  <2>3. u = IF t.cic[p][kind] = NoCfqq THEN GetQueue(t, p, kind, fresh)
            ELSE IF t.new_cfqq[q] # NoCfqq THEN MergeCfqqs(t, p, q) ELSE t
    BY <1>4 DEF FindQueue
  <2>4. Balanced(t) /\ (t.cic[p][kind] = NoCfqq \/ SameBooks(s, t))
    <3>1. CASE s.coop[q] = "split"
      <4>1. q \in s.sync
        <5> HIDE DEF q
        <5> QED  BY <2>1, <3>1 DEF Balanced, Counted, Marks
      <4>2. kind = "sync"
        BY <4>1, SyncKind
      <4> QED  BY <2>1, <3>1, <4>2, SplitCounted
    <3>2. CASE s.coop[q] # "split"
      BY <3>2, SameSelf DEF Balanced
    <3> QED  BY <3>1, <3>2
  <2> HIDE DEF t, u
  <2>5. CASE t.cic[p][kind] = NoCfqq
    BY <2>2, <2>3, <2>4, <2>5, GetFirstCounted DEF u
  <2>6. CASE t.cic[p][kind] # NoCfqq /\ t.new_cfqq[q] # NoCfqq
    <3>1. u = MergeCfqqs(t, p, q)
      BY <2>3, <2>6
    <3>2. t.cic[p][kind] = q
      BY <2>4, <2>6 DEF SameBooks
    <3>3. q \in t.sync
      <4> HIDE DEF q
      <4> QED  BY <2>1, <2>4, <2>6 DEF Balanced, Counted, Marks
    <3>4. kind = "sync"
      <4> HIDE DEF q
      <4> QED  BY <2>4, <3>2, <3>3, SyncKind
    <3> HIDE DEF q
    <3>5. Balanced(MergeCfqqs(t, p, q))
      BY <1>4, <2>1, <2>2, <2>4, <2>6, <3>2, <3>4, MergeCounted
    <3> QED  BY <3>1, <3>5 DEF u
  <2>7. CASE t.cic[p][kind] # NoCfqq /\ t.new_cfqq[q] = NoCfqq
    BY <2>3, <2>4, <2>7 DEF u
  <2> QED  BY <2>5, <2>6, <2>7
<1> QED  BY <1>2, <1>3, <1>4

\* A request takes a reference to its queue ...
LEMMA SetRequestCounted ==
  ASSUME NEW s, Good(s), Balanced(s), NEW p \in Procs, NEW kind \in Kinds,
         NEW fresh \in Queues, NEW r \in Requests, s.own[r] = NoCfqq
  PROVE  Balanced(SetRequest(s, p, kind, fresh, r))
<1> DEFINE t == FindQueue(s, p, kind, fresh)
           q == t.cic[p][kind]
           u == SetRequest(s, p, kind, fresh, r)
           f == t.new_cfqq
           c == t.cic
           a == t.async_cfqq
<1>1. Kept(s, t) /\ q \in Queues /\ Balanced(t)
  BY FindQueueKept, FindQueueCounted
<1>2. u = [t EXCEPT !.own[r] = q, !.ref[q] = @ + 1,
             !.rq_sync = IF kind = "sync" THEN @ \cup {r} ELSE @]
  BY DEF SetRequest
<1> HIDE DEF t, q, u
<1>3. /\ DOMAIN t = Fields /\ t.own \in [Requests -> MaybeQueue]
      /\ t.own[r] = NoCfqq
  BY <1>1 DEF Kept, Good, Data
<1>4. /\ u.cic = c /\ u.own = [t.own EXCEPT ![r] = q]
      /\ u.new_cfqq = f /\ u.async_cfqq = a /\ u.sync = t.sync
      /\ u.coop = t.coop /\ u.bug = t.bug
      /\ u.ref = [t.ref EXCEPT ![q] = t.ref[q] + 1]
  BY <1>2, <1>3 DEF Fields
<1>5. Account(t, c, a, {}) /\ Marks(t, c, a)
  BY <1>1 DEF Balanced, Counted
<1>6. /\ u.own[r] = q /\ \A x \in Requests : x # r => u.own[x] = t.own[x]
      /\ u.ref \in [Queues -> Int] /\ u.ref[q] = t.ref[q] + 1
      /\ t.ref[q] \in Int
      /\ \A y \in Queues : y # q => u.ref[y] = t.ref[y]
  BY <1>1, <1>3, <1>4, <1>5 DEF Marks
<1> HIDE DEF f, c, a
<1>7. ASSUME NEW y \in Queues
      PROVE  u.ref[y] = Cardinality(Claims(f, c, y))
                        + Cardinality(Allocated(u, y))
                        + One(y \in {Oom, a}) + One(y \in {})
  <2>1. t.ref[y] = Cardinality(Claims(f, c, y)) + Cardinality(Allocated(t, y))
                   + One(y \in {Oom, a}) + One(y \in {})
    BY <1>5 DEF Account, f
  <2>2. /\ One(y \in {Oom, a}) \in {0, 1} /\ One(y \in {}) = 0
        /\ Cardinality(Claims(f, c, y)) \in Nat
        /\ Cardinality(Allocated(t, y)) \in Nat
        /\ IsFiniteSet(Allocated(t, y)) /\ IsFiniteSet(Allocated(u, y))
    BY ClaimsFinite, AllocatedFinite DEF One
  <2>3. CASE y = q
    <3>1. Allocated(u, y) = Allocated(t, y) \cup {r} /\ r \notin Allocated(t, y)
      BY <1>3, <1>6, <2>3, QueueFacts DEF Allocated, Of
    <3>2. Cardinality(Allocated(u, y)) = Cardinality(Allocated(t, y)) + 1
      BY <2>2, <3>1, FS_AddElement
    <3> QED  BY <1>6, <2>1, <2>2, <2>3, <3>2
  <2>4. CASE y # q
    <3>1. Allocated(u, y) = Allocated(t, y)
      BY <1>3, <1>6, <2>4, QueueFacts DEF Allocated, Of
    <3> QED  BY <1>6, <2>1, <2>4, <3>1
  <2> QED  BY <2>3, <2>4
<1>8. Account(u, c, a, {})
  BY <1>4, <1>7 DEF Account
<1>9. Marks(u, c, a)
  <2>1. \A y \in t.sync : u.ref[y] # 0
    <3> SUFFICES ASSUME NEW y \in t.sync PROVE u.ref[y] # 0
      OBVIOUS
    <3>1. y \in Queues /\ t.ref[y] # 0
      BY <1>5 DEF Marks, Queues
    <3>2. t.ref[q] >= 0
      <4>1. /\ t.ref[q] = Cardinality(Claims(f, c, q))
                          + Cardinality(Allocated(t, q))
                          + One(q \in {Oom, a}) + One(q \in {})
        BY <1>1, <1>5 DEF Account, f
      <4>2. /\ One(q \in {Oom, a}) \in {0, 1} /\ One(q \in {}) = 0
            /\ Cardinality(Claims(f, c, q)) \in Nat
            /\ Cardinality(Allocated(t, q)) \in Nat
        BY ClaimsFinite, AllocatedFinite DEF One
      <4> QED  BY <4>1, <4>2
    <3> QED  BY <1>6, <3>1, <3>2
  <2> QED  BY <1>4, <1>5, <1>6, <2>1 DEF Marks, f
<1> QED  BY <1>4, <1>8, <1>9 DEF Balanced, Counted, u

\* ... and gives it back.
LEMMA PutRequestCounted ==
  ASSUME NEW s, Good(s), Balanced(s), NEW r \in Requests, r \notin s.queued,
         s.own[r] \in Queues
  PROVE  Balanced(PutRequest(s, r)) /\ PutRequest(s, r).own[r] = NoCfqq
<1> DEFINE t == [s EXCEPT !.own[r] = NoCfqq, !.rq_sync = @ \ {r}]
           q == s.own[r]
           u == PutQueue(t, q)
           c == s.cic
           a == s.async_cfqq
<1>1. DOMAIN s = Fields /\ s.own \in [Requests -> MaybeQueue]
  BY DEF Good, Data
<1>2. /\ DOMAIN t = Fields /\ t.cic = s.cic
      /\ t.own = [s.own EXCEPT ![r] = NoCfqq]
      /\ t.new_cfqq = s.new_cfqq /\ t.async_cfqq = s.async_cfqq
      /\ t.queued = s.queued /\ t.firing = s.firing
      /\ t.busy = s.busy /\ t.active = s.active
      /\ t.armed = s.armed /\ t.kick = s.kick
      /\ t.ref = s.ref /\ t.sync = s.sync /\ t.coop = s.coop
      /\ t.bug = s.bug
  BY <1>1 DEF Fields
<1>3. PutRequest(s, r) = u
  BY DEF PutRequest
<1> HIDE DEF t
<1>4. /\ t.own \in [Requests -> MaybeQueue] /\ t.own[r] = NoCfqq
      /\ \A x \in Requests : x # r => t.own[x] = s.own[x]
  BY <1>1, <1>2, QueueFacts
<1>5. Good(t)
  <2>1. \A x \in s.queued : t.own[x] = s.own[x]
    BY <1>4 DEF Good, Data
  <2>2. Data(t) /\ Acyclic(t)
    BY <1>2, <1>4, <2>1 DEF Good, Data, Acyclic
  <2>3. \A x \in Queues : Empty(t, x) <=> Empty(s, x)
    BY <1>2, <2>1 DEF Empty, Of
  <2>4. Listed(t)
    BY <1>2, <2>3 DEF Good, Listed
  <2> QED  BY <2>2, <2>4 DEF Good
<1> HIDE DEF q
<1>6. q \in Queues
  BY DEF q
<1>7. ASSUME NEW y \in Queues
      PROVE  s.ref[y] = Cardinality(Claims(s.new_cfqq, c, y))
                        + Cardinality(Allocated(t, y))
                        + One(y \in {Oom, a}) + One(y \in {q})
  <2>1. s.ref[y] = Cardinality(Claims(s.new_cfqq, c, y))
                   + Cardinality(Allocated(s, y))
                   + One(y \in {Oom, a}) + One(y \in {})
    BY DEF Balanced, Counted, Account
  <2>2. /\ One(y \in {Oom, a}) \in {0, 1} /\ One(y \in {}) = 0
        /\ Cardinality(Claims(s.new_cfqq, c, y)) \in Nat
        /\ Cardinality(Allocated(s, y)) \in Nat
        /\ IsFiniteSet(Allocated(s, y))
    BY ClaimsFinite, AllocatedFinite DEF One
  <2>3. CASE y = q
    <3>1. Allocated(t, y) = Allocated(s, y) \ {r} /\ r \in Allocated(s, y)
      BY <1>4, <2>3, QueueFacts DEF Allocated, Of, q
    <3>2. Cardinality(Allocated(t, y)) = Cardinality(Allocated(s, y)) - 1
      BY <2>2, <3>1, FS_RemoveElement
    <3>3. One(y \in {q}) = 1
      BY <2>3 DEF One
    <3> HIDE DEF c, a
    <3> QED  BY <2>1, <2>2, <3>2, <3>3
  <2>4. CASE y # q
    <3>1. Allocated(t, y) = Allocated(s, y)
      BY <1>4, <2>4, QueueFacts DEF Allocated, Of, q
    <3>2. One(y \in {q}) = One(y \in {})
      BY <2>4 DEF One
    <3> HIDE DEF c, a
    <3> QED  BY <2>1, <3>1, <3>2
  <2> QED  BY <2>3, <2>4
<1>8. Counted(t, c, a, {q})
  <2>1. Account(t, c, a, {q})
    BY <1>2, <1>7 DEF Account
  <2>2. Marks(t, c, a)
    BY <1>2 DEF Balanced, Counted, Marks
  <2> QED  BY <2>1, <2>2 DEF Counted
<1>9. Counted(u, c, a, {q} \ {q})
  <2> HIDE DEF c, a
  <2> QED  BY <1>5, <1>6, <1>8, PutCounted
<1>10. u.cic = c /\ u.async_cfqq = a /\ u.own = t.own /\ {q} \ {q} = {}
  BY <1>2, <1>5, <1>6, PutFields
<1> HIDE DEF u, c, a
<1> QED  BY <1>3, <1>4, <1>9, <1>10 DEF Balanced

-----------------------------------------------------------------------------
(* Merges.                                                                 *)

\* The references of a sync queue that are not those of requests are the
\* claims of processes.
LEMMA ProcessRefsClaims ==
  ASSUME NEW s, Balanced(s), NEW q \in s.sync
  PROVE  ProcessRefs(s, q) = Cardinality(Claims(s.new_cfqq, s.cic, q))
<1>1. q \in Queues /\ q \notin {Oom, s.async_cfqq}
  BY QueueFacts DEF Balanced, Counted, Marks, Queues
<1>2. One(q \in {Oom, s.async_cfqq}) = 0 /\ One(q \in {}) = 0
  BY <1>1 DEF One
<1>3. s.ref[q] = Cardinality(Claims(s.new_cfqq, s.cic, q))
                 + Cardinality(Allocated(s, q)) + 0 + 0
  BY <1>1, <1>2 DEF Balanced, Counted, Account
<1>4. /\ Cardinality(Claims(s.new_cfqq, s.cic, q)) \in Nat
      /\ Cardinality(Allocated(s, q)) \in Nat
  BY ClaimsFinite, AllocatedFinite
<1> QED  BY <1>3, <1>4 DEF ProcessRefs

\* The processes of one queue claim the other as well from now on.
LEMMA MergeIntoCounted ==
  ASSUME NEW s, Good(s), Balanced(s), NEW a \in s.sync, NEW b \in s.sync,
         a # b, s.new_cfqq[a] = NoCfqq, s.new_cfqq[b] = NoCfqq
  PROVE  Balanced(MergeInto(s, a, b))
<1> DEFINE u == MergeInto(s, a, b)
           f == s.new_cfqq
           g == [f EXCEPT ![a] = b]
           c == s.cic
           pin == s.async_cfqq
           k == Cardinality(Claims(f, c, a))
<1>1. /\ DOMAIN s = Fields /\ f \in Merges /\ c \in Cics
      /\ Account(s, c, pin, {}) /\ Marks(s, c, pin)
  BY DEF Good, Data, Merges, Balanced, Counted, Marks
<1>2. a \in Queues /\ b \in Queues
  BY <1>1 DEF Marks, Queues
<1>3. /\ u.new_cfqq = g /\ u.cic = c /\ u.async_cfqq = pin /\ u.own = s.own
      /\ u.sync = s.sync /\ u.coop = s.coop /\ u.bug = s.bug
      /\ u.ref = [s.ref EXCEPT ![b] = s.ref[b] + ProcessRefs(s, a)]
  BY <1>1 DEF MergeInto, Fields
<1>4. ProcessRefs(s, a) = k /\ k \in Nat
  BY ProcessRefsClaims, ClaimsFinite
<1>5. /\ s.ref \in [Queues -> Int] /\ u.ref \in [Queues -> Int]
      /\ u.ref[b] = s.ref[b] + k
      /\ \A y \in Queues : y # b => u.ref[y] = s.ref[y]
  <2> HIDE DEF u, k
  <2> QED  BY <1>1, <1>2, <1>3, <1>4 DEF Marks
<1>6. ASSUME NEW q \in MaybeQueue
      PROVE  IF a \in Path(f, q)
             THEN b \notin Path(f, q) /\ Path(g, q) = Path(f, q) \cup {b}
             ELSE Path(g, q) = Path(f, q)
  <2> HIDE DEF f
  <2> QED  BY <1>1, <1>2, PathMerge DEF f
<1>7. g \in Merges
  BY <1>1, <1>2, QueueFacts DEF Merges
<1> HIDE DEF u, f, g, c, pin, k
<1>8. \A x \in Procs \X Kinds : c[x[1]][x[2]] \in MaybeQueue
  BY <1>1 DEF Cics
<1>9. \A y \in Queues : y # b => Claims(g, c, y) = Claims(f, c, y)
  BY <1>6, <1>8 DEF Claims
<1>10. /\ Claims(g, c, b) = Claims(f, c, b) \cup Claims(f, c, a)
       /\ Claims(f, c, b) \cap Claims(f, c, a) = {}
  BY <1>6, <1>8 DEF Claims
<1>11. Cardinality(Claims(g, c, b)) = Cardinality(Claims(f, c, b)) + k
  <2>1. IsFiniteSet(Claims(f, c, a)) /\ IsFiniteSet(Claims(f, c, b))
    BY ClaimsFinite
  <2>2. Cardinality({}) = 0 /\ Cardinality(Claims(f, c, b)) \in Nat
    BY FS_EmptySet, ClaimsFinite
  <2>3. Cardinality(Claims(f, c, b) \cup Claims(f, c, a))
          = Cardinality(Claims(f, c, b)) + Cardinality(Claims(f, c, a))
            - Cardinality(Claims(f, c, b) \cap Claims(f, c, a))
    BY <2>1, FS_Union
  <2>4. /\ Cardinality(Claims(f, c, b) \cup Claims(f, c, a))
             = Cardinality(Claims(g, c, b))
        /\ Cardinality(Claims(f, c, b) \cap Claims(f, c, a)) = 0
    BY <1>10, <2>2
  <2>5. Cardinality(Claims(f, c, a)) = k
    BY DEF k
  <2> QED  BY <1>4, <2>2, <2>3, <2>4, <2>5
<1>12. ASSUME NEW y \in Queues
       PROVE  u.ref[y] = Cardinality(Claims(g, c, y))
                         + Cardinality(Allocated(u, y))
                         + One(y \in {Oom, pin}) + One(y \in {})
  <2>1. s.ref[y] = Cardinality(Claims(f, c, y)) + Cardinality(Allocated(s, y))
                   + One(y \in {Oom, pin}) + One(y \in {})
    BY <1>1 DEF Account, f
  <2>2. Allocated(u, y) = Allocated(s, y)
    BY <1>3 DEF Allocated, Of
  <2>3. CASE y = b
    <3>1. /\ One(y \in {Oom, pin}) \in {0, 1} /\ One(y \in {}) \in {0, 1}
          /\ Cardinality(Claims(f, c, y)) \in Nat
          /\ Cardinality(Allocated(s, y)) \in Nat
      BY ClaimsFinite, AllocatedFinite DEF One
    <3> QED  BY <1>4, <1>5, <1>11, <2>1, <2>2, <2>3, <3>1
  <2>4. CASE y # b
    BY <1>5, <1>9, <2>1, <2>2, <2>4
  <2> QED  BY <2>3, <2>4
<1>13. Account(u, c, pin, {})
  BY <1>3, <1>12 DEF Account
<1>14. Marks(u, c, pin)
  <2>1. \A y \in Queues \ s.sync : g[y] = NoCfqq
    <3>1. \A y \in Queues \ s.sync : f[y] = NoCfqq /\ y # a
      BY <1>1 DEF Marks, f
    <3> QED  BY <1>1, <1>2, <3>1 DEF g, Merges
  <2>2. \A y \in s.sync : u.ref[y] # 0
    <3> SUFFICES ASSUME NEW y \in s.sync PROVE u.ref[y] # 0
      OBVIOUS
    <3>1. y \in Queues /\ s.ref[y] # 0
      BY <1>1 DEF Marks, Queues
    <3>2. s.ref[b] \in Nat
      <4>1. s.ref[b] = Cardinality(Claims(f, c, b)) + Cardinality(Allocated(s, b))
                       + One(b \in {Oom, pin}) + One(b \in {})
        BY <1>1, <1>2 DEF Account, f
      <4>2. /\ One(b \in {Oom, pin}) \in {0, 1} /\ One(b \in {}) \in {0, 1}
            /\ Cardinality(Claims(f, c, b)) \in Nat
            /\ Cardinality(Allocated(s, b)) \in Nat
        BY ClaimsFinite, AllocatedFinite DEF One
      <4> QED  BY <4>1, <4>2
    <3> QED  BY <1>4, <1>5, <3>1, <3>2
  <2>3. ASSUME NEW p \in Procs
        PROVE  /\ c[p]["async"] \in {NoCfqq, Oom, pin}
               /\ c[p]["sync"] = Oom \/ Path(g, c[p]["sync"]) \subseteq s.sync
    <3>1. c[p]["sync"] \in MaybeQueue
      BY <1>1 DEF Cics, Kinds
    <3>2. /\ c[p]["async"] \in {NoCfqq, Oom, pin}
          /\ c[p]["sync"] = Oom \/ Path(f, c[p]["sync"]) \subseteq s.sync
      BY <1>1 DEF Marks, f
    <3> QED  BY <1>6, <3>1, <3>2
  <2> QED  BY <1>1, <1>3, <1>5, <2>1, <2>2, <2>3 DEF Marks
<1> QED  BY <1>3, <1>13, <1>14 DEF Balanced, Counted, u

LEMMA SetupMergeCounted ==
  ASSUME NEW s, Good(s), Balanced(s), NEW q \in s.sync, NEW n \in s.sync,
         q # n, s.new_cfqq[q] = NoCfqq
  PROVE  Balanced(SetupMerge(s, q, n))
<1> DEFINE last == CHOOSE e \in Chain(s, n) \cup {n} : s.new_cfqq[e] = NoCfqq
           u == SetupMerge(s, q, n)
           f == s.new_cfqq
           c == s.cic
           pin == s.async_cfqq
<1>1. /\ f \in Merges /\ c \in Cics /\ Marks(s, c, pin)
  BY DEF Good, Data, Merges, Balanced, Counted, Marks
<1>2. q \in Queues /\ n \in Queues
  BY <1>1 DEF Marks, Queues
<1>3. last \in Chain(s, n) \cup {n} /\ s.new_cfqq[last] = NoCfqq
  BY <1>2, ChainEnds
<1>4. \/ u = s
      \/ /\ q \notin Chain(s, n) /\ ProcessRefs(s, n) # 0
         /\ u \in {MergeInto(s, q, last), MergeInto(s, last, q)}
  BY DEF SetupMerge
<1> HIDE DEF last, u
<1>5. CASE u = s
  BY <1>5 DEF u
<1>6. CASE /\ q \notin Chain(s, n) /\ ProcessRefs(s, n) # 0
           /\ u \in {MergeInto(s, q, last), MergeInto(s, last, q)}
  <2>1. q # last /\ last \in Path(f, n)
    BY <1>2, <1>3, <1>6, ChainPath
  <2>2. \E x \in Procs \X Kinds : n \in Path(f, c[x[1]][x[2]])
    <3>1. Cardinality(Claims(f, c, n)) # 0
      BY <1>6, ProcessRefsClaims
    <3>2. Claims(f, c, n) # {}
      BY <3>1, FS_EmptySet
    <3> QED  BY <3>2 DEF Claims
  <2>3. PICK p \in Procs, kind \in Kinds : n \in Path(f, c[p][kind])
    BY <2>2
  <2>4. \A y \in {NoCfqq, Oom, pin} : n \notin Path(f, y)
    <3> SUFFICES ASSUME NEW y \in {Oom, pin}, y # NoCfqq PROVE n \notin Path(f, y)
      BY PathNone
    <3>1. y \in Queues /\ y \notin s.sync
      BY <1>1, QueueFacts DEF Marks, MaybeQueue
    <3>2. Path(f, y) = {y}
      BY <1>1, <3>1, PathAlone DEF Marks
    <3> QED  BY <3>1, <3>2
  <2>5. Path(f, c[p][kind]) \subseteq s.sync
    BY <1>1, <2>3, <2>4 DEF Marks, Kinds
  <2>6. last \in s.sync
    <3>1. c[p][kind] \in MaybeQueue
      BY <1>1 DEF Cics
    <3>2. Path(f, n) \subseteq Path(f, c[p][kind])
      BY <1>1, <2>3, <3>1, PathClosed
    <3> QED  BY <2>1, <2>5, <3>2
  <2>7. Balanced(MergeInto(s, q, last)) /\ Balanced(MergeInto(s, last, q))
    BY <1>3, <2>1, <2>6, MergeIntoCounted
  <2> QED  BY <1>6, <2>7 DEF u
<1> QED  BY <1>4, <1>5, <1>6

-----------------------------------------------------------------------------
(* What dispatching, timers and completions do leaves the books alone.     *)

LEMMA SameBalanced ==
  ASSUME NEW s, NEW t, Balanced(s), SameBooks(s, t)
  PROVE  Balanced(t)
<1>1. Counted(t, s.cic, s.async_cfqq, {})
  BY SameCounted DEF Balanced
<1>2. t.cic = s.cic /\ t.async_cfqq = s.async_cfqq
  BY DEF SameBooks
<1> QED  BY <1>1, <1>2 DEF Balanced

LEMMA OtherFields ==
  ASSUME NEW s, NEW t, Balanced(s), t.ref = s.ref, t.new_cfqq = s.new_cfqq,
         t.sync = s.sync, t.own = s.own, t.cic = s.cic, t.bug = s.bug,
         t.async_cfqq = s.async_cfqq, t.coop = s.coop
  PROVE  Balanced(t)
<1>1. SameBooks(s, t)
  BY DEF SameBooks, Balanced, Counted, Marks
<1> QED  BY <1>1, SameBalanced

LEMMA ExpirationsBalanced ==
  ASSUME NEW s, Good(s), Balanced(s), NEW e \in Expirations(s)
  PROVE  Balanced(e) /\ Balanced(ScheduleDispatch(e))
<1>1. SameBooks(s, s)
  BY SameSelf DEF Balanced
<1>2. SameBooks(s, e) /\ SameBooks(s, ScheduleDispatch(e))
  BY <1>1, ExpirationsSame, KickedSame
<1> QED  BY <1>2, SameBalanced

LEMMA ScheduleBalanced ==
  ASSUME NEW s, Good(s), Balanced(s)
  PROVE  Balanced(ScheduleDispatch(s))
<1>1. SameBooks(s, s)
  BY SameSelf DEF Balanced
<1> QED  BY <1>1, ScheduleSame, SameBalanced

\* A BUG_ON whose condition does not hold.
LEMMA NoBugBalanced ==
  ASSUME NEW s, Good(s), Balanced(s), NEW P, P = FALSE
  PROVE  Balanced(BugIf(P, s))
<1> DEFINE t == BugIf(P, s)
<1>1. DOMAIN s = Fields /\ s.bug = FALSE
  BY DEF Good, Data, Balanced, Counted, Marks
<1>2. /\ t.ref = s.ref /\ t.new_cfqq = s.new_cfqq
      /\ t.sync = s.sync /\ t.own = s.own /\ t.cic = s.cic
      /\ t.async_cfqq = s.async_cfqq /\ t.coop = s.coop
  BY <1>1 DEF BugIf, Fields
<1>3. t.bug = s.bug
  BY <1>1 DEF BugIf, Fields
<1> HIDE DEF t
<1>4. Balanced(t)
  BY <1>2, <1>3, OtherFields
<1> QED  BY <1>4 DEF t

LEMMA SetActiveBalanced ==
  ASSUME NEW s, Good(s), Balanced(s), NEW q
  PROVE  Balanced(SetActive(s, q))
<1> DEFINE t == SetActive(s, q)
<1>1. DOMAIN s = Fields
  BY DEF Good, Data
<1>2. /\ t.ref = s.ref /\ t.new_cfqq = s.new_cfqq
      /\ t.sync = s.sync /\ t.own = s.own /\ t.cic = s.cic /\ t.bug = s.bug
      /\ t.async_cfqq = s.async_cfqq /\ t.coop = s.coop
  BY <1>1 DEF SetActive, DelTimer, Fields
<1> HIDE DEF t
<1>3. Balanced(t)
  BY <1>2, OtherFields
<1> QED  BY <1>3 DEF t

\* cfq_choose_cfqg finds a group: the list is not empty.
LEMMA NewQueueBalanced ==
  ASSUME NEW s, Good(s), Balanced(s), s.active = NoCfqq, s.busy # {},
         NEW o \in NewQueue(s)
  PROVE  Balanced(o.s)
<1>1. s.queued # {}
  <2>1. PICK q \in s.busy : ~Empty(s, q)
    BY DEF Good, Listed
  <2> QED  BY <2>1 DEF Empty, Of
<1>2. PICK q \in s.busy : o = Outcome(SetActive(s, q), q)
  BY <1>1 DEF NewQueue
<1>3. o.s = SetActive(s, q)
  BY <1>2 DEF Outcome
<1> QED  BY <1>3, SetActiveBalanced

\* What an expiry leaves: with a request queued, a list that is not empty.
LEMMA ExpireAndNewBalanced ==
  ASSUME NEW s, Good(s), Balanced(s), s.queued # {}, NEW o \in ExpireAndNew(s)
  PROVE  Balanced(o.s)
<1>1. PICK e \in Expirations(s) : o \in NewQueue(e)
  BY DEF ExpireAndNew
<1>2. Good(e) /\ e.active = NoCfqq /\ e.queued = s.queued
  BY ExpirationsFields
<1>3. Balanced(e) /\ e.busy # {}
  BY <1>2, ExpirationsBalanced, NothingQueued
<1> QED  BY <1>1, <1>2, <1>3, NewQueueBalanced

LEMMA NothingBalanced ==
  ASSUME NEW s, Balanced(s), NEW o \in Nothing(s)
  PROVE  Balanced(o.s)
BY DEF Nothing, Outcome

LEMMA CooperateBalanced ==
  ASSUME NEW s, Good(s), Balanced(s), s.active # NoCfqq,
         NEW p \in Cooperators(s, s.active), NEW o \in Cooperate(s, p)
  PROVE  Balanced(o.s)
<1>1. p \in s.sync /\ s.active \in s.sync /\ p # s.active
  BY DEF Cooperators
<1>2. p \in Queues /\ s.active \in Queues
  BY <1>1 DEF Balanced, Counted, Marks, Queues
<1> DEFINE m == IF s.new_cfqq[s.active] = NoCfqq THEN SetupMerge(s, s.active, p)
                ELSE s
<1>3. Good(m) /\ Balanced(m)
  BY <1>1, <1>2, SetupMergeKept, SetupMergeCounted DEF Kept
<1>4. PICK e \in Expirations(m) : o = Outcome(SetActive(e, p), p)
  BY DEF Cooperate
<1> HIDE DEF m
<1>5. Good(e) /\ Balanced(e)
  BY <1>3, ExpirationsFields, ExpirationsBalanced
<1>6. o.s = SetActive(e, p)
  BY <1>4 DEF Outcome
<1> QED  BY <1>5, <1>6, SetActiveBalanced

LEMMA SelectBalanced ==
  ASSUME NEW s, Good(s), Balanced(s), s.busy # {}, NEW o \in Select(s)
  PROVE  Balanced(o.s)
<1> DEFINE q == s.active
<1>1. CASE q = NoCfqq
  BY <1>1, NewQueueBalanced DEF Select
<1>2. CASE o \in Nothing(s) \/ o = Outcome(s, q)
  BY <1>2, NothingBalanced DEF Outcome
<1>3. CASE s.queued # {} /\ o \in ExpireAndNew(s)
  BY <1>3, ExpireAndNewBalanced
<1>4. CASE q # NoCfqq /\ \E p \in Cooperators(s, q) : o \in Cooperate(s, p)
  BY <1>4, CooperateBalanced
<1>5. o \in CheckGroupIdle(s) => o \in ExpireAndNew(s) \cup Nothing(s)
  BY DEF CheckGroupIdle
<1>6. o \in IdleOrNew(s) \cup SliceUsed(s)
        => o \in ExpireAndNew(s) \cup Nothing(s)
  BY <1>5 DEF IdleOrNew, SliceUsed
<1> QED  BY <1>1, <1>2, <1>3, <1>4, <1>6 DEF Select

LEMMA DispatchBalanced ==
  ASSUME NEW s, Good(s), Balanced(s), s.active # NoCfqq,
         NEW r \in Of(s, s.active, s.queued),
         NEW t \in cfq_dispatch_request(s, s.active, r)
  PROVE  Balanced(t)
<1> DEFINE u == [s EXCEPT !.queued = @ \ {r}, !.dispatched = @ \cup {r},
                          !.must_dispatch = FALSE]
<1>1. DOMAIN s = Fields
  BY DEF Good, Data
<1>2. /\ u.ref = s.ref /\ u.new_cfqq = s.new_cfqq
      /\ u.sync = s.sync /\ u.own = s.own /\ u.cic = s.cic /\ u.bug = s.bug
      /\ u.async_cfqq = s.async_cfqq /\ u.coop = s.coop
  BY <1>1 DEF Fields
<1>3. u \in cfq_dispatch_request(s, s.active, r)
      /\ (t = u \/ t \in Expirations(u))
  BY DEF cfq_dispatch_request
<1> HIDE DEF u
<1>4. Good(u) /\ Balanced(u)
  BY <1>2, <1>3, DispatchFields, OtherFields
<1> QED  BY <1>3, <1>4, ExpirationsBalanced

\* The queue of a request that is enqueued is on the list after an expiry.
LEMMA EnqueuedBalanced ==
  ASSUME NEW s, Good(s), Balanced(s), NEW c \in Ctx, NEW r \in s.queued,
         \/ Preempts(c, s, r) \/ EndsWait(c, s) \/ Step(s)
  PROVE  \E t : /\ Good(t) /\ Balanced(t) /\ Step(t)
                /\ t.queued = s.queued /\ t.dispatched = s.dispatched
                /\ t.own = s.own
<1>1. DOMAIN s = Fields
  BY DEF Good, Data
<1>2. CASE Step(s)
  BY <1>2
<1>3. ASSUME NEW e \in Expirations(s), Step(BugIf(s.own[r] \notin e.busy, e))
      PROVE  \E t : /\ Good(t) /\ Balanced(t) /\ Step(t)
                    /\ t.queued = s.queued /\ t.dispatched = s.dispatched
                    /\ t.own = s.own
  <2> DEFINE P == s.own[r] \notin e.busy
             t == BugIf(P, e)
  <2>1. /\ Good(e) /\ e.queued = s.queued /\ e.dispatched = s.dispatched
        /\ e.own = s.own /\ Balanced(e)
    BY ExpirationsFields, ExpirationsBalanced
  <2>2. P = FALSE
    <3>1. s.own[r] \in Queues /\ ~Empty(e, s.own[r])
      BY <2>1 DEF Good, Data, Empty, Of
    <3>2. s.own[r] \in e.busy
      BY <2>1, <3>1 DEF Good, Listed
    <3> QED  BY <3>2
  <2>3. Step(t)
    BY <1>3
  <2> HIDE DEF P
  <2>4. /\ Good(t) /\ t.queued = e.queued /\ t.dispatched = e.dispatched
        /\ t.own = e.own
    BY <2>1, BugFields
  <2>5. Balanced(t)
    BY <2>1, <2>2, NoBugBalanced
  <2> HIDE DEF t
  <2> QED  BY <2>1, <2>3, <2>4, <2>5
<1>4. CASE Step([DelTimer(s) EXCEPT !.wait_request = FALSE])
  <2> DEFINE t == [DelTimer(s) EXCEPT !.wait_request = FALSE]
  <2>1. /\ DOMAIN t = Fields /\ t.active = s.active /\ t.cic = s.cic
        /\ t.new_cfqq = s.new_cfqq /\ t.async_cfqq = s.async_cfqq
        /\ t.queued = s.queued /\ t.dispatched = s.dispatched
        /\ t.own = s.own /\ t.firing = s.firing /\ t.busy = s.busy
        /\ t.kick = s.kick /\ t.armed = (s.armed /\ s.firing)
        /\ t.ref = s.ref /\ t.sync = s.sync /\ t.bug = s.bug
        /\ t.coop = s.coop
    BY <1>1 DEF DelTimer, Fields
  <2>2. Step(t)
    BY <1>4
  <2> HIDE DEF t
  <2>3. Data(t) /\ Acyclic(t) /\ Listed(t)
    BY <2>1, SameListed DEF Good, Data, Acyclic
  <2>4. Balanced(t)
    BY <2>1, OtherFields
  <2> QED  BY <2>1, <2>2, <2>3, <2>4 DEF Good
<1>5. CASE Step([s EXCEPT !.must_dispatch = TRUE])
  <2> DEFINE t == [s EXCEPT !.must_dispatch = TRUE]
  <2>1. /\ DOMAIN t = Fields /\ t.active = s.active /\ t.cic = s.cic
        /\ t.new_cfqq = s.new_cfqq /\ t.async_cfqq = s.async_cfqq
        /\ t.queued = s.queued /\ t.dispatched = s.dispatched
        /\ t.own = s.own /\ t.firing = s.firing /\ t.busy = s.busy
        /\ t.kick = s.kick /\ t.armed = s.armed
        /\ t.ref = s.ref /\ t.sync = s.sync /\ t.bug = s.bug
        /\ t.coop = s.coop
    BY <1>1 DEF Fields
  <2>2. Step(t)
    BY <1>5
  <2> HIDE DEF t
  <2>3. Data(t) /\ Acyclic(t) /\ Listed(t)
    BY <2>1, SameListed DEF Good, Data, Acyclic
  <2>4. Balanced(t)
    BY <2>1, OtherFields
  <2> QED  BY <2>1, <2>2, <2>3, <2>4 DEF Good
<1> QED  BY <1>2, <1>3, <1>4, <1>5 DEF Preempts, EndsWait

\* After the expiry, every queue on the list has requests to give.
LEMMA ForcedBalanced ==
  ASSUME NEW s, Good(s), Balanced(s), NEW seeky
  PROVE  Balanced(Forced(s, seeky))
<1> DEFINE x == DelTimer(s)
           seek == s.active \in seeky
           e == IF s.active = NoCfqq THEN s ELSE Expire(s, seek)
           split == [q \in Queues |->
                       IF e.coop[q] = "coop" /\ q \in e.busy \cap seeky
                       THEN "split" ELSE e.coop[q]]
           u == [e EXCEPT !.armed = IF e.busy = {} THEN @ ELSE x.armed,
                  !.dispatched = @ \cup s.queued, !.queued = {}, !.busy = {},
                  !.coop = split]
           P == \E q \in e.busy : Empty(e, q)
           t == BugIf(P, u)
<1>1. seek \in BOOLEAN
  OBVIOUS
<1>2. Forced(s, seeky) = t
  BY DEF Forced
<1> HIDE DEF seek, x
<1>3. Good(e) /\ e.active = NoCfqq /\ Balanced(e)
  <2>1. CASE s.active = NoCfqq
    BY <2>1
  <2>2. CASE s.active # NoCfqq
    <3>1. Good(Expire(s, seek)) /\ Expire(s, seek).active = NoCfqq
      BY <1>1, <2>2, ExpireKeeps
    <3>2. Expire(s, seek) \in Expirations(s)
      BY <1>1, <2>2 DEF Expirations
    <3> QED  BY <2>2, <3>1, <3>2, ExpirationsBalanced
  <2> QED  BY <2>1, <2>2
<1> HIDE DEF e
<1>4. P = FALSE
  BY <1>3 DEF Good, Listed
<1>5. DOMAIN e = Fields /\ e.bug = FALSE
      /\ e.coop \in [Queues -> {"none", "coop", "split"}]
  BY <1>3 DEF Good, Data, Balanced, Counted, Marks
<1>6. /\ DOMAIN u = Fields /\ u.ref = e.ref /\ u.new_cfqq = e.new_cfqq
      /\ u.sync = e.sync /\ u.own = e.own /\ u.cic = e.cic /\ u.bug = e.bug
      /\ u.async_cfqq = e.async_cfqq /\ u.coop = split
  BY <1>5 DEF Fields
<1> HIDE DEF P, u
<1>7. /\ t.ref = u.ref /\ t.new_cfqq = u.new_cfqq
      /\ t.sync = u.sync /\ t.own = u.own /\ t.cic = u.cic
      /\ t.async_cfqq = u.async_cfqq /\ t.coop = u.coop
  BY <1>6 DEF BugIf, Fields
<1>8. t.bug = e.bug
  BY <1>4, <1>5, <1>6 DEF BugIf, Fields
<1> HIDE DEF t
<1>9. /\ split \in [Queues -> {"none", "coop", "split"}]
      /\ \A q \in Queues : e.coop[q] = "none" => split[q] = "none"
  BY <1>5
<1> HIDE DEF split
<1>10. SameBooks(e, t)
  BY <1>6, <1>7, <1>8, <1>9 DEF SameBooks
<1> QED  BY <1>2, <1>3, <1>10, SameBalanced

LEMMA SliceBalanced ==
  ASSUME NEW s, Good(s), Balanced(s), NEW r, NEW t \in SliceGoesOn(s, r)
  PROVE  Balanced(t)
<1> DEFINE a == [s EXCEPT !.slice_new = FALSE]
           b == [a EXCEPT !.wait_busy = TRUE]
<1>1. PICK w \in {a, b} :
        \/ t = w \/ t \in Expirations(w) \/ t \in ArmSliceTimer(w)
  <2> DEFINE empty == Empty(s, s.active)
             waits == IF empty /\ s.busy \subseteq {s.active}
                      THEN {a, b} ELSE {a}
  <2>1. t \in UNION {{w} \cup Expirations(w) \cup
                     (IF r \in s.rq_sync /\ empty THEN ArmSliceTimer(w) ELSE {}) :
                     w \in waits}
    BY DEF SliceGoesOn
  <2>2. waits \subseteq {a, b}
    OBVIOUS
  <2> HIDE DEF a, b, empty, waits
  <2> QED  BY <2>1, <2>2
<1>2. DOMAIN s = Fields
  BY DEF Good, Data
<1>3. Good(w) /\ Balanced(w)
  <2>1. /\ DOMAIN w = Fields /\ w.active = s.active /\ w.cic = s.cic
        /\ w.new_cfqq = s.new_cfqq /\ w.async_cfqq = s.async_cfqq
        /\ w.queued = s.queued /\ w.own = s.own
        /\ w.firing = s.firing /\ w.busy = s.busy /\ w.kick = s.kick
        /\ w.armed = s.armed /\ w.ref = s.ref /\ w.sync = s.sync
        /\ w.bug = s.bug /\ w.coop = s.coop
    BY <1>2 DEF Fields
  <2> HIDE DEF a, b
  <2>2. Data(w) /\ Acyclic(w) /\ Listed(w)
    BY <2>1, SameListed DEF Good, Data, Acyclic
  <2>3. Balanced(w)
    BY <2>1, OtherFields
  <2> QED  BY <2>2, <2>3 DEF Good
<1> HIDE DEF a, b
<1>4. CASE t \in ArmSliceTimer(w)
  <2>1. t = [w EXCEPT !.wait_request = TRUE, !.armed = TRUE]
    BY <1>4 DEF ArmSliceTimer
  <2>2. DOMAIN w = Fields
    BY <1>3 DEF Good, Data
  <2>3. /\ t.ref = w.ref /\ t.new_cfqq = w.new_cfqq
        /\ t.sync = w.sync /\ t.own = w.own /\ t.cic = w.cic
        /\ t.bug = w.bug /\ t.async_cfqq = w.async_cfqq /\ t.coop = w.coop
    BY <2>1, <2>2 DEF Fields
  <2> QED  BY <1>3, <2>3, OtherFields
<1> QED  BY <1>1, <1>3, <1>4, ExpirationsBalanced

LEMMA TimedOutBalanced ==
  ASSUME NEW s, Good(s), Balanced(s), NEW t \in TimedOut(s)
  PROVE  Balanced(t)
<1>1. \/ t = s \/ t = ScheduleDispatch(s)
      \/ \E e \in Expirations(s) : t = ScheduleDispatch(e)
  BY DEF TimedOut, KickAfter
<1> QED  BY <1>1, ScheduleBalanced, ExpirationsBalanced

\* cfq_exit_queue: the pin of the shared async queue is put, when no process
\* has a queue any more.
LEMMA PinnedBalanced ==
  ASSUME NEW s, Good(s), Balanced(s),
         \A p \in Procs, k \in Kinds : s.cic[p][k] = NoCfqq
  PROVE  Balanced(PutPinned(s)) /\ PutPinned(s).own = s.own
<1> DEFINE a == s.async_cfqq
           c == s.cic
           t == PutQueue(s, a)
           u == PutPinned(s)
<1>1. CASE a = NoCfqq
  BY <1>1 DEF PutPinned
<1>2. CASE a # NoCfqq
  <2>1. u = [t EXCEPT !.async_cfqq = NoCfqq]
    BY <1>2 DEF PutPinned
  <2>2. Account(s, c, a, {}) /\ Marks(s, c, a)
    BY DEF Balanced, Counted
  <2>3. a \in Queues /\ a # Oom
    BY <1>2, <2>2 DEF Marks, MaybeQueue
  <2> HIDE DEF u, t, a, c
  <2>4. Account(s, c, NoCfqq, {a})
    <3> SUFFICES ASSUME NEW q \in Queues
                 PROVE  s.ref[q] = Cardinality(Claims(s.new_cfqq, c, q))
                                   + Cardinality(Allocated(s, q))
                                   + One(q \in {Oom, NoCfqq}) + One(q \in {a})
      BY DEF Account
    <3>1. s.ref[q] = Cardinality(Claims(s.new_cfqq, c, q))
                     + Cardinality(Allocated(s, q))
                     + One(q \in {Oom, a}) + One(q \in {})
      BY <2>2 DEF Account
    <3>2. One(q \in {Oom, a}) + One(q \in {})
            = One(q \in {Oom, NoCfqq}) + One(q \in {a})
      BY <2>3, QueueFacts DEF One
    <3>3. /\ One(q \in {Oom, a}) \in {0, 1} /\ One(q \in {}) \in {0, 1}
          /\ One(q \in {Oom, NoCfqq}) \in {0, 1} /\ One(q \in {a}) \in {0, 1}
          /\ Cardinality(Claims(s.new_cfqq, c, q)) \in Nat
          /\ Cardinality(Allocated(s, q)) \in Nat
      BY ClaimsFinite, AllocatedFinite DEF One
    <3> QED  BY <3>1, <3>2, <3>3
  <2>5. Marks(s, c, NoCfqq)
    <3>1. \A p \in Procs : c[p]["async"] = NoCfqq /\ c[p]["sync"] = NoCfqq
      BY DEF Kinds, c
    <3>2. NoCfqq \in MaybeQueue \ (s.sync \cup {Oom})
      BY <2>2, QueueFacts DEF Marks, Queues
    <3> QED  BY <2>2, <3>1, <3>2 DEF Marks
  <2>6. Counted(t, c, NoCfqq, {a} \ {a})
    BY <2>3, <2>4, <2>5, PutCounted DEF Counted, t
  <2>7. {a} \ {a} = {}
    OBVIOUS
  <2>8. Good(t) /\ t.cic = c /\ t.own = s.own
    BY <2>3, PutFields DEF t, c
  <2>9. DOMAIN t = Fields
    BY <2>8 DEF Good, Data
  <2>10. /\ u.ref = t.ref /\ u.new_cfqq = t.new_cfqq
         /\ u.sync = t.sync /\ u.own = t.own /\ u.cic = t.cic
         /\ u.bug = t.bug /\ u.coop = t.coop /\ u.async_cfqq = NoCfqq
    BY <2>1, <2>9 DEF Fields
  <2>11. Counted(u, c, NoCfqq, {})
    BY <2>6, <2>7, <2>10, CountedFields
  <2> QED  BY <2>8, <2>10, <2>11 DEF Balanced, u
<1> QED  BY <1>1, <1>2

LEMMA NewDataBalanced == Balanced(NewCfqData)
<1> DEFINE n == NewCfqData
           f == n.new_cfqq
<1>1. /\ n.ref = [q \in Queues |-> IF q = Oom THEN 1 ELSE 0]
      /\ n.new_cfqq = [q \in Queues |-> NoCfqq]
      /\ n.sync = {} /\ n.coop = [q \in Queues |-> "none"]
      /\ n.cic = [p \in Procs |-> [k \in {"sync", "async"} |-> NoCfqq]]
      /\ n.async_cfqq = NoCfqq
      /\ n.own = [r \in Requests |-> NoCfqq] /\ n.bug = FALSE
  BY DEF NewCfqData
<1> HIDE DEF n
<1>2. n.cic \in Cics /\ \A p \in Procs, k \in Kinds : n.cic[p][k] = NoCfqq
  <2>1. [k \in {"sync", "async"} |-> NoCfqq] \in [Kinds -> MaybeQueue]
    BY QueueFacts DEF Kinds
  <2> QED  BY <1>1, <2>1 DEF Cics, Kinds
<1>3. ASSUME NEW q \in Queues
      PROVE  n.ref[q] = Cardinality(Claims(f, n.cic, q))
                        + Cardinality(Allocated(n, q))
                        + One(q \in {Oom, n.async_cfqq}) + One(q \in {})
  <2>1. Claims(f, n.cic, q) = {}
    <3> SUFFICES ASSUME NEW x \in Procs \X Kinds, q \in Path(f, n.cic[x[1]][x[2]])
                 PROVE  FALSE
      BY DEF Claims
    <3>1. n.cic[x[1]][x[2]] = NoCfqq
      BY <1>2
    <3> QED  BY <3>1, PathNone
  <2>2. Allocated(n, q) = {}
    BY <1>1, QueueFacts DEF Allocated, Of
  <2>3. Cardinality({}) = 0
    BY FS_EmptySet
  <2>4. One(q \in {Oom, n.async_cfqq}) = n.ref[q] /\ One(q \in {}) = 0
        /\ n.ref[q] \in Int
    BY <1>1, QueueFacts DEF One
  <2> QED  BY <2>1, <2>2, <2>3, <2>4
<1>4. Account(n, n.cic, n.async_cfqq, {})
  BY <1>3 DEF Account
<1>5. Marks(n, n.cic, n.async_cfqq)
  <2>1. \A p \in Procs :
          /\ n.cic[p]["async"] = NoCfqq
          /\ Path(n.new_cfqq, n.cic[p]["sync"]) = {}
    BY <1>2, PathNone DEF Kinds
  <2> QED  BY <1>1, <1>2, <2>1, QueueFacts DEF Marks
<1> QED  BY <1>4, <1>5 DEF Balanced, Counted, n

-----------------------------------------------------------------------------
(* The books are balanced after every step.                                *)

\* A request that is nowhere has no queue.
Free ==
  \A r \in Requests :
    r \notin plugged \cup cfqd.queued \cup cfqd.dispatched =>
      cfqd.own[r] = NoCfqq

Books == Balanced(cfqd) /\ Free

LEMMA StepBalanced ==
  ASSUME NEW t, Good(t), Balanced(t), Step(t),
         \A r \in Requests :
           r \notin plugged' \cup t.queued \cup t.dispatched =>
             t.own[r] = NoCfqq
  PROVE  Books'
<1>1. DOMAIN t = Fields /\ cfqd' = [t EXCEPT !.kick = FALSE]
  BY DEF Step, Good, Data
<1>2. /\ cfqd'.ref = t.ref /\ cfqd'.new_cfqq = t.new_cfqq
      /\ cfqd'.sync = t.sync /\ cfqd'.own = t.own /\ cfqd'.cic = t.cic
      /\ cfqd'.bug = t.bug /\ cfqd'.async_cfqq = t.async_cfqq
      /\ cfqd'.coop = t.coop /\ cfqd'.queued = t.queued
      /\ cfqd'.dispatched = t.dispatched
  BY <1>1 DEF Fields
<1>3. Balanced(cfqd')
  BY <1>2, OtherFields
<1>4. Free'
  BY <1>2 DEF Free
<1> QED  BY <1>3, <1>4 DEF Books

LEMMA SameDataBooks ==
  ASSUME Books, UNCHANGED <<cfqd, plugged>>
  PROVE  Books'
BY DEF Books, Free

LEMMA SetRequestBooks ==
  ASSUME IInv, Books, NEW p \in Procs, NEW kind \in {"sync", "async"},
         NEW r \in Requests, cfq_set_request(p, kind, r)
  PROVE  Books'
<1>1. PICK fresh \in Queues : Step(SetRequest(cfqd, p, kind, fresh, r))
  BY DEF cfq_set_request
<1>2. /\ plugged' = plugged \cup {r} /\ r \notin plugged
      /\ r \notin cfqd.queued /\ r \notin cfqd.dispatched
  BY DEF cfq_set_request, OutstandingWith, IInv, Places
<1>3. cfqd.own[r] = NoCfqq
  BY <1>2 DEF Books, Free
<1> DEFINE t == SetRequest(cfqd, p, kind, fresh, r)
<1>4. Good(cfqd) /\ Balanced(cfqd)
  BY DEF IInv, Books
<1>5. /\ Good(t) /\ t.queued = cfqd.queued /\ t.dispatched = cfqd.dispatched
      /\ \A x \in Requests : x # r => t.own[x] = cfqd.own[x]
  BY <1>2, <1>4, SetRequestFields DEF Kinds
<1>6. Balanced(t)
  BY <1>3, <1>4, SetRequestCounted DEF Kinds
<1>7. Step(t)
  BY <1>1
<1> HIDE DEF t
<1>8. \A x \in Requests :
        x \notin plugged' \cup t.queued \cup t.dispatched => t.own[x] = NoCfqq
  BY <1>2, <1>5 DEF Books, Free
<1> QED  BY <1>5, <1>6, <1>7, <1>8, StepBalanced

LEMMA InsertBooks ==
  ASSUME IInv, Books, NEW c \in Ctx, NEW r \in Requests,
         cfq_insert_request(c, r)
  PROVE  Books'
<1> DEFINE s == AddRequest(cfqd, r)
<1>1. r \in plugged /\ plugged' = plugged \ {r} /\ cfqd.own[r] \in Queues
      /\ Good(cfqd) /\ Balanced(cfqd)
  BY InsertFacts DEF cfq_insert_request, IInv, Places, Books
<1>2. /\ Good(s) /\ s.queued = cfqd.queued \cup {r}
      /\ s.dispatched = cfqd.dispatched /\ s.own = cfqd.own
  BY <1>1, AddRequestFields
<1>3. Balanced(s)
  <2>1. DOMAIN cfqd = Fields
    BY <1>1 DEF Good, Data
  <2>2. /\ s.ref = cfqd.ref /\ s.new_cfqq = cfqd.new_cfqq
        /\ s.sync = cfqd.sync /\ s.own = cfqd.own /\ s.cic = cfqd.cic
        /\ s.bug = cfqd.bug /\ s.async_cfqq = cfqd.async_cfqq
        /\ s.coop = cfqd.coop
    BY <2>1 DEF AddRequest, Fields
  <2> HIDE DEF s
  <2> QED  BY <1>1, <2>2, OtherFields
<1>4. Preempts(c, s, r) \/ EndsWait(c, s) \/ Step(s)
  BY DEF cfq_insert_request
<1> HIDE DEF s
<1>5. r \in s.queued
  BY <1>2
<1>6. PICK t : /\ Good(t) /\ Balanced(t) /\ Step(t)
               /\ t.queued = s.queued /\ t.dispatched = s.dispatched
               /\ t.own = s.own
  BY <1>2, <1>3, <1>4, <1>5, EnqueuedBalanced
<1>7. \A x \in Requests :
        x \notin plugged' \cup t.queued \cup t.dispatched => t.own[x] = NoCfqq
  BY <1>1, <1>2, <1>6 DEF Books, Free
<1> QED  BY <1>6, <1>7, StepBalanced

LEMMA InsertMergedBooks ==
  ASSUME IInv, Books, NEW c \in Ctx, NEW r \in Requests, InsertMerged(c, r)
  PROVE  Books'
<1> DEFINE t == PutRequest(cfqd, r)
<1>1. r \in plugged /\ plugged' = plugged \ {r}
  BY InsertFacts DEF InsertMerged, IInv
<1>2. /\ r \notin cfqd.queued /\ cfqd.own[r] \in Queues
      /\ Good(cfqd) /\ Balanced(cfqd)
  BY <1>1 DEF IInv, Places, Apart, Books
<1>3. /\ Good(t) /\ t.queued = cfqd.queued /\ t.dispatched = cfqd.dispatched
      /\ \A x \in Requests : x # r => t.own[x] = cfqd.own[x]
  BY <1>2, PutRequestFields
<1>4. Balanced(t) /\ t.own[r] = NoCfqq
  BY <1>2, PutRequestCounted
<1>5. Step(t)
  BY DEF InsertMerged
<1> HIDE DEF t
<1>6. \A x \in Requests :
        x \notin plugged' \cup t.queued \cup t.dispatched => t.own[x] = NoCfqq
  BY <1>1, <1>3, <1>4 DEF Books, Free
<1> QED  BY <1>3, <1>4, <1>5, <1>6, StepBalanced

LEMMA MergedRequestsBooks ==
  ASSUME IInv, Books, NEW rq \in Requests, NEW next \in Requests,
         cfq_merged_requests(rq, next)
  PROVE  Books'
<1> DEFINE m == [cfqd EXCEPT !.queued = @ \ {next}]
           t == PutRequest(m, next)
<1>1. /\ rq \in cfqd.queued /\ next \in cfqd.queued /\ rq # next
      /\ cfqd.own[rq] = cfqd.own[next] /\ Step(t) /\ plugged' = plugged
      /\ Good(cfqd) /\ Balanced(cfqd)
  BY DEF cfq_merged_requests, IInv, Books
<1>2. /\ Good(m) /\ m.queued = cfqd.queued \ {next} /\ m.own = cfqd.own
      /\ m.dispatched = cfqd.dispatched
  BY <1>1, RemovedKeeps
<1>3. cfqd.own[next] \in Queues /\ DOMAIN cfqd = Fields
  BY <1>1 DEF Good, Data
<1>4. /\ m.ref = cfqd.ref /\ m.new_cfqq = cfqd.new_cfqq
      /\ m.sync = cfqd.sync /\ m.cic = cfqd.cic
      /\ m.bug = cfqd.bug /\ m.async_cfqq = cfqd.async_cfqq
      /\ m.coop = cfqd.coop
  BY <1>3 DEF Fields
<1> HIDE DEF m
<1>5. Balanced(m)
  BY <1>1, <1>2, <1>4, OtherFields
<1>6. /\ Good(t) /\ t.queued = m.queued /\ t.dispatched = m.dispatched
      /\ \A x \in Requests : x # next => t.own[x] = m.own[x]
  BY <1>2, <1>3, PutRequestFields
<1>7. Balanced(t) /\ t.own[next] = NoCfqq
  BY <1>2, <1>3, <1>5, PutRequestCounted
<1> HIDE DEF t
<1>8. \A x \in Requests :
        x \notin plugged' \cup t.queued \cup t.dispatched => t.own[x] = NoCfqq
  BY <1>1, <1>2, <1>6, <1>7 DEF Books, Free
<1> QED  BY <1>1, <1>6, <1>7, <1>8, StepBalanced

LEMMA DispatchBooks ==
  ASSUME IInv, Books, NEW c \in Ctx, cfq_dispatch_requests(c)
  PROVE  Books'
<1>1. PICK o \in IF cfqd.busy = {} THEN Nothing(cfqd) ELSE Select(cfqd) :
       \/ Step(BugIf(o.from # NoCfqq /\ Empty(o.s, o.from), o.s))
       \/ \E r \in Of(o.s, o.from, o.s.queued) :
            \E t \in cfq_dispatch_request(o.s, o.from, r) : Step(t)
  BY DEF cfq_dispatch_requests
<1>2. Good(cfqd) /\ Balanced(cfqd) /\ plugged' = plugged
  BY DEF IInv, Books, cfq_dispatch_requests
<1>3. Sound(cfqd, o) /\ Balanced(o.s)
  <2>1. CASE cfqd.busy = {}
    BY <1>1, <1>2, <2>1, NothingQueued, NothingSound, NothingBalanced
  <2>2. CASE cfqd.busy # {}
    BY <1>1, <1>2, <2>2, SelectSound, SelectBalanced
  <2> QED  BY <2>1, <2>2
<1>4. /\ Good(o.s) /\ o.s.queued = cfqd.queued
      /\ o.s.dispatched = cfqd.dispatched /\ o.s.own = cfqd.own
  BY <1>3 DEF Sound
<1>5. CASE Step(BugIf(o.from # NoCfqq /\ Empty(o.s, o.from), o.s))
  <2> DEFINE P == o.from # NoCfqq /\ Empty(o.s, o.from)
             t == BugIf(P, o.s)
  <2>1. P = FALSE
    BY <1>3 DEF Sound
  <2>2. Step(t)
    BY <1>5
  <2> HIDE DEF P
  <2>3. Balanced(t)
    BY <1>3, <1>4, <2>1, NoBugBalanced
  <2>4. /\ Good(t) /\ t.queued = o.s.queued /\ t.dispatched = o.s.dispatched
        /\ t.own = o.s.own
    BY <1>4, BugFields
  <2> HIDE DEF t
  <2>5. \A x \in Requests :
          x \notin plugged' \cup t.queued \cup t.dispatched => t.own[x] = NoCfqq
    BY <1>2, <1>4, <2>4 DEF Books, Free
  <2> QED  BY <2>2, <2>3, <2>4, <2>5, StepBalanced
<1>6. ASSUME NEW r \in Of(o.s, o.from, o.s.queued),
             NEW t \in cfq_dispatch_request(o.s, o.from, r), Step(t)
      PROVE  Books'
  <2>1. o.from # NoCfqq
    BY <1>4, QueueFacts DEF Of, Good, Data
  <2>2. o.from = o.s.active
    BY <1>3, <2>1 DEF Sound
  <2>3. /\ Good(t) /\ t.queued = o.s.queued \ {r} /\ t.own = o.s.own
        /\ t.dispatched = o.s.dispatched \cup {r}
    BY <1>4, <2>1, <2>2, DispatchFields
  <2>4. Balanced(t)
    BY <1>3, <1>4, <2>1, <2>2, DispatchBalanced
  <2>5. \A x \in Requests :
          x \notin plugged' \cup t.queued \cup t.dispatched => t.own[x] = NoCfqq
    BY <1>2, <1>4, <2>3 DEF Books, Free
  <2> QED  BY <1>6, <2>3, <2>4, <2>5, StepBalanced
<1> QED  BY <1>1, <1>5, <1>6

LEMMA ForcedBooks ==
  ASSUME IInv, Books, NEW c \in Ctx, cfq_forced_dispatch(c)
  PROVE  Books'
<1>1. PICK seeky \in SUBSET cfqd.busy : Step(Forced(cfqd, seeky))
  BY DEF cfq_forced_dispatch
<1>2. plugged' = plugged /\ Good(cfqd) /\ Balanced(cfqd)
  BY DEF cfq_forced_dispatch, IInv, Books
<1> DEFINE t == Forced(cfqd, seeky)
<1>3. /\ Good(t) /\ t.own = cfqd.own
      /\ t.dispatched = cfqd.dispatched \cup cfqd.queued
  BY <1>2, ForcedFields
<1>4. Balanced(t) /\ Step(t)
  BY <1>1, <1>2, ForcedBalanced
<1> HIDE DEF t
<1>5. \A x \in Requests :
        x \notin plugged' \cup t.queued \cup t.dispatched => t.own[x] = NoCfqq
  BY <1>2, <1>3 DEF Books, Free
<1> QED  BY <1>3, <1>4, <1>5, StepBalanced

\* A change of the driver's count or of the timer.
LEMMA OtherBooks ==
  ASSUME Books, plugged' = plugged, cfqd'.ref = cfqd.ref,
         cfqd'.new_cfqq = cfqd.new_cfqq, cfqd'.sync = cfqd.sync,
         cfqd'.own = cfqd.own, cfqd'.cic = cfqd.cic, cfqd'.bug = cfqd.bug,
         cfqd'.async_cfqq = cfqd.async_cfqq, cfqd'.coop = cfqd.coop,
         cfqd'.queued = cfqd.queued, cfqd'.dispatched = cfqd.dispatched
  PROVE  Books'
<1>1. Balanced(cfqd')
  BY OtherFields DEF Books
<1>2. Free'
  BY DEF Books, Free
<1> QED  BY <1>1, <1>2 DEF Books

LEMMA ActivatedBooks ==
  ASSUME IInv, Books, plugged' = plugged, NEW S,
         cfqd' = [cfqd EXCEPT !.activated = S]
  PROVE  Books'
<1>1. DOMAIN cfqd = Fields
  BY DEF IInv, Good, Data
<1>2. /\ cfqd'.ref = cfqd.ref /\ cfqd'.new_cfqq = cfqd.new_cfqq
      /\ cfqd'.sync = cfqd.sync /\ cfqd'.own = cfqd.own
      /\ cfqd'.cic = cfqd.cic /\ cfqd'.bug = cfqd.bug
      /\ cfqd'.async_cfqq = cfqd.async_cfqq /\ cfqd'.coop = cfqd.coop
      /\ cfqd'.queued = cfqd.queued /\ cfqd'.dispatched = cfqd.dispatched
  BY <1>1 DEF Fields
<1> QED  BY <1>2, OtherBooks

LEMMA TimerExpiresBooks ==
  ASSUME IInv, Books, TimerExpires
  PROVE  Books'
<1>1. DOMAIN cfqd = Fields
  BY DEF IInv, Good, Data
<1>2. /\ cfqd' = [cfqd EXCEPT !.armed = FALSE, !.firing = TRUE]
      /\ plugged' = plugged
  BY DEF TimerExpires, frameVars
<1>3. /\ cfqd'.ref = cfqd.ref /\ cfqd'.new_cfqq = cfqd.new_cfqq
      /\ cfqd'.sync = cfqd.sync /\ cfqd'.own = cfqd.own
      /\ cfqd'.cic = cfqd.cic /\ cfqd'.bug = cfqd.bug
      /\ cfqd'.async_cfqq = cfqd.async_cfqq /\ cfqd'.coop = cfqd.coop
      /\ cfqd'.queued = cfqd.queued /\ cfqd'.dispatched = cfqd.dispatched
  BY <1>1, <1>2 DEF Fields
<1> QED  BY <1>2, <1>3, OtherBooks

LEMMA CompletedBooks ==
  ASSUME IInv, Books, NEW r \in Requests, cfq_completed_request(r)
  PROVE  Books'
<1> DEFINE s == [cfqd EXCEPT !.dispatched = @ \ {r}, !.activated = @ \ {r}]
<1>1. r \in inflight /\ plugged' = plugged
  BY DEF cfq_completed_request, DeviceComplete
<1>2. r \notin cfqd.queued /\ cfqd.own[r] \in Queues
      /\ Good(cfqd) /\ Balanced(cfqd)
  BY <1>1 DEF IInv, Places, Apart, Books
<1>3. PICK t \in IF s.active = s.own[r] THEN SliceGoesOn(s, r) ELSE {s} :
        Step(PutRequest(
               IF t.activated = {} THEN ScheduleDispatch(t) ELSE t, r))
  BY DEF cfq_completed_request
<1>4. /\ Good(s) /\ Balanced(s) /\ s.queued = cfqd.queued
      /\ s.own = cfqd.own /\ s.dispatched = cfqd.dispatched \ {r}
  <2>1. DOMAIN cfqd = Fields
    BY <1>2 DEF Good, Data
  <2>2. /\ DOMAIN s = Fields /\ s.active = cfqd.active /\ s.cic = cfqd.cic
        /\ s.new_cfqq = cfqd.new_cfqq /\ s.async_cfqq = cfqd.async_cfqq
        /\ s.queued = cfqd.queued /\ s.dispatched = cfqd.dispatched \ {r}
        /\ s.own = cfqd.own /\ s.ref = cfqd.ref /\ s.sync = cfqd.sync
        /\ s.bug = cfqd.bug /\ s.coop = cfqd.coop
        /\ s.firing = cfqd.firing /\ s.busy = cfqd.busy
        /\ s.kick = cfqd.kick /\ s.armed = cfqd.armed
    BY <2>1 DEF Fields
  <2> HIDE DEF s
  <2>3. Data(s) /\ Acyclic(s) /\ Listed(s)
    BY <1>2, <2>2, SameListed DEF Good, Data, Acyclic
  <2>4. Balanced(s)
    BY <1>2, <2>2, OtherFields
  <2> QED  BY <2>2, <2>3, <2>4 DEF Good
<1> HIDE DEF s
<1>5. /\ Good(t) /\ Balanced(t) /\ t.queued = s.queued /\ t.own = s.own
      /\ t.dispatched = s.dispatched
  BY <1>3, <1>4, SliceFields, SliceBalanced
<1> DEFINE u == IF t.activated = {} THEN ScheduleDispatch(t) ELSE t
           v == PutRequest(u, r)
<1>6. /\ Good(u) /\ Balanced(u) /\ u.queued = t.queued /\ u.own = t.own
      /\ u.dispatched = t.dispatched
  BY <1>5, ScheduleFields, ScheduleBalanced
<1>7. Step(v)
  BY <1>3
<1> HIDE DEF u
<1>8. r \notin u.queued /\ u.own[r] \in Queues
  BY <1>2, <1>4, <1>5, <1>6
<1>9. /\ Good(v) /\ v.queued = u.queued /\ v.dispatched = u.dispatched
      /\ \A x \in Requests : x # r => v.own[x] = u.own[x]
  BY <1>6, <1>8, PutRequestFields
<1>10. Balanced(v) /\ v.own[r] = NoCfqq
  BY <1>6, <1>8, PutRequestCounted
<1> HIDE DEF v
<1>11. \A x \in Requests :
         x \notin plugged' \cup v.queued \cup v.dispatched => v.own[x] = NoCfqq
  BY <1>1, <1>4, <1>5, <1>6, <1>9, <1>10 DEF Books, Free
<1> QED  BY <1>7, <1>9, <1>10, <1>11, StepBalanced

LEMMA IdleSliceTimerBooks ==
  ASSUME IInv, Books, cfq_idle_slice_timer
  PROVE  Books'
<1> DEFINE s == [cfqd EXCEPT !.firing = FALSE]
<1>1. PICK t \in TimedOut(s) : Step(t)
  BY DEF cfq_idle_slice_timer
<1>2. plugged' = plugged /\ Good(cfqd) /\ Balanced(cfqd)
  BY DEF cfq_idle_slice_timer, IInv, Books
<1>3. /\ Good(s) /\ Balanced(s) /\ s.queued = cfqd.queued
      /\ s.own = cfqd.own /\ s.dispatched = cfqd.dispatched
  <2>1. DOMAIN cfqd = Fields
    BY <1>2 DEF Good, Data
  <2>2. /\ DOMAIN s = Fields /\ s.active = cfqd.active /\ s.cic = cfqd.cic
        /\ s.new_cfqq = cfqd.new_cfqq /\ s.async_cfqq = cfqd.async_cfqq
        /\ s.queued = cfqd.queued /\ s.dispatched = cfqd.dispatched
        /\ s.own = cfqd.own /\ s.ref = cfqd.ref /\ s.sync = cfqd.sync
        /\ s.bug = cfqd.bug /\ s.coop = cfqd.coop
        /\ s.firing = FALSE /\ s.busy = cfqd.busy
        /\ s.kick = cfqd.kick /\ s.armed = cfqd.armed
    BY <2>1 DEF Fields
  <2> HIDE DEF s
  <2>3. Data(s) /\ Acyclic(s) /\ Listed(s)
    BY <1>2, <2>2, SameListed DEF Good, Data, Acyclic
  <2>4. Balanced(s)
    BY <1>2, <2>2, OtherFields
  <2> QED  BY <2>2, <2>3, <2>4 DEF Good
<1> HIDE DEF s
<1>4. /\ Good(t) /\ Balanced(t) /\ t.queued = s.queued
      /\ t.dispatched = s.dispatched /\ t.own = s.own
  BY <1>1, <1>3, TimedOutFields, TimedOutBalanced
<1>5. \A x \in Requests :
        x \notin plugged' \cup t.queued \cup t.dispatched => t.own[x] = NoCfqq
  BY <1>2, <1>3, <1>4 DEF Books, Free
<1> QED  BY <1>1, <1>4, <1>5, StepBalanced

LEMMA ExitBooks ==
  ASSUME IInv, Books, NEW p \in Procs, cfq_exit_icq(p) \/ ClearIcq(p)
  PROVE  Books'
<1>1. PICK t \in ExitIcq(cfqd, p) : Step(t)
  BY DEF cfq_exit_icq, ClearIcq
<1>2. plugged' = plugged /\ Good(cfqd) /\ Balanced(cfqd)
  BY DEF cfq_exit_icq, ClearIcq, IInv, Books
<1>3. Kept(cfqd, t) /\ Balanced(t)
  BY <1>1, <1>2, ExitIcqKept, ExitIcqCounted
<1>4. \A x \in Requests :
        x \notin plugged' \cup t.queued \cup t.dispatched => t.own[x] = NoCfqq
  BY <1>2, <1>3 DEF Books, Free, Kept
<1>5. Good(t)
  BY <1>3 DEF Kept
<1> QED  BY <1>1, <1>3, <1>4, <1>5, StepBalanced

LEMMA ExitQueueBooks ==
  ASSUME IInv, Books, cfq_exit_queue
  PROVE  Books'
<1> DEFINE s == [cfqd EXCEPT !.armed = FALSE]
<1>1. PICK e \in Expirations(s) : cfqd' = PutPinned(e)
  BY DEF cfq_exit_queue
<1>2. /\ elv = "detached" /\ cfqd.cic = NewCfqData.cic /\ plugged' = plugged
      /\ Good(cfqd) /\ Balanced(cfqd)
  BY DEF cfq_exit_queue, IInv, Books
<1>3. /\ Good(s) /\ Balanced(s) /\ s.own = cfqd.own /\ s.cic = cfqd.cic
  <2>1. DOMAIN cfqd = Fields
    BY <1>2 DEF Good, Data
  <2>2. /\ DOMAIN s = Fields /\ s.active = cfqd.active /\ s.cic = cfqd.cic
        /\ s.new_cfqq = cfqd.new_cfqq /\ s.async_cfqq = cfqd.async_cfqq
        /\ s.queued = cfqd.queued
        /\ s.own = cfqd.own /\ s.ref = cfqd.ref /\ s.sync = cfqd.sync
        /\ s.bug = cfqd.bug /\ s.coop = cfqd.coop
        /\ s.firing = cfqd.firing /\ s.busy = cfqd.busy
        /\ s.kick = cfqd.kick /\ s.armed = FALSE
    BY <2>1 DEF Fields
  <2> HIDE DEF s
  <2>3. Data(s) /\ Acyclic(s) /\ Listed(s)
    BY <1>2, <2>2, SameListed DEF Good, Data, Acyclic
  <2>4. Balanced(s)
    BY <1>2, <2>2, OtherFields
  <2> QED  BY <2>2, <2>3, <2>4 DEF Good
<1> HIDE DEF s
<1>4. Good(e) /\ Balanced(e) /\ e.own = s.own
  BY <1>1, <1>3, ExpirationsFields, ExpirationsBalanced
<1>5. e.cic = s.cic
  <2>1. SameBooks(s, s)
    BY <1>3, SameSelf DEF Balanced
  <2> QED  BY <1>1, <1>3, <2>1, ExpirationsSame DEF SameBooks
<1>6. \A p \in Procs, k \in Kinds : e.cic[p][k] = NoCfqq
  <2>1. NewCfqData.cic = [p \in Procs |-> [k \in {"sync", "async"} |-> NoCfqq]]
    BY DEF NewCfqData
  <2>2. e.cic = [p \in Procs |-> [k \in Kinds |-> NoCfqq]]
    BY <1>2, <1>3, <1>5, <2>1 DEF Kinds
  <2> QED  BY <2>2
<1>7. Balanced(cfqd') /\ cfqd'.own = cfqd.own
  BY <1>1, <1>3, <1>4, <1>6, PinnedBalanced
<1>8. \A x \in Requests : cfqd.own[x] = NoCfqq
  BY <1>2 DEF IInv, Gone, Books, Free
<1> QED  BY <1>7, <1>8 DEF Books, Free

LEMMA InitQueueBooks ==
  ASSUME cfqd' = NewCfqData
  PROVE  Books'
<1>1. cfqd'.own = [r \in Requests |-> NoCfqq]
  BY DEF NewCfqData
<1> QED  BY <1>1, NewDataBalanced DEF Books, Free

LEMMA InitBooks == Init => Books
<1>1. NewCfqData.own = [r \in Requests |-> NoCfqq]
  BY DEF NewCfqData
<1> QED  BY <1>1, NewDataBalanced DEF Init, Books, Free

LEMMA RequestBooks ==
  ASSUME IInv, Books, NEW r \in Requests, Request(r)
  PROVE  Books'
<1>1. ASSUME NEW p \in Procs, NEW kind \in {"sync", "async"},
             cfq_set_request(p, kind, r)
      PROVE  Books'
  BY <1>1, SetRequestBooks
<1>2. ASSUME NEW c \in Tasks, cfq_insert_request(c, r) \/ InsertMerged(c, r)
      PROVE  Books'
  BY <1>2, InsertBooks, InsertMergedBooks DEF Tasks
<1>3. ASSUME NEW rq \in Requests, cfq_merged_requests(rq, r)
      PROVE  Books'
  BY <1>3, MergedRequestsBooks
<1>4. CASE cfq_completed_request(r)
  BY <1>4, CompletedBooks
<1>5. CASE cfq_deactivate_request(r)
  <2>1. /\ plugged' = plugged
        /\ cfqd' = [cfqd EXCEPT !.activated = cfqd.activated \ {r}]
    BY <1>5 DEF cfq_deactivate_request, frameVars
  <2> QED  BY <2>1, ActivatedBooks
<1> QED  BY <1>1, <1>2, <1>3, <1>4, <1>5 DEF Request

LEMMA ContextBooks ==
  ASSUME IInv, Books, NEW c \in Ctx, Context(c)
  PROVE  Books'
<1>1. CASE cfq_dispatch_requests(c)
  BY <1>1, DispatchBooks
<1>2. CASE UNCHANGED <<frameVars, cfqd>>
  BY <1>2, SameDataBooks DEF frameVars
<1>3. CASE Activate(Head(queue_head)) /\ UNCHANGED frameVars
  <2>1. /\ plugged' = plugged
        /\ cfqd' = [cfqd EXCEPT !.activated
                      = cfqd.activated \cup {Head(queue_head)}]
    BY <1>3 DEF Activate, frameVars
  <2> QED  BY <2>1, ActivatedBooks
<1>4. CASE cfq_forced_dispatch(c)
  BY <1>4, ForcedBooks
<1>5. CASE Drained(c)
  BY <1>5, SameDataBooks DEF Drained
<1>6. CASE DrainStart(c) /\ UNCHANGED cfqd
  BY <1>6, SameDataBooks DEF DrainStart, frameVars
<1> QED  BY <1>1, <1>2, <1>3, <1>4, <1>5, <1>6 DEF Context, RequestFn, RunUnasked

LEMMA StepBooks == IInv /\ Books /\ [Next]_vars => Books'
<1> SUFFICES ASSUME IInv, Books, [Next]_vars PROVE Books'
  OBVIOUS
<1>1. CASE \E r \in Requests : Request(r)
  BY <1>1, RequestBooks
<1>2. CASE \E c \in Ctx : Context(c)
  BY <1>2, ContextBooks
<1>3. CASE TimerExpires \/ cfq_idle_slice_timer
  BY <1>3, TimerExpiresBooks, IdleSliceTimerBooks
<1>4. CASE Kick
  <2>1. UNCHANGED <<cfqd, plugged>>
    BY <1>4 DEF Kick, Kicked, kick_queue, KickSuccessor, KickAfterFree
  <2> QED  BY <2>1, SameDataBooks
<1>5. CASE BypassStart /\ UNCHANGED cfqd
  BY <1>5, SameDataBooks DEF BypassStart
<1>6. CASE cfq_exit_queue
  BY <1>6, ExitQueueBooks
<1>7. CASE cfq_init_queue
  BY <1>7, InitQueueBooks DEF cfq_init_queue
<1>8. CASE \E p \in Procs : cfq_exit_icq(p) \/ ClearIcq(p)
  BY <1>8, ExitBooks
<1>9. CASE UNCHANGED vars
  BY <1>9, SameDataBooks DEF vars, frameVars
<1> QED  BY <1>1, <1>2, <1>3, <1>4, <1>5, <1>6, <1>7, <1>8, <1>9
         DEF Next, Switch

\* The books are balanced in every behaviour.
THEOREM Accounting == Spec => []Books
<1> QED  BY InitBooks, StepBooks, Invariance, PTL DEF Spec

\* References are exact, however queues are merged, split and freed,
\* processes move and exit, and allocations fail: a cfq_queue is freed when
\* its last user is gone, neither earlier nor later.
THEOREM ReferencesExact == Spec => []RefsExact
<1>1. ASSUME Good(cfqd), NEW q \in Queues
      PROVE  Holders(cfqd, q) = Claims(cfqd.new_cfqq, cfqd.cic, q)
  <2>1. ASSUME NEW x \in Procs \X Kinds
        PROVE  (/\ cfqd.cic[x[1]][x[2]] # NoCfqq
                /\ q \in Chain(cfqd, cfqd.cic[x[1]][x[2]])
                           \cup {cfqd.cic[x[1]][x[2]]})
               <=> q \in Path(cfqd.new_cfqq, cfqd.cic[x[1]][x[2]])
    <3> DEFINE u == cfqd.cic[x[1]][x[2]]
    <3>1. u \in MaybeQueue
      BY <1>1 DEF Good, Data
    <3> HIDE DEF u
    <3>2. CASE u = NoCfqq
      BY <3>2, PathNone DEF u
    <3>3. CASE u # NoCfqq
      <4>1. Chain(cfqd, u) \cup {u} = Path(cfqd.new_cfqq, u)
        BY <1>1, <3>1, <3>3, ChainPath DEF MaybeQueue
      <4> QED  BY <3>3, <4>1 DEF u
    <3> QED  BY <3>2, <3>3
  <2> QED  BY <2>1 DEF Holders, Claims, Kinds
<1>2. IInv /\ Books => RefsExact
  <2> SUFFICES ASSUME IInv, Books, NEW q \in Queues
               PROVE  cfqd.ref[q] = Cardinality(Holders(cfqd, q))
                        + Cardinality(Allocated(cfqd, q))
                        + (IF q \in {Oom, cfqd.async_cfqq} THEN 1 ELSE 0)
    BY DEF RefsExact
  <2>1. cfqd.ref[q] = Cardinality(Claims(cfqd.new_cfqq, cfqd.cic, q))
                      + Cardinality(Allocated(cfqd, q))
                      + One(q \in {Oom, cfqd.async_cfqq}) + 0
    <3>1. One(q \in {}) = 0
      BY DEF One
    <3> QED  BY <3>1 DEF Books, Balanced, Counted, Account
  <2>2. /\ Cardinality(Claims(cfqd.new_cfqq, cfqd.cic, q)) \in Nat
        /\ Cardinality(Allocated(cfqd, q)) \in Nat
    BY ClaimsFinite, AllocatedFinite
  <2>3. Holders(cfqd, q) = Claims(cfqd.new_cfqq, cfqd.cic, q)
    BY <1>1 DEF IInv
  <2> QED  BY <2>1, <2>2, <2>3 DEF One
<1> QED  BY <1>2, Invariance, Accounting, PTL

\* No BUG_ON of the model fires: cfq_put_queue never meets a queue without a
\* reference, nor frees one with requests or on the round-robin list,
\* cfq_choose_cfqg finds a group, and the queue cfq_select_queue returns and
\* those a drain visits have requests.
THEOREM NoBugFires == Spec => []NoBug
<1>1. Books => NoBug
  BY DEF Books, Balanced, Counted, Marks, NoBug
<1> QED  BY <1>1, Accounting, PTL

=============================================================================
