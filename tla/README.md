# SSD-Scheduler: a verification development

The repository is a series of Linux I/O schedulers ("elevators") for kernel
4.8's single-queue block layer, written while the author looked for a start-time
fair queueing (SFQ) scheduler that works on SSDs. An elevator is a table of
callbacks (`struct elevator_type`); the block layer calls them, mostly with
`q->queue_lock` held. What is hard about these few hundred lines is not what
each callback does but *when somebody calls the next one*: an elevator that
limits the device (depth), idles, or returns "nothing" while it holds requests,
must see to it that it is asked again, with a work item on the kblockd thread, a
timer, or a completion to come. That, and what is left behind when one elevator
is exchanged for another, is what this development is about.

## 1. Inventory

| Component | State | Operations | Interacts with |
|---|---|---|---|
| Block device (the kernel, outside the repository) | `q->queue_head` (driver's list), requests in flight, `queue_lock`, who is inside `request_fn` | peek, start, requeue, complete, run queue, plug and flush, bypass and drain | calls every elevator callback; `request_fn` drops the lock while it issues |
| Elevator core, `elevator_experiment/elevator.c` (Linux's) | merge hash, `last_merge`, `nr_sorted`, scheduling boundary; the list of types, module references, `q->elevator` | `elv_merge`, `elv_attempt_insert_merge`, `__elv_add_request`, `elv_dispatch_sort`, `elv_drain_elevator`, `elv_requeue_request`; `elevator_find/get/put/init/exit/switch/change`, `elv_register/unregister` | between block layer and elevators; module loader, sysfs |
| The kernel's NOOP, `noop_experiment/noop-iosched.c` | a FIFO | add, dispatch, merged, former, latter | as every elevator |
| NOOP with kicks: `launch.c` (= `launch_noop.c`), the module the `Makefile` builds | a FIFO, `sfqr_size`, `unplug_work` | add, merge, dispatch, completed, kick, init, exit | runs the queue from inside `noop_add_request` |
| NOOP with depth: `noop_1.c`; with congestion timer: `noop_with_congestion.c` | a FIFO, `depth`, `nr_size`, timer, work item | add, dispatch, completed, timer, kick, init, exit | kblockd, hrtimer |
| SFQ ALPHA: `ssd_scheduler_alpha/sfq-shed_16_array_limit.c` | one array heap by start tag, `virtual_time`, `depth` | set (without the lock), add, dispatch, completed, put, kick | submitting tasks race |
| SFQ BETA: `sfq_write_experiment/sfq_4.c` | a ring of per-process queues, a cursor, a heap, `depth`, `sfqr_size`, timer, work item | set (without the lock), add, dispatch, completed, put, timer, kick, init, exit | as above |
| SFQ THETA: `launch_sfq.c` | BETA's ring and cursor, `wrong_sfqq`, `chara_locker`, a timer at every dispatch | as BETA | as above |
| Deadline: `deadline_experiment/deadline_example.c` | two FIFOs, two red-black trees, `next_rq`, batching and starvation counters | add, dispatch, former, latter, init, exit | no kicks at all |
| CFQ: `cfq_experiment/cfq-iosched.c` (Linux's) | queues per process, references, merge chains, the active queue and its slice, idle timer, work item | set, put, add, merge, dispatch, select, idle, preempt, completed, timer, exits | processes' io contexts |
| Heaps: `heap_experiments/` | an array; linked nodes | insert, delete, heapify | none |
| Earlier versions of all of these, measurement tools, results | - | - | - |

What makes each correct:

* every elevator: a request handed in is handed out once; nothing waits while
  nobody will look; the counters that decide about kicks never undercount; the
  limit on the device holds; a switch to another elevator leaves no request, no
  timer and no work item behind;
* SFQ: queues get their turn in order, whatever registers meanwhile; dispatches
  follow the start tags; the virtual time advances; nobody starves;
* Deadline and CFQ: cached pointers (`next_rq`, the active queue, merge targets)
  name what is still there; references are exact; idling ends;
* the elevator core: what the merge structures name is still in the elevator; a
  back insertion is a barrier; a queue's elevator stays loaded.

The hard behaviours: `request_fn` runs in several contexts at once and releases
the lock in the middle; completions are interrupts; `elevator_set_req_fn` is
called without the lock; merges remove requests that an elevator counts; the
device may be busy or refuse a command; kblockd and hrtimers run late; a switch
drains, frees and re-initialises while all of that goes on, and may fail in the
middle. Nothing is persisted, so there is no crash recovery. `PROJECT.json`
lists the hazards line by line, with the properties that cover them.

## 2. The modules

| Module | Models |
|---|---|
| `BlockDevice` | the driver's list, the device, the contexts inside `request_fn` |
| `KickedElevator` | on top of it: plugs, merges, `unplug_work`, bypass and drain, for elevators without an `elevator_merge_req_fn` |
| `NoopKick`, `FifoServer` | `launch.c`; the FIFO server it implements |
| `NoopDepth`, `NoopCongestion`, `LimitedNoops` | `noop_1.c`; `noop_with_congestion.c`; both as programs that one queue switches between |
| `SfqAlpha`, `Heapify` | the heap scheduler; `insertNode`, `deleteNode`, `heapify` of `min_heap_1/minHeap.c` as functions |
| `SfqBeta`, `SfqTheta` | `sfq_4.c`; `launch_sfq.c` |
| `SfqBetaRaced` | `SfqBeta` with a history variable, `raced`: a registration has raced |
| `Deadline` | `deadline_example.c` |
| `CfqQueues`, `Cfq` | CFQ's queues, references and selection as operators on `cfq_data`; CFQ as an elevator |
| `ElevatorMerge` | merging, insertion and the driver's list of `elevator.c`, over the kernel's NOOP |
| `ElevatorSwitch` | types, references and switches of `elevator.c` |
| `MC...` | instances: model values, symmetry, history variables, finite workloads |
| `BlockDeviceProofs` | lemmas on lists, on where a request is, and on walks along links |
| `NoopKickProofs`, `LimitedNoopsProofs`, `SfqBetaProofs`, `SfqThetaProofs`, `CfqProofs` | the theorems about each program |
| `SortingProofs` | the theorems about `Deadline`, `SfqAlpha` and the array heap |
| `ElevatorProofs` | the theorems about `ElevatorSwitch` and `ElevatorMerge` |

### The frame: BlockDevice and KickedElevator

`pc[c]` says where a context (a task or kblockd) is:

| `pc` | meaning | holds `queue_lock` |
|---|---|---|
| `idle` | outside the block layer | no |
| `flush` | inserts the requests of its plug | yes |
| `run` | inside `request_fn`, about to look for a request | yes |
| `issue` | inside `request_fn`, handing a started request to the device | no |
| `drain` | inside `elv_drain_elevator` | yes |
| labels of a module's own | inside `elevator_set_req_fn` | no |

`request_fn` takes the head of the driver's list, or asks the elevator until
that answers 0 and then returns (`Peek`, in the elevators' modules). It may stop
because the device is busy (`DeviceBusy`: only with something in flight, whose
completion the elevator hears of), and a command may be refused and requeued
(`DeviceRequeue`). `elv_dispatch_sort` may put a request at any position of the
list: only `ElevatorMerge` knows sectors. The driver running the queue on its
own account is *allowed* (`RunQueue`) and never *relied on*, since elevators of
this repository install kicks because it cannot be relied on.

`elv` is `attached`; `bypass`, while the queue is drained; `detached`, when
`q->elevator` is the successor; `freed`, after the `kfree` of
`elevator_exit_fn`; `oops`, when the machine has stopped. `unplug_work` says
that the work item is pending on kblockd; running it after `freed` is an oops. In
`NoopDepth` and `LimitedNoops` a work item that outlives its elevator is `left`, and
may run at any time afterwards, whatever is attached by then; in `NoopKick` and
`SfqAlpha` it may run until the next init, which initialises a new one.
`stale` are requests that a merge has freed and that the elevator still links,
because it has no `elevator_merge_req_fn`; dispatching one is an oops. The
modules do not hide these: properties hold along the way, or say `elv = "oops"`.

### How the elevators' modules correspond to the code

Actions have the names of the functions they model; a function with several
outcomes that the order of its tests decides is several actions
(`sfq_dispatch_refused`, `_nothing`, `_one`, `_wild`). Variables have the names
of the fields. Three representations are less direct:

* In `SfqBeta` and `SfqTheta` `nxt` and `tail` are the links of the ring (0 is
  the list head), `pending` the linked requests of all queues in order of arrival
  and `own` the queue of each. `sfq_set_request` runs without the lock, so a
  registration is split such that each step writes one shared variable and reads
  the next one (`CountSfqq`, `LinkTail`, `LinkPrev`, ...); so is the tag
  computation of `SfqAlpha` (`last`, `compare`, `advance`, `tag`). Everything
  that holds the lock is one step.
* `CfqQueues` writes each function of CFQ as an operator from `cfq_data`, a
  record, to what it makes of it, or to the *set* of what it may make of it where
  time slices, think times, seek distances or queue depths decide. A violated
  `BUG_ON` sets `bug`.
* `ElevatorMerge` keeps position and end of a request in sectors; a bio is one
  sector long. `behind` is a history variable: the pairs of requests that a back
  insertion (`fences`) has ordered.

`FifoServer` is the abstract specification: a line of requests served from the
front; a request may come back to the front, may be absorbed, and the line is
reordered only while the elevator is drained; a nonempty line is served and a
served request is finished. `NoopKick` implements it with
`line = queue_head \o queue`, `device = inflight`, `draining = (elv = "bypass")`
(`ServesInOrder`). Dispatching is a stutter: the line does not change.

## 3. The runs

| Run | Instance, distinct states | Shows |
|---|---|---|
| `noop` | 3 requests, 1 CPU + kblockd, 1 leaked count; 9,893 | no lost kick, no undercount, `BUG_ON` of the exit cannot fire; under fairness every request is finished and `FifoServer` is implemented |
| `limited` | 3 requests, 1 CPU + kblockd, limits 1 and 0, 1 stale request; 68,879 | exact depth, sufficient counts and no lost kick for both limited NOOPs; timer and work item of `noop_with_congestion.c` stop before its free (`noop_1.c` stops nothing: section 6); a request is served, across switches between them |
| `beta_races` | 2 requests, 2 racing processes + kblockd, 2 queues; 257,034 | types, depth bound, no undercount, heap empty at rest, timer and work stop before the free; while no registration raced, a finite workload is served |
| `beta` | 3 requests, 2 processes + kblockd, 1 stale request; 194,569 | a kick is lost, and the cursor parts from its count, only after registrations raced; each request in one place |
| `beta_cursor` | 2 requests, 2 processes | **violated**: the cursor on the list head |
| `theta` | 2 requests, 3 processes, 3 queues; 1,249,877 | a remembered list head is never stopped at, also when a third process registers afterwards |
| `theta_races` | 2 requests, 2 racing processes, 2 queues; 314,576 | exact counts, no lost kick; unless two registrations overlapped, a finite workload is served, except where the cursor passes over a queue |
| `alpha` | 3 requests, 2 racing tasks + kblockd, 1 stale request; 1,577,465 | a dispatch takes a least tag and loses nothing; exact depth; no lost kick; the time goes back only in an overtaking |
| `deadline` | 3 requests, 1 task + kblockd, 3 sectors, batches of 2; 757,464 | both lists have the same requests, `next_rq` is linked, a write is passed a bounded number of times, and only a front merge puts a tree out of order |
| `elevator_switch` | 2 queues, 4 types, 2 of one name; 1,288,064 | references are exact but for one leak and one double put, code in use is loaded but for the latter, a switch ends on one of the two elevators |
| `elevator_merge` | 3 requests, 3 sectors; 1,867,546 | merge hash, one-hit cache and counts agree with what waits; back insertions are barriers |
| `cfq` | 2 processes, 2 queues + the fallback queue, 2 requests; 702,776 | no `BUG_ON`, exact references, the round-robin list is right, idling ends |

Each run checks, by name (the comment above each definition states it in words):

* `noop`: `NoStranded`, `NeverUndercounts`, `ExitFindsQueueEmpty`, `EverythingServed`, `ServesInOrder`.
* `beta_races`: `TypeOK`, `DepthBound`, `NeverUndercounts`, `HeapAtRest`, `WorkStopsAtFree`, `CalmBacklogDrains`.
* `beta`: `StrandsOnlyInRaces`, `CursorStraysOnlyInRaces`, `OnePlace`.
* `beta_cursor`: `CursorOnQueue`.
* `limited`: `DepthExact`, `CountsSuffice`, `NoStranded`, `WorkStopsAtFree`, `EverythingServed`.
* `theta`: `HeadPassedOver`.
* `theta_races`: `CountsExact`, `NoStranded`, `CalmBacklogDrains`.
* `alpha`: `DepthExact`, `NoStranded`, `DispatchesLeast`, `GoesBackOnlyInRaces`.
* `deadline`: `ListsAgree`, `NextLinked`, `WritesGetTheirTurn`, `SortedUntilFrontMerge`.
* `elevator_switch`: `RefsExact`, `InUseIsLoaded`, `SwitchEndsAttached`.
* `cfq`: `NoBug`, `RefsExact`, `BusyExactly`, `NoStranded`.
* `elevator_merge`: `MergeStateAgrees`, `BackIsFence`.

The violation is a finding of `PROJECT.json`, with the line of the comment it
contradicts. It is also in the repository's own logs:
`test_results/2017_08_23_latency/error_logs/SFQ_ERROR_2_1` prints the counters
of `sfq_data` as the pid of a queue (`PID: 5 SEEK: 5  SIZE: 5`) and then faults
at address `0000000500000005`.

Remarks on what the runs show:

* `HeapAtRest` holds, and is a surprise: the README of the repository says "heap
  algorithm sorts the queue for requests", but `sfq_4.c` takes one request into
  the heap and one out of it in every dispatch, so that the heap never holds two.
  The tags decide nothing about the order there, which is why `SfqBeta` leaves
  them out. `SfqAlpha`, where the heap decides, has them.
* `noop_1.c` does not kick at its last completion. `NoStranded` holds because the
  limit is exceeded by one: what is held back is held back by *two* requests. The
  proof makes this explicit (`Waits`). The header of the file (lines 3-4) reports a
  freeze at depth 1 all the same: section 6 says what the model has to say of it.
* `EverythingServed` of `limited` is checked for one request, which by the symmetry
  of the requests stands for each.
* The ring of BETA is right only while registrations do not race, and the code does
  not prevent that. `raced` (`SfqBetaRaced`) remembers a race: two processes
  register at once, or the cursor moves while a queue is counted and not yet
  linked. `StrandsOnlyInRaces` and `CursorStraysOnlyInRaces` say that nothing *but*
  these two breaks the elevator: insertions, merges, completions, timers, switches
  and dispatches before the count may all fall into a registration.
  `beta_cursor` shows what the second kind leads to, section 6 the first. The run
  `beta` stops at the first race, since its properties ask nothing afterwards;
  what holds afterwards is in `beta_races` and in the theorems about `SafeSpec`.
* `theta_races` has THETA's registrations race in every way; only
  `CalmBacklogDrains` excepts behaviours in which two overlapped. `theta` registers
  one process at a time, to have room for a third process after the list head was
  remembered; the theorem `HeadNeverAgain` has both, any number of processes and
  every race.
* The properties of `elevator_switch` hold with every failure the code handles in
  `elevator_init` and `elevator_switch`, those with which it miscounts included:
  `leaked` and `overput` count what these do (section 6), and `RefsExact` says that
  there is no other way to lose or gain a reference.

Deadlock checking is off where an oops stops the machine, and on in
`elevator_switch`, `elevator_merge` and `cfq`.

### Bounds, and why they are enough

* *Requests.* `REQUEST_DEPTH` is 64 in the code and enters only through
  `depth > REQUEST_DEPTH`. With 0 one request is at the limit and a second one
  exceeds it, so that two or three requests show a refusal with something
  waiting. ALPHA has three, so that a root has two children, and the limit 1.
  `elevator_merge` needs three for a request that two others surround.
* *Contexts.* One or two tasks and kblockd: one inside `request_fn`, one that
  submits or switches, one that was kicked. Races of a registration are between
  two. `theta` has a third process, the one that registers late.
* *`MaxSfqq`* bounds the queues allocated between two switches, *`MaxTag`* the
  virtual time of ALPHA. *`MaxStale`*, *`MaxLeak`* bound merges of queued
  requests, which would otherwise grow `stale` and `sfqr_size` without limit; in
  `ElevatorSwitch` `MaxLeak` and `MaxOverput` bound, for each type, the references that
  a failing allocation in `elevator_switch` leaks and that `elevator_init` puts twice.
* *Deadline.* Three sectors, so that a front merge can move a request past one
  neighbour and not past the other, and a later insertion meets an unsorted tree.
* *CFQ.* `Bounds` in `MCCfq`: a process has a sync queue or uses the async queue,
  not both at once, and an exited process does not come back before a switch. The
  two queues that then exist are enough to be merged, split, preempted and freed
  while active; the fallback queue `oom` is there as a third.
* *`NoReuse`* in `beta_races` and `theta_races`: between two switches no request is
  used twice, the finite workload of `CalmBacklogDrains`.

### Fairness

`WF` for a context that holds the lock (it does not stop inside a spinlock) and
for a registration (a task finishes its system call). `SF` for the steps that
take the lock: ticket spinlocks are queued, so a context that keeps spinning gets
it. `SF` also for completions and kblockd: the device completes what it accepted,
kblockd runs queued work; and for the turns of a drain, which the switching task
repeats. Submitting, beginning a switch, unasked runs of the queue, requeues and
busy returns have no fairness. The timer has none in `SfqBeta` and
`LimitedNoops`: service is shown not to depend on it. It has in `SfqTheta`, where
the timer that every dispatch starts is what goes on when the cursor stands on an
empty queue.

## 4. What is proved

`tlapm` checks, for all values of the constants:

| Module | Theorem | States |
|---|---|---|
| NoopKickProofs | `TypeCorrect` | `SafeSpec => []TypeOK` |
| | `KicksSuffice` | `SafeSpec => []NoStranded` |
| | `CountCovers` | `SafeSpec => []NeverUndercounts` |
| | `DrainSuffices` | `SafeSpec => []ExitFindsQueueEmpty` |
| LimitedNoopsProofs | `TypeCorrect` | `Spec => []TypeOK` |
| | `DepthIsExact` | `Spec => []DepthExact` |
| | `CountsAreEnough` | `Spec => []CountsSuffice` |
| | `NothingStranded` | `Spec => []NoStranded` |
| | `DrainSuffices` | `Spec => []ExitFindsQueueEmpty` |
| | `WorkIsStopped` | `Spec => []WorkStopsAtFree` |
| SfqBetaProofs | `TypeCorrect` | `SafeSpec => []TypeOK` |
| | `DepthBounded` | `SafeSpec => []DepthBound` |
| | `CountCovers` | `SafeSpec => []NeverUndercounts` |
| | `HeapNeverHolds` | `SafeSpec => []HeapAtRest` |
| | `ExitStopsWork` | `SafeSpec => []WorkStopsAtFree` |
| | `EveryRequestOnce` | `SafeSpec => []OnePlace` |
| | `CursorExact` | `RacedSpec => []CursorStraysOnlyInRaces` |
| | `NothingStranded` | `RacedSpec => []StrandsOnlyInRaces` |
| SfqThetaProofs | `CountersExact` | `SafeSpec => []CountsExact` |
| | `NothingStranded` | `SafeSpec => []NoStranded` |
| | `HeadNeverAgain` | `SafeSpec => []HeadPassedOver` |
| SortingProofs | `TypeCorrect` | `Spec => []TypeOK` |
| | `TwoOrders` | `Spec => []ListsAgree` |
| | `OrderLostByFrontMerge` | `Spec => SortedUntilFrontMerge` |
| | `PointerLinked` | `Spec => []NextLinked` |
| | `WritesNotStarved` | `Spec => []WritesGetTheirTurn` |
| | `InsertNode`, `DeleteNode` | the array after either, of any length, is a heap of the same requests and one more, or without its root |
| | `RootLeast` | the root of a heap has the least tag |
| | `AlphaDepth` | `AlphaSpec => []DepthExact` |
| | `AlphaNotStranded` | `AlphaSpec => []NoStranded` |
| | `AlphaLeast` | `AlphaSpec => DispatchesLeast` |
| | `AlphaTime` | `MCSpec => GoesBackOnlyInRaces` |
| CfqProofs | `ListExact` | `Spec => []BusyExactly` |
| | `NothingStranded` | `Spec => []NoStranded` |
| | `ReferencesExact` | `Spec => []RefsExact` |
| | `NoBugFires` | `Spec => []NoBug` |
| ElevatorProofs | `MergeStateIsSound` | `MergingSpec => []MergeStateAgrees` |
| | `FencesHold` | `MergingSpec => []BackIsFence` |
| | `EveryReferenceCounted` | `Spec => []RefsExact` |
| | `CodeStaysLoaded` | `Spec => []InUseIsLoaded` |
| | `SwitchIsSafe` | `Spec => SwitchEndsAttached` |

`NoopKickProofs` also has
`Refinement`, `SafeSpec => Server!SafeSpec`: every step of `launch.c`'s elevator is
a step or a stutter of `FifoServer`.

*Assumptions*: finitely many requests, for `Cfq` and `ElevatorSwitch` finitely many
queues, and for `Cfq` finitely many processes; `NoReq`, `NoSfqq`, `NoCfqq`, `NoType`
are nothing else, kblockd is a context and not a process, the bounds and
`REQUEST_DEPTH` are natural numbers (for `noop_1.c` one more: with the limit 0 a single request holds others back and its
completion does not kick), `fifo_batch` is positive, and no process of `SfqTheta`
has the pid 0 (`OwnersAssumption`: the word that `launch_sfq.c` takes for the pid
of the list head is 0, and 0 is the idle task). No theorem assumes away a failure
or a race that its module has: where the code goes wrong, the statement says after
which step. The
theorems about `ElevatorMerge` are for any set of requests, finite or not, any
number of sectors and any limit on the size of a request. The `MCSpec` of
`AlphaTime` is `AlphaSpec`, and the `RacedSpec` of `SfqBetaRaced` is `SafeSpec`, with a
history variable, not a bound.

The theorems about `SfqBeta` and `SfqTheta` are for all `MaxSfqq`, `MaxStale`, those
about `Cfq` for `Spec`, without the bounds of `MCCfq`: they include behaviours that
no run has, such as processes that exit and come back and any number of queues
scheduled to merge in a chain.

*Argument*. Each elevator has one inductive invariant `IInv` (theorem
`Invariance`), each lemma shows that one group of actions preserves it, and each
theorem above is one of its conjuncts or follows from it.

* NoopKick: no lost kick is not inductive alone. The kick of a completion is
  queued only if `sfqr_size` is still positive, so the proof needs
  `NeverUndercounts` with it: whatever waits is counted. That in turn needs that
  completions subtract only what was added, i.e. the types of the lists and the
  arithmetic of their lengths (`Held` of BlockDevice). `Gone` says that no
  request and no context is left once the elevator is replaced.
  `Refinement` maps the line to `queue_head \o queue`. A dispatch moves a request
  from the front of the one list to the other, which leaves the concatenation
  alone because `request_fn` asks only when the driver's list is empty; the drain
  asks in any case, so it must be known that it drains (`DrainsBypassed`). An
  absorbed request must not be in the line already (`PlugApart`).
* LimitedNoops: `Waits` says why something may wait with nobody at work: others
  are in flight, and in `noop_1.c` at least two are outstanding. To keep it, the
  lemma of the completion needs `depth` and `nr_size` *exact* enough that they
  kick (`Counts`), exact counts need that starting a request adds a new element
  to `inflight`, and that needs every request to be in one place (`Placed`:
  plug, elevator, driver's list and device are disjoint, and no list names a
  request twice). `Timers` is `noop_exit_queue`'s two cancels. The lemmas are
  stated for either program; `Noop_1Step` and `CongestionStep` show that the
  actions of the two instances are instances of them.
* SfqBeta, in three layers. `IInv`: the type of `sfqr_size` and `depth` (they
  never go below zero) needs `NeverUndercounts` and `DepthBound`, which need each
  other's list lengths. The bound on the depth needs `HeapAtRest`: the dispatches
  that skip the limit check (an empty queue under the cursor) could otherwise
  exceed it. `RegisteringOK` says what the registers of a half-done registration
  hold, whatever the race; `Gone` and `Timers` carry the order of the two cancels
  in `sfq_exit_queue`. `Placed` adds that a request is in one place, the
  registrations included. `CalmInv`, as long as nothing raced (theorem
  `CalmUntilRace`): the links form one ring of the registered queues in order, except
  for the one registration that is going on (`Ring`); requests belong to linked
  queues of their own process (`Owners`); the cursor is on the ring and as far along
  it as it counts (`Cursor`). No lost kick then still lacks `First`: the first
  dispatch of a scheduler does not kick, so the queue it looks at must not be empty.
  It is the first queue of the ring, and it has a request because the process that
  linked it had come to add one. After two overlapping registrations that is wrong,
  and TLC shows how: a second process links its queue behind one that is not linked
  yet, flushes, and nothing is found; the first process links its queue, its request
  is merged into the other's, and the first dispatch looks at the empty queue and
  does not kick.
* SfqTheta: every dispatch starts the timer, so that `NoStranded` needs nothing
  about the ring and holds in races. `Placed` (a request is in one place, those
  in `sfq_set_request` included) makes the counts exact, `InSetup` ties them to the
  labels of the tasks. `HeadPassedOver` needs little of the ring, and that little
  survives races: `RaceInv` says that the pointers of the list are to registered
  queues or to its head, that the head points at a queue once a dispatch has found
  one, and that the cursor, while the head is remembered, is on a queue. A dispatch
  passes over every queue whose pid is that of `wrong_sfqq`, so that wherever a
  half-written link leads it does not stop at the head.
* Deadline: `Lists` keeps FIFO and tree two orders of one set without repetition,
  whatever the order of the tree. `OrderLostByFrontMerge` needs the sorted tree only:
  in it a descent of `elv_rb_add` has the places between two neighbours as its ends
  (`Descents`), and what is removed leaves the rest in order. `WritesGetTheirTurn`
  follows from `Turn`: the reads that passed a waiting write are at most `starved * fifo_batch + batching`, where
  `starved` counts the batches begun meanwhile and the batch that was going on
  when the write came is the one more.
* SfqAlpha: what `insertNode` and `heapify` leave in an array of any length. Each
  recursion moves a hole along a path. `SiftExists` shows that the function of the
  recursion exists for a path that ends; `RisenHolds` and `SunkHolds` say that it
  loses no element, `RisenHeap` and `SunkHeap` that the heap order holds but
  around the hole (`HeapBut`) and, where the hole stops, everywhere. The state
  machine adds `OnePlace` and `HasRequest`: a request whose tag is written is in no
  array, so that the writes without the lock cannot break the order (`Heaped`).
  `depth` is exact because what completes was dispatched. Nothing kicks when the
  last request completes; no kick is lost because something held back means that
  two are out (`Following`): the limit lets one more in than it says. `AlphaTime`
  adds that a task about to write a finish tag holds a later one than
  `virtual_time`, or has been overtaken (`AdvancesForward`).
* Cfq: the operators of `CfqQueues` compose, so what each of them keeps is said
  once, as a relation between `cfq_data` before and after (`Kept`, `Puts`), and
  shown along the calls: `__cfq_slice_expired`, `cfq_put_queue`,
  `cfq_put_cooperator`, `cfq_exit_icq`, `cfq_setup_merge`, up to `cfq_set_request` and
  `cfq_select_queue`. `Good` has three parts: the types (`Data`), that the
  scheduled merges have no cycle (`Acyclic`: the walks of `cfq_put_cooperator` and
  `cfq_setup_merge` end, and `cfq_setup_merge` is what must not close one), and the
  exact list (`Listed`). An idle timer is cancelled in several places; `Kept` says
  that the queue is then kicked or has nothing to wait for, or the canceller goes
  on to dispatch. `Places` makes what is dispatched the same as what the driver
  and the device have, so that a refusal "because others are out" leaves a
  completion to come, and the completion of the last activated request kicks.
  The references are a second invariant on top, `Books` (theorem `Accounting`).
  `Account` says that each `ref` is the number of the processes that have the
  queue on their path of merges (`Path`, the least set closed under `new_cfqq`;
  `ChainPath` shows that the walk of `cfq_put_cooperator` covers it), plus that of
  its requests, plus the pin of the async queue and of `oom_cfqq`. It is broken
  inside every operation: a process leaves a queue, and then its references along
  the path are put one by one. So `Account` has a set of queues with one put due
  (`Counted`), `cfq_put_queue` pays one of them, and an operation ends `Balanced`.
  `cfq_setup_merge` is right only because it joins two *ends* (`PathMerge`): the
  processes of the first gain the second, which none of them had. The pin
  of a queue that is not sync would be counted with them, hence `Marks`: only
  sync queues that are in use are scheduled to merge or marked as shared, and no
  process has another as its sync queue. `Free` (a request that is nowhere has no queue) makes a new request
  a new holder. Each BUG_ON then is a matter of the books or of `Listed`: a put is
  due, so `ref` is positive; the last put finds no request, so the queue is off the
  list once it is not active; dispatching starts only with a list that is not
  empty, and an expiry keeps it so as long as anything is queued.
* ElevatorSwitch: `RefsExact` compares a count with a number of queues, so the
  invariant says for each queue which of its three pointers holds a reference
  (`Pointers`), and the lemmas follow the cardinality of the holders through each
  step; `leaked` and `overput` move with the two steps that miscount. `Registered` ties
  `elv_list` to the modules' states; code stays loaded because a module with
  references is not unloaded, and a type in use has one unless a put was doubled.
* ElevatorMerge: `MergeInv` has four parts. `Shape` has the types; `Apart` says that
  the plug, noop's list and the driver's list are disjoint and without repetition,
  that what is on them is not free, and that a request that is not free ends above
  sector 0: a lookup in the hash at a sector therefore finds a request that is
  hashed, hence one in noop's list (`FindsInQueue`), and what is merged away leaves
  the list, the hash and `nr_sorted` together. `Barriers` is what `BackIsFence` lacks
  to be inductive: a waiting fence is soft and on the driver's list, what it holds
  back is behind it there or still in noop's list, and when that list is sorted in,
  `Stops` keeps each request behind every soft barrier. The scheduling boundary is
  never a started request, so that the driver cannot take it off the list while it
  is one. `OneMoreKeeps` and `OneLessKeeps` carry the order of all other pairs through
  insertion at any place, removal and requeue; `SortedInKeeps` through a drain.

BlockDeviceProofs has the lemmas that the others cite: on the lists, on `Held` for
each device step, on lists without repetition, on requests being in one place
(`Apart`), and on walks along links. There is no induction over data in the
provers; where an argument needs it (a walk that comes to an end, a chain of
puts, the sifts of a heap, a drain of many requests) the lemmas take a least
counterexample (`LeastNat`), and for a recursive function show first that there is
one (`IteratesExist`, `SiftExists`, `SortingExists`).

## 5. What is only model-checked

Everything under fairness: liveness is out of the prover's reach. These are
`EverythingServed` of `NoopKick` and of `LimitedNoops`, `CalmBacklogDrains` of `SfqBeta`
and of `MCSfqThetaRaces`, and the fairness of `FifoServer` in `ServesInOrder`,
whose safety part is `Refinement`. Every invariant and every action property of a
passing run is proved.

## 6. Seen while modelling, without a run

Each of these follows at once from the lines named; a property about it would
restate them. The models contain them, as a step to `oops` or a lost slot.

* `launch.c`: `noop_exit_queue` (139-145) frees `noop_data` and does not call
  `cancel_work_sync`. While the elevator is attached, `request_fn` asks it for a
  request, and `noop_dispatch` (111-113) or a completion (132) queues `unplug_work`
  because something is counted. Before kblockd comes to it the requests are
  finished, a switch begins, drains a queue that is empty already, and exits: the
  memory is freed with the work item on kblockd's list, and `sfq_kick_queue` then
  reads `rq_queue` out of it (`KickAfterFree`). A drain's own dispatches queue the
  work as well. The SFQ elevators (`sfq_4.c:345`, `launch_sfq.c:391`), CFQ and
  `noop_with_congestion.c` cancel theirs. No line of the repository says that
  `launch.c` does, which is why this is no finding with a run.
* `noop_1.c`: the same gap (104-110, `KickAfterKfree`). The work item that is left
  may run while the next elevator is attached (`LeftWorkRuns`).
* `noop_1.c:3-4` says "when the noop runs with 64jobs with 1 depth it freezes", "when
  the noop runs with 32jobs with 1 depth it works". The run `limited` has that depth
  and finds no freeze, and `NothingStranded` proves that no kick is lost for any
  number of requests. What the comment may mean that the model does have: a merged
  request stays linked, is freed, and is dispatched (no `elevator_merge_req_fn`), and
  the work item runs on freed memory, both an `oops`, at which `EverythingServed`
  and `NoStranded` stop to promise anything; more jobs merge more. What it may mean
  that the model does not have: an earlier version of the file (the comment names
  no version; the limit of the present one lets two requests out, and its timer is
  unused); a driver that stops its queue and does not restart it (`DeviceBusy`
  allows a busy device only while something is in flight); or tasks that sleep for a
  free request, of which the block layer has a limited number. Nothing in
  the file depends on how many jobs there are, so that the number must work through one
  of these.
* `sfq_4.c`: the unlocked `sfqq_size++` (189) loses increments for good when two
  processes register together; `depth > REQUEST_DEPTH` (268) admits one request
  more than the limit; a request that a merge absorbs stays linked, is freed
  (335) and dispatched; a forced dispatch returns 0 with requests left (317); a
  queue can lose every turn to the limit next to a process that submits steadily.
* `launch_sfq.c`: `wrong_sfqq` is a queue and not the list head when other than
  two queues are there, and is then never served (`BacklogDrains` excepts it);
  `hrtimer_cancel` is commented out in `sfq_exit_queue` (390) while every
  dispatch, those of the drain too, starts the timer.
* `sfq-shed_16_array_limit.c`: the virtual time follows the tag of the *last*
  array element, not of the least or greatest, and is read and written without
  the lock.
* `deadline_example.c`: a dispatch always answers 0, so that a drain believes the
  elevator empty after one request, and `request_fn` leaves what was dispatched;
  asked when nothing waits it reads `data_dir` uninitialised. A bio merged in front
  of a linked request lowers its sector (`elevator.c:425-433`, one-hit cache), and
  the file has no `elevator_merged_fn` that would sort it in again: "the request
  after 'rq' in sector-sorted order" (40) is then not that (`FrontMerge`,
  `SortedUntilFrontMerge`). Without `elevator_merge_req_fn` a request that was merged away
  stays on both lists; `next_rq` may point at it, and its dispatch is the `oops`.
* `elevator.c`: when an elevator's own init function fails after
  `elevator_alloc`, `kobject_put` has put the module's reference and
  `elevator_init` (229) puts it again; when `elevator_alloc` fails in
  `elevator_switch`, nobody does.
* `sfq-iosched_12.c`: with one process `heap_limit_size - 1` is 0, nothing enters
  the heap and nothing is dispatched; `sfq_4.c` has a fallback (307-315).

## 7. What is not modelled, and why

* *Earlier versions.* Most of the repository's C files are steps on the way to
  the programs above: 12 of BETA, 21 of ALPHA, 5 of THETA, 3 of the write
  experiments, 16 of the heap, and CFQ taken apart in 9 files. They repeat the
  same handlers with parts missing or commented out. A model of each would be the
  modelled one with guards left out and would say nothing new, which is why the
  part of all lines that definitions stand for stays near a tenth, although the
  programs that were built and measured are covered.
* *CFQ*: cgroups and their statistics, priorities other than best effort, the
  values of slices and think times, sysfs. The comparisons they decide are left
  open, which only adds behaviours.
* *Memory.* The `requests` arrays and their unlocked `krealloc` (BETA, THETA;
  ALPHA's grow once at 20000 requests); failed allocations where they leave no
  state (`noop_init_queue`) or write through NULL at once.
* *BETA's tags*, `virtual_time` and `prev_sfqr`, which decide nothing: the heap
  never holds two. They are `int`s that overflow after some 21 million requests.
* *Elevator core*: flush insertion, runtime power management, sysfs attributes,
  `elv_dispatch_add_tail` (called by Deadline only), `ioc` caches. In
  `ElevatorMerge` requests are not in the middle of being issued and completed by
  several contexts; that is `BlockDevice`'s part, which leaves the order open.
* *Deadline's end*: `deadline_exit_queue` and a second init.
* Trace post-processing tools, cache-pool and timer trials, logs, notes: no
  state of their own.
