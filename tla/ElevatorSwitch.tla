--------------------------- MODULE ElevatorSwitch ---------------------------
(***************************************************************************)
(* elevator_experiment/elevator.c: the list of elevator types, the module  *)
(* references that keep their code loaded, and elevator_init and           *)
(* elevator_switch with their error paths.  Almost every module of the     *)
(* repository is called "sfq": types that share a name matter here.        *)
(*                                                                         *)
(* q->sysfs_lock admits one operation per queue, elv_list_lock makes each  *)
(* look-up or change of the list one step; everything else interleaves.    *)
(* The drain itself is the elevators' business (KickedElevator).           *)
(*                                                                         *)
(* Two of the error paths get the count of references wrong: leaked and    *)
(* overput are no state of the code, but the history of what they did.     *)
(***************************************************************************)
EXTENDS Integers, FiniteSets

CONSTANTS Queues, Types,
          Name,              \* the elevator_name of each type
          Builtin,           \* the type that is not a module: noop
          Default,           \* chosen_elevator, or CONFIG_DEFAULT_IOSCHED
          NoType,            \* a NULL pointer to a type
          MaxLeak,           \* bound on the references to a type that leak ...
          MaxOverput         \* ... and on those that are put twice

ASSUME TypesAssumption == Builtin \in Types /\ NoType \notin Types
ASSUME NamesAssumption == DOMAIN Name = Types
ASSUME BoundsAssumption == MaxLeak \in Nat /\ MaxOverput \in Nat
ASSUME QueuesAssumption == IsFiniteSet(Queues)

VARIABLES
  elv_list,            \* the registered types; their order decides nothing
  module, refs,        \* state and reference count of each type's module
  elevator,            \* the type of q->elevator
  registered,          \* q->elevator is in sysfs
  step,                \* where the operation on each queue is
  old, new, was,       \* its local variables: two types, a flag
  leaked, overput      \* references that nobody will put, or put twice

listVars == <<elv_list, module, refs>>
history == <<leaked, overput>>
vars == <<listVars, history, elevator, registered, step, old, new, was>>

Modules == Types \ {Builtin}
Names == {Name[t] : t \in Types}

Steps == {"idle", "init", "loading", "got", "switch", "register",
          "exit", "fail_register", "fail_init"}

TypeOK ==
  /\ elv_list \subseteq Types
  /\ module \in [Types -> {"unloaded", "live", "going"}]
  /\ refs \in [Types -> Int]
  /\ leaked \in [Types -> Nat] /\ overput \in [Types -> Nat]
  /\ elevator \in [Queues -> Types \cup {NoType}]
  /\ registered \in [Queues -> BOOLEAN] /\ was \in [Queues -> BOOLEAN]
  /\ step \in [Queues -> Steps]
  /\ old \in [Queues -> Types \cup {NoType}]
  /\ new \in [Queues -> Types \cup Names \cup {NoType}]

Init ==
  /\ elv_list = {Builtin}
  /\ module = [t \in Types |-> IF t = Builtin THEN "live" ELSE "unloaded"]
  /\ refs = [t \in Types |-> 0]
  /\ leaked = [t \in Types |-> 0] /\ overput = [t \in Types |-> 0]
  /\ elevator = [q \in Queues |-> NoType]
  /\ registered = [q \in Queues |-> FALSE] /\ was = [q \in Queues |-> FALSE]
  /\ step = [q \in Queues |-> "idle"]
  /\ old = [q \in Queues |-> NoType] /\ new = [q \in Queues |-> NoType]

Step(q, s) == step' = [step EXCEPT ![q] = s]
Attach(q, t) == elevator' = [elevator EXCEPT ![q] = t]

-----------------------------------------------------------------------------
(* The list of types and the modules.                                      *)

elevator_find(n) == {t \in elv_list : Name[t] = n}

Found(n) == elevator_find(n)

\* try_module_get: not of a module that is being removed.
Gettable(n) == {t \in elevator_find(n) : module[t] = "live"}
elevator_get(t) == refs' = [refs EXCEPT ![t] = @ + 1]
Put(t, n) == refs' = [refs EXCEPT ![t] = @ - n]
elevator_put(t) == Put(t, 1)

FreeName(t) == elevator_find(Name[t]) = {}

\* module_init: -EBUSY for a second type of the same name.
elv_register(t) ==
  /\ t \in Modules /\ module[t] = "unloaded" /\ FreeName(t)
  /\ elv_list' = elv_list \cup {t}
  /\ module' = [module EXCEPT ![t] = "live"]
  /\ UNCHANGED <<refs, history, elevator, registered, step>>
  /\ UNCHANGED <<old, new, was>>

\* rmmod: refused as long as there are references ...
RemoveModule(t) ==
  /\ t \in Modules /\ module[t] = "live" /\ refs[t] = 0
  /\ module' = [module EXCEPT ![t] = "going"]
  /\ UNCHANGED <<elv_list, refs, history, elevator, registered, step>>
  /\ UNCHANGED <<old, new, was>>

\* ... then module_exit, and the code is gone.
elv_unregister(t) ==
  /\ module[t] = "going"
  /\ elv_list' = elv_list \ {t}
  /\ module' = [module EXCEPT ![t] = "unloaded"]
  /\ UNCHANGED <<refs, history, elevator, registered, step>>
  /\ UNCHANGED <<old, new, was>>

-----------------------------------------------------------------------------
(* A new queue, and the end of one.                                        *)

\* The default elevator, or noop if that is not there.
elevator_init(q) ==
  /\ step[q] = "idle" /\ elevator[q] = NoType
  /\ \E t \in IF Gettable(Default) = {} THEN {Builtin} ELSE Gettable(Default) :
       elevator_get(t) /\ new' = [new EXCEPT ![q] = t]
  /\ Step(q, "init")
  /\ UNCHANGED <<elv_list, module, history, elevator, registered, old, was>>

\* elevator_init_fn.  When elevator_alloc fails the reference is put by
\* elevator_init; when the elevator's data cannot be allocated kobject_put
\* releases the elevator_queue, which puts it, and elevator_init does again.
InitDone(q) ==
  /\ step[q] = "init"
  /\ \/ Attach(q, new[q]) /\ UNCHANGED <<refs, overput>>
     \/ elevator_put(new[q]) /\ UNCHANGED <<elevator, overput>>
     \/ /\ overput[new[q]] < MaxOverput
        /\ Put(new[q], 2)
        /\ overput' = [overput EXCEPT ![new[q]] = @ + 1]
        /\ UNCHANGED elevator
  /\ new' = [new EXCEPT ![q] = NoType]
  /\ Step(q, "idle")
  /\ UNCHANGED <<elv_list, module, leaked, registered, old, was>>

\* blk_register_queue calls elv_register_queue.
elv_register_queue(q) ==
  /\ step[q] = "idle" /\ elevator[q] # NoType
  /\ registered' = [registered EXCEPT ![q] = TRUE]
  /\ UNCHANGED <<listVars, history, elevator, step, old, new, was>>

\* The queue goes away: elv_unregister_queue, elevator_exit.
elevator_exit(q) ==
  /\ step[q] = "idle" /\ elevator[q] # NoType
  /\ elevator_put(elevator[q])
  /\ Attach(q, NoType) /\ registered' = [registered EXCEPT ![q] = FALSE]
  /\ UNCHANGED <<elv_list, module, history, step, old, new, was>>

-----------------------------------------------------------------------------
(* elevator_change.                                                        *)

\* A name that is not registered is requested from user space, without the
\* lock of the list, and looked up again.
Lookup(q, n) ==
  \/ /\ \E t \in Gettable(n) :
          elevator_get(t) /\ new' = [new EXCEPT ![q] = t]
     /\ Step(q, "got")
  \/ /\ elevator_find(n) = {} /\ step[q] = "idle"
     /\ new' = [new EXCEPT ![q] = n]
     /\ Step(q, "loading") /\ UNCHANGED refs
  \/ /\ Gettable(n) = {} /\ (elevator_find(n) # {} \/ step[q] = "loading")
     /\ new' = [new EXCEPT ![q] = NoType]
     /\ Step(q, "idle") /\ UNCHANGED refs

elevator_change(q) ==
  /\ \/ step[q] = "idle" /\ elevator[q] # NoType /\ \E n \in Names : Lookup(q, n)
     \/ step[q] = "loading" /\ Lookup(q, new[q])
  /\ UNCHANGED <<elv_list, module, history, elevator, registered, old, was>>

SameName(q) ==
  /\ step[q] = "got" /\ Name[new[q]] = Name[elevator[q]]
  /\ elevator_put(new[q])
  /\ Step(q, "idle")
  /\ new' = [new EXCEPT ![q] = NoType]
  /\ UNCHANGED <<elv_list, module, history, elevator, registered, old, was>>

-----------------------------------------------------------------------------
(* elevator_switch.                                                        *)

\* The old elevator is drained and taken out of sysfs.
Quiesce(q) ==
  /\ step[q] = "got" /\ Name[new[q]] # Name[elevator[q]]
  /\ old' = [old EXCEPT ![q] = elevator[q]]
  /\ was' = [was EXCEPT ![q] = registered[q]]
  /\ registered' = [registered EXCEPT ![q] = FALSE]
  /\ Step(q, "switch")
  /\ UNCHANGED <<listVars, history, elevator, new>>

\* elevator_init_fn.  Nothing puts the reference if elevator_alloc fails.
SwitchInit(q) ==
  /\ step[q] = "switch"
  /\ \/ Attach(q, new[q]) /\ Step(q, "register") /\ UNCHANGED <<refs, leaked>>
     \/ /\ leaked[new[q]] < MaxLeak
        /\ leaked' = [leaked EXCEPT ![new[q]] = @ + 1]
        /\ Step(q, "fail_init") /\ UNCHANGED <<elevator, refs>>
     \/ /\ elevator_put(new[q])
        /\ Step(q, "fail_init") /\ UNCHANGED <<elevator, leaked>>
  /\ UNCHANGED <<elv_list, module, overput, registered, old, new, was>>

SwitchRegister(q) ==
  /\ step[q] = "register"
  /\ \/ registered' = [registered EXCEPT ![q] = was[q]] /\ Step(q, "exit")
     \/ was[q] /\ Step(q, "fail_register") /\ UNCHANGED registered
  /\ UNCHANGED <<listVars, history, elevator, old, new, was>>

Forget(q) ==
  /\ old' = [old EXCEPT ![q] = NoType] /\ new' = [new EXCEPT ![q] = NoType]
  /\ was' = [was EXCEPT ![q] = FALSE]

ExitNew(q) == elevator_put(elevator[q])
ExitOld(q) == elevator_put(old[q])
KillOld(q) ==
  /\ step[q] = "exit"
  /\ ExitOld(q)
  /\ Step(q, "idle") /\ Forget(q)
  /\ UNCHANGED <<elv_list, module, history, elevator, registered>>

FailRegister(q) ==
  /\ step[q] = "fail_register"
  /\ elevator_put(elevator[q])
  /\ Step(q, "fail_init")
  /\ UNCHANGED <<elv_list, module, history, elevator, registered>>
  /\ UNCHANGED <<old, new, was>>

KeptNew(q) == elevator[q]
Restored(q) == old[q]

\* elv_register_queue, whether the old one was registered or not, may fail.
RestoreOld(q) ==
  /\ step[q] = "fail_init"
  /\ Attach(q, Restored(q))
  /\ \E ok \in BOOLEAN : registered' = [registered EXCEPT ![q] = ok]
  /\ Step(q, "idle") /\ Forget(q)
  /\ UNCHANGED <<listVars, history>>

-----------------------------------------------------------------------------
Next ==
  \/ \E t \in Types : elv_register(t) \/ RemoveModule(t) \/ elv_unregister(t)
  \/ \E q \in Queues :
       \/ elevator_init(q) \/ InitDone(q)
       \/ elv_register_queue(q) \/ elevator_exit(q)
       \/ elevator_change(q) \/ SameName(q)
       \/ Quiesce(q) \/ SwitchInit(q) \/ SwitchRegister(q)
       \/ KillOld(q) \/ FailRegister(q) \/ RestoreOld(q)

Spec == Init /\ [][Next]_vars

-----------------------------------------------------------------------------
(* Properties.                                                             *)

\* What the queues hold of type t: their elevators, the old ones during a
\* switch, the new ones until they are attached or released.
ByElevator(t) == {q \in Queues : elevator[q] = t /\ step[q] # "fail_init"}
ByOld(t) ==
  {q \in Queues : old[q] = t /\ (step[q] = "fail_init" \/ elevator[q] # t)}
ByNew(t) ==
  {q \in Queues : new[q] = t /\ step[q] \in {"init", "got", "switch"}}

\* Every reference is accounted for, whichever step of a switch fails: a type
\* has those of the queues that use it or may go back to it, those that the
\* failed allocations of a switch leaked (elevator.c:917), less those that a
\* failed elevator_init put twice (elevator.c:229).
RefsExact ==
  \A t \in Types :
    refs[t] + overput[t] =
      Cardinality(ByElevator(t)) + Cardinality(ByOld(t))
        + Cardinality(ByNew(t)) + leaked[t]

\* The code a queue runs stays loaded while it is attached, or may be
\* restored, unless a reference to it was put twice.
InUseIsLoaded ==
  \A t \in Types :
    /\ ByElevator(t) \cup ByOld(t) \cup ByNew(t) # {}
    /\ overput[t] = 0
    => module[t] = "live"

\* "this way we have a chance of going back to the old one" (elevator.c:890):
\* a switch begun ends with the queue on the new elevator or on the old one,
\* which has not been freed.
SwitchEnds ==
  \A q \in Queues : step[q] # "idle" /\ step'[q] = "idle" /\ old[q] # NoType
    => /\ elevator'[q] \in {old[q], new[q]}
       /\ refs'[elevator'[q]] + overput'[elevator'[q]] > 0

SwitchEndsAttached == [][SwitchEnds]_vars
=============================================================================
