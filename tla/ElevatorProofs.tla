---------------------------- MODULE ElevatorProofs ----------------------------
(***************************************************************************)
(* Proofs about elevator_experiment/elevator.c: its two models share no    *)
(* variable, and the proofs no lemma.                                      *)
(*                                                                         *)
(* ElevatorMerge, for any number of requests, of sectors, and any limit on *)
(* the size of a request.  MergeStateAgrees needs to know where a request  *)
(* can be: what the hash names is in noop's list because free requests are *)
(* never hashed, and a request ends at a sector above 0.  BackIsFence is   *)
(* not inductive: elv_dispatch_sort moves what a fence holds back from     *)
(* noop's list to the driver's, and stops at the fence only because fences *)
(* are soft barriers on the driver's list: Barriers.  What sorting several *)
(* requests in does is shown by a least counterexample, and the two lists  *)
(* by what one element more, or less, does to the order of the others.     *)
(*                                                                         *)
(* ElevatorSwitch, for any number of queues and types, and every failure   *)
(* of elevator_init and of a switch.  RefsExact is not inductive: whether  *)
(* a pointer of an operation in progress is a reference depends on the     *)
(* step it is in, so that Pointers says what the three pointers of a queue *)
(* are at each step.  That the code in use is loaded, as long as no        *)
(* reference to it was put twice, follows from the counts only together    *)
(* with the list of types: a reference is taken of a live module, and a    *)
(* module leaves when nobody holds one.                                    *)
(***************************************************************************)
EXTENDS ElevatorSwitch, ElevatorMerge, FiniteSetTheorems, SequenceTheorems,
        WellFoundedInduction, NaturalsInduction, TLAPS

-----------------------------------------------------------------------------
(* Switching: the references.                                              *)

Live == {"switch", "register", "exit", "fail_register", "fail_init"}

Pointers(q) ==
  /\ step[q] \in {"idle", "init", "loading", "got"} => old[q] = NoType
  /\ step[q] \in Live =>
       old[q] \in Types /\ new[q] \in Types /\ Name[new[q]] # Name[old[q]]
  /\ step[q] = "idle" => new[q] = NoType
  /\ step[q] = "init" => elevator[q] = NoType /\ new[q] \in Types
  /\ step[q] = "loading" => elevator[q] \in Types
  /\ step[q] = "got" => elevator[q] \in Types /\ new[q] \in Types
  /\ step[q] = "switch" => elevator[q] = old[q]
  /\ step[q] \in {"register", "exit", "fail_register"} => elevator[q] = new[q]

\* How many references to t the pointers of q stand for.
One(b) == IF b THEN 1 ELSE 0
HoldsElevator(q, t) == elevator[q] = t /\ step[q] # "fail_init"
HoldsOld(q, t) == old[q] = t /\ (step[q] = "fail_init" \/ elevator[q] # t)
HoldsNew(q, t) == new[q] = t /\ step[q] \in {"init", "got", "switch"}
Uses(q, t) ==
  One(HoldsElevator(q, t)) + One(HoldsOld(q, t)) + One(HoldsNew(q, t))

Registered ==
  /\ \A t \in Types : t \in elv_list <=> module[t] # "unloaded"
  /\ module[Builtin] = "live"

IInv ==
  /\ TypeOK /\ Registered
  /\ \A q \in Queues : Pointers(q)
  /\ RefsExact
  /\ \A q \in Queues, t \in Types :
       Uses(q, t) > 0 /\ overput[t] = 0 => module[t] = "live"

\* The references to t that pointers stand for.
Net(t) == refs[t] + overput[t] - leaked[t]

-----------------------------------------------------------------------------
(* Counting the holders.                                                   *)

\* The number of holders changes by what one queue does.
LEMMA OneHolder ==
  ASSUME NEW S \in SUBSET Queues, NEW T \in SUBSET Queues, NEW q \in Queues,
         S \ {q} = T \ {q}
  PROVE  /\ Cardinality(S) \in Nat /\ Cardinality(T) \in Nat
         /\ Cardinality(T) = Cardinality(S) + One(q \in T) - One(q \in S)
<1>1. IsFiniteSet(S) /\ IsFiniteSet(T)
  BY QueuesAssumption, FS_Subset
<1>2. Cardinality(S) \in Nat /\ Cardinality(T) \in Nat
  BY <1>1, FS_CardinalityType
<1>3. /\ Cardinality(S \ {q}) =
           IF q \in S THEN Cardinality(S) - 1 ELSE Cardinality(S)
      /\ Cardinality(T \ {q}) =
           IF q \in T THEN Cardinality(T) - 1 ELSE Cardinality(T)
  BY <1>1, FS_RemoveElement
<1> QED  BY <1>2, <1>3 DEF One

\* A type with a holder has a reference, or one was put twice.
LEMMA HolderHasReference ==
  ASSUME TypeOK, RefsExact, NEW q \in Queues, NEW t \in Types
  PROVE  refs[t] + overput[t] >= Uses(q, t)
<1> DEFINE E == ByElevator(t)
           O == ByOld(t)
           N == ByNew(t)
<1>1. E \in SUBSET Queues /\ O \in SUBSET Queues /\ N \in SUBSET Queues
  BY DEF ByElevator, ByOld, ByNew
<1>2. /\ q \in E <=> HoldsElevator(q, t)
      /\ q \in O <=> HoldsOld(q, t)
      /\ q \in N <=> HoldsNew(q, t)
  BY DEF ByElevator, ByOld, ByNew, HoldsElevator, HoldsOld, HoldsNew
<1>3. refs[t] + overput[t] =
        Cardinality(E) + Cardinality(O) + Cardinality(N) + leaked[t]
  BY DEF RefsExact
<1> HIDE DEF E, O, N
<1>4. ASSUME NEW S \in SUBSET Queues
      PROVE  Cardinality(S) \in Nat /\ Cardinality(S) >= One(q \in S)
  <2>1. Cardinality(S) \in Nat /\ Cardinality(S \ {q}) \in Nat
    BY QueuesAssumption, FS_Subset, FS_CardinalityType
  <2>2. Cardinality(S \ {q}) =
          IF q \in S THEN Cardinality(S) - 1 ELSE Cardinality(S)
    BY QueuesAssumption, FS_Subset, FS_RemoveElement
  <2> QED  BY <2>1, <2>2 DEF One
<1>5. /\ Cardinality(E) \in Nat /\ Cardinality(E) >= One(HoldsElevator(q, t))
      /\ Cardinality(O) \in Nat /\ Cardinality(O) >= One(HoldsOld(q, t))
      /\ Cardinality(N) \in Nat /\ Cardinality(N) >= One(HoldsNew(q, t))
  BY <1>1, <1>2, <1>4 DEF One
<1>6. refs[t] \in Int /\ overput[t] \in Nat /\ leaked[t] \in Nat
  BY DEF TypeOK
<1> QED  BY <1>3, <1>5, <1>6 DEF Uses, One

\* A step of the operation on q keeps the invariant if its references pay
\* for the pointers it adds, and those point to live modules.
Same(p) ==
  /\ elevator'[p] = elevator[p] /\ step'[p] = step[p]
  /\ old'[p] = old[p] /\ new'[p] = new[p]

LEMMA QueueStep ==
  ASSUME IInv, NEW q \in Queues, UNCHANGED <<elv_list, module>>,
         TypeOK',
         \A p \in Queues \ {q} : Same(p),
         Pointers(q)',
         \A t \in Types : Net(t)' - Net(t) = Uses(q, t)' - Uses(q, t),
         \A t \in Types : overput'[t] = 0 => overput[t] = 0,
         \A t \in Types :
           Uses(q, t)' > 0 => Uses(q, t) > 0 \/ module[t] = "live"
  PROVE  IInv'
<1>1. \A p \in Queues : Pointers(p)'
  BY DEF IInv, Pointers, Same
<1>2. ASSUME NEW t \in Types
      PROVE  refs'[t] + overput'[t] =
               Cardinality(ByElevator(t)') + Cardinality(ByOld(t)')
                 + Cardinality(ByNew(t)') + leaked'[t]
  <2> DEFINE E == ByElevator(t)
             O == ByOld(t)
             N == ByNew(t)
             Ep == ByElevator(t)'
             Op == ByOld(t)'
             Np == ByNew(t)'
  <2>1. /\ E \in SUBSET Queues /\ O \in SUBSET Queues /\ N \in SUBSET Queues
        /\ Ep \in SUBSET Queues /\ Op \in SUBSET Queues /\ Np \in SUBSET Queues
    BY DEF ByElevator, ByOld, ByNew
  <2>2. E \ {q} = Ep \ {q} /\ O \ {q} = Op \ {q} /\ N \ {q} = Np \ {q}
    BY DEF ByElevator, ByOld, ByNew, Same
  <2>3. /\ q \in E <=> HoldsElevator(q, t)
        /\ q \in O <=> HoldsOld(q, t)
        /\ q \in N <=> HoldsNew(q, t)
        /\ q \in Ep <=> HoldsElevator(q, t)'
        /\ q \in Op <=> HoldsOld(q, t)'
        /\ q \in Np <=> HoldsNew(q, t)'
    BY DEF ByElevator, ByOld, ByNew, HoldsElevator, HoldsOld, HoldsNew
  <2>4. refs[t] + overput[t] =
          Cardinality(E) + Cardinality(O) + Cardinality(N) + leaked[t]
    BY DEF IInv, RefsExact
  <2> HIDE DEF E, O, N, Ep, Op, Np
  <2>5. /\ Cardinality(E) \in Nat /\ Cardinality(Ep) \in Nat
        /\ Cardinality(Ep) = Cardinality(E) + One(q \in Ep) - One(q \in E)
    BY <2>1, <2>2, OneHolder
  <2>6. /\ Cardinality(O) \in Nat /\ Cardinality(Op) \in Nat
        /\ Cardinality(Op) = Cardinality(O) + One(q \in Op) - One(q \in O)
    BY <2>1, <2>2, OneHolder
  <2>7. /\ Cardinality(N) \in Nat /\ Cardinality(Np) \in Nat
        /\ Cardinality(Np) = Cardinality(N) + One(q \in Np) - One(q \in N)
    BY <2>1, <2>2, OneHolder
  <2>8. /\ Uses(q, t)' = One(q \in Ep) + One(q \in Op) + One(q \in Np)
        /\ Uses(q, t) = One(q \in E) + One(q \in O) + One(q \in N)
    BY <2>3 DEF Uses, One
  <2>9. /\ refs[t] \in Int /\ overput[t] \in Nat /\ leaked[t] \in Nat
        /\ refs'[t] \in Int /\ overput'[t] \in Nat /\ leaked'[t] \in Nat
    BY DEF IInv, TypeOK
  <2>10. /\ One(q \in E) \in Nat /\ One(q \in O) \in Nat /\ One(q \in N) \in Nat
         /\ One(q \in Ep) \in Nat /\ One(q \in Op) \in Nat /\ One(q \in Np) \in Nat
    BY DEF One
  <2>11. /\ Net(t)' = refs'[t] + overput'[t] - leaked'[t]
         /\ Net(t) = refs[t] + overput[t] - leaked[t]
    BY DEF Net
  <2>12. (refs'[t] + overput'[t] - leaked'[t]) - (refs[t] + overput[t] - leaked[t])
           = (One(q \in Ep) + One(q \in Op) + One(q \in Np))
               - (One(q \in E) + One(q \in O) + One(q \in N))
    <3>1. Net(t)' - Net(t) = Uses(q, t)' - Uses(q, t)
      BY Zenon
    <3> QED  BY ONLY <2>8, <2>11, <3>1, Zenon
  <2>13. (Cardinality(Ep) + Cardinality(Op) + Cardinality(Np))
           - (Cardinality(E) + Cardinality(O) + Cardinality(N))
           = (One(q \in Ep) + One(q \in Op) + One(q \in Np))
               - (One(q \in E) + One(q \in O) + One(q \in N))
    BY ONLY <2>5, <2>6, <2>7, <2>10
  <2>14. refs'[t] + overput'[t] =
           Cardinality(Ep) + Cardinality(Op) + Cardinality(Np) + leaked'[t]
    <3>1. (refs'[t] + overput'[t] - leaked'[t])
            - (refs[t] + overput[t] - leaked[t])
            = (Cardinality(Ep) + Cardinality(Op) + Cardinality(Np))
                - (Cardinality(E) + Cardinality(O) + Cardinality(N))
      BY ONLY <2>12, <2>13, Zenon
    <3>2. /\ Cardinality(E) \in Nat /\ Cardinality(O) \in Nat /\ Cardinality(N) \in Nat
          /\ Cardinality(Ep) \in Nat /\ Cardinality(Op) \in Nat /\ Cardinality(Np) \in Nat
      BY ONLY <2>5, <2>6, <2>7
    <3> QED  BY ONLY <2>4, <2>9, <3>1, <3>2
  <2> QED  BY <2>14 DEF Ep, Op, Np
<1>4. RefsExact'
  BY <1>2 DEF RefsExact
<1>5. ASSUME NEW p \in Queues, NEW t \in Types, Uses(p, t)' > 0,
             overput'[t] = 0
      PROVE  module'[t] = "live"
  <2>1. CASE p = q
    BY <1>5, <2>1 DEF IInv
  <2>2. CASE p # q
    <3>1. Uses(p, t)' = Uses(p, t)
      BY <2>2 DEF Uses, HoldsElevator, HoldsOld, HoldsNew, Same, One
    <3> QED  BY <1>5, <3>1 DEF IInv
  <2> QED  BY <2>1, <2>2
<1>6. Registered'
  BY DEF IInv, Registered
<1> QED  BY <1>1, <1>4, <1>5, <1>6 DEF IInv

-----------------------------------------------------------------------------
(* The steps: the list of types, one queue, a switch.                      *)

LEMMA InitIInv == Init => IInv
<1> SUFFICES ASSUME Init PROVE IInv
  OBVIOUS
<1>1. TypeOK
  BY TypesAssumption DEF Init, TypeOK, Steps
<1>2. Registered
  BY TypesAssumption DEF Init, Registered
<1>3. \A q \in Queues : Pointers(q)
  BY DEF Init, Pointers, Live
<1>4. \A q \in Queues, t \in Types : Uses(q, t) = 0
  BY TypesAssumption DEF Init, Uses, One, HoldsElevator, HoldsOld, HoldsNew
<1>5. RefsExact
  <2>1. ASSUME NEW t \in Types
        PROVE  ByElevator(t) = {} /\ ByOld(t) = {} /\ ByNew(t) = {}
    BY <2>1, TypesAssumption DEF Init, ByElevator, ByOld, ByNew
  <2>2. \A t \in Types : refs[t] = 0 /\ overput[t] = 0 /\ leaked[t] = 0
    BY DEF Init
  <2> QED  BY <2>1, <2>2, FS_EmptySet DEF RefsExact
<1> QED  BY <1>1, <1>2, <1>3, <1>4, <1>5 DEF IInv

\* Removing a module needs that it has no references.
LEMMA TypesIInv ==
  ASSUME IInv, NEW t \in Types,
         elv_register(t) \/ RemoveModule(t) \/ elv_unregister(t)
  PROVE  IInv'
<1>1. UNCHANGED <<refs, leaked, overput, elevator, registered, step, old, new,
                  was>>
  BY DEF elv_register, RemoveModule, elv_unregister, history
<1>2. TypeOK'
  BY <1>1 DEF IInv, TypeOK, elv_register, RemoveModule, elv_unregister
<1>3. Registered'
  BY TypesAssumption DEF IInv, Registered, TypeOK, elv_register, RemoveModule,
                         elv_unregister, Modules
<1>4. (\A q \in Queues : Pointers(q))'
  BY <1>1 DEF IInv, Pointers
<1>5. RefsExact'
  BY <1>1 DEF IInv, RefsExact, ByElevator, ByOld, ByNew
<1>6. ASSUME NEW q \in Queues, NEW u \in Types, Uses(q, u)' > 0,
             overput'[u] = 0
      PROVE  module'[u] = "live"
  <2>1. Uses(q, u)' = Uses(q, u) /\ overput[u] = 0
    BY <1>1, <1>6 DEF Uses, HoldsElevator, HoldsOld, HoldsNew
  <2>2. module[u] = "live"
    BY <1>6, <2>1 DEF IInv
  <2>3. refs[u] + overput[u] >= Uses(q, u) /\ refs[u] \in Int
    BY HolderHasReference DEF IInv, TypeOK
  <2>4. Uses(q, u) \in Nat
    BY DEF Uses, One
  <2>5. refs[u] # 0
    BY <1>6, <2>1, <2>3, <2>4
  <2> QED
    BY <2>2, <2>5 DEF IInv, TypeOK, elv_register, RemoveModule, elv_unregister
<1> QED  BY <1>2, <1>3, <1>4, <1>5, <1>6 DEF IInv

\* A new queue takes a reference before it is attached.
LEMMA InitStepIInv ==
  ASSUME IInv, NEW q \in Queues,
         elevator_init(q) \/ InitDone(q)
  PROVE  IInv'
<1> USE DEF Step, Attach, elevator_put, elevator_get, Put
<1>1. CASE elevator_init(q)
  <2>1. PICK t \in Types : /\ module[t] = "live"
                           /\ refs' = [refs EXCEPT ![t] = @ + 1]
                           /\ new' = [new EXCEPT ![q] = t]
    BY <1>1, TypesAssumption
       DEF elevator_init, Gettable, elevator_find, IInv, Registered, TypeOK
  <2>2. /\ step[q] = "idle" /\ elevator[q] = NoType
        /\ step' = [step EXCEPT ![q] = "init"]
        /\ UNCHANGED <<elv_list, module, leaked, overput, elevator, registered,
                       old, was>>
    BY <1>1 DEF elevator_init, history
  <2>3. TypeOK /\ Pointers(q)
    BY DEF IInv
  <2>4. TypeOK'
    BY <2>1, <2>2, <2>3 DEF TypeOK, Steps
  <2>5. (\A p \in Queues \ {q} : Same(p)) /\ Pointers(q)'
    BY <2>1, <2>2, <2>3 DEF Same, Pointers, Live, TypeOK
  <2>6. ASSUME NEW u \in Types
        PROVE  /\ Net(u)' - Net(u) = Uses(q, u)' - Uses(q, u)
               /\ overput'[u] = 0 => overput[u] = 0
               /\ Uses(q, u)' > 0 => Uses(q, u) > 0 \/ module[u] = "live"
    BY <2>1, <2>2, <2>3, TypesAssumption
       DEF Net, Uses, One, HoldsElevator, HoldsOld, HoldsNew, TypeOK, Pointers
  <2> QED  BY <2>2, <2>4, <2>5, <2>6, QueueStep
<1>2. CASE InitDone(q)
  <2>1. TypeOK /\ Pointers(q)
    BY DEF IInv
  <2>2. /\ step[q] = "init" /\ step' = [step EXCEPT ![q] = "idle"]
        /\ new' = [new EXCEPT ![q] = NoType]
        /\ UNCHANGED <<elv_list, module, leaked, registered, old, was>>
        /\ \/ /\ elevator' = [elevator EXCEPT ![q] = new[q]]
              /\ UNCHANGED <<refs, overput>>
           \/ /\ refs' = [refs EXCEPT ![new[q]] = @ - 1]
              /\ UNCHANGED <<elevator, overput>>
           \/ /\ refs' = [refs EXCEPT ![new[q]] = @ - 2]
              /\ overput' = [overput EXCEPT ![new[q]] = @ + 1]
              /\ UNCHANGED elevator
    BY <1>2 DEF InitDone
  <2>3. TypeOK'
    BY <2>1, <2>2 DEF TypeOK, Steps, Pointers
  <2>4. (\A p \in Queues \ {q} : Same(p)) /\ Pointers(q)'
    BY <2>1, <2>2 DEF Same, Pointers, Live, TypeOK
  <2>5. ASSUME NEW u \in Types
        PROVE  /\ Net(u)' - Net(u) = Uses(q, u)' - Uses(q, u)
               /\ overput'[u] = 0 => overput[u] = 0
               /\ Uses(q, u)' > 0 => Uses(q, u) > 0 \/ module[u] = "live"
    BY <2>1, <2>2, TypesAssumption
       DEF Net, Uses, One, HoldsElevator, HoldsOld, HoldsNew, TypeOK, Pointers
  <2> QED  BY <2>2, <2>3, <2>4, <2>5, QueueStep
<1> QED  BY <1>1, <1>2
\* A queue puts its reference when it goes.
LEMMA AttachedIInv ==
  ASSUME IInv, NEW q \in Queues,
         elv_register_queue(q) \/ elevator_exit(q)
  PROVE  IInv'
<1> USE DEF Step, Attach, elevator_put, elevator_get, Put, Forget
<1>1. CASE elv_register_queue(q)
  <2>1. TypeOK /\ Pointers(q)
    BY DEF IInv
  <2>2. /\ registered' = [registered EXCEPT ![q] = TRUE]
        /\ UNCHANGED <<elv_list, module, refs, leaked, overput, elevator, step,
                       old, new, was>>
    BY <1>1 DEF elv_register_queue, listVars, history
  <2>3. TypeOK'
    BY <2>1, <2>2, TypesAssumption DEF TypeOK, Steps, Names, Pointers, Live
  <2>4. (\A p \in Queues \ {q} : Same(p)) /\ Pointers(q)'
    BY <2>1, <2>2, TypesAssumption DEF Same, Pointers, Live, TypeOK
  <2>5. ASSUME NEW u \in Types
        PROVE  /\ Net(u)' - Net(u) = Uses(q, u)' - Uses(q, u)
               /\ overput'[u] = 0 => overput[u] = 0
               /\ Uses(q, u)' > 0 => Uses(q, u) > 0 \/ module[u] = "live"
    BY <2>1, <2>2, TypesAssumption
       DEF Net, Uses, One, HoldsElevator, HoldsOld, HoldsNew, TypeOK, Pointers, Live
  <2> QED  BY <2>2, <2>3, <2>4, <2>5, QueueStep
<1>2. CASE elevator_exit(q)
  <2>1. TypeOK /\ Pointers(q)
    BY DEF IInv
  <2>2. /\ step[q] = "idle" /\ elevator[q] # NoType
        /\ refs' = [refs EXCEPT ![elevator[q]] = @ - 1]
        /\ elevator' = [elevator EXCEPT ![q] = NoType]
        /\ registered' = [registered EXCEPT ![q] = FALSE]
        /\ UNCHANGED <<elv_list, module, leaked, overput, step, old, new, was>>
    BY <1>2 DEF elevator_exit, history
  <2>3. TypeOK'
    BY <2>1, <2>2, TypesAssumption DEF TypeOK, Steps, Names, Pointers, Live
  <2>4. (\A p \in Queues \ {q} : Same(p)) /\ Pointers(q)'
    BY <2>1, <2>2, TypesAssumption DEF Same, Pointers, Live, TypeOK
  <2>5. ASSUME NEW u \in Types
        PROVE  /\ Net(u)' - Net(u) = Uses(q, u)' - Uses(q, u)
               /\ overput'[u] = 0 => overput[u] = 0
               /\ Uses(q, u)' > 0 => Uses(q, u) > 0 \/ module[u] = "live"
    BY <2>1, <2>2, TypesAssumption
       DEF Net, Uses, One, HoldsElevator, HoldsOld, HoldsNew, TypeOK, Pointers, Live
  <2> QED  BY <2>2, <2>3, <2>4, <2>5, QueueStep
<1> QED  BY <1>1, <1>2

\* A look-up takes a reference of a live type, or none.
LEMMA ChangeIInv ==
  ASSUME IInv, NEW q \in Queues,
         elevator_change(q) \/ SameName(q)
  PROVE  IInv'
<1> USE DEF Step, Attach, elevator_put, elevator_get, Put, Forget
<1>1. CASE elevator_change(q)
  <2>1. TypeOK /\ Pointers(q)
    BY DEF IInv
  <2>2. /\ UNCHANGED <<elv_list, module, leaked, overput, elevator, registered,
                       old, was>>
        /\ (step[q] = "idle" /\ elevator[q] # NoType) \/ step[q] = "loading"
        /\ \/ \E t \in Types : /\ module[t] = "live"
                               /\ refs' = [refs EXCEPT ![t] = @ + 1]
                               /\ new' = [new EXCEPT ![q] = t]
                               /\ step' = [step EXCEPT ![q] = "got"]
           \/ /\ \E n \in Names : new' = [new EXCEPT ![q] = n]
              /\ step[q] = "idle"
              /\ step' = [step EXCEPT ![q] = "loading"] /\ UNCHANGED refs
           \/ /\ new' = [new EXCEPT ![q] = NoType]
              /\ step' = [step EXCEPT ![q] = "idle"] /\ UNCHANGED refs
    BY <1>1 DEF elevator_change, Lookup, Gettable, elevator_find, IInv, TypeOK,
                history
  <2>3. TypeOK'
    BY <2>1, <2>2, TypesAssumption DEF TypeOK, Steps, Names, Pointers, Live
  <2>4. (\A p \in Queues \ {q} : Same(p)) /\ Pointers(q)'
    BY <2>1, <2>2, TypesAssumption DEF Same, Pointers, Live, TypeOK
  <2>5. ASSUME NEW u \in Types
        PROVE  /\ Net(u)' - Net(u) = Uses(q, u)' - Uses(q, u)
               /\ overput'[u] = 0 => overput[u] = 0
               /\ Uses(q, u)' > 0 => Uses(q, u) > 0 \/ module[u] = "live"
    BY <2>1, <2>2, TypesAssumption
       DEF Net, Uses, One, HoldsElevator, HoldsOld, HoldsNew, TypeOK, Pointers, Live
  <2> QED  BY <2>2, <2>3, <2>4, <2>5, QueueStep
<1>2. CASE SameName(q)
  <2>1. TypeOK /\ Pointers(q)
    BY DEF IInv
  <2>2. /\ step[q] = "got" /\ step' = [step EXCEPT ![q] = "idle"]
        /\ refs' = [refs EXCEPT ![new[q]] = @ - 1]
        /\ new' = [new EXCEPT ![q] = NoType]
        /\ UNCHANGED <<elv_list, module, leaked, overput, elevator, registered,
                       old, was>>
    BY <1>2 DEF SameName, history
  <2>3. TypeOK'
    BY <2>1, <2>2, TypesAssumption DEF TypeOK, Steps, Names, Pointers, Live
  <2>4. (\A p \in Queues \ {q} : Same(p)) /\ Pointers(q)'
    BY <2>1, <2>2, TypesAssumption DEF Same, Pointers, Live, TypeOK
  <2>5. ASSUME NEW u \in Types
        PROVE  /\ Net(u)' - Net(u) = Uses(q, u)' - Uses(q, u)
               /\ overput'[u] = 0 => overput[u] = 0
               /\ Uses(q, u)' > 0 => Uses(q, u) > 0 \/ module[u] = "live"
    BY <2>1, <2>2, TypesAssumption
       DEF Net, Uses, One, HoldsElevator, HoldsOld, HoldsNew, TypeOK, Pointers, Live
  <2> QED  BY <2>2, <2>3, <2>4, <2>5, QueueStep
<1> QED  BY <1>1, <1>2

\* A switch keeps the old elevator's reference until the new one is there.
LEMMA SwitchIInv ==
  ASSUME IInv, NEW q \in Queues,
         Quiesce(q) \/ SwitchInit(q) \/ SwitchRegister(q)
  PROVE  IInv'
<1> USE DEF Step, Attach, elevator_put, elevator_get, Put, Forget
<1>1. CASE Quiesce(q)
  <2>1. TypeOK /\ Pointers(q)
    BY DEF IInv
  <2>2. /\ step[q] = "got" /\ Name[new[q]] # Name[elevator[q]]
        /\ old' = [old EXCEPT ![q] = elevator[q]]
        /\ was' = [was EXCEPT ![q] = registered[q]]
        /\ registered' = [registered EXCEPT ![q] = FALSE]
        /\ step' = [step EXCEPT ![q] = "switch"]
        /\ UNCHANGED <<elv_list, module, refs, leaked, overput, elevator, new>>
    BY <1>1 DEF Quiesce, listVars, history
  <2>3. TypeOK'
    BY <2>1, <2>2, TypesAssumption DEF TypeOK, Steps, Names, Pointers, Live
  <2>4. (\A p \in Queues \ {q} : Same(p)) /\ Pointers(q)'
    BY <2>1, <2>2, TypesAssumption DEF Same, Pointers, Live, TypeOK
  <2>5. ASSUME NEW u \in Types
        PROVE  /\ Net(u)' - Net(u) = Uses(q, u)' - Uses(q, u)
               /\ overput'[u] = 0 => overput[u] = 0
               /\ Uses(q, u)' > 0 => Uses(q, u) > 0 \/ module[u] = "live"
    BY <2>1, <2>2, TypesAssumption
       DEF Net, Uses, One, HoldsElevator, HoldsOld, HoldsNew, TypeOK, Pointers, Live
  <2> QED  BY <2>2, <2>3, <2>4, <2>5, QueueStep
<1>2. CASE SwitchInit(q)
  <2>1. TypeOK /\ Pointers(q)
    BY DEF IInv
  <2>2. /\ step[q] = "switch"
        /\ UNCHANGED <<elv_list, module, overput, registered, old, new, was>>
        /\ \/ /\ elevator' = [elevator EXCEPT ![q] = new[q]]
              /\ step' = [step EXCEPT ![q] = "register"]
              /\ UNCHANGED <<refs, leaked>>
           \/ /\ step' = [step EXCEPT ![q] = "fail_init"]
              /\ leaked' = [leaked EXCEPT ![new[q]] = @ + 1]
              /\ UNCHANGED <<elevator, refs>>
           \/ /\ step' = [step EXCEPT ![q] = "fail_init"]
              /\ refs' = [refs EXCEPT ![new[q]] = @ - 1]
              /\ UNCHANGED <<elevator, leaked>>
    BY <1>2 DEF SwitchInit
  <2>3. TypeOK'
    BY <2>1, <2>2, TypesAssumption DEF TypeOK, Steps, Names, Pointers, Live
  <2>4. (\A p \in Queues \ {q} : Same(p)) /\ Pointers(q)'
    BY <2>1, <2>2, TypesAssumption DEF Same, Pointers, Live, TypeOK
  <2>5. ASSUME NEW u \in Types
        PROVE  /\ Net(u)' - Net(u) = Uses(q, u)' - Uses(q, u)
               /\ overput'[u] = 0 => overput[u] = 0
               /\ Uses(q, u)' > 0 => Uses(q, u) > 0 \/ module[u] = "live"
    BY <2>1, <2>2, TypesAssumption
       DEF Net, Uses, One, HoldsElevator, HoldsOld, HoldsNew, TypeOK, Pointers, Live
  <2> QED  BY <2>2, <2>3, <2>4, <2>5, QueueStep
<1>3. CASE SwitchRegister(q)
  <2>1. TypeOK /\ Pointers(q)
    BY DEF IInv
  <2>2. /\ step[q] = "register"
        /\ \E s \in {"exit", "fail_register"} : step' = [step EXCEPT ![q] = s]
        /\ UNCHANGED <<elv_list, module, refs, leaked, overput, elevator, old,
                       new, was>>
        /\ \/ registered' = [registered EXCEPT ![q] = was[q]]
           \/ UNCHANGED registered
    BY <1>3 DEF SwitchRegister, listVars, history
  <2>3. TypeOK'
    BY <2>1, <2>2, TypesAssumption DEF TypeOK, Steps, Names, Pointers, Live
  <2>4. (\A p \in Queues \ {q} : Same(p)) /\ Pointers(q)'
    BY <2>1, <2>2, TypesAssumption DEF Same, Pointers, Live, TypeOK
  <2>5. ASSUME NEW u \in Types
        PROVE  /\ Net(u)' - Net(u) = Uses(q, u)' - Uses(q, u)
               /\ overput'[u] = 0 => overput[u] = 0
               /\ Uses(q, u)' > 0 => Uses(q, u) > 0 \/ module[u] = "live"
    BY <2>1, <2>2, TypesAssumption
       DEF Net, Uses, One, HoldsElevator, HoldsOld, HoldsNew, TypeOK, Pointers, Live
  <2> QED  BY <2>2, <2>3, <2>4, <2>5, QueueStep
<1> QED  BY <1>1, <1>2, <1>3

\* It ends with one of the two references put.
LEMMA SwitchEndIInv ==
  ASSUME IInv, NEW q \in Queues,
         KillOld(q) \/ FailRegister(q) \/ RestoreOld(q)
  PROVE  IInv'
<1> USE DEF Step, Attach, elevator_put, elevator_get, Put, Forget
<1>1. CASE KillOld(q)
  <2>1. TypeOK /\ Pointers(q)
    BY DEF IInv
  <2>2. /\ step[q] = "exit" /\ step' = [step EXCEPT ![q] = "idle"]
        /\ refs' = [refs EXCEPT ![old[q]] = @ - 1]
        /\ old' = [old EXCEPT ![q] = NoType] /\ new' = [new EXCEPT ![q] = NoType]
        /\ was' = [was EXCEPT ![q] = FALSE]
        /\ UNCHANGED <<elv_list, module, leaked, overput, elevator, registered>>
    BY <1>1 DEF KillOld, ExitOld, history
  <2>3. TypeOK'
    BY <2>1, <2>2, TypesAssumption DEF TypeOK, Steps, Names, Pointers, Live
  <2>4. (\A p \in Queues \ {q} : Same(p)) /\ Pointers(q)'
    BY <2>1, <2>2, TypesAssumption DEF Same, Pointers, Live, TypeOK
  <2>5. ASSUME NEW u \in Types
        PROVE  /\ Net(u)' - Net(u) = Uses(q, u)' - Uses(q, u)
               /\ overput'[u] = 0 => overput[u] = 0
               /\ Uses(q, u)' > 0 => Uses(q, u) > 0 \/ module[u] = "live"
    BY <2>1, <2>2, TypesAssumption
       DEF Net, Uses, One, HoldsElevator, HoldsOld, HoldsNew, TypeOK, Pointers, Live
  <2> QED  BY <2>2, <2>3, <2>4, <2>5, QueueStep
<1>2. CASE FailRegister(q)
  <2>1. TypeOK /\ Pointers(q)
    BY DEF IInv
  <2>2. /\ step[q] = "fail_register"
        /\ step' = [step EXCEPT ![q] = "fail_init"]
        /\ refs' = [refs EXCEPT ![elevator[q]] = @ - 1]
        /\ UNCHANGED <<elv_list, module, leaked, overput, elevator, registered,
                       old, new, was>>
    BY <1>2 DEF FailRegister, history
  <2>3. TypeOK'
    BY <2>1, <2>2, TypesAssumption DEF TypeOK, Steps, Names, Pointers, Live
  <2>4. (\A p \in Queues \ {q} : Same(p)) /\ Pointers(q)'
    BY <2>1, <2>2, TypesAssumption DEF Same, Pointers, Live, TypeOK
  <2>5. ASSUME NEW u \in Types
        PROVE  /\ Net(u)' - Net(u) = Uses(q, u)' - Uses(q, u)
               /\ overput'[u] = 0 => overput[u] = 0
               /\ Uses(q, u)' > 0 => Uses(q, u) > 0 \/ module[u] = "live"
    BY <2>1, <2>2, TypesAssumption
       DEF Net, Uses, One, HoldsElevator, HoldsOld, HoldsNew, TypeOK, Pointers, Live
  <2> QED  BY <2>2, <2>3, <2>4, <2>5, QueueStep
<1>3. CASE RestoreOld(q)
  <2>1. TypeOK /\ Pointers(q)
    BY DEF IInv
  <2>2. /\ step[q] = "fail_init" /\ step' = [step EXCEPT ![q] = "idle"]
        /\ elevator' = [elevator EXCEPT ![q] = old[q]]
        /\ \E ok \in BOOLEAN : registered' = [registered EXCEPT ![q] = ok]
        /\ old' = [old EXCEPT ![q] = NoType] /\ new' = [new EXCEPT ![q] = NoType]
        /\ was' = [was EXCEPT ![q] = FALSE]
        /\ UNCHANGED <<elv_list, module, refs, leaked, overput>>
    BY <1>3 DEF RestoreOld, Restored, listVars, history
  <2>3. TypeOK'
    BY <2>1, <2>2, TypesAssumption DEF TypeOK, Steps, Names, Pointers, Live
  <2>4. (\A p \in Queues \ {q} : Same(p)) /\ Pointers(q)'
    BY <2>1, <2>2, TypesAssumption DEF Same, Pointers, Live, TypeOK
  <2>5. ASSUME NEW u \in Types
        PROVE  /\ Net(u)' - Net(u) = Uses(q, u)' - Uses(q, u)
               /\ overput'[u] = 0 => overput[u] = 0
               /\ Uses(q, u)' > 0 => Uses(q, u) > 0 \/ module[u] = "live"
    BY <2>1, <2>2, TypesAssumption
       DEF Net, Uses, One, HoldsElevator, HoldsOld, HoldsNew, TypeOK, Pointers, Live
  <2> QED  BY <2>2, <2>3, <2>4, <2>5, QueueStep
<1> QED  BY <1>1, <1>2, <1>3

-----------------------------------------------------------------------------
(* The theorems.                                                           *)

LEMMA StepIInv == IInv /\ [Next]_vars => IInv'
<1> SUFFICES ASSUME IInv, [Next]_vars PROVE IInv'
  OBVIOUS
<1>1. ASSUME NEW t \in Types,
             elv_register(t) \/ RemoveModule(t) \/ elv_unregister(t)
      PROVE  IInv'
  BY <1>1, TypesIInv
<1>2. ASSUME NEW q \in Queues, elevator_init(q) \/ InitDone(q)
      PROVE  IInv'
  BY <1>2, InitStepIInv
<1>3. ASSUME NEW q \in Queues, elv_register_queue(q) \/ elevator_exit(q)
      PROVE  IInv'
  BY <1>3, AttachedIInv
<1>4. ASSUME NEW q \in Queues, elevator_change(q) \/ SameName(q)
      PROVE  IInv'
  BY <1>4, ChangeIInv
<1>5. ASSUME NEW q \in Queues, Quiesce(q) \/ SwitchInit(q) \/ SwitchRegister(q)
      PROVE  IInv'
  BY <1>5, SwitchIInv
<1>6. ASSUME NEW q \in Queues, KillOld(q) \/ FailRegister(q) \/ RestoreOld(q)
      PROVE  IInv'
  BY <1>6, SwitchEndIInv
<1>7. CASE UNCHANGED vars
  <2>1. UNCHANGED <<elv_list, module, refs, leaked, overput, elevator,
                    registered, step, old, new, was>>
    BY <1>7 DEF vars, listVars, history
  <2> QED
    BY <2>1 DEF IInv, TypeOK, Registered, Pointers, RefsExact,
                ByElevator, ByOld, ByNew, Uses, HoldsElevator, HoldsOld, HoldsNew
<1> QED  BY <1>1, <1>2, <1>3, <1>4, <1>5, <1>6, <1>7 DEF Next

\* The invariant holds in every state, however queues and modules come and
\* go and whatever fails in elevator_init or a switch.
THEOREM Invariance == Spec => []IInv
<1>1. Init => IInv
  BY InitIInv
<1>2. IInv /\ [Next]_vars => IInv'
  BY StepIInv
<1> QED  BY <1>1, <1>2, PTL DEF Spec

\* elevator_get and elevator_put balance for any queues and types, but for
\* the reference that a failed allocation leaks (elevator.c:917) and the one
\* that a failed elevator_init puts twice (elevator.c:229): no other step of
\* any order of switches, failures and unloads leaks or puts one too many.
THEOREM EveryReferenceCounted == Spec => []RefsExact
<1>1. IInv => RefsExact
  BY DEF IInv
<1> QED  BY <1>1, Invariance, PTL

\* The code of an elevator that is attached or may be restored is never
\* unloaded, unless a failed elevator_init has put a reference to it twice.
THEOREM CodeStaysLoaded == Spec => []InUseIsLoaded
<1>1. IInv => InUseIsLoaded
  <2> SUFFICES ASSUME IInv, NEW t \in Types, NEW q \in Queues,
                      q \in ByElevator(t) \cup ByOld(t) \cup ByNew(t),
                      overput[t] = 0
               PROVE  module[t] = "live"
    BY DEF InUseIsLoaded, ByElevator, ByOld, ByNew
  <2>1. Uses(q, t) > 0
    BY DEF Uses, One, HoldsElevator, HoldsOld, HoldsNew, ByElevator, ByOld, ByNew
  <2> QED  BY <2>1 DEF IInv
<1> QED  BY <1>1, Invariance, PTL

Covered ==
  \A q \in Queues, t \in Types : refs[t] + overput[t] >= Uses(q, t)

\* "this way we have a chance of going back to the old one": a switch ends on
\* one of its two elevators, and the switch has not put that one's reference.
THEOREM SwitchIsSafe == Spec => SwitchEndsAttached
<1>1. IInv => Covered
  BY HolderHasReference DEF IInv, Covered
<1>2. IInv' => Covered'
  BY <1>1, PTL
<1>3. IInv /\ IInv' /\ [Next]_vars => [SwitchEnds]_vars
  <2> SUFFICES ASSUME IInv, IInv', Next, NEW q \in Queues,
                      step[q] # "idle", step'[q] = "idle", old[q] # NoType
               PROVE  /\ elevator'[q] \in {old[q], new[q]}
                      /\ refs'[elevator'[q]] + overput'[elevator'[q]] > 0
    BY DEF SwitchEnds
  <2>1. Pointers(q) /\ TypeOK /\ TypeOK'
    BY DEF IInv
  <2>2. step[q] \in Live
    BY <2>1 DEF Pointers, Live, TypeOK, Steps
  <2>3. KillOld(q) \/ RestoreOld(q)
    <3>1. ASSUME NEW t \in Types,
                 elv_register(t) \/ RemoveModule(t) \/ elv_unregister(t)
          PROVE  FALSE
      BY <3>1 DEF elv_register, RemoveModule, elv_unregister
    <3>2. ASSUME NEW p \in Queues,
                 \/ elevator_init(p) \/ InitDone(p) \/ elv_register_queue(p)
                 \/ elevator_exit(p) \/ elevator_change(p) \/ SameName(p)
                 \/ Quiesce(p) \/ SwitchInit(p) \/ SwitchRegister(p)
                 \/ FailRegister(p)
          PROVE  FALSE
      <4>1. \/ step' = step
            \/ step' = [step EXCEPT ![p] = "idle"] /\ step[p] \notin Live
            \/ \E s \in Steps \ {"idle"} : step' = [step EXCEPT ![p] = s]
        BY <3>2
           DEF Live, Steps, Step, elevator_init, InitDone, elv_register_queue,
               elevator_exit, Lookup, elevator_change, SameName, Quiesce,
               SwitchInit, SwitchRegister, FailRegister
      <4> QED  BY <2>1, <2>2, <4>1 DEF TypeOK, Steps
    <3>3. ASSUME NEW p \in Queues, KillOld(p) \/ RestoreOld(p)
          PROVE  p = q
      BY <2>1, <3>3 DEF KillOld, RestoreOld, Step, TypeOK
    <3> QED  BY <3>1, <3>2, <3>3 DEF Next
  <2>4. elevator'[q] \in {old[q], new[q]} /\ elevator'[q] \in Types
    BY <2>1, <2>2, <2>3
       DEF KillOld, RestoreOld, Attach, Restored, Pointers, Live, TypeOK
  <2>5. PICK t \in Types : t = elevator'[q]
    BY <2>4
  <2>6. Uses(q, t)' \in Nat /\ Uses(q, t)' > 0
    BY <2>5 DEF Uses, One, HoldsElevator
  <2>7. /\ refs'[t] \in Int /\ overput'[t] \in Nat
        /\ refs'[t] + overput'[t] >= Uses(q, t)'
    BY <2>1, <1>2 DEF Covered, TypeOK
  <2> QED  BY <2>4, <2>5, <2>6, <2>7
<1> QED  BY <1>3, StepIInv, Invariance, PTL DEF Spec, SwitchEndsAttached

-----------------------------------------------------------------------------
(* The driver's list and noop's.                                           *)

\* A set of naturals has a least element: what stands in for induction.
LEMMA LeastNat ==
  ASSUME NEW T, T \subseteq Nat, T # {}
  PROVE  \E x \in T : \A y \in T : x <= y
<1>1. PICK x \in T : \A y \in T : ~ (<<y, x>> \in OpToRel(<, Nat))
  BY NatLessThanWellFounded, WFMin
<1>2. ASSUME NEW y \in T PROVE x <= y
  <2>1. x \in Nat /\ y \in Nat /\ ~(y < x)
    BY <1>1 DEF OpToRel
  <2> QED  BY <2>1
<1> QED  BY <1>2

\* a comes before b.
Ahead(s, a, b) == \E i, j \in DOMAIN s : i < j /\ s[i] = a /\ s[j] = b

\* w is s with r at i.
OneMore(w, s, i, r) ==
  /\ Len(w) = Len(s) + 1
  /\ \A j \in 1 .. Len(s) + 1 :
       w[j] = IF j < i THEN s[j] ELSE IF j = i THEN r ELSE s[j - 1]

\* What was there stays, in its order, and what is before i is before r.
LEMMA OneMoreKeeps ==
  ASSUME NEW S, NEW s \in Seq(S), NEW w \in Seq(S), NEW i \in 1 .. Len(s) + 1,
         NEW r, OneMore(w, s, i, r)
  PROVE  /\ Range(w) = Range(s) \cup {r}
         /\ IsInjective(s) /\ r \notin Range(s) => IsInjective(w)
         /\ \A a, b : Ahead(s, a, b) => Ahead(w, a, b)
         /\ \A k \in 1 .. i - 1 : Ahead(w, s[k], r)
<1>1. /\ Len(s) \in Nat /\ Len(w) = Len(s) + 1
      /\ DOMAIN w = 1 .. Len(s) + 1 /\ DOMAIN s = 1 .. Len(s)
      /\ \A j \in 1 .. Len(s) + 1 :
           w[j] = IF j < i THEN s[j] ELSE IF j = i THEN r ELSE s[j - 1]
  BY LenProperties DEF OneMore
<1> DEFINE to(j) == IF j < i THEN j ELSE j + 1
<1>2. ASSUME NEW j \in 1 .. Len(s)
      PROVE  to(j) \in 1 .. Len(s) + 1 /\ w[to(j)] = s[j]
  BY <1>1
<1>3. \A j, k \in 1 .. Len(s) : j < k => to(j) < to(k)
  BY <1>1
<1>4. i \in DOMAIN w /\ w[i] = r
  BY <1>1
<1>5. ASSUME NEW j \in 1 .. Len(s) + 1, j # i
      PROVE  \E k \in 1 .. Len(s) : j = to(k)
  <2>1. CASE j < i
    BY <1>1, <2>1
  <2>2. CASE j > i
    <3>1. j - 1 \in 1 .. Len(s) /\ to(j - 1) = j
      BY <1>1, <2>2
    <3> QED  BY <3>1
  <2> QED  BY <1>1, <1>5, <2>1, <2>2
<1>6. \A k \in 1 .. i - 1 : k \in 1 .. Len(s) /\ to(k) = k /\ k < i
  BY <1>1
<1> HIDE DEF to
<1>7. Range(w) = Range(s) \cup {r}
  BY <1>1, <1>2, <1>4, <1>5 DEF Range
<1>8. ASSUME IsInjective(s), r \notin Range(s) PROVE IsInjective(w)
  <2>1. \A j \in 1 .. Len(s) : s[j] # r
    BY <1>1, <1>8 DEF Range
  <2>2. \A j, k \in 1 .. Len(s) : s[j] = s[k] => j = k
    BY <1>1, <1>8 DEF IsInjective
  <2>3. ASSUME NEW j \in 1 .. Len(s) + 1, NEW k \in 1 .. Len(s) + 1, w[j] = w[k]
        PROVE  j = k
    <3>1. CASE j = i /\ k # i
      BY <1>2, <1>4, <1>5, <2>1, <2>3, <3>1
    <3>2. CASE k = i /\ j # i
      BY <1>2, <1>4, <1>5, <2>1, <2>3, <3>2
    <3>3. CASE j # i /\ k # i
      <4>1. PICK x \in 1 .. Len(s) : j = to(x)
        BY <1>5, <3>3
      <4>2. PICK y \in 1 .. Len(s) : k = to(y)
        BY <1>5, <3>3
      <4>3. s[x] = s[y]
        BY <1>2, <2>3, <4>1, <4>2
      <4> QED  BY <2>2, <4>1, <4>2, <4>3
    <3> QED  BY <3>1, <3>2, <3>3
  <2> QED  BY <1>1, <2>3 DEF IsInjective
<1>9. ASSUME NEW a, NEW b, Ahead(s, a, b) PROVE Ahead(w, a, b)
  BY <1>1, <1>2, <1>3, <1>9 DEF Ahead
<1>10. ASSUME NEW k \in 1 .. i - 1 PROVE Ahead(w, s[k], r)
  BY <1>1, <1>2, <1>4, <1>6 DEF Ahead
<1> QED  BY <1>7, <1>8, <1>9, <1>10

\* Taking one out: the reverse.
LEMMA OneLessKeeps ==
  ASSUME NEW S, NEW s \in Seq(S), NEW w \in Seq(S), NEW i \in 1 .. Len(w) + 1,
         OneMore(s, w, i, s[i]), IsInjective(s)
  PROVE  /\ s[i] \in Range(s) /\ Range(w) = Range(s) \ {s[i]} /\ IsInjective(w)
         /\ \A a, b : Ahead(s, a, b) /\ a # s[i] /\ b # s[i] => Ahead(w, a, b)
<1>1. /\ Len(w) \in Nat /\ Len(s) = Len(w) + 1
      /\ DOMAIN s = 1 .. Len(w) + 1 /\ DOMAIN w = 1 .. Len(w)
      /\ \A j \in 1 .. Len(w) + 1 :
           s[j] = IF j < i THEN w[j] ELSE IF j = i THEN s[i] ELSE w[j - 1]
  BY LenProperties DEF OneMore
<1> DEFINE from(j) == IF j < i THEN j ELSE j - 1
           to(j) == IF j < i THEN j ELSE j + 1
<1>2. ASSUME NEW j \in 1 .. Len(w) + 1, j # i
      PROVE  from(j) \in 1 .. Len(w) /\ s[j] = w[from(j)]
  BY <1>1, <1>2
<1>3. \A j, k \in 1 .. Len(w) + 1 : j < k /\ j # i /\ k # i => from(j) < from(k)
  BY <1>1
<1>4. ASSUME NEW j \in 1 .. Len(w)
      PROVE  to(j) \in 1 .. Len(w) + 1 /\ to(j) # i /\ w[j] = s[to(j)]
  BY <1>1
<1>5. \A j, k \in 1 .. Len(w) : to(j) = to(k) => j = k
  BY <1>1
<1> HIDE DEF from, to
<1>6. \A j, k \in 1 .. Len(w) + 1 : s[j] = s[k] => j = k
  BY <1>1 DEF IsInjective
<1>7. i \in 1 .. Len(w) + 1
  OBVIOUS
<1>8. Range(w) = Range(s) \ {s[i]} /\ s[i] \in Range(s)
  BY <1>1, <1>2, <1>4, <1>6, <1>7 DEF Range
<1>9. IsInjective(w)
  BY <1>1, <1>4, <1>5, <1>6 DEF IsInjective
<1>10. ASSUME NEW a, NEW b, Ahead(s, a, b), a # s[i], b # s[i] PROVE Ahead(w, a, b)
  <2>1. PICK j, k \in 1 .. Len(w) + 1 : j < k /\ s[j] = a /\ s[k] = b
    BY <1>1, <1>10 DEF Ahead
  <2>2. from(j) < from(k) /\ from(j) \in DOMAIN w /\ from(k) \in DOMAIN w
        /\ w[from(j)] = a /\ w[from(k)] = b
    BY <1>1, <1>2, <1>3, <1>10, <2>1
  <2> QED  BY <2>2 DEF Ahead
<1> QED  BY <1>8, <1>9, <1>10

\* list_add behind the element at i - 1.
LEMMA InsertAtOneMore ==
  ASSUME NEW S, NEW s \in Seq(S), NEW r \in S, NEW i \in 1 .. Len(s) + 1
  PROVE  InsertAt(s, i, r) \in Seq(S) /\ OneMore(InsertAt(s, i, r), s, i, r)
<1> DEFINE a == SubSeq(s, 1, i - 1)
           b == SubSeq(s, i, Len(s))
           ar == a \o <<r>>
<1>1. Len(s) \in Nat /\ i \in Int /\ (\A j \in 1 .. Len(s) : s[j] \in S)
  BY LenProperties, ElementOfSeq
<1>2. a \in Seq(S) /\ Len(a) = i - 1 /\ \A j \in 1 .. i - 1 : a[j] = s[j]
  BY <1>1, SubSeqProperties, i - 1 \in Int, 1 \in Int,
     \A j \in 1 .. i - 1 : s[j] \in S
<1>3. /\ b \in Seq(S) /\ Len(b) = Len(s) - i + 1
      /\ \A j \in 1 .. Len(s) - i + 1 : b[j] = s[i + j - 1]
  <2>1. \A j \in i .. Len(s) : s[j] \in S
    BY <1>1
  <2> QED  BY <1>1, <2>1, SubSeqProperties
<1>4. <<r>> \in Seq(S) /\ Len(<<r>>) = 1 /\ <<r>>[1] = r
  OBVIOUS
<1> HIDE DEF a, b
<1>5. /\ ar \in Seq(S) /\ Len(ar) = i
      /\ \A j \in 1 .. i : ar[j] = IF j < i THEN s[j] ELSE r
  <2>1. /\ ar \in Seq(S) /\ Len(ar) = Len(a) + 1
        /\ \A j \in 1 .. Len(a) + 1 :
             ar[j] = IF j <= Len(a) THEN a[j] ELSE <<r>>[j - Len(a)]
    BY <1>2, <1>4, ConcatProperties
  <2> DEFINE one == <<r>>
  <2>2. /\ ar \in Seq(S) /\ Len(ar) = Len(a) + 1 /\ one[1] = r
        /\ \A j \in 1 .. Len(a) + 1 :
             ar[j] = IF j <= Len(a) THEN a[j] ELSE one[j - Len(a)]
    BY <2>1
  <2> HIDE DEF ar, one
  <2>3. Len(ar) = i /\ Len(a) + 1 = i
    BY <1>1, <1>2, <2>2
  <2>4. ASSUME NEW j \in 1 .. i PROVE ar[j] = IF j < i THEN s[j] ELSE r
    <3>1. CASE j < i
      BY <1>1, <1>2, <2>2, <3>1
    <3>2. CASE j = i
      BY <1>1, <1>2, <2>2, <3>2
    <3> QED  BY <1>1, <3>1, <3>2
  <2> QED  BY <2>2, <2>3, <2>4
<1> HIDE DEF ar
<1>6. /\ ar \o b \in Seq(S) /\ Len(ar \o b) = Len(ar) + Len(b)
      /\ \A j \in 1 .. i + Len(b) : (ar \o b)[j] = IF j <= i THEN ar[j] ELSE b[j - i]
  BY <1>3, <1>5, ConcatProperties
<1>7. InsertAt(s, i, r) = ar \o b
  BY DEF InsertAt, ar, a, b
<1>8. OneMore(ar \o b, s, i, r)
  BY <1>1, <1>3, <1>5, <1>6 DEF OneMore
<1> QED  BY <1>6, <1>7, <1>8

LEMMA AppendOneMore ==
  ASSUME NEW S, NEW s \in Seq(S), NEW r \in S
  PROVE  Append(s, r) \in Seq(S) /\ OneMore(Append(s, r), s, Len(s) + 1, r)
BY AppendProperties, LenProperties DEF OneMore

LEMMA ConsOneMore ==
  ASSUME NEW S, NEW s \in Seq(S), NEW r \in S
  PROVE  <<r>> \o s \in Seq(S) /\ OneMore(<<r>> \o s, s, 1, r)
<1>1. <<r>> \in Seq(S) /\ Len(<<r>>) = 1 /\ <<r>>[1] = r /\ Len(s) \in Nat
  BY LenProperties
<1> DEFINE one == <<r>>
<1>2. one \in Seq(S) /\ Len(one) = 1 /\ one[1] = r
  BY <1>1
<1> HIDE DEF one
<1>3. /\ one \o s \in Seq(S) /\ Len(one \o s) = Len(one) + Len(s)
      /\ \A j \in 1 .. Len(one) + Len(s) :
           (one \o s)[j] = IF j <= Len(one) THEN one[j] ELSE s[j - Len(one)]
  BY <1>2, ConcatProperties
<1>4. OneMore(one \o s, s, 1, r)
  BY <1>1, <1>2, <1>3 DEF OneMore
<1> QED  BY <1>3, <1>4 DEF one

LEMMA TailOneLess ==
  ASSUME NEW S, NEW s \in Seq(S), s # <<>>
  PROVE  /\ Tail(s) \in Seq(S) /\ Head(s) = s[1] /\ Head(s) \in S
         /\ 1 \in 1 .. Len(Tail(s)) + 1 /\ OneMore(s, Tail(s), 1, s[1])
<1>1. /\ Len(s) \in Nat \ {0} /\ Tail(s) \in Seq(S) /\ Len(Tail(s)) = Len(s) - 1
      /\ \A j \in 1 .. Len(s) - 1 : Tail(s)[j] = s[j + 1]
      /\ Head(s) \in S
  BY HeadTailProperties, LenProperties, EmptySeq
<1>2. OneMore(s, Tail(s), 1, s[1])
  BY <1>1 DEF OneMore
<1> QED  BY <1>1, <1>2

\* list_del_init of an element.
LEMMA RemoveFirstOneLess ==
  ASSUME NEW S, NEW s \in Seq(S), NEW x \in Range(s)
  PROVE  /\ RemoveFirst(s, x) \in Seq(S) /\ Len(RemoveFirst(s, x)) = Len(s) - 1
         /\ \E i \in 1 .. Len(RemoveFirst(s, x)) + 1 :
              s[i] = x /\ OneMore(s, RemoveFirst(s, x), i, x)
<1> DEFINE I == {k \in 1 .. Len(s) : s[k] = x}
<1>1. Len(s) \in Nat /\ DOMAIN s = 1 .. Len(s) /\ (\A j \in 1 .. Len(s) : s[j] \in S)
  BY LenProperties, ElementOfSeq
<1>2. \E k \in 1 .. Len(s) : s[k] = x
  BY <1>1 DEF Range
<1>3. Min(I) \in I
  <2>1. I \subseteq Nat /\ I # {}
    BY <1>2
  <2> HIDE DEF I
  <2>2. \E k \in I : \A j \in I : k <= j
    BY <2>1, LeastNat
  <2> QED  BY <2>2 DEF Min
<1>4. PICK i \in 1 .. Len(s) : s[i] = x /\ RemoveFirst(s, x) = RemoveAt(s, i)
  <2>1. SelectInSeq(s, LAMBDA v : v = x) = Min(I)
    BY <1>2 DEF SelectInSeq
  <2> QED  BY <1>2, <1>3, <2>1 DEF RemoveFirst
<1> HIDE DEF I
<1> DEFINE a == SubSeq(s, 1, i - 1)
           b == SubSeq(s, i + 1, Len(s))
<1>5. a \in Seq(S) /\ Len(a) = i - 1 /\ \A j \in 1 .. i - 1 : a[j] = s[j]
  BY <1>1, SubSeqProperties, i - 1 \in Int, 1 \in Int,
     \A j \in 1 .. i - 1 : s[j] \in S
<1>6. /\ b \in Seq(S) /\ Len(b) = Len(s) - i
      /\ \A j \in 1 .. Len(s) - i : b[j] = s[i + j]
  <2>1. (\A j \in i + 1 .. Len(s) : s[j] \in S) /\ i + 1 \in Int /\ Len(s) \in Int
    BY <1>1
  <2>2. /\ b \in Seq(S)
        /\ Len(b) = IF i + 1 <= Len(s) THEN Len(s) - (i + 1) + 1 ELSE 0
        /\ \A j \in 1 .. Len(s) - (i + 1) + 1 : b[j] = s[i + 1 + j - 1]
    BY <2>1, SubSeqProperties
  <2>3. Len(b) = Len(s) - i
    <3> HIDE DEF b
    <3>1. i \in Int /\ i <= Len(s) /\ Len(s) \in Int
      BY <1>1
    <3> QED  BY <2>2, <3>1
  <2>4. ASSUME NEW j \in 1 .. Len(s) - i PROVE b[j] = s[i + j]
    <3>1. j \in 1 .. Len(s) - (i + 1) + 1 /\ i + 1 + j - 1 = i + j
      BY <1>1
    <3> QED  BY <2>2, <3>1
  <2> QED  BY <2>2, <2>3, <2>4
<1> HIDE DEF a, b
<1>7. /\ a \o b \in Seq(S) /\ Len(a \o b) = Len(a) + Len(b)
      /\ \A j \in 1 .. Len(a) + Len(b) :
           (a \o b)[j] = IF j <= Len(a) THEN a[j] ELSE b[j - Len(a)]
  BY <1>5, <1>6, ConcatProperties
<1>8. RemoveFirst(s, x) = a \o b
  BY <1>4 DEF RemoveAt, a, b
<1> DEFINE w == a \o b
<1>9. w \in Seq(S) /\ Len(w) = Len(s) - 1
  BY <1>1, <1>5, <1>6, <1>7
<1>10. ASSUME NEW j \in 1 .. Len(s) - 1 PROVE w[j] = IF j < i THEN s[j] ELSE s[j + 1]
  <2>1. w[j] = IF j <= i - 1 THEN a[j] ELSE b[j - (i - 1)]
    BY <1>1, <1>5, <1>6, <1>7
  <2>2. CASE j < i
    BY <1>1, <1>5, <2>1, <2>2
  <2>3. CASE ~(j < i)
    <3>1. j - (i - 1) \in 1 .. Len(s) - i /\ i + (j - (i - 1)) = j + 1 /\ ~(j <= i - 1)
      BY <1>1, <2>3
    <3>2. b[j - (i - 1)] = s[i + (j - (i - 1))]
      BY <1>6, <3>1
    <3> QED  BY <2>1, <2>3, <3>1, <3>2
  <2> QED  BY <2>2, <2>3
<1> HIDE DEF w
<1>11. OneMore(s, w, i, x)
  <2>1. ASSUME NEW j \in 1 .. Len(w) + 1
        PROVE  s[j] = IF j < i THEN w[j] ELSE IF j = i THEN x ELSE w[j - 1]
    <3>1. CASE j < i
      BY <1>1, <1>9, <1>10, <3>1
    <3>2. CASE j > i
      <4>1. j - 1 \in 1 .. Len(s) - 1 /\ ~(j - 1 < i) /\ (j - 1) + 1 = j
        BY <1>1, <1>9, <3>2
      <4> QED  BY <1>1, <1>10, <3>2, <4>1
    <3> QED  BY <1>1, <1>4, <1>9, <3>1, <3>2
  <2> QED  BY <1>1, <1>9, <2>1 DEF OneMore
<1> QED  BY <1>1, <1>4, <1>8, <1>9, <1>11 DEF w

-----------------------------------------------------------------------------
(* elv_dispatch_sort.                                                      *)

\* A request is sorted in behind every barrier.
LEMMA SortedKeeps ==
  ASSUME NEW list \in Seq(Requests), NEW r \in Requests
  PROVE  /\ Sorted(list, r) \in Seq(Requests)
         /\ Len(Sorted(list, r)) = Len(list) + 1
         /\ Range(Sorted(list, r)) = Range(list) \cup {r}
         /\ IsInjective(list) /\ r \notin Range(list) => IsInjective(Sorted(list, r))
         /\ \A a, b : Ahead(list, a, b) => Ahead(Sorted(list, r), a, b)
         /\ \A a \in Range(list) \cap soft : Ahead(Sorted(list, r), a, r)
<1> DEFINE I == {0} \cup {i \in DOMAIN list : Stops(list[i], r)}
           w == Sorted(list, r)
<1>1. Len(list) \in Nat /\ DOMAIN list = 1 .. Len(list)
  BY LenProperties
<1>2. I \subseteq 0 .. Len(list) /\ 0 \in I
  BY <1>1
<1>3. \E m \in I : \A i \in I : m >= i
  <2> DEFINE T == {Len(list) - i : i \in I}
  <2> HIDE DEF I
  <2>1. T \subseteq Nat /\ T # {}
    BY <1>1, <1>2
  <2>2. PICK t \in T : \A u \in T : t <= u
    <3> HIDE DEF T
    <3> QED  BY <2>1, LeastNat
  <2>3. PICK m \in I : t = Len(list) - m
    BY <2>2
  <2>4. ASSUME NEW i \in I PROVE m >= i
    <3>1. Len(list) - m <= Len(list) - i
      BY <2>2, <2>3
    <3>2. m \in Int /\ i \in Int
      BY <1>1, <1>2
    <3> QED  BY <1>1, <3>1, <3>2
  <2> QED  BY <2>4
<1>4. Max(I) \in I /\ \A i \in I : Max(I) >= i
  <2> HIDE DEF I
  <2> QED  BY <1>3 DEF Max
<1> DEFINE m == Max(I)
<1>5. w = InsertAt(list, m + 1, r)
  BY DEF Sorted
<1>6. m + 1 \in 1 .. Len(list) + 1 /\ m \in Nat
  <2>1. m \in 0 .. Len(list)
    <3> HIDE DEF I
    <3> QED  BY <1>2, <1>4
  <2> HIDE DEF m
  <2> QED  BY <1>1, <2>1
<1>7. w \in Seq(Requests) /\ OneMore(w, list, m + 1, r)
  <2> HIDE DEF m, w
  <2> QED  BY <1>5, <1>6, InsertAtOneMore
<1>8. ASSUME NEW a \in Range(list) \cap soft PROVE Ahead(w, a, r)
  <2>1. PICK k \in 1 .. Len(list) : list[k] = a
    BY <1>1 DEF Range
  <2>2. k \in I
    BY <1>1, <2>1 DEF Stops
  <2>3. m >= k
    <3> HIDE DEF I
    <3> QED  BY <1>4, <2>2
  <2> HIDE DEF m, w
  <2>4. k \in 1 .. (m + 1) - 1
    BY <1>1, <1>6, <2>3
  <2> QED  BY <1>6, <1>7, <2>1, <2>4, OneMoreKeeps
<1> HIDE DEF m
<1>9. Len(w) = Len(list) + 1
  BY <1>7 DEF OneMore
<1>10. /\ Range(w) = Range(list) \cup {r}
       /\ IsInjective(list) /\ r \notin Range(list) => IsInjective(w)
       /\ \A a, b : Ahead(list, a, b) => Ahead(w, a, b)
  <2> HIDE DEF w
  <2> QED  BY <1>6, <1>7, OneMoreKeeps
<1> QED  BY <1>7, <1>8, <1>9, <1>10

\* f[k] is the list when k requests are sorted in: the recursion of SortedIn.
IsSorting(f, list, taken, n) ==
  f = [k \in 0 .. n |-> IF k = 0 THEN list ELSE Sorted(f[k - 1], taken[k])]

LEMMA SortingExists ==
  ASSUME NEW n \in Nat, NEW list, NEW taken
  PROVE  \E f : IsSorting(f, list, taken, n)
<1> DEFINE Bad == {m \in Nat : ~ \E f : IsSorting(f, list, taken, m)}
<1> SUFFICES ASSUME Bad # {} PROVE FALSE
  OBVIOUS
<1>1. PICK m \in Bad : \A i \in Bad : m <= i
  <2>1. Bad \subseteq Nat
    OBVIOUS
  <2> HIDE DEF Bad
  <2> QED  BY <2>1, LeastNat
<1>2. m # 0
  <2>1. IsSorting([k \in 0 .. 0 |-> list], list, taken, 0)
    <3>1. \A k \in 0 .. 0 : k = 0
      OBVIOUS
    <3> QED  BY <3>1, Zenon DEF IsSorting
  <2> QED  BY <1>1, <2>1
<1>3. PICK f : IsSorting(f, list, taken, m - 1)
  BY <1>1, <1>2
<1> DEFINE g == [k \in 0 .. m |-> IF k = m THEN Sorted(f[m - 1], taken[m]) ELSE f[k]]
<1>4. /\ m \in Nat \ {0} /\ m - 1 \in 0 .. m - 1
      /\ \A k \in 0 .. m : k # m => k \in 0 .. m - 1
      /\ \A k \in 0 .. m : k # 0 => k - 1 \in 0 .. m - 1 /\ k - 1 # m
                                     /\ k - 1 \in 0 .. m
  BY <1>1, <1>2
<1>5. \A k \in 0 .. m - 1 : f[k] = IF k = 0 THEN list ELSE Sorted(f[k - 1], taken[k])
  BY <1>3, Zenon DEF IsSorting
<1>6. ASSUME NEW k \in 0 .. m
      PROVE  g[k] = IF k = 0 THEN list ELSE Sorted(g[k - 1], taken[k])
  <2>1. k # 0 => g[k - 1] = f[k - 1]
    BY <1>4, Zenon
  <2>2. CASE k = m
    BY <1>4, <2>1, <2>2, Zenon
  <2>3. CASE k # m
    BY <1>4, <1>5, <2>1, <2>3, Zenon
  <2> QED  BY <2>2, <2>3
<1>7. IsSorting(g, list, taken, m)
  <2>1. g = [k \in 0 .. m |-> g[k]]
    OBVIOUS
  <2> HIDE DEF g
  <2> QED  BY <1>6, <2>1, Zenon DEF IsSorting
<1> QED  BY <1>1, <1>7

\* Sorting in a list of other requests: nothing is lost, and what was on the
\* driver's list keeps its order, with every barrier before what is sorted in.
LEMMA SortedInKeeps ==
  ASSUME NEW list \in Seq(Requests), NEW taken \in Seq(Requests),
         IsInjective(list), IsInjective(taken), Range(list) \cap Range(taken) = {}
  PROVE  LET w == SortedIn(list, taken)
         IN  /\ w \in Seq(Requests) /\ IsInjective(w)
             /\ Range(w) = Range(list) \cup Range(taken)
             /\ \A a, b : Ahead(list, a, b) => Ahead(w, a, b)
             /\ \A a \in Range(list) \cap soft, b \in Range(taken) : Ahead(w, a, b)
<1> DEFINE n == Len(taken)
           First(k) == {taken[j] : j \in 1 .. k}
           Def(f) == f = [k \in 0 .. n |->
                            IF k = 0 THEN list ELSE Sorted(f[k - 1], taken[k])]
           c == CHOOSE f : Def(f)
<1>1. SortedIn(list, taken) = c[n]
  BY DEF SortedIn
<1>2. /\ n \in Nat /\ DOMAIN taken = 1 .. n
      /\ \A j \in 1 .. n : taken[j] \in Requests /\ taken[j] \notin Range(list)
  <2>1. n \in Nat /\ DOMAIN taken = 1 .. n /\ \A j \in 1 .. n : taken[j] \in Requests
    BY LenProperties, ElementOfSeq
  <2>2. \A j \in 1 .. n : taken[j] \in Range(taken)
    BY <2>1 DEF Range
  <2> QED  BY <2>1, <2>2
<1>3. Def(c)
  <2>1. \E f : Def(f)
    <3>1. \E f : IsSorting(f, list, taken, n)
      BY <1>2, SortingExists
    <3> QED  BY <3>1 DEF IsSorting
  <2> HIDE DEF Def
  <2> QED  BY <2>1
<1> HIDE DEF c, n
<1>4. /\ 0 \in 0 .. n /\ c[0] = list
      /\ \A k \in 1 .. n : k \in 0 .. n /\ k - 1 \in 0 .. n
                           /\ c[k] = Sorted(c[k - 1], taken[k])
  <2>1. \A k \in 0 .. n : c[k] = IF k = 0 THEN list ELSE Sorted(c[k - 1], taken[k])
    BY <1>3, Zenon
  <2>2. 0 \in 0 .. n /\ \A k \in 1 .. n : k \in 0 .. n /\ k # 0 /\ k - 1 \in 0 .. n
    BY <1>2
  <2> QED  BY <2>1, <2>2, Zenon
<1> DEFINE Good(k) ==
      /\ c[k] \in Seq(Requests) /\ IsInjective(c[k])
      /\ Range(c[k]) = Range(list) \cup First(k)
      /\ \A a, b : Ahead(list, a, b) => Ahead(c[k], a, b)
      /\ \A a \in Range(list) \cap soft, b \in First(k) : Ahead(c[k], a, b)
    Bad == {k \in 0 .. n : ~ Good(k)}
<1> HIDE DEF Def
<1>5. ASSUME Bad # {} PROVE FALSE
  <2>1. PICK k \in Bad : \A i \in Bad : k <= i
    <3>1. Bad \subseteq Nat
      BY <1>2
    <3> HIDE DEF Bad
    <3> QED  BY <1>5, <3>1, LeastNat
  <2>2. CASE k = 0
    <3>1. First(0) = {}
      OBVIOUS
    <3>2. Good(0)
      BY <1>4, <3>1
    <3> QED  BY <2>1, <2>2, <3>2
  <2>3. CASE k # 0
    <3>1. k \in 1 .. n /\ k - 1 \in 0 .. n /\ k - 1 < k
      <4>1. k \in 0 .. n
        OBVIOUS
      <4> HIDE DEF Bad
      <4> QED  BY <1>2, <2>3, <4>1
    <3>2. Good(k - 1)
      <4>1. k - 1 \notin Bad
        <5>1. ~ (k <= k - 1)
          BY <1>2, <3>1
        <5> HIDE DEF Bad
        <5> QED  BY <2>1, <5>1
      <4> HIDE DEF Good
      <4> QED  BY <3>1, <4>1
    <3>3. c[k] = Sorted(c[k - 1], taken[k]) /\ taken[k] \in Requests
      BY <1>2, <1>4, <3>1
    <3>4. taken[k] \notin Range(c[k - 1])
      <4>1. ASSUME NEW j \in 1 .. k - 1 PROVE taken[k] # taken[j]
        <5>1. j \in 1 .. n /\ k # j
          BY <1>2, <3>1
        <5> QED  BY <1>2, <3>1, <5>1 DEF IsInjective
      <4>2. taken[k] \notin First(k - 1)
        BY <4>1
      <4> QED  BY <1>2, <3>1, <3>2, <4>2
    <3>5. First(k) = First(k - 1) \cup {taken[k]}
      BY <3>1
    <3> DEFINE l == c[k - 1]
               x == taken[k]
    <3>8. l \in Seq(Requests) /\ x \in Requests /\ IsInjective(l) /\ x \notin Range(l)
      BY <3>2, <3>3, <3>4
    <3> HIDE DEF First
    <3>6. /\ c[k] \in Seq(Requests) /\ IsInjective(c[k])
          /\ Range(c[k]) = Range(c[k - 1]) \cup {taken[k]}
          /\ \A a, b : Ahead(c[k - 1], a, b) => Ahead(c[k], a, b)
          /\ \A a \in Range(c[k - 1]) \cap soft : Ahead(c[k], a, taken[k])
      <4>1. c[k] = Sorted(l, x)
        BY <3>3
      <4> HIDE DEF l, x
      <4>2. /\ Sorted(l, x) \in Seq(Requests) /\ IsInjective(Sorted(l, x))
            /\ Range(Sorted(l, x)) = Range(l) \cup {x}
            /\ \A a, b : Ahead(l, a, b) => Ahead(Sorted(l, x), a, b)
            /\ \A a \in Range(l) \cap soft : Ahead(Sorted(l, x), a, x)
        BY <3>8, SortedKeeps
      <4>3. /\ c[k] \in Seq(Requests) /\ IsInjective(c[k])
            /\ Range(c[k]) = Range(l) \cup {x}
            /\ \A a, b : Ahead(l, a, b) => Ahead(c[k], a, b)
            /\ \A a \in Range(l) \cap soft : Ahead(c[k], a, x)
        BY <4>1, <4>2, Zenon
      <4> QED  BY <4>3 DEF l, x
    <3>7. Good(k)
      BY <3>2, <3>5, <3>6
    <3> QED  BY <2>1, <3>7
  <2> QED  BY <2>2, <2>3
<1>6. Good(n)
  <2>1. n \in 0 .. n
    BY <1>2
  <2> HIDE DEF Good
  <2> QED  BY <1>5, <2>1
<1>7. First(n) = Range(taken)
  BY <1>2 DEF Range
<1> HIDE DEF First
<1> QED  BY <1>1, <1>6, <1>7 DEF n

LEMMA EmptyList ==
  ASSUME NEW S, NEW s \in Seq(S), Len(s) = 0
  PROVE  Range(s) = {} /\ IsInjective(s) /\ \A a, b : ~ Ahead(s, a, b)
<1>1. DOMAIN s = {}
  BY LenProperties
<1> QED  BY <1>1 DEF Range, IsInjective, Ahead

LEMMA RangeOfConcat ==
  ASSUME NEW S, NEW a \in Seq(S), NEW b \in Seq(S)
  PROVE  /\ Range(a \o b) = Range(a) \cup Range(b)
         /\ \A x, y : Ahead(a, x, y) => Ahead(a \o b, x, y)
         /\ \A x \in Range(a), y \in Range(b) : Ahead(a \o b, x, y)
<1> DEFINE w == a \o b
<1>1. /\ Len(a) \in Nat /\ Len(b) \in Nat /\ Len(w) = Len(a) + Len(b)
      /\ \A j \in 1 .. Len(a) + Len(b) :
           w[j] = IF j <= Len(a) THEN a[j] ELSE b[j - Len(a)]
      /\ DOMAIN w = 1 .. Len(a) + Len(b) /\ DOMAIN a = 1 .. Len(a)
      /\ DOMAIN b = 1 .. Len(b)
  BY ConcatProperties, LenProperties
<1> HIDE DEF w
<1>2. ASSUME NEW j \in 1 .. Len(a)
      PROVE  j \in 1 .. Len(a) + Len(b) /\ w[j] = a[j]
  BY <1>1
<1>3. ASSUME NEW j \in 1 .. Len(b)
      PROVE  Len(a) + j \in 1 .. Len(a) + Len(b) /\ w[Len(a) + j] = b[j]
  <2>1. /\ Len(a) + j \in 1 .. Len(a) + Len(b) /\ ~ (Len(a) + j <= Len(a))
        /\ (Len(a) + j) - Len(a) = j
    BY <1>1
  <2> QED  BY <1>1, <2>1
<1>4. ASSUME NEW j \in 1 .. Len(a) + Len(b)
      PROVE  w[j] \in Range(a) \cup Range(b)
  <2>1. CASE j <= Len(a)
    BY <1>1, <2>1 DEF Range
  <2>2. CASE ~ (j <= Len(a))
    <3>1. j - Len(a) \in 1 .. Len(b)
      BY <1>1, <2>2
    <3> QED  BY <1>1, <2>2, <3>1 DEF Range
  <2> QED  BY <2>1, <2>2
<1>5. Range(w) = Range(a) \cup Range(b)
  <2>1. Range(w) \subseteq Range(a) \cup Range(b)
    BY <1>1, <1>4 DEF Range
  <2>2. Range(a) \subseteq Range(w)
    BY <1>1, <1>2 DEF Range
  <2>3. Range(b) \subseteq Range(w)
    BY <1>1, <1>3 DEF Range
  <2> QED  BY <2>1, <2>2, <2>3
<1>6. ASSUME NEW x, NEW y, Ahead(a, x, y) PROVE Ahead(w, x, y)
  BY <1>1, <1>2, <1>6 DEF Ahead
<1>7. ASSUME NEW x \in Range(a), NEW y \in Range(b) PROVE Ahead(w, x, y)
  <2>1. PICK i \in 1 .. Len(a) : a[i] = x
    BY <1>1 DEF Range
  <2>2. PICK j \in 1 .. Len(b) : b[j] = y
    BY <1>1 DEF Range
  <2>3. i < Len(a) + j
    BY <1>1
  <2> QED  BY <1>1, <1>2, <1>3, <2>1, <2>2, <2>3 DEF Ahead
<1> QED  BY <1>5, <1>6, <1>7 DEF w

\* What is ahead, and what it is ahead of, is in the list.
LEMMA AheadIsInside ==
  ASSUME NEW s, NEW a, NEW b, Ahead(s, a, b)
  PROVE  a \in Range(s) /\ b \in Range(s)
BY DEF Ahead, Range

-----------------------------------------------------------------------------
(* The invariant.                                                          *)

Shape ==
  /\ queue \in Seq(Requests) /\ queue_head \in Seq(Requests)
  /\ rq \in [Requests -> [pos : Int, end : Nat,
                      dir : {"free", "read", "write", "pc"}]]
  /\ hash \in [Requests -> Nat] /\ nr_sorted \in Int
  /\ plug \subseteq Requests
  /\ last_merge \in Requests \cup {NoReq} /\ joining \in Requests \cup {NoReq}

\* A request is in the plug, in noop's list, on the driver's list or with the
\* device; those of the first three are no free ones.
Apart ==
  /\ IsInjective(queue) /\ IsInjective(queue_head)
  /\ Range(queue) \cap Range(queue_head) = {}
  /\ plug \cap (Range(queue) \cup Range(queue_head)) = {}
  /\ \A r \in plug \cup Range(queue) \cup Range(queue_head) : rq[r].dir # "free"
  /\ \A r \in Requests : rq[r].dir # "free" => rq[r].end > 0
  /\ joining # NoReq => joining \in Range(queue)

\* Fences are barriers on the driver's list; what they hold back is behind
\* them there, or still in noop's list.
Barriers ==
  /\ boundary_rq = NoReq \/ boundary_rq \notin started
  /\ fences \subseteq Range(queue_head) \cap soft
  /\ \A p \in behind :
       \/ Ahead(queue_head, p[1], p[2])
       \/ p[1] \in fences /\ p[2] \in Range(queue)

MergeInv == Shape /\ Apart /\ Barriers /\ MergeStateAgrees

LEMMA InitMergeInv == MergingInit => MergeInv
<1> SUFFICES ASSUME MergingInit PROVE MergeInv
  OBVIOUS
<1>1. /\ Free \in [pos : Int, end : Nat, dir : {"free", "read", "write", "pc"}]
      /\ Free.dir = "free" /\ NotHashed = 0
  BY DEF Free, NotHashed
<1>2. /\ queue = <<>> /\ queue_head = <<>> /\ plug = {} /\ nr_sorted = 0
      /\ rq = [r \in Requests |-> Free] /\ hash = [r \in Requests |-> NotHashed]
      /\ boundary_rq = NoReq /\ last_merge = NoReq /\ joining = NoReq
      /\ fences = {} /\ behind = {}
  BY DEF MergingInit
<1>3. /\ queue \in Seq(Requests) /\ queue_head \in Seq(Requests) /\ Len(queue) = 0
      /\ Range(queue) = {} /\ Range(queue_head) = {}
      /\ IsInjective(queue) /\ IsInjective(queue_head)
  <2>1. Len(queue) = 0 /\ queue \in Seq(Requests) /\ queue_head = queue
    BY <1>2
  <2> QED  BY <2>1, EmptyList
<1>4. Shape
  BY <1>1, <1>2, <1>3 DEF Shape
<1>5. Apart
  BY <1>1, <1>2, <1>3 DEF Apart
<1>6. Barriers
  BY <1>2, <1>3 DEF Barriers
<1>7. MergeStateAgrees
  BY <1>2, <1>3 DEF MergeStateAgrees
<1> QED  BY <1>4, <1>5, <1>6, <1>7 DEF MergeInv

\* The hash holds what is in the elevator.
LEMMA FindsInQueue ==
  ASSUME MergeInv, NEW v \in Requests, NEW sector, Finds(v, sector)
  PROVE  v \in Range(queue)
<1>1. Mergeable(v) /\ hash[v] = rq[v].end /\ rq[v].dir # "free"
  BY DEF Finds, Mergeable
<1>2. hash[v] # NotHashed
  BY <1>1 DEF MergeInv, Apart, Shape, NotHashed
<1> QED  BY <1>2 DEF MergeInv, MergeStateAgrees

-----------------------------------------------------------------------------
(* Merging.                                                                *)

\* list_del_init, if it is in the list.
LEMMA RemoveFirstKeeps ==
  ASSUME NEW s \in Seq(Requests), IsInjective(s), NEW x \in Requests
  PROVE  /\ RemoveFirst(s, x) \in Seq(Requests) /\ IsInjective(RemoveFirst(s, x))
         /\ Range(RemoveFirst(s, x)) = Range(s) \ {x}
         /\ Len(RemoveFirst(s, x)) = IF x \in Range(s) THEN Len(s) - 1 ELSE Len(s)
<1>1. CASE x \in Range(s)
  <2> DEFINE w == RemoveFirst(s, x)
  <2>1. w \in Seq(Requests) /\ Len(w) = Len(s) - 1
    BY <1>1, RemoveFirstOneLess
  <2>2. PICK i \in 1 .. Len(w) + 1 : s[i] = x /\ OneMore(s, w, i, x)
    BY <1>1, RemoveFirstOneLess
  <2> HIDE DEF w
  <2>3. Range(w) = Range(s) \ {x} /\ IsInjective(w)
    BY <2>1, <2>2, OneLessKeeps
  <2> QED  BY <1>1, <2>1, <2>3 DEF w
<1>2. CASE x \notin Range(s)
  <2>1. DOMAIN s = 1 .. Len(s)
    BY LenProperties
  <2>2. ~ \E i \in 1 .. Len(s) : s[i] = x
    BY <1>2, <2>1 DEF Range
  <2>3. RemoveFirst(s, x) = s
    BY <2>2 DEF RemoveFirst
  <2> QED  BY <1>2, <2>3
<1> QED  BY <1>1, <1>2

\* The list loses next, which v, in the list, takes over.
LEMMA MergeRequestsKeeps ==
  ASSUME MergeInv, NEW v \in Range(queue), NEW next \in plug \cup Range(queue),
         v # next,
         NEW g \in [Requests -> [pos : Int, end : Nat,
                                 dir : {"free", "read", "write", "pc"}]],
         \A u \in Requests : g[u].dir = rq[u].dir /\ (u # v => g[u].end = rq[u].end),
         elv_merge_requests(g, v, next),
         joining' \in {v, NoReq}
  PROVE  MergeInv'
<1> USE DEF MergeInv
<1>1. /\ v \in Requests /\ next \in Requests /\ Range(queue) \subseteq Requests
      /\ Range(queue_head) \subseteq Requests /\ v \notin plug
      /\ next \notin Range(queue_head) /\ v \notin Range(queue_head)
  BY RangeOfSeq DEF Shape, Apart
<1>2. /\ queue' \in Seq(Requests) /\ IsInjective(queue')
      /\ Range(queue') = Range(queue) \ {next} /\ v \in Range(queue')
      /\ Len(queue') = IF next \in Range(queue) THEN Len(queue) - 1 ELSE Len(queue)
  BY <1>1, RemoveFirstKeeps DEF elv_merge_requests, Shape, Apart
<1>3. /\ nr_sorted' = IF next \in plug THEN nr_sorted ELSE nr_sorted - 1
      /\ plug' = plug \ {next} /\ nomerge' = nomerge \ {next} /\ last_merge' = v
      /\ behind' = Inherited(next, v) \cup Fenced(v) /\ fences' = fences
      /\ queue_head' = queue_head /\ boundary_rq' = boundary_rq
      /\ soft' = soft /\ started' = started
  BY DEF elv_merge_requests, driverVars
<1>4. /\ rq' \in [Requests -> [pos : Int, end : Nat,
                               dir : {"free", "read", "write", "pc"}]]
      /\ \A u \in Requests : u # next =>
           rq'[u].dir = rq[u].dir /\ (u # v => rq'[u].end = rq[u].end)
      /\ rq'[v].end = g[next].end /\ rq'[next].dir = "free"
  <2>1. Free \in [pos : Int, end : Nat, dir : {"free", "read", "write", "pc"}]
        /\ Free.dir = "free"
    BY DEF Free
  <2>2. rq' = [g EXCEPT ![v].end = g[next].end, ![next] = Free]
    BY DEF elv_merge_requests
  <2> QED  BY <1>1, <2>1, <2>2
<1>5. g[next].end > 0 /\ g[next].end \in Nat
  <2>1. rq[next].dir # "free" /\ rq[next].end > 0
    BY <1>1 DEF Apart
  <2> QED  BY <1>1, <2>1
<1>6. /\ hash' \in [Requests -> Nat] /\ hash'[v] = g[next].end /\ hash'[next] = 0
      /\ \A u \in Requests : u # v /\ u # next => hash'[u] = hash[u]
  <2>1. hash' = [[hash EXCEPT ![v] = g[next].end] EXCEPT ![next] = 0]
    BY DEF elv_merge_requests, Unhashed, Reposition, NotHashed
  <2> QED  BY <1>1, <1>5, <2>1 DEF Shape
<1>7. Shape'
  <2>1. nr_sorted' \in Int /\ plug' \subseteq Requests
    BY <1>3 DEF Shape
  <2>2. queue_head' \in Seq(Requests)
    BY <1>3 DEF Shape
  <2>3. /\ last_merge' \in Requests \cup {NoReq} /\ joining' \in Requests \cup {NoReq}
    BY <1>1, <1>3
  <2> QED  BY <1>2, <1>4, <1>6, <2>1, <2>2, <2>3 DEF Shape
<1>8. Apart'
  <2>1. \A r \in Requests : rq'[r].dir # "free" => rq'[r].end > 0
    BY <1>4, <1>5 DEF Apart
  <2>2. \A r \in plug' \cup Range(queue') \cup Range(queue_head') : rq'[r].dir # "free"
    BY <1>1, <1>2, <1>3, <1>4 DEF Apart, Shape
  <2> QED  BY <1>1, <1>2, <1>3, <2>1, <2>2 DEF Apart
<1>9. Barriers'
  <2>1. ASSUME NEW p \in behind'
        PROVE  \/ Ahead(queue_head, p[1], p[2])
               \/ p[1] \in fences /\ p[2] \in Range(queue')
    <3>1. CASE p \in Fenced(v)
      BY <1>2, <3>1 DEF Fenced
    <3>2. CASE p \in Inherited(next, v)
      <4>1. PICK o \in behind :
              /\ p[1] = IF o[1] = next THEN v ELSE o[1]
              /\ p[2] = IF o[2] = next THEN v ELSE o[2]
        BY <3>2 DEF Inherited
      <4>2. CASE Ahead(queue_head, o[1], o[2])
        BY <1>1, <4>1, <4>2, AheadIsInside
      <4>3. CASE o[1] \in fences /\ o[2] \in Range(queue)
        BY <1>1, <1>2, <4>1, <4>3 DEF Barriers
      <4> QED  BY <4>2, <4>3 DEF Barriers
    <3> QED  BY <1>3, <2>1, <3>1, <3>2
  <2> QED  BY <1>3, <2>1 DEF Barriers
<1>10. MergeStateAgrees'
  <2>1. nr_sorted' = Len(queue')
    BY <1>1, <1>2, <1>3 DEF MergeStateAgrees, Apart
  <2>2. \A r \in Requests :
          hash'[r] # NotHashed => r \in Range(queue') /\ hash'[r] = rq'[r].end
    BY <1>1, <1>2, <1>4, <1>6 DEF MergeStateAgrees, NotHashed
  <2>3. ASSUME NEW r \in Range(queue'), Mergeable(r)' PROVE hash'[r] # NotHashed
    <3>1. CASE r = v
      BY <1>5, <1>6, <3>1 DEF NotHashed
    <3>2. CASE r # v
      <4>1. r \in Range(queue) /\ r # next /\ r \in Requests
        BY <1>1, <1>2
      <4>2. Mergeable(r)
        BY <1>3, <1>4, <2>3, <4>1 DEF Mergeable
      <4> QED  BY <1>6, <3>2, <4>1, <4>2 DEF MergeStateAgrees
    <3> QED  BY <3>1, <3>2
  <2> QED  BY <1>2, <1>3, <2>1, <2>2, <2>3 DEF MergeStateAgrees
<1> QED  BY <1>7, <1>8, <1>9, <1>10

\* The list stays; v grows at one of its ends.
LEMMA MergedRequestKeeps ==
  ASSUME MergeInv, NEW v \in Range(queue),
         NEW g \in [Requests -> [pos : Int, end : Nat,
                                 dir : {"free", "read", "write", "pc"}]],
         \A u \in Requests : g[u].dir = rq[u].dir /\ (u # v => g[u].end = rq[u].end),
         g[v].end > 0,
         NEW hashed \in [Requests -> Nat],
         \A u \in Requests : u # v => hashed[u] = hash[u],
         hashed[v] # NotHashed => hashed[v] = g[v].end,
         hash[v] # NotHashed => hashed[v] # NotHashed,
         elv_merged_request(g, v, hashed),
         joining' = joining
  PROVE  MergeInv'
<1> USE DEF MergeInv
<1>1. /\ v \in Requests /\ Range(queue) \subseteq Requests
      /\ Range(queue_head) \subseteq Requests
  BY RangeOfSeq DEF Shape
<1>2. /\ rq' = g /\ hash' = hashed /\ last_merge' = v
      /\ behind' = behind \cup Fenced(v)
      /\ plug' = plug /\ queue' = queue /\ queue_head' = queue_head
      /\ boundary_rq' = boundary_rq /\ soft' = soft /\ started' = started
      /\ nomerge' = nomerge /\ nr_sorted' = nr_sorted /\ fences' = fences
  BY DEF elv_merged_request, driverVars
<1>3. Shape'
  BY <1>1, <1>2 DEF Shape
<1>4. Apart'
  BY <1>1, <1>2 DEF Apart, Shape
<1>5. Barriers'
  BY <1>2 DEF Barriers, Fenced
<1>6. MergeStateAgrees'
  <2>1. \A r \in Requests : Mergeable(r)' <=> Mergeable(r)
    BY <1>2 DEF Mergeable
  <2>2. \A r \in Requests : hash'[r] # NotHashed => r \in Range(queue) /\ hash'[r] = rq'[r].end
    BY <1>1, <1>2 DEF MergeStateAgrees
  <2>3. \A r \in Range(queue) : Mergeable(r)' => hash'[r] # NotHashed
    BY <1>1, <1>2, <2>1 DEF MergeStateAgrees
  <2> QED  BY <1>1, <1>2, <2>2, <2>3 DEF MergeStateAgrees
<1> QED  BY <1>3, <1>4, <1>5, <1>6

LEMMA LatterInQueue ==
  ASSUME MergeInv, NEW v, NEW next, Latter(v, next)
  PROVE  v \in Range(queue) /\ next \in Range(queue)
<1>1. PICK i \in 1 .. Len(queue) - 1 : queue[i] = v /\ queue[i + 1] = next
  BY DEF Latter
<1>2. DOMAIN queue = 1 .. Len(queue) /\ Len(queue) \in Nat
  BY LenProperties DEF MergeInv, Shape
<1>3. i \in DOMAIN queue /\ i + 1 \in DOMAIN queue
  BY <1>2
<1> QED  BY <1>1, <1>3 DEF Range

LEMMA BackMergeStep ==
  ASSUME MergeInv, joining = NoReq, joining' = joining,
         NEW v \in Range(queue), BackMerge(v)
  PROVE  MergeInv'
<1> DEFINE g == [rq EXCEPT ![v].end = @ + 1]
<1>1. v \in Requests
  BY RangeOfSeq DEF MergeInv, Shape
<1>2. rq \in [Requests -> [pos : Int, end : Nat, dir : {"free", "read", "write", "pc"}]]
      /\ hash \in [Requests -> Nat]
  BY DEF MergeInv, Shape
<1>3. /\ g \in [Requests -> [pos : Int, end : Nat, dir : {"free", "read", "write", "pc"}]]
      /\ \A u \in Requests : g[u].dir = rq[u].dir /\ (u # v => g[u].end = rq[u].end)
      /\ g[v].end > 0 /\ g[v].end \in Nat
  BY <1>1, <1>2
<1>4. \/ elv_merged_request(g, v, Reposition(hash, v, g[v].end))
      \/ \E next \in Requests : /\ Latter(v, next) /\ Joins(g, v, next)
                                /\ elv_merge_requests(g, v, next)
  BY DEF BackMerge
<1> HIDE DEF g
<1>5. CASE elv_merged_request(g, v, Reposition(hash, v, g[v].end))
  <2> DEFINE hashed == Reposition(hash, v, g[v].end)
  <2>1. /\ hashed \in [Requests -> Nat] /\ hashed[v] = g[v].end /\ hashed[v] # NotHashed
        /\ \A u \in Requests : u # v => hashed[u] = hash[u]
    BY <1>1, <1>2, <1>3 DEF Reposition, NotHashed
  <2> HIDE DEF hashed
  <2>2. elv_merged_request(g, v, hashed)
    BY <1>5 DEF hashed
  <2> QED  BY <1>3, <2>1, <2>2, MergedRequestKeeps
<1>6. ASSUME NEW next \in Requests, Latter(v, next), Joins(g, v, next),
             elv_merge_requests(g, v, next)
      PROVE  MergeInv'
  <2>1. next \in plug \cup Range(queue) /\ v # next
    BY <1>6, LatterInQueue DEF Joins
  <2> QED  BY <1>3, <1>6, <2>1, MergeRequestsKeeps
<1> QED  BY <1>4, <1>5, <1>6

LEMMA FrontMergeStep ==
  ASSUME MergeInv, joining = NoReq, joining' = joining,
         NEW v \in Range(queue), FrontMerge(v)
  PROVE  MergeInv'
<1> DEFINE g == [rq EXCEPT ![v].pos = @ - 1]
<1>1. v \in Requests
  BY RangeOfSeq DEF MergeInv, Shape
<1>2. rq \in [Requests -> [pos : Int, end : Nat, dir : {"free", "read", "write", "pc"}]]
      /\ hash \in [Requests -> Nat]
  BY DEF MergeInv, Shape
<1>3. /\ g \in [Requests -> [pos : Int, end : Nat, dir : {"free", "read", "write", "pc"}]]
      /\ \A u \in Requests : g[u].dir = rq[u].dir /\ g[u].end = rq[u].end
  BY <1>1, <1>2
<1>4. \/ elv_merged_request(g, v, hash)
      \/ \E prev \in Requests : /\ Latter(prev, v) /\ Joins(g, prev, v)
                                /\ elv_merge_requests(g, prev, v)
  BY DEF FrontMerge
<1>5. g[v].end > 0 /\ (hash[v] # NotHashed => hash[v] = g[v].end)
  BY <1>1, <1>3 DEF MergeInv, Apart, MergeStateAgrees
<1> HIDE DEF g
<1>6. CASE elv_merged_request(g, v, hash)
  BY <1>2, <1>3, <1>5, <1>6, MergedRequestKeeps
<1>7. ASSUME NEW prev \in Requests, Latter(prev, v), Joins(g, prev, v),
             elv_merge_requests(g, prev, v)
      PROVE  MergeInv'
  <2>1. prev \in Range(queue) /\ v # prev
    BY <1>7, LatterInQueue DEF Joins
  <2> QED  BY <1>3, <1>7, <2>1, MergeRequestsKeeps
<1> QED  BY <1>4, <1>6, <1>7

LEMMA TooLargeStep ==
  ASSUME MergeInv, joining' = joining, NEW v \in Range(queue), TooLarge(v)
  PROVE  MergeInv'
<1> USE DEF MergeInv
<1>1. /\ nomerge' = nomerge \cup {v}
      /\ last_merge' = last_merge \/ last_merge' = NoReq
      /\ rq' = rq /\ hash' = hash /\ behind' = behind
      /\ plug' = plug /\ queue' = queue /\ queue_head' = queue_head
      /\ boundary_rq' = boundary_rq /\ soft' = soft /\ started' = started
      /\ nr_sorted' = nr_sorted /\ fences' = fences
  BY DEF TooLarge, driverVars
<1>2. Shape' /\ Apart' /\ Barriers'
  BY <1>1 DEF Shape, Apart, Barriers
<1>3. \A r \in Requests : Mergeable(r)' => Mergeable(r)
  BY <1>1 DEF Mergeable
<1>4. Range(queue) \subseteq Requests
  BY RangeOfSeq DEF Shape
<1>5. MergeStateAgrees'
  BY <1>1, <1>3, <1>4 DEF MergeStateAgrees
<1> QED  BY <1>2, <1>5

-----------------------------------------------------------------------------
(* Setting up and inserting.                                               *)

LEMMA SweepKeeps ==
  ASSUME MergeInv, Sweep
  PROVE  /\ hash' \in [Requests -> Nat]
         /\ \A r \in Requests : hash'[r] = NotHashed \/ hash'[r] = hash[r]
         /\ \A r \in Requests : Mergeable(r) => hash'[r] = hash[r]
<1>1. PICK gone \in SUBSET Swept :
        hash' = [r \in Requests |-> IF r \in gone THEN NotHashed ELSE hash[r]]
  BY DEF Sweep
<1>2. \A r \in gone : ~ Mergeable(r)
  BY DEF Swept
<1>3. NotHashed \in Nat /\ hash \in [Requests -> Nat]
  BY DEF NotHashed, MergeInv, Shape
<1> QED  BY <1>1, <1>2, <1>3

LEMMA GetRequestStep ==
  ASSUME MergeInv, NEW r \in Requests, NEW pos \in Nat,
         NEW dir \in {"read", "write", "pc"}, GetRequest(r, pos, dir)
  PROVE  MergeInv'
<1> USE DEF MergeInv
<1>1. /\ rq[r].dir = "free" /\ plug' = plug \cup {r}
      /\ queue' = queue /\ queue_head' = queue_head /\ behind' = behind
      /\ boundary_rq' = boundary_rq /\ soft' = soft /\ started' = started
      /\ nomerge' = nomerge /\ nr_sorted' = nr_sorted /\ fences' = fences
      /\ last_merge' = last_merge /\ joining' = joining
  BY DEF GetRequest, driverVars
<1>2. r \notin plug \cup Range(queue) \cup Range(queue_head)
  BY <1>1 DEF Apart
<1>3. /\ rq' \in [Requests -> [pos : Int, end : Nat,
                               dir : {"free", "read", "write", "pc"}]]
      /\ \A u \in Requests : u # r => rq'[u] = rq[u]
      /\ rq'[r].end > 0 /\ rq'[r].dir # "free"
  <2>1. rq' = [rq EXCEPT ![r] = [pos |-> pos, end |-> pos + 1, dir |-> dir]]
    BY DEF GetRequest
  <2>2. rq \in [Requests -> [pos : Int, end : Nat, dir : {"free", "read", "write", "pc"}]]
    BY DEF Shape
  <2>3. pos \in Int /\ pos + 1 \in Nat /\ pos + 1 > 0
    OBVIOUS
  <2> QED  BY <2>1, <2>2, <2>3
<1>4. /\ hash' \in [Requests -> Nat]
      /\ \A u \in Requests : hash'[u] = NotHashed \/ hash'[u] = hash[u]
      /\ \A u \in Requests : Mergeable(u) => hash'[u] = hash[u]
  BY SweepKeeps DEF GetRequest
<1>5. Range(queue) \subseteq Requests /\ Range(queue_head) \subseteq Requests
  BY RangeOfSeq DEF Shape
<1>6. Shape'
  BY <1>1, <1>3, <1>4 DEF Shape
<1>7. Apart'
  <2>1. \A u \in plug' \cup Range(queue) \cup Range(queue_head) : rq'[u].dir # "free"
    BY <1>1, <1>2, <1>3, <1>5 DEF Apart, Shape
  <2>2. \A u \in Requests : rq'[u].dir # "free" => rq'[u].end > 0
    BY <1>3 DEF Apart
  <2> QED  BY <1>1, <1>2, <2>1, <2>2 DEF Apart
<1>8. Barriers'
  BY <1>1 DEF Barriers
<1>9. MergeStateAgrees'
  <2>1. ASSUME NEW u \in Requests, hash'[u] # NotHashed
        PROVE  u \in Range(queue) /\ hash'[u] = rq'[u].end
    BY <1>2, <1>3, <1>4, <2>1 DEF MergeStateAgrees
  <2>2. ASSUME NEW u \in Range(queue), Mergeable(u)' PROVE hash'[u] # NotHashed
    <3>1. u \in Requests /\ rq'[u] = rq[u]
      BY <1>2, <1>3, <1>5
    <3>2. Mergeable(u)
      BY <1>1, <2>2, <3>1 DEF Mergeable
    <3> QED  BY <1>4, <3>1, <3>2 DEF MergeStateAgrees
  <2> QED  BY <1>1, <2>1, <2>2 DEF MergeStateAgrees
<1> QED  BY <1>6, <1>7, <1>8, <1>9

LEMMA MergeEndsStep ==
  ASSUME MergeInv, MergeEnds
  PROVE  MergeInv'
<1> USE DEF MergeInv
<1>1. /\ rq' = rq /\ plug' = plug
      /\ queue' = queue /\ queue_head' = queue_head /\ behind' = behind
      /\ boundary_rq' = boundary_rq /\ soft' = soft /\ started' = started
      /\ nomerge' = nomerge /\ nr_sorted' = nr_sorted /\ fences' = fences
      /\ last_merge' = last_merge /\ joining' = NoReq
  BY DEF MergeEnds, driverVars
<1>2. /\ hash' \in [Requests -> Nat]
      /\ \A u \in Requests : hash'[u] = NotHashed \/ hash'[u] = hash[u]
      /\ \A u \in Requests : Mergeable(u) => hash'[u] = hash[u]
  BY SweepKeeps DEF MergeEnds
<1>3. Range(queue) \subseteq Requests /\ \A u \in Requests : Mergeable(u)' <=> Mergeable(u)
  BY <1>1, RangeOfSeq DEF Shape, Mergeable
<1>4. Shape' /\ Apart' /\ Barriers'
  BY <1>1, <1>2 DEF Shape, Apart, Barriers
<1>5. MergeStateAgrees'
  BY <1>1, <1>2, <1>3 DEF MergeStateAgrees
<1> QED  BY <1>4, <1>5

LEMMA InsertMergeStep ==
  ASSUME MergeInv, joining = NoReq, NEW r \in Requests, InsertMerge(r)
  PROVE  MergeInv'
<1>1. rq \in [Requests -> [pos : Int, end : Nat, dir : {"free", "read", "write", "pc"}]]
  BY DEF MergeInv, Shape
<1>2. r \in plug
  BY DEF InsertMerge
<1>3. CASE last_merge # NoReq /\ Joins(rq, last_merge, r)
           /\ elv_merge_requests(rq, last_merge, r) /\ UNCHANGED joining
  <2>1. last_merge \in Range(queue) /\ last_merge # r
    BY <1>3 DEF MergeInv, MergeStateAgrees, Joins
  <2> QED  BY <1>1, <1>2, <1>3, <2>1, MergeRequestsKeeps
<1>4. ASSUME NEW v \in Requests, Finds(v, rq[r].pos), Joins(rq, v, r),
             elv_merge_requests(rq, v, r), joining' = v
      PROVE  MergeInv'
  <2>1. v \in Range(queue) /\ v # r
    BY <1>4, FindsInQueue DEF Joins
  <2> QED  BY <1>1, <1>2, <1>4, <2>1, MergeRequestsKeeps
<1> QED  BY <1>3, <1>4 DEF InsertMerge

LEMMA MergeAgainStep ==
  ASSUME MergeInv, joining # NoReq, MergeAgain
  PROVE  MergeInv'
<1>1. rq \in [Requests -> [pos : Int, end : Nat, dir : {"free", "read", "write", "pc"}]]
  BY DEF MergeInv, Shape
<1>2. joining \in Range(queue)
  BY DEF MergeInv, Apart
<1>3. PICK v \in Requests :
        /\ Finds(v, rq[joining].pos) /\ Joins(rq, v, joining)
        /\ elv_merge_requests(rq, v, joining) /\ joining' = v
  BY DEF MergeAgain
<1>4. v \in Range(queue) /\ v # joining
  BY <1>3, FindsInQueue DEF Joins
<1> QED  BY <1>1, <1>2, <1>3, <1>4, MergeRequestsKeeps

\* list_add and list_add_tail.
LEMMA ConsKeeps ==
  ASSUME NEW s \in Seq(Requests), NEW r \in Requests, r \notin Range(s), IsInjective(s)
  PROVE  /\ <<r>> \o s \in Seq(Requests) /\ IsInjective(<<r>> \o s)
         /\ Range(<<r>> \o s) = Range(s) \cup {r}
         /\ \A a, b : Ahead(s, a, b) => Ahead(<<r>> \o s, a, b)
<1> DEFINE w == <<r>> \o s
<1>1. w \in Seq(Requests) /\ OneMore(w, s, 1, r) /\ 1 \in 1 .. Len(s) + 1
  <2>1. 1 \in 1 .. Len(s) + 1
    BY LenProperties
  <2> QED  BY <2>1, ConsOneMore
<1> HIDE DEF w
<1>2. /\ Range(w) = Range(s) \cup {r} /\ IsInjective(w)
      /\ \A a, b : Ahead(s, a, b) => Ahead(w, a, b)
  BY <1>1, OneMoreKeeps
<1> QED  BY <1>1, <1>2 DEF w

LEMMA AppendKeeps ==
  ASSUME NEW s \in Seq(Requests), NEW r \in Requests, r \notin Range(s), IsInjective(s)
  PROVE  /\ Append(s, r) \in Seq(Requests) /\ IsInjective(Append(s, r))
         /\ Len(Append(s, r)) = Len(s) + 1
         /\ Range(Append(s, r)) = Range(s) \cup {r}
         /\ \A a, b : Ahead(s, a, b) => Ahead(Append(s, r), a, b)
         /\ \A a \in Range(s) : Ahead(Append(s, r), a, r)
<1> DEFINE w == Append(s, r)
           i == Len(s) + 1
<1>1. w \in Seq(Requests) /\ OneMore(w, s, i, r)
  BY AppendOneMore
<1>2. i \in 1 .. Len(s) + 1 /\ DOMAIN s = 1 .. i - 1
  BY LenProperties
<1>3. Len(w) = Len(s) + 1
  BY <1>1 DEF OneMore
<1> HIDE DEF w, i
<1>4. /\ Range(w) = Range(s) \cup {r} /\ IsInjective(w)
      /\ \A a, b : Ahead(s, a, b) => Ahead(w, a, b)
      /\ \A k \in 1 .. i - 1 : Ahead(w, s[k], r)
  BY <1>1, <1>2, OneMoreKeeps
<1>5. ASSUME NEW a \in Range(s) PROVE Ahead(w, a, r)
  BY <1>2, <1>4 DEF Range
<1> QED  BY <1>1, <1>3, <1>4, <1>5 DEF w

LEMMA TailKeeps ==
  ASSUME NEW s \in Seq(Requests), s # <<>>, IsInjective(s)
  PROVE  /\ Tail(s) \in Seq(Requests) /\ IsInjective(Tail(s))
         /\ Head(s) \in Range(s) /\ Range(Tail(s)) = Range(s) \ {Head(s)}
         /\ Len(Tail(s)) = Len(s) - 1
         /\ \A a, b : Ahead(s, a, b) => b # Head(s)
         /\ \A a, b : Ahead(s, a, b) /\ a # Head(s) => Ahead(Tail(s), a, b)
<1> DEFINE w == Tail(s)
<1>1. /\ w \in Seq(Requests) /\ Head(s) = s[1] /\ 1 \in 1 .. Len(w) + 1
      /\ OneMore(s, w, 1, s[1])
  BY TailOneLess
<1>2. Len(s) = Len(w) + 1 /\ Len(w) \in Nat /\ DOMAIN s = 1 .. Len(s)
  BY <1>1, LenProperties DEF OneMore
<1> HIDE DEF w
<1>3. /\ s[1] \in Range(s) /\ Range(w) = Range(s) \ {s[1]} /\ IsInjective(w)
      /\ \A a, b : Ahead(s, a, b) /\ a # s[1] /\ b # s[1] => Ahead(w, a, b)
  BY <1>1, OneLessKeeps
<1>4. ASSUME NEW a, NEW b, Ahead(s, a, b) PROVE b # s[1]
  <2>1. PICK i, j \in 1 .. Len(s) : i < j /\ s[j] = b
    BY <1>2, <1>4 DEF Ahead
  <2>2. j # 1 /\ 1 \in DOMAIN s
    BY <1>2, <2>1
  <2> QED  BY <1>2, <2>1, <2>2 DEF IsInjective
<1>5. Len(w) = Len(s) - 1
  BY <1>2
<1> QED  BY <1>1, <1>3, <1>4, <1>5 DEF w

LEMMA InsertFrontStep ==
  ASSUME MergeInv, NEW r \in Requests, InsertFront(r)
  PROVE  MergeInv'
<1> USE DEF MergeInv
<1>1. /\ r \in plug /\ plug' = plug \ {r} /\ soft' = soft \cup {r}
      /\ queue_head' = <<r>> \o queue_head
      /\ rq' = rq /\ queue' = queue /\ behind' = behind
      /\ boundary_rq' = boundary_rq /\ started' = started
      /\ nomerge' = nomerge /\ nr_sorted' = nr_sorted /\ fences' = fences
      /\ last_merge' = last_merge /\ hash' = hash /\ joining' = joining
  BY DEF InsertFront, mergeVars
<1>2. r \notin Range(queue) \cup Range(queue_head)
  BY <1>1 DEF Apart
<1>3. /\ queue_head' \in Seq(Requests) /\ IsInjective(queue_head')
      /\ Range(queue_head') = Range(queue_head) \cup {r}
      /\ \A a, b : Ahead(queue_head, a, b) => Ahead(queue_head', a, b)
  BY <1>1, <1>2, ConsKeeps DEF Shape, Apart
<1>4. Shape'
  BY <1>1, <1>3 DEF Shape
<1>5. Apart'
  BY <1>1, <1>2, <1>3 DEF Apart
<1>6. Barriers'
  BY <1>1, <1>3 DEF Barriers
<1>7. Range(queue) \subseteq Requests /\ \A u \in Requests : Mergeable(u)' => Mergeable(u)
  BY <1>1, RangeOfSeq DEF Shape, Mergeable
<1>8. MergeStateAgrees'
  BY <1>1, <1>3, <1>7 DEF MergeStateAgrees
<1> QED  BY <1>4, <1>5, <1>6, <1>8

LEMMA InsertSortStep ==
  ASSUME MergeInv, joining = NoReq, NEW r \in Requests, InsertSort(r)
  PROVE  MergeInv'
<1> USE DEF MergeInv
<1>1. /\ r \in plug /\ plug' = plug \ {r} /\ queue' = Append(queue, r)
      /\ nr_sorted' = nr_sorted + 1 /\ behind' = behind \cup Fenced(r)
      /\ last_merge' = IF last_merge = NoReq THEN r ELSE last_merge
      /\ soft' = soft /\ queue_head' = queue_head /\ rq' = rq
      /\ boundary_rq' = boundary_rq /\ started' = started
      /\ nomerge' = nomerge /\ fences' = fences /\ joining' = joining
  BY DEF InsertSort, driverVars
<1>2. r \notin Range(queue) \cup Range(queue_head)
  BY <1>1 DEF Apart
<1>3. /\ queue' \in Seq(Requests) /\ IsInjective(queue') /\ Len(queue') = Len(queue) + 1
      /\ Range(queue') = Range(queue) \cup {r}
  BY <1>1, <1>2, AppendKeeps DEF Shape, Apart
<1>4. rq[r].end \in Nat /\ rq[r].end > 0
  BY <1>1 DEF Shape, Apart
<1>5. /\ hash' \in [Requests -> Nat] /\ hash'[r] = rq[r].end
      /\ \A u \in Requests : u # r => hash'[u] = hash[u]
  <2>1. hash' = [hash EXCEPT ![r] = rq[r].end]
    BY DEF InsertSort, Reposition
  <2> QED  BY <1>4, <2>1 DEF Shape
<1>6. Shape'
  BY <1>1, <1>3, <1>5 DEF Shape
<1>7. Apart'
  BY <1>1, <1>2, <1>3 DEF Apart
<1>8. Barriers'
  BY <1>1, <1>3 DEF Barriers, Fenced
<1>9. MergeStateAgrees'
  <2>1. Range(queue) \subseteq Requests /\ \A u \in Requests : Mergeable(u)' => Mergeable(u)
    BY <1>1, RangeOfSeq DEF Shape, Mergeable
  <2>2. ASSUME NEW u \in Requests, hash'[u] # NotHashed
        PROVE  u \in Range(queue') /\ hash'[u] = rq'[u].end
    BY <1>1, <1>3, <1>5, <2>2 DEF MergeStateAgrees
  <2>3. ASSUME NEW u \in Range(queue'), Mergeable(u)' PROVE hash'[u] # NotHashed
    BY <1>3, <1>4, <1>5, <2>1, <2>3 DEF MergeStateAgrees, NotHashed
  <2> QED  BY <1>1, <1>3, <2>2, <2>3 DEF MergeStateAgrees, Shape
<1> QED  BY <1>6, <1>7, <1>8, <1>9

-----------------------------------------------------------------------------
(* Dispatching.                                                            *)

\* elv_dispatch_sort of some of noop's requests, which leave its list.
LEMMA DispatchedKeeps ==
  ASSUME MergeInv, NEW taken \in Seq(Requests), IsInjective(taken),
         Range(taken) \subseteq Range(queue), Dispatched(taken),
         queue' \in Seq(Requests), IsInjective(queue'),
         Range(queue') = Range(queue) \ Range(taken),
         Len(queue') = Len(queue) - Len(taken), joining = NoReq,
         UNCHANGED <<rq, plug, end_sector, boundary_rq, soft, started, nomerge,
                     joining, fences, behind>>
  PROVE  MergeInv'
<1> USE DEF MergeInv
<1>1. /\ queue_head' = SortedIn(queue_head, taken)
      /\ hash' = [r \in Requests |-> IF r \in Range(taken) THEN NotHashed ELSE hash[r]]
      /\ last_merge' = IF last_merge \in Range(taken) THEN NoReq ELSE last_merge
      /\ nr_sorted' = nr_sorted - Len(taken)
  BY DEF Dispatched, CacheWithout
<1>2. /\ queue_head' \in Seq(Requests) /\ IsInjective(queue_head')
      /\ Range(queue_head') = Range(queue_head) \cup Range(taken)
      /\ \A a, b : Ahead(queue_head, a, b) => Ahead(queue_head', a, b)
      /\ \A a \in Range(queue_head) \cap soft, b \in Range(taken) :
           Ahead(queue_head', a, b)
  <2>1. Range(queue_head) \cap Range(taken) = {} /\ IsInjective(queue_head)
        /\ queue_head \in Seq(Requests)
    BY DEF Apart, Shape
  <2> QED  BY <1>1, <2>1, SortedInKeeps
<1>3. Range(queue) \subseteq Requests /\ Len(taken) \in Nat /\ Len(queue) \in Nat
  BY RangeOfSeq, LenProperties DEF Shape
<1>4. /\ hash' \in [Requests -> Nat]
      /\ \A r \in Requests : hash'[r] = IF r \in Range(taken) THEN NotHashed ELSE hash[r]
  BY <1>1 DEF Shape, NotHashed
<1>5. Shape'
  BY <1>1, <1>2, <1>3, <1>4 DEF Shape
<1>6. Apart'
  BY <1>2 DEF Apart
<1>7. Barriers'
  <2>1. ASSUME NEW p \in behind
        PROVE  \/ Ahead(queue_head', p[1], p[2])
               \/ p[1] \in fences /\ p[2] \in Range(queue')
    BY <1>2, <2>1 DEF Barriers
  <2>2. fences \subseteq Range(queue_head') \cap soft
    BY <1>2 DEF Barriers
  <2> QED  BY <2>1, <2>2 DEF Barriers
<1>8. MergeStateAgrees'
  <2>1. \A u \in Requests : Mergeable(u)' <=> Mergeable(u)
    BY DEF Mergeable
  <2>2. nr_sorted' = Len(queue')
    BY <1>1 DEF MergeStateAgrees
  <2>3. last_merge' # NoReq => last_merge' \in Range(queue')
    BY <1>1 DEF MergeStateAgrees
  <2>4. \A r \in Requests : hash'[r] # NotHashed => r \in Range(queue') /\ hash'[r] = rq'[r].end
    BY <1>4 DEF MergeStateAgrees
  <2>5. \A r \in Range(queue') : Mergeable(r)' => hash'[r] # NotHashed
    BY <1>3, <1>4, <2>1 DEF MergeStateAgrees
  <2> QED  BY <1>2, <2>2, <2>3, <2>4, <2>5 DEF MergeStateAgrees
<1> QED  BY <1>5, <1>6, <1>7, <1>8

LEMMA DispatchStep ==
  ASSUME MergeInv, joining = NoReq, noop_dispatch
  PROVE  MergeInv'
<1> DEFINE taken == <<Head(queue)>>
<1>1. /\ queue # <<>> /\ queue' = Tail(queue) /\ Dispatched(taken)
      /\ UNCHANGED <<rq, plug, end_sector, boundary_rq, soft, started, nomerge,
                     joining, fences, behind>>
  BY DEF noop_dispatch
<1>2. queue \in Seq(Requests) /\ IsInjective(queue)
  BY DEF MergeInv, Shape, Apart
<1>3. /\ queue' \in Seq(Requests) /\ IsInjective(queue')
      /\ Head(queue) \in Range(queue) /\ Range(queue') = Range(queue) \ {Head(queue)}
      /\ Len(queue') = Len(queue) - 1
  BY <1>1, <1>2, TailKeeps
<1>4. Range(queue) \subseteq Requests
  BY <1>2, RangeOfSeq
<1>5. /\ taken \in Seq(Requests) /\ Len(taken) = 1 /\ IsInjective(taken)
      /\ Range(taken) = {Head(queue)}
  <2>1. /\ taken \in Seq(Requests) /\ Len(taken) = 1 /\ DOMAIN taken = {1}
        /\ taken[1] = Head(queue)
    BY <1>3, <1>4
  <2> HIDE DEF taken
  <2> QED  BY <2>1 DEF Range, IsInjective
<1> HIDE DEF taken
<1> QED  BY <1>1, <1>3, <1>5, DispatchedKeeps

LEMMA EmptyQueue ==
  /\ <<>> \in Seq(Requests) /\ IsInjective(<<>>) /\ Range(<<>>) = {} /\ Len(<<>>) = 0
<1> DEFINE e == <<>>
<1>1. e \in Seq(Requests) /\ Len(e) = 0
  OBVIOUS
<1> HIDE DEF e
<1>2. Range(e) = {} /\ IsInjective(e)
  BY <1>1, EmptyList
<1> QED  BY <1>1, <1>2 DEF e

LEMMA DrainStep ==
  ASSUME MergeInv, joining = NoReq, elv_drain_elevator
  PROVE  MergeInv'
<1>1. /\ queue' = <<>> /\ Dispatched(queue)
      /\ UNCHANGED <<rq, plug, end_sector, boundary_rq, soft, started, nomerge,
                     joining, fences, behind>>
  BY DEF elv_drain_elevator
<1>2. queue \in Seq(Requests) /\ IsInjective(queue) /\ Len(queue) \in Nat
  BY LenProperties DEF MergeInv, Shape, Apart
<1>3. /\ queue' \in Seq(Requests) /\ IsInjective(queue')
      /\ Range(queue') = Range(queue) \ Range(queue)
      /\ Len(queue') = Len(queue) - Len(queue)
  BY <1>1, <1>2, EmptyQueue
<1> QED  BY <1>1, <1>2, <1>3, DispatchedKeeps

\* ELEVATOR_INSERT_BACK: the drain, and the fence behind everything.
LEMMA InsertBackStep ==
  ASSUME MergeInv, joining = NoReq, NEW r \in Requests, InsertBack(r)
  PROVE  MergeInv'
<1> USE DEF MergeInv
<1> DEFINE w == SortedIn(queue_head, queue)
<1>1. /\ r \in plug /\ plug' = plug \ {r} /\ soft' = soft \cup {r}
      /\ queue_head' = Append(w, r) /\ queue' = <<>>
      /\ hash' = [v \in Requests |-> IF v \in Range(queue) THEN NotHashed ELSE hash[v]]
      /\ last_merge' = IF last_merge \in Range(queue) THEN NoReq ELSE last_merge
      /\ nr_sorted' = nr_sorted - Len(queue)
      /\ fences' = fences \cup {r}
      /\ behind' = behind \cup {<<v, r>> : v \in Queued}
      /\ rq' = rq /\ boundary_rq' = boundary_rq /\ started' = started
      /\ nomerge' = nomerge /\ joining' = joining
  BY DEF InsertBack, CacheWithout
<1>2. /\ w \in Seq(Requests) /\ IsInjective(w)
      /\ Range(w) = Range(queue_head) \cup Range(queue)
      /\ \A a, b : Ahead(queue_head, a, b) => Ahead(w, a, b)
      /\ \A a \in Range(queue_head) \cap soft, b \in Range(queue) : Ahead(w, a, b)
  <2>1. /\ Range(queue_head) \cap Range(queue) = {} /\ IsInjective(queue_head)
        /\ queue_head \in Seq(Requests) /\ queue \in Seq(Requests)
        /\ IsInjective(queue)
    BY DEF Apart, Shape
  <2> QED  BY <2>1, SortedInKeeps
<1> HIDE DEF w
<1>3. r \notin Range(queue) \cup Range(queue_head)
  BY <1>1 DEF Apart
<1>4. /\ queue_head' \in Seq(Requests) /\ IsInjective(queue_head')
      /\ Range(queue_head') = Range(queue_head) \cup Range(queue) \cup {r}
      /\ \A a, b : Ahead(w, a, b) => Ahead(queue_head', a, b)
      /\ \A a \in Range(w) : Ahead(queue_head', a, r)
  BY <1>1, <1>2, <1>3, AppendKeeps
<1>5. /\ queue' \in Seq(Requests) /\ IsInjective(queue') /\ Range(queue') = {}
      /\ Len(queue') = 0
  BY <1>1, EmptyQueue
<1>6. Queued = Range(w)
  BY <1>2, RangeOfConcat DEF Queued, Waiting, Shape
<1>7. nr_sorted' = 0 /\ last_merge' = NoReq /\ \A v \in Requests : hash'[v] = NotHashed
  <2>1. nr_sorted' = 0
    <3>1. Len(queue) \in Nat /\ nr_sorted = Len(queue)
      BY LenProperties DEF MergeStateAgrees, Shape
    <3> QED  BY <1>1, <3>1
  <2> QED  BY <1>1, <2>1 DEF MergeStateAgrees
<1>8. Shape'
  <2>1. hash' \in [Requests -> Nat]
    BY <1>1 DEF Shape, NotHashed
  <2>2. plug' \subseteq Requests
    BY <1>1 DEF Shape
  <2> QED  BY <1>1, <1>4, <1>5, <1>7, <2>1, <2>2 DEF Shape
<1>9. Apart'
  <2>1. \A u \in plug' \cup Range(queue') \cup Range(queue_head') : rq'[u].dir # "free"
    BY <1>1, <1>4, <1>5 DEF Apart
  <2>2. plug' \cap (Range(queue') \cup Range(queue_head')) = {}
    BY <1>1, <1>4, <1>5 DEF Apart
  <2> QED  BY <1>1, <1>4, <1>5, <2>1, <2>2 DEF Apart
<1>10. Barriers'
  <2>1. ASSUME NEW p \in behind' PROVE Ahead(queue_head', p[1], p[2])
    <3>1. CASE p \in behind
      BY <1>2, <1>4, <3>1 DEF Barriers
    <3>2. CASE p \in {<<v, r>> : v \in Queued}
      BY <1>4, <1>6, <3>2
    <3> QED  BY <1>1, <2>1, <3>1, <3>2
  <2>2. fences' \subseteq Range(queue_head') \cap soft'
    BY <1>1, <1>4 DEF Barriers
  <2>3. boundary_rq' = NoReq \/ boundary_rq' \notin started'
    BY <1>1 DEF Barriers
  <2> QED  BY <2>1, <2>2, <2>3 DEF Barriers
<1>11. MergeStateAgrees'
  BY <1>1, <1>4, <1>5, <1>7 DEF MergeStateAgrees
<1> QED  BY <1>8, <1>9, <1>10, <1>11

-----------------------------------------------------------------------------
(* The driver.                                                             *)

LEMMA PeekStep ==
  ASSUME MergeInv, NEW r \in Requests, Peek(r)
  PROVE  MergeInv'
<1> USE DEF MergeInv
<1>1. /\ started' = started \cup {r}
      /\ boundary_rq' = NoReq \/ (boundary_rq' = boundary_rq /\ boundary_rq # r)
      /\ plug' = plug /\ queue' = queue /\ queue_head' = queue_head /\ soft' = soft
      /\ rq' = rq /\ behind' = behind /\ nomerge' = nomerge /\ nr_sorted' = nr_sorted
      /\ fences' = fences /\ last_merge' = last_merge /\ hash' = hash
      /\ joining' = joining
  BY DEF Peek, mergeVars
<1>2. Shape' /\ Apart' /\ Barriers'
  BY <1>1 DEF Shape, Apart, Barriers
<1>3. Range(queue) \subseteq Requests /\ \A u \in Requests : Mergeable(u)' => Mergeable(u)
  BY <1>1, RangeOfSeq DEF Shape, Mergeable
<1>4. MergeStateAgrees'
  BY <1>1, <1>3 DEF MergeStateAgrees
<1> QED  BY <1>2, <1>4

\* What the head was ahead of waits no more; a boundary that has been started
\* is none.
LEMMA StartStep ==
  ASSUME MergeInv, NEW r \in Requests, Start(r)
  PROVE  MergeInv'
<1> USE DEF MergeInv
<1>1. /\ queue_head # <<>> /\ r = Head(queue_head) /\ r \in started
      /\ queue_head' = Tail(queue_head) /\ fences' = fences \ {r}
      /\ behind' = {p \in behind : p[1] # r}
      /\ plug' = plug /\ queue' = queue /\ soft' = soft /\ boundary_rq' = boundary_rq
      /\ started' = started /\ rq' = rq /\ nomerge' = nomerge
      /\ nr_sorted' = nr_sorted /\ last_merge' = last_merge /\ hash' = hash
      /\ joining' = joining
  BY DEF Start, mergeVars
<1>2. /\ queue_head' \in Seq(Requests) /\ IsInjective(queue_head')
      /\ Range(queue_head') = Range(queue_head) \ {r}
      /\ \A a, b : Ahead(queue_head, a, b) /\ a # r => Ahead(queue_head', a, b)
  BY <1>1, TailKeeps DEF Shape, Apart
<1>3. Shape'
  BY <1>1, <1>2 DEF Shape
<1>4. Apart'
  BY <1>1, <1>2 DEF Apart
<1>5. Barriers'
  BY <1>1, <1>2 DEF Barriers
<1>6. \A u : Mergeable(u)' <=> Mergeable(u)
  BY <1>1 DEF Mergeable
<1>7. boundary_rq' # NoReq => boundary_rq' \in Range(queue_head')
  BY <1>1, <1>2 DEF MergeStateAgrees, Barriers
<1>8. MergeStateAgrees'
  BY <1>1, <1>6, <1>7 DEF MergeStateAgrees
<1> QED  BY <1>3, <1>4, <1>5, <1>8

LEMMA OnDeviceApart ==
  ASSUME MergeInv, NEW r \in OnDevice
  PROVE  /\ r \in Requests /\ rq[r].dir # "free"
         /\ r \notin plug \cup Range(queue) \cup Range(queue_head)
<1>1. Queued = Range(queue_head) \cup Range(queue)
  BY RangeOfConcat DEF MergeInv, Shape, Queued, Waiting
<1> QED  BY <1>1 DEF OnDevice

LEMMA RequeueStep ==
  ASSUME MergeInv, NEW r \in Requests, elv_requeue_request(r)
  PROVE  MergeInv'
<1> USE DEF MergeInv
<1>1. /\ r \in OnDevice /\ started' = started \ {r} /\ soft' = soft \cup {r}
      /\ queue_head' = <<r>> \o queue_head
      /\ boundary_rq' = boundary_rq \/ boundary_rq' = r
      /\ plug' = plug /\ queue' = queue /\ fences' = fences /\ behind' = behind
      /\ rq' = rq /\ nomerge' = nomerge
      /\ nr_sorted' = nr_sorted /\ last_merge' = last_merge /\ hash' = hash
      /\ joining' = joining
  BY DEF elv_requeue_request, mergeVars
<1>2. rq[r].dir # "free" /\ r \notin plug \cup Range(queue) \cup Range(queue_head)
  BY <1>1, OnDeviceApart
<1>3. /\ queue_head' \in Seq(Requests) /\ IsInjective(queue_head')
      /\ Range(queue_head') = Range(queue_head) \cup {r}
      /\ \A a, b : Ahead(queue_head, a, b) => Ahead(queue_head', a, b)
  BY <1>1, <1>2, ConsKeeps DEF Shape, Apart
<1>4. Shape'
  BY <1>1, <1>3 DEF Shape
<1>5. Apart'
  BY <1>1, <1>2, <1>3 DEF Apart
<1>6. Barriers'
  BY <1>1, <1>3 DEF Barriers
<1>7. /\ Range(queue) \subseteq Requests
      /\ \A u \in Range(queue) : Mergeable(u)' => Mergeable(u)
  BY <1>1, <1>2, RangeOfSeq DEF Shape, Mergeable
<1>8. MergeStateAgrees'
  BY <1>1, <1>3, <1>7 DEF MergeStateAgrees
<1> QED  BY <1>4, <1>5, <1>6, <1>8

LEMMA CompleteStep ==
  ASSUME MergeInv, NEW r \in Requests, Complete(r)
  PROVE  MergeInv'
<1> USE DEF MergeInv
<1>1. /\ r \in OnDevice /\ rq' = [rq EXCEPT ![r] = Free]
      /\ soft' = soft \ {r} /\ started' = started \ {r} /\ nomerge' = nomerge \ {r}
      /\ plug' = plug /\ queue' = queue /\ queue_head' = queue_head
      /\ boundary_rq' = boundary_rq /\ fences' = fences /\ behind' = behind
      /\ nr_sorted' = nr_sorted /\ last_merge' = last_merge /\ hash' = hash
      /\ joining' = joining
  BY DEF Complete, mergeVars
<1>2. r \notin plug \cup Range(queue) \cup Range(queue_head)
  BY <1>1, OnDeviceApart
<1>3. /\ rq' \in [Requests -> [pos : Int, end : Nat,
                               dir : {"free", "read", "write", "pc"}]]
      /\ \A u \in Requests : u # r => rq'[u] = rq[u]
      /\ rq'[r].dir = "free"
  <2>1. Free \in [pos : Int, end : Nat, dir : {"free", "read", "write", "pc"}]
        /\ Free.dir = "free"
    BY DEF Free
  <2> QED  BY <1>1, <2>1 DEF Shape
<1>4. Range(queue) \subseteq Requests /\ Range(queue_head) \subseteq Requests
  BY RangeOfSeq DEF Shape
<1>5. Shape'
  BY <1>1, <1>3 DEF Shape
<1>6. Apart'
  <2>1. \A u \in plug \cup Range(queue) \cup Range(queue_head) : rq'[u].dir # "free"
    BY <1>2, <1>3, <1>4 DEF Apart, Shape
  <2>2. \A u \in Requests : rq'[u].dir # "free" => rq'[u].end > 0
    BY <1>3 DEF Apart
  <2> QED  BY <1>1, <2>1, <2>2 DEF Apart
<1>7. Barriers'
  BY <1>1, <1>2 DEF Barriers
<1>8. MergeStateAgrees'
  <2>1. \A u \in Range(queue) : Mergeable(u)' => Mergeable(u)
    BY <1>1, <1>2, <1>3, <1>4 DEF Mergeable
  <2>2. \A u \in Requests : hash[u] # NotHashed => rq'[u] = rq[u]
    BY <1>2, <1>3 DEF MergeStateAgrees
  <2> QED  BY <1>1, <2>1, <2>2 DEF MergeStateAgrees
<1> QED  BY <1>5, <1>6, <1>7, <1>8

-----------------------------------------------------------------------------
(* The theorems.                                                           *)

LEMMA SubmitStep ==
  ASSUME MergeInv, NEW r \in Requests, Submit(r)
  PROVE  MergeInv'
<1>1. CASE \E pos \in 0 .. Sectors - 1, dir \in {"read", "write"} : GetRequest(r, pos, dir)
  BY <1>1, GetRequestStep
<1>2. CASE GetRequest(r, 0, "pc")
  BY <1>2, GetRequestStep
<1> QED  BY <1>1, <1>2 DEF Submit

LEMMA MergeInvStep ==
  ASSUME MergeInv, [MergingNext]_mergingVars
  PROVE  MergeInv'
<1>1. CASE joining = NoReq /\ BioMerge
  BY <1>1, BackMergeStep, FrontMergeStep, TooLargeStep DEF BioMerge
<1>2. CASE joining = NoReq /\ (noop_dispatch \/ elv_drain_elevator)
  BY <1>2, DispatchStep, DrainStep
<1>3. ASSUME joining = NoReq, NEW r \in Requests, Submit(r) PROVE MergeInv'
  BY <1>3, SubmitStep
<1>4. ASSUME joining = NoReq, NEW r \in Requests, Insert(r) PROVE MergeInv'
  BY <1>4, InsertFrontStep, InsertBackStep, InsertSortStep, InsertMergeStep DEF Insert
<1>5. ASSUME joining = NoReq, NEW r \in Requests, Driver(r) PROVE MergeInv'
  BY <1>5, PeekStep, StartStep, RequeueStep, CompleteStep DEF Driver
<1>6. CASE joining # NoReq /\ (MergeAgain \/ MergeEnds)
  BY <1>6, MergeAgainStep, MergeEndsStep
<1>7. CASE UNCHANGED mergingVars
  <2>1. /\ rq' = rq /\ plug' = plug /\ queue' = queue /\ queue_head' = queue_head
        /\ boundary_rq' = boundary_rq /\ soft' = soft /\ started' = started
        /\ nomerge' = nomerge /\ nr_sorted' = nr_sorted /\ hash' = hash
        /\ last_merge' = last_merge /\ joining' = joining /\ fences' = fences
        /\ behind' = behind
    BY <1>7 DEF mergingVars, driverVars, mergeVars
  <2> QED  BY <2>1 DEF MergeInv, Shape, Apart, Barriers, MergeStateAgrees, Mergeable
<1> QED  BY <1>1, <1>2, <1>3, <1>4, <1>5, <1>6, <1>7 DEF MergingNext

\* The merge state, the places of the requests and the barriers agree, always.
THEOREM MergingInvariance == MergingSpec => []MergeInv
<1>1. MergingInit => MergeInv
  BY InitMergeInv
<1>2. MergeInv /\ [MergingNext]_mergingVars => MergeInv'
  BY MergeInvStep
<1> QED  BY <1>1, <1>2, PTL DEF MergingSpec

\* The hash and last_merge never name a request that has left noop's list, and
\* nr_sorted counts that list: for any number of requests, of sectors, and for
\* any limit on the size of a request.
THEOREM MergeStateIsSound == MergingSpec => []MergeStateAgrees
<1>1. MergeInv => MergeStateAgrees
  BY DEF MergeInv
<1> QED  BY <1>1, MergingInvariance, PTL

\* elv_dispatch_sort, merges and requeues never move a request across one that
\* was inserted at the back.
THEOREM FencesHold == MergingSpec => []BackIsFence
<1>1. ASSUME MergeInv PROVE BackIsFence
  <2>1. queue_head \in Seq(Requests) /\ queue \in Seq(Requests)
    BY <1>1 DEF MergeInv, Shape
  <2>2. ASSUME NEW p \in behind PROVE Ahead(Waiting, p[1], p[2])
    <3>1. CASE Ahead(queue_head, p[1], p[2])
      BY <2>1, <3>1, RangeOfConcat DEF Waiting
    <3>2. CASE p[1] \in fences /\ p[2] \in Range(queue)
      <4>1. p[1] \in Range(queue_head)
        BY <1>1, <3>2 DEF MergeInv, Barriers
      <4> QED  BY <2>1, <3>2, <4>1, RangeOfConcat DEF Waiting
    <3> QED  BY <1>1, <3>1, <3>2 DEF MergeInv, Barriers
  <2> QED  BY <2>2 DEF BackIsFence, Ahead
<1> QED  BY <1>1, MergingInvariance, PTL

=============================================================================
