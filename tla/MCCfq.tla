------------------------------- MODULE MCCfq --------------------------------
(***************************************************************************)
(* Instances of Cfq.  Two processes are the fewest whose queues merge, and *)
(* of which one can leave a shared queue.  Bounds: a process sends either  *)
(* sync or async requests, and does not come back once it has exited, until*)
(* the elevator has been switched.                                         *)
(***************************************************************************)
EXTENDS Cfq

VARIABLE gone    \* history: the processes that have exited

NoQueues == NewCfqData.cic

MCInit == Init /\ gone = {}

Exits ==
  {p \in Procs : cfqd'.cic[p] = NoQueues[p] /\ cfqd.cic[p] # NoQueues[p]}

Bounds ==
  /\ gone' = IF elv = "freed" THEN {} ELSE gone \cup Exits
  /\ \A p \in gone' : cfqd'.cic[p] = NoQueues[p]
  /\ \A p \in Procs : NoCfqq \in {cfqd'.cic[p]["sync"], cfqd'.cic[p]["async"]}

MCSpec == MCInit /\ [][Next /\ Bounds]_<<vars, gone>>

Symm ==
  Permutations(Requests) \cup Permutations(Procs) \cup Permutations(Cfqqs)
=============================================================================
