----------------------------- MODULE FifoServer -----------------------------
(***************************************************************************)
(* What a NOOP elevator promises, without its kick work, its counters, the *)
(* queue_lock or the contexts that run the queue.  Requests stand in one   *)
(* line; the device is handed the request at the front and nothing else.   *)
(* A request leaves the line for the device, comes back to the front when  *)
(* the device was not ready for it, or is absorbed by a back merge.  Only  *)
(* a drain (draining = TRUE, the elevator is being replaced) may move a    *)
(* request within the line: it is sorted by sector into the driver's list. *)
(***************************************************************************)
EXTENDS Naturals, Sequences, Functions

CONSTANT Requests

VARIABLES line,      \* the requests waiting, front first
          device,    \* the requests handed to the device
          draining   \* the elevator is being drained

vars == <<line, device, draining>>

Without(s, i) == SubSeq(s, 1, i - 1) \o SubSeq(s, i + 1, Len(s))
With(s, i, r) == SubSeq(s, 1, i - 1) \o <<r>> \o SubSeq(s, i, Len(s))

TypeOK ==
  /\ line \in Seq(Requests)
  /\ device \subseteq Requests
  /\ draining \in BOOLEAN

Init == line = <<>> /\ device = {} /\ draining = FALSE

Arrive(r) ==
  /\ r \notin Range(line) \cup device
  /\ line' = Append(line, r)
  /\ UNCHANGED <<device, draining>>

Serve ==
  /\ line # <<>>
  /\ line' = Tail(line)
  /\ device' = device \cup {Head(line)}
  /\ UNCHANGED draining

Finish(r) ==
  /\ r \in device
  /\ device' = device \ {r}
  /\ UNCHANGED <<line, draining>>

GiveBack(r) ==
  /\ r \in device
  /\ device' = device \ {r}
  /\ line' = <<r>> \o line
  /\ UNCHANGED draining

\* A back merge leaves its target in the line, so the line never empties.
Absorb(i) ==
  /\ Len(line) > 1
  /\ line' = Without(line, i)
  /\ UNCHANGED <<device, draining>>

\* Sorting into the driver's list moves a request towards the front only.
Reorder(i, j) ==
  /\ draining
  /\ j <= i
  /\ line' = With(Without(line, i), j, line[i])
  /\ UNCHANGED <<device, draining>>

SetDraining(b) ==
  /\ draining' = b
  /\ UNCHANGED <<line, device>>

Next ==
  \/ \E r \in Requests : Arrive(r) \/ Finish(r) \/ GiveBack(r)
  \/ Serve
  \/ \E i \in DOMAIN line : Absorb(i)
  \/ \E i, j \in DOMAIN line : Reorder(i, j)
  \/ \E b \in BOOLEAN : SetDraining(b)

(* A nonempty line is served and a served request is finished: the two     *)
(* promises a kick that gets lost would break.                             *)
Fairness ==
  /\ WF_vars(Serve)
  /\ \A r \in Requests : SF_vars(Finish(r))

SafeSpec == Init /\ [][Next]_vars
Spec == SafeSpec /\ Fairness

=============================================================================
