------------------------------ MODULE Heapify ------------------------------
(***************************************************************************)
(* The array heap of heap_experiments/min_heap_1/minHeap.c, which the SFQ  *)
(* schedulers copy: a sequence of nodes (the array, its first element at   *)
(* 1) ordered by key.  The C code swaps the contents of two nodes where    *)
(* this exchanges two elements: what the array holds is the same.          *)
(***************************************************************************)
EXTENDS Integers, Sequences

\* The while loop moves the hole at i up: each parent with a greater key
\* comes down one level, then nd is written.
insertNode(h, nd, key) ==
  LET Rises(i) == i > 1 /\ key[nd] < key[h[i \div 2]]
      hole[i \in 1 .. Len(h) + 1] ==
        IF Rises(i) THEN [hole[i \div 2] EXCEPT ![i] = h[i \div 2]]
                    ELSE [Append(h, nd) EXCEPT ![i] = nd]
  IN  hole[Len(h) + 1]

\* The least of the node nd at i and the children of i.
smallestLeft(h, nd, i, key) ==
  IF 2 * i <= Len(h) /\ key[h[2 * i]] < key[nd] THEN 2 * i ELSE i

smallest(h, nd, i, key) ==
  LET KeyAt(j) == IF j = i THEN key[nd] ELSE key[h[j]]
      left == smallestLeft(h, nd, i, key)
  IN  IF 2 * i + 1 <= Len(h) /\ KeyAt(2 * i + 1) < KeyAt(left)
        THEN 2 * i + 1 ELSE left

\* heapify(hp, 0): the root sinks; at every level the smallest child rises.
heapify(h, key) ==
  LET nd == h[1]
      sunk[i \in DOMAIN h] ==
        LET s == smallest(h, nd, i, key)
        IN  IF s = i THEN [h EXCEPT ![i] = nd]
                     ELSE [sunk[s] EXCEPT ![i] = h[s]]
  IN  sunk[1]

\* The last node replaces the root.
deleteLast(h, key) == SubSeq(h, 1, Len(h) - 1)

deleteNode(h, key) ==
  IF Len(h) = 1 THEN <<>>
  ELSE heapify([SubSeq(h, 1, Len(h) - 1) EXCEPT ![1] = h[Len(h)]], key)
=============================================================================
