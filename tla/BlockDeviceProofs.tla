-------------------------- MODULE BlockDeviceProofs --------------------------
(***************************************************************************)
(* Lemmas about BlockDevice: what its steps do to the type and to the      *)
(* number of requests the driver and the device hold, and about the place  *)
(* of a request: a task's plug, the elevator's list, the driver's list or  *)
(* the device, and only one of them, which makes that number exact.  They  *)
(* are cited by the proofs about the elevators that run under it.          *)
(***************************************************************************)
EXTENDS BlockDevice, FiniteSetTheorems, SequenceTheorems, TLAPS

(* Inserting and removing one element of a sequence.                       *)

\* Inserting one element: what elv_dispatch_sort does to the driver's list.
LEMMA WithProperties ==
  ASSUME NEW S, NEW s \in Seq(S), NEW r \in S, NEW i \in 1 .. Len(s) + 1
  PROVE  With(s, i, r) \in Seq(S) /\ Len(With(s, i, r)) = Len(s) + 1
<1> DEFINE a == SubSeq(s, 1, i - 1)
           b == SubSeq(s, i, Len(s))
<1>1. \A j \in 1 .. Len(s) : s[j] \in S
  BY ElementOfSeq
<1>2. Len(s) \in Nat
  BY LenProperties
<1>3. a \in Seq(S) /\ Len(a) = i - 1
  BY <1>1, <1>2, SubSeqProperties, i - 1 \in Int, 1 \in Int,
     \A j \in 1 .. i - 1 : s[j] \in S
<1>4. b \in Seq(S) /\ Len(b) = Len(s) - i + 1
  <2>1. \A j \in i .. Len(s) : s[j] \in S
    BY <1>1, <1>2
  <2>2. i \in Int /\ Len(s) \in Int
    BY <1>2
  <2>3. b \in Seq(S) /\ Len(b) = IF i <= Len(s) THEN Len(s) - i + 1 ELSE 0
    BY <2>1, <2>2, SubSeqProperties
  <2> QED  BY <2>3, <1>2
<1>5. <<r>> \in Seq(S) /\ Len(<<r>>) = 1
  OBVIOUS
<1>6. a \o <<r>> \in Seq(S) /\ Len(a \o <<r>>) = i
  BY <1>3, <1>5, <1>2, ConcatProperties
<1>7. (a \o <<r>>) \o b \in Seq(S) /\ Len((a \o <<r>>) \o b) = Len(s) + 1
  <2> DEFINE ab == a \o <<r>>
  <2>1. ab \in Seq(S) /\ Len(ab) = i
    BY <1>6
  <2>2. b \in Seq(S) /\ Len(b) = Len(s) - i + 1
    BY <1>4
  <2>3. i \in Int
    BY <1>2
  <2> HIDE DEF ab, b
  <2>4. ab \o b \in Seq(S) /\ Len(ab \o b) = Len(ab) + Len(b)
    BY <2>1, <2>2, ConcatProperties
  <2>5. Len(ab \o b) = Len(s) + 1
    BY <2>1, <2>2, <2>3, <2>4, <1>2
  <2> QED  BY <2>4, <2>5 DEF ab, b
<1> QED  BY <1>7 DEF With

\* Removing one element: what list_del_init does to a list.
LEMMA WithoutProperties ==
  ASSUME NEW S, NEW s \in Seq(S), NEW i \in 1 .. Len(s)
  PROVE  Without(s, i) \in Seq(S) /\ Len(Without(s, i)) = Len(s) - 1
<1> DEFINE a == SubSeq(s, 1, i - 1)
           b == SubSeq(s, i + 1, Len(s))
<1>1. \A j \in 1 .. Len(s) : s[j] \in S
  BY ElementOfSeq
<1>2. Len(s) \in Nat
  BY LenProperties
<1>3. a \in Seq(S) /\ Len(a) = i - 1
  BY <1>1, <1>2, SubSeqProperties, i - 1 \in Int, 1 \in Int,
     \A j \in 1 .. i - 1 : s[j] \in S
<1>4. b \in Seq(S) /\ Len(b) = Len(s) - i
  <2>1. \A j \in i + 1 .. Len(s) : s[j] \in S
    BY <1>1, <1>2
  <2>2. i + 1 \in Int /\ Len(s) \in Int
    BY <1>2
  <2>3. b \in Seq(S)
        /\ Len(b) = IF i + 1 <= Len(s) THEN Len(s) - (i + 1) + 1 ELSE 0
    BY <2>1, <2>2, SubSeqProperties
  <2> QED  BY <2>3, <1>2
<1>5. i \in Int
  BY <1>2
<1> HIDE DEF a, b
<1>6. a \o b \in Seq(S) /\ Len(a \o b) = Len(a) + Len(b)
  BY <1>3, <1>4, ConcatProperties
<1>7. Len(a \o b) = Len(s) - 1
  BY <1>2, <1>3, <1>4, <1>5, <1>6
<1> QED  BY <1>6, <1>7 DEF Without, a, b

-----------------------------------------------------------------------------
(* Lists without repetition.                                               *)

\* The elements and positions of a list into which one is inserted.
LEMMA WithElements ==
  ASSUME NEW S, NEW s \in Seq(S), NEW r \in S, NEW i \in 1 .. Len(s) + 1
  PROVE  \A j \in 1 .. Len(s) + 1 :
           With(s, i, r)[j] = IF j < i THEN s[j] ELSE IF j = i THEN r ELSE s[j - 1]
<1> DEFINE a == SubSeq(s, 1, i - 1)
           b == SubSeq(s, i, Len(s))
<1>1. Len(s) \in Nat /\ i \in Int /\ (\A j \in 1 .. Len(s) : s[j] \in S)
  BY LenProperties, ElementOfSeq
<1>2. a \in Seq(S) /\ Len(a) = i - 1 /\ \A j \in 1 .. i - 1 : a[j] = s[j]
  BY <1>1, SubSeqProperties, i - 1 \in Int, 1 \in Int,
     \A j \in 1 .. i - 1 : s[j] \in S
<1>3. /\ b \in Seq(S) /\ Len(b) = Len(s) - i + 1
      /\ \A j \in 1 .. Len(s) - i + 1 : b[j] = s[i + j - 1]
  <2>1. \A j \in i .. Len(s) : s[j] \in S
    BY <1>1
  <2> QED  BY <1>1, <2>1, SubSeqProperties
<1>4. <<r>> \in Seq(S) /\ Len(<<r>>) = 1 /\ <<r>>[1] = r
  OBVIOUS
<1> DEFINE ar == a \o <<r>>
<1> HIDE DEF a, b
<1>5. /\ ar \in Seq(S) /\ Len(ar) = i
      /\ \A j \in 1 .. i : ar[j] = IF j < i THEN s[j] ELSE r
  <2>1. /\ ar \in Seq(S) /\ Len(ar) = Len(a) + 1
        /\ \A j \in 1 .. Len(a) + 1 :
             ar[j] = IF j <= Len(a) THEN a[j] ELSE <<r>>[j - Len(a)]
    BY <1>2, <1>4, ConcatProperties
  <2> HIDE DEF ar
  <2> QED  BY <1>1, <1>2, <1>4, <2>1
<1> HIDE DEF ar
<1>6. \A j \in 1 .. i + Len(b) : (ar \o b)[j] = IF j <= i THEN ar[j] ELSE b[j - i]
  BY <1>3, <1>5, ConcatProperties
<1>7. With(s, i, r) = ar \o b
  BY DEF With, ar, a, b
<1> QED  BY <1>1, <1>3, <1>5, <1>6, <1>7

\* elv_dispatch_sort adds its request to the driver's list, once.
LEMMA WithDistinct ==
  ASSUME NEW S, NEW s \in Seq(S), NEW r \in S, NEW i \in 1 .. Len(s) + 1
  PROVE  /\ Range(With(s, i, r)) = Range(s) \cup {r}
         /\ IsInjective(s) /\ r \notin Range(s) => IsInjective(With(s, i, r))
<1> DEFINE w == With(s, i, r)
<1>1. /\ w \in Seq(S) /\ Len(w) = Len(s) + 1 /\ Len(s) \in Nat
      /\ DOMAIN w = 1 .. Len(s) + 1 /\ DOMAIN s = 1 .. Len(s)
  BY WithProperties, LenProperties
<1>2. \A j \in 1 .. Len(s) + 1 :
        w[j] = IF j < i THEN s[j] ELSE IF j = i THEN r ELSE s[j - 1]
  BY WithElements
<1> HIDE DEF w
<1>3. Range(w) = Range(s) \cup {r}
  <2>1. ASSUME NEW x \in Range(w) PROVE x \in Range(s) \cup {r}
    <3>1. PICK j \in 1 .. Len(s) + 1 : w[j] = x
      BY <1>1, <2>1 DEF Range
    <3>2. CASE j < i
      <4>1. j \in 1 .. Len(s) /\ x = s[j]
        BY <1>1, <1>2, <3>1, <3>2
      <4> QED  BY <1>1, <4>1 DEF Range
    <3>3. CASE j > i
      <4>1. j - 1 \in 1 .. Len(s) /\ x = s[j - 1]
        BY <1>1, <1>2, <3>1, <3>3
      <4> QED  BY <1>1, <4>1 DEF Range
    <3>4. CASE j = i
      BY <1>2, <3>1, <3>4
    <3> QED  BY <1>1, <3>2, <3>3, <3>4
  <2>2. ASSUME NEW x \in Range(s) PROVE x \in Range(w)
    <3>1. PICK j \in 1 .. Len(s) : s[j] = x
      BY <1>1, <2>2 DEF Range
    <3>2. CASE j < i
      <4>1. j \in 1 .. Len(s) + 1 /\ w[j] = x
        BY <1>1, <1>2, <3>1, <3>2
      <4> QED  BY <1>1, <4>1 DEF Range
    <3>3. CASE ~(j < i)
      <4>1. j + 1 \in 1 .. Len(s) + 1 /\ w[j + 1] = s[j]
        BY <1>1, <1>2, <3>3
      <4> QED  BY <1>1, <3>1, <4>1 DEF Range
    <3> QED  BY <3>2, <3>3
  <2>3. r \in Range(w)
    BY <1>1, <1>2 DEF Range
  <2> QED  BY <2>1, <2>2, <2>3
<1>4. ASSUME IsInjective(s), r \notin Range(s) PROVE IsInjective(w)
  <2>1. \A j \in 1 .. Len(s) : s[j] # r
    BY <1>1, <1>4 DEF Range
  <2>2. \A j, k \in 1 .. Len(s) : s[j] = s[k] => j = k
    BY <1>1, <1>4 DEF IsInjective
  <2>3. \A j, k \in 1 .. Len(s) + 1 : w[j] = w[k] => j = k
    BY <1>1, <1>2, <2>1, <2>2
  <2> QED  BY <1>1, <2>3 DEF IsInjective
<1> QED  BY <1>3, <1>4 DEF w

\* Taking the first of a list without repetition.
LEMMA TailDistinct ==
  ASSUME NEW S, NEW s \in Seq(S), s # <<>>, IsInjective(s)
  PROVE  /\ Head(s) \in Range(s)
         /\ Range(Tail(s)) = Range(s) \ {Head(s)}
         /\ IsInjective(Tail(s))
<1>1. /\ Len(s) \in Nat \ {0} /\ DOMAIN s = 1 .. Len(s)
      /\ Tail(s) \in Seq(S) /\ Len(Tail(s)) = Len(s) - 1
      /\ DOMAIN Tail(s) = 1 .. Len(s) - 1
      /\ \A j \in 1 .. Len(s) - 1 : Tail(s)[j] = s[j + 1]
  BY HeadTailProperties, LenProperties, EmptySeq
<1>2. Head(s) = s[1]
  OBVIOUS
<1>3. \A j, k \in 1 .. Len(s) : s[j] = s[k] => j = k
  BY <1>1 DEF IsInjective
<1>4. Head(s) \in Range(s)
  BY <1>1, <1>2 DEF Range
<1>5. Range(Tail(s)) = Range(s) \ {Head(s)}
  <2>1. ASSUME NEW x \in Range(Tail(s)) PROVE x \in Range(s) /\ x # Head(s)
    <3>1. PICK j \in 1 .. Len(s) - 1 : Tail(s)[j] = x
      BY <1>1, <2>1 DEF Range
    <3>2. x = s[j + 1] /\ j + 1 \in 1 .. Len(s) /\ j + 1 # 1
      BY <1>1, <3>1
    <3> QED  BY <1>1, <1>2, <1>3, <3>2 DEF Range
  <2>2. ASSUME NEW x \in Range(s), x # Head(s) PROVE x \in Range(Tail(s))
    <3>1. PICK j \in 1 .. Len(s) : s[j] = x
      BY <1>1, <2>2 DEF Range
    <3>2. j - 1 \in 1 .. Len(s) - 1 /\ Tail(s)[j - 1] = s[j]
      BY <1>1, <1>2, <2>2, <3>1
    <3> QED  BY <1>1, <3>1, <3>2 DEF Range
  <2> QED  BY <2>1, <2>2
<1>6. IsInjective(Tail(s))
  BY <1>1, <1>3 DEF IsInjective
<1> QED  BY <1>4, <1>5, <1>6

\* list_del_init of a list without repetition.
LEMMA WithoutElements ==
  ASSUME NEW S, NEW s \in Seq(S), NEW i \in 1 .. Len(s)
  PROVE  \A j \in 1 .. Len(s) - 1 :
           Without(s, i)[j] = IF j < i THEN s[j] ELSE s[j + 1]
<1> DEFINE a == SubSeq(s, 1, i - 1)
           b == SubSeq(s, i + 1, Len(s))
<1>1. Len(s) \in Nat /\ i \in Int /\ (\A j \in 1 .. Len(s) : s[j] \in S)
  BY LenProperties, ElementOfSeq
<1>2. a \in Seq(S) /\ Len(a) = i - 1 /\ \A j \in 1 .. i - 1 : a[j] = s[j]
  BY <1>1, SubSeqProperties, i - 1 \in Int, 1 \in Int,
     \A j \in 1 .. i - 1 : s[j] \in S
<1>3. /\ b \in Seq(S) /\ Len(b) = Len(s) - i
      /\ \A j \in 1 .. Len(s) - i : b[j] = s[i + j]
  <2>1. (\A j \in i + 1 .. Len(s) : s[j] \in S) /\ i + 1 \in Int /\ Len(s) \in Int
    BY <1>1
  <2>2. /\ b \in Seq(S)
        /\ Len(b) = IF i + 1 <= Len(s) THEN Len(s) - (i + 1) + 1 ELSE 0
        /\ \A j \in 1 .. Len(s) - (i + 1) + 1 : b[j] = s[i + 1 + j - 1]
    BY <2>1, SubSeqProperties
  <2>3. Len(b) = Len(s) - i
    BY <1>1, <2>2
  <2>4. ASSUME NEW j \in 1 .. Len(s) - i PROVE b[j] = s[i + j]
    <3>1. j \in 1 .. Len(s) - (i + 1) + 1 /\ i + 1 + j - 1 = i + j
      BY <1>1
    <3> QED  BY <2>2, <3>1
  <2> QED  BY <2>2, <2>3, <2>4
<1> HIDE DEF a, b
<1>4. \A j \in 1 .. Len(a) + Len(b) :
        (a \o b)[j] = IF j <= Len(a) THEN a[j] ELSE b[j - Len(a)]
  BY <1>2, <1>3, ConcatProperties
<1>5. Without(s, i) = a \o b
  BY DEF Without, a, b
<1>6. ASSUME NEW j \in 1 .. Len(s) - 1
      PROVE  (a \o b)[j] = IF j < i THEN s[j] ELSE s[j + 1]
  <2>1. (a \o b)[j] = IF j <= i - 1 THEN a[j] ELSE b[j - (i - 1)]
    BY <1>1, <1>2, <1>3, <1>4
  <2>2. CASE j < i
    BY <1>1, <1>2, <2>1, <2>2
  <2>3. CASE ~(j < i)
    <3>1. j - (i - 1) \in 1 .. Len(s) - i /\ i + (j - (i - 1)) = j + 1
      BY <1>1, <2>3
    <3> QED  BY <1>1, <1>3, <2>1, <2>3, <3>1
  <2> QED  BY <2>2, <2>3
<1> QED  BY <1>5, <1>6

LEMMA WithoutDistinct ==
  ASSUME NEW S, NEW s \in Seq(S), IsInjective(s), NEW i \in 1 .. Len(s)
  PROVE  /\ Range(Without(s, i)) = Range(s) \ {s[i]}
         /\ IsInjective(Without(s, i))
<1> DEFINE w == Without(s, i)
<1>1. /\ w \in Seq(S) /\ Len(w) = Len(s) - 1 /\ Len(s) \in Nat
      /\ DOMAIN w = 1 .. Len(s) - 1 /\ DOMAIN s = 1 .. Len(s)
  BY WithoutProperties, LenProperties
<1>2. \A j \in 1 .. Len(s) - 1 : w[j] = IF j < i THEN s[j] ELSE s[j + 1]
  BY WithoutElements
<1>3. \A j, k \in 1 .. Len(s) : s[j] = s[k] => j = k
  BY <1>1 DEF IsInjective
<1> HIDE DEF w
<1>4. ASSUME NEW x \in Range(w) PROVE x \in Range(s) \ {s[i]}
  <2>1. PICK j \in 1 .. Len(s) - 1 : w[j] = x
    BY <1>1, <1>4 DEF Range
  <2>2. PICK k \in 1 .. Len(s) : s[k] = x /\ k # i
    <3>1. CASE j < i
      BY <1>1, <1>2, <2>1, <3>1
    <3>2. CASE ~(j < i)
      <4>1. j + 1 \in 1 .. Len(s) /\ j + 1 # i /\ s[j + 1] = x
        BY <1>1, <1>2, <2>1, <3>2
      <4> QED  BY <4>1
    <3> QED  BY <3>1, <3>2
  <2> QED  BY <1>1, <1>3, <2>2 DEF Range
<1>5. ASSUME NEW x \in Range(s), x # s[i] PROVE x \in Range(w)
  <2>1. PICK k \in 1 .. Len(s) : s[k] = x /\ k # i
    BY <1>1, <1>5 DEF Range
  <2>2. CASE k < i
    <3>1. k \in 1 .. Len(s) - 1 /\ w[k] = x
      BY <1>1, <1>2, <2>1, <2>2
    <3> QED  BY <1>1, <3>1 DEF Range
  <2>3. CASE ~(k < i)
    <3>1. k - 1 \in 1 .. Len(s) - 1 /\ w[k - 1] = x
      BY <1>1, <1>2, <2>1, <2>3
    <3> QED  BY <1>1, <3>1 DEF Range
  <2> QED  BY <2>2, <2>3
<1>6. \A j, k \in 1 .. Len(s) - 1 : w[j] = w[k] => j = k
  BY <1>1, <1>2, <1>3
<1>7. IsInjective(w)
  BY <1>1, <1>6 DEF IsInjective
<1> QED  BY <1>4, <1>5, <1>7 DEF w

\* list_add_tail.
LEMMA AppendDistinct ==
  ASSUME NEW S, NEW s \in Seq(S), NEW r \in S
  PROVE  /\ Range(Append(s, r)) = Range(s) \cup {r}
         /\ IsInjective(s) /\ r \notin Range(s) => IsInjective(Append(s, r))
<1>1. Len(s) \in Nat /\ DOMAIN s = 1 .. Len(s)
  BY LenProperties
<1>2. /\ DOMAIN Append(s, r) = 1 .. Len(s) + 1
      /\ \A j \in 1 .. Len(s) : Append(s, r)[j] = s[j]
      /\ Append(s, r)[Len(s) + 1] = r
  BY AppendProperties, LenProperties
<1>3. Range(Append(s, r)) = Range(s) \cup {r}
  BY <1>1, <1>2 DEF Range
<1>4. ASSUME IsInjective(s), r \notin Range(s) PROVE IsInjective(Append(s, r))
  <2>1. \A j \in 1 .. Len(s) : s[j] # r
    BY <1>1, <1>4 DEF Range
  <2> QED  BY <1>1, <1>2, <1>4, <2>1 DEF IsInjective
<1> QED  BY <1>3, <1>4

\* elv_requeue_request.
LEMMA ConsDistinct ==
  ASSUME NEW S, NEW s \in Seq(S), NEW r \in S
  PROVE  /\ Range(<<r>> \o s) = Range(s) \cup {r}
         /\ IsInjective(s) /\ r \notin Range(s) => IsInjective(<<r>> \o s)
<1>1. /\ <<r>> \in Seq(S) /\ Len(<<r>>) = 1 /\ <<r>>[1] = r
      /\ Len(s) \in Nat /\ DOMAIN s = 1 .. Len(s)
  BY LenProperties
<1>2. /\ DOMAIN (<<r>> \o s) = 1 .. Len(s) + 1
      /\ (<<r>> \o s)[1] = r
      /\ \A j \in 2 .. Len(s) + 1 : (<<r>> \o s)[j] = s[j - 1]
  BY <1>1, ConcatProperties, LenProperties
<1>3. Range(<<r>>) = {r}
  BY <1>1 DEF Range
<1>4. Range(<<r>> \o s) = Range(s) \cup {r}
  <2> DEFINE one == <<r>>
  <2>1. one \in Seq(S) /\ Range(one) = {r}
    BY <1>1, <1>3
  <2> HIDE DEF one
  <2>2. Range(one \o s) = Range(one) \cup Range(s)
    BY <2>1, RangeConcatenation
  <2>3. Range(one \o s) = Range(s) \cup {r}
    BY <2>1, <2>2
  <2> QED  BY <2>3 DEF one
<1>5. ASSUME IsInjective(s), r \notin Range(s) PROVE IsInjective(<<r>> \o s)
  <2>1. \A j \in 1 .. Len(s) : s[j] # r
    BY <1>1, <1>5 DEF Range
  <2> QED  BY <1>1, <1>2, <1>5, <2>1 DEF IsInjective
<1> QED  BY <1>4, <1>5

\* An empty list is the one without elements.
LEMMA EmptyRange ==
  ASSUME NEW S, NEW s \in Seq(S), Range(s) = {}
  PROVE  s = <<>>
<1>1. DOMAIN s = 1 .. Len(s) /\ Len(s) \in Nat
  BY LenProperties
<1>2. \A j \in 1 .. Len(s) : s[j] \in Range(s)
  BY <1>1 DEF Range
<1>3. Len(s) = 0
  BY <1>1, <1>2
<1> QED  BY <1>3, EmptySeq

-----------------------------------------------------------------------------
(* The requests in flight.                                                 *)

\* In-flight requests are finitely many, and so are the held ones.
LEMMA HeldType ==
  ASSUME DeviceTypeOK
  PROVE  /\ IsFiniteSet(inflight) /\ Cardinality(inflight) \in Nat
         /\ Len(queue_head) \in Nat /\ Held \in Nat
<1>1. IsFiniteSet(inflight) /\ Cardinality(inflight) \in Nat
  BY RequestsAssumption, FS_Subset, FS_CardinalityType DEF DeviceTypeOK
<1>2. Len(queue_head) \in Nat
  BY LenProperties DEF DeviceTypeOK
<1> QED  BY <1>1, <1>2 DEF Held

\* Completing or requeueing takes exactly one request off the device.
LEMMA InflightRemove ==
  ASSUME DeviceTypeOK, NEW r \in inflight
  PROVE  Cardinality(inflight \ {r}) = Cardinality(inflight) - 1
BY HeldType, FS_RemoveElement

-----------------------------------------------------------------------------
(* The steps.                                                              *)

\* A dispatch adds exactly one request to the driver's list.
LEMMA DispatchHeld ==
  ASSUME DeviceTypeOK, NEW r \in Requests, elv_dispatch_sort(r)
  PROVE  /\ queue_head' \in Seq(Requests)
         /\ Len(queue_head') = Len(queue_head) + 1
         /\ inflight' = inflight => Held' = Held + 1
<1>1. queue_head' \in Seq(Requests) /\ Len(queue_head') = Len(queue_head) + 1
  BY WithProperties DEF elv_dispatch_sort, DeviceTypeOK
<1>2. ASSUME inflight' = inflight PROVE Held' = Held + 1
  BY <1>1, <1>2, HeldType DEF Held
<1> QED  BY <1>1, <1>2

\* Starting a request moves it; nothing is held that was not.
LEMMA StartHeld ==
  ASSUME DeviceTypeOK, NEW c \in Ctx, DeviceStart(c)
  PROVE  DeviceTypeOK' /\ Held' <= Held
<1>1. /\ queue_head' \in Seq(Requests)
      /\ Len(queue_head') = Len(queue_head) - 1
      /\ Head(queue_head) \in Requests
  BY HeadTailProperties DEF DeviceStart, DeviceTypeOK
<1>2. DeviceTypeOK'
  BY <1>1 DEF DeviceStart, DeviceTypeOK
<1>3. /\ Cardinality(inflight') \in Nat
      /\ Cardinality(inflight') <= Cardinality(inflight) + 1
  <2> DEFINE more == inflight \cup {Head(queue_head)}
  <2>1. Cardinality(more) =
          IF Head(queue_head) \in inflight THEN Cardinality(inflight)
                                           ELSE Cardinality(inflight) + 1
    BY HeldType, FS_AddElement
  <2> QED  BY <2>1, HeldType DEF DeviceStart
<1>4. Held' <= Held
  BY <1>1, <1>3, HeldType DEF Held
<1> QED  BY <1>2, <1>4

\* Requeueing moves a request back to the driver's list.
LEMMA RequeueHeld ==
  ASSUME DeviceTypeOK, NEW c \in Ctx, DeviceRequeue(c)
  PROVE  DeviceTypeOK' /\ Held' = Held /\ inflight' # {}
<1> DEFINE r == issuing[c]
<1>1. r \in inflight /\ r \in Requests /\ inflight # {r}
  BY DEF DeviceRequeue, DeviceTypeOK
<1>2. <<r>> \in Seq(Requests) /\ Len(<<r>>) = 1
  BY <1>1
<1>3. queue_head' = <<r>> \o queue_head
  BY DEF DeviceRequeue
<1>4. queue_head' \in Seq(Requests) /\ Len(queue_head') = Len(queue_head) + 1
  BY <1>2, <1>3, HeldType, ConcatProperties DEF DeviceTypeOK
<1>5. inflight' = inflight \ {r}
  BY DEF DeviceRequeue
<1>6. Cardinality(inflight') = Cardinality(inflight) - 1
  BY <1>1, <1>5, InflightRemove
<1>7. DeviceTypeOK'
  BY <1>4, <1>5 DEF DeviceRequeue, DeviceTypeOK
<1>8. Held' = Held
  BY <1>4, <1>6, HeldType DEF Held
<1> QED  BY <1>1, <1>5, <1>7, <1>8

\* A completion returns exactly one request.
LEMMA CompleteHeld ==
  ASSUME DeviceTypeOK, NEW r \in Requests, DeviceComplete(r)
  PROVE  DeviceTypeOK' /\ Held > 0 /\ Held' = Held - 1
<1>1. r \in inflight /\ inflight' = inflight \ {r} /\ queue_head' = queue_head
  BY DEF DeviceComplete
<1>2. Cardinality(inflight') = Cardinality(inflight) - 1
  BY <1>1, InflightRemove
<1>3. DeviceTypeOK'
  <2>1. issuing' \in [Ctx -> Requests \cup {NoReq}]
    BY DEF DeviceComplete, DeviceTypeOK
  <2> QED  BY <1>1, <2>1 DEF DeviceTypeOK
<1>4. Cardinality(inflight') \in Nat
  BY <1>1, HeldType, FS_RemoveElement, FS_CardinalityType
<1>5. Held > 0 /\ Held' = Held - 1
  BY <1>1, <1>2, <1>4, HeldType DEF Held
<1> QED  BY <1>3, <1>5

\* Nobody else touches the two collections.
LEMMA OtherHeld ==
  ASSUME DeviceTypeOK, NEW c \in Ctx,
         DeviceBusy(c) \/ DeviceBypassed(c) \/ DeviceIssued(c) \/ RunQueue(c)
  PROVE  DeviceTypeOK' /\ UNCHANGED <<queue_head, inflight>> /\ Held' = Held
<1>1. UNCHANGED <<queue_head, inflight>>
  BY DEF DeviceBusy, DeviceBypassed, DeviceIssued, RunQueue
<1>2. DeviceTypeOK'
  BY <1>1 DEF DeviceBusy, DeviceBypassed, DeviceIssued, RunQueue, DeviceTypeOK
<1> QED  BY <1>1, <1>2 DEF Held

\* A list without repetitions is as long as its set of elements is large.
LEMMA DistinctLen ==
  ASSUME NEW S, NEW s \in Seq(S), IsInjective(s)
  PROVE  IsFiniteSet(Range(s)) /\ Cardinality(Range(s)) = Len(s)
<1>1. s \in [1 .. Len(s) -> S] /\ DOMAIN s = 1 .. Len(s) /\ Len(s) \in Nat
  BY LenProperties
<1>2. s \in [1 .. Len(s) -> Range(s)]
  BY <1>1 DEF Range
<1>3. \A y \in Range(s) : \E x \in 1 .. Len(s) : s[x] = y
  BY <1>1 DEF Range
<1>4. \A x, y \in 1 .. Len(s) : s[x] = s[y] => x = y
  BY <1>1 DEF IsInjective
<1>5. s \in Bijection(1 .. Len(s), Range(s))
  BY <1>2, <1>3, <1>4 DEF Bijection, Injection, Surjection, IsInjective
<1>6. ExistsBijection(1 .. Len(s), Range(s))
  BY <1>5 DEF ExistsBijection
<1>7. IsFiniteSet(1 .. Len(s)) /\ Cardinality(1 .. Len(s)) = Len(s)
  <2>1. /\ IsFiniteSet(1 .. Len(s))
        /\ Cardinality(1 .. Len(s)) = IF 1 > Len(s) THEN 0 ELSE Len(s) - 1 + 1
    BY <1>1, FS_Interval, 1 \in Int, Len(s) \in Int
  <2>2. CASE 1 > Len(s)
    BY <1>1, <2>1, <2>2
  <2>3. CASE ~(1 > Len(s))
    BY <1>1, <2>1, <2>3
  <2> QED  BY <2>2, <2>3
<1> QED  BY <1>6, <1>7, FS_Bijection

\* What the provers have of induction: a set of naturals has a least element.
LEMMA LeastNat ==
  ASSUME NEW T, T \subseteq Nat, T # {}
  PROVE  \E x \in T : \A y \in T : x <= y
<1>1. PICK x \in T : \A y \in T : ~ (<<y, x>> \in OpToRel(<, Nat))
  BY NatLessThanWellFounded, WFMin
<1>2. ASSUME NEW y \in T PROVE x <= y
  <2>1. x \in Nat /\ y \in Nat
    OBVIOUS
  <2>2. ~(y < x)
    BY <1>1, <2>1 DEF OpToRel
  <2> QED  BY <2>1, <2>2
<1> QED  BY <1>2

-----------------------------------------------------------------------------
(* A request is in one place.                                              *)

\* linked, plug, head and fly stand for the elevator's list (as a set), the
\* plugs, the driver's list and what is in flight.
Apart(linked, plug, head, fly) ==
  /\ IsInjective(head)
  /\ Range(head) \cap fly = {}
  /\ linked \cap (Range(head) \cup fly) = {}
  /\ plug \cap (linked \cup Range(head) \cup fly) = {}

\* A dispatch moves a request from the elevator to the driver's list.
LEMMA ApartDispatch ==
  ASSUME NEW S, NEW head \in Seq(S), NEW r \in S, NEW i \in 1 .. Len(head) + 1,
         NEW linked, NEW plug, NEW fly,
         Apart(linked, plug, head, fly), r \in linked
  PROVE  Apart(linked \ {r}, plug, With(head, i, r), fly)
<1> DEFINE more == With(head, i, r)
<1>1. r \notin Range(head) /\ IsInjective(head)
  BY DEF Apart
<1>2. Range(more) = Range(head) \cup {r} /\ IsInjective(more)
  BY <1>1, WithDistinct
<1> HIDE DEF more
<1>3. Apart(linked \ {r}, plug, more, fly)
  BY <1>2 DEF Apart
<1> QED  BY <1>3 DEF more

\* blk_start_request moves one from the driver's list to the device.
LEMMA ApartStart ==
  ASSUME NEW S, NEW head \in Seq(S), head # <<>>,
         NEW linked, NEW plug, NEW fly,
         Apart(linked, plug, head, fly)
  PROVE  /\ Head(head) \notin fly
         /\ Apart(linked, plug, Tail(head), fly \cup {Head(head)})
<1> DEFINE first == Head(head)
           rest == Tail(head)
<1>1. first \in Range(head) /\ Range(rest) = Range(head) \ {first} /\ IsInjective(rest)
  BY TailDistinct DEF Apart
<1> HIDE DEF first, rest
<1>2. first \notin fly /\ Apart(linked, plug, rest, fly \cup {first})
  BY <1>1 DEF Apart
<1> QED  BY <1>2 DEF first, rest

\* A requeue moves one back.
LEMMA ApartRequeue ==
  ASSUME NEW S, NEW head \in Seq(S), NEW r \in S,
         NEW linked, NEW plug, NEW fly,
         Apart(linked, plug, head, fly), r \in fly
  PROVE  Apart(linked, plug, <<r>> \o head, fly \ {r})
<1> DEFINE more == <<r>> \o head
<1>1. r \notin Range(head) /\ IsInjective(head)
  BY DEF Apart
<1>2. Range(more) = Range(head) \cup {r} /\ IsInjective(more)
  BY <1>1, ConsDistinct
<1> HIDE DEF more
<1>3. Apart(linked, plug, more, fly \ {r})
  BY <1>2 DEF Apart
<1> QED  BY <1>3 DEF more

\* Starting a request that is not in flight keeps the number of held ones.
LEMMA StartHeldExact ==
  ASSUME DeviceTypeOK, NEW c \in Ctx, DeviceStart(c),
         Head(queue_head) \notin inflight
  PROVE  Held' = Held
<1>1. Len(queue_head') = Len(queue_head) - 1
  BY HeadTailProperties DEF DeviceStart, DeviceTypeOK
<1>2. Cardinality(inflight') = Cardinality(inflight) + 1
  <2> DEFINE more == inflight \cup {Head(queue_head)}
  <2>1. Cardinality(more) = Cardinality(inflight) + 1
    BY HeldType, FS_AddElement
  <2> QED  BY <2>1 DEF DeviceStart
<1> QED  BY <1>1, <1>2, HeldType DEF Held

\* Who holds two requests, or one that the driver's list has not, has one in
\* flight.
LEMMA HeldInFlight ==
  ASSUME DeviceTypeOK, queue_head = <<>>, Held > 0
  PROVE  inflight # {}
BY HeldType, FS_EmptySet DEF Held

\* A request on the driver's list and one in flight make two.
LEMMA HeldTwo ==
  ASSUME DeviceTypeOK, queue_head # <<>>, inflight # {}
  PROVE  Held >= 2
<1>1. Len(queue_head) >= 1
  BY EmptySeq, HeldType DEF DeviceTypeOK
<1>2. Cardinality(inflight) >= 1
  BY HeldType, FS_EmptySet
<1> QED  BY <1>1, <1>2, HeldType DEF Held

\* A requeue leaves one on the driver's list and another in flight.
LEMMA ReturnsTwo ==
  ASSUME DeviceTypeOK, NEW c \in Ctx, DeviceRequeue(c)
  PROVE  Held >= 2
<1>1. issuing[c] \in inflight /\ inflight # {issuing[c]}
  BY DEF DeviceRequeue
<1> DEFINE others == inflight \ {issuing[c]}
<1>2. others # {}
  BY <1>1
<1>3. IsFiniteSet(others) /\ Cardinality(others) = Cardinality(inflight) - 1
  BY <1>1, HeldType, FS_RemoveElement
<1> HIDE DEF others
<1>4. Cardinality(others) \in Nat /\ Cardinality(others) # 0
  BY <1>2, <1>3, FS_EmptySet, FS_CardinalityType
<1> QED  BY <1>3, <1>4, HeldType DEF Held

\* The iterates of a function on a set: a walk along a ring.
IsWalk(g, N, f, a) == g = [k \in 0 .. N |-> IF k = 0 THEN a ELSE f[g[k - 1]]]

LEMMA IteratesExist ==
  ASSUME NEW N \in Nat, NEW S, NEW f \in [S -> S], NEW a \in S
  PROVE  \E g \in [0 .. N -> S] : IsWalk(g, N, f, a)
<1> DEFINE Bad == {m \in Nat : ~ \E g \in [0 .. m -> S] : IsWalk(g, m, f, a)}
<1> SUFFICES ASSUME Bad # {} PROVE FALSE
  OBVIOUS
<1>1. PICK m \in Bad : \A i \in Bad : m <= i
  BY LeastNat
<1>2. m # 0
  <2> SUFFICES ASSUME m = 0 PROVE FALSE
    OBVIOUS
  <2> DEFINE g == [k \in 0 .. 0 |-> a]
  <2>1. g \in [0 .. 0 -> S]
    OBVIOUS
  <2>2. IsWalk(g, 0, f, a)
    BY DEF IsWalk
  <2> QED  BY <1>1, <2>1, <2>2
<1>3. m - 1 \in Nat /\ m - 1 \notin Bad
  BY <1>1, <1>2
<1>4. PICK g \in [0 .. m - 1 -> S] : IsWalk(g, m - 1, f, a)
  BY <1>3
<1> DEFINE h == [k \in 0 .. m |-> IF k = m THEN f[g[m - 1]] ELSE g[k]]
<1>5. /\ m \in Nat /\ m > 0 /\ m - 1 \in 0 .. m - 1
      /\ \A k \in 0 .. m : k # m => k \in 0 .. m - 1
      /\ \A k \in 0 .. m : k # 0 => k - 1 \in 0 .. m - 1 /\ k - 1 # m
                                     /\ k - 1 \in 0 .. m
  BY <1>1, <1>2
<1>6. h \in [0 .. m -> S]
  <2>1. ASSUME NEW k \in 0 .. m
        PROVE  (IF k = m THEN f[g[m - 1]] ELSE g[k]) \in S
    BY <1>4, <1>5
  <2> QED  BY <2>1
<1>7. \A k \in 0 .. m - 1 : g[k] = IF k = 0 THEN a ELSE f[g[k - 1]]
  BY <1>4 DEF IsWalk
<1>8. ASSUME NEW k \in 0 .. m
      PROVE  h[k] = IF k = 0 THEN a ELSE f[h[k - 1]]
  <2>1. CASE k = 0
    BY <1>5, <1>7, <2>1
  <2>2. CASE k # 0
    <3>1. h[k - 1] = g[k - 1]
      BY <1>5, <2>2
    <3>2. h[k] = f[g[k - 1]]
      BY <1>5, <1>7, <2>2
    <3> QED  BY <2>2, <3>1, <3>2
  <2> QED  BY <2>1, <2>2
<1> HIDE DEF h
<1>9. IsWalk(h, m, f, a)
  BY <1>6, <1>8 DEF IsWalk
<1> QED  BY <1>1, <1>6, <1>9

\* A ring of the queues 1 .. L leads from the list head to each in turn.
LEMMA RingWalk ==
  ASSUME NEW N \in Nat, NEW L \in 0 .. N, NEW f,
         \A q \in 0 .. N : f[q] = IF q < L THEN q + 1 ELSE 0,
         NEW nth, IsWalk(nth, N, f, 0)
  PROVE  /\ \A k \in 0 .. L : nth[k] = k
         /\ \A k \in 0 .. N : nth[k] \in 0 .. L
<1>0. nth = [k \in 0 .. N |-> IF k = 0 THEN 0 ELSE f[nth[k - 1]]]
  BY DEF IsWalk
<1>1. /\ nth[0] = 0
      /\ \A k \in 1 .. N : nth[k] = f[nth[k - 1]]
  <2>1. nth[0] = 0
    BY <1>0
  <2>2. ASSUME NEW k \in 1 .. N PROVE nth[k] = f[nth[k - 1]]
    <3>1. k \in 0 .. N /\ k # 0
      OBVIOUS
    <3> QED  BY <1>0, <3>1
  <2> QED  BY <2>1, <2>2
<1>2. ASSUME NEW k \in 0 .. L PROVE nth[k] = k
  <2> DEFINE Bad == {j \in 0 .. L : nth[j] # j}
  <2> SUFFICES ASSUME Bad # {} PROVE FALSE
    BY <1>2
  <2>0. Bad \subseteq Nat
    OBVIOUS
  <2>1. PICK j \in Bad : \A i \in Bad : j <= i
    <3> HIDE DEF Bad
    <3> QED  BY <2>0, LeastNat
  <2>2. j # 0 /\ j \in 1 .. L /\ j - 1 \in 0 .. L /\ ~(j <= j - 1)
    BY <1>1, <2>1
  <2>3. nth[j - 1] = j - 1
    BY <2>1, <2>2
  <2>4. nth[j] = f[j - 1]
    BY <1>1, <2>2, <2>3
  <2>5. f[j - 1] = j
    BY <1>1, <2>2
  <2> QED  BY <2>1, <2>4, <2>5
<1>3. ASSUME NEW k \in 0 .. N PROVE nth[k] \in 0 .. L
  <2> DEFINE Bad == {j \in 0 .. N : nth[j] \notin 0 .. L}
  <2> SUFFICES ASSUME Bad # {} PROVE FALSE
    BY <1>3
  <2>0. Bad \subseteq Nat
    OBVIOUS
  <2>1. PICK j \in Bad : \A i \in Bad : j <= i
    <3> HIDE DEF Bad
    <3> QED  BY <2>0, LeastNat
  <2>2. j \in 1 .. N /\ j - 1 \in 0 .. N /\ ~(j <= j - 1)
    BY <1>1, <2>1
  <2>3. nth[j - 1] \in 0 .. L
    BY <2>1, <2>2
  <2>4. nth[j] = f[nth[j - 1]]
    BY <1>1, <2>2
  <2>5. f[nth[j - 1]] \in 0 .. L
    <3> DEFINE q == nth[j - 1]
    <3>1. q \in 0 .. L /\ q \in 0 .. N
      BY <2>3
    <3>2. f[q] = IF q < L THEN q + 1 ELSE 0
      BY <1>1, <3>1
    <3> HIDE DEF q
    <3>3. f[q] \in 0 .. L
      BY <3>1, <3>2
    <3> QED  BY <3>3 DEF q
  <2> QED  BY <2>1, <2>4, <2>5
<1> QED  BY <1>2, <1>3

=============================================================================
