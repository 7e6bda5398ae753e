-------------------------- MODULE OutboxRelayProofs --------------------------
(***************************************************************************)
(* Theorems about OutboxRelay, for every number of events, relays, posts,  *)
(* faults and leases that end too early, and every way to cut a text.      *)
(***************************************************************************)
EXTENDS OutboxRelay, SequenceTheorems, FiniteSetTheorems, WellFoundedInduction, TLAPS

-----------------------------------------------------------------------------
(* What proofs about all numbers rest on: a set of numbers has a least one. *)

LEMMA Smallest ==
  ASSUME NEW T, T \subseteq Nat, T # {}
  PROVE  \E x \in T : \A y \in T : x <= y
<1>1. PICK x \in T : \A y \in T : ~ (<<y, x>> \in OpToRel(<, Nat))
  BY NatLessThanWellFounded, WFMin
<1>2. \A y \in T : ~ (y < x)
  BY <1>1 DEF OpToRel
<1> QED
  BY <1>2

-----------------------------------------------------------------------------
(* How a text is cut: where chunks start and end, ...                       *)

LEMMA SmallerOfTwo ==
  ASSUME NEW a \in Nat, NEW b \in Nat
  PROVE  Min({a, b}) = IF a <= b THEN a ELSE b
BY DEF Min

LEMMA Strides ==
  /\ ChunkWords \in Nat /\ OverlapWords \in Nat
  /\ Stride \in Nat \ {0}
  /\ Stride + OverlapWords = ChunkWords
BY RelayAssumption DEF Stride

LEMMA Starts ==
  ASSUME NEW k \in Nat \ {0}
  PROVE  /\ Start(k) \in Nat
         /\ Start(k + 1) = Start(k) + Stride
         /\ k <= Start(k) + 1
         /\ k = 1 => Start(k) = 0
<1>1. PICK m \in Nat, s \in Nat \ {0} : m = k - 1 /\ s = Stride
  BY Strides
<1>2. m * s \in Nat /\ m <= m * s /\ (m + 1) * s = m * s + s
  OBVIOUS
<1>3. Start(k) = m * s /\ Start(k + 1) = (m + 1) * s
  BY <1>1 DEF Start
<1>4. m = 0 => m * s = 0
  OBVIOUS
<1> QED
  BY <1>1, <1>2, <1>3, <1>4

Ordinals(t) ==
  {k \in 1 .. Len(t) : k = 1 \/ Start(k - 1) + ChunkWords < Len(t)}
End(t, k) == Min({Start(k) + ChunkWords, Len(t)})

(* (a chunk after the first starts where there is more than what it         *)
(* repeats), ...                                                            *)
LEMMA StartsWithMore ==
  ASSUME NEW S, NEW t \in Seq(S), NEW k
  PROVE  k \in Ordinals(t) <=>
           k \in 1 .. Len(t) /\ (k = 1 \/ Start(k) + OverlapWords < Len(t))
<1>1. Len(t) \in Nat
  OBVIOUS
<1>2. ASSUME k \in 1 .. Len(t), k # 1
      PROVE  Start(k - 1) + ChunkWords = Start(k) + OverlapWords
  <2>1. k - 1 \in Nat \ {0} /\ (k - 1) + 1 = k
    BY <1>1, <1>2
  <2>2. Start(k) = Start(k - 1) + Stride /\ Start(k - 1) \in Nat
    BY <2>1, Starts
  <2> QED
    BY <2>2, Strides
<1> QED
  BY <1>2 DEF Ordinals

LEMMA Ends ==
  ASSUME NEW S, NEW t \in Seq(S), NEW k \in Nat \ {0}
  PROVE  /\ End(t, k) \in Nat
         /\ Start(k) + ChunkWords <= Len(t) => End(t, k) = Start(k) + ChunkWords
         /\ ~ (Start(k) + ChunkWords <= Len(t)) => End(t, k) = Len(t)
<1>1. Len(t) \in Nat
  OBVIOUS
<1>2. Start(k) + ChunkWords \in Nat
  <2>1. Start(k) \in Nat
    BY Starts
  <2> QED
    BY <2>1, Strides
<1>3. End(t, k) = IF Start(k) + ChunkWords <= Len(t)
                  THEN Start(k) + ChunkWords ELSE Len(t)
  BY <1>1, <1>2, SmallerOfTwo DEF End
<1> QED
  BY <1>1, <1>2, <1>3

LEMMA StartsBeforeTheEnd ==
  ASSUME NEW S, NEW t \in Seq(S), NEW k \in Ordinals(t)
  PROVE  /\ k \in Nat \ {0} /\ k <= Len(t)
         /\ Start(k) \in Nat /\ Start(k) < End(t, k) /\ End(t, k) \in 1 .. Len(t)
<1>0. Len(t) \in Nat
  OBVIOUS
<1>1. k \in 1 .. Len(t)
  BY DEF Ordinals
<1>2. k \in Nat \ {0} /\ k <= Len(t) /\ Start(k) \in Nat
  BY <1>0, <1>1, Starts
<1>3. Start(k) < Len(t)
  <2>1. CASE k = 1
    BY <1>0, <1>1, <1>2, <2>1, Starts
  <2>2. CASE k # 1
    <3>1. Start(k) + OverlapWords < Len(t)
      BY <2>2, StartsWithMore
    <3> QED
      BY <1>0, <1>2, <3>1, Strides
  <2> QED
    BY <2>1, <2>2
<1>4. End(t, k) \in Nat /\ (End(t, k) = Start(k) + ChunkWords \/ End(t, k) = Len(t))
  BY <1>2, Ends
<1>5. End(t, k) <= Len(t)
  BY <1>0, <1>2, Ends, Strides
<1>6. Start(k) < Start(k) + ChunkWords
  BY <1>2, Strides
<1> QED
  BY <1>0, <1>2, <1>3, <1>4, <1>5, <1>6

(* ... and the first that reaches the end of the text is the last.          *)
LEMMA OneAfter ==
  ASSUME NEW S, NEW t \in Seq(S), NEW k \in Nat \ {0}
  PROVE  k + 1 \in Ordinals(t) <=> Start(k) + ChunkWords < Len(t)
<1>0. Len(t) \in Nat
  OBVIOUS
<1>1. /\ Start(k) \in Nat /\ k <= Start(k) + 1
      /\ Start(k + 1) = Start(k) + Stride
  BY Starts
<1>2. Start(k + 1) + OverlapWords = Start(k) + ChunkWords
  BY <1>1, Strides
<1>3. ASSUME Start(k) + ChunkWords < Len(t) PROVE k + 1 \in 1 .. Len(t)
  BY <1>0, <1>1, <1>3, Strides
<1>4. k + 1 # 1
  OBVIOUS
<1> QED
  BY <1>2, <1>3, <1>4, StartsWithMore

LEMMA OneBefore ==
  ASSUME NEW S, NEW t \in Seq(S), NEW k \in Nat \ {0}, k + 1 \in Ordinals(t)
  PROVE  k \in Ordinals(t)
<1>0. Len(t) \in Nat
  OBVIOUS
<1>1. Start(k) + ChunkWords < Len(t)
  BY OneAfter
<1>2. k \in 1 .. Len(t)
  <2>1. k + 1 \in 1 .. Len(t)
    BY DEF Ordinals
  <2> QED
    BY <1>0, <2>1
<1>3. Start(k) + OverlapWords < Len(t)
  <2>1. Start(k) \in Nat
    BY Starts
  <2> QED
    BY <1>0, <1>1, <2>1, Strides
<1> QED
  BY <1>2, <1>3, StartsWithMore

(* They are numbered without a gap.                                         *)
LEMMA NumberedChunks ==
  ASSUME NEW S, NEW t \in Seq(S)
  PROVE  \E n \in 0 .. Len(t) : Ordinals(t) = 1 .. n
<1>0. Len(t) \in Nat /\ \A k \in Ordinals(t) : k \in Nat \ {0} /\ k <= Len(t)
  BY StartsBeforeTheEnd
<1> DEFINE Missing == {k \in Nat \ {0} : k \notin Ordinals(t)}
<1>1. Len(t) + 1 \in Missing /\ Missing \subseteq Nat
  BY <1>0
<1>2. PICK m \in Missing : \A k \in Missing : m <= k
  <2> HIDE DEF Missing
  <2> QED
    BY <1>1, Smallest
<1>3. m \in Nat \ {0} /\ m <= Len(t) + 1 /\ m \notin Ordinals(t)
  BY <1>1, <1>2
<1>4. \A k \in 1 .. m - 1 : k \in Ordinals(t)
  <2> SUFFICES ASSUME NEW k \in 1 .. m - 1 PROVE k \in Ordinals(t)
    OBVIOUS
  <2>1. k \in Nat \ {0} /\ ~ (m <= k)
    BY <1>3
  <2> QED
    BY <1>2, <2>1
<1> DEFINE Later == {k \in Ordinals(t) : m <= k}
<1>5. ASSUME Later # {} PROVE FALSE
  <2>1. Later \subseteq Nat
    BY <1>0
  <2>2. PICK j \in Later : \A k \in Later : j <= k
    <3> HIDE DEF Later
    <3> QED
      BY <1>5, <2>1, Smallest
  <2>3. j \in Nat /\ m < j /\ j \in Ordinals(t)
    BY <1>0, <1>3, <2>2
  <2>4. j - 1 \in Nat \ {0} /\ (j - 1) + 1 = j /\ m <= j - 1 /\ ~ (j <= j - 1)
    BY <1>3, <2>3
  <2>5. j - 1 \in Ordinals(t)
    BY <2>3, <2>4, OneBefore
  <2> QED
    BY <2>2, <2>4, <2>5
<1>6. \A k \in Ordinals(t) : k \in 1 .. m - 1
  <2> SUFFICES ASSUME NEW k \in Ordinals(t) PROVE k \in 1 .. m - 1
    OBVIOUS
  <2>1. k \in Nat \ {0} /\ ~ (m <= k)
    BY <1>0, <1>5
  <2> QED
    BY <1>3, <2>1
<1>7. Ordinals(t) = 1 .. m - 1
  BY <1>4, <1>6
<1>8. m - 1 \in 0 .. Len(t)
  BY <1>0, <1>3
<1> QED
  BY <1>7, <1>8

LEMMA Cut ==
  ASSUME NEW S, NEW t \in Seq(S), NEW n \in Nat, Ordinals(t) = 1 .. n
  PROVE  /\ Chunks(t) \in [1 .. n -> Seq(S)] /\ Len(Chunks(t)) = n
         /\ \A k \in 1 .. n : Chunks(t)[k] = SubSeq(t, Start(k) + 1, End(t, k))
         /\ n = 0 <=> Len(t) = 0
         /\ n # 0 => End(t, n) = Len(t)
         /\ \A k \in 1 .. n - 1 : End(t, k) = Start(k + 1) + OverlapWords
<1>0. Len(t) \in Nat
  OBVIOUS
<1>1. Chunks(t) = [k \in 1 .. n |-> SubSeq(t, Start(k) + 1, End(t, k))]
  BY DEF Chunks, Ordinals, End
<1>2. ASSUME NEW k \in 1 .. n PROVE SubSeq(t, Start(k) + 1, End(t, k)) \in Seq(S)
  <2>1. /\ Start(k) + 1 \in Nat \ {0} /\ End(t, k) \in Nat
        /\ End(t, k) <= Len(t)
    BY <1>0, StartsBeforeTheEnd
  <2>2. \A i \in Start(k) + 1 .. End(t, k) : t[i] \in S
    BY <1>0, <2>1
  <2> QED
    BY <2>1, <2>2, SubSeqProperties
<1>3. n = 0 <=> Len(t) = 0
  <2>1. ASSUME Len(t) # 0 PROVE 1 \in Ordinals(t)
    <3>1. 1 \in 1 .. Len(t)
      BY <1>0, <2>1
    <3> QED
      BY <3>1 DEF Ordinals
  <2>2. ASSUME n # 0 PROVE Len(t) # 0
    <3>1. n \in Ordinals(t)
      BY <2>2
    <3>2. n \in 1 .. Len(t)
      BY <3>1 DEF Ordinals
    <3> QED
      BY <1>0, <2>2, <3>2
  <2> QED
    BY <2>1, <2>2
<1>4. ASSUME n # 0 PROVE End(t, n) = Len(t)
  <2>0. n + 1 \notin 1 .. n /\ n \in Nat \ {0}
    BY <1>4
  <2>1. n + 1 \notin Ordinals(t) /\ n \in Nat \ {0} /\ Start(n) \in Nat
    BY <2>0, Starts
  <2>2. ~ (Start(n) + ChunkWords < Len(t))
    BY <2>1, OneAfter
  <2> QED
    BY <1>0, <2>1, <2>2, Ends, Strides
<1>5. ASSUME NEW k \in 1 .. n - 1
      PROVE  End(t, k) = Start(k + 1) + OverlapWords
  <2>0. k + 1 \in 1 .. n /\ k \in Nat \ {0}
    OBVIOUS
  <2>1. Start(k) \in Nat /\ Start(k + 1) = Start(k) + Stride
    BY <2>0, Starts
  <2>2. Start(k) + ChunkWords < Len(t)
    BY <2>0, OneAfter
  <2>3. End(t, k) = Start(k) + ChunkWords
    BY <1>0, <2>0, <2>1, <2>2, Ends, Strides
  <2> QED
    BY <2>1, <2>3, Strides
<1>6. Len(Chunks(t)) = n
  BY <1>1
<1>7. Chunks(t) \in [1 .. n -> Seq(S)]
  BY <1>1, <1>2
<1>8. \A k \in 1 .. n : Chunks(t)[k] = SubSeq(t, Start(k) + 1, End(t, k))
  BY <1>1
<1> QED
  BY <1>3, <1>4, <1>5, <1>6, <1>7, <1>8

(* What a chunk adds to the ones before it.                                 *)
LEMMA ChunkAdds ==
  ASSUME NEW S, NEW t \in Seq(S), NEW n \in Nat, Ordinals(t) = 1 .. n,
         NEW k \in Nat \ {0}, k + 1 \in 1 .. n
  PROVE  LET c == Chunks(t)[k + 1]
         IN  SubSeq(t, 1, End(t, k)) \o SubSeq(c, OverlapWords + 1, Len(c))
               = SubSeq(t, 1, End(t, k + 1))
<1> DEFINE L == Len(t)
           from == Start(k + 1)
           upto == End(t, k + 1)
           c == Chunks(t)[k + 1]
<1>1. L \in Nat /\ k \in 1 .. n /\ k \in 1 .. n - 1
  OBVIOUS
<1>2. c = SubSeq(t, from + 1, upto) /\ End(t, k) = from + OverlapWords
  BY <1>1, Cut
<1>3. /\ from \in Nat /\ from < upto /\ upto \in 1 .. L
      /\ End(t, k) \in 1 .. L
  <2>1. k \in Ordinals(t) /\ k + 1 \in Ordinals(t)
    BY <1>1
  <2> QED
    BY <2>1, StartsBeforeTheEnd
<1>4. from + OverlapWords < upto /\ OverlapWords \in Nat
  <2>1. k + 1 \in Ordinals(t) /\ k + 1 # 1 /\ k + 1 \in Nat \ {0}
    BY <1>1
  <2>2. from + OverlapWords < L
    BY <2>1, StartsWithMore
  <2>3. upto = from + ChunkWords \/ upto = L
    BY <2>1, Ends
  <2>4. OverlapWords < ChunkWords /\ OverlapWords \in Nat /\ ChunkWords \in Nat
    BY RelayAssumption
  <2> QED
    BY <1>1, <1>3, <2>2, <2>3, <2>4
<1> HIDE DEF from, upto, c
<1>5. \A i \in from + 1 .. upto : t[i] \in S
  BY <1>1, <1>3 DEF L
<1>6. Len(c) = upto - from
  <2>1. from + 1 \in Int /\ upto \in Int
    BY <1>1, <1>3
  <2>2. Len(SubSeq(t, from + 1, upto)) = upto - (from + 1) + 1
    BY <1>1, <1>3, <1>5, <2>1, SubSeqProperties
  <2> QED
    BY <1>1, <1>2, <1>3, <2>2
<1>7. SubSeq(c, OverlapWords + 1, Len(c)) = SubSeq(t, End(t, k) + 1, upto)
  <2>1. /\ from + 1 \in 1 .. L /\ upto \in 1 .. L
        /\ OverlapWords + 1 \in 1 .. upto - (from + 1) + 1
        /\ upto - from \in 1 .. upto - (from + 1) + 1
    BY <1>1, <1>3, <1>4
  <2>2. ASSUME NEW i \in 1 .. Len(t), NEW j \in 1 .. Len(t),
               NEW m \in 1 .. j - i + 1, NEW q \in 1 .. j - i + 1
        PROVE  SubSeq(SubSeq(t, i, j), m, q) = SubSeq(t, i + m - 1, i + q - 1)
    BY SubSeqOfSubSeq
  <2>4. SubSeq(SubSeq(t, from + 1, upto), OverlapWords + 1, upto - from)
          = SubSeq(t, (from + 1) + (OverlapWords + 1) - 1, (from + 1) + (upto - from) - 1)
    BY <2>1, <2>2 DEF L
  <2>3. /\ (from + 1) + (OverlapWords + 1) - 1 = End(t, k) + 1
        /\ (from + 1) + (upto - from) - 1 = upto
    BY <1>1, <1>2, <1>3, <1>4
  <2> QED
    BY <1>2, <1>6, <2>3, <2>4
<1>8. SubSeq(t, 1, End(t, k)) \o SubSeq(t, End(t, k) + 1, upto) = SubSeq(t, 1, upto)
  <2>1. /\ 1 \in 1 .. L + 1 /\ End(t, k) \in 1 - 1 .. L
        /\ upto \in End(t, k) .. L
    BY <1>1, <1>2, <1>3, <1>4
  <2> QED
    BY <2>1, ConcatAdjacentSubSeq DEF L
<1> QED
  BY <1>7, <1>8 DEF c, upto

(* Cutting a text loses and mixes up nothing, however long it is and        *)
(* whatever the lengths of chunks and overlaps: its chunks, less what each  *)
(* repeats of the one before, are the text (chunkResolvedThread).           *)
THEOREM CuttingKeepsTheText ==
  ASSUME NEW S, NEW t \in Seq(S)
  PROVE  Reassembled(Chunks(t)) = t
<1> DEFINE cs == Chunks(t)
           Rest(k) == SubSeq(cs[k], OverlapWords + 1, Len(cs[k]))
           Solves(u) == u = [k \in DOMAIN cs |-> IF k = 1 THEN cs[1]
                                                ELSE u[k - 1] \o Rest(k)]
           F == [k \in DOMAIN cs |-> SubSeq(t, 1, End(t, k))]
<1>1. PICK n \in Nat : Ordinals(t) = 1 .. n
  BY NumberedChunks
<1>2. /\ DOMAIN cs = 1 .. n /\ Len(cs) = n
      /\ n = 0 <=> Len(t) = 0
      /\ n # 0 => End(t, n) = Len(t)
  BY <1>1, Cut
<1>3. n # 0 => cs[1] = SubSeq(t, 1, End(t, 1))
  <2>1. n # 0 => 1 \in 1 .. n
    OBVIOUS
  <2>2. Start(1) = 0
    BY Starts
  <2> QED
    BY <1>1, <2>1, <2>2, Cut
<1>4. ASSUME NEW k \in 1 .. n, k # 1
      PROVE  /\ k - 1 \in 1 .. n
             /\ SubSeq(t, 1, End(t, k - 1)) \o Rest(k) = SubSeq(t, 1, End(t, k))
  <2>1. k - 1 \in Nat \ {0} /\ (k - 1) + 1 = k /\ k - 1 \in 1 .. n
    BY <1>4
  <2> QED
    BY <1>1, <2>1, ChunkAdds
<1> HIDE DEF cs, Rest
(* (the recursion that puts the text together has this solution, ...        *)
<1>5. Solves(F)
  <2>1. \A k \in 1 .. n : F[k] = SubSeq(t, 1, End(t, k))
    BY <1>2
  <2>2. F = [k \in 1 .. n |-> F[k]]
    BY <1>2
  <2> HIDE DEF F
  <2>3. ASSUME NEW k \in 1 .. n
        PROVE  F[k] = IF k = 1 THEN cs[1] ELSE F[k - 1] \o Rest(k)
    <3>0. n # 0
      OBVIOUS
    <3>1. CASE k = 1
      BY <1>3, <2>1, <3>0, <3>1
    <3>2. CASE k # 1
      <4>1. F[k - 1] = SubSeq(t, 1, End(t, k - 1))
        BY <1>4, <2>1, <3>2
      <4> QED
        BY <1>4, <2>1, <3>2, <4>1
    <3> QED
      BY <3>1, <3>2
  <2>4. F = [k \in 1 .. n |-> IF k = 1 THEN cs[1] ELSE F[k - 1] \o Rest(k)]
    BY <2>2, <2>3
  <2> QED
    BY <1>2, <2>4
(* ... and no other)                                                        *)
<1>6. ASSUME NEW u, Solves(u)
      PROVE  \A k \in 1 .. n : u[k] = SubSeq(t, 1, End(t, k))
  <2> DEFINE Wrong == {k \in 1 .. n : u[k] # SubSeq(t, 1, End(t, k))}
  <2> SUFFICES ASSUME Wrong # {} PROVE FALSE
    OBVIOUS
  <2>1. Wrong \subseteq Nat
    OBVIOUS
  <2>2. PICK k \in Wrong : \A j \in Wrong : k <= j
    <3> HIDE DEF Wrong
    <3> QED
      BY <2>1, Smallest
  <2>3. k # 1
    BY <1>2, <1>3, <1>6
  <2>4. k - 1 \in 1 .. n /\ k - 1 \notin Wrong
    BY <1>4, <2>2, <2>3
  <2>5. u[k - 1] = SubSeq(t, 1, End(t, k - 1))
    BY <2>4
  <2>6. u[k] = u[k - 1] \o Rest(k)
    BY <1>2, <1>6, <2>3
  <2> QED
    BY <1>4, <2>2, <2>3, <2>5, <2>6
<1>7. CASE n = 0
  <2>1. t = <<>> /\ cs = <<>>
    BY <1>2, <1>7
  <2> QED
    BY <2>1 DEF Reassembled, cs
<1>8. CASE n # 0
  <2> DEFINE u == CHOOSE u : Solves(u)
  <2>1. Solves(u)
    BY <1>5
  <2>2. cs # <<>> /\ n \in 1 .. n
    BY <1>2, <1>8
  <2>3. Reassembled(cs) = u[n]
    BY <1>2, <2>2 DEF Reassembled, Rest
  <2>4. u[n] = SubSeq(t, 1, Len(t))
    <3> HIDE DEF u, Solves
    <3> QED
      BY <1>2, <1>6, <1>8, <2>1, <2>2
  <2> QED
    BY <2>3, <2>4, SubSeqFull DEF cs
<1> QED
  BY <1>7, <1>8

(* Sorting by index undoes the order in which the provider answered.        *)
LEMMA SortedByIndex ==
  ASSUME NEW n \in Nat, NEW cs, DOMAIN cs = 1 .. n, NEW data \in Answers(cs)
  PROVE  \A k \in 1 .. n : Vectors(data)[k] = cs[k]
<1> DEFINE D == 1 .. n
           Item(k) == [index |-> k, embedding |-> cs[k]]
           Sorts(s) == /\ ToSet(s) = ToSet(data)
                       /\ \A j, k \in DOMAIN data : j < k => s[j].index < s[k].index
<1>1. PICK order \in [D -> D] :
             ToSet(order) = D /\ data = [k \in D |-> Item(order[k])]
  BY DEF Answers
<1>2. DOMAIN data = D
  BY <1>1
<1>3. ToSet(data) = {Item(k) : k \in D}
  <2>1. ToSet(data) = {Item(order[k]) : k \in D}
    BY <1>1 DEF ToSet
  <2>2. \A j \in D : \E k \in D : j = order[k]
    BY <1>1 DEF ToSet
  <2> HIDE DEF D, Item
  <2> QED
    BY <1>1, <2>1, <2>2
<1>4. \E s \in [D -> ToSet(data)] : Sorts(s)
  <2> DEFINE s == [k \in D |-> Item(k)]
  <2>1. s \in [D -> ToSet(data)] /\ ToSet(s) = ToSet(data)
    BY <1>3 DEF ToSet
  <2>2. \A j, k \in D : j < k => s[j].index < s[k].index
    OBVIOUS
  <2> QED
    BY <1>2, <2>1, <2>2
<1> DEFINE s == Sorted(data)
<1>5. s \in [D -> ToSet(data)] /\ Sorts(s)
  BY <1>2, <1>4 DEF Sorted
<1> HIDE DEF s
<1>6. \A k \in D : s[k].index \in D /\ s[k] = Item(s[k].index)
  BY <1>3, <1>5
<1>7. \A j \in D : \E k \in D : s[k].index = j
  <2> SUFFICES ASSUME NEW j \in D PROVE \E k \in D : s[k].index = j
    OBVIOUS
  <2>1. Item(j) \in ToSet(s) /\ DOMAIN s = D
    BY <1>3, <1>5
  <2>2. PICK k \in D : s[k] = Item(j)
    BY <2>1 DEF ToSet
  <2> QED
    BY <2>2
<1>8. \A j, k \in D : j < k => s[j].index < s[k].index
  BY <1>2, <1>5
<1> DEFINE Wrong == {k \in D : s[k].index # k}
<1>9. ASSUME Wrong # {} PROVE FALSE
  <2>1. Wrong \subseteq Nat
    OBVIOUS
  <2>2. PICK k \in Wrong : \A j \in Wrong : k <= j
    <3> HIDE DEF Wrong
    <3> QED
      BY <1>9, <2>1, Smallest
  <2>3. \A j \in D : j < k => s[j].index = j
    BY <2>2
  <2>4. k \in D /\ s[k].index \in D /\ s[k].index # k
    BY <1>6, <2>2
  <2>5. ~ (s[k].index < k)
    <3> SUFFICES ASSUME s[k].index < k PROVE FALSE
      OBVIOUS
    <3> DEFINE j == s[k].index
    <3>1. j \in D /\ j < k /\ s[j].index = j /\ s[j].index < s[k].index
      BY <1>8, <2>3, <2>4
    <3> QED
      BY <3>1
  <2>6. PICK m \in D : s[m].index = k
    BY <1>7, <2>4
  <2>7. k < m
    <3>1. ~ (m < k) /\ m # k
      BY <2>3, <2>4, <2>6
    <3> QED
      BY <2>4, <3>1
  <2>8. s[k].index < s[m].index
    BY <1>8, <2>4, <2>7
  <2> QED
    BY <2>4, <2>5, <2>6, <2>8
<1>10. \A k \in D : s[k] = Item(k)
  BY <1>6, <1>9
<1>11. Vectors(data) = [k \in D |-> s[k].embedding]
  BY <1>2 DEF Vectors, s
<1>12. ASSUME NEW k \in D PROVE s[k].embedding = cs[k]
  <2>1. s[k] = Item(k)
    BY <1>10
  <2>2. Item(k).embedding = cs[k]
    OBVIOUS
  <2> HIDE DEF Item
  <2> QED
    BY <2>1, <2>2
<1> HIDE DEF Item
<1> QED
  BY <1>11, <1>12

USE RelayAssumption

-----------------------------------------------------------------------------
(* The inductive invariant.                                                 *)

Cuts == {Chunks(Text[i]) : i \in DOMAIN Text}
Indexing == {"read", "embed", "create", "index", "store"}

RelayState ==
  [pc : Steps, event : Nat, left : Nat, chunks : Cuts \cup {<<>>}]

Typed ==
  /\ written \in 0 .. NumEvents
  /\ posted \in [IndexEvents -> 0 .. MaxPosts]
  /\ processed \subseteq Events
  /\ overruns \in Nat
  /\ chunks \in [IndexEvents -> Cuts \cup {None}]
  /\ relay \in [Relays -> RelayState]

(* A relay works on an event of the kind it works for, with chunks of a     *)
(* text that it has read, ...                                               *)
WorksOnIt ==
  \A w \in Relays :
    /\ Working(w) => relay[w].event \in Events /\ relay[w].left # 0
    /\ relay[w].pc \in Indexing => relay[w].event \in IndexEvents
    /\ relay[w].pc \in Indexing \ {"read"} => relay[w].chunks \in Cuts
    /\ relay[w].pc = "recalculate" => relay[w].event \notin IndexEvents

(* ... and is about to mark it when the work is done.                       *)
Done(e) == IF e \in IndexEvents THEN chunks[e] # None ELSE e \in snapshots
MarksWhatIsDone == \A w \in Relays : relay[w].pc = "mark" => Done(relay[w].event)

(* As long as no lease ended too early, an event that is worked on is put   *)
(* off, so nobody else claims it.                                           *)
HeldIsPutOff ==
  overruns = 0 =>
    \A w \in Relays : Working(w) =>
      /\ relay[w].event \in putOff
      /\ \A v \in Relays : Working(v) /\ relay[v].event = relay[w].event => v = w

RelaySound ==
  /\ Typed
  /\ WorksOnIt
  /\ MarksWhatIsDone
  /\ ProcessedWasDone
  /\ HeldIsPutOff

-----------------------------------------------------------------------------
(* A relay claims an event that is due.                                     *)

LEMMA OldestIsDue ==
  ASSUME Typed, Due # {}
  PROVE  Min(Due) \in Events /\ Min(Due) \in Due
<1>1. Due \subseteq Nat /\ Due \subseteq Events
  BY DEF Typed, Due, Events
<1>2. Min(Due) \in Due
  BY <1>1, Smallest DEF Min
<1> QED
  BY <1>1, <1>2

LEMMA AnyTextIsCut ==
  ASSUME Typed, NEW e \in IndexEvents
  PROVE  Chunks(Text[e, posted[e]]) \in Cuts
<1>1. <<e, posted[e]>> \in DOMAIN Text
  BY TextAssumption DEF Typed
<1> QED
  BY <1>1 DEF Cuts

LEMMA CutsAreNotNone == None \notin Cuts
BY TextAssumption DEF Cuts

-----------------------------------------------------------------------------
(* What the steps with several outcomes do.                                 *)

Drained(w) ==
  /\ relay' = [relay EXCEPT ![w] = Idle]
  /\ UNCHANGED <<written, processed, putOff, posted, chunks, snapshots, overruns>>

Claimed(w, e) ==
  /\ e \in Due
  /\ relay[w].left # 0
  /\ putOff' = putOff \cup {e}
  /\ relay' = [relay EXCEPT ![w].pc = IF e \in IndexEvents THEN "read"
                                                           ELSE "recalculate",
                            ![w].event = e]
  /\ UNCHANGED <<written, processed, posted, chunks, snapshots, overruns>>

LEMMA ClaimEither ==
  ASSUME Typed, NEW w \in Relays, Claim(w)
  PROVE  Drained(w) \/ \E e \in Events : Claimed(w, e)
<1>1. UNCHANGED <<written, processed, posted, chunks, snapshots, overruns>>
  BY DEF Claim, AfterClaim, stores, limits
<1>2. CASE relay[w].left = 0 \/ Due = {}
  BY <1>1, <1>2 DEF Claim, EndDrain, Drained
<1>3. CASE ~ (relay[w].left = 0 \/ Due = {})
  <2>1. Claimed(w, Min(Due))
    BY <1>1, <1>3, OldestIsDue DEF Claim, PutOff, Claimed
  <2> QED
    BY <1>3, <2>1, OldestIsDue
<1> QED
  BY <1>2, <1>3

HasRead(w, cs) ==
  /\ relay' = [relay EXCEPT ![w].pc = "embed", ![w].chunks = cs]
  /\ UNCHANGED <<written, processed, putOff, posted, chunks, snapshots, overruns>>

LEMMA ReadsACut ==
  ASSUME RelaySound, NEW w \in Relays, ReadThread(w)
  PROVE  \E cs \in Cuts : HasRead(w, cs)
<1>1. relay[w].event \in IndexEvents
  BY DEF ReadThread, RelaySound, WorksOnIt, Indexing
<1>2. Chunks(Text[relay[w].event, posted[relay[w].event]]) \in Cuts
  BY <1>1, AnyTextIsCut DEF RelaySound
<1>3. HasRead(w, Chunks(Text[relay[w].event, posted[relay[w].event]]))
  BY DEF ReadThread, HasRead, delays, stores, limits
<1> QED
  BY <1>2, <1>3

Stored(w) ==
  /\ relay[w].pc = "store"
  /\ relay[w].event \in IndexEvents
  /\ chunks'[relay[w].event] # None
  /\ \A e \in IndexEvents : e # relay[w].event => chunks'[e] = chunks[e]
  /\ chunks' \in [IndexEvents -> Cuts \cup {None}]
  /\ relay' = [relay EXCEPT ![w].pc = "mark"]
  /\ UNCHANGED <<written, processed, putOff, posted, snapshots, overruns>>

Refused(w) ==
  /\ relay[w].pc = "store"
  /\ relay' = [relay EXCEPT ![w].pc = "putoff"]
  /\ UNCHANGED <<written, processed, putOff, posted, chunks, snapshots, overruns>>

LEMMA StoreEither ==
  ASSUME RelaySound, NEW w \in Relays, StoreChunks(w)
  PROVE  Stored(w) \/ Refused(w)
<1>1. /\ relay[w].pc = "store"
      /\ UNCHANGED <<written, processed, putOff, posted, snapshots, overruns>>
  BY DEF StoreChunks, delays, limits
<1>2. relay[w].event \in IndexEvents /\ relay[w].chunks \in Cuts
  BY <1>1 DEF RelaySound, WorksOnIt, Indexing
<1>3. CASE Storable(relay[w].event, relay[w].chunks)
  <2>1. /\ chunks' = [chunks EXCEPT ![relay[w].event] = relay[w].chunks]
        /\ relay' = [relay EXCEPT ![w].pc = "mark"]
    BY <1>3 DEF StoreChunks
  <2>2. relay[w].chunks # None
    BY <1>2, CutsAreNotNone
  <2> QED
    BY <1>1, <1>2, <2>1, <2>2 DEF Stored, RelaySound, Typed
<1>4. CASE ~ Storable(relay[w].event, relay[w].chunks)
  BY <1>1, <1>4 DEF StoreChunks, Refused
<1> QED
  BY <1>3, <1>4

-----------------------------------------------------------------------------
(* It is inductive.                                                         *)

LEMMA TypedStep == RelaySound /\ [Next]_vars => Typed'
<1> SUFFICES ASSUME RelaySound, [Next]_vars PROVE Typed'
  OBVIOUS
<1> USE DEF RelaySound, Typed, RelayState, Steps
<1>1. ASSUME Write PROVE Typed'
  BY <1>1 DEF Write, delays, stores, limits
<1>2. ASSUME NEW e \in IndexEvents, CreatePost(e) PROVE Typed'
  BY <1>2 DEF CreatePost, delays, stores, limits
<1>3. ASSUME Query PROVE Typed'
  BY <1>3 DEF Query, delays, stores, limits
<1>4. ASSUME NEW w \in Relays, Tick(w) PROVE Typed'
  BY <1>4 DEF Tick, Idle, delays, stores, limits
<1>5. ASSUME NEW w \in Relays, Claim(w) PROVE Typed'
  <2>1. CASE Drained(w)
    BY <2>1 DEF Drained, Idle
  <2>2. ASSUME NEW e \in Events, Claimed(w, e) PROVE Typed'
    <3> DEFINE topic == IF e \in IndexEvents THEN "read" ELSE "recalculate"
    <3>1. e \in Nat /\ topic \in Steps
      BY DEF Events
    <3> HIDE DEF topic
    <3>2. [relay[w] EXCEPT !.pc = topic, !.event = e] \in RelayState
      BY <3>1
    <3>3. relay' = [relay EXCEPT ![w] = [@ EXCEPT !.pc = topic, !.event = e]]
      BY <2>2 DEF Claimed, topic
    <3>4. relay' \in [Relays -> RelayState]
      BY <3>2, <3>3
    <3> QED
      BY <2>2, <3>4 DEF Claimed
  <2> QED
    BY <1>5, <2>1, <2>2, ClaimEither
<1>6. ASSUME NEW w \in Relays, ReadThread(w) PROVE Typed'
  <2>1. PICK cs \in Cuts : HasRead(w, cs)
    BY <1>6, ReadsACut
  <2> QED
    BY <2>1 DEF HasRead
<1>7. ASSUME NEW w \in Relays, Embed(w) PROVE Typed'
  BY <1>7 DEF Embed, delays, stores, limits
<1>8. ASSUME NEW w \in Relays, CreateCollection(w) PROVE Typed'
  BY <1>8 DEF CreateCollection, delays, stores, limits
<1>9. ASSUME NEW w \in Relays, IndexPoints(w) PROVE Typed'
  BY <1>9 DEF IndexPoints, delays, stores, limits
<1>10. ASSUME NEW w \in Relays, StoreChunks(w) PROVE Typed'
  <2>1. CASE Stored(w)
    BY <2>1 DEF Stored
  <2>2. CASE Refused(w)
    BY <2>2 DEF Refused
  <2> QED
    BY <1>10, <2>1, <2>2, StoreEither
<1>11. ASSUME NEW w \in Relays, Recalculate(w) PROVE Typed'
  BY <1>11 DEF Recalculate, delays, stores, limits
<1>12. ASSUME NEW w \in Relays, Mark(w) PROVE Typed'
  <2>1. relay[w].event \in Events /\ relay[w].left - 1 \in Nat
    BY <1>12 DEF Mark, WorksOnIt, Working
  <2>2. [Idle EXCEPT !.pc = "claim", !.left = relay[w].left - 1] \in RelayState
    BY <2>1 DEF RelayState, Idle, Steps
  <2>3. relay' \in [Relays -> RelayState]
    BY <1>12, <2>2 DEF Mark, NextRound
  <2> QED
    BY <1>12, <2>1, <2>3 DEF Mark, stores, limits
<1>13. ASSUME NEW w \in Relays, Backoff(w) PROVE Typed'
  <2>1. relay[w].event \in Events /\ relay[w].left - 1 \in Nat
    BY <1>13 DEF Backoff, WorksOnIt, Working
  <2>2. [Idle EXCEPT !.pc = "claim", !.left = relay[w].left - 1] \in RelayState
    BY <2>1 DEF RelayState, Idle, Steps
  <2>3. relay' \in [Relays -> RelayState]
    BY <1>13, <2>2 DEF Backoff, NextRound
  <2> QED
    BY <1>13, <2>1, <2>3 DEF Backoff, stores, limits
<1>14. ASSUME NEW w \in Relays, Fail(w) PROVE Typed'
  BY <1>14 DEF Fail, delays, stores, limits
<1>15. ASSUME NEW w \in Relays, Crash(w) PROVE Typed'
  BY <1>15 DEF Crash, EndDrain, Idle, delays, stores, limits
<1>16. ASSUME NEW e \in Events, BecomeDue(e) PROVE Typed'
  BY <1>16 DEF BecomeDue, MayEnd, delays, stores, limits
<1>17. ASSUME NEW e \in Events, Overrun(e) PROVE Typed'
  BY <1>17 DEF Overrun, delays, stores, limits
<1>18. CASE UNCHANGED vars
  BY <1>18 DEF vars, delays, stores, limits
<1> QED
  BY <1>1, <1>2, <1>3, <1>4, <1>5, <1>6, <1>7, <1>8, <1>9,
     <1>10, <1>11, <1>12, <1>13, <1>14, <1>15, <1>16, <1>17, <1>18 DEF Next, Work

LEMMA WorksStep == RelaySound /\ [Next]_vars => WorksOnIt'
<1> SUFFICES ASSUME RelaySound, [Next]_vars PROVE WorksOnIt'
  OBVIOUS
<1> USE DEF RelaySound, Typed, RelayState, Steps, WorksOnIt, Working, Indexing
<1>1. ASSUME Write PROVE WorksOnIt'
  BY <1>1 DEF Write, delays, stores, limits
<1>2. ASSUME NEW e \in IndexEvents, CreatePost(e) PROVE WorksOnIt'
  BY <1>2 DEF CreatePost, delays, stores, limits
<1>3. ASSUME Query PROVE WorksOnIt'
  BY <1>3 DEF Query, delays, stores, limits
<1>4. ASSUME NEW w \in Relays, Tick(w) PROVE WorksOnIt'
  BY <1>4 DEF Tick, Idle, delays, stores, limits
<1>5. ASSUME NEW w \in Relays, Claim(w) PROVE WorksOnIt'
  <2>1. CASE Drained(w)
    BY <2>1 DEF Drained, Idle
  <2>2. ASSUME NEW e \in Events, Claimed(w, e) PROVE WorksOnIt'
    BY <2>2 DEF Claimed, Events
  <2> QED
    BY <1>5, <2>1, <2>2, ClaimEither
<1>6. ASSUME NEW w \in Relays, ReadThread(w) PROVE WorksOnIt'
  <2>1. PICK cs \in Cuts : HasRead(w, cs)
    BY <1>6, ReadsACut
  <2>2. relay[w].pc = "read"
    BY <1>6 DEF ReadThread
  <2>3. relay'[w] = [relay[w] EXCEPT !.pc = "embed", !.chunks = cs]
    BY <2>1 DEF HasRead
  <2>4. \A v \in Relays \ {w} : relay'[v] = relay[v]
    BY <2>1 DEF HasRead
  <2>5. ASSUME NEW v \in Relays
        PROVE  /\ Working(v)' => relay'[v].event \in Events /\ relay'[v].left # 0
               /\ relay'[v].pc \in Indexing => relay'[v].event \in IndexEvents
               /\ relay'[v].pc \in Indexing \ {"read"} => relay'[v].chunks \in Cuts
               /\ relay'[v].pc = "recalculate" => relay'[v].event \notin IndexEvents
    <3>1. CASE v = w
      BY <2>2, <2>3, <3>1
    <3>2. CASE v # w
      BY <2>4, <3>2
    <3> QED
      BY <3>1, <3>2
  <2> QED
    BY <2>5
<1>7. ASSUME NEW w \in Relays, Embed(w) PROVE WorksOnIt'
  BY <1>7 DEF Embed, delays, stores, limits
<1>8. ASSUME NEW w \in Relays, CreateCollection(w) PROVE WorksOnIt'
  BY <1>8 DEF CreateCollection, delays, stores, limits
<1>9. ASSUME NEW w \in Relays, IndexPoints(w) PROVE WorksOnIt'
  BY <1>9 DEF IndexPoints, delays, stores, limits
<1>10. ASSUME NEW w \in Relays, StoreChunks(w) PROVE WorksOnIt'
  <2>1. CASE Stored(w)
    BY <2>1 DEF Stored
  <2>2. CASE Refused(w)
    BY <2>2 DEF Refused
  <2> QED
    BY <1>10, <2>1, <2>2, StoreEither
<1>11. ASSUME NEW w \in Relays, Recalculate(w) PROVE WorksOnIt'
  BY <1>11 DEF Recalculate, delays, stores, limits
<1>12. ASSUME NEW w \in Relays, Mark(w) PROVE WorksOnIt'
  BY <1>12 DEF Mark, NextRound, Idle, delays, stores, limits
<1>13. ASSUME NEW w \in Relays, Backoff(w) PROVE WorksOnIt'
  BY <1>13 DEF Backoff, NextRound, Idle, PutOff, delays, stores, limits
<1>14. ASSUME NEW w \in Relays, Fail(w) PROVE WorksOnIt'
  BY <1>14 DEF Fail, delays, stores, limits
<1>15. ASSUME NEW w \in Relays, Crash(w) PROVE WorksOnIt'
  BY <1>15 DEF Crash, EndDrain, Idle, delays, stores, limits
<1>16. ASSUME NEW e \in Events, BecomeDue(e) PROVE WorksOnIt'
  BY <1>16 DEF BecomeDue, MayEnd, delays, stores, limits
<1>17. ASSUME NEW e \in Events, Overrun(e) PROVE WorksOnIt'
  BY <1>17 DEF Overrun, delays, stores, limits
<1>18. CASE UNCHANGED vars
  BY <1>18 DEF vars, delays, stores, limits
<1> QED
  BY <1>1, <1>2, <1>3, <1>4, <1>5, <1>6, <1>7, <1>8, <1>9,
     <1>10, <1>11, <1>12, <1>13, <1>14, <1>15, <1>16, <1>17, <1>18 DEF Next, Work

LEMMA MarksStep == RelaySound /\ [Next]_vars => MarksWhatIsDone'
<1> SUFFICES ASSUME RelaySound, [Next]_vars PROVE MarksWhatIsDone'
  OBVIOUS
<1> USE DEF RelaySound, Typed, RelayState, Steps, WorksOnIt, Working, Indexing,
           MarksWhatIsDone, Done
<1>1. ASSUME Write PROVE MarksWhatIsDone'
  BY <1>1 DEF Write, delays, stores, limits
<1>2. ASSUME NEW e \in IndexEvents, CreatePost(e) PROVE MarksWhatIsDone'
  BY <1>2 DEF CreatePost, delays, stores, limits
<1>3. ASSUME Query PROVE MarksWhatIsDone'
  BY <1>3 DEF Query, delays, stores, limits
<1>4. ASSUME NEW w \in Relays, Tick(w) PROVE MarksWhatIsDone'
  BY <1>4 DEF Tick, Idle, delays, stores, limits
<1>5. ASSUME NEW w \in Relays, Claim(w) PROVE MarksWhatIsDone'
  <2>1. CASE Drained(w)
    BY <2>1 DEF Drained, Idle
  <2>2. ASSUME NEW e \in Events, Claimed(w, e) PROVE MarksWhatIsDone'
    BY <2>2 DEF Claimed, Events
  <2> QED
    BY <1>5, <2>1, <2>2, ClaimEither
<1>6. ASSUME NEW w \in Relays, ReadThread(w) PROVE MarksWhatIsDone'
  <2>1. PICK cs \in Cuts : HasRead(w, cs)
    BY <1>6, ReadsACut
  <2> QED
    BY <2>1 DEF HasRead
<1>7. ASSUME NEW w \in Relays, Embed(w) PROVE MarksWhatIsDone'
  BY <1>7 DEF Embed, delays, stores, limits
<1>8. ASSUME NEW w \in Relays, CreateCollection(w) PROVE MarksWhatIsDone'
  BY <1>8 DEF CreateCollection, delays, stores, limits
<1>9. ASSUME NEW w \in Relays, IndexPoints(w) PROVE MarksWhatIsDone'
  BY <1>9 DEF IndexPoints, delays, stores, limits
<1>10. ASSUME NEW w \in Relays, StoreChunks(w) PROVE MarksWhatIsDone'
  <2>1. CASE Stored(w)
    BY <2>1 DEF Stored
  <2>2. CASE Refused(w)
    BY <2>2 DEF Refused
  <2> QED
    BY <1>10, <2>1, <2>2, StoreEither
<1>11. ASSUME NEW w \in Relays, Recalculate(w) PROVE MarksWhatIsDone'
  BY <1>11 DEF Recalculate, delays, stores, limits
<1>12. ASSUME NEW w \in Relays, Mark(w) PROVE MarksWhatIsDone'
  BY <1>12 DEF Mark, NextRound, Idle, delays, stores, limits
<1>13. ASSUME NEW w \in Relays, Backoff(w) PROVE MarksWhatIsDone'
  BY <1>13 DEF Backoff, NextRound, Idle, PutOff, delays, stores, limits
<1>14. ASSUME NEW w \in Relays, Fail(w) PROVE MarksWhatIsDone'
  BY <1>14 DEF Fail, delays, stores, limits
<1>15. ASSUME NEW w \in Relays, Crash(w) PROVE MarksWhatIsDone'
  BY <1>15 DEF Crash, EndDrain, Idle, delays, stores, limits
<1>16. ASSUME NEW e \in Events, BecomeDue(e) PROVE MarksWhatIsDone'
  BY <1>16 DEF BecomeDue, MayEnd, delays, stores, limits
<1>17. ASSUME NEW e \in Events, Overrun(e) PROVE MarksWhatIsDone'
  BY <1>17 DEF Overrun, delays, stores, limits
<1>18. CASE UNCHANGED vars
  BY <1>18 DEF vars, delays, stores, limits
<1> QED
  BY <1>1, <1>2, <1>3, <1>4, <1>5, <1>6, <1>7, <1>8, <1>9,
     <1>10, <1>11, <1>12, <1>13, <1>14, <1>15, <1>16, <1>17, <1>18 DEF Next, Work

LEMMA DoneStep == RelaySound /\ [Next]_vars => ProcessedWasDone'
<1> SUFFICES ASSUME RelaySound, [Next]_vars PROVE ProcessedWasDone'
  OBVIOUS
<1> USE DEF RelaySound, Typed, WorksOnIt, Indexing, ProcessedWasDone
<1>1. ASSUME Write PROVE ProcessedWasDone'
  BY <1>1 DEF Write, delays, stores, limits
<1>2. ASSUME NEW e \in IndexEvents, CreatePost(e) PROVE ProcessedWasDone'
  BY <1>2 DEF CreatePost, delays, stores, limits
<1>3. ASSUME Query PROVE ProcessedWasDone'
  BY <1>3 DEF Query, delays, stores, limits
<1>4. ASSUME NEW w \in Relays, Tick(w) PROVE ProcessedWasDone'
  BY <1>4 DEF Tick, Idle, delays, stores, limits
<1>5. ASSUME NEW w \in Relays, Claim(w) PROVE ProcessedWasDone'
  <2>1. CASE Drained(w)
    BY <2>1 DEF Drained, Idle
  <2>2. ASSUME NEW e \in Events, Claimed(w, e) PROVE ProcessedWasDone'
    BY <2>2 DEF Claimed, Events
  <2> QED
    BY <1>5, <2>1, <2>2, ClaimEither
<1>6. ASSUME NEW w \in Relays, ReadThread(w) PROVE ProcessedWasDone'
  <2>1. PICK cs \in Cuts : HasRead(w, cs)
    BY <1>6, ReadsACut
  <2> QED
    BY <2>1 DEF HasRead
<1>7. ASSUME NEW w \in Relays, Embed(w) PROVE ProcessedWasDone'
  BY <1>7 DEF Embed, delays, stores, limits
<1>8. ASSUME NEW w \in Relays, CreateCollection(w) PROVE ProcessedWasDone'
  BY <1>8 DEF CreateCollection, delays, stores, limits
<1>9. ASSUME NEW w \in Relays, IndexPoints(w) PROVE ProcessedWasDone'
  BY <1>9 DEF IndexPoints, delays, stores, limits
<1>10. ASSUME NEW w \in Relays, StoreChunks(w) PROVE ProcessedWasDone'
  <2>1. CASE Stored(w)
    BY <2>1 DEF Stored
  <2>2. CASE Refused(w)
    BY <2>2 DEF Refused
  <2> QED
    BY <1>10, <2>1, <2>2, StoreEither
<1>11. ASSUME NEW w \in Relays, Recalculate(w) PROVE ProcessedWasDone'
  BY <1>11 DEF Recalculate, delays, stores, limits
<1>12. ASSUME NEW w \in Relays, Mark(w) PROVE ProcessedWasDone'
  <2>1. Done(relay[w].event)
    BY <1>12 DEF Mark, MarksWhatIsDone
  <2> QED
    BY <1>12, <2>1 DEF Mark, Done, stores
<1>13. ASSUME NEW w \in Relays, Backoff(w) PROVE ProcessedWasDone'
  BY <1>13 DEF Backoff, NextRound, Idle, PutOff, delays, stores, limits
<1>14. ASSUME NEW w \in Relays, Fail(w) PROVE ProcessedWasDone'
  BY <1>14 DEF Fail, delays, stores, limits
<1>15. ASSUME NEW w \in Relays, Crash(w) PROVE ProcessedWasDone'
  BY <1>15 DEF Crash, EndDrain, Idle, delays, stores, limits
<1>16. ASSUME NEW e \in Events, BecomeDue(e) PROVE ProcessedWasDone'
  BY <1>16 DEF BecomeDue, MayEnd, delays, stores, limits
<1>17. ASSUME NEW e \in Events, Overrun(e) PROVE ProcessedWasDone'
  BY <1>17 DEF Overrun, delays, stores, limits
<1>18. CASE UNCHANGED vars
  BY <1>18 DEF vars, delays, stores, limits
<1> QED
  BY <1>1, <1>2, <1>3, <1>4, <1>5, <1>6, <1>7, <1>8, <1>9,
     <1>10, <1>11, <1>12, <1>13, <1>14, <1>15, <1>16, <1>17, <1>18 DEF Next, Work

LEMMA HeldStep == RelaySound /\ [Next]_vars => HeldIsPutOff'
<1> SUFFICES ASSUME RelaySound, [Next]_vars PROVE HeldIsPutOff'
  OBVIOUS
<1> USE DEF RelaySound, Typed, RelayState, Steps, HeldIsPutOff, WorksOnIt, Working, HeldBy
<1>1. ASSUME Write PROVE HeldIsPutOff'
  BY <1>1 DEF Write, delays, stores, limits
<1>2. ASSUME NEW e \in IndexEvents, CreatePost(e) PROVE HeldIsPutOff'
  BY <1>2 DEF CreatePost, delays, stores, limits
<1>3. ASSUME Query PROVE HeldIsPutOff'
  BY <1>3 DEF Query, delays, stores, limits
<1>4. ASSUME NEW w \in Relays, Tick(w) PROVE HeldIsPutOff'
  BY <1>4 DEF Tick, Idle, delays, stores, limits
<1>5. ASSUME NEW w \in Relays, Claim(w) PROVE HeldIsPutOff'
  <2>1. CASE Drained(w)
    BY <2>1 DEF Drained, Idle, Due
  <2>2. ASSUME NEW e \in Events, Claimed(w, e) PROVE HeldIsPutOff'
    BY <2>2 DEF Claimed, Due
  <2> QED
    BY <1>5, <2>1, <2>2, ClaimEither
<1>6. ASSUME NEW w \in Relays, ReadThread(w) PROVE HeldIsPutOff'
  <2>1. PICK cs \in Cuts : HasRead(w, cs)
    BY <1>6, ReadsACut
  <2>2. relay[w].pc = "read"
    BY <1>6 DEF ReadThread
  <2>3. \A v \in Relays : Working(v)' <=> Working(v)
    BY <2>1, <2>2 DEF HasRead
  <2>4. \A v \in Relays : relay'[v].event = relay[v].event
    BY <2>1 DEF HasRead
  <2> QED
    BY <2>1, <2>3, <2>4 DEF HasRead
<1>7. ASSUME NEW w \in Relays, Embed(w) PROVE HeldIsPutOff'
  BY <1>7 DEF Embed, delays, stores, limits
<1>8. ASSUME NEW w \in Relays, CreateCollection(w) PROVE HeldIsPutOff'
  BY <1>8 DEF CreateCollection, delays, stores, limits
<1>9. ASSUME NEW w \in Relays, IndexPoints(w) PROVE HeldIsPutOff'
  BY <1>9 DEF IndexPoints, delays, stores, limits
<1>10. ASSUME NEW w \in Relays, StoreChunks(w) PROVE HeldIsPutOff'
  <2>1. CASE Stored(w)
    BY <2>1 DEF Stored
  <2>2. CASE Refused(w)
    BY <2>2 DEF Refused
  <2> QED
    BY <1>10, <2>1, <2>2, StoreEither
<1>11. ASSUME NEW w \in Relays, Recalculate(w) PROVE HeldIsPutOff'
  BY <1>11 DEF Recalculate, delays, stores, limits
<1>12. ASSUME NEW w \in Relays, Mark(w) PROVE HeldIsPutOff'
  BY <1>12 DEF Mark, NextRound, Idle, delays, stores, limits
<1>13. ASSUME NEW w \in Relays, Backoff(w) PROVE HeldIsPutOff'
  BY <1>13 DEF Backoff, NextRound, Idle, PutOff, delays, stores, limits
<1>14. ASSUME NEW w \in Relays, Fail(w) PROVE HeldIsPutOff'
  BY <1>14 DEF Fail, delays, stores, limits
<1>15. ASSUME NEW w \in Relays, Crash(w) PROVE HeldIsPutOff'
  BY <1>15 DEF Crash, EndDrain, Idle, delays, stores, limits
<1>16. ASSUME NEW e \in Events, BecomeDue(e) PROVE HeldIsPutOff'
  BY <1>16 DEF BecomeDue, MayEnd, delays, stores, limits
<1>17. ASSUME NEW e \in Events, Overrun(e) PROVE HeldIsPutOff'
  BY <1>17 DEF Overrun, delays, stores, limits
<1>18. CASE UNCHANGED vars
  BY <1>18 DEF vars, delays, stores, limits
<1> QED
  BY <1>1, <1>2, <1>3, <1>4, <1>5, <1>6, <1>7, <1>8, <1>9,
     <1>10, <1>11, <1>12, <1>13, <1>14, <1>15, <1>16, <1>17, <1>18 DEF Next, Work

-----------------------------------------------------------------------------
(* The stores: what a relay fetched was cut from a text that the thread has *)
(* had, and what is stored, or about to be, has its points.                 *)

Fetched == {"embed", "create", "index", "store"}

CutFrom(e, cs) == \E n \in 0 .. posted[e] : cs = Chunks(Text[e, n])
HasPoints(e, cs) ==
  \A c \in ToSet(cs) : [hash |-> c, vector |-> c] \in points[e]

IndexSound ==
  /\ DOMAIN points = IndexEvents
  /\ \A e \in IndexEvents :
       chunks[e] # None => CutFrom(e, chunks[e]) /\ HasPoints(e, chunks[e])
  /\ \A w \in Relays :
       /\ relay[w].pc \in Fetched => CutFrom(relay[w].event, relay[w].chunks)
       /\ relay[w].pc = "store" => HasPoints(relay[w].event, relay[w].chunks)

(* Which steps touch the stores, and what a relay with fetched chunks did.  *)
Carries(w) ==
  \/ relay'[w].pc \notin Fetched
  \/ relay'[w] = relay[w]
  \/ ReadThread(w)
  \/ /\ relay[w].pc \in Fetched
     /\ relay'[w].event = relay[w].event /\ relay'[w].chunks = relay[w].chunks
     /\ relay'[w].pc = "store" => IndexPoints(w)

IndexStep ==
  /\ \A e \in IndexEvents : posted'[e] \in {posted[e], posted[e] + 1}
  /\ points' = points \/ \E w \in Relays : IndexPoints(w)
  /\ chunks' = chunks \/ \E w \in Relays : StoreChunks(w)
  /\ \A w \in Relays : Carries(w)

LEMMA StepsOfTheIndex == RelaySound /\ [Next]_vars => IndexStep
<1> SUFFICES ASSUME RelaySound, [Next]_vars PROVE IndexStep
  OBVIOUS
<1> USE DEF RelaySound, Typed, RelayState, Fetched, IndexStep, Carries
<1>1. ASSUME Write PROVE IndexStep
  BY <1>1 DEF Write, delays, stores, limits
<1>2. ASSUME NEW e \in IndexEvents, CreatePost(e) PROVE IndexStep
  BY <1>2 DEF CreatePost, delays, stores, limits
<1>3. ASSUME Query PROVE IndexStep
  BY <1>3 DEF Query, delays, stores, limits
<1>4. ASSUME NEW w \in Relays, Tick(w) PROVE IndexStep
  BY <1>4 DEF Tick, Idle, delays, stores, limits
<1>5. ASSUME NEW w \in Relays, Claim(w) PROVE IndexStep
  <2>1. UNCHANGED <<posted, points, chunks>>
    BY <1>5 DEF Claim, stores
  <2>2. CASE Drained(w)
    BY <2>1, <2>2 DEF Drained, Idle
  <2>3. ASSUME NEW e \in Events, Claimed(w, e) PROVE IndexStep
    BY <2>1, <2>3 DEF Claimed
  <2> QED
    BY <1>5, <2>2, <2>3, ClaimEither
<1>6. ASSUME NEW w \in Relays, ReadThread(w) PROVE IndexStep
  <2>1. UNCHANGED <<posted, points, chunks>>
    BY <1>6 DEF ReadThread, stores
  <2>2. \A v \in Relays \ {w} : relay'[v] = relay[v]
    BY <1>6 DEF ReadThread
  <2> QED
    BY <1>6, <2>1, <2>2
<1>7. ASSUME NEW w \in Relays, Embed(w) PROVE IndexStep
  BY <1>7 DEF Embed, delays, stores, limits
<1>8. ASSUME NEW w \in Relays, CreateCollection(w) PROVE IndexStep
  BY <1>8 DEF CreateCollection, delays, stores, limits
<1>9. ASSUME NEW w \in Relays, IndexPoints(w) PROVE IndexStep
  <2>1. UNCHANGED <<posted, chunks>> /\ relay[w].pc = "index"
    BY <1>9 DEF IndexPoints
  <2>2. relay' = [relay EXCEPT ![w].pc = "store"]
    BY <1>9 DEF IndexPoints
  <2> QED
    BY <1>9, <2>1, <2>2
<1>10. ASSUME NEW w \in Relays, StoreChunks(w) PROVE IndexStep
  <2>1. UNCHANGED <<posted, points>>
    BY <1>10 DEF StoreChunks
  <2>2. \/ relay' = [relay EXCEPT ![w].pc = "mark"]
        \/ relay' = [relay EXCEPT ![w].pc = "putoff"]
    BY <1>10 DEF StoreChunks
  <2> QED
    BY <1>10, <2>1, <2>2
<1>11. ASSUME NEW w \in Relays, Recalculate(w) PROVE IndexStep
  BY <1>11 DEF Recalculate, delays, stores, limits
<1>12. ASSUME NEW w \in Relays, Mark(w) PROVE IndexStep
  BY <1>12 DEF Mark, NextRound, Idle, delays, stores, limits
<1>13. ASSUME NEW w \in Relays, Backoff(w) PROVE IndexStep
  BY <1>13 DEF Backoff, NextRound, Idle, PutOff, delays, stores, limits
<1>14. ASSUME NEW w \in Relays, Fail(w) PROVE IndexStep
  BY <1>14 DEF Fail, delays, stores, limits
<1>15. ASSUME NEW w \in Relays, Crash(w) PROVE IndexStep
  BY <1>15 DEF Crash, EndDrain, Idle, delays, stores, limits
<1>16. ASSUME NEW e \in Events, BecomeDue(e) PROVE IndexStep
  BY <1>16 DEF BecomeDue, MayEnd, delays, stores, limits
<1>17. ASSUME NEW e \in Events, Overrun(e) PROVE IndexStep
  BY <1>17 DEF Overrun, delays, stores, limits
<1>18. CASE UNCHANGED vars
  BY <1>18 DEF vars, delays, stores, limits
<1> QED
  BY <1>1, <1>2, <1>3, <1>4, <1>5, <1>6, <1>7, <1>8, <1>9,
     <1>10, <1>11, <1>12, <1>13, <1>14, <1>15, <1>16, <1>17, <1>18 DEF Next, Work

LEMMA PostsCounted ==
  ASSUME Typed, NEW e \in IndexEvents
  PROVE  posted[e] \in Nat /\ 0 .. posted[e] \subseteq 0 .. MaxPosts
<1>1. posted[e] \in 0 .. MaxPosts
  BY DEF Typed
<1>2. MaxPosts \in Nat
  BY RelayAssumption
<1> QED
  BY <1>1, <1>2

LEMMA CutsStay ==
  ASSUME RelaySound, IndexStep, NEW e \in IndexEvents, NEW cs, CutFrom(e, cs)
  PROVE  CutFrom(e, cs)'
<1>1. PICK n \in 0 .. posted[e] : cs = Chunks(Text[e, n])
  BY DEF CutFrom
<1>2. posted[e] \in Nat /\ posted'[e] \in {posted[e], posted[e] + 1}
  BY PostsCounted DEF IndexStep, RelaySound
<1>3. n \in 0 .. posted'[e]
  BY <1>2
<1> QED
  BY <1>1, <1>3 DEF CutFrom

(* Upserting gives every chunk a point with its own vector, ...             *)
LEMMA UpsertGivesPoints ==
  ASSUME IndexSound, RelaySound, NEW w \in Relays, IndexPoints(w)
  PROVE  /\ DOMAIN points' = IndexEvents
         /\ \A e \in IndexEvents : e # relay[w].event => points'[e] = points[e]
         /\ relay[w].event \in IndexEvents
         /\ points'[relay[w].event] =
              {p \in points[relay[w].event] : p.hash \notin ToSet(relay[w].chunks)}
                \cup {[hash |-> c, vector |-> c] : c \in ToSet(relay[w].chunks)}
<1> DEFINE e == relay[w].event
           cs == relay[w].chunks
<1>1. e \in IndexEvents /\ CutFrom(e, cs)
  BY DEF IndexPoints, RelaySound, WorksOnIt, Indexing, IndexSound, Fetched
<1>2. PICK i \in DOMAIN Text : cs = Chunks(Text[i])
  <2>1. PICK n \in 0 .. posted[e] : cs = Chunks(Text[e, n])
    BY <1>1 DEF CutFrom
  <2>2. n \in 0 .. MaxPosts
    BY <1>1, <2>1, PostsCounted DEF RelaySound
  <2>3. <<e, n>> \in DOMAIN Text
    BY <1>1, <2>2, TextAssumption
  <2> QED
    BY <2>1, <2>3
<1>3. \E n \in Nat : DOMAIN cs = 1 .. n
  <2>1. Text[i] \in Seq(ToSet(Text[i]))
    BY TextAssumption
  <2>2. PICK n \in 0 .. Len(Text[i]) : Ordinals(Text[i]) = 1 .. n
    BY <2>1, NumberedChunks
  <2>3. n \in Nat
    BY <2>1, LenProperties
  <2> QED
    BY <1>2, <2>1, <2>2, <2>3, Cut
<1>4. PICK data \in Answers(cs) :
             points' = [points EXCEPT ![e] = Upsert(@, cs, Vectors(data))]
  BY DEF IndexPoints
<1>5. \A k \in DOMAIN cs : Vectors(data)[k] = cs[k]
  BY <1>3, SortedByIndex
<1>6. Upsert(points[e], cs, Vectors(data)) =
        {p \in points[e] : p.hash \notin ToSet(cs)}
          \cup {[hash |-> c, vector |-> c] : c \in ToSet(cs)}
  <2>1. {[hash |-> cs[k], vector |-> Vectors(data)[k]] : k \in DOMAIN cs}
          = {[hash |-> c, vector |-> c] : c \in ToSet(cs)}
    BY <1>5 DEF ToSet
  <2> QED
    BY <2>1 DEF Upsert
<1> QED
  BY <1>1, <1>4, <1>6 DEF IndexSound

(* ... and takes such a point from none.                                    *)
LEMMA PointsStay ==
  ASSUME RelaySound, IndexSound, IndexStep,
         NEW e \in IndexEvents, NEW cs, HasPoints(e, cs)
  PROVE  HasPoints(e, cs)'
<1>1. CASE points' = points
  BY <1>1 DEF HasPoints
<1>2. ASSUME NEW w \in Relays, IndexPoints(w) PROVE HasPoints(e, cs)'
  <2>1. CASE e # relay[w].event
    BY <1>2, <2>1, UpsertGivesPoints DEF HasPoints
  <2>2. CASE e = relay[w].event
    <3> SUFFICES ASSUME NEW c \in ToSet(cs)
                 PROVE  [hash |-> c, vector |-> c] \in points'[e]
      BY DEF HasPoints
    <3>1. [hash |-> c, vector |-> c] \in points[e]
      BY DEF HasPoints
    <3> QED
      BY <1>2, <2>2, <3>1, UpsertGivesPoints
  <2> QED
    BY <2>1, <2>2
<1> QED
  BY <1>1, <1>2 DEF IndexStep

LEMMA IndexSoundStep == RelaySound /\ IndexSound /\ [Next]_vars => IndexSound'
<1> SUFFICES ASSUME RelaySound, IndexSound, [Next]_vars PROVE IndexSound'
  OBVIOUS
<1>0. IndexStep
  BY StepsOfTheIndex
<1>1. DOMAIN points' = IndexEvents
  BY <1>0, UpsertGivesPoints DEF IndexStep, IndexSound
<1>2. ASSUME NEW e \in IndexEvents, chunks'[e] # None
      PROVE  CutFrom(e, chunks[e])' /\ HasPoints(e, chunks[e])'
  <2>1. CASE chunks'[e] = chunks[e]
    <3>1. CutFrom(e, chunks[e]) /\ HasPoints(e, chunks[e])
      BY <1>2, <2>1 DEF IndexSound
    <3> QED
      BY <1>0, <2>1, <3>1, CutsStay, PointsStay DEF CutFrom, HasPoints
  <2>2. ASSUME NEW w \in Relays, StoreChunks(w), chunks'[e] # chunks[e]
        PROVE  CutFrom(e, chunks[e])' /\ HasPoints(e, chunks[e])'
    <3>1. /\ relay[w].pc = "store" /\ e = relay[w].event
          /\ chunks'[e] = relay[w].chunks
      BY <2>2 DEF StoreChunks, RelaySound, Typed
    <3>2. PICK cs : cs = relay[w].chunks
      OBVIOUS
    <3>3. CutFrom(e, cs) /\ HasPoints(e, cs)
      BY <3>1, <3>2 DEF IndexSound, Fetched
    <3>4. CutFrom(e, cs)' /\ HasPoints(e, cs)'
      BY <1>0, <3>3, CutsStay, PointsStay
    <3> QED
      BY <3>1, <3>2, <3>4 DEF CutFrom, HasPoints
  <2> QED
    BY <1>0, <2>1, <2>2 DEF IndexStep
<1>3. ASSUME NEW w \in Relays, relay'[w].pc \in Fetched
      PROVE  /\ CutFrom(relay[w].event, relay[w].chunks)'
             /\ relay'[w].pc = "store" => HasPoints(relay[w].event, relay[w].chunks)'
  <2>1. CASE relay'[w] = relay[w]
    <3>1. relay[w].event \in IndexEvents
      BY <1>3, <2>1 DEF RelaySound, WorksOnIt, Indexing, Fetched
    <3>2. /\ CutFrom(relay[w].event, relay[w].chunks)
          /\ relay[w].pc = "store" => HasPoints(relay[w].event, relay[w].chunks)
      BY <1>3, <2>1 DEF IndexSound
    <3> QED
      BY <1>0, <2>1, <3>1, <3>2, CutsStay, PointsStay DEF CutFrom, HasPoints
  <2>2. CASE ReadThread(w)
    <3>1. PICK e \in IndexEvents : e = relay[w].event
      BY <2>2 DEF ReadThread, RelaySound, WorksOnIt, Indexing
    <3>2. PICK cs : cs = Chunks(Text[e, posted[e]])
      OBVIOUS
    <3>3. /\ relay'[w].pc = "embed" /\ relay'[w].event = e
          /\ relay'[w].chunks = cs
      <4>1. relay'[w] = [relay[w] EXCEPT !.pc = "embed",
                                         !.chunks = Chunks(Text[e, posted[e]])]
        BY <2>2, <3>1 DEF ReadThread, RelaySound, Typed
      <4>2. relay[w] \in RelayState
        BY DEF RelaySound, Typed
      <4> QED
        BY <3>1, <3>2, <4>1, <4>2 DEF RelayState
    <3>4. posted[e] \in 0 .. posted[e]
      BY PostsCounted DEF RelaySound
    <3>5. CutFrom(e, cs)
      BY <3>2, <3>4 DEF CutFrom
    <3>6. CutFrom(e, cs)'
      BY <1>0, <3>5, CutsStay
    <3> QED
      BY <3>3, <3>6 DEF CutFrom
  <2>3. CASE /\ relay[w].pc \in Fetched
             /\ relay'[w].event = relay[w].event /\ relay'[w].chunks = relay[w].chunks
             /\ relay'[w].pc = "store" => IndexPoints(w)
    <3>1. relay[w].event \in IndexEvents
      BY <2>3 DEF RelaySound, WorksOnIt, Indexing, Fetched
    <3>2. CutFrom(relay[w].event, relay[w].chunks)'
      <4>1. CutFrom(relay[w].event, relay[w].chunks)
        BY <2>3 DEF IndexSound
      <4> QED
        BY <1>0, <2>3, <3>1, <4>1, CutsStay DEF CutFrom
    <3>3. ASSUME relay'[w].pc = "store"
          PROVE  HasPoints(relay[w].event, relay[w].chunks)'
      BY <2>3, <3>3, UpsertGivesPoints DEF HasPoints
    <3> QED
      BY <3>2, <3>3
  <2> QED
    BY <1>0, <1>3, <2>1, <2>2, <2>3 DEF IndexStep, Carries
<1>4. ASSUME NEW w \in Relays
      PROVE  /\ relay'[w].pc \in Fetched => CutFrom(relay[w].event, relay[w].chunks)'
             /\ relay'[w].pc = "store" => HasPoints(relay[w].event, relay[w].chunks)'
  BY <1>3 DEF Fetched
<1> QED
  BY <1>1, <1>2, <1>4 DEF IndexSound

-----------------------------------------------------------------------------
(* The theorems.                                                            *)

LEMMA SoundInit == Init => RelaySound
<1> SUFFICES ASSUME Init PROVE RelaySound
  OBVIOUS
<1>1. Idle \in RelayState /\ \A w \in Relays : relay[w] = Idle
  BY DEF Init, Idle, RelayState, Steps
<1>2. Typed
  <2>1. relay \in [Relays -> RelayState]
    BY <1>1 DEF Init
  <2> QED
    BY <2>1 DEF Init, Typed
<1>3. WorksOnIt /\ MarksWhatIsDone /\ HeldIsPutOff
  BY <1>1 DEF Idle, WorksOnIt, Working, Indexing, MarksWhatIsDone, HeldIsPutOff
<1>4. ProcessedWasDone
  BY DEF Init, ProcessedWasDone
<1> QED
  BY <1>2, <1>3, <1>4 DEF RelaySound

(* The inductive invariant: what relays work on and are about to mark.      *)
THEOREM RelaySoundAlways == Spec => []RelaySound
<1>1. RelaySound /\ [Next]_vars => RelaySound'
  BY TypedStep, WorksStep, MarksStep, DoneStep, HeldStep DEF RelaySound
<1> QED
  BY <1>1, SoundInit, PTL DEF Spec

(* An event is marked as processed only when its work was done, through     *)
(* failures, crashes and leases that end too early (drain 44-74).           *)
THEOREM ProcessedAlwaysDone == Spec => []ProcessedWasDone
<1>1. RelaySound => ProcessedWasDone
  BY DEF RelaySound
<1> QED
  BY <1>1, RelaySoundAlways, PTL

(* As long as no lease ends too early, two relays never work on the same    *)
(* event (claimOne).                                                        *)
THEOREM NeverTwoRelaysPerEvent == Spec => []OneRelayPerEvent
<1>1. RelaySound => OneRelayPerEvent
  <2> SUFFICES ASSUME RelaySound, overruns = 0, NEW e \in Events
               PROVE  Cardinality(HeldBy(e)) <= 1
    BY DEF OneRelayPerEvent
  <2>1. \A v, w \in HeldBy(e) : v = w
    BY DEF RelaySound, HeldIsPutOff, HeldBy
  <2>2. CASE HeldBy(e) = {}
    BY <2>2, FS_EmptySet
  <2>3. CASE HeldBy(e) # {}
    <3>1. PICK w \in HeldBy(e) : TRUE
      BY <2>3
    <3>2. HeldBy(e) = {w}
      BY <2>1, <3>1
    <3>3. Cardinality({w}) = 1
      BY FS_Singleton
    <3> QED
      BY <3>2, <3>3
  <2> QED
    BY <2>2, <2>3
<1> QED
  BY <1>1, RelaySoundAlways, PTL
-----------------------------------------------------------------------------
(* Theorems about what is stored.                                           *)

LEMMA IndexSoundInit == Init => IndexSound
BY DEF Init, Idle, IndexSound, Fetched

(* The inductive invariant of the stores, next to RelaySound: a relay       *)
(* carries chunks of a text that the thread has had, and has given them     *)
(* their points before it stores them (indexResolvedThread).                *)
THEOREM IndexSoundAlways == Spec => []IndexSound
<1>1. RelaySound /\ IndexSound /\ [Next]_vars => IndexSound'
  BY IndexSoundStep
<1> QED
  BY <1>1, IndexSoundInit, RelaySoundAlways, PTL DEF Spec

(* Every chunk that PostgreSQL knows has its point, which carries its own   *)
(* embedding, whichever relay wrote last to which store and in whatever     *)
(* order the provider answered (indexResolvedThread, embed).                *)
THEOREM ChunksAlwaysHavePoints == Spec => []ChunksHavePoints
<1>1. IndexSound => ChunksHavePoints
  BY DEF IndexSound, ChunksHavePoints, HasPoints
<1> QED
  BY <1>1, IndexSoundAlways, PTL

(* So the stored chunks of a thread make up a text that it has had.         *)
THEOREM ChunksAlwaysMakeUpTheText == Spec => []ChunksMakeUpTheText
<1>1. RelaySound /\ IndexSound => ChunksMakeUpTheText
  <2> SUFFICES ASSUME RelaySound, IndexSound,
                      NEW e \in IndexEvents, chunks[e] # None
               PROVE  \E n \in 0 .. posted[e] : Reassembled(chunks[e]) = Text[e, n]
    BY DEF ChunksMakeUpTheText
  <2>1. PICK n \in 0 .. posted[e] : chunks[e] = Chunks(Text[e, n])
    BY DEF IndexSound, CutFrom
  <2>2. n \in 0 .. MaxPosts
    BY <2>1, PostsCounted DEF RelaySound
  <2>3. <<e, n>> \in DOMAIN Text
    BY <2>2, TextAssumption
  <2>4. Text[e, n] \in Seq(ToSet(Text[e, n]))
    BY <2>3, TextAssumption
  <2> QED
    BY <2>1, <2>4, CuttingKeepsTheText
<1> QED
  BY <1>1, RelaySoundAlways, IndexSoundAlways, PTL
=============================================================================
