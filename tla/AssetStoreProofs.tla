------------------------- MODULE AssetStoreProofs ---------------------------
(***************************************************************************)
(* Proofs about AssetStore for any assets, any sizes, any writes and any   *)
(* limits of the cache.                                                    *)
(***************************************************************************)
EXTENDS AssetStore, SequenceTheorems, FiniteSetTheorems, WellFoundedInduction, TLAPS

-----------------------------------------------------------------------------
(* The recorded ranges.                                                    *)

LEMMA LeastElement ==
  ASSUME NEW T \in SUBSET Nat, T # {}
  PROVE  \E x \in T : \A y \in T : x <= y
<1>1. IsWellFoundedOn(OpToRel(<, Nat), Nat)
  BY NatLessThanWellFounded
<1>2. PICK x \in T : \A y \in T : <<y, x>> \notin OpToRel(<, Nat)
  BY <1>1, WFMin
<1>3. \A y \in T : ~(y < x)
  BY <1>2 DEF OpToRel
<1> QED BY <1>3

LEMMA RangeNumbers ==
  ASSUME NEW ranges \in Seq(RangeType)
  PROVE  /\ Len(ranges) \in Nat /\ DOMAIN ranges = 1 .. Len(ranges)
         /\ \A k \in 1 .. Len(ranges) : /\ ranges[k] \in RangeType
                                      /\ ranges[k].first \in Nat
                                      /\ ranges[k].last \in Nat
<1>1. \A k \in 1 .. Len(ranges) : ranges[k] \in RangeType
  BY ElementOfSeq
<1> QED BY <1>1, LenProperties DEF RangeType

\* Every range ends before all ranges behind it, not only the next one.
LEMMA AllApart ==
  ASSUME NEW ranges \in Seq(RangeType), Apart(ranges),
         NEW i \in 1 .. Len(ranges), NEW j \in 1 .. Len(ranges), i < j
  PROVE  ranges[i].last + 1 < ranges[j].first
<1> DEFINE T == {k \in 1 .. Len(ranges) : i < k /\ ~(ranges[i].last + 1 < ranges[k].first)}
<1>1. \A k \in 1 .. Len(ranges) : ranges[k].first \in Nat /\ ranges[k].last \in Nat
  BY RangeNumbers
<1>2. ASSUME T # {}
      PROVE  FALSE
  <2>1. T \in SUBSET Nat
    OBVIOUS
  <2>2. PICK k \in T : \A y \in T : k <= y
    BY <1>2, <2>1, LeastElement
  <2>3. k \in 1 .. Len(ranges) /\ k - 1 \in 1 .. Len(ranges) /\ k > 1 /\ k - 1 \notin T
    BY <2>2
  <2>4. ranges[k - 1].last + 1 < ranges[k].first /\ ranges[k - 1].first < ranges[k - 1].last
    BY <2>3 DEF Apart
  <2>5. CASE k - 1 = i
    BY <2>2, <2>4, <2>5
  <2>6. CASE k - 1 # i
    <3>1. i < k - 1
      BY <2>2, <2>3, <2>6
    <3>2. ranges[i].last + 1 < ranges[k - 1].first
      BY <2>3, <3>1
    <3>3. /\ ranges[i].last \in Nat /\ ranges[k].first \in Nat
          /\ ranges[k - 1].first \in Nat /\ ranges[k - 1].last \in Nat
      BY <1>1, <2>3
    <3>4. \A w, x, y, z \in Nat : w + 1 < x /\ x < y /\ y + 1 < z => w + 1 < z
      OBVIOUS
    <3>5. ranges[i].last + 1 < ranges[k].first
      BY <2>4, <3>2, <3>3, <3>4
    <3> QED BY <2>2, <3>5
  <2> QED BY <2>5, <2>6
<1> QED BY <1>2

\* The binary search: the ranges that start at or before `start` come first.
LEMMA IndexIs ==
  ASSUME NEW ranges \in Seq(RangeType), Apart(ranges), NEW start \in Nat,
         NEW index, index = Cardinality({j \in DOMAIN ranges : ranges[j].first <= start})
  PROVE  /\ index \in 0 .. Len(ranges)
         /\ \A j \in 1 .. Len(ranges) : ranges[j].first <= start <=> j <= index
<1> DEFINE N == Len(ranges)
           S == {j \in DOMAIN ranges : ranges[j].first <= start}
           T == {j \in 1 .. N : ~(ranges[j].first <= start)}
<1>1. N \in Nat /\ DOMAIN ranges = 1 .. N
  OBVIOUS
<1>2. \A k \in 1 .. N : ranges[k].first \in Nat /\ ranges[k].last \in Nat
  BY RangeNumbers
<1>3. \E k \in 0 .. N : S = 1 .. k
  <2>1. CASE T = {}
    <3>1. S = 1 .. N
      BY <1>1, <2>1
    <3> QED BY <1>1, <3>1
  <2>2. CASE T # {}
    <3>1. T \in SUBSET Nat
      BY <1>1
    <3>2. PICK k \in T : \A y \in T : k <= y
      BY <2>2, <3>1, LeastElement
    <3>3. k \in 1 .. N /\ ~(ranges[k].first <= start)
      BY <3>2
    <3>4. ASSUME NEW j \in 1 .. N
          PROVE  ranges[j].first <= start <=> j <= k - 1
      <4>1. CASE j < k
        BY <1>1, <3>2, <4>1
      <4>2. CASE j = k
        BY <1>1, <3>3, <4>2
      <4>3. CASE j > k
        <5>1. ranges[k].last + 1 < ranges[j].first /\ ranges[k].first < ranges[k].last
          BY <3>3, <4>3, AllApart DEF Apart
        <5> QED BY <1>2, <3>3, <4>3, <5>1
      <4> QED BY <1>1, <3>3, <4>1, <4>2, <4>3
    <3>5. S = 1 .. k - 1
      BY <1>1, <3>3, <3>4
    <3> QED BY <1>1, <3>3, <3>5
  <2> QED BY <2>1, <2>2
<1>4. PICK k \in 0 .. N : S = 1 .. k
  BY <1>3
<1>5. index = k
  <2>1. k \in Nat
    BY <1>1
  <2>2. Cardinality(1 .. k) = IF 1 > k THEN 0 ELSE k - 1 + 1
    BY <2>1, FS_Interval
  <2>3. index = Cardinality(S)
    OBVIOUS
  <2>4. Cardinality(S) = Cardinality(1 .. k)
    BY <1>4
  <2> QED BY <2>1, <2>2, <2>3, <2>4
<1>6. ASSUME NEW j \in 1 .. N
      PROVE  ranges[j].first <= start <=> j <= k
  <2>1. j \in S <=> ranges[j].first <= start
    BY <1>1
  <2>2. j \in 1 .. k <=> j <= k
    BY <1>1
  <2> QED BY <1>4, <2>1, <2>2
<1> QED BY <1>5, <1>6

-----------------------------------------------------------------------------
(* _merge_range.                                                           *)

\* The end of the new range after n ranges on the right were merged
Wide(ranges, end, index, n) ==
  IF n = 0 THEN end ELSE Greater(end, ranges[index + n].last)

\* `index` is where the binary search ends, `left` and `right` are the numbers
\* of ranges that are merged on its sides.
Merging(ranges, start, end, index, left, right) ==
  /\ index \in 0 .. Len(ranges)
  /\ \A j \in 1 .. Len(ranges) : ranges[j].first <= start <=> j <= index
  /\ right \in 0 .. Len(ranges) - index
  /\ \A k \in 1 .. right :
       Touches(ranges[index + k], start, Wide(ranges, end, index, k - 1))
  /\ right < Len(ranges) - index =>
       ~Touches(ranges[index + right + 1], start, Wide(ranges, end, index, right))
  /\ left = IF index > 0 /\ start <= ranges[index].last + 1 THEN 1 ELSE 0

Widest(ranges, start, end, index, left, right) ==
  IF left = 0
    THEN RangeOf(start, Wide(ranges, end, index, right))
    ELSE RangeOf(Lesser(start, ranges[index].first),
                 Greater(Wide(ranges, end, index, right), ranges[index].last))

LEMMA MergeSteps ==
  ASSUME NEW ranges \in Seq(RangeType), Apart(ranges), NEW start \in Nat, NEW end \in Nat
  PROVE  \E index, left, right :
           /\ Merging(ranges, start, end, index, left, right)
           /\ MergeRange(ranges, start, end) =
                SubSeq(ranges, 1, index - left)
                  \o <<Widest(ranges, start, end, index, left, right)>>
                  \o SubSeq(ranges, index + right + 1, Len(ranges))
<1> DEFINE N == Len(ranges)
           index == Cardinality({j \in DOMAIN ranges : ranges[j].first <= start})
           Widened(n) == IF n = 0 THEN end
                                  ELSE Greater(end, ranges[index + n].last)
           Ends(n) == /\ \A k \in 1 .. n :
                           Touches(ranges[index + k], start, Widened(k - 1))
                      /\ n < Len(ranges) - index =>
                           ~Touches(ranges[index + n + 1], start, Widened(n))
           right == CHOOSE n \in 0 .. Len(ranges) - index : Ends(n)
           left == IF index > 0 /\ start <= ranges[index].last + 1 THEN 1 ELSE 0
           new == IF left = 0
                    THEN RangeOf(start, Widened(right))
                    ELSE RangeOf(Lesser(start, ranges[index].first),
                                 Greater(Widened(right), ranges[index].last))
           T == {n \in 0 .. N - index :
                   n < N - index => ~Touches(ranges[index + n + 1], start, Widened(n))}
<1>1. N \in Nat /\ DOMAIN ranges = 1 .. N
  BY RangeNumbers
<1>2. /\ index \in 0 .. N
      /\ \A j \in 1 .. N : ranges[j].first <= start <=> j <= index
  BY IndexIs
<1> HIDE DEF index
<1>3. \E n \in 0 .. N - index : Ends(n)
  <2>1. T \in SUBSET Nat /\ N - index \in T
    BY <1>1, <1>2
  <2>2. PICK n \in T : \A y \in T : n <= y
    <3>1. T # {}
      BY <2>1
    <3> HIDE DEF T
    <3> QED BY <2>1, <3>1, LeastElement
  <2>3. n \in 0 .. N - index
    BY <2>2
  <2>4. ASSUME NEW k \in 1 .. n
        PROVE  Touches(ranges[index + k], start, Widened(k - 1))
    <3>1. k - 1 \in 0 .. N - index /\ k - 1 < N - index /\ k - 1 < n
      BY <1>1, <1>2, <2>3
    <3>2. k - 1 \notin T
      BY <2>2, <3>1
    <3>3. Touches(ranges[index + (k - 1) + 1], start, Widened(k - 1))
      BY <3>1, <3>2
    <3>4. index + (k - 1) + 1 = index + k
      BY <1>1, <1>2, <2>3
    <3> QED BY <3>3, <3>4
  <2>5. n < N - index => ~Touches(ranges[index + n + 1], start, Widened(n))
    BY <2>2
  <2> QED BY <2>3, <2>4, <2>5
<1>4. right \in 0 .. N - index /\ Ends(right)
  <2> HIDE DEF Ends
  <2> QED BY <1>3
<1>5. MergeRange(ranges, start, end) =
        SubSeq(ranges, 1, index - left) \o <<new>>
          \o SubSeq(ranges, index + right + 1, Len(ranges))
  BY DEF MergeRange, index
<1> HIDE DEF right
<1>6. \A n : Widened(n) = Wide(ranges, end, index, n)
  BY DEF Wide
<1>7. new = Widest(ranges, start, end, index, left, right)
  BY <1>6 DEF Widest
<1>8. Merging(ranges, start, end, index, left, right)
  BY <1>2, <1>4, <1>6 DEF Merging
<1> HIDE DEF left, new
<1> QED BY <1>5, <1>7, <1>8

\* Position b is in the n-th range.
In(ranges, n, b) == ranges[n].first <= b /\ b <= ranges[n].last

LEMMA CoveredIs ==
  ASSUME NEW ranges \in Seq(RangeType)
  PROVE  \A b : b \in Covered(ranges)
                 <=> b \in Nat /\ \E i \in 1 .. Len(ranges) : In(ranges, i, b)
<1>1. /\ DOMAIN ranges = 1 .. Len(ranges)
      /\ \A i \in 1 .. Len(ranges) : ranges[i].first \in Nat /\ ranges[i].last \in Nat
  BY RangeNumbers
<1>2. \A b : b \in Covered(ranges)
               <=> \E i \in DOMAIN ranges : b \in ranges[i].first .. ranges[i].last
  BY DEF Covered
<1>3. \A i \in 1 .. Len(ranges) : \A b :
        b \in ranges[i].first .. ranges[i].last <=> b \in Nat /\ In(ranges, i, b)
  BY <1>1 DEF In
<1> QED BY <1>1, <1>2, <1>3

\* What is merged into the new range, and how far that makes it reach.
LEMMA WideIs ==
  ASSUME NEW ranges \in Seq(RangeType), Apart(ranges),
         NEW start \in Nat, NEW end \in Nat, start < end, NEW index, NEW left, NEW right,
         Merging(ranges, start, end, index, left, right), NEW n \in 0 .. right
  PROVE  /\ Wide(ranges, end, index, n) \in Nat
         /\ end <= Wide(ranges, end, index, n)
         /\ \A k \in 1 .. n : ranges[index + k].last <= Wide(ranges, end, index, n)
         /\ \/ Wide(ranges, end, index, n) = end
            \/ n > 0 /\ Wide(ranges, end, index, n) = ranges[index + n].last
<1>1. /\ index \in 0 .. Len(ranges) /\ right \in 0 .. Len(ranges) - index
      /\ n \in Nat
      /\ \A k \in 1 .. n : index + k \in 1 .. Len(ranges)
  BY RangeNumbers DEF Merging
<1>2. CASE n = 0
  BY <1>1, <1>2 DEF Wide
<1>3. CASE n # 0
  <2>1. n \in 1 .. n /\ index + n \in 1 .. Len(ranges)
    BY <1>1, <1>3
  <2>2. ranges[index + n].last \in Nat
    BY <2>1, RangeNumbers
  <2>3. Wide(ranges, end, index, n) = Greater(end, ranges[index + n].last)
    BY <1>3 DEF Wide
  <2>4. ASSUME NEW k \in 1 .. n
        PROVE  ranges[index + k].last <= ranges[index + n].last
    <3>1. CASE k = n
      BY <2>2, <3>1
    <3>2. CASE k # n
      <4>1. index + k \in 1 .. Len(ranges) /\ index + k < index + n
        BY <1>1, <3>2
      <4>2. ranges[index + k].last + 1 < ranges[index + n].first
        BY <2>1, <4>1, AllApart
      <4>3. ranges[index + n].first < ranges[index + n].last
        BY <2>1, RangeNumbers DEF Apart
      <4>4. ranges[index + k].last \in Nat /\ ranges[index + n].first \in Nat
        BY <2>1, <4>1, RangeNumbers
      <4> QED BY <2>2, <4>2, <4>3, <4>4
    <3> QED BY <3>1, <3>2
  <2>5. \A k \in 1 .. n : ranges[index + k].last \in Nat
    BY <1>1, RangeNumbers
  <2>6. /\ Greater(end, ranges[index + n].last) \in Nat
        /\ end <= Greater(end, ranges[index + n].last)
        /\ ranges[index + n].last <= Greater(end, ranges[index + n].last)
        /\ Greater(end, ranges[index + n].last) \in {end, ranges[index + n].last}
    BY <2>2 DEF Greater
  <2>7. \A k \in 1 .. n : ranges[index + k].last <= Greater(end, ranges[index + n].last)
    BY <2>2, <2>4, <2>5, <2>6
  <2> QED BY <1>1, <1>3, <2>3, <2>6, <2>7
<1> QED BY <1>2, <1>3

\* The new range records the write and what it was merged with, nothing else.
LEMMA WidestCovers ==
  ASSUME NEW ranges \in Seq(RangeType), Apart(ranges),
         NEW start \in Nat, NEW end \in Nat, start < end, NEW index, NEW left, NEW right,
         Merging(ranges, start, end, index, left, right),
         NEW b \in Nat,
         Wide(ranges, end, index, right) >= b, b > end
  PROVE  \E k \in 1 .. right : In(ranges, index + k, b)
<1> DEFINE T == {k \in 1 .. right : b <= ranges[index + k].last}
<1>1. /\ index \in 0 .. Len(ranges) /\ right \in 0 .. Len(ranges) - index /\ right \in Nat
      /\ \A k \in 1 .. right : index + k \in 1 .. Len(ranges)
  BY RangeNumbers DEF Merging
<1>2. right \in T
  <2>1. right > 0 /\ Wide(ranges, end, index, right) = ranges[index + right].last
    BY <1>1, WideIs
  <2>2. right \in 1 .. right /\ ranges[index + right].last \in Nat
    BY <1>1, <2>1, RangeNumbers
  <2> QED BY <2>1, <2>2
<1>3. T \in SUBSET Nat
  OBVIOUS
<1>4. PICK k \in T : \A y \in T : k <= y
  <2>1. T # {}
    BY <1>2
  <2> HIDE DEF T
  <2> QED BY <1>3, <2>1, LeastElement
<1>5. k \in 1 .. right /\ b <= ranges[index + k].last
  BY <1>4
<1>6. Touches(ranges[index + k], start, Wide(ranges, end, index, k - 1))
  BY <1>5 DEF Merging
<1>7. k - 1 \in 0 .. right /\ Wide(ranges, end, index, k - 1) \in Nat
  BY <1>1, <1>5, WideIs
<1>8. Wide(ranges, end, index, k - 1) < b
  <2>1. CASE k = 1
    BY <2>1 DEF Wide
  <2>2. CASE k # 1
    <3>1. k - 1 \in 1 .. right /\ k - 1 < k
      BY <1>1, <1>5, <2>2
    <3>2. ranges[index + (k - 1)].last \in Nat
      BY <1>1, <3>1, RangeNumbers
    <3>3. ~(b <= ranges[index + (k - 1)].last)
      <4>1. k - 1 \in T => k <= k - 1
        BY <1>4
      <4>2. k - 1 \notin T
        <5> HIDE DEF T
        <5> QED BY <1>5, <3>1, <4>1
      <4> QED BY <3>1, <4>2
    <3>4. \/ Wide(ranges, end, index, k - 1) = end
          \/ Wide(ranges, end, index, k - 1) = ranges[index + (k - 1)].last
      BY <1>7, WideIs
    <3> QED BY <3>2, <3>3, <3>4
  <2> QED BY <2>1, <2>2
<1>9. ranges[index + k].first \in Nat /\ ranges[index + k].last \in Nat
  BY <1>1, <1>5, RangeNumbers
<1>10. ranges[index + k].first <= b
  BY <1>6, <1>7, <1>8, <1>9 DEF Touches
<1> QED BY <1>5, <1>10 DEF In

\* The merged ranges are the ones from index - left + 1 to index + right.
LEMMA WidestIs ==
  ASSUME NEW ranges \in Seq(RangeType), Apart(ranges),
         NEW start \in Nat, NEW end \in Nat, start < end, NEW index, NEW left, NEW right,
         Merging(ranges, start, end, index, left, right),
         NEW new, new = Widest(ranges, start, end, index, left, right)
  PROVE  /\ new \in RangeType /\ new.first < new.last
         /\ index - left > 0 => ranges[index - left].last + 1 < new.first
         /\ index + right < Len(ranges) => new.last + 1 < ranges[index + right + 1].first
         /\ \A b \in Nat :
              new.first <= b /\ b <= new.last
                <=> \/ start <= b /\ b <= end
                    \/ \E n \in index - left + 1 .. index + right : In(ranges, n, b)
<1> DEFINE N == Len(ranges)
           wide == Wide(ranges, end, index, right)
<1>1. /\ N \in Nat /\ index \in 0 .. N /\ right \in 0 .. N - index
      /\ index \in Nat /\ right \in Nat
      /\ left = IF index > 0 /\ start <= ranges[index].last + 1 THEN 1 ELSE 0
      /\ left \in {0, 1}
  BY RangeNumbers DEF Merging
<1>2. \A k \in 1 .. N : ranges[k].first \in Nat /\ ranges[k].last \in Nat
                        /\ ranges[k].first < ranges[k].last
  BY RangeNumbers DEF Apart
<1>3. /\ wide \in Nat /\ end <= wide
      /\ \A k \in 1 .. right : ranges[index + k].last <= wide
      /\ \/ wide = end
         \/ right > 0 /\ wide = ranges[index + right].last
  <2>1. right \in 0 .. right
    BY <1>1
  <2> QED BY <2>1, WideIs
<1>4. \A b \in Nat : b > end /\ b <= wide => \E k \in 1 .. right : In(ranges, index + k, b)
  BY <1>3, WidestCovers
<1>5. /\ new \in RangeType
      /\ left = 0 => new.first = start /\ new.last = wide
      /\ left = 1 => /\ index > 0 /\ index \in 1 .. N
                     /\ new.first = ranges[index].first
                     /\ new.first <= start /\ start <= ranges[index].last + 1
                     /\ new.last \in {wide, ranges[index].last}
                     /\ wide <= new.last /\ ranges[index].last <= new.last
  <2>1. CASE left = 0
    BY <1>1, <1>3, <2>1 DEF Widest, RangeOf, RangeType
  <2>2. CASE left = 1
    <3>1. index > 0 /\ index \in 1 .. N /\ start <= ranges[index].last + 1
      BY <1>1, <2>2
    <3>2. ranges[index].first <= start
      BY <1>1, <3>1 DEF Merging
    <3>3. /\ new.first = Lesser(start, ranges[index].first)
          /\ new.last = Greater(wide, ranges[index].last)
          /\ new = [first |-> new.first, last |-> new.last]
      BY <2>2 DEF Widest, RangeOf
    <3>4. Lesser(start, ranges[index].first) = ranges[index].first
      BY <1>2, <3>1, <3>2 DEF Lesser
    <3>5. /\ Greater(wide, ranges[index].last) \in {wide, ranges[index].last}
          /\ Greater(wide, ranges[index].last) \in Nat
          /\ wide <= Greater(wide, ranges[index].last)
          /\ ranges[index].last <= Greater(wide, ranges[index].last)
      BY <1>2, <1>3, <3>1 DEF Greater
    <3>6. new \in RangeType
      BY <1>2, <3>1, <3>3, <3>4, <3>5 DEF RangeType
    <3> QED BY <2>2, <3>1, <3>2, <3>3, <3>4, <3>5, <3>6
  <2> QED BY <1>1, <2>1, <2>2
<1>6. new.first \in Nat /\ new.last \in Nat
  BY <1>5 DEF RangeType
<1> HIDE DEF wide, N
<1>7. new.first < new.last
  BY <1>1, <1>3, <1>5, <1>6
<1>8. ASSUME index - left > 0
      PROVE  ranges[index - left].last + 1 < new.first
  <2>1. CASE left = 0
    <3>1. index > 0 /\ index \in 1 .. N /\ ~(start <= ranges[index].last + 1)
      BY <1>1, <1>8, <2>1
    <3> QED BY <1>1, <1>2, <1>5, <2>1, <3>1
  <2>2. CASE left = 1
    <3>1. index - 1 \in 1 .. N /\ index \in 1 .. N /\ index - 1 < index
      BY <1>1, <1>8, <2>2
    <3>2. ranges[index - 1].last + 1 < ranges[index].first
      BY <3>1, AllApart DEF N
    <3> QED BY <1>5, <2>2, <3>2
  <2> QED BY <1>1, <2>1, <2>2
<1>9. ASSUME index + right < N
      PROVE  new.last + 1 < ranges[index + right + 1].first
  <2> DEFINE next == ranges[index + right + 1]
  <2>1. index + right + 1 \in 1 .. N /\ index + right + 1 > index /\ right < N - index
    BY <1>1, <1>9
  <2>2. ~(next.first <= start) /\ ~Touches(next, start, wide)
    BY <1>1, <2>1 DEF Merging, wide, N
  <2>3. next.first \in Nat /\ next.last \in Nat /\ next.first < next.last
    BY <1>2, <2>1
  <2>4. wide + 1 < next.first
    BY <1>3, <2>2, <2>3 DEF Touches
  <2>5. left = 1 => ranges[index].last + 1 < next.first
    BY <1>5, <2>1, AllApart DEF N
  <2> HIDE DEF next
  <2>6. new.last + 1 < next.first
    BY <1>1, <1>5, <2>4, <2>5
  <2> QED BY <2>6 DEF next
<1>10. ASSUME NEW b \in Nat, new.first <= b, b <= new.last
       PROVE  \/ start <= b /\ b <= end
              \/ \E n \in index - left + 1 .. index + right : In(ranges, n, b)
  <2>1. CASE left = 1 /\ In(ranges, index, b)
    <3>1. index \in index - left + 1 .. index + right
      BY <1>1, <2>1
    <3> QED BY <2>1, <3>1
  <2>2. CASE b > end /\ b <= wide
    <3>1. PICK k \in 1 .. right : In(ranges, index + k, b)
      BY <1>4, <2>2
    <3>2. index + k \in index - left + 1 .. index + right
      BY <1>1
    <3> QED BY <3>1, <3>2
  <2>3. CASE start <= b /\ b <= end
    BY <2>3
  <2>4. \/ left = 1 /\ In(ranges, index, b)
        \/ b > end /\ b <= wide
        \/ start <= b /\ b <= end
    <3>1. CASE left = 0
      BY <1>3, <1>5, <1>10, <3>1
    <3>2. CASE left = 1
      <4>1. ranges[index].first \in Nat /\ ranges[index].last \in Nat
        BY <1>2, <1>5, <3>2
      <4> QED BY <1>3, <1>5, <1>10, <3>2, <4>1 DEF In
    <3> QED BY <1>1, <3>1, <3>2
  <2> QED BY <2>1, <2>2, <2>3, <2>4
<1>11. ASSUME NEW b \in Nat, start <= b, b <= end
       PROVE  new.first <= b /\ b <= new.last
  BY <1>1, <1>3, <1>5, <1>6, <1>11
<1>12. ASSUME NEW n \in index - left + 1 .. index + right, NEW b \in Nat, In(ranges, n, b)
       PROVE  new.first <= b /\ b <= new.last
  <2>1. CASE n <= index
    <3>1. n = index /\ left = 1
      BY <1>1, <2>1
    <3>2. ranges[index].first \in Nat /\ ranges[index].last \in Nat
      BY <1>2, <1>5, <3>1
    <3> QED BY <1>5, <1>6, <1>12, <3>1, <3>2 DEF In
  <2>2. CASE n > index
    <3>1. n \in 1 .. N /\ n - index \in 1 .. right /\ index + (n - index) = n
      BY <1>1, <2>2
    <3>2. ranges[n].last <= wide
      BY <1>3, <3>1
    <3>3. ~(ranges[n].first <= start)
      BY <1>1, <2>2, <3>1 DEF Merging, N
    <3>4. ranges[n].first \in Nat /\ ranges[n].last \in Nat
      BY <1>2, <3>1
    <3>5. new.first <= start /\ wide <= new.last
      BY <1>1, <1>3, <1>5
    <3> QED BY <1>3, <1>6, <1>12, <3>2, <3>3, <3>4, <3>5 DEF In
  <2> QED BY <1>1, <2>1, <2>2
<1> QED BY <1>5, <1>7, <1>8, <1>9, <1>10, <1>11, <1>12 DEF N

\* A sequence with its middle, from l + 1 to r - 1, replaced by one element.
Spliced(seq, l, new, r) == SubSeq(seq, 1, l) \o <<new>> \o SubSeq(seq, r, Len(seq))

LEMMA Replaced ==
  ASSUME NEW S, NEW seq \in Seq(S), NEW new \in S,
         NEW l \in 0 .. Len(seq), NEW r \in l + 1 .. Len(seq) + 1
  PROVE  /\ Spliced(seq, l, new, r) \in Seq(S)
         /\ Len(Spliced(seq, l, new, r)) = l + 2 + Len(seq) - r
         /\ \A i \in 1 .. l : Spliced(seq, l, new, r)[i] = seq[i]
         /\ Spliced(seq, l, new, r)[l + 1] = new
         /\ \A i \in l + 2 .. l + 2 + Len(seq) - r :
              Spliced(seq, l, new, r)[i] = seq[i - (l + 2) + r]
<1> DEFINE N == Len(seq)
           m == Spliced(seq, l, new, r)
           before == SubSeq(seq, 1, l)
           after == SubSeq(seq, r, N)
<1>1. N \in Nat /\ l \in Nat /\ r \in Nat /\ l <= N /\ l < r /\ r <= N + 1
  BY LenProperties
<1>2. \A i \in 1 .. N : seq[i] \in S
  BY ElementOfSeq
<1>3. /\ before \in Seq(S) /\ Len(before) = l
      /\ \A i \in 1 .. l : before[i] = seq[i]
  <2>1. \A i \in 1 .. l : seq[i] \in S
    BY <1>1, <1>2
  <2>2. /\ before \in Seq(S)
        /\ Len(before) = IF 1 <= l THEN l - 1 + 1 ELSE 0
        /\ \A i \in 1 .. l - 1 + 1 : before[i] = seq[1 + i - 1]
    BY <1>1, <2>1, SubSeqProperties
  <2>3. l - 1 + 1 = l /\ \A i \in 1 .. l : 1 + i - 1 = i
    BY <1>1
  <2> HIDE DEF before
  <2> QED BY <1>1, <2>2, <2>3
<1>4. /\ after \in Seq(S) /\ Len(after) = (N + 1) - r
      /\ \A i \in 1 .. (N + 1) - r : after[i] = seq[r + i - 1]
  <2>1. \A i \in r .. N : seq[i] \in S
    BY <1>1, <1>2
  <2>2. /\ after \in Seq(S)
        /\ Len(after) = IF r <= N THEN N - r + 1 ELSE 0
        /\ \A i \in 1 .. N - r + 1 : after[i] = seq[r + i - 1]
    BY <1>1, <2>1, SubSeqProperties
  <2>3. (N - r) + 1 = (N + 1) - r /\ (r > N => (N + 1) - r = 0)
    BY <1>1
  <2> HIDE DEF after
  <2> QED BY <1>1, <2>2, <2>3
<1> HIDE DEF before, after
<1>5. /\ before \o <<new>> \in Seq(S) /\ Len(before \o <<new>>) = l + 1
      /\ \A i \in 1 .. l : (before \o <<new>>)[i] = seq[i]
      /\ (before \o <<new>>)[l + 1] = new
  <2>1. <<new>> \in Seq(S) /\ Len(<<new>>) = 1 /\ <<new>>[1] = new
    OBVIOUS
  <2>2. /\ before \o <<new>> \in Seq(S)
        /\ Len(before \o <<new>>) = l + 1
        /\ \A i \in 1 .. l + 1 : (before \o <<new>>)[i] =
             IF i <= l THEN before[i] ELSE <<new>>[i - l]
    BY <1>3, <2>1, ConcatProperties
  <2>3. (l + 1) - l = 1 /\ l + 1 \in 1 .. l + 1 /\ ~(l + 1 <= l)
    BY <1>1
  <2>4. (before \o <<new>>)[l + 1] = new
    BY <2>1, <2>2, <2>3
  <2>5. \A i \in 1 .. l : (before \o <<new>>)[i] = seq[i]
    BY <1>1, <1>3, <2>2
  <2> QED BY <2>2, <2>4, <2>5
<1>6. m = (before \o <<new>>) \o after
  BY DEF before, after, Spliced
<1> HIDE DEF m
<1>7. /\ m \in Seq(S)
      /\ Len(m) = (l + 1) + ((N + 1) - r)
      /\ \A i \in 1 .. (l + 1) + ((N + 1) - r) : m[i] =
           IF i <= l + 1 THEN (before \o <<new>>)[i] ELSE after[i - (l + 1)]
  <2> DEFINE head == before \o <<new>>
             n == (N + 1) - r
  <2>1. head \in Seq(S) /\ Len(head) = l + 1 /\ after \in Seq(S) /\ Len(after) = n
    BY <1>4, <1>5
  <2> HIDE DEF head, n
  <2>2. /\ head \o after \in Seq(S)
        /\ Len(head \o after) = Len(head) + Len(after)
        /\ \A i \in 1 .. Len(head) + Len(after) : (head \o after)[i] =
             IF i <= Len(head) THEN head[i] ELSE after[i - Len(head)]
    BY <2>1, ConcatProperties
  <2>3. m = head \o after
    BY <1>6 DEF head
  <2>4. /\ m \in Seq(S) /\ Len(m) = (l + 1) + n
        /\ \A i \in 1 .. (l + 1) + n : m[i] = IF i <= l + 1 THEN head[i] ELSE after[i - (l + 1)]
    BY <2>1, <2>2, <2>3
  <2> QED BY <2>4 DEF head, n
<1>8. Len(m) = ((l + 2) + N) - r
  <2>1. \A x, y, z \in Nat : (x + 1) + ((y + 1) - z) = ((x + 2) + y) - z
    OBVIOUS
  <2>2. (l + 1) + ((N + 1) - r) = ((l + 2) + N) - r
    BY <1>1, <2>1
  <2> QED BY <1>7, <2>2
<1>9. \A i \in 1 .. l : m[i] = seq[i]
  BY <1>1, <1>5, <1>7
<1>10. m[l + 1] = new
  <2>1. l + 1 \in 1 .. (l + 1) + ((N + 1) - r) /\ l + 1 <= l + 1
    BY <1>1
  <2> QED BY <1>5, <1>7, <2>1
<1>11. ASSUME NEW i \in l + 2 .. Len(m)
       PROVE  m[i] = seq[i - (l + 2) + r]
  <2>1. i \in l + 2 .. ((l + 2) + N) - r
    BY <1>8
  <2>2. /\ i \in 1 .. (l + 1) + ((N + 1) - r) /\ ~(i <= l + 1)
        /\ i - (l + 1) \in 1 .. (N + 1) - r
        /\ r + (i - (l + 1)) - 1 = i - (l + 2) + r
    <3> HIDE DEF N
    <3> QED BY <1>1, <2>1
  <2> QED BY <1>4, <1>7, <2>2
<1>12. ((l + 2) + N) - r = l + 2 + Len(seq) - r
  BY <1>1
<1>13. l + 2 .. Len(m) = l + 2 .. l + 2 + Len(seq) - r
  BY <1>8, <1>12
<1> QED BY <1>7, <1>8, <1>9, <1>10, <1>11, <1>12, <1>13 DEF m

\* Any write leaves the ranges apart, and they record it and what they recorded
\* before.
LEMMA MergeExact ==
  ASSUME NEW ranges \in Seq(RangeType), Apart(ranges),
         NEW start \in Nat, NEW end \in Nat, start < end
  PROVE  /\ MergeRange(ranges, start, end) \in Seq(RangeType)
         /\ Apart(MergeRange(ranges, start, end))
         /\ Covered(MergeRange(ranges, start, end)) = Covered(ranges) \cup start .. end
<1>1. PICK index, left, right :
        /\ Merging(ranges, start, end, index, left, right)
        /\ MergeRange(ranges, start, end) =
             SubSeq(ranges, 1, index - left)
               \o <<Widest(ranges, start, end, index, left, right)>>
               \o SubSeq(ranges, index + right + 1, Len(ranges))
  BY MergeSteps
<1> DEFINE N == Len(ranges)
           new == Widest(ranges, start, end, index, left, right)
           m == MergeRange(ranges, start, end)
           l == index - left
           r == index + right + 1
<1>2. /\ N \in Nat /\ index \in 0 .. N /\ right \in 0 .. N - index /\ left \in {0, 1}
      /\ left = 1 => index > 0
  BY <1>1, RangeNumbers DEF Merging
<1>3. /\ l \in 0 .. N /\ r \in l + 1 .. N + 1 /\ l \in Nat /\ r \in Nat
      /\ index + right < N <=> r <= N
      /\ l + 1 = index - left + 1 /\ r - 1 = index + right
  BY <1>2
<1>4. /\ new \in RangeType /\ new.first < new.last
      /\ l > 0 => ranges[l].last + 1 < new.first
      /\ r <= N => new.last + 1 < ranges[r].first
      /\ \A b \in Nat :
           new.first <= b /\ b <= new.last
             <=> \/ start <= b /\ b <= end
                 \/ \E n \in l + 1 .. r - 1 : In(ranges, n, b)
  BY <1>1, <1>3, WidestIs
<1>5. m = SubSeq(ranges, 1, l) \o <<new>> \o SubSeq(ranges, r, N)
  BY <1>1
<1> HIDE DEF N, new, m, l, r
<1>6. /\ m \in Seq(RangeType)
      /\ Len(m) = l + 2 + N - r
      /\ \A i \in 1 .. l : m[i] = ranges[i]
      /\ m[l + 1] = new
      /\ \A i \in l + 2 .. Len(m) : m[i] = ranges[i - (l + 2) + r]
  <2>1. l \in 0 .. Len(ranges) /\ r \in l + 1 .. Len(ranges) + 1
    BY <1>3 DEF N
  <2>2. m = SubSeq(ranges, 1, l) \o <<new>> \o SubSeq(ranges, r, Len(ranges))
    BY <1>5 DEF N
  <2>3. /\ m \in Seq(RangeType)
        /\ Len(m) = l + 2 + Len(ranges) - r
        /\ \A i \in 1 .. l : m[i] = ranges[i]
        /\ m[l + 1] = new
        /\ \A i \in l + 2 .. l + 2 + Len(ranges) - r : m[i] = ranges[i - (l + 2) + r]
    <3>1. m = Spliced(ranges, l, new, r)
      BY <2>2 DEF Spliced
    <3>2. new \in RangeType
      BY <1>4
    <3>3. /\ Spliced(ranges, l, new, r) \in Seq(RangeType)
          /\ Len(Spliced(ranges, l, new, r)) = l + 2 + Len(ranges) - r
          /\ \A i \in 1 .. l : Spliced(ranges, l, new, r)[i] = ranges[i]
          /\ Spliced(ranges, l, new, r)[l + 1] = new
          /\ \A i \in l + 2 .. l + 2 + Len(ranges) - r :
               Spliced(ranges, l, new, r)[i] = ranges[i - (l + 2) + r]
      <4>1. ranges \in Seq(RangeType) /\ l \in 0 .. Len(ranges) /\ r \in l + 1 .. Len(ranges) + 1
        BY <2>1
      <4>2. Spliced(ranges, l, new, r) \in Seq(RangeType)
        BY <4>1, <3>2, Replaced
      <4>3. Spliced(ranges, l, new, r)[l + 1] = new
        BY <4>1, <3>2, Replaced
      <4>4. Len(Spliced(ranges, l, new, r)) = l + 2 + Len(ranges) - r
        BY <4>1, <3>2, Replaced
      <4> QED BY <4>1, <3>2, Replaced
    <3> QED BY <3>1, <3>3
  <2> QED BY <2>3 DEF N
<1>7. /\ DOMAIN ranges = 1 .. N
      /\ \A i \in 1 .. N :
           /\ ranges[i].first \in Nat /\ ranges[i].last \in Nat
           /\ ranges[i].first < ranges[i].last
           /\ i > 1 => ranges[i - 1].last + 1 < ranges[i].first
  BY RangeNumbers DEF Apart, N
<1>8. /\ DOMAIN m = 1 .. Len(m) /\ Len(m) \in Nat
      /\ \A i \in 1 .. Len(m) : m[i].first \in Nat /\ m[i].last \in Nat
  BY <1>6, RangeNumbers
<1>9. Apart(m)
  <2> SUFFICES ASSUME NEW i \in 1 .. Len(m)
               PROVE  /\ m[i].first < m[i].last
                      /\ i > 1 => m[i - 1].last + 1 < m[i].first
    BY <1>8 DEF Apart
  <2>1. CASE i <= l
    <3>1. i \in 1 .. l /\ i \in 1 .. N /\ (i > 1 => i - 1 \in 1 .. l)
      BY <1>2, <1>3, <2>1, <1>8
    <3> QED BY <1>6, <1>7, <3>1
  <2>2. CASE i = l + 1
    <3>1. m[i] = new
      BY <1>6, <2>2
    <3>2. i > 1 => l > 0 /\ l \in 1 .. l /\ i - 1 = l
      BY <1>3, <2>2
    <3>3. i > 1 => m[i - 1] = ranges[l]
      BY <1>6, <3>2
    <3> QED BY <1>4, <3>1, <3>2, <3>3
  <2>3. CASE i = l + 2
    <3>1. r <= N /\ i \in l + 2 .. Len(m) /\ i - (l + 2) + r = r /\ r \in 1 .. N
          /\ i - 1 = l + 1
      BY <1>2, <1>3, <1>6, <2>3
    <3>2. m[i] = ranges[r] /\ m[i - 1] = new
      BY <1>6, <3>1
    <3> QED BY <1>4, <1>7, <3>1, <3>2
  <2>4. CASE i > l + 2
    <3> DEFINE j == i - (l + 2) + r
    <3>1. /\ i \in l + 2 .. Len(m) /\ i - 1 \in l + 2 .. Len(m)
          /\ j \in 1 .. N /\ j > 1 /\ (i - 1) - (l + 2) + r = j - 1
      BY <1>3, <1>6, <2>4, <1>2
    <3>2. m[i] = ranges[j] /\ m[i - 1] = ranges[j - 1]
      BY <1>6, <3>1
    <3> HIDE DEF j
    <3> QED BY <1>7, <3>1, <3>2
  <2> QED BY <1>3, <2>1, <2>2, <2>3, <2>4
<1>10. \A b \in Nat : (\E i \in 1 .. Len(m) : In(m, i, b))
                        <=> (\E n \in 1 .. N : In(ranges, n, b)) \/ (start <= b /\ b <= end)
  <2> SUFFICES ASSUME NEW b \in Nat
               PROVE  (\E i \in 1 .. Len(m) : In(m, i, b))
                        <=> (\E n \in 1 .. N : In(ranges, n, b)) \/ (start <= b /\ b <= end)
    OBVIOUS
  <2>1. ASSUME NEW i \in 1 .. Len(m), In(m, i, b)
        PROVE  (\E n \in 1 .. N : In(ranges, n, b)) \/ (start <= b /\ b <= end)
    <3>1. CASE i <= l
      <4>1. i \in 1 .. l /\ i \in 1 .. N
        BY <1>2, <1>3, <3>1
      <4>2. In(ranges, i, b)
        BY <1>6, <2>1, <4>1 DEF In
      <4> QED BY <4>1, <4>2
    <3>2. CASE i = l + 1
      <4>1. new.first <= b /\ b <= new.last
        BY <1>6, <2>1, <3>2 DEF In
      <4>2. \A n \in l + 1 .. r - 1 : n \in 1 .. N
        BY <1>2, <1>3
      <4> QED BY <1>4, <4>1, <4>2
    <3>3. CASE i > l + 1
      <4>1. i \in l + 2 .. Len(m) /\ i - (l + 2) + r \in 1 .. N
        BY <1>2, <1>3, <1>6, <3>3
      <4>2. In(ranges, i - (l + 2) + r, b)
        BY <1>6, <2>1, <4>1 DEF In
      <4> QED BY <4>1, <4>2
    <3> QED BY <1>3, <3>1, <3>2, <3>3
  <2>2. l + 1 \in 1 .. Len(m) /\ (In(m, l + 1, b) <=> new.first <= b /\ b <= new.last)
    BY <1>2, <1>3, <1>6 DEF In
  <2>3. ASSUME start <= b, b <= end
        PROVE  \E i \in 1 .. Len(m) : In(m, i, b)
    BY <1>4, <2>2, <2>3
  <2>4. ASSUME NEW n \in 1 .. N, In(ranges, n, b)
        PROVE  \E i \in 1 .. Len(m) : In(m, i, b)
    <3>1. CASE n <= l
      <4>1. n \in 1 .. l /\ n \in 1 .. Len(m)
        BY <1>2, <1>3, <1>6, <3>1
      <4>2. In(m, n, b)
        BY <1>6, <2>4, <4>1 DEF In
      <4> QED BY <4>1, <4>2
    <3>2. CASE n > l /\ n < r
      <4>1. n \in l + 1 .. r - 1
        BY <1>2, <1>3, <3>2
      <4> QED BY <1>4, <2>2, <2>4, <4>1
    <3>3. CASE n >= r
      <4> DEFINE i == n - r + l + 2
      <4>1. i \in l + 2 .. Len(m) /\ i \in 1 .. Len(m) /\ i - (l + 2) + r = n
        BY <1>2, <1>3, <1>6, <3>3
      <4>2. m[i] = ranges[n]
        BY <1>6, <4>1
      <4> HIDE DEF i
      <4>3. In(m, i, b)
        BY <2>4, <4>2 DEF In
      <4> QED BY <4>1, <4>3
    <3> QED BY <1>2, <1>3, <3>1, <3>2, <3>3
  <2> QED BY <2>1, <2>3, <2>4
<1>11. Covered(m) = Covered(ranges) \cup start .. end
  <2>1. \A b : b \in Covered(m) <=> b \in Nat /\ \E i \in 1 .. Len(m) : In(m, i, b)
    BY <1>6, CoveredIs
  <2>2. \A b : b \in Covered(ranges) <=> b \in Nat /\ \E i \in 1 .. N : In(ranges, i, b)
    BY CoveredIs DEF N
  <2>3. \A b : b \in start .. end <=> b \in Nat /\ start <= b /\ b <= end
    OBVIOUS
  <2>4. \A b : b \in Covered(m) <=> b \in Covered(ranges) \/ b \in start .. end
    BY <1>10, <2>1, <2>2, <2>3
  <2> QED BY <2>4
<1> QED BY <1>6, <1>9, <1>11 DEF m

-----------------------------------------------------------------------------
(* Completeness.                                                           *)

\* No piece starts exactly one byte behind the end of another one.  Pieces of a
\* grid of chunks of at least two bytes are like that (ChunksMeet below).
PiecesMeet(a) == \A p, q \in Pieces[a] : q[1] # p[1] + p[2] + 1

\* What was written are whole pieces.
WholePieces(bytes, a) == \E P \in SUBSET Pieces[a] : bytes = UNION {Bytes(p) : p \in P}

\* Ranges that are apart and cover everything are a single one.
LEMMA AllCoveredIsComplete ==
  ASSUME NEW ranges \in Seq(RangeType), Apart(ranges), NEW total \in Nat,
         Covered(ranges) = 0 .. total
  PROVE  IsComplete(ranges, total)
<1>1. /\ Len(ranges) \in Nat /\ DOMAIN ranges = 1 .. Len(ranges)
      /\ \A i \in 1 .. Len(ranges) :
           /\ ranges[i].first \in Nat /\ ranges[i].last \in Nat
           /\ ranges[i].first < ranges[i].last
  BY RangeNumbers DEF Apart
<1>2. \A b \in Nat : b <= total <=> \E i \in 1 .. Len(ranges) : In(ranges, i, b)
  <2>1. \A b \in Nat : b \in Covered(ranges) <=> b <= total
    OBVIOUS
  <2>2. \A b \in Nat : b \in Covered(ranges) <=> \E i \in 1 .. Len(ranges) : In(ranges, i, b)
    BY CoveredIs
  <2> QED BY <2>1, <2>2
<1>3. PICK f \in 1 .. Len(ranges) : In(ranges, f, 0)
  BY <1>2
<1>4. ranges[f].first = 0
  BY <1>1, <1>3 DEF In
<1>5. \A i \in 1 .. Len(ranges) : ranges[i].last <= total
  <2> SUFFICES ASSUME NEW i \in 1 .. Len(ranges)
               PROVE  ranges[i].last <= total
    OBVIOUS
  <2>1. In(ranges, i, ranges[i].last)
    BY <1>1 DEF In
  <2> QED BY <1>1, <1>2, <2>1
<1>6. ASSUME NEW i \in 1 .. Len(ranges), i # f
      PROVE  FALSE
  <2>1. CASE i < f
    <3>1. ranges[i].last + 1 < ranges[f].first
      BY <2>1, AllApart
    <3> QED BY <1>1, <1>4, <3>1
  <2>2. CASE i > f
    <3> DEFINE b == ranges[f].last + 1
    <3>1. b \in Nat /\ b < ranges[i].first
      BY <1>1, <2>2, AllApart
    <3>2. b <= total
      <4>1. ranges[i].first \in Nat /\ ranges[i].last \in Nat
            /\ ranges[i].first < ranges[i].last /\ ranges[i].last <= total
        BY <1>1, <1>5
      <4> QED BY <3>1, <4>1
    <3>3. PICK j \in 1 .. Len(ranges) : In(ranges, j, b)
      BY <1>2, <3>1, <3>2
    <3>4. CASE j = f
      BY <1>1, <3>3, <3>4 DEF In
    <3>5. CASE j < f
      <4>1. ranges[j].last + 1 < ranges[f].first
        BY <3>5, AllApart
      <4> QED BY <1>1, <1>4, <4>1
    <3>6. CASE j > f
      <4>1. b < ranges[j].first
        BY <3>6, AllApart
      <4> QED BY <1>1, <3>1, <3>3, <4>1 DEF In
    <3> QED BY <1>1, <3>4, <3>5, <3>6
  <2> QED BY <1>1, <1>6, <2>1, <2>2
<1>7. f = 1 /\ Len(ranges) = 1
  BY <1>1, <1>6
<1>8. ranges[1].last = total
  <2>1. PICK i \in 1 .. Len(ranges) : In(ranges, i, total)
    BY <1>2
  <2>2. i = 1
    BY <1>7
  <2> QED BY <1>1, <1>5, <1>7, <2>1, <2>2 DEF In
<1>9. ranges[1] = RangeOf(0, total)
  <2>1. ranges[1] \in RangeType
    BY <1>7, RangeNumbers
  <2> QED BY <1>4, <1>7, <1>8, <2>1 DEF RangeType, RangeOf
<1> QED BY <1>7, <1>9 DEF IsComplete

LEMMA SingleCovers ==
  ASSUME NEW total \in Nat
  PROVE  Covered(<<RangeOf(0, total)>>) = 0 .. total
<1> DEFINE ranges == <<RangeOf(0, total)>>
<1>1. DOMAIN ranges = {1} /\ ranges[1].first = 0 /\ ranges[1].last = total
  BY DEF RangeOf
<1> HIDE DEF ranges
<1>2. Covered(ranges) = UNION {0 .. total}
  BY <1>1 DEF Covered
<1> QED BY <1>2 DEF ranges

\* Written pieces that meet leave no gap below the last recorded position.
LEMMA NoGaps ==
  ASSUME NEW a \in Asset, PiecesMeet(a), NEW bytes, WholePieces(bytes, a),
         WithNext(bytes) = 0 .. Size[a]
  PROVE  bytes = 0 .. Size[a] - 1
<1>1. PICK P \in SUBSET Pieces[a] : bytes = UNION {Bytes(p) : p \in P}
  BY DEF WholePieces
<1>2. Size[a] \in Nat \ {0}
  BY StoreAssumption
<1>3. \A p \in P : p[1] \in Nat /\ p[2] \in Nat \ {0} /\ p[1] + p[2] <= Size[a]
  BY StoreAssumption
<1>4. \A b : b \in bytes <=> \E p \in P : b \in Bytes(p)
  BY <1>1
<1>5. \A p \in P : \A b : b \in Bytes(p) <=> b \in Nat /\ p[1] <= b /\ b < p[1] + p[2]
  BY <1>3 DEF Bytes
<1>6. ASSUME NEW b \in bytes
      PROVE  b \in 0 .. Size[a] - 1
  <2>1. PICK p \in P : b \in Bytes(p)
    BY <1>4
  <2> QED BY <1>2, <1>3, <1>5, <2>1
<1>7. ASSUME NEW b \in 0 .. Size[a] - 1, b \notin bytes
      PROVE  FALSE
  <2>1. b \in WithNext(bytes) /\ b + 1 \in WithNext(bytes)
    BY <1>2
  <2>2. PICK c \in bytes : b = c + 1
    BY <1>7, <2>1 DEF WithNext
  <2>3. PICK p \in P : c \in Bytes(p)
    BY <1>4
  <2>4. p[1] + p[2] = b
    BY <1>3, <1>4, <1>5, <1>7, <2>2, <2>3
  <2>5. b + 1 \in bytes
    <3>1. \A d \in bytes : b + 1 = d + 1 => d = b
      BY <1>6
    <3> QED BY <1>7, <2>1, <3>1 DEF WithNext
  <2>6. PICK q \in P : b + 1 \in Bytes(q)
    BY <1>4, <2>5
  <2>7. q[1] = b + 1
    BY <1>3, <1>4, <1>5, <1>7, <2>6
  <2> QED BY <2>4, <2>7 DEF PiecesMeet
<1> QED BY <1>6, <1>7

-----------------------------------------------------------------------------
(* The inductive invariant.                                                *)

\* What is recorded of the bytes that were written of asset a: an asset that
\* is not complete has not just been completed by its ranges.
Records(entry, bytes, a) ==
  /\ entry.complete =>
       (PiecesMeet(a) => bytes = 0 .. Size[a] - 1)
  /\ ~entry.complete =>
       /\ Apart(entry.ranges)
       /\ Covered(entry.ranges) = WithNext(bytes)
       /\ ~IsComplete(entry.ranges, Size[a])
       /\ WholePieces(bytes, a)

EntryOK(entry, bytes, a) ==
  /\ entry \in {NoEntry} \cup EntryType
  /\ bytes \in SUBSET (0 .. Size[a] - 1)
  /\ entry = NoEntry => bytes = {}
  /\ entry # NoEntry => Records(entry, bytes, a)

StoreOK(store, bytes) ==
  /\ store = [a \in Asset |-> store[a]]
  /\ bytes = [a \in Asset |-> bytes[a]]
  /\ \A a \in Asset : EntryOK(store[a], bytes[a], a)

IInv ==
  /\ StoreOK(entries, written)
  /\ nextPrune \in Nat
  /\ now \in Nat

LEMMA BytesIs ==
  ASSUME NEW a \in Asset, NEW p \in Pieces[a]
  PROVE  /\ p[1] \in Nat /\ p[1] + p[2] \in Nat /\ p[1] < p[1] + p[2]
         /\ Bytes(p) \subseteq 0 .. Size[a] - 1
         /\ WithNext(Bytes(p)) = p[1] .. p[1] + p[2]
<1>1. p[1] \in Nat /\ p[2] \in Nat \ {0} /\ p[1] + p[2] <= Size[a] /\ Size[a] \in Nat
  BY StoreAssumption
<1>2. ASSUME NEW b \in p[1] .. p[1] + p[2]
      PROVE  b \in WithNext(Bytes(p))
  <2>1. CASE b = p[1]
    BY <1>1, <2>1 DEF WithNext, Bytes
  <2>2. CASE b # p[1]
    <3>1. b - 1 \in Bytes(p) /\ b = (b - 1) + 1
      BY <1>1, <2>2 DEF Bytes
    <3> QED BY <3>1 DEF WithNext
  <2> QED BY <2>1, <2>2
<1>3. ASSUME NEW b \in WithNext(Bytes(p))
      PROVE  b \in p[1] .. p[1] + p[2]
  BY <1>1 DEF WithNext, Bytes
<1>4. Bytes(p) \subseteq 0 .. Size[a] - 1
  BY <1>1 DEF Bytes
<1>5. WithNext(Bytes(p)) = p[1] .. p[1] + p[2]
  BY <1>2, <1>3
<1>6. p[1] + p[2] \in Nat /\ p[1] < p[1] + p[2]
  BY <1>1
<1> QED BY <1>1, <1>4, <1>5, <1>6

LEMMA WholePiecesGrow ==
  ASSUME NEW a \in Asset, NEW p \in Pieces[a], NEW bytes, WholePieces(bytes, a)
  PROVE  WholePieces(bytes \cup Bytes(p), a)
<1>1. PICK P \in SUBSET Pieces[a] : bytes = UNION {Bytes(q) : q \in P}
  BY DEF WholePieces
<1>2. bytes \cup Bytes(p) = UNION {Bytes(q) : q \in P \cup {p}}
  BY <1>1
<1>3. P \cup {p} \in SUBSET Pieces[a]
  OBVIOUS
<1> QED BY <1>2, <1>3 DEF WholePieces

\* A write of any piece keeps the record.
LEMMA WithPieceOK ==
  ASSUME NEW a \in Asset, NEW p \in Pieces[a], NEW entry \in EntryType,
         NEW bytes \in SUBSET (0 .. Size[a] - 1), Records(entry, bytes, a)
  PROVE  /\ WithPiece(entry, p, Size[a]) \in EntryType
         /\ Records(WithPiece(entry, p, Size[a]), bytes \cup Bytes(p), a)
<1> DEFINE ranges == MergeRange(entry.ranges, p[1], p[1] + p[2])
           after == WithPiece(entry, p, Size[a])
<1>1. /\ entry.ranges \in Seq(RangeType) /\ entry.complete \in BOOLEAN
      /\ Size[a] \in Nat \ {0}
  BY StoreAssumption DEF EntryType
<1>2. CASE entry.complete
  <2>1. after = entry
    BY <1>2 DEF WithPiece
  <2>2. bytes = 0 .. Size[a] - 1 => bytes \cup Bytes(p) = bytes
    BY BytesIs
  <2> QED BY <1>2, <2>1, <2>2 DEF Records
<1>3. CASE ~entry.complete
  <2>1. /\ Apart(entry.ranges) /\ Covered(entry.ranges) = WithNext(bytes)
        /\ WholePieces(bytes, a)
    BY <1>3 DEF Records
  <2>2. /\ ranges \in Seq(RangeType) /\ Apart(ranges)
        /\ Covered(ranges) = Covered(entry.ranges) \cup p[1] .. p[1] + p[2]
    BY <1>1, <2>1, BytesIs, MergeExact
  <2>3. Covered(ranges) = WithNext(bytes \cup Bytes(p))
    <3>1. WithNext(bytes \cup Bytes(p)) = WithNext(bytes) \cup WithNext(Bytes(p))
      BY DEF WithNext
    <3> QED BY <2>1, <2>2, <3>1, BytesIs
  <2>4. WholePieces(bytes \cup Bytes(p), a)
    BY <2>1, WholePiecesGrow
  <2> HIDE DEF ranges
  <2>5. CASE IsComplete(ranges, Size[a])
    <3>1. after = [entry EXCEPT !.complete = TRUE, !.ranges = <<>>]
      BY <1>3, <2>5 DEF WithPiece, ranges
    <3>2. after \in EntryType /\ after.complete
      <4>1. /\ entry = [complete |-> entry.complete, ranges |-> entry.ranges, lru |-> entry.lru]
            /\ entry.lru \in Nat \cup {Static}
        BY DEF EntryType
      <4>2. after = [complete |-> TRUE, ranges |-> <<>>, lru |-> entry.lru]
        BY <3>1, <4>1
      <4>3. <<>> \in Seq(RangeType)
        OBVIOUS
      <4> QED BY <4>1, <4>2, <4>3 DEF EntryType
    <3>3. ASSUME PiecesMeet(a)
          PROVE  bytes \cup Bytes(p) = 0 .. Size[a] - 1
      <4>1. Covered(ranges) = 0 .. Size[a]
        BY <1>1, <2>5, SingleCovers DEF IsComplete
      <4> QED BY <2>3, <2>4, <3>3, <4>1, NoGaps
    <3> QED BY <3>2, <3>3 DEF Records
  <2>6. CASE ~IsComplete(ranges, Size[a])
    <3>1. after = [entry EXCEPT !.ranges = ranges]
      BY <1>3, <2>6 DEF WithPiece, ranges
    <3>2. after \in EntryType /\ ~after.complete /\ after.ranges = ranges
      BY <1>3, <2>2, <3>1 DEF EntryType
    <3> QED BY <2>2, <2>3, <2>4, <2>6, <3>2 DEF Records
  <2> QED BY <2>5, <2>6
<1> QED BY <1>1, <1>2, <1>3

LEMMA TaggedOK ==
  ASSUME now \in Nat, NEW a \in Asset, NEW entry \in EntryType, NEW bytes,
         Records(entry, bytes, a)
  PROVE  /\ Tagged(entry) \in EntryType
         /\ Records(Tagged(entry), bytes, a)
         /\ Tagged(entry).lru \in {Static, now}
<1>1. CASE entry.lru = Static
  BY <1>1 DEF Tagged
<1>2. CASE entry.lru # Static
  <2>1. Tagged(entry) = [entry EXCEPT !.lru = now]
    BY <1>2 DEF Tagged
  <2>2. /\ Tagged(entry).complete = entry.complete
        /\ Tagged(entry).ranges = entry.ranges
        /\ Tagged(entry).lru = now
        /\ Tagged(entry) \in EntryType
    BY <2>1 DEF EntryType
  <2> QED BY <2>2 DEF Records
<1> QED BY <1>1, <1>2

\* The entry a write starts with
LEMMA FreshOK ==
  ASSUME now \in Nat, NEW a \in Asset
  PROVE  FreshEntry \in EntryType /\ Records(FreshEntry, {}, a)
<1>1. FreshEntry \in EntryType
  <2>1. <<>> \in Seq(RangeType)
    OBVIOUS
  <2> QED BY <2>1 DEF FreshEntry, EntryType
<1>2. /\ ~FreshEntry.complete /\ FreshEntry.ranges = <<>>
  BY DEF FreshEntry
<1>3. Apart(<<>>) /\ Covered(<<>>) = {} /\ WithNext({}) = {}
  BY DEF Apart, Covered, WithNext
<1>4. ~IsComplete(<<>>, Size[a])
  BY DEF IsComplete
<1>5. WholePieces({}, a)
  <2>1. {} = UNION {Bytes(p) : p \in {}}
    OBVIOUS
  <2> QED BY <2>1 DEF WholePieces
<1> QED BY <1>1, <1>2, <1>3, <1>4, <1>5 DEF Records

-----------------------------------------------------------------------------
(* The actions.                                                            *)

\* Pruning takes entries away as a whole, and only what is neither kept for
\* good nor was in use in the last MinAge seconds.
LEMMA PruneAfterOK ==
  ASSUME NEW store, NEW bytes, StoreOK(store, bytes), nextPrune \in Nat, now \in Nat,
         PruneAfter(store, bytes)
  PROVE  /\ StoreOK(entries', written')
         /\ nextPrune' \in Nat
         /\ \A a \in Asset :
              store[a] # NoEntry /\ (store[a].lru = Static \/ store[a].lru >= now - MinAge)
                => entries'[a] = store[a]
<1>1. /\ store = [a \in Asset |-> store[a]]
      /\ bytes = [a \in Asset |-> bytes[a]]
      /\ \A a \in Asset : EntryOK(store[a], bytes[a], a)
  BY DEF StoreOK
<1>2. /\ MinAge \in Nat /\ MaxAge \in Nat /\ Interval \in Nat /\ MinAge < MaxAge
  BY StoreAssumption
<1>3. CASE nextPrune < now
  <2>1. PICK dropped \in SUBSET Asset :
          /\ Dropped(store, dropped)
          /\ entries' = [a \in Asset |-> IF a \in dropped THEN NoEntry ELSE store[a]]
          /\ written' = [a \in Asset |-> IF a \in dropped THEN {} ELSE bytes[a]]
          /\ nextPrune' = now + Interval
    BY <1>3 DEF PruneAfter
  <2>2. dropped \subseteq OlderThan(store, MaxAge) \cup Candidates(store)
    BY <2>1 DEF Dropped, DropsForBytes, DropsForCount
  <2>3. ASSUME NEW a \in Asset
        PROVE  EntryOK(entries'[a], written'[a], a)
    <3>1. CASE a \in dropped
      <4>1. entries'[a] = NoEntry /\ written'[a] = {}
        BY <2>1, <3>1
      <4> QED BY <4>1 DEF EntryOK
    <3>2. CASE a \notin dropped
      <4>1. entries'[a] = store[a] /\ written'[a] = bytes[a]
        BY <2>1, <3>2
      <4> QED BY <1>1, <4>1
    <3> QED BY <3>1, <3>2
  <2>4. ASSUME NEW a \in Asset, store[a] # NoEntry,
               store[a].lru = Static \/ store[a].lru >= now - MinAge
        PROVE  entries'[a] = store[a]
    <3>1. store[a].lru \in Nat \cup {Static}
      BY <1>1, <2>4 DEF EntryOK, EntryType
    <3>2. ~(store[a].lru # Static /\ store[a].lru < now - MinAge)
      BY <1>2, <2>4, <3>1
    <3>3. ~(store[a].lru # Static /\ store[a].lru < now - MaxAge)
      BY <1>2, <2>4, <3>1
    <3>4. a \notin dropped
      BY <2>2, <3>2, <3>3 DEF OlderThan, Candidates
    <3> QED BY <2>1, <3>4
  <2>5. nextPrune' \in Nat
    BY <1>2, <2>1
  <2>6. StoreOK(entries', written')
    BY <2>1, <2>3 DEF StoreOK
  <2> QED BY <2>4, <2>5, <2>6
<1>4. CASE ~(nextPrune < now)
  BY <1>4 DEF PruneAfter
<1> QED BY <1>3, <1>4

\* What a write and a read do before pruning
LEMMA StoreUpdated ==
  ASSUME IInv, NEW a \in Asset, NEW entry \in EntryType,
         NEW bytes \in SUBSET (0 .. Size[a] - 1), Records(entry, bytes, a)
  PROVE  /\ StoreOK([entries EXCEPT ![a] = entry], [written EXCEPT ![a] = bytes])
         /\ [entries EXCEPT ![a] = entry][a] = entry
         /\ \A b \in Asset : b # a => [entries EXCEPT ![a] = entry][b] = entries[b]
<1> DEFINE store == [entries EXCEPT ![a] = entry]
           after == [written EXCEPT ![a] = bytes]
<1>1. /\ entries = [b \in Asset |-> entries[b]] /\ written = [b \in Asset |-> written[b]]
      /\ \A b \in Asset : EntryOK(entries[b], written[b], b)
  BY DEF IInv, StoreOK
<1>2. /\ store = [b \in Asset |-> store[b]] /\ after = [b \in Asset |-> after[b]]
      /\ store[a] = entry /\ after[a] = bytes
      /\ \A b \in Asset : b # a => store[b] = entries[b] /\ after[b] = written[b]
  BY <1>1
<1> HIDE DEF store, after
<1>3. EntryOK(entry, bytes, a)
  BY StoreAssumption DEF EntryOK
<1>4. \A b \in Asset : EntryOK(store[b], after[b], b)
  BY <1>1, <1>2, <1>3
<1>5. StoreOK(store, after)
  BY <1>2, <1>4 DEF StoreOK
<1> QED BY <1>2, <1>5 DEF store, after

\* What no step may drop
Kept(a) ==
  InUse(a) \/ Read(a) \/ (\E p \in Pieces[a] : Write(a, p)) => a \in Stored'

LEMMA NextPruneMoves ==
  ASSUME NEW store, NEW bytes, nextPrune \in Nat, now \in Nat, PruneAfter(store, bytes)
  PROVE  nextPrune' \in Nat
BY StoreAssumption DEF PruneAfter

\* An operation on asset a that leaves `entry` and `bytes` of it
LEMMA OperationStep ==
  ASSUME IInv, NEW a \in Asset, NEW entry \in EntryType,
         NEW bytes \in SUBSET (0 .. Size[a] - 1), Records(entry, bytes, a),
         entry.lru \in {Static, now}, UNCHANGED now,
         PruneAfter([entries EXCEPT ![a] = entry], [written EXCEPT ![a] = bytes])
  PROVE  /\ IInv'
         /\ a \in Stored'
         /\ \A b \in Asset : InUse(b) => b \in Stored'
<1> DEFINE store == [entries EXCEPT ![a] = entry]
           after == [written EXCEPT ![a] = bytes]
<1>1. /\ StoreOK(store, after) /\ store[a] = entry
      /\ \A b \in Asset : b # a => store[b] = entries[b]
  BY StoreUpdated
<1>2. PruneAfter(store, after)
  OBVIOUS
<1> HIDE DEF store, after
<1>3. nextPrune \in Nat /\ now \in Nat /\ MinAge \in Nat /\ entry # NoEntry
  BY StoreAssumption DEF IInv
<1>4. /\ StoreOK(entries', written') /\ nextPrune' \in Nat
      /\ \A b \in Asset :
           store[b] # NoEntry /\ (store[b].lru = Static \/ store[b].lru >= now - MinAge)
             => entries'[b] = store[b]
  BY <1>1, <1>2, <1>3, PruneAfterOK
<1>5. IInv'
  BY <1>3, <1>4 DEF IInv, StoreOK
<1>6. entries'[a] = entry
  <2>1. entry.lru = Static \/ entry.lru >= now - MinAge
    BY <1>3
  <2> QED BY <1>1, <1>3, <1>4, <2>1
<1>7. a \in Stored'
  BY <1>3, <1>6 DEF Stored
<1>8. ASSUME NEW b \in Asset, InUse(b), b # a
      PROVE  b \in Stored'
  <2>1. store[b] = entries[b] /\ entries[b] # NoEntry
        /\ (entries[b].lru = Static \/ entries[b].lru >= now - MinAge)
    BY <1>1, <1>8 DEF InUse, Stored
  <2>2. entries'[b] = entries[b]
    BY <1>4, <2>1
  <2> QED BY <2>1, <2>2 DEF Stored
<1> QED BY <1>5, <1>7, <1>8

LEMMA WriteStep ==
  ASSUME IInv, NEW a \in Asset, NEW p \in Pieces[a], Write(a, p)
  PROVE  IInv' /\ a \in Stored' /\ \A b \in Asset : InUse(b) => b \in Stored'
<1> DEFINE before == IF entries[a] = NoEntry THEN FreshEntry ELSE entries[a]
           piece == WithPiece(before, p, Size[a])
           entry == Tagged(piece)
           bytes == written[a] \cup Bytes(p)
<1>1. /\ EntryOK(entries[a], written[a], a) /\ now \in Nat
      /\ written = [b \in Asset |-> written[b]]
  BY DEF IInv, StoreOK
<1>2. /\ before \in EntryType /\ Records(before, written[a], a)
      /\ written[a] \in SUBSET (0 .. Size[a] - 1)
  <2>1. CASE entries[a] = NoEntry
    BY <1>1, <2>1, FreshOK DEF EntryOK
  <2>2. CASE entries[a] # NoEntry
    BY <1>1, <2>2 DEF EntryOK
  <2> QED BY <2>1, <2>2
<1> HIDE DEF before
<1>3. /\ piece \in EntryType /\ Records(piece, bytes, a)
      /\ bytes \in SUBSET (0 .. Size[a] - 1)
  BY <1>2, WithPieceOK, BytesIs
<1> HIDE DEF piece
<1>4. entry \in EntryType /\ Records(entry, bytes, a) /\ entry.lru \in {Static, now}
  BY <1>1, <1>3, TaggedOK
<1>5. /\ PruneAfter([entries EXCEPT ![a] = entry], [written EXCEPT ![a] = bytes])
      /\ UNCHANGED now
  <2>1. [written EXCEPT ![a] = @ \cup Bytes(p)] = [written EXCEPT ![a] = bytes]
    BY <1>1
  <2> QED BY <2>1 DEF Write, before, piece
<1> HIDE DEF entry, bytes
<1> QED BY <1>3, <1>4, <1>5, OperationStep

LEMMA ReadStep ==
  ASSUME IInv, NEW a \in Asset, Read(a)
  PROVE  IInv' /\ a \in Stored' /\ \A b \in Asset : InUse(b) => b \in Stored'
<1> DEFINE entry == Tagged(entries[a])
<1>1. /\ EntryOK(entries[a], written[a], a) /\ now \in Nat
      /\ written = [b \in Asset |-> written[b]]
      /\ entries = [b \in Asset |-> entries[b]]
  BY DEF IInv, StoreOK
<1>2. entries[a] \in EntryType /\ Records(entries[a], written[a], a)
      /\ written[a] \in SUBSET (0 .. Size[a] - 1)
  BY <1>1 DEF EntryOK, Read, Stored
<1>3. entry \in EntryType /\ Records(entry, written[a], a) /\ entry.lru \in {Static, now}
  BY <1>1, <1>2, TaggedOK
<1>4. /\ PruneAfter([entries EXCEPT ![a] = entry], [written EXCEPT ![a] = written[a]])
      /\ UNCHANGED now
  <2>1. [written EXCEPT ![a] = written[a]] = written
    BY <1>1
  <2>2. [entries EXCEPT ![a] = Tagged(@)] = [entries EXCEPT ![a] = entry]
    BY <1>1
  <2> QED BY <2>1, <2>2 DEF Read
<1> HIDE DEF entry
<1> QED BY <1>2, <1>3, <1>4, OperationStep

LEMMA RegisterStep ==
  ASSUME IInv, NEW a \in Asset, Register(a)
  PROVE  IInv' /\ \A b \in Asset : InUse(b) => b \in Stored'
<1> DEFINE entry == [complete |-> TRUE, ranges |-> <<>>, lru |-> Static]
           bytes == 0 .. Size[a] - 1
<1>1. entry \in EntryType /\ entry # NoEntry
  <2>1. <<>> \in Seq(RangeType)
    OBVIOUS
  <2>2. entry \in EntryType
    BY <2>1 DEF EntryType
  <2>3. NoEntry \notin EntryType
    BY StoreAssumption
  <2> QED BY <2>2, <2>3
<1>2. Records(entry, bytes, a) /\ bytes \in SUBSET (0 .. Size[a] - 1)
  BY DEF Records
<1>3. /\ entries' = [entries EXCEPT ![a] = entry]
      /\ written' = [written EXCEPT ![a] = bytes]
      /\ UNCHANGED <<nextPrune, now>>
  BY DEF Register
<1> HIDE DEF entry, bytes
<1>4. /\ StoreOK(entries', written') /\ entries'[a] = entry
      /\ \A b \in Asset : b # a => entries'[b] = entries[b]
  <2>1. /\ StoreOK([entries EXCEPT ![a] = entry], [written EXCEPT ![a] = bytes])
        /\ [entries EXCEPT ![a] = entry][a] = entry
        /\ \A b \in Asset : b # a => [entries EXCEPT ![a] = entry][b] = entries[b]
    BY <1>1, <1>2, StoreUpdated
  <2> QED BY <1>3, <2>1
<1>5. IInv'
  BY <1>3, <1>4 DEF IInv, StoreOK
<1> QED BY <1>1, <1>4, <1>5 DEF InUse, Stored

LEMMA InitOK == Init => IInv
<1> SUFFICES ASSUME Init
             PROVE  IInv
  OBVIOUS
<1>1. \A a \in Asset : EntryOK(entries[a], written[a], a)
  BY DEF Init, EntryOK
<1> QED BY <1>1 DEF Init, IInv, StoreOK

LEMMA StepOK ==
  ASSUME IInv, [Next]_vars
  PROVE  IInv' /\ (UNCHANGED vars \/ \A a \in Asset : Kept(a))
<1>1. CASE \E a \in Asset : \E p \in Pieces[a] : Write(a, p)
  <2>1. IInv' /\ \A b \in Asset : InUse(b) => b \in Stored'
    BY <1>1, WriteStep
  <2>2. \A a \in Asset : (\E p \in Pieces[a] : Write(a, p)) => a \in Stored'
    BY WriteStep
  <2>3. \A a \in Asset : Read(a) => a \in Stored'
    BY ReadStep
  <2> QED BY <2>1, <2>2, <2>3 DEF Kept
<1>2. CASE \E a \in Asset : Read(a)
  <2>1. IInv' /\ \A b \in Asset : InUse(b) => b \in Stored'
    BY <1>2, ReadStep
  <2>2. \A a \in Asset : (\E p \in Pieces[a] : Write(a, p)) => a \in Stored'
    BY WriteStep
  <2>3. \A a \in Asset : Read(a) => a \in Stored'
    BY ReadStep
  <2> QED BY <2>1, <2>2, <2>3 DEF Kept
<1>3. CASE \E a \in Asset : Register(a)
  <2>1. IInv' /\ \A b \in Asset : InUse(b) => b \in Stored'
    BY <1>3, RegisterStep
  <2>2. \A a \in Asset : (\E p \in Pieces[a] : Write(a, p)) => a \in Stored'
    BY WriteStep
  <2>3. \A a \in Asset : Read(a) => a \in Stored'
    BY ReadStep
  <2> QED BY <2>1, <2>2, <2>3 DEF Kept
<1>4. CASE Tick
  <2>1. now' \in Nat /\ UNCHANGED <<entries, written, nextPrune>>
    BY <1>4 DEF Tick, IInv
  <2>2. IInv'
    BY <2>1 DEF IInv, StoreOK
  <2>3. \A a \in Asset : InUse(a) \/ Read(a) => a \in Stored'
    BY <2>1 DEF InUse, Read, Stored
  <2>4. \A a \in Asset : (\E p \in Pieces[a] : Write(a, p)) => a \in Stored'
    BY WriteStep
  <2> QED BY <2>2, <2>3, <2>4 DEF Kept
<1>5. CASE UNCHANGED vars
  BY <1>5 DEF vars, IInv, StoreOK
<1> QED BY <1>1, <1>2, <1>3, <1>4, <1>5 DEF Next

-----------------------------------------------------------------------------
(* The theorems.                                                           *)

THEOREM StoreInvariance == Spec => []IInv
<1>1. IInv /\ [Next]_vars => IInv'
  BY StepOK
<1> QED BY <1>1, InitOK, PTL DEF Spec

\* Every variable keeps its type.
THEOREM StoreTypes == Spec => []TypeOK
<1>1. IInv => TypeOK
  <2> SUFFICES ASSUME IInv
               PROVE  TypeOK
    OBVIOUS
  <2>1. /\ entries = [a \in Asset |-> entries[a]] /\ written = [a \in Asset |-> written[a]]
        /\ \A a \in Asset : EntryOK(entries[a], written[a], a)
    BY DEF IInv, StoreOK
  <2>2. \A a \in Asset : /\ entries[a] \in {NoEntry} \cup EntryType
                         /\ written[a] \in SUBSET (0 .. Size[a] - 1)
    BY <2>1 DEF EntryOK
  <2>3. \A a \in Asset : written[a] \in SUBSET Nat
    BY <2>2, StoreAssumption
  <2> QED BY <2>1, <2>2, <2>3 DEF TypeOK, IInv
<1> QED BY <1>1, StoreInvariance, PTL

\* Any writes, in any order, overlapping or repeated: _merge_range keeps the
\* ranges sorted and apart, and exact.
THEOREM RangesExactTheorem == Spec => []RangesExact
<1>1. IInv => RangesExact
  BY DEF IInv, StoreOK, EntryOK, Records, RangesExact, Stored
<1> QED BY <1>1, StoreInvariance, PTL

\* _update_asset_state misses no asset of which everything was written.
THEOREM WrittenIsCompleteTheorem == Spec => []WrittenIsComplete
<1>1. IInv => WrittenIsComplete
  <2> SUFFICES ASSUME IInv, NEW a \in Stored, written[a] = 0 .. Size[a] - 1,
                      ~entries[a].complete
               PROVE  FALSE
    BY DEF WrittenIsComplete
  <2>1. /\ a \in Asset /\ entries[a] \in EntryType
        /\ Records(entries[a], written[a], a)
    BY DEF IInv, StoreOK, EntryOK, Stored
  <2>2. /\ entries[a].ranges \in Seq(RangeType) /\ Apart(entries[a].ranges)
        /\ Covered(entries[a].ranges) = WithNext(0 .. Size[a] - 1)
        /\ ~IsComplete(entries[a].ranges, Size[a])
    BY <2>1 DEF Records, EntryType
  <2>3. Size[a] \in Nat \ {0}
    BY <2>1, StoreAssumption
  <2>4. ASSUME NEW b \in 0 .. Size[a]
        PROVE  b \in WithNext(0 .. Size[a] - 1)
    <3>1. CASE b = 0
      BY <2>3, <3>1 DEF WithNext
    <3>2. CASE b # 0
      <4>1. b - 1 \in 0 .. Size[a] - 1 /\ b = (b - 1) + 1
        BY <2>3, <3>2
      <4> QED BY <4>1 DEF WithNext
    <3> QED BY <3>1, <3>2
  <2>5. WithNext(0 .. Size[a] - 1) \subseteq 0 .. Size[a]
    BY <2>3 DEF WithNext
  <2>6. WithNext(0 .. Size[a] - 1) = 0 .. Size[a]
    BY <2>4, <2>5
  <2> QED BY <2>2, <2>3, <2>6, AllCoveredIsComplete
<1> QED BY <1>1, StoreInvariance, PTL

\* With pieces that leave no gap of one byte, what is called complete has every
\* byte.  Without that the code is wrong: the run StoreComplete shows it.
THEOREM CompleteExactlyTheorem ==
  ASSUME \A a \in Asset : PiecesMeet(a)
  PROVE  Spec => []CompleteExactly
<1>1. IInv => CompleteIsWritten
  BY DEF IInv, StoreOK, EntryOK, Records, CompleteIsWritten, Stored
<1> QED BY <1>1, StoreInvariance, WrittenIsCompleteTheorem, PTL DEF CompleteExactly

\* The chunks that clients and servers send each other are such pieces.
THEOREM ChunksMeet ==
  ASSUME NEW a \in Asset, NEW chunk \in Nat, chunk > 1,
         \A p \in Pieces[a] : /\ \E n \in Nat : p[1] = n * chunk
                              /\ p[2] = chunk \/ p[1] + p[2] = Size[a]
  PROVE  PiecesMeet(a)
<1> SUFFICES ASSUME NEW p \in Pieces[a], NEW q \in Pieces[a], q[1] = p[1] + p[2] + 1
             PROVE  FALSE
  BY DEF PiecesMeet
<1>1. /\ p[1] \in Nat /\ p[2] \in Nat /\ q[1] \in Nat /\ q[2] \in Nat \ {0}
      /\ q[1] + q[2] <= Size[a] /\ Size[a] \in Nat
  BY StoreAssumption
<1>2. p[2] = chunk
  BY <1>1
<1>3. PICK n \in Nat : p[1] = n * chunk
  OBVIOUS
<1>4. PICK k \in Nat : q[1] = k * chunk
  OBVIOUS
<1>5. k * chunk = n * chunk + chunk + 1
  BY <1>1, <1>2, <1>3, <1>4
<1>6. k <= n + 1 => k * chunk <= n * chunk + chunk
  BY <1>5
<1>7. k >= n + 2 => k * chunk >= n * chunk + 2 * chunk
  BY <1>5
<1> QED BY <1>5, <1>6, <1>7

\* Pruning never takes what is in use or what an operation is about.
THEOREM InUseKeptTheorem == Spec => InUseKept
<1>1. IInv /\ [Next]_vars => [\A a \in Asset : Kept(a)]_vars
  BY StepOK
<1>2. Spec => [][\A a \in Asset : Kept(a)]_vars
  BY <1>1, StoreInvariance, PTL DEF Spec
<1> QED BY <1>2 DEF InUseKept, Kept
=============================================================================
