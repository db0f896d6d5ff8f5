-------------------------- MODULE ValueArea_proofs --------------------------
(***************************************************************************)
(* The value area holds its share of the volume, has no bin too many and,  *)
(* where there is one peak, the most traded bins, as few as can be: for    *)
(* every histogram and every share.                                        *)
(***************************************************************************)
EXTENDS ValueArea, Arithmetic_proofs

\* With one peak, the bins next to the range were not traded more than any in it.
RangeIsHighest(l, h) ==
  OnePeak => \A i \in l .. h : /\ l > 1 => Volume(l - 1) <= Volume(i)
                               /\ h < n => Volume(h + 1) <= Volume(i)

NeighboursAreLower == RangeIsHighest(lo, hi)

IInv == /\ TypeOK
        /\ AccumulatedIsInside
        /\ CoversTarget
        /\ NoBinTooMany
        /\ NeighboursAreLower

----------------------------------------------------------------------------
(* Volumes *)

LEMMA VolumesArePositive ==
  ASSUME TypeOK
  PROVE  \A i \in Bins : Volume(i) \in Nat /\ Volume(i) > 0
<1> SUFFICES ASSUME NEW i \in Bins PROVE Volume(i) \in Nat /\ Volume(i) > 0
  OBVIOUS
<1>1. n \in Nat /\ i \in 0 .. n /\ i - 1 \in 0 .. n /\ i - 1 < i
  BY MaxBinsAssumption DEF TypeOK, Bins
<1>2. cum[i] \in Nat /\ cum[i - 1] \in Nat /\ cum[i - 1] < cum[i]
  BY <1>1 DEF TypeOK, Histogram
<1> QED BY <1>2 DEF Volume

\* No share is more than the whole.
LEMMA WholeCovers ==
  ASSUME NEW t \in Nat
  PROVE  ~(100 * t < Pct * t)
BY PctAssumption

LEMMA InitEstablishes == Init => IInv
<1> SUFFICES ASSUME Init PROVE IInv
  OBVIOUS
<1>1. TypeOK
  <2>1. /\ n \in 1 .. MaxBins /\ n \in Nat /\ cum \in Histogram(n)
        /\ poc \in 1 .. n /\ lo = poc /\ hi = poc
    BY MaxBinsAssumption DEF Init, Bins
  <2>2. lo \in 1 .. poc /\ hi \in poc .. n
    BY <2>1
  <2>3. ended \in BOOLEAN
    BY DEF Init
  <2> QED BY <2>1, <2>2, <2>3 DEF TypeOK, Bins
<1>2. \A j \in Bins : Volume(j) <= Volume(poc)
  BY DEF Init, IsPoc
<1>3. /\ n \in Nat /\ poc \in Int /\ lo = poc /\ hi = poc /\ ended = FALSE
      /\ accumulated = Volume(poc)
  BY MaxBinsAssumption DEF Init, Bins
<1>4. NeighboursAreLower
  <2> SUFFICES ASSUME NEW i \in lo .. hi
               PROVE  /\ lo > 1 => Volume(lo - 1) <= Volume(i)
                      /\ hi < n => Volume(hi + 1) <= Volume(i)
    BY DEF NeighboursAreLower, RangeIsHighest
  <2>1. i = poc /\ poc \in 1 .. n
    BY <1>1, <1>3 DEF TypeOK, Bins
  <2>2. (lo > 1 => lo - 1 \in Bins) /\ (hi < n => hi + 1 \in Bins)
    BY <1>3, <2>1 DEF Bins
  <2> QED BY <1>2, <1>3, <2>1, <2>2
<1> QED BY <1>1, <1>3, <1>4
        DEF IInv, AccumulatedIsInside, CoversTarget, NoBinTooMany, Volume

----------------------------------------------------------------------------
(* One more bin *)

\* Where the loop takes the upper bin there is one, and it is not smaller than
\* the lower one.
LEMMA UpperBinTaken ==
  ASSUME TypeOK, GrowUp
  PROVE  /\ hi \in Int /\ lo \in Int /\ n \in Nat /\ hi < n /\ hi' = hi + 1
         /\ lo > 1 => Volume(lo - 1) <= Volume(hi + 1)
<1>1. n \in Nat /\ poc \in Int /\ lo \in 1 .. poc /\ hi \in poc .. n
  BY MaxBinsAssumption DEF TypeOK, Bins
<1>2. CASE hi < n
  BY <1>1, <1>2 DEF GrowUp, Above, Below
<1>3. CASE ~(hi < n)
  <2>1. lo > 1 /\ Above = -1 /\ Below = Volume(lo - 1)
    BY <1>1, <1>3 DEF GrowUp, GoesOn, Above, Below
  <2>2. lo - 1 \in Bins
    BY <1>1, <2>1 DEF Bins
  <2> QED BY <2>1, <2>2, VolumesArePositive DEF GrowUp
<1> QED BY <1>2, <1>3

LEMMA LowerBinTaken ==
  ASSUME TypeOK, GrowDown
  PROVE  /\ hi \in Int /\ lo \in Int /\ n \in Nat /\ lo > 1 /\ lo' = lo - 1
         /\ hi < n => Volume(hi + 1) <= Volume(lo - 1)
<1>1. n \in Nat /\ poc \in Int /\ lo \in 1 .. poc /\ hi \in poc .. n
  BY MaxBinsAssumption DEF TypeOK, Bins
<1>2. CASE lo > 1
  <2>1. lo - 1 \in Bins /\ (hi < n => hi + 1 \in Bins)
    BY <1>1, <1>2 DEF Bins
  <2> QED BY <1>1, <1>2, <2>1, VolumesArePositive DEF GrowDown, Above, Below
<1>3. CASE ~(lo > 1)
  <2>1. hi < n /\ Below = -1 /\ Above = Volume(hi + 1)
    BY <1>1, <1>3 DEF GrowDown, GoesOn, Above, Below
  <2>2. hi + 1 \in Bins
    BY <1>1, <2>1 DEF Bins
  <2> QED BY <2>1, <2>2, VolumesArePositive DEF GrowDown
<1> QED BY <1>2, <1>3

LEMMA TypePreserved ==
  ASSUME TypeOK, [Next]_vars
  PROVE  TypeOK'
<1>0. n \in Nat /\ poc \in Int /\ lo \in 1 .. poc /\ hi \in poc .. n
  BY MaxBinsAssumption DEF TypeOK, Bins
<1>1. CASE GrowUp
  <2>1. UNCHANGED <<n, cum, poc, lo, ended>> /\ hi' \in poc .. n
    BY <1>0, <1>1, UpperBinTaken DEF GrowUp
  <2> QED BY <2>1 DEF TypeOK, Bins
<1>2. CASE GrowDown
  <2>1. UNCHANGED <<n, cum, poc, hi, ended>> /\ lo' \in 1 .. poc
    BY <1>0, <1>2, LowerBinTaken DEF GrowDown
  <2> QED BY <2>1 DEF TypeOK, Bins
<1>3. CASE Leave
  BY <1>3 DEF Leave, TypeOK, Bins
<1>4. CASE UNCHANGED vars
  BY <1>4 DEF vars, TypeOK, Bins
<1> QED BY <1>1, <1>2, <1>3, <1>4 DEF Next

----------------------------------------------------------------------------
(* The inductive invariant *)

LEMMA GrowUpPreserves ==
  ASSUME IInv, GrowUp
  PROVE  IInv'
<1>0. /\ TypeOK /\ TypeOK' /\ UNCHANGED <<n, cum, poc, lo, ended>>
      /\ hi \in Int /\ lo \in Int /\ n \in Nat /\ poc \in Int
      /\ lo >= 1 /\ lo <= poc /\ poc <= hi /\ hi < n /\ hi' = hi + 1
  BY UpperBinTaken, TypePreserved, MaxBinsAssumption DEF IInv, TypeOK, Bins, GrowUp, Next
<1>1. \A i : Volume(i)' = Volume(i)
  BY <1>0 DEF Volume
<1>2. cum[hi] \in Int /\ cum[hi + 1] \in Int /\ cum[lo - 1] \in Int
  BY <1>0 DEF TypeOK, Histogram
<1>3. AccumulatedIsInside'
  BY <1>0, <1>2 DEF IInv, AccumulatedIsInside, GrowUp, Volume
<1>4. NoBinTooMany'
  <2>1. BelowTarget(cum[hi] - cum[lo - 1])
    BY DEF IInv, AccumulatedIsInside, GrowUp, GoesOn
  <2>2. hi' - 1 = hi /\ poc' < hi'
    BY <1>0
  <2> QED BY <1>0, <2>1, <2>2 DEF NoBinTooMany, BelowTarget, Total
<1>5. NeighboursAreLower'
  <2> SUFFICES ASSUME OnePeak, NEW i \in lo .. hi + 1
               PROVE  /\ lo > 1 => Volume(lo - 1) <= Volume(i)
                      /\ hi + 1 < n => Volume(hi + 2) <= Volume(i)
    BY <1>0, <1>1 DEF NeighboursAreLower, RangeIsHighest, OnePeak, Bins
  <2>1. \A j \in Bins : Volume(j) \in Int
    BY <1>0, VolumesArePositive
  <2>2. lo > 1 => Volume(lo - 1) <= Volume(hi + 1)
    BY UpperBinTaken, <1>0
  <2>3. hi + 1 < n => Volume(hi + 2) <= Volume(hi + 1)
    BY <1>0 DEF OnePeak, Bins
  <2>4. CASE i = hi + 1
    BY <2>2, <2>3, <2>4
  <2>5. CASE i \in lo .. hi
    <3>1. /\ lo > 1 => Volume(lo - 1) <= Volume(i)
          /\ Volume(hi + 1) <= Volume(i)
      BY <1>0, <2>5 DEF IInv, NeighboursAreLower, RangeIsHighest
    <3>2. hi + 1 < n => hi + 2 \in Bins
      BY <1>0 DEF Bins
    <3>3. hi + 1 \in Bins /\ i \in Bins
      BY <1>0, <2>5 DEF Bins
    <3>4. ASSUME hi + 1 < n PROVE Volume(hi + 2) <= Volume(i)
      <4>1. Volume(hi + 2) \in Int /\ Volume(hi + 1) \in Int /\ Volume(i) \in Int
        BY <2>1, <3>2, <3>3, <3>4
      <4> QED BY <2>3, <3>1, <3>4, <4>1
    <3> QED BY <3>1, <3>4
  <2> QED BY <1>0, <2>4, <2>5
<1>6. CoversTarget'
  BY <1>0 DEF CoversTarget, GrowUp, GoesOn
<1> QED BY <1>0, <1>3, <1>4, <1>5, <1>6 DEF IInv

LEMMA GrowDownPreserves ==
  ASSUME IInv, GrowDown
  PROVE  IInv'
<1>0. /\ TypeOK /\ TypeOK' /\ UNCHANGED <<n, cum, poc, hi, ended>>
      /\ hi \in Int /\ lo \in Int /\ n \in Nat /\ poc \in Int
      /\ lo > 1 /\ lo <= poc /\ poc <= hi /\ hi <= n /\ lo' = lo - 1
  BY LowerBinTaken, TypePreserved, MaxBinsAssumption
     DEF IInv, TypeOK, Bins, GrowDown, Next
<1>1. \A i : Volume(i)' = Volume(i)
  BY <1>0 DEF Volume
<1>2. cum[hi] \in Int /\ cum[lo - 1] \in Int /\ cum[lo - 2] \in Int
  BY <1>0 DEF TypeOK, Histogram
<1>3. AccumulatedIsInside'
  <2>1. lo' - 1 = lo - 2 /\ Volume(lo') = cum[lo - 1] - cum[lo - 2]
    BY <1>0 DEF Volume
  <2> QED BY <1>0, <1>1, <1>2, <2>1 DEF IInv, AccumulatedIsInside, GrowDown
<1>4. NoBinTooMany'
  <2>1. BelowTarget(cum[hi] - cum[lo - 1])
    BY DEF IInv, AccumulatedIsInside, GrowDown, GoesOn
  <2>2. cum'[lo'] = cum[lo - 1] /\ lo' < poc'
    BY <1>0
  <2> QED BY <1>0, <2>1, <2>2 DEF NoBinTooMany, BelowTarget, Total
<1>5. NeighboursAreLower'
  <2> SUFFICES ASSUME OnePeak, NEW i \in lo - 1 .. hi
               PROVE  /\ lo - 1 > 1 => Volume(lo - 2) <= Volume(i)
                      /\ hi < n => Volume(hi + 1) <= Volume(i)
    <3>1. lo' - 1 = lo - 2
      BY <1>0
    <3> QED BY <1>0, <1>1, <3>1 DEF NeighboursAreLower, RangeIsHighest, OnePeak, Bins
  <2>1. \A j \in Bins : Volume(j) \in Int
    BY <1>0, VolumesArePositive
  <2>2. hi < n => Volume(hi + 1) <= Volume(lo - 1)
    BY LowerBinTaken, <1>0
  <2>3. lo - 1 > 1 => Volume(lo - 2) <= Volume(lo - 1)
    BY <1>0 DEF OnePeak, Bins
  <2>4. CASE i = lo - 1
    BY <2>2, <2>3, <2>4
  <2>5. CASE i \in lo .. hi
    <3>1. /\ hi < n => Volume(hi + 1) <= Volume(i)
          /\ Volume(lo - 1) <= Volume(i)
      BY <1>0, <2>5 DEF IInv, NeighboursAreLower, RangeIsHighest
    <3>2. lo - 1 > 1 => lo - 2 \in Bins
      BY <1>0 DEF Bins
    <3>3. lo - 1 \in Bins /\ i \in Bins
      BY <1>0, <2>5 DEF Bins
    <3>4. ASSUME lo - 1 > 1 PROVE Volume(lo - 2) <= Volume(i)
      <4>1. Volume(lo - 2) \in Int /\ Volume(lo - 1) \in Int /\ Volume(i) \in Int
        BY <2>1, <3>2, <3>3, <3>4
      <4> QED BY <2>3, <3>1, <3>4, <4>1
    <3> QED BY <3>1, <3>4
  <2> QED BY <1>0, <2>4, <2>5
<1>6. CoversTarget'
  BY <1>0 DEF CoversTarget, GrowDown, GoesOn
<1> QED BY <1>0, <1>3, <1>4, <1>5, <1>6 DEF IInv

\* The loop is left at the target, or with the whole session inside.
LEMMA LeavePreserves ==
  ASSUME IInv, Leave
  PROVE  IInv'
<1>0. UNCHANGED <<n, cum, poc, lo, hi, accumulated>> /\ TypeOK'
  BY TypePreserved DEF Leave, IInv, Next
<1>1. ~BelowTarget(cum[hi] - cum[lo - 1])
  <2>1. CASE ~BelowTarget(accumulated)
    BY <2>1 DEF IInv, AccumulatedIsInside
  <2>2. CASE ~(lo > 1 \/ hi < n)
    <3>1. lo = 1 /\ hi = n /\ n \in Nat
      BY <2>2, MaxBinsAssumption DEF IInv, TypeOK, Bins
    <3>2. cum[hi] - cum[lo - 1] = Total /\ Total \in Nat
      BY <3>1 DEF IInv, TypeOK, Histogram, Total
    <3> QED BY <3>2, WholeCovers DEF BelowTarget
  <2> QED BY <2>1, <2>2 DEF Leave, GoesOn
<1>2. CoversTarget'
  BY <1>0, <1>1 DEF CoversTarget, BelowTarget, Total
<1>3. AccumulatedIsInside' /\ NoBinTooMany' /\ NeighboursAreLower'
  BY <1>0 DEF IInv, AccumulatedIsInside, NoBinTooMany, BelowTarget, Total,
              NeighboursAreLower, RangeIsHighest, OnePeak, Bins, Volume
<1> QED BY <1>0, <1>2, <1>3 DEF IInv

LEMMA Invariance == Spec => []IInv
<1>1. ASSUME IInv, UNCHANGED vars PROVE IInv'
  BY <1>1 DEF vars, IInv, TypeOK, Bins, AccumulatedIsInside, CoversTarget, NoBinTooMany,
              BelowTarget, Total, NeighboursAreLower, RangeIsHighest, OnePeak, Volume
<1>2. IInv /\ [Next]_vars => IInv'
  BY <1>1, GrowUpPreserves, GrowDownPreserves, LeavePreserves DEF Next
<1> QED BY <1>2, InitEstablishes, PTL DEF Spec

----------------------------------------------------------------------------
(* Results *)

\* The loop stays inside the session's bins, and adds up what is between its
\* indices.
THEOREM LoopIsSound == Spec => [](TypeOK /\ AccumulatedIsInside)
<1>1. IInv => TypeOK /\ AccumulatedIsInside
  BY DEF IInv
<1> QED BY <1>1, Invariance, PTL

\* A finished value area holds its share of the session's volume.
THEOREM AreaCoversTarget == Spec => []CoversTarget
<1>1. IInv => CoversTarget
  BY DEF IInv
<1> QED BY <1>1, Invariance, PTL

\* No value area has a bin that it does not need.
THEOREM AreaHasNoBinTooMany == Spec => []NoBinTooMany
<1>1. IInv => NoBinTooMany
  BY DEF IInv
<1> QED BY <1>1, Invariance, PTL

\* With one peak the greedy comparison of neighbours finds the most traded bins.
THEOREM AreaIsHighest == Spec => []HighestInside
<1>1. ASSUME IInv PROVE HighestInside
  <2> SUFFICES ASSUME OnePeak, NEW i \in lo .. hi, NEW j \in Bins \ (lo .. hi)
               PROVE  Volume(j) <= Volume(i)
    BY DEF HighestInside
  <2>1. /\ n \in Nat /\ poc \in Int /\ lo \in Int /\ hi \in Int /\ i \in Int /\ j \in Int
        /\ lo >= 1 /\ lo <= poc /\ poc <= hi /\ hi <= n /\ j >= 1 /\ j <= n
        /\ i \in Bins /\ (j < lo \/ j > hi)
    BY <1>1, MaxBinsAssumption DEF IInv, TypeOK, Bins
  <2>2. \A k \in Bins : Volume(k) \in Int
    BY <1>1, VolumesArePositive DEF IInv
  <2>3. CASE j < lo
    <3>1. lo - 1 \in Bins /\ lo > 1 /\ (j < lo - 1 => Volume(j) <= Volume(lo - 1))
      BY <2>1, <2>3 DEF OnePeak, Bins
    <3>2. Volume(lo - 1) <= Volume(i)
      BY <1>1, <3>1 DEF IInv, NeighboursAreLower, RangeIsHighest
    <3> QED BY <2>1, <2>2, <2>3, <3>1, <3>2
  <2>4. CASE j > hi
    <3>1. hi + 1 \in Bins /\ hi < n /\ (j > hi + 1 => Volume(j) <= Volume(hi + 1))
      BY <2>1, <2>4 DEF OnePeak, Bins
    <3>2. Volume(hi + 1) <= Volume(i)
      BY <1>1, <3>1 DEF IInv, NeighboursAreLower, RangeIsHighest
    <3> QED BY <2>1, <2>2, <2>4, <3>1, <3>2
  <2> QED BY <2>1, <2>3, <2>4
<1> QED BY <1>1, Invariance, PTL

----------------------------------------------------------------------------
(* No shorter range holds as much *)

\* NoBinTooMany, and that the area was the most traded range before the bin that
\* was taken last.
LastWasLower ==
  lo < hi => \/ lo < poc /\ BelowTarget(cum[hi] - cum[lo]) /\ RangeIsHighest(lo + 1, hi)
             \/ poc < hi /\ BelowTarget(cum[hi - 1] - cum[lo - 1]) /\ RangeIsHighest(lo, hi - 1)

LEMMA LastWasLowerStep ==
  ASSUME IInv, LastWasLower, [Next]_vars
  PROVE  LastWasLower'
<1>0. /\ TypeOK /\ n \in Nat /\ poc \in Int /\ lo \in Int /\ hi \in Int
      /\ lo >= 1 /\ lo <= poc /\ poc <= hi /\ hi <= n
  BY MaxBinsAssumption DEF IInv, TypeOK, Bins
<1>1. CASE GrowUp
  <2>1. UNCHANGED <<n, cum, poc, lo, ended>> /\ hi' = hi + 1
    BY <1>1 DEF GrowUp
  <2>2. BelowTarget(cum[hi] - cum[lo - 1])
    BY <1>1 DEF IInv, AccumulatedIsInside, GrowUp, GoesOn
  <2>3. hi' - 1 = hi /\ poc' < hi' /\ cum'[hi' - 1] = cum[hi] /\ cum'[lo' - 1] = cum[lo - 1]
    BY <1>0, <2>1
  <2>4. BelowTarget(cum[hi - 1] - cum[lo - 1])'
    BY <2>1, <2>2, <2>3 DEF BelowTarget, Total
  <2>5. RangeIsHighest(lo, hi - 1)'
    <3>1. /\ lo' - 1 = lo - 1 /\ hi' - 1 = hi /\ (hi' - 1) + 1 = hi + 1
          /\ ((hi' - 1) + 1) - 1 = hi /\ (hi + 1) - 1 = hi
      BY <1>0, <2>1
    <3> QED BY <2>1, <3>1 DEF IInv, NeighboursAreLower, RangeIsHighest, OnePeak, Bins, Volume
  <2> QED BY <2>3, <2>4, <2>5 DEF LastWasLower
<1>2. CASE GrowDown
  <2>1. UNCHANGED <<n, cum, poc, hi, ended>> /\ lo' = lo - 1
    BY <1>2 DEF GrowDown
  <2>2. BelowTarget(cum[hi] - cum[lo - 1])
    BY <1>2 DEF IInv, AccumulatedIsInside, GrowDown, GoesOn
  <2>3. lo' + 1 = lo /\ lo' < poc' /\ cum'[lo'] = cum[lo - 1]
    BY <1>0, <2>1
  <2>4. BelowTarget(cum[hi] - cum[lo])'
    BY <2>1, <2>2, <2>3 DEF BelowTarget, Total
  <2>5. RangeIsHighest(lo + 1, hi)'
    BY <1>0, <2>1, <2>3 DEF IInv, NeighboursAreLower, RangeIsHighest, OnePeak, Bins, Volume
  <2> QED BY <2>3, <2>4, <2>5 DEF LastWasLower
<1>3. CASE UNCHANGED <<n, cum, poc, lo, hi>>
  BY <1>3 DEF LastWasLower, BelowTarget, Total, RangeIsHighest, OnePeak, Bins, Volume
<1> QED BY <1>1, <1>2, <1>3 DEF Next, Leave, vars

\* The volume between two bounds, when every bin there has at most, or at least, t.
LEMMA RangeIsBounded ==
  ASSUME TypeOK, NEW t \in Nat, NEW x \in 0 .. n, NEW d \in Nat, x + d <= n
  PROVE  /\ (\A i \in x + 1 .. x + d : Volume(i) <= t) => cum[x + d] - cum[x] <= t * d
         /\ (\A i \in x + 1 .. x + d : Volume(i) >= t) => cum[x + d] - cum[x] >= t * d
<1>0. n \in Nat /\ \A i \in 0 .. n : cum[i] \in Nat
  BY MaxBinsAssumption DEF TypeOK, Histogram
<1> DEFINE S == {e \in 0 .. d :
                   /\ (\A i \in x + 1 .. x + d : Volume(i) <= t) => cum[x + e] - cum[x] <= t * e
                   /\ (\A i \in x + 1 .. x + d : Volume(i) >= t) => cum[x + e] - cum[x] >= t * e}
<1>1. 0 \in S
  BY <1>0
<1>2. ASSUME NEW e \in 0 .. d - 1, e \in S PROVE e + 1 \in S
  <2>1. /\ x + e \in 0 .. n /\ x + e + 1 \in 0 .. n /\ x + e + 1 \in x + 1 .. x + d
        /\ (x + e + 1) - 1 = x + e /\ x + (e + 1) = x + e + 1 /\ e + 1 \in 0 .. d
    BY <1>0
  <2>2. PICK a \in Nat, b \in Nat, c \in Nat :
          a = cum[x] /\ b = cum[x + e] /\ c = cum[x + e + 1]
    BY <1>0, <2>1
  <2>3. Volume(x + e + 1) = c - b
    BY <2>1, <2>2 DEF Volume
  <2>4. PICK p \in Nat : p = t * e /\ t * (e + 1) = p + t
    OBVIOUS
  <2>5. (\A i \in x + 1 .. x + d : Volume(i) <= t) => c - a <= p + t
    BY <1>2, <2>1, <2>2, <2>3, <2>4
  <2>6. (\A i \in x + 1 .. x + d : Volume(i) >= t) => c - a >= p + t
    BY <1>2, <2>1, <2>2, <2>3, <2>4
  <2> QED BY <2>1, <2>2, <2>4, <2>5, <2>6
<1> HIDE DEF S
<1>3. d \in S
  BY <1>1, <1>2, UpInduction
<1> QED BY <1>3 DEF S

\* No bin outside l .. h has more than one inside: no range that is not longer has
\* more than l .. h.
LEMMA HighestIsMost ==
  ASSUME TypeOK, NEW l \in Bins, NEW h \in Bins, l <= h, NEW t \in Nat,
         \A i \in Bins : i \in l .. h => Volume(i) >= t,
         \A i \in Bins : i \notin l .. h => Volume(i) <= t,
         NEW a \in Bins, NEW b \in Bins, a <= b, b - a <= h - l
  PROVE  cum[b] - cum[a - 1] <= cum[h] - cum[l - 1]
<1>0. /\ n \in Nat /\ \A i \in 0 .. n : cum[i] \in Nat
      /\ a - 1 \in 0 .. n /\ b \in 0 .. n /\ l - 1 \in 0 .. n /\ h \in 0 .. n
      /\ a \in Int /\ l \in Int
  BY MaxBinsAssumption DEF TypeOK, Histogram, Bins
<1>1. \A i, j \in 0 .. n : i <= j => cum[i] <= cum[j]
  <2>1. \A i, j \in 0 .. n : i < j => cum[i] < cum[j]
    BY DEF TypeOK, Histogram
  <2> SUFFICES ASSUME NEW i \in 0 .. n, NEW j \in 0 .. n, i <= j PROVE cum[i] <= cum[j]
    OBVIOUS
  <2>2. cum[i] \in Nat /\ cum[j] \in Nat
    BY <1>0
  <2>3. CASE i = j
    BY <2>2, <2>3
  <2>4. CASE i < j
    BY <2>1, <2>2, <2>4
  <2> QED BY <1>0, <2>3, <2>4
<1>2. \A x, y \in 0 .. n : x <= y /\ (\A i \in x + 1 .. y : i \notin l .. h)
         => cum[y] - cum[x] <= t * (y - x)
  <2> SUFFICES ASSUME NEW x \in 0 .. n, NEW y \in 0 .. n, x <= y,
                      \A i \in x + 1 .. y : i \notin l .. h
               PROVE  cum[y] - cum[x] <= t * (y - x)
    OBVIOUS
  <2>1. y - x \in Nat /\ x + (y - x) = y
    BY <1>0
  <2>2. PICK d \in Nat : d = y - x /\ x + d = y /\ x + d <= n
    BY <1>0, <2>1
  <2>3. \A i \in x + 1 .. x + d : Volume(i) <= t
    BY <1>0, <2>2 DEF Bins
  <2>4. cum[x + d] - cum[x] <= t * d
    BY <2>2, <2>3, RangeIsBounded
  <2> QED BY <2>2, <2>4
<1>3. \A x, y \in 0 .. n : x <= y /\ (\A i \in x + 1 .. y : i \in l .. h)
         => cum[y] - cum[x] >= t * (y - x)
  <2> SUFFICES ASSUME NEW x \in 0 .. n, NEW y \in 0 .. n, x <= y,
                      \A i \in x + 1 .. y : i \in l .. h
               PROVE  cum[y] - cum[x] >= t * (y - x)
    OBVIOUS
  <2>1. y - x \in Nat /\ x + (y - x) = y
    BY <1>0
  <2>2. PICK d \in Nat : d = y - x /\ x + d = y /\ x + d <= n
    BY <1>0, <2>1
  <2>3. \A i \in x + 1 .. x + d : Volume(i) >= t
    BY <1>0, <2>2 DEF Bins
  <2>4. cum[x + d] - cum[x] >= t * d
    BY <2>2, <2>3, RangeIsBounded
  <2> QED BY <2>2, <2>4
<1>4. \A d, e \in Nat : d <= e => t * d <= t * e
  OBVIOUS
<1>5. PICK A \in Nat, B \in Nat, L \in Nat, H \in Nat :
        A = cum[a - 1] /\ B = cum[b] /\ L = cum[l - 1] /\ H = cum[h]
  BY <1>0
<1>6. CASE b < l \/ a > h
  <2>1. \A i \in (a - 1) + 1 .. b : i \notin l .. h
    BY <1>0, <1>6
  <2>2. \A i \in (l - 1) + 1 .. h : i \in l .. h
    BY <1>0
  <2>3. a - 1 <= b /\ l - 1 <= h
    BY <1>0
  <2>4. B - A <= t * (b - (a - 1)) /\ H - L >= t * (h - (l - 1))
    BY <1>0, <1>2, <1>3, <1>5, <2>1, <2>2, <2>3
  <2>5. PICK d \in Nat, e \in Nat : d = b - (a - 1) /\ e = h - (l - 1) /\ d <= e
    BY <1>0
  <2>6. PICK p \in Nat, q \in Nat : p = t * d /\ q = t * e /\ p <= q
    BY <1>4, <2>5
  <2> QED BY <1>5, <2>4, <2>5, <2>6
<1>7. CASE a < l /\ l <= b /\ b <= h
  <2>1. \A i \in (a - 1) + 1 .. l - 1 : i \notin l .. h
    BY <1>0
  <2>2. \A i \in b + 1 .. h : i \in l .. h
    BY <1>0, <1>7
  <2>3. a - 1 <= l - 1
    BY <1>0, <1>7
  <2>4. L - A <= t * ((l - 1) - (a - 1)) /\ H - B >= t * (h - b)
    BY <1>0, <1>2, <1>3, <1>5, <1>7, <2>1, <2>2, <2>3
  <2>5. PICK d \in Nat, e \in Nat : d = (l - 1) - (a - 1) /\ e = h - b /\ d <= e
    BY <1>0, <1>7
  <2>6. PICK p \in Nat, q \in Nat : p = t * d /\ q = t * e /\ p <= q
    BY <1>4, <2>5
  <2> QED BY <1>5, <2>4, <2>5, <2>6
<1>8. CASE l <= a /\ a <= h /\ h < b
  <2>1. \A i \in h + 1 .. b : i \notin l .. h
    BY <1>0
  <2>2. \A i \in (l - 1) + 1 .. a - 1 : i \in l .. h
    BY <1>0, <1>8
  <2>3. l - 1 <= a - 1 /\ h <= b
    BY <1>0, <1>8
  <2>4. B - H <= t * (b - h) /\ A - L >= t * ((a - 1) - (l - 1))
    BY <1>0, <1>2, <1>3, <1>5, <2>1, <2>2, <2>3
  <2>5. PICK d \in Nat, e \in Nat : d = b - h /\ e = (a - 1) - (l - 1) /\ d <= e
    BY <1>0, <1>8
  <2>6. PICK p \in Nat, q \in Nat : p = t * d /\ q = t * e /\ p <= q
    BY <1>4, <2>5
  <2> QED BY <1>5, <2>4, <2>5, <2>6
<1>9. CASE l <= a /\ b <= h
  <2>1. l - 1 <= a - 1
    BY <1>0, <1>9
  <2>2. L <= A /\ B <= H
    BY <1>0, <1>1, <1>5, <1>9, <2>1
  <2> QED BY <1>5, <2>2
<1>10. b < l \/ a > h \/ (a < l /\ l <= b /\ b <= h) \/ (l <= a /\ a <= h /\ h < b) \/ (l <= a /\ b <= h)
  BY <1>0
<1> QED BY <1>6, <1>7, <1>8, <1>9, <1>10

\* The range around the point of control that is higher than its neighbours is so
\* by a threshold.
LEMMA PeakHasThreshold ==
  ASSUME TypeOK, OnePeak, NEW l \in Bins, NEW h \in Bins, l <= poc, poc <= h,
         RangeIsHighest(l, h)
  PROVE  \E t \in Nat : /\ \A i \in Bins : i \in l .. h => Volume(i) >= t
                        /\ \A i \in Bins : i \notin l .. h => Volume(i) <= t
<1> DEFINE t == IF Volume(l) <= Volume(h) THEN Volume(l) ELSE Volume(h)
<1>0. n \in Nat /\ poc \in Bins /\ l \in 1 .. n /\ h \in 1 .. n /\ poc \in 1 .. n
  BY MaxBinsAssumption DEF TypeOK, Bins
<1>1. \A i \in Bins : Volume(i) \in Nat
  BY VolumesArePositive
<1>2. t \in {Volume(l), Volume(h)} /\ t \in Nat /\ t <= Volume(l) /\ t <= Volume(h)
  BY <1>1
<1>3. ASSUME NEW i \in Bins, i \in l .. h PROVE Volume(i) >= t
  <2>1. CASE i <= poc
    <3>1. i = l \/ (l < i)
      BY <1>0, <1>3
    <3>2. Volume(l) <= Volume(i)
      BY <1>1, <2>1, <3>1 DEF OnePeak
    <3> HIDE DEF t
    <3> QED BY <1>1, <1>2, <3>2
  <2>2. CASE poc <= i
    <3>1. i = h \/ (i < h)
      BY <1>0, <1>3
    <3>2. Volume(h) <= Volume(i)
      BY <1>1, <2>2, <3>1 DEF OnePeak
    <3> HIDE DEF t
    <3> QED BY <1>1, <1>2, <3>2
  <2> QED BY <1>0, <1>3, <2>1, <2>2 DEF Bins
<1>4. ASSUME NEW i \in Bins, i \notin l .. h PROVE Volume(i) <= t
  <2>0. i \in 1 .. n /\ (i < l \/ i > h)
    BY <1>0, <1>4 DEF Bins
  <2>1. CASE i < l
    <3>1. l > 1 /\ l - 1 \in Bins /\ l - 1 <= poc /\ (i = l - 1 \/ i < l - 1)
      BY <1>0, <2>0, <2>1 DEF Bins
    <3>2. Volume(i) <= Volume(l - 1)
      BY <1>1, <3>1 DEF OnePeak
    <3>3. l \in l .. h /\ h \in l .. h
      BY <1>0
    <3>4. Volume(l - 1) <= Volume(l) /\ Volume(l - 1) <= Volume(h)
      BY <3>1, <3>3 DEF RangeIsHighest
    <3> QED BY <1>1, <3>1, <3>2, <3>4
  <2>2. CASE i > h
    <3>1. h < n /\ h + 1 \in Bins /\ poc <= h + 1 /\ (i = h + 1 \/ h + 1 < i)
      BY <1>0, <2>0, <2>2 DEF Bins
    <3>2. Volume(i) <= Volume(h + 1)
      BY <1>1, <3>1 DEF OnePeak
    <3>3. l \in l .. h /\ h \in l .. h
      BY <1>0
    <3>4. Volume(h + 1) <= Volume(l) /\ Volume(h + 1) <= Volume(h)
      BY <3>1, <3>3 DEF RangeIsHighest
    <3> QED BY <1>1, <3>1, <3>2, <3>4
  <2> QED BY <2>0, <2>1, <2>2
<1> QED BY <1>2, <1>3, <1>4

LEMMA ShortestFollows ==
  ASSUME IInv, LastWasLower
  PROVE  ShortestRange
<1> SUFFICES ASSUME OnePeak, NEW a \in Bins, NEW b \in Bins, a <= b, b - a < hi - lo
             PROVE  BelowTarget(cum[b] - cum[a - 1])
  BY DEF ShortestRange
<1>0. /\ TypeOK /\ n \in Nat /\ poc \in 1 .. n /\ lo \in 1 .. n /\ hi \in 1 .. n
      /\ lo <= poc /\ poc <= hi /\ a \in 1 .. n /\ b \in 1 .. n
  BY MaxBinsAssumption DEF IInv, TypeOK, Bins
<1>1. lo < hi
  BY <1>0
<1>2. \E l, h \in Bins : /\ l <= poc /\ poc <= h /\ h - l = (hi - lo) - 1
                         /\ RangeIsHighest(l, h) /\ BelowTarget(cum[h] - cum[l - 1])
  <2>1. CASE lo < poc /\ BelowTarget(cum[hi] - cum[lo]) /\ RangeIsHighest(lo + 1, hi)
    <3>1. /\ lo + 1 \in Bins /\ hi \in Bins /\ lo + 1 <= poc /\ hi - (lo + 1) = (hi - lo) - 1
          /\ (lo + 1) - 1 = lo
      BY <1>0, <2>1 DEF Bins
    <3> QED BY <1>0, <2>1, <3>1
  <2>2. CASE poc < hi /\ BelowTarget(cum[hi - 1] - cum[lo - 1]) /\ RangeIsHighest(lo, hi - 1)
    <3>1. lo \in Bins /\ hi - 1 \in Bins /\ poc <= hi - 1 /\ (hi - 1) - lo = (hi - lo) - 1
      BY <1>0, <2>2 DEF Bins
    <3> QED BY <1>0, <2>2, <3>1
  <2> QED BY <1>1, <2>1, <2>2 DEF LastWasLower
<1>3. PICK l \in Bins, h \in Bins : /\ l <= poc /\ poc <= h /\ h - l = (hi - lo) - 1
                                    /\ RangeIsHighest(l, h) /\ BelowTarget(cum[h] - cum[l - 1])
  BY <1>2
<1>4. PICK t \in Nat : /\ \A i \in Bins : i \in l .. h => Volume(i) >= t
                       /\ \A i \in Bins : i \notin l .. h => Volume(i) <= t
  BY <1>0, <1>3, PeakHasThreshold
<1>5. l \in Int /\ h \in Int /\ l <= h /\ b - a <= h - l
  BY <1>0, <1>3 DEF Bins
<1>6. cum[b] - cum[a - 1] <= cum[h] - cum[l - 1]
  BY <1>0, <1>4, <1>5, HighestIsMost
<1>7. /\ cum[b] \in Nat /\ cum[a - 1] \in Nat /\ cum[h] \in Nat /\ cum[l - 1] \in Nat
      /\ Total \in Nat /\ Pct \in Nat
  BY <1>0, PctAssumption DEF TypeOK, Histogram, Bins, Total
<1>8. PICK v \in Int, w \in Int : v = cum[b] - cum[a - 1] /\ w = cum[h] - cum[l - 1] /\ v <= w
  BY <1>6, <1>7
<1>9. PICK q \in Nat : q = Pct * Total
  BY <1>7
<1> QED BY <1>3, <1>8, <1>9 DEF BelowTarget

\* With one peak no shorter range of prices holds the target share: the greedy loop
\* of _value_area_expansion is optimal.
THEOREM AreaIsShortest == Spec => []ShortestRange
<1>1. Init => LastWasLower
  BY MaxBinsAssumption DEF Init, LastWasLower, Bins
<1>2. IInv /\ LastWasLower /\ [Next]_vars => LastWasLower'
  BY LastWasLowerStep
<1> QED BY <1>1, <1>2, ShortestFollows, Invariance, PTL DEF Spec
=============================================================================
