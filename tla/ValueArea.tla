------------------------------ MODULE ValueArea ------------------------------
(***************************************************************************)
(* The value area of one session's volume profile: from the point of       *)
(* control outwards, one price bin at a time, until the given share of the *)
(* session's volume is inside (volume_profile._value_area_expansion).      *)
(* Bins are numbered by price, those nobody traded in do not exist, and    *)
(* volumes are whole numbers: the rounding of their float sums is left out.*)
(***************************************************************************)
EXTENDS Integers

CONSTANTS
  MaxBins,     \* bound: how many price bins a session has
  Histograms,  \* histograms of a session, by their cumulative volumes
  Pct          \* features.value_area_pct, in percent

\* c[i] is the volume of the first i bins.  Every bin has been traded in.
Histogram(k) == {c \in [0 .. k -> Nat] :
                   /\ c[0] = 0
                   /\ \A i, j \in 0 .. k : i < j => c[i] < c[j]}

ASSUME HistogramsAssumption ==
  \A c \in Histograms : \E k \in 1 .. MaxBins : c \in Histogram(k)

ASSUME MaxBinsAssumption == MaxBins \in Nat \ {0}

ASSUME PctAssumption == Pct \in 0 .. 100

VARIABLES
  n,            \* the number of bins
  cum,          \* the histogram
  poc,          \* poc_idx
  lo, hi,       \* lo_idx, hi_idx
  accumulated,  \* the volume taken so far
  ended         \* the loop has been left

vars == <<n, cum, poc, lo, hi, accumulated, ended>>

Bins == 1 .. n

Volume(i) == cum[i] - cum[i - 1]

Total == cum[n]

\* idxmax: the first of the largest bins.
IsPoc(i) == /\ \A j \in Bins : Volume(j) <= Volume(i)
            /\ \A j \in 1 .. i - 1 : Volume(j) < Volume(i)

Init ==
  /\ cum \in Histograms
  /\ n \in 1 .. MaxBins /\ cum \in Histogram(n)
  /\ poc \in Bins /\ IsPoc(poc)
  /\ lo = poc /\ hi = poc
  /\ accumulated = Volume(poc)
  /\ ended = FALSE

\* accumulated < target
BelowTarget(v) == 100 * v < Pct * Total

\* A bin beyond either end counts as -1.
Above == IF hi < n THEN Volume(hi + 1) ELSE -1
Below == IF lo > 1 THEN Volume(lo - 1) ELSE -1

\* MISTAKE: the loop ends when one of the ends is reached.
GoesOnInside == /\ ~ended /\ BelowTarget(accumulated) /\ lo > 1 /\ hi < n

\* MISTAKE: the loop goes on when the target is met exactly.
GoesOnAtTarget == /\ ~ended /\ 100 * accumulated <= Pct * Total
                  /\ (lo > 1 \/ hi < n)

GoesOn == /\ ~ended /\ BelowTarget(accumulated) /\ (lo > 1 \/ hi < n)

\* MISTAKE: the smaller neighbour is taken.
GrowUpSmaller ==
  /\ GoesOn /\ hi < n /\ (Above <= Below \/ lo = 1)
  /\ hi' = hi + 1
  /\ accumulated' = accumulated + Volume(hi')
  /\ UNCHANGED <<n, cum, poc, lo, ended>>

\* Of two equal neighbours, the upper one.
GrowUp ==
  /\ GoesOn /\ Above >= Below
  /\ hi' = hi + 1
  /\ accumulated' = accumulated + Volume(hi')
  /\ UNCHANGED <<n, cum, poc, lo, ended>>

GrowDown ==
  /\ GoesOn /\ Above < Below
  /\ lo' = lo - 1
  /\ accumulated' = accumulated + Volume(lo')
  /\ UNCHANGED <<n, cum, poc, hi, ended>>

Leave ==
  /\ ~ended /\ ~GoesOn
  /\ ended' = TRUE
  /\ UNCHANGED <<n, cum, poc, lo, hi, accumulated>>

Next == GrowUp \/ GrowDown \/ Leave

Spec == Init /\ [][Next]_vars

----------------------------------------------------------------------------
(* Properties *)

TypeOK ==
  /\ n \in 1 .. MaxBins /\ cum \in Histogram(n)
  /\ poc \in Bins /\ lo \in 1 .. poc /\ hi \in poc .. n
  /\ ended \in BOOLEAN

\* What the loop adds up is the volume between its two indices.
AccumulatedIsInside == accumulated = cum[hi] - cum[lo - 1]

\* A finished value area holds the share of the volume it is named for.
CoversTarget == ended => ~BelowTarget(cum[hi] - cum[lo - 1])

\* It has no bin too many: without the one that was taken last, which is at an
\* end, it would not reach the target.
NoBinTooMany ==
  lo < hi => \/ lo < poc /\ BelowTarget(cum[hi] - cum[lo])
             \/ poc < hi /\ BelowTarget(cum[hi - 1] - cum[lo - 1])

\* One peak: rising up to the point of control and falling from it on.
OnePeak == \A i, j \in Bins : i < j => /\ j <= poc => Volume(i) <= Volume(j)
                                       /\ poc <= i => Volume(j) <= Volume(i)

\* With one peak no bin outside was traded more than one inside, although only
\* neighbours are ever compared.
HighestInside ==
  OnePeak => \A i \in lo .. hi, j \in Bins \ (lo .. hi) : Volume(j) <= Volume(i)

\* With one peak, then, no shorter range of prices holds as much.
ShortestRange ==
  OnePeak =>
    \A a, b \in Bins : (a <= b /\ b - a < hi - lo) => BelowTarget(cum[b] - cum[a - 1])
=============================================================================
