---------------------------- MODULE MCValueArea ----------------------------
(* An instance of ValueArea for TLC: all small histograms. *)
EXTENDS ValueArea, FiniteSetsExt

\* A peak of 5 next to bins of 1 to 3, ties among them.
Volumes == {1, 2, 3, 5}

CumulativeOf(v, k) ==
  [i \in 0 .. k |-> MapThenSumSet(LAMBDA j : v[j], 1 .. i)]

AllHistograms ==
  UNION {{CumulativeOf(v, k) : v \in [1 .. k -> Volumes]} : k \in 1 .. MaxBins}
=============================================================================
