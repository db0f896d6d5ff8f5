------------------------ MODULE MCFeatureGeneration ------------------------
(***************************************************************************)
(* Instances of FeatureGeneration.  A month is 8 units of time, four fine  *)
(* bars or two coarse ones; a session is 8 units too but begins 2 earlier, *)
(* as in a time zone east of UTC.  A scenario chooses what happens in each *)
(* fine bar.                                                               *)
(***************************************************************************)
EXTENDS FeatureGeneration

MonthLength == 8

\* The trades of a bar: one who is the maker hits what a taker sells.
Sold(k, n, dt, price, qty) ==
  [id |-> 10 * k + n, t |-> k + dt, price |-> price, qty |-> qty, maker |-> TRUE]
Bought(k, n, dt, price, qty) ==
  [id |-> 10 * k + n, t |-> k + dt, price |-> price, qty |-> qty, maker |-> FALSE]

\* What may happen in the bar at k: buyers or sellers prevail, both trade at one
\* instant, only buyers trade, or nobody does.
In == [
  buyers |-> [k \in 0 .. 30 |-> {Sold(k, 1, 0, 4, 1), Bought(k, 2, 1, 7, 3)}],
  sellers |-> [k \in 0 .. 30 |-> {Sold(k, 1, 0, 5, 3), Bought(k, 2, 1, 3, 1)}],
  both |-> [k \in 0 .. 30 |-> {Sold(k, 1, 0, 8, 2), Bought(k, 2, 0, 1, 2)}],
  oneSided |-> [k \in 0 .. 30 |-> {Bought(k, 1, 1, 6, 2)}],
  nobody |-> [k \in 0 .. 30 |-> {}]]

Kinds == DOMAIN In

\* The trades of the month that begins at start, given the kinds of its bars.
MonthOf(start, kinds) ==
  UNION {In[kinds[i]][start + Fine * (i - 1)] : i \in DOMAIN kinds}

\* One generation of one month, with every succession of four kinds of bar that
\* has a trade and at most one bar whose open and close can be either of two.
Single ==
  {[ticks |-> [m \in {1} |-> MonthOf(0, kinds)], runs |-> 1] :
     kinds \in {k \in [1 .. 4 -> Kinds] :
                  /\ \E i \in 1 .. 4 : k[i] # "nobody"
                  /\ \A i, j \in 1 .. 4 : k[i] = "both" /\ k[j] = "both" => i = j}}

\* Two generations of up to two months: sessions go over the edge of the months,
\* a level is left, come back to, or not, the first month may be a single coarse
\* bar, or have a bar whose open and close can be either of two.
Double ==
  {[ticks |-> [m \in {1, 2} |->
                 IF m = 1 THEN MonthOf(0, <<"buyers", a, b, c>>)
                 ELSE MonthOf(MonthLength, <<c, "sellers", "nobody", "oneSided">>)],
    runs |-> 2] :
     a \in {"nobody", "sellers", "both"}, b \in {"nobody", "sellers"},
     c \in {"nobody", "buyers", "oneSided"}}

AllScenarios == Single \cup Double
=============================================================================
