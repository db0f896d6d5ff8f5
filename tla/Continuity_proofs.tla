-------------------------- MODULE Continuity_proofs --------------------------
(***************************************************************************)
(* The loop of missing_months is exact across the ends of years, doing as  *)
(* told makes no gap, and the numbers of an output add up, for every start *)
(* month, history and bound.                                               *)
(***************************************************************************)
EXTENDS Continuity, Arithmetic_proofs

----------------------------------------------------------------------------
(* Months *)

LEMMA BetweenIs ==
  ASSUME NEW a \in Month, NEW b \in Month
  PROVE  \A k : k \in Between(a, b) <=> k \in Month /\ Leq(a, k) /\ Leq(k, b)
BY DEF Between, Month, Leq

LEMMA LeqIsOrder ==
  ASSUME NEW a \in Month, NEW b \in Month, NEW c \in Month
  PROVE  /\ Leq(a, b) \/ Leq(b, a)
         /\ Leq(a, b) /\ Leq(b, a) => a = b
         /\ Leq(a, b) /\ Leq(b, c) => Leq(a, c)
BY DEF Leq, Month

\* There is no month between a month and the following one.
LEMMA FollowingIsNext ==
  ASSUME NEW a \in Month
  PROVE  /\ Following(a) \in Month
         /\ ~Leq(Following(a), a)
         /\ \A k \in Month : Leq(k, Following(a)) <=> Leq(k, a) \/ k = Following(a)
<1> DEFINE f == Following(a)
<1>1. f \in Month /\ ~Leq(f, a) /\ Leq(a, f)
  BY DEF Following, Month, Leq
<1>2. ASSUME NEW k \in Month, Leq(k, f), ~Leq(k, a) PROVE k = f
  <2>1. k.year = f.year /\ k.month = f.month
    BY <1>2 DEF Following, Month, Leq
  <2> QED BY <1>1, <2>1 DEF Month
<1>3. \A k \in Month : Leq(k, a) => Leq(k, f)
  BY <1>1, LeqIsOrder
<1>4. Leq(f, f)
  BY <1>1, LeqIsOrder
<1> QED BY <1>1, <1>2, <1>3, <1>4

\* The two computations of the month that follows agree.
LEMMA MovedOnIsFollowing == \A k : MovedOn(k) = Following(k)
BY DEF MovedOn, Following

\* Every month there is an archive of is a month, and a set of them that is not
\* empty has a latest one.
LEMMA MonthsAreMonths == Months \subseteq Month
BY MonthsAssumption, BetweenIs DEF Months

LEMMA LatestIsLast ==
  ASSUME NEW S \in SUBSET Months, S # {}
  PROVE  Latest(S) \in S /\ \A j \in S : Leq(j, Latest(S))
<1> DEFINE left(k) == 12 * (Last.year - k.year) + (12 - k.month)
           D == {left(k) : k \in S}
<1>1. \A k \in S : k \in Month /\ left(k) \in Nat
  BY MonthsAssumption, MonthsAreMonths, BetweenIs DEF Months, Month, Leq
<1>2. D \subseteq Nat /\ D # {}
  BY <1>1
<1>3. PICK d \in D : \A e \in D : ~(<<e, d>> \in OpToRel(<, Nat))
  <2> HIDE DEF D
  <2> QED BY <1>2, NatLessThanWellFounded, WFMin
<1>4. \A e \in D : ~(e < d)
  BY <1>2, <1>3 DEF OpToRel
<1>5. PICK k \in S : d = left(k)
  BY <1>3
<1>6. ASSUME NEW j \in S PROVE Leq(j, k)
  <2>1. ~(left(j) < left(k))
    BY <1>4, <1>5
  <2>2. j \in Month /\ k \in Month
    BY <1>1
  <2>3. \A m \in {j, k, Last} : m.year \in Nat /\ m.month \in 1 .. 12
    BY <2>2, MonthsAssumption DEF Month
  <2> QED BY <2>1, <2>3 DEF Leq
<1> QED BY <1>6 DEF Latest

\* The latest of done months is a month.
LEMMA LatestIsMonth ==
  ASSUME NEW S \in SUBSET Months, S # {}
  PROVE  Latest(S) \in Month
BY LatestIsLast, MonthsAreMonths

\* Moving a cursor on adds the month it was on.
LEMMA UntilFollowing ==
  ASSUME NEW k \in Month
  PROVE  /\ Leq(Start, k) => Until(Following(k)) = Until(k) \cup {k}
         /\ Until(k) \subseteq Until(Following(k))
         /\ Until(k) \subseteq Month
         /\ ~Leq(Start, k) => Until(Following(k)) = {}
<1>1. Start \in Month /\ Following(k) \in Month
  BY MonthsAssumption, FollowingIsNext
<1>2. \A j : j \in Until(Following(k)) <=> j \in Month /\ Leq(Start, j) /\ Leq(j, k)
  BY <1>1, BetweenIs, FollowingIsNext DEF Until
<1>3. \A j : j \in Until(k) <=> j \in Month /\ Leq(Start, j) /\ Leq(j, k) /\ j # k
  BY <1>1, BetweenIs DEF Until
<1>4. Leq(k, k) /\ \A j \in Month : Leq(Start, j) /\ Leq(j, k) => Leq(Start, k)
  BY <1>1, LeqIsOrder
<1> QED BY <1>2, <1>3, <1>4

\* No month is before the configured start.
LEMMA UntilStart == Until(Start) = {}
<1>1. \A j : j \in Until(Start) => j \in Month /\ Leq(Start, j) /\ Leq(j, Start) /\ j # Start
  BY MonthsAssumption, BetweenIs DEF Until
<1> QED BY <1>1, LeqIsOrder, MonthsAssumption

----------------------------------------------------------------------------
(* Types *)

LEMMA InitTyped == Init => TypeOK
<1> SUFFICES ASSUME Init PROVE TypeOK
  OBVIOUS
<1>1. Missing(done) \subseteq Month
  <2>1. CASE done # {}
    BY <2>1, LatestIsMonth, BetweenIs, MonthsAssumption, HistoriesAssumption
       DEF Missing, Init
  <2> QED BY <2>1 DEF Missing
<1>2. {advice, found} \subseteq Output
  BY DEF Init, Nothing, Output
<1>3. setbacks \in 0 .. Setbacks
  BY MonthsAssumption DEF Init
<1> QED BY <1>1, <1>2, <1>3, HistoriesAssumption DEF Init, TypeOK

\* What is found is of the type of an output.
LEMMA FoundTyped ==
  ASSUME TypeOK
  PROVE  /\ [found EXCEPT !.next = NextRequired(done)] \in Output
         /\ [found EXCEPT !.cumulative = Cumulative(done)] \in Output
         /\ [found EXCEPT !.gaps = {}] \in Output
         /\ [found EXCEPT !.gaps = gaps] \in Output
<1>1. NextRequired(done) \in Month
  BY LatestIsMonth, FollowingIsNext, MonthsAssumption DEF NextRequired, TypeOK
<1>2. Cumulative(done) \in [months_done : {Cardinality(S) : S \in SUBSET Months},
                            latest : Month \cup {NULL}]
  BY LatestIsMonth DEF Cumulative, TypeOK
<1> QED BY <1>1, <1>2 DEF TypeOK, Output

LEMMA TypePreserved ==
  ASSUME TypeOK, [Next]_vars
  PROVE  TypeOK'
<1> USE DEF TypeOK, scan, Reading
<1>1. CASE Command
  <2>1. Nothing \in Output
    BY DEF Nothing, Output
  <2> QED BY <1>1, <2>1 DEF Command
<1>2. ASSUME NEW f \in Output, Found(f) PROVE {advice', found'} \subseteq Output
  BY <1>2 DEF Found
<1>3. CASE ReadNext
  BY <1>2, <1>3, FoundTyped DEF ReadNext
<1>4. CASE ReadCumulative
  BY <1>2, <1>4, FoundTyped DEF ReadCumulative
<1>5. CASE BeginScan
  BY <1>2, <1>5, FoundTyped, MonthsAssumption DEF BeginScan
<1>6. CASE ScanMonth
  BY <1>6, FollowingIsNext, MovedOnIsFollowing DEF ScanMonth
<1>7. CASE EndScan
  BY <1>2, <1>7, FoundTyped DEF EndScan
<1>8. CASE Follow
  BY <1>8 DEF Follow, command
<1>9. CASE Ingest
  BY <1>9 DEF Ingest, command
<1>10. CASE Withdraw
  <2>1. PICK k \in done : /\ done' = done \ {k}
                          /\ holes' = holes \cup {k}
                          /\ inbox' \in {inbox \cup {k}, inbox \ {k}}
                          /\ stuck' \in {stuck, stuck \cup {k}}
    BY <1>10 DEF Withdraw
  <2>2. /\ done' \subseteq Months /\ inbox' \subseteq Months /\ holes' \subseteq Month
        /\ stuck' \subseteq Months \ done'
    BY <2>1, MonthsAreMonths
  <2>3. setbacks' \in 0 .. Setbacks
    BY <1>10, MonthsAssumption DEF Withdraw
  <2>4. steady' \in BOOLEAN
    BY <1>10 DEF Withdraw
  <2> QED BY <1>10, <2>2, <2>3, <2>4 DEF Withdraw, command
<1>11. CASE UNCHANGED vars
  BY <1>11 DEF vars, command
<1>12. CASE GetStuck
  <2>1. setbacks' \in 0 .. Setbacks
    BY <1>12, MonthsAssumption DEF GetStuck
  <2> QED BY <1>12, <2>1 DEF GetStuck, command
<1>13. CASE Unstick
  BY <1>13 DEF Unstick, command
<1> QED BY <1>1, <1>3, <1>4, <1>5, <1>6, <1>7, <1>8, <1>9, <1>10, <1>11, <1>12, <1>13
        DEF Next, Scan

----------------------------------------------------------------------------
(* The inductive invariant *)

\* What is done, or known not to be, remains so.
LEMMA KnownGrows ==
  ASSUME [Next]_vars
  PROVE  done \cup holes \subseteq done' \cup holes' /\ holes \subseteq holes'
BY DEF Next, vars, command, Command, ReadNext, ReadCumulative, Scan, BeginScan,
       ScanMonth, EndScan, Follow, Ingest, Withdraw, GetStuck, Unstick

LEMMA InitEstablishes == Init => IInv
<1> SUFFICES ASSUME Init PROVE IInv
  OBVIOUS
<1>1. TypeOK
  BY InitTyped
<1>2. ASSUME NEW k \in done PROVE Settled(k)
  <2>1. /\ done \in SUBSET Months /\ done # {} /\ k \in Month
        /\ Start \in Month /\ Latest(done) \in Month
    BY <1>1, <1>2, LatestIsMonth, MonthsAreMonths, MonthsAssumption DEF TypeOK
  <2>2. Leq(k, Latest(done))
    BY <1>2, <2>1, LatestIsLast
  <2>3. Between(Start, k) \subseteq Between(Start, Latest(done))
    BY <2>1, <2>2, BetweenIs, LeqIsOrder
  <2> QED BY <2>1, <2>3 DEF Init, Missing, Settled, Until
<1>3. cursor = NULL /\ inbox = {}
  BY DEF Init
<1>4. \A r \in {advice, found} : r.next = NULL /\ r.gaps = {}
  BY DEF Init, Nothing
<1> QED BY <1>1, <1>2, <1>3, <1>4 DEF IInv, ScanSound

\* The next required month is beyond everything that is not settled.
LEMMA NextSettled ==
  ASSUME IInv
  PROVE  Settled(NextRequired(done))
<1>1. CASE done = {}
  BY <1>1, UntilStart DEF NextRequired, Settled
<1>2. CASE done # {}
  <2>1. Latest(done) \in done /\ Latest(done) \in Month /\ Settled(Latest(done))
    BY <1>2, LatestIsLast, LatestIsMonth DEF IInv, TypeOK
  <2> QED BY <1>2, <2>1, UntilFollowing DEF NextRequired, Settled
<1> QED BY <1>1, <1>2

\* When a scan ends, it has found the gaps of what it has read.
LEMMA ScanExact ==
  ASSUME IInv, EndScan
  PROVE  gaps = Missing(present)
<1> DEFINE L == Latest(present)
<1>1. /\ cursor \in Month /\ present # {} /\ L \in Month /\ Start \in Month
      /\ ~Leq(cursor, L)
  BY LatestIsMonth, MonthsAssumption DEF IInv, TypeOK, EndScan
<1>2. Between(Start, L) \subseteq Until(cursor)
  BY <1>1, BetweenIs, LeqIsOrder DEF Until
<1> QED BY <1>1, <1>2 DEF IInv, ScanSound, Missing, EndScan

\* A part that is found is sound, and so is what is printed with the last one.
LEMMA FoundSound ==
  ASSUME IInv, NEW f, Found(f), [Next]_vars,
         f.next # NULL => Settled(f.next)',
         \A k \in f.gaps : k \in holes' /\ Settled(k)'
  PROVE  \A r \in {advice', found'} : /\ r.next # NULL => Settled(r.next)'
                                      /\ \A k \in r.gaps : k \in holes' /\ Settled(k)'
BY KnownGrows DEF IInv, Found, Settled

LEMMA StepPreserves ==
  ASSUME IInv, [Next]_vars
  PROVE  IInv'
<1>0. TypeOK /\ TypeOK'
  BY TypePreserved DEF IInv
<1>1. \A k : Settled(k) => Settled(k)'
  BY KnownGrows DEF Settled
<1>2. (\A k \in done \cup inbox : Settled(k))'
  <2>1. ASSUME Follow PROVE \A k \in inbox' : Settled(k)
    BY <2>1, MonthsAreMonths, MonthsAssumption DEF Follow, IInv
  <2>2. CASE Follow
    BY <1>1, <2>1, <2>2 DEF Follow, IInv
  <2>3. CASE Ingest
    BY <1>1, <2>3 DEF Ingest, IInv
  <2>4. CASE Withdraw
    BY <1>1, <2>4 DEF Withdraw, IInv
  <2>5. CASE UNCHANGED <<done, inbox>>
    BY <1>1, <2>5 DEF IInv
  <2> QED BY <2>2, <2>3, <2>4, <2>5
          DEF Next, vars, GetStuck, Unstick, Command, ReadNext, ReadCumulative, Scan, BeginScan,
              ScanMonth, EndScan
<1>3. (\A r \in {advice, found} : /\ r.next # NULL => Settled(r.next)
                                  /\ \A k \in r.gaps : k \in holes /\ Settled(k))'
  <2>1. CASE Command
    <3>1. Nothing.next = NULL /\ Nothing.gaps = {}
      BY DEF Nothing
    <3> QED BY <1>1, <2>1, <3>1, KnownGrows DEF Command, IInv
  <2>2. found \in [next : Month \cup {NULL}, gaps : SUBSET Month,
                   cumulative : {found.cumulative}]
    BY <1>0 DEF TypeOK, Output
  <2>3. CASE ReadNext
    <3> DEFINE f == [found EXCEPT !.next = NextRequired(done)]
    <3>1. f.next = NextRequired(done) /\ f.gaps = found.gaps
      BY <2>2
    <3>2. Found(f)
      BY <2>3 DEF ReadNext
    <3> HIDE DEF f
    <3> QED BY <1>1, <3>1, <3>2, NextSettled, FoundSound, KnownGrows DEF IInv
  <2>4. CASE ReadCumulative
    <3> DEFINE f == [found EXCEPT !.cumulative = Cumulative(done)]
    <3>1. f.next = found.next /\ f.gaps = found.gaps
      BY <2>2
    <3>2. Found(f)
      BY <2>4 DEF ReadCumulative
    <3> HIDE DEF f
    <3> QED BY <1>1, <3>1, <3>2, FoundSound, KnownGrows DEF IInv
  <2>5. CASE BeginScan
    <3> DEFINE f == [found EXCEPT !.gaps = {}]
    <3>1. f.next = found.next /\ f.gaps = {}
      BY <2>2
    <3>2. Found(f) \/ UNCHANGED <<advice, found>>
      BY <2>5 DEF BeginScan
    <3> HIDE DEF f
    <3> QED BY <1>1, <3>1, <3>2, FoundSound, KnownGrows DEF IInv
  <2>6. CASE EndScan
    <3> DEFINE f == [found EXCEPT !.gaps = gaps]
               L == Latest(present)
    <3>1. f.next = found.next /\ f.gaps = gaps
      BY <2>2
    <3>2. Found(f)
      BY <2>6 DEF EndScan
    <3> HIDE DEF f
    <3>3. gaps \subseteq holes /\ Settled(L) /\ gaps \subseteq Between(Start, L) \ {L}
      <4>1. present # {} /\ present \in SUBSET Months
        BY <1>0, <2>6 DEF TypeOK, EndScan
      <4>2. L \in present
        BY <4>1, LatestIsLast
      <4> QED BY <2>6, <4>1, <4>2, ScanExact DEF IInv, ScanSound, EndScan, Missing
    <3>4. ASSUME NEW k \in gaps PROVE Settled(k)
      <4>1. k \in Month /\ L \in Month /\ Start \in Month
        BY <1>0, <2>6, LatestIsMonth, MonthsAssumption DEF TypeOK, EndScan
      <4>2. Leq(k, L) /\ k # L
        BY <3>3, <4>1, BetweenIs
      <4>3. Until(k) \subseteq Until(L)
        BY <4>1, <4>2, BetweenIs, LeqIsOrder DEF Until
      <4> QED BY <3>3, <4>3 DEF Settled
    <3> QED BY <1>1, <3>1, <3>2, <3>3, <3>4, FoundSound, KnownGrows DEF IInv
  <2>7. CASE UNCHANGED <<advice, found>>
    BY <1>1, <2>7, KnownGrows DEF IInv
  <2> QED BY <2>1, <2>3, <2>4, <2>5, <2>6, <2>7
          DEF Next, vars, command, Scan, ScanMonth, Follow, Ingest, Withdraw, GetStuck, Unstick
<1>4. ScanSound'
  <2>1. CASE BeginScan /\ done # {}
    <3> DEFINE L == Latest(done)
    <3>1. /\ cursor' = Start /\ present' = done /\ gaps' = {}
          /\ L \in done /\ L \in Month /\ Start \in Month /\ Settled(L)
      BY <1>0, <2>1, LatestIsLast, LatestIsMonth, MonthsAssumption
         DEF BeginScan, IInv, TypeOK
    <3>2. Missing(done) \subseteq holes
      BY <3>1, <2>1 DEF Missing, Settled, Until
    <3>3. Leq(Start, Start)
      BY <3>1, LeqIsOrder
    <3> QED BY <1>1, <3>1, <3>2, <3>3, UntilStart, KnownGrows DEF ScanSound
  <2>2. CASE ScanMonth
    <3> DEFINE L == Latest(present)
    <3>1. /\ cursor \in Month /\ present # {} /\ L \in Month /\ Start \in Month
          /\ Leq(cursor, L) /\ Leq(Start, cursor) /\ cursor' = Following(cursor)
          /\ present' = present
      BY <1>0, <2>2, MovedOnIsFollowing, LatestIsMonth, MonthsAssumption
         DEF ScanMonth, IInv, ScanSound, TypeOK
    <3>2. Until(cursor') = Until(cursor) \cup {cursor}
      BY <3>1, UntilFollowing
    <3>3. cursor \in Between(Start, L) /\ Leq(Start, cursor')
      BY <3>1, BetweenIs, FollowingIsNext, LeqIsOrder
    <3>4. gaps' = Until(cursor') \ present
      BY <2>2, <3>1, <3>2 DEF ScanMonth, IInv, ScanSound
    <3> QED BY <1>1, <2>2, <3>1, <3>2, <3>3, <3>4, KnownGrows
            DEF IInv, ScanSound, ScanMonth
  <2>3. CASE EndScan \/ (BeginScan /\ done = {})
    BY <2>3 DEF EndScan, BeginScan, ScanSound
  <2>4. CASE UNCHANGED scan
    BY <1>1, <2>4, KnownGrows DEF IInv, ScanSound, scan
  <2> QED BY <2>1, <2>2, <2>3, <2>4
          DEF Next, vars, command, Command, ReadNext, ReadCumulative, Scan, Follow,
              Ingest, Withdraw, GetStuck, Unstick
<1> QED BY <1>0, <1>2, <1>3, <1>4 DEF IInv

\* The history is known to the invariant in every state.
LEMMA Invariance == Spec => []IInv
BY InitEstablishes, StepPreserves, PTL DEF Spec

----------------------------------------------------------------------------
(* Results *)

\* The variables of Continuity have their types.
THEOREM TypesHold == Spec => []TypeOK
<1>1. IInv => TypeOK
  BY DEF IInv
<1> QED BY <1>1, Invariance, PTL

\* missing_months is exact for what it has read, across the ends of years.
THEOREM ScansAreExact == Spec => GapsExact
<1>1. ASSUME IInv, [Next]_vars, cursor # NULL, cursor' = NULL
      PROVE  found'.gaps = Missing(present)
  <2>1. EndScan
    <3>1. NULL # Start /\ (cursor # NULL => MovedOn(cursor) # NULL)
      BY <1>1, FollowingIsNext, MovedOnIsFollowing, MonthsAssumption DEF IInv, TypeOK
    <3> QED BY <1>1, <3>1 DEF Next, vars, command, scan, Command, ReadNext,
               ReadCumulative, Scan, BeginScan, ScanMonth, Follow, Ingest, Withdraw, GetStuck, Unstick
  <2>2. found' = [found EXCEPT !.gaps = gaps] /\ found \in Output
    BY <1>1, <2>1 DEF EndScan, Found, IInv, TypeOK
  <2>3. found'.gaps = gaps
    BY <2>2 DEF Output
  <2> QED BY <1>1, <2>1, <2>3, ScanExact
<1> QED BY <1>1, Invariance, PTL DEF Spec, GapsExact

\* An operator who does as told makes no gap.
THEOREM NoGapIsMade == Spec => []GapsAreHoles
<1>1. IInv => GapsAreHoles
  BY DEF IInv, GapsAreHoles
<1> QED BY <1>1, Invariance, PTL

\* The next required month has no unknown gap before it.
THEOREM NextHasNoGap == Spec => []NextIsSettled
<1>1. IInv => NextIsSettled
  BY DEF IInv, NextIsSettled
<1> QED BY <1>1, Invariance, PTL

----------------------------------------------------------------------------
(* The numbers of one output *)

\* What the head and the rest of a list of things to find out are.
LEMMA TailsAre ==
  /\ \A a : /\ Head(<<a>>) = a /\ Tail(<<a>>) = <<>> /\ <<a>> # <<>>
  /\ \A a, b : Head(<<a, b>>) = a /\ Tail(<<a, b>>) = <<b>> /\ <<a, b>> # <<>>
  /\ \A a, b, c : /\ Head(<<a, b, c>>) = a /\ Tail(<<a, b, c>>) = <<b, c>>
                  /\ <<a, b, c>> # <<>>
OBVIOUS

\* Where a command is, from what it reads next.
LEMMA StagesAre ==
  ASSUME SteadyOK, steady, todo # <<>>, NEW t, t = Tail(todo)
  PROVE  /\ Head(todo) = "next" =>
              \/ todo = <<"next", "gaps">> /\ t = <<"gaps">>
              \/ todo = <<"next", "gaps", "cumulative">> /\ t = <<"gaps", "cumulative">>
              \/ todo = <<"next">> /\ t = <<>>
         /\ Head(todo) = "gaps" =>
              \/ todo = <<"gaps">> /\ t = <<>>
              \/ todo = <<"gaps", "cumulative">> /\ t = <<"cumulative">>
              \/ todo = <<"gaps", "next">> /\ t = <<"next">>
         /\ Head(todo) = "cumulative" =>
              \/ todo = <<"cumulative", "gaps", "next">> /\ t = <<"gaps", "next">>
              \/ todo = <<"cumulative">> /\ t = <<>>
<1>1. todo \in {<<"next", "gaps">>, <<"next", "gaps", "cumulative">>,
               <<"cumulative", "gaps", "next">>, <<"gaps">>, <<"gaps", "cumulative">>,
               <<"gaps", "next">>, <<"cumulative">>, <<"next">>}
  BY DEF SteadyOK, Commands
<1>2. CASE todo = <<"next", "gaps">>
  BY <1>2
<1>3. CASE todo = <<"next", "gaps", "cumulative">>
  BY <1>3
<1>4. CASE todo = <<"cumulative", "gaps", "next">>
  BY <1>4
<1>5. CASE todo = <<"gaps">>
  BY <1>5
<1>6. CASE todo = <<"gaps", "cumulative">>
  BY <1>6
<1>7. CASE todo = <<"gaps", "next">>
  BY <1>7
<1>8. CASE todo = <<"cumulative">>
  BY <1>8
<1>9. CASE todo = <<"next">>
  BY <1>9
<1> QED BY <1>1, <1>2, <1>3, <1>4, <1>5, <1>6, <1>7, <1>8, <1>9

LEMMA SteadyStep ==
  ASSUME IInv, SteadyOK, [Next]_vars
  PROVE  SteadyOK'
<1>0. TypeOK
  BY DEF IInv
<1>2. found \in [next : {found.next}, gaps : {found.gaps}, cumulative : {found.cumulative}]
  BY <1>0 DEF TypeOK, Output
<1>3. CASE Command
  <2>1. cursor' = NULL
    BY <1>0, <1>3 DEF Command, TypeOK, Reading, scan
  <2>2. found'.cumulative = NULL
    BY <1>3 DEF Command, Nothing
  <2> QED BY <1>3, <2>1, <2>2 DEF Command, Commands, SteadyOK
<1>4. CASE ReadNext
  <2>1. cursor' = NULL /\ todo # <<>> /\ Head(todo) = "next" /\ todo' = Tail(todo)
    BY <1>0, <1>4 DEF ReadNext, TypeOK, Reading, scan, Found
  <2>2. /\ found'.next = NextRequired(done) /\ found'.gaps = found.gaps
        /\ found'.cumulative = found.cumulative
    BY <1>2, <1>4 DEF ReadNext, Found
  <2>3. done' = done /\ steady' = steady
    BY <1>4 DEF ReadNext
  <2>4. CASE steady
    <3>1. \/ todo = <<"next", "gaps">> /\ todo' = <<"gaps">>
          \/ todo = <<"next", "gaps", "cumulative">> /\ todo' = <<"gaps", "cumulative">>
          \/ todo = <<"next">> /\ todo' = <<>>
      BY <2>1, <2>4, StagesAre
    <3>2. CASE todo = <<"next", "gaps">> /\ todo' = <<"gaps">>
      BY <2>1, <2>2, <2>3, <2>4, <3>2 DEF SteadyOK
    <3>3. CASE todo = <<"next", "gaps", "cumulative">> /\ todo' = <<"gaps", "cumulative">>
      BY <2>1, <2>2, <2>3, <2>4, <3>3 DEF SteadyOK
    <3>4. CASE todo = <<"next">> /\ todo' = <<>>
      BY <2>1, <2>2, <2>3, <2>4, <3>4 DEF SteadyOK
    <3> QED BY <3>1, <3>2, <3>3, <3>4
  <2> QED BY <2>3, <2>4 DEF SteadyOK
<1>5. CASE ReadCumulative
  <2>1. cursor' = NULL /\ todo # <<>> /\ Head(todo) = "cumulative" /\ todo' = Tail(todo)
    BY <1>0, <1>5 DEF ReadCumulative, TypeOK, Reading, scan, Found
  <2>2. /\ found'.next = found.next /\ found'.gaps = found.gaps
        /\ found'.cumulative = Cumulative(done)
    BY <1>2, <1>5 DEF ReadCumulative, Found
  <2>3. done' = done /\ steady' = steady
    BY <1>5 DEF ReadCumulative
  <2>4. CASE steady
    <3>1. \/ todo = <<"cumulative", "gaps", "next">> /\ todo' = <<"gaps", "next">>
          \/ todo = <<"cumulative">> /\ todo' = <<>>
      BY <2>1, <2>4, StagesAre
    <3>2. CASE todo = <<"cumulative", "gaps", "next">> /\ todo' = <<"gaps", "next">>
      BY <2>1, <2>2, <2>3, <2>4, <3>2 DEF SteadyOK
    <3>3. CASE todo = <<"cumulative">> /\ todo' = <<>>
      BY <2>1, <2>2, <2>3, <2>4, <3>3 DEF SteadyOK
    <3> QED BY <3>1, <3>2, <3>3
  <2> QED BY <2>3, <2>4 DEF SteadyOK
<1>6. ASSUME NEW G, G = Missing(done), cursor' = NULL, todo # <<>>, Head(todo) = "gaps",
             Found([found EXCEPT !.gaps = G]), done' = done, steady' = steady, steady
      PROVE  SteadyOK'
  <2>1. /\ found'.next = found.next /\ found'.gaps = Missing(done)
        /\ found'.cumulative = found.cumulative /\ todo' = Tail(todo)
    BY <1>2, <1>6 DEF Found
  <2>2. \/ todo = <<"gaps">> /\ todo' = <<>>
        \/ todo = <<"gaps", "cumulative">> /\ todo' = <<"cumulative">>
        \/ todo = <<"gaps", "next">> /\ todo' = <<"next">>
    BY <1>6, <2>1, StagesAre
  <2>3. CASE todo = <<"gaps">> /\ todo' = <<>>
    BY <1>6, <2>1, <2>3 DEF SteadyOK
  <2>4. CASE todo = <<"gaps", "cumulative">> /\ todo' = <<"cumulative">>
    BY <1>6, <2>1, <2>4 DEF SteadyOK
  <2>5. CASE todo = <<"gaps", "next">> /\ todo' = <<"next">>
    BY <1>6, <2>1, <2>5 DEF SteadyOK
  <2> QED BY <2>2, <2>3, <2>4, <2>5
<1>7. CASE BeginScan
  <2>1. /\ todo # <<>> /\ Head(todo) = "gaps" /\ cursor = NULL /\ present' = done
        /\ done' = done /\ steady' = steady
    BY <1>7 DEF BeginScan, Reading
  <2>2. CASE done = {} /\ steady
    BY <1>6, <1>7, <2>1, <2>2 DEF BeginScan, Missing
  <2>3. CASE done # {}
    BY <1>7, <2>1, <2>3 DEF BeginScan, SteadyOK
  <2> QED BY <2>1, <2>2, <2>3 DEF SteadyOK
<1>8. CASE ScanMonth
  BY <1>8 DEF ScanMonth, SteadyOK
<1>9. CASE EndScan
  <2>1. CASE steady
    <3>1. gaps = Missing(done)
      BY <1>9, <2>1, ScanExact DEF SteadyOK, EndScan
    <3> QED BY <1>0, <1>6, <1>9, <2>1, <3>1 DEF EndScan, TypeOK, Reading
  <2> QED BY <1>9, <2>1 DEF EndScan, SteadyOK
<1>10. CASE Follow
  BY <1>10 DEF Follow, SteadyOK, command, scan
<1>11. CASE Ingest \/ Withdraw
  BY <1>11 DEF Ingest, Withdraw, SteadyOK
<1>12. CASE GetStuck \/ Unstick \/ UNCHANGED vars
  BY <1>12 DEF GetStuck, Unstick, vars, SteadyOK, command, scan
<1> QED BY <1>3, <1>4, <1>5, <1>7, <1>8, <1>9, <1>10, <1>11, <1>12 DEF Next, Scan

\* What is printed while no row changes is of the done months.
LEMMA PrintedIsSteady ==
  ASSUME IInv, SteadyOK, [Next]_vars, steady, advice' # advice, advice'.cumulative # NULL
  PROVE  /\ advice'.next = NextRequired(done) /\ advice'.gaps = Missing(done)
         /\ advice'.cumulative = Cumulative(done)
<1>1. TypeOK /\ advice' = found' /\ todo # <<>> /\ todo' = Tail(todo) /\ todo' = <<>>
  BY DEF IInv, Next, vars, command, scan, Command, ReadNext, ReadCumulative, Scan, BeginScan,
         ScanMonth, EndScan, Follow, Ingest, Withdraw, GetStuck, Unstick, Found, Reading, TypeOK
<1>2. todo \in {<<"gaps">>, <<"cumulative">>, <<"next">>}
  <2>1. \A a, b, c : Tail(<<a, b>>) # <<>> /\ Tail(<<a, b, c>>) # <<>>
    BY TailsAre
  <2> QED BY <1>1, <2>1 DEF SteadyOK, Commands
<1>3. found \in [next : {found.next}, gaps : {found.gaps}, cumulative : {found.cumulative}]
  BY <1>1 DEF TypeOK, Output
<1>4. Head(<<"gaps">>) = "gaps" /\ Head(<<"cumulative">>) = "cumulative" /\ Head(<<"next">>) = "next"
  OBVIOUS
<1>5. CASE todo = <<"gaps">>
  <2>1. found'.cumulative = found.cumulative
    BY <1>1, <1>3, <1>4, <1>5
       DEF Next, vars, command, scan, Command, ReadNext, ReadCumulative, Scan, BeginScan,
           ScanMonth, EndScan, Follow, Ingest, Withdraw, GetStuck, Unstick, Found, Reading
  <2> QED BY <1>1, <1>5, <2>1 DEF SteadyOK
<1>6. CASE todo = <<"cumulative">>
  <2>1. ReadCumulative
    BY <1>1, <1>4, <1>6
       DEF Next, vars, command, scan, Command, ReadNext, ReadCumulative, Scan, BeginScan,
           ScanMonth, EndScan, Follow, Ingest, Withdraw, GetStuck, Unstick, Reading, TypeOK
  <2> QED BY <1>1, <1>3, <1>6, <2>1 DEF SteadyOK, ReadCumulative, Found
<1>7. CASE todo = <<"next">>
  <2>1. ReadNext
    BY <1>1, <1>4, <1>7
       DEF Next, vars, command, scan, Command, ReadNext, ReadCumulative, Scan, BeginScan,
           ScanMonth, EndScan, Follow, Ingest, Withdraw, GetStuck, Unstick, Reading, TypeOK
  <2> QED BY <1>1, <1>3, <1>7, <2>1 DEF SteadyOK, ReadNext, Found
<1> QED BY <1>2, <1>5, <1>6, <1>7

\* There are finitely many months between two.
LEMMA BetweenIsFinite ==
  ASSUME NEW a \in Month, NEW b \in Month
  PROVE  IsFiniteSet(Between(a, b))
<1> DEFINE Y == a.year .. b.year
           M == 1 .. 12
           f == [p \in Y \X M |-> [year |-> p[1], month |-> p[2]]]
           R == {f[p] : p \in Y \X M}
<1>1. IsFiniteSet(Y \X M)
  <2>1. a.year \in Int /\ b.year \in Int /\ 1 \in Int /\ 12 \in Int
    BY DEF Month
  <2>2. IsFiniteSet(Y)
    BY <2>1, FS_Interval
  <2>3. IsFiniteSet(M)
    BY <2>1, FS_Interval
  <2> QED BY <2>2, <2>3, FS_Product
<1>2. IsFiniteSet(R)
  <2> HIDE DEF f
  <2> QED BY <1>1, ImageIsFinite
<1>3. Between(a, b) \subseteq R
  <2> SUFFICES ASSUME NEW k \in Between(a, b) PROVE k \in R
    OBVIOUS
  <2>1. <<k.year, k.month>> \in Y \X M /\ k = [year |-> k.year, month |-> k.month]
    BY DEF Between
  <2>2. f[<<k.year, k.month>>] = k
    BY <2>1
  <2> QED BY <2>1, <2>2
<1> QED BY <1>2, <1>3, FS_Subset

\* "months completed", "next required month" and the gaps of one output fit
\* together if no row changed while it was made: nobody is told of a next month
\* that does not follow the latest, or of gaps that are not the rest.
THEOREM OutputsAddUp == Spec => OutputAddsUp
<1>1. Init => SteadyOK
  BY DEF Init, SteadyOK
<1>2. Spec => []SteadyOK
  BY <1>1, Invariance, SteadyStep, PTL DEF Spec
<1>3. ASSUME IInv, SteadyOK, [Next]_vars, steady, advice' # advice,
             advice'.cumulative # NULL, advice'.cumulative.months_done > 0
      PROVE  LET d == advice'.cumulative IN
             /\ advice'.next # d.latest
             /\ Between(d.latest, advice'.next) = {d.latest, advice'.next}
             /\ Leq(Start, d.latest) =>
                  d.months_done + Cardinality(advice'.gaps)
                    = Cardinality(Between(Start, d.latest) \cup done)
  <2>1. /\ advice'.next = NextRequired(done) /\ advice'.gaps = Missing(done)
        /\ advice'.cumulative = Cumulative(done)
    BY <1>3, PrintedIsSteady
  <2>2. done # {}
    BY <1>3, <2>1, FS_EmptySet DEF Cumulative
  <2> DEFINE L == Latest(done)
             B == Between(Start, L)
  <2>3. advice'.cumulative.months_done = Cardinality(done) /\ advice'.cumulative.latest = L
    BY <2>1, <2>2 DEF Cumulative
  <2>4. advice'.next = Following(L) /\ advice'.gaps = B \ done
    BY <2>1, <2>2 DEF NextRequired, Missing
  <2>5. IsFiniteSet(done) /\ IsFiniteSet(B)
    BY <1>3, <2>2, LatestIsMonth, BetweenIsFinite, MonthsAssumption, FS_Subset
       DEF IInv, TypeOK, Months
  <2>7. L \in Month
    BY <1>3, <2>2, LatestIsMonth DEF IInv, TypeOK
  <2>8. Following(L) # L /\ Between(L, Following(L)) = {L, Following(L)}
    <3>1. \A k : k \in Between(L, Following(L)) <=>
                   k \in Month /\ Leq(L, k) /\ (Leq(k, L) \/ k = Following(L))
      BY <2>7, BetweenIs, FollowingIsNext
    <3>2. \A k \in Month : Leq(L, k) /\ Leq(k, L) <=> k = L
      BY <2>7, LeqIsOrder
    <3>3. Following(L) \in Month /\ Leq(L, Following(L)) /\ ~Leq(Following(L), L)
      BY <2>7, FollowingIsNext, LeqIsOrder
    <3> QED BY <2>7, <3>1, <3>2, <3>3
  <2> HIDE DEF B
  <2>6. Cardinality(done) + Cardinality(B \ done) = Cardinality(B \cup done)
    <3>1. IsFiniteSet(B \ done)
      BY <2>5, FS_Subset
    <3>2. done \cap (B \ done) = {} /\ done \cup (B \ done) = B \cup done
      OBVIOUS
    <3>3. Cardinality(done \cup (B \ done)) = Cardinality(done) + Cardinality(B \ done)
                                              - Cardinality(done \cap (B \ done))
      BY <2>5, <3>1, FS_Union
    <3>4. Cardinality(done) \in Nat /\ Cardinality(B \ done) \in Nat
      BY <2>5, <3>1, FS_CardinalityType
    <3>5. Cardinality(done \cap (B \ done)) = 0
      BY <3>2, FS_EmptySet
    <3> QED BY <3>2, <3>3, <3>4, <3>5
  <2> QED BY <2>3, <2>4, <2>6, <2>8 DEF B
<1> QED BY <1>2, <1>3, Invariance, PTL DEF Spec, OutputAddsUp
=============================================================================
