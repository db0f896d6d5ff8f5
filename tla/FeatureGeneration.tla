-------------------------- MODULE FeatureGeneration --------------------------
(***************************************************************************)
(* Bars and features: which files a generation writes, from what and in    *)
(* which order, and what is in their rows.  A generation reads the list of *)
(* tick files once; the files it writes are replaced one by one; any step  *)
(* may raise, and the files after it then stay as an earlier generation    *)
(* left them.  Rows are computed from whole-number prices and quantities.  *)
(***************************************************************************)
EXTENDS Integers, Sequences, FiniteSetsExt, Functions

CONSTANTS
  Scenarios,      \* bound: the trades in each month's file, and how many generations
  Fine, Coarse,   \* two of the bar intervals, standing for 1min and 1h
  SessionLength,  \* of date_trunc('day', ...)
  Zone,           \* offset of the TimeZone DuckDB truncates in
  BinSize,        \* footprint_bin_size and profile_bin_size
  Ratio,          \* stacked_imbalance_ratio
  MinBars,        \* stacked_imbalance_min_bars
  Lookback,       \* lookback_bars
  NULL

ASSUME IntervalsAssumption ==
  /\ {Fine, Coarse, SessionLength, BinSize, Ratio, MinBars, Lookback} \subseteq Nat \ {0}
  /\ Coarse % Fine = 0 /\ SessionLength % Fine = 0 /\ Zone \in Nat /\ Zone % Fine = 0

VARIABLES
  ticks,    \* the trades in each month's tick file
  done,     \* months with status 'done' whose file is there
  runs,     \* generations left, of the scenario's bound
  stage,    \* what the running or last command was to generate
  paths,    \* the months it reads
  todo,     \* the files it has still to write
  outcome,  \* "running", "raised" or "finished"
  disk,     \* the table in each file, NULL where its rows are not modelled
  made      \* history: the months each file was computed from

vars == <<ticks, done, runs, stage, paths, todo, outcome, disk, made>>

\* A trade; price times quantity is its quote_qty.
Trade == [id : Nat, t : Nat, price : Nat, qty : Nat \ {0}, maker : BOOLEAN]

\* A month whose file would have no row does not become done.
ASSUME ScenariosAssumption ==
  \A s \in Scenarios :
    /\ s.runs \in Nat /\ IsFiniteSet(DOMAIN s.ticks)
    /\ \A m \in DOMAIN s.ticks :
         s.ticks[m] \subseteq Trade /\ s.ticks[m] # {} /\ IsFiniteSet(s.ticks[m])

----------------------------------------------------------------------------
(* Helpers *)

Sum(S, F(_)) == SumFunction([x \in S |-> F(x)])

\* Every way to choose one of the values f[k] for each k.
Selections(f) ==
  LET tied == {k \in DOMAIN f : Cardinality(f[k]) > 1}
      ways == {h \in [tied -> UNION {f[k] : k \in tied}] : \A k \in tied : h[k] \in f[k]}
  IN {[k \in DOMAIN f |-> IF k \in tied THEN h[k] ELSE CHOOSE x \in f[k] : TRUE] :
        h \in ways}

BarTime(t, width) == (t \div width) * width

PriceBin(price, size) == (price \div size) * size

SessionOf(t) == (t + Zone) \div SessionLength

Quote(x) == x.price * x.qty

\* A buyer who is the maker was hit by a taker who sold.
TakerBuy(x) == IF x.maker THEN 0 ELSE x.qty
TakerSell(x) == IF x.maker THEN x.qty ELSE 0

Signed(x) == TakerBuy(x) - TakerSell(x)

TicksOf(M) == UNION {ticks[m] : m \in M}

----------------------------------------------------------------------------
(* bars.py *)

InBar(T, k, width) == {x \in T : BarTime(x.t, width) = k}

BarTimes(T, width) == {BarTime(x.t, width) : x \in T}

\* The trades at the first and at the last instant of some trades.
FirstOf(T) == {x \in T : \A y \in T : x.t <= y.t}
LastOf(T) == {x \in T : \A y \in T : y.t <= x.t}

PricesOf(T) == {x.price : x \in T}

\* arg_min and arg_max by time: any of the trades at the same instant.
Opens(T, width) ==
  Selections([k \in BarTimes(T, width) |-> PricesOf(FirstOf(InBar(T, k, width)))])
Closes(T, width) ==
  Selections([k \in BarTimes(T, width) |-> PricesOf(LastOf(InBar(T, k, width)))])

\* MISTAKE: a bucket begins where the next one should.
BarsShifted(T, width, open, close) ==
  [k \in BarTimes(T, width) |->
     LET B == {x \in T : x.t \in k .. k + width} IN
     [open |-> open[k], close |-> close[k],
      high |-> Max(PricesOf(B)), low |-> Min(PricesOf(B)),
      volume |-> Sum(B, LAMBDA x : x.qty), quote |-> Sum(B, Quote),
      buy |-> Sum(B, TakerBuy), sell |-> Sum(B, TakerSell),
      count |-> Cardinality(B)]]

Bars(T, width, open, close) ==
  [k \in BarTimes(T, width) |->
     LET B == InBar(T, k, width) IN
     [open |-> open[k], close |-> close[k],
      high |-> Max(PricesOf(B)), low |-> Min(PricesOf(B)),
      volume |-> Sum(B, LAMBDA x : x.qty), quote |-> Sum(B, Quote),
      buy |-> Sum(B, TakerBuy), sell |-> Sum(B, TakerSell),
      count |-> Cardinality(B)]]

----------------------------------------------------------------------------
(* Features that are computed from bars *)

UpTo(table, k) == {j \in DOMAIN table : j <= k}

SessionUpTo(table, k) == {j \in UpTo(table, k) : SessionOf(j) = SessionOf(k)}

\* MISTAKE: the window has no order, so that it is the whole table.
OrderflowOfAll(bars) ==
  LET delta(j) == bars[j].buy - bars[j].sell IN
  [k \in DOMAIN bars |->
     [close |-> bars[k].close, delta |-> delta(k),
      cumulative |-> Sum(DOMAIN bars, delta),
      session |-> Sum(SessionUpTo(bars, k), delta)]]

\* compute_orderflow_bars
Orderflow(bars) ==
  LET delta(j) == bars[j].buy - bars[j].sell IN
  [k \in DOMAIN bars |->
     [close |-> bars[k].close, delta |-> delta(k),
      cumulative |-> Sum(UpTo(bars, k), delta),
      session |-> Sum(SessionUpTo(bars, k), delta)]]

\* The side of an imbalance; a comparison with NULLIF(0, 0) is not true.
Side(bar) == IF bar.sell > 0 /\ bar.buy >= Ratio * bar.sell THEN "buy"
             ELSE IF bar.buy > 0 /\ bar.sell >= Ratio * bar.buy THEN "sell"
             ELSE "none"

\* MISTAKE: an island is told by its number alone.
StackedByNumber(bars) ==
  LET imbalanced == {k \in DOMAIN bars : Side(bars[k]) # "none"}
      Alike(k) == {j \in imbalanced : Side(bars[j]) = Side(bars[k])}
      Island(k) == Cardinality({j \in imbalanced : j <= k})
                     - Cardinality({j \in Alike(k) : j <= k})
      Size(k) == Cardinality({j \in imbalanced : Island(j) = Island(k)})
  IN [k \in {j \in imbalanced : Size(j) >= MinBars} |->
        [side |-> Side(bars[k]), island_length |-> Size(k)]]

\* detect_stacked_imbalances: rows without an imbalance are gone before the
\* others are numbered, once all and once by side.
Stacked(bars) ==
  LET imbalanced == {k \in DOMAIN bars : Side(bars[k]) # "none"}
      Alike(k) == {j \in imbalanced : Side(bars[j]) = Side(bars[k])}
      Island(k) == Cardinality({j \in imbalanced : j <= k})
                     - Cardinality({j \in Alike(k) : j <= k})
      Size(k) == Cardinality({j \in Alike(k) : Island(j) = Island(k)})
  IN [k \in {j \in imbalanced : Size(j) >= MinBars} |->
        [side |-> Side(bars[k]), island_length |-> Size(k)]]

\* detect_delta_divergence: against the rows, up to Lookback, before each one.
Divergence(orderflow) ==
  LET Prior(k) == {j \in DOMAIN orderflow :
                     j < k /\ Cardinality({i \in DOMAIN orderflow : j <= i /\ i < k})
                                <= Lookback}
      Close(S) == {orderflow[j].close : j \in S}
      Delta(S) == {orderflow[j].cumulative : j \in S}
      bearish(k) == /\ orderflow[k].close > Max(Close(Prior(k)))
                    /\ orderflow[k].cumulative <= Max(Delta(Prior(k)))
      bullish(k) == /\ orderflow[k].close < Min(Close(Prior(k)))
                    /\ orderflow[k].cumulative >= Min(Delta(Prior(k)))
  IN [k \in {j \in DOMAIN orderflow : Prior(j) # {} /\ (bearish(j) \/ bullish(j))} |->
        [bearish |-> bearish(k), bullish |-> bullish(k)]]

\* MISTAKE: the window has no partition.
VwapOfAll(bars) ==
  [k \in DOMAIN bars |->
     [quote |-> Sum(UpTo(bars, k), LAMBDA j : bars[j].quote),
      volume |-> Sum(UpTo(bars, k), LAMBDA j : bars[j].volume)]]

\* compute_session_vwap: session_vwap is the quotient of the two sums.
SessionVwap(bars) ==
  [k \in DOMAIN bars |->
     [quote |-> Sum(SessionUpTo(bars, k), LAMBDA j : bars[j].quote),
      volume |-> Sum(SessionUpTo(bars, k), LAMBDA j : bars[j].volume)]]

\* compute_atr: the true range of every bar but the first; its smoothing is left out.
TrueRanges(bars) ==
  LET Previous(k) == bars[Max({j \in DOMAIN bars : j < k})].close
      Apart(x, y) == IF x < y THEN y - x ELSE x - y
  IN [k \in {j \in DOMAIN bars : UpTo(bars, j) # {j}} |->
        Max({bars[k].high - bars[k].low,
             Apart(bars[k].high, Previous(k)), Apart(bars[k].low, Previous(k))})]

----------------------------------------------------------------------------
(* Features that are computed from trades *)

\* MISTAKE: prices are rounded to the nearest bin.
FootprintNearest(T, width, size) ==
  LET Key(x) == <<BarTime(x.t, width), PriceBin(x.price + size \div 2, size)>> IN
  [k \in {Key(x) : x \in T} |->
     LET B == {x \in T : Key(x) = k} IN
     [buy |-> Sum(B, TakerBuy), sell |-> Sum(B, TakerSell), count |-> Cardinality(B)]]

\* compute_footprint
Footprint(T, width, size) ==
  LET Key(x) == <<BarTime(x.t, width), PriceBin(x.price, size)>> IN
  [k \in {Key(x) : x \in T} |->
     LET B == {x \in T : Key(x) = k} IN
     [buy |-> Sum(B, TakerBuy), sell |-> Sum(B, TakerSell), count |-> Cardinality(B)]]

\* _session_histogram
SessionHistogram(T) ==
  LET Key(x) == <<SessionOf(x.t), PriceBin(x.price, BinSize)>> IN
  [k \in {Key(x) : x \in T} |-> Sum({x \in T : Key(x) = k}, LAMBDA x : x.qty)]

\* The range and volume of a session, and the bin of its largest volume.
PointOfControl(T, s) ==
  LET hist == SessionHistogram(T)
      bins == {k[2] : k \in {j \in DOMAIN hist : j[1] = s}}
  IN Min({b \in bins : \A c \in bins : hist[<<s, c>>] <= hist[<<s, b>>]})

InSession(T, s) == {x \in T : SessionOf(x.t) = s}

\* A later session whose range of prices holds a price.
Holds(T, r, price) ==
  Min(PricesOf(InSession(T, r))) <= price /\ price <= Max(PricesOf(InSession(T, r)))

\* MISTAKE: only the latest session is looked at.
NakedOfLatest(T, s, price) ==
  LET latest == Max({SessionOf(x.t) : x \in T}) IN latest = s \/ ~Holds(T, latest, price)

Naked(T, s, price) ==
  ~\E r \in {SessionOf(x.t) : x \in T} : r > s /\ Holds(T, r, price)

\* The summary of compute_session_profiles; ValueArea has its value area.
ProfileSummary(T) ==
  [s \in {SessionOf(x.t) : x \in T} |->
     [poc |-> PointOfControl(T, s),
      day_low |-> Min(PricesOf(InSession(T, s))), day_high |-> Max(PricesOf(InSession(T, s))),
      day_volume |-> Sum(InSession(T, s), LAMBDA x : x.qty),
      naked |-> Naked(T, s, PointOfControl(T, s))]]

\* The volume of a bin in a session until the end of a step.
Running(T, s, step, bin) ==
  Sum({x \in T : /\ SessionOf(x.t) = s /\ BarTime(x.t, Coarse) <= step
                 /\ PriceBin(x.price, BinSize) = bin},
      LAMBDA x : x.qty)

\* The bins traded in one step of a session.
TradedIn(T, s, step) ==
  {PriceBin(x.price, BinSize) :
     x \in {y \in T : SessionOf(y.t) = s /\ BarTime(y.t, Coarse) = step}}

\* MISTAKE: volumes run on from one session to the next.
DevelopingPocsOfAll(T) ==
  LET Total(step, bin) == Sum({x \in T : /\ BarTime(x.t, Coarse) <= step
                                         /\ PriceBin(x.price, BinSize) = bin},
                              LAMBDA x : x.qty)
      Best(k) == {b \in TradedIn(T, k[1], k[2]) :
                    \A c \in TradedIn(T, k[1], k[2]) : Total(k[2], c) <= Total(k[2], b)}
      keys == {<<SessionOf(x.t), BarTime(x.t, Coarse)>> : x \in T}
  IN {[k \in keys |-> [developing_poc |-> f[k], running_volume |-> Total(k[2], f[k])]] :
        f \in Selections([k \in keys |-> Best(k)])}

\* compute_developing_poc: of the bins traded in a step, one with the largest
\* running volume; row_number takes any of several.
DevelopingPocs(T) ==
  LET Best(k) == {b \in TradedIn(T, k[1], k[2]) :
                    \A c \in TradedIn(T, k[1], k[2]) :
                      Running(T, k[1], k[2], c) <= Running(T, k[1], k[2], b)}
      keys == {<<SessionOf(x.t), BarTime(x.t, Coarse)>> : x \in T}
  IN {[k \in keys |-> [developing_poc |-> f[k],
                       running_volume |-> Running(T, k[1], k[2], f[k])]] :
        f \in Selections([k \in keys |-> Best(k)])}

----------------------------------------------------------------------------
(* Generations *)

BarFiles == <<"bars_fine", "bars_coarse">>

FeatureFiles ==
  <<"orderflow_fine", "orderflow_coarse", "large_trades", "stacked_imbalances",
    "delta_divergence", "absorption_candidates", "iceberg_candidates",
    "session_vwap", "footprint", "session_volume_profile",
    "session_profile_summary", "developing_poc", "atr", "realized_vol">>

\* MISTAKE: features are generated before the bars.
PlanReversed == [bars |-> BarFiles, features |-> FeatureFiles,
                 both |-> FeatureFiles \o BarFiles]

\* The stages bars and features of main.py, and _regenerate_bars_and_features.
Plan == [bars |-> BarFiles, features |-> FeatureFiles,
         both |-> BarFiles \o FeatureFiles]

Files == {Plan["both"][i] : i \in DOMAIN Plan["both"]}

\* The file that each of these is computed from; the others read the ticks.
ReadsFile == [orderflow_fine |-> "bars_fine", orderflow_coarse |-> "bars_coarse",
              stacked_imbalances |-> "bars_fine", delta_divergence |-> "orderflow_fine",
              absorption_candidates |-> "bars_fine", session_vwap |-> "bars_fine",
              atr |-> "bars_coarse", realized_vol |-> "bars_coarse"]

\* The months that the input of f comes from; none, if it is not there.
Input(f) == IF f \in DOMAIN ReadsFile THEN made[ReadsFile[f]] ELSE paths

Init ==
  /\ \E s \in Scenarios : ticks = s.ticks /\ runs = s.runs
  /\ done \in SUBSET DOMAIN ticks
  /\ stage = "both" /\ paths = {} /\ todo = <<>> /\ outcome = "raised"
  /\ disk = [f \in Files |-> NULL]
  /\ made = [f \in Files |-> {}]

\* The pipeline, in between: a month becomes done, or ceases to be.
MonthChanges ==
  /\ todo = <<>> /\ runs > 0
  /\ \E m \in DOMAIN ticks : done' = IF m \in done THEN done \ {m} ELSE done \cup {m}
  /\ UNCHANGED <<ticks, runs, stage, paths, todo, outcome, disk, made>>

\* get_all_tick_paths; without a path nothing is generated.
Start ==
  /\ todo = <<>> /\ runs > 0 /\ done # {}
  /\ runs' = runs - 1
  /\ paths' = done
  /\ stage' \in DOMAIN Plan
  /\ todo' = Plan[stage']
  /\ outcome' = "running"
  /\ UNCHANGED <<ticks, done, disk, made>>

\* The next file is written beside the old one and replaces it.
Write(f, table) ==
  /\ Head(todo) = f
  /\ Input(f) # {}
  /\ disk' = [disk EXCEPT ![f] = table]
  /\ made' = [made EXCEPT ![f] = Input(f)]
  /\ todo' = Tail(todo)
  /\ outcome' = IF Tail(todo) = <<>> THEN "finished" ELSE outcome
  /\ UNCHANGED <<ticks, done, runs, stage, paths>>

\* Anything may raise, and a file that is not there does.
Raise ==
  /\ todo # <<>>
  /\ todo' = <<>>
  /\ outcome' = "raised"
  /\ UNCHANGED <<ticks, done, runs, stage, paths, disk, made>>

Width == [bars_fine |-> Fine, bars_coarse |-> Coarse]

GenerateBar ==
  \E f \in DOMAIN Width :
    \E open \in Opens(TicksOf(paths), Width[f]), close \in Closes(TicksOf(paths), Width[f]) :
      Write(f, Bars(TicksOf(paths), Width[f], open, close))

ComputeOrderflowBars ==
  \E f \in {"orderflow_fine", "orderflow_coarse"} : Write(f, Orderflow(disk[ReadsFile[f]]))

DetectStackedImbalances == Write("stacked_imbalances", Stacked(disk["bars_fine"]))

DetectDeltaDivergence == Write("delta_divergence", Divergence(disk["orderflow_fine"]))

ComputeSessionVwap == Write("session_vwap", SessionVwap(disk["bars_fine"]))

ComputeFootprint == Write("footprint", Footprint(TicksOf(paths), Fine, BinSize))

ComputeSessionProfiles ==
  \/ Write("session_volume_profile", SessionHistogram(TicksOf(paths)))
  \/ Write("session_profile_summary", ProfileSummary(TicksOf(paths)))

ComputeDevelopingPoc ==
  \E table \in DevelopingPocs(TicksOf(paths)) : Write("developing_poc", table)

\* Thresholds and statistics whose rows are left out.
ComputeStatistics ==
  \E f \in {"large_trades", "absorption_candidates", "iceberg_candidates"} : Write(f, NULL)

\* A single bar has no predecessor: then a file of an earlier generation stays.
SingleBar == Cardinality(DOMAIN disk["bars_coarse"]) = 1

\* MISTAKE: a generation that ends with a file it leaves out goes on.
SkipUnfinished(f) ==
  /\ Head(todo) = f
  /\ todo' = Tail(todo)
  /\ UNCHANGED <<ticks, done, runs, stage, paths, outcome, disk, made>>

Skip(f) ==
  /\ Head(todo) = f
  /\ todo' = Tail(todo)
  /\ outcome' = IF Tail(todo) = <<>> THEN "finished" ELSE outcome
  /\ UNCHANGED <<ticks, done, runs, stage, paths, disk, made>>

ComputeVolatility ==
  /\ made["bars_coarse"] # {}
  /\ IF SingleBar
     THEN \E f \in {"atr", "realized_vol"} : Skip(f)
     ELSE \/ Write("atr", TrueRanges(disk["bars_coarse"]))
          \/ Write("realized_vol", NULL)

Generate ==
  /\ todo # <<>>
  /\ \/ GenerateBar \/ ComputeOrderflowBars \/ DetectStackedImbalances
     \/ DetectDeltaDivergence \/ ComputeSessionVwap \/ ComputeFootprint
     \/ ComputeSessionProfiles \/ ComputeDevelopingPoc \/ ComputeStatistics
     \/ ComputeVolatility

Next == MonthChanges \/ Start \/ Generate \/ Raise

Spec == Init /\ [][Next]_vars

----------------------------------------------------------------------------
(* Properties.  They compare what is in the files with the trades of the   *)
(* months they were made from, or with each other.                         *)

\* The trades behind a file.
Behind(f) == TicksOf(made[f])

\* Files that were made from the same months, all of them there.
Alike(F) == \A f, g \in F : made[f] # {} /\ made[f] = made[g]

\* One price, so that an open or a close taken from these trades is no choice.
OnePrice(T) == \A x, y \in T : x.price = y.price
OpenIsFixed(T, k, width) == OnePrice(FirstOf(InBar(T, k, width)))
CloseIsFixed(T, k, width) == OnePrice(LastOf(InBar(T, k, width)))

\* What is left to generate is a rest of the plan, of months that have files.
TypeOK ==
  /\ runs \in Nat /\ done \subseteq DOMAIN ticks /\ paths \subseteq DOMAIN ticks
  /\ stage \in DOMAIN Plan /\ outcome \in {"running", "raised", "finished"}
  /\ \E i \in 0 .. Len(Plan[stage]) : todo = SubSeq(Plan[stage], i + 1, Len(Plan[stage]))
  /\ (todo # <<>>) <=> (outcome = "running")
  /\ made \in [Files -> SUBSET DOMAIN ticks]

\* After a regeneration that finished, every file is from the months that were
\* listed when it began, also those that are computed from bars; what an earlier one
\* left is only atr and realized_vol, when there is a single coarse bar to compute
\* them from (volatility.py:39-41).
GeneratedTogether ==
  (outcome = "finished" /\ stage = "both") =>
     \A f \in Files : made[f] = paths \/ (f \in {"atr", "realized_vol"} /\ SingleBar)

\* The bars of one interval are those of a finer one put together: no trade is
\* counted in two bars or in none, and opens and closes are those of the edge.  Of
\* two prices at that edge each of the two queries takes any (bars.py:35, 38).
CoarseBarsAggregateFine ==
  Alike({"bars_fine", "bars_coarse"}) =>
    LET fine == disk["bars_fine"]
        coarse == disk["bars_coarse"]
        In(K) == {k \in DOMAIN fine : BarTime(k, Coarse) = K}
    IN /\ DOMAIN coarse = {BarTime(k, Coarse) : k \in DOMAIN fine}
       /\ \A K \in DOMAIN coarse :
            /\ \A n \in {"volume", "quote", "buy", "sell", "count"} :
                 coarse[K][n] = Sum(In(K), LAMBDA k : fine[k][n])
            /\ coarse[K].high = Max({fine[k].high : k \in In(K)})
            /\ coarse[K].low = Min({fine[k].low : k \in In(K)})
            /\ OpenIsFixed(Behind("bars_fine"), K, Coarse) =>
                 coarse[K].open = fine[Min(In(K))].open
            /\ CloseIsFixed(Behind("bars_fine"), K, Coarse) =>
                 coarse[K].close = fine[Max(In(K))].close

\* The running sums over bars are those over the trades up to the end of the bar,
\* of all time and of the session: orderflow and session_vwap lose no trade.  A bar
\* counts whole for the session that it begins in.  No session cuts a fine bar, so
\* that there this is the session of each trade; a coarse bar over the edge of a
\* session is not cut there, although orderflow.py:38-39 has "session-anchored" sums
\* "at whatever bar resolution".
RunningSumsMatchTicks ==
  LET Until(f, t) == {x \in Behind(f) : x.t < t}
      Today(f, k) == {x \in Until(f, k + Fine) : SessionOf(x.t) = SessionOf(k)}
      TodaysBars(f, w, k) == {x \in Until(f, k + w) :
                                SessionOf(BarTime(x.t, w)) = SessionOf(k)}
  IN /\ \A f \in {"orderflow_fine", "orderflow_coarse"} : made[f] # {} =>
          \A k \in DOMAIN disk[f] :
            LET width == Width[ReadsFile[f]] IN
            /\ disk[f][k].cumulative = Sum(Until(f, k + width), Signed)
            /\ disk[f][k].session = Sum(TodaysBars(f, width, k), Signed)
     /\ made["orderflow_fine"] # {} => \A k \in DOMAIN disk["orderflow_fine"] :
          disk["orderflow_fine"][k].session = Sum(Today("orderflow_fine", k), Signed)
     /\ made["session_vwap"] # {} => \A k \in DOMAIN disk["session_vwap"] :
          disk["session_vwap"][k] =
            [quote |-> Sum(Today("session_vwap", k), Quote),
             volume |-> Sum(Today("session_vwap", k), LAMBDA x : x.qty)]

\* A coarser footprint, in time and in price, is a sum of rows of this one
\* (footprint.py:7-9): it needs no trade again.
FootprintReaggregates ==
  made["footprint"] # {} =>
    LET rows == disk["footprint"]
        Wide(t, price) == <<BarTime(t, Coarse), PriceBin(price, 2 * BinSize)>>
        Rows(w) == {k \in DOMAIN rows : Wide(k[1], k[2]) = w}
        Trades(w) == {x \in Behind("footprint") : Wide(x.t, x.price) = w}
    IN \A w \in {Wide(k[1], k[2]) : k \in DOMAIN rows}
                \cup {Wide(x.t, x.price) : x \in Behind("footprint")} :
         /\ Sum(Rows(w), LAMBDA k : rows[k].buy) = Sum(Trades(w), TakerBuy)
         /\ Sum(Rows(w), LAMBDA k : rows[k].sell) = Sum(Trades(w), TakerSell)
         /\ Sum(Rows(w), LAMBDA k : rows[k].count) = Cardinality(Trades(w))

\* The bars of the side of k with no bar of the other side in between.
RunOf(bars, k) ==
  {j \in DOMAIN bars :
     /\ Side(bars[j]) = Side(bars[k])
     /\ \A i \in Min({j, k}) .. Max({j, k}) :
          i \in DOMAIN bars => Side(bars[i]) \in {Side(bars[k]), "none"}}

\* The difference of two row numbers tells runs apart: the rows are exactly the
\* bars of runs of one side that no bar of the other side interrupts, with their
\* lengths, for every succession of sides.
StackedAreRuns ==
  Alike({"stacked_imbalances", "bars_fine"}) =>
    LET bars == disk["bars_fine"]
        Long == {k \in DOMAIN bars : /\ Side(bars[k]) # "none"
                                     /\ Cardinality(RunOf(bars, k)) >= MinBars}
    IN disk["stacked_imbalances"] =
         [k \in Long |-> [side |-> Side(bars[k]), island_length |-> Cardinality(RunOf(bars, k))]]

\* Where orderflow.py:73-74 says what is stacked: "runs of `min_consecutive_bars`+
\* consecutive bars where one side's taker volume is >= `ratio`x the other".
StackedBarsAreConsecutive ==
  Alike({"stacked_imbalances", "bars_fine"}) =>
    LET bars == disk["bars_fine"]
        Lasts(k, j) == \A i \in Min({j, k}) .. Max({j, k}) :
                         i \in DOMAIN bars => Side(bars[i]) = Side(bars[k])
    IN \A k \in DOMAIN disk["stacked_imbalances"] :
         Cardinality({j \in DOMAIN bars : Lasts(k, j)}) >= MinBars

\* The developing POC comes to the POC of the session: in the last step in which
\* that bin trades, the row has as much volume as the bin in the whole session, and
\* no row ever has more.  It need not stay there: a later step ranks only the bins
\* traded in it (volume_profile.py:131-134), and its row, the last of the session
\* too, may show one with less volume.
DevelopingPocReachesPoc ==
  Alike({"developing_poc", "session_volume_profile", "session_profile_summary"}) =>
    LET hist == disk["session_volume_profile"]
        summary == disk["session_profile_summary"]
        developing == disk["developing_poc"]
        Most(s) == hist[<<s, summary[s].poc>>]
        Last(s) == Max({BarTime(x.t, Coarse) :
                          x \in {y \in InSession(Behind("developing_poc"), s) :
                                   PriceBin(y.price, BinSize) = summary[s].poc}})
    IN /\ \A s \in DOMAIN summary : developing[<<s, Last(s)>>].running_volume = Most(s)
       /\ \A k \in DOMAIN developing :
            /\ developing[k].running_volume <= Most(k[1])
            /\ <<k[1], developing[k].developing_poc>> \in DOMAIN hist

\* Three queries cut time into sessions, two over trades and one over bars: a
\* session is the same trades in all of them.
SessionsAgree ==
  Alike({"session_volume_profile", "session_profile_summary", "session_vwap"}) =>
    LET hist == disk["session_volume_profile"]
        summary == disk["session_profile_summary"]
        vwap == disk["session_vwap"]
        Held(s) == {k \in DOMAIN vwap : SessionOf(k) = s}
    IN /\ DOMAIN summary = {k[1] : k \in DOMAIN hist}
       /\ DOMAIN summary = {SessionOf(k) : k \in DOMAIN vwap}
       /\ \A s \in DOMAIN summary :
            /\ Sum({k \in DOMAIN hist : k[1] = s}, LAMBDA k : hist[k]) = summary[s].day_volume
            /\ vwap[Max(Held(s))].volume = summary[s].day_volume
            /\ summary[s].poc <= summary[s].day_high
            /\ summary[s].poc + BinSize > summary[s].day_low

\* The months that a step adds to a file, and the bar at which they begin.
Added(f) == made'[f] \ made[f]
FirstAdded(f) == Min({BarTime(x.t, Coarse) : x \in UNION {ticks[m] : m \in Added(f)}})

\* A file that grows.
Grows(f) == made[f] # {} /\ made[f] \subseteq made'[f] /\ Added(f) # {}

\* The columns that no price at a tied instant gets into.
Firm ==
  LET bars == {"high", "low", "volume", "quote", "buy", "sell", "count"}
      orderflow == {"delta", "cumulative", "session"}
  IN [bars_fine |-> bars, bars_coarse |-> bars,
      orderflow_fine |-> orderflow, orderflow_coarse |-> orderflow,
      session_vwap |-> {"quote", "volume"}, footprint |-> {"buy", "sell", "count"}]

\* The same rows before the first bar that is added, and the same values there.
FirmColumnsStay(f) ==
  LET Time(k) == IF f = "footprint" THEN k[1] ELSE k
      Past(table) == {k \in DOMAIN table : Time(k) < FirstAdded(f)}
  IN /\ Past(disk'[f]) = Past(disk[f])
     /\ \A k \in Past(disk[f]), c \in Firm[f] : disk'[f][k][c] = disk[f][k][c]

\* Opens and closes, each where the trades at its instant have one price.
PricesStay(f, width) ==
  \A k \in DOMAIN disk[f] : k < FirstAdded(f) =>
    /\ (f \in DOMAIN Width /\ OpenIsFixed(Behind(f), k, width)) =>
         disk'[f][k].open = disk[f][k].open
    /\ CloseIsFixed(Behind(f), k, width) => disk'[f][k].close = disk[f][k].close

\* The bar at k and n bars before it.
Recent(T, width, k, n) ==
  {j \in BarTimes(T, width) :
     j <= k /\ Cardinality({i \in BarTimes(T, width) : j <= i /\ i < k}) <= n}

\* A row that compares closes, there or not, where the closes of n bars are no choice.
SignalsStay(f, width, n) ==
  \A k \in BarTimes(Behind(f), width) :
    (k < FirstAdded(f) /\ \A j \in Recent(Behind(f), width, k, n) :
                            CloseIsFixed(Behind(f), j, width)) =>
      Restrict(disk'[f], {k} \cap DOMAIN disk'[f]) = Restrict(disk[f], {k} \cap DOMAIN disk[f])

\* A month that is added changes no row of a time before it, so that a row holds
\* what was known at its time, except for what comes of two prices at one instant:
\* every generation takes any of them for an open or a close (bars.py:35, 38), and so
\* may put another one into a bar that was there before, and into the closes,
\* divergences and true ranges that are computed from it.  Stacked imbalances and
\* naked POCs do look ahead.
HistoryIsKept ==
  [][/\ \A f \in DOMAIN Firm : Grows(f) => FirmColumnsStay(f)
     /\ \A f \in {"bars_fine", "orderflow_fine"} : Grows(f) => PricesStay(f, Fine)
     /\ \A f \in {"bars_coarse", "orderflow_coarse"} : Grows(f) => PricesStay(f, Coarse)
     /\ Grows("delta_divergence") => SignalsStay("delta_divergence", Fine, Lookback)
     /\ Grows("atr") => SignalsStay("atr", Coarse, 1)]_vars

\* A POC that a session came back to is never naked again when later months
\* are added.
NakedIsLostOnce ==
  [][Grows("session_profile_summary") =>
       \A s \in DOMAIN disk["session_profile_summary"] :
         s < SessionOf(FirstAdded("session_profile_summary")) =>
           (disk'["session_profile_summary"][s].naked =>
              disk["session_profile_summary"][s].naked)]_vars
=============================================================================
