--------------------------- MODULE TickIngestion ---------------------------
(***************************************************************************)
(* The rows of one archive on their way into a month: the chunk loop of    *)
(* process_one_month, the running ValidationReport, the row filter, the    *)
(* committed file and its independent verification.  MonthlyPipeline has   *)
(* the checkpoints and failures around this; here nothing fails, and what  *)
(* the numbers in the state database mean is the question.                 *)
(***************************************************************************)
EXTENDS Integers, Sequences, FiniteSetsExt

CONSTANTS
  Trades,      \* the rows an archive may hold
  MaxRows,     \* bound: how many of them
  ChunkSizes,  \* the values of processing.chunk_rows
  JumpPct,     \* processing.abnormal_price_jump_pct, in percent
  Threshold,   \* processing.timestamp_unit_threshold
  NsPerUs, UsPerMs, NsPerSecond,
  Grid,        \* distance of two floating-point numbers of today's nanoseconds
  NaN,         \* the floating-point not-a-number
  NULL         \* None: nothing seen yet

\* A row: quote_qty, which nothing looks at, is left out.  The unit of its time
\* is known to the exchange only.
Trade == [id : Int, time : Nat, unit : {"ms", "us"}, price : Int \cup {NaN}, qty : Int \cup {NaN},
          maker : BOOLEAN]

ASSUME TradesAssumption == Trades \subseteq Trade

\* One threshold tells the units apart, a second is a multiple of the grid, and a
\* microsecond is more than that.
ASSUME TimesAssumption ==
  /\ {Threshold, NsPerUs, UsPerMs, NsPerSecond, Grid} \subseteq Nat \ {0}
  /\ \A t \in Trades : t.time >= Threshold <=> t.unit = "us"
  /\ NsPerSecond % Grid = 0 /\ NsPerSecond % NsPerUs = 0 /\ Grid < NsPerUs

ASSUME NullAssumption == NULL \notin Int /\ NULL \notin Trade

ASSUME BoundsAssumption == MaxRows \in Nat /\ ChunkSizes \subseteq Nat \ {0}
                           /\ JumpPct \in Nat

VARIABLES
  source,      \* the rows of the archive, in its order
  chunk_rows,  \* how many of them make a chunk
  read,        \* how many have been read
  report,      \* the ValidationReport
  file,        \* the rows given to the writer, then those of the Parquet file
  phase        \* "reading", "committed", "verified" or "failed"

vars == <<source, chunk_rows, read, report, file, phase>>

EmptyReport == [rows_seen |-> 0, n_price_or_qty_anomalies |-> 0,
                n_nonmonotonic_time |-> 0, n_trade_id_gaps |-> 0,
                total_missing_trade_ids |-> 0, n_duplicate_trade_ids |-> 0,
                n_duplicate_rows |-> 0, n_conflicting |-> 0,
                n_abnormal_price_jumps |-> 0,
                min_trade_id |-> NULL, max_trade_id |-> NULL,
                last |-> NULL]

Counters == DOMAIN EmptyReport \ {"min_trade_id", "max_trade_id", "last"}

----------------------------------------------------------------------------
(* The reader *)

\* The nearest floating-point number.
Float(x) == ((x + Grid \div 2) \div Grid) * Grid

\* MISTAKE: every value is taken for milliseconds.
NormalizeMs(raw) == Float(raw * UsPerMs * NsPerUs)

\* normalize_timestamps, of one value.
Normalize(raw) == IF raw >= Threshold THEN Float(raw * NsPerUs)
                  ELSE Float(raw * UsPerMs * NsPerUs)

\* _finalize_chunk
FinalizeChunk(rows) == [i \in DOMAIN rows |-> [rows[i] EXCEPT !.time = Normalize(@)]]

----------------------------------------------------------------------------
(* What the checks ask of a row, and of a row a and the next one b.  *)
(* Every comparison with NaN is false.                               *)

Positive(x) == x # NaN /\ x > 0

Same(x, y) == x # NaN /\ x = y

\* What is not Valid is an anomaly.
Valid(t) == Positive(t.price) /\ Positive(t.qty)

\* filter_valid_rows: SelectSeq(rows, Valid), as a recursive function.
FilterValidRows(rows) ==
  LET kept[n \in 0 .. Len(rows)] ==
        IF n = 0 THEN <<>>
        ELSE IF Valid(rows[n]) THEN Append(kept[n - 1], rows[n]) ELSE kept[n - 1]
  IN kept[Len(rows)]

Backwards(a, b) == b.time < a.time

Gap(a, b) == b.id - a.id > 1

Duplicate(a, b) == a.id = b.id

SameContent(a, b) == /\ Same(a.price, b.price)
                     /\ Same(a.qty, b.qty)
                     /\ a.maker = b.maker

Abs(x) == IF x < 0 THEN -x ELSE x

\* |b - a| / a exceeds the threshold; after a zero any other price does.
Jump(a, b) == /\ a.price # NaN /\ b.price # NaN
              /\ 100 * Abs(b.price - a.price) > JumpPct * Abs(a.price)

Ids(rows) == {rows[i].id : i \in DOMAIN rows}

\* The indices i of rows for which rows[i] and rows[i + 1] satisfy P.
PairsWith(rows, P(_, _)) == {i \in 1 .. Len(rows) - 1 : P(rows[i], rows[i + 1])}

MissingIn(rows) == SumFunction([i \in PairsWith(rows, Gap) |->
                                  rows[i + 1].id - rows[i].id - 1])

----------------------------------------------------------------------------
(* ValidationReport.update *)

\* Between the last row a of the chunks before and the first row b of the next.
\* MISTAKE: the difference is taken whether there is a gap or not.
MissingAtEdgeSigned(a, b) == IF a # NULL THEN b.id - a.id - 1 ELSE 0

\* MISTAKE: off by one.
MissingAtEdgeInclusive(a, b) == IF a # NULL /\ Gap(a, b) THEN b.id - a.id ELSE 0

MissingAtEdge(a, b) == IF a # NULL /\ Gap(a, b) THEN b.id - a.id - 1 ELSE 0

\* MISTAKE: only rising prices are looked at.
JumpUpAtEdge(a, b) == /\ Positive(a.price) /\ b.price # NaN
                      /\ 100 * (b.price - a.price) > JumpPct * a.price

\* A price jump is looked for at this boundary only after a positive price.
JumpAtEdge(a, b) == Positive(a.price) /\ Jump(a, b)

\* The report after one more chunk: the pairs inside the chunk, and the pair
\* of the last row before it and its first row.
Update(r, chunk) ==
  LET first == chunk[1]
      Edge(P(_, _)) == IF r.last # NULL /\ P(r.last, first) THEN 1 ELSE 0
      Count(P(_, _)) == Cardinality(PairsWith(chunk, P)) + Edge(P)
      Benign(a, b) == Duplicate(a, b) /\ SameContent(a, b)
      Conflict(a, b) == Duplicate(a, b) /\ ~SameContent(a, b)
  IN [rows_seen |-> r.rows_seen + Len(chunk),
      n_price_or_qty_anomalies |-> r.n_price_or_qty_anomalies
        + Cardinality({i \in DOMAIN chunk : ~Valid(chunk[i])}),
      n_nonmonotonic_time |-> r.n_nonmonotonic_time + Count(Backwards),
      n_trade_id_gaps |-> r.n_trade_id_gaps + Count(Gap),
      total_missing_trade_ids |-> r.total_missing_trade_ids + MissingIn(chunk)
        + MissingAtEdge(r.last, first),
      n_duplicate_trade_ids |-> r.n_duplicate_trade_ids + Count(Duplicate),
      n_duplicate_rows |-> r.n_duplicate_rows + Count(Benign),
      n_conflicting |-> r.n_conflicting + Count(Conflict),
      n_abnormal_price_jumps |-> r.n_abnormal_price_jumps
        + Cardinality(PairsWith(chunk, Jump)) + Edge(JumpAtEdge),
      min_trade_id |-> Min(Ids(chunk) \cup ({r.min_trade_id} \ {NULL})),
      max_trade_id |-> Max(Ids(chunk) \cup ({r.max_trade_id} \ {NULL})),
      last |-> chunk[Len(chunk)]]

----------------------------------------------------------------------------
\* An archive without a row is refused as empty before it comes to this.
Init ==
  /\ source \in UNION {[1 .. n -> Trades] : n \in 1 .. MaxRows}
  /\ chunk_rows \in ChunkSizes
  /\ read = 0
  /\ report = EmptyReport
  /\ file = <<>>
  /\ phase = "reading"

\* The next chunk of the reader: checked whole, then written without its
\* invalid rows.
ReadChunk ==
  /\ phase = "reading"
  /\ read < Len(source)
  /\ LET end == Min({read + chunk_rows, Len(source)})
         chunk == FinalizeChunk(SubSeq(source, read + 1, end))
     IN /\ report' = Update(report, chunk)
        /\ file' = file \o FilterValidRows(chunk)
        /\ read' = end
  /\ UNCHANGED <<source, chunk_rows, phase>>

\* writer.finalize, after the last chunk.
Commit ==
  /\ phase = "reading"
  /\ read = Len(source)
  /\ phase' = "committed"
  /\ UNCHANGED <<source, chunk_rows, read, report, file>>

\* MISTAKE: the number of rows is not looked at.
VerifyRangeOnly ==
  /\ phase = "committed"
  /\ LET first == IF file = <<>> THEN NULL ELSE file[1].id
         last == IF file = <<>> THEN NULL ELSE file[Len(file)].id
     IN phase' = IF first = report.min_trade_id /\ last = report.max_trade_id
                 THEN "verified" ELSE "failed"
  /\ UNCHANGED <<source, chunk_rows, read, report, file>>

\* verify_committed_month, given what the checkpoint ticks_written recorded:
\* rows_seen as rows_written, and the smallest and largest id.
Verify ==
  /\ phase = "committed"
  /\ LET first == IF file = <<>> THEN NULL ELSE file[1].id
         last == IF file = <<>> THEN NULL ELSE file[Len(file)].id
     IN phase' = IF /\ Len(file) = report.rows_seen
                    /\ first = report.min_trade_id
                    /\ last = report.max_trade_id
                 THEN "verified" ELSE "failed"
  /\ UNCHANGED <<source, chunk_rows, read, report, file>>

\* A month that is verified or failed is the end.
Next == ReadChunk \/ Commit \/ Verify

Spec == Init /\ [][Next]_vars

----------------------------------------------------------------------------
(* Properties *)

TypeOK ==
  /\ source \in Seq(Trades) /\ Len(source) <= MaxRows
  /\ chunk_rows \in ChunkSizes
  /\ read \in 0 .. Len(source)
  /\ \A c \in Counters : report[c] \in Nat
  /\ report.min_trade_id \in Int \cup {NULL}
  /\ report.max_trade_id \in Int \cup {NULL}
  /\ report.last \in Trade \cup {NULL}
  /\ file \in Seq(Trade) /\ Len(file) <= read
  /\ phase \in {"reading", "committed", "verified", "failed"}

Prefix == SubSeq(source, 1, read)

\* When a trade of the archive took place, in nanoseconds.
Instant(t) == IF t.unit = "us" THEN t.time * NsPerUs ELSE t.time * UsPerMs * NsPerUs

\* However the archive is cut into chunks, the counters are those of one pass
\* over all rows read so far, by the times the exchange meant, and the report's
\* split of duplicate ids into benign and conflicting ones, which subtracts two
\* of them, is right.
ReportIsOfPrefix ==
  LET Number(P(_, _)) == Cardinality(PairsWith(Prefix, P)) IN
  /\ report.n_nonmonotonic_time = Number(LAMBDA a, b : Instant(b) < Instant(a))
  /\ report.n_trade_id_gaps = Number(Gap)
  /\ report.total_missing_trade_ids = MissingIn(Prefix)
  /\ report.n_duplicate_trade_ids = Number(Duplicate)
  /\ report.n_duplicate_rows =
       Number(LAMBDA a, b : Duplicate(a, b) /\ SameContent(a, b))
  /\ report.n_conflicting = report.n_duplicate_trade_ids - report.n_duplicate_rows

\* Price jumps depend on the cut, by the jumps after a price that is not
\* positive, and by no others.
JumpsBetween ==
  /\ report.n_abnormal_price_jumps <= Cardinality(PairsWith(Prefix, Jump))
  /\ report.n_abnormal_price_jumps >=
       Cardinality(PairsWith(Prefix, LAMBDA a, b : Positive(a.price) /\ Jump(a, b)))

\* The float64 detour of the time stamps, which are larger than 2^53, moves them;
\* but it keeps every trade of a mixed archive in its second, so in its bars, and
\* any two trades in their order, those of one instant together.
TimesAreKept ==
  LET kept == FilterValidRows(Prefix)
  IN /\ Len(file) = Len(kept)
     /\ \A i, j \in DOMAIN file :
          /\ file[i].time \div NsPerSecond = Instant(kept[i]) \div NsPerSecond
          /\ file[i].time < file[j].time <=> Instant(kept[i]) < Instant(kept[j])

\* What verification accepts: a month whose archive had no invalid row, its
\* smallest id first and its largest last, and the file then holds the whole
\* archive in its order.
VerificationExact ==
  phase \in {"verified", "failed"} =>
    (phase = "verified" <=>
       /\ file = FinalizeChunk(source)
       /\ source[1].id = Min(Ids(source))
       /\ source[Len(source)].id = Max(Ids(source)))

----------------------------------------------------------------------------
(* What the comments and documents say, and the code does not do *)

\* validation.py: an invalid row is dropped, and nothing else comes of it.  A
\* month with ascending ids that has one is verified all the same.
InvalidRowsAreOnlyDropped ==
  (phase = "failed") =>
    \E i \in 1 .. Len(source) - 1 : source[i].id > source[i + 1].id
=============================================================================
