# A TLA+ model of the BTC research platform, Phase 1

The platform ingests monthly archives of Binance futures trades into Parquet,
verifies what it wrote, derives bars and features from it, and tells its
operator when a source archive may be deleted. This directory models that
program (`src/btc_research_platform/`), checks the models with TLC and proves the
main results with TLAPS. Line numbers below are those of `src/pipeline.py`
unless another file is named. The repository has no tests; its documents are the
README, the module docstrings and the comments in `config/config.yaml`.

## 1. Inventory

| component | state it keeps | operations | modelled in |
|---|---|---|---|
| state store, `state.py` | tables `month_status`, `source_verification`, `continuity_log` (SQLite, one commit per call) | `create_if_not_exists`, `update_fields`, `get_record`, `list_all`; `get_cached_source_verification`, `upsert_source_verification` | `StateStore`, `SourceVerification` |
| monthly pipeline, `pipeline.py` | memory of one run; everything else is in the database and in files | `run_ingestion`, `resume_stalled_months`, `process_one_month`, `get_all_tick_paths`, `delete_verified_source` | `MonthlyPipeline` |
| source discovery and verification, `discovery.py`, `hashing.py` | rows of `source_verification` | `scan_inbox`, `verify_source_file` with its checks | `SourceVerification`; as one step in `MonthlyPipeline` |
| month continuity, `discovery.py` 169-208 | none | `next_required_month`, `missing_months`, called by `discover`, `--status` and the report | `Continuity` |
| source reader, `source_input.py` | position in the stream | `iter_trade_chunks` | a stream that may raise, in `MonthlyPipeline`; chunks and their conversion, in `TickIngestion` |
| schema, `schema.py` | none | `normalize_timestamps` | `TickIngestion` |
| streaming validation, `validation.py` | `ValidationReport`, with the last row carried from chunk to chunk | `update`, `filter_valid_rows` | `TickIngestion` |
| tick writer, `parquet_store.py` | the `.tmp` file | constructor with disk guard, `write`, `finalize`, `abort` | `MonthlyPipeline` |
| independent verification, `verification.py` | none | `verify_committed_month` | `TickIngestion`, and by outcome in `MonthlyPipeline` |
| bars, `bars.py` | a Parquet file per interval, replaced one by one | `generate_all_bars` | `FeatureGeneration`; which ticks they are from, in `MonthlyPipeline` |
| features, `features/*.py`, 77-135 | a Parquet file per feature, replaced one by one | `run_feature_generation` and what it calls | `FeatureGeneration`; the value area, in `ValueArea` |
| reporting | a Markdown file per month | `generate_month_report` | what it tells of its month, in `MonthlyPipeline`; of the sequence of months, in `Continuity` |
| `main.py` | none | `--stage`, `--status`, `--force`, `--delete-source` | operator actions in `MonthlyPipeline`, `Continuity`, `FeatureGeneration` |
| `config.py`, `logging_setup.py`, `errors.py`, `versions.py` | none | | not modelled: constants, wording |

How they interact. `main.py` starts one command per process. `run_ingestion`
first resumes the months whose rows say `ticks_verified`, then takes the inbox
files in month order. For each it creates or reads the row, verifies the source
(through its own cached table), streams the archive through validation into a
`.tmp` file, renames that onto the final name, verifies the file cold,
regenerates *all* bars and features from *all* done months, and reports. After
each of these it commits a checkpoint to the row. `delete-source` is another
process that reads the row and unlinks the archive. The state database is the
only thing these processes share besides the files, and no lock is taken.

What is hard here:

* **Crashes and faults.** A crash may fall between any two commits, renames or
  unlinks; an exception goes to one of several handlers, which leave different
  rows behind.
* **Order.** A done month is ingested again (a replaced archive, `--force`), a
  rejected archive comes before a good one, an earlier month's generation runs
  for the sake of a later one.
* **Two processes.** `discover` and `ingest` may verify one file at once;
  `delete-source` acts on a row it read before.
* **Chunk edges.** Validation carries five fields from chunk to chunk so that
  the counters should not depend on `chunk_rows`.
* **Files replaced one by one.** A generation that raises leaves new files before
  the point and old ones after it. Features read bar files by name, whatever
  generation wrote them, and some write no file when they have no row.
* **Output that is out of date.** A report reads the rows three times while they
  may change, and an operator may act on it much later.
* **Edges of intervals.** Bars, sessions, footprints and profiles are cut by
  queries of their own; their numbers agree only if they cut alike. Windows are
  computed anew over all rows with every month that is added.

What makes each component correct: the *pipeline*, that a row never claims
something about a tick file that is not true of it, that nothing unverified is
used, that a stopped month is taken up again, that a source is deleted only when
its ticks are safe; the *verification cache*, that what it holds for the present
file is the outcome for that file, or of a check of it that raised; *validation*, that it counts what one pass
over the whole archive would; *independent verification*, that it accepts the
archives it should; *time stamps*, that the detour through floating point moves no
trade out of its second or its order; the *state store*, that a partial update
loses nothing; *continuity*, that what it announces is exact and that following it
leaves no gap of its own making; *bars and features*, that they add up to the trades they are from
and to each other, that a finished generation leaves nothing old, and that a new
month does not change the past, where it is no choice between two prices at one
instant; the *value area*, that it holds its share and no
more.
`PROJECT.json` lists the hazards line by line with the properties that cover
each.

## 2. Modules

| module | what it is |
|---|---|
| `StateStore` | a row of `month_status`, its creation, the done months; the kinds of archive contents |
| `MonthlyPipeline` | the ingest process, `delete-source`, the operator, failures; all properties and the inductive invariant `IInv` |
| `TickArchive` | abstract specification: what a reader of ticks, bars and features may rely on |
| `TickIngestion` | one archive row by row: chunks, time stamps, `ValidationReport`, filter, committed file, verification |
| `SourceVerification` | `verify_source_file` step by step in several processes over one path whose file and sidecar change |
| `Continuity` | the next and the missing months as commands find them while rows change, and an operator who follows them |
| `FeatureGeneration` | a generation of bars and features file by file, and the rows in the files |
| `ValueArea` | the loop that expands a value area from the point of control |
| `MC*` | instances for TLC: event budgets, rows, trades, histograms, symmetry |
| `*_proofs` | theorems and proofs about the module of that name |
| `Arithmetic_proofs` | lemmas for all of these: sums over finite sets, extremes, division, induction |

A definition preceded by `MISTAKE:` is a wrong variant of the definition that
follows it, a slip one could make in that code. Nothing in a specification uses
it. Each property is checked to fail under one of these variants, so that every
property is known to be sensitive to the code it is about.

### MonthlyPipeline

*State.* `db`, `inbox`, `ticks`, `tmp`, `bars`, `feats` and `reports` are
persistent. `pc`, `force`, `stalled`, `todo`, `job` and `paths` are the memory of
the ingest process: a crash empties them. `dpc` and `victim` are those of
`delete-source`. `used` counts outside events against `Budget`.

*Steps.* Each action ends at one commit, rename or unlink, so a crash can fall
between any two:

| action | code |
|---|---|
| `StartIngest`, `ResumeNext`, `ScanInbox`, `OpenMonth`, `EndIngest` | 238-259, 273-281, 147-149 |
| `SourceMissing`, `SourceRejected`, `SkipIngestion`, `SourceVerified` | 152-171 |
| `OpenWriter`, `OpenWriterDiskLow`, `WriteChunks`, `WriteDiskLow`, `WriteUnreadable`, `CommitFile` | 173-187, `parquet_store.py` |
| `RecordTicks`, `TicksVerified`, `VerificationFailed` | 189-210 |
| `GenerateBars`, `GenerateFeatures`, `MarkFeatures`, `GenerateReport`, `MarkReported` | 212-222, and 283-299 for a resumed month |
| `WriteFault`, `GenerationFault`, `TicksGone` | 185-187, 224-233, 301-303 |
| `StageBars`, `StageFeatures`, `DeleteCheck`, `DeleteUnlink`, `DeleteStamp` | `main.py`, 307-329 |
| `Crash`, `DeleteCrash`, `Drop`, `LoseTicks`, `DiskFills`, `DiskFrees` | surroundings |

*Data.* An archive is one of four kinds of content: `Good`, `Lossy`,
`Unparsable`, `Rejected` (see `StateStore`). The split between good and lossy is
the condition that `VerificationExact` in `TickIngestion` shows to be exactly what
`verify_committed_month` accepts. A hash stands for the content hashed, and the
recorded row count and id range for the content they were computed from; two
different archives of a month are taken to differ in one of these. Bars and
features are the set of `<<month, content>>` pairs they were computed from, so
"covers" and "was computed from unverified data" can be said of them. Features
are split by what they read: bars (`flow`) or ticks (`profile`), because a
failure between the two leaves one new and the other old.
`verify_source_file` is one step here; `SourceVerification` opens it up.

*Simplifications.* A whole archive is read within one step, so a full disk or an
unreadable file in the middle of it is one of the outcomes of that step. All bars
are generated in one step, and all features in one or, if one raises, in half of
one; `FeatureGeneration` opens this up. A verification cached for a file is taken to
be that of the file present, which `SourceVerification` shows as long as a replaced
file has a new size or mtime. Its one exception is a CRC check that raised and is
cached as corrupted: for the runs that come after, such a file is a `Rejected` one
that was dropped.

### TickIngestion

All archives of up to `MaxRows` rows from `Trades`, cut by every `chunk_rows` in
`ChunkSizes`. `Update` is `ValidationReport.update`: the pairs inside the chunk,
and the pair across the edge, which the code computes apart. Prices may be zero,
negative or NaN; every comparison with NaN is false, as in numpy. Archives of no
rows are refused before this stage (`discovery.py` 82-88). `quote_qty` is left out,
since nothing checks it.

*Time stamps.* A row's `time` is the number in the archive. Its `unit` is known to
the exchange only; the code tells it by a threshold, and `Instant` is what was
meant. `Normalize` is `normalize_timestamps`: the product goes through float64, whose
numbers near today's nanoseconds (between 2^60 and 2^61) are 256 apart. What
matters is that 256 divides a second (10^9 is a multiple of 2^9) and is less
than a microsecond, the finest unit there is; `TimesAssumption` says so of `Grid`,
`NsPerUs` and `NsPerSecond`, which are 4, 10 and 1000 in the instance.

*Forms.* `FilterValidRows` is the filter of `validation.py` 142-150; it is a recursive
function and not the library's `SelectSeq`, of which the prover knows nothing.
`NullAssumption` keeps `NULL` apart from ids and rows, as `None` is in the code.

### SourceVerification

`stamp` is size and mtime, new with each replacement; `cache` is the table keyed by
it. Each check opens the path anew, and a file or a sidecar may be replaced between
any two. A process may die anywhere, by an exception or a crash (`Leave`), and its
local variables with it. A single check or hash reads the file within one step.

An exception is an end of the command everywhere but in `DeepCrcCheck`: there whatever
goes wrong while a ZIP is opened and read is made the outcome "corrupted", which is
cached as any other (`discovery.py` 104-105, 165). `raised` is a history variable, the
stamps of files for which that happened; the properties name it where a sound file may
be rejected. `Zip` says whether the path is a ZIP (a CSV has no CRC check), and
`Published` bounds the hashes that a sidecar may hold. What the market check says of a
damaged file that came after the structural check is left open.

### Continuity

*State.* `done` are the months whose row is done, which is all that the commands
read. `todo` and `found` are what a running command has still to find out and what
it has found; `present`, `cursor` and `gaps` are the local variables of
`missing_months`; `advice` is what the last command said. `inbox` are the months the
operator has provided, and `stuck` those that no run will make done as they are.
`holes` and `steady` are history variables, for the properties only; `setbacks` counts
against a bound.

| action | code |
|---|---|
| `Command` | the calls in `main.py` 35-94 and `reporting.py` 45-52, by the order in which they read |
| `ReadNext`, `ReadCumulative` | `next_required_month`, `cumulative_stats` |
| `BeginScan`, `ScanMonth`, `EndScan` | `missing_months`, a month per step |
| `Follow` | an operator who provides a month that the last output has named |
| `Ingest`, `Withdraw` | the pipeline, reduced to a row that becomes done and one that ceases to be (`TicksVerified`, and `SourceVerified`, `SourceRejected` or a fault, in `MonthlyPipeline`) |
| `GetStuck` | a month whose committed file fails verification in every run (162), or whose archive is cached as corrupted |
| `Unstick` | somebody who uses `--force`, or places another archive |

A month is a record of a year and a number, into which the code splits its
`YYYY-MM` strings; the order of both is the same. The sums over counters in
`cumulative_stats` are left out, the number of months and the latest one are not.
The code has two arithmetics for the end of a year, and so has the model: `Following`
in `next_required_month`, `MovedOn` in the loop of `missing_months`. A withdrawn month
gets stuck when its generation failed and was then resumed: it is reported with status
failed, and the early return (148) looks at the checkpoint alone.
`Follow` may act on output of any age.

### FeatureGeneration

*State.* `ticks` are the trades in each month's tick file, `done` the months that
`get_all_tick_paths` lists. A generation keeps `stage`, `paths`, which it reads once,
and `todo`, the files it has still to write. `disk` is the table in each file. `made`, a
history variable, has the months each file is from, through the bar files too.

| action | code |
|---|---|
| `Start` | `main.py` 124-127 (`bars`, `features`) or `_regenerate_bars_and_features` |
| `GenerateBar` | `generate_bar`, for one interval |
| `ComputeOrderflowBars`, `DetectStackedImbalances`, `DetectDeltaDivergence` | `features/orderflow.py` |
| `ComputeSessionVwap`, `ComputeFootprint` | `features/vwap.py`, `features/footprint.py` |
| `ComputeSessionProfiles`, `ComputeDevelopingPoc` | `features/volume_profile.py` |
| `ComputeVolatility` | `features/volatility.py`, which leaves the old file if it has no row |
| `ComputeStatistics` | large trades, absorption and iceberg candidates: written, their rows left out |
| `Raise` | any exception or the end of the process; when a bar file is not there, only this is left |
| `MonthChanges` | the pipeline, between two generations |

A table is a function from its key (the time of a bar, or a session and a bin) to
the columns that other tables or the properties look at. Each SQL query is an
operator, with its filters before its windows as in the query: `Stacked` numbers only
the rows that are left. Where SQL leaves a choice (`arg_min` and `arg_max` at
equal times, `row_number` at equal volumes) there is a set of tables and the step
takes any.

*Simplifications.* Two intervals of which one divides the other stand for 1min and
1h; `Coarse` is also the step of the developing POC. Prices and quantities are
whole numbers, so that sums are exact. `ScenariosAssumption` says of the ticks only what
holds of tick files of done months: trades, finitely many and at least one, since an archive
without rows is refused (`discovery.py` 82-88) and a month with a dropped row fails. A month's tick file has the same trades
throughout, and there is one generation at a time. `Zone` is the time zone in which
`date_trunc` cuts days: the code sets none, so it is that of the machine. Trades have
an id of their own, so that a month is a set of them; two rows that are identical in the
source, which validation counts and keeps, are not told apart. The queries get from
nanoseconds to a time by `to_timestamp(ns/1e9)`, another detour through floating point,
which is left out: here a time is what it is.

### ValueArea

One histogram, by its cumulative volumes, and the loop of
`_value_area_expansion`: `GrowUp`, `GrowDown` and `Leave` are its branches, with -1
for a neighbour that is not there. `poc` is the first of the largest bins, as
`idxmax` has it.

## 3. Runs

| run | shows | bounds |
|---|---|---|
| `one_month` | `DoneIntact`, `CheckpointIntact`, `OnlyVerifiedData`, `DeletionLicensed`, `ReportedIsFinal`, `TypeOK` for a month whose archive is replaced by every kind of archive, with and without `--force` | 1 month in 2 formats, 5 contents, 3 drops, 1 crash, 1 fault, disk full once; `delete-source` by itself |
| `archive` | `FeaturesCover` and `IInv` for months that regenerate each other's features; `ImplementsArchive`; `NoColumnLost` | 2 months, 2 contents, 2 drops, crash, fault, loss, `delete-source` overlapping |
| `recovery` | `GoodSourceIsVerified`, `VerifiedIsGenerated`, `FeaturesAreReported` | 1 month, 4 kinds of archive, 2 drops, every failure once, fairness |
| `chunks` | `ReportIsOfPrefix`, `JumpsBetween`, `TimesAreKept`, `VerificationExact`, `TypeOK` | all archives of up to 4 of 20 rows, chunks of 1, 2 and 3 |
| `verify_source` | `CacheIsFaithful`, `HashIsStable` | 2 processes, 6 contents of a ZIP, 2 replacements, CRC checks that raise at will, sidecar changed at will |
| `continuity` | `GapsExact`, `GapsAreHoles`, `NextIsSettled`, `OutputAddsUp`, `SequenceCompletes`, `TypeOK` | October to February, start in November, 4 histories, 1 setback, fairness |
| `value_area` | `CoversTarget`, `NoBinTooMany`, `HighestInside`, `ShortestRange` | all histograms of up to 6 bins of 4 volumes, 70 percent |
| `features` | `GeneratedTogether`, `CoarseBarsAggregateFine`, `RunningSumsMatchTicks`, `FootprintReaggregates`, `StackedAreRuns`, `DevelopingPocReachesPoc`, `SessionsAgree`, `HistoryIsKept`, `NakedIsLostOnce`, `TypeOK` | 1 month of 4 bars of 5 kinds in every succession, at most one of them tied, and 1 generation; 2 months in 18 variants, 6 of them with a tied bar, and 2 generations |
| `resumed_without_ticks` | violation of `ResumedFeaturesCover` | |
| `invalid_row` | violation of `InvalidRowsAreOnlyDropped` | |
| `late_sidecar` | violation of `PresentSidecarIsVerified` | |
| `stacked` | violation of `StackedBarsAreConsecutive` | as `features` |

Why the bounds are enough. One month suffices for what a row claims about its
own file, because months touch each other only through the list of done months
and through bars and features; that needs two. Three drops are a good archive,
a bad one and a corrected one; two formats are what lets a recorded path and an
ingested one differ. A second crash meets the same database as the first, since a
crash leaves nothing but the database and the files. Four rows give two edges of
two-row chunks and a chunk of one row between two edges; ids 1, 2, 4 give
ascending, descending, equal and missing. Their times are on both sides of the end of
a second, in both units and in every order. Two processes and two replacements give
every way in which a verification begun on one file ends on another, with a third
file in between.

Five months turn the year once inside the window, with one before the configured
start; the histories have no month, a month skipped, two skipped, and one before the
start. Six bins are enough for a value area that reaches either end, both or
neither, and that goes from one side to the other and back. Four fine bars are two
coarse ones, and in every succession of kinds they give runs that merge, that touch,
and that are cut by the other side. Sessions begin two units before months, so
two months share one. A generation may raise at each of its 16 files and be followed
by one of another stage.

Deadlock is checked in the runs of `MonthlyPipeline`, `SourceVerification` and
`Continuity`. In the others the system does stop: a month is verified or failed, a value
area is complete, the generations are used up.

*Fairness* (`FairSpec`). The ingest process, once started, takes its next step
(`WF(IngestStep)`, `WF(DeleteStep)`): it is sequential code without waits. The
operator runs the ingest command again and again (`WF(StartSomeIngest)`), which is
the incremental workflow the README describes, and makes room on a full disk
(`WF(DiskFrees)`). Nobody has to drop or delete a file or to use `--force`, and
failures never have to happen; they are bounded by `Budget`, without which no month
need ever finish. In `Continuity`, a command that has begun goes on, the operator
calls one again and again and provides the months it names (`WF(Follow)`), and the
pipeline is run (`WF(Ingest)`, for months that are not stuck). Rows need not be
withdrawn or get stuck, and do so at most `Setbacks` times; nobody has to step in for
one that is.

*What liveness excepts.* `GoodSourceIsVerified` has one exception,
`VerifiedIsGenerated` two and `FeaturesAreReported` two, all in the code. A month
whose committed file failed verification stays at `ticks_written` with its file in
place, and every later run skips ingestion (162) and fails again, whatever archive
is in the inbox. A verified month whose tick file is lost has nothing to generate
from. And an archive that is rejected takes the row of a verified month back to
`source_verified` (154-155). A month stopped between its features and its report is
not listed as stalled (275): it is reported when its archive is met in the inbox, so
not without one that is accepted, and not once its tick file is lost.
`SequenceCompletes` excepts the months that are stuck (section 4), and, when a stuck
month is itself the next required one, what comes after it, since the operator is told
of no other. A stuck month behind the latest done one holds up nothing but itself.

## 4. What the code does otherwise than its documents say

Each of these is a run that ends in a counterexample, and a finding in
`PROJECT.json` with the lines quoted.

1. A month whose feature generation raises is marked failed with checkpoint
   `ticks_verified`. The resume takes it by its checkpoint, but
   `get_all_tick_paths` only takes done months, so bars and features are
   generated without it and it is marked reported (232, 67, 275).
2. One invalid row, dropped as documented, fails its month: the rows seen are
   recorded as the rows written (191).
3. A `.CHECKSUM` sidecar that comes after the first verification is never
   compared (`discovery.py` 137).
4. Stacked imbalances need not be consecutive bars: balanced and one-sided bars
   between them are filtered out first (`features/orderflow.py` 91). What the query
   does return is stated by `StackedAreRuns`.

Seen while modelling, and not stated as runs:

* a month that stops between `features_generated` and `reported` and whose source
  is deleted is never revisited, though the docstring of
  `resume_stalled_months` speaks of such months (263-271, 275);
* a month can be `done` without being verified, says `state.py` 20-24, and only the
  verification licenses the deletion. The code sets both in one commit (210), so that
  a done month is a verified one, which is what `DoneIntact` states, and of the two
  conditions in `delete_verified_source` (317) the first implies the second. Nothing takes
  `verification_status` back, so that it outlives the status: a month being ingested
  again, or failed, is still on record as verified;
* any exception while the CRC check opens and reads an archive is cached as
  "corrupted" for its present size and mtime (`discovery.py` 104-105, 165). A
  good file is then rejected in every later run, until it is touched or replaced; and
  a process that raises after another has recorded the hash of that file puts a row
  without one in its place;
* a month can come to a state that no run takes further while `discover` and the
  reports go on to name it: reported with status failed (148; finding 1 is how it gets
  there), at `ticks_written` with a file that fails verification (162), or with an archive
  that is cached as corrupted. Only somebody who steps in helps: `--force`, another
  archive, or for the second a rejected archive in between. While a month before the
  latest done one is in such a state, it is a gap; when it is the next required one,
  the sequence ends there;
* `delete-source` unlinks what is at the path recorded when the row was created,
  which need not be what was ingested (322, 147);
* a disk that is full when the writer is opened fails the month instead of
  pausing it, since the constructor is outside the `try` (175);
* the report of a resumed month can say that verification failed and that the
  source is safe to delete (293);
* an archive replaced between hashing and reading is ingested under the old hash
  (167, 177);
* the first and last id are compared with the smallest and largest, so a source
  that is not in id order fails (`verification.py` 68);
* an id that comes back after another one is not a duplicate, and two rows of one
  id that differ in their time are a benign one (`validation.py` 91, 96);
* price jumps after a price that is not positive are counted inside a chunk and
  not across an edge (`validation.py` 122, 124), which is the interval
  `JumpsBetween` states;
* whether a POC is naked is decided by the lower edge of its bin, not by the bin
  (`features/volume_profile.py` 106);
* sums are "session-anchored" at "whatever bar resolution" is given
  (`features/orderflow.py` 38-39), but a bar is counted whole in the session that it
  begins in. One that lies over the edge of a session, as an hour does in a zone half an
  hour off, takes trades of the next session into the sum; `RunningSumsMatchTicks`
  states for both intervals what the sum is, and the instance has such a bar;
* the developing POC need not end at the POC of the session: each step ranks only the
  bins traded in it (`features/volume_profile.py` 131-134), so that a later row may show
  one with less volume. It is `DevelopingPocReachesPoc` that it shows the POC with all
  its volume in the last step in which that bin trades;
* of trades at one instant `arg_min` and `arg_max` take any for an open or a close
  (`bars.py` 35, 38), anew in every generation. Archives stamped in milliseconds always
  have such trades, so an added month may rewrite opens and closes of the past, and the
  divergences and true ranges that come of them; `HistoryIsKept` says of which rows
  that is excluded, and leaves no condition on anything else;
* the volatility features of a single coarse bar are not written, so that the file of an
  earlier generation stays (`features/volatility.py` 39);
* sessions are called UTC days (`features/vwap.py` 5), but DuckDB truncates in the time
  zone of the machine; `SessionsAgree` holds in every zone that leaves bars whole;
* `detect_header` takes a first line that does not parse as data for a header
  (`source_input.py` 64);
* the configuration checks that keys are there, not that an interval is known: that
  raises in the middle of a generation.

## 5. Proofs

TLAPS proves the following for every value of the constants: all months, formats,
contents and budgets, archives of any length cut in any way, all ticks and intervals,
every window of months, every histogram and share. The named assumptions of the
modules are what it takes: months are numbers, the kinds of contents do not overlap
with `Good`, `NULL` is none of the values it is compared with, one interval divides
the other and the session, a microsecond is more than the spacing of floats there.
Every invariant and action property of the passing runs is among the theorems.

| module | theorem | states |
|---|---|---|
| `MonthlyPipeline_proofs` | `Inductive` | `Spec => []IInv` |
| | `TypeCorrect`, `DoneMonthsAreIntact`, `CheckpointsAreIntact`, `OnlyVerifiedDataIsUsed`, `FeaturesAreCovered` | the invariants of the runs |
| | `ReportedStaysFinal`, `NoColumnIsLost` | the action properties |
| | `DeletionIsLicensed` | `DeletionLicensed`, also when `delete-source` overlaps an ingest run or a file is lost |
| | `PipelineImplementsArchive` | `Spec => Archive!Spec` |
| `TickArchive_proofs` | `OnlyGoodIsDerived` | what the abstract archive promises |
| `SourceVerification_proofs` | `Inductive`, `CacheStaysFaithful`, `HashStaysStable` | the cache, for any number of processes and contents |
| `Continuity_proofs` | `TypesHold`, `ScansAreExact`, `NoGapIsMade`, `NextHasNoGap`, `OutputsAddUp` | the gaps, the next month and the numbers of one output |
| `TickIngestion_proofs` | `Inductive`, `TypesAreKept`, `CutDoesNotMatter`, `CutMovesFewJumps` | the report does not depend on the chunks, jumps excepted |
| | `TradesStayInOrder`, `AcceptedIsComplete` | time stamps; what verification accepts |
| `FeatureGeneration_proofs` | `TypesAreKept`, `FilesAreGeneratedTogether` | which months the files are from |
| | `CoarseBarsAreOfFine`, `RunningSumsAreRight`, `FootprintAddsUp`, `IslandsTellRunsApart`, `SessionsAreTheSame`, `DevelopingPocComesToPoc` | what is in the files |
| | `HistoryIsNotRewritten`, `NakedIsNotRegained` | what a new month leaves as it is |
| `ValueArea_proofs` | `LoopIsSound`, `AreaCoversTarget`, `AreaHasNoBinTooMany`, `AreaIsHighest`, `AreaIsShortest` | the value area |

*The argument for the pipeline.* `DoneIntact` is not inductive: whether the next
step keeps it depends on where the process is. `IInv` adds what is known there.
`CheckpointIntact` is the core: a row whose checkpoint is `ticks_verified` or later
describes its tick file. It survives a re-ingestion because `SourceVerified` takes
the checkpoint back *before* the writer touches the file, and `JobOK` carries "the
checkpoint is `source_verified`" from there to the rename. Done rows have such a
checkpoint (`RowsOK`), which gives `DoneIntact`. For `FeaturesCover`, `GenerationOK`
and `PathsOK` say that the generation under way covers every done month it can
read; that needs that no other month becomes done during it, which holds because one
process does both. `StalledOK` says that a listed row is still as it was listed
when its turn comes; it holds because resumed months come before the inbox. The
preservation proof goes action by action.

*The refinement.* A month is `trusted` while its row is done, `file` is the tick
files, `derived` all of bars and features. A commit is a `Write`, a passed
verification a `Trust`, a generation a `Derive`, a failure a `Withdraw`, which may
leave half a generation behind. Everything else stutters.

*`DeletionIsLicensed`* has no hypotheses: what the code promises in each case is in the
property. At the unlink the verification that was read is still on record, since no
update takes it back (`StillVerified` in the proofs), and as long as the row is done its
file is the verified one or was lost (`RowsOK` and `CheckpointIntact`). What an overlap costs is that the row may no longer be done: an
ingest run can demote it between the check and the unlink, and is then about to replace
the tick file from an archive that may be the one unlinked. Without an overlap
(`Concurrent = FALSE`) the row is done. `delete-source` does not look for the tick file, so
one that was lost does not keep the source from being deleted.

*The argument for the cache.* A process that found the file under the present
stamp knows the outcome of every check it has passed (`Passed`), for the file has not
changed since. A process with an older stamp can write only an older row. So the row of
the present stamp is right whoever writes it. A CRC check that raises makes a record that
is not, without a hash; it marks the stamp it was begun with in `raised`, so a record
without a hash means a file that is not sound or a stamp that is marked, and two records
with a hash have the same.

*The argument for continuity.* A month is settled when all months before it, from the
start on, are done or holes (`Settled`). The invariant has this for every month that
is done, provided, or named by an output. An operator provides only what is named,
so nothing unsettled becomes done, and a row that ceases to be done becomes a hole and
unsettles nothing. That months get stuck changes nothing in this: it only keeps them from
becoming done. `ScanSound` is the loop invariant of `missing_months`: the gaps so
far are those before the cursor, and once the cursor is past the latest month
read, that is all of them; that the loop moves on as `Following` does is a lemma
(`MovedOnIsFollowing`), not a definition. That months which are done have a latest one
(`LatestIsLast`) rests on the order of the numbers of months left to the end of the
window.

That the numbers of an output add up needs to know how far the command is: while no row
changes, whatever it has found so far is of the present rows (`SteadyOK`, by the list of
what it has still to find out). The months done and the gaps are then disjoint, finite,
and together the range.

*The argument for validation.* `IInv` of `TickIngestion_proofs` says that the report is
that of the rows read (`IsReportOf`, which defines every counter by one pass over a
sequence), that the fields carried are those of the last of them, and that the file is
what the filter keeps of them. One lemma does the work (`ReportOfConcat`): the report of
`p`, updated with a chunk `c`, is that of `p \o c`. The pairs of neighbours in `p \o c`
are those in `p`, those in `c`, and the one across the edge, which `update` computes
from what it carries; the three sets are disjoint, so their numbers add up. Price
jumps are the exception: the code counts at the edge by another condition, so
the invariant has an interval, of the same two counts that `JumpsBetween` has.
`AcceptedIsComplete` is the other direction: a filter that drops a row makes the file
shorter, so equal numbers of rows mean that nothing was dropped.

*The argument for time stamps.* `Float` rounds to a multiple of `Grid` not more than half
of it away, so it is monotonic, and a number that is a multiple of the grid stays. The
ends of a second are such multiples, so no time crosses one. Two different instants
are a microsecond apart, which is more than the grid, so they stay different.

*The argument for features.* `Provenance` is about the control: what is left to write is
the rest of the plan, and of the files already written by a running or finished
regeneration all are from its months. `Contents` is about the rows: whatever order
of commands and exceptions led there, a file is what its query computes from the
trades of the months behind it, through the file it reads as well. With both, each
property becomes a statement about one set of trades:

* sums: trades of a coarse bar, bin or session are the disjoint union of those of its
  parts (`SumOfParts`), because the code cuts by division and the widths divide each
  other (`DivisionOfMultiple`); a running sum over bars is the sum over the trades up to
  there, by taking the rows up to a bar as parts;
* islands: two rows of one side have the same difference of row numbers exactly if no
  row of the other side is between them, because one counts the rows of both sides
  and the other only those of one;
* the past: windows look back only, so the bars before the first trade of the new month
  have the same trades in them. Their sums, ranges and counts are then the same; an open,
  a close, and what is computed from closes, where all trades at the instant they are
  taken from have one price;
* naked POCs: with a month more there are more later sessions, ranges only widen, and the
  POC of a session before the new month is the same.

*The argument for the value area.* The loop adds up the volume between its indices
(`LoopIsSound`). It grows only below its target, so the bin taken last was needed
(`NoBinTooMany`), and it stops below its target only with all bins inside, which hold
any share of the total. With one peak the volumes fall towards both ends, so the
neighbours that are compared are the largest on their sides, and the one that is
taken is no smaller than any bin left outside (`HighestInside`). So a range of as many
bins elsewhere holds no more (`HighestIsMost`), and one that is shorter than the area
holds no more than the area without its last bin, which was not enough
(`ShortestRange`).

*Induction.* The library's induction theorems take an operator and cannot be used with
this prover. `Arithmetic_proofs` has three in terms of sets, derived from the
well-foundedness of `<` and of strict inclusion: a set of numbers that has the first
and with each the next (`UpInduction`), a family of finite sets that has the empty one
and with each those with one more element (`FiniteSetInduction`); `SeqInduction` of
`TickIngestion_proofs` is the same for sequences. The sum of the community module
`Functions` is a recursion over a choice of elements; that it does not depend on
the choice (`SumTakeOut`) is the first thing proved about it. So that this module is
usable, sums are written with `SumFunction` over a function, which has no operator
parameter.

Only model-checked: liveness, which needs fairness and ENABLED (`SequenceCompletes`,
`GoodSourceIsVerified`, `VerifiedIsGenerated`, `FeaturesAreReported`), and the four
violations.

## 6. Not modelled

* The rows of large trades, absorption and iceberg candidates, high and low volume
  nodes, the smoothing of the ATR and the realized volatility: quantiles, means and
  deviations of floats. Their files are written in their turn, so that a
  generation that raises has them.
* The calendar intervals (weeks, months) and the columns of bars that are an average
  or a maximum of one column; the rounding of float sums.
* The decoding of CSV and ZIP and of file names, `detect_header`, configuration,
  logging, versions, and the layout of reports.
* Two generations at once: the commands are for one operator.
* `continuity_log` has a writer and no caller. A file that changes while one check
  or one read is under way is taken to be the old or the new one.

## 7. Plan

Done: the core (`StateStore`, `MonthlyPipeline`, `TickArchive`), its inductive
invariant and refinement; the components it abstracts (`TickIngestion` with its
time stamps, `SourceVerification`, `FeatureGeneration`, `ValueArea`); the sequence of
months (`Continuity`); the proofs of section 5.

All invariants and action properties of the passing runs are proved.

Next, in this order:

1. That the split into good and lossy archives in `MonthlyPipeline` is the condition of
   `VerificationExact`, as a refinement from one month of the pipeline to
   `TickIngestion`.
2. That `verify_source_file` in one step (`MonthlyPipeline`) is implemented by
   `SourceVerification`, as long as a replaced file has a new stamp.
3. That a month whose row is `source_verified` needs its source.
