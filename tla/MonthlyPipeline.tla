-------------------------- MODULE MonthlyPipeline --------------------------
(***************************************************************************)
(* The checkpointed ingestion of monthly trade archives (pipeline.py), the *)
(* commands an operator gives it, and what can happen around it.           *)
(*                                                                         *)
(* One ingest process runs at a time.  Each of its actions ends at a       *)
(* commit of the state database or at a rename or an unlink in the file    *)
(* system, so that a crash may fall between any two of those.  What it     *)
(* holds in memory is in pc, force, stalled, todo, job and paths; a crash  *)
(* loses these and nothing else.  The delete-source command is a second    *)
(* process of two steps after the check, and with Concurrent it may        *)
(* overlap an ingest run.                                                  *)
(***************************************************************************)
EXTENDS StateStore

CONSTANTS
  Forces,       \* the values --force may take on a run
  Concurrent,   \* whether delete-source may be started during an ingest run
  Budget        \* how often each kind of outside event may happen

\* crash  the death of either process          fault  an unexpected exception
\* drop   a file placed in the inbox           loss   a committed file vanishes
\* low    the disk falls below min_free_disk_gb
Events == {"crash", "fault", "drop", "loss", "low"}

ASSUME ForcesAssumption == Forces \subseteq BOOLEAN

ASSUME ConcurrentAssumption == Concurrent \in BOOLEAN

ASSUME BudgetAssumption == Budget \in [Events -> Nat]

VARIABLES
  db,        \* month_status, one row per month
  inbox,     \* the contents of each source file, NULL where there is none
  ticks,     \* the committed tick Parquet of each month
  tmp,       \* the .tmp file the writer of a month left or is filling
  bars,      \* <<month, contents>> pairs the bar files were computed from
  feats,     \* the same for the feature files: those that read the bars, and
             \* those that read the ticks
  reports,   \* what the last report of a month told the operator
  diskLow,   \* free space is below min_free_disk_gb
  pc,        \* where the ingest process is
  force,     \* its --force flag
  stalled,   \* the rows resume_stalled_months listed and has not resumed yet
  todo,      \* the inbox files scan_inbox listed and that are still to do
  job,       \* the month in hand and the row as it was read at its start
  paths,     \* the months get_all_tick_paths returned
  dpc,       \* where the delete-source process is
  victim,    \* the source file it is about to unlink
  used       \* how much of Budget is spent

store  == <<db, inbox, ticks, tmp, bars, feats, reports>>
memory == <<force, stalled, todo, job, paths>>
deleter == <<dpc, victim>>
vars   == <<store, diskLow, pc, memory, deleter, used>>

Path == [month : Months, format : Formats]

Job == [kind    : {"ingest", "resume"},
        month   : Months,
        format  : Formats \cup {NULL},
        rec     : MonthRecord,
        content : Contents \cup {NULL}]

Steps == {"idle", "resume", "next", "source", "open", "write", "commit",
          "record", "verify", "bars", "features", "mark", "report", "finish"}

\* The steps at which a month is in hand.
JobSteps == Steps \ {"idle", "resume", "next"}

TypeOK ==
  /\ db \in [Months -> MonthRecord]
  /\ inbox \in [Path -> Contents \cup {NULL}]
  /\ ticks \in [Months -> Contents \cup {NULL}]
  /\ tmp \in [Months -> Contents \cup {"partial", NULL}]
  /\ bars \subseteq Months \X Contents
  /\ feats \in [flow    : SUBSET (Months \X Contents),
                profile : SUBSET (Months \X Contents)]
  /\ reports \in [Months -> [passed : BOOLEAN, safe : BOOLEAN] \cup {NULL}]
  /\ diskLow \in BOOLEAN
  /\ pc \in Steps
  /\ force \in BOOLEAN
  /\ stalled \subseteq [month : Months, rec : MonthRecord]
  /\ todo \subseteq Path
  /\ job \in Job \cup {NULL}
  /\ (pc \in JobSteps) => job \in Job
  /\ paths \subseteq Months
  /\ dpc \in {"idle", "unlink", "stamp"}
  /\ victim \in Path \cup {NULL}
  /\ (dpc # "idle") => victim \in Path
  /\ used \in [Events -> Nat]

Init ==
  /\ db = [m \in Months |-> NoRow]
  /\ inbox = [p \in Path |-> NULL]
  /\ ticks = [m \in Months |-> NULL]
  /\ tmp = [m \in Months |-> NULL]
  /\ bars = {}
  /\ feats = [flow |-> {}, profile |-> {}]
  /\ reports = [m \in Months |-> NULL]
  /\ diskLow = FALSE
  /\ pc = "idle"
  /\ force = FALSE
  /\ stalled = {}
  /\ todo = {}
  /\ job = NULL
  /\ paths = {}
  /\ dpc = "idle"
  /\ victim = NULL
  /\ used = [e \in Events |-> 0]

Spend(e) == /\ used[e] < Budget[e]
            /\ used' = [used EXCEPT ![e] = @ + 1]

----------------------------------------------------------------------------
(* Helpers *)

JobPath == [month |-> job.month, format |-> job.format]

\* MISTAKE: every tick file on disk, as a directory glob would find them.
GlobTickPaths == {m \in Months : ticks[m] # NULL}

\* The done months whose tick file is there, in the order-free form of the
\* list get_all_tick_paths returns.
AllTickPaths == {m \in DoneMonths(db) : ticks[m] # NULL}

\* What is computed from the tick files of the months in ms.
DataOf(ms) == {<<m, ticks[m]>> : m \in ms}

\* verify_committed_month against the numbers in row: the file is there, and
\* its row count and its first and last trade id are the recorded ones.
Verifies(m, row) == /\ ticks[m] # NULL
                    /\ ticks[m] = row.ingested
                    /\ ticks[m] \in Good

\* scan_inbox sorts by path, run_ingestion by month, and the sort is stable.
Before(p, q) == \/ p.month < q.month
                \/ p.month = q.month /\ (p.format = "csv" \/ q.format = "zip")

\* The process leaves the month in hand, whose local variables go: on to the
\* next stalled row, or to the next inbox file.
LeaveMonth == /\ pc' = IF job.kind = "resume" THEN "resume" ELSE "next"
              /\ job' = NULL
              /\ paths' = {}
              /\ UNCHANGED <<force, stalled, todo>>

SetRow(m, row) == db' = [db EXCEPT ![m] = row]

\* The error path of process_one_month: the row fails, its checkpoint stays.
FailMonth == /\ SetRow(job.month, [db[job.month] EXCEPT !.status = "failed"])
             /\ LeaveMonth

----------------------------------------------------------------------------
(* The ingest command: run_ingestion and the list of stalled months *)

\* MISTAKE: months whose generation failed are not listed.
StartIngestDoneOnly(f) ==
  /\ pc = "idle"
  /\ Concurrent \/ dpc = "idle"
  /\ force' = f
  /\ stalled' = {[month |-> m, rec |-> db[m]] :
                   m \in {n \in DoneMonths(db) : db[n].checkpoint = "ticks_verified"}}
  /\ pc' = "resume"
  /\ UNCHANGED <<store, diskLow, todo, job, paths, deleter, used>>

\* MISTAKE: reported months are listed too, and fall back to an earlier
\* checkpoint.
StartIngestAllDone(f) ==
  /\ pc = "idle"
  /\ Concurrent \/ dpc = "idle"
  /\ force' = f
  /\ stalled' = {[month |-> m, rec |-> db[m]] : m \in DoneMonths(db)}
  /\ pc' = "resume"
  /\ UNCHANGED <<store, diskLow, todo, job, paths, deleter, used>>

\* run_ingestion starts, and resume_stalled_months lists its rows.
StartIngest(f) ==
  /\ pc = "idle"
  /\ Concurrent \/ dpc = "idle"
  /\ force' = f
  /\ stalled' = {[month |-> m, rec |-> db[m]] :
                   m \in {n \in Months : db[n].checkpoint = "ticks_verified"}}
  /\ pc' = "resume"
  /\ UNCHANGED <<store, diskLow, todo, job, paths, deleter, used>>

\* The next stalled row, in the order of ORDER BY year_month.
ResumeNext ==
  /\ pc = "resume"
  /\ \E s \in stalled :
       /\ \A t \in stalled : s.month <= t.month
       /\ stalled' = stalled \ {s}
       /\ job' = [kind |-> "resume", month |-> s.month,
                  format |-> s.rec.source, rec |-> s.rec, content |-> NULL]
  /\ pc' = "bars"
  /\ UNCHANGED <<store, diskLow, force, todo, paths, deleter, used>>

\* All stalled rows are through: list the inbox.
ScanInbox ==
  /\ pc = "resume"
  /\ stalled = {}
  /\ todo' = {p \in Path : inbox[p] # NULL}
  /\ pc' = "next"
  /\ UNCHANGED <<store, diskLow, force, stalled, job, paths, deleter, used>>

\* The loop over the inbox ends, or stops at a disk that is nearly full.
EndIngest ==
  /\ pc = "next"
  /\ todo = {} \/ diskLow
  /\ pc' = "idle"
  /\ todo' = {}
  /\ force' = FALSE
  /\ UNCHANGED <<store, diskLow, stalled, job, paths, deleter, used>>

\* MISTAKE: a reported month is processed again without --force.
OpenMonthAgain ==
  /\ pc = "next"
  /\ ~diskLow
  /\ \E p \in todo :
       LET row == CreateIfNotExists(db[p.month], p.format) IN
       /\ \A q \in todo : Before(p, q)
       /\ todo' = todo \ {p}
       /\ SetRow(p.month, row)
       /\ pc' = "source"
       /\ job' = [kind |-> "ingest", month |-> p.month,
                  format |-> p.format, rec |-> row, content |-> NULL]
  /\ UNCHANGED <<inbox, ticks, tmp, bars, feats, reports, diskLow, force,
                 stalled, paths, deleter, used>>

\* MISTAKE: a month that failed once is left alone like a reported one.
OpenMonthOnce ==
  /\ pc = "next"
  /\ ~diskLow
  /\ \E p \in todo :
       LET row == CreateIfNotExists(db[p.month], p.format) IN
       /\ \A q \in todo : Before(p, q)
       /\ todo' = todo \ {p}
       /\ SetRow(p.month, row)
       /\ IF (row.checkpoint = "reported" \/ row.status = "failed") /\ ~force
          THEN pc' = "next" /\ UNCHANGED job
          ELSE /\ pc' = "source"
               /\ job' = [kind |-> "ingest", month |-> p.month,
                          format |-> p.format, rec |-> row, content |-> NULL]
  /\ UNCHANGED <<inbox, ticks, tmp, bars, feats, reports, diskLow, force,
                 stalled, paths, deleter, used>>

\* The head of process_one_month for the next file: the row is created or
\* read, and a reported month is left alone unless --force is given.
OpenMonth ==
  /\ pc = "next"
  /\ ~diskLow
  /\ \E p \in todo :
       LET row == CreateIfNotExists(db[p.month], p.format) IN
       /\ \A q \in todo : Before(p, q)
       /\ todo' = todo \ {p}
       /\ SetRow(p.month, row)
       /\ IF row.checkpoint = "reported" /\ ~force
          THEN pc' = "next" /\ UNCHANGED job
          ELSE /\ pc' = "source"
               /\ job' = [kind |-> "ingest", month |-> p.month,
                          format |-> p.format, rec |-> row, content |-> NULL]
  /\ UNCHANGED <<inbox, ticks, tmp, bars, feats, reports, diskLow, force,
                 stalled, paths, deleter, used>>

----------------------------------------------------------------------------
(* process_one_month: from the source file to the committed ticks *)

\* The file scan_inbox listed is gone: stat raises.
SourceMissing ==
  /\ pc = "source"
  /\ inbox[JobPath] = NULL
  /\ FailMonth
  /\ UNCHANGED <<inbox, ticks, tmp, bars, feats, reports, diskLow, deleter, used>>

\* verify_source_file rejects it: the row fails and its checkpoint goes back
\* to the first one, whatever it was.
SourceRejected ==
  /\ pc = "source"
  /\ inbox[JobPath] \in Rejected
  /\ SetRow(job.month, [db[job.month] EXCEPT !.status = "failed",
                                             !.checkpoint = "source_verified"])
  /\ LeaveMonth
  /\ UNCHANGED <<inbox, ticks, tmp, bars, feats, reports, diskLow, deleter, used>>

\* skip_ingestion, from the row as it was read at the start.
SkipIngestion ==
  /\ job.rec.checkpoint \in {"ticks_written", "ticks_verified", "features_generated"}
  /\ ticks[job.month] # NULL

\* MISTAKE: the row stays done while its file is replaced.
SourceVerifiedStillDone ==
  /\ pc = "source"
  /\ inbox[JobPath] \in Contents \ Rejected
  /\ IF SkipIngestion
     THEN pc' = "verify" /\ UNCHANGED db
     ELSE /\ pc' = "open"
          /\ SetRow(job.month, [db[job.month] EXCEPT
                                  !.checkpoint = "source_verified",
                                  !.sha = inbox[JobPath]])
  /\ UNCHANGED <<inbox, ticks, tmp, bars, feats, reports, diskLow, memory,
                 deleter, used>>

\* MISTAKE: the checkpoint does not go back before the file is replaced.
SourceVerifiedKeepsCheckpoint ==
  /\ pc = "source"
  /\ inbox[JobPath] \in Contents \ Rejected
  /\ IF SkipIngestion
     THEN pc' = "verify" /\ UNCHANGED db
     ELSE /\ pc' = "open"
          /\ SetRow(job.month, [db[job.month] EXCEPT !.status = "in_progress",
                                                     !.sha = inbox[JobPath]])
  /\ UNCHANGED <<inbox, ticks, tmp, bars, feats, reports, diskLow, memory,
                 deleter, used>>

SourceVerified ==
  /\ pc = "source"
  /\ inbox[JobPath] \in Contents \ Rejected
  /\ IF SkipIngestion
     THEN pc' = "verify" /\ UNCHANGED db
     ELSE /\ pc' = "open"
          /\ SetRow(job.month, [db[job.month] EXCEPT
                                  !.status = "in_progress",
                                  !.checkpoint = "source_verified",
                                  !.sha = inbox[JobPath]])
  /\ UNCHANGED <<inbox, ticks, tmp, bars, feats, reports, diskLow, memory,
                 deleter, used>>

\* MonthlyParquetWriter.__init__: a stale .tmp file goes first, then the disk
\* guard is asked, and only then the new .tmp file is opened.  The
\* constructor is called outside the try that knows about the guard.
OpenWriter ==
  /\ pc = "open"
  /\ ~diskLow
  /\ tmp' = [tmp EXCEPT ![job.month] = "partial"]
  /\ pc' = "write"
  /\ UNCHANGED <<db, inbox, ticks, bars, feats, reports, diskLow, memory,
                 deleter, used>>

OpenWriterDiskLow ==
  /\ pc = "open"
  /\ diskLow
  /\ tmp' = [tmp EXCEPT ![job.month] = NULL]
  /\ FailMonth
  /\ UNCHANGED <<inbox, ticks, bars, feats, reports, diskLow, deleter,
                 used>>

\* The chunk loop reaches the end of the file that is there now.
WriteChunks ==
  /\ pc = "write"
  /\ ~diskLow
  /\ inbox[JobPath] \in Good \cup Lossy
  /\ tmp' = [tmp EXCEPT ![job.month] = inbox[JobPath]]
  /\ job' = [job EXCEPT !.content = inbox[JobPath]]
  /\ pc' = "commit"
  /\ UNCHANGED <<db, inbox, ticks, bars, feats, reports, diskLow, force,
                 stalled, todo, paths, deleter, used>>

\* MISTAKE: the guard's exception ends the loop and the writer is finalized.
WriteDiskLowCommits ==
  /\ pc = "write"
  /\ diskLow
  /\ inbox[JobPath] \in Contents \ Rejected
  /\ job' = [job EXCEPT !.content = inbox[JobPath]]
  /\ pc' = "commit"
  /\ UNCHANGED <<db, inbox, ticks, tmp, bars, feats, reports, diskLow, force,
                 stalled, todo, paths, deleter, used>>

\* The guard trips before a chunk is written: abort, and pause the month.
WriteDiskLow ==
  /\ pc = "write"
  /\ diskLow
  /\ inbox[JobPath] \in Contents \ Rejected
  /\ tmp' = [tmp EXCEPT ![job.month] = NULL]
  /\ SetRow(job.month, [db[job.month] EXCEPT !.status = "paused_low_disk"])
  /\ LeaveMonth
  /\ UNCHANGED <<inbox, ticks, bars, feats, reports, diskLow, deleter,
                 used>>

\* The reader raises: the file does not parse, or is gone.
WriteUnreadable ==
  /\ pc = "write"
  /\ inbox[JobPath] \in Unparsable \cup Rejected \cup {NULL}
  /\ tmp' = [tmp EXCEPT ![job.month] = NULL]
  /\ FailMonth
  /\ UNCHANGED <<inbox, ticks, bars, feats, reports, diskLow, deleter,
                 used>>

\* writer.finalize: close, and rename onto the final name.
CommitFile ==
  /\ pc = "commit"
  /\ ticks' = [ticks EXCEPT ![job.month] = tmp[job.month]]
  /\ tmp' = [tmp EXCEPT ![job.month] = NULL]
  /\ pc' = "record"
  /\ UNCHANGED <<db, inbox, bars, feats, reports, diskLow, memory, deleter,
                 used>>

\* The checkpoint ticks_written, with the numbers of the ValidationReport.
RecordTicks ==
  /\ pc = "record"
  /\ SetRow(job.month, [db[job.month] EXCEPT !.checkpoint = "ticks_written",
                                             !.ingested = job.content])
  /\ pc' = "verify"
  /\ UNCHANGED <<inbox, ticks, tmp, bars, feats, reports, diskLow, memory,
                 deleter, used>>

----------------------------------------------------------------------------
(* From the committed ticks to the report; resumed months join at "bars" *)

\* Independent verification of the committed file passes.
TicksVerified ==
  /\ pc = "verify"
  /\ Verifies(job.month, db[job.month])
  /\ SetRow(job.month, [db[job.month] EXCEPT !.status = "done",
                                             !.checkpoint = "ticks_verified",
                                             !.verification = "verified"])
  /\ pc' = "bars"
  /\ UNCHANGED <<inbox, ticks, tmp, bars, feats, reports, diskLow, memory,
                 deleter, used>>

\* It does not: the row fails at the checkpoint it has, and a verification
\* that an earlier file earned is not withdrawn.
VerificationFailed ==
  /\ pc = "verify"
  /\ ~Verifies(job.month, db[job.month])
  /\ FailMonth
  /\ UNCHANGED <<inbox, ticks, tmp, bars, feats, reports, diskLow, deleter, used>>

\* MISTAKE: only the month in hand goes into the bars.
GenerateBarsOfJob ==
  /\ pc = "bars"
  /\ paths' = AllTickPaths
  /\ bars' = DataOf(AllTickPaths \cap {job.month})
  /\ pc' = "features"
  /\ UNCHANGED <<db, inbox, ticks, tmp, feats, reports, diskLow, force,
                 stalled, todo, job, deleter, used>>

\* get_all_tick_paths and generate_all_bars: all bars are computed anew from
\* every accessible done month; with none there is nothing to do.
GenerateBars ==
  /\ pc = "bars"
  /\ paths' = AllTickPaths
  /\ bars' = IF AllTickPaths = {} THEN bars ELSE DataOf(AllTickPaths)
  /\ pc' = "features"
  /\ UNCHANGED <<db, inbox, ticks, tmp, feats, reports, diskLow, force,
                 stalled, todo, job, deleter, used>>

\* run_feature_generation over the same list of paths.
GenerateFeatures ==
  /\ pc = "features"
  /\ \A m \in paths : ticks[m] # NULL
  /\ feats' = IF paths = {} THEN feats
              ELSE [flow |-> bars, profile |-> DataOf(paths)]
  /\ pc' = "mark"
  /\ UNCHANGED <<db, inbox, ticks, tmp, bars, reports, diskLow, memory,
                 deleter, used>>

MarkFeatures ==
  /\ pc = "mark"
  /\ SetRow(job.month, [db[job.month] EXCEPT !.checkpoint = "features_generated"])
  /\ pc' = "report"
  /\ UNCHANGED <<inbox, ticks, tmp, bars, feats, reports, diskLow, memory,
                 deleter, used>>

\* generate_month_report.  After ingestion it repeats the verification result
\* at hand, which passed, and calls the source safe to delete.  After a resume
\* the file is verified again, and the source is called safe to delete if the
\* row that was listed at the start had no deletion time.
GenerateReport ==
  /\ pc = "report"
  /\ reports' = [reports EXCEPT ![job.month] =
                   IF job.kind = "ingest"
                   THEN [passed |-> TRUE, safe |-> TRUE]
                   ELSE [passed |-> Verifies(job.month, job.rec),
                         safe   |-> ~job.rec.deleted]]
  /\ pc' = "finish"
  /\ UNCHANGED <<db, inbox, ticks, tmp, bars, feats, diskLow, memory, deleter,
                 used>>

MarkReported ==
  /\ pc = "finish"
  /\ SetRow(job.month, [db[job.month] EXCEPT !.checkpoint = "reported"])
  /\ LeaveMonth
  /\ UNCHANGED <<inbox, ticks, tmp, bars, feats, reports, diskLow, deleter, used>>

----------------------------------------------------------------------------
(* Failures of the ingest process *)

\* An unexpected exception while the ticks are written or renamed: abort.
WriteFault ==
  /\ pc \in {"write", "commit"}
  /\ Spend("fault")
  /\ tmp' = [tmp EXCEPT ![job.month] = NULL]
  /\ FailMonth
  /\ UNCHANGED <<inbox, ticks, bars, feats, reports, diskLow, deleter>>

\* An exception after verification: bars and feature files are replaced one
\* by one, so any of them may be new already.  process_one_month marks the
\* month failed, resume_stalled_months leaves its row as it is.
GenerationRaises ==
  /\ \/ UNCHANGED <<bars, feats>>
     \/ pc = "bars" /\ AllTickPaths # {} /\ bars' = DataOf(AllTickPaths)
                    /\ UNCHANGED feats
     \/ pc = "features" /\ paths # {} /\ feats' = [feats EXCEPT !.flow = bars]
                        /\ UNCHANGED bars
  /\ IF job.kind = "ingest" THEN FailMonth ELSE LeaveMonth /\ UNCHANGED db
  /\ UNCHANGED <<inbox, ticks, tmp, reports, diskLow, deleter>>

\* A tick file was there when the list was made and is gone when it is read.
TicksGone ==
  /\ pc = "features"
  /\ \E m \in paths : ticks[m] = NULL
  /\ GenerationRaises
  /\ UNCHANGED used

\* An exception without a cause in the model.
GenerationFault ==
  /\ pc \in {"bars", "features", "report"}
  /\ Spend("fault")
  /\ GenerationRaises

\* The process dies between two steps; what it held in memory is gone.
Crash ==
  /\ pc # "idle"
  /\ Spend("crash")
  /\ pc' = "idle"
  /\ stalled' = {} /\ todo' = {} /\ job' = NULL /\ paths' = {}
  /\ force' = FALSE
  /\ UNCHANGED <<store, diskLow, deleter>>

----------------------------------------------------------------------------
(* The other commands *)

\* --stage bars and --stage features, while no ingest runs.
StageBars ==
  /\ pc = "idle"
  /\ AllTickPaths # {}
  /\ bars' = DataOf(AllTickPaths)
  /\ UNCHANGED <<db, inbox, ticks, tmp, feats, reports, diskLow, pc, memory,
                 deleter, used>>

StageFeatures ==
  /\ pc = "idle"
  /\ AllTickPaths # {}
  /\ bars # {}
  /\ feats' = [flow |-> bars, profile |-> DataOf(AllTickPaths)]
  /\ UNCHANGED <<db, inbox, ticks, tmp, bars, reports, diskLow, pc, memory,
                 deleter, used>>

\* MISTAKE: a verification earned once is enough.
DeleteCheckVerifiedOnce(m) ==
  /\ dpc = "idle"
  /\ Concurrent \/ pc = "idle"
  /\ db[m].verification = "verified"
  /\ victim' = [month |-> m, format |-> db[m].source]
  /\ dpc' = "unlink"
  /\ UNCHANGED <<store, diskLow, pc, memory, used>>

\* delete_verified_source reads the row and checks it ...
DeleteCheck(m) ==
  /\ dpc = "idle"
  /\ Concurrent \/ pc = "idle"
  /\ db[m].status = "done"
  /\ db[m].verification = "verified"
  /\ victim' = [month |-> m, format |-> db[m].source]
  /\ dpc' = "unlink"
  /\ UNCHANGED <<store, diskLow, pc, memory, used>>

\* ... unlinks the file at the recorded path, if there is one ...
DeleteUnlink ==
  /\ dpc = "unlink"
  /\ inbox' = [inbox EXCEPT ![victim] = NULL]
  /\ dpc' = "stamp"
  /\ UNCHANGED <<db, ticks, tmp, bars, feats, reports, diskLow, pc, memory,
                 victim, used>>

\* MISTAKE: the stamped row is written whole, from what was checked.
DeleteStampUpsert ==
  /\ dpc = "stamp"
  /\ SetRow(victim.month, [NoRow EXCEPT !.status = "done",
                                        !.verification = "verified",
                                        !.checkpoint = "reported",
                                        !.source = victim.format,
                                        !.deleted = TRUE])
  /\ dpc' = "idle"
  /\ victim' = NULL
  /\ UNCHANGED <<inbox, ticks, tmp, bars, feats, reports, diskLow, pc, memory,
                 used>>

\* ... and stamps the row.
DeleteStamp ==
  /\ dpc = "stamp"
  /\ SetRow(victim.month, [db[victim.month] EXCEPT !.deleted = TRUE])
  /\ dpc' = "idle"
  /\ victim' = NULL
  /\ UNCHANGED <<inbox, ticks, tmp, bars, feats, reports, diskLow, pc, memory,
                 used>>

DeleteCrash ==
  /\ dpc # "idle"
  /\ Spend("crash")
  /\ dpc' = "idle"
  /\ victim' = NULL
  /\ UNCHANGED <<store, diskLow, pc, memory>>

----------------------------------------------------------------------------
(* The surroundings *)

\* The operator, a browser or a copy puts a file at p, over the one there.
Drop(p, c) ==
  /\ Spend("drop")
  /\ inbox[p] # c
  /\ inbox' = [inbox EXCEPT ![p] = c]
  /\ UNCHANGED <<db, ticks, tmp, bars, feats, reports, diskLow, pc, memory,
                 deleter>>

\* A committed tick file is no longer accessible.
LoseTicks(m) ==
  /\ ticks[m] # NULL
  /\ Spend("loss")
  /\ ticks' = [ticks EXCEPT ![m] = NULL]
  /\ UNCHANGED <<db, inbox, tmp, bars, feats, reports, diskLow, pc, memory,
                 deleter>>

DiskFills ==
  /\ ~diskLow
  /\ Spend("low")
  /\ diskLow' = TRUE
  /\ UNCHANGED <<store, pc, memory, deleter>>

DiskFrees ==
  /\ diskLow
  /\ diskLow' = FALSE
  /\ UNCHANGED <<store, pc, memory, deleter, used>>

----------------------------------------------------------------------------
StartSomeIngest == \E f \in Forces : StartIngest(f)

Source == SourceMissing \/ SourceRejected \/ SourceVerified

Write == \/ OpenWriter \/ OpenWriterDiskLow
         \/ WriteChunks \/ WriteDiskLow \/ WriteUnreadable
         \/ CommitFile \/ RecordTicks

Generate == \/ GenerateBars \/ GenerateFeatures \/ MarkFeatures
            \/ GenerateReport \/ MarkReported

\* What the ingest process does by itself once it is started.
IngestStep == \/ ResumeNext \/ ScanInbox \/ OpenMonth \/ EndIngest
              \/ Source \/ Write
              \/ TicksVerified \/ VerificationFailed
              \/ Generate \/ TicksGone

DeleteStep == DeleteUnlink \/ DeleteStamp

Operator == \/ StageBars \/ StageFeatures
            \/ \E m \in Months : DeleteCheck(m)
            \/ \E p \in Path, c \in Contents : Drop(p, c)

Failure == \/ WriteFault \/ GenerationFault \/ Crash \/ DeleteCrash
           \/ \E m \in Months : LoseTicks(m)
           \/ DiskFills

Next == StartSomeIngest \/ IngestStep \/ DeleteStep \/ Operator \/ Failure
        \/ DiskFrees

Spec == Init /\ [][Next]_vars

\* A started process runs on, the operator runs the ingest command again and
\* again (the incremental workflow of the README), and makes room on a full
\* disk.  Nobody is obliged to drop a file, to delete one or to use --force,
\* and a failure never has to happen.
Fairness == /\ WF_vars(IngestStep)
            /\ WF_vars(StartSomeIngest)
            /\ WF_vars(DeleteStep)
            /\ WF_vars(DiskFrees)

FairSpec == Spec /\ Fairness

----------------------------------------------------------------------------
(* Safety *)

VerifiedCheckpoints == {"ticks_verified", "features_generated", "reported"}

\* The tick file of m is the one the row describes, unless it was lost.
Intact(m) == ticks[m] = NULL \/ Verifies(m, db[m])

\* A month counted as done was verified, and its tick file has been the file
\* that was verified ever since: no re-ingestion writes under a done month.
\* state.py 20-24 has months that are done, being written, and not yet verified;
\* the code has none, since pipeline.py 210 sets both at once.
DoneIntact == \A m \in Months :
  db[m].status = "done" => db[m].verification = "verified" /\ Intact(m)

\* The same holds of a row whose checkpoint is ticks_verified or later, done
\* or not: the checkpoint goes back before the file is replaced.
CheckpointIntact == \A m \in Months :
  db[m].checkpoint \in VerifiedCheckpoints =>
    db[m].verification = "verified" /\ Intact(m)

\* Bars and features, which read the tick files outside the pipeline's view,
\* were never computed from a file that did not pass verification.
OnlyVerifiedData ==
  bars \cup feats.flow \cup feats.profile \subseteq Months \X Good

\* A done month whose checkpoint claims its features has its present ticks in
\* the bars and in both kinds of feature files, whatever crash, failed
\* generation or other month came between.
FeaturesCover == \A m \in Months :
  /\ db[m].status = "done"
  /\ db[m].checkpoint \in {"features_generated", "reported"}
  /\ ticks[m] # NULL
  => <<m, ticks[m]>> \in bars \cap feats.flow \cap feats.profile

\* The licence of delete-source, which was read before the unlink, at the
\* unlink.  The verification it read is still on record, and as long as the row
\* is done, its tick file is the verified one, unless it was lost.  The row is
\* done, except where an ingest run overlaps: that can have taken it back in
\* between, and then nothing is promised of the tick file.
DeletionLicensed ==
  [][\A p \in Path : inbox[p] # NULL /\ inbox'[p] = NULL =>
       LET m == p.month IN
       /\ db[m].verification = "verified"
       /\ db[m].status = "done" => Intact(m)
       /\ Concurrent \/ db[m].status = "done"]_vars

\* Without --force nothing but the deletion stamp touches a reported month.
ReportedIsFinal ==
  [][\A m \in Months : db[m].checkpoint = "reported" /\ ~force =>
       /\ db'[m] = [db[m] EXCEPT !.deleted = db'[m].deleted]
       /\ ticks'[m] \in {ticks[m], NULL}]_vars

\* A partial update leaves the columns it does not name: what a row has
\* recorded never becomes NULL again, and it never names another source.
NoColumnLost ==
  [][\A m \in Months : db[m].status # "absent" =>
       /\ db'[m].source = db[m].source
       /\ db[m].checkpoint # NULL => db'[m].checkpoint # NULL
       /\ db[m].verification # NULL => db'[m].verification # NULL
       /\ db[m].sha # NULL => db'[m].sha # NULL
       /\ db[m].ingested # NULL => db'[m].ingested # NULL
       /\ db[m].deleted => db'[m].deleted]_vars

----------------------------------------------------------------------------
(* The abstract specification the pipeline implements: a month is trusted *)
(* while its row is done.                                                 *)

Archive == INSTANCE TickArchive
             WITH trusted <- DoneMonths(db),
                  file    <- ticks,
                  derived <- bars \cup feats.flow \cup feats.profile

\* Readers of tick files, bars and features see a TickArchive, whatever the
\* ingest process, delete-source and the operator do at the same time.
ImplementsArchive == Archive!Spec

----------------------------------------------------------------------------
(* The inductive invariant: what holds of the rows at every step of the *)
(* ingest process, so that the next step keeps the invariants above.    *)

RowsOK == \A m \in Months :
  /\ db[m].status = "absent" => db[m] = NoRow
  /\ db[m].status # "absent" => db[m].source \in Formats
  /\ db[m].status = "done" => db[m].checkpoint \in VerifiedCheckpoints

\* The row of the month in hand, step by step.
JobOK == pc \in JobSteps =>
  LET row == db[job.month] IN
  /\ row.status # "absent"
  /\ pc \in {"source", "open", "write", "commit", "record", "verify"} =>
       job.kind = "ingest"
  /\ pc = "source" => /\ row.checkpoint = job.rec.checkpoint
                      /\ row.checkpoint # "reported" \/ force
  /\ pc \in {"open", "write", "commit", "record"} =>
       row.status = "in_progress" /\ row.checkpoint = "source_verified"
  /\ pc = "verify" =>
       row.checkpoint \in {"ticks_written", "ticks_verified", "features_generated"}
  /\ pc \in {"bars", "features", "mark"} => row.checkpoint = "ticks_verified"
  /\ pc \in {"report", "finish"} => row.checkpoint = "features_generated"

\* What the writer has closed and is about to rename and to record.
WriterOK ==
  /\ pc \in {"commit", "record"} => job.content \in Contents
  /\ pc = "commit" => tmp[job.month] = job.content

\* A listed row that is still to be resumed is as it was listed.
StalledOK ==
  /\ stalled # {} => pc = "resume" \/ (pc \in JobSteps /\ job.kind = "resume")
  /\ \A s \in stalled :
       /\ db[s.month].checkpoint = "ticks_verified"
       /\ pc \in JobSteps => s.month # job.month
  /\ \A s, t \in stalled : s.month = t.month => s = t

\* A generation under way covers every done month it can still read.
GenerationOK == \A m \in DoneMonths(db) : ticks[m] # NULL =>
  /\ pc = "features" => m \in paths /\ <<m, ticks[m]>> \in bars
  /\ pc = "mark" => <<m, ticks[m]>> \in bars \cap feats.flow \cap feats.profile

\* And nothing else.
PathsOK == pc = "features" => paths \subseteq DoneMonths(db)

DeleterOK == dpc # "idle" => db[victim.month].status # "absent"

IInv == /\ TypeOK
        /\ RowsOK /\ JobOK /\ WriterOK /\ StalledOK
        /\ GenerationOK /\ PathsOK /\ DeleterOK
        /\ CheckpointIntact /\ OnlyVerifiedData /\ FeaturesCover

----------------------------------------------------------------------------
(* Liveness *)

\* A month stopped after verification gets its bars and features by later
\* runs, with its source or without, unless its tick file is lost first or an
\* archive placed for it is rejected, which takes its row back to the start.
VerifiedIsGenerated == \A m \in Months :
  db[m].checkpoint = "ticks_verified"
    ~> \/ db[m].checkpoint \in {"features_generated", "reported"}
       \/ ticks[m] = NULL
       \/ \E p \in Path : p.month = m /\ inbox[p] \in Rejected

\* A good archive that stays in the inbox (one of which a CRC check raised, and
\* which is cached as corrupted, is Rejected) gets its month verified, through
\* crashes, faults, a full disk and bad archives before it.  Only one thing can
\* keep it out for good: a committed file that fails verification, since its
\* month is at ticks_written and is never ingested again.
GoodSourceIsVerified == \A m \in Months :
  <>[](\E p \in Path : p.month = m /\ inbox[p] \in Good)
    => \/ <>(db[m].verification = "verified")
       \/ <>[](ticks[m] \in Lossy /\ db[m].checkpoint = "ticks_written")

\* A month stopped between its features and its report is reported by a later
\* run, through its archive: nothing lists its row as stalled.  That takes an
\* archive in the inbox that is not rejected, and its tick file.
FeaturesAreReported == \A m \in Months :
  db[m].checkpoint = "features_generated"
    ~> \/ db[m].checkpoint = "reported"
       \/ \A p \in Path : p.month = m => inbox[p] \in Rejected \cup {NULL}
       \/ ticks[m] = NULL

----------------------------------------------------------------------------
(* What the comments and documents say, and the code does not do *)

\* pipeline.py, resume_stalled_months: the features of a resumed month are
\* generated from its verified ticks.
ResumedFeaturesCover == \A m \in Months :
  db[m].checkpoint = "reported" /\ ticks[m] # NULL =>
    <<m, ticks[m]>> \in bars
=============================================================================
