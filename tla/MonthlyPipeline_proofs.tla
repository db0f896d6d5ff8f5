----------------------- MODULE MonthlyPipeline_proofs -----------------------
(***************************************************************************)
(* The inductive invariant IInv of MonthlyPipeline and its proof: typing,  *)
(* then the rows and the files they describe, then the control state, then *)
(* what bars and features cover.  Then what IInv gives: the safety         *)
(* invariants, the action properties, the refinement of TickArchive, and   *)
(* what delete-source may remove.                                          *)
(***************************************************************************)
EXTENDS MonthlyPipeline, TLAPS


----------------------------------------------------------------------------
(* Typing *)

\* Every update of columns the pipeline makes (state.py, update_fields) leaves a
\* well-formed row, and so does create_if_not_exists.
LEMMA RowTyped ==
  ASSUME NEW r \in MonthRecord
  PROVE  /\ \A st \in Statuses : [r EXCEPT !.status = st] \in MonthRecord
         /\ \A st \in Statuses, cp \in Checkpoints :
              [r EXCEPT !.status = st, !.checkpoint = cp] \in MonthRecord
         /\ \A cp \in Checkpoints : [r EXCEPT !.checkpoint = cp] \in MonthRecord
         /\ \A c \in Contents, cp \in Checkpoints :
              [r EXCEPT !.checkpoint = cp, !.ingested = c] \in MonthRecord
         /\ \A c \in Contents, st \in Statuses, cp \in Checkpoints :
              [r EXCEPT !.status = st, !.checkpoint = cp, !.sha = c] \in MonthRecord
         /\ \A st \in Statuses, cp \in Checkpoints :
              [r EXCEPT !.status = st, !.checkpoint = cp,
                        !.verification = "verified"] \in MonthRecord
         /\ [r EXCEPT !.deleted = TRUE] \in MonthRecord
         /\ \A f \in Formats : CreateIfNotExists(r, f) \in MonthRecord
BY DEF MonthRecord, CreateIfNotExists, NoRow, Statuses

\* Writing one well-formed row keeps the table well-formed.
LEMMA SetRowTyped ==
  ASSUME db \in [Months -> MonthRecord], NEW m \in Months,
         NEW row \in MonthRecord, SetRow(m, row)
  PROVE  db' \in [Months -> MonthRecord]
BY DEF SetRow

\* Counting an outside event keeps the counters natural.
LEMMA SpendTyped ==
  ASSUME used \in [Events -> Nat], NEW e \in Events, Spend(e)
  PROVE  used' \in [Events -> Nat]
BY DEF Spend

\* While process_one_month or resume_stalled_months has a month in hand, the
\* month is one of Months and its row and the row as listed are well-formed.
LEMMA JobTyped ==
  ASSUME TypeOK, pc \in JobSteps
  PROVE  /\ job \in Job
         /\ job.month \in Months
         /\ job.kind \in {"ingest", "resume"}
         /\ db[job.month] \in MonthRecord
         /\ job.rec \in MonthRecord
BY DEF TypeOK, Job

\* Leaving a month goes back to one of the two loops and forgets the month.
LEMMA LeaveMonthTyped ==
  ASSUME TypeOK, LeaveMonth
  PROVE  /\ pc' \in {"resume", "next"}
         /\ pc' \in Steps \ JobSteps
         /\ job' = NULL
         /\ paths' = {}
         /\ force' \in BOOLEAN
         /\ stalled' \subseteq [month : Months, rec : MonthRecord]
         /\ todo' \subseteq Path
BY DEF LeaveMonth, TypeOK, JobSteps, Steps

\* The except branches of process_one_month keep the table well-formed.
LEMMA FailMonthTyped ==
  ASSUME TypeOK, FailMonth, pc \in JobSteps
  PROVE  db' \in [Months -> MonthRecord]
<1>1. [db[job.month] EXCEPT !.status = "failed"] \in MonthRecord
  BY JobTyped, RowTyped DEF Statuses
<1> QED BY <1>1, JobTyped, SetRowTyped DEF FailMonth, TypeOK

\* Data computed from tick files that exist is data of known contents.
LEMMA DataTyped ==
  ASSUME TypeOK, NEW ms \in SUBSET Months, \A m \in ms : ticks[m] # NULL
  PROVE  DataOf(ms) \subseteq Months \X Contents
BY DEF TypeOK, DataOf

\* What an exception during bars, features or report can leave behind is
\* well-formed, and the ticks and the inbox are as they were.
LEMMA GenerationRaisesTyped ==
  ASSUME TypeOK, GenerationRaises, pc \in JobSteps
  PROVE  /\ bars' \subseteq Months \X Contents
         /\ feats' \in [flow    : SUBSET (Months \X Contents),
                        profile : SUBSET (Months \X Contents)]
         /\ db' \in [Months -> MonthRecord]
         /\ LeaveMonth
         /\ UNCHANGED <<inbox, ticks, tmp, reports, diskLow, deleter>>
<1>1. bars' \subseteq Months \X Contents
  BY DataTyped DEF GenerationRaises, TypeOK, AllTickPaths, DoneMonths
<1>2. feats' \in [flow    : SUBSET (Months \X Contents),
                  profile : SUBSET (Months \X Contents)]
  BY DEF GenerationRaises, TypeOK
<1>3. db' \in [Months -> MonthRecord] /\ LeaveMonth
  BY FailMonthTyped DEF GenerationRaises, FailMonth, TypeOK
<1> QED BY <1>1, <1>2, <1>3 DEF GenerationRaises

\* Every step of the pipeline, the operator and the surroundings keeps TypeOK.
LEMMA TypeStep == IInv /\ [Next]_vars => TypeOK'
<1> SUFFICES ASSUME IInv, [Next]_vars PROVE TypeOK'
  OBVIOUS
<1> USE DEF store, memory, deleter
<1>0. TypeOK
  BY DEF IInv
<1>a. /\ \A s \in JobSteps : s \in Steps
      /\ {"idle", "resume", "next"} \cap JobSteps = {}
      /\ {"idle", "resume", "next"} \subseteq Steps
      /\ "failed" \in Statuses
      /\ NULL \notin Contents
      /\ Good \cup Lossy \subseteq Contents
  BY ContentsAssumption DEF JobSteps, Steps, Statuses, Contents
<1>1. ASSUME NEW f \in Forces, StartIngest(f) PROVE TypeOK'
  BY <1>1, <1>0, <1>a, ForcesAssumption DEF TypeOK, StartIngest
<1>2. CASE ResumeNext
  <2>1. PICK s \in stalled : 
           /\ stalled' = stalled \ {s}
           /\ job' = [kind |-> "resume", month |-> s.month,
                  format |-> s.rec.source, rec |-> s.rec, content |-> NULL]
    BY <1>2 DEF ResumeNext
  <2>2. job' \in Job
    BY <2>1, <1>0 DEF TypeOK, Job, MonthRecord
  <2> QED BY <1>2, <1>0, <2>1, <2>2 DEF TypeOK, ResumeNext, Steps, JobSteps
<1>3. CASE ScanInbox
  BY <1>3, <1>0, <1>a DEF TypeOK, ScanInbox
<1>4. CASE EndIngest
  BY <1>4, <1>0, <1>a DEF TypeOK, EndIngest
<1>5. CASE OpenMonth
  <2>1. PICK p \in todo :
          LET row == CreateIfNotExists(db[p.month], p.format) IN
          /\ todo' = todo \ {p}
          /\ SetRow(p.month, row)
          /\ \/ pc' = "next" /\ UNCHANGED job
             \/ /\ pc' = "source"
                /\ job' = [kind |-> "ingest", month |-> p.month,
                           format |-> p.format, rec |-> row, content |-> NULL]
    BY <1>5 DEF OpenMonth
  <2> DEFINE row == CreateIfNotExists(db[p.month], p.format)
  <2>2. p \in Path /\ p.month \in Months /\ p.format \in Formats
    BY <1>0 DEF TypeOK, Path
  <2>3. row \in MonthRecord
    BY <2>2, <1>0, RowTyped DEF TypeOK
  <2>4. db' \in [Months -> MonthRecord]
    BY <2>1, <2>2, <2>3, <1>0, SetRowTyped DEF TypeOK
  <2>5. pc' = "source" => job' \in Job
    BY <2>1, <2>2, <2>3 DEF Job
  <2> QED BY <1>5, <1>0, <1>a, <2>1, <2>4, <2>5 DEF TypeOK, OpenMonth, Steps, JobSteps
<1>6. CASE SourceMissing
  BY <1>6, <1>0, <1>a, FailMonthTyped, LeaveMonthTyped
     DEF TypeOK, SourceMissing, FailMonth, JobSteps, Steps
<1>7. CASE SourceRejected
  <2>1. [db[job.month] EXCEPT !.status = "failed", !.checkpoint = "source_verified"]
          \in MonthRecord
    BY <1>7, <1>0, JobTyped, RowTyped DEF SourceRejected, JobSteps, Steps, Statuses, Checkpoints
  <2>2. db' \in [Months -> MonthRecord]
    BY <1>7, <1>0, <2>1, JobTyped, SetRowTyped DEF SourceRejected, TypeOK, JobSteps, Steps
  <2> QED BY <1>7, <1>0, <1>a, <2>2, LeaveMonthTyped DEF TypeOK, SourceRejected
<1>8. CASE SourceVerified
  <2>1. db' \in [Months -> MonthRecord]
    <3>1. CASE UNCHANGED db
      BY <3>1, <1>0 DEF TypeOK
    <3>2. CASE SetRow(job.month, [db[job.month] EXCEPT
                                  !.status = "in_progress",
                                  !.checkpoint = "source_verified",
                                  !.sha = inbox[JobPath]])
      <4>1. inbox[JobPath] \in Contents
        BY <1>8 DEF SourceVerified
      <4>2. [db[job.month] EXCEPT !.status = "in_progress", !.checkpoint = "source_verified",
                                  !.sha = inbox[JobPath]] \in MonthRecord
        BY <4>1, <1>8, <1>0, JobTyped, RowTyped DEF SourceVerified, JobSteps, Steps, Statuses, Checkpoints
      <4> QED BY <3>2, <4>2, <1>8, <1>0, JobTyped, SetRowTyped DEF SourceVerified, TypeOK, JobSteps, Steps
    <3> QED BY <3>1, <3>2, <1>8 DEF SourceVerified
  <2> QED BY <1>8, <1>0, <1>a, <2>1 DEF TypeOK, SourceVerified, JobSteps, Steps
<1>9. CASE OpenWriter
  BY <1>9, <1>0, <1>a DEF TypeOK, OpenWriter, JobSteps, Steps
<1>10. CASE OpenWriterDiskLow
  BY <1>10, <1>0, <1>a, FailMonthTyped, LeaveMonthTyped
     DEF TypeOK, OpenWriterDiskLow, FailMonth, JobSteps, Steps
<1>11. CASE WriteChunks
  <2>1. job' \in Job
    BY <1>11, <1>0, <1>a, JobTyped DEF WriteChunks, Job, JobSteps, Steps
  <2>2. tmp' \in [Months -> Contents \cup {"partial", NULL}]
    BY <1>11, <1>0, <1>a DEF WriteChunks, TypeOK
  <2> QED BY <1>11, <1>0, <1>a, <2>1, <2>2 DEF TypeOK, WriteChunks, JobSteps, Steps
<1>12. CASE WriteDiskLow
  <2>1. [db[job.month] EXCEPT !.status = "paused_low_disk"] \in MonthRecord
    BY <1>12, <1>0, JobTyped, RowTyped DEF WriteDiskLow, JobSteps, Steps, Statuses
  <2>2. db' \in [Months -> MonthRecord]
    BY <1>12, <1>0, <2>1, JobTyped, SetRowTyped DEF WriteDiskLow, TypeOK, JobSteps, Steps
  <2> QED BY <1>12, <1>0, <1>a, <2>2, LeaveMonthTyped DEF TypeOK, WriteDiskLow
<1>13. CASE WriteUnreadable
  BY <1>13, <1>0, <1>a, FailMonthTyped, LeaveMonthTyped
     DEF TypeOK, WriteUnreadable, FailMonth, JobSteps, Steps
<1>14. CASE CommitFile
  BY <1>14, <1>0, <1>a, JobTyped DEF TypeOK, CommitFile, IInv, WriterOK, JobSteps, Steps
<1>15. CASE RecordTicks
  <2>1. [db[job.month] EXCEPT !.checkpoint = "ticks_written", !.ingested = job.content]
          \in MonthRecord
    BY <1>15, <1>0, JobTyped, RowTyped DEF RecordTicks, IInv, WriterOK, JobSteps, Steps, Checkpoints
  <2>2. db' \in [Months -> MonthRecord]
    BY <1>15, <1>0, <2>1, JobTyped, SetRowTyped DEF RecordTicks, TypeOK, JobSteps, Steps
  <2> QED BY <1>15, <1>0, <1>a, <2>2 DEF TypeOK, RecordTicks, JobSteps, Steps
<1>16. CASE TicksVerified
  <2>1. [db[job.month] EXCEPT !.status = "done", !.checkpoint = "ticks_verified",
                              !.verification = "verified"] \in MonthRecord
    BY <1>16, <1>0, JobTyped, RowTyped DEF TicksVerified, JobSteps, Steps, Statuses, Checkpoints
  <2>2. db' \in [Months -> MonthRecord]
    BY <1>16, <1>0, <2>1, JobTyped, SetRowTyped DEF TicksVerified, TypeOK, JobSteps, Steps
  <2> QED BY <1>16, <1>0, <1>a, <2>2 DEF TypeOK, TicksVerified, JobSteps, Steps
<1>17. CASE VerificationFailed
  BY <1>17, <1>0, <1>a, FailMonthTyped, LeaveMonthTyped
     DEF TypeOK, VerificationFailed, FailMonth, JobSteps, Steps
<1>18. CASE GenerateBars
  BY <1>18, <1>0, <1>a, DataTyped DEF TypeOK, GenerateBars, AllTickPaths, DoneMonths, JobSteps, Steps
<1>19. CASE GenerateFeatures
  BY <1>19, <1>0, <1>a, DataTyped DEF TypeOK, GenerateFeatures, JobSteps, Steps
<1>20. CASE MarkFeatures
  <2>1. [db[job.month] EXCEPT !.checkpoint = "features_generated"] \in MonthRecord
    BY <1>20, <1>0, JobTyped, RowTyped DEF MarkFeatures, JobSteps, Steps, Checkpoints
  <2>2. db' \in [Months -> MonthRecord]
    BY <1>20, <1>0, <2>1, JobTyped, SetRowTyped DEF MarkFeatures, TypeOK, JobSteps, Steps
  <2> QED BY <1>20, <1>0, <1>a, <2>2 DEF TypeOK, MarkFeatures, JobSteps, Steps
<1>21. CASE GenerateReport
  <2>1. reports' \in [Months -> [passed : BOOLEAN, safe : BOOLEAN] \cup {NULL}]
    BY <1>21, <1>0, JobTyped DEF GenerateReport, TypeOK, JobSteps, Steps, MonthRecord, Verifies
  <2> QED BY <1>21, <1>0, <1>a, <2>1 DEF TypeOK, GenerateReport, JobSteps, Steps
<1>22. CASE MarkReported
  <2>1. [db[job.month] EXCEPT !.checkpoint = "reported"] \in MonthRecord
    BY <1>22, <1>0, JobTyped, RowTyped DEF MarkReported, JobSteps, Steps, Checkpoints
  <2>2. db' \in [Months -> MonthRecord]
    BY <1>22, <1>0, <2>1, JobTyped, SetRowTyped DEF MarkReported, TypeOK, JobSteps, Steps
  <2> QED BY <1>22, <1>0, <1>a, <2>2, LeaveMonthTyped DEF TypeOK, MarkReported
<1>23. CASE WriteFault
  BY <1>23, <1>0, <1>a, FailMonthTyped, LeaveMonthTyped, SpendTyped
     DEF TypeOK, WriteFault, FailMonth, JobSteps, Steps, Events
<1>24. CASE TicksGone
  <2>1. pc \in JobSteps /\ GenerationRaises /\ UNCHANGED used
    BY <1>24 DEF TicksGone, JobSteps, Steps
  <2> QED BY <2>1, <1>0, <1>a, GenerationRaisesTyped, LeaveMonthTyped DEF TypeOK
<1>25. CASE GenerationFault
  <2>1. pc \in JobSteps /\ GenerationRaises /\ used' \in [Events -> Nat]
    BY <1>25, <1>0, SpendTyped DEF GenerationFault, JobSteps, Steps, TypeOK, Events
  <2> QED BY <2>1, <1>0, <1>a, GenerationRaisesTyped, LeaveMonthTyped DEF TypeOK
<1>26. CASE Crash
  BY <1>26, <1>0, <1>a, SpendTyped DEF TypeOK, Crash, Events
<1>27. CASE StageBars
  BY <1>27, <1>0, <1>a, DataTyped DEF TypeOK, StageBars, AllTickPaths, DoneMonths
<1>28. CASE StageFeatures
  BY <1>28, <1>0, <1>a, DataTyped DEF TypeOK, StageFeatures, AllTickPaths, DoneMonths
<1>29. ASSUME NEW m \in Months, DeleteCheck(m) PROVE TypeOK'
  <2>1. victim' \in Path
    BY <1>29, <1>0 DEF DeleteCheck, IInv, RowsOK, Path
  <2> QED BY <1>29, <1>0, <1>a, <2>1 DEF TypeOK, DeleteCheck
<1>30. CASE DeleteUnlink
  BY <1>30, <1>0, <1>a DEF TypeOK, DeleteUnlink
<1>31. CASE DeleteStamp
  <2>1. victim.month \in Months
    BY <1>31, <1>0 DEF TypeOK, DeleteStamp, Path
  <2>2. db' \in [Months -> MonthRecord]
    BY <1>31, <1>0, <2>1, RowTyped, SetRowTyped DEF TypeOK, DeleteStamp
  <2> QED BY <1>31, <1>0, <1>a, <2>2 DEF TypeOK, DeleteStamp
<1>32. CASE DeleteCrash
  BY <1>32, <1>0, <1>a, SpendTyped DEF TypeOK, DeleteCrash, Events
<1>33. ASSUME NEW p \in Path, NEW c \in Contents, Drop(p, c) PROVE TypeOK'
  BY <1>33, <1>0, <1>a, SpendTyped DEF TypeOK, Drop, Events
<1>34. ASSUME NEW m \in Months, LoseTicks(m) PROVE TypeOK'
  BY <1>34, <1>0, <1>a, SpendTyped DEF TypeOK, LoseTicks, Events
<1>35. CASE DiskFills
  BY <1>35, <1>0, <1>a, SpendTyped DEF TypeOK, DiskFills, Events
<1>36. CASE DiskFrees
  BY <1>36, <1>0, <1>a DEF TypeOK, DiskFrees
<1>37. CASE UNCHANGED vars
  BY <1>37, <1>0, <1>a DEF TypeOK, vars
<1> QED
  BY <1>1, <1>2, <1>3, <1>4, <1>5, <1>6, <1>7, <1>8, <1>9, <1>10, <1>11, <1>12, <1>13,
     <1>14, <1>15, <1>16, <1>17, <1>18, <1>19, <1>20, <1>21, <1>22, <1>23, <1>24, <1>25,
     <1>26, <1>27, <1>28, <1>29, <1>30, <1>31, <1>32, <1>33, <1>34, <1>35, <1>36, <1>37
     DEF Next, StartSomeIngest, IngestStep, DeleteStep, Operator, Failure, Source, Write, Generate

----------------------------------------------------------------------------
(* Rows and the files they describe *)

\* Writing one row keeps RowsOK and CheckpointIntact if the new row keeps its
\* part of them.
LEMMA RowsKept ==
  ASSUME IInv, UNCHANGED ticks,
         NEW m \in Months, NEW row \in MonthRecord, SetRow(m, row),
         row.status # "absent",
         row.source \in Formats,
         row.status = "done" => row.checkpoint \in VerifiedCheckpoints,
         row.checkpoint \in VerifiedCheckpoints =>
           /\ row.verification = "verified"
           /\ ticks[m] = NULL \/ Verifies(m, row)
  PROVE  RowsOK' /\ CheckpointIntact'
<1>1. db' \in [Months -> MonthRecord] /\ db'[m] = row
      /\ \A n \in Months : n # m => db'[n] = db[n]
  BY DEF IInv, TypeOK, SetRow
<1>2. RowsOK'
  BY <1>1 DEF IInv, RowsOK
<1>3. ASSUME NEW n \in Months, db'[n].checkpoint \in VerifiedCheckpoints
      PROVE  db'[n].verification = "verified" /\ Intact(n)'
  <2>1. CASE n = m
    BY <2>1, <1>1, <1>3 DEF Intact, Verifies
  <2>2. CASE n # m
    BY <2>2, <1>1, <1>3 DEF IInv, CheckpointIntact, Intact, Verifies
  <2> QED BY <2>1, <2>2
<1> QED BY <1>2, <1>3 DEF CheckpointIntact

\* A month that fails or is paused keeps its checkpoint and what it says.
LEMMA FailedRowsKept ==
  ASSUME IInv, UNCHANGED ticks, pc \in JobSteps, NEW st \in {"failed", "paused_low_disk"},
         SetRow(job.month, [db[job.month] EXCEPT !.status = st])
  PROVE  RowsOK' /\ CheckpointIntact'
<1> DEFINE m == job.month
           row == [db[m] EXCEPT !.status = st]
<1>1. m \in Months /\ db[m] \in MonthRecord /\ db[m].status # "absent"
      /\ db[m].source \in Formats
  BY JobTyped DEF IInv, JobOK, RowsOK
<1>2. row \in MonthRecord
  BY <1>1, RowTyped DEF Statuses
<1>3. /\ row.status = st
      /\ row.source = db[m].source
      /\ row.checkpoint = db[m].checkpoint
      /\ row.verification = db[m].verification
      /\ row.ingested = db[m].ingested
  BY <1>1 DEF MonthRecord
<1>4. Verifies(m, db[m]) => Verifies(m, row)
  BY <1>3 DEF Verifies
<1>5. row.checkpoint \in VerifiedCheckpoints =>
           /\ row.verification = "verified"
           /\ ticks[m] = NULL \/ Verifies(m, row)
  BY <1>1, <1>3, <1>4 DEF IInv, CheckpointIntact, Intact
<1> QED BY <1>1, <1>2, <1>3, <1>5, RowsKept

\* Every step keeps RowsOK and CheckpointIntact: a verified checkpoint is set
\* only after verify_committed_month passed, and is taken back before the
\* writer may replace the file.
LEMMA RowsStep == IInv /\ [Next]_vars => RowsOK' /\ CheckpointIntact'
<1> SUFFICES ASSUME IInv, [Next]_vars PROVE RowsOK' /\ CheckpointIntact'
  OBVIOUS
<1> USE DEF store, memory, deleter
<1> DEFINE row == db[job.month]
<1>0. /\ TypeOK
      /\ pc \in JobSteps => /\ job.month \in Months
                            /\ row \in MonthRecord
                            /\ row.status # "absent"
                            /\ row.source \in Formats
                            /\ row.status = "done" => row.checkpoint \in VerifiedCheckpoints
                            /\ row.checkpoint \in VerifiedCheckpoints =>
                                 row.verification = "verified" /\ Intact(job.month)
  BY JobTyped DEF IInv, JobOK, RowsOK, CheckpointIntact
<1>1. CASE UNCHANGED <<db, ticks>>
  BY <1>1 DEF IInv, RowsOK, CheckpointIntact, Intact, Verifies
<1>2. CASE OpenMonth
  <2>1. PICK p \in todo : SetRow(p.month, CreateIfNotExists(db[p.month], p.format))
    BY <1>2 DEF OpenMonth
  <2> DEFINE old == db[p.month]
             new == CreateIfNotExists(old, p.format)
  <2>2. p.month \in Months /\ p.format \in Formats /\ old \in MonthRecord
    BY <1>0 DEF TypeOK, Path
  <2>3. CASE old.status # "absent"
    BY <2>1, <2>2, <2>3, <1>2, RowsKept
       DEF CreateIfNotExists, IInv, RowsOK, CheckpointIntact, Intact, OpenMonth
  <2>4. CASE old.status = "absent"
    <3>1. new = [NoRow EXCEPT !.status = "pending", !.source = p.format]
      BY <2>4 DEF CreateIfNotExists
    <3>2. /\ new.status = "pending"
          /\ new.source \in Formats
          /\ new.checkpoint \notin VerifiedCheckpoints
      BY <3>1, <2>2, ContentsAssumption DEF NoRow, VerifiedCheckpoints, Checkpoints
    <3>3. new \in MonthRecord
      BY <2>2, RowTyped
    <3> QED BY <2>1, <2>2, <3>2, <3>3, <1>2, RowsKept DEF OpenMonth
  <2> QED BY <2>3, <2>4
<1>3. CASE SourceRejected
  <2> DEFINE new == [row EXCEPT !.status = "failed", !.checkpoint = "source_verified"]
  <2>1. pc \in JobSteps
    BY <1>3 DEF SourceRejected, JobSteps, Steps
  <2>2. new \in MonthRecord /\ new.status = "failed" /\ new.source = row.source
        /\ new.checkpoint = "source_verified"
    BY <2>1, <1>0 DEF MonthRecord, Statuses, Checkpoints
  <2> QED BY <2>1, <2>2, <1>0, <1>3, RowsKept DEF SourceRejected, VerifiedCheckpoints
<1>4. CASE SourceVerified
  <2>1. CASE UNCHANGED db
    BY <2>1, <1>1, <1>4 DEF SourceVerified
  <2>2. CASE db' # db
    <3> DEFINE new == [row EXCEPT !.status = "in_progress",
                                  !.checkpoint = "source_verified",
                                  !.sha = inbox[JobPath]]
    <3>1. pc \in JobSteps /\ inbox[JobPath] \in Contents /\ SetRow(job.month, new)
      BY <1>4, <2>2 DEF SourceVerified, JobSteps, Steps
    <3>2. new \in MonthRecord /\ new.status = "in_progress" /\ new.source = row.source
          /\ new.checkpoint = "source_verified"
      BY <3>1, <1>0 DEF MonthRecord, Statuses, Checkpoints
    <3> QED BY <3>1, <3>2, <1>0, <1>4, RowsKept DEF SourceVerified, VerifiedCheckpoints
  <2> QED BY <2>1, <2>2
<1>5. CASE WriteDiskLow
  BY <1>5, FailedRowsKept DEF WriteDiskLow, JobSteps, Steps
<1>6. CASE pc \in JobSteps /\ FailMonth /\ UNCHANGED ticks
  BY <1>6, FailedRowsKept DEF FailMonth
<1>7. CASE CommitFile
  <2>1. pc \in JobSteps /\ row.checkpoint \notin VerifiedCheckpoints
    BY <1>7 DEF CommitFile, IInv, JobOK, JobSteps, Steps, VerifiedCheckpoints
  <2> QED BY <2>1, <1>0, <1>7
          DEF CommitFile, IInv, TypeOK, RowsOK, CheckpointIntact, Intact, Verifies
<1>8. CASE RecordTicks
  <2> DEFINE new == [row EXCEPT !.checkpoint = "ticks_written", !.ingested = job.content]
  <2>1. pc \in JobSteps /\ job.content \in Contents /\ row.status = "in_progress"
    BY <1>8 DEF RecordTicks, IInv, WriterOK, JobOK, JobSteps, Steps
  <2>2. new \in MonthRecord /\ new.status = row.status /\ new.source = row.source
        /\ new.checkpoint = "ticks_written"
    BY <2>1, <1>0 DEF MonthRecord, Checkpoints
  <2> QED BY <2>1, <2>2, <1>0, <1>8, RowsKept DEF RecordTicks, VerifiedCheckpoints
<1>9. CASE TicksVerified
  <2> DEFINE new == [row EXCEPT !.status = "done", !.checkpoint = "ticks_verified",
                                !.verification = "verified"]
  <2>1. pc \in JobSteps
    BY <1>9 DEF TicksVerified, JobSteps, Steps
  <2>2. new \in MonthRecord /\ new.status = "done" /\ new.source = row.source
        /\ new.checkpoint = "ticks_verified" /\ new.verification = "verified"
        /\ new.ingested = row.ingested
    BY <2>1, <1>0 DEF MonthRecord, Statuses, Checkpoints
  <2>3. Verifies(job.month, new)
    BY <2>2, <1>9 DEF TicksVerified, Verifies
  <2> QED BY <2>1, <2>2, <2>3, <1>0, <1>9, RowsKept DEF TicksVerified, VerifiedCheckpoints
<1>10. ASSUME NEW cp \in {"features_generated", "reported"}, pc \in JobSteps,
              row.checkpoint \in VerifiedCheckpoints,
              SetRow(job.month, [row EXCEPT !.checkpoint = cp]), UNCHANGED ticks
       PROVE  RowsOK' /\ CheckpointIntact'
  <2> DEFINE new == [row EXCEPT !.checkpoint = cp]
  <2>1. new \in MonthRecord /\ new.status = row.status /\ new.source = row.source
        /\ new.checkpoint = cp /\ new.verification = row.verification
        /\ new.ingested = row.ingested
    BY <1>0, <1>10 DEF MonthRecord, Checkpoints
  <2>2. Verifies(job.month, row) => Verifies(job.month, new)
    BY <2>1 DEF Verifies
  <2> QED BY <2>1, <2>2, <1>0, <1>10, RowsKept DEF VerifiedCheckpoints, Intact
<1>11. CASE MarkFeatures
  BY <1>10, <1>11 DEF MarkFeatures, IInv, JobOK, JobSteps, Steps, VerifiedCheckpoints
<1>12. CASE MarkReported
  BY <1>10, <1>12 DEF MarkReported, IInv, JobOK, JobSteps, Steps, VerifiedCheckpoints
<1>13. CASE DeleteStamp
  <2> DEFINE old == db[victim.month]
             new == [old EXCEPT !.deleted = TRUE]
  <2>1. victim.month \in Months /\ old \in MonthRecord
    BY <1>13, <1>0 DEF DeleteStamp, TypeOK, Path
  <2>2. new \in MonthRecord /\ new.status = old.status /\ new.source = old.source
        /\ new.checkpoint = old.checkpoint /\ new.verification = old.verification
        /\ new.ingested = old.ingested
    BY <2>1 DEF MonthRecord
  <2>3. Verifies(victim.month, old) => Verifies(victim.month, new)
    BY <2>2 DEF Verifies
  <2>4. old.status # "absent"
    BY <1>13 DEF IInv, DeleterOK, DeleteStamp
  <2> QED BY <2>1, <2>2, <2>3, <2>4, <1>13, RowsKept
          DEF DeleteStamp, IInv, RowsOK, CheckpointIntact, Intact
<1>14. ASSUME NEW m \in Months, LoseTicks(m) PROVE RowsOK' /\ CheckpointIntact'
  BY <1>14, <1>0 DEF LoseTicks, IInv, TypeOK, RowsOK, CheckpointIntact, Intact, Verifies
<1>15. CASE GenerationRaises /\ pc \in JobSteps
  BY <1>15, <1>1, <1>6 DEF GenerationRaises
<1> QED
  <2>1. CASE StartSomeIngest \/ ResumeNext \/ ScanInbox \/ EndIngest
    BY <2>1, <1>1 DEF StartSomeIngest, StartIngest, ResumeNext, ScanInbox, EndIngest
  <2>2. CASE Source
    BY <2>2, <1>3, <1>4, <1>6 DEF Source, SourceMissing, JobSteps, Steps
  <2>3. CASE Write
    BY <2>3, <1>1, <1>5, <1>6, <1>7, <1>8
       DEF Write, OpenWriter, OpenWriterDiskLow, WriteChunks, WriteUnreadable, JobSteps, Steps
  <2>4. CASE TicksVerified \/ VerificationFailed
    BY <2>4, <1>6, <1>9 DEF VerificationFailed, JobSteps, Steps
  <2>5. CASE Generate \/ TicksGone
    BY <2>5, <1>1, <1>11, <1>12, <1>15
       DEF Generate, GenerateBars, GenerateFeatures, GenerateReport, TicksGone, JobSteps, Steps
  <2>6. CASE DeleteStep
    BY <2>6, <1>1, <1>13 DEF DeleteStep, DeleteUnlink
  <2>7. CASE Operator
    BY <2>7, <1>1 DEF Operator, StageBars, StageFeatures, DeleteCheck, Drop
  <2>8. CASE Failure
    BY <2>8, <1>1, <1>6, <1>14, <1>15
       DEF Failure, WriteFault, GenerationFault, Crash, DeleteCrash, DiskFills, JobSteps, Steps
  <2>9. CASE DiskFrees \/ UNCHANGED vars
    BY <2>9, <1>1 DEF DiskFrees, vars
  <2> QED BY <2>1, <2>2, <2>3, <2>4, <2>5, <2>6, <2>7, <2>8, <2>9, <1>2 DEF Next, IngestStep

----------------------------------------------------------------------------
(* Control *)

\* Leaving a month, with or without a change of its row, keeps the control
\* part of the invariant.
LEMMA LeftControl ==
  ASSUME IInv, pc \in JobSteps, LeaveMonth, UNCHANGED deleter,
         \A m \in Months \ {job.month} : db'[m] = db[m],
         db'[job.month].status # "absent"
  PROVE  JobOK' /\ WriterOK' /\ StalledOK' /\ DeleterOK'
<1>1. /\ TypeOK
      /\ stalled' = stalled
      /\ pc' = IF job.kind = "resume" THEN "resume" ELSE "next"
      /\ pc' \notin JobSteps
  BY DEF IInv, LeaveMonth, JobSteps, Steps
<1>2. JobOK' /\ WriterOK'
  BY <1>1 DEF JobOK, WriterOK, JobSteps
<1>3. StalledOK'
  <2>1. \A s \in stalled : s.month \in Months /\ s.month # job.month
    BY <1>1 DEF IInv, StalledOK, TypeOK
  <2> QED BY <1>1, <2>1 DEF IInv, StalledOK, JobSteps, Steps
<1>4. DeleterOK'
  BY <1>1 DEF IInv, DeleterOK, TypeOK, deleter, Path
<1> QED BY <1>2, <1>3, <1>4

\* The same, when one row is written on the way.
LEMMA FailedControl ==
  ASSUME IInv, pc \in JobSteps, NEW row, row.status # "absent", SetRow(job.month, row),
         LeaveMonth, UNCHANGED deleter
  PROVE  JobOK' /\ WriterOK' /\ StalledOK' /\ DeleterOK'
<1>1. db'[job.month] = row /\ \A m \in Months \ {job.month} : db'[m] = db[m]
  BY JobTyped DEF SetRow, IInv, TypeOK
<1> QED BY <1>1, LeftControl

\* The same, for the except branches of process_one_month.
LEMMA FailMonthControl ==
  ASSUME IInv, pc \in JobSteps, FailMonth, UNCHANGED deleter
  PROVE  JobOK' /\ WriterOK' /\ StalledOK' /\ DeleterOK'
<1>1. [db[job.month] EXCEPT !.status = "failed"].status # "absent"
  BY JobTyped DEF IInv, MonthRecord
<1> QED BY <1>1, FailedControl DEF FailMonth

\* The same, for an exception during bars, features or report.
LEMMA GenerationRaisesControl ==
  ASSUME IInv, pc \in JobSteps, GenerationRaises
  PROVE  JobOK' /\ WriterOK' /\ StalledOK' /\ DeleterOK'
<1>1. CASE FailMonth
  BY <1>1, FailMonthControl DEF GenerationRaises
<1>2. CASE LeaveMonth /\ UNCHANGED db
  BY <1>2, LeftControl DEF GenerationRaises, IInv, JobOK
<1> QED BY <1>1, <1>2 DEF GenerationRaises

\* Every step keeps what the ingest process and delete-source rely on: the
\* checkpoint of the month in hand, the writer's file, the listed rows and
\* the row of the victim.
LEMMA ControlStep ==
  IInv /\ [Next]_vars => JobOK' /\ WriterOK' /\ StalledOK' /\ DeleterOK'
<1> SUFFICES ASSUME IInv, [Next]_vars
             PROVE  JobOK' /\ WriterOK' /\ StalledOK' /\ DeleterOK'
  OBVIOUS
<1> USE DEF store, memory, deleter
<1>0. TypeOK
  BY DEF IInv
<1>1. ASSUME NEW f \in Forces, StartIngest(f)
      PROVE  JobOK' /\ WriterOK' /\ StalledOK' /\ DeleterOK'
  BY <1>1, <1>0 DEF StartIngest, IInv, JobOK, WriterOK, StalledOK, DeleterOK, JobSteps, Steps
<1>2. CASE ResumeNext
  <2>1. PICK s \in stalled :
           /\ stalled' = stalled \ {s}
           /\ job' = [kind |-> "resume", month |-> s.month,
                      format |-> s.rec.source, rec |-> s.rec, content |-> NULL]
    BY <1>2 DEF ResumeNext
  <2>2. s.month \in Months /\ db[s.month].checkpoint = "ticks_verified"
        /\ job'.month = s.month /\ job'.kind = "resume" /\ pc' = "bars"
        /\ UNCHANGED <<db, dpc, victim>>
    BY <1>2, <1>0, <2>1 DEF TypeOK, IInv, StalledOK, ResumeNext
  <2>3. db[s.month].status # "absent"
    BY <2>2, ContentsAssumption DEF IInv, RowsOK, NoRow, Checkpoints
  <2>4. JobOK' /\ WriterOK' /\ DeleterOK'
    BY <2>2, <2>3 DEF IInv, JobOK, WriterOK, DeleterOK, JobSteps, Steps
  <2>5. StalledOK'
    BY <2>1, <2>2, <1>0 DEF IInv, StalledOK, TypeOK, JobSteps, Steps
  <2> QED BY <2>4, <2>5
<1>3. CASE ScanInbox \/ EndIngest
  BY <1>3 DEF ScanInbox, EndIngest, IInv, JobOK, WriterOK, StalledOK, DeleterOK, JobSteps, Steps
<1>4. CASE OpenMonth
  <2>1. PICK p \in todo :
          LET row == CreateIfNotExists(db[p.month], p.format) IN
          /\ SetRow(p.month, row)
          /\ IF row.checkpoint = "reported" /\ ~force
             THEN pc' = "next" /\ UNCHANGED job
             ELSE /\ pc' = "source"
                  /\ job' = [kind |-> "ingest", month |-> p.month,
                             format |-> p.format, rec |-> row, content |-> NULL]
    BY <1>4 DEF OpenMonth
  <2> DEFINE row == CreateIfNotExists(db[p.month], p.format)
  <2>2. p.month \in Months /\ db[p.month] \in MonthRecord
    BY <1>0 DEF TypeOK, Path
  <2>3. row.status # "absent"
    BY <2>2 DEF CreateIfNotExists, NoRow
  <2>4. db'[p.month] = row /\ \A m \in Months \ {p.month} : db'[m] = db[m]
    BY <2>1, <2>2, <1>0 DEF SetRow, TypeOK
  <2>5. stalled = {} /\ stalled' = {} /\ UNCHANGED <<force, dpc, victim>> /\ pc = "next"
    BY <1>4 DEF OpenMonth, IInv, StalledOK, JobSteps, Steps
  <2>6. JobOK' /\ WriterOK'
    BY <2>1, <2>3, <2>4, <2>5 DEF JobOK, WriterOK, JobSteps, Steps
  <2>7. StalledOK'
    BY <2>5 DEF StalledOK
  <2>8. DeleterOK'
    BY <2>3, <2>4, <2>5, <1>0 DEF IInv, DeleterOK, TypeOK, Path
  <2> QED BY <2>6, <2>7, <2>8
<1>5. CASE SourceMissing \/ OpenWriterDiskLow \/ WriteUnreadable \/ VerificationFailed \/ WriteFault
  BY <1>5, FailMonthControl
     DEF SourceMissing, OpenWriterDiskLow, WriteUnreadable, VerificationFailed, WriteFault,
         JobSteps, Steps
<1>6. CASE SourceRejected
  <2>1. pc \in JobSteps
    BY <1>6 DEF SourceRejected, JobSteps, Steps
  <2>2. [db[job.month] EXCEPT !.status = "failed", !.checkpoint = "source_verified"].status
          # "absent"
    BY <2>1, <1>0, JobTyped DEF MonthRecord
  <2> QED BY <2>1, <2>2, <1>6, FailedControl DEF SourceRejected
<1>7. CASE WriteDiskLow
  <2>1. pc \in JobSteps
    BY <1>7 DEF WriteDiskLow, JobSteps, Steps
  <2>2. [db[job.month] EXCEPT !.status = "paused_low_disk"].status # "absent"
    BY <2>1, <1>0, JobTyped DEF MonthRecord
  <2> QED BY <2>1, <2>2, <1>7, FailedControl DEF WriteDiskLow
<1>8. CASE MarkReported
  <2>1. pc \in JobSteps
    BY <1>8 DEF MarkReported, JobSteps, Steps
  <2>2. [db[job.month] EXCEPT !.checkpoint = "reported"].status # "absent"
    BY <2>1, <1>0, JobTyped DEF MonthRecord, IInv, JobOK
  <2> QED BY <2>1, <2>2, <1>8, FailedControl DEF MarkReported
<1>9. ASSUME pc \in JobSteps, pc' \in JobSteps, UNCHANGED <<force, stalled, job, dpc, victim>>,
             NEW row, row.status # "absent", SetRow(job.month, row),
             pc' # "source", pc' # "commit",
             pc' \in {"open", "write", "record", "verify"} => job.kind = "ingest",
             pc' \in {"open", "write", "record"} =>
               row.status = "in_progress" /\ row.checkpoint = "source_verified",
             pc' = "record" => job.content \in Contents,
             pc' = "verify" =>
               row.checkpoint \in {"ticks_written", "ticks_verified", "features_generated"},
             pc' \in {"bars", "features", "mark"} => row.checkpoint = "ticks_verified",
             pc' \in {"report", "finish"} => row.checkpoint = "features_generated"
      PROVE  JobOK' /\ WriterOK' /\ StalledOK' /\ DeleterOK'
  <2>1. job.month \in Months
    BY <1>0, <1>9, JobTyped
  <2>2. db'[job.month] = row /\ \A m \in Months \ {job.month} : db'[m] = db[m]
    BY <2>1, <1>0, <1>9 DEF SetRow, TypeOK
  <2>3. JobOK' /\ WriterOK'
    BY <2>2, <1>9 DEF JobOK, WriterOK
  <2>4. StalledOK'
    <3>1. \A s \in stalled : s.month \in Months /\ s.month # job.month
      BY <1>0, <1>9 DEF IInv, StalledOK, TypeOK
    <3> QED BY <3>1, <2>2, <1>9 DEF IInv, StalledOK, JobSteps, Steps
  <2>5. DeleterOK'
    BY <2>2, <1>0, <1>9 DEF IInv, DeleterOK, TypeOK, Path
  <2> QED BY <2>3, <2>4, <2>5
<1>10. CASE SourceVerified
  <2>0. /\ pc = "source" /\ pc \in JobSteps /\ job.kind = "ingest"
        /\ db[job.month] \in MonthRecord /\ db[job.month].status # "absent"
        /\ db[job.month].checkpoint = job.rec.checkpoint
        /\ UNCHANGED <<force, stalled, job, dpc, victim>>
    BY <1>10, <1>0, JobTyped DEF SourceVerified, IInv, JobOK, JobSteps, Steps
  <2>1. CASE SkipIngestion
    <3>1. pc' = "verify" /\ UNCHANGED db
      BY <1>10, <2>1 DEF SourceVerified
    <3>2. db[job.month].checkpoint \in {"ticks_written", "ticks_verified", "features_generated"}
      BY <2>0, <2>1 DEF SkipIngestion
    <3>3. JobOK' /\ WriterOK' /\ DeleterOK'
      BY <2>0, <3>1, <3>2 DEF IInv, JobOK, WriterOK, DeleterOK
    <3>4. StalledOK'
      BY <2>0, <3>1 DEF IInv, StalledOK, JobSteps, Steps
    <3> QED BY <3>3, <3>4
  <2>2. CASE ~SkipIngestion
    <3> DEFINE row == [db[job.month] EXCEPT !.status = "in_progress",
                                            !.checkpoint = "source_verified",
                                            !.sha = inbox[JobPath]]
    <3>1. row.status = "in_progress" /\ row.checkpoint = "source_verified"
      BY <2>0 DEF MonthRecord
    <3>2. pc' = "open" /\ SetRow(job.month, row)
      BY <1>10, <2>2 DEF SourceVerified
    <3>3. pc' \in JobSteps
      BY <3>2 DEF JobSteps, Steps
    <3> QED BY <1>9, <2>0, <3>1, <3>2, <3>3
  <2> QED BY <2>1, <2>2
<1>11. CASE RecordTicks
  <2> DEFINE row == [db[job.month] EXCEPT !.checkpoint = "ticks_written",
                                          !.ingested = job.content]
  <2>1. /\ pc \in JobSteps /\ pc' \in JobSteps /\ pc' = "verify" /\ job.kind = "ingest"
        /\ SetRow(job.month, row) /\ UNCHANGED <<force, stalled, job, dpc, victim>>
    BY <1>11 DEF RecordTicks, IInv, JobOK, JobSteps, Steps
  <2>2. row.status # "absent" /\ row.checkpoint = "ticks_written"
    BY <2>1, <1>0, JobTyped DEF MonthRecord, IInv, JobOK
  <2> QED BY <1>9, <2>1, <2>2
<1>12. CASE TicksVerified
  <2> DEFINE row == [db[job.month] EXCEPT !.status = "done", !.checkpoint = "ticks_verified",
                                          !.verification = "verified"]
  <2>1. /\ pc \in JobSteps /\ pc' \in JobSteps /\ pc' = "bars"
        /\ SetRow(job.month, row) /\ UNCHANGED <<force, stalled, job, dpc, victim>>
    BY <1>12 DEF TicksVerified, JobSteps, Steps
  <2>2. row.status # "absent" /\ row.checkpoint = "ticks_verified"
    BY <2>1, <1>0, JobTyped DEF MonthRecord
  <2> QED BY <1>9, <2>1, <2>2
<1>13. CASE MarkFeatures
  <2> DEFINE row == [db[job.month] EXCEPT !.checkpoint = "features_generated"]
  <2>1. /\ pc \in JobSteps /\ pc' \in JobSteps /\ pc' = "report"
        /\ SetRow(job.month, row) /\ UNCHANGED <<force, stalled, job, dpc, victim>>
    BY <1>13 DEF MarkFeatures, JobSteps, Steps
  <2>2. row.status # "absent" /\ row.checkpoint = "features_generated"
    BY <2>1, <1>0, JobTyped DEF MonthRecord, IInv, JobOK
  <2> QED BY <1>9, <2>1, <2>2
<1>14. CASE OpenWriter \/ CommitFile \/ GenerateBars \/ GenerateFeatures \/ GenerateReport
  BY <1>14 DEF OpenWriter, CommitFile, GenerateBars, GenerateFeatures, GenerateReport,
               IInv, JobOK, WriterOK, StalledOK, DeleterOK, JobSteps, Steps
<1>15. CASE WriteChunks
  <2>1. /\ pc = "write" /\ pc' = "commit" /\ inbox[JobPath] \in Contents
        /\ job' = [job EXCEPT !.content = inbox[JobPath]]
        /\ tmp' = [tmp EXCEPT ![job.month] = inbox[JobPath]]
        /\ UNCHANGED <<db, force, stalled, dpc, victim>>
    BY <1>15 DEF WriteChunks, Contents
  <2>2. job \in Job /\ job.month \in Months
    BY <2>1, <1>0, JobTyped DEF JobSteps, Steps
  <2>3. job'.content = inbox[JobPath] /\ job'.month = job.month /\ job'.kind = job.kind
    BY <2>1, <2>2 DEF Job
  <2>4. tmp'[job'.month] = job'.content
    BY <2>1, <2>2, <2>3, <1>0 DEF TypeOK
  <2>5. JobOK' /\ WriterOK' /\ DeleterOK'
    BY <2>1, <2>3, <2>4 DEF IInv, JobOK, WriterOK, DeleterOK, JobSteps, Steps
  <2>6. StalledOK'
    BY <2>1, <2>3 DEF IInv, StalledOK, JobSteps, Steps
  <2> QED BY <2>5, <2>6
<1>16. CASE TicksGone \/ GenerationFault
  BY <1>16, GenerationRaisesControl DEF TicksGone, GenerationFault, JobSteps, Steps
<1>17. CASE Crash
  BY <1>17 DEF Crash, IInv, JobOK, WriterOK, StalledOK, DeleterOK, JobSteps, Steps
<1>18. ASSUME NEW m \in Months, DeleteCheck(m)
       PROVE  JobOK' /\ WriterOK' /\ StalledOK' /\ DeleterOK'
  BY <1>18 DEF DeleteCheck, IInv, JobOK, WriterOK, StalledOK, DeleterOK
<1>19. CASE DeleteStamp
  <2>1. victim.month \in Months /\ dpc' = "idle"
    BY <1>19, <1>0 DEF DeleteStamp, TypeOK, Path
  <2>2. \A m \in Months : db'[m].status = db[m].status /\ db'[m].checkpoint = db[m].checkpoint
    BY <2>1, <1>19, <1>0 DEF DeleteStamp, SetRow, TypeOK, MonthRecord
  <2>3. pc \in JobSteps => job.month \in Months
    BY <1>0, JobTyped
  <2>4. \A s \in stalled : s.month \in Months
    BY <1>0 DEF TypeOK
  <2> QED BY <2>1, <2>2, <2>3, <2>4, <1>19
          DEF DeleteStamp, IInv, JobOK, WriterOK, StalledOK, DeleterOK
<1>20. CASE DeleteUnlink \/ DeleteCrash \/ StageBars \/ StageFeatures \/ DiskFills \/ DiskFrees
  BY <1>20 DEF DeleteUnlink, DeleteCrash, StageBars, StageFeatures, DiskFills, DiskFrees,
               IInv, JobOK, WriterOK, StalledOK, DeleterOK
<1>21. ASSUME NEW p \in Path, NEW c \in Contents, Drop(p, c)
       PROVE  JobOK' /\ WriterOK' /\ StalledOK' /\ DeleterOK'
  BY <1>21 DEF Drop, IInv, JobOK, WriterOK, StalledOK, DeleterOK
<1>22. ASSUME NEW m \in Months, LoseTicks(m)
       PROVE  JobOK' /\ WriterOK' /\ StalledOK' /\ DeleterOK'
  BY <1>22 DEF LoseTicks, IInv, JobOK, WriterOK, StalledOK, DeleterOK
<1>23. CASE UNCHANGED vars
  BY <1>23 DEF vars, IInv, JobOK, WriterOK, StalledOK, DeleterOK
<1> QED
  BY <1>1, <1>2, <1>3, <1>4, <1>5, <1>6, <1>7, <1>8, <1>10, <1>11, <1>12, <1>13, <1>14, <1>15,
     <1>16, <1>17, <1>18, <1>19, <1>20, <1>21, <1>22, <1>23
     DEF Next, StartSomeIngest, IngestStep, DeleteStep, Operator, Failure, Source, Write, Generate

----------------------------------------------------------------------------
(* Bars and features *)

\* What is known of bars and features while and after they are generated.
Cover == PathsOK /\ GenerationOK /\ FeaturesCover

\* Writing a row that is not newly done with a features checkpoint keeps Cover.
LEMMA RowCover ==
  ASSUME IInv, UNCHANGED <<ticks, bars, feats>>, pc' \notin {"features", "mark"},
         NEW m \in Months, NEW row, SetRow(m, row),
         row.status = "done" /\ row.checkpoint \in {"features_generated", "reported"} =>
           db[m].status = "done" /\ db[m].checkpoint \in {"features_generated", "reported"}
  PROVE  Cover'
<1>1. db'[m] = row /\ \A n \in Months \ {m} : db'[n] = db[n]
  BY DEF IInv, TypeOK, SetRow
<1>2. PathsOK' /\ GenerationOK'
  BY DEF PathsOK, GenerationOK
<1>3. FeaturesCover'
  BY <1>1 DEF IInv, FeaturesCover
<1> QED BY <1>2, <1>3 DEF Cover

\* A month that leaves as failed or paused keeps Cover.
LEMMA LeavingCover ==
  ASSUME IInv, pc \in JobSteps, LeaveMonth, UNCHANGED <<ticks, bars, feats>>,
         NEW row, row.status # "done", SetRow(job.month, row)
  PROVE  Cover'
<1>1. job.month \in Months
  BY JobTyped DEF IInv
<1>2. pc' \notin {"features", "mark"}
  BY DEF LeaveMonth
<1> QED BY <1>1, <1>2, RowCover

\* A generation that raises half-way leaves every earlier month covered.
LEMMA GenerationRaisesCover ==
  ASSUME IInv, pc \in {"bars", "features", "report"}, GenerationRaises
  PROVE  Cover'
<1>1. /\ pc \in JobSteps /\ job.month \in Months /\ db[job.month] \in MonthRecord
      /\ UNCHANGED ticks /\ LeaveMonth
  BY JobTyped, GenerationRaisesTyped DEF IInv, JobSteps, Steps
<1>2. PathsOK' /\ GenerationOK'
  BY <1>1 DEF LeaveMonth, PathsOK, GenerationOK
<1>3. \A m \in DoneMonths(db') : m \in DoneMonths(db) /\ db'[m] = db[m]
  <2>1. CASE UNCHANGED db
    BY <2>1 DEF DoneMonths
  <2>2. CASE FailMonth
    <3>1. db'[job.month].status = "failed" /\ \A m \in Months \ {job.month} : db'[m] = db[m]
      BY <1>1, <2>2 DEF FailMonth, SetRow, IInv, TypeOK, MonthRecord
    <3> QED BY <3>1 DEF DoneMonths
  <2> QED BY <2>1, <2>2 DEF GenerationRaises
<1>4. ASSUME NEW m \in DoneMonths(db'), ticks[m] # NULL,
             db'[m].checkpoint \in {"features_generated", "reported"}
      PROVE  <<m, ticks[m]>> \in bars' \cap feats'.flow \cap feats'.profile
  <2>1. m \in Months /\ m \in AllTickPaths
        /\ <<m, ticks[m]>> \in bars \cap feats.flow \cap feats.profile
    BY <1>3, <1>4 DEF IInv, FeaturesCover, DoneMonths, AllTickPaths
  <2>2. CASE UNCHANGED <<bars, feats>>
    BY <2>1, <2>2
  <2>3. CASE bars' = DataOf(AllTickPaths) /\ UNCHANGED feats
    BY <2>1, <2>3 DEF DataOf
  <2>4. CASE feats' = [feats EXCEPT !.flow = bars] /\ UNCHANGED bars
    BY <2>1, <2>4 DEF IInv, TypeOK
  <2> QED BY <2>2, <2>3, <2>4 DEF GenerationRaises
<1>5. FeaturesCover'
  BY <1>1, <1>4 DEF FeaturesCover, DoneMonths
<1> QED BY <1>2, <1>5 DEF Cover

\* Every step keeps Cover: each generation starts from all accessible done
\* months, and none becomes done between its start and its checkpoint.
LEMMA CoverStep == IInv /\ [Next]_vars => Cover'
<1> SUFFICES ASSUME IInv, [Next]_vars PROVE Cover'
  OBVIOUS
<1> USE DEF store, memory, deleter
<1>0. /\ TypeOK
      /\ pc \in JobSteps => job.month \in Months /\ db[job.month] \in MonthRecord
  BY JobTyped DEF IInv
<1>1. ASSUME UNCHANGED <<db, ticks, bars, feats>>, pc' \notin {"features", "mark"}
      PROVE  Cover'
  BY <1>1 DEF Cover, PathsOK, GenerationOK, IInv, FeaturesCover
<1>2. ASSUME UNCHANGED <<db, ticks, bars, feats, pc, paths>> PROVE Cover'
  BY <1>2 DEF Cover, PathsOK, GenerationOK, DoneMonths, IInv, FeaturesCover
<1>3. CASE OpenMonth
  <2>1. PICK p \in todo : SetRow(p.month, CreateIfNotExists(db[p.month], p.format))
    BY <1>3 DEF OpenMonth
  <2>2. p.month \in Months /\ db[p.month] \in MonthRecord
    BY <1>0 DEF TypeOK, Path
  <2>3. LET row == CreateIfNotExists(db[p.month], p.format) IN
          row = db[p.month] \/ row.status = "pending"
    BY DEF CreateIfNotExists, NoRow
  <2> QED BY <2>1, <2>2, <2>3, <1>3, RowCover DEF OpenMonth
<1>4. CASE SourceMissing \/ OpenWriterDiskLow \/ WriteUnreadable \/ VerificationFailed \/ WriteFault
  <2>1. pc \in JobSteps /\ FailMonth /\ UNCHANGED <<ticks, bars, feats>>
    BY <1>4 DEF SourceMissing, OpenWriterDiskLow, WriteUnreadable, VerificationFailed,
                WriteFault, JobSteps, Steps
  <2>2. [db[job.month] EXCEPT !.status = "failed"].status # "done"
    BY <2>1, <1>0 DEF MonthRecord
  <2> QED BY <2>1, <2>2, LeavingCover DEF FailMonth
<1>5. CASE SourceRejected \/ WriteDiskLow
  <2>1. pc \in JobSteps
    BY <1>5 DEF SourceRejected, WriteDiskLow, JobSteps, Steps
  <2>2. /\ [db[job.month] EXCEPT !.status = "failed", !.checkpoint = "source_verified"].status
             # "done"
        /\ [db[job.month] EXCEPT !.status = "paused_low_disk"].status # "done"
    BY <2>1, <1>0 DEF MonthRecord
  <2> QED BY <2>1, <2>2, <1>5, LeavingCover DEF SourceRejected, WriteDiskLow
<1>6. CASE SourceVerified
  <2>1. CASE UNCHANGED db
    BY <2>1, <1>1, <1>6 DEF SourceVerified
  <2>2. CASE db' # db
    <3> DEFINE row == [db[job.month] EXCEPT !.status = "in_progress",
                                            !.checkpoint = "source_verified",
                                            !.sha = inbox[JobPath]]
    <3>1. pc \in JobSteps /\ SetRow(job.month, row) /\ pc' = "open"
          /\ UNCHANGED <<ticks, bars, feats>>
      BY <1>6, <2>2 DEF SourceVerified, JobSteps, Steps
    <3>2. row.status = "in_progress"
      BY <3>1, <1>0 DEF MonthRecord
    <3> QED BY <3>1, <3>2, <1>0, RowCover
  <2> QED BY <2>1, <2>2
<1>7. CASE CommitFile
  <2>1. job.month \in Months /\ db[job.month].status # "done"
    BY <1>0, <1>7 DEF CommitFile, IInv, JobOK, JobSteps, Steps
  <2> QED BY <2>1, <1>0, <1>7
          DEF CommitFile, TypeOK, IInv, Cover, PathsOK, GenerationOK, FeaturesCover
<1>8. CASE RecordTicks
  <2> DEFINE row == [db[job.month] EXCEPT !.checkpoint = "ticks_written",
                                          !.ingested = job.content]
  <2>1. pc \in JobSteps /\ SetRow(job.month, row) /\ pc' = "verify"
        /\ UNCHANGED <<ticks, bars, feats>>
    BY <1>8 DEF RecordTicks, JobSteps, Steps
  <2>2. row.checkpoint = "ticks_written"
    BY <2>1, <1>0 DEF MonthRecord
  <2> QED BY <2>1, <2>2, <1>0, RowCover
<1>9. CASE TicksVerified
  <2> DEFINE row == [db[job.month] EXCEPT !.status = "done", !.checkpoint = "ticks_verified",
                                          !.verification = "verified"]
  <2>1. pc \in JobSteps /\ SetRow(job.month, row) /\ pc' = "bars"
        /\ UNCHANGED <<ticks, bars, feats>>
    BY <1>9 DEF TicksVerified, JobSteps, Steps
  <2>2. row.checkpoint = "ticks_verified"
    BY <2>1, <1>0 DEF MonthRecord
  <2> QED BY <2>1, <2>2, <1>0, RowCover
<1>10. CASE GenerateBars
  BY <1>10 DEF GenerateBars, Cover, PathsOK, GenerationOK, IInv, FeaturesCover,
               AllTickPaths, DoneMonths, DataOf
<1>11. CASE GenerateFeatures
  <2>1. PathsOK'
    BY <1>11 DEF GenerateFeatures, PathsOK
  <2>2. ASSUME NEW m \in DoneMonths(db), ticks[m] # NULL
        PROVE  <<m, ticks[m]>> \in bars' \cap feats'.flow \cap feats'.profile
    <3>1. m \in paths /\ <<m, ticks[m]>> \in bars
      BY <1>11, <2>2 DEF GenerateFeatures, IInv, GenerationOK
    <3>2. feats' = [flow |-> bars, profile |-> DataOf(paths)] /\ bars' = bars
      BY <1>11, <3>1 DEF GenerateFeatures
    <3> QED BY <3>1, <3>2 DEF DataOf
  <2>3. GenerationOK' /\ FeaturesCover'
    BY <2>2, <1>11 DEF GenerateFeatures, GenerationOK, FeaturesCover, DoneMonths
  <2> QED BY <2>1, <2>3 DEF Cover
<1>12. CASE MarkFeatures
  <2>1. /\ pc = "mark" /\ pc' = "report" /\ UNCHANGED <<ticks, bars, feats>>
        /\ job.month \in Months /\ db[job.month] \in MonthRecord
        /\ SetRow(job.month, [db[job.month] EXCEPT !.checkpoint = "features_generated"])
    BY <1>12, <1>0 DEF MarkFeatures, JobSteps, Steps
  <2>2. \A m \in Months : db'[m].status = db[m].status
    BY <2>1, <1>0 DEF SetRow, TypeOK, MonthRecord
  <2>3. FeaturesCover'
    BY <2>1, <2>2 DEF IInv, GenerationOK, FeaturesCover, DoneMonths
  <2> QED BY <2>1, <2>3 DEF Cover, PathsOK, GenerationOK
<1>13. CASE MarkReported
  <2> DEFINE row == [db[job.month] EXCEPT !.checkpoint = "reported"]
  <2>1. pc = "finish" /\ pc \in JobSteps /\ SetRow(job.month, row)
        /\ pc' \notin {"features", "mark"} /\ UNCHANGED <<ticks, bars, feats>>
    BY <1>13 DEF MarkReported, LeaveMonth, JobSteps, Steps
  <2>2. row.status = db[job.month].status /\ db[job.month].checkpoint = "features_generated"
    BY <2>1, <1>0 DEF MonthRecord, IInv, JobOK
  <2> QED BY <2>1, <2>2, <1>0, RowCover
<1>14. CASE TicksGone \/ GenerationFault
  BY <1>14, GenerationRaisesCover DEF TicksGone, GenerationFault
<1>15. CASE StageBars \/ StageFeatures
  BY <1>15 DEF StageBars, StageFeatures, Cover, PathsOK, GenerationOK, IInv, FeaturesCover,
               AllTickPaths, DoneMonths, DataOf
<1>16. CASE DeleteStamp
  <2>1. victim.month \in Months
    BY <1>16, <1>0 DEF DeleteStamp, TypeOK, Path
  <2>2. \A m \in Months : db'[m].status = db[m].status /\ db'[m].checkpoint = db[m].checkpoint
    BY <2>1, <1>16, <1>0 DEF DeleteStamp, SetRow, TypeOK, MonthRecord
  <2> QED BY <2>2, <1>16
          DEF DeleteStamp, Cover, PathsOK, GenerationOK, DoneMonths, IInv, FeaturesCover
<1>17. ASSUME NEW m \in Months, LoseTicks(m) PROVE Cover'
  <2>1. \A n \in Months : ticks'[n] # NULL => ticks[n] # NULL /\ ticks'[n] = ticks[n]
    BY <1>17, <1>0 DEF LoseTicks, TypeOK
  <2> QED BY <2>1, <1>17
          DEF LoseTicks, Cover, PathsOK, GenerationOK, DoneMonths, IInv, FeaturesCover
<1> QED
  <2>1. CASE StartSomeIngest \/ ResumeNext \/ ScanInbox \/ EndIngest
    BY <2>1, <1>1 DEF StartSomeIngest, StartIngest, ResumeNext, ScanInbox, EndIngest
  <2>2. CASE Write
    BY <2>2, <1>1, <1>4, <1>5, <1>7, <1>8 DEF Write, OpenWriter, WriteChunks
  <2>3. CASE Generate
    BY <2>3, <1>1, <1>10, <1>11, <1>12, <1>13 DEF Generate, GenerateReport
  <2>4. CASE DeleteStep \/ Operator
    BY <2>4, <1>2, <1>15, <1>16 DEF DeleteStep, DeleteUnlink, Operator, DeleteCheck, Drop
  <2>5. CASE Failure
    BY <2>5, <1>1, <1>2, <1>4, <1>14, <1>17 DEF Failure, Crash, DeleteCrash, DiskFills
  <2>6. CASE DiskFrees \/ UNCHANGED vars
    BY <2>6, <1>2 DEF DiskFrees, vars
  <2> QED BY <2>1, <2>2, <2>3, <2>4, <2>5, <2>6, <1>3, <1>4, <1>5, <1>6, <1>9, <1>14
          DEF Next, IngestStep, Source

\* Every step keeps OnlyVerifiedData: get_all_tick_paths returns done months,
\* and those are intact.
LEMMA VerifiedDataStep == IInv /\ [Next]_vars => OnlyVerifiedData'
<1> SUFFICES ASSUME IInv, [Next]_vars PROVE OnlyVerifiedData'
  OBVIOUS
<1> USE DEF store, memory, deleter
<1>1. ASSUME NEW ms \in SUBSET DoneMonths(db), \A m \in ms : ticks[m] # NULL
      PROVE  DataOf(ms) \subseteq Months \X Good
  <2>1. ASSUME NEW m \in ms PROVE m \in Months /\ ticks[m] \in Good
    BY <1>1, <2>1 DEF IInv, RowsOK, CheckpointIntact, Intact, Verifies, DoneMonths
  <2> QED BY <2>1 DEF DataOf
<1>2. DataOf(AllTickPaths) \subseteq Months \X Good
  BY <1>1 DEF AllTickPaths
<1>3. CASE UNCHANGED <<bars, feats>>
  BY <1>3 DEF IInv, OnlyVerifiedData
<1>4. CASE GenerateBars \/ StageBars
  BY <1>2, <1>4 DEF GenerateBars, StageBars, IInv, OnlyVerifiedData
<1>5. CASE GenerateFeatures
  <2>1. DataOf(paths) \subseteq Months \X Good
    BY <1>1, <1>5 DEF GenerateFeatures, IInv, PathsOK
  <2> QED BY <2>1, <1>5 DEF GenerateFeatures, IInv, OnlyVerifiedData
<1>6. CASE StageFeatures
  BY <1>2, <1>6 DEF StageFeatures, IInv, OnlyVerifiedData
<1>7. CASE GenerationRaises
  BY <1>2, <1>7 DEF GenerationRaises, IInv, OnlyVerifiedData, TypeOK
<1> QED
  <2>1. CASE IngestStep
    BY <2>1, <1>3, <1>4, <1>5, <1>7
       DEF IngestStep, ResumeNext, ScanInbox, OpenMonth, EndIngest, Source, SourceMissing,
           SourceRejected, SourceVerified, Write, OpenWriter, OpenWriterDiskLow, WriteChunks,
           WriteDiskLow, WriteUnreadable, CommitFile, RecordTicks, TicksVerified,
           VerificationFailed, Generate, MarkFeatures, GenerateReport, MarkReported, TicksGone
  <2>2. CASE Failure
    BY <2>2, <1>3, <1>7 DEF Failure, WriteFault, GenerationFault, Crash, DeleteCrash, LoseTicks,
                            DiskFills
  <2>3. CASE StartSomeIngest \/ DeleteStep \/ Operator \/ DiskFrees \/ UNCHANGED vars
    BY <2>3, <1>3, <1>4, <1>6
       DEF StartSomeIngest, StartIngest, DeleteStep, DeleteUnlink, DeleteStamp, Operator,
           DeleteCheck, Drop, DiskFrees, vars
  <2> QED BY <2>1, <2>2, <2>3 DEF Next

----------------------------------------------------------------------------

\* The empty warehouse satisfies the inductive invariant.
LEMMA InitEstablishes == Init => IInv
<1> SUFFICES ASSUME Init PROVE IInv
  OBVIOUS
<1> USE DEF Init
<1>1. NoRow \in MonthRecord
  BY DEF NoRow, MonthRecord, Statuses
<1>2. TypeOK
  BY <1>1 DEF TypeOK, Steps, JobSteps
<1>3. RowsOK /\ CheckpointIntact
  BY ContentsAssumption DEF RowsOK, NoRow, CheckpointIntact, VerifiedCheckpoints, Checkpoints
<1>4. JobOK /\ WriterOK /\ StalledOK /\ PathsOK /\ DeleterOK
  BY DEF JobOK, WriterOK, StalledOK, PathsOK, DeleterOK, JobSteps
<1>5. GenerationOK /\ OnlyVerifiedData /\ FeaturesCover
  BY DEF GenerationOK, OnlyVerifiedData, FeaturesCover, DoneMonths, NoRow
<1> QED BY <1>2, <1>3, <1>4, <1>5 DEF IInv

\* One step, all parts.
LEMMA InductiveStep == IInv /\ [Next]_vars => IInv'
BY TypeStep, RowsStep, ControlStep, CoverStep, VerifiedDataStep DEF IInv, Cover

\* IInv is an invariant of the pipeline, for any months, formats, contents,
\* budgets, with or without --force and with or without overlapping deletion.
THEOREM Inductive == Spec => []IInv
BY InitEstablishes, InductiveStep, PTL DEF Spec


----------------------------------------------------------------------------
(* Invariants *)

\* Type correctness of the pipeline.
THEOREM TypeCorrect == Spec => []TypeOK
<1>1. IInv => TypeOK
  BY DEF IInv
<1> QED BY Inductive, <1>1, PTL

\* A month that counts as done was verified and its committed ticks are still
\* the verified ones (pipeline.py, process_one_month; parquet_store.py,
\* finalize).
THEOREM DoneMonthsAreIntact == Spec => []DoneIntact
<1>1. IInv => DoneIntact
  BY DEF IInv, RowsOK, CheckpointIntact, DoneIntact
<1> QED BY Inductive, <1>1, PTL

\* The same of every row whose checkpoint says it was verified, failed rows
\* included.
THEOREM CheckpointsAreIntact == Spec => []CheckpointIntact
<1>1. IInv => CheckpointIntact
  BY DEF IInv
<1> QED BY Inductive, <1>1, PTL

\* No bar and no feature was ever computed from ticks that did not pass
\* independent verification (pipeline.py, get_all_tick_paths).
THEOREM OnlyVerifiedDataIsUsed == Spec => []OnlyVerifiedData
<1>1. IInv => OnlyVerifiedData
  BY DEF IInv
<1> QED BY Inductive, <1>1, PTL

\* A done month whose checkpoint claims features has its ticks in all of them,
\* through crashes, failed generations and re-ingestions of other months.
THEOREM FeaturesAreCovered == Spec => []FeaturesCover
<1>1. IInv => FeaturesCover
  BY DEF IInv
<1> QED BY Inductive, <1>1, PTL

----------------------------------------------------------------------------
(* Action properties *)

\* The columns of old that are set are set in new, and the source is the same.
Kept(old, new) ==
  /\ new.source = old.source
  /\ old.checkpoint # NULL => new.checkpoint # NULL
  /\ old.verification # NULL => new.verification # NULL
  /\ old.sha # NULL => new.sha # NULL
  /\ old.ingested # NULL => new.ingested # NULL
  /\ old.deleted => new.deleted

\* The updates of update_fields that the pipeline makes lose no column.
LEMMA RowUpdatesKeep ==
  ASSUME NEW r \in MonthRecord
  PROVE  /\ \A st \in Statuses : Kept(r, [r EXCEPT !.status = st])
         /\ \A st \in Statuses, cp \in Checkpoints :
              Kept(r, [r EXCEPT !.status = st, !.checkpoint = cp])
         /\ \A cp \in Checkpoints : Kept(r, [r EXCEPT !.checkpoint = cp])
         /\ \A c \in Contents, cp \in Checkpoints :
              Kept(r, [r EXCEPT !.checkpoint = cp, !.ingested = c])
         /\ \A c \in Contents, st \in Statuses, cp \in Checkpoints :
              Kept(r, [r EXCEPT !.status = st, !.checkpoint = cp, !.sha = c])
         /\ \A st \in Statuses, cp \in Checkpoints :
              Kept(r, [r EXCEPT !.status = st, !.checkpoint = cp,
                                !.verification = "verified"])
BY ContentsAssumption DEF Kept, MonthRecord

\* How a step may change the table: not at all, by creating a row, by the
\* deletion stamp, or by an update of the row of the month in hand.
LEMMA RowChange ==
  ASSUME IInv, [Next]_vars
  PROVE  \/ UNCHANGED db
         \/ \E m \in Months, f \in Formats : SetRow(m, CreateIfNotExists(db[m], f))
         \/ DeleteStamp
         \/ pc \in JobSteps /\ \E row : SetRow(job.month, row) /\ Kept(db[job.month], row)
<1> USE DEF store, memory, deleter
<1> DEFINE Goal == \/ UNCHANGED db
                   \/ DeleteStamp
                   \/ /\ pc \in JobSteps
                      /\ \E row : SetRow(job.month, row) /\ Kept(db[job.month], row)
<1>0. pc \in JobSteps => db[job.month] \in MonthRecord
  BY JobTyped DEF IInv
<1>1. CASE OpenMonth
  BY <1>1 DEF OpenMonth, IInv, TypeOK, Path
<1>2. CASE pc \in JobSteps /\ FailMonth
  BY <1>0, <1>2, RowUpdatesKeep DEF FailMonth, Statuses
<1>3. CASE SourceRejected
  BY <1>0, <1>3, RowUpdatesKeep DEF SourceRejected, Statuses, Checkpoints, JobSteps, Steps
<1>4. CASE SourceVerified
  <2>1. CASE UNCHANGED db
    BY <2>1
  <2>2. CASE db' # db
    <3> DEFINE row == [db[job.month] EXCEPT !.status = "in_progress",
                                            !.checkpoint = "source_verified",
                                            !.sha = inbox[JobPath]]
    <3>1. pc \in JobSteps /\ inbox[JobPath] \in Contents /\ SetRow(job.month, row)
      BY <1>4, <2>2 DEF SourceVerified, JobSteps, Steps
    <3>2. Kept(db[job.month], row)
      BY <3>1, <1>0, ContentsAssumption DEF Kept, MonthRecord, Checkpoints
    <3> QED BY <3>1, <3>2
  <2> QED BY <2>1, <2>2
<1>5. CASE WriteDiskLow
  BY <1>0, <1>5, RowUpdatesKeep DEF WriteDiskLow, Statuses, JobSteps, Steps
<1>6. CASE RecordTicks
  BY <1>0, <1>6, RowUpdatesKeep DEF RecordTicks, IInv, WriterOK, Checkpoints, JobSteps, Steps
<1>7. CASE TicksVerified
  <2> DEFINE row == [db[job.month] EXCEPT !.status = "done", !.checkpoint = "ticks_verified",
                                          !.verification = "verified"]
  <2>1. pc \in JobSteps /\ SetRow(job.month, row)
    BY <1>7 DEF TicksVerified, JobSteps, Steps
  <2>2. Kept(db[job.month], row)
    BY <2>1, <1>0, ContentsAssumption DEF Kept, MonthRecord, Checkpoints
  <2> QED BY <2>1, <2>2
<1>8. CASE MarkFeatures \/ MarkReported
  BY <1>0, <1>8, RowUpdatesKeep DEF MarkFeatures, MarkReported, Checkpoints, JobSteps, Steps
<1> QED
  <2>1. CASE Source
    BY <2>1, <1>2, <1>3, <1>4 DEF Source, SourceMissing, JobSteps, Steps
  <2>2. CASE Write
    BY <2>2, <1>2, <1>5, <1>6
       DEF Write, OpenWriter, OpenWriterDiskLow, WriteChunks, WriteUnreadable, CommitFile,
           JobSteps, Steps
  <2>3. CASE Generate \/ TicksGone \/ TicksVerified \/ VerificationFailed
    BY <2>3, <1>2, <1>7, <1>8
       DEF Generate, GenerateBars, GenerateFeatures, GenerateReport, TicksGone,
           GenerationRaises, VerificationFailed, JobSteps, Steps
  <2>4. CASE StartSomeIngest \/ ResumeNext \/ ScanInbox \/ EndIngest
    BY <2>4 DEF StartSomeIngest, StartIngest, ResumeNext, ScanInbox, EndIngest
  <2>5. CASE DeleteStep \/ Operator \/ DiskFrees \/ UNCHANGED vars
    BY <2>5 DEF DeleteStep, DeleteUnlink, Operator, StageBars, StageFeatures, DeleteCheck,
                Drop, DiskFrees, vars
  <2>6. CASE Failure
    BY <2>6, <1>2 DEF Failure, WriteFault, GenerationFault, GenerationRaises, Crash,
                      DeleteCrash, LoseTicks, DiskFills, JobSteps, Steps
  <2> QED BY <2>1, <2>2, <2>3, <2>4, <2>5, <2>6, <1>1 DEF Next, IngestStep

\* How a step may change a tick file: not at all, by the writer's rename for
\* the month in hand, or by losing it.
LEMMA TicksChange ==
  ASSUME IInv, [Next]_vars, NEW m \in Months
  PROVE  \/ ticks'[m] = ticks[m]
         \/ CommitFile /\ m = job.month
         \/ ticks'[m] = NULL /\ \E n \in Months : LoseTicks(n)
<1> USE DEF store, memory, deleter
<1>1. CASE UNCHANGED ticks
  BY <1>1
<1>2. CASE CommitFile
  BY <1>2, JobTyped DEF CommitFile, IInv, TypeOK
<1>3. ASSUME NEW n \in Months, LoseTicks(n)
      PROVE  ticks'[m] = ticks[m] \/ ticks'[m] = NULL
  BY <1>3 DEF LoseTicks, IInv, TypeOK
<1> QED
  <2>1. CASE IngestStep
    BY <2>1, <1>1, <1>2
       DEF IngestStep, ResumeNext, ScanInbox, OpenMonth, EndIngest, Source, SourceMissing,
           SourceRejected, SourceVerified, Write, OpenWriter, OpenWriterDiskLow, WriteChunks,
           WriteDiskLow, WriteUnreadable, RecordTicks, TicksVerified, VerificationFailed,
           Generate, GenerateBars, GenerateFeatures, MarkFeatures, GenerateReport,
           MarkReported, TicksGone, GenerationRaises
  <2>2. CASE Failure
    BY <2>2, <1>1, <1>3
       DEF Failure, WriteFault, GenerationFault, GenerationRaises, Crash, DeleteCrash, DiskFills
  <2>3. CASE StartSomeIngest \/ DeleteStep \/ Operator \/ DiskFrees \/ UNCHANGED vars
    BY <2>3, <1>1
       DEF StartSomeIngest, StartIngest, DeleteStep, DeleteUnlink, DeleteStamp, Operator,
           StageBars, StageFeatures, DeleteCheck, Drop, DiskFrees, vars
  <2> QED BY <2>1, <2>2, <2>3 DEF Next

\* The deletion stamp changes one column of one row.
LEMMA StampChange ==
  ASSUME IInv, DeleteStamp, NEW m \in Months
  PROVE  /\ db'[m] = [db[m] EXCEPT !.deleted = db'[m].deleted]
         /\ Kept(db[m], db'[m])
<1>1. victim.month \in Months /\ db \in [Months -> MonthRecord]
  BY DEF DeleteStamp, IInv, TypeOK, Path
<1>2. db' = [db EXCEPT ![victim.month] = [db[victim.month] EXCEPT !.deleted = TRUE]]
  BY DEF DeleteStamp, SetRow
<1>3. CASE m = victim.month
  BY <1>1, <1>2, <1>3 DEF MonthRecord, Kept
<1>4. CASE m # victim.month
  BY <1>1, <1>2, <1>4 DEF MonthRecord, Kept
<1> QED BY <1>3, <1>4

\* An unchanged row in the form the action properties ask for.
LEMMA SameRow ==
  ASSUME IInv, NEW m \in Months, db'[m] = db[m]
  PROVE  /\ db'[m] = [db[m] EXCEPT !.deleted = db'[m].deleted]
         /\ Kept(db[m], db'[m])
<1>1. db[m] \in MonthRecord
  BY DEF IInv, TypeOK
<1> QED BY <1>1 DEF MonthRecord, Kept

\* create_if_not_exists leaves every row that exists.
LEMMA CreatedChange ==
  ASSUME IInv, NEW m \in Months, db[m].status # "absent",
         NEW n \in Months, NEW f \in Formats, SetRow(n, CreateIfNotExists(db[n], f))
  PROVE  db'[m] = db[m]
BY DEF SetRow, CreateIfNotExists, IInv, TypeOK

\* A month with checkpoint reported is left alone by a run without --force
\* (pipeline.py, the early return of process_one_month), except for the stamp
\* of delete-source and the loss of its file.
THEOREM ReportedStaysFinal == Spec => ReportedIsFinal
<1> DEFINE Final == \A m \in Months : db[m].checkpoint = "reported" /\ ~force =>
              /\ db'[m] = [db[m] EXCEPT !.deleted = db'[m].deleted]
              /\ ticks'[m] \in {ticks[m], NULL}
<1>1. IInv /\ [Next]_vars => Final
  <2> SUFFICES ASSUME IInv, [Next]_vars, NEW m \in Months,
                      db[m].checkpoint = "reported", ~force
               PROVE  /\ db'[m] = [db[m] EXCEPT !.deleted = db'[m].deleted]
                      /\ ticks'[m] \in {ticks[m], NULL}
    OBVIOUS
  <2>1. ~(pc \in JobSteps /\ job.month = m)
    BY ContentsAssumption DEF IInv, JobOK, JobSteps, Steps
  <2>2. ticks'[m] \in {ticks[m], NULL}
    BY <2>1, TicksChange DEF CommitFile, JobSteps, Steps
  <2>3. db[m].status # "absent"
    BY ContentsAssumption DEF IInv, RowsOK, NoRow, Checkpoints
  <2>4. db'[m] = [db[m] EXCEPT !.deleted = db'[m].deleted]
    <3>1. CASE UNCHANGED db
      BY <3>1, SameRow
    <3>2. ASSUME NEW n \in Months, NEW f \in Formats, SetRow(n, CreateIfNotExists(db[n], f))
          PROVE  db'[m] = [db[m] EXCEPT !.deleted = db'[m].deleted]
      BY <3>2, <2>3, CreatedChange, SameRow
    <3>3. CASE DeleteStamp
      BY <3>3, StampChange
    <3>4. ASSUME pc \in JobSteps, NEW row, SetRow(job.month, row)
          PROVE  db'[m] = [db[m] EXCEPT !.deleted = db'[m].deleted]
      <4>1. db'[m] = db[m]
        BY <3>4, <2>1 DEF SetRow, IInv, TypeOK
      <4> QED BY <4>1, SameRow
    <3> QED BY <3>1, <3>2, <3>3, <3>4, RowChange
  <2> QED BY <2>2, <2>4
<1> QED BY Inductive, <1>1, PTL DEF Spec, ReportedIsFinal

\* No step of any command turns a recorded column back into NULL (state.py:
\* partial updates instead of a whole-record upsert).
THEOREM NoColumnIsLost == Spec => NoColumnLost
<1> DEFINE Lossless == \A m \in Months : db[m].status # "absent" =>
       /\ db'[m].source = db[m].source
       /\ db[m].checkpoint # NULL => db'[m].checkpoint # NULL
       /\ db[m].verification # NULL => db'[m].verification # NULL
       /\ db[m].sha # NULL => db'[m].sha # NULL
       /\ db[m].ingested # NULL => db'[m].ingested # NULL
       /\ db[m].deleted => db'[m].deleted
<1>1. IInv /\ [Next]_vars => Lossless
  <2> SUFFICES ASSUME IInv, [Next]_vars, NEW m \in Months, db[m].status # "absent"
               PROVE  Kept(db[m], db'[m])
    BY DEF Kept
  <2>1. CASE UNCHANGED db
    BY <2>1, SameRow
  <2>2. ASSUME NEW n \in Months, NEW f \in Formats, SetRow(n, CreateIfNotExists(db[n], f))
        PROVE  Kept(db[m], db'[m])
    BY <2>2, CreatedChange, SameRow
  <2>3. CASE DeleteStamp
    BY <2>3, StampChange
  <2>4. ASSUME pc \in JobSteps, NEW row, SetRow(job.month, row), Kept(db[job.month], row)
        PROVE  Kept(db[m], db'[m])
    <3>1. CASE m = job.month
      BY <3>1, <2>4 DEF SetRow, IInv, TypeOK
    <3>2. CASE m # job.month
      <4>1. db'[m] = db[m]
        BY <3>2, <2>4 DEF SetRow, IInv, TypeOK
      <4> QED BY <4>1, SameRow
    <3> QED BY <3>1, <3>2
  <2> QED BY <2>1, <2>2, <2>3, <2>4, RowChange
<1> QED BY Inductive, <1>1, PTL DEF Spec, NoColumnLost

----------------------------------------------------------------------------
(* Refinement *)

\* The empty warehouse is an empty archive.
LEMMA ArchiveInit == Init => Archive!Init
BY DEF Init, Archive!Init, DoneMonths, NoRow

\* Every step of the pipeline is a step of the archive or leaves it alone.
LEMMA ArchiveStep == IInv /\ [Next]_vars => [Archive!Next]_(Archive!vars)
<1> SUFFICES ASSUME IInv, [Next]_vars PROVE [Archive!Next]_(Archive!vars)
  OBVIOUS
<1> USE DEF store, memory, deleter
<1> DEFINE Done == DoneMonths(db)
           Derived == bars \cup feats.flow \cup feats.profile
<1>0. /\ TypeOK
      /\ pc \in JobSteps => job.month \in Months /\ db[job.month] \in MonthRecord
  BY JobTyped DEF IInv
<1>1. ASSUME Done' \in {Done} \cup {Done \ {m} : m \in Months}, UNCHANGED ticks,
             Derived' \subseteq Derived \cup DataOf(AllTickPaths)
      PROVE  [Archive!Next]_(Archive!vars)
  <2>1. Archive!Readable = DataOf(AllTickPaths)
    BY DEF Archive!Readable, DataOf, AllTickPaths
  <2>2. Archive!Derive
    BY <1>1, <2>1 DEF Archive!Derive
  <2> QED BY <1>1, <2>2 DEF Archive!Next, Archive!Withdraw
<1>2. ASSUME UNCHANGED <<db, ticks, bars, feats>> PROVE [Archive!Next]_(Archive!vars)
  BY <1>2 DEF Archive!vars, DoneMonths
<1>3. ASSUME pc \in JobSteps, NEW row, row.status # "done", SetRow(job.month, row)
      PROVE  Done' \in {Done} \cup {Done \ {m} : m \in Months}
  <2>1. Done' = Done \ {job.month}
    BY <1>0, <1>3 DEF SetRow, TypeOK, DoneMonths
  <2> QED BY <2>1, <1>0, <1>3
<1>4. ASSUME NEW m \in Months, NEW row, row.status = db[m].status, SetRow(m, row)
      PROVE  Done' = Done
  BY <1>0, <1>4 DEF SetRow, TypeOK, DoneMonths
<1>5. ASSUME pc \in JobSteps, FailMonth
      PROVE  Done' \in {Done} \cup {Done \ {m} : m \in Months}
  <2>1. [db[job.month] EXCEPT !.status = "failed"].status # "done"
    BY <1>0, <1>5 DEF MonthRecord
  <2> QED BY <2>1, <1>3, <1>5 DEF FailMonth
<1>6. CASE OpenMonth
  <2>1. PICK p \in todo : SetRow(p.month, CreateIfNotExists(db[p.month], p.format))
    BY <1>6 DEF OpenMonth
  <2>2. p.month \in Months
    BY <1>0 DEF TypeOK, Path
  <2>3. Done' = Done
    BY <2>1, <2>2, <1>0 DEF SetRow, TypeOK, DoneMonths, CreateIfNotExists, NoRow
  <2> QED BY <2>3, <1>1, <1>6 DEF OpenMonth
<1>7. CASE SourceMissing \/ OpenWriterDiskLow \/ WriteUnreadable \/ VerificationFailed \/ WriteFault
  BY <1>7, <1>1, <1>5
     DEF SourceMissing, OpenWriterDiskLow, WriteUnreadable, VerificationFailed, WriteFault,
         JobSteps, Steps
<1>8. CASE SourceRejected \/ WriteDiskLow
  <2>1. pc \in JobSteps
    BY <1>8 DEF SourceRejected, WriteDiskLow, JobSteps, Steps
  <2>2. /\ [db[job.month] EXCEPT !.status = "failed", !.checkpoint = "source_verified"].status
             # "done"
        /\ [db[job.month] EXCEPT !.status = "paused_low_disk"].status # "done"
    BY <2>1, <1>0 DEF MonthRecord
  <2> QED BY <2>1, <2>2, <1>1, <1>3, <1>8 DEF SourceRejected, WriteDiskLow
<1>9. CASE SourceVerified
  <2>1. CASE UNCHANGED db
    BY <2>1, <1>2, <1>9 DEF SourceVerified
  <2>2. CASE db' # db
    <3> DEFINE row == [db[job.month] EXCEPT !.status = "in_progress",
                                            !.checkpoint = "source_verified",
                                            !.sha = inbox[JobPath]]
    <3>1. pc \in JobSteps /\ SetRow(job.month, row) /\ UNCHANGED <<ticks, bars, feats>>
      BY <1>9, <2>2 DEF SourceVerified, JobSteps, Steps
    <3>2. row.status # "done"
      BY <3>1, <1>0 DEF MonthRecord
    <3> QED BY <3>1, <3>2, <1>1, <1>3
  <2> QED BY <2>1, <2>2
<1>10. CASE CommitFile
  <2>1. /\ job.month \in Months \ Done
        /\ job.content \in Contents
        /\ ticks' = [ticks EXCEPT ![job.month] = job.content]
        /\ UNCHANGED <<db, bars, feats>>
    BY <1>0, <1>10
       DEF CommitFile, IInv, JobOK, WriterOK, DoneMonths, JobSteps, Steps
  <2>2. Archive!Write(job.month, job.content)
    BY <2>1 DEF Archive!Write, DoneMonths
  <2> QED BY <2>1, <2>2 DEF Archive!Next
<1>11. CASE RecordTicks \/ MarkFeatures \/ MarkReported
  <2>1. pc \in JobSteps /\ UNCHANGED <<ticks, bars, feats>>
    BY <1>11 DEF RecordTicks, MarkFeatures, MarkReported, JobSteps, Steps
  <2> DEFINE old == db[job.month]
  <2>2. /\ [old EXCEPT !.checkpoint = "ticks_written", !.ingested = job.content].status
             = old.status
        /\ \A cp \in Checkpoints : [old EXCEPT !.checkpoint = cp].status = old.status
    BY <2>1, <1>0 DEF MonthRecord
  <2>3. Done' = Done
    BY <2>1, <2>2, <1>0, <1>4, <1>11 DEF RecordTicks, MarkFeatures, MarkReported, Checkpoints
  <2> QED BY <2>1, <2>3, <1>1
<1>12. CASE TicksVerified
  <2>1. pc \in JobSteps /\ UNCHANGED <<ticks, bars, feats>> /\ ticks[job.month] \in Good
    BY <1>12 DEF TicksVerified, Verifies, JobSteps, Steps
  <2> DEFINE row == [db[job.month] EXCEPT !.status = "done", !.checkpoint = "ticks_verified",
                                          !.verification = "verified"]
  <2>2. SetRow(job.month, row) /\ row.status = "done"
    BY <2>1, <1>0, <1>12 DEF TicksVerified, MonthRecord
  <2>3. Done' = Done \cup {job.month}
    BY <2>1, <2>2, <1>0 DEF SetRow, TypeOK, DoneMonths
  <2>4. Archive!Trust(job.month)
    BY <2>1, <2>3 DEF Archive!Trust
  <2> QED BY <2>1, <2>4, <1>0 DEF Archive!Next
<1>13. CASE GenerateBars \/ StageBars
  <2>1. UNCHANGED <<db, ticks, feats>> /\ bars' \subseteq bars \cup DataOf(AllTickPaths)
    BY <1>13 DEF GenerateBars, StageBars
  <2> QED BY <2>1, <1>1 DEF DoneMonths
<1>14. CASE GenerateFeatures
  <2>1. UNCHANGED <<db, ticks, bars>>
    BY <1>14 DEF GenerateFeatures
  <2>2. DataOf(paths) \subseteq DataOf(AllTickPaths)
    BY <1>14 DEF GenerateFeatures, IInv, PathsOK, DataOf, AllTickPaths
  <2>3. Derived' \subseteq Derived \cup DataOf(AllTickPaths)
    BY <2>2, <1>14 DEF GenerateFeatures
  <2> QED BY <2>1, <2>3, <1>1 DEF DoneMonths
<1>15. CASE StageFeatures
  <2>1. UNCHANGED <<db, ticks>> /\ Derived' \subseteq Derived \cup DataOf(AllTickPaths)
    BY <1>15 DEF StageFeatures
  <2> QED BY <2>1, <1>1 DEF DoneMonths
<1>16. CASE pc \in JobSteps /\ GenerationRaises
  <2>1. UNCHANGED ticks /\ Derived' \subseteq Derived \cup DataOf(AllTickPaths)
    BY <1>0, <1>16 DEF GenerationRaises, TypeOK
  <2>2. Done' \in {Done} \cup {Done \ {m} : m \in Months}
    BY <1>5, <1>16 DEF GenerationRaises, DoneMonths
  <2> QED BY <2>1, <2>2, <1>1
<1>17. CASE DeleteStamp
  <2>1. victim.month \in Months
    BY <1>0, <1>17 DEF DeleteStamp, TypeOK, Path
  <2>2. [db[victim.month] EXCEPT !.deleted = TRUE].status = db[victim.month].status
    BY <2>1, <1>0 DEF TypeOK, MonthRecord
  <2>3. Done' = Done
    BY <2>1, <2>2, <1>4, <1>17 DEF DeleteStamp
  <2> QED BY <2>3, <1>1, <1>17 DEF DeleteStamp
<1>18. ASSUME NEW m \in Months, LoseTicks(m) PROVE [Archive!Next]_(Archive!vars)
  <2>1. Archive!Lose(m)
    BY <1>18 DEF LoseTicks, Archive!Lose, DoneMonths
  <2> QED BY <2>1 DEF Archive!Next
<1> QED
  <2>1. CASE StartSomeIngest \/ ResumeNext \/ ScanInbox \/ EndIngest
    BY <2>1, <1>2 DEF StartSomeIngest, StartIngest, ResumeNext, ScanInbox, EndIngest
  <2>2. CASE Write
    BY <2>2, <1>2, <1>7, <1>8, <1>10, <1>11 DEF Write, OpenWriter, WriteChunks
  <2>3. CASE Generate
    BY <2>3, <1>2, <1>11, <1>13, <1>14 DEF Generate, GenerateReport
  <2>4. CASE DeleteStep \/ Operator
    BY <2>4, <1>2, <1>13, <1>15, <1>17 DEF DeleteStep, DeleteUnlink, Operator, DeleteCheck, Drop
  <2>5. CASE Failure \/ TicksGone
    BY <2>5, <1>2, <1>7, <1>16, <1>18
       DEF Failure, TicksGone, GenerationFault, Crash, DeleteCrash, DiskFills, JobSteps, Steps
  <2>6. CASE DiskFrees \/ UNCHANGED vars
    BY <2>6, <1>2 DEF DiskFrees, vars
  <2> QED BY <2>1, <2>2, <2>3, <2>4, <2>5, <2>6, <1>6, <1>7, <1>8, <1>9, <1>12
          DEF Next, IngestStep, Source

\* The pipeline implements TickArchive: to a reader of its files it is a store
\* whose months are trusted only while their file is the verified one.
THEOREM PipelineImplementsArchive == Spec => ImplementsArchive
BY ArchiveInit, ArchiveStep, Inductive, PTL DEF Spec, ImplementsArchive, Archive!Spec

----------------------------------------------------------------------------
(* delete-source *)

\* While delete-source runs alone, the row it has checked stays done; in any case
\* the verification it has read stays on record.
Alone == dpc # "idle" => pc = "idle"

StillDone == dpc = "unlink" => db[victim.month].status = "done"

StillVerified == dpc = "unlink" => db[victim.month].verification = "verified"

\* Without overlap, delete-source finds the ingest process idle.
LEMMA AloneStep ==
  ASSUME ~Concurrent, IInv, Alone, [Next]_vars
  PROVE  Alone'
<1> USE DEF store, memory, deleter
<1>1. CASE UNCHANGED <<pc, dpc>> \/ dpc' = "idle" \/ pc' = "idle"
  BY <1>1 DEF Alone
<1>2. CASE StartSomeIngest \/ (pc # "idle" /\ UNCHANGED dpc)
  BY <1>2 DEF StartSomeIngest, StartIngest, Alone
<1>3. CASE DeleteStep \/ Operator
  BY <1>1, <1>3 DEF DeleteStep, DeleteUnlink, DeleteStamp, Operator, StageBars, StageFeatures,
                    DeleteCheck, Drop, Alone
<1>4. CASE IngestStep
  BY <1>2, <1>4
     DEF IngestStep, ResumeNext, ScanInbox, OpenMonth, EndIngest, Source, SourceMissing,
         SourceRejected, SourceVerified, Write, OpenWriter, OpenWriterDiskLow, WriteChunks,
         WriteDiskLow, WriteUnreadable, CommitFile, RecordTicks, TicksVerified,
         VerificationFailed, Generate, GenerateBars, GenerateFeatures, MarkFeatures,
         GenerateReport, MarkReported, TicksGone, GenerationRaises
<1>5. CASE Failure
  BY <1>1, <1>2, <1>5 DEF Failure, WriteFault, GenerationFault, GenerationRaises, Crash,
                          DeleteCrash, LoseTicks, DiskFills
<1>6. CASE DiskFrees \/ UNCHANGED vars
  BY <1>1, <1>6 DEF DiskFrees, vars
<1> QED BY <1>2, <1>3, <1>4, <1>5, <1>6 DEF Next

\* Only the check of delete-source makes it ready to unlink.
LEMMA VictimChange ==
  ASSUME [Next]_vars, dpc' = "unlink"
  PROVE  (dpc = "unlink" /\ victim' = victim)
         \/ \E m \in Months : DeleteCheck(m)
<1> USE DEF store, memory, deleter
<1>1. CASE IngestStep
  BY <1>1
     DEF IngestStep, ResumeNext, ScanInbox, OpenMonth, EndIngest, Source, SourceMissing,
         SourceRejected, SourceVerified, Write, OpenWriter, OpenWriterDiskLow, WriteChunks,
         WriteDiskLow, WriteUnreadable, CommitFile, RecordTicks, TicksVerified,
         VerificationFailed, Generate, GenerateBars, GenerateFeatures, MarkFeatures,
         GenerateReport, MarkReported, TicksGone, GenerationRaises
<1>2. CASE Failure
  BY <1>2 DEF Failure, WriteFault, GenerationFault, GenerationRaises, Crash,
              DeleteCrash, LoseTicks, DiskFills
<1>3. CASE StartSomeIngest \/ DeleteStep \/ Operator \/ DiskFrees \/ UNCHANGED vars
  BY <1>3 DEF StartSomeIngest, StartIngest, DeleteStep, DeleteUnlink, DeleteStamp, Operator,
              StageBars, StageFeatures, Drop, DiskFrees, vars
<1> QED BY <1>1, <1>2, <1>3 DEF Next

\* Without overlap, what delete-source has checked is still so.
LEMMA StillDoneStep ==
  ASSUME IInv, Alone, StillDone, [Next]_vars
  PROVE  StillDone'
<1> SUFFICES ASSUME dpc' = "unlink" PROVE db'[victim'.month].status = "done"
  BY DEF StillDone
<1>1. ASSUME NEW m \in Months, DeleteCheck(m) PROVE db'[victim'.month].status = "done"
  BY <1>1 DEF DeleteCheck, store
<1>2. CASE dpc = "unlink" /\ victim' = victim
  <2>1. /\ pc = "idle"
        /\ victim.month \in Months
        /\ db[victim.month].status = "done"
    BY <1>2 DEF Alone, StillDone, IInv, TypeOK, Path
  <2>2. CASE UNCHANGED db
    BY <2>1, <2>2, <1>2
  <2>3. ASSUME NEW m \in Months, NEW f \in Formats, SetRow(m, CreateIfNotExists(db[m], f))
        PROVE  db'[victim.month] = db[victim.month]
    BY <2>1, <2>3, CreatedChange
  <2>4. ~DeleteStamp /\ pc \notin JobSteps
    BY <1>2, <2>1 DEF DeleteStamp, JobSteps
  <2> QED BY <1>2, <2>1, <2>2, <2>3, <2>4, RowChange
<1> QED BY <1>1, <1>2, VictimChange

\* No step of any process withdraws a verification that delete-source has read.
LEMMA StillVerifiedStep ==
  ASSUME IInv, StillVerified, [Next]_vars
  PROVE  StillVerified'
<1> SUFFICES ASSUME dpc' = "unlink" PROVE db'[victim'.month].verification = "verified"
  BY DEF StillVerified
<1>1. ASSUME NEW m \in Months, DeleteCheck(m)
      PROVE  db'[victim'.month].verification = "verified"
  BY <1>1 DEF DeleteCheck, store
<1>2. CASE dpc = "unlink" /\ victim' = victim
  <2>1. victim.month \in Months /\ db[victim.month].verification = "verified"
    BY <1>2 DEF StillVerified, IInv, TypeOK, Path
  <2>2. db[victim.month].status # "absent"
    BY <2>1, ContentsAssumption DEF IInv, RowsOK, NoRow
  <2>3. ASSUME NEW m \in Months, NEW f \in Formats, SetRow(m, CreateIfNotExists(db[m], f))
        PROVE  db'[victim.month] = db[victim.month]
    BY <2>1, <2>2, <2>3, CreatedChange
  <2>4. ASSUME pc \in JobSteps, NEW row, SetRow(job.month, row), Kept(db[job.month], row)
        PROVE  db'[victim.month].verification = "verified"
    <3>1. db'[victim.month].verification # NULL
      BY <2>1, <2>4, ContentsAssumption, JobTyped DEF SetRow, Kept, IInv, TypeOK
    <3>2. db'[victim.month] \in MonthRecord
      BY <2>1, InductiveStep DEF IInv, TypeOK
    <3> QED BY <3>1, <3>2 DEF MonthRecord
  <2>5. ~DeleteStamp
    BY <1>2 DEF DeleteStamp
  <2> QED BY <1>2, <2>1, <2>3, <2>4, <2>5, RowChange
<1> QED BY <1>1, <1>2, VictimChange

\* Only the unlink of delete-source removes a source file.
LEMMA Unlinked ==
  ASSUME [Next]_vars, IInv, NEW p \in Path, inbox[p] # NULL, inbox'[p] = NULL
  PROVE  DeleteUnlink /\ p = victim
<1> USE DEF store, memory, deleter
<1>1. CASE DeleteUnlink
  BY <1>1 DEF DeleteUnlink, IInv, TypeOK
<1>2. ASSUME NEW q \in Path, NEW c \in Contents, Drop(q, c) PROVE FALSE
  BY <1>2, ContentsAssumption DEF Drop, IInv, TypeOK
<1>3. CASE UNCHANGED inbox
  BY <1>3
<1> QED
  <2>1. CASE IngestStep
    BY <2>1, <1>3
       DEF IngestStep, ResumeNext, ScanInbox, OpenMonth, EndIngest, Source, SourceMissing,
           SourceRejected, SourceVerified, Write, OpenWriter, OpenWriterDiskLow, WriteChunks,
           WriteDiskLow, WriteUnreadable, CommitFile, RecordTicks, TicksVerified,
           VerificationFailed, Generate, GenerateBars, GenerateFeatures, MarkFeatures,
           GenerateReport, MarkReported, TicksGone, GenerationRaises
  <2>2. CASE Failure
    BY <2>2, <1>3 DEF Failure, WriteFault, GenerationFault, GenerationRaises, Crash,
                      DeleteCrash, LoseTicks, DiskFills
  <2>3. CASE StartSomeIngest \/ DeleteStep \/ Operator \/ DiskFrees \/ UNCHANGED vars
    BY <2>3, <1>1, <1>2, <1>3
       DEF StartSomeIngest, StartIngest, DeleteStep, DeleteStamp, Operator,
           StageBars, StageFeatures, DeleteCheck, DiskFrees, vars
  <2> QED BY <2>1, <2>2, <2>3 DEF Next

\* Whatever an ingest run does between the check of delete-source and its unlink,
\* and whatever is lost: the verification that was read is on record at the unlink,
\* and the ticks of a row that is still done are the verified ones, if they are
\* there.  Without overlap the row is still done (pipeline.py,
\* delete_verified_source).
THEOREM DeletionIsLicensed == Spec => DeletionLicensed
<1> DEFINE DInv == IInv /\ StillVerified /\ (~Concurrent => Alone /\ StillDone)
           Licensed == \A p \in Path : inbox[p] # NULL /\ inbox'[p] = NULL =>
                         LET m == p.month IN
                         /\ db[m].verification = "verified"
                         /\ db[m].status = "done" => Intact(m)
                         /\ Concurrent \/ db[m].status = "done"
<1>1. Init => DInv
  BY InitEstablishes DEF Init, StillVerified, Alone, StillDone
<1>2. IInv /\ [Next]_vars => IInv'
  BY InductiveStep
<1>3. DInv /\ [Next]_vars => DInv'
  BY <1>2, StillVerifiedStep, AloneStep, StillDoneStep
<1>4. DInv /\ [Next]_vars => Licensed
  <2> SUFFICES ASSUME DInv, [Next]_vars, NEW p \in Path, inbox[p] # NULL, inbox'[p] = NULL
               PROVE  /\ db[p.month].verification = "verified"
                      /\ db[p.month].status = "done" => Intact(p.month)
                      /\ Concurrent \/ db[p.month].status = "done"
    OBVIOUS
  <2>1. dpc = "unlink" /\ p = victim
    BY Unlinked DEF DeleteUnlink
  <2>2. p.month \in Months
    BY DEF Path
  <2>3. db[p.month].status = "done" => Intact(p.month)
    BY <2>2 DEF IInv, RowsOK, CheckpointIntact
  <2> QED BY <2>1, <2>3 DEF StillVerified, StillDone
<1> QED BY <1>1, <1>3, <1>4, PTL DEF Spec, DeletionLicensed
=============================================================================
