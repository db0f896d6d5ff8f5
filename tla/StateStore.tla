----------------------------- MODULE StateStore -----------------------------
(***************************************************************************)
(* The month_status table of the state database: what one row holds, and   *)
(* the questions the platform asks of it.  A row is created once, and from *)
(* then on only the named columns change; a column the pipeline never      *)
(* reads back (versions, time stamps, error text, data-quality counters)   *)
(* is left out.                                                            *)
(*                                                                         *)
(* The contents of a source archive are abstracted to what the pipeline    *)
(* can tell apart:                                                         *)
(*   Good        passes the source checks, parses, and every row and the   *)
(*               id range that ingestion records are those of the file     *)
(*               it writes;                                                *)
(*   Lossy       parses, but what ingestion records differs from what is   *)
(*               written (a row was filtered, or the smallest or largest   *)
(*               id is not at the end of the file it should be at);        *)
(*   Unparsable  passes the source checks, raises while it is read;        *)
(*   Rejected    fails the source checks (wrong market, bad container);    *)
(*               the reader refuses it as well.  It also stands for a file *)
(*               whose CRC check raised and is cached as corrupted (see    *)
(*               SourceVerification): for later runs that file is one that *)
(*               was replaced by a bad one, though nothing of it changed.  *)
(***************************************************************************)
EXTENDS Naturals

CONSTANTS
  Months,      \* the year_months, as numbers: their order is the calendar's
  Formats,     \* the archive formats in use, among "csv" and "zip"
  Good, Lossy, Unparsable, Rejected,   \* contents, by what becomes of them
  NULL         \* a NULL column, a missing file, no report

Contents == Good \cup Lossy \cup Unparsable \cup Rejected

Checkpoints == {"source_verified", "ticks_written", "ticks_verified",
                "features_generated", "reported"}

ASSUME MonthsAssumption == Months \subseteq Nat

ASSUME FormatsAssumption == Formats \subseteq {"csv", "zip"}

ASSUME ContentsAssumption ==
  /\ Good \cap (Lossy \cup Unparsable \cup Rejected) = {}
  /\ NULL \notin Contents \cup Formats \cup Checkpoints \cup {"verified"}

Statuses == {"absent", "pending", "in_progress", "done", "failed",
             "paused_low_disk"}

\* source    the format part of source_path, which with the month names the file
\* sha       source_sha256, standing for the content that was hashed
\* ingested  rows_written, min_trade_id and max_trade_id, standing for the
\*           content they were computed from
\* deleted   source_deleted_at IS NOT NULL
MonthRecord == [status       : Statuses,
                checkpoint   : Checkpoints \cup {NULL},
                verification : {"verified", NULL},
                source       : Formats \cup {NULL},
                sha          : Contents \cup {NULL},
                ingested     : Contents \cup {NULL},
                deleted      : BOOLEAN]

\* The absence of a row.
NoRow == [status |-> "absent", checkpoint |-> NULL, verification |-> NULL,
          source |-> NULL, sha |-> NULL, ingested |-> NULL, deleted |-> FALSE]

\* The row create_if_not_exists leaves: an existing one untouched, else a
\* pending one that knows where its source file is and nothing else.
CreateIfNotExists(row, format) ==
  IF row.status # "absent"
  THEN row
  ELSE [NoRow EXCEPT !.status = "pending", !.source = format]

\* The months every reader of the database counts as ingested.
DoneMonths(db) == {m \in Months : db[m].status = "done"}
=============================================================================
