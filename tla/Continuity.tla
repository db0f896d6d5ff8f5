----------------------------- MODULE Continuity -----------------------------
(***************************************************************************)
(* Which month comes next, and which months are missing: what the discover *)
(* stage, --status and the report of a month tell an operator, and what    *)
(* becomes of the sequence of months when the operator does as told.  A    *)
(* command reads the state database several times, and the loop over the   *)
(* months takes its time, while the pipeline, here no more than rows that  *)
(* become done, cease to be, and get stuck, goes on.                       *)
(***************************************************************************)
EXTENDS Integers, Sequences, FiniteSets

CONSTANTS
  Start,        \* project.start_month
  First, Last,  \* bound: the first and the last month there is an archive of
  Histories,    \* sets of months that may be done to begin with
  Setbacks,     \* bound: how often a row may cease to be done or get stuck
  NULL

Month == [year : Nat, month : 1 .. 12]

ASSUME MonthsAssumption ==
  /\ {Start, First, Last} \subseteq Month /\ NULL \notin Month
  /\ Setbacks \in Nat

VARIABLES
  done,      \* the months whose row has status 'done'
  inbox,     \* the months whose archive the operator has provided
  stuck,     \* the months that a run leaves as they are, not done, or fails again
  advice,    \* what the last command said
  todo,      \* what the running command still has to find out
  found,     \* what it has found out
  present,   \* missing_months: the done months, as read by the last scan
  cursor,    \* missing_months: the month it has come to, or NULL
  gaps,      \* missing_months: the gaps so far
  holes,     \* history: months skipped before Init, or withdrawn after it
  steady,    \* history: done has not changed since the running command began
  setbacks   \* counts against Setbacks

scan == <<present, cursor, gaps>>
command == <<advice, todo, found, scan>>
vars == <<done, inbox, stuck, command, holes, steady, setbacks>>

----------------------------------------------------------------------------
(* Months, in the order of their names YYYY-MM *)

Leq(a, b) == a.year < b.year \/ (a.year = b.year /\ a.month <= b.month)

\* MISTAKE: the year ends with November.
FollowingShort(k) == IF k.month = 11 THEN [year |-> k.year + 1, month |-> 1]
                     ELSE [year |-> k.year, month |-> k.month + 1]

\* MISTAKE: no month begins a year.
FollowingPlain(k) == [year |-> k.year, month |-> k.month + 1]

\* next_required_month: the month that follows k.
Following(k) == IF k.month = 12 THEN [year |-> k.year + 1, month |-> 1]
                ELSE [year |-> k.year, month |-> k.month + 1]

\* MISTAKE: the loop leaves out December.
MovedOnShort(k) == IF k.month = 11 THEN [year |-> k.year + 1, month |-> 1]
                   ELSE [year |-> k.year, month |-> k.month + 1]

\* missing_months: where its loop goes from k, by arithmetic of its own.
MovedOn(k) == IF k.month = 12 THEN [year |-> k.year + 1, month |-> 1]
              ELSE [year |-> k.year, month |-> k.month + 1]

Latest(S) == CHOOSE k \in S : \A j \in S : Leq(j, k)

\* The months from a to b, both included.
Between(a, b) == {k \in [year : a.year .. b.year, month : 1 .. 12] :
                    Leq(a, k) /\ Leq(k, b)}

Months == Between(First, Last)

ASSUME HistoriesAssumption == Histories \subseteq SUBSET Months

\* MISTAKE: a month is jumped over.
SkippingNext(S) == IF S = {} THEN Start ELSE Following(Following(Latest(S)))

\* MISTAKE: the month is not moved on.
StandingNext(S) == IF S = {} THEN Start ELSE Latest(S)

\* next_required_month
NextRequired(S) == IF S = {} THEN Start ELSE Following(Latest(S))

\* What missing_months is to return for the done months S.
Missing(S) == IF S = {} THEN {} ELSE Between(Start, Latest(S)) \ S

----------------------------------------------------------------------------
\* cumulative_stats, without the sums over the rows' counters.
Cumulative(S) == [months_done |-> Cardinality(S),
                  latest |-> IF S = {} THEN NULL ELSE Latest(S)]

Output == [next : Month \cup {NULL}, gaps : SUBSET Month,
           cumulative : {NULL} \cup
             [months_done : {Cardinality(S) : S \in SUBSET Months},
              latest : Month \cup {NULL}]]

Nothing == [next |-> NULL, gaps |-> {}, cumulative |-> NULL]

Init ==
  /\ done \in Histories
  /\ inbox = {} /\ stuck = {}
  /\ advice = Nothing
  /\ todo = <<>>
  /\ found = Nothing
  /\ present = {} /\ cursor = NULL /\ gaps = {}
  /\ holes = Missing(done)
  /\ steady = FALSE
  /\ setbacks = 0

\* The commands, by the order in which they read.
Commands == {<<"next", "gaps">>,                \* cmd_discover
             <<"next", "gaps", "cumulative">>,  \* cmd_status
             <<"cumulative", "gaps", "next">>}  \* generate_month_report

Command ==
  /\ todo = <<>>
  /\ todo' \in Commands
  /\ found' = Nothing
  /\ steady' = TRUE
  /\ UNCHANGED <<done, inbox, stuck, advice, scan, holes, setbacks>>

Reading(what) == todo # <<>> /\ Head(todo) = what

\* A part is found; with the last part, all of it is printed.
Found(f) == /\ found' = f
            /\ todo' = Tail(todo)
            /\ advice' = IF Tail(todo) = <<>> THEN f ELSE advice

ReadNext ==
  /\ Reading("next")
  /\ Found([found EXCEPT !.next = NextRequired(done)])
  /\ UNCHANGED <<done, inbox, stuck, scan, holes, steady, setbacks>>

ReadCumulative ==
  /\ Reading("cumulative")
  /\ Found([found EXCEPT !.cumulative = Cumulative(done)])
  /\ UNCHANGED <<done, inbox, stuck, scan, holes, steady, setbacks>>

\* missing_months reads the rows once; without a done month there is no loop.
BeginScan ==
  /\ Reading("gaps") /\ cursor = NULL
  /\ present' = done
  /\ gaps' = {}
  /\ IF done = {} THEN /\ Found([found EXCEPT !.gaps = {}])
                       /\ UNCHANGED cursor
                  ELSE /\ cursor' = Start
                       /\ UNCHANGED <<found, todo, advice>>
  /\ UNCHANGED <<done, inbox, stuck, holes, steady, setbacks>>

ScanMonth ==
  /\ cursor # NULL
  /\ Leq(cursor, Latest(present))
  /\ gaps' = IF cursor \in present THEN gaps ELSE gaps \cup {cursor}
  /\ cursor' = MovedOn(cursor)
  /\ UNCHANGED <<done, inbox, stuck, advice, todo, found, present, holes, steady, setbacks>>

EndScan ==
  /\ cursor # NULL
  /\ ~Leq(cursor, Latest(present))
  /\ Found([found EXCEPT !.gaps = gaps])
  /\ cursor' = NULL
  /\ UNCHANGED <<done, inbox, stuck, present, gaps, holes, steady, setbacks>>

\* The operator provides a month that the last command has named, which may be
\* the output of a while ago.
Follow ==
  /\ \E k \in (({advice.next} \cup advice.gaps) \cap Months) \ inbox :
       inbox' = inbox \cup {k}
  /\ UNCHANGED <<done, stuck, command, holes, steady, setbacks>>

\* The pipeline brings a month to its tick checkpoint, or back to it.
Ingest ==
  /\ \E k \in inbox \ (done \cup stuck) : done' = done \cup {k}
  /\ steady' = FALSE
  /\ UNCHANGED <<inbox, stuck, command, holes, setbacks>>

\* A row ceases to be done: its month is ingested again, or its generation
\* failed.  Its archive may be of further use or not.  A failed generation that
\* is resumed leaves the row reported and not done, which no run takes up.
Withdraw ==
  /\ setbacks < Setbacks
  /\ \E k \in done : /\ done' = done \ {k}
                     /\ holes' = holes \cup {k}
                     /\ inbox' \in {inbox \cup {k}, inbox \ {k}}
                     /\ stuck' \in {stuck, stuck \cup {k}}
  /\ setbacks' = setbacks + 1
  /\ steady' = FALSE
  /\ UNCHANGED command

\* A month that was not done gets stuck: its tick file is committed and does not
\* pass verification, or its archive is cached as corrupted.
GetStuck ==
  /\ setbacks < Setbacks
  /\ \E k \in inbox \ (done \cup stuck) : stuck' = stuck \cup {k}
  /\ setbacks' = setbacks + 1
  /\ UNCHANGED <<done, inbox, command, holes, steady>>

\* Somebody steps in: --force for a reported month, another archive for one that
\* is cached as corrupted, a rejected archive for a tick file that fails (its row
\* goes back to the start).
Unstick ==
  /\ \E k \in stuck : stuck' = stuck \ {k}
  /\ UNCHANGED <<done, inbox, command, holes, steady, setbacks>>

Scan == BeginScan \/ ScanMonth \/ EndScan

Next == Command \/ ReadNext \/ ReadCumulative \/ Scan
        \/ Follow \/ Ingest \/ Withdraw \/ GetStuck \/ Unstick

Spec == Init /\ [][Next]_vars

\* A command that is begun goes on; the operator calls one again and again and
\* does what it says; and the pipeline is run.  Nothing makes a row withdrawn or
\* stuck, and nobody has to step in for one that is.
FairSpec == /\ Spec
            /\ WF_vars(Command \/ ReadNext \/ ReadCumulative \/ Scan)
            /\ WF_vars(Follow)
            /\ WF_vars(Ingest)

----------------------------------------------------------------------------
(* Properties *)

TypeOK ==
  /\ done \subseteq Months /\ inbox \subseteq Months /\ present \subseteq Months
  /\ stuck \subseteq Months \ done
  /\ {advice, found} \subseteq Output
  /\ cursor \in Month \cup {NULL}
  /\ cursor # NULL => Reading("gaps") /\ present # {}
  /\ gaps \subseteq Month /\ holes \subseteq Month
  /\ steady \in BOOLEAN /\ setbacks \in 0 .. Setbacks

\* missing_months: whatever becomes done or ceases to be while it runs, its
\* result is exact for the rows it has read: the months from the configured
\* start to the latest done one that are not done, across the ends of years.
GapsExact ==
  [][cursor # NULL /\ cursor' = NULL => found'.gaps = Missing(present)]_vars

\* "With strictly sequential incremental ingestion this should normally be
\* empty": an operator who provides the months that are named, however old the
\* output, never makes a gap.  Each one that is announced was there at the
\* start or is of a row that was done and withdrawn.
GapsAreHoles == advice.gaps \subseteq holes

\* The months before k.
Until(k) == Between(Start, k) \ {k}

Settled(k) == Until(k) \subseteq done \cup holes

\* The months beyond which the sequence would not be continuous are never
\* named: all months from the start to the next required one are done, or
\* known holes.
NextIsSettled ==
  advice.next # NULL => Settled(advice.next)

\* The three numbers of one output add up if no row changed while it was made:
\* the months done and the gaps are all months up to the latest done one, and
\* the next required one comes right after it.
OutputAddsUp ==
  [][LET d == advice'.cumulative IN
     (steady /\ advice' # advice /\ d # NULL /\ d.months_done > 0) =>
       /\ advice'.next # d.latest
       /\ Between(d.latest, advice'.next) = {d.latest, advice'.next}
       /\ Leq(Start, d.latest) =>
            d.months_done + Cardinality(advice'.gaps)
              = Cardinality(Between(Start, d.latest) \cup done)]_vars

\* A stuck month that is itself the next required one holds up what comes after
\* it, since nothing else is named.
HeldUp(k) == LET n == NextRequired(done) IN n \in stuck /\ Leq(n, k)

\* Doing as told completes the sequence, from a history with gaps as well and
\* after rows were withdrawn: every month from the start on is done in the end,
\* but for those that are stuck and those one of them holds up.  A month that is
\* stuck behind the latest done one holds up nothing but itself.
SequenceCompletes ==
  \A k \in Months : Leq(Start, k) => <>[](k \in done \cup stuck \/ HeldUp(k))

----------------------------------------------------------------------------
(* The inductive invariant *)

\* Whatever a scan can still find is a hole, and it has found what lies before
\* its cursor, which has not left the range by more than a month.
ScanSound ==
  cursor # NULL => /\ Settled(Latest(present)) /\ Missing(present) \subseteq holes
                   /\ Leq(Start, cursor)
                   /\ gaps = Until(cursor) \ present
                   /\ Until(cursor) \subseteq Between(Start, Latest(present))

IInv == /\ TypeOK
        /\ \A k \in done \cup inbox : Settled(k)
        /\ \A r \in {advice, found} : /\ r.next # NULL => Settled(r.next)
                                      /\ \A k \in r.gaps : k \in holes /\ Settled(k)
        /\ ScanSound

\* As long as no row changes, all that a command has found out is of the same
\* done months.
SteadyOK ==
  steady =>
    /\ todo \in Commands \cup {<<>>, <<"gaps">>, <<"gaps", "cumulative">>,
                            <<"gaps", "next">>, <<"cumulative">>, <<"next">>}
    /\ cursor # NULL => present = done
    /\ todo \in {<<"gaps">>, <<"gaps", "cumulative">>, <<"cumulative">>} =>
         found.next = NextRequired(done)
    /\ todo \in {<<"cumulative">>, <<"next">>} => found.gaps = Missing(done)
    /\ todo \in {<<"gaps", "next">>, <<"next">>} => found.cumulative = Cumulative(done)
    /\ todo \in {<<"next", "gaps">>, <<"gaps">>} => found.cumulative = NULL
=============================================================================
