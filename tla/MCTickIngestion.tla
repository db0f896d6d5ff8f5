-------------------------- MODULE MCTickIngestion --------------------------
(* Instances of TickIngestion for TLC: which rows archives are made of. *)
EXTENDS TickIngestion

Row(id, time, unit, price, qty, maker) ==
  [id |-> id, time |-> time, unit |-> unit, price |-> price, qty |-> qty, maker |-> maker]

\* A second is 10 milliseconds, a millisecond 10 microseconds and a microsecond 10
\* nanoseconds; floating-point numbers are 4 nanoseconds apart.  The exchange goes
\* over from milliseconds to microseconds within the archive.

\* Ids with a gap, times that go back, a price that doubles.
WellFormed == {Row(id, time, "us", price, 1, TRUE) :
                 id \in {1, 2, 4}, time \in {99, 101}, price \in {10, 20}}

\* Each way in which a row can be invalid.
Invalid == {Row(2, 99, "us", 0, 1, TRUE), Row(2, 99, "us", -10, 1, TRUE),
            Row(2, 99, "us", NaN, 1, TRUE), Row(4, 101, "us", 10, 0, TRUE)}

\* Rows that differ from a well-formed one in their quantity, their side or the
\* unit of their time.
Conflicting == {Row(2, 99, "us", 10, 2, TRUE), Row(2, 99, "us", 10, 1, FALSE),
                Row(2, 10, "ms", 10, 1, TRUE), Row(1, 9, "ms", 20, 1, TRUE)}

AllRows == WellFormed \cup Invalid \cup Conflicting
=============================================================================
