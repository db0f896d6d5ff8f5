--------------------------- MODULE MCContinuity ---------------------------
(* An instance of Continuity for TLC: the turn of a year. *)
EXTENDS Continuity

Of(y, m) == [year |-> y, month |-> m]

November == Of(2023, 11)

October == Of(2023, 10)

February == Of(2024, 2)

\* Nothing done; a month skipped; the two months before the year's end skipped;
\* a month done that is before the configured start.
Past == {{}, {November, Of(2024, 1)}, {Of(2024, 1)}, {October}}
=============================================================================
