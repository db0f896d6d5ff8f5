------------------------- MODULE MCMonthlyPipeline -------------------------
(* Instances of MonthlyPipeline for TLC: how much of each outside event. *)
EXTENDS MonthlyPipeline

EventCounts(crash, fault, drop, loss, low) ==
  [e \in Events |-> CASE e = "crash" -> crash [] e = "fault" -> fault
                      [] e = "drop" -> drop [] e = "loss" -> loss
                      [] e = "low" -> low]

\* One month in two formats, replaced archives, --force.
OneMonth == EventCounts(1, 1, 3, 0, 1)

\* A committed file may vanish as well.
WithLoss == EventCounts(1, 1, 2, 1, 0)

\* Every kind of failure once, for the liveness of a month.
Recovering == EventCounts(1, 1, 2, 1, 1)
=============================================================================
