---------------------------- MODULE TickArchive ----------------------------
(***************************************************************************)
(* What the platform promises to whoever reads its files, without the      *)
(* pipeline: a month is trusted only from a good file, a trusted month is  *)
(* never written under, and nothing is derived from a file that is not     *)
(* trusted.  Trust may be withdrawn and files may be lost at any time.     *)
(***************************************************************************)

CONSTANTS Months, Contents, Good, NULL

VARIABLES
  trusted,   \* the months whose file counts
  file,      \* the committed file of each month
  derived    \* <<month, contents>> pairs that bars and features were computed from

vars == <<trusted, file, derived>>

TypeOK == /\ trusted \subseteq Months
          /\ file \in [Months -> Contents \cup {NULL}]
          /\ derived \subseteq Months \X Contents

Init == /\ trusted = {}
        /\ file = [m \in Months |-> NULL]
        /\ derived = {}

Write(m, c) == /\ m \notin trusted
               /\ file' = [file EXCEPT ![m] = c]
               /\ UNCHANGED <<trusted, derived>>

Trust(m) == /\ file[m] \in Good
            /\ trusted' = trusted \cup {m}
            /\ UNCHANGED <<file, derived>>

\* A generation that fails half-way may withdraw trust and leave some of its
\* output behind.
Withdraw(m) == trusted' = trusted \ {m}

Lose(m) == /\ file' = [file EXCEPT ![m] = NULL]
           /\ UNCHANGED <<trusted, derived>>

Readable == {<<m, file[m]>> : m \in {n \in trusted : file[n] # NULL}}

Derive == derived' \in SUBSET (derived \cup Readable)

Next == \/ \E m \in Months, c \in Contents : Write(m, c)
        \/ \E m \in Months : Trust(m) \/ Lose(m)
        \/ /\ UNCHANGED trusted \/ \E m \in Months : Withdraw(m)
           /\ Derive
           /\ UNCHANGED file

Spec == Init /\ [][Next]_vars

\* Everything derived was derived from a good file, and a trusted month's file
\* is good as long as it is there.
OnlyGood == /\ derived \subseteq Months \X Good
            /\ \A m \in trusted : file[m] \in Good \cup {NULL}
=============================================================================
