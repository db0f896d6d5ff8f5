----------------------- MODULE MCSourceVerification -----------------------
(* Instances of SourceVerification for TLC. *)
EXTENDS SourceVerification, TLC

\* The commands are alike, and so are the sound contents.
Symmetry == Permutations(Processes) \cup Permutations(Sound)
=============================================================================
