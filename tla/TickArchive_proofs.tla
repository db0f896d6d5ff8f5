------------------------- MODULE TickArchive_proofs -------------------------
(* Readers of a TickArchive see data of good files only. *)
EXTENDS TickArchive, TLAPS

AInv == OnlyGood /\ trusted \subseteq Months /\ DOMAIN file = Months

\* What bars and features were derived from passed verification, and a trusted
\* month's file is the one that did, if it is there: for every step that
\* TickArchive allows, and so for every step of the pipeline that implements it.
THEOREM OnlyGoodIsDerived == Spec => []OnlyGood
<1>1. Init => AInv
  BY DEF Init, AInv, OnlyGood
<1>2. AInv /\ [Next]_vars => AInv'
  <2> SUFFICES ASSUME AInv, [Next]_vars PROVE AInv'
    OBVIOUS
  <2>1. ASSUME NEW m \in Months, NEW c \in Contents, Write(m, c) PROVE AInv'
    BY <2>1 DEF AInv, OnlyGood, Write
  <2>2. ASSUME NEW m \in Months, Trust(m) PROVE AInv'
    BY <2>2 DEF AInv, OnlyGood, Trust
  <2>3. ASSUME NEW m \in Months, Lose(m) PROVE AInv'
    BY <2>3 DEF AInv, OnlyGood, Lose
  <2>4. ASSUME trusted' \subseteq trusted, Derive, UNCHANGED file PROVE AInv'
    <3>1. Readable \subseteq Months \X Good
      BY DEF AInv, OnlyGood, Readable
    <3> QED BY <2>4, <3>1 DEF AInv, OnlyGood, Derive
  <2>5. CASE UNCHANGED vars
    BY <2>5 DEF AInv, OnlyGood, vars
  <2> QED BY <2>1, <2>2, <2>3, <2>4, <2>5 DEF Next, Withdraw
<1>3. AInv => OnlyGood
  BY DEF AInv
<1> QED BY <1>1, <1>2, <1>3, PTL DEF Spec
=============================================================================
