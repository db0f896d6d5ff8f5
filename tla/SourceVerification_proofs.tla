---------------------- MODULE SourceVerification_proofs ----------------------
(***************************************************************************)
(* The verification cache is faithful, for any number of processes and of  *)
(* replacements.  A replacement takes a stamp nobody has seen, so that all *)
(* a process knows of the file before is of no consequence; while the file *)
(* stays, each step of a process that has its stamp adds one true fact, or *)
(* the CRC check raises, which is remembered of the stamp.                 *)
(***************************************************************************)
EXTENDS SourceVerification, TLAPS

\* Before anything was verified.
LEMMA InitEstablishes == Init => IInv
BY BoundAssumption, ContentsAssumption
   DEF Init, IInv, TypeOK, Stamps, Record, Statuses, Fresh, Steps, Passed

\* A step of one process concerns nothing of another, and not the file.
LEMMA StepIsLocal ==
  ASSUME TypeOK, NEW p \in Processes, Verify(p)
  PROVE  /\ UNCHANGED <<content, stamp, sidecar>>
         /\ raised \subseteq raised'
         /\ \A q \in Processes \ {p} : /\ at'[q] = at[q]
                                       /\ seen'[q] = seen[q]
                                       /\ record'[q] = record[q]
BY DEF TypeOK, Verify, Stat, Lookup, Check, StructuralCheck, MarketIdentityCheck,
       DeepCrcCheck, ComputeSha256, CompareSidecar, Upsert, Leave, Goto

\* The types of what a step changes.
LEMMA VerifyTyped ==
  ASSUME TypeOK, NEW p \in Processes, Verify(p)
  PROVE  TypeOK'
<1> USE DEF TypeOK, Goto
<1>1. ASSUME NEW step \in Steps, Goto(p, step) PROVE at' \in [Processes -> Steps]
  BY <1>1
<1>2. Fresh \in Record
  BY DEF Fresh, Record, Statuses
<1>3. CASE Stat(p)
  BY <1>2, <1>3 DEF Stat, Steps
<1>4. CASE Lookup(p)
  BY <1>4 DEF Lookup, Steps
<1>5. ASSUME NEW step, NEW outcomes \in SUBSET Statuses, NEW next \in Steps,
             Check(p, step, outcomes, next), raised' \subseteq Stamps
      PROVE  TypeOK'
  <2>1. PICK status \in Statuses : /\ record' = [record EXCEPT ![p].status = status]
                                   /\ Goto(p, IF status = "ok" THEN next ELSE "upsert")
    BY <1>5 DEF Check
  <2>2. record' \in [Processes -> Record]
    BY <2>1 DEF Record
  <2> QED BY <1>5, <2>1, <2>2 DEF Check, Steps
<1>6. CASE StructuralCheck(p) \/ MarketIdentityCheck(p) \/ DeepCrcCheck(p)
  <2>1. CASE StructuralCheck(p)
    BY <1>5, <2>1 DEF StructuralCheck, Statuses, Steps
  <2>2. CASE MarketIdentityCheck(p)
    BY <1>5, <2>2 DEF MarketIdentityCheck, Statuses, Steps
  <2>3. CASE DeepCrcCheck(p)
    BY <1>5, <2>3 DEF DeepCrcCheck, Statuses, Steps
  <2> QED BY <1>6, <2>1, <2>2, <2>3
<1>7. CASE ComputeSha256(p)
  <2>1. record' \in [Processes -> Record]
    BY <1>7 DEF ComputeSha256, Record
  <2> QED BY <1>7, <2>1 DEF ComputeSha256, Steps
<1>8. CASE CompareSidecar(p)
  <2> DEFINE side == IF sidecar = NULL THEN NULL
                     ELSE IF sidecar = record[p].sha THEN "match" ELSE "mismatch"
             status == IF side = "mismatch" THEN "corrupted" ELSE "ok"
  <2>0. [record[p] EXCEPT !.side = side, !.status = status] \in Record
    BY DEF Record, Statuses
  <2>1. record' \in [Processes -> Record]
    <3>1. record' = [record EXCEPT ![p] = [@ EXCEPT !.side = side, !.status = status]]
      BY <1>8 DEF CompareSidecar
    <3> QED BY <2>0, <3>1
  <2> QED BY <1>8, <2>1 DEF CompareSidecar, Steps
<1>9. CASE Upsert(p)
  BY <1>9 DEF Upsert, Steps
<1>10. CASE Leave(p)
  <2>1. seen' \in [Processes -> Stamps]
    BY <1>10, BoundAssumption DEF Leave, Stamps
  <2> QED BY <1>2, <1>10, <2>1 DEF Leave, Steps
<1> QED BY <1>3, <1>4, <1>6, <1>7, <1>8, <1>9, <1>10 DEF Verify

\* The one process that steps keeps what it knows of the present file.
LEMMA StepLearns ==
  ASSUME IInv, NEW p \in Processes, Verify(p), seen'[p] = stamp
  PROVE  Passed(p)'
<1> USE DEF TypeOK, IInv, Goto, Passed
<1>1. UNCHANGED <<content, stamp>> /\ raised \subseteq raised'
  BY StepIsLocal
<1>2. CASE Stat(p)
  BY <1>2 DEF Stat
<1>4. CASE Leave(p)
  BY <1>4 DEF Leave
<1>3. CASE ~Stat(p) /\ ~Leave(p)
  <2>1. seen[p] = stamp
    BY <1>3 DEF Verify, Lookup, Check, StructuralCheck, MarketIdentityCheck,
       DeepCrcCheck, ComputeSha256, CompareSidecar, Upsert
  <2>2. CASE Lookup(p)
    <3>1. CASE cache[stamp] # NULL
      <4>1. at'[p] = "done" /\ record'[p] = cache[stamp]
        BY <2>1, <2>2, <3>1 DEF Lookup
      <4>2. Faithful(cache[stamp])
        BY <3>1
      <4>3. Faithful(record[p])'
        BY <1>1, <4>1, <4>2 DEF Faithful, Sound
      <4> QED BY <4>1, <4>3
    <3>2. CASE cache[stamp] = NULL
      BY <2>1, <2>2, <3>2, ContentsAssumption DEF Lookup
    <3> QED BY <3>1, <3>2
  <2>3. CASE StructuralCheck(p)
    BY <1>1, <2>1, <2>3, ContentsAssumption
       DEF StructuralCheck, Check, Faithful, Fresh, Sound
  <2>4. CASE MarketIdentityCheck(p)
    BY <1>1, <2>1, <2>4, ContentsAssumption
       DEF MarketIdentityCheck, Check, Faithful, Fresh, Sound
  <2>5. CASE DeepCrcCheck(p)
    BY <1>1, <2>1, <2>5, ContentsAssumption
       DEF DeepCrcCheck, Check, Faithful, Fresh, Sound
  <2>6. CASE ComputeSha256(p)
    BY <1>1, <2>1, <2>6 DEF ComputeSha256, Fresh
  <2>7. CASE CompareSidecar(p)
    BY <1>1, <2>1, <2>7, ContentsAssumption DEF CompareSidecar, Faithful, Fresh, Sound
  <2>8. CASE Upsert(p)
    BY <1>1, <2>1, <2>8 DEF Upsert, Faithful
  <2> QED BY <1>3, <2>2, <2>3, <2>4, <2>5, <2>6, <2>7, <2>8 DEF Verify
<1> QED BY <1>2, <1>3, <1>4

\* So every step of a process keeps the invariant.
LEMMA VerifyStep ==
  ASSUME IInv, NEW p \in Processes, Verify(p)
  PROVE  IInv'
<1>1. TypeOK'
  BY VerifyTyped DEF IInv
<1>2. /\ UNCHANGED <<content, stamp, sidecar>>
      /\ raised \subseteq raised'
      /\ \A q \in Processes \ {p} : /\ at'[q] = at[q]
                                    /\ seen'[q] = seen[q]
                                    /\ record'[q] = record[q]
  BY StepIsLocal DEF IInv
<1>3. ASSUME NEW q \in Processes PROVE seen'[q] <= stamp
  <2>1. seen'[q] \in {0, seen[q], stamp}
    BY DEF IInv, TypeOK, Verify, Stat, Lookup, Check, StructuralCheck, MarketIdentityCheck,
           DeepCrcCheck, ComputeSha256, CompareSidecar, Upsert, Leave
  <2> QED BY <2>1, BoundAssumption DEF IInv, TypeOK, Stamps
<1>6. ASSUME NEW q \in Processes, at'[q] = "idle" PROVE record'[q] = Fresh
  <2>1. CASE q = p
    BY <1>6, <2>1 DEF IInv, TypeOK, Verify, Stat, Lookup, Check, StructuralCheck,
       MarketIdentityCheck, DeepCrcCheck, ComputeSha256, CompareSidecar, Upsert, Leave, Goto
  <2> QED BY <1>2, <1>6, <2>1 DEF IInv
<1>4. ASSUME NEW q \in Processes, seen'[q] = stamp PROVE Passed(q)'
  <2>1. CASE q = p
    BY <1>4, <2>1, StepLearns
  <2>2. CASE q # p
    BY <1>2, <1>4, <2>2 DEF IInv, Passed, Faithful, Sound
  <2> QED BY <2>1, <2>2
<1>5. /\ \A s \in Stamps : s > stamp => cache'[s] = NULL
      /\ cache'[stamp] # NULL => Faithful(cache[stamp])'
  <2>1. CASE UNCHANGED cache
    BY <1>2, <2>1 DEF IInv, Faithful, Sound
  <2>2. CASE Upsert(p)
    <3>1. cache' = [cache EXCEPT ![seen[p]] = record[p]]
      BY <2>2 DEF Upsert
    <3>2. seen[p] \in Stamps /\ seen[p] <= stamp /\ stamp \in Stamps
      BY DEF IInv, TypeOK
    <3>3. \A s \in Stamps : s > stamp => cache'[s] = NULL
      BY <3>1, <3>2, BoundAssumption DEF IInv, TypeOK, Stamps
    <3>4. CASE seen[p] = stamp
      <4>1. Faithful(record[p])
        BY <2>2, <3>4 DEF Upsert, IInv, Passed
      <4>2. cache'[stamp] = record[p]
        BY <3>1, <3>2, <3>4 DEF IInv, TypeOK
      <4> QED BY <1>2, <3>3, <4>1, <4>2 DEF Faithful, Sound
    <3>5. CASE seen[p] # stamp
      <4>1. cache'[stamp] = cache[stamp]
        BY <3>1, <3>2, <3>5 DEF IInv, TypeOK
      <4> QED BY <1>2, <3>3, <4>1 DEF IInv, Faithful, Sound
    <3> QED BY <3>4, <3>5
  <2> QED BY <2>1, <2>2
          DEF Verify, Stat, Lookup, Check, StructuralCheck, MarketIdentityCheck,
              DeepCrcCheck, ComputeSha256, CompareSidecar, Leave
<1> QED BY <1>1, <1>2, <1>3, <1>4, <1>5, <1>6 DEF IInv

\* A replaced file has a stamp that no process has seen and no row is for.
LEMMA ReplaceStep ==
  ASSUME IInv, NEW c \in Contents, Replace(c)
  PROVE  IInv'
<1>1. stamp' \in Stamps /\ stamp' > stamp /\ stamp \in Stamps
  BY BoundAssumption DEF Replace, IInv, TypeOK, Stamps
<1>2. TypeOK'
  BY <1>1 DEF Replace, IInv, TypeOK
<1>3. \A p \in Processes : seen[p] < stamp'
  BY <1>1, BoundAssumption DEF IInv, TypeOK, Stamps
<1>4. \A s \in Stamps : s >= stamp' => cache[s] = NULL
  BY <1>1, BoundAssumption DEF IInv, Stamps
<1>5. \A p \in Processes : seen'[p] <= stamp' /\ seen'[p] # stamp'
  BY <1>1, <1>3, BoundAssumption DEF Replace, IInv, TypeOK, Stamps
<1>6. cache'[stamp'] = NULL /\ \A s \in Stamps : s > stamp' => cache'[s] = NULL
  BY <1>1, <1>4, BoundAssumption DEF Replace, Stamps
<1>7. \A p \in Processes : at'[p] = "idle" => record'[p] = Fresh
  BY DEF Replace, IInv
<1> QED BY <1>2, <1>5, <1>6, <1>7 DEF IInv

\* Every step keeps the invariant.
LEMMA InductiveStep == IInv /\ [Next]_vars => IInv'
<1> SUFFICES ASSUME IInv, [Next]_vars PROVE IInv'
  OBVIOUS
<1>1. ASSUME NEW h \in Published \cup {NULL}, Publish(h) PROVE IInv'
  BY <1>1 DEF Publish, IInv, TypeOK, Passed, Faithful, Sound
<1>2. CASE UNCHANGED vars
  BY <1>2 DEF vars, IInv, TypeOK, Passed, Faithful, Sound
<1> QED BY <1>1, <1>2, VerifyStep, ReplaceStep DEF Next

\* What a process that found the present file knows of it is true.
THEOREM Inductive == Spec => []IInv
BY InitEstablishes, InductiveStep, PTL DEF Spec

\* Whatever replacement falls into whichever verification, what is cached or
\* returned for the present file is the outcome of the checks of this file, or
\* of an exception in the CRC check of this file (discovery.py,
\* verify_source_file and _deep_crc_check).
THEOREM CacheStaysFaithful == Spec => []CacheIsFaithful
<1>1. IInv => CacheIsFaithful
  BY DEF IInv, CacheIsFaithful, Passed
<1> QED BY Inductive, <1>1, PTL

\* The row of the present file stays, and two hashes are never recorded for it;
\* one comes or goes only where a CRC check of this file raised (discovery.py,
\* _deep_crc_check; state.py, upsert_source_verification).
THEOREM HashStaysStable == Spec => HashIsStable
<1> DEFINE hashes == {cache[stamp].sha, cache'[stamp].sha}
           Stable == cache[stamp] # NULL =>
                       /\ cache'[stamp] # NULL
                       /\ hashes = {cache[stamp].sha} \/ (NULL \in hashes /\ stamp \in raised)
<1>1. IInv /\ [Next]_vars => Stable
  <2> SUFFICES ASSUME IInv, [Next]_vars, cache[stamp] # NULL PROVE Stable
    OBVIOUS
  <2>1. CASE UNCHANGED cache
    BY <2>1
  <2>2. ASSUME NEW p \in Processes, Upsert(p), seen[p] = stamp
        PROVE  Stable
    <3>1. cache'[stamp] = record[p] /\ record[p] \in Record
      BY <2>2 DEF Upsert, IInv, TypeOK
    <3>2. Faithful(record[p]) /\ Faithful(cache[stamp])
      BY <2>2 DEF Upsert, IInv, Passed
    <3>3. record[p].sha = cache[stamp].sha
            \/ (NULL \in {cache[stamp].sha, record[p].sha} /\ stamp \in raised)
      BY <3>2 DEF Faithful
    <3>4. cache'[stamp] # NULL
      BY <3>1, NullAssumption
    <3> QED BY <3>1, <3>3, <3>4
  <2>3. ASSUME NEW p \in Processes, Upsert(p), seen[p] # stamp
        PROVE  cache'[stamp] = cache[stamp]
    BY <2>3 DEF Upsert, IInv, TypeOK
  <2>4. ASSUME NEW p \in Processes, Verify(p), ~Upsert(p) PROVE UNCHANGED cache
    BY <2>4 DEF Verify, Stat, Lookup, Check, StructuralCheck, MarketIdentityCheck,
                DeepCrcCheck, ComputeSha256, CompareSidecar, Leave
  <2> QED BY <2>1, <2>2, <2>3, <2>4 DEF Next, Replace, Publish, vars
<1> QED BY Inductive, <1>1, PTL DEF Spec, HashIsStable
=============================================================================
