---------------------- MODULE FeatureGeneration_proofs ----------------------
(***************************************************************************)
(* Bars and features, for any ticks, months, intervals, bins and sessions: *)
(* a file is of the months its generation read (Provenance), and holds     *)
(* what its query computes from their trades (Contents).  The properties   *)
(* follow from the queries: sums over parts, running sums, and islands.    *)
(***************************************************************************)
EXTENDS FeatureGeneration, Arithmetic_proofs, SequenceTheorems

----------------------------------------------------------------------------
(* The files of a generation *)

Names == {"bars_fine", "bars_coarse", "orderflow_fine", "orderflow_coarse", "large_trades",
          "stacked_imbalances", "delta_divergence", "absorption_candidates",
          "iceberg_candidates", "session_vwap", "footprint", "session_volume_profile",
          "session_profile_summary", "developing_poc", "atr", "realized_vol"}

LEMMA BarFilesAre ==
  /\ BarFiles \in Seq(Names) /\ Len(BarFiles) = 2
  /\ BarFiles[1] = "bars_fine" /\ BarFiles[2] = "bars_coarse"
BY DEF BarFiles, Names

LEMMA FeatureFilesAre ==
  /\ FeatureFiles \in Seq(Names) /\ Len(FeatureFiles) = 14
  /\ FeatureFiles[1] = "orderflow_fine"
  /\ FeatureFiles[2] = "orderflow_coarse"
  /\ FeatureFiles[3] = "large_trades"
  /\ FeatureFiles[4] = "stacked_imbalances"
  /\ FeatureFiles[5] = "delta_divergence"
  /\ FeatureFiles[6] = "absorption_candidates"
  /\ FeatureFiles[7] = "iceberg_candidates"
  /\ FeatureFiles[8] = "session_vwap"
  /\ FeatureFiles[9] = "footprint"
  /\ FeatureFiles[10] = "session_volume_profile"
  /\ FeatureFiles[11] = "session_profile_summary"
  /\ FeatureFiles[12] = "developing_poc"
  /\ FeatureFiles[13] = "atr"
  /\ FeatureFiles[14] = "realized_vol"
<1>1. FeatureFiles \in Seq(Names) /\ Len(FeatureFiles) = 14
  BY DEF FeatureFiles, Names
<1>2. /\ FeatureFiles[1] = "orderflow_fine"
      /\ FeatureFiles[2] = "orderflow_coarse"
      /\ FeatureFiles[3] = "large_trades"
      /\ FeatureFiles[4] = "stacked_imbalances"
      /\ FeatureFiles[5] = "delta_divergence"
      /\ FeatureFiles[6] = "absorption_candidates"
      /\ FeatureFiles[7] = "iceberg_candidates"
  BY DEF FeatureFiles
<1>3. /\ FeatureFiles[8] = "session_vwap"
      /\ FeatureFiles[9] = "footprint"
      /\ FeatureFiles[10] = "session_volume_profile"
      /\ FeatureFiles[11] = "session_profile_summary"
      /\ FeatureFiles[12] = "developing_poc"
      /\ FeatureFiles[13] = "atr"
      /\ FeatureFiles[14] = "realized_vol"
  BY DEF FeatureFiles
<1> QED BY <1>1, <1>2, <1>3

LEMMA ConcatAt ==
  ASSUME NEW S, NEW s \in Seq(S), NEW t \in Seq(S), NEW u, u = s \o t
  PROVE  /\ u \in Seq(S) /\ Len(u) = Len(s) + Len(t)
         /\ \A i \in 1 .. Len(s) : u[i] = s[i]
         /\ \A i \in 1 .. Len(t) : u[Len(s) + i] = t[i]
<1>1. u \in Seq(S) /\ Len(u) = Len(s) + Len(t)
  BY ConcatProperties
<1>2. \A i \in 1 .. Len(s) : u[i] = s[i]
  BY ConcatProperties
<1>3. \A i \in 1 .. Len(t) : u[Len(s) + i] = t[i]
  BY ConcatProperties
<1> QED BY <1>1, <1>2, <1>3

LEMMA PlansAre ==
  /\ DOMAIN Plan = {"bars", "features", "both"}
  /\ Plan["bars"] = BarFiles /\ Plan["features"] = FeatureFiles
  /\ Plan["both"] = BarFiles \o FeatureFiles
BY DEF Plan

LEMMA BothAre ==
  /\ Plan["both"] \in Seq(Names) /\ Len(Plan["both"]) = 16
  /\ \A i \in 1 .. 2 : Plan["both"][i] = BarFiles[i]
  /\ \A i \in 1 .. 14 : Plan["both"][2 + i] = FeatureFiles[i]
<1>1. BarFiles \in Seq(Names) /\ FeatureFiles \in Seq(Names)
  BY BarFilesAre, FeatureFilesAre
<1>2. /\ Plan["both"] \in Seq(Names)
      /\ Len(Plan["both"]) = Len(BarFiles) + Len(FeatureFiles)
      /\ \A i \in 1 .. Len(BarFiles) : Plan["both"][i] = BarFiles[i]
      /\ \A i \in 1 .. Len(FeatureFiles) : Plan["both"][Len(BarFiles) + i] = FeatureFiles[i]
  BY <1>1, PlansAre, ConcatAt
<1> QED BY <1>2, BarFilesAre, FeatureFilesAre

LEMMA FilesAre == Files = Names
<1>0. Plan["both"] \in Seq(Names) /\ Len(Plan["both"]) = 16
  BY BothAre
<1>1. \A i \in DOMAIN Plan["both"] : Plan["both"][i] \in Names
  BY <1>0, ElementOfSeq
<1>2. DOMAIN Plan["both"] = 1 .. 16
  BY <1>0
<1>3. \A x \in Names : \E i \in 1 .. 16 : x = Plan["both"][i]
  <2>1. \A i \in 1 .. 2 : \E j \in 1 .. 16 : BarFiles[i] = Plan["both"][j]
    <3>1. 1 .. 2 \subseteq 1 .. 16
      OBVIOUS
    <3> QED BY <3>1, BothAre
  <2>2. \A i \in 1 .. 14 : \E j \in 1 .. 16 : FeatureFiles[i] = Plan["both"][j]
    <3>1. \A i \in 1 .. 14 : 2 + i \in 1 .. 16
      OBVIOUS
    <3> QED BY <3>1, BothAre
  <2>3. \A x \in Names : (\E i \in 1 .. 2 : x = BarFiles[i]) \/ \E i \in 1 .. 14 : x = FeatureFiles[i]
    BY BarFilesAre, FeatureFilesAre DEF Names
  <2> QED BY <2>1, <2>2, <2>3
<1> QED BY <1>1, <1>2, <1>3 DEF Files

LEMMA PlansAreFiles ==
  ASSUME NEW s \in DOMAIN Plan
  PROVE  Plan[s] \in Seq(Files) /\ Plan[s] # <<>>
<1>1. BarFiles \in Seq(Files) /\ Len(BarFiles) # 0
  BY BarFilesAre, FilesAre
<1>2. FeatureFiles \in Seq(Files) /\ Len(FeatureFiles) # 0
  BY FeatureFilesAre, FilesAre
<1>3. Plan["both"] \in Seq(Files) /\ Len(Plan["both"]) # 0
  BY BothAre, FilesAre
<1>4. Plan[s] \in {BarFiles, FeatureFiles, Plan["both"]}
  BY PlansAre
<1> QED BY <1>1, <1>2, <1>3, <1>4

LEMMA FilesRead ==
  \A f \in DOMAIN ReadsFile : f \in Files /\ ReadsFile[f] \in Files
BY FilesAre DEF ReadsFile, Names
LEMMA BothLen ==
  /\ Plan["both"] \in Seq(Names) /\ Len(Plan["both"]) = 16
  /\ \A i \in 1 .. 16 : Plan["both"][i] \in Files
<1> DEFINE P == Plan["both"]
<1>1. P \in Seq(Names) /\ Len(P) = 16
  BY BothAre
<1> HIDE DEF P
<1>2. \A i \in 1 .. 16 : P[i] \in Names
  BY <1>1, ElementOfSeq
<1>3. \A i \in 1 .. 16 : P[i] \in Files
  BY <1>2, FilesAre
<1> QED BY <1>1, <1>3 DEF P

\* No file is listed twice, and a file that is read is listed before its reader.
LEMMA BothInOrder ==
  /\ \A i, j \in 1 .. 16 : Plan["both"][i] = Plan["both"][j] => i = j
  /\ \A i \in 1 .. 16 : Plan["both"][i] \in DOMAIN ReadsFile =>
       \E j \in 1 .. i - 1 : Plan["both"][j] = ReadsFile[Plan["both"][i]]
<1> DEFINE P == Plan["both"]
<1>1. /\ P[1] = "bars_fine" /\ P[2] = "bars_coarse" /\ P[3] = "orderflow_fine"
      /\ P[4] = "orderflow_coarse" /\ P[5] = "large_trades" /\ P[6] = "stacked_imbalances"
      /\ P[7] = "delta_divergence" /\ P[8] = "absorption_candidates"
      /\ P[9] = "iceberg_candidates" /\ P[10] = "session_vwap" /\ P[11] = "footprint"
      /\ P[12] = "session_volume_profile" /\ P[13] = "session_profile_summary"
      /\ P[14] = "developing_poc" /\ P[15] = "atr" /\ P[16] = "realized_vol"
  <2>1. \A i \in 1 .. 14 : P[2 + i] = FeatureFiles[i]
    BY BothAre
  <2>2. P[1] = BarFiles[1] /\ P[2] = BarFiles[2]
    BY BothAre
  <2> HIDE DEF P
  <2>3. /\ P[3] = FeatureFiles[1] /\ P[4] = FeatureFiles[2] /\ P[5] = FeatureFiles[3]
        /\ P[6] = FeatureFiles[4] /\ P[7] = FeatureFiles[5] /\ P[8] = FeatureFiles[6]
        /\ P[9] = FeatureFiles[7] /\ P[10] = FeatureFiles[8] /\ P[11] = FeatureFiles[9]
        /\ P[12] = FeatureFiles[10] /\ P[13] = FeatureFiles[11] /\ P[14] = FeatureFiles[12]
        /\ P[15] = FeatureFiles[13] /\ P[16] = FeatureFiles[14]
    BY <2>1
  <2> QED BY <2>2, <2>3, BarFilesAre, FeatureFilesAre
<1> HIDE DEF P
<1>2. \A i, j \in 1 .. 16 : P[i] = P[j] => i = j
  BY <1>1
<1>3. \A f \in DOMAIN ReadsFile :
        /\ f # P[1] /\ f # P[2] /\ ReadsFile[f] \in {P[1], P[2], P[3]}
        /\ ReadsFile[f] = P[3] => f # P[3]
  BY <1>1 DEF ReadsFile
<1>4. ASSUME NEW i \in 1 .. 16, P[i] \in DOMAIN ReadsFile
      PROVE  \E j \in 1 .. i - 1 : P[j] = ReadsFile[P[i]]
  <2>1. PICK f \in DOMAIN ReadsFile : f = P[i]
    BY <1>4
  <2>2. /\ f # P[1] /\ f # P[2] /\ ReadsFile[f] \in {P[1], P[2], P[3]}
        /\ ReadsFile[f] = P[3] => f # P[3]
    BY <1>3
  <2>3. i # 1 /\ i # 2 /\ (ReadsFile[f] = P[3] => i # 3)
    BY <2>1, <2>2
  <2>4. 1 \in 1 .. i - 1 /\ 2 \in 1 .. i - 1 /\ (i # 3 => 3 \in 1 .. i - 1)
    BY <2>3
  <2> QED BY <2>1, <2>2, <2>3, <2>4
<1> QED BY <1>2, <1>4 DEF P

----------------------------------------------------------------------------
(* Which months a file is from *)

\* What every scenario says of the months.
MonthsOK ==
  /\ IsFiniteSet(DOMAIN ticks)
  /\ \A m \in DOMAIN ticks :
       ticks[m] \subseteq Trade /\ ticks[m] # {} /\ IsFiniteSet(ticks[m])

\* The files that a full regeneration has written are from its months.
WrittenTogether ==
  (stage = "both" /\ outcome # "raised") =>
     \A i \in 1 .. Len(Plan["both"]) - Len(todo) :
       \/ made[Plan["both"][i]] = paths
       \/ Plan["both"][i] \in {"atr", "realized_vol"} /\ SingleBar

Provenance == TypeOK /\ MonthsOK /\ WrittenTogether

\* A step of the running generation replaces its next file, or leaves it out.
LEMMA GenerateIs ==
  ASSUME Generate
  PROVE  \/ \E f \in Files : \E table : Write(f, table)
         \/ \E f \in {"atr", "realized_vol"} : Skip(f) /\ SingleBar
<1>1. CASE GenerateBar
  BY <1>1, FilesAre DEF GenerateBar, Width, Names
<1>2. CASE ComputeOrderflowBars
  BY <1>2, FilesAre DEF ComputeOrderflowBars, Names
<1>3. CASE ComputeVolatility
  BY <1>3, FilesAre DEF ComputeVolatility, Names
<1>4. CASE ComputeSessionProfiles \/ ComputeDevelopingPoc \/ ComputeStatistics
  BY <1>4, FilesAre DEF ComputeSessionProfiles, ComputeDevelopingPoc, ComputeStatistics, Names
<1>5. CASE DetectStackedImbalances \/ DetectDeltaDivergence \/ ComputeSessionVwap \/ ComputeFootprint
  BY <1>5, FilesAre DEF DetectStackedImbalances, DetectDeltaDivergence, ComputeSessionVwap,
                        ComputeFootprint, Names
<1> QED BY <1>1, <1>2, <1>3, <1>4, <1>5 DEF Generate

\* The rest of a sequence, and what is left of it after its first element.
LEMMA RestOfSeq ==
  ASSUME NEW S, NEW P \in Seq(S), NEW i \in 0 .. Len(P), NEW rest,
         rest = SubSeq(P, i + 1, Len(P))
  PROVE  /\ Len(rest) = Len(P) - i
         /\ rest # <<>> <=> i < Len(P)
         /\ i < Len(P) => Head(rest) = P[i + 1] /\ Tail(rest) = SubSeq(P, (i + 1) + 1, Len(P))
<1>1. rest \in Seq(S) /\ Len(rest) = Len(P) - i
  BY SubSeqProperties
<1>2. rest # <<>> <=> Len(rest) # 0
  <2>1. \A t \in Seq(S) : t # <<>> <=> Len(t) # 0
    BY EmptySeq
  <2> QED BY <1>1, <2>1
<1>3. ASSUME i < Len(P)
      PROVE  Head(rest) = P[i + 1] /\ Tail(rest) = SubSeq(P, (i + 1) + 1, Len(P))
  <2>1. i + 1 \in 1 .. Len(P) /\ Len(P) \in i + 1 .. Len(P)
    BY <1>3
  <2> QED BY <2>1, HeadTailOfSubSeq
<1> QED BY <1>1, <1>2, <1>3
LEMMA EmptyRest ==
  ASSUME NEW S, NEW P \in Seq(S)
  PROVE  SubSeq(P, Len(P) + 1, Len(P)) = <<>>
<1>1. Len(P) \in Int /\ Len(P) + 1 \in Int /\ Len(P) < Len(P) + 1
  OBVIOUS
<1> QED BY <1>1, SubSeqEmpty

\* The position that todo gives in the plan.
LEMMA Position ==
  ASSUME TypeOK
  PROVE  \E i \in 0 .. Len(Plan[stage]) :
           /\ Len(todo) = Len(Plan[stage]) - i
           /\ todo # <<>> <=> i < Len(Plan[stage])
           /\ i < Len(Plan[stage]) =>
                /\ Head(todo) = Plan[stage][i + 1]
                /\ Tail(todo) = SubSeq(Plan[stage], (i + 1) + 1, Len(Plan[stage]))
<1>1. PICK i \in 0 .. Len(Plan[stage]) : todo = SubSeq(Plan[stage], i + 1, Len(Plan[stage]))
  BY DEF TypeOK
<1>2. Plan[stage] \in Seq(Files)
  BY PlansAreFiles DEF TypeOK
<1> QED BY <1>1, <1>2, RestOfSeq

LEMMA PositionInBoth ==
  ASSUME TypeOK, stage = "both", todo # <<>>
  PROVE  \E i \in 0 .. 15 : /\ Len(todo) = 16 - i /\ Len(Tail(todo)) = 15 - i
                            /\ Head(todo) = Plan["both"][i + 1]
<1> DEFINE P == Plan["both"]
<1>1. PICK i \in 0 .. Len(P) :
        /\ Len(todo) = Len(P) - i
        /\ todo # <<>> <=> i < Len(P)
        /\ i < Len(P) => /\ Head(todo) = P[i + 1]
                         /\ Tail(todo) = SubSeq(P, (i + 1) + 1, Len(P))
  BY Position
<1>2. Len(P) = 16 /\ \A k \in 1 .. 16 : P[k] \in Files
  BY BothLen
<1> HIDE DEF P
<1>3. i \in 0 .. 15 /\ Len(todo) = 16 - i /\ Head(todo) = P[i + 1]
  BY <1>1, <1>2
<1>4. Len(Tail(todo)) = 15 - i
  <2>1. Tail(todo) = SubSeq(P, (i + 1) + 1, 16)
    BY <1>1, <1>2, <1>3
  <2>2. \A k \in (i + 1) + 1 .. 16 : P[k] \in Files
    BY <1>2, <1>3
  <2>3. Len(SubSeq(P, (i + 1) + 1, 16))
          = IF (i + 1) + 1 <= 16 THEN 16 - ((i + 1) + 1) + 1 ELSE 0
    BY <1>3, <2>2, SubSeqProperties
  <2> QED BY <1>3, <2>1, <2>3
<1> QED BY <1>3, <1>4 DEF P

LEMMA ProvenanceInit ==
  ASSUME Init
  PROVE  Provenance
<1>1. stage \in DOMAIN Plan
  BY PlansAre DEF Init
<1>2. Plan[stage] \in Seq(Files) /\ Len(Plan[stage]) \in Nat
  BY <1>1, PlansAreFiles
<1>3. todo = SubSeq(Plan[stage], Len(Plan[stage]) + 1, Len(Plan[stage]))
  BY <1>2, EmptyRest DEF Init
<1>4. MonthsOK /\ runs \in Nat
  BY ScenariosAssumption DEF Init, MonthsOK
<1>5. TypeOK
  BY <1>1, <1>2, <1>3, <1>4 DEF Init, TypeOK
<1>6. WrittenTogether
  BY DEF Init, WrittenTogether
<1> QED BY <1>4, <1>5, <1>6 DEF Provenance

LEMMA ProvenanceMonthChanges ==
  ASSUME Provenance, MonthChanges
  PROVE  Provenance'
<1>1. TypeOK'
  BY DEF Provenance, TypeOK, MonthChanges
<1>2. MonthsOK' /\ WrittenTogether'
  BY DEF Provenance, MonthsOK, WrittenTogether, SingleBar, MonthChanges
<1> QED BY <1>1, <1>2 DEF Provenance

LEMMA ProvenanceStart ==
  ASSUME Provenance, Start
  PROVE  Provenance'
<1>1. stage' \in DOMAIN Plan /\ todo' = Plan[stage']
  BY DEF Start
<1>2. Plan[stage'] \in Seq(Files) /\ Plan[stage'] # <<>>
  BY <1>1, PlansAreFiles
<1>3. todo' = SubSeq(Plan[stage'], 0 + 1, Len(Plan[stage']))
  BY <1>1, <1>2, SubSeqFull
<1>4. 0 \in 0 .. Len(Plan[stage'])
  BY <1>2
<1>5. \E i \in 0 .. Len(Plan[stage']) : todo' = SubSeq(Plan[stage'], i + 1, Len(Plan[stage']))
  BY <1>3, <1>4
<1>6. TypeOK'
  BY <1>1, <1>2, <1>5 DEF Provenance, TypeOK, Start
<1>7. WrittenTogether'
  <2>1. stage' = "both" => Len(Plan["both"]) - Len(todo') = 0
    BY <1>1, BothAre
  <2> QED BY <2>1 DEF WrittenTogether
<1>8. MonthsOK'
  BY DEF Provenance, MonthsOK, Start
<1> QED BY <1>6, <1>7, <1>8 DEF Provenance

LEMMA ProvenanceRaise ==
  ASSUME Provenance, Raise
  PROVE  Provenance'
<1>1. Plan[stage] \in Seq(Files) /\ Len(Plan[stage]) \in Nat
  BY PlansAreFiles DEF Provenance, TypeOK
<1>2. todo' = SubSeq(Plan[stage], Len(Plan[stage]) + 1, Len(Plan[stage]))
  BY <1>1, EmptyRest DEF Raise
<1>3. TypeOK'
  BY <1>1, <1>2 DEF Provenance, TypeOK, Raise
<1>4. MonthsOK' /\ WrittenTogether'
  BY DEF Provenance, MonthsOK, WrittenTogether, Raise
<1> QED BY <1>3, <1>4 DEF Provenance

\* What the next file and what is left after it do to the type invariant.
LEMMA TypeOKNext ==
  ASSUME TypeOK, todo # <<>>, todo' = Tail(todo),
         outcome' = IF Tail(todo) = <<>> THEN "finished" ELSE outcome,
         UNCHANGED <<ticks, done, runs, stage, paths>>,
         made' \in [Files -> SUBSET DOMAIN ticks]
  PROVE  TypeOK'
<1>1. PICK i \in 0 .. Len(Plan[stage]) :
        /\ todo # <<>> <=> i < Len(Plan[stage])
        /\ i < Len(Plan[stage]) =>
             /\ Head(todo) = Plan[stage][i + 1]
             /\ Tail(todo) = SubSeq(Plan[stage], (i + 1) + 1, Len(Plan[stage]))
  BY Position
<1>2. Plan[stage] \in Seq(Files) /\ Len(Plan[stage]) \in Nat
  BY PlansAreFiles DEF TypeOK
<1>3. i + 1 \in 0 .. Len(Plan[stage]) /\ todo' = SubSeq(Plan[stage], (i + 1) + 1, Len(Plan[stage]))
  BY <1>1, <1>2
<1>4. outcome = "running"
  BY DEF TypeOK
<1> QED BY <1>3, <1>4 DEF TypeOK

LEMMA ProvenanceWrite ==
  ASSUME Provenance, todo # <<>>, NEW f \in Files, NEW table, Write(f, table)
  PROVE  Provenance'
<1>1. Input(f) \subseteq DOMAIN ticks
  BY FilesRead DEF Provenance, TypeOK, Input
<1>2. made' = [made EXCEPT ![f] = Input(f)] /\ made' \in [Files -> SUBSET DOMAIN ticks]
  BY <1>1 DEF Write, Provenance, TypeOK
<1>3. TypeOK'
  BY <1>2, TypeOKNext DEF Write, Provenance
<1>4. MonthsOK'
  BY DEF Provenance, MonthsOK, Write
<1>5. ASSUME stage = "both", outcome # "raised", NEW j \in 1 .. Len(Plan["both"]) - Len(todo')
      PROVE  \/ made'[Plan["both"][j]] = paths
             \/ Plan["both"][j] \in {"atr", "realized_vol"} /\ SingleBar'
  <2> DEFINE P == Plan["both"]
             Kept(g) == made[g] = paths \/ (g \in {"atr", "realized_vol"} /\ SingleBar)
  <2>1. PICK i \in 0 .. 15 : Len(todo) = 16 - i /\ Len(Tail(todo)) = 15 - i /\ f = P[i + 1]
    BY <1>5, PositionInBoth DEF Provenance, Write
  <2>2. Len(P) = 16 /\ \A k \in 1 .. 16 : P[k] \in Files
    BY BothLen
  <2>3. j \in 1 .. i + 1
    BY <2>1, <2>2 DEF Write
  <2>4. \A k \in 1 .. Len(P) - Len(todo) : Kept(P[k])
    BY <1>5 DEF Provenance, WrittenTogether
  <2>5. /\ \A k, l \in 1 .. 16 : P[k] = P[l] => k = l
        /\ \A k \in 1 .. 16 : P[k] \in DOMAIN ReadsFile =>
             \E l \in 1 .. k - 1 : P[l] = ReadsFile[P[k]]
    BY BothInOrder
  <2>6. P[1] = "bars_fine" /\ P[2] = "bars_coarse"
    BY BothAre, BarFilesAre
  <2> HIDE DEF P, Kept
  <2>7. \A k \in 1 .. i : Kept(P[k]) /\ P[k] # f /\ P[k] \in Files
    BY <2>1, <2>2, <2>4, <2>5
  <2>8. CASE j = i + 1
    <3>1. made'[f] = Input(f) /\ P[j] = f
      BY <1>2, <2>1, <2>8 DEF Provenance, TypeOK
    <3>2. CASE f \notin DOMAIN ReadsFile
      BY <3>1, <3>2 DEF Input, P
    <3>3. CASE f \in DOMAIN ReadsFile
      <4>1. PICK k \in 1 .. i : P[k] = ReadsFile[f]
        <5>1. i + 1 \in 1 .. 16 /\ (i + 1) - 1 = i
          BY <2>1
        <5> QED BY <2>1, <2>5, <3>3, <5>1
      <4>2. ReadsFile[f] \notin {"atr", "realized_vol"}
        BY <3>3 DEF ReadsFile
      <4>3. made[ReadsFile[f]] = paths
        BY <2>7, <4>1, <4>2 DEF Kept
      <4> QED BY <3>1, <3>3, <4>3 DEF Input, P
    <3> QED BY <3>2, <3>3
  <2>9. CASE j \in 1 .. i
    <3>1. made'[P[j]] = made[P[j]]
      BY <1>2, <2>7, <2>9 DEF Provenance, TypeOK
    <3>2. Kept(P[j])
      BY <2>7, <2>9
    <3>3. CASE f # "bars_coarse"
      <4>1. SingleBar' <=> SingleBar
        BY <3>3 DEF SingleBar, Write
      <4> QED BY <3>1, <3>2, <4>1 DEF Kept, P
    <3>4. CASE f = "bars_coarse"
      <4>1. j = 1
        <5>1. i + 1 \in 1 .. 16 /\ 2 \in 1 .. 16 /\ P[i + 1] = P[2]
          BY <2>1, <2>6, <3>4
        <5>2. i + 1 = 2
          BY <2>5, <5>1
        <5> QED BY <2>1, <2>9, <5>2
      <4>2. made[P[j]] = paths
        BY <2>6, <3>2, <4>1 DEF Kept
      <4> QED BY <3>1, <4>2 DEF P
    <3> QED BY <3>3, <3>4
  <2> QED BY <2>1, <2>3, <2>8, <2>9
<1>6. WrittenTogether'
  <2>1. stage' = stage /\ paths' = paths /\ outcome = "running"
    BY DEF Write, Provenance, TypeOK
  <2> QED BY <1>5, <2>1 DEF WrittenTogether
<1> QED BY <1>3, <1>4, <1>6 DEF Provenance

LEMMA ProvenanceSkip ==
  ASSUME Provenance, todo # <<>>, NEW f \in {"atr", "realized_vol"}, Skip(f), SingleBar
  PROVE  Provenance'
<1>1. TypeOK'
  BY TypeOKNext DEF Skip, Provenance, TypeOK
<1>2. MonthsOK'
  BY DEF Provenance, MonthsOK, Skip
<1>3. ASSUME stage = "both", outcome # "raised", NEW j \in 1 .. Len(Plan["both"]) - Len(todo')
      PROVE  made[Plan["both"][j]] = paths \/ Plan["both"][j] \in {"atr", "realized_vol"}
  <2> DEFINE P == Plan["both"]
  <2>1. PICK i \in 0 .. 15 : Len(todo) = 16 - i /\ Len(Tail(todo)) = 15 - i /\ f = P[i + 1]
    BY <1>3, PositionInBoth DEF Provenance, Skip
  <2>2. Len(P) = 16
    BY BothLen
  <2>3. \A k \in 1 .. Len(P) - Len(todo) : made[P[k]] = paths \/ P[k] \in {"atr", "realized_vol"}
    BY <1>3 DEF Provenance, WrittenTogether
  <2>4. todo' = Tail(todo)
    BY DEF Skip
  <2> HIDE DEF P
  <2>5. j \in 1 .. Len(P) - Len(todo) \/ j = i + 1
    BY <2>1, <2>2, <2>4 DEF P
  <2> QED BY <2>1, <2>3, <2>5 DEF P
<1>4. WrittenTogether'
  <2>1. /\ stage' = stage /\ paths' = paths /\ outcome = "running" /\ made' = made
        /\ SingleBar'
    BY DEF Skip, Provenance, TypeOK, SingleBar
  <2> QED BY <1>3, <2>1 DEF WrittenTogether
<1> QED BY <1>1, <1>2, <1>4 DEF Provenance
LEMMA ProvenanceInvariance == Spec => []Provenance
<1>1. ASSUME Provenance, [Next]_vars PROVE Provenance'
  <2>1. CASE MonthChanges
    BY <1>1, <2>1, ProvenanceMonthChanges
  <2>2. CASE Start
    BY <1>1, <2>2, ProvenanceStart
  <2>3. CASE Generate
    <3>1. todo # <<>>
      BY <2>3 DEF Generate
    <3> QED BY <1>1, <2>3, <3>1, GenerateIs, ProvenanceWrite, ProvenanceSkip
  <2>4. CASE Raise
    BY <1>1, <2>4, ProvenanceRaise
  <2>5. CASE UNCHANGED vars
    <3>1. TypeOK'
      BY <1>1, <2>5 DEF vars, Provenance, TypeOK
    <3>2. MonthsOK' /\ WrittenTogether'
      BY <1>1, <2>5 DEF vars, Provenance, MonthsOK, WrittenTogether, SingleBar
    <3> QED BY <3>1, <3>2 DEF Provenance
  <2> QED BY <1>1, <2>1, <2>2, <2>3, <2>4, <2>5 DEF Next
<1> QED BY <1>1, ProvenanceInit, PTL DEF Spec

\* Whatever the commands do and wherever a generation raises, what is left to write
\* is the rest of the plan of its command, and every file is from months that have
\* tick files (pipeline.py, main.py).
THEOREM TypesAreKept == Spec => []TypeOK
<1>1. Provenance => TypeOK
  BY DEF Provenance
<1> QED BY <1>1, ProvenanceInvariance, PTL

\* After a regeneration of bars and features that finished, every file is from the
\* months listed when it began, through the files it reads as well: no file of an
\* earlier generation is left, except the volatility of a single bar.
THEOREM FilesAreGeneratedTogether == Spec => []GeneratedTogether
<1>1. Provenance => GeneratedTogether
  <2> SUFFICES ASSUME Provenance, outcome = "finished", stage = "both", NEW f \in Files
               PROVE  made[f] = paths \/ (f \in {"atr", "realized_vol"} /\ SingleBar)
    BY DEF GeneratedTogether
  <2>1. Len(todo) = 0 /\ Len(Plan["both"]) = 16
    BY BothLen DEF Provenance, TypeOK
  <2>2. PICK i \in 1 .. 16 : f = Plan["both"][i]
    <3>1. DOMAIN Plan["both"] = 1 .. 16
      <4>1. Plan["both"] \in Seq(Names) /\ Len(Plan["both"]) = 16
        BY BothLen
      <4> QED BY <4>1
    <3> QED BY <3>1 DEF Files
  <2>3. i \in 1 .. Len(Plan["both"]) - Len(todo)
    BY <2>1
  <2> QED BY <2>2, <2>3 DEF Provenance, WrittenTogether
<1> QED BY <1>1, ProvenanceInvariance, PTL
----------------------------------------------------------------------------
(* Bars and sessions *)

LEMMA BarTimeIs ==
  ASSUME NEW t \in Nat, NEW w \in Nat \ {0}
  PROVE  BarTime(t, w) \in Nat /\ BarTime(t, w) <= t /\ t < BarTime(t, w) + w
BY DivisionIs DEF BarTime

\* The bars up to one are the trades before its end.
LEMMA BarTimesInOrder ==
  ASSUME NEW t \in Nat, NEW u \in Nat, NEW w \in Nat \ {0}
  PROVE  /\ BarTime(t, w) <= BarTime(u, w) <=> t < BarTime(u, w) + w
         /\ BarTime(t, w) < BarTime(u, w) <=> t < BarTime(u, w)
         /\ t <= u => BarTime(t, w) <= BarTime(u, w)
<1> DEFINE p == t \div w
           q == u \div w
<1>1. /\ p \in Nat /\ p * w \in Nat /\ p * w <= t /\ t < p * w + w
      /\ q \in Nat /\ q * w \in Nat /\ q * w <= u /\ u < q * w + w
  BY DivisionIs
<1>2. BarTime(t, w) = p * w /\ BarTime(u, w) = q * w
  BY DEF BarTime
<1> HIDE DEF p, q
<1>3. p < q <=> p * w + w <= q * w
  BY <1>1, MultiplesApart
<1>4. q < p <=> q * w + w <= p * w
  BY <1>1, MultiplesApart
<1>5. p = q => p * w = q * w
  OBVIOUS
<1> QED BY <1>1, <1>2, <1>3, <1>4, <1>5

LEMMA CoarseBarOfFine ==
  ASSUME NEW t \in Nat
  PROVE  BarTime(BarTime(t, Fine), Coarse) = BarTime(t, Coarse)
BY DivisionOfMultiple, IntervalsAssumption DEF BarTime

\* A session begins with a fine bar.
LEMMA SessionOfFine ==
  ASSUME NEW t \in Nat
  PROVE  SessionOf(BarTime(t, Fine)) = SessionOf(t)
<1>0. Fine \in Nat \ {0} /\ Zone \in Nat /\ SessionLength \in Nat \ {0} /\ Zone % Fine = 0
      /\ SessionLength % Fine = 0
  BY IntervalsAssumption
<1>1. PICK z \in Nat : Zone = z * Fine
  <2>1. \A a \in Nat, b \in Nat \ {0} : a = b * (a \div b) + (a % b) /\ a \div b \in Nat
    OBVIOUS
  <2>2. Zone = Fine * (Zone \div Fine) + 0 /\ Zone \div Fine \in Nat
    BY <1>0, <2>1
  <2>3. Zone = (Zone \div Fine) * Fine
    BY <1>0, <2>2
  <2> QED BY <2>2, <2>3
<1> DEFINE p == t \div Fine
<1>2. p \in Nat /\ p * Fine \in Nat /\ p * Fine <= t /\ t < p * Fine + Fine
  BY DivisionIs, IntervalsAssumption
<1>3. BarTime(t, Fine) = p * Fine
  BY DEF BarTime
<1> HIDE DEF p
<1>4. (p + z) * Fine = p * Fine + Zone /\ p + z \in Nat
  BY <1>1, <1>2, IntervalsAssumption
<1>5. (t + Zone) \div Fine = p + z
  <2>1. t + Zone \in Nat /\ (p + z) * Fine <= t + Zone /\ t + Zone < (p + z) * Fine + Fine
    BY <1>2, <1>4, IntervalsAssumption
  <2> QED BY <1>4, <2>1, DivisionIsUnique, IntervalsAssumption
<1>6. (((t + Zone) \div Fine) * Fine) \div SessionLength = (t + Zone) \div SessionLength
  <2>1. t + Zone \in Nat
    BY <1>0
  <2> QED BY <1>0, <2>1, DivisionOfMultiple
<1> QED BY <1>3, <1>4, <1>5, <1>6 DEF SessionOf

LEMMA SessionsInOrder ==
  ASSUME NEW t \in Nat, NEW u \in Nat, t <= u
  PROVE  SessionOf(t) \in Nat /\ SessionOf(u) \in Nat /\ SessionOf(t) <= SessionOf(u)
<1> DEFINE p == (t + Zone) \div SessionLength
           q == (u + Zone) \div SessionLength
           w == SessionLength
<1>1. w \in Nat \ {0} /\ Zone \in Nat
  BY IntervalsAssumption
<1>2. /\ p \in Nat /\ p * w \in Nat /\ p * w <= t + Zone /\ t + Zone < p * w + w
      /\ q \in Nat /\ q * w \in Nat /\ q * w <= u + Zone /\ u + Zone < q * w + w
  BY <1>1, DivisionIs
<1> HIDE DEF p, q, w
<1>3. q < p <=> q * w + w <= p * w
  BY <1>1, <1>2, MultiplesApart
<1>4. p <= q
  BY <1>1, <1>2, <1>3
<1> QED BY <1>2, <1>4 DEF SessionOf, p, q, w

----------------------------------------------------------------------------
(* What is in the files *)

BarTables(T, width) == {Bars(T, width, open, close) : open \in Opens(T, width),
                                                      close \in Closes(T, width)}

\* The table is one that the query for the file f can compute from the trades T.
IsFrom(f, T, table) ==
  /\ f = "bars_fine" => table \in BarTables(T, Fine)
  /\ f = "bars_coarse" => table \in BarTables(T, Coarse)
  /\ f = "orderflow_fine" => \E bars \in BarTables(T, Fine) : table = Orderflow(bars)
  /\ f = "orderflow_coarse" => \E bars \in BarTables(T, Coarse) : table = Orderflow(bars)
  /\ f = "stacked_imbalances" => \E bars \in BarTables(T, Fine) : table = Stacked(bars)
  /\ f = "delta_divergence" =>
       \E bars \in BarTables(T, Fine) : table = Divergence(Orderflow(bars))
  /\ f = "session_vwap" => \E bars \in BarTables(T, Fine) : table = SessionVwap(bars)
  /\ f = "footprint" => table = Footprint(T, Fine, BinSize)
  /\ f = "session_volume_profile" => table = SessionHistogram(T)
  /\ f = "session_profile_summary" => table = ProfileSummary(T)
  /\ f = "developing_poc" => table \in DevelopingPocs(T)
  /\ f = "atr" => \E bars \in BarTables(T, Coarse) : table = TrueRanges(bars)

\* Every file that is there holds what its query computes from its months, the files
\* that were written from another file too.
Contents ==
  /\ DOMAIN disk = Files
  /\ \A f \in Files : made[f] # {} => IsFrom(f, Behind(f), disk[f])

LEMMA GenerateIsFrom ==
  ASSUME Contents, Generate
  PROVE  \/ \E f \in Files : \E table : Write(f, table) /\ IsFrom(f, TicksOf(Input(f)), table)
         \/ \E f \in {"atr", "realized_vol"} : Skip(f)
<1> DEFINE Good(f, table) == f \in Files /\ Write(f, table) /\ IsFrom(f, TicksOf(Input(f)), table)
<1>1. CASE GenerateBar
  <2>1. PICK f \in DOMAIN Width : \E open \in Opens(TicksOf(paths), Width[f]),
                                     close \in Closes(TicksOf(paths), Width[f]) :
          Write(f, Bars(TicksOf(paths), Width[f], open, close))
    BY <1>1 DEF GenerateBar
  <2>2. PICK open \in Opens(TicksOf(paths), Width[f]), close \in Closes(TicksOf(paths), Width[f]) :
          Write(f, Bars(TicksOf(paths), Width[f], open, close))
    BY <2>1
  <2>3. f \in {"bars_fine", "bars_coarse"} /\ Width["bars_fine"] = Fine /\ Width["bars_coarse"] = Coarse
    BY DEF Width
  <2>4. Input(f) = paths /\ f \in Files
    BY <2>3, FilesAre DEF Input, ReadsFile, Names
  <2>5. Bars(TicksOf(paths), Width[f], open, close) \in BarTables(TicksOf(paths), Width[f])
    BY DEF BarTables
  <2>6. IsFrom(f, TicksOf(Input(f)), Bars(TicksOf(paths), Width[f], open, close))
    BY <2>3, <2>4, <2>5 DEF IsFrom
  <2> QED BY <2>2, <2>4, <2>6
<1>2. ASSUME NEW f \in Files, NEW table, Write(f, table), f \in DOMAIN ReadsFile
      PROVE  /\ Input(f) = made[ReadsFile[f]] /\ ReadsFile[f] \in Files
             /\ IsFrom(ReadsFile[f], TicksOf(Input(f)), disk[ReadsFile[f]])
  BY <1>2, FilesRead DEF Contents, Write, Input, Behind
<1>3. CASE ComputeOrderflowBars
  <2>1. PICK f \in {"orderflow_fine", "orderflow_coarse"} : Write(f, Orderflow(disk[ReadsFile[f]]))
    BY <1>3 DEF ComputeOrderflowBars
  <2>2. /\ f \in Files /\ f \in DOMAIN ReadsFile
        /\ ReadsFile["orderflow_fine"] = "bars_fine" /\ ReadsFile["orderflow_coarse"] = "bars_coarse"
    BY FilesAre DEF Names, ReadsFile
  <2>3. IsFrom(ReadsFile[f], TicksOf(Input(f)), disk[ReadsFile[f]])
    BY <1>2, <2>1, <2>2
  <2>4. IsFrom(f, TicksOf(Input(f)), Orderflow(disk[ReadsFile[f]]))
    BY <2>2, <2>3 DEF IsFrom
  <2> QED BY <2>1, <2>2, <2>4
<1>4. CASE DetectStackedImbalances
  <2> DEFINE f == "stacked_imbalances"
  <2>1. f \in Files /\ f \in DOMAIN ReadsFile /\ ReadsFile[f] = "bars_fine"
    BY FilesAre DEF Names, ReadsFile
  <2>2. Write(f, Stacked(disk["bars_fine"]))
    BY <1>4 DEF DetectStackedImbalances
  <2>3. IsFrom("bars_fine", TicksOf(Input(f)), disk["bars_fine"])
    BY <1>2, <2>1, <2>2
  <2>4. IsFrom(f, TicksOf(Input(f)), Stacked(disk["bars_fine"]))
    BY <2>3 DEF IsFrom
  <2> QED BY <2>1, <2>2, <2>4
<1>5. CASE DetectDeltaDivergence
  <2> DEFINE f == "delta_divergence"
  <2>1. f \in Files /\ f \in DOMAIN ReadsFile /\ ReadsFile[f] = "orderflow_fine"
    BY FilesAre DEF Names, ReadsFile
  <2>2. Write(f, Divergence(disk["orderflow_fine"]))
    BY <1>5 DEF DetectDeltaDivergence
  <2>3. IsFrom("orderflow_fine", TicksOf(Input(f)), disk["orderflow_fine"])
    BY <1>2, <2>1, <2>2
  <2>4. IsFrom(f, TicksOf(Input(f)), Divergence(disk["orderflow_fine"]))
    BY <2>3 DEF IsFrom
  <2> QED BY <2>1, <2>2, <2>4
<1>6. CASE ComputeSessionVwap
  <2> DEFINE f == "session_vwap"
  <2>1. f \in Files /\ f \in DOMAIN ReadsFile /\ ReadsFile[f] = "bars_fine"
    BY FilesAre DEF Names, ReadsFile
  <2>2. Write(f, SessionVwap(disk["bars_fine"]))
    BY <1>6 DEF ComputeSessionVwap
  <2>3. IsFrom("bars_fine", TicksOf(Input(f)), disk["bars_fine"])
    BY <1>2, <2>1, <2>2
  <2>4. IsFrom(f, TicksOf(Input(f)), SessionVwap(disk["bars_fine"]))
    BY <2>3 DEF IsFrom
  <2> QED BY <2>1, <2>2, <2>4
<1>7. CASE ComputeFootprint
  <2> DEFINE f == "footprint"
  <2>1. f \in Files /\ Input(f) = paths
    BY FilesAre DEF Names, ReadsFile, Input
  <2>2. Write(f, Footprint(TicksOf(paths), Fine, BinSize))
    BY <1>7 DEF ComputeFootprint
  <2>3. IsFrom(f, TicksOf(Input(f)), Footprint(TicksOf(paths), Fine, BinSize))
    BY <2>1 DEF IsFrom
  <2> QED BY <2>1, <2>2, <2>3
<1>8. CASE ComputeSessionProfiles
  <2>1. CASE Write("session_volume_profile", SessionHistogram(TicksOf(paths)))
    <3>1. "session_volume_profile" \in Files /\ Input("session_volume_profile") = paths
      BY FilesAre DEF Names, ReadsFile, Input
    <3>2. IsFrom("session_volume_profile", TicksOf(Input("session_volume_profile")),
                 SessionHistogram(TicksOf(paths)))
      BY <3>1 DEF IsFrom
    <3> QED BY <2>1, <3>1, <3>2
  <2>2. CASE Write("session_profile_summary", ProfileSummary(TicksOf(paths)))
    <3>1. "session_profile_summary" \in Files /\ Input("session_profile_summary") = paths
      BY FilesAre DEF Names, ReadsFile, Input
    <3>2. IsFrom("session_profile_summary", TicksOf(Input("session_profile_summary")),
                 ProfileSummary(TicksOf(paths)))
      BY <3>1 DEF IsFrom
    <3> QED BY <2>2, <3>1, <3>2
  <2> QED BY <1>8, <2>1, <2>2 DEF ComputeSessionProfiles
<1>9. CASE ComputeDevelopingPoc
  <2> DEFINE f == "developing_poc"
  <2>1. f \in Files /\ Input(f) = paths
    BY FilesAre DEF Names, ReadsFile, Input
  <2>2. PICK table \in DevelopingPocs(TicksOf(paths)) : Write(f, table)
    BY <1>9 DEF ComputeDevelopingPoc
  <2>3. IsFrom(f, TicksOf(Input(f)), table)
    BY <2>1, <2>2 DEF IsFrom
  <2> QED BY <2>1, <2>2, <2>3
<1>10. CASE ComputeStatistics
  <2>1. PICK f \in {"large_trades", "absorption_candidates", "iceberg_candidates"} : Write(f, NULL)
    BY <1>10 DEF ComputeStatistics
  <2>2. f \in Files
    BY FilesAre DEF Names
  <2>3. IsFrom(f, TicksOf(Input(f)), NULL)
    BY DEF IsFrom
  <2> QED BY <2>1, <2>2, <2>3
<1>11. CASE ComputeVolatility
  <2>1. CASE Write("atr", TrueRanges(disk["bars_coarse"]))
    <3>1. "atr" \in Files /\ "atr" \in DOMAIN ReadsFile /\ ReadsFile["atr"] = "bars_coarse"
      BY FilesAre DEF Names, ReadsFile
    <3>2. IsFrom("bars_coarse", TicksOf(Input("atr")), disk["bars_coarse"])
      BY <1>2, <2>1, <3>1
    <3>3. IsFrom("atr", TicksOf(Input("atr")), TrueRanges(disk["bars_coarse"]))
      BY <3>2 DEF IsFrom
    <3> QED BY <2>1, <3>1, <3>3
  <2>2. CASE Write("realized_vol", NULL)
    <3>1. "realized_vol" \in Files /\ IsFrom("realized_vol", TicksOf(Input("realized_vol")), NULL)
      BY FilesAre DEF Names, IsFrom
    <3> QED BY <2>2, <3>1
  <2> QED BY <1>11, <2>1, <2>2 DEF ComputeVolatility
<1> QED BY <1>1, <1>3, <1>4, <1>5, <1>6, <1>7, <1>8, <1>9, <1>10, <1>11 DEF Generate

LEMMA ContentsInvariance == Spec => []Contents
<1>1. Init => Contents
  BY DEF Init, Contents
<1>2. ASSUME Provenance, Contents, [Next]_vars PROVE Contents'
  <2>1. CASE UNCHANGED <<ticks, disk, made>>
    BY <1>2, <2>1 DEF Contents, Behind, TicksOf
  <2>2. ASSUME NEW f \in Files, NEW table, Write(f, table), IsFrom(f, TicksOf(Input(f)), table)
        PROVE  Contents'
    <3>1. /\ disk' = [disk EXCEPT ![f] = table] /\ made' = [made EXCEPT ![f] = Input(f)]
          /\ ticks' = ticks
      BY <2>2 DEF Write
    <3>2. DOMAIN disk = Files /\ DOMAIN made = Files
      BY <1>2 DEF Contents, Provenance, TypeOK
    <3>3. ASSUME NEW g \in Files, made'[g] # {} PROVE IsFrom(g, Behind(g)', disk'[g])
      <4>1. CASE g = f
        <5>1. disk'[g] = table /\ Behind(g)' = TicksOf(Input(f))
          BY <3>1, <3>2, <4>1 DEF Behind, TicksOf
        <5> QED BY <2>2, <4>1, <5>1
      <4>2. CASE g # f
        <5>1. disk'[g] = disk[g] /\ made'[g] = made[g] /\ Behind(g)' = Behind(g)
          BY <3>1, <3>2, <4>2 DEF Behind, TicksOf
        <5> QED BY <1>2, <3>3, <5>1 DEF Contents
      <4> QED BY <4>1, <4>2
    <3>4. DOMAIN disk' = Files
      BY <3>1, <3>2
    <3> QED BY <3>3, <3>4 DEF Contents
  <2>3. CASE Generate
    <3>1. CASE \E f \in {"atr", "realized_vol"} : Skip(f)
      BY <2>1, <3>1 DEF Skip
    <3> QED BY <1>2, <2>2, <2>3, <3>1, GenerateIsFrom
  <2>4. MonthChanges \/ Start \/ Raise \/ UNCHANGED vars => UNCHANGED <<ticks, disk, made>>
    BY DEF MonthChanges, Start, Raise, vars
  <2> QED BY <1>2, <2>1, <2>3, <2>4 DEF Next
<1> QED BY <1>1, <1>2, ProvenanceInvariance, PTL DEF Spec

----------------------------------------------------------------------------
(* Trades, and the bars of some trades *)

LEMMA BehindIsFinite ==
  ASSUME Provenance, NEW f \in Files
  PROVE  IsFiniteSet(Behind(f)) /\ Behind(f) \subseteq Trade
<1> DEFINE M == made[f]
<1>1. M \subseteq DOMAIN ticks /\ IsFiniteSet(DOMAIN ticks)
  BY DEF Provenance, TypeOK, MonthsOK
<1>2. IsFiniteSet(M) /\ \A m \in M : IsFiniteSet(ticks[m]) /\ ticks[m] \subseteq Trade
  BY <1>1, FS_Subset DEF Provenance, MonthsOK
<1> HIDE DEF M
<1>3. IsFiniteSet({ticks[m] : m \in M})
  BY <1>2, ImageIsFinite
<1>4. IsFiniteSet(UNION {ticks[m] : m \in M})
  BY <1>2, <1>3, FS_UNION
<1>5. Behind(f) = UNION {ticks[m] : m \in M}
  BY DEF Behind, TicksOf, M
<1> QED BY <1>2, <1>4, <1>5

\* What the trades are weighed with.
Volumes == [x \in Trade |-> x.qty]
Quotes == [x \in Trade |-> Quote(x)]
Buys == [x \in Trade |-> TakerBuy(x)]
Sells == [x \in Trade |-> TakerSell(x)]
Signs == [x \in Trade |-> Signed(x)]

LEMMA WeightsAre ==
  ASSUME NEW x \in Trade
  PROVE  /\ Volumes[x] = x.qty /\ Quotes[x] = Quote(x) /\ Buys[x] = TakerBuy(x)
         /\ Sells[x] = TakerSell(x) /\ Signs[x] = Signed(x)
         /\ Volumes[x] \in Nat /\ Quotes[x] \in Nat /\ Buys[x] \in Nat /\ Sells[x] \in Nat
         /\ Signs[x] \in Int /\ Signs[x] = Buys[x] - Sells[x]
         /\ x.t \in Nat /\ x.price \in Nat
<1>1. x.qty \in Nat /\ x.price \in Nat /\ x.t \in Nat /\ x.maker \in BOOLEAN
  BY DEF Trade
<1>2. x.price * x.qty \in Nat
  BY <1>1
<1> QED BY <1>1, <1>2 DEF Volumes, Quotes, Buys, Sells, Signs, Quote, TakerBuy, TakerSell, Signed

LEMMA SumsOfTrades ==
  ASSUME NEW S, IsFiniteSet(S), S \subseteq Trade
  PROVE  /\ Sum(S, LAMBDA x : x.qty) = SumFunctionOnSet(Volumes, S)
         /\ Sum(S, Quote) = SumFunctionOnSet(Quotes, S)
         /\ Sum(S, TakerBuy) = SumFunctionOnSet(Buys, S)
         /\ Sum(S, TakerSell) = SumFunctionOnSet(Sells, S)
         /\ Sum(S, Signed) = SumFunctionOnSet(Signs, S)
<1>1. \A x \in S : x \in Trade
  OBVIOUS
<1>2. Sum(S, LAMBDA x : x.qty) = SumFunctionOnSet(Volumes, S)
  <2> DEFINE v == [x \in S |-> x.qty]
  <2>1. \A x \in S : v[x] \in Int /\ v[x] = Volumes[x]
    BY WeightsAre
  <2>2. DOMAIN v = S /\ Sum(S, LAMBDA x : x.qty) = SumFunctionOnSet(v, DOMAIN v)
    BY DEF Sum, SumFunction
  <2> QED BY <2>1, <2>2, SumDependsOnValues
<1>3. Sum(S, Quote) = SumFunctionOnSet(Quotes, S)
  <2> DEFINE v == [x \in S |-> Quote(x)]
  <2>1. \A x \in S : v[x] \in Int /\ v[x] = Quotes[x]
    BY WeightsAre
  <2>2. DOMAIN v = S /\ Sum(S, Quote) = SumFunctionOnSet(v, DOMAIN v)
    BY DEF Sum, SumFunction
  <2> QED BY <2>1, <2>2, SumDependsOnValues
<1>4. Sum(S, TakerBuy) = SumFunctionOnSet(Buys, S)
  <2> DEFINE v == [x \in S |-> TakerBuy(x)]
  <2>1. \A x \in S : v[x] \in Int /\ v[x] = Buys[x]
    BY WeightsAre
  <2>2. DOMAIN v = S /\ Sum(S, TakerBuy) = SumFunctionOnSet(v, DOMAIN v)
    BY DEF Sum, SumFunction
  <2> QED BY <2>1, <2>2, SumDependsOnValues
<1>5. Sum(S, TakerSell) = SumFunctionOnSet(Sells, S)
  <2> DEFINE v == [x \in S |-> TakerSell(x)]
  <2>1. \A x \in S : v[x] \in Int /\ v[x] = Sells[x]
    BY WeightsAre
  <2>2. DOMAIN v = S /\ Sum(S, TakerSell) = SumFunctionOnSet(v, DOMAIN v)
    BY DEF Sum, SumFunction
  <2> QED BY <2>1, <2>2, SumDependsOnValues
<1>6. Sum(S, Signed) = SumFunctionOnSet(Signs, S)
  <2> DEFINE v == [x \in S |-> Signed(x)]
  <2>1. \A x \in S : v[x] \in Int /\ v[x] = Signs[x]
    BY WeightsAre
  <2>2. DOMAIN v = S /\ Sum(S, Signed) = SumFunctionOnSet(v, DOMAIN v)
    BY DEF Sum, SumFunction
  <2> QED BY <2>1, <2>2, SumDependsOnValues
<1> QED BY <1>2, <1>3, <1>4, <1>5, <1>6 DEF Sum, SumFunction

\* The sums of trades are natural numbers, and the signed one is a difference.
LEMMA SumsAreNumbers ==
  ASSUME NEW S, IsFiniteSet(S), S \subseteq Trade
  PROVE  /\ SumFunctionOnSet(Volumes, S) \in Nat /\ SumFunctionOnSet(Quotes, S) \in Nat
         /\ SumFunctionOnSet(Buys, S) \in Nat /\ SumFunctionOnSet(Sells, S) \in Nat
         /\ SumFunctionOnSet(Signs, S) \in Int
         /\ SumFunctionOnSet(Signs, S) = SumFunctionOnSet(Buys, S) - SumFunctionOnSet(Sells, S)
<1>1. \A x \in S : /\ Volumes[x] \in Nat /\ Quotes[x] \in Nat /\ Buys[x] \in Nat /\ Sells[x] \in Nat
                   /\ Signs[x] \in Int /\ Signs[x] = Buys[x] - Sells[x]
  BY WeightsAre
<1>2. \A x \in S : Buys[x] \in Int /\ Sells[x] \in Int
  BY <1>1
<1>3. SumFunctionOnSet(Signs, S) = SumFunctionOnSet(Buys, S) - SumFunctionOnSet(Sells, S)
  BY <1>1, <1>2, SumOfDifference
<1>4. SumFunctionOnSet(Signs, S) \in Int
  BY <1>1, SumIsInt
<1>5. SumFunctionOnSet(Volumes, S) \in Nat /\ SumFunctionOnSet(Quotes, S) \in Nat
  BY <1>1, SumIsNat
<1>6. SumFunctionOnSet(Buys, S) \in Nat /\ SumFunctionOnSet(Sells, S) \in Nat
  BY <1>1, SumIsNat
<1> QED BY <1>3, <1>4, <1>5, <1>6

LEMMA BarTimesAre ==
  ASSUME NEW T, IsFiniteSet(T), T \subseteq Trade, NEW width \in Nat \ {0}
  PROVE  /\ IsFiniteSet(BarTimes(T, width)) /\ BarTimes(T, width) \subseteq Nat
         /\ \A k \in BarTimes(T, width) : /\ IsFiniteSet(InBar(T, k, width))
                                          /\ InBar(T, k, width) \subseteq T
                                          /\ InBar(T, k, width) # {}
<1>1. IsFiniteSet(BarTimes(T, width))
  <2> DEFINE f == [x \in T |-> BarTime(x.t, width)]
  <2>1. BarTimes(T, width) = {f[x] : x \in T}
    BY DEF BarTimes
  <2> HIDE DEF f
  <2> QED BY <2>1, ImageIsFinite
<1>2. BarTimes(T, width) \subseteq Nat
  BY BarTimeIs, WeightsAre DEF BarTimes
<1>3. ASSUME NEW k \in BarTimes(T, width)
      PROVE  /\ IsFiniteSet(InBar(T, k, width)) /\ InBar(T, k, width) \subseteq T
             /\ InBar(T, k, width) # {}
  BY FS_Subset DEF BarTimes, InBar
<1> QED BY <1>1, <1>2, <1>3

\* A selection chooses one of the values for each key.
LEMMA SelectionsChoose ==
  ASSUME NEW f, NEW h \in Selections(f), \A k \in DOMAIN f : f[k] # {}
  PROVE  DOMAIN h = DOMAIN f /\ \A k \in DOMAIN f : h[k] \in f[k]
<1> DEFINE tied == {k \in DOMAIN f : Cardinality(f[k]) > 1}
           ways == {g \in [tied -> UNION {f[k] : k \in tied}] : \A k \in tied : g[k] \in f[k]}
<1>1. PICK g \in ways :
        h = [k \in DOMAIN f |-> IF k \in tied THEN g[k] ELSE CHOOSE x \in f[k] : TRUE]
  BY DEF Selections
<1>2. \A k \in tied : g[k] \in f[k]
  OBVIOUS
<1> HIDE DEF tied, ways
<1>3. ASSUME NEW k \in DOMAIN f PROVE h[k] \in f[k]
  <2>1. CASE k \in tied
    BY <1>1, <1>2, <2>1
  <2>2. CASE k \notin tied
    BY <1>1, <2>2
  <2> QED BY <2>1, <2>2
<1>4. DOMAIN h = DOMAIN f
  BY <1>1
<1> QED BY <1>3, <1>4

LEMMA EdgesAreThere ==
  ASSUME NEW T, IsFiniteSet(T), T \subseteq Trade, T # {}
  PROVE  FirstOf(T) # {} /\ LastOf(T) # {} /\ PricesOf(FirstOf(T)) # {} /\ PricesOf(LastOf(T)) # {}
<1> DEFINE f == [x \in T |-> x.t]
           times == {f[x] : x \in T}
<1>1. \A x \in T : f[x] = x.t /\ x.t \in Int
  BY WeightsAre
<1>2. times \subseteq Int /\ times # {}
  BY <1>1
<1>3. IsFiniteSet(times)
  <2> HIDE DEF f
  <2> QED BY ImageIsFinite
<1> HIDE DEF f
<1>4. PICK x \in T : \A y \in T : f[x] <= f[y]
  <2>1. Min(times) \in times /\ \A t \in times : Min(times) <= t
    BY <1>2, <1>3, MinIsSmallest
  <2> QED BY <2>1
<1>5. PICK z \in T : \A y \in T : f[y] <= f[z]
  <2>1. Max(times) \in times /\ \A t \in times : t <= Max(times)
    BY <1>2, <1>3, MaxIsLargest
  <2> QED BY <2>1
<1>6. x \in FirstOf(T) /\ z \in LastOf(T)
  BY <1>1, <1>4, <1>5 DEF FirstOf, LastOf
<1> QED BY <1>6 DEF PricesOf

\* A table of bars: one for every interval in which there is a trade, with the sums,
\* the range, and an open and a close of its trades.
LEMMA BarsHold ==
  ASSUME NEW T, IsFiniteSet(T), T \subseteq Trade, NEW width \in Nat \ {0},
         NEW bars \in BarTables(T, width)
  PROVE  /\ DOMAIN bars = BarTimes(T, width)
         /\ \A k \in BarTimes(T, width) :
              /\ bars[k].volume = SumFunctionOnSet(Volumes, InBar(T, k, width))
              /\ bars[k].quote = SumFunctionOnSet(Quotes, InBar(T, k, width))
              /\ bars[k].buy = SumFunctionOnSet(Buys, InBar(T, k, width))
              /\ bars[k].sell = SumFunctionOnSet(Sells, InBar(T, k, width))
              /\ bars[k].count = Cardinality(InBar(T, k, width))
              /\ bars[k].high = Max(PricesOf(InBar(T, k, width)))
              /\ bars[k].low = Min(PricesOf(InBar(T, k, width)))
              /\ bars[k].open \in PricesOf(FirstOf(InBar(T, k, width)))
              /\ bars[k].close \in PricesOf(LastOf(InBar(T, k, width)))
<1> DEFINE B(k) == InBar(T, k, width)
<1>1. PICK open \in Opens(T, width), close \in Closes(T, width) :
        bars = Bars(T, width, open, close)
  BY DEF BarTables
<1>2. \A k \in BarTimes(T, width) : /\ IsFiniteSet(B(k)) /\ B(k) \subseteq Trade /\ B(k) # {}
  BY BarTimesAre
<1>3. \A k \in BarTimes(T, width) : PricesOf(FirstOf(B(k))) # {} /\ PricesOf(LastOf(B(k))) # {}
  BY <1>2, EdgesAreThere
<1>4. \A k \in BarTimes(T, width) : open[k] \in PricesOf(FirstOf(B(k)))
  <2> DEFINE f == [k \in BarTimes(T, width) |-> PricesOf(FirstOf(InBar(T, k, width)))]
  <2>1. open \in Selections(f)
    BY DEF Opens
  <2>2. DOMAIN f = BarTimes(T, width) /\ \A k \in DOMAIN f : f[k] = PricesOf(FirstOf(B(k)))
    OBVIOUS
  <2> HIDE DEF f
  <2> QED BY <1>3, <2>1, <2>2, SelectionsChoose
<1>5. \A k \in BarTimes(T, width) : close[k] \in PricesOf(LastOf(B(k)))
  <2> DEFINE f == [k \in BarTimes(T, width) |-> PricesOf(LastOf(InBar(T, k, width)))]
  <2>1. close \in Selections(f)
    BY DEF Closes
  <2>2. DOMAIN f = BarTimes(T, width) /\ \A k \in DOMAIN f : f[k] = PricesOf(LastOf(B(k)))
    OBVIOUS
  <2> HIDE DEF f
  <2> QED BY <1>3, <2>1, <2>2, SelectionsChoose
<1>6. DOMAIN bars = BarTimes(T, width)
  BY <1>1 DEF Bars
<1>7. ASSUME NEW k \in BarTimes(T, width)
      PROVE  /\ bars[k].volume = Sum(B(k), LAMBDA x : x.qty) /\ bars[k].quote = Sum(B(k), Quote)
             /\ bars[k].buy = Sum(B(k), TakerBuy) /\ bars[k].sell = Sum(B(k), TakerSell)
             /\ bars[k].count = Cardinality(B(k)) /\ bars[k].high = Max(PricesOf(B(k)))
             /\ bars[k].low = Min(PricesOf(B(k)))
             /\ bars[k].open = open[k] /\ bars[k].close = close[k]
  BY <1>1 DEF Bars, Sum, SumFunction
<1>8. ASSUME NEW k \in BarTimes(T, width)
      PROVE  /\ bars[k].volume = SumFunctionOnSet(Volumes, B(k))
             /\ bars[k].quote = SumFunctionOnSet(Quotes, B(k))
             /\ bars[k].buy = SumFunctionOnSet(Buys, B(k))
             /\ bars[k].sell = SumFunctionOnSet(Sells, B(k))
  BY <1>2, <1>7, SumsOfTrades DEF Sum, SumFunction
<1> QED BY <1>4, <1>5, <1>6, <1>7, <1>8

\* The trades of some bars.
TradesIn(T, width, K) == {x \in T : BarTime(x.t, width) \in K}

\* The trades before an instant, and those of them that are in the session of k, or
\* in bars that begin in it.
Before(T, t) == {x \in T : x.t < t}
BeforeToday(T, t, k) == {x \in Before(T, t) : SessionOf(x.t) = SessionOf(k)}
TodaysBarsOf(T, w, k) ==
  {x \in Before(T, k + w) : SessionOf(BarTime(x.t, w)) = SessionOf(k)}

\* A row of session_vwap for some trades.
VwapRow(S) == [quote |-> SumFunctionOnSet(Quotes, S), volume |-> SumFunctionOnSet(Volumes, S)]

\* A sum over bars of what sums up the trades of each is the sum over their trades.
LEMMA SumOverBars ==
  ASSUME NEW T, IsFiniteSet(T), T \subseteq Trade, NEW width \in Nat \ {0},
         NEW K \in SUBSET BarTimes(T, width), NEW w, \A x \in Trade : w[x] \in Int,
         NEW p, \A k \in K : p[k] = SumFunctionOnSet(w, InBar(T, k, width))
  PROVE  SumFunctionOnSet(p, K) = SumFunctionOnSet(w, TradesIn(T, width, K))
<1> DEFINE S == {x \in T : BarTime(x.t, width) \in K}
           P == [k \in K |-> InBar(T, k, width)]
<1>1. IsFiniteSet(S) /\ IsFiniteSet(K)
  BY BarTimesAre, FS_Subset
<1>2. \A x \in S : w[x] \in Int
  OBVIOUS
<1>3. \A k \in K : P[k] \subseteq S
  BY DEF InBar
<1>4. \A x \in S : \E k \in K : x \in P[k]
  BY DEF InBar
<1>5. \A j, k \in K : j # k => P[j] \cap P[k] = {}
  BY DEF InBar
<1>6. \A k \in K : p[k] = SumFunctionOnSet(w, P[k])
  OBVIOUS
<1>7. SumFunctionOnSet(w, S) = SumFunctionOnSet(p, K)
  <2> HIDE DEF S, P
  <2> QED BY <1>1, <1>2, <1>3, <1>4, <1>5, <1>6, SumOfParts
<1> QED BY <1>7 DEF TradesIn

\* The running sums of the queries over bars are sums over trades.
LEMMA OrderflowHolds ==
  ASSUME NEW T, IsFiniteSet(T), T \subseteq Trade, NEW width \in Nat \ {0},
         NEW bars \in BarTables(T, width)
  PROVE  /\ DOMAIN Orderflow(bars) = BarTimes(T, width)
         /\ \A k \in BarTimes(T, width) :
              /\ Orderflow(bars)[k].close = bars[k].close
              /\ Orderflow(bars)[k].delta = SumFunctionOnSet(Signs, InBar(T, k, width))
              /\ Orderflow(bars)[k].cumulative
                   = SumFunctionOnSet(Signs, TradesIn(T, width, UpTo(bars, k)))
              /\ Orderflow(bars)[k].session
                   = SumFunctionOnSet(Signs, TradesIn(T, width, SessionUpTo(bars, k)))
<1> DEFINE delta == [j \in BarTimes(T, width) |-> bars[j].buy - bars[j].sell]
<1>1. DOMAIN bars = BarTimes(T, width)
  BY BarsHold
<1>2. \A j \in BarTimes(T, width) : delta[j] = SumFunctionOnSet(Signs, InBar(T, j, width))
  <2> TAKE j \in BarTimes(T, width)
  <2>1. bars[j].buy = SumFunctionOnSet(Buys, InBar(T, j, width))
        /\ bars[j].sell = SumFunctionOnSet(Sells, InBar(T, j, width))
    BY BarsHold
  <2>2. IsFiniteSet(InBar(T, j, width)) /\ InBar(T, j, width) \subseteq Trade
    BY BarTimesAre
  <2> QED BY <2>1, <2>2, SumsAreNumbers
<1>3. \A x \in Trade : Signs[x] \in Int
  BY WeightsAre
<1>4. ASSUME NEW K \in SUBSET BarTimes(T, width)
      PROVE  SumFunctionOnSet([j \in K |-> bars[j].buy - bars[j].sell], K)
               = SumFunctionOnSet(Signs, TradesIn(T, width, K))
  <2> DEFINE p == [j \in K |-> bars[j].buy - bars[j].sell]
  <2>1. \A j \in K : p[j] = SumFunctionOnSet(Signs, InBar(T, j, width))
    BY <1>2
  <2> HIDE DEF p
  <2>2. SumFunctionOnSet(p, K) = SumFunctionOnSet(Signs, TradesIn(T, width, K))
    BY <1>3, <2>1, SumOverBars
  <2> QED BY <2>2 DEF p
<1>5. ASSUME NEW k \in BarTimes(T, width)
      PROVE  UpTo(bars, k) \subseteq BarTimes(T, width) /\ SessionUpTo(bars, k) \subseteq BarTimes(T, width)
  BY <1>1 DEF UpTo, SessionUpTo
<1>6. ASSUME NEW k \in BarTimes(T, width)
      PROVE  /\ Orderflow(bars)[k].close = bars[k].close
             /\ Orderflow(bars)[k].delta = bars[k].buy - bars[k].sell
             /\ Orderflow(bars)[k].cumulative
                  = SumFunctionOnSet([j \in UpTo(bars, k) |-> bars[j].buy - bars[j].sell], UpTo(bars, k))
             /\ Orderflow(bars)[k].session
                  = SumFunctionOnSet([j \in SessionUpTo(bars, k) |-> bars[j].buy - bars[j].sell],
                                     SessionUpTo(bars, k))
  BY <1>1 DEF Orderflow, Sum, SumFunction
<1>7. DOMAIN Orderflow(bars) = BarTimes(T, width)
  BY <1>1 DEF Orderflow
<1> HIDE DEF delta
<1> QED BY <1>2, <1>4, <1>5, <1>6, <1>7 DEF delta

LEMMA SessionVwapHolds ==
  ASSUME NEW T, IsFiniteSet(T), T \subseteq Trade, NEW width \in Nat \ {0},
         NEW bars \in BarTables(T, width)
  PROVE  /\ DOMAIN SessionVwap(bars) = BarTimes(T, width)
         /\ \A k \in BarTimes(T, width) :
              SessionVwap(bars)[k] = VwapRow(TradesIn(T, width, SessionUpTo(bars, k)))
<1>1. DOMAIN bars = BarTimes(T, width)
  BY BarsHold
<1>2. \A x \in Trade : Quotes[x] \in Int /\ Volumes[x] \in Int
  BY WeightsAre
<1>3. ASSUME NEW K \in SUBSET BarTimes(T, width)
      PROVE  /\ SumFunctionOnSet([j \in K |-> bars[j].quote], K)
                  = SumFunctionOnSet(Quotes, TradesIn(T, width, K))
             /\ SumFunctionOnSet([j \in K |-> bars[j].volume], K)
                  = SumFunctionOnSet(Volumes, TradesIn(T, width, K))
  <2> DEFINE q == [j \in K |-> bars[j].quote]
             v == [j \in K |-> bars[j].volume]
  <2>1. \A j \in K : /\ q[j] = SumFunctionOnSet(Quotes, InBar(T, j, width))
                     /\ v[j] = SumFunctionOnSet(Volumes, InBar(T, j, width))
    BY BarsHold
  <2> HIDE DEF q, v
  <2>2. SumFunctionOnSet(q, K) = SumFunctionOnSet(Quotes, TradesIn(T, width, K))
    BY <1>2, <2>1, SumOverBars
  <2>3. SumFunctionOnSet(v, K) = SumFunctionOnSet(Volumes, TradesIn(T, width, K))
    BY <1>2, <2>1, SumOverBars
  <2> QED BY <2>2, <2>3 DEF q, v
<1>4. ASSUME NEW k \in BarTimes(T, width)
      PROVE  SessionVwap(bars)[k] =
               [quote |-> SumFunctionOnSet([j \in SessionUpTo(bars, k) |-> bars[j].quote], SessionUpTo(bars, k)),
                volume |-> SumFunctionOnSet([j \in SessionUpTo(bars, k) |-> bars[j].volume], SessionUpTo(bars, k))]
  BY <1>1 DEF SessionVwap, Sum, SumFunction
<1>5. ASSUME NEW k \in BarTimes(T, width)
      PROVE  SessionUpTo(bars, k) \subseteq BarTimes(T, width)
  BY <1>1 DEF UpTo, SessionUpTo
<1>6. DOMAIN SessionVwap(bars) = BarTimes(T, width)
  BY <1>1 DEF SessionVwap
<1> QED BY <1>3, <1>4, <1>5, <1>6 DEF VwapRow

\* The trades of the bars up to k are those before the end of k.
LEMMA TradesUpTo ==
  ASSUME NEW T, T \subseteq Trade, NEW width \in Nat \ {0}, NEW bars,
         DOMAIN bars = BarTimes(T, width), NEW k \in BarTimes(T, width)
  PROVE  /\ TradesIn(T, width, UpTo(bars, k)) = Before(T, k + width)
         /\ TradesIn(T, width, SessionUpTo(bars, k)) = TodaysBarsOf(T, width, k)
         /\ width = Fine =>
              TradesIn(T, width, SessionUpTo(bars, k)) = BeforeToday(T, k + width, k)
<1>1. PICK u \in T : k = BarTime(u.t, width)
  BY DEF BarTimes
<1>2. \A x \in T : x.t \in Nat
  BY WeightsAre
<1>3. \A x \in T : BarTime(x.t, width) \in BarTimes(T, width)
  BY DEF BarTimes
<1>4. \A x \in T : BarTime(x.t, width) <= k <=> x.t < k + width
  BY <1>1, <1>2, BarTimesInOrder
<1>5. \A x \in T : BarTime(x.t, width) \in UpTo(bars, k) <=> x.t < k + width
  BY <1>3, <1>4 DEF UpTo
<1>6. ASSUME width = Fine, NEW x \in T
      PROVE  BarTime(x.t, width) \in SessionUpTo(bars, k)
               <=> x.t < k + width /\ SessionOf(x.t) = SessionOf(k)
  <2>1. SessionOf(BarTime(x.t, width)) = SessionOf(x.t)
    BY <1>2, <1>6, SessionOfFine
  <2> QED BY <1>5, <2>1 DEF SessionUpTo
<1>7. \A x \in T : BarTime(x.t, width) \in SessionUpTo(bars, k)
                    <=> x.t < k + width /\ SessionOf(BarTime(x.t, width)) = SessionOf(k)
  BY <1>5 DEF SessionUpTo
<1> QED BY <1>5, <1>6, <1>7 DEF TradesIn, Before, BeforeToday, TodaysBarsOf

LEMMA RunningSums ==
  ASSUME Provenance, Contents
  PROVE  RunningSumsMatchTicks
<1>1. Fine \in Nat \ {0} /\ Coarse \in Nat \ {0}
  BY IntervalsAssumption
<1>2. \A f \in Files : IsFiniteSet(Behind(f)) /\ Behind(f) \subseteq Trade
  BY BehindIsFinite
<1>3. {"orderflow_fine", "orderflow_coarse", "session_vwap"} \subseteq Files
  BY FilesAre DEF Names
<1>4. /\ Width[ReadsFile["orderflow_fine"]] = Fine
      /\ Width[ReadsFile["orderflow_coarse"]] = Coarse
  BY DEF Width, ReadsFile
<1>5. ASSUME NEW f \in Files, NEW t, NEW k
      PROVE  /\ IsFiniteSet(Before(Behind(f), t)) /\ Before(Behind(f), t) \subseteq Trade
             /\ IsFiniteSet(BeforeToday(Behind(f), t, k))
             /\ BeforeToday(Behind(f), t, k) \subseteq Trade
             /\ \A w : /\ IsFiniteSet(TodaysBarsOf(Behind(f), w, k))
                      /\ TodaysBarsOf(Behind(f), w, k) \subseteq Trade
  BY <1>2, FS_Subset DEF Before, BeforeToday, TodaysBarsOf
<1>6. ASSUME NEW f \in {"orderflow_fine", "orderflow_coarse"}, made[f] # {}, NEW k \in DOMAIN disk[f]
      PROVE  /\ disk[f][k].cumulative = Sum(Before(Behind(f), k + Width[ReadsFile[f]]), Signed)
             /\ disk[f][k].session
                  = Sum(TodaysBarsOf(Behind(f), Width[ReadsFile[f]], k), Signed)
             /\ f = "orderflow_fine" =>
                  disk[f][k].session = Sum(BeforeToday(Behind(f), k + Fine, k), Signed)
  <2> DEFINE T == Behind(f)
             width == Width[ReadsFile[f]]
  <2>1. width \in {Fine, Coarse} /\ (f = "orderflow_fine" => width = Fine)
    BY <1>4
  <2>2. PICK bars \in BarTables(T, width) : disk[f] = Orderflow(bars)
    BY <1>3, <1>4, <1>6 DEF Contents, IsFrom
  <2>3. IsFiniteSet(T) /\ T \subseteq Trade /\ width \in Nat \ {0}
    BY <1>1, <1>2, <1>3, <2>1
  <2>4. /\ IsFiniteSet(Before(T, k + width)) /\ Before(T, k + width) \subseteq Trade
        /\ IsFiniteSet(BeforeToday(T, k + Fine, k)) /\ BeforeToday(T, k + Fine, k) \subseteq Trade
        /\ IsFiniteSet(TodaysBarsOf(T, width, k)) /\ TodaysBarsOf(T, width, k) \subseteq Trade
    BY <1>3, <1>5
  <2> HIDE DEF T, width
  <2>5. DOMAIN bars = BarTimes(T, width)
    BY <2>2, <2>3, BarsHold
  <2>6. /\ k \in BarTimes(T, width)
        /\ disk[f][k].cumulative = SumFunctionOnSet(Signs, TradesIn(T, width, UpTo(bars, k)))
        /\ disk[f][k].session = SumFunctionOnSet(Signs, TradesIn(T, width, SessionUpTo(bars, k)))
    BY <1>6, <2>2, <2>3, OrderflowHolds
  <2>7. /\ TradesIn(T, width, UpTo(bars, k)) = Before(T, k + width)
        /\ TradesIn(T, width, SessionUpTo(bars, k)) = TodaysBarsOf(T, width, k)
        /\ width = Fine => TradesIn(T, width, SessionUpTo(bars, k)) = BeforeToday(T, k + width, k)
    BY <2>3, <2>5, <2>6, TradesUpTo
  <2>8. /\ Sum(Before(T, k + width), Signed) = SumFunctionOnSet(Signs, Before(T, k + width))
        /\ Sum(BeforeToday(T, k + Fine, k), Signed)
             = SumFunctionOnSet(Signs, BeforeToday(T, k + Fine, k))
        /\ Sum(TodaysBarsOf(T, width, k), Signed)
             = SumFunctionOnSet(Signs, TodaysBarsOf(T, width, k))
    BY <2>4, SumsOfTrades
  <2> QED BY <2>1, <2>6, <2>7, <2>8 DEF T, width
<1>7. ASSUME made["session_vwap"] # {}, NEW k \in DOMAIN disk["session_vwap"]
      PROVE  disk["session_vwap"][k] = VwapRow(BeforeToday(Behind("session_vwap"), k + Fine, k))
  <2> DEFINE T == Behind("session_vwap")
  <2>1. IsFiniteSet(T) /\ T \subseteq Trade
    BY <1>2, <1>3
  <2>2. PICK bars \in BarTables(T, Fine) : disk["session_vwap"] = SessionVwap(bars)
    BY <1>3, <1>7 DEF Contents, IsFrom
  <2> HIDE DEF T
  <2>3. DOMAIN bars = BarTimes(T, Fine)
    BY <1>1, <2>1, <2>2, BarsHold
  <2>4. /\ k \in BarTimes(T, Fine)
        /\ disk["session_vwap"][k] = VwapRow(TradesIn(T, Fine, SessionUpTo(bars, k)))
    BY <1>1, <1>7, <2>1, <2>2, SessionVwapHolds
  <2>5. TradesIn(T, Fine, SessionUpTo(bars, k)) = BeforeToday(T, k + Fine, k)
    BY <1>1, <2>1, <2>3, <2>4, TradesUpTo
  <2> QED BY <2>4, <2>5 DEF T
<1>8. ASSUME NEW S, IsFiniteSet(S), S \subseteq Trade
      PROVE  VwapRow(S) = [quote |-> Sum(S, Quote), volume |-> Sum(S, LAMBDA x : x.qty)]
  BY <1>8, SumsOfTrades DEF VwapRow, Sum, SumFunction
<1>9. ASSUME made["session_vwap"] # {}, NEW k \in DOMAIN disk["session_vwap"]
      PROVE  disk["session_vwap"][k] =
               [quote |-> Sum(BeforeToday(Behind("session_vwap"), k + Fine, k), Quote),
                volume |-> Sum(BeforeToday(Behind("session_vwap"), k + Fine, k), LAMBDA x : x.qty)]
  BY <1>3, <1>5, <1>7, <1>8, <1>9 DEF Sum, SumFunction
<1> QED BY <1>6, <1>9
        DEF RunningSumsMatchTicks, Before, BeforeToday, TodaysBarsOf, Sum, SumFunction

\* The running sums over bars, of all time and of the session that the bars begin in,
\* are the sums over the trades behind the file up to the end of the bar, however the
\* file came to be; in fine bars the session's are those of its trades, in coarse bars
\* a bar over the edge of a session is not cut (orderflow.py:36-56, vwap.py).
THEOREM RunningSumsAreRight == Spec => []RunningSumsMatchTicks
<1>1. Provenance /\ Contents => RunningSumsMatchTicks
  BY RunningSums
<1> QED BY <1>1, ProvenanceInvariance, ContentsInvariance, PTL

----------------------------------------------------------------------------
(* Bars of two intervals *)

\* The extremes of some trades' prices are prices of trades.
LEMMA PricesAre ==
  ASSUME NEW T, IsFiniteSet(T), T \subseteq Trade, T # {}
  PROVE  /\ IsFiniteSet(PricesOf(T)) /\ PricesOf(T) \subseteq Nat /\ PricesOf(T) # {}
         /\ \E x \in T : x.price = Max(PricesOf(T))
         /\ \E x \in T : x.price = Min(PricesOf(T))
         /\ \A x \in T : x.price <= Max(PricesOf(T)) /\ Min(PricesOf(T)) <= x.price
         /\ Max(PricesOf(T)) \in Nat /\ Min(PricesOf(T)) \in Nat
<1> DEFINE f == [x \in T |-> x.price]
<1>1. PricesOf(T) = {f[x] : x \in T} /\ \A x \in T : f[x] = x.price
  BY DEF PricesOf
<1>2. IsFiniteSet(PricesOf(T))
  <2> HIDE DEF f
  <2> QED BY <1>1, ImageIsFinite
<1>3. PricesOf(T) \subseteq Nat /\ PricesOf(T) # {}
  BY WeightsAre DEF PricesOf
<1>4. PricesOf(T) \subseteq Int
  BY <1>3
<1>5. Max(PricesOf(T)) \in PricesOf(T) /\ \A p \in PricesOf(T) : p <= Max(PricesOf(T))
  BY <1>2, <1>3, <1>4, MaxIsLargest
<1>6. Min(PricesOf(T)) \in PricesOf(T) /\ \A p \in PricesOf(T) : Min(PricesOf(T)) <= p
  BY <1>2, <1>3, <1>4, MinIsSmallest
<1>7. \A p : p \in PricesOf(T) <=> \E x \in T : x.price = p
  BY DEF PricesOf
<1> QED BY <1>2, <1>3, <1>5, <1>6, <1>7

\* The fine bars in the coarse bar K.
FineIn(fine, K) == {k \in DOMAIN fine : BarTime(k, Coarse) = K}

LEMMA FineInAre ==
  ASSUME NEW T, IsFiniteSet(T), T \subseteq Trade, NEW fine \in BarTables(T, Fine)
  PROVE  /\ BarTimes(T, Coarse) = {BarTime(k, Coarse) : k \in DOMAIN fine}
         /\ \A K \in BarTimes(T, Coarse) :
              /\ FineIn(fine, K) \in SUBSET BarTimes(T, Fine)
              /\ IsFiniteSet(FineIn(fine, K)) /\ FineIn(fine, K) # {}
              /\ TradesIn(T, Fine, FineIn(fine, K)) = InBar(T, K, Coarse)
<1>1. Fine \in Nat \ {0} /\ Coarse \in Nat \ {0}
  BY IntervalsAssumption
<1>2. DOMAIN fine = BarTimes(T, Fine)
  BY <1>1, BarsHold
<1>3. \A x \in T : x.t \in Nat /\ BarTime(BarTime(x.t, Fine), Coarse) = BarTime(x.t, Coarse)
  BY WeightsAre, CoarseBarOfFine
<1>4. BarTimes(T, Coarse) = {BarTime(k, Coarse) : k \in DOMAIN fine}
  BY <1>2, <1>3 DEF BarTimes
<1>5. ASSUME NEW K \in BarTimes(T, Coarse)
      PROVE  /\ FineIn(fine, K) \in SUBSET BarTimes(T, Fine)
             /\ IsFiniteSet(FineIn(fine, K)) /\ FineIn(fine, K) # {}
             /\ TradesIn(T, Fine, FineIn(fine, K)) = InBar(T, K, Coarse)
  <2>1. FineIn(fine, K) \in SUBSET BarTimes(T, Fine) /\ FineIn(fine, K) # {}
    BY <1>2, <1>4 DEF FineIn
  <2>2. IsFiniteSet(FineIn(fine, K))
    BY <1>1, <2>1, BarTimesAre, FS_Subset
  <2>3. TradesIn(T, Fine, FineIn(fine, K)) = InBar(T, K, Coarse)
    BY <1>2, <1>3 DEF TradesIn, InBar, BarTimes, FineIn
  <2> QED BY <2>1, <2>2, <2>3
<1> QED BY <1>4, <1>5

TotalOf(fine, K, n) == SumFunction([k \in FineIn(fine, K) |-> fine[k][n]])

LEMMA CoarseSums ==
  ASSUME NEW T, IsFiniteSet(T), T \subseteq Trade,
         NEW fine \in BarTables(T, Fine), NEW coarse \in BarTables(T, Coarse),
         NEW K \in BarTimes(T, Coarse), NEW n \in {"volume", "quote", "buy", "sell", "count"}
  PROVE  coarse[K][n] = TotalOf(fine, K, n)
<1> DEFINE I == FineIn(fine, K)
           B == InBar(T, K, Coarse)
           p == [k \in I |-> fine[k][n]]
           Ones == [x \in Trade |-> 1]
<1>1. Fine \in Nat \ {0} /\ Coarse \in Nat \ {0}
  BY IntervalsAssumption
<1>2. I \in SUBSET BarTimes(T, Fine) /\ IsFiniteSet(I) /\ TradesIn(T, Fine, I) = B
  BY FineInAre
<1>3. IsFiniteSet(B) /\ B \subseteq Trade
  BY <1>1, BarTimesAre
<1>4. /\ coarse[K].volume = SumFunctionOnSet(Volumes, B)
      /\ coarse[K].quote = SumFunctionOnSet(Quotes, B)
      /\ coarse[K].buy = SumFunctionOnSet(Buys, B)
      /\ coarse[K].sell = SumFunctionOnSet(Sells, B)
      /\ coarse[K].count = Cardinality(B)
  BY <1>1, BarsHold
<1>5. \A x \in Trade : /\ Volumes[x] \in Int /\ Quotes[x] \in Int /\ Buys[x] \in Int
                       /\ Sells[x] \in Int /\ Ones[x] \in Int /\ Ones[x] = 1
  BY WeightsAre
<1>6. \A k \in I : /\ fine[k].volume = SumFunctionOnSet(Volumes, InBar(T, k, Fine))
                   /\ fine[k].quote = SumFunctionOnSet(Quotes, InBar(T, k, Fine))
                   /\ fine[k].buy = SumFunctionOnSet(Buys, InBar(T, k, Fine))
                   /\ fine[k].sell = SumFunctionOnSet(Sells, InBar(T, k, Fine))
                   /\ fine[k].count = Cardinality(InBar(T, k, Fine))
                   /\ IsFiniteSet(InBar(T, k, Fine)) /\ InBar(T, k, Fine) \subseteq Trade
  BY <1>1, <1>2, BarsHold, BarTimesAre
<1> HIDE DEF Ones, I, B
<1>7. SumFunctionOnSet(Ones, B) = Cardinality(B)
  BY <1>3, <1>5, CardinalityIsSum
<1>8. \A k \in I : fine[k].count = SumFunctionOnSet(Ones, InBar(T, k, Fine))
  BY <1>5, <1>6, CardinalityIsSum
<1>9. PICK w \in {Volumes, Quotes, Buys, Sells, Ones} :
        /\ coarse[K][n] = SumFunctionOnSet(w, B)
        /\ \A k \in I : p[k] = SumFunctionOnSet(w, InBar(T, k, Fine))
  <2>1. CASE n = "volume"
    BY <1>4, <1>6, <2>1
  <2>2. CASE n = "quote"
    BY <1>4, <1>6, <2>2
  <2>3. CASE n = "buy"
    BY <1>4, <1>6, <2>3
  <2>4. CASE n = "sell"
    BY <1>4, <1>6, <2>4
  <2>5. CASE n = "count"
    BY <1>4, <1>7, <1>8, <2>5
  <2> QED BY <2>1, <2>2, <2>3, <2>4, <2>5
<1>10. \A x \in Trade : w[x] \in Int
  BY <1>5
<1>11. DOMAIN p = I /\ TotalOf(fine, K, n) = SumFunctionOnSet(p, DOMAIN p)
  BY DEF SumFunction, I, TotalOf
<1> HIDE DEF p
<1>12. SumFunctionOnSet(p, I) = SumFunctionOnSet(w, TradesIn(T, Fine, I))
  BY <1>1, <1>2, <1>9, <1>10, SumOverBars
<1> QED BY <1>2, <1>9, <1>11, <1>12

LEMMA CoarseRange ==
  ASSUME NEW T, IsFiniteSet(T), T \subseteq Trade,
         NEW fine \in BarTables(T, Fine), NEW coarse \in BarTables(T, Coarse),
         NEW K \in BarTimes(T, Coarse)
  PROVE  /\ coarse[K].high = Max({fine[k].high : k \in FineIn(fine, K)})
         /\ coarse[K].low = Min({fine[k].low : k \in FineIn(fine, K)})
<1> DEFINE I == FineIn(fine, K)
           B == InBar(T, K, Coarse)
           b(k) == InBar(T, k, Fine)
<1>1. Fine \in Nat \ {0} /\ Coarse \in Nat \ {0}
  BY IntervalsAssumption
<1>2. I \in SUBSET BarTimes(T, Fine) /\ TradesIn(T, Fine, I) = B
  BY FineInAre
<1>3. IsFiniteSet(B) /\ B \subseteq Trade /\ B # {}
  BY <1>1, BarTimesAre
<1>4. \A k \in I : IsFiniteSet(b(k)) /\ b(k) \subseteq Trade /\ b(k) # {} /\ b(k) \subseteq B
  <2>1. \A k \in I : b(k) \subseteq B
    BY <1>2 DEF TradesIn, InBar
  <2> QED BY <1>1, <1>2, <2>1, BarTimesAre
<1>5. \A x \in B : \E k \in I : x \in b(k)
  BY <1>2 DEF TradesIn, InBar
<1>6. coarse[K].high = Max(PricesOf(B)) /\ coarse[K].low = Min(PricesOf(B))
  BY <1>1, BarsHold
<1>7. \A k \in I : fine[k].high = Max(PricesOf(b(k))) /\ fine[k].low = Min(PricesOf(b(k)))
  BY <1>1, <1>2, BarsHold
<1> HIDE DEF I, B, b
<1>8. Max({fine[k].high : k \in I}) = coarse[K].high
  <2> DEFINE S == {fine[k].high : k \in I}
  <2>1. PICK x \in B : x.price = Max(PricesOf(B))
    BY <1>3, PricesAre
  <2>2. PICK k \in I : x \in b(k)
    BY <1>5
  <2>3. \A y \in B : y.price \in Nat /\ y.price <= x.price
    BY <1>3, <2>1, PricesAre, WeightsAre
  <2>4. ASSUME NEW j \in I PROVE fine[j].high \in Nat /\ fine[j].high <= x.price
    <3>1. PICK y \in b(j) : y.price = fine[j].high
      BY <1>4, <1>7, PricesAre
    <3> QED BY <1>4, <2>3, <3>1
  <2>5. x.price <= fine[k].high
    BY <1>4, <1>7, <2>2, PricesAre
  <2>6. x.price \in S
    BY <2>2, <2>3, <2>4, <2>5
  <2>7. S \subseteq Int /\ \A p \in S : p <= x.price
    BY <2>4
  <2> HIDE DEF S
  <2>8. Max(S) = x.price
    BY <2>6, <2>7, MaxIs
  <2> QED BY <1>6, <2>1, <2>8 DEF S
<1>9. Min({fine[k].low : k \in I}) = coarse[K].low
  <2> DEFINE S == {fine[k].low : k \in I}
  <2>1. PICK x \in B : x.price = Min(PricesOf(B))
    BY <1>3, PricesAre
  <2>2. PICK k \in I : x \in b(k)
    BY <1>5
  <2>3. \A y \in B : y.price \in Nat /\ x.price <= y.price
    BY <1>3, <2>1, PricesAre, WeightsAre
  <2>4. ASSUME NEW j \in I PROVE fine[j].low \in Nat /\ x.price <= fine[j].low
    <3>1. PICK y \in b(j) : y.price = fine[j].low
      BY <1>4, <1>7, PricesAre
    <3> QED BY <1>4, <2>3, <3>1
  <2>5. fine[k].low <= x.price
    BY <1>4, <1>7, <2>2, PricesAre
  <2>6. x.price \in S
    BY <2>2, <2>3, <2>4, <2>5
  <2>7. S \subseteq Int /\ \A p \in S : x.price <= p
    BY <2>4
  <2> HIDE DEF S
  <2>8. Min(S) = x.price
    BY <2>6, <2>7, MinIs
  <2> QED BY <1>6, <2>1, <2>8 DEF S
<1> QED BY <1>8, <1>9 DEF I

\* The first and the last fine bar have the open and the close.
LEMMA CoarseEdges ==
  ASSUME NEW T, IsFiniteSet(T), T \subseteq Trade,
         NEW fine \in BarTables(T, Fine), NEW coarse \in BarTables(T, Coarse),
         NEW K \in BarTimes(T, Coarse)
  PROVE  /\ OpenIsFixed(T, K, Coarse) => coarse[K].open = fine[Min(FineIn(fine, K))].open
         /\ CloseIsFixed(T, K, Coarse) => coarse[K].close = fine[Max(FineIn(fine, K))].close
<1> DEFINE I == FineIn(fine, K)
           B == InBar(T, K, Coarse)
           b(k) == InBar(T, k, Fine)
<1>1. Fine \in Nat \ {0} /\ Coarse \in Nat \ {0}
  BY IntervalsAssumption
<1>2. I \in SUBSET BarTimes(T, Fine) /\ IsFiniteSet(I) /\ I # {} /\ TradesIn(T, Fine, I) = B
  BY FineInAre
<1>3. I \subseteq Int
  BY <1>1, <1>2, BarTimesAre
<1>4. Min(I) \in I /\ \A k \in I : Min(I) <= k
  BY <1>2, <1>3, MinIsSmallest
<1>5. Max(I) \in I /\ \A k \in I : k <= Max(I)
  BY <1>2, <1>3, MaxIsLargest
<1>6. \A x \in B : x \in T /\ BarTime(x.t, Fine) \in I /\ x.t \in Nat
  BY <1>2, WeightsAre DEF TradesIn
<1>7. \A k \in I : \A x \in b(k) : x \in B /\ BarTime(x.t, Fine) = k
  BY <1>2 DEF TradesIn, InBar
<1>8. PICK x \in B : coarse[K].open = x.price /\ \A z \in B : x.t <= z.t
  <2>1. coarse[K].open \in PricesOf(FirstOf(B))
    BY <1>1, BarsHold
  <2> QED BY <2>1 DEF PricesOf, FirstOf
<1>9. PICK y \in b(Min(I)) : fine[Min(I)].open = y.price /\ \A z \in b(Min(I)) : y.t <= z.t
  <2>1. fine[Min(I)].open \in PricesOf(FirstOf(b(Min(I))))
    BY <1>1, <1>2, <1>4, BarsHold
  <2> QED BY <2>1 DEF PricesOf, FirstOf
<1>10. PICK u \in B : coarse[K].close = u.price /\ \A z \in B : z.t <= u.t
  <2>1. coarse[K].close \in PricesOf(LastOf(B))
    BY <1>1, BarsHold
  <2> QED BY <2>1 DEF PricesOf, LastOf
<1>11. PICK v \in b(Max(I)) : fine[Max(I)].close = v.price /\ \A z \in b(Max(I)) : z.t <= v.t
  <2>1. fine[Max(I)].close \in PricesOf(LastOf(b(Max(I))))
    BY <1>1, <1>2, <1>5, BarsHold
  <2> QED BY <2>1 DEF PricesOf, LastOf
<1>12. \A k \in I : x \in b(k) <=> BarTime(x.t, Fine) = k
  BY <1>6 DEF InBar
<1>13. \A k \in I : u \in b(k) <=> BarTime(u.t, Fine) = k
  BY <1>6 DEF InBar
<1> HIDE DEF I, B, b
<1>14. x.t = y.t
  <2>1. y \in B /\ BarTime(y.t, Fine) = Min(I) /\ y.t \in Nat /\ x.t \in Nat /\ x.t <= y.t
    BY <1>4, <1>6, <1>7, <1>8, <1>9
  <2>2. BarTime(x.t, Fine) <= Min(I)
    BY <1>1, <2>1, BarTimesInOrder
  <2>3. BarTime(x.t, Fine) \in I /\ BarTime(x.t, Fine) \in Nat /\ Min(I) \in Nat
    BY <1>1, <1>6, <2>1, BarTimeIs
  <2>4. BarTime(x.t, Fine) = Min(I)
    BY <1>4, <2>2, <2>3
  <2>5. x \in b(Min(I))
    BY <1>4, <1>12, <2>4
  <2> QED BY <1>9, <2>1, <2>5
<1>15. u.t = v.t
  <2>1. v \in B /\ BarTime(v.t, Fine) = Max(I) /\ v.t \in Nat /\ u.t \in Nat /\ v.t <= u.t
    BY <1>5, <1>6, <1>7, <1>10, <1>11
  <2>2. Max(I) <= BarTime(u.t, Fine)
    BY <1>1, <2>1, BarTimesInOrder
  <2>3. BarTime(u.t, Fine) \in I /\ BarTime(u.t, Fine) \in Nat /\ Max(I) \in Nat
    BY <1>1, <1>6, <2>1, BarTimeIs
  <2>4. BarTime(u.t, Fine) = Max(I)
    BY <1>5, <2>2, <2>3
  <2>5. u \in b(Max(I))
    BY <1>5, <1>13, <2>4
  <2> QED BY <1>11, <2>1, <2>5
<1>16. x \in B /\ y \in B /\ u \in B /\ v \in B
  BY <1>4, <1>5, <1>7
<1>17. x \in FirstOf(B) /\ y \in FirstOf(B)
  BY <1>8, <1>14, <1>16 DEF FirstOf
<1>18. u \in LastOf(B) /\ v \in LastOf(B)
  BY <1>10, <1>15, <1>16 DEF LastOf
<1>19. OpenIsFixed(T, K, Coarse) => x.price = y.price
  BY <1>17 DEF OpenIsFixed, OnePrice, B
<1>20. CloseIsFixed(T, K, Coarse) => u.price = v.price
  BY <1>18 DEF CloseIsFixed, OnePrice, B
<1> QED BY <1>8, <1>9, <1>10, <1>11, <1>19, <1>20 DEF I

LEMMA CoarseOfFine ==
  ASSUME Provenance, Contents
  PROVE  CoarseBarsAggregateFine
<1> SUFFICES ASSUME Alike({"bars_fine", "bars_coarse"}) PROVE CoarseBarsAggregateFine
  BY DEF CoarseBarsAggregateFine
<1> DEFINE T == Behind("bars_fine")
           fine == disk["bars_fine"]
           coarse == disk["bars_coarse"]
<1>1. made["bars_fine"] # {} /\ made["bars_coarse"] = made["bars_fine"]
  BY DEF Alike
<1>2. "bars_fine" \in Files /\ "bars_coarse" \in Files
  BY FilesAre DEF Names
<1>3. IsFiniteSet(T) /\ T \subseteq Trade
  BY <1>2, BehindIsFinite
<1>4. fine \in BarTables(T, Fine) /\ coarse \in BarTables(T, Coarse)
  BY <1>1, <1>2 DEF Contents, IsFrom, Behind
<1>5. Coarse \in Nat \ {0}
  BY IntervalsAssumption
<1> HIDE DEF T
<1>6. DOMAIN coarse = BarTimes(T, Coarse)
  BY <1>3, <1>4, <1>5, BarsHold
<1>7. DOMAIN coarse = {BarTime(k, Coarse) : k \in DOMAIN fine}
  BY <1>3, <1>4, <1>6, FineInAre
<1>8. ASSUME NEW K \in DOMAIN coarse
      PROVE  /\ \A n \in {"volume", "quote", "buy", "sell", "count"} :
                  coarse[K][n] = TotalOf(fine, K, n)
             /\ coarse[K].high = Max({fine[k].high : k \in FineIn(fine, K)})
             /\ coarse[K].low = Min({fine[k].low : k \in FineIn(fine, K)})
             /\ OpenIsFixed(T, K, Coarse) => coarse[K].open = fine[Min(FineIn(fine, K))].open
             /\ CloseIsFixed(T, K, Coarse) => coarse[K].close = fine[Max(FineIn(fine, K))].close
  <2>1. K \in BarTimes(T, Coarse)
    BY <1>6, <1>8
  <2> HIDE DEF fine, coarse
  <2>2. ASSUME NEW n \in {"volume", "quote", "buy", "sell", "count"}
        PROVE  coarse[K][n] = TotalOf(fine, K, n)
    BY <1>3, <1>4, <2>1, <2>2, CoarseSums
  <2>3. /\ coarse[K].high = Max({fine[k].high : k \in FineIn(fine, K)})
        /\ coarse[K].low = Min({fine[k].low : k \in FineIn(fine, K)})
    BY <1>3, <1>4, <2>1, CoarseRange
  <2>4. /\ OpenIsFixed(T, K, Coarse) => coarse[K].open = fine[Min(FineIn(fine, K))].open
        /\ CloseIsFixed(T, K, Coarse) => coarse[K].close = fine[Max(FineIn(fine, K))].close
    BY <1>3, <1>4, <2>1, CoarseEdges
  <2> QED BY <2>2, <2>3, <2>4
<1> QED BY <1>7, <1>8 DEF CoarseBarsAggregateFine, FineIn, T, Sum, TotalOf

\* Coarse bars and fine bars of the same months are the same trades: every total of a
\* coarse bar is that of its fine bars, its range is theirs, and its open and close are
\* those of the first and the last of them, each where no two prices tie for it
\* (bars.py:32-46).
THEOREM CoarseBarsAreOfFine == Spec => []CoarseBarsAggregateFine
<1>1. Provenance /\ Contents => CoarseBarsAggregateFine
  BY CoarseOfFine
<1> QED BY <1>1, ProvenanceInvariance, ContentsInvariance, PTL

----------------------------------------------------------------------------
(* The footprint *)

KeyOf(x) == <<BarTime(x.t, Fine), PriceBin(x.price, BinSize)>>
AtKey(T, k) == {x \in T : KeyOf(x) = k}
KeysOf(T) == {KeyOf(x) : x \in T}

WideOf(t, price) == <<BarTime(t, Coarse), PriceBin(price, 2 * BinSize)>>
WideRows(rows, w) == {k \in DOMAIN rows : WideOf(k[1], k[2]) = w}
WideTrades(T, w) == {x \in T : WideOf(x.t, x.price) = w}

LEMMA PriceBinOfBin ==
  ASSUME NEW price \in Nat
  PROVE  PriceBin(PriceBin(price, BinSize), 2 * BinSize) = PriceBin(price, 2 * BinSize)
<1>1. BinSize \in Nat \ {0}
  BY IntervalsAssumption
<1>2. 2 * BinSize \in Nat \ {0} /\ (2 * BinSize) % BinSize = 0
  <2>1. \A c \in Nat, b \in Nat \ {0}, q \in Nat : c = b * q => c % b = 0
    BY Z3
  <2>2. 2 * BinSize = BinSize * 2 /\ 2 * BinSize \in Nat
    BY <1>1
  <2> QED BY <1>1, <2>1, <2>2
<1> QED BY <1>1, <1>2, DivisionOfMultiple DEF PriceBin

LEMMA WideOfKey ==
  ASSUME NEW x \in Trade
  PROVE  WideOf(KeyOf(x)[1], KeyOf(x)[2]) = WideOf(x.t, x.price)
<1>1. x.t \in Nat /\ x.price \in Nat
  BY WeightsAre
<1>2. KeyOf(x)[1] = BarTime(x.t, Fine) /\ KeyOf(x)[2] = PriceBin(x.price, BinSize)
  BY DEF KeyOf
<1> QED BY <1>1, <1>2, CoarseBarOfFine, PriceBinOfBin DEF WideOf

LEMMA FootprintHolds ==
  ASSUME NEW T, IsFiniteSet(T), T \subseteq Trade,
         NEW rows, rows = Footprint(T, Fine, BinSize)
  PROVE  /\ DOMAIN rows = KeysOf(T) /\ IsFiniteSet(KeysOf(T))
         /\ \A k \in KeysOf(T) :
              /\ IsFiniteSet(AtKey(T, k)) /\ AtKey(T, k) \subseteq T
              /\ rows[k].buy = SumFunctionOnSet(Buys, AtKey(T, k))
              /\ rows[k].sell = SumFunctionOnSet(Sells, AtKey(T, k))
              /\ rows[k].count = Cardinality(AtKey(T, k))
<1>1. rows = [k \in KeysOf(T) |-> [buy |-> Sum(AtKey(T, k), TakerBuy),
                                   sell |-> Sum(AtKey(T, k), TakerSell),
                                   count |-> Cardinality(AtKey(T, k))]]
  BY DEF Footprint, KeysOf, AtKey, KeyOf, Sum
<1>2. IsFiniteSet(KeysOf(T))
  <2> DEFINE f == [x \in T |-> KeyOf(x)]
  <2>1. KeysOf(T) = {f[x] : x \in T}
    BY DEF KeysOf
  <2> HIDE DEF f
  <2> QED BY <2>1, ImageIsFinite
<1>3. ASSUME NEW k \in KeysOf(T)
      PROVE  /\ IsFiniteSet(AtKey(T, k)) /\ AtKey(T, k) \subseteq T
             /\ rows[k].buy = SumFunctionOnSet(Buys, AtKey(T, k))
             /\ rows[k].sell = SumFunctionOnSet(Sells, AtKey(T, k))
             /\ rows[k].count = Cardinality(AtKey(T, k))
  <2>1. IsFiniteSet(AtKey(T, k)) /\ AtKey(T, k) \subseteq T
    BY FS_Subset DEF AtKey
  <2>2. /\ Sum(AtKey(T, k), TakerBuy) = SumFunctionOnSet(Buys, AtKey(T, k))
        /\ Sum(AtKey(T, k), TakerSell) = SumFunctionOnSet(Sells, AtKey(T, k))
    BY <2>1, SumsOfTrades DEF Sum, SumFunction
  <2>3. rows[k] = [buy |-> SumFunctionOnSet(Buys, AtKey(T, k)),
                   sell |-> SumFunctionOnSet(Sells, AtKey(T, k)),
                   count |-> Cardinality(AtKey(T, k))]
    BY <1>1, <2>2 DEF Sum, SumFunction
  <2> QED BY <2>1, <2>3
<1> QED BY <1>1, <1>2, <1>3

\* The rows of a wider key are the trades of that key, cut into parts.
LEMMA SumOverRows ==
  ASSUME NEW T, IsFiniteSet(T), T \subseteq Trade,
         NEW rows, rows = Footprint(T, Fine, BinSize), NEW u,
         NEW w, \A x \in Trade : w[x] \in Int,
         NEW p, \A k \in WideRows(rows, u) : p[k] = SumFunctionOnSet(w, AtKey(T, k))
  PROVE  SumFunctionOnSet(p, WideRows(rows, u)) = SumFunctionOnSet(w, WideTrades(T, u))
<1> DEFINE S == WideTrades(T, u)
           K == WideRows(rows, u)
           P == [k \in K |-> AtKey(T, k)]
<1>1. DOMAIN rows = KeysOf(T) /\ IsFiniteSet(KeysOf(T))
  BY FootprintHolds
<1>2. IsFiniteSet(S) /\ IsFiniteSet(K) /\ S \subseteq Trade
  BY <1>1, FS_Subset DEF WideTrades, WideRows
<1>3. \A x \in S : w[x] \in Int
  BY <1>2
<1>4. \A k \in K : P[k] \subseteq S
  <2> SUFFICES ASSUME NEW k \in K, NEW x \in T, KeyOf(x) = k PROVE x \in S
    BY DEF AtKey
  <2> QED BY WideOfKey DEF WideTrades, WideRows
<1>5. \A x \in S : \E k \in K : x \in P[k]
  <2> SUFFICES ASSUME NEW x \in S PROVE KeyOf(x) \in K /\ x \in T
    BY DEF AtKey
  <2>1. x \in T /\ KeyOf(x) \in DOMAIN rows
    BY <1>1 DEF KeysOf, WideTrades
  <2> QED BY <2>1, WideOfKey DEF WideTrades, WideRows
<1>6. \A j, k \in K : j # k => P[j] \cap P[k] = {}
  BY DEF AtKey
<1>7. \A k \in K : p[k] = SumFunctionOnSet(w, P[k])
  OBVIOUS
<1> HIDE DEF S, P, K
<1>8. SumFunctionOnSet(w, S) = SumFunctionOnSet(p, K)
  BY <1>2, <1>3, <1>4, <1>5, <1>6, <1>7, SumOfParts
<1> QED BY <1>8 DEF S, K

RowTotal(rows, u, n) == SumFunction([k \in WideRows(rows, u) |-> rows[k][n]])

LEMMA FootprintSums ==
  ASSUME NEW T, IsFiniteSet(T), T \subseteq Trade,
         NEW rows, rows = Footprint(T, Fine, BinSize), NEW u
  PROVE  /\ RowTotal(rows, u, "buy") = SumFunctionOnSet(Buys, WideTrades(T, u))
         /\ RowTotal(rows, u, "sell") = SumFunctionOnSet(Sells, WideTrades(T, u))
         /\ RowTotal(rows, u, "count") = Cardinality(WideTrades(T, u))
         /\ IsFiniteSet(WideTrades(T, u)) /\ WideTrades(T, u) \subseteq Trade
<1> DEFINE K == WideRows(rows, u)
           p(n) == [k \in K |-> rows[k][n]]
           Ones == [x \in Trade |-> 1]
<1>1. IsFiniteSet(WideTrades(T, u)) /\ WideTrades(T, u) \subseteq Trade
  BY FS_Subset DEF WideTrades
<1>2. \A x \in Trade : Buys[x] \in Int /\ Sells[x] \in Int /\ Ones[x] \in Int /\ Ones[x] = 1
  BY WeightsAre
<1>3. \A n : DOMAIN p(n) = K /\ RowTotal(rows, u, n) = SumFunctionOnSet(p(n), K)
  BY DEF RowTotal, SumFunction
<1>4. \A k \in K : /\ p("buy")[k] = SumFunctionOnSet(Buys, AtKey(T, k))
                   /\ p("sell")[k] = SumFunctionOnSet(Sells, AtKey(T, k))
                   /\ p("count")[k] = Cardinality(AtKey(T, k))
                   /\ IsFiniteSet(AtKey(T, k)) /\ AtKey(T, k) \subseteq Trade
  <2> SUFFICES ASSUME NEW k \in K
               PROVE  /\ rows[k].buy = SumFunctionOnSet(Buys, AtKey(T, k))
                      /\ rows[k].sell = SumFunctionOnSet(Sells, AtKey(T, k))
                      /\ rows[k].count = Cardinality(AtKey(T, k))
                      /\ IsFiniteSet(AtKey(T, k)) /\ AtKey(T, k) \subseteq Trade
    OBVIOUS
  <2>1. k \in KeysOf(T)
    BY FootprintHolds DEF WideRows
  <2> QED BY <2>1, FootprintHolds
<1> HIDE DEF p, Ones
<1>5. SumFunctionOnSet(p("buy"), K) = SumFunctionOnSet(Buys, WideTrades(T, u))
  BY <1>2, <1>4, SumOverRows
<1>6. SumFunctionOnSet(p("sell"), K) = SumFunctionOnSet(Sells, WideTrades(T, u))
  BY <1>2, <1>4, SumOverRows
<1>7. SumFunctionOnSet(p("count"), K) = SumFunctionOnSet(Ones, WideTrades(T, u))
  <2>1. \A k \in K : p("count")[k] = SumFunctionOnSet(Ones, AtKey(T, k))
    BY <1>2, <1>4, CardinalityIsSum
  <2> QED BY <1>2, <2>1, SumOverRows
<1>8. SumFunctionOnSet(Ones, WideTrades(T, u)) = Cardinality(WideTrades(T, u))
  BY <1>1, <1>2, CardinalityIsSum
<1> QED BY <1>1, <1>3, <1>5, <1>6, <1>7, <1>8

LEMMA FootprintOfTrades ==
  ASSUME Provenance, Contents
  PROVE  FootprintReaggregates
<1> DEFINE T == Behind("footprint")
           rows == disk["footprint"]
<1> SUFFICES ASSUME made["footprint"] # {}, NEW u
             PROVE  /\ RowTotal(rows, u, "buy") = Sum(WideTrades(T, u), TakerBuy)
                    /\ RowTotal(rows, u, "sell") = Sum(WideTrades(T, u), TakerSell)
                    /\ RowTotal(rows, u, "count") = Cardinality(WideTrades(T, u))
  BY DEF FootprintReaggregates, RowTotal, WideRows, WideTrades, WideOf, Sum
<1>1. "footprint" \in Files
  BY FilesAre DEF Names
<1>2. IsFiniteSet(T) /\ T \subseteq Trade
  BY <1>1, BehindIsFinite
<1>3. rows = Footprint(T, Fine, BinSize)
  BY <1>1 DEF Contents, IsFrom
<1> HIDE DEF T, rows
<1>4. /\ RowTotal(rows, u, "buy") = SumFunctionOnSet(Buys, WideTrades(T, u))
      /\ RowTotal(rows, u, "sell") = SumFunctionOnSet(Sells, WideTrades(T, u))
      /\ RowTotal(rows, u, "count") = Cardinality(WideTrades(T, u))
      /\ IsFiniteSet(WideTrades(T, u)) /\ WideTrades(T, u) \subseteq Trade
  BY <1>2, <1>3, FootprintSums
<1>5. /\ Sum(WideTrades(T, u), TakerBuy) = SumFunctionOnSet(Buys, WideTrades(T, u))
      /\ Sum(WideTrades(T, u), TakerSell) = SumFunctionOnSet(Sells, WideTrades(T, u))
  BY <1>4, SumsOfTrades DEF Sum, SumFunction
<1> QED BY <1>4, <1>5 DEF Sum, SumFunction

\* A footprint that is coarser in time and in price is the sum of the rows of the one
\* that is stored: no trade is in two of its keys or in none (footprint.py:7-9).
THEOREM FootprintAddsUp == Spec => []FootprintReaggregates
<1>1. Provenance /\ Contents => FootprintReaggregates
  BY FootprintOfTrades
<1> QED BY <1>1, ProvenanceInvariance, ContentsInvariance, PTL

----------------------------------------------------------------------------
(* Stacked imbalances *)

Imbalanced(bars) == {k \in DOMAIN bars : Side(bars[k]) # "none"}

\* The bars of the other side up to one, which are what an island is numbered by.
Others(bars, k) == {j \in Imbalanced(bars) : j <= k /\ Side(bars[j]) # Side(bars[k])}

AlikeTo(bars, k) == {j \in Imbalanced(bars) : Side(bars[j]) = Side(bars[k])}
IslandOf(bars, k) == Cardinality({j \in Imbalanced(bars) : j <= k})
                       - Cardinality({j \in AlikeTo(bars, k) : j <= k})
IslandRows(bars, k) == {j \in AlikeTo(bars, k) : IslandOf(bars, j) = IslandOf(bars, k)}

LEMMA IslandCountsOthers ==
  ASSUME NEW bars, IsFiniteSet(DOMAIN bars), NEW k \in Imbalanced(bars)
  PROVE  /\ IsFiniteSet(Others(bars, k)) /\ Cardinality(Others(bars, k)) \in Nat
         /\ IslandOf(bars, k) = Cardinality(Others(bars, k))
<1> DEFINE A == {j \in Imbalanced(bars) : j <= k}
           B == {j \in AlikeTo(bars, k) : j <= k}
<1>1. IsFiniteSet(A) /\ IsFiniteSet(B) /\ B \subseteq A /\ Others(bars, k) = A \ B
  <2>1. IsFiniteSet(Imbalanced(bars))
    BY FS_Subset DEF Imbalanced
  <2>2. A \subseteq Imbalanced(bars) /\ B \subseteq A /\ Others(bars, k) = A \ B
    BY DEF Others, AlikeTo
  <2> QED BY <2>1, <2>2, FS_Subset
<1>2. IslandOf(bars, k) = Cardinality(A) - Cardinality(B)
  BY DEF IslandOf
<1> HIDE DEF A, B
<1>3. IsFiniteSet(A \ B) /\ Cardinality(A \ B) = Cardinality(A) - Cardinality(A \cap B)
  BY <1>1, FS_Difference
<1>4. A \cap B = B /\ Cardinality(A \ B) \in Nat
  BY <1>1, <1>3, FS_CardinalityType
<1> QED BY <1>1, <1>2, <1>3, <1>4

\* Two bars of a side are in one island exactly if no bar of the other is in between.
LEMMA SameIsland ==
  ASSUME NEW bars, IsFiniteSet(DOMAIN bars), DOMAIN bars \subseteq Nat,
         NEW j \in Imbalanced(bars), NEW k \in Imbalanced(bars),
         Side(bars[j]) = Side(bars[k]), j <= k
  PROVE  IslandOf(bars, j) = IslandOf(bars, k)
           <=> \A i \in j .. k : i \in DOMAIN bars => Side(bars[i]) \in {Side(bars[k]), "none"}
<1>1. IsFiniteSet(Others(bars, k)) /\ Others(bars, j) \subseteq Others(bars, k)
  BY IslandCountsOthers DEF Others, Imbalanced
<1>2. IslandOf(bars, j) = IslandOf(bars, k) <=> Others(bars, j) = Others(bars, k)
  <2>1. Cardinality(Others(bars, j)) = Cardinality(Others(bars, k))
          => Others(bars, j) = Others(bars, k)
    BY <1>1, FS_Subset
  <2> QED BY <2>1, IslandCountsOthers
<1>3. ASSUME Others(bars, j) = Others(bars, k), NEW i \in j .. k, i \in DOMAIN bars
      PROVE  Side(bars[i]) \in {Side(bars[k]), "none"}
  <2> SUFFICES ASSUME Side(bars[i]) # Side(bars[k]), Side(bars[i]) # "none" PROVE FALSE
    OBVIOUS
  <2>1. j \in Nat /\ k \in Nat
    BY DEF Imbalanced
  <2>2. i \in Others(bars, k)
    BY <1>3, <2>1 DEF Others, Imbalanced
  <2>3. i <= j
    BY <1>3, <2>2 DEF Others
  <2>4. i = j
    BY <1>3, <2>1, <2>3
  <2> QED BY <2>4
<1>4. ASSUME \A i \in j .. k : i \in DOMAIN bars => Side(bars[i]) \in {Side(bars[k]), "none"},
             NEW i \in Others(bars, k)
      PROVE  i \in Others(bars, j)
  <2>1. /\ i \in Imbalanced(bars) /\ i <= k /\ Side(bars[i]) # Side(bars[k])
        /\ Side(bars[i]) # "none" /\ i \in DOMAIN bars /\ i \in Nat /\ j \in Nat /\ k \in Nat
    BY <1>4 DEF Others, Imbalanced
  <2>2. i \notin j .. k
    BY <1>4, <2>1
  <2>3. i <= j
    BY <2>1, <2>2
  <2> QED BY <2>1, <2>3 DEF Others
<1> QED BY <1>1, <1>2, <1>3, <1>4

LEMMA IslandsAreRuns ==
  ASSUME NEW bars, IsFiniteSet(DOMAIN bars), DOMAIN bars \subseteq Nat,
         NEW k \in Imbalanced(bars)
  PROVE  IslandRows(bars, k) = RunOf(bars, k)
<1>1. ASSUME NEW j \in Imbalanced(bars), Side(bars[j]) = Side(bars[k])
      PROVE  IslandOf(bars, j) = IslandOf(bars, k)
               <=> \A i \in Min({j, k}) .. Max({j, k}) :
                     i \in DOMAIN bars => Side(bars[i]) \in {Side(bars[k]), "none"}
  <2>1. j \in Nat /\ k \in Nat
    BY DEF Imbalanced
  <2>2. CASE j <= k
    <3>1. Min({j, k}) = j /\ Max({j, k}) = k
      <4>1. {j, k} \subseteq Int /\ \A y \in {j, k} : j <= y /\ y <= k
        BY <2>1, <2>2
      <4> QED BY <4>1, MinIs, MaxIs
    <3> QED BY <1>1, <2>2, <3>1, SameIsland
  <2>3. CASE k <= j
    <3>1. Min({j, k}) = k /\ Max({j, k}) = j
      <4>1. {j, k} \subseteq Int /\ \A y \in {j, k} : k <= y /\ y <= j
        BY <2>1, <2>3
      <4> QED BY <4>1, MinIs, MaxIs
    <3> QED BY <1>1, <2>3, <3>1, SameIsland
  <2> QED BY <2>1, <2>2, <2>3
<1>2. IslandRows(bars, k)
        = {j \in Imbalanced(bars) : /\ Side(bars[j]) = Side(bars[k])
                                    /\ IslandOf(bars, j) = IslandOf(bars, k)}
  BY DEF IslandRows, AlikeTo
<1>3. RunOf(bars, k)
        = {j \in Imbalanced(bars) :
             /\ Side(bars[j]) = Side(bars[k])
             /\ \A i \in Min({j, k}) .. Max({j, k}) :
                  i \in DOMAIN bars => Side(bars[i]) \in {Side(bars[k]), "none"}}
  <2>1. Side(bars[k]) # "none"
    BY DEF Imbalanced
  <2> QED BY <2>1 DEF RunOf, Imbalanced
<1> QED BY <1>1, <1>2, <1>3

RunRows(bars) ==
  [k \in {j \in Imbalanced(bars) : Cardinality(RunOf(bars, j)) >= MinBars} |->
     [side |-> Side(bars[k]), island_length |-> Cardinality(RunOf(bars, k))]]

LEMMA StackedIsRunRows ==
  ASSUME NEW bars, IsFiniteSet(DOMAIN bars), DOMAIN bars \subseteq Nat
  PROVE  Stacked(bars) = RunRows(bars)
<1>1. Stacked(bars)
        = [k \in {j \in Imbalanced(bars) : Cardinality(IslandRows(bars, j)) >= MinBars} |->
             [side |-> Side(bars[k]), island_length |-> Cardinality(IslandRows(bars, k))]]
  BY DEF Stacked, Imbalanced, AlikeTo, IslandOf, IslandRows
<1>2. \A k \in Imbalanced(bars) : IslandRows(bars, k) = RunOf(bars, k)
  BY IslandsAreRuns
<1> DEFINE Kept == {j \in Imbalanced(bars) : Cardinality(IslandRows(bars, j)) >= MinBars}
<1>3. Kept = {j \in Imbalanced(bars) : Cardinality(RunOf(bars, j)) >= MinBars}
  BY <1>2
<1>4. \A k \in Kept : Cardinality(IslandRows(bars, k)) = Cardinality(RunOf(bars, k))
  BY <1>2
<1>5. Stacked(bars) = [k \in Kept |-> [side |-> Side(bars[k]),
                                       island_length |-> Cardinality(IslandRows(bars, k))]]
  BY <1>1
<1>6. RunRows(bars) = [k \in Kept |-> [side |-> Side(bars[k]),
                                       island_length |-> Cardinality(RunOf(bars, k))]]
  BY <1>3 DEF RunRows
<1> HIDE DEF Kept
<1> QED BY <1>4, <1>5, <1>6

\* Whichever open and close a bar has, its side is the same.
LEMMA SidesAgree ==
  ASSUME NEW T, IsFiniteSet(T), T \subseteq Trade,
         NEW bars \in BarTables(T, Fine), NEW others \in BarTables(T, Fine)
  PROVE  RunRows(bars) = RunRows(others)
<1>1. Fine \in Nat \ {0}
  BY IntervalsAssumption
<1>2. DOMAIN bars = DOMAIN others
  BY <1>1, BarsHold
<1>3. \A k \in DOMAIN bars : Side(bars[k]) = Side(others[k])
  <2> TAKE k \in DOMAIN bars
  <2>1. bars[k].buy = others[k].buy /\ bars[k].sell = others[k].sell
    BY <1>1, BarsHold
  <2> QED BY <2>1 DEF Side
<1>4. Imbalanced(bars) = Imbalanced(others)
  BY <1>2, <1>3 DEF Imbalanced
<1>5. \A k \in Imbalanced(bars) : RunOf(bars, k) = RunOf(others, k)
  <2> TAKE k \in Imbalanced(bars)
  <2>1. k \in DOMAIN bars
    BY DEF Imbalanced
  <2> QED BY <1>2, <1>3, <2>1 DEF RunOf
<1>6. \A k \in Imbalanced(bars) : Side(bars[k]) = Side(others[k])
  BY <1>3 DEF Imbalanced
<1> DEFINE Kept == {j \in Imbalanced(bars) : Cardinality(RunOf(bars, j)) >= MinBars}
<1>7. Kept = {j \in Imbalanced(others) : Cardinality(RunOf(others, j)) >= MinBars}
  BY <1>4, <1>5
<1>8. RunRows(bars) = [k \in Kept |-> [side |-> Side(bars[k]),
                                       island_length |-> Cardinality(RunOf(bars, k))]]
  BY DEF RunRows
<1>9. RunRows(others) = [k \in Kept |-> [side |-> Side(others[k]),
                                         island_length |-> Cardinality(RunOf(others, k))]]
  BY <1>7 DEF RunRows
<1>10. \A k \in Kept : /\ Side(bars[k]) = Side(others[k])
                       /\ Cardinality(RunOf(bars, k)) = Cardinality(RunOf(others, k))
  BY <1>5, <1>6
<1> HIDE DEF Kept
<1> QED BY <1>8, <1>9, <1>10

LEMMA StackedOfBars ==
  ASSUME Provenance, Contents
  PROVE  StackedAreRuns
<1> SUFFICES ASSUME Alike({"stacked_imbalances", "bars_fine"}) PROVE StackedAreRuns
  BY DEF StackedAreRuns
<1> DEFINE T == Behind("bars_fine")
           bars == disk["bars_fine"]
<1>1. /\ made["bars_fine"] # {} /\ made["stacked_imbalances"] = made["bars_fine"]
      /\ "bars_fine" \in Files /\ "stacked_imbalances" \in Files
  BY FilesAre DEF Alike, Names
<1>2. IsFiniteSet(T) /\ T \subseteq Trade
  BY <1>1, BehindIsFinite
<1>3. bars \in BarTables(T, Fine)
  BY <1>1 DEF Contents, IsFrom
<1>4. PICK others \in BarTables(T, Fine) : disk["stacked_imbalances"] = Stacked(others)
  BY <1>1 DEF Contents, IsFrom, Behind
<1>5. Fine \in Nat \ {0}
  BY IntervalsAssumption
<1> HIDE DEF T
<1>6. /\ IsFiniteSet(DOMAIN bars) /\ DOMAIN bars \subseteq Nat
      /\ IsFiniteSet(DOMAIN others) /\ DOMAIN others \subseteq Nat
  BY <1>2, <1>3, <1>4, <1>5, BarsHold, BarTimesAre
<1>7. Stacked(others) = RunRows(bars)
  BY <1>2, <1>3, <1>4, <1>6, StackedIsRunRows, SidesAgree
<1>8. RunRows(bars)
        = [k \in {j \in DOMAIN bars : /\ Side(bars[j]) # "none"
                                      /\ Cardinality(RunOf(bars, j)) >= MinBars} |->
             [side |-> Side(bars[k]), island_length |-> Cardinality(RunOf(bars, k))]]
  BY DEF RunRows, Imbalanced
<1> QED BY <1>4, <1>7, <1>8 DEF StackedAreRuns

\* The rows of stacked_imbalances are the bars of runs of one side that no bar of the
\* other interrupts, with the lengths of the runs: the difference of two row numbers
\* never joins two runs or cuts one (orderflow.py: detect_stacked_imbalances).
THEOREM IslandsTellRunsApart == Spec => []StackedAreRuns
<1>1. Provenance /\ Contents => StackedAreRuns
  BY StackedOfBars
<1> QED BY <1>1, ProvenanceInvariance, ContentsInvariance, PTL

----------------------------------------------------------------------------
(* Sessions *)

CellOf(x) == <<SessionOf(x.t), PriceBin(x.price, BinSize)>>
InCell(T, k) == {x \in T : CellOf(x) = k}
CellsOf(T) == {CellOf(x) : x \in T}
SessionsOf(T) == {SessionOf(x.t) : x \in T}
BinsOf(T, s) == {PriceBin(x.price, BinSize) : x \in InSession(T, s)}

LEMMA PriceBinIs ==
  ASSUME NEW price \in Nat
  PROVE  /\ PriceBin(price, BinSize) \in Nat /\ PriceBin(price, BinSize) <= price
         /\ price < PriceBin(price, BinSize) + BinSize
BY DivisionIs, IntervalsAssumption DEF PriceBin

LEMMA SessionsAre ==
  ASSUME NEW T, IsFiniteSet(T), T \subseteq Trade, NEW s \in SessionsOf(T)
  PROVE  /\ IsFiniteSet(InSession(T, s)) /\ InSession(T, s) \subseteq T /\ InSession(T, s) # {}
         /\ IsFiniteSet(BinsOf(T, s)) /\ BinsOf(T, s) \subseteq Nat /\ BinsOf(T, s) # {}
<1>1. IsFiniteSet(InSession(T, s)) /\ InSession(T, s) \subseteq T /\ InSession(T, s) # {}
  BY FS_Subset DEF SessionsOf, InSession
<1>2. IsFiniteSet(BinsOf(T, s))
  <2> DEFINE f == [x \in InSession(T, s) |-> PriceBin(x.price, BinSize)]
  <2>1. BinsOf(T, s) = {f[x] : x \in InSession(T, s)}
    BY DEF BinsOf
  <2> HIDE DEF f
  <2> QED BY <1>1, <2>1, ImageIsFinite
<1>3. BinsOf(T, s) \subseteq Nat /\ BinsOf(T, s) # {}
  BY <1>1, WeightsAre, PriceBinIs DEF BinsOf
<1> QED BY <1>1, <1>2, <1>3

LEMMA HistogramHolds ==
  ASSUME NEW T, IsFiniteSet(T), T \subseteq Trade, NEW hist, hist = SessionHistogram(T)
  PROVE  /\ DOMAIN hist = CellsOf(T) /\ IsFiniteSet(CellsOf(T))
         /\ \A k \in CellsOf(T) :
              /\ IsFiniteSet(InCell(T, k)) /\ InCell(T, k) \subseteq T
              /\ hist[k] = SumFunctionOnSet(Volumes, InCell(T, k)) /\ hist[k] \in Nat
<1>1. hist = [k \in CellsOf(T) |-> Sum(InCell(T, k), LAMBDA x : x.qty)]
  BY DEF SessionHistogram, CellsOf, InCell, CellOf, Sum
<1>2. IsFiniteSet(CellsOf(T))
  <2> DEFINE f == [x \in T |-> CellOf(x)]
  <2>1. CellsOf(T) = {f[x] : x \in T}
    BY DEF CellsOf
  <2> HIDE DEF f
  <2> QED BY <2>1, ImageIsFinite
<1>3. ASSUME NEW k \in CellsOf(T)
      PROVE  /\ IsFiniteSet(InCell(T, k)) /\ InCell(T, k) \subseteq T
             /\ hist[k] = SumFunctionOnSet(Volumes, InCell(T, k)) /\ hist[k] \in Nat
  <2>1. IsFiniteSet(InCell(T, k)) /\ InCell(T, k) \subseteq T
    BY FS_Subset DEF InCell
  <2>2. Sum(InCell(T, k), LAMBDA x : x.qty) = SumFunctionOnSet(Volumes, InCell(T, k))
    BY <2>1, SumsOfTrades DEF Sum, SumFunction
  <2>3. hist[k] = SumFunctionOnSet(Volumes, InCell(T, k))
    BY <1>1, <2>2 DEF Sum, SumFunction
  <2>4. SumFunctionOnSet(Volumes, InCell(T, k)) \in Nat
    BY <2>1, SumsAreNumbers
  <2> QED BY <2>1, <2>3, <2>4
<1> QED BY <1>1, <1>2, <1>3

\* The cells of a session are those of the bins in which it trades.
LEMMA CellsOfSession ==
  ASSUME NEW T, NEW s
  PROVE  /\ {k[2] : k \in {j \in CellsOf(T) : j[1] = s}} = BinsOf(T, s)
         /\ \A b \in BinsOf(T, s) : <<s, b>> \in CellsOf(T)
         /\ {k[1] : k \in CellsOf(T)} = SessionsOf(T)
<1>1. \A x \in T : CellOf(x)[1] = SessionOf(x.t) /\ CellOf(x)[2] = PriceBin(x.price, BinSize)
  BY DEF CellOf
<1>2. {k[2] : k \in {j \in CellsOf(T) : j[1] = s}} = BinsOf(T, s)
  BY <1>1 DEF CellsOf, BinsOf, InSession
<1>3. \A b \in BinsOf(T, s) : <<s, b>> \in CellsOf(T)
  BY DEF CellsOf, BinsOf, InSession, CellOf
<1>4. {k[1] : k \in CellsOf(T)} = SessionsOf(T)
  BY <1>1 DEF CellsOf, SessionsOf
<1> QED BY <1>2, <1>3, <1>4

\* The POC is a bin of the session, and no bin of it has more volume.
LEMMA PocIs ==
  ASSUME NEW T, IsFiniteSet(T), T \subseteq Trade, NEW s \in SessionsOf(T),
         NEW hist, hist = SessionHistogram(T)
  PROVE  /\ PointOfControl(T, s) \in BinsOf(T, s)
         /\ \A c \in BinsOf(T, s) : hist[<<s, c>>] <= hist[<<s, PointOfControl(T, s)>>]
<1> DEFINE bins == BinsOf(T, s)
           volume == [b \in bins |-> hist[<<s, b>>]]
           most == {b \in bins : \A c \in bins : hist[<<s, c>>] <= hist[<<s, b>>]}
<1>1. IsFiniteSet(bins) /\ bins \subseteq Nat /\ bins # {}
  BY SessionsAre
<1>2. \A b \in bins : volume[b] \in Nat
  BY HistogramHolds, CellsOfSession
<1>3. PointOfControl(T, s) = Min(most)
  <2>1. {k[2] : k \in {j \in DOMAIN hist : j[1] = s}} = bins
    BY HistogramHolds, CellsOfSession
  <2> QED BY <2>1 DEF PointOfControl
<1>4. \A b \in bins : volume[b] = hist[<<s, b>>]
  OBVIOUS
<1> HIDE DEF bins, volume
<1>5. PICK b \in bins : \A c \in bins : volume[c] <= volume[b]
  <2> DEFINE V == {volume[b] : b \in bins}
  <2>1. IsFiniteSet(V)
    BY <1>1, ImageIsFinite
  <2>2. V # {} /\ V \subseteq Int
    <3>1. \A v \in V : v \in Int
      BY <1>2
    <3> QED BY <1>1, <3>1
  <2>3. Max(V) \in V /\ \A y \in V : y <= Max(V)
    BY <2>1, <2>2, MaxIsLargest
  <2> QED BY <2>3
<1>6. b \in most /\ most \subseteq bins
  BY <1>4, <1>5
<1>7. IsFiniteSet(most) /\ most \subseteq Int
  <2>1. most \subseteq Nat
    BY <1>1, <1>6
  <2> HIDE DEF most
  <2>2. IsFiniteSet(most)
    BY <1>1, <1>6, FS_Subset
  <2>3. most \subseteq Int
    BY <2>1
  <2> QED BY <2>2, <2>3
<1>8. Min(most) \in most
  BY <1>6, <1>7, MinIsSmallest
<1> QED BY <1>3, <1>8 DEF bins

LEMMA SummaryHolds ==
  ASSUME NEW T, IsFiniteSet(T), T \subseteq Trade, NEW summary, summary = ProfileSummary(T)
  PROVE  /\ DOMAIN summary = SessionsOf(T)
         /\ \A s \in SessionsOf(T) :
              /\ summary[s].poc = PointOfControl(T, s)
              /\ summary[s].day_low = Min(PricesOf(InSession(T, s)))
              /\ summary[s].day_high = Max(PricesOf(InSession(T, s)))
              /\ summary[s].day_volume = SumFunctionOnSet(Volumes, InSession(T, s))
              /\ summary[s].naked = Naked(T, s, PointOfControl(T, s))
<1>1. DOMAIN summary = SessionsOf(T)
  BY DEF ProfileSummary, SessionsOf
<1>2. ASSUME NEW s \in SessionsOf(T)
      PROVE  /\ summary[s].poc = PointOfControl(T, s)
             /\ summary[s].day_low = Min(PricesOf(InSession(T, s)))
             /\ summary[s].day_high = Max(PricesOf(InSession(T, s)))
             /\ summary[s].day_volume = Sum(InSession(T, s), LAMBDA x : x.qty)
             /\ summary[s].naked = Naked(T, s, PointOfControl(T, s))
  BY DEF ProfileSummary, SessionsOf, Sum, SumFunction
<1>3. ASSUME NEW s \in SessionsOf(T)
      PROVE  Sum(InSession(T, s), LAMBDA x : x.qty) = SumFunctionOnSet(Volumes, InSession(T, s))
  <2>1. IsFiniteSet(InSession(T, s)) /\ InSession(T, s) \subseteq Trade
    BY SessionsAre
  <2> QED BY <2>1, SumsOfTrades DEF Sum, SumFunction
<1>4. ASSUME NEW s \in SessionsOf(T)
      PROVE  summary[s].day_volume = SumFunctionOnSet(Volumes, InSession(T, s))
  BY <1>2, <1>3 DEF Sum, SumFunction
<1> QED BY <1>1, <1>2, <1>4

SessionCells(hist, s) == {k \in DOMAIN hist : k[1] = s}

\* The bins of a session are its trades, cut into parts.
LEMMA SumOverCells ==
  ASSUME NEW T, IsFiniteSet(T), T \subseteq Trade, NEW s \in SessionsOf(T),
         NEW hist, hist = SessionHistogram(T)
  PROVE  SumFunction([k \in SessionCells(hist, s) |-> hist[k]])
           = SumFunctionOnSet(Volumes, InSession(T, s))
<1> DEFINE S == InSession(T, s)
           K == SessionCells(hist, s)
           P == [k \in K |-> InCell(T, k)]
           p == [k \in K |-> hist[k]]
<1>1. DOMAIN hist = CellsOf(T) /\ IsFiniteSet(CellsOf(T))
  BY HistogramHolds
<1>2. IsFiniteSet(S) /\ S \subseteq Trade /\ IsFiniteSet(K)
  BY <1>1, SessionsAre, FS_Subset DEF SessionCells
<1>3. \A x \in S : Volumes[x] \in Int
  BY <1>2, WeightsAre
<1>4. \A x \in T : CellOf(x)[1] = SessionOf(x.t)
  BY DEF CellOf
<1>5. \A k \in K : P[k] \subseteq S
  <2> SUFFICES ASSUME NEW k \in K, NEW x \in T, CellOf(x) = k PROVE x \in S
    BY DEF InCell
  <2> QED BY <1>4 DEF SessionCells, InSession
<1>6. \A x \in S : \E k \in K : x \in P[k]
  <2> SUFFICES ASSUME NEW x \in S PROVE CellOf(x) \in K /\ x \in T
    BY DEF InCell
  <2>1. x \in T /\ SessionOf(x.t) = s
    BY DEF InSession
  <2> QED BY <1>1, <1>4, <2>1 DEF CellsOf, SessionCells
<1>7. \A j, k \in K : j # k => P[j] \cap P[k] = {}
  BY DEF InCell
<1>8. \A k \in K : p[k] = SumFunctionOnSet(Volumes, P[k])
  <2> SUFFICES ASSUME NEW k \in K PROVE hist[k] = SumFunctionOnSet(Volumes, InCell(T, k))
    OBVIOUS
  <2>1. k \in CellsOf(T)
    BY <1>1 DEF SessionCells
  <2> QED BY <2>1, HistogramHolds
<1>9. DOMAIN p = K /\ SumFunction(p) = SumFunctionOnSet(p, DOMAIN p)
  BY DEF SumFunction
<1>10. SumFunction([k \in SessionCells(hist, s) |-> hist[k]]) = SumFunction(p)
  OBVIOUS
<1> HIDE DEF S, P, K, p
<1>11. SumFunctionOnSet(Volumes, S) = SumFunctionOnSet(p, K)
  BY <1>2, <1>3, <1>5, <1>6, <1>7, <1>8, SumOfParts
<1> QED BY <1>9, <1>10, <1>11 DEF S

\* The last bar of a session has all of its trades.
LEMMA LastBarOfSession ==
  ASSUME NEW T, IsFiniteSet(T), T \subseteq Trade, NEW s \in SessionsOf(T),
         NEW bars \in BarTables(T, Fine), NEW H, H = {k \in BarTimes(T, Fine) : SessionOf(k) = s}
  PROVE  /\ Max(H) \in BarTimes(T, Fine)
         /\ TradesIn(T, Fine, SessionUpTo(bars, Max(H))) = InSession(T, s)
<1>1. Fine \in Nat \ {0}
  BY IntervalsAssumption
<1>2. DOMAIN bars = BarTimes(T, Fine) /\ IsFiniteSet(BarTimes(T, Fine)) /\ BarTimes(T, Fine) \subseteq Nat
  BY <1>1, BarsHold, BarTimesAre
<1>3. \A x \in T : /\ x.t \in Nat /\ SessionOf(BarTime(x.t, Fine)) = SessionOf(x.t)
                   /\ BarTime(x.t, Fine) \in BarTimes(T, Fine)
  BY WeightsAre, SessionOfFine DEF BarTimes
<1>4. H # {} /\ H \subseteq BarTimes(T, Fine) /\ H \subseteq Int
  <2>1. PICK x \in T : SessionOf(x.t) = s
    BY DEF SessionsOf
  <2>2. BarTime(x.t, Fine) \in H
    BY <1>3, <2>1
  <2> QED BY <1>2, <2>2
<1>5. IsFiniteSet(H)
  BY <1>2, <1>4, FS_Subset
<1>6. Max(H) \in H /\ \A k \in H : k <= Max(H)
  BY <1>4, <1>5, MaxIsLargest
<1>7. SessionOf(Max(H)) = s
  BY <1>6
<1>8. SessionUpTo(bars, Max(H)) = H
  BY <1>2, <1>6, <1>7 DEF SessionUpTo, UpTo
<1>9. TradesIn(T, Fine, H) = InSession(T, s)
  BY <1>3 DEF TradesIn, InSession
<1> QED BY <1>4, <1>6, <1>8, <1>9

\* The POC lies within the range of its session, but for the width of a bin.
LEMMA PocInRange ==
  ASSUME NEW T, IsFiniteSet(T), T \subseteq Trade, NEW s \in SessionsOf(T)
  PROVE  /\ PointOfControl(T, s) <= Max(PricesOf(InSession(T, s)))
         /\ PointOfControl(T, s) + BinSize > Min(PricesOf(InSession(T, s)))
<1> DEFINE S == InSession(T, s)
           poc == PointOfControl(T, s)
<1>1. IsFiniteSet(S) /\ S \subseteq Trade /\ S # {}
  BY SessionsAre
<1>2. PICK x \in S : poc = PriceBin(x.price, BinSize)
  <2>1. poc \in BinsOf(T, s)
    BY PocIs
  <2> QED BY <2>1 DEF BinsOf
<1>3. x.price \in Nat /\ poc \in Nat /\ poc <= x.price /\ x.price < poc + BinSize
  BY <1>1, <1>2, WeightsAre, PriceBinIs
<1>4. /\ x.price <= Max(PricesOf(S)) /\ Min(PricesOf(S)) <= x.price
      /\ Max(PricesOf(S)) \in Nat /\ Min(PricesOf(S)) \in Nat
  BY <1>1, PricesAre
<1> HIDE DEF S, poc
<1>5. BinSize \in Nat
  BY IntervalsAssumption
<1>6. poc <= Max(PricesOf(S)) /\ poc + BinSize > Min(PricesOf(S))
  BY <1>3, <1>4, <1>5
<1> QED BY <1>6 DEF S, poc

LEMMA SessionsOfFiles ==
  ASSUME Provenance, Contents
  PROVE  SessionsAgree
<1> SUFFICES ASSUME Alike({"session_volume_profile", "session_profile_summary", "session_vwap"})
             PROVE  SessionsAgree
  BY DEF SessionsAgree
<1> DEFINE T == Behind("session_volume_profile")
           hist == disk["session_volume_profile"]
           summary == disk["session_profile_summary"]
           vwap == disk["session_vwap"]
           Held(s) == {k \in DOMAIN vwap : SessionOf(k) = s}
<1>1. /\ made["session_volume_profile"] # {}
      /\ made["session_profile_summary"] = made["session_volume_profile"]
      /\ made["session_vwap"] = made["session_volume_profile"]
      /\ "session_volume_profile" \in Files /\ "session_profile_summary" \in Files
      /\ "session_vwap" \in Files
  BY FilesAre DEF Alike, Names
<1>2. IsFiniteSet(T) /\ T \subseteq Trade
  BY <1>1, BehindIsFinite
<1>3. hist = SessionHistogram(T) /\ summary = ProfileSummary(T)
  BY <1>1 DEF Contents, IsFrom, Behind
<1>4. PICK bars \in BarTables(T, Fine) : vwap = SessionVwap(bars)
  BY <1>1 DEF Contents, IsFrom, Behind
<1>5. Fine \in Nat \ {0}
  BY IntervalsAssumption
<1> HIDE DEF T, hist, summary, vwap
<1>6. DOMAIN summary = {k[1] : k \in DOMAIN hist} /\ DOMAIN summary = SessionsOf(T)
  BY <1>2, <1>3, SummaryHolds, HistogramHolds, CellsOfSession
<1>7. DOMAIN vwap = BarTimes(T, Fine)
  BY <1>2, <1>4, <1>5, SessionVwapHolds
<1>8. DOMAIN summary = {SessionOf(k) : k \in DOMAIN vwap}
  <2>1. \A x \in T : SessionOf(BarTime(x.t, Fine)) = SessionOf(x.t)
    BY <1>2, WeightsAre, SessionOfFine
  <2> QED BY <1>6, <1>7, <2>1 DEF SessionsOf, BarTimes
<1>9. ASSUME NEW s \in DOMAIN summary
      PROVE  /\ SumFunction([k \in SessionCells(hist, s) |-> hist[k]]) = summary[s].day_volume
             /\ vwap[Max(Held(s))].volume = summary[s].day_volume
             /\ summary[s].poc <= summary[s].day_high
             /\ summary[s].poc + BinSize > summary[s].day_low
  <2>1. s \in SessionsOf(T)
    BY <1>6, <1>9
  <2>2. summary[s].day_volume = SumFunctionOnSet(Volumes, InSession(T, s))
    BY <1>2, <1>3, <2>1, SummaryHolds
  <2>3. SumFunction([k \in SessionCells(hist, s) |-> hist[k]])
          = SumFunctionOnSet(Volumes, InSession(T, s))
    BY <1>2, <1>3, <2>1, SumOverCells
  <2>4. vwap[Max(Held(s))].volume = SumFunctionOnSet(Volumes, InSession(T, s))
    <3>1. Held(s) = {k \in BarTimes(T, Fine) : SessionOf(k) = s}
      BY <1>7
    <3> HIDE DEF Held
    <3>2. /\ Max(Held(s)) \in BarTimes(T, Fine)
          /\ TradesIn(T, Fine, SessionUpTo(bars, Max(Held(s)))) = InSession(T, s)
      BY <1>2, <2>1, <3>1, LastBarOfSession
    <3>3. vwap[Max(Held(s))] = VwapRow(InSession(T, s))
      BY <1>2, <1>4, <1>5, <3>2, SessionVwapHolds
    <3> QED BY <3>3 DEF VwapRow
  <2>5. /\ summary[s].poc <= summary[s].day_high
        /\ summary[s].poc + BinSize > summary[s].day_low
    BY <1>2, <1>3, <2>1, SummaryHolds, PocInRange
  <2> QED BY <2>2, <2>3, <2>4, <2>5
<1> QED BY <1>6, <1>8, <1>9 DEF SessionsAgree, SessionCells, Sum, hist, summary, vwap

\* The three queries that cut time into sessions agree: the bins of a session, its
\* summary and its last vwap row have the volume of the same trades, and the POC lies
\* in the range of the session (volume_profile.py: _session_histogram and
\* compute_session_profiles; vwap.py: compute_session_vwap).
THEOREM SessionsAreTheSame == Spec => []SessionsAgree
<1>1. Provenance /\ Contents => SessionsAgree
  BY SessionsOfFiles
<1> QED BY <1>1, ProvenanceInvariance, ContentsInvariance, PTL

----------------------------------------------------------------------------
(* The developing POC *)

StepsOf(T) == {<<SessionOf(x.t), BarTime(x.t, Coarse)>> : x \in T}

UntilStep(T, s, step, bin) ==
  {x \in T : /\ SessionOf(x.t) = s /\ BarTime(x.t, Coarse) <= step
             /\ PriceBin(x.price, BinSize) = bin}

LEMMA RunningIs ==
  ASSUME NEW T, IsFiniteSet(T), T \subseteq Trade, NEW s, NEW step, NEW bin
  PROVE  /\ Running(T, s, step, bin) = SumFunctionOnSet(Volumes, UntilStep(T, s, step, bin))
         /\ Running(T, s, step, bin) \in Nat
<1>1. IsFiniteSet(UntilStep(T, s, step, bin)) /\ UntilStep(T, s, step, bin) \subseteq Trade
  BY FS_Subset DEF UntilStep
<1>2. Sum(UntilStep(T, s, step, bin), LAMBDA x : x.qty)
        = SumFunctionOnSet(Volumes, UntilStep(T, s, step, bin))
  BY <1>1, SumsOfTrades DEF Sum, SumFunction
<1>3. Running(T, s, step, bin) = Sum(UntilStep(T, s, step, bin), LAMBDA x : x.qty)
  BY DEF Running, UntilStep, Sum
<1>4. SumFunctionOnSet(Volumes, UntilStep(T, s, step, bin)) \in Nat
  BY <1>1, SumsAreNumbers
<1> QED BY <1>2, <1>3, <1>4 DEF Sum, SumFunction

\* What a bin has until a step is not more than what it has in the session, and is all
\* of it when no trade of the bin comes later.
LEMMA RunningIsPart ==
  ASSUME NEW T, IsFiniteSet(T), T \subseteq Trade, NEW hist, hist = SessionHistogram(T),
         NEW s \in SessionsOf(T), NEW bin \in BinsOf(T, s), NEW step
  PROVE  /\ Running(T, s, step, bin) <= hist[<<s, bin>>]
         /\ (\A x \in InSession(T, s) :
               PriceBin(x.price, BinSize) = bin => BarTime(x.t, Coarse) <= step)
              => Running(T, s, step, bin) = hist[<<s, bin>>]
<1> DEFINE C == InCell(T, <<s, bin>>)
           U == UntilStep(T, s, step, bin)
<1>1. <<s, bin>> \in CellsOf(T)
  BY CellsOfSession
<1>2. IsFiniteSet(C) /\ C \subseteq T /\ hist[<<s, bin>>] = SumFunctionOnSet(Volumes, C)
  BY <1>1, HistogramHolds
<1>3. \A x \in T : x \in C <=> SessionOf(x.t) = s /\ PriceBin(x.price, BinSize) = bin
  BY DEF InCell, CellOf
<1>4. U \subseteq C
  BY <1>3 DEF UntilStep
<1>5. (\A x \in InSession(T, s) :
         PriceBin(x.price, BinSize) = bin => BarTime(x.t, Coarse) <= step) => C = U
  BY <1>2, <1>3 DEF UntilStep, InSession
<1>6. Running(T, s, step, bin) = SumFunctionOnSet(Volumes, U)
  BY RunningIs
<1> HIDE DEF C, U
<1>7. SumFunctionOnSet(Volumes, U) <= SumFunctionOnSet(Volumes, C)
  <2>1. \A x \in C : Volumes[x] \in Nat
    BY <1>2, WeightsAre
  <2> QED BY <1>2, <1>4, <2>1, SumOfSubset
<1> QED BY <1>2, <1>5, <1>6, <1>7

\* The bin of a row traded in its step, and none that did has more volume until then.
LEMMA DevelopingHolds ==
  ASSUME NEW T, IsFiniteSet(T), T \subseteq Trade, NEW table \in DevelopingPocs(T)
  PROVE  /\ DOMAIN table = StepsOf(T)
         /\ \A k \in StepsOf(T) :
              /\ table[k].developing_poc \in TradedIn(T, k[1], k[2])
              /\ table[k].running_volume = Running(T, k[1], k[2], table[k].developing_poc)
              /\ \A c \in TradedIn(T, k[1], k[2]) :
                   Running(T, k[1], k[2], c) <= table[k].running_volume
<1> DEFINE Best(k) == {b \in TradedIn(T, k[1], k[2]) :
                         \A c \in TradedIn(T, k[1], k[2]) :
                           Running(T, k[1], k[2], c) <= Running(T, k[1], k[2], b)}
           g == [k \in StepsOf(T) |-> Best(k)]
<1>1. PICK f \in Selections(g) :
        table = [k \in StepsOf(T) |-> [developing_poc |-> f[k],
                                       running_volume |-> Running(T, k[1], k[2], f[k])]]
  BY DEF DevelopingPocs, StepsOf
<1>2. ASSUME NEW k \in StepsOf(T) PROVE Best(k) # {}
  <2> DEFINE bins == TradedIn(T, k[1], k[2])
             v == [b \in bins |-> Running(T, k[1], k[2], b)]
             S == {x \in T : SessionOf(x.t) = k[1] /\ BarTime(x.t, Coarse) = k[2]}
             bin == [x \in S |-> PriceBin(x.price, BinSize)]
             V == {v[b] : b \in bins}
  <2>1. IsFiniteSet(S)
    BY FS_Subset
  <2>2. S # {}
    BY DEF StepsOf
  <2>3. bins = {bin[x] : x \in S}
    BY DEF TradedIn
  <2>4. \A b \in bins : v[b] \in Int /\ v[b] = Running(T, k[1], k[2], b)
    BY RunningIs
  <2> HIDE DEF v, bin, S, bins
  <2>5. IsFiniteSet(bins) /\ bins # {}
    BY <2>1, <2>2, <2>3, ImageIsFinite
  <2>6. IsFiniteSet(V)
    BY <2>5, ImageIsFinite
  <2>7. V # {} /\ V \subseteq Int
    <3>1. \A y \in V : y \in Int
      BY <2>4
    <3> QED BY <2>5, <3>1
  <2>8. Max(V) \in V /\ \A y \in V : y <= Max(V)
    BY <2>6, <2>7, MaxIsLargest
  <2>9. PICK b \in bins : \A c \in bins : v[c] <= v[b]
    BY <2>8
  <2> QED BY <2>4, <2>9 DEF bins
<1>3. DOMAIN g = StepsOf(T) /\ \A k \in DOMAIN g : g[k] = Best(k)
  OBVIOUS
<1> HIDE DEF g
<1>4. \A k \in StepsOf(T) : f[k] \in Best(k)
  <2> HIDE DEF Best
  <2> QED BY <1>1, <1>2, <1>3, SelectionsChoose
<1>5. ASSUME NEW k \in StepsOf(T)
      PROVE  /\ table[k].developing_poc = f[k]
             /\ table[k].running_volume = Running(T, k[1], k[2], f[k])
  BY <1>1
<1>6. DOMAIN table = StepsOf(T)
  BY <1>1
<1> QED BY <1>4, <1>5, <1>6

\* The steps in which a bin of a session trades.
StepsOfBin(T, s, bin) ==
  {BarTime(x.t, Coarse) : x \in {y \in InSession(T, s) : PriceBin(y.price, BinSize) = bin}}

LEMMA LastStepOfBin ==
  ASSUME NEW T, IsFiniteSet(T), T \subseteq Trade, NEW s \in SessionsOf(T), NEW bin \in BinsOf(T, s)
  PROVE  /\ <<s, Max(StepsOfBin(T, s, bin))>> \in StepsOf(T)
         /\ bin \in TradedIn(T, s, Max(StepsOfBin(T, s, bin)))
         /\ \A x \in InSession(T, s) : PriceBin(x.price, BinSize) = bin
              => BarTime(x.t, Coarse) <= Max(StepsOfBin(T, s, bin))
<1> DEFINE S == {y \in InSession(T, s) : PriceBin(y.price, BinSize) = bin}
           step == [x \in S |-> BarTime(x.t, Coarse)]
           last == Max(StepsOfBin(T, s, bin))
<1>1. IsFiniteSet(S) /\ S \subseteq Trade /\ S # {}
  <2>1. IsFiniteSet(InSession(T, s)) /\ InSession(T, s) \subseteq Trade
    BY SessionsAre
  <2> QED BY <2>1, FS_Subset DEF BinsOf
<1>2. StepsOfBin(T, s, bin) = {step[x] : x \in S} /\ \A x \in S : step[x] = BarTime(x.t, Coarse)
  BY DEF StepsOfBin
<1>3. \A x \in S : step[x] \in Nat
  BY <1>1, <1>2, WeightsAre, BarTimeIs, IntervalsAssumption
<1>4. \A x \in InSession(T, s) : PriceBin(x.price, BinSize) = bin => x \in S
  OBVIOUS
<1>5. \A x \in S : x \in T /\ SessionOf(x.t) = s /\ PriceBin(x.price, BinSize) = bin
  BY DEF InSession
<1> HIDE DEF S, step
<1>6. IsFiniteSet(StepsOfBin(T, s, bin))
  BY <1>1, <1>2, ImageIsFinite
<1>7. StepsOfBin(T, s, bin) # {} /\ StepsOfBin(T, s, bin) \subseteq Int
  <2>1. \A y \in StepsOfBin(T, s, bin) : y \in Int
    BY <1>2, <1>3
  <2>2. StepsOfBin(T, s, bin) # {}
    BY <1>1, <1>2
  <2> QED BY <2>1, <2>2
<1>8. last \in StepsOfBin(T, s, bin) /\ \A y \in StepsOfBin(T, s, bin) : y <= last
  BY <1>6, <1>7, MaxIsLargest
<1>9. PICK x \in S : BarTime(x.t, Coarse) = last
  BY <1>2, <1>8
<1>10. \A y \in S : BarTime(y.t, Coarse) <= last
  BY <1>2, <1>8
<1>11. <<s, last>> \in StepsOf(T)
  BY <1>5, <1>9 DEF StepsOf
<1>12. bin \in TradedIn(T, s, last)
  BY <1>5, <1>9 DEF TradedIn
<1> QED BY <1>4, <1>10, <1>11, <1>12

LEMMA DevelopingConverges ==
  ASSUME NEW T, IsFiniteSet(T), T \subseteq Trade, NEW hist, hist = SessionHistogram(T),
         NEW table \in DevelopingPocs(T)
  PROVE  /\ \A s \in SessionsOf(T) :
              table[<<s, Max(StepsOfBin(T, s, PointOfControl(T, s)))>>].running_volume
                = hist[<<s, PointOfControl(T, s)>>]
         /\ \A k \in StepsOf(T) :
              /\ table[k].running_volume <= hist[<<k[1], PointOfControl(T, k[1])>>]
              /\ <<k[1], table[k].developing_poc>> \in CellsOf(T)
<1>1. ASSUME NEW k \in StepsOf(T)
      PROVE  /\ k[1] \in SessionsOf(T)
             /\ table[k].developing_poc \in BinsOf(T, k[1])
             /\ table[k].running_volume \in Nat
             /\ hist[<<k[1], PointOfControl(T, k[1])>>] \in Nat
             /\ table[k].running_volume <= hist[<<k[1], PointOfControl(T, k[1])>>]
             /\ <<k[1], table[k].developing_poc>> \in CellsOf(T)
  <2> DEFINE s == k[1]
             b == table[k].developing_poc
             poc == PointOfControl(T, s)
  <2>1. s \in SessionsOf(T)
    BY DEF StepsOf, SessionsOf
  <2>2. b \in TradedIn(T, s, k[2]) /\ table[k].running_volume = Running(T, s, k[2], b)
    BY DevelopingHolds
  <2>3. b \in BinsOf(T, s)
    BY <2>2 DEF TradedIn, BinsOf, InSession
  <2>4. /\ poc \in BinsOf(T, s) /\ hist[<<s, b>>] <= hist[<<s, poc>>]
        /\ Running(T, s, k[2], b) <= hist[<<s, b>>]
    BY <2>1, <2>3, PocIs, RunningIsPart
  <2>5. <<s, b>> \in CellsOf(T) /\ <<s, poc>> \in CellsOf(T)
    BY <2>3, <2>4, CellsOfSession
  <2>6. hist[<<s, b>>] \in Nat /\ hist[<<s, poc>>] \in Nat /\ Running(T, s, k[2], b) \in Nat
    BY <2>5, HistogramHolds, RunningIs
  <2> HIDE DEF s, b, poc
  <2>7. table[k].running_volume <= hist[<<s, poc>>]
    BY <2>2, <2>4, <2>6
  <2> QED BY <2>1, <2>2, <2>3, <2>5, <2>6, <2>7 DEF s, b, poc
<1>2. ASSUME NEW s \in SessionsOf(T)
      PROVE  table[<<s, Max(StepsOfBin(T, s, PointOfControl(T, s)))>>].running_volume
               = hist[<<s, PointOfControl(T, s)>>]
  <2> DEFINE poc == PointOfControl(T, s)
             last == Max(StepsOfBin(T, s, poc))
             k == <<s, last>>
  <2>1. poc \in BinsOf(T, s)
    BY PocIs
  <2>2. /\ k \in StepsOf(T) /\ poc \in TradedIn(T, s, last)
        /\ \A x \in InSession(T, s) :
             PriceBin(x.price, BinSize) = poc => BarTime(x.t, Coarse) <= last
    BY <2>1, LastStepOfBin
  <2>3. Running(T, s, last, poc) = hist[<<s, poc>>]
    BY <2>1, <2>2, RunningIsPart
  <2>4. k[1] = s /\ k[2] = last
    OBVIOUS
  <2> HIDE DEF poc, last, k
  <2>5. Running(T, s, last, poc) <= table[k].running_volume
    BY <2>2, <2>4, DevelopingHolds
  <2>6. /\ table[k].running_volume <= hist[<<s, poc>>]
        /\ table[k].running_volume \in Nat /\ hist[<<s, poc>>] \in Nat
    BY <1>1, <2>2, <2>4 DEF poc
  <2>7. table[k].running_volume = hist[<<s, poc>>]
    BY <2>3, <2>5, <2>6
  <2> QED BY <2>7 DEF k, last, poc
<1> QED BY <1>1, <1>2

LEMMA DevelopingOfFiles ==
  ASSUME Provenance, Contents
  PROVE  DevelopingPocReachesPoc
<1> SUFFICES ASSUME Alike({"developing_poc", "session_volume_profile", "session_profile_summary"})
             PROVE  DevelopingPocReachesPoc
  BY DEF DevelopingPocReachesPoc
<1> DEFINE T == Behind("developing_poc")
           hist == disk["session_volume_profile"]
           summary == disk["session_profile_summary"]
           developing == disk["developing_poc"]
<1>1. /\ made["developing_poc"] # {}
      /\ made["session_profile_summary"] = made["developing_poc"]
      /\ made["session_volume_profile"] = made["developing_poc"]
      /\ "session_volume_profile" \in Files /\ "session_profile_summary" \in Files
      /\ "developing_poc" \in Files
  BY FilesAre DEF Alike, Names
<1>2. IsFiniteSet(T) /\ T \subseteq Trade
  BY <1>1, BehindIsFinite
<1>3. hist = SessionHistogram(T) /\ summary = ProfileSummary(T) /\ developing \in DevelopingPocs(T)
  BY <1>1 DEF Contents, IsFrom, Behind
<1> HIDE DEF T, hist, summary, developing
<1>4. /\ DOMAIN summary = SessionsOf(T) /\ DOMAIN hist = CellsOf(T)
      /\ DOMAIN developing = StepsOf(T)
  BY <1>2, <1>3, SummaryHolds, HistogramHolds, DevelopingHolds
<1>5. \A s \in DOMAIN summary : summary[s].poc = PointOfControl(T, s)
  BY <1>2, <1>3, <1>4, SummaryHolds
<1>6. \A s \in DOMAIN summary :
        developing[<<s, Max(StepsOfBin(T, s, summary[s].poc))>>].running_volume
          = hist[<<s, summary[s].poc>>]
  BY <1>2, <1>3, <1>4, <1>5, DevelopingConverges
<1>7. \A k \in DOMAIN developing :
        /\ developing[k].running_volume <= hist[<<k[1], summary[k[1]].poc>>]
        /\ <<k[1], developing[k].developing_poc>> \in DOMAIN hist
  <2> TAKE k \in DOMAIN developing
  <2>1. k[1] \in DOMAIN summary
    BY <1>4 DEF StepsOf, SessionsOf
  <2> QED BY <1>2, <1>3, <1>4, <1>5, <2>1, DevelopingConverges
<1> QED BY <1>6, <1>7 DEF DevelopingPocReachesPoc, StepsOfBin, T, hist, summary, developing

\* The developing POC comes to the POC of the session: in the last step in which that
\* bin trades its row has the whole volume of the bin, and no row ever has more; the
\* rows after that step may show another bin (volume_profile.py:
\* compute_developing_poc, against _session_histogram).
THEOREM DevelopingPocComesToPoc == Spec => []DevelopingPocReachesPoc
<1>1. Provenance /\ Contents => DevelopingPocReachesPoc
  BY DevelopingOfFiles
<1> QED BY <1>1, ProvenanceInvariance, ContentsInvariance, PTL

----------------------------------------------------------------------------
(* Months that are added *)

\* Trades that grow, by none of a time before F.
Grown(T, U, F) ==
  /\ IsFiniteSet(U) /\ T \subseteq U /\ U \subseteq Trade /\ F \in Nat
  /\ \A x \in U \ T : F <= BarTime(x.t, Coarse)

\* Tables that have the same rows before F, or the same values in them too.
PastOf(table, F) == {k \in DOMAIN table : k < F}
SameTimes(a, b, F) ==
  DOMAIN a \subseteq Nat /\ DOMAIN b \subseteq Nat /\ PastOf(a, F) = PastOf(b, F)
SamePast(a, b, F) ==
  /\ DOMAIN a \subseteq Nat /\ DOMAIN b \subseteq Nat
  /\ PastOf(a, F) = PastOf(b, F) /\ \A k \in PastOf(a, F) : a[k] = b[k]

LEMMA AddedComeLater ==
  ASSUME NEW T, NEW U, NEW F, Grown(T, U, F), NEW width \in {Fine, Coarse}
  PROVE  \A x \in U \ T : BarTime(x.t, width) \in Nat /\ F <= BarTime(x.t, width)
<1> TAKE x \in U \ T
<1>1. Fine \in Nat \ {0} /\ Coarse \in Nat \ {0}
  BY IntervalsAssumption
<1>2. x.t \in Nat /\ F \in Nat /\ F <= BarTime(x.t, Coarse)
  BY WeightsAre DEF Grown
<1>3. /\ BarTime(x.t, Fine) \in Nat /\ BarTime(x.t, Coarse) \in Nat
      /\ BarTime(BarTime(x.t, Fine), Coarse) <= BarTime(x.t, Fine)
      /\ BarTime(BarTime(x.t, Fine), Coarse) = BarTime(x.t, Coarse)
  BY <1>1, <1>2, BarTimeIs, CoarseBarOfFine
<1> QED BY <1>2, <1>3

LEMMA PastBarsKeepTrades ==
  ASSUME NEW T, NEW U, NEW F, Grown(T, U, F), NEW width \in {Fine, Coarse}
  PROVE  /\ \A k : k < F => InBar(U, k, width) = InBar(T, k, width)
         /\ \A k : k < F => (k \in BarTimes(U, width) <=> k \in BarTimes(T, width))
<1>1. ASSUME NEW x \in U, BarTime(x.t, width) < F PROVE x \in T
  <2> SUFFICES ASSUME x \notin T PROVE FALSE
    OBVIOUS
  <2>1. BarTime(x.t, width) \in Nat /\ F <= BarTime(x.t, width) /\ F \in Nat
    BY AddedComeLater DEF Grown
  <2> QED BY <1>1, <2>1
<1>2. T \subseteq U
  BY DEF Grown
<1> QED BY <1>1, <1>2 DEF InBar, BarTimes

BarRow(B, open, close) ==
  [open |-> open, close |-> close, high |-> Max(PricesOf(B)), low |-> Min(PricesOf(B)),
   volume |-> Sum(B, LAMBDA x : x.qty), quote |-> Sum(B, Quote),
   buy |-> Sum(B, TakerBuy), sell |-> Sum(B, TakerSell), count |-> Cardinality(B)]

LEMMA BarIsRow ==
  ASSUME NEW T, NEW width, NEW bars \in BarTables(T, width), NEW k \in BarTimes(T, width)
  PROVE  bars[k] = BarRow(InBar(T, k, width), bars[k].open, bars[k].close)
BY DEF BarTables, Bars, BarRow, Sum

\* Bars that have the same rows before F, but for the opens and the closes.
SameBars(a, b, F) ==
  /\ SameTimes(a, b, F)
  /\ \A k \in PastOf(a, F) :
       /\ a[k].high = b[k].high /\ a[k].low = b[k].low
       /\ a[k].volume = b[k].volume /\ a[k].quote = b[k].quote
       /\ a[k].buy = b[k].buy /\ a[k].sell = b[k].sell /\ a[k].count = b[k].count

\* Where the open or the close is no choice, it is the same too.
SamePrices(T, width, a, b, F) ==
  \A k \in PastOf(a, F) :
    /\ OpenIsFixed(T, k, width) => a[k].open = b[k].open
    /\ CloseIsFixed(T, k, width) => a[k].close = b[k].close

LEMMA BarsSamePast ==
  ASSUME NEW T, NEW U, NEW F, Grown(T, U, F), NEW width \in {Fine, Coarse},
         NEW a \in BarTables(T, width), NEW b \in BarTables(U, width)
  PROVE  /\ SameBars(a, b, F) /\ SamePrices(T, width, a, b, F)
         /\ DOMAIN a = BarTimes(T, width)
<1>1. /\ IsFiniteSet(U) /\ U \subseteq Trade /\ IsFiniteSet(T) /\ T \subseteq Trade
      /\ width \in Nat \ {0} /\ T \subseteq U
  BY FS_Subset, IntervalsAssumption DEF Grown
<1>2. /\ DOMAIN a = BarTimes(T, width) /\ DOMAIN b = BarTimes(U, width)
      /\ DOMAIN a \subseteq Nat /\ DOMAIN b \subseteq Nat
  BY <1>1, BarsHold, BarTimesAre
<1>3. PastOf(a, F) = PastOf(b, F)
  BY <1>2, PastBarsKeepTrades DEF PastOf
<1>4. ASSUME NEW k \in PastOf(a, F)
      PROVE  /\ a[k].high = b[k].high /\ a[k].low = b[k].low
             /\ a[k].volume = b[k].volume /\ a[k].quote = b[k].quote
             /\ a[k].buy = b[k].buy /\ a[k].sell = b[k].sell /\ a[k].count = b[k].count
             /\ OpenIsFixed(T, k, width) => a[k].open = b[k].open
             /\ CloseIsFixed(T, k, width) => a[k].close = b[k].close
  <2> DEFINE B == InBar(T, k, width)
  <2>1. k \in BarTimes(T, width) /\ k \in BarTimes(U, width) /\ k < F
    BY <1>2, <1>3 DEF PastOf
  <2>2. InBar(U, k, width) = B
    BY <2>1, PastBarsKeepTrades
  <2>3. a[k].open \in PricesOf(FirstOf(B)) /\ a[k].close \in PricesOf(LastOf(B))
    BY <1>1, <2>1, BarsHold
  <2>4. b[k].open \in PricesOf(FirstOf(B)) /\ b[k].close \in PricesOf(LastOf(B))
    BY <1>1, <2>1, <2>2, BarsHold
  <2>5. OpenIsFixed(T, k, width) => a[k].open = b[k].open
    BY <2>3, <2>4 DEF OpenIsFixed, OnePrice, PricesOf
  <2>6. CloseIsFixed(T, k, width) => a[k].close = b[k].close
    BY <2>3, <2>4 DEF CloseIsFixed, OnePrice, PricesOf
  <2>7. /\ a[k] = BarRow(B, a[k].open, a[k].close)
        /\ b[k] = BarRow(B, b[k].open, b[k].close)
    BY <2>1, <2>2, BarIsRow
  <2>8. \A o, c, p, d :
          /\ BarRow(B, o, c).high = BarRow(B, p, d).high
          /\ BarRow(B, o, c).low = BarRow(B, p, d).low
          /\ BarRow(B, o, c).volume = BarRow(B, p, d).volume
          /\ BarRow(B, o, c).quote = BarRow(B, p, d).quote
          /\ BarRow(B, o, c).buy = BarRow(B, p, d).buy
          /\ BarRow(B, o, c).sell = BarRow(B, p, d).sell
          /\ BarRow(B, o, c).count = BarRow(B, p, d).count
    BY DEF BarRow
  <2> QED BY <2>5, <2>6, <2>7, <2>8
<1> QED BY <1>2, <1>3, <1>4 DEF SameBars, SamePrices, SameTimes

\* What a query over bars has in a row is of bars up to its time: no later bar changes it.
LEMMA SameUpTo ==
  ASSUME NEW a, NEW b, NEW F \in Nat, SameTimes(a, b, F), NEW k \in PastOf(a, F)
  PROVE  /\ UpTo(a, k) = UpTo(b, k) /\ SessionUpTo(a, k) = SessionUpTo(b, k)
         /\ UpTo(a, k) \subseteq PastOf(a, F) /\ SessionUpTo(a, k) \subseteq PastOf(a, F)
         /\ k \in DOMAIN a /\ k \in DOMAIN b
<1>1. k \in Nat /\ k < F
  BY DEF SameTimes, PastOf
<1>2. \A j \in DOMAIN a : j <= k => j \in PastOf(a, F)
  BY <1>1 DEF SameTimes, PastOf
<1>3. \A j \in DOMAIN b : j <= k => j \in PastOf(b, F)
  BY <1>1 DEF SameTimes, PastOf
<1>4. \A j : j \in DOMAIN a /\ j <= k <=> j \in DOMAIN b /\ j <= k
  BY <1>2, <1>3 DEF SameTimes, PastOf
<1>5. k \in DOMAIN a /\ k \in DOMAIN b
  BY DEF SameTimes, PastOf
<1> QED BY <1>2, <1>4, <1>5 DEF UpTo, SessionUpTo

\* Rows of orderflow that are the same before F, but for the closes.
SameFlow(a, b, F) ==
  /\ SameTimes(a, b, F)
  /\ \A k \in PastOf(a, F) : /\ a[k].delta = b[k].delta
                             /\ a[k].cumulative = b[k].cumulative
                             /\ a[k].session = b[k].session

LEMMA OrderflowSamePast ==
  ASSUME NEW a, NEW b, NEW F \in Nat, SameBars(a, b, F)
  PROVE  /\ SameFlow(Orderflow(a), Orderflow(b), F)
         /\ DOMAIN Orderflow(a) = DOMAIN a /\ DOMAIN Orderflow(b) = DOMAIN b
         /\ \A k \in DOMAIN a : Orderflow(a)[k].close = a[k].close
         /\ \A k \in DOMAIN b : Orderflow(b)[k].close = b[k].close
<1>0. SameTimes(a, b, F)
  BY DEF SameBars
<1>1. DOMAIN Orderflow(a) = DOMAIN a /\ DOMAIN Orderflow(b) = DOMAIN b
  BY DEF Orderflow
<1>2. ASSUME NEW k \in PastOf(a, F)
      PROVE  /\ Orderflow(a)[k].delta = Orderflow(b)[k].delta
             /\ Orderflow(a)[k].cumulative = Orderflow(b)[k].cumulative
             /\ Orderflow(a)[k].session = Orderflow(b)[k].session
  <2>1. k \in DOMAIN a /\ k \in DOMAIN b
    BY <1>0, SameUpTo
  <2>2. \A j \in UpTo(a, k) \cup SessionUpTo(a, k) : a[j].buy = b[j].buy /\ a[j].sell = b[j].sell
    BY <1>0, SameUpTo DEF SameBars
  <2>3. UpTo(a, k) = UpTo(b, k) /\ SessionUpTo(a, k) = SessionUpTo(b, k)
    BY <1>0, SameUpTo
  <2> DEFINE da(S) == [j \in S |-> a[j].buy - a[j].sell]
             db(S) == [j \in S |-> b[j].buy - b[j].sell]
  <2>4. /\ Orderflow(a)[k] = [close |-> a[k].close, delta |-> a[k].buy - a[k].sell,
                              cumulative |-> SumFunction(da(UpTo(a, k))),
                              session |-> SumFunction(da(SessionUpTo(a, k)))]
        /\ Orderflow(b)[k] = [close |-> b[k].close, delta |-> b[k].buy - b[k].sell,
                              cumulative |-> SumFunction(db(UpTo(b, k))),
                              session |-> SumFunction(db(SessionUpTo(b, k)))]
    BY <2>1 DEF Orderflow, Sum
  <2>5. da(UpTo(a, k)) = db(UpTo(b, k)) /\ da(SessionUpTo(a, k)) = db(SessionUpTo(b, k))
    BY <2>2, <2>3
  <2>6. a[k].buy = b[k].buy /\ a[k].sell = b[k].sell
    BY DEF SameBars
  <2> HIDE DEF da, db
  <2> QED BY <2>4, <2>5, <2>6
<1>3. PastOf(Orderflow(a), F) = PastOf(a, F) /\ PastOf(Orderflow(b), F) = PastOf(b, F)
  BY <1>1 DEF PastOf
<1>4. /\ \A k \in DOMAIN a : Orderflow(a)[k].close = a[k].close
      /\ \A k \in DOMAIN b : Orderflow(b)[k].close = b[k].close
  BY DEF Orderflow
<1> QED BY <1>0, <1>1, <1>2, <1>3, <1>4 DEF SameFlow, SameTimes

LEMMA SessionVwapSamePast ==
  ASSUME NEW a, NEW b, NEW F \in Nat, SameBars(a, b, F)
  PROVE  SamePast(SessionVwap(a), SessionVwap(b), F)
<1>0. SameTimes(a, b, F)
  BY DEF SameBars
<1>1. DOMAIN SessionVwap(a) = DOMAIN a /\ DOMAIN SessionVwap(b) = DOMAIN b
  BY DEF SessionVwap
<1>2. ASSUME NEW k \in PastOf(a, F) PROVE SessionVwap(a)[k] = SessionVwap(b)[k]
  <2> DEFINE S == SessionUpTo(a, k)
             qa == [j \in S |-> a[j].quote]
             qb == [j \in S |-> b[j].quote]
             va == [j \in S |-> a[j].volume]
             vb == [j \in S |-> b[j].volume]
  <2>1. k \in DOMAIN a /\ k \in DOMAIN b
    BY <1>0, SameUpTo
  <2>2. \A j \in S : a[j].quote = b[j].quote /\ a[j].volume = b[j].volume
    BY <1>0, SameUpTo DEF SameBars
  <2>3. SessionUpTo(b, k) = S
    BY <1>0, SameUpTo
  <2>4. SessionVwap(a)[k] = [quote |-> SumFunction(qa), volume |-> SumFunction(va)]
    BY <2>1 DEF SessionVwap, Sum
  <2>5. SessionVwap(b)[k] = [quote |-> SumFunction(qb), volume |-> SumFunction(vb)]
    BY <2>1, <2>3 DEF SessionVwap, Sum
  <2>6. qa = qb /\ va = vb
    BY <2>2
  <2> HIDE DEF qa, qb, va, vb
  <2> QED BY <2>4, <2>5, <2>6
<1>3. PastOf(SessionVwap(a), F) = PastOf(a, F) /\ PastOf(SessionVwap(b), F) = PastOf(b, F)
  BY <1>1 DEF PastOf
<1> QED BY <1>0, <1>1, <1>2, <1>3 DEF SamePast, SameTimes

\* The row at k is in both tables, and the same, or in none.
SameRow(a, b, k) == (k \in DOMAIN a <=> k \in DOMAIN b) /\ (k \in DOMAIN a => a[k] = b[k])

\* The rows before one that a divergence looks at.
PriorTo(a, k) ==
  {j \in DOMAIN a : j < k /\ Cardinality({i \in DOMAIN a : j <= i /\ i < k}) <= Lookback}
ClosesOf(a, S) == {a[j].close : j \in S}
DeltasOf(a, S) == {a[j].cumulative : j \in S}
Bearish(a, k) == /\ a[k].close > Max(ClosesOf(a, PriorTo(a, k)))
                 /\ a[k].cumulative <= Max(DeltasOf(a, PriorTo(a, k)))
Bullish(a, k) == /\ a[k].close < Min(ClosesOf(a, PriorTo(a, k)))
                 /\ a[k].cumulative >= Min(DeltasOf(a, PriorTo(a, k)))
Diverges(a, k) == PriorTo(a, k) # {} /\ (Bearish(a, k) \/ Bullish(a, k))

LEMMA DivergenceIs ==
  ASSUME NEW a
  PROVE  Divergence(a) = [k \in {j \in DOMAIN a : Diverges(a, j)} |->
                            [bearish |-> Bearish(a, k), bullish |-> Bullish(a, k)]]
BY DEF Divergence, Diverges, Bearish, Bullish, PriorTo, ClosesOf, DeltasOf

LEMMA PriorSamePast ==
  ASSUME NEW a, NEW b, NEW F \in Nat, SameFlow(a, b, F), NEW k \in PastOf(a, F)
  PROVE  /\ PriorTo(a, k) = PriorTo(b, k) /\ a[k].cumulative = b[k].cumulative
         /\ DeltasOf(a, PriorTo(a, k)) = DeltasOf(b, PriorTo(b, k))
<1>1. k \in Nat /\ k < F /\ a[k].cumulative = b[k].cumulative
  BY DEF SameFlow, SameTimes, PastOf
<1>2. \A j : j < k => (j \in DOMAIN a <=> j \in DOMAIN b)
  <2>1. \A j \in DOMAIN a : j < k => j \in PastOf(a, F)
    BY <1>1 DEF SameFlow, SameTimes, PastOf
  <2>2. \A j \in DOMAIN b : j < k => j \in PastOf(b, F)
    BY <1>1 DEF SameFlow, SameTimes, PastOf
  <2> QED BY <2>1, <2>2 DEF SameFlow, SameTimes, PastOf
<1>3. \A j : {i \in DOMAIN a : j <= i /\ i < k} = {i \in DOMAIN b : j <= i /\ i < k}
  BY <1>2
<1>4. PriorTo(a, k) = PriorTo(b, k)
  BY <1>2, <1>3 DEF PriorTo
<1>5. \A j \in PriorTo(a, k) : j \in PastOf(a, F)
  BY <1>1 DEF PriorTo, SameFlow, SameTimes, PastOf
<1>6. \A j \in PriorTo(a, k) : a[j].cumulative = b[j].cumulative
  BY <1>5 DEF SameFlow
<1> QED BY <1>1, <1>4, <1>6 DEF DeltasOf

LEMMA DivergenceSamePast ==
  ASSUME NEW a, NEW b, NEW F \in Nat, SameFlow(a, b, F), NEW k \in PastOf(a, F),
         \A j \in PriorTo(a, k) \cup {k} : a[j].close = b[j].close
  PROVE  SameRow(Divergence(a), Divergence(b), k)
<1>1. /\ DOMAIN Divergence(a) = {j \in DOMAIN a : Diverges(a, j)}
      /\ DOMAIN Divergence(b) = {j \in DOMAIN b : Diverges(b, j)}
  BY DivergenceIs
<1>2. ClosesOf(a, PriorTo(a, k)) = ClosesOf(b, PriorTo(b, k)) /\ a[k].close = b[k].close
  BY PriorSamePast DEF ClosesOf
<1>3. /\ Bearish(a, k) = Bearish(b, k) /\ Bullish(a, k) = Bullish(b, k)
      /\ Diverges(a, k) <=> Diverges(b, k)
  BY <1>2, PriorSamePast DEF Bearish, Bullish, Diverges
<1>4. k \in DOMAIN a /\ k \in DOMAIN b
  BY DEF SameFlow, SameTimes, PastOf
<1>5. ASSUME Diverges(a, k) PROVE Divergence(a)[k] = Divergence(b)[k]
  <2>1. /\ Divergence(a)[k] = [bearish |-> Bearish(a, k), bullish |-> Bullish(a, k)]
        /\ Divergence(b)[k] = [bearish |-> Bearish(b, k), bullish |-> Bullish(b, k)]
    BY <1>3, <1>4, <1>5, DivergenceIs
  <2> QED BY <1>3, <2>1
<1> QED BY <1>1, <1>3, <1>4, <1>5 DEF SameRow

Earlier(a, k) == {j \in DOMAIN a : j < k}
TrueRange(high, low, close) ==
  LET Apart(x, y) == IF x < y THEN y - x ELSE x - y
  IN Max({high - low, Apart(high, close), Apart(low, close)})

LEMMA TrueRangesAre ==
  ASSUME NEW a
  PROVE  TrueRanges(a) = [k \in {j \in DOMAIN a : UpTo(a, j) # {j}} |->
                            TrueRange(a[k].high, a[k].low, a[Max(Earlier(a, k))].close)]
BY DEF TrueRanges, TrueRange, Earlier

\* The bar before one, if there is any.
LEMMA LastEarlier ==
  ASSUME NEW a, DOMAIN a \subseteq Nat, NEW k \in DOMAIN a, UpTo(a, k) # {k}
  PROVE  /\ Max(Earlier(a, k)) \in Earlier(a, k)
         /\ \A j \in Earlier(a, k) : j <= Max(Earlier(a, k))
<1> DEFINE S == Earlier(a, k)
<1>1. S # {} /\ S \subseteq Nat /\ k \in Nat
  BY DEF Earlier, UpTo
<1>2. IsFiniteSet(S)
  <2>1. \A j \in S : j <= k
    BY <1>1 DEF Earlier
  <2> QED BY <1>1, <2>1, FS_BoundedSetOfNaturals
<1> HIDE DEF S
<1>3. S \subseteq Int
  BY <1>1
<1>4. Max(S) \in S /\ \A j \in S : j <= Max(S)
  BY <1>1, <1>2, <1>3, MaxIsLargest
<1> QED BY <1>4 DEF S

LEMMA TrueRangesSamePast ==
  ASSUME NEW a, NEW b, NEW F \in Nat, SameBars(a, b, F), NEW k \in PastOf(a, F),
         UpTo(a, k) # {k} => a[Max(Earlier(a, k))].close = b[Max(Earlier(a, k))].close
  PROVE  SameRow(TrueRanges(a), TrueRanges(b), k)
<1>0. SameTimes(a, b, F)
  BY DEF SameBars
<1>1. /\ DOMAIN TrueRanges(a) = {j \in DOMAIN a : UpTo(a, j) # {j}}
      /\ DOMAIN TrueRanges(b) = {j \in DOMAIN b : UpTo(b, j) # {j}}
  BY TrueRangesAre
<1>2. UpTo(a, k) = UpTo(b, k) /\ k \in DOMAIN a /\ k \in DOMAIN b
  BY <1>0, SameUpTo
<1>3. ASSUME UpTo(a, k) # {k} PROVE TrueRanges(a)[k] = TrueRanges(b)[k]
  <2>1. Earlier(b, k) = Earlier(a, k)
    <3>1. k \in Nat /\ DOMAIN a \subseteq Nat /\ DOMAIN b \subseteq Nat
      BY <1>0, <1>2 DEF SameTimes
    <3>2. \A j \in DOMAIN a : j < k => j <= k
      BY <3>1
    <3>3. \A j \in DOMAIN b : j < k => j <= k
      BY <3>1
    <3> QED BY <1>2, <3>2, <3>3 DEF Earlier, UpTo
  <2>2. a[k].high = b[k].high /\ a[k].low = b[k].low
    BY DEF SameBars
  <2>3. TrueRanges(a)[k] = TrueRange(a[k].high, a[k].low, a[Max(Earlier(a, k))].close)
    BY <1>2, <1>3, TrueRangesAre
  <2>4. TrueRanges(b)[k] = TrueRange(b[k].high, b[k].low, b[Max(Earlier(b, k))].close)
    BY <1>2, <1>3, TrueRangesAre
  <2> QED BY <1>3, <2>1, <2>2, <2>3, <2>4
<1> QED BY <1>1, <1>2, <1>3 DEF SameRow

PastKeys(rows, F) == {k \in DOMAIN rows : k[1] < F}

LEMMA FootprintSamePast ==
  ASSUME NEW T, NEW U, NEW F, Grown(T, U, F),
         NEW a, a = Footprint(T, Fine, BinSize), NEW b, b = Footprint(U, Fine, BinSize)
  PROVE  /\ PastKeys(a, F) = PastKeys(b, F)
         /\ \A k \in PastKeys(a, F) : a[k] = b[k]
<1>1. /\ a = [k \in KeysOf(T) |-> [buy |-> Sum(AtKey(T, k), TakerBuy),
                                   sell |-> Sum(AtKey(T, k), TakerSell),
                                   count |-> Cardinality(AtKey(T, k))]]
      /\ b = [k \in KeysOf(U) |-> [buy |-> Sum(AtKey(U, k), TakerBuy),
                                   sell |-> Sum(AtKey(U, k), TakerSell),
                                   count |-> Cardinality(AtKey(U, k))]]
  BY DEF Footprint, KeysOf, AtKey, KeyOf, Sum
<1>2. \A x \in U : KeyOf(x)[1] = BarTime(x.t, Fine)
  BY DEF KeyOf
<1>3. ASSUME NEW x \in U, KeyOf(x)[1] < F PROVE x \in T
  <2> SUFFICES ASSUME x \notin T PROVE FALSE
    OBVIOUS
  <2>1. BarTime(x.t, Fine) \in Nat /\ F <= BarTime(x.t, Fine) /\ F \in Nat
    BY AddedComeLater DEF Grown
  <2> QED BY <1>2, <1>3, <2>1
<1>4. T \subseteq U
  BY DEF Grown
<1>5. PastKeys(a, F) = PastKeys(b, F)
  BY <1>1, <1>3, <1>4 DEF PastKeys, KeysOf
<1>6. ASSUME NEW k \in PastKeys(a, F) PROVE a[k] = b[k]
  <2>1. AtKey(T, k) = AtKey(U, k)
    BY <1>3, <1>4 DEF AtKey, PastKeys
  <2>2. k \in KeysOf(T) /\ k \in KeysOf(U)
    BY <1>1, <1>5, <1>6 DEF PastKeys
  <2> QED BY <1>1, <2>1, <2>2 DEF Sum
<1> QED BY <1>5, <1>6

LEMMA TradesOfMonths ==
  ASSUME MonthsOK, NEW M, M \subseteq DOMAIN ticks
  PROVE  /\ IsFiniteSet(TicksOf(M)) /\ TicksOf(M) \subseteq Trade
         /\ M # {} => TicksOf(M) # {}
<1>1. IsFiniteSet(M) /\ \A m \in M : IsFiniteSet(ticks[m]) /\ ticks[m] \subseteq Trade
  BY FS_Subset DEF MonthsOK
<1>2. IsFiniteSet({ticks[m] : m \in M})
  BY <1>1, ImageIsFinite
<1>3. IsFiniteSet(UNION {ticks[m] : m \in M})
  BY <1>1, <1>2, FS_UNION
<1>4. M # {} => UNION {ticks[m] : m \in M} # {}
  BY DEF MonthsOK
<1> QED BY <1>1, <1>3, <1>4 DEF TicksOf

\* A file that grows: the trades behind it do, from the first bar that is added on.
LEMMA GrowsIsGrown ==
  ASSUME Provenance, TypeOK', ticks' = ticks, NEW f \in Files, Grows(f)
  PROVE  /\ Grown(Behind(f), UNION {ticks[m] : m \in made'[f]}, FirstAdded(f))
         /\ Behind(f)' = UNION {ticks[m] : m \in made'[f]}
         /\ \E x \in UNION {ticks[m] : m \in made'[f]} :
              x \in Trade /\ FirstAdded(f) = BarTime(x.t, Coarse)
<1> DEFINE T == Behind(f)
           U == TicksOf(made'[f])
           A == TicksOf(Added(f))
           time == [x \in A |-> BarTime(x.t, Coarse)]
           times == {time[x] : x \in A}
<1>1. made'[f] \subseteq DOMAIN ticks /\ Added(f) \subseteq DOMAIN ticks /\ Added(f) # {}
  BY DEF TypeOK, Added, Grows
<1>2. IsFiniteSet(U) /\ U \subseteq Trade /\ IsFiniteSet(A) /\ A \subseteq Trade /\ A # {}
  BY <1>1, TradesOfMonths DEF Provenance
<1>3. T \subseteq U /\ A \subseteq U /\ U \ T \subseteq A
  BY DEF Behind, TicksOf, Added, Grows
<1>4. \A x \in A : time[x] = BarTime(x.t, Coarse) /\ time[x] \in Nat
  BY <1>2, WeightsAre, BarTimeIs, IntervalsAssumption
<1>5. FirstAdded(f) = Min(times)
  BY DEF FirstAdded, TicksOf
<1> HIDE DEF T, U, A, time
<1>6. Min(times) \in times /\ \A t \in times : Min(times) <= t
  <2>1. IsFiniteSet(times)
    BY <1>2, ImageIsFinite
  <2>2. times # {} /\ times \subseteq Int
    <3>1. \A t \in times : t \in Int
      BY <1>4
    <3> QED BY <1>2, <3>1
  <2> QED BY <2>1, <2>2, MinIsSmallest
<1>7. PICK x \in A : FirstAdded(f) = BarTime(x.t, Coarse) /\ FirstAdded(f) \in Nat
  BY <1>4, <1>5, <1>6
<1>8. \A y \in A : FirstAdded(f) <= BarTime(y.t, Coarse)
  BY <1>4, <1>5, <1>6
<1>9. Grown(T, U, FirstAdded(f))
  BY <1>2, <1>3, <1>7, <1>8 DEF Grown
<1>10. Behind(f)' = U
  BY DEF Behind, TicksOf, U
<1>11. U = UNION {ticks[m] : m \in made'[f]}
  BY DEF U, TicksOf
<1> QED BY <1>2, <1>3, <1>7, <1>9, <1>10, <1>11 DEF T

LEMMA ColumnsSamePast ==
  ASSUME NEW f \in DOMAIN Firm \ {"footprint"}, NEW T, NEW U, NEW F, Grown(T, U, F),
         NEW a, IsFrom(f, T, a), NEW b, IsFrom(f, U, b)
  PROVE  /\ PastOf(a, F) = PastOf(b, F)
         /\ \A k \in PastOf(a, F), c \in Firm[f] : a[k][c] = b[k][c]
<1>1. F \in Nat
  BY DEF Grown
<1>2. ASSUME NEW width \in {Fine, Coarse}, NEW p \in BarTables(T, width), NEW q \in BarTables(U, width)
      PROVE  SameBars(p, q, F) /\ SameFlow(Orderflow(p), Orderflow(q), F)
  BY <1>1, BarsSamePast, OrderflowSamePast
<1>3. CASE f \in {"bars_fine", "bars_coarse"}
  <2>1. SameBars(a, b, F)
    BY <1>2, <1>3 DEF IsFrom
  <2>2. Firm[f] = {"high", "low", "volume", "quote", "buy", "sell", "count"}
    BY <1>3 DEF Firm
  <2>3. PastOf(a, F) = PastOf(b, F)
    BY <2>1 DEF SameBars, SameTimes
  <2>4. ASSUME NEW k \in PastOf(a, F), NEW c \in Firm[f] PROVE a[k][c] = b[k][c]
    BY <2>1, <2>2, <2>4 DEF SameBars
  <2> QED BY <2>3, <2>4
<1>4. CASE f \in {"orderflow_fine", "orderflow_coarse"}
  <2>1. SameFlow(a, b, F)
    <3>1. CASE f = "orderflow_fine"
      BY <1>2, <3>1 DEF IsFrom
    <3>2. CASE f = "orderflow_coarse"
      BY <1>2, <3>2 DEF IsFrom
    <3> QED BY <1>4, <3>1, <3>2
  <2>2. Firm[f] = {"delta", "cumulative", "session"}
    BY <1>4 DEF Firm
  <2>3. PastOf(a, F) = PastOf(b, F)
    BY <2>1 DEF SameFlow, SameTimes
  <2>4. ASSUME NEW k \in PastOf(a, F), NEW c \in Firm[f] PROVE a[k][c] = b[k][c]
    BY <2>1, <2>2, <2>4 DEF SameFlow
  <2> QED BY <2>3, <2>4
<1>5. CASE f = "session_vwap"
  <2>1. PICK p \in BarTables(T, Fine) : a = SessionVwap(p)
    BY <1>5 DEF IsFrom
  <2>2. PICK q \in BarTables(U, Fine) : b = SessionVwap(q)
    BY <1>5 DEF IsFrom
  <2>3. SamePast(a, b, F)
    BY <1>1, <1>2, <2>1, <2>2, SessionVwapSamePast
  <2> QED BY <2>3 DEF SamePast
<1> QED BY <1>3, <1>4, <1>5 DEF Firm

\* The bars that an open or a close in a file is of.
WidthOf(f) == IF f \in {"bars_fine", "orderflow_fine"} THEN Fine ELSE Coarse
Priced == {"bars_fine", "bars_coarse", "orderflow_fine", "orderflow_coarse"}

LEMMA PricesSamePast ==
  ASSUME NEW f \in Priced, NEW T, NEW U, NEW F, Grown(T, U, F),
         NEW a, IsFrom(f, T, a), NEW b, IsFrom(f, U, b), NEW k \in PastOf(a, F)
  PROVE  /\ (f \in DOMAIN Width /\ OpenIsFixed(T, k, WidthOf(f))) => b[k].open = a[k].open
         /\ CloseIsFixed(T, k, WidthOf(f)) => b[k].close = a[k].close
<1> DEFINE width == WidthOf(f)
<1>1. F \in Nat /\ width \in {Fine, Coarse}
  BY DEF Grown, WidthOf
<1>2. CASE f \in {"bars_fine", "bars_coarse"}
  <2>1. a \in BarTables(T, width) /\ b \in BarTables(U, width)
    BY <1>2 DEF IsFrom, WidthOf
  <2> HIDE DEF width
  <2>2. SamePrices(T, width, a, b, F)
    BY <1>1, <2>1, BarsSamePast
  <2> QED BY <2>2 DEF SamePrices, width
<1>3. CASE f \in {"orderflow_fine", "orderflow_coarse"}
  <2>1. PICK p \in BarTables(T, width) : a = Orderflow(p)
    BY <1>3 DEF IsFrom, WidthOf
  <2>2. PICK q \in BarTables(U, width) : b = Orderflow(q)
    BY <1>3 DEF IsFrom, WidthOf
  <2>3. f \notin DOMAIN Width
    BY <1>3 DEF Width
  <2> HIDE DEF width
  <2>4. SameBars(p, q, F) /\ SamePrices(T, width, p, q, F)
    BY <1>1, BarsSamePast
  <2>5. /\ DOMAIN Orderflow(p) = DOMAIN p
        /\ \A j \in DOMAIN p : Orderflow(p)[j].close = p[j].close
        /\ \A j \in DOMAIN q : Orderflow(q)[j].close = q[j].close
    BY <1>1, <2>4, OrderflowSamePast
  <2>6. k \in PastOf(p, F) /\ k \in DOMAIN p /\ k \in DOMAIN q
    BY <2>1, <2>4, <2>5 DEF PastOf, SameBars, SameTimes
  <2>7. a[k].close = p[k].close /\ b[k].close = q[k].close
    BY <2>1, <2>2, <2>5, <2>6
  <2> QED BY <2>3, <2>4, <2>6, <2>7 DEF SamePrices, width
<1> QED BY <1>2, <1>3 DEF Priced

LEMMA DivergencesSame ==
  ASSUME NEW T, NEW U, NEW F, Grown(T, U, F),
         NEW p \in BarTables(T, Fine), NEW q \in BarTables(U, Fine),
         NEW k \in BarTimes(T, Fine), k < F,
         \A j \in Recent(T, Fine, k, Lookback) : CloseIsFixed(T, j, Fine)
  PROVE  SameRow(Divergence(Orderflow(p)), Divergence(Orderflow(q)), k)
<1> DEFINE a == Orderflow(p)
           b == Orderflow(q)
<1>1. F \in Nat /\ Lookback \in Nat
  BY IntervalsAssumption DEF Grown
<1>2. /\ SameBars(p, q, F) /\ SamePrices(T, Fine, p, q, F)
      /\ DOMAIN p = BarTimes(T, Fine)
  BY BarsSamePast
<1>3. /\ SameFlow(a, b, F) /\ DOMAIN a = DOMAIN p /\ DOMAIN b = DOMAIN q
      /\ \A j \in DOMAIN p : a[j].close = p[j].close
      /\ \A j \in DOMAIN q : b[j].close = q[j].close
  BY <1>1, <1>2, OrderflowSamePast
<1> HIDE DEF a, b
<1>4. DOMAIN p \subseteq Nat /\ k \in DOMAIN p /\ k \in PastOf(a, F)
  BY <1>2, <1>3 DEF SameBars, SameTimes, PastOf
<1>5. PriorTo(a, k) \cup {k} \subseteq Recent(T, Fine, k, Lookback)
  <2>1. PriorTo(a, k) \subseteq Recent(T, Fine, k, Lookback)
    BY <1>2, <1>3, <1>4 DEF PriorTo, Recent
  <2>2. {i \in BarTimes(T, Fine) : k <= i /\ i < k} = {}
    BY <1>2, <1>4
  <2>3. Cardinality({i \in BarTimes(T, Fine) : k <= i /\ i < k}) <= Lookback
    BY <1>1, <2>2, FS_EmptySet
  <2>4. k \in Recent(T, Fine, k, Lookback)
    BY <1>2, <1>4, <2>3 DEF Recent
  <2> QED BY <2>1, <2>4
<1>6. ASSUME NEW j \in PriorTo(a, k) \cup {k} PROVE a[j].close = b[j].close
  <2>1. CloseIsFixed(T, j, Fine)
    BY <1>5
  <2>2. j \in PastOf(p, F)
    BY <1>1, <1>2, <1>3, <1>4 DEF PriorTo, PastOf
  <2>3. j \in DOMAIN p /\ j \in DOMAIN q
    BY <1>2, <2>2 DEF SameBars, SameTimes, PastOf
  <2>4. p[j].close = q[j].close
    BY <1>2, <2>1, <2>2 DEF SamePrices
  <2> QED BY <1>3, <2>3, <2>4
<1>7. SameRow(Divergence(a), Divergence(b), k)
  BY <1>1, <1>3, <1>4, <1>6, DivergenceSamePast
<1> QED BY <1>7 DEF a, b

LEMMA RangesSame ==
  ASSUME NEW T, NEW U, NEW F, Grown(T, U, F),
         NEW p \in BarTables(T, Coarse), NEW q \in BarTables(U, Coarse),
         NEW k \in BarTimes(T, Coarse), k < F,
         \A j \in Recent(T, Coarse, k, 1) : CloseIsFixed(T, j, Coarse)
  PROVE  SameRow(TrueRanges(p), TrueRanges(q), k)
<1> DEFINE m == Max(Earlier(p, k))
<1>1. F \in Nat
  BY DEF Grown
<1>2. /\ SameBars(p, q, F) /\ SamePrices(T, Coarse, p, q, F)
      /\ DOMAIN p = BarTimes(T, Coarse)
  BY BarsSamePast
<1>3. DOMAIN p \subseteq Nat /\ k \in DOMAIN p /\ k \in PastOf(p, F)
  BY <1>2 DEF SameBars, SameTimes, PastOf
<1>4. ASSUME UpTo(p, k) # {k} PROVE p[m].close = q[m].close
  <2>1. m \in Earlier(p, k) /\ \A j \in Earlier(p, k) : j <= m
    BY <1>3, <1>4, LastEarlier
  <2> HIDE DEF m
  <2>2. m \in DOMAIN p /\ m < k /\ m \in Nat /\ k \in Nat
    BY <1>3, <2>1 DEF Earlier
  <2>3. {i \in BarTimes(T, Coarse) : m <= i /\ i < k} = {m}
    <3>1. \A i \in DOMAIN p : (m <= i /\ i < k) => i = m
      BY <1>3, <2>1, <2>2 DEF Earlier
    <3> QED BY <1>2, <2>2, <3>1
  <2>4. Cardinality({i \in BarTimes(T, Coarse) : m <= i /\ i < k}) <= 1
    BY <2>3, FS_Singleton
  <2>5. CloseIsFixed(T, m, Coarse)
    BY <1>2, <2>2, <2>4 DEF Recent
  <2>6. m \in PastOf(p, F)
    BY <1>1, <2>2 DEF PastOf
  <2> QED BY <1>2, <2>5, <2>6 DEF SamePrices
<1> QED BY <1>1, <1>2, <1>3, <1>4, TrueRangesSamePast

LEMMA RestrictedAlike ==
  ASSUME NEW a, NEW b, NEW k, SameRow(a, b, k)
  PROVE  Restrict(b, {k} \cap DOMAIN b) = Restrict(a, {k} \cap DOMAIN a)
<1>1. {k} \cap DOMAIN b = {k} \cap DOMAIN a
  BY DEF SameRow
<1>2. \A j \in {k} \cap DOMAIN a : a[j] = b[j]
  BY DEF SameRow
<1> QED BY <1>1, <1>2 DEF Restrict

\* What a step that makes a file grow has before and after it.
Growth(f, T, U) ==
  /\ Grown(T, U, FirstAdded(f)) /\ T = Behind(f)
  /\ IsFrom(f, T, disk[f]) /\ IsFrom(f, U, disk'[f])

LEMMA GrowthIs ==
  ASSUME Provenance, Contents, TypeOK', Contents', ticks' = ticks, NEW f \in Files, Grows(f)
  PROVE  \E T, U : Growth(f, T, U)
<1> DEFINE T == Behind(f)
           U == UNION {ticks[m] : m \in made'[f]}
<1>1. Grown(T, U, FirstAdded(f)) /\ Behind(f)' = U
  BY GrowsIsGrown
<1>2. IsFrom(f, T, disk[f])
  BY DEF Contents, Grows
<1>3. IsFrom(f, U, disk'[f])
  <2>1. made'[f] # {}
    BY DEF Grows
  <2>2. IsFrom(f, Behind(f)', disk'[f])
    BY <2>1 DEF Contents, IsFrom
  <2> QED BY <1>1, <2>2
<1>4. Growth(f, T, U)
  BY <1>1, <1>2, <1>3 DEF Growth
<1> QED BY <1>4

RowsKept ==
  /\ \A f \in DOMAIN Firm : Grows(f) => FirmColumnsStay(f)
  /\ \A f \in {"bars_fine", "orderflow_fine"} : Grows(f) => PricesStay(f, Fine)
  /\ \A f \in {"bars_coarse", "orderflow_coarse"} : Grows(f) => PricesStay(f, Coarse)
  /\ Grows("delta_divergence") => SignalsStay("delta_divergence", Fine, Lookback)
  /\ Grows("atr") => SignalsStay("atr", Coarse, 1)

LEMMA StepKeepsHistory ==
  ASSUME Provenance, Contents, TypeOK', Contents', ticks' = ticks
  PROVE  RowsKept
<1>1. DOMAIN Firm \cup Priced \cup {"delta_divergence", "atr"} \subseteq Files
  BY FilesAre DEF Names, Firm, Priced
<1>2. ASSUME NEW f \in DOMAIN Firm, Grows(f) PROVE FirmColumnsStay(f)
  <2>1. PICK T, U : Growth(f, T, U)
    BY <1>1, <1>2, GrowthIs
  <2> DEFINE F == FirstAdded(f)
             a == disk[f]
             b == disk'[f]
  <2>2. Grown(T, U, F) /\ IsFrom(f, T, a) /\ IsFrom(f, U, b)
    BY <2>1 DEF Growth
  <2> HIDE DEF F, a, b
  <2>3. CASE f # "footprint"
    <3>1. /\ PastOf(a, F) = PastOf(b, F)
          /\ \A k \in PastOf(a, F), c \in Firm[f] : a[k][c] = b[k][c]
      BY <2>2, <2>3, ColumnsSamePast
    <3> QED BY <2>3, <3>1 DEF FirmColumnsStay, PastOf, a, b, F
  <2>4. CASE f = "footprint"
    <3>1. a = Footprint(T, Fine, BinSize) /\ b = Footprint(U, Fine, BinSize)
      BY <2>2, <2>4 DEF IsFrom
    <3>2. PastKeys(a, F) = PastKeys(b, F) /\ \A k \in PastKeys(a, F) : a[k] = b[k]
      BY <2>2, <3>1, FootprintSamePast
    <3> QED BY <2>4, <3>2 DEF FirmColumnsStay, PastKeys, a, b, F
  <2> QED BY <2>3, <2>4
<1>3. ASSUME NEW f \in Priced, Grows(f) PROVE PricesStay(f, WidthOf(f))
  <2>1. PICK T, U : Growth(f, T, U)
    BY <1>1, <1>3, GrowthIs
  <2>2. /\ Grown(T, U, FirstAdded(f)) /\ T = Behind(f)
        /\ IsFrom(f, T, disk[f]) /\ IsFrom(f, U, disk'[f])
    BY <2>1 DEF Growth
  <2>3. ASSUME NEW k \in DOMAIN disk[f], k < FirstAdded(f)
        PROVE  /\ (f \in DOMAIN Width /\ OpenIsFixed(Behind(f), k, WidthOf(f))) =>
                    disk'[f][k].open = disk[f][k].open
               /\ CloseIsFixed(Behind(f), k, WidthOf(f)) => disk'[f][k].close = disk[f][k].close
    <3>1. k \in PastOf(disk[f], FirstAdded(f))
      BY <2>3 DEF PastOf
    <3> QED BY <2>2, <3>1, PricesSamePast
  <2> QED BY <2>3 DEF PricesStay
<1>4. ASSUME Grows("delta_divergence") PROVE SignalsStay("delta_divergence", Fine, Lookback)
  <2> DEFINE f == "delta_divergence"
  <2>1. PICK T, U : Growth(f, T, U)
    BY <1>1, <1>4, GrowthIs
  <2>2. /\ Grown(T, U, FirstAdded(f)) /\ T = Behind(f)
        /\ IsFrom(f, T, disk[f]) /\ IsFrom(f, U, disk'[f])
    BY <2>1 DEF Growth
  <2>3. PICK p \in BarTables(T, Fine) : disk[f] = Divergence(Orderflow(p))
    BY <2>2 DEF IsFrom
  <2>4. PICK q \in BarTables(U, Fine) : disk'[f] = Divergence(Orderflow(q))
    BY <2>2 DEF IsFrom
  <2>5. ASSUME NEW k \in BarTimes(Behind(f), Fine), k < FirstAdded(f),
               \A j \in Recent(Behind(f), Fine, k, Lookback) : CloseIsFixed(Behind(f), j, Fine)
        PROVE  Restrict(disk'[f], {k} \cap DOMAIN disk'[f]) = Restrict(disk[f], {k} \cap DOMAIN disk[f])
    <3>1. SameRow(disk[f], disk'[f], k)
      BY <2>2, <2>3, <2>4, <2>5, DivergencesSame
    <3> QED BY <3>1, RestrictedAlike
  <2> QED BY <2>5 DEF SignalsStay
<1>5. ASSUME Grows("atr") PROVE SignalsStay("atr", Coarse, 1)
  <2> DEFINE f == "atr"
  <2>1. PICK T, U : Growth(f, T, U)
    BY <1>1, <1>5, GrowthIs
  <2>2. /\ Grown(T, U, FirstAdded(f)) /\ T = Behind(f)
        /\ IsFrom(f, T, disk[f]) /\ IsFrom(f, U, disk'[f])
    BY <2>1 DEF Growth
  <2>3. PICK p \in BarTables(T, Coarse) : disk[f] = TrueRanges(p)
    BY <2>2 DEF IsFrom
  <2>4. PICK q \in BarTables(U, Coarse) : disk'[f] = TrueRanges(q)
    BY <2>2 DEF IsFrom
  <2>5. ASSUME NEW k \in BarTimes(Behind(f), Coarse), k < FirstAdded(f),
               \A j \in Recent(Behind(f), Coarse, k, 1) : CloseIsFixed(Behind(f), j, Coarse)
        PROVE  Restrict(disk'[f], {k} \cap DOMAIN disk'[f]) = Restrict(disk[f], {k} \cap DOMAIN disk[f])
    <3>1. SameRow(disk[f], disk'[f], k)
      BY <2>2, <2>3, <2>4, <2>5, RangesSame
    <3> QED BY <3>1, RestrictedAlike
  <2> QED BY <2>5 DEF SignalsStay
<1>6. ASSUME NEW f \in {"bars_fine", "orderflow_fine"}, Grows(f) PROVE PricesStay(f, Fine)
  BY <1>3, <1>6 DEF Priced, WidthOf
<1>7. ASSUME NEW f \in {"bars_coarse", "orderflow_coarse"}, Grows(f) PROVE PricesStay(f, Coarse)
  BY <1>3, <1>7 DEF Priced, WidthOf
<1> QED BY <1>2, <1>4, <1>5, <1>6, <1>7 DEF RowsKept

\* A month that is added changes no row before its first bar: not the sums, ranges and
\* counts of bars, orderflow, session_vwap and footprint, whatever the trades are, and
\* not the opens, closes, divergences and true ranges where the closes they come from
\* are not a choice between two prices at one instant (pipeline.py:
\* _regenerate_bars_and_features; the windows of orderflow.py, vwap.py and
\* volatility.py look back only, bars.py:35, 38 choose).
THEOREM HistoryIsNotRewritten == Spec => HistoryIsKept
<1>1. Provenance /\ Contents /\ TypeOK' /\ Contents' /\ [Next]_vars => [RowsKept]_vars
  <2>1. ASSUME Next PROVE ticks' = ticks
    <3>1. ASSUME Generate PROVE ticks' = ticks
      BY <3>1, GenerateIs DEF Write, Skip
    <3> QED BY <2>1, <3>1 DEF Next, MonthChanges, Start, Raise
  <2>2. ASSUME Provenance, Contents, TypeOK', Contents', Next PROVE RowsKept
    BY <2>1, <2>2, StepKeepsHistory
  <2> QED BY <2>2
<1>2. Provenance => TypeOK
  BY DEF Provenance
<1>3. HistoryIsKept <=> [][RowsKept]_vars
  BY PTL DEF HistoryIsKept, RowsKept
<1> QED BY <1>1, <1>2, <1>3, ProvenanceInvariance, ContentsInvariance, PTL DEF Spec

\* Before the session of the first trade that is added, sessions are what they were.
LEMMA PastSessions ==
  ASSUME NEW T, NEW U, NEW F, Grown(T, U, F), NEW s, s < SessionOf(F)
  PROVE  InSession(U, s) = InSession(T, s) /\ BinsOf(U, s) = BinsOf(T, s)
<1>1. ASSUME NEW x \in U, SessionOf(x.t) = s PROVE x \in T
  <2> SUFFICES ASSUME x \notin T PROVE FALSE
    OBVIOUS
  <2>1. x.t \in Nat /\ F \in Nat /\ F <= BarTime(x.t, Coarse)
    BY WeightsAre DEF Grown
  <2>2. BarTime(x.t, Coarse) \in Nat /\ BarTime(x.t, Coarse) <= x.t
    BY <2>1, BarTimeIs, IntervalsAssumption
  <2>3. F <= x.t
    BY <2>1, <2>2
  <2>4. SessionOf(F) \in Nat /\ SessionOf(x.t) \in Nat /\ SessionOf(F) <= SessionOf(x.t)
    BY <2>1, <2>3, SessionsInOrder
  <2> QED BY <1>1, <2>4
<1>2. T \subseteq U
  BY DEF Grown
<1> QED BY <1>1, <1>2 DEF InSession, BinsOf

LEMMA PastPoc ==
  ASSUME NEW T, NEW U, NEW F, Grown(T, U, F), NEW s \in SessionsOf(T), s < SessionOf(F)
  PROVE  PointOfControl(U, s) = PointOfControl(T, s)
<1> DEFINE bins == BinsOf(T, s)
           old == SessionHistogram(T)
           new == SessionHistogram(U)
<1>1. IsFiniteSet(T) /\ T \subseteq Trade /\ IsFiniteSet(U) /\ U \subseteq Trade /\ T \subseteq U
  BY FS_Subset DEF Grown
<1>2. InSession(U, s) = InSession(T, s) /\ BinsOf(U, s) = bins
  BY PastSessions
<1>3. \A b \in bins : new[<<s, b>>] = old[<<s, b>>]
  <2> TAKE b \in bins
  <2>1. <<s, b>> \in CellsOf(T) /\ <<s, b>> \in CellsOf(U)
    BY <1>2, CellsOfSession
  <2>2. InCell(U, <<s, b>>) = InCell(T, <<s, b>>)
    <3>1. InCell(T, <<s, b>>) = {x \in InSession(T, s) : PriceBin(x.price, BinSize) = b}
      BY DEF InCell, CellOf, InSession
    <3>2. InCell(U, <<s, b>>) = {x \in InSession(U, s) : PriceBin(x.price, BinSize) = b}
      BY DEF InCell, CellOf, InSession
    <3> QED BY <1>2, <3>1, <3>2
  <2>3. old[<<s, b>>] = SumFunctionOnSet(Volumes, InCell(T, <<s, b>>))
    BY <1>1, <2>1, HistogramHolds
  <2>4. new[<<s, b>>] = SumFunctionOnSet(Volumes, InCell(U, <<s, b>>))
    BY <1>1, <2>1, HistogramHolds
  <2> QED BY <2>2, <2>3, <2>4
<1>4. /\ {k[2] : k \in {j \in DOMAIN old : j[1] = s}} = bins
      /\ {k[2] : k \in {j \in DOMAIN new : j[1] = s}} = bins
  BY <1>1, <1>2, HistogramHolds, CellsOfSession
<1>5. PointOfControl(T, s) = Min({b \in bins : \A c \in bins : old[<<s, c>>] <= old[<<s, b>>]})
  BY <1>4 DEF PointOfControl
<1>6. PointOfControl(U, s) = Min({b \in bins : \A c \in bins : new[<<s, c>>] <= new[<<s, b>>]})
  BY <1>4 DEF PointOfControl
<1> HIDE DEF bins, old, new
<1>7. {b \in bins : \A c \in bins : old[<<s, c>>] <= old[<<s, b>>]}
        = {b \in bins : \A c \in bins : new[<<s, c>>] <= new[<<s, b>>]}
  BY <1>3
<1> QED BY <1>5, <1>6, <1>7

\* A session that came back to a price still does when trades are added to it.
LEMMA HoldsStays ==
  ASSUME NEW T, NEW U, NEW F, Grown(T, U, F), NEW r \in SessionsOf(T), NEW price \in Nat,
         Holds(T, r, price)
  PROVE  r \in SessionsOf(U) /\ Holds(U, r, price)
<1> DEFINE A == InSession(T, r)
           B == InSession(U, r)
<1>1. IsFiniteSet(T) /\ T \subseteq Trade /\ IsFiniteSet(U) /\ U \subseteq Trade /\ T \subseteq U
  BY FS_Subset DEF Grown
<1>2. r \in SessionsOf(U)
  BY <1>1 DEF SessionsOf
<1>3. /\ IsFiniteSet(A) /\ A \subseteq Trade /\ A # {}
      /\ IsFiniteSet(B) /\ B \subseteq Trade /\ B # {} /\ A \subseteq B
  BY <1>1, <1>2, SessionsAre DEF InSession
<1>4. Min(PricesOf(A)) <= price /\ price <= Max(PricesOf(A))
  BY DEF Holds
<1> HIDE DEF A, B
<1>5. PICK x \in A : x.price = Min(PricesOf(A))
  BY <1>3, PricesAre
<1>6. PICK y \in A : y.price = Max(PricesOf(A))
  BY <1>3, PricesAre
<1>7. Min(PricesOf(B)) <= x.price /\ y.price <= Max(PricesOf(B))
  BY <1>3, PricesAre
<1>8. /\ Min(PricesOf(A)) \in Nat /\ Max(PricesOf(A)) \in Nat
      /\ Min(PricesOf(B)) \in Nat /\ Max(PricesOf(B)) \in Nat
  BY <1>3, PricesAre
<1>9. Min(PricesOf(B)) <= price /\ price <= Max(PricesOf(B))
  BY <1>4, <1>5, <1>6, <1>7, <1>8
<1> QED BY <1>2, <1>9 DEF Holds, B

LEMMA StepKeepsTaken ==
  ASSUME Provenance, Contents, TypeOK', Contents', ticks' = ticks
  PROVE  Grows("session_profile_summary") =>
           \A s \in DOMAIN disk["session_profile_summary"] :
             s < SessionOf(FirstAdded("session_profile_summary")) =>
               (disk'["session_profile_summary"][s].naked =>
                  disk["session_profile_summary"][s].naked)
<1> DEFINE f == "session_profile_summary"
           T == Behind(f)
           U == UNION {ticks[m] : m \in made'[f]}
           F == FirstAdded(f)
           a == disk[f]
           b == disk'[f]
<1> SUFFICES ASSUME Grows(f), NEW s \in DOMAIN a, s < SessionOf(F), ~a[s].naked
             PROVE  ~b[s].naked
  OBVIOUS
<1>1. f \in Files
  BY FilesAre DEF Names
<1>2. Grown(T, U, F) /\ Behind(f)' = U
  BY <1>1, GrowsIsGrown
<1>3. IsFiniteSet(T) /\ T \subseteq Trade /\ IsFiniteSet(U) /\ U \subseteq Trade /\ T \subseteq U
  BY <1>2, FS_Subset DEF Grown
<1>4. a = ProfileSummary(T)
  BY <1>1 DEF Contents, IsFrom, Grows
<1>5. b = ProfileSummary(U)
  <2>1. made'[f] # {}
    BY DEF Grows
  <2>2. IsFrom(f, Behind(f)', disk'[f])
    BY <1>1, <2>1 DEF Contents, IsFrom
  <2> QED BY <1>2, <2>2 DEF IsFrom
<1> HIDE DEF T, U, F, a, b
<1> DEFINE poc == PointOfControl(T, s)
<1>6. s \in SessionsOf(T) /\ a[s].naked = Naked(T, s, poc)
  BY <1>3, <1>4, SummaryHolds
<1>7. s \in SessionsOf(U)
  BY <1>3, <1>6 DEF SessionsOf
<1>8. b[s].naked = Naked(U, s, PointOfControl(U, s)) /\ PointOfControl(U, s) = poc
  BY <1>2, <1>3, <1>5, <1>6, <1>7, SummaryHolds, PastPoc
<1>9. poc \in Nat
  <2>1. poc \in BinsOf(T, s) /\ BinsOf(T, s) \subseteq Nat
    BY <1>3, <1>6, PocIs, SessionsAre
  <2> QED BY <2>1
<1> HIDE DEF poc
<1>10. PICK r \in SessionsOf(T) : r > s /\ Holds(T, r, poc)
  BY <1>6 DEF Naked, SessionsOf
<1>11. r \in SessionsOf(U) /\ Holds(U, r, poc)
  BY <1>2, <1>9, <1>10, HoldsStays
<1>12. ~Naked(U, s, poc)
  BY <1>10, <1>11 DEF Naked, SessionsOf
<1> QED BY <1>8, <1>12

\* A POC that a later session came back to is not naked again when a month is added:
\* ranges of sessions only widen, and the POC of a session in the past is the same
\* (volume_profile.py: compute_session_profiles).
THEOREM NakedIsNotRegained == Spec => NakedIsLostOnce
<1> DEFINE Kept == Grows("session_profile_summary") =>
      \A s \in DOMAIN disk["session_profile_summary"] :
        s < SessionOf(FirstAdded("session_profile_summary")) =>
          (disk'["session_profile_summary"][s].naked =>
             disk["session_profile_summary"][s].naked)
<1>1. Provenance /\ Contents /\ TypeOK' /\ Contents' /\ [Next]_vars => [Kept]_vars
  <2>1. ASSUME Next PROVE ticks' = ticks
    <3>1. ASSUME Generate PROVE ticks' = ticks
      BY <3>1, GenerateIs DEF Write, Skip
    <3> QED BY <2>1, <3>1 DEF Next, MonthChanges, Start, Raise
  <2>2. ASSUME Provenance, Contents, TypeOK', Contents', Next PROVE Kept
    BY <2>1, <2>2, StepKeepsTaken
  <2> QED BY <2>2
<1>2. Provenance => TypeOK
  BY DEF Provenance
<1> QED BY <1>1, <1>2, ProvenanceInvariance, ContentsInvariance, PTL DEF Spec, NakedIsLostOnce
=============================================================================
