------------------------ MODULE TickIngestion_proofs ------------------------
(***************************************************************************)
(* TickIngestion, for archives, chunks and rows of any number: the report  *)
(* of a prefix of the archive, updated with one more chunk, is that of the *)
(* longer prefix (IsReportOf, ReportOfConcat), what is written is what one *)
(* pass of the filter keeps, and the float64 detour of the times neither   *)
(* moves a trade to another second nor changes the order of two.           *)
(***************************************************************************)
EXTENDS TickIngestion, Arithmetic_proofs, SequenceTheorems

----------------------------------------------------------------------------
(* Sequences *)

LEMMA PrefixGrows ==
  ASSUME NEW A, NEW s \in Seq(A), NEW i \in 0 .. Len(s) - 1
  PROVE  SubSeq(s, 1, i + 1) = Append(SubSeq(s, 1, i), s[i + 1])
         /\ SubSeq(s, 1, i) \in Seq(A) /\ s[i + 1] \in A
OBVIOUS

LEMMA SeqInduction ==
  ASSUME NEW A, NEW F, <<>> \in F,
         \A s \in Seq(A), x \in A : s \in F => Append(s, x) \in F,
         NEW s \in Seq(A)
  PROVE  s \in F
<1> DEFINE S == {i \in 0 .. Len(s) : SubSeq(s, 1, i) \in F}
<1>1. 0 \in S
  <2>1. SubSeq(s, 1, 0) = <<>>
    BY SubSeqEmpty
  <2>2. 0 \in 0 .. Len(s)
    OBVIOUS
  <2>3. \A i \in 0 .. Len(s) : SubSeq(s, 1, i) \in F => i \in S
    OBVIOUS
  <2> HIDE DEF S
  <2> QED BY <2>1, <2>2, <2>3
<1>2. ASSUME NEW i \in 0 .. Len(s) - 1, i \in S PROVE i + 1 \in S
  <2>1. SubSeq(s, 1, i) \in F /\ i + 1 \in 0 .. Len(s)
    BY <1>2
  <2>2. SubSeq(s, 1, i + 1) = Append(SubSeq(s, 1, i), s[i + 1])
        /\ SubSeq(s, 1, i) \in Seq(A) /\ s[i + 1] \in A
    BY PrefixGrows
  <2>3. SubSeq(s, 1, i + 1) \in F
    BY <2>1, <2>2
  <2> QED BY <2>1, <2>3
<1> HIDE DEF S
<1>3. Len(s) \in S
  BY <1>1, <1>2, UpInduction
<1> QED BY <1>3, SubSeqFull DEF S

----------------------------------------------------------------------------
(* The rows that are kept *)

\* f is what filter_valid_rows builds up over the first n of the rows.
Keeps(f, rows, n) ==
  f = [m \in 0 .. n |->
         IF m = 0 THEN <<>>
         ELSE IF Valid(rows[m]) THEN Append(f[m - 1], rows[m]) ELSE f[m - 1]]

LEMMA KeepsUnfold ==
  ASSUME NEW rows, NEW n \in Nat, NEW f, Keeps(f, rows, n), NEW m \in 0 .. n
  PROVE  /\ m = 0 => f[m] = <<>>
         /\ m # 0 => f[m] = IF Valid(rows[m]) THEN Append(f[m - 1], rows[m]) ELSE f[m - 1]
BY DEF Keeps

LEMMA KeepsAgree ==
  ASSUME NEW r, NEW q, NEW j \in Nat, NEW k \in Nat, NEW f, NEW g,
         Keeps(f, r, j), Keeps(g, q, k), NEW n \in 0 .. j, n <= k,
         \A i \in 1 .. n : r[i] = q[i]
  PROVE  f[n] = g[n]
<1> DEFINE S == {i \in 0 .. n : f[i] = g[i]}
<1>1. 0 \in S
  <2>1. 0 \in 0 .. j /\ 0 \in 0 .. k /\ 0 \in 0 .. n
    OBVIOUS
  <2>2. f[0] = <<>> /\ g[0] = <<>>
    BY <2>1, KeepsUnfold
  <2> QED BY <2>1, <2>2
<1>2. ASSUME NEW i \in 0 .. n - 1, i \in S PROVE i + 1 \in S
  <2>1. i + 1 \in 0 .. j /\ i + 1 \in 0 .. k /\ i + 1 # 0 /\ (i + 1) - 1 = i
    OBVIOUS
  <2>2. /\ f[i + 1] = IF Valid(r[i + 1]) THEN Append(f[i], r[i + 1]) ELSE f[i]
        /\ g[i + 1] = IF Valid(q[i + 1]) THEN Append(g[i], q[i + 1]) ELSE g[i]
    BY <2>1, KeepsUnfold
  <2> QED BY <1>2, <2>2
<1> HIDE DEF S
<1>3. n \in S
  BY <1>1, <1>2, UpInduction
<1> QED BY <1>3 DEF S

LEMMA KeepsExists ==
  ASSUME NEW rows, NEW n \in Nat
  PROVE  \E f : Keeps(f, rows, n)
<1> DEFINE S == {i \in 0 .. n : \E f : Keeps(f, rows, i)}
<1>1. 0 \in S
  <2>1. Keeps([m \in 0 .. 0 |-> <<>>], rows, 0)
    BY DEF Keeps
  <2> QED BY <2>1
<1>2. ASSUME NEW i \in 0 .. n - 1, i \in S PROVE i + 1 \in S
  <2>1. PICK f : Keeps(f, rows, i)
    BY <1>2
  <2> DEFINE g == [m \in 0 .. i + 1 |->
                     IF m <= i THEN f[m]
                     ELSE IF Valid(rows[m]) THEN Append(f[m - 1], rows[m]) ELSE f[m - 1]]
  <2>2. ASSUME NEW m \in 0 .. i + 1
        PROVE  g[m] = IF m = 0 THEN <<>>
                      ELSE IF Valid(rows[m]) THEN Append(g[m - 1], rows[m]) ELSE g[m - 1]
    <3>1. CASE m = 0
      <4>1. 0 \in 0 .. i /\ i \in Nat
        OBVIOUS
      <4>2. f[0] = <<>>
        BY <2>1, <4>1, KeepsUnfold
      <4>3. g[0] = f[0]
        BY <4>1
      <4> QED BY <3>1, <4>2, <4>3
    <3>2. CASE m # 0 /\ m <= i
      BY <2>1, <3>2, KeepsUnfold
    <3>3. CASE m = i + 1
      BY <3>3
    <3> QED BY <3>1, <3>2, <3>3
  <2>3. Keeps(g, rows, i + 1)
    <3>1. g = [m \in 0 .. i + 1 |-> g[m]]
      OBVIOUS
    <3> HIDE DEF g
    <3> QED BY <2>2, <3>1 DEF Keeps
  <2> QED BY <2>3
<1> HIDE DEF S
<1>3. n \in S
  BY <1>1, <1>2, UpInduction
<1> QED BY <1>3 DEF S

LEMMA FilterIs ==
  ASSUME NEW rows, Len(rows) \in Nat, NEW f, Keeps(f, rows, Len(rows))
  PROVE  FilterValidRows(rows) = f[Len(rows)]
<1> DEFINE n == Len(rows)
           kept == CHOOSE g : Keeps(g, rows, n)
<1>1. FilterValidRows(rows) = kept[n]
  BY DEF FilterValidRows, Keeps
<1>2. Keeps(kept, rows, n)
  OBVIOUS
<1> HIDE DEF kept
<1> QED BY <1>1, <1>2, KeepsAgree

LEMMA FilterOfNone ==
  ASSUME NEW s, s = <<>>
  PROVE  FilterValidRows(s) = s
<1>1. Len(s) = 0
  OBVIOUS
<1>2. PICK f : Keeps(f, s, 0)
  BY KeepsExists
<1>3. FilterValidRows(s) = f[0]
  BY <1>1, <1>2, FilterIs
<1>4. f[0] = <<>>
  BY <1>2, KeepsUnfold
<1> QED BY <1>3, <1>4

LEMMA FilterOfAppend ==
  ASSUME NEW A, NEW s \in Seq(A), NEW x \in A
  PROVE  FilterValidRows(Append(s, x))
           = IF Valid(x) THEN Append(FilterValidRows(s), x) ELSE FilterValidRows(s)
<1> DEFINE t == Append(s, x)
           n == Len(s)
<1>1. n \in Nat /\ Len(t) = n + 1 /\ t[n + 1] = x /\ \A i \in 1 .. n : t[i] = s[i]
  OBVIOUS
<1> HIDE DEF t
<1>2. PICK f : Keeps(f, t, n + 1)
  <2>1. n + 1 \in Nat
    BY <1>1
  <2> QED BY <2>1, KeepsExists
<1>3. PICK g : Keeps(g, s, n)
  BY <1>1, KeepsExists
<1>4. FilterValidRows(t) = f[n + 1] /\ FilterValidRows(s) = g[n]
  BY <1>1, <1>2, <1>3, FilterIs
<1>5. f[n] = g[n]
  <2>1. n + 1 \in Nat /\ n \in 0 .. n + 1 /\ n <= n
    BY <1>1
  <2> QED BY <1>1, <1>2, <1>3, <2>1, KeepsAgree
<1>6. f[n + 1] = IF Valid(t[n + 1]) THEN Append(f[n], t[n + 1]) ELSE f[n]
  <2>1. n + 1 \in Nat /\ n + 1 \in 0 .. n + 1 /\ n + 1 # 0 /\ (n + 1) - 1 = n
    BY <1>1
  <2> QED BY <1>2, <2>1, KeepsUnfold
<1> QED BY <1>1, <1>4, <1>5, <1>6 DEF t

\* What is kept is rows, not more than there were, and all of them if it is as many.
LEMMA FilterKeepsRows ==
  ASSUME NEW A, NEW s \in Seq(A)
  PROVE  /\ FilterValidRows(s) \in Seq(A)
         /\ Len(FilterValidRows(s)) <= Len(s)
         /\ Len(FilterValidRows(s)) = Len(s) => FilterValidRows(s) = s
<1> DEFINE F == {t \in Seq(A) : /\ FilterValidRows(t) \in Seq(A)
                                /\ Len(FilterValidRows(t)) <= Len(t)
                                /\ Len(FilterValidRows(t)) = Len(t) => FilterValidRows(t) = t}
<1>1. <<>> \in F
  <2>1. PICK e : e = <<>>
    OBVIOUS
  <2>2. e \in Seq(A) /\ Len(e) \in Nat /\ FilterValidRows(e) = e
    BY <2>1, FilterOfNone
  <2>3. e \in F
    <3>1. FilterValidRows(e) \in Seq(A) /\ Len(FilterValidRows(e)) <= Len(e)
      BY <2>2
    <3> QED BY <2>2, <3>1
  <2> QED BY <2>1, <2>3
<1>2. ASSUME NEW t \in Seq(A), NEW x \in A, t \in F PROVE Append(t, x) \in F
  <2> DEFINE u == FilterValidRows(t)
             v == FilterValidRows(Append(t, x))
  <2>1. u \in Seq(A) /\ Len(u) <= Len(t) /\ (Len(u) = Len(t) => u = t)
    BY <1>2
  <2>2. v = IF Valid(x) THEN Append(u, x) ELSE u
    BY FilterOfAppend
  <2>3. /\ Append(t, x) \in Seq(A) /\ Len(Append(t, x)) = Len(t) + 1
        /\ Len(t) \in Nat /\ Len(u) \in Nat
    BY <2>1
  <2> HIDE DEF u, v
  <2>4. v \in Seq(A) /\ Len(v) <= Len(t) + 1 /\ (Len(v) = Len(t) + 1 => v = Append(t, x))
    <3>1. CASE Valid(x)
      <4>1. v = Append(u, x) /\ Len(v) = Len(u) + 1 /\ v \in Seq(A)
        BY <2>1, <2>2, <3>1
      <4> QED BY <2>1, <2>3, <4>1
    <3>2. CASE ~Valid(x)
      <4>1. v = u
        BY <2>2, <3>2
      <4> QED BY <2>1, <2>3, <4>1
    <3> QED BY <3>1, <3>2
  <2> QED BY <2>3, <2>4 DEF v
<1> HIDE DEF F
<1>3. s \in F
  BY <1>1, <1>2, SeqInduction
<1> QED BY <1>3 DEF F

LEMMA FilterOfConcat ==
  ASSUME NEW A, NEW s \in Seq(A), NEW t \in Seq(A)
  PROVE  FilterValidRows(s \o t) = FilterValidRows(s) \o FilterValidRows(t)
<1> DEFINE F == {u \in Seq(A) : FilterValidRows(s \o u) = FilterValidRows(s) \o FilterValidRows(u)}
<1>1. <<>> \in F
  <2>1. PICK e : e = <<>>
    OBVIOUS
  <2>2. e \in Seq(A) /\ FilterValidRows(e) = e
    BY <2>1, FilterOfNone
  <2>3. s \o e = s /\ FilterValidRows(s) \o e = FilterValidRows(s)
    BY <2>1, FilterKeepsRows, ConcatEmptySeq
  <2>4. e \in F
    BY <2>2, <2>3
  <2> QED BY <2>1, <2>4
<1>2. ASSUME NEW u \in Seq(A), NEW x \in A, u \in F PROVE Append(u, x) \in F
  <2> DEFINE p == FilterValidRows(s)
             q == FilterValidRows(u)
  <2>1. p \in Seq(A) /\ q \in Seq(A)
    BY FilterKeepsRows
  <2>2. s \o Append(u, x) = Append(s \o u, x) /\ s \o u \in Seq(A) /\ Append(u, x) \in Seq(A)
    OBVIOUS
  <2>3. FilterValidRows(Append(s \o u, x))
          = IF Valid(x) THEN Append(FilterValidRows(s \o u), x) ELSE FilterValidRows(s \o u)
    BY <2>2, FilterOfAppend
  <2>4. FilterValidRows(Append(u, x)) = IF Valid(x) THEN Append(q, x) ELSE q
    BY FilterOfAppend
  <2>5. FilterValidRows(s \o u) = p \o q
    BY <1>2
  <2> HIDE DEF p, q
  <2>6. p \o Append(q, x) = Append(p \o q, x)
    BY <2>1
  <2>7. FilterValidRows(Append(s \o u, x)) = p \o FilterValidRows(Append(u, x))
    BY <2>3, <2>4, <2>5, <2>6
  <2> QED BY <2>2, <2>7 DEF p
<1> HIDE DEF F
<1>3. t \in F
  BY <1>1, <1>2, SeqInduction
<1> QED BY <1>3 DEF F

----------------------------------------------------------------------------
(* Times *)

LEMMA FloatIs ==
  ASSUME NEW x \in Nat
  PROVE  /\ Float(x) \in Nat
         /\ Float(x) <= x + Grid \div 2 /\ x + Grid \div 2 < Float(x) + Grid
<1>1. Grid \in Nat \ {0} /\ Grid \div 2 \in Nat
  BY TimesAssumption, DivisionIs
<1>2. x + Grid \div 2 \in Nat
  BY <1>1
<1> QED BY <1>1, <1>2, DivisionIs DEF Float

\* Times that are not one microsecond keep their order.
LEMMA FloatKeepsOrder ==
  ASSUME NEW x \in Nat, NEW y \in Nat, x + NsPerUs <= y
  PROVE  Float(x) < Float(y)
<1>1. Grid \in Nat /\ NsPerUs \in Nat /\ Grid < NsPerUs /\ Grid \div 2 \in Nat
  BY TimesAssumption, DivisionIs
<1>2. /\ Float(x) \in Nat /\ Float(x) <= x + Grid \div 2
      /\ Float(y) \in Nat /\ y + Grid \div 2 < Float(y) + Grid
  BY FloatIs
<1>3. PICK h \in Nat : h = Grid \div 2
  BY <1>1
<1> QED BY <1>1, <1>2, <1>3

\* A trade stays in its second.
LEMMA FloatKeepsSecond ==
  ASSUME NEW n \in Nat
  PROVE  Float(n * NsPerUs) \div NsPerSecond = (n * NsPerUs) \div NsPerSecond
<1>0. /\ Grid \in Nat \ {0} /\ NsPerUs \in Nat \ {0} /\ NsPerSecond \in Nat \ {0}
      /\ Grid < NsPerUs /\ NsPerSecond % Grid = 0 /\ NsPerSecond % NsPerUs = 0
  BY TimesAssumption
<1>1. PICK h \in Nat : h = Grid \div 2 /\ h + h <= Grid
  BY <1>0, DivisionIs
<1>2. PICK x \in Nat : x = n * NsPerUs
  BY <1>0
<1>3. PICK q \in Nat : q = x \div NsPerSecond /\ q * NsPerSecond <= x /\ x < q * NsPerSecond + NsPerSecond
  BY <1>0, DivisionIs
<1>4. PICK k \in Nat : NsPerSecond = k * NsPerUs
  <2>1. NsPerSecond = NsPerUs * (NsPerSecond \div NsPerUs) + 0 /\ NsPerSecond \div NsPerUs \in Nat
    BY <1>0
  <2> QED BY <1>0, <2>1
<1>5. PICK g \in Nat : NsPerSecond = g * Grid
  <2>1. NsPerSecond = Grid * (NsPerSecond \div Grid) + 0 /\ NsPerSecond \div Grid \in Nat
    BY <1>0
  <2> QED BY <1>0, <2>1
<1>6. x + NsPerUs <= q * NsPerSecond + NsPerSecond
  <2>1. q * NsPerSecond + NsPerSecond = (q * k + k) * NsPerUs /\ q * k + k \in Nat
    BY <1>0, <1>4
  <2>2. n < q * k + k <=> n * NsPerUs + NsPerUs <= (q * k + k) * NsPerUs
    BY <1>0, <2>1, MultiplesApart
  <2>3. PICK m \in Nat : m = q * k + k
    BY <2>1
  <2>4. n * NsPerUs < m * NsPerUs
    BY <1>2, <1>3, <2>1, <2>3
  <2>5. n < m
    <3>1. CASE m <= n
      <4>1. m * NsPerUs <= n * NsPerUs
        <5>1. m < n <=> m * NsPerUs + NsPerUs <= n * NsPerUs
          BY <1>0, <3>1, MultiplesApart
        <5>2. m * NsPerUs \in Nat /\ n * NsPerUs \in Nat
          BY <1>0
        <5> QED BY <1>0, <3>1, <5>1, <5>2
      <4>2. m * NsPerUs \in Nat /\ n * NsPerUs \in Nat
        BY <1>0
      <4> QED BY <2>4, <4>1, <4>2
    <3> QED BY <3>1
  <2> QED BY <1>2, <2>1, <2>2, <2>3, <2>5
<1>7. PICK f \in Nat : f = Float(x) /\ f <= x + h /\ x + h < f + Grid
  BY <1>1, FloatIs
<1>8. f < q * NsPerSecond + NsPerSecond
  <2>1. PICK s \in Nat : s = q * NsPerSecond
    BY <1>0
  <2> QED BY <1>0, <1>1, <1>6, <1>7, <2>1
<1>9. q * NsPerSecond <= f
  <2>1. f = ((x + h) \div Grid) * Grid
    BY <1>1, <1>7 DEF Float
  <2>2. PICK d \in Nat : d = (x + h) \div Grid
    BY <1>0, DivisionIs
  <2>3. q * NsPerSecond = (q * g) * Grid /\ q * g \in Nat
    BY <1>0, <1>5
  <2>4. d < q * g <=> d * Grid + Grid <= (q * g) * Grid
    BY <1>0, <2>3, MultiplesApart
  <2>5. (q * g) * Grid <= x /\ f = d * Grid
    BY <1>3, <2>1, <2>2, <2>3
  <2>6. ~(d < q * g)
    <3>1. PICK s \in Nat : s = (q * g) * Grid
      BY <1>0, <2>3
    <3>2. ~(d * Grid + Grid <= (q * g) * Grid)
      BY <1>0, <1>1, <1>7, <2>5, <3>1
    <3> QED BY <2>4, <3>2
  <2>7. q * g < d <=> (q * g) * Grid + Grid <= d * Grid
    BY <1>0, <2>3, MultiplesApart
  <2>8. CASE q * g = d
    BY <2>3, <2>5, <2>8
  <2>9. CASE q * g < d
    <3>1. PICK s \in Nat : s = (q * g) * Grid
      BY <1>0, <2>3
    <3> QED BY <1>0, <1>7, <2>3, <2>5, <2>7, <2>9, <3>1
  <2> QED BY <2>3, <2>6, <2>8, <2>9
<1>10. f \div NsPerSecond = q
  BY <1>0, <1>8, <1>9, DivisionIsUnique
<1> QED BY <1>2, <1>3, <1>7, <1>10

----------------------------------------------------------------------------
(* Sums and numbers over the pairs of two chunks *)

\* The pairs W of n + m rows are the pairs U of the first n, the pairs V of the
\* last m, and it may be the one between them.
Pieces(n, m, W, U, V) ==
  /\ n \in Nat /\ m \in Nat \ {0}
  /\ W \subseteq 1 .. n + m - 1 /\ U \subseteq 1 .. n - 1 /\ V \subseteq 1 .. m - 1
  /\ \A i \in 1 .. n - 1 : i \in U <=> i \in W
  /\ \A i \in 1 .. m - 1 : i \in V <=> n + i \in W

LEMMA PiecesAreFinite ==
  ASSUME NEW n, NEW m, NEW W, NEW U, NEW V, Pieces(n, m, W, U, V)
  PROVE  IsFiniteSet(W) /\ IsFiniteSet(U) /\ IsFiniteSet(V)
<1>1. n + m - 1 \in Int /\ n - 1 \in Int /\ m - 1 \in Int
  BY DEF Pieces
<1>2. IsFiniteSet(1 .. n + m - 1) /\ IsFiniteSet(1 .. n - 1) /\ IsFiniteSet(1 .. m - 1)
  BY <1>1, FS_Interval
<1> QED BY <1>2, FS_Subset DEF Pieces

LEMMA SumInPieces ==
  ASSUME NEW n, NEW m, NEW W, NEW U, NEW V, Pieces(n, m, W, U, V),
         NEW w, \A i \in W : w[i] \in Int,
         NEW u, \A i \in U : u[i] = w[i], NEW v, \A i \in V : v[i] = w[n + i]
  PROVE  SumFunctionOnSet(w, W) = SumFunctionOnSet(u, U) + (IF n \in W THEN w[n] ELSE 0)
                                  + SumFunctionOnSet(v, V)
<1> DEFINE f == [i \in V |-> n + i]
           X == {f[i] : i \in V}
           E == {n} \cap W
<1>1. IsFiniteSet(W) /\ IsFiniteSet(U) /\ IsFiniteSet(V) /\ IsFiniteSet(E)
  <2>1. IsFiniteSet(W) /\ IsFiniteSet(U) /\ IsFiniteSet(V)
    BY PiecesAreFinite
  <2> QED BY <2>1, FS_Subset
<1> USE DEF Pieces
<1>2. f \in [V -> Int] /\ \A i \in V : f[i] = n + i
  OBVIOUS
<1>3. \A i \in X : i \in W /\ i > n
  BY <1>2
<1>4. \A i \in W : i > n => i \in X
  <2> SUFFICES ASSUME NEW i \in W, i > n PROVE i \in X
    OBVIOUS
  <2>1. i - n \in V /\ f[i - n] = i
    BY <1>2
  <2> QED BY <2>1
<1>5. \A i \in W : i < n => i \in U
  OBVIOUS
<1> HIDE DEF f
<1>6. IsFiniteSet(X)
  BY <1>1, ImageIsFinite
<1>7. SumFunctionOnSet(w, X) = SumFunctionOnSet(v, V)
  <2>1. \A i, j \in V : f[i] = f[j] => i = j
    BY <1>2
  <2>2. \A i \in V : v[i] \in Int /\ w[f[i]] = v[i]
    BY <1>2
  <2>3. (\A i \in V : f[i] \in X) /\ (\A y \in X : \E i \in V : y = f[i])
    OBVIOUS
  <2> HIDE DEF X
  <2>4. PICK S, T, g : S = V /\ T = X /\ g = f
    OBVIOUS
  <2>5. /\ IsFiniteSet(S) /\ (\A x, y \in S : g[x] = g[y] => x = y)
        /\ (\A x \in S : v[x] \in Int /\ w[g[x]] = v[x])
        /\ (\A x \in S : g[x] \in T) /\ (\A y \in T : \E x \in S : y = g[x])
    BY <1>1, <2>1, <2>2, <2>3, <2>4
  <2>6. SumFunctionOnSet(w, T) = SumFunctionOnSet(v, S)
    BY <2>5, SumOfImage
  <2> QED BY <2>4, <2>6
<1> HIDE DEF X
<1>8. SumFunctionOnSet(u, U) = SumFunctionOnSet(w, U)
  BY <1>1, SumDependsOnValues
<1>9. SumFunctionOnSet(w, E) = IF n \in W THEN w[n] ELSE 0
  <2>1. CASE n \in W
    <3>1. E = {} \cup {n} /\ n \notin {} /\ w[n] \in Int
      BY <2>1
    <3> QED BY <2>1, <3>1, SumPutIn, SumOfNone, FS_EmptySet
  <2>2. CASE n \notin W
    BY <2>2, SumOfNone
  <2> QED BY <2>1, <2>2
<1>10. W = (U \cup E) \cup X /\ U \cap E = {} /\ (U \cup E) \cap X = {}
  <2>1. \A i \in U : i \in W /\ i < n
    OBVIOUS
  <2>2. \A i \in W : i < n \/ i = n \/ i > n
    OBVIOUS
  <2>3. W \subseteq (U \cup E) \cup X
    BY <1>4, <1>5, <2>2
  <2>4. (U \cup E) \cup X \subseteq W
    BY <1>3, <2>1
  <2>5. U \cap E = {}
    BY <2>1
  <2>6. (U \cup E) \cap X = {}
    <3>1. \A i \in U \cup E : i \in Int /\ ~(i > n)
      BY <2>1
    <3> QED BY <1>3, <3>1
  <2> QED BY <2>3, <2>4, <2>5, <2>6
<1>11. SumFunctionOnSet(w, U \cup E) = SumFunctionOnSet(w, U) + SumFunctionOnSet(w, E)
  BY <1>1, <1>10, SumOfUnion
<1>12. SumFunctionOnSet(w, (U \cup E) \cup X)
         = SumFunctionOnSet(w, U \cup E) + SumFunctionOnSet(w, X)
  BY <1>1, <1>6, <1>10, SumOfUnion, FS_Union
<1> QED BY <1>7, <1>8, <1>9, <1>10, <1>11, <1>12

LEMMA NumberInPieces ==
  ASSUME NEW n, NEW m, NEW W, NEW U, NEW V, Pieces(n, m, W, U, V)
  PROVE  Cardinality(W) = Cardinality(U) + (IF n \in W THEN 1 ELSE 0) + Cardinality(V)
<1> DEFINE w == [i \in W |-> 1]
           u == [i \in U |-> 1]
           v == [i \in V |-> 1]
<1>1. IsFiniteSet(W) /\ IsFiniteSet(U) /\ IsFiniteSet(V)
  BY PiecesAreFinite
<1>2. (\A i \in W : w[i] = 1) /\ (\A i \in U : u[i] = 1) /\ (\A i \in V : v[i] = 1)
  OBVIOUS
<1>3. (\A i \in U : u[i] = w[i]) /\ (\A i \in V : v[i] = w[n + i]) /\ (\A i \in W : w[i] \in Int)
  <2>1. (\A i \in U : i \in W) /\ (\A i \in V : n + i \in W)
    BY DEF Pieces
  <2> QED BY <2>1
<1> HIDE DEF w, u, v
<1>4. /\ SumFunctionOnSet(w, W) = Cardinality(W) /\ SumFunctionOnSet(u, U) = Cardinality(U)
      /\ SumFunctionOnSet(v, V) = Cardinality(V)
  BY <1>1, <1>2, CardinalityIsSum
<1>5. SumFunctionOnSet(w, W) = SumFunctionOnSet(u, U) + (IF n \in W THEN w[n] ELSE 0)
                               + SumFunctionOnSet(v, V)
  <2>1. PICK a, b, c : a = w /\ b = u /\ c = v
    OBVIOUS
  <2>2. (\A i \in U : b[i] = a[i]) /\ (\A i \in V : c[i] = a[n + i]) /\ (\A i \in W : a[i] \in Int)
    BY <1>3, <2>1
  <2>3. SumFunctionOnSet(a, W) = SumFunctionOnSet(b, U) + (IF n \in W THEN a[n] ELSE 0)
                               + SumFunctionOnSet(c, V)
    BY <2>2, SumInPieces
  <2> QED BY <2>1, <2>3
<1> QED BY <1>2, <1>4, <1>5

----------------------------------------------------------------------------
(* Normalized rows *)

Normalized(t) == [t EXCEPT !.time = Normalize(@)]

\* The instant of a trade is a number of whole microseconds, and its normalized
\* time the floating-point number nearest to it.
LEMMA NormalizedIs ==
  ASSUME NEW t \in Trades
  PROVE  /\ Normalized(t) \in Trade /\ t \in Trade
         /\ Normalized(t).time = Float(Instant(t))
         /\ \E n \in Nat : Instant(t) = n * NsPerUs
         /\ Normalized(t).id = t.id /\ Normalized(t).price = t.price
         /\ Normalized(t).qty = t.qty /\ Normalized(t).maker = t.maker
         /\ Valid(Normalized(t)) <=> Valid(t)
<1>1. t \in Trade /\ t.time \in Nat /\ t.unit \in {"ms", "us"}
      /\ (t.time >= Threshold <=> t.unit = "us")
  BY TradesAssumption, TimesAssumption DEF Trade
<1>2. NsPerUs \in Nat \ {0} /\ UsPerMs \in Nat \ {0}
  BY TimesAssumption
<1>3. \E n \in Nat : Instant(t) = n * NsPerUs
  <2>1. t.time * UsPerMs \in Nat
    BY <1>1, <1>2
  <2> QED BY <1>1, <2>1 DEF Instant
<1>4. Instant(t) \in Nat
  BY <1>2, <1>3
<1>5. Float(Instant(t)) \in Nat
  BY <1>4, FloatIs
<1>6. Normalize(t.time) = Float(Instant(t))
  BY <1>1 DEF Normalize, Instant
<1>7. Normalized(t) = [t EXCEPT !.time = Float(Instant(t))]
  BY <1>6 DEF Normalized
<1>8. PICK f \in Nat : f = Float(Instant(t))
  BY <1>5
<1>9. /\ Normalized(t) \in Trade /\ Normalized(t).time = f
      /\ Normalized(t).id = t.id /\ Normalized(t).price = t.price
      /\ Normalized(t).qty = t.qty /\ Normalized(t).maker = t.maker
  BY <1>1, <1>7, <1>8 DEF Trade
<1> QED BY <1>1, <1>3, <1>8, <1>9 DEF Valid

\* Normalized times are in the order of the instants.
LEMMA NormalizedKeepsOrder ==
  ASSUME NEW a \in Trades, NEW b \in Trades
  PROVE  Normalized(b).time < Normalized(a).time <=> Instant(b) < Instant(a)
<1>1. PICK j \in Nat : Instant(a) = j * NsPerUs
  BY NormalizedIs
<1>2. PICK k \in Nat : Instant(b) = k * NsPerUs
  BY NormalizedIs
<1>3. NsPerUs \in Nat \ {0}
  BY TimesAssumption
<1>4. PICK x \in Nat, y \in Nat : x = j * NsPerUs /\ y = k * NsPerUs
  BY <1>3
<1>5. Normalized(a).time = Float(x) /\ Normalized(b).time = Float(y)
  BY <1>1, <1>2, <1>4, NormalizedIs
<1>6. Float(x) \in Nat /\ Float(y) \in Nat
  BY FloatIs
<1>7. (j < k <=> x + NsPerUs <= y) /\ (k < j <=> y + NsPerUs <= x)
  BY <1>3, <1>4, MultiplesApart
<1>8. CASE j = k
  BY <1>1, <1>2, <1>4, <1>5, <1>6, <1>8
<1>9. CASE j < k
  BY <1>1, <1>2, <1>3, <1>4, <1>5, <1>6, <1>7, <1>9, FloatKeepsOrder
<1>10. CASE k < j
  BY <1>1, <1>2, <1>3, <1>4, <1>5, <1>6, <1>7, <1>10, FloatKeepsOrder
<1> QED BY <1>8, <1>9, <1>10

----------------------------------------------------------------------------
(* Pairs of rows *)

\* The indices i of rows for which R holds of rows[i] and rows[i + 1]: PairsWith,
\* of a relation that is a set.
PairsIn(rows, R) == {i \in 1 .. Len(rows) - 1 : <<rows[i], rows[i + 1]>> \in R}

Number(rows, R) == Cardinality(PairsIn(rows, R))

Benign(a, b) == Duplicate(a, b) /\ SameContent(a, b)

Conflict(a, b) == Duplicate(a, b) /\ ~SameContent(a, b)

BackwardsPairs == {p \in Trade \X Trade : Backwards(p[1], p[2])}
GapPairs == {p \in Trade \X Trade : Gap(p[1], p[2])}
DuplicatePairs == {p \in Trade \X Trade : Duplicate(p[1], p[2])}
BenignPairs == {p \in Trade \X Trade : Benign(p[1], p[2])}
ConflictPairs == {p \in Trade \X Trade : Conflict(p[1], p[2])}
JumpPairs == {p \in Trade \X Trade : Jump(p[1], p[2])}
JumpAtEdgePairs == {p \in Trade \X Trade : JumpAtEdge(p[1], p[2])}

LEMMA PairsAreIn ==
  ASSUME NEW rows \in Seq(Trade)
  PROVE  /\ PairsWith(rows, Backwards) = PairsIn(rows, BackwardsPairs)
         /\ PairsWith(rows, Gap) = PairsIn(rows, GapPairs)
         /\ PairsWith(rows, Duplicate) = PairsIn(rows, DuplicatePairs)
         /\ PairsWith(rows, Benign) = PairsIn(rows, BenignPairs)
         /\ PairsWith(rows, Conflict) = PairsIn(rows, ConflictPairs)
         /\ PairsWith(rows, Jump) = PairsIn(rows, JumpPairs)
         /\ PairsWith(rows, JumpAtEdge) = PairsIn(rows, JumpAtEdgePairs)
<1>1. \A i \in 1 .. Len(rows) - 1 : rows[i] \in Trade /\ rows[i + 1] \in Trade
  OBVIOUS
<1>2. PairsWith(rows, Backwards) = PairsIn(rows, BackwardsPairs)
  BY <1>1 DEF PairsWith, PairsIn, BackwardsPairs
<1>3. PairsWith(rows, Gap) = PairsIn(rows, GapPairs)
  BY <1>1 DEF PairsWith, PairsIn, GapPairs
<1>4. PairsWith(rows, Duplicate) = PairsIn(rows, DuplicatePairs)
  BY <1>1 DEF PairsWith, PairsIn, DuplicatePairs
<1>5. PairsWith(rows, Benign) = PairsIn(rows, BenignPairs)
  BY <1>1 DEF PairsWith, PairsIn, BenignPairs
<1>6. PairsWith(rows, Conflict) = PairsIn(rows, ConflictPairs)
  BY <1>1 DEF PairsWith, PairsIn, ConflictPairs
<1>7. PairsWith(rows, Jump) = PairsIn(rows, JumpPairs)
  BY <1>1 DEF PairsWith, PairsIn, JumpPairs
<1>8. PairsWith(rows, JumpAtEdge) = PairsIn(rows, JumpAtEdgePairs)
  BY <1>1 DEF PairsWith, PairsIn, JumpAtEdgePairs
<1> QED BY <1>2, <1>3, <1>4, <1>5, <1>6, <1>7, <1>8

LEMMA PairsOfConcat ==
  ASSUME NEW s \in Seq(Trade), NEW t \in Seq(Trade), Len(t) # 0, NEW R
  PROVE  /\ Pieces(Len(s), Len(t), PairsIn(s \o t, R), PairsIn(s, R), PairsIn(t, R))
         /\ Len(s) \in PairsIn(s \o t, R) <=> Len(s) # 0 /\ <<s[Len(s)], t[1]>> \in R
<1> DEFINE c == s \o t
           n == Len(s)
           m == Len(t)
<1>1. /\ n \in Nat /\ m \in Nat \ {0} /\ Len(c) = n + m
      /\ \A i \in 1 .. n + m : c[i] = IF i <= n THEN s[i] ELSE t[i - n]
  BY ConcatProperties
<1> HIDE DEF c, n, m
<1>2. \A i \in 1 .. n - 1 : c[i] = s[i] /\ c[i + 1] = s[i + 1] /\ i \in 1 .. n + m - 1
  BY <1>1
<1>3. \A i \in 1 .. m - 1 : c[n + i] = t[i] /\ c[n + i + 1] = t[i + 1] /\ n + i \in 1 .. n + m - 1
  <2> SUFFICES ASSUME NEW i \in 1 .. m - 1
               PROVE  c[n + i] = t[i] /\ c[n + i + 1] = t[i + 1] /\ n + i \in 1 .. n + m - 1
    OBVIOUS
  <2>1. /\ n + i \in 1 .. n + m /\ n + i + 1 \in 1 .. n + m
        /\ ~(n + i <= n) /\ ~(n + i + 1 <= n) /\ (n + i) - n = i /\ (n + i + 1) - n = i + 1
    BY <1>1
  <2>2. c[n + i] = t[(n + i) - n] /\ c[n + i + 1] = t[(n + i + 1) - n]
    BY <1>1, <2>1
  <2> QED BY <1>1, <2>1, <2>2
<1>4. n # 0 => c[n] = s[n] /\ c[n + 1] = t[1] /\ n \in 1 .. n + m - 1
  <2> SUFFICES ASSUME n # 0 PROVE c[n] = s[n] /\ c[n + 1] = t[1] /\ n \in 1 .. n + m - 1
    OBVIOUS
  <2>1. n \in 1 .. n + m /\ n + 1 \in 1 .. n + m /\ ~(n + 1 <= n) /\ (n + 1) - n = 1
    BY <1>1
  <2>2. c[n] = s[n] /\ c[n + 1] = t[(n + 1) - n]
    BY <1>1, <2>1
  <2> QED BY <1>1, <2>1, <2>2
<1>5. PairsIn(c, R) = {i \in 1 .. n + m - 1 : <<c[i], c[i + 1]>> \in R}
  BY <1>1 DEF PairsIn
<1>6. /\ PairsIn(s, R) = {i \in 1 .. n - 1 : <<s[i], s[i + 1]>> \in R}
      /\ PairsIn(t, R) = {i \in 1 .. m - 1 : <<t[i], t[i + 1]>> \in R}
  BY DEF PairsIn, n, m
<1>7. \A i \in 1 .. n - 1 : i \in PairsIn(s, R) <=> i \in PairsIn(c, R)
  BY <1>2, <1>5, <1>6
<1>8. \A i \in 1 .. m - 1 : i \in PairsIn(t, R) <=> n + i \in PairsIn(c, R)
  BY <1>3, <1>5, <1>6
<1>9. Pieces(n, m, PairsIn(c, R), PairsIn(s, R), PairsIn(t, R))
  BY <1>1, <1>5, <1>6, <1>7, <1>8 DEF Pieces
<1>10. n \in PairsIn(c, R) <=> n # 0 /\ <<s[n], t[1]>> \in R
  <2>1. CASE n = 0
    <3>1. 0 \notin 1 .. n + m - 1
      BY <1>1
    <3> QED BY <1>5, <2>1, <3>1
  <2>2. CASE n # 0
    BY <1>4, <1>5, <2>2
  <2> QED BY <2>1, <2>2
<1> QED BY <1>9, <1>10 DEF c, n, m

\* A pair of two chunks is one of the first, one of the second, or the one between.
LEMMA NumberOfConcat ==
  ASSUME NEW s \in Seq(Trade), NEW t \in Seq(Trade), Len(t) # 0, NEW R
  PROVE  Number(s \o t, R) = Number(s, R) + Number(t, R)
           + (IF Len(s) # 0 /\ <<s[Len(s)], t[1]>> \in R THEN 1 ELSE 0)
<1>1. /\ Pieces(Len(s), Len(t), PairsIn(s \o t, R), PairsIn(s, R), PairsIn(t, R))
      /\ Len(s) \in PairsIn(s \o t, R) <=> Len(s) # 0 /\ <<s[Len(s)], t[1]>> \in R
  BY PairsOfConcat
<1>2. IsFiniteSet(PairsIn(s, R)) /\ IsFiniteSet(PairsIn(t, R))
  BY <1>1, PiecesAreFinite
<1>3. Number(s, R) \in Nat /\ Number(t, R) \in Nat
  BY <1>2, FS_CardinalityType DEF Number
<1>4. Number(s \o t, R) = Number(s, R) + (IF Len(s) \in PairsIn(s \o t, R) THEN 1 ELSE 0)
                          + Number(t, R)
  BY <1>1, NumberInPieces DEF Number
<1> QED BY <1>1, <1>3, <1>4

LEMMA NumberIsNat ==
  ASSUME NEW s \in Seq(Trade), NEW R
  PROVE  Number(s, R) \in Nat /\ IsFiniteSet(PairsIn(s, R))
<1>1. Len(s) - 1 \in Int
  OBVIOUS
<1>2. IsFiniteSet(1 .. Len(s) - 1)
  BY <1>1, FS_Interval
<1>3. PairsIn(s, R) \subseteq 1 .. Len(s) - 1
  BY DEF PairsIn
<1>4. IsFiniteSet(PairsIn(s, R))
  BY <1>2, <1>3, FS_Subset
<1> QED BY <1>4, FS_CardinalityType DEF Number

----------------------------------------------------------------------------
(* The ids that are missing *)

MissingOf(rows) == [i \in PairsIn(rows, GapPairs) |-> rows[i + 1].id - rows[i].id - 1]

LEMMA MissingIs ==
  ASSUME NEW rows \in Seq(Trade)
  PROVE  /\ MissingIn(rows) = SumFunctionOnSet(MissingOf(rows), PairsIn(rows, GapPairs))
         /\ \A i \in PairsIn(rows, GapPairs) :
              MissingOf(rows)[i] \in Nat /\ MissingOf(rows)[i] = rows[i + 1].id - rows[i].id - 1
         /\ MissingIn(rows) \in Nat
<1>1. PairsWith(rows, Gap) = PairsIn(rows, GapPairs) /\ IsFiniteSet(PairsIn(rows, GapPairs))
  BY PairsAreIn, NumberIsNat
<1>2. MissingIn(rows) = SumFunction(MissingOf(rows))
  BY <1>1 DEF MissingIn, MissingOf
<1>3. DOMAIN MissingOf(rows) = PairsIn(rows, GapPairs)
  BY DEF MissingOf
<1>4. MissingIn(rows) = SumFunctionOnSet(MissingOf(rows), PairsIn(rows, GapPairs))
  BY <1>2, <1>3 DEF SumFunction
<1>5. ASSUME NEW i \in PairsIn(rows, GapPairs)
      PROVE  MissingOf(rows)[i] \in Nat /\ MissingOf(rows)[i] = rows[i + 1].id - rows[i].id - 1
  <2>1. i \in 1 .. Len(rows) - 1 /\ <<rows[i], rows[i + 1]>> \in GapPairs
    BY DEF PairsIn
  <2>2. rows[i].id \in Int /\ rows[i + 1].id \in Int
    <3>1. rows[i] \in Trade /\ rows[i + 1] \in Trade
      BY <2>1
    <3> QED BY <3>1 DEF Trade
  <2>3. rows[i + 1].id - rows[i].id > 1
    BY <2>1 DEF GapPairs, Gap
  <2>4. MissingOf(rows)[i] = rows[i + 1].id - rows[i].id - 1
    BY DEF MissingOf
  <2> QED BY <2>2, <2>3, <2>4
<1>6. MissingIn(rows) \in Nat
  <2>1. PICK f, S : f = MissingOf(rows) /\ S = PairsIn(rows, GapPairs)
    OBVIOUS
  <2>2. IsFiniteSet(S) /\ \A i \in S : f[i] \in Nat
    BY <1>1, <1>5, <2>1
  <2>3. SumFunctionOnSet(f, S) \in Nat
    BY <2>2, SumIsNat
  <2> QED BY <1>4, <2>1, <2>3
<1> QED BY <1>4, <1>5, <1>6

LEMMA MissingOfConcat ==
  ASSUME NEW s \in Seq(Trade), NEW t \in Seq(Trade), Len(t) # 0
  PROVE  MissingIn(s \o t) = MissingIn(s) + MissingIn(t)
           + (IF Len(s) # 0 /\ Gap(s[Len(s)], t[1]) THEN t[1].id - s[Len(s)].id - 1 ELSE 0)
<1> DEFINE c == s \o t
           n == Len(s)
           w == MissingOf(c)
           u == MissingOf(s)
           v == MissingOf(t)
           W == PairsIn(c, GapPairs)
           U == PairsIn(s, GapPairs)
           V == PairsIn(t, GapPairs)
<1>1. c \in Seq(Trade) /\ n \in Nat /\ Len(c) = n + Len(t) /\ Len(t) \in Nat
  BY ConcatProperties
<1>2. /\ Pieces(n, Len(t), W, U, V)
      /\ n \in W <=> n # 0 /\ <<s[n], t[1]>> \in GapPairs
  BY PairsOfConcat
<1>3. \A i \in 1 .. n + Len(t) : c[i] = IF i <= n THEN s[i] ELSE t[i - n]
  BY ConcatProperties
<1>4. MissingIn(c) = SumFunctionOnSet(w, W) /\ \A i \in W : w[i] \in Nat /\ w[i] = c[i + 1].id - c[i].id - 1
  BY <1>1, MissingIs
<1>5. MissingIn(s) = SumFunctionOnSet(u, U) /\ MissingIn(s) \in Nat
      /\ \A i \in U : u[i] \in Nat /\ u[i] = s[i + 1].id - s[i].id - 1
  BY MissingIs
<1>6. MissingIn(t) = SumFunctionOnSet(v, V) /\ MissingIn(t) \in Nat
      /\ \A i \in V : v[i] \in Nat /\ v[i] = t[i + 1].id - t[i].id - 1
  BY MissingIs
<1> HIDE DEF c, n, w, u, v, W, U, V
<1>7. \A i \in U : u[i] = w[i]
  <2> SUFFICES ASSUME NEW i \in U PROVE u[i] = w[i]
    OBVIOUS
  <2>1. i \in 1 .. n - 1 /\ i \in W
    BY <1>2 DEF Pieces
  <2>2. c[i] = s[i] /\ c[i + 1] = s[i + 1]
    BY <1>1, <1>3, <2>1
  <2> QED BY <1>4, <1>5, <2>1, <2>2
<1>8. \A i \in V : v[i] = w[n + i]
  <2> SUFFICES ASSUME NEW i \in V PROVE v[i] = w[n + i]
    OBVIOUS
  <2>1. i \in 1 .. Len(t) - 1 /\ n + i \in W
    BY <1>2 DEF Pieces
  <2>2. /\ n + i \in 1 .. n + Len(t) /\ n + i + 1 \in 1 .. n + Len(t)
        /\ ~(n + i <= n) /\ ~(n + i + 1 <= n) /\ (n + i) - n = i /\ (n + i + 1) - n = i + 1
    BY <1>1, <2>1
  <2>3. c[n + i] = t[(n + i) - n] /\ c[n + i + 1] = t[(n + i + 1) - n]
    BY <1>3, <2>2
  <2> QED BY <1>4, <1>6, <2>1, <2>2, <2>3
<1>9. SumFunctionOnSet(w, W) = SumFunctionOnSet(u, U) + (IF n \in W THEN w[n] ELSE 0)
                               + SumFunctionOnSet(v, V)
  BY <1>2, <1>4, <1>7, <1>8, SumInPieces
<1>10. n # 0 => s[n] \in Trade /\ c[n] = s[n] /\ c[n + 1] = t[1]
  <2> SUFFICES ASSUME n # 0 PROVE s[n] \in Trade /\ c[n] = s[n] /\ c[n + 1] = t[1]
    OBVIOUS
  <2>1. n \in 1 .. n + Len(t) /\ n + 1 \in 1 .. n + Len(t) /\ ~(n + 1 <= n) /\ (n + 1) - n = 1
    BY <1>1
  <2>2. c[n] = s[n] /\ c[n + 1] = t[(n + 1) - n]
    BY <1>1, <1>3, <2>1
  <2> QED BY <1>1, <2>1, <2>2 DEF n
<1>11. t[1] \in Trade
  BY <1>1
<1>12. n \in W <=> n # 0 /\ Gap(s[n], t[1])
  BY <1>2, <1>10, <1>11 DEF GapPairs
<1>13. n \in W => w[n] = t[1].id - s[n].id - 1 /\ w[n] \in Nat
  BY <1>4, <1>10, <1>12
<1> QED BY <1>4, <1>5, <1>6, <1>9, <1>12, <1>13 DEF c, n

----------------------------------------------------------------------------
(* Normalized chunks *)

LEMMA FinalizeIs ==
  ASSUME NEW s \in Seq(Trades)
  PROVE  /\ FinalizeChunk(s) \in Seq(Trade) /\ Len(FinalizeChunk(s)) = Len(s)
         /\ \A i \in 1 .. Len(s) : s[i] \in Trades /\ FinalizeChunk(s)[i] = Normalized(s[i])
<1>1. \A i \in 1 .. Len(s) : s[i] \in Trades
  OBVIOUS
<1>2. \A i \in 1 .. Len(s) : Normalized(s[i]) \in Trade
  BY <1>1, NormalizedIs
<1>3. FinalizeChunk(s) = [i \in 1 .. Len(s) |-> Normalized(s[i])]
  BY DEF FinalizeChunk, Normalized
<1>4. PICK f : f = [i \in 1 .. Len(s) |-> Normalized(s[i])]
  OBVIOUS
<1>5. f \in Seq(Trade) /\ Len(f) = Len(s) /\ \A i \in 1 .. Len(s) : f[i] = Normalized(s[i])
  BY <1>2, <1>4
<1> QED BY <1>1, <1>3, <1>4, <1>5

LEMMA FinalizeOfConcat ==
  ASSUME NEW s \in Seq(Trades), NEW t \in Seq(Trades)
  PROVE  FinalizeChunk(s \o t) = FinalizeChunk(s) \o FinalizeChunk(t)
<1> DEFINE c == s \o t
           f == FinalizeChunk(c)
           g == FinalizeChunk(s)
           h == FinalizeChunk(t)
           n == Len(s)
           m == Len(t)
<1>1. /\ c \in Seq(Trades) /\ Len(c) = n + m /\ n \in Nat /\ m \in Nat
      /\ \A i \in 1 .. n + m : c[i] = IF i <= n THEN s[i] ELSE t[i - n]
  BY ConcatProperties
<1>2. f \in Seq(Trade) /\ Len(f) = n + m /\ \A i \in 1 .. n + m : f[i] = Normalized(c[i])
  BY <1>1, FinalizeIs
<1>3. g \in Seq(Trade) /\ Len(g) = n /\ \A i \in 1 .. n : g[i] = Normalized(s[i])
  BY FinalizeIs
<1>4. h \in Seq(Trade) /\ Len(h) = m /\ \A i \in 1 .. m : h[i] = Normalized(t[i])
  BY FinalizeIs
<1> HIDE DEF c, f, g, h, n, m
<1>5. /\ g \o h \in Seq(Trade) /\ Len(g \o h) = n + m
      /\ \A i \in 1 .. n + m : (g \o h)[i] = IF i <= n THEN g[i] ELSE h[i - n]
  BY <1>3, <1>4, ConcatProperties
<1>6. ASSUME NEW i \in 1 .. n + m PROVE f[i] = (g \o h)[i]
  <2>1. CASE i <= n
    <3>1. i \in 1 .. n
      BY <1>1, <2>1
    <3> QED BY <1>1, <1>2, <1>3, <1>5, <2>1, <3>1
  <2>2. CASE ~(i <= n)
    <3>1. i - n \in 1 .. m
      BY <1>1, <2>2
    <3> QED BY <1>1, <1>2, <1>4, <1>5, <2>2, <3>1
  <2> QED BY <2>1, <2>2
<1>7. f = g \o h
  BY <1>2, <1>5, <1>6, SeqEqual
<1> QED BY <1>7 DEF c, f, g, h

\* A row is valid or not whatever its time.
LEMMA FilterOfFinalized ==
  ASSUME NEW s \in Seq(Trades)
  PROVE  FilterValidRows(FinalizeChunk(s)) = FinalizeChunk(FilterValidRows(s))
<1> DEFINE F == {t \in Seq(Trades) : FilterValidRows(FinalizeChunk(t)) = FinalizeChunk(FilterValidRows(t))}
<1>1. <<>> \in F
  <2>1. PICK e : e = <<>>
    OBVIOUS
  <2>2. e \in Seq(Trades) /\ FilterValidRows(e) = e
    BY <2>1, FilterOfNone
  <2>3. FinalizeChunk(e) = e
    <3>1. FinalizeChunk(e) \in Seq(Trade) /\ Len(FinalizeChunk(e)) = Len(e)
      BY <2>2, FinalizeIs
    <3> QED BY <2>1, <3>1
  <2>4. e \in F
    BY <2>2, <2>3
  <2> QED BY <2>1, <2>4
<1>2. ASSUME NEW t \in Seq(Trades), NEW x \in Trades, t \in F PROVE Append(t, x) \in F
  <2>1. PICK o : o = <<x>>
    OBVIOUS
  <2>2. o \in Seq(Trades) /\ Len(o) = 1 /\ o[1] = x
    BY <2>1
  <2>3. FinalizeChunk(o) = <<Normalized(x)>>
    <3>1. FinalizeChunk(o) \in Seq(Trade) /\ Len(FinalizeChunk(o)) = 1
          /\ \A i \in 1 .. 1 : FinalizeChunk(o)[i] = Normalized(o[i])
      BY <2>2, FinalizeIs
    <3>2. FinalizeChunk(o)[1] = Normalized(x)
      BY <2>2, <3>1
    <3> QED BY <3>1, <3>2
  <2>4. ASSUME NEW u \in Seq(Trades)
        PROVE  FinalizeChunk(Append(u, x)) = Append(FinalizeChunk(u), Normalized(x))
    <3>1. Append(u, x) = u \o o
      BY <2>1
    <3>2. FinalizeChunk(u \o o) = FinalizeChunk(u) \o FinalizeChunk(o)
      BY <2>2, FinalizeOfConcat
    <3>3. FinalizeChunk(u) \in Seq(Trade)
      BY FinalizeIs
    <3>4. Normalized(x) \in Trade
      BY NormalizedIs
    <3>5. FinalizeChunk(u) \o <<Normalized(x)>> = Append(FinalizeChunk(u), Normalized(x))
      BY <3>3, <3>4
    <3> QED BY <2>3, <3>1, <3>2, <3>5
  <2>5. /\ FinalizeChunk(t) \in Seq(Trade) /\ Normalized(x) \in Trade
        /\ Valid(Normalized(x)) <=> Valid(x)
    BY FinalizeIs, NormalizedIs
  <2>6. FilterValidRows(Append(FinalizeChunk(t), Normalized(x)))
          = IF Valid(x) THEN Append(FilterValidRows(FinalizeChunk(t)), Normalized(x))
            ELSE FilterValidRows(FinalizeChunk(t))
    BY <2>5, FilterOfAppend
  <2>7. /\ FilterValidRows(Append(t, x))
             = IF Valid(x) THEN Append(FilterValidRows(t), x) ELSE FilterValidRows(t)
        /\ FilterValidRows(t) \in Seq(Trades)
    BY FilterOfAppend, FilterKeepsRows
  <2>8. FinalizeChunk(Append(FilterValidRows(t), x))
          = Append(FinalizeChunk(FilterValidRows(t)), Normalized(x))
    BY <2>4, <2>7
  <2>9. FinalizeChunk(Append(t, x)) = Append(FinalizeChunk(t), Normalized(x))
    BY <2>4
  <2>10. FilterValidRows(FinalizeChunk(t)) = FinalizeChunk(FilterValidRows(t))
    BY <1>2
  <2>11. FilterValidRows(FinalizeChunk(Append(t, x))) = FinalizeChunk(FilterValidRows(Append(t, x)))
    BY <2>6, <2>7, <2>8, <2>9, <2>10
  <2>12. Append(t, x) \in Seq(Trades)
    OBVIOUS
  <2> QED BY <2>11, <2>12
<1> HIDE DEF F
<1>3. s \in F
  BY <1>1, <1>2, SeqInduction
<1> QED BY <1>3 DEF F

----------------------------------------------------------------------------
(* The report *)

\* What the report says after the rows s, however they were cut: everything but
\* the number of price jumps is determined.
IsReportOf(r, s) ==
  /\ r.rows_seen = Len(s)
  /\ r.n_price_or_qty_anomalies \in Nat
  /\ r.n_nonmonotonic_time = Number(s, BackwardsPairs)
  /\ r.n_trade_id_gaps = Number(s, GapPairs)
  /\ r.total_missing_trade_ids = MissingIn(s)
  /\ r.n_duplicate_trade_ids = Number(s, DuplicatePairs)
  /\ r.n_duplicate_rows = Number(s, BenignPairs)
  /\ r.n_conflicting = Number(s, ConflictPairs)
  /\ r.n_abnormal_price_jumps \in Number(s, JumpAtEdgePairs) .. Number(s, JumpPairs)
  /\ r.min_trade_id = IF Len(s) = 0 THEN NULL ELSE Min(Ids(s))
  /\ r.max_trade_id = IF Len(s) = 0 THEN NULL ELSE Max(Ids(s))
  /\ r.last = IF Len(s) = 0 THEN NULL ELSE s[Len(s)]

LEMMA IdsAre ==
  ASSUME NEW s \in Seq(Trade)
  PROVE  /\ Ids(s) \subseteq Int /\ IsFiniteSet(Ids(s)) /\ (Len(s) # 0 => Ids(s) # {})
         /\ \A x : x \in Ids(s) <=> \E i \in 1 .. Len(s) : x = s[i].id
<1>1. \A i \in 1 .. Len(s) : s[i] \in Trade
  OBVIOUS
<1>2. \A i \in 1 .. Len(s) : s[i].id \in Int
  BY <1>1 DEF Trade
<1>3. Len(s) \in Nat /\ DOMAIN s = 1 .. Len(s)
  OBVIOUS
<1>4. IsFiniteSet(1 .. Len(s))
  BY <1>3, FS_Interval
<1> DEFINE f == [i \in 1 .. Len(s) |-> s[i].id]
           T == {f[i] : i \in 1 .. Len(s)}
<1>5. Ids(s) = T
  BY <1>3 DEF Ids
<1> HIDE DEF f
<1>6. IsFiniteSet(T)
  BY <1>4, ImageIsFinite
<1> HIDE DEF T
<1>7. IsFiniteSet(Ids(s))
  BY <1>5, <1>6
<1>8. \A x : x \in Ids(s) <=> \E i \in 1 .. Len(s) : x = s[i].id
  BY <1>3 DEF Ids
<1>9. Len(s) # 0 => s[1].id \in Ids(s)
  BY <1>3, <1>8
<1>10. Ids(s) \subseteq Int
  BY <1>2, <1>8
<1> QED BY <1>7, <1>8, <1>9, <1>10

LEMMA IdsOfConcat ==
  ASSUME NEW s \in Seq(Trade), NEW t \in Seq(Trade)
  PROVE  Ids(s \o t) = Ids(s) \cup Ids(t)
<1> DEFINE c == s \o t
           n == Len(s)
           m == Len(t)
<1>1. /\ c \in Seq(Trade) /\ Len(c) = n + m /\ n \in Nat /\ m \in Nat
      /\ \A i \in 1 .. n + m : c[i] = IF i <= n THEN s[i] ELSE t[i - n]
  BY ConcatProperties
<1>2. /\ \A x : x \in Ids(c) <=> \E i \in 1 .. n + m : x = c[i].id
      /\ \A x : x \in Ids(s) <=> \E i \in 1 .. n : x = s[i].id
      /\ \A x : x \in Ids(t) <=> \E i \in 1 .. m : x = t[i].id
  <2>1. \A x : x \in Ids(c) <=> \E i \in 1 .. Len(c) : x = c[i].id
    <3> HIDE DEF c
    <3> QED BY <1>1, IdsAre
  <2>2. \A x : x \in Ids(s) <=> \E i \in 1 .. Len(s) : x = s[i].id
    BY IdsAre
  <2>3. \A x : x \in Ids(t) <=> \E i \in 1 .. Len(t) : x = t[i].id
    BY IdsAre
  <2> HIDE DEF c
  <2> QED BY <1>1, <2>1, <2>2, <2>3
<1> HIDE DEF c, n, m
<1>3. ASSUME NEW x \in Ids(c) PROVE x \in Ids(s) \cup Ids(t)
  <2>1. PICK i \in 1 .. n + m : x = c[i].id
    BY <1>2
  <2>2. CASE i <= n
    <3>1. i \in 1 .. n /\ c[i] = s[i]
      BY <1>1, <2>2
    <3> QED BY <1>2, <2>1, <3>1
  <2>3. CASE ~(i <= n)
    <3>1. i - n \in 1 .. m /\ c[i] = t[i - n]
      BY <1>1, <2>3
    <3> QED BY <1>2, <2>1, <3>1
  <2> QED BY <2>2, <2>3
<1>4. ASSUME NEW x \in Ids(s) PROVE x \in Ids(c)
  <2>1. PICK i \in 1 .. n : x = s[i].id
    BY <1>2
  <2>2. i \in 1 .. n + m /\ c[i] = s[i]
    BY <1>1
  <2> QED BY <1>2, <2>1, <2>2
<1>5. ASSUME NEW x \in Ids(t) PROVE x \in Ids(c)
  <2>1. PICK i \in 1 .. m : x = t[i].id
    BY <1>2
  <2>2. n + i \in 1 .. n + m /\ ~(n + i <= n) /\ (n + i) - n = i
    BY <1>1
  <2>3. c[n + i] = t[(n + i) - n]
    BY <1>1, <2>2
  <2> QED BY <1>2, <2>1, <2>2, <2>3
<1>6. Ids(c) = Ids(s) \cup Ids(t)
  BY <1>3, <1>4, <1>5
<1> QED BY <1>6 DEF c

\* The smallest and the largest id so far, with those of one more chunk.
LEMMA RangeOfConcat ==
  ASSUME NEW s \in Seq(Trade), NEW t \in Seq(Trade), Len(t) # 0,
         NEW low, low = IF Len(s) = 0 THEN NULL ELSE Min(Ids(s)),
         NEW high, high = IF Len(s) = 0 THEN NULL ELSE Max(Ids(s))
  PROVE  /\ Min(Ids(t) \cup ({low} \ {NULL})) = Min(Ids(s \o t))
         /\ Max(Ids(t) \cup ({high} \ {NULL})) = Max(Ids(s \o t))
<1>1. /\ Ids(s) \subseteq Int /\ IsFiniteSet(Ids(s)) /\ (Len(s) # 0 => Ids(s) # {})
      /\ Ids(t) \subseteq Int /\ IsFiniteSet(Ids(t)) /\ Ids(t) # {}
      /\ Ids(s \o t) = Ids(s) \cup Ids(t) /\ IsFiniteSet(Ids(s) \cup Ids(t))
  BY IdsAre, IdsOfConcat, FS_Union
<1>2. PICK S, T : S = Ids(s) /\ T = Ids(t)
  OBVIOUS
<1>3. /\ S \subseteq Int /\ IsFiniteSet(S) /\ (Len(s) # 0 => S # {}) /\ NULL \notin Int
      /\ T \subseteq Int /\ IsFiniteSet(T) /\ T # {} /\ IsFiniteSet(S \cup T)
  BY <1>1, <1>2, NullAssumption
<1>4. CASE Len(s) = 0
  <2>1. S = {}
    <3>1. \A x : x \notin Ids(s)
      <4>1. \A x : x \in Ids(s) <=> \E i \in 1 .. Len(s) : x = s[i].id
        BY IdsAre
      <4> QED BY <1>4, <4>1
    <3> QED BY <1>2, <3>1
  <2>2. Ids(t) \cup ({low} \ {NULL}) = T /\ Ids(t) \cup ({high} \ {NULL}) = T /\ Ids(s \o t) = T
    BY <1>1, <1>2, <1>4, <2>1
  <2> QED BY <2>2
<1>5. CASE Len(s) # 0
  <2>1. /\ low = Min(S) /\ low \in S /\ \A y \in S : low <= y
        /\ high = Max(S) /\ high \in S /\ \A y \in S : y <= high
    BY <1>2, <1>3, <1>5, MinIsSmallest, MaxIsLargest
  <2>2. /\ Ids(t) \cup ({low} \ {NULL}) = T \cup {low}
        /\ Ids(t) \cup ({high} \ {NULL}) = T \cup {high}
    BY <1>2, <1>3, <2>1
  <2>3. PICK a, b : a = Min(S \cup T) /\ b = Max(S \cup T)
    OBVIOUS
  <2>4. /\ a \in S \cup T /\ \A y \in S \cup T : a <= y
        /\ b \in S \cup T /\ \A y \in S \cup T : y <= b
    BY <1>3, <2>3, MinIsSmallest, MaxIsLargest
  <2>5. Min(T \cup {low}) = a
    <3>1. T \cup {low} \subseteq Int /\ low \in Int /\ a \in Int
      BY <1>3, <2>1, <2>4
    <3>2. a \in T \cup {low}
      BY <1>3, <2>1, <2>4, <3>1
    <3>3. \A y \in T \cup {low} : a <= y
      BY <2>1, <2>4
    <3> QED BY <3>1, <3>2, <3>3, MinIs
  <2>6. Max(T \cup {high}) = b
    <3>1. T \cup {high} \subseteq Int /\ high \in Int /\ b \in Int
      BY <1>3, <2>1, <2>4
    <3>2. b \in T \cup {high}
      BY <1>3, <2>1, <2>4, <3>1
    <3>3. \A y \in T \cup {high} : y <= b
      BY <2>1, <2>4
    <3> QED BY <3>1, <3>2, <3>3, MaxIs
  <2> QED BY <1>1, <1>2, <2>2, <2>3, <2>5, <2>6
<1> QED BY <1>4, <1>5

EdgeIn(last, t, R) == IF last # NULL /\ <<last, t[1]>> \in R THEN 1 ELSE 0

\* Update in the words of these proofs.
LEMMA UpdateIs ==
  ASSUME NEW r, NEW t \in Seq(Trade), Len(t) # 0, r.last \in Trade \cup {NULL}
  PROVE  /\ Update(r, t).rows_seen = r.rows_seen + Len(t)
         /\ Update(r, t).n_price_or_qty_anomalies = r.n_price_or_qty_anomalies
              + Cardinality({i \in DOMAIN t : ~Valid(t[i])})
         /\ Update(r, t).n_nonmonotonic_time = r.n_nonmonotonic_time
              + (Number(t, BackwardsPairs) + EdgeIn(r.last, t, BackwardsPairs))
         /\ Update(r, t).n_trade_id_gaps = r.n_trade_id_gaps
              + (Number(t, GapPairs) + EdgeIn(r.last, t, GapPairs))
         /\ Update(r, t).total_missing_trade_ids = r.total_missing_trade_ids + MissingIn(t)
              + MissingAtEdge(r.last, t[1])
         /\ Update(r, t).n_duplicate_trade_ids = r.n_duplicate_trade_ids
              + (Number(t, DuplicatePairs) + EdgeIn(r.last, t, DuplicatePairs))
         /\ Update(r, t).n_duplicate_rows = r.n_duplicate_rows
              + (Number(t, BenignPairs) + EdgeIn(r.last, t, BenignPairs))
         /\ Update(r, t).n_conflicting = r.n_conflicting
              + (Number(t, ConflictPairs) + EdgeIn(r.last, t, ConflictPairs))
         /\ Update(r, t).n_abnormal_price_jumps = r.n_abnormal_price_jumps
              + Number(t, JumpPairs) + EdgeIn(r.last, t, JumpAtEdgePairs)
         /\ Update(r, t).min_trade_id = Min(Ids(t) \cup ({r.min_trade_id} \ {NULL}))
         /\ Update(r, t).max_trade_id = Max(Ids(t) \cup ({r.max_trade_id} \ {NULL}))
         /\ Update(r, t).last = t[Len(t)]
<1>1. t[1] \in Trade /\ (r.last # NULL => r.last \in Trade)
  OBVIOUS
<1>2. r.last # NULL =>
        /\ Backwards(r.last, t[1]) <=> <<r.last, t[1]>> \in BackwardsPairs
        /\ Gap(r.last, t[1]) <=> <<r.last, t[1]>> \in GapPairs
        /\ Duplicate(r.last, t[1]) <=> <<r.last, t[1]>> \in DuplicatePairs
        /\ Benign(r.last, t[1]) <=> <<r.last, t[1]>> \in BenignPairs
        /\ Conflict(r.last, t[1]) <=> <<r.last, t[1]>> \in ConflictPairs
        /\ JumpAtEdge(r.last, t[1]) <=> <<r.last, t[1]>> \in JumpAtEdgePairs
  BY <1>1 DEF BackwardsPairs, GapPairs, DuplicatePairs, BenignPairs, ConflictPairs, JumpAtEdgePairs
<1>3. /\ Number(t, BackwardsPairs) = Cardinality(PairsWith(t, Backwards))
      /\ Number(t, GapPairs) = Cardinality(PairsWith(t, Gap))
      /\ Number(t, DuplicatePairs) = Cardinality(PairsWith(t, Duplicate))
      /\ Number(t, BenignPairs) = Cardinality(PairsWith(t, Benign))
      /\ Number(t, ConflictPairs) = Cardinality(PairsWith(t, Conflict))
      /\ Number(t, JumpPairs) = Cardinality(PairsWith(t, Jump))
  BY PairsAreIn DEF Number
<1>4. Update(r, t).n_nonmonotonic_time = r.n_nonmonotonic_time
              + (Cardinality(PairsWith(t, Backwards))
                 + (IF r.last # NULL /\ Backwards(r.last, t[1]) THEN 1 ELSE 0))
  BY DEF Update
<1>5. Update(r, t).n_trade_id_gaps = r.n_trade_id_gaps
              + (Cardinality(PairsWith(t, Gap))
                 + (IF r.last # NULL /\ Gap(r.last, t[1]) THEN 1 ELSE 0))
  BY DEF Update
<1>6. Update(r, t).n_duplicate_trade_ids = r.n_duplicate_trade_ids
              + (Cardinality(PairsWith(t, Duplicate))
                 + (IF r.last # NULL /\ Duplicate(r.last, t[1]) THEN 1 ELSE 0))
  BY DEF Update
<1>7. Update(r, t).n_duplicate_rows = r.n_duplicate_rows
              + (Cardinality(PairsWith(t, Benign))
                 + (IF r.last # NULL /\ Benign(r.last, t[1]) THEN 1 ELSE 0))
  BY DEF Update, PairsWith, Benign
<1>8. Update(r, t).n_conflicting = r.n_conflicting
              + (Cardinality(PairsWith(t, Conflict))
                 + (IF r.last # NULL /\ Conflict(r.last, t[1]) THEN 1 ELSE 0))
  BY DEF Update, PairsWith, Conflict
<1>9. Update(r, t).n_abnormal_price_jumps = r.n_abnormal_price_jumps
              + Cardinality(PairsWith(t, Jump))
              + (IF r.last # NULL /\ JumpAtEdge(r.last, t[1]) THEN 1 ELSE 0)
  BY DEF Update
<1>10. /\ Update(r, t).rows_seen = r.rows_seen + Len(t)
       /\ Update(r, t).n_price_or_qty_anomalies = r.n_price_or_qty_anomalies
              + Cardinality({i \in DOMAIN t : ~Valid(t[i])})
       /\ Update(r, t).total_missing_trade_ids = r.total_missing_trade_ids + MissingIn(t)
              + MissingAtEdge(r.last, t[1])
       /\ Update(r, t).min_trade_id = Min(Ids(t) \cup ({r.min_trade_id} \ {NULL}))
       /\ Update(r, t).max_trade_id = Max(Ids(t) \cup ({r.max_trade_id} \ {NULL}))
       /\ Update(r, t).last = t[Len(t)]
  BY DEF Update
<1>11. Update(r, t).n_nonmonotonic_time = r.n_nonmonotonic_time
              + (Number(t, BackwardsPairs) + EdgeIn(r.last, t, BackwardsPairs))
  BY <1>2, <1>3, <1>4 DEF EdgeIn
<1>12. Update(r, t).n_trade_id_gaps = r.n_trade_id_gaps
              + (Number(t, GapPairs) + EdgeIn(r.last, t, GapPairs))
  BY <1>2, <1>3, <1>5 DEF EdgeIn
<1>13. Update(r, t).n_duplicate_trade_ids = r.n_duplicate_trade_ids
              + (Number(t, DuplicatePairs) + EdgeIn(r.last, t, DuplicatePairs))
  BY <1>2, <1>3, <1>6 DEF EdgeIn
<1>14. Update(r, t).n_duplicate_rows = r.n_duplicate_rows
              + (Number(t, BenignPairs) + EdgeIn(r.last, t, BenignPairs))
  BY <1>2, <1>3, <1>7 DEF EdgeIn
<1>15. Update(r, t).n_conflicting = r.n_conflicting
              + (Number(t, ConflictPairs) + EdgeIn(r.last, t, ConflictPairs))
  BY <1>2, <1>3, <1>8 DEF EdgeIn
<1>16. Update(r, t).n_abnormal_price_jumps = r.n_abnormal_price_jumps
              + Number(t, JumpPairs) + EdgeIn(r.last, t, JumpAtEdgePairs)
  BY <1>2, <1>3, <1>9 DEF EdgeIn
<1> QED BY <1>10, <1>11, <1>12, <1>13, <1>14, <1>15, <1>16

\* Nothing read, nothing reported.
LEMMA ReportOfNone ==
  ASSUME NEW s, s = <<>>
  PROVE  IsReportOf(EmptyReport, s)
<1>1. s \in Seq(Trade) /\ Len(s) = 0
  OBVIOUS
<1>2. \A R : PairsIn(s, R) = {}
  BY <1>1 DEF PairsIn
<1>3. \A R : Number(s, R) = 0
  BY <1>2, FS_EmptySet DEF Number
<1>4. MissingIn(s) = 0
  <2>1. MissingIn(s) = SumFunctionOnSet(MissingOf(s), PairsIn(s, GapPairs))
    BY <1>1, MissingIs
  <2>2. PairsIn(s, GapPairs) = {}
    BY <1>2
  <2>3. SumFunctionOnSet(MissingOf(s), {}) = 0
    BY SumOfNone
  <2> QED BY <2>1, <2>2, <2>3
<1> QED BY <1>1, <1>3, <1>4 DEF IsReportOf, EmptyReport

\* The report of the rows s, updated with the chunk t, is that of s and t: it does
\* not matter where they were cut.
LEMMA ReportOfConcat ==
  ASSUME NEW s \in Seq(Trade), NEW t \in Seq(Trade), Len(t) # 0, NEW r, IsReportOf(r, s)
  PROVE  IsReportOf(Update(r, t), s \o t)
<1> DEFINE c == s \o t
           u == Update(r, t)
<1>1. c \in Seq(Trade) /\ Len(c) = Len(s) + Len(t) /\ Len(s) \in Nat /\ Len(t) \in Nat
  BY ConcatProperties
<1>2. Len(s) # 0 => s[Len(s)] \in Trade /\ s[Len(s)] # NULL
  BY <1>1, NullAssumption
<1>3. r.last = IF Len(s) = 0 THEN NULL ELSE s[Len(s)]
  BY DEF IsReportOf
<1>4. r.last \in Trade \cup {NULL}
  BY <1>2, <1>3
<1>5. \A R : Number(c, R) = Number(s, R) + Number(t, R) + EdgeIn(r.last, t, R)
  <2> SUFFICES ASSUME NEW R
               PROVE  Number(c, R) = Number(s, R) + Number(t, R) + EdgeIn(r.last, t, R)
    OBVIOUS
  <2>1. Number(c, R) = Number(s, R) + Number(t, R)
          + (IF Len(s) # 0 /\ <<s[Len(s)], t[1]>> \in R THEN 1 ELSE 0)
    BY NumberOfConcat
  <2>2. EdgeIn(r.last, t, R) = IF Len(s) # 0 /\ <<s[Len(s)], t[1]>> \in R THEN 1 ELSE 0
    BY <1>2, <1>3 DEF EdgeIn
  <2> QED BY <2>1, <2>2
<1>6. \A R : Number(s, R) \in Nat /\ Number(t, R) \in Nat /\ EdgeIn(r.last, t, R) \in 0 .. 1
  BY NumberIsNat DEF EdgeIn
<1>7. \A R : Number(c, R) = Number(s, R) + (Number(t, R) + EdgeIn(r.last, t, R))
  <2> SUFFICES ASSUME NEW R
               PROVE  Number(c, R) = Number(s, R) + (Number(t, R) + EdgeIn(r.last, t, R))
    OBVIOUS
  <2>1. PICK a \in Nat, b \in Nat, e \in 0 .. 1 :
          a = Number(s, R) /\ b = Number(t, R) /\ e = EdgeIn(r.last, t, R)
    BY <1>6
  <2>2. Number(c, R) = a + b + e
    BY <1>5, <2>1
  <2>3. a + b + e = a + (b + e)
    OBVIOUS
  <2> QED BY <2>1, <2>2, <2>3
<1>8. MissingIn(c) = MissingIn(s) + MissingIn(t) + MissingAtEdge(r.last, t[1])
  <2>1. MissingIn(c) = MissingIn(s) + MissingIn(t)
           + (IF Len(s) # 0 /\ Gap(s[Len(s)], t[1]) THEN t[1].id - s[Len(s)].id - 1 ELSE 0)
    BY MissingOfConcat
  <2>2. MissingAtEdge(r.last, t[1])
          = IF Len(s) # 0 /\ Gap(s[Len(s)], t[1]) THEN t[1].id - s[Len(s)].id - 1 ELSE 0
    BY <1>2, <1>3 DEF MissingAtEdge
  <2> QED BY <2>1, <2>2
<1>9. c[Len(c)] = t[Len(t)]
  <2>1. /\ Len(s) + Len(t) \in 1 .. Len(s) + Len(t) /\ ~(Len(s) + Len(t) <= Len(s))
        /\ (Len(s) + Len(t)) - Len(s) = Len(t)
    BY <1>1
  <2>2. c[Len(s) + Len(t)] = t[(Len(s) + Len(t)) - Len(s)]
    BY <2>1, ConcatProperties
  <2> QED BY <1>1, <2>1, <2>2
<1>10. /\ u.rows_seen = r.rows_seen + Len(t)
      /\ u.n_price_or_qty_anomalies = r.n_price_or_qty_anomalies
           + Cardinality({i \in DOMAIN t : ~Valid(t[i])})
      /\ u.n_nonmonotonic_time = r.n_nonmonotonic_time
           + (Number(t, BackwardsPairs) + EdgeIn(r.last, t, BackwardsPairs))
      /\ u.n_trade_id_gaps = r.n_trade_id_gaps
           + (Number(t, GapPairs) + EdgeIn(r.last, t, GapPairs))
      /\ u.total_missing_trade_ids = r.total_missing_trade_ids + MissingIn(t)
           + MissingAtEdge(r.last, t[1])
      /\ u.n_duplicate_trade_ids = r.n_duplicate_trade_ids
           + (Number(t, DuplicatePairs) + EdgeIn(r.last, t, DuplicatePairs))
      /\ u.n_duplicate_rows = r.n_duplicate_rows
           + (Number(t, BenignPairs) + EdgeIn(r.last, t, BenignPairs))
      /\ u.n_conflicting = r.n_conflicting
           + (Number(t, ConflictPairs) + EdgeIn(r.last, t, ConflictPairs))
      /\ u.n_abnormal_price_jumps = r.n_abnormal_price_jumps
           + Number(t, JumpPairs) + EdgeIn(r.last, t, JumpAtEdgePairs)
      /\ u.min_trade_id = Min(Ids(t) \cup ({r.min_trade_id} \ {NULL}))
      /\ u.max_trade_id = Max(Ids(t) \cup ({r.max_trade_id} \ {NULL}))
      /\ u.last = t[Len(t)]
  BY <1>4, UpdateIs
<1>11. u.min_trade_id = Min(Ids(c)) /\ u.max_trade_id = Max(Ids(c))
  <2>1. /\ r.min_trade_id = IF Len(s) = 0 THEN NULL ELSE Min(Ids(s))
        /\ r.max_trade_id = IF Len(s) = 0 THEN NULL ELSE Max(Ids(s))
    BY DEF IsReportOf
  <2> QED BY <1>10, <2>1, RangeOfConcat
<1>12. u.n_price_or_qty_anomalies \in Nat
  <2>1. IsFiniteSet(1 .. Len(t))
    BY <1>1, FS_Interval
  <2>2. {i \in DOMAIN t : ~Valid(t[i])} \subseteq 1 .. Len(t)
    OBVIOUS
  <2>3. Cardinality({i \in DOMAIN t : ~Valid(t[i])}) \in Nat
    BY <2>1, <2>2, FS_Subset, FS_CardinalityType
  <2> QED BY <1>10, <2>3 DEF IsReportOf
<1> HIDE DEF c, u
<1>13. u.rows_seen = Len(c)
  BY <1>1, <1>10 DEF IsReportOf
<1>14. u.n_nonmonotonic_time = Number(c, BackwardsPairs)
  BY <1>7, <1>10 DEF IsReportOf
<1>15. u.n_trade_id_gaps = Number(c, GapPairs)
  BY <1>7, <1>10 DEF IsReportOf
<1>16. u.total_missing_trade_ids = MissingIn(c)
  BY <1>8, <1>10 DEF IsReportOf
<1>17. u.n_duplicate_trade_ids = Number(c, DuplicatePairs)
  BY <1>7, <1>10 DEF IsReportOf
<1>18. u.n_duplicate_rows = Number(c, BenignPairs)
  BY <1>7, <1>10 DEF IsReportOf
<1>19. u.n_conflicting = Number(c, ConflictPairs)
  BY <1>7, <1>10 DEF IsReportOf
<1>20. u.n_abnormal_price_jumps \in Number(c, JumpAtEdgePairs) .. Number(c, JumpPairs)
  <2>1. r.n_abnormal_price_jumps \in Number(s, JumpAtEdgePairs) .. Number(s, JumpPairs)
    BY DEF IsReportOf
  <2>2. /\ Number(c, JumpPairs)
             = Number(s, JumpPairs) + Number(t, JumpPairs) + EdgeIn(r.last, t, JumpPairs)
        /\ Number(c, JumpAtEdgePairs) = Number(s, JumpAtEdgePairs)
             + Number(t, JumpAtEdgePairs) + EdgeIn(r.last, t, JumpAtEdgePairs)
    BY <1>5
  <2>3. JumpAtEdgePairs \subseteq JumpPairs
    BY DEF JumpAtEdgePairs, JumpPairs, JumpAtEdge
  <2>4. EdgeIn(r.last, t, JumpAtEdgePairs) <= EdgeIn(r.last, t, JumpPairs)
    BY <2>3 DEF EdgeIn
  <2>5. Number(t, JumpAtEdgePairs) <= Number(t, JumpPairs)
    <3>1. PairsIn(t, JumpAtEdgePairs) \subseteq PairsIn(t, JumpPairs)
      BY <2>3 DEF PairsIn
    <3>2. IsFiniteSet(PairsIn(t, JumpPairs))
      BY NumberIsNat
    <3> QED BY <3>1, <3>2, FS_Subset DEF Number
  <2>6. /\ Number(s, JumpPairs) \in Nat /\ Number(t, JumpPairs) \in Nat
        /\ EdgeIn(r.last, t, JumpPairs) \in 0 .. 1
        /\ Number(s, JumpAtEdgePairs) \in Nat /\ Number(t, JumpAtEdgePairs) \in Nat
        /\ EdgeIn(r.last, t, JumpAtEdgePairs) \in 0 .. 1
    BY <1>6
  <2> QED BY <1>10, <2>1, <2>2, <2>4, <2>5, <2>6
<1>21. Len(c) # 0
  BY <1>1
<1>22. IsReportOf(u, c)
  BY <1>9, <1>10, <1>11, <1>12, <1>13, <1>14, <1>15, <1>16, <1>17, <1>18, <1>19, <1>20, <1>21
     DEF IsReportOf
<1> QED BY <1>22 DEF c, u

----------------------------------------------------------------------------
(* The inductive invariant *)

\* The rows read so far, as they are checked and written.
Rows == FinalizeChunk(Prefix)

IInv ==
  /\ source \in Seq(Trades) /\ Len(source) \in 1 .. MaxRows
  /\ chunk_rows \in ChunkSizes
  /\ read \in 0 .. Len(source)
  /\ IsReportOf(report, Rows)
  /\ file = FilterValidRows(Rows)
  /\ phase \in {"reading", "committed", "verified", "failed"}
  /\ phase # "reading" => read = Len(source)
  /\ VerificationExact

LEMMA RowsAre ==
  ASSUME source \in Seq(Trades), read \in 0 .. Len(source)
  PROVE  /\ Prefix \in Seq(Trades) /\ Len(Prefix) = read
         /\ Rows \in Seq(Trade) /\ Len(Rows) = read
         /\ \A i \in 1 .. read : Prefix[i] = source[i] /\ Rows[i] = Normalized(Prefix[i])
         /\ read = Len(source) => Prefix = source /\ Rows = FinalizeChunk(source)
<1>1. Prefix \in Seq(Trades) /\ Len(Prefix) = read /\ \A i \in 1 .. read : Prefix[i] = source[i]
  <2>1. \A i \in 1 .. read : source[i] \in Trades
    OBVIOUS
  <2> QED BY <2>1 DEF Prefix
<1>2. Rows \in Seq(Trade) /\ Len(Rows) = read /\ \A i \in 1 .. read : Rows[i] = Normalized(Prefix[i])
  BY <1>1, FinalizeIs DEF Rows
<1>3. read = Len(source) => Prefix = source
  BY SubSeqFull DEF Prefix
<1> QED BY <1>1, <1>2, <1>3 DEF Rows

LEMMA InitHolds == Init => IInv
<1> SUFFICES ASSUME Init PROVE IInv
  OBVIOUS
<1>1. MaxRows \in Nat
  BY BoundsAssumption
<1>2. source \in Seq(Trades) /\ Len(source) \in 1 .. MaxRows
  <2>1. PICK n \in 1 .. MaxRows : source \in [1 .. n -> Trades]
    BY DEF Init
  <2>2. source \in Seq(Trades) /\ Len(source) = n
    BY <1>1, <2>1
  <2> QED BY <2>2
<1>3. read = 0 /\ read \in 0 .. Len(source)
  BY <1>2 DEF Init
<1>4. Rows \in Seq(Trade) /\ Len(Rows) = 0
  BY <1>2, <1>3, RowsAre
<1>5. Rows = <<>>
  BY <1>4
<1>6. IsReportOf(report, Rows)
  BY <1>5, ReportOfNone DEF Init
<1>7. file = FilterValidRows(Rows)
  <2>1. FilterValidRows(Rows) = Rows
    BY <1>5, FilterOfNone
  <2> QED BY <1>5, <2>1 DEF Init
<1> QED BY <1>2, <1>3, <1>6, <1>7 DEF IInv, Init, VerificationExact

\* The next rows are not empty, and join on to those before.
LEMMA ChunkStep ==
  ASSUME IInv, ReadChunk
  PROVE  IInv'
<1> DEFINE end == Min({read + chunk_rows, Len(source)})
           chunk == FinalizeChunk(SubSeq(source, read + 1, end))
<1>1. /\ source \in Seq(Trades) /\ Len(source) \in 1 .. MaxRows /\ Len(source) \in Nat
      /\ chunk_rows \in Nat \ {0} /\ read \in 0 .. Len(source) /\ read < Len(source)
  BY BoundsAssumption DEF IInv, ReadChunk
<1>2. end \in read + 1 .. Len(source)
  <2>0. read + chunk_rows \in Int /\ Len(source) \in Int
    BY <1>1
  <2>1. PICK S : S = {read + chunk_rows, Len(source)} /\ S \subseteq Int
    BY <2>0
  <2>2. CASE read + chunk_rows <= Len(source)
    <3>1. read + chunk_rows \in S /\ \A y \in S : read + chunk_rows <= y
      BY <1>1, <2>1, <2>2
    <3>2. end = read + chunk_rows
      BY <2>1, <3>1, MinIs
    <3> QED BY <1>1, <2>2, <3>2
  <2>3. CASE Len(source) <= read + chunk_rows
    <3>1. Len(source) \in S /\ \A y \in S : Len(source) <= y
      BY <1>1, <2>1, <2>3
    <3>2. end = Len(source)
      BY <2>1, <3>1, MinIs
    <3> QED BY <1>1, <3>2
  <2> QED BY <1>1, <2>2, <2>3
<1>3. /\ report' = Update(report, chunk) /\ file' = file \o FilterValidRows(chunk)
      /\ read' = end /\ source' = source /\ chunk_rows' = chunk_rows /\ phase' = "reading"
  BY DEF ReadChunk
<1> HIDE DEF end
<1>4. Prefix \in Seq(Trades) /\ Rows \in Seq(Trade)
  BY <1>1, RowsAre
<1>5. /\ SubSeq(source, read + 1, end) \in Seq(Trades)
      /\ Len(SubSeq(source, read + 1, end)) # 0
  <2>1. \A i \in read + 1 .. end : source[i] \in Trades
    BY <1>1, <1>2
  <2>2. read + 1 \in Int /\ end \in Int /\ read + 1 <= end
    BY <1>1, <1>2
  <2>3. /\ SubSeq(source, read + 1, end) \in Seq(Trades)
        /\ Len(SubSeq(source, read + 1, end)) = end - (read + 1) + 1
    BY <2>1, <2>2, SubSeqProperties
  <2> QED BY <2>2, <2>3
<1>6. chunk \in Seq(Trade) /\ Len(chunk) # 0
  BY <1>5, FinalizeIs
<1>7. Rows' = Rows \o chunk
  <2>1. SubSeq(source, 1, read) \o SubSeq(source, read + 1, end) = SubSeq(source, 1, end)
    <3>1. 1 \in 1 .. Len(source) + 1 /\ read \in 1 - 1 .. Len(source) /\ end \in read .. Len(source)
      BY <1>1, <1>2
    <3> QED BY <1>1, <3>1, ConcatAdjacentSubSeq
  <2>2. Prefix' = Prefix \o SubSeq(source, read + 1, end)
    BY <1>3, <2>1 DEF Prefix
  <2>3. FinalizeChunk(Prefix \o SubSeq(source, read + 1, end)) = Rows \o chunk
    BY <1>4, <1>5, FinalizeOfConcat DEF Rows
  <2>4. Rows' = FinalizeChunk(Prefix')
    BY DEF Rows
  <2> QED BY <2>2, <2>3, <2>4
<1> HIDE DEF chunk
<1>8. IsReportOf(report', Rows \o chunk)
  BY <1>3, <1>4, <1>6, ReportOfConcat DEF IInv
<1>9. IsReportOf(report, Rows)'
  BY <1>7, <1>8 DEF IsReportOf
<1>10. file' = FilterValidRows(Rows')
  <2>1. FilterValidRows(Rows \o chunk) = FilterValidRows(Rows) \o FilterValidRows(chunk)
    BY <1>4, <1>6, FilterOfConcat
  <2> QED BY <1>3, <1>7, <2>1 DEF IInv
<1>11. read' \in 0 .. Len(source)
  BY <1>1, <1>2, <1>3
<1>12. (file = FilterValidRows(Rows))'
  BY <1>10
<1>13. VerificationExact'
  BY <1>3 DEF VerificationExact
<1> QED BY <1>1, <1>3, <1>9, <1>11, <1>12, <1>13 DEF IInv

LEMMA CommitStep ==
  ASSUME IInv, Commit
  PROVE  IInv'
<1>1. Prefix' = Prefix /\ Rows' = Rows
  BY DEF Commit, Prefix, Rows
<1>2. phase' = "committed" /\ read = Len(source)
  BY DEF Commit
<1> QED BY <1>1, <1>2 DEF IInv, Commit, VerificationExact, IsReportOf

\* The range that verification asks for is that of the report.  Only a file of as
\* many rows as were read can have passed, and that is one of all of them.
LEMMA VerifyStep ==
  ASSUME IInv, Verify
  PROVE  IInv'
<1> DEFINE all == FinalizeChunk(source)
           first == IF file = <<>> THEN NULL ELSE file[1].id
           last == IF file = <<>> THEN NULL ELSE file[Len(file)].id
           Accepted == /\ Len(file) = report.rows_seen
                       /\ first = report.min_trade_id
                       /\ last = report.max_trade_id
           Exact == /\ file = all
                    /\ source[1].id = Min(Ids(source))
                    /\ source[Len(source)].id = Max(Ids(source))
<1>1. /\ source \in Seq(Trades) /\ Len(source) \in Nat \ {0} /\ read = Len(source)
      /\ read \in 0 .. Len(source)
  BY DEF IInv, Verify
<1>2. Prefix = source /\ Rows = all /\ all \in Seq(Trade) /\ Len(all) = Len(source)
  BY <1>1, RowsAre
<1>3. \A i \in 1 .. Len(source) : all[i].id = source[i].id /\ source[i] \in Trades
  BY FinalizeIs, NormalizedIs, <1>1
<1>4. Ids(all) = Ids(source)
  BY <1>1, <1>2, <1>3 DEF Ids
<1>5. /\ report.rows_seen = Len(all) /\ report.min_trade_id = Min(Ids(all))
      /\ report.max_trade_id = Max(Ids(all)) /\ file = FilterValidRows(all)
  BY <1>1, <1>2 DEF IInv, IsReportOf
<1>6. file \in Seq(Trade) /\ (Len(file) = Len(all) => file = all)
  BY <1>2, <1>5, FilterKeepsRows
<1>7. phase' = IF Accepted THEN "verified" ELSE "failed"
  BY DEF Verify
<1>8. Accepted <=> Exact
  <2>1. CASE file = all
    <3>1. Len(file) = Len(source) /\ file # <<>>
      BY <1>1, <1>2, <2>1
    <3>2. 1 \in 1 .. Len(source) /\ Len(source) \in 1 .. Len(source)
      BY <1>1
    <3>3. all[1].id = source[1].id /\ all[Len(source)].id = source[Len(source)].id
      BY <1>3, <3>2
    <3>4. first = source[1].id /\ last = source[Len(source)].id
      BY <2>1, <3>1, <3>3
    <3> HIDE DEF all, first, last
    <3> QED BY <1>2, <1>4, <1>5, <2>1, <3>1, <3>4
  <2>2. CASE file # all
    <3>1. ~Accepted
      BY <1>5, <1>6, <2>2
    <3> QED BY <2>2, <3>1
  <2> QED BY <2>1, <2>2
<1> HIDE DEF Accepted
<1>9. /\ UNCHANGED <<source, chunk_rows, read, report, file>>
      /\ Rows' = Rows
  BY DEF Verify, Rows, Prefix
<1>10. VerificationExact'
  BY <1>7, <1>8, <1>9 DEF VerificationExact
<1>11. phase' \in {"verified", "failed"}
  BY <1>7
<1> QED BY <1>1, <1>9, <1>10, <1>11 DEF IInv, IsReportOf

LEMMA NextHolds == IInv /\ [Next]_vars => IInv'
<1> SUFFICES ASSUME IInv, [Next]_vars PROVE IInv'
  OBVIOUS
<1>1. CASE ReadChunk
  BY <1>1, ChunkStep
<1>2. CASE Commit
  BY <1>2, CommitStep
<1>3. CASE Verify
  BY <1>3, VerifyStep
<1>4. CASE UNCHANGED vars
  <2>1. Rows' = Rows
    BY <1>4 DEF vars, Rows, Prefix
  <2> QED BY <1>4, <2>1 DEF vars, IInv, IsReportOf, VerificationExact
<1> QED BY <1>1, <1>2, <1>3, <1>4 DEF Next

\* The report is that of all rows read so far, the file holds those of them that
\* are valid, and verification is exact: of every reachable state.
THEOREM Inductive == Spec => []IInv
BY InitHolds, NextHolds, PTL DEF Spec

----------------------------------------------------------------------------
(* The properties of the run *)

LEMMA CounterIsNat ==
  ASSUME NEW s \in Seq(Trade), NEW r, IsReportOf(r, s)
  PROVE  \A c \in Counters : r[c] \in Nat
<1>1. Counters = {"rows_seen", "n_price_or_qty_anomalies", "n_nonmonotonic_time",
                  "n_trade_id_gaps", "total_missing_trade_ids", "n_duplicate_trade_ids",
                  "n_duplicate_rows", "n_conflicting", "n_abnormal_price_jumps"}
  BY DEF Counters, EmptyReport
<1>2. /\ Len(s) \in Nat /\ MissingIn(s) \in Nat
      /\ \A R : Number(s, R) \in Nat
  BY MissingIs, NumberIsNat
<1>3. r.n_abnormal_price_jumps \in Nat
  <2>1. r.n_abnormal_price_jumps \in Number(s, JumpAtEdgePairs) .. Number(s, JumpPairs)
    BY DEF IsReportOf
  <2> QED BY <1>2, <2>1
<1>4. /\ r.rows_seen \in Nat /\ r.n_price_or_qty_anomalies \in Nat
      /\ r.n_nonmonotonic_time \in Nat /\ r.n_trade_id_gaps \in Nat
      /\ r.total_missing_trade_ids \in Nat /\ r.n_duplicate_trade_ids \in Nat
      /\ r.n_duplicate_rows \in Nat /\ r.n_conflicting \in Nat
  BY <1>2 DEF IsReportOf
<1> QED BY <1>1, <1>3, <1>4

LEMMA TypeHolds ==
  ASSUME IInv
  PROVE  TypeOK
<1>1. /\ source \in Seq(Trades) /\ read \in 0 .. Len(source) /\ Len(source) \in 1 .. MaxRows
      /\ MaxRows \in Nat /\ IsReportOf(report, Rows)
  BY BoundsAssumption DEF IInv
<1>2. Rows \in Seq(Trade) /\ Len(Rows) = read
  BY <1>1, RowsAre
<1>3. \A c \in Counters : report[c] \in Nat
  BY <1>1, <1>2, CounterIsNat
<1>4. file \in Seq(Trade) /\ Len(file) <= read
  BY <1>2, FilterKeepsRows DEF IInv
<1>5. /\ report.min_trade_id \in Int \cup {NULL} /\ report.max_trade_id \in Int \cup {NULL}
      /\ report.last \in Trade \cup {NULL}
  <2>1. /\ report.min_trade_id = IF Len(Rows) = 0 THEN NULL ELSE Min(Ids(Rows))
        /\ report.max_trade_id = IF Len(Rows) = 0 THEN NULL ELSE Max(Ids(Rows))
        /\ report.last = IF Len(Rows) = 0 THEN NULL ELSE Rows[Len(Rows)]
    BY <1>1 DEF IsReportOf
  <2>2. Len(Rows) # 0 => Rows[Len(Rows)] \in Trade
    BY <1>1, <1>2
  <2>3. Ids(Rows) \subseteq Int /\ IsFiniteSet(Ids(Rows)) /\ (Len(Rows) # 0 => Ids(Rows) # {})
    BY <1>2, IdsAre
  <2>4. Len(Rows) # 0 => Min(Ids(Rows)) \in Int /\ Max(Ids(Rows)) \in Int
    BY <2>3, MinIsSmallest, MaxIsLargest
  <2> QED BY <2>1, <2>2, <2>4
<1>6. Len(source) <= MaxRows
  BY <1>1
<1> QED BY <1>1, <1>3, <1>4, <1>5, <1>6 DEF IInv, TypeOK

\* Every counter is a number at any time, the id range one of integers, and the
\* file never has more rows than were read (ValidationReport.update, write_chunk).
THEOREM TypesAreKept == Spec => []TypeOK
BY Inductive, TypeHolds, PTL

Earlier(a, b) == Instant(b) < Instant(a)

\* The pairs of the prefix, by instants, are those of the normalized rows.
LEMMA PrefixPairs ==
  ASSUME source \in Seq(Trades), read \in 0 .. Len(source)
  PROVE  /\ PairsWith(Prefix, Earlier) = PairsWith(Rows, Backwards)
         /\ PairsWith(Prefix, Gap) = PairsWith(Rows, Gap)
         /\ PairsWith(Prefix, Duplicate) = PairsWith(Rows, Duplicate)
         /\ PairsWith(Prefix, Benign) = PairsWith(Rows, Benign)
         /\ PairsWith(Prefix, Jump) = PairsWith(Rows, Jump)
         /\ PairsWith(Prefix, JumpAtEdge) = PairsWith(Rows, JumpAtEdge)
<1>1. /\ Prefix \in Seq(Trades) /\ Len(Prefix) = read /\ Len(Rows) = read /\ read \in Nat
      /\ \A i \in 1 .. read : Rows[i] = Normalized(Prefix[i])
  BY RowsAre
<1>2. ASSUME NEW i \in 1 .. read - 1
      PROVE  /\ Instant(Prefix[i + 1]) < Instant(Prefix[i]) <=> Backwards(Rows[i], Rows[i + 1])
             /\ Gap(Prefix[i], Prefix[i + 1]) <=> Gap(Rows[i], Rows[i + 1])
             /\ Duplicate(Prefix[i], Prefix[i + 1]) <=> Duplicate(Rows[i], Rows[i + 1])
             /\ SameContent(Prefix[i], Prefix[i + 1]) <=> SameContent(Rows[i], Rows[i + 1])
             /\ Jump(Prefix[i], Prefix[i + 1]) <=> Jump(Rows[i], Rows[i + 1])
             /\ Positive(Prefix[i].price) <=> Positive(Rows[i].price)
  <2>1. i \in 1 .. read /\ i + 1 \in 1 .. read
    BY <1>1
  <2>2. PICK a \in Trades, b \in Trades : a = Prefix[i] /\ b = Prefix[i + 1]
    BY <1>1, <2>1
  <2>3. Rows[i] = Normalized(a) /\ Rows[i + 1] = Normalized(b)
    BY <1>1, <2>1, <2>2
  <2>4. Instant(b) < Instant(a) <=> Backwards(Normalized(a), Normalized(b))
    BY NormalizedKeepsOrder DEF Backwards
  <2>5. /\ Normalized(a).id = a.id /\ Normalized(a).price = a.price
        /\ Normalized(a).qty = a.qty /\ Normalized(a).maker = a.maker
        /\ Normalized(b).id = b.id /\ Normalized(b).price = b.price
        /\ Normalized(b).qty = b.qty /\ Normalized(b).maker = b.maker
    BY NormalizedIs
  <2>6. /\ Gap(a, b) <=> Gap(Normalized(a), Normalized(b))
        /\ Duplicate(a, b) <=> Duplicate(Normalized(a), Normalized(b))
        /\ SameContent(a, b) <=> SameContent(Normalized(a), Normalized(b))
        /\ Jump(a, b) <=> Jump(Normalized(a), Normalized(b))
        /\ Positive(a.price) <=> Positive(Normalized(a).price)
    BY <2>5 DEF Gap, Duplicate, SameContent, Jump
  <2> QED BY <2>2, <2>3, <2>4, <2>6
<1>3. PairsWith(Prefix, Earlier) = PairsWith(Rows, Backwards)
  BY <1>1, <1>2 DEF PairsWith, Earlier
<1>4. PairsWith(Prefix, Gap) = PairsWith(Rows, Gap)
  BY <1>1, <1>2 DEF PairsWith
<1>5. PairsWith(Prefix, Duplicate) = PairsWith(Rows, Duplicate)
  BY <1>1, <1>2 DEF PairsWith
<1>6. PairsWith(Prefix, Benign) = PairsWith(Rows, Benign)
  BY <1>1, <1>2 DEF PairsWith, Benign
<1>7. PairsWith(Prefix, Jump) = PairsWith(Rows, Jump)
  BY <1>1, <1>2 DEF PairsWith
<1>8. PairsWith(Prefix, JumpAtEdge) = PairsWith(Rows, JumpAtEdge)
  BY <1>1, <1>2 DEF PairsWith, JumpAtEdge
<1> QED BY <1>3, <1>4, <1>5, <1>6, <1>7, <1>8

LEMMA ReportHolds ==
  ASSUME IInv
  PROVE  ReportIsOfPrefix
<1>1. source \in Seq(Trades) /\ read \in 0 .. Len(source) /\ IsReportOf(report, Rows)
  BY DEF IInv
<1>2. Prefix \in Seq(Trades) /\ Rows \in Seq(Trade) /\ Len(Prefix) = read /\ Len(Rows) = read
  BY <1>1, RowsAre
<1>3. /\ PairsWith(Prefix, Earlier) = PairsWith(Rows, Backwards)
      /\ PairsWith(Prefix, Gap) = PairsWith(Rows, Gap)
      /\ PairsWith(Prefix, Duplicate) = PairsWith(Rows, Duplicate)
      /\ PairsWith(Prefix, Benign) = PairsWith(Rows, Benign)
  BY <1>1, PrefixPairs
<1>4. /\ Cardinality(PairsWith(Prefix, Earlier)) = Number(Rows, BackwardsPairs)
      /\ Cardinality(PairsWith(Prefix, Gap)) = Number(Rows, GapPairs)
      /\ Cardinality(PairsWith(Prefix, Duplicate)) = Number(Rows, DuplicatePairs)
      /\ Cardinality(PairsWith(Prefix, Benign)) = Number(Rows, BenignPairs)
  BY <1>2, <1>3, PairsAreIn DEF Number
<1>5. MissingIn(Prefix) = MissingIn(Rows)
  <2> DEFINE f == [i \in PairsWith(Prefix, Gap) |-> Prefix[i + 1].id - Prefix[i].id - 1]
             g == [i \in PairsWith(Rows, Gap) |-> Rows[i + 1].id - Rows[i].id - 1]
  <2>1. \A i \in PairsWith(Rows, Gap) :
          Prefix[i + 1].id = Rows[i + 1].id /\ Prefix[i].id = Rows[i].id
    <3> SUFFICES ASSUME NEW i \in PairsWith(Rows, Gap)
                 PROVE  Prefix[i + 1].id = Rows[i + 1].id /\ Prefix[i].id = Rows[i].id
      OBVIOUS
    <3>1. i \in 1 .. read /\ i + 1 \in 1 .. read
      BY <1>1, <1>2 DEF PairsWith
    <3>2. \A j \in 1 .. read : Prefix[j] \in Trades /\ Rows[j] = Normalized(Prefix[j])
      BY <1>1, <1>2, RowsAre
    <3> QED BY <3>1, <3>2, NormalizedIs
  <2>2. f = g
    BY <1>3, <2>1
  <2> QED BY <2>2 DEF MissingIn
<1>6. Number(Rows, DuplicatePairs) = Number(Rows, BenignPairs) + Number(Rows, ConflictPairs)
  <2> DEFINE B == PairsIn(Rows, BenignPairs)
             C == PairsIn(Rows, ConflictPairs)
  <2>1. PairsIn(Rows, DuplicatePairs) = B \cup C /\ B \cap C = {}
    BY DEF PairsIn, DuplicatePairs, BenignPairs, ConflictPairs, Benign, Conflict
  <2>2. IsFiniteSet(B) /\ IsFiniteSet(C) /\ Cardinality(B) \in Nat /\ Cardinality(C) \in Nat
    BY <1>2, NumberIsNat DEF Number
  <2> HIDE DEF B, C
  <2>3. Cardinality(B \cup C) = Cardinality(B) + Cardinality(C) - Cardinality({})
    BY <2>1, <2>2, FS_Union
  <2>4. Cardinality(B \cup C) = Cardinality(B) + Cardinality(C)
    BY <2>2, <2>3, FS_EmptySet
  <2> QED BY <2>1, <2>4 DEF Number, B, C
<1>7. \A R : Number(Rows, R) \in Nat
  BY <1>2, NumberIsNat
<1>8. report.n_conflicting = report.n_duplicate_trade_ids - report.n_duplicate_rows
  <2>1. PICK a \in Nat, b \in Nat : a = Number(Rows, BenignPairs) /\ b = Number(Rows, ConflictPairs)
    BY <1>7
  <2>2. report.n_duplicate_trade_ids = a + b /\ report.n_duplicate_rows = a /\ report.n_conflicting = b
    BY <1>1, <1>6, <2>1 DEF IsReportOf
  <2> QED BY <2>2
<1>9. /\ report.n_nonmonotonic_time = Cardinality(PairsWith(Prefix, Earlier))
      /\ report.n_trade_id_gaps = Cardinality(PairsWith(Prefix, Gap))
      /\ report.total_missing_trade_ids = MissingIn(Prefix)
      /\ report.n_duplicate_trade_ids = Cardinality(PairsWith(Prefix, Duplicate))
      /\ report.n_duplicate_rows = Cardinality(PairsWith(Prefix, Benign))
  BY <1>1, <1>4, <1>5 DEF IsReportOf
<1> QED BY <1>8, <1>9 DEF ReportIsOfPrefix, PairsWith, Earlier, Benign

\* Wherever the chunk loop of process_one_month cuts the archive, ValidationReport
\* counts what one pass over all rows read so far would have counted, and the split
\* of duplicate ids by subtraction is the split by content.
THEOREM CutDoesNotMatter == Spec => []ReportIsOfPrefix
BY Inductive, ReportHolds, PTL

LEMMA JumpsHold ==
  ASSUME IInv
  PROVE  JumpsBetween
<1>1. source \in Seq(Trades) /\ read \in 0 .. Len(source) /\ IsReportOf(report, Rows)
  BY DEF IInv
<1>2. Rows \in Seq(Trade)
  BY <1>1, RowsAre
<1>3. PairsWith(Prefix, Jump) = PairsWith(Rows, Jump) /\ PairsWith(Prefix, JumpAtEdge) = PairsWith(Rows, JumpAtEdge)
  BY <1>1, PrefixPairs
<1>4. /\ Cardinality(PairsWith(Prefix, Jump)) = Number(Rows, JumpPairs)
      /\ Cardinality(PairsWith(Prefix, JumpAtEdge)) = Number(Rows, JumpAtEdgePairs)
  BY <1>2, <1>3, PairsAreIn DEF Number
<1>5. Number(Rows, JumpPairs) \in Nat /\ Number(Rows, JumpAtEdgePairs) \in Nat
  BY <1>2, NumberIsNat
<1>6. report.n_abnormal_price_jumps \in Number(Rows, JumpAtEdgePairs) .. Number(Rows, JumpPairs)
  BY <1>1 DEF IsReportOf
<1>7. /\ report.n_abnormal_price_jumps <= Cardinality(PairsWith(Prefix, Jump))
      /\ report.n_abnormal_price_jumps >= Cardinality(PairsWith(Prefix, JumpAtEdge))
  BY <1>4, <1>5, <1>6
<1> QED BY <1>7 DEF JumpsBetween, PairsWith, JumpAtEdge

\* The number of price jumps may depend on the cut, and only by the jumps after a
\* price that is not positive (update asks for last_price > 0 at a boundary).
THEOREM CutMovesFewJumps == Spec => []JumpsBetween
BY Inductive, JumpsHold, PTL

LEMMA TimesHold ==
  ASSUME IInv
  PROVE  TimesAreKept
<1> DEFINE kept == FilterValidRows(Prefix)
<1>1. /\ Prefix \in Seq(Trades) /\ Rows = FinalizeChunk(Prefix) /\ file = FilterValidRows(Rows)
  BY RowsAre DEF IInv, Rows
<1>2. kept \in Seq(Trades)
  BY <1>1, FilterKeepsRows
<1>3. file = FinalizeChunk(kept)
  BY <1>1, FilterOfFinalized
<1> HIDE DEF kept
<1>4. /\ file \in Seq(Trade) /\ Len(file) = Len(kept)
      /\ \A i \in 1 .. Len(kept) : kept[i] \in Trades /\ file[i] = Normalized(kept[i])
  BY <1>2, <1>3, FinalizeIs
<1>5. DOMAIN file = 1 .. Len(kept)
  BY <1>4
<1>6. ASSUME NEW i \in 1 .. Len(kept)
      PROVE  file[i].time \div NsPerSecond = Instant(kept[i]) \div NsPerSecond
  <2>1. PICK a \in Trades : a = kept[i] /\ file[i] = Normalized(a)
    BY <1>4
  <2>2. PICK n \in Nat : Instant(a) = n * NsPerUs
    BY NormalizedIs
  <2>3. file[i].time = Float(n * NsPerUs)
    BY <2>1, <2>2, NormalizedIs
  <2> QED BY <2>1, <2>2, <2>3, FloatKeepsSecond
<1>7. ASSUME NEW i \in 1 .. Len(kept), NEW j \in 1 .. Len(kept)
      PROVE  file[i].time < file[j].time <=> Instant(kept[i]) < Instant(kept[j])
  BY <1>4, NormalizedKeepsOrder
<1> QED BY <1>4, <1>5, <1>6, <1>7 DEF TimesAreKept, kept

\* normalize_timestamps takes nanoseconds through float64, which cannot hold them:
\* every trade stays in its second, any two keep their order, and those of one
\* instant stay together, if floating-point numbers are less than a microsecond
\* apart and divide the second.
THEOREM TradesStayInOrder == Spec => []TimesAreKept
BY Inductive, TimesHold, PTL

\* verify_committed_month accepts a month exactly if the file is the whole archive
\* and its first and last ids are the smallest and the largest.
THEOREM AcceptedIsComplete == Spec => []VerificationExact
<1>1. IInv => VerificationExact
  BY DEF IInv
<1> QED BY <1>1, Inductive, PTL
=============================================================================
