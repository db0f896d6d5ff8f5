--------------------------- MODULE Arithmetic_proofs ---------------------------
(***************************************************************************)
(* Facts that more than one module's proofs need: sums, minima and maxima  *)
(* over finite sets, and division.  The sum of the community module        *)
(* Functions takes the elements of a set out in the order of a choice; it  *)
(* is shown not to depend on it, and how the sums over sets that are put   *)
(* together, moved, or cut into parts are related.                         *)
(***************************************************************************)
EXTENDS Integers, FiniteSetsExt, FiniteSetTheorems, TLAPS

----------------------------------------------------------------------------
(* Induction over finite sets *)

\* A family of sets that has a set whenever it has all smaller ones has it.
LEMMA FiniteSetDescent ==
  ASSUME NEW S, IsFiniteSet(S), NEW F,
         \A T \in SUBSET S : (\A U \in SUBSET T : U # T => U \in F) => T \in F
  PROVE  S \in F
<1> DEFINE D == {T \in SUBSET S : T \notin F}
           R == StrictSubsetOrdering(S)
<1> SUFFICES ASSUME D # {} PROVE FALSE
  OBVIOUS
<1>1. IsWellFoundedOn(R, SUBSET S)
  <2>1. IsWellFoundedOn(StrictSubsetOrdering(S), FiniteSubsetsOf(S))
    BY FS_StrictSubsetOrderingWellFounded
  <2>2. FiniteSubsetsOf(S) = SUBSET S
    BY FS_FiniteSubsetsOfFinite
  <2> QED BY <2>1, <2>2
<1>2. PICK T \in D : \A U \in D : ~(<<U, T>> \in R)
  <2> HIDE DEF R
  <2>1. D \subseteq SUBSET S
    OBVIOUS
  <2> HIDE DEF D
  <2> QED BY <1>1, <2>1, WFMin
<1>3. ASSUME NEW U \in SUBSET T, U # T PROVE U \in F
  <2>1. U \in SUBSET S /\ <<U, T>> \in R
    BY <1>2, <1>3 DEF StrictSubsetOrdering
  <2> QED BY <1>2, <2>1
<1> QED BY <1>2, <1>3

\* A family that has the empty set and, with a set, that set with one more
\* element, has it.
LEMMA FiniteSetInduction ==
  ASSUME NEW S, IsFiniteSet(S), NEW F,
         {} \in F,
         \A T \in SUBSET S, x \in S : T \in F /\ x \notin T => T \cup {x} \in F
  PROVE  S \in F
<1>1. ASSUME NEW T \in SUBSET S, \A U \in SUBSET T : U # T => U \in F PROVE T \in F
  <2>1. CASE T = {}
    BY <2>1
  <2>2. CASE T # {}
    <3>1. PICK x \in T : TRUE
      BY <2>2
    <3>2. T \ {x} \in SUBSET T /\ T \ {x} # T /\ T \ {x} \in SUBSET S /\ x \in S
      OBVIOUS
    <3>3. (T \ {x}) \cup {x} = T /\ x \notin T \ {x}
      OBVIOUS
    <3> QED BY <1>1, <3>2, <3>3
  <2> QED BY <2>1, <2>2
<1> QED BY <1>1, FiniteSetDescent

----------------------------------------------------------------------------
(* The recursive function behind the sum *)

Pick(s) == CHOOSE x \in s : TRUE

Iterates(f, w, S) ==
  f = [s \in SUBSET S |-> IF s = {} THEN 0 ELSE w[Pick(s)] + f[s \ {Pick(s)}]]

LEMMA SumIsIterated ==
  ASSUME NEW w, NEW S
  PROVE  SumFunctionOnSet(w, S) = (CHOOSE f : Iterates(f, w, S))[S]
BY DEF SumFunctionOnSet, FoldFunctionOnSet, MapThenFoldSet, Iterates, Pick

LEMMA IteratesStep ==
  ASSUME NEW w, NEW S, NEW f, Iterates(f, w, S), NEW s \in SUBSET S
  PROVE  f[s] = IF s = {} THEN 0 ELSE w[Pick(s)] + f[s \ {Pick(s)}]
<1> DEFINE g == [t \in SUBSET S |-> IF t = {} THEN 0 ELSE w[Pick(t)] + f[t \ {Pick(t)}]]
<1>1. f = g
  BY DEF Iterates
<1>2. g[s] = IF s = {} THEN 0 ELSE w[Pick(s)] + f[s \ {Pick(s)}]
  OBVIOUS
<1> QED BY <1>1, <1>2

LEMMA PickIsIn ==
  ASSUME NEW s, s # {}
  PROVE  Pick(s) \in s
BY DEF Pick

\* Two such functions agree where both are defined.
LEMMA IteratesUnique ==
  ASSUME NEW w, NEW S, NEW T, NEW f, NEW g, Iterates(f, w, S), Iterates(g, w, T),
         NEW U, IsFiniteSet(U), U \subseteq S, U \subseteq T
  PROVE  f[U] = g[U]
<1>f. \A s \in SUBSET S : f[s] = IF s = {} THEN 0 ELSE w[Pick(s)] + f[s \ {Pick(s)}]
  BY IteratesStep
<1>g. \A s \in SUBSET T : g[s] = IF s = {} THEN 0 ELSE w[Pick(s)] + g[s \ {Pick(s)}]
  BY IteratesStep
<1> DEFINE F == {s \in SUBSET U : f[s] = g[s]}
<1>1. ASSUME NEW s \in SUBSET U, \A t \in SUBSET s : t # s => t \in F PROVE s \in F
  <2>1. s \in SUBSET S /\ s \in SUBSET T
    OBVIOUS
  <2>2. CASE s = {}
    BY <2>1, <2>2, IteratesStep
  <2>3. CASE s # {}
    <3>1. s \ {Pick(s)} \in F
      BY <1>1, <2>3, PickIsIn
    <3>2. /\ f[s] = w[Pick(s)] + f[s \ {Pick(s)}]
          /\ g[s] = w[Pick(s)] + g[s \ {Pick(s)}]
      BY <1>f, <1>g, <2>1, <2>3
    <3> QED BY <3>1, <3>2
  <2> QED BY <2>2, <2>3
<1> HIDE DEF F
<1>2. U \in F
  BY <1>1, FiniteSetDescent
<1> QED BY <1>2 DEF F

LEMMA IteratesExists ==
  ASSUME NEW w, NEW S, IsFiniteSet(S)
  PROVE  \E f : Iterates(f, w, S)
<1> DEFINE F == {T \in SUBSET S : \E f : Iterates(f, w, T)}
           G(T) == CHOOSE f : Iterates(f, w, T)
<1>1. ASSUME NEW T \in SUBSET S, \A U \in SUBSET T : U # T => U \in F PROVE T \in F
  <2> DEFINE Value(s) == IF s = {} THEN 0
                         ELSE w[Pick(s)] + G(s \ {Pick(s)})[s \ {Pick(s)}]
             h == [s \in SUBSET T |-> Value(s)]
  <2>1. ASSUME NEW U \in SUBSET T, U # T PROVE Iterates(G(U), w, U)
    BY <1>1, <2>1
  <2> HIDE DEF G
  <2>2. ASSUME NEW s \in SUBSET T, s # T PROVE h[s] = G(s)[s]
    <3>1. Iterates(G(s), w, s)
      BY <2>1, <2>2
    <3>2. CASE s = {}
      BY <3>1, <3>2, IteratesStep
    <3>3. CASE s # {}
      <4> DEFINE t == s \ {Pick(s)}
      <4>1. G(s)[s] = w[Pick(s)] + G(s)[t]
        BY <3>1, <3>3, IteratesStep
      <4>2. t \in SUBSET T /\ t # T /\ t \subseteq s
        BY <3>3, PickIsIn
      <4>3. Iterates(G(t), w, t) /\ IsFiniteSet(t)
        BY <2>1, <4>2, FS_Subset
      <4>4. G(s)[t] = G(t)[t]
        BY <3>1, <4>2, <4>3, IteratesUnique
      <4> QED BY <3>3, <4>1, <4>4
    <3> QED BY <3>2, <3>3
  <2>3. ASSUME NEW s \in SUBSET T, s # {}
        PROVE  Value(s) = w[Pick(s)] + h[s \ {Pick(s)}]
    BY <2>2, <2>3, PickIsIn
  <2>4. ASSUME NEW s \in SUBSET T
        PROVE  Value(s) = IF s = {} THEN 0 ELSE w[Pick(s)] + h[s \ {Pick(s)}]
    BY <2>3
  <2> HIDE DEF Value
  <2>5. h = [s \in SUBSET T |-> IF s = {} THEN 0 ELSE w[Pick(s)] + h[s \ {Pick(s)}]]
    BY <2>4
  <2> HIDE DEF h
  <2> QED BY <2>5 DEF Iterates
<1> HIDE DEF F
<1>2. S \in F
  BY <1>1, FiniteSetDescent
<1> QED BY <1>2 DEF F

----------------------------------------------------------------------------
(* The sum *)

LEMMA SumUnfolds ==
  ASSUME NEW w, NEW S, IsFiniteSet(S)
  PROVE  SumFunctionOnSet(w, S) =
           IF S = {} THEN 0 ELSE w[Pick(S)] + SumFunctionOnSet(w, S \ {Pick(S)})
<1> DEFINE G(T) == CHOOSE f : Iterates(f, w, T)
           U == S \ {Pick(S)}
<1>1. IsFiniteSet(U) /\ U \subseteq S
  BY FS_Subset
<1>2. Iterates(G(S), w, S) /\ Iterates(G(U), w, U)
  BY <1>1, IteratesExists
<1>3. SumFunctionOnSet(w, S) = G(S)[S] /\ SumFunctionOnSet(w, U) = G(U)[U]
  BY SumIsIterated
<1> HIDE DEF G
<1>4. G(S)[U] = G(U)[U]
  BY <1>1, <1>2, IteratesUnique
<1> QED BY <1>2, <1>3, <1>4, IteratesStep

LEMMA SumOfNone ==
  ASSUME NEW w
  PROVE  SumFunctionOnSet(w, {}) = 0
BY SumUnfolds, FS_EmptySet

LEMMA SumIsInt ==
  ASSUME NEW w, NEW S, IsFiniteSet(S), \A x \in S : w[x] \in Int
  PROVE  SumFunctionOnSet(w, S) \in Int
<1> DEFINE F == {T \in SUBSET S : SumFunctionOnSet(w, T) \in Int}
<1>1. ASSUME NEW T \in SUBSET S, \A U \in SUBSET T : U # T => U \in F PROVE T \in F
  <2>1. CASE T = {}
    BY <2>1, SumOfNone
  <2>2. CASE T # {}
    <3>1. Pick(T) \in T /\ w[Pick(T)] \in Int /\ IsFiniteSet(T)
      BY <2>2, PickIsIn, FS_Subset
    <3>2. T \ {Pick(T)} \in F
      BY <1>1, <3>1
    <3> QED BY <2>2, <3>1, <3>2, SumUnfolds
  <2> QED BY <2>1, <2>2
<1> HIDE DEF F
<1>2. S \in F
  BY <1>1, FiniteSetDescent
<1> QED BY <1>2 DEF F

\* Any element can be taken out first.
LEMMA SumTakeOut ==
  ASSUME NEW w, NEW S, IsFiniteSet(S), \A x \in S : w[x] \in Int, NEW y \in S
  PROVE  SumFunctionOnSet(w, S) = w[y] + SumFunctionOnSet(w, S \ {y})
<1> DEFINE F == {T \in SUBSET S : \A x \in T :
                   SumFunctionOnSet(w, T) = w[x] + SumFunctionOnSet(w, T \ {x})}
<1>1. ASSUME NEW T \in SUBSET S, \A U \in SUBSET T : U # T => U \in F PROVE T \in F
  <2> SUFFICES ASSUME NEW x \in T
               PROVE  SumFunctionOnSet(w, T) = w[x] + SumFunctionOnSet(w, T \ {x})
    OBVIOUS
  <2> DEFINE p == Pick(T)
  <2>1. /\ p \in T /\ IsFiniteSet(T) /\ IsFiniteSet(T \ {p}) /\ IsFiniteSet(T \ {x})
        /\ IsFiniteSet((T \ {x}) \ {p})
    BY PickIsIn, FS_Subset
  <2>2. SumFunctionOnSet(w, T) = w[p] + SumFunctionOnSet(w, T \ {p})
    BY <2>1, SumUnfolds
  <2>3. CASE x = p
    BY <2>2, <2>3
  <2>4. CASE x # p
    <3>1. T \ {p} \in F /\ T \ {x} \in F
      BY <1>1, <2>1
    <3>2. SumFunctionOnSet(w, T \ {p}) = w[x] + SumFunctionOnSet(w, (T \ {p}) \ {x})
      BY <2>4, <3>1
    <3>3. SumFunctionOnSet(w, T \ {x}) = w[p] + SumFunctionOnSet(w, (T \ {x}) \ {p})
      BY <2>1, <2>4, <3>1
    <3>4. (T \ {p}) \ {x} = (T \ {x}) \ {p}
      OBVIOUS
    <3>5. SumFunctionOnSet(w, (T \ {x}) \ {p}) \in Int /\ w[x] \in Int /\ w[p] \in Int
      BY <2>1, SumIsInt
    <3>6. PICK a \in Int : a = SumFunctionOnSet(w, (T \ {x}) \ {p})
      BY <3>5
    <3>7. SumFunctionOnSet(w, T \ {p}) = w[x] + a
      BY <3>2, <3>4, <3>6
    <3>8. SumFunctionOnSet(w, T \ {x}) = w[p] + a
      BY <3>3, <3>6
    <3> HIDE DEF p
    <3> QED BY <2>2, <3>5, <3>7, <3>8
  <2> QED BY <2>3, <2>4
<1> HIDE DEF F
<1>2. S \in F
  BY <1>1, FiniteSetDescent
<1> QED BY <1>2 DEF F

LEMMA SumPutIn ==
  ASSUME NEW w, NEW S, IsFiniteSet(S), \A x \in S : w[x] \in Int,
         NEW y, y \notin S, w[y] \in Int
  PROVE  SumFunctionOnSet(w, S \cup {y}) = SumFunctionOnSet(w, S) + w[y]
<1>1. IsFiniteSet(S \cup {y}) /\ (S \cup {y}) \ {y} = S
  BY FS_AddElement
<1>2. SumFunctionOnSet(w, S) \in Int
  BY SumIsInt
<1> QED BY <1>1, <1>2, SumTakeOut

\* Only the values on the set matter.
LEMMA SumDependsOnValues ==
  ASSUME NEW v, NEW w, NEW S, IsFiniteSet(S), \A x \in S : v[x] \in Int /\ v[x] = w[x]
  PROVE  SumFunctionOnSet(v, S) = SumFunctionOnSet(w, S)
<1> DEFINE F == {T \in SUBSET S : SumFunctionOnSet(v, T) = SumFunctionOnSet(w, T)}
<1>1. {} \in F
  BY SumOfNone
<1>2. ASSUME NEW T \in SUBSET S, NEW x \in S, T \in F, x \notin T PROVE T \cup {x} \in F
  BY <1>2, SumPutIn, FS_Subset
<1> HIDE DEF F
<1>3. S \in F
  BY <1>1, <1>2, FiniteSetInduction
<1> QED BY <1>3 DEF F

LEMMA SumIsNat ==
  ASSUME NEW w, NEW S, IsFiniteSet(S), \A x \in S : w[x] \in Nat
  PROVE  SumFunctionOnSet(w, S) \in Nat
<1> DEFINE F == {T \in SUBSET S : SumFunctionOnSet(w, T) \in Nat}
<1>1. {} \in F
  BY SumOfNone
<1>2. ASSUME NEW T \in SUBSET S, NEW x \in S, T \in F, x \notin T PROVE T \cup {x} \in F
  BY <1>2, SumPutIn, FS_Subset
<1> HIDE DEF F
<1>3. S \in F
  BY <1>1, <1>2, FiniteSetInduction
<1> QED BY <1>3 DEF F

\* Two sets that have nothing in common.
LEMMA SumOfUnion ==
  ASSUME NEW w, NEW S, IsFiniteSet(S), NEW T, IsFiniteSet(T), S \cap T = {},
         \A x \in S \cup T : w[x] \in Int
  PROVE  SumFunctionOnSet(w, S \cup T) = SumFunctionOnSet(w, S) + SumFunctionOnSet(w, T)
<1> DEFINE F == {U \in SUBSET T : SumFunctionOnSet(w, S \cup U)
                                   = SumFunctionOnSet(w, S) + SumFunctionOnSet(w, U)}
<1>1. {} \in F
  BY SumOfNone, SumIsInt
<1>2. ASSUME NEW U \in SUBSET T, NEW x \in T, U \in F, x \notin U PROVE U \cup {x} \in F
  <2>1. IsFiniteSet(U) /\ IsFiniteSet(S \cup U) /\ x \notin S \cup U
    BY <1>2, FS_Subset, FS_Union
  <2>2. SumFunctionOnSet(w, (S \cup U) \cup {x}) = SumFunctionOnSet(w, S \cup U) + w[x]
    BY <2>1, SumPutIn
  <2>3. SumFunctionOnSet(w, U \cup {x}) = SumFunctionOnSet(w, U) + w[x]
    BY <1>2, <2>1, SumPutIn
  <2>4. (S \cup U) \cup {x} = S \cup (U \cup {x})
    OBVIOUS
  <2>5. SumFunctionOnSet(w, S) \in Int /\ SumFunctionOnSet(w, U) \in Int /\ w[x] \in Int
    BY <2>1, SumIsInt
  <2>6. SumFunctionOnSet(w, S \cup U) = SumFunctionOnSet(w, S) + SumFunctionOnSet(w, U)
    BY <1>2
  <2>7. SumFunctionOnSet(w, S \cup (U \cup {x}))
          = SumFunctionOnSet(w, S) + SumFunctionOnSet(w, U \cup {x})
    <3>1. PICK a \in Int : a = SumFunctionOnSet(w, S)
      BY <2>5
    <3>2. PICK b \in Int : b = SumFunctionOnSet(w, U)
      BY <2>5
    <3>3. PICK c \in Int : c = w[x]
      BY <2>5
    <3>4. SumFunctionOnSet(w, S \cup (U \cup {x})) = (a + b) + c
      BY <2>2, <2>4, <2>6, <3>1, <3>2, <3>3
    <3>5. SumFunctionOnSet(w, U \cup {x}) = b + c
      BY <2>3, <3>2, <3>3
    <3> QED BY <3>1, <3>4, <3>5
  <2> QED BY <2>7
<1> HIDE DEF F
<1>3. T \in F
  BY <1>1, <1>2, FiniteSetInduction
<1> QED BY <1>3 DEF F

\* A set that is moved, one to one, with its values.
LEMMA SumOfImage ==
  ASSUME NEW S, IsFiniteSet(S), NEW m, NEW v, NEW w,
         \A x, y \in S : m[x] = m[y] => x = y,
         \A x \in S : v[x] \in Int /\ w[m[x]] = v[x],
         NEW T, \A x \in S : m[x] \in T, \A y \in T : \E x \in S : y = m[x]
  PROVE  SumFunctionOnSet(w, T) = SumFunctionOnSet(v, S)
<1> DEFINE F == {U \in SUBSET S :
                   /\ IsFiniteSet({m[x] : x \in U})
                   /\ SumFunctionOnSet(w, {m[x] : x \in U}) = SumFunctionOnSet(v, U)}
<1>1. {} \in F
  BY SumOfNone, FS_EmptySet
<1>2. ASSUME NEW U \in SUBSET S, NEW y \in S, U \in F, y \notin U PROVE U \cup {y} \in F
  <2>1. {m[x] : x \in U \cup {y}} = {m[x] : x \in U} \cup {m[y]}
    OBVIOUS
  <2>2. m[y] \notin {m[x] : x \in U} /\ \A z \in {m[x] : x \in U} : w[z] \in Int
    BY <1>2
  <2>3. SumFunctionOnSet(v, U \cup {y}) = SumFunctionOnSet(v, U) + v[y]
    BY <1>2, SumPutIn, FS_Subset
  <2>4. SumFunctionOnSet(w, {m[x] : x \in U} \cup {m[y]})
          = SumFunctionOnSet(w, {m[x] : x \in U}) + w[m[y]]
    <3>1. PICK X : X = {m[x] : x \in U}
      OBVIOUS
    <3>2. IsFiniteSet(X) /\ m[y] \notin X /\ (\A z \in X : w[z] \in Int) /\ w[m[y]] \in Int
      BY <1>2, <2>2, <3>1
    <3>3. SumFunctionOnSet(w, X \cup {m[y]}) = SumFunctionOnSet(w, X) + w[m[y]]
      BY <3>2, SumPutIn
    <3> QED BY <3>1, <3>3
  <2>5. IsFiniteSet({m[x] : x \in U} \cup {m[y]})
    BY <1>2, FS_AddElement
  <2> QED BY <1>2, <2>1, <2>3, <2>4, <2>5
<1> HIDE DEF F
<1>3. S \in F
  BY <1>1, <1>2, FiniteSetInduction
<1>4. T = {m[x] : x \in S}
  OBVIOUS
<1> QED BY <1>3, <1>4 DEF F

\* A set that is cut into parts: the sum is that of the sums of the parts.
LEMMA SumOfParts ==
  ASSUME NEW S, IsFiniteSet(S), NEW K, IsFiniteSet(K), NEW P,
         \A k \in K : P[k] \subseteq S,
         \A x \in S : \E k \in K : x \in P[k],
         \A j, k \in K : j # k => P[j] \cap P[k] = {},
         NEW w, \A x \in S : w[x] \in Int,
         NEW p, \A k \in K : p[k] = SumFunctionOnSet(w, P[k])
  PROVE  SumFunctionOnSet(w, S) = SumFunctionOnSet(p, K)
<1> DEFINE Part(L) == {x \in S : \E k \in L : x \in P[k]}
           F == {L \in SUBSET K : SumFunctionOnSet(w, Part(L)) = SumFunctionOnSet(p, L)}
<1>1. {} \in F
  <2>1. Part({}) = {}
    OBVIOUS
  <2> QED BY <2>1, SumOfNone
<1>2. ASSUME NEW k \in K PROVE p[k] \in Int
  <2>1. IsFiniteSet(P[k])
    BY FS_Subset
  <2>2. \A x \in P[k] : w[x] \in Int
    OBVIOUS
  <2> QED BY <2>1, <2>2, SumIsInt
<1>3. ASSUME NEW L \in SUBSET K, NEW k \in K, L \in F, k \notin L PROVE L \cup {k} \in F
  <2>1. Part(L \cup {k}) = Part(L) \cup P[k]
    OBVIOUS
  <2>2. Part(L) \cap P[k] = {}
    BY <1>3
  <2>3. IsFiniteSet(Part(L)) /\ IsFiniteSet(P[k]) /\ IsFiniteSet(L)
    BY FS_Subset
  <2>4. \A x \in Part(L) \cup P[k] : w[x] \in Int
    OBVIOUS
  <2> HIDE DEF Part
  <2>5. SumFunctionOnSet(w, Part(L) \cup P[k]) = SumFunctionOnSet(w, Part(L)) + p[k]
    BY <2>2, <2>3, <2>4, SumOfUnion
  <2>6. SumFunctionOnSet(p, L \cup {k}) = SumFunctionOnSet(p, L) + p[k]
    BY <1>2, <1>3, <2>3, SumPutIn
  <2> QED BY <1>3, <2>1, <2>5, <2>6
<1>4. Part(K) = S
  OBVIOUS
<1> HIDE DEF F
<1>5. K \in F
  BY <1>1, <1>3, FiniteSetInduction
<1> QED BY <1>4, <1>5 DEF F

----------------------------------------------------------------------------
(* Sums and other functions of the set *)

LEMMA ImageIsFinite ==
  ASSUME NEW S, IsFiniteSet(S), NEW f
  PROVE  IsFiniteSet({f[x] : x \in S})
<1> DEFINE T == {f[x] : x \in S}
           g == [x \in S |-> f[x]]
<1>1. g \in Surjection(S, T)
  BY DEF Surjection
<1> QED BY <1>1, FS_Surjection

LEMMA SumOfDifference ==
  ASSUME NEW S, IsFiniteSet(S), NEW u, NEW v, NEW w,
         \A x \in S : u[x] \in Int /\ v[x] \in Int /\ w[x] = u[x] - v[x]
  PROVE  SumFunctionOnSet(w, S) = SumFunctionOnSet(u, S) - SumFunctionOnSet(v, S)
<1> DEFINE F == {T \in SUBSET S : SumFunctionOnSet(w, T)
                                   = SumFunctionOnSet(u, T) - SumFunctionOnSet(v, T)}
<1>1. {} \in F
  BY SumOfNone
<1>2. ASSUME NEW T \in SUBSET S, NEW x \in S, T \in F, x \notin T PROVE T \cup {x} \in F
  <2>1. IsFiniteSet(T) /\ \A y \in T : u[y] \in Int /\ v[y] \in Int /\ w[y] \in Int
    BY FS_Subset
  <2>2. PICK a \in Int, b \in Int :
          a = SumFunctionOnSet(u, T) /\ b = SumFunctionOnSet(v, T)
    BY <2>1, SumIsInt
  <2>3. SumFunctionOnSet(w, T) = a - b
    BY <1>2, <2>2
  <2>4. u[x] \in Int /\ v[x] \in Int /\ w[x] = u[x] - v[x] /\ w[x] \in Int
    OBVIOUS
  <2>5. /\ SumFunctionOnSet(w, T \cup {x}) = (a - b) + w[x]
        /\ SumFunctionOnSet(u, T \cup {x}) = a + u[x]
        /\ SumFunctionOnSet(v, T \cup {x}) = b + v[x]
    BY <1>2, <2>1, <2>2, <2>3, <2>4, SumPutIn
  <2>6. SumFunctionOnSet(w, T \cup {x})
          = SumFunctionOnSet(u, T \cup {x}) - SumFunctionOnSet(v, T \cup {x})
    BY <2>4, <2>5
  <2> QED BY <2>6
<1> HIDE DEF F
<1>3. S \in F
  BY <1>1, <1>2, FiniteSetInduction
<1> QED BY <1>3 DEF F

LEMMA CardinalityIsSum ==
  ASSUME NEW S, IsFiniteSet(S), NEW w, \A x \in S : w[x] = 1
  PROVE  SumFunctionOnSet(w, S) = Cardinality(S)
<1> DEFINE F == {T \in SUBSET S : SumFunctionOnSet(w, T) = Cardinality(T)}
<1>1. {} \in F
  BY SumOfNone, FS_EmptySet
<1>2. ASSUME NEW T \in SUBSET S, NEW x \in S, T \in F, x \notin T PROVE T \cup {x} \in F
  <2>1. IsFiniteSet(T) /\ \A y \in T : w[y] \in Int
    BY FS_Subset
  <2>2. SumFunctionOnSet(w, T \cup {x}) = Cardinality(T) + 1
    BY <1>2, <2>1, SumPutIn
  <2>3. Cardinality(T \cup {x}) = Cardinality(T) + 1
    BY <1>2, <2>1, FS_AddElement
  <2> QED BY <2>2, <2>3
<1> HIDE DEF F
<1>3. S \in F
  BY <1>1, <1>2, FiniteSetInduction
<1> QED BY <1>3 DEF F

\* A sum of what is not negative grows with the set.
LEMMA SumOfSubset ==
  ASSUME NEW S, IsFiniteSet(S), NEW T \in SUBSET S, NEW w, \A x \in S : w[x] \in Nat
  PROVE  SumFunctionOnSet(w, T) <= SumFunctionOnSet(w, S)
<1>1. IsFiniteSet(T) /\ IsFiniteSet(S \ T) /\ T \cap (S \ T) = {} /\ T \cup (S \ T) = S
  BY FS_Subset
<1>2. PICK a \in Nat, b \in Nat :
        a = SumFunctionOnSet(w, T) /\ b = SumFunctionOnSet(w, S \ T)
  BY <1>1, SumIsNat
<1>3. SumFunctionOnSet(w, T \cup (S \ T)) = a + b
  BY <1>1, <1>2, SumOfUnion
<1>4. SumFunctionOnSet(w, S) = a + b
  BY <1>1, <1>3
<1> QED BY <1>2, <1>4

----------------------------------------------------------------------------
(* Minima and maxima *)

LEMMA MaxIsLargest ==
  ASSUME NEW S, IsFiniteSet(S), S # {}, S \subseteq Int
  PROVE  Max(S) \in S /\ \A y \in S : y <= Max(S)
<1> DEFINE F == {T \in SUBSET S : T = {} \/ \E x \in T : \A y \in T : y <= x}
<1>1. {} \in F
  OBVIOUS
<1>2. ASSUME NEW T \in SUBSET S, NEW x \in S, T \in F, x \notin T PROVE T \cup {x} \in F
  <2>1. CASE T = {}
    BY <2>1
  <2>2. CASE T # {}
    <3>1. PICK z \in T : \A y \in T : y <= z
      BY <1>2, <2>2
    <3>2. CASE x <= z
      BY <3>1, <3>2
    <3>3. CASE ~(x <= z)
      <4>1. \A y \in T \cup {x} : y <= x
        BY <3>1, <3>3
      <4> QED BY <4>1
    <3> QED BY <3>2, <3>3
  <2> QED BY <2>1, <2>2
<1> HIDE DEF F
<1>3. S \in F
  BY <1>1, <1>2, FiniteSetInduction
<1>4. \E x \in S : \A y \in S : x >= y
  BY <1>3 DEF F
<1> QED BY <1>4 DEF Max

LEMMA MinIsSmallest ==
  ASSUME NEW S, IsFiniteSet(S), S # {}, S \subseteq Int
  PROVE  Min(S) \in S /\ \A y \in S : Min(S) <= y
<1> DEFINE F == {T \in SUBSET S : T = {} \/ \E x \in T : \A y \in T : x <= y}
<1>1. {} \in F
  OBVIOUS
<1>2. ASSUME NEW T \in SUBSET S, NEW x \in S, T \in F, x \notin T PROVE T \cup {x} \in F
  <2>1. CASE T = {}
    BY <2>1
  <2>2. CASE T # {}
    <3>1. PICK z \in T : \A y \in T : z <= y
      BY <1>2, <2>2
    <3>2. CASE z <= x
      BY <3>1, <3>2
    <3>3. CASE ~(z <= x)
      <4>1. \A y \in T \cup {x} : x <= y
        BY <3>1, <3>3
      <4> QED BY <4>1
    <3> QED BY <3>2, <3>3
  <2> QED BY <2>1, <2>2
<1> HIDE DEF F
<1>3. S \in F
  BY <1>1, <1>2, FiniteSetInduction
<1>4. \E x \in S : \A y \in S : x <= y
  BY <1>3 DEF F
<1> QED BY <1>4 DEF Min

\* A bound that is reached is the maximum, or the minimum.
LEMMA MaxIs ==
  ASSUME NEW S, S \subseteq Int, NEW x \in S, \A y \in S : y <= x
  PROVE  Max(S) = x
<1>1. \E z \in S : \A y \in S : z >= y
  OBVIOUS
<1>2. Max(S) \in S /\ \A y \in S : Max(S) >= y
  BY <1>1 DEF Max
<1>3. PICK m \in Int : m = Max(S)
  BY <1>2
<1>4. x \in Int /\ m <= x /\ x <= m
  BY <1>2, <1>3
<1> QED BY <1>3, <1>4

LEMMA MinIs ==
  ASSUME NEW S, S \subseteq Int, NEW x \in S, \A y \in S : x <= y
  PROVE  Min(S) = x
<1>1. \E z \in S : \A y \in S : z <= y
  OBVIOUS
<1>2. Min(S) \in S /\ \A y \in S : Min(S) <= y
  BY <1>1 DEF Min
<1>3. PICK m \in Int : m = Min(S)
  BY <1>2
<1>4. x \in Int /\ m <= x /\ x <= m
  BY <1>2, <1>3
<1> QED BY <1>3, <1>4

----------------------------------------------------------------------------
(* Division *)

LEMMA DivisionIs ==
  ASSUME NEW a \in Nat, NEW b \in Nat \ {0}
  PROVE  /\ a \div b \in Nat
         /\ (a \div b) * b \in Nat /\ (a \div b) * b <= a /\ a < (a \div b) * b + b
OBVIOUS

LEMMA DivisionIsUnique ==
  ASSUME NEW a \in Nat, NEW b \in Nat \ {0}, NEW q \in Nat, q * b <= a, a < q * b + b
  PROVE  a \div b = q
<1> DEFINE p == a \div b
<1>1. p \in Nat /\ p * b <= a /\ a < p * b + b
  BY DivisionIs
<1> HIDE DEF p
<1>2. ASSUME p < q PROVE FALSE
  <2>1. p * b + b <= q * b
    BY <1>1, <1>2
  <2> QED BY <1>1, <2>1
<1>3. ASSUME q < p PROVE FALSE
  <2>1. q * b + b <= p * b
    BY <1>1, <1>3
  <2> QED BY <1>1, <2>1
<1> QED BY <1>1, <1>2, <1>3 DEF p

\* Multiples of b that are ordered are b apart.
LEMMA MultiplesApart ==
  ASSUME NEW p \in Nat, NEW q \in Nat, NEW b \in Nat \ {0}
  PROVE  p < q <=> p * b + b <= q * b
<1>1. p < q => p * b + b <= q * b
  OBVIOUS
<1>2. q <= p => q * b <= p * b
  OBVIOUS
<1> QED BY <1>1, <1>2

\* A division by a multiple of b does not see what a division by b leaves.
LEMMA DivisionOfMultiple ==
  ASSUME NEW a \in Nat, NEW b \in Nat \ {0}, NEW c \in Nat \ {0}, c % b = 0
  PROVE  ((a \div b) * b) \div c = a \div c
<1>1. PICK n \in Nat \ {0} : c = n * b
  <2>1. c = b * (c \div b) + (c % b) /\ c \div b \in Nat
    OBVIOUS
  <2>2. c = (c \div b) * b
    BY <2>1
  <2>3. c \div b # 0
    BY <2>2
  <2> QED BY <2>1, <2>2, <2>3
<1> DEFINE p == a \div b
           q == a \div c
<1>2. p \in Nat /\ p * b <= a /\ a < p * b + b /\ p * b \in Nat
  BY DivisionIs
<1>3. q \in Nat /\ q * c <= a /\ a < q * c + c
  BY DivisionIs
<1> HIDE DEF p, q
<1>4. q * c = (q * n) * b /\ q * c + c = ((q + 1) * n) * b /\ q * n \in Nat /\ (q + 1) * n \in Nat
  BY <1>1, <1>3
<1>5. q * c <= p * b
  <2>1. ~(p < q * n)
    <3>1. p < q * n => p * b + b <= (q * n) * b
      BY <1>2, <1>4, MultiplesApart
    <3> QED BY <1>2, <1>3, <1>4, <3>1
  <2>2. (q * n) * b <= p * b
    BY <1>2, <1>4, <2>1
  <2> QED BY <1>4, <2>2
<1>6. p * b < q * c + c
  BY <1>2, <1>3
<1>7. (p * b) \div c = q
  BY <1>2, <1>3, <1>5, <1>6, DivisionIsUnique
<1> QED BY <1>7 DEF p, q

----------------------------------------------------------------------------
(* Induction over numbers *)

LEMMA UpInduction ==
  ASSUME NEW n \in Nat, NEW S, 0 \in S, \A i \in 0 .. n - 1 : i \in S => i + 1 \in S
  PROVE  n \in S
<1> DEFINE X == {i \in 0 .. n : i \notin S}
<1> SUFFICES ASSUME n \notin S PROVE FALSE
  OBVIOUS
<1>1. IsFiniteSet(X)
  <2>1. IsFiniteSet(0 .. n)
    BY FS_Interval
  <2> QED BY <2>1, FS_Subset
<1>2. X # {} /\ X \subseteq Int
  OBVIOUS
<1>3. PICK m \in X : \A i \in X : m <= i
  BY <1>1, <1>2, MinIsSmallest
<1>4. m \in 0 .. n /\ m # 0
  OBVIOUS
<1>5. m - 1 \in 0 .. n - 1 /\ m - 1 \notin X
  BY <1>3, <1>4
<1>6. m - 1 \in S
  BY <1>5
<1>7. m \in S
  BY <1>4, <1>5, <1>6
<1> QED BY <1>7
=============================================================================
