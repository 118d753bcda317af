------------------------ MODULE InvestorReportProofs ------------------------
(***************************************************************************)
(* Proofs about the shares of investors, for any finite number of them,    *)
(* any agreements the form accepts, any profits, days and changes.         *)
(*                                                                         *)
(* The report is a fold over the days of sums over investors. Both are     *)
(* reached by the same induction: strict inclusion of the subsets of a     *)
(* finite set is well founded, so a set of subsets that holds {} and is    *)
(* closed under one element more is all of them (SubsetInduction), and the *)
(* like for numbers. From it the library's sum gets the laws it is to have *)
(* (SumRules), and Books its values (BooksUnfold).                         *)
(*                                                                         *)
(* The report is a function of the records, so what it promises follows    *)
(* from their types in each state of them. That it reconciles needs more:  *)
(* the equity that is stored and what was booked since are what a rebuild  *)
(* would find (IInv).                                                      *)
(***************************************************************************)
EXTENDS InvestorReport, FiniteSetTheorems, TLAPS

(* Induction over the subsets of a finite set: none of them is a smallest  *)
(* one outside G.                                                          *)
LEMMA SubsetDescent ==
  ASSUME NEW S, IsFiniteSet(S), NEW G,
         {} \in G,
         \A T \in SUBSET S : T # {} /\ (\A x \in T : T \ {x} \in G) => T \in G
  PROVE  SUBSET S \subseteq G
<1> DEFINE Bad == {T \in SUBSET S : T \notin G}
<1>1. SUFFICES ASSUME Bad # {} PROVE FALSE
  OBVIOUS
<1>2. IsWellFoundedOn(StrictSubsetOrdering(S), SUBSET S)
  BY FS_StrictSubsetOrderingWellFounded, FS_FiniteSubsetsOfFinite
<1>3. PICK T \in Bad : \A U \in Bad : ~(<<U, T>> \in StrictSubsetOrdering(S))
  <2>1. Bad \subseteq SUBSET S
    OBVIOUS
  <2> HIDE DEF Bad
  <2> QED BY <1>1, <1>2, <2>1, WFMin
<1>4. ASSUME NEW x \in T PROVE T \ {x} \in G
  <2>1. T \ {x} \in SUBSET S /\ <<T \ {x}, T>> \in StrictSubsetOrdering(S)
    BY <1>3, <1>4 DEF StrictSubsetOrdering
  <2> QED BY <1>3, <2>1
<1> QED BY <1>3, <1>4

(* The same from below: a set that holds {}, and with a subset of S each   *)
(* that has one element more, holds them all.                              *)
LEMMA SubsetInduction ==
  ASSUME NEW S, IsFiniteSet(S), NEW G,
         {} \in G,
         \A T \in SUBSET S : \A x \in S \ T : T \in G => T \cup {x} \in G
  PROVE  SUBSET S \subseteq G
<1>1. ASSUME NEW T \in SUBSET S, T # {}, \A x \in T : T \ {x} \in G
      PROVE  T \in G
  <2>1. PICK x \in T : TRUE
    BY <1>1
  <2>2. /\ T \ {x} \in SUBSET S /\ x \in S \ (T \ {x})
        /\ (T \ {x}) \cup {x} = T /\ T \ {x} \in G
    BY <1>1, <2>1
  <2> QED BY <2>2
<1> QED BY <1>1, SubsetDescent

(* Induction over the natural numbers, of a set.                           *)
LEMMA CountingInduction ==
  ASSUME NEW G, 0 \in G, \A n \in Nat : n \in G => n + 1 \in G
  PROVE  Nat \subseteq G
<1> DEFINE Bad == {n \in Nat : n \notin G}
           R == {p \in Nat \X Nat : p[1] < p[2]}
<1>1. SUFFICES ASSUME Bad # {} PROVE FALSE
  OBVIOUS
<1>2. IsWellFoundedOn(R, Nat)
  BY NatLessThanWellFounded DEF OpToRel
<1>3. PICK n \in Bad : \A m \in Bad : ~(<<m, n>> \in R)
  <2>1. Bad \subseteq Nat
    OBVIOUS
  <2> HIDE DEF Bad, R
  <2> QED BY <1>1, <1>2, <2>1, WFMin
<1>4. n \in Nat /\ n # 0 /\ n - 1 \in Nat
  BY <1>3
<1>5. n - 1 \in G
  <2>1. <<n - 1, n>> \in R
    BY <1>4
  <2> HIDE DEF R
  <2> QED BY <1>3, <1>4, <2>1
<1> QED BY <1>3, <1>4, <1>5

-----------------------------------------------------------------------------
(* A function on the subsets of S that adds up f.                          *)
Adds(g, f, S) ==
    /\ g \in [SUBSET S -> Int]
    /\ g[{}] = 0
    /\ \A T \in SUBSET S : \A x \in T : g[T] = f[x] + g[T \ {x}]

LEMMA SumExists ==
  ASSUME NEW S, IsFiniteSet(S), NEW f, \A x \in S : f[x] \in Int
  PROVE  \E g : Adds(g, f, S)
<1> DEFINE G == {T \in SUBSET S : \E g : Adds(g, f, T)}
<1>1. {} \in G
  <2> DEFINE g == [T \in SUBSET {} |-> 0]
  <2>1. Adds(g, f, {})
    BY DEF Adds
  <2> HIDE DEF g
  <2> QED BY <2>1
<1>2. ASSUME NEW T \in SUBSET S, NEW x \in S \ T, T \in G
      PROVE  T \cup {x} \in G
  <2>1. PICK g : Adds(g, f, T)
    BY <1>2
  <2> DEFINE h == [U \in SUBSET (T \cup {x}) |->
                     IF x \in U THEN f[x] + g[U \ {x}] ELSE g[U]]
  <2>2. h \in [SUBSET (T \cup {x}) -> Int]
    <3> SUFFICES ASSUME NEW U \in SUBSET (T \cup {x}) PROVE h[U] \in Int
      OBVIOUS
    <3>1. U \ {x} \in SUBSET T /\ (x \notin U => U \in SUBSET T) /\ f[x] \in Int
      OBVIOUS
    <3>2. g[U \ {x}] \in Int /\ (x \notin U => g[U] \in Int)
      BY <2>1, <3>1 DEF Adds
    <3> QED BY <3>1, <3>2
  <2>3. h[{}] = 0
    BY <2>1 DEF Adds
  <2>4. ASSUME NEW U \in SUBSET (T \cup {x}), NEW y \in U
        PROVE  h[U] = f[y] + h[U \ {y}]
    <3>1. CASE x \notin U
      <4>1. h[U] = g[U] /\ h[U \ {y}] = g[U \ {y}] /\ U \in SUBSET T
        BY <3>1
      <4> QED BY <2>1, <4>1 DEF Adds
    <3>2. CASE y = x
      <4>1. U \ {y} \in SUBSET (T \cup {x}) /\ x \notin U \ {y}
        BY <3>2
      <4> QED BY <3>2, <4>1
    <3>3. CASE x \in U /\ y # x
      <4>1. U \ {x} \in SUBSET T /\ y \in U \ {x} /\ U \ {y} \in SUBSET (T \cup {x})
            /\ x \in U \ {y} /\ (U \ {y}) \ {x} = (U \ {x}) \ {y}
            /\ (U \ {x}) \ {y} \in SUBSET T
        BY <3>3
      <4>2. g[U \ {x}] = f[y] + g[(U \ {x}) \ {y}] /\ g[(U \ {x}) \ {y}] \in Int
        BY <2>1, <4>1 DEF Adds
      <4>3. h[U] = f[x] + g[U \ {x}] /\ h[U \ {y}] = f[x] + g[(U \ {x}) \ {y}]
        BY <3>3, <4>1
      <4>4. f[x] \in Int /\ f[y] \in Int
        OBVIOUS
      <4> HIDE DEF h
      <4> QED BY <4>2, <4>3, <4>4
    <3> QED BY <3>1, <3>2, <3>3
  <2>5. Adds(h, f, T \cup {x})
    <3> HIDE DEF h
    <3> QED BY <2>2, <2>3, <2>4 DEF Adds
  <2>6. T \cup {x} \in SUBSET S
    OBVIOUS
  <2> HIDE DEF h
  <2> QED BY <2>5, <2>6
<1>3. SUBSET S \subseteq G
  <2> HIDE DEF G
  <2> QED BY <1>1, <1>2, SubsetInduction
<1> QED BY <1>3

(* The sum of the library is the one such function.                        *)
LEMMA SumIs ==
  ASSUME NEW S, IsFiniteSet(S), NEW f, NEW g, Adds(g, f, S)
  PROVE  SumFunctionOnSet(f, S) = g[S]
<1> DEFINE Pick(s) == CHOOSE x \in s : TRUE
           Folds(h) == h = [s \in SUBSET S |->
                              IF s = {} THEN 0 ELSE f[Pick(s)] + h[s \ {Pick(s)}]]
<1>1. SumFunctionOnSet(f, S) = (CHOOSE h : Folds(h))[S]
  BY DEF SumFunctionOnSet, FoldFunctionOnSet, MapThenFoldSet
<1>2. Folds(g)
  <2>1. ASSUME NEW s \in SUBSET S, s # {}
        PROVE  g[s] = f[Pick(s)] + g[s \ {Pick(s)}]
    <3>1. Pick(s) \in s
      BY <2>1
    <3> HIDE DEF Pick
    <3> QED BY <3>1 DEF Adds
  <2>2. g[{}] = 0 /\ g = [s \in SUBSET S |-> g[s]]
    BY DEF Adds
  <2> HIDE DEF Pick
  <2> QED BY <2>1, <2>2
<1>3. ASSUME NEW h, Folds(h) PROVE h[S] = g[S]
  <2> DEFINE G == {T \in SUBSET S : h[T] = g[T]}
  <2>1. {} \in G
    BY <1>3 DEF Adds
  <2>2. ASSUME NEW T \in SUBSET S, T # {}, \A x \in T : T \ {x} \in G
        PROVE  T \in G
    <3>1. Pick(T) \in T
      BY <2>2
    <3>2. h[T] = f[Pick(T)] + h[T \ {Pick(T)}]
      BY <1>3, <2>2
    <3> HIDE DEF Pick
    <3> QED BY <2>2, <3>1, <3>2 DEF Adds
  <2>3. SUBSET S \subseteq G
    <3> HIDE DEF G
    <3> QED BY <2>1, <2>2, SubsetDescent
  <2> QED BY <2>3
<1> HIDE DEF Folds
<1> QED BY <1>1, <1>2, <1>3

(* What is to be known of sums.                                            *)
LEMMA SumRules ==
  ASSUME NEW S, IsFiniteSet(S), NEW f, \A x \in S : f[x] \in Int
  PROVE  /\ SumFunctionOnSet(f, {}) = 0
         /\ \A T \in SUBSET S : SumFunctionOnSet(f, T) \in Int
         /\ \A T \in SUBSET S : \A x \in T :
              SumFunctionOnSet(f, T) = f[x] + SumFunctionOnSet(f, T \ {x})
<1>1. PICK g : Adds(g, f, S)
  BY SumExists
<1>2. ASSUME NEW T \in SUBSET S PROVE SumFunctionOnSet(f, T) = g[T]
  <2> DEFINE h == [U \in SUBSET T |-> g[U]]
  <2>1. Adds(h, f, T)
    BY <1>1 DEF Adds
  <2>2. IsFiniteSet(T)
    BY FS_Subset
  <2>3. h[T] = g[T]
    OBVIOUS
  <2> HIDE DEF h
  <2> QED BY <2>1, <2>2, <2>3, SumIs
<1>3. {} \in SUBSET S
  OBVIOUS
<1> QED BY <1>1, <1>2, <1>3 DEF Adds

(* The sum of a combination of two functions.                              *)
LEMMA SumLinear ==
  ASSUME NEW S, IsFiniteSet(S), NEW f, NEW g, NEW h, NEW a \in Int, NEW b \in Int,
         \A x \in S : f[x] \in Int /\ g[x] \in Int /\ h[x] = a * f[x] + b * g[x]
  PROVE  SumFunctionOnSet(h, S) = a * SumFunctionOnSet(f, S) + b * SumFunctionOnSet(g, S)
<1> DEFINE G == {T \in SUBSET S : SumFunctionOnSet(h, T)
                    = a * SumFunctionOnSet(f, T) + b * SumFunctionOnSet(g, T)}
<1>1. \A x \in S : h[x] \in Int
  OBVIOUS
<1>2. {} \in G
  BY <1>1, SumRules
<1>3. ASSUME NEW T \in SUBSET S, NEW x \in S \ T, T \in G
      PROVE  T \cup {x} \in G
  <2> DEFINE U == T \cup {x}
  <2>1. U \in SUBSET S /\ x \in U /\ U \ {x} = T
    OBVIOUS
  <2>2. /\ SumFunctionOnSet(f, U) = f[x] + SumFunctionOnSet(f, T)
        /\ SumFunctionOnSet(g, U) = g[x] + SumFunctionOnSet(g, T)
        /\ SumFunctionOnSet(h, U) = h[x] + SumFunctionOnSet(h, T)
        /\ SumFunctionOnSet(f, T) \in Int /\ SumFunctionOnSet(g, T) \in Int
    <3> HIDE DEF U, G
    <3> QED BY <1>1, <2>1, SumRules
  <2>3. ASSUME NEW p \in Int, NEW q \in Int, NEW r \in Int, NEW s \in Int
        PROVE  (a * p + b * q) + (a * r + b * s) = a * (p + r) + b * (q + s)
    OBVIOUS
  <2>4. SumFunctionOnSet(h, U) = a * SumFunctionOnSet(f, U) + b * SumFunctionOnSet(g, U)
    BY <1>3, <2>2, <2>3
  <2> QED BY <2>1, <2>4
<1>4. SUBSET S \subseteq G
  <2> HIDE DEF G
  <2> QED BY <1>2, <1>3, SubsetInduction
<1> QED BY <1>4

LEMMA SumOfSame ==
  ASSUME NEW S, IsFiniteSet(S), NEW f, NEW g, \A x \in S : f[x] \in Int /\ g[x] = f[x]
  PROVE  SumFunctionOnSet(g, S) = SumFunctionOnSet(f, S)
<1>1. \A x \in S : g[x] = 1 * f[x] + 0 * f[x]
  OBVIOUS
<1>2. SumFunctionOnSet(g, S) = 1 * SumFunctionOnSet(f, S) + 0 * SumFunctionOnSet(f, S)
  BY <1>1, SumLinear
<1>3. S \in SUBSET S
  OBVIOUS
<1>4. SumFunctionOnSet(f, S) \in Int
  BY <1>3, SumRules
<1> QED BY <1>2, <1>4

LEMMA SumOfNothing ==
  ASSUME NEW S, IsFiniteSet(S), NEW f, \A x \in S : f[x] = 0
  PROVE  SumFunctionOnSet(f, S) = 0
<1>1. \A x \in S : f[x] \in Int /\ f[x] = 0 * f[x] + 0 * f[x]
  OBVIOUS
<1>2. SumFunctionOnSet(f, S) = 0 * SumFunctionOnSet(f, S) + 0 * SumFunctionOnSet(f, S)
  BY <1>1, SumLinear
<1>3. S \in SUBSET S
  OBVIOUS
<1>4. SumFunctionOnSet(f, S) \in Int
  BY <1>1, <1>3, SumRules
<1> QED BY <1>2, <1>4

(* Functions that differ in one place have sums that differ by as much.    *)
LEMMA SumOfChange ==
  ASSUME NEW S, IsFiniteSet(S), NEW f, NEW g,
         \A y \in S : f[y] \in Int /\ g[y] \in Int
  PROVE  \A x \in S : (\A y \in S : y # x => g[y] = f[y])
            => SumFunctionOnSet(g, S) = SumFunctionOnSet(f, S) + (g[x] - f[x])
<1> SUFFICES ASSUME NEW x \in S, \A y \in S : y # x => g[y] = f[y]
             PROVE  SumFunctionOnSet(g, S) = SumFunctionOnSet(f, S) + (g[x] - f[x])
  OBVIOUS
<1> DEFINE R == S \ {x}
           G == {T \in SUBSET R : SumFunctionOnSet(g, T) = SumFunctionOnSet(f, T)}
<1>1. {} \in G
  BY SumRules
<1>2. ASSUME NEW T \in SUBSET R, NEW y \in R \ T, T \in G
      PROVE  T \cup {y} \in G
  <2> DEFINE U == T \cup {y}
  <2>1. U \in SUBSET S /\ U \in SUBSET R /\ y \in U /\ U \ {y} = T /\ g[y] = f[y]
    OBVIOUS
  <2>2. /\ SumFunctionOnSet(f, U) = f[y] + SumFunctionOnSet(f, T)
        /\ SumFunctionOnSet(g, U) = g[y] + SumFunctionOnSet(g, T)
    <3> HIDE DEF U, G
    <3> QED BY <2>1, SumRules
  <2> QED BY <1>2, <2>1, <2>2
<1>3. R \in G
  <2>1. IsFiniteSet(R) /\ R \in SUBSET R
    BY FS_Subset
  <2> HIDE DEF R, G
  <2> QED BY <1>1, <1>2, <2>1, SubsetInduction
<1>4. /\ SumFunctionOnSet(f, S) = f[x] + SumFunctionOnSet(f, R)
      /\ SumFunctionOnSet(g, S) = g[x] + SumFunctionOnSet(g, R)
      /\ SumFunctionOnSet(f, R) \in Int
  <2>1. S \in SUBSET S /\ R \in SUBSET S /\ S \ {x} = R
    OBVIOUS
  <2> HIDE DEF R
  <2>2. SumFunctionOnSet(f, S) = f[x] + SumFunctionOnSet(f, S \ {x})
    BY <2>1, SumRules
  <2>3. SumFunctionOnSet(g, S) = g[x] + SumFunctionOnSet(g, S \ {x})
    BY <2>1, SumRules
  <2>4. SumFunctionOnSet(f, R) \in Int
    BY <2>1, SumRules
  <2> QED BY <2>1, <2>2, <2>3, <2>4
<1>5. SumFunctionOnSet(g, R) = SumFunctionOnSet(f, R)
  BY <1>3
<1> HIDE DEF R
<1> QED BY <1>4, <1>5

(* The sum over two disjoint sets.                                         *)
LEMMA SumSplit ==
  ASSUME NEW A, IsFiniteSet(A), NEW B, IsFiniteSet(B), A \cap B = {},
         NEW f, \A x \in A \cup B : f[x] \in Int
  PROVE  SumFunctionOnSet(f, A \cup B) = SumFunctionOnSet(f, A) + SumFunctionOnSet(f, B)
<1> DEFINE G == {T \in SUBSET B : SumFunctionOnSet(f, A \cup T)
                    = SumFunctionOnSet(f, A) + SumFunctionOnSet(f, T)}
<1>1. IsFiniteSet(A \cup B)
  BY FS_Union
<1>2. {} \in G
  <2>1. A \cup {} = A /\ SumFunctionOnSet(f, A) \in Int /\ SumFunctionOnSet(f, {}) = 0
    BY SumRules
  <2> QED BY <2>1
<1>3. ASSUME NEW T \in SUBSET B, NEW x \in B \ T, T \in G
      PROVE  T \cup {x} \in G
  <2> DEFINE U == T \cup {x}
             V == A \cup U
  <2>1. /\ U \in SUBSET (A \cup B) /\ x \in U /\ U \ {x} = T /\ T \in SUBSET (A \cup B)
        /\ V \in SUBSET (A \cup B) /\ x \in V /\ V \ {x} = A \cup T
        /\ A \in SUBSET (A \cup B)
    OBVIOUS
  <2>2. /\ SumFunctionOnSet(f, U) = f[x] + SumFunctionOnSet(f, T)
        /\ SumFunctionOnSet(f, V) = f[x] + SumFunctionOnSet(f, A \cup T)
        /\ SumFunctionOnSet(f, A) \in Int /\ SumFunctionOnSet(f, T) \in Int
    <3> HIDE DEF U, V, G
    <3> QED BY <1>1, <2>1, SumRules
  <2>3. SumFunctionOnSet(f, V) = SumFunctionOnSet(f, A) + SumFunctionOnSet(f, U)
    <3>1. f[x] \in Int
      OBVIOUS
    <3> QED BY <1>3, <2>2, <3>1
  <2> QED BY <2>1, <2>3
<1>4. SUBSET B \subseteq G
  <2> HIDE DEF G
  <2> QED BY <1>2, <1>3, SubsetInduction
<1> QED BY <1>4

(* What goes to each of I, summed up, is all that goes to one of them.     *)
From(S, to, i) == {x \in S : to[x] = i}
Into(S, to, I) == {x \in S : to[x] \in I}

LEMMA SumByTarget ==
  ASSUME NEW S, IsFiniteSet(S), NEW f, \A x \in S : f[x] \in Int, NEW to,
         NEW I, IsFiniteSet(I), NEW g,
         \A i \in I : g[i] = SumFunctionOnSet(f, From(S, to, i))
  PROVE  SumFunctionOnSet(g, I) = SumFunctionOnSet(f, Into(S, to, I))
<1> DEFINE To(T) == Into(S, to, T)
           G == {T \in SUBSET I : SumFunctionOnSet(g, T) = SumFunctionOnSet(f, To(T))}
<1>1. \A i \in I : g[i] \in Int
  <2> TAKE i \in I
  <2>1. From(S, to, i) \in SUBSET S /\ g[i] = SumFunctionOnSet(f, From(S, to, i))
    BY DEF From
  <2> QED BY <2>1, SumRules
<1>2. {} \in G
  <2>1. To({}) = {}
    BY DEF Into
  <2>2. SumFunctionOnSet(g, {}) = 0 /\ SumFunctionOnSet(f, {}) = 0
    BY <1>1, SumRules
  <2> QED BY <2>1, <2>2
<1>3. ASSUME NEW T \in SUBSET I, NEW i \in I \ T, T \in G
      PROVE  T \cup {i} \in G
  <2> DEFINE U == T \cup {i}
             Of == From(S, to, i)
  <2>1. /\ U \in SUBSET I /\ i \in U /\ U \ {i} = T
        /\ To(U) = Of \cup To(T) /\ Of \cap To(T) = {}
        /\ Of \in SUBSET S /\ To(T) \in SUBSET S
    BY DEF From, Into
  <2>2. SumFunctionOnSet(g, U) = g[i] + SumFunctionOnSet(g, T)
    <3> HIDE DEF U
    <3> QED BY <1>1, <2>1, SumRules
  <2>3. SumFunctionOnSet(f, To(U)) = SumFunctionOnSet(f, Of) + SumFunctionOnSet(f, To(T))
    <3>1. IsFiniteSet(Of) /\ IsFiniteSet(To(T)) /\ \A x \in Of \cup To(T) : f[x] \in Int
      BY <2>1, FS_Subset
    <3> HIDE DEF U, To, Of
    <3> QED BY <2>1, <3>1, SumSplit
  <2>4. SumFunctionOnSet(g, U) = SumFunctionOnSet(f, To(U))
    BY <1>3, <2>2, <2>3
  <2> QED BY <2>1, <2>4
<1>4. SUBSET I \subseteq G
  <2> HIDE DEF G
  <2> QED BY <1>2, <1>3, SubsetInduction
<1>5. SumFunctionOnSet(g, I) = SumFunctionOnSet(f, To(I))
  BY <1>4
<1> QED BY <1>5

(* A sum of numbers between a and b.                                       *)
LEMMA SumBetween ==
  ASSUME NEW S, IsFiniteSet(S), NEW f, \A x \in S : f[x] \in Int,
         NEW a \in Int, NEW b \in Int, \A x \in S : a <= f[x] /\ f[x] <= b
  PROVE  /\ a * Cardinality(S) <= SumFunctionOnSet(f, S)
         /\ SumFunctionOnSet(f, S) <= b * Cardinality(S)
<1> DEFINE G == {T \in SUBSET S : /\ a * Cardinality(T) <= SumFunctionOnSet(f, T)
                                 /\ SumFunctionOnSet(f, T) <= b * Cardinality(T)}
<1>1. {} \in G
  BY SumRules, FS_EmptySet
<1>2. ASSUME NEW T \in SUBSET S, NEW x \in S \ T, T \in G
      PROVE  T \cup {x} \in G
  <2> DEFINE U == T \cup {x}
  <2>1. U \in SUBSET S /\ x \in U /\ U \ {x} = T
    OBVIOUS
  <2>2. /\ SumFunctionOnSet(f, U) = f[x] + SumFunctionOnSet(f, T)
        /\ SumFunctionOnSet(f, T) \in Int
    <3> HIDE DEF U, G
    <3> QED BY <2>1, SumRules
  <2>3. IsFiniteSet(T) /\ Cardinality(T) \in Nat /\ Cardinality(U) = Cardinality(T) + 1
    BY <1>2, FS_Subset, FS_AddElement, FS_CardinalityType
  <2>4. ASSUME NEW n \in Nat
        PROVE  a * (n + 1) = a * n + a /\ b * (n + 1) = b * n + b
    OBVIOUS
  <2>5. /\ a * Cardinality(U) = a * Cardinality(T) + a
        /\ b * Cardinality(U) = b * Cardinality(T) + b
    BY <2>3, <2>4
  <2>6. /\ a * Cardinality(T) \in Int /\ b * Cardinality(T) \in Int
        /\ f[x] \in Int /\ a <= f[x] /\ f[x] <= b
    BY <2>3
  <2>7. /\ a * Cardinality(T) <= SumFunctionOnSet(f, T)
        /\ SumFunctionOnSet(f, T) <= b * Cardinality(T)
    BY <1>2
  <2> HIDE DEF G, U
  <2>8. /\ a * Cardinality(U) <= SumFunctionOnSet(f, U)
        /\ SumFunctionOnSet(f, U) <= b * Cardinality(U)
    BY <2>2, <2>5, <2>6, <2>7
  <2> QED BY <2>1, <2>8 DEF G, U
<1>3. SUBSET S \subseteq G
  <2> HIDE DEF G
  <2> QED BY <1>1, <1>2, SubsetInduction
<1> QED BY <1>3

(* A sum of no negative number is none.                                    *)
LEMMA SumNotNegative ==
  ASSUME NEW S, IsFiniteSet(S), NEW f, \A x \in S : f[x] \in Int /\ f[x] >= 0
  PROVE  SumFunctionOnSet(f, S) \in Int /\ SumFunctionOnSet(f, S) >= 0
<1> DEFINE G == {T \in SUBSET S : SumFunctionOnSet(f, T) >= 0}
<1>1. {} \in G
  BY SumRules
<1>2. ASSUME NEW T \in SUBSET S, NEW x \in S \ T, T \in G
      PROVE  T \cup {x} \in G
  <2> DEFINE U == T \cup {x}
  <2>1. U \in SUBSET S /\ x \in U /\ U \ {x} = T
    OBVIOUS
  <2>2. /\ SumFunctionOnSet(f, U) = f[x] + SumFunctionOnSet(f, T)
        /\ SumFunctionOnSet(f, T) \in Int
    <3> HIDE DEF U, G
    <3> QED BY <2>1, SumRules
  <2>3. SumFunctionOnSet(f, T) >= 0 /\ f[x] \in Int /\ f[x] >= 0
    BY <1>2
  <2>4. SumFunctionOnSet(f, U) >= 0
    BY <2>2, <2>3
  <2> QED BY <2>1, <2>4
<1>3. SUBSET S \subseteq G
  <2> HIDE DEF G
  <2> QED BY <1>1, <1>2, SubsetInduction
<1>4. S \in SUBSET S
  OBVIOUS
<1> QED BY <1>3, <1>4, SumRules

(* The library's Max of finitely many numbers is one of them.              *)
LEMMA MaxIsOne ==
  ASSUME NEW D, IsFiniteSet(D), D \subseteq Int, NEW S \in SUBSET D, S # {}
  PROVE  Max(S) \in S
<1> DEFINE G == {T \in SUBSET D : T # {} => \E x \in T : \A y \in T : x >= y}
<1>1. {} \in G
  OBVIOUS
<1>2. ASSUME NEW T \in SUBSET D, NEW x \in D \ T, T \in G
      PROVE  T \cup {x} \in G
  <2>1. CASE T = {}
    BY <2>1
  <2>2. CASE T # {}
    <3>1. PICK y \in T : \A z \in T : y >= z
      BY <1>2, <2>2
    <3>2. CASE x >= y
      BY <3>1, <3>2
    <3>3. CASE ~(x >= y)
      BY <3>1, <3>3
    <3> QED BY <3>2, <3>3
  <2> QED BY <2>1, <2>2
<1>3. SUBSET D \subseteq G
  <2> HIDE DEF G
  <2> QED BY <1>1, <1>2, SubsetInduction
<1>4. \E x \in S : \A y \in S : x >= y
  BY <1>3
<1> QED BY <1>4 DEF Max

-----------------------------------------------------------------------------
LEMMA TimesInt == ASSUME NEW m \in Int, NEW n \in Int PROVE m * n \in Int
  OBVIOUS

LEMMA TimesNotNegative ==
  ASSUME NEW m \in Int, NEW n \in Int, m >= 0, n >= 0
  PROVE  m * n \in Int /\ m * n >= 0
  OBVIOUS

LEMMA DivBounds ==
  ASSUME NEW n \in Int, NEW k \in Nat \ {0}
  PROVE  n \div k \in Int /\ k * (n \div k) <= n /\ n < k * (n \div k) + k
  OBVIOUS

LEMMA Cancels ==
  ASSUME NEW k \in Nat \ {0}, NEW m \in Int, NEW n \in Int, k * m <= k * n
  PROVE  m <= n
<1>1. SUFFICES ASSUME n + 1 <= m PROVE FALSE
  OBVIOUS
<1>2. k * (n + 1) <= k * m
  BY <1>1
<1>3. k * (n + 1) = k * n + k
  OBVIOUS
<1>4. k * n \in Int /\ k * m \in Int
  OBVIOUS
<1> QED BY <1>2, <1>3, <1>4

(* Rounding is off by half a step at most.                                 *)
LEMMA RoundClose ==
  ASSUME NEW n \in Int, NEW k \in Nat \ {0}
  PROVE  /\ Round(n, k) \in Int
         /\ -k <= 2 * (n - k * Round(n, k)) /\ 2 * (n - k * Round(n, k)) <= k
<1> DEFINE m == 2 * k
           up == 2 * n + k
           down == k - 2 * n
           a == up \div m
           b == down \div m
<1>1. m \in Nat \ {0} /\ up \in Int /\ down \in Int
  OBVIOUS
<1>2. Round(n, k) = IF n >= 0 THEN a ELSE -b
  BY DEF Round
<1>3. /\ a \in Int /\ m * a <= up /\ up < m * a + m
      /\ b \in Int /\ m * b <= down /\ down < m * b + m
  <2> HIDE DEF m, up, down
  <2> QED BY <1>1, DivBounds
<1>4. m * a = 2 * (k * a) /\ m * b = 2 * (k * b) /\ k * (-b) = -(k * b)
      /\ k * a \in Int /\ k * b \in Int
  <2> HIDE DEF a, b
  <2> QED BY <1>3
<1> HIDE DEF a, b
<1> QED BY <1>2, <1>3, <1>4

(* Rounding does not carry over a whole number.                            *)
LEMMA RoundKeepsOrder ==
  ASSUME NEW n \in Int, NEW k \in Nat \ {0}, NEW m \in Int
  PROVE  /\ n >= 0 => Round(n, k) >= 0
         /\ n <= k * m => Round(n, k) <= m
<1> DEFINE r == Round(n, k)
<1>1. r \in Int /\ -k <= 2 * (n - k * r) /\ 2 * (n - k * r) <= k
  BY RoundClose
<1> HIDE DEF r
<1>2. k * r \in Int /\ k * m \in Int
  BY <1>1
<1>3. ASSUME n >= 0 PROVE r >= 0
  <2>1. SUFFICES ASSUME r <= -1 PROVE FALSE
    BY <1>1
  <2>2. k * r <= -k
    <3>1. k * (-1) >= k * r
      BY <1>1, <2>1
    <3> QED BY <3>1
  <2> QED BY <1>1, <1>2, <1>3, <2>2
<1>4. ASSUME n <= k * m PROVE r <= m
  <2>1. SUFFICES ASSUME m + 1 <= r PROVE FALSE
    BY <1>1
  <2>2. k * m + k <= k * r
    <3>1. k * (m + 1) <= k * r
      BY <1>1, <2>1
    <3>2. k * (m + 1) = k * m + k
      OBVIOUS
    <3> QED BY <3>1, <3>2
  <2> QED BY <1>1, <1>2, <1>4, <2>2
<1> QED BY <1>3, <1>4 DEF r

-----------------------------------------------------------------------------
LEMMA RuleParts ==
  ASSUME NEW r \in Rules
  PROVE  /\ r.pct \in Nat /\ r.mode \in Modes
         /\ r.mode \in {"fixed_pct", "split_from_investor"} => r.pct <= 100
  BY RulesAssumption

LEMMA PercentInt == ASSUME NEW n \in Int, NEW r \in Rules PROVE Percent(n, r) \in Int
<1>1. n * r.pct \in Int /\ 100 \in Nat \ {0}
  BY RuleParts, TimesInt
<1> QED BY <1>1, RoundClose DEF Percent

LEMMA PercentBetween ==
  ASSUME NEW n \in Int, n >= 0, NEW r \in Rules
  PROVE  /\ Percent(n, r) \in Int /\ Percent(n, r) >= 0
         /\ r.pct <= 100 => Percent(n, r) <= n
<1>1. r.pct \in Nat
  BY RuleParts
<1>2. n * r.pct \in Int /\ n * r.pct >= 0
  BY <1>1, TimesNotNegative
<1>3. r.pct <= 100 => n * r.pct <= 100 * n
  BY <1>1
<1> QED BY <1>2, <1>3, PercentInt, RoundKeepsOrder DEF Percent

LEMMA OwnInt == ASSUME NEW n \in Int, NEW r \in Rules PROVE Own(n, r) \in Int
  BY PercentInt DEF Own

(* What an agreement leaves an investor of a profit is no loss, and no     *)
(* more than the profit but for a multiplier above 100 %.                  *)
LEMMA OwnBetween ==
  ASSUME NEW n \in Int, n >= 0, NEW r \in Rules
  PROVE  /\ Own(n, r) \in Int /\ Own(n, r) >= 0
         /\ ~(r.mode = "multiplier" /\ r.pct > 100) => Own(n, r) <= n
<1>1. r.pct \in Nat
  BY RuleParts
<1> QED BY <1>1, PercentBetween DEF Own

-----------------------------------------------------------------------------
(* The fixed shares and the pool make up the day's profit.                 *)
LEMMA PoolAddsUp ==
  ASSUME IsFiniteSet(active), NEW rule \in [active -> Rules], NEW p \in Int,
         NEW g, \A i \in In("fixed_pct", rule) : g[i] = Percent(p, rule[i])
  PROVE  /\ Pool(p, rule) \in Int
         /\ Pool(p, rule) = p - SumFunctionOnSet(g, In("fixed_pct", rule))
<1> DEFINE S == In("fixed_pct", rule)
           f == [i \in S |-> Percent(p, rule[i])]
<1>1. IsFiniteSet(S) /\ \A i \in S : f[i] \in Int /\ g[i] = 1 * f[i] + 0 * f[i]
  <2>1. S \in SUBSET active /\ IsFiniteSet(S)
    BY FS_Subset DEF In
  <2>2. \A i \in S : f[i] \in Int /\ g[i] = f[i]
    BY <2>1, PercentInt
  <2> QED BY <2>1, <2>2
<1>2. Pool(p, rule) = p - SumFunctionOnSet(f, S)
  BY DEF Pool, SumFunction
<1> HIDE DEF S, f
<1>3. S \in SUBSET S
  OBVIOUS
<1>4. SumFunctionOnSet(f, S) \in Int
  BY <1>1, <1>3, SumRules
<1>5. SumFunctionOnSet(g, S) = 1 * SumFunctionOnSet(f, S) + 0 * SumFunctionOnSet(f, S)
  BY <1>1, SumLinear
<1> QED BY <1>2, <1>4, <1>5 DEF S

(* Shares, weights and the pool are numbers.                               *)
LEMMA GrossType ==
  ASSUME IsFiniteSet(active), NEW rule \in [active -> Rules], NEW p \in Int,
         NEW capital \in [active -> Int]
  PROVE  /\ Gross(p, rule, capital) \in [active -> Int]
         /\ SumFunctionOnSet(capital, Weighted(rule)) \in Int
         /\ Pool(p, rule) \in Int
         /\ Weighted(rule) \in SUBSET active
<1> DEFINE W == Weighted(rule)
           weight == SumFunctionOnSet(capital, W)
           pool == Pool(p, rule)
<1>1. W \in SUBSET active
  BY DEF Weighted, In
<1>2. weight \in Int
  <2> HIDE DEF W
  <2> QED BY <1>1, SumRules
<1>3. pool \in Int
  <2> DEFINE g == [i \in In("fixed_pct", rule) |-> Percent(p, rule[i])]
  <2>1. \A i \in In("fixed_pct", rule) : g[i] = Percent(p, rule[i])
    OBVIOUS
  <2> HIDE DEF g
  <2> QED BY <2>1, PoolAddsUp
<1>4. ASSUME NEW i \in active, weight > 0
      PROVE  Round(pool * capital[i], weight) \in Int
  <2> HIDE DEF weight, pool
  <2>1. pool * capital[i] \in Int /\ weight \in Nat \ {0}
    BY <1>2, <1>3, <1>4, TimesInt
  <2> QED BY <2>1, RoundClose
<1>5. Gross(p, rule, capital) = [i \in active |->
            IF rule[i].mode = "fixed_pct" THEN Percent(p, rule[i])
            ELSE IF i \in W /\ weight > 0 THEN Round(pool * capital[i], weight) ELSE 0]
  BY DEF Gross
<1>6. \A i \in active : Percent(p, rule[i]) \in Int
  BY PercentInt
<1> HIDE DEF W, weight, pool
<1> QED BY <1>1, <1>2, <1>3, <1>4, <1>5, <1>6 DEF W, weight, pool

(* What the pool's holders get of it, all together, is the pool, but for   *)
(* half a step each.                                                       *)
LEMMA PoolSharedOut ==
  ASSUME NEW W, IsFiniteSet(W), NEW capital, \A i \in W : capital[i] \in Int,
         NEW pool \in Int, NEW g, SumFunctionOnSet(capital, W) > 0,
         \A i \in W : g[i] = Round(pool * capital[i], SumFunctionOnSet(capital, W))
  PROVE  /\ \A i \in W : g[i] \in Int
         /\ SumFunctionOnSet(g, W) \in Int
         /\ -Cardinality(W) <= 2 * (pool - SumFunctionOnSet(g, W))
         /\ 2 * (pool - SumFunctionOnSet(g, W)) <= Cardinality(W)
<1> DEFINE weight == SumFunctionOnSet(capital, W)
           total == SumFunctionOnSet(g, W)
           e == [i \in W |-> (2 * pool) * capital[i] + (-2 * weight) * g[i]]
<1>1. weight \in Nat \ {0}
  <2>1. W \in SUBSET W
    OBVIOUS
  <2>2. SumFunctionOnSet(capital, W) \in Int
    BY <2>1, SumRules
  <2> QED BY <2>2
<1> HIDE DEF weight
<1>2. ASSUME NEW i \in W
      PROVE  g[i] \in Int /\ -weight <= e[i] /\ e[i] <= weight /\ e[i] \in Int
  <2>1. pool * capital[i] \in Int /\ g[i] = Round(pool * capital[i], weight)
    BY TimesInt DEF weight
  <2>2. /\ g[i] \in Int
        /\ -weight <= 2 * (pool * capital[i] - weight * g[i])
        /\ 2 * (pool * capital[i] - weight * g[i]) <= weight
    BY <1>1, <2>1, RoundClose
  <2>3. e[i] = 2 * (pool * capital[i] - weight * g[i])
    <3>1. e[i] = (2 * pool) * capital[i] + (-2 * weight) * g[i]
      OBVIOUS
    <3> HIDE DEF e
    <3> QED BY <1>1, <2>2, <3>1
  <2>4. 2 * (pool * capital[i] - weight * g[i]) \in Int
    BY <1>1, <2>2
  <2> HIDE DEF e
  <2> QED BY <2>2, <2>3, <2>4
<1>3. total \in Int
  <2>1. W \in SUBSET W
    OBVIOUS
  <2> QED BY <1>2, <2>1, SumRules
<1>4. SumFunctionOnSet(e, W) = (2 * pool) * weight + (-2 * weight) * total
  <2>1. \A i \in W : e[i] = (2 * pool) * capital[i] + (-2 * weight) * g[i]
    OBVIOUS
  <2>2. 2 * pool \in Int /\ -2 * weight \in Int
    BY <1>1
  <2> HIDE DEF e
  <2> QED BY <1>2, <2>1, <2>2, SumLinear DEF weight
<1>5. /\ (-weight) * Cardinality(W) <= SumFunctionOnSet(e, W)
      /\ SumFunctionOnSet(e, W) <= weight * Cardinality(W)
  <2>1. -weight \in Int /\ weight \in Int
    BY <1>1
  <2> HIDE DEF e
  <2> QED BY <1>2, <2>1, SumBetween
<1>6. Cardinality(W) \in Nat
  BY FS_CardinalityType
<1> DEFINE off == 2 * (pool - total)
<1>7. (2 * pool) * weight + (-2 * weight) * total = weight * off
  BY <1>1, <1>3
<1>8. (-weight) * Cardinality(W) = weight * (-Cardinality(W))
  BY <1>1, <1>6
<1>9. off \in Int
  BY <1>3
<1> HIDE DEF e, off, total
<1>10. weight * (-Cardinality(W)) <= weight * off /\ weight * off <= weight * Cardinality(W)
  BY <1>4, <1>5, <1>7, <1>8
<1>11. -Cardinality(W) <= off /\ off <= Cardinality(W)
  BY <1>1, <1>6, <1>9, <1>10, Cancels
<1> QED BY <1>2, <1>3, <1>11 DEF off, total

(* A day's profit is shared out by participation but for half a step an    *)
(* investor, or left in the pool where no capital takes part.              *)
LEMMA GrossAddsUp ==
  ASSUME IsFiniteSet(active), NEW rule \in [active -> Rules], NEW p \in Int,
         NEW capital \in [active -> Int], NEW g, g = Gross(p, rule, capital)
  PROVE  /\ g \in [active -> Int] /\ SumFunctionOnSet(g, active) \in Int
         /\ IF SumFunctionOnSet(capital, Weighted(rule)) > 0
            THEN /\ -Cardinality(active) <= 2 * (SumFunctionOnSet(g, active) - p)
                 /\ 2 * (SumFunctionOnSet(g, active) - p) <= Cardinality(active)
            ELSE SumFunctionOnSet(g, active) + Pool(p, rule) = p
<1> DEFINE W == Weighted(rule)
           F == In("fixed_pct", rule)
           rest == active \ (F \cup W)
           weight == SumFunctionOnSet(capital, W)
           pool == Pool(p, rule)
<1>1. /\ active = F \cup (W \cup rest) /\ F \cap (W \cup rest) = {} /\ W \cap rest = {}
      /\ W \in SUBSET active /\ F \in SUBSET active /\ rest \in SUBSET active
  BY DEF In, Weighted
<1>2. /\ IsFiniteSet(W) /\ IsFiniteSet(F) /\ IsFiniteSet(rest)
      /\ IsFiniteSet(W \cup rest) /\ W \cup rest \in SUBSET active
  BY <1>1, FS_Subset
<1>3. g \in [active -> Int] /\ weight \in Int /\ pool \in Int
  BY GrossType
<1>4. /\ \A i \in F : g[i] = Percent(p, rule[i])
      /\ \A i \in W : weight > 0 => g[i] = Round(pool * capital[i], weight)
      /\ \A i \in W : ~(weight > 0) => g[i] = 0
      /\ \A i \in rest : g[i] = 0
  BY DEF Gross, In, Weighted
<1>5. pool = p - SumFunctionOnSet(g, F)
  <2> HIDE DEF pool
  <2> QED BY <1>4, PoolAddsUp DEF pool
<1> HIDE DEF W, F, rest, weight, pool
<1>6. /\ SumFunctionOnSet(g, active) = SumFunctionOnSet(g, F) + SumFunctionOnSet(g, W \cup rest)
      /\ SumFunctionOnSet(g, W \cup rest) = SumFunctionOnSet(g, W) + SumFunctionOnSet(g, rest)
  BY <1>1, <1>2, <1>3, SumSplit
<1>7. /\ SumFunctionOnSet(g, active) \in Int /\ SumFunctionOnSet(g, F) \in Int
      /\ SumFunctionOnSet(g, W) \in Int
  BY <1>1, <1>3, SumRules
<1>8. SumFunctionOnSet(g, rest) = 0
  <2>1. \A i \in rest : g[i] \in Int /\ g[i] = 0 * g[i] + 0 * g[i]
    BY <1>4
  <2>2. SumFunctionOnSet(g, rest) = 0 * SumFunctionOnSet(g, rest) + 0 * SumFunctionOnSet(g, rest)
    BY <1>2, <2>1, SumLinear
  <2>3. SumFunctionOnSet(g, rest) \in Int
    BY <1>1, <1>3, SumRules
  <2> QED BY <2>2, <2>3
<1>9. CASE weight > 0
  <2>1. \A i \in W : capital[i] \in Int /\ g[i] = Round(pool * capital[i], weight)
    BY <1>1, <1>4, <1>9
  <2>2. /\ -Cardinality(W) <= 2 * (pool - SumFunctionOnSet(g, W))
        /\ 2 * (pool - SumFunctionOnSet(g, W)) <= Cardinality(W)
    BY <1>2, <1>3, <1>9, <2>1, PoolSharedOut DEF weight
  <2>3. Cardinality(W) <= Cardinality(active) /\ Cardinality(W) \in Nat /\ Cardinality(active) \in Nat
    BY <1>1, FS_Subset, FS_CardinalityType
  <2> QED BY <1>3, <1>5, <1>6, <1>7, <1>8, <1>9, <2>2, <2>3 DEF weight, W
<1>10. CASE ~(weight > 0)
  <2>1. \A i \in W : g[i] \in Int /\ g[i] = 0 * g[i] + 0 * g[i]
    BY <1>4, <1>10
  <2>2. SumFunctionOnSet(g, W) = 0 * SumFunctionOnSet(g, W) + 0 * SumFunctionOnSet(g, W)
    BY <1>2, <2>1, SumLinear
  <2>3. SumFunctionOnSet(g, W) = 0
    BY <1>7, <2>2
  <2> QED BY <1>3, <1>5, <1>6, <1>7, <1>8, <1>10, <2>3 DEF weight, W, pool
<1> QED BY <1>9, <1>10

(* A residual goes to somebody or is lost: nothing is assigned twice.      *)
LEMMA AssignedAddsUp ==
  ASSUME IsFiniteSet(active), NEW rule \in [active -> Rules],
         NEW g \in [active -> Int], NEW a, a = Assigned(g, rule)
  PROVE  LET lost == SumFunctionOnSet(Residual(g, rule),
                                      {i \in active : rule[i].other \notin active})
         IN  /\ a \in [active -> Int] /\ lost \in Int
             /\ SumFunctionOnSet(a, active) + lost = SumFunctionOnSet(g, active)
<1> DEFINE residual == Residual(g, rule)
           own == [i \in active |-> Own(g[i], rule[i])]
           to == [i \in active |-> rule[i].other]
           got == [i \in active |-> SumFunctionOnSet(residual, From(active, to, i))]
           Lost == {i \in active : rule[i].other \notin active}
           Routed == Into(active, to, active)
<1>1. \A i \in active : own[i] \in Int /\ residual[i] = g[i] - own[i] /\ residual[i] \in Int
  BY OwnInt DEF Residual
<1>2. \A i \in active : got[i] \in Int
  <2> TAKE i \in active
  <2>1. /\ From(active, to, i) \in SUBSET active
        /\ got[i] = SumFunctionOnSet(residual, From(active, to, i))
    BY DEF From
  <2> HIDE DEF residual, own, to, got
  <2> QED BY <1>1, <2>1, SumRules
<1>3. a = [i \in active |-> own[i] + got[i]]
  <2>1. \A i \in active : {j \in active : rule[j].other = i} = From(active, to, i)
    BY DEF From
  <2> QED BY <2>1 DEF Assigned
<1>4. /\ active = Routed \cup Lost /\ Routed \cap Lost = {}
      /\ Routed \in SUBSET active /\ Lost \in SUBSET active
  BY DEF Into
<1>5. SumFunctionOnSet(got, active) = SumFunctionOnSet(residual, Routed)
  <2>1. \A i \in active : got[i] = SumFunctionOnSet(residual, From(active, to, i))
    OBVIOUS
  <2> HIDE DEF residual, own, to, got
  <2> QED BY <1>1, <2>1, SumByTarget
<1> HIDE DEF residual, own, to, got, Lost, Routed
<1>6. SumFunctionOnSet(residual, active)
        = SumFunctionOnSet(residual, Routed) + SumFunctionOnSet(residual, Lost)
  <2>1. IsFiniteSet(Routed) /\ IsFiniteSet(Lost)
    BY <1>4, FS_Subset
  <2> QED BY <1>1, <1>4, <2>1, SumSplit
<1>7. \A i \in active : a[i] = 1 * own[i] + 1 * got[i] /\ residual[i] = 1 * g[i] + (-1) * own[i]
  BY <1>1, <1>2, <1>3
<1>8. /\ SumFunctionOnSet(a, active)
            = 1 * SumFunctionOnSet(own, active) + 1 * SumFunctionOnSet(got, active)
      /\ SumFunctionOnSet(residual, active)
            = 1 * SumFunctionOnSet(g, active) + (-1) * SumFunctionOnSet(own, active)
  <2>1. SumFunctionOnSet(a, active)
            = 1 * SumFunctionOnSet(own, active) + 1 * SumFunctionOnSet(got, active)
    BY <1>1, <1>2, <1>7, SumLinear
  <2>2. SumFunctionOnSet(residual, active)
            = 1 * SumFunctionOnSet(g, active) + (-1) * SumFunctionOnSet(own, active)
    BY <1>1, <1>7, SumLinear
  <2> QED BY <2>1, <2>2
<1>9. /\ SumFunctionOnSet(own, active) \in Int /\ SumFunctionOnSet(g, active) \in Int
      /\ SumFunctionOnSet(got, active) \in Int /\ SumFunctionOnSet(residual, Lost) \in Int
      /\ SumFunctionOnSet(residual, Routed) \in Int
  <2>1. active \in SUBSET active
    OBVIOUS
  <2> QED BY <1>1, <1>2, <1>4, <2>1, SumRules
<1>10. a \in [active -> Int]
  BY <1>1, <1>2, <1>3
<1>11. SumFunctionOnSet(a, active) + SumFunctionOnSet(residual, Lost) = SumFunctionOnSet(g, active)
  BY <1>5, <1>6, <1>8, <1>9
<1> QED BY <1>9, <1>10, <1>11 DEF Lost, residual

(* A split only moves what is displayed.                                   *)
LEMMA ShownAddsUp ==
  ASSUME IsFiniteSet(active), NEW rule \in [active -> Rules],
         NEW a \in [active -> Int], NEW s, s = Shown(a, rule)
  PROVE  /\ s \in [active -> Int]
         /\ SumFunctionOnSet(s, active) = SumFunctionOnSet(a, active)
<1> DEFINE S == In("split_from_investor", rule)
           cut == [i \in S |-> IF rule[i].other \in active
                               THEN Percent(a[rule[i].other], rule[i]) ELSE 0]
           own == [i \in active |-> IF i \in S THEN cut[i] ELSE 0]
           to == [i \in S |-> rule[i].other]
           given == [i \in active |-> SumFunctionOnSet(cut, From(S, to, i))]
           kept == [i \in active |-> a[i] - given[i]]
           Cut == Into(S, to, active)
<1>1. S \in SUBSET active /\ Cut \in SUBSET S /\ active \ S \in SUBSET active
      /\ active = S \cup (active \ S) /\ S = Cut \cup (S \ Cut)
  BY DEF In, Into
<1>2. IsFiniteSet(S) /\ IsFiniteSet(active \ S) /\ IsFiniteSet(Cut) /\ IsFiniteSet(S \ Cut)
  <2> HIDE DEF S, Cut
  <2>1. IsFiniteSet(S) /\ IsFiniteSet(active \ S)
    BY <1>1, FS_Subset
  <2> QED BY <1>1, <2>1, FS_Subset
<1>3. \A i \in S : cut[i] \in Int
  BY <1>1, PercentInt
<1>4. \A i \in active : own[i] \in Int
  BY <1>3
<1>5. \A i \in active : given[i] \in Int
  <2> TAKE i \in active
  <2>1. From(S, to, i) \in SUBSET S /\ given[i] = SumFunctionOnSet(cut, From(S, to, i))
    BY DEF From
  <2> HIDE DEF S, cut, own, to, given
  <2> QED BY <1>2, <1>3, <2>1, SumRules
<1>6. s = [i \in active |-> a[i] + own[i] - given[i]]
  <2>1. \A i \in active : {j \in DOMAIN cut : rule[j].other = i} = From(S, to, i)
    BY DEF From
  <2>2. \A i \in active : own[i] = IF i \in DOMAIN cut THEN cut[i] ELSE 0
    OBVIOUS
  <2> HIDE DEF own, to
  <2> QED BY <2>1, <2>2 DEF Shown
<1>7. SumFunctionOnSet(given, active) = SumFunctionOnSet(cut, Cut)
  <2>1. \A i \in active : given[i] = SumFunctionOnSet(cut, From(S, to, i))
    OBVIOUS
  <2> HIDE DEF S, cut, own, to, given, kept
  <2> QED BY <1>2, <1>3, <2>1, SumByTarget
<1>8. (\A j \in S \ Cut : cut[j] = 0) /\ (\A j \in active \ S : own[j] = 0)
      /\ (\A j \in S : own[j] = cut[j])
  <2>1. \A j \in S \ Cut : cut[j] = 0
    BY DEF Into
  <2>2. \A j \in active \ S : own[j] = 0
    OBVIOUS
  <2>3. \A j \in S : own[j] = cut[j]
    <3> HIDE DEF S, cut
    <3> QED BY <1>1
  <2> QED BY <2>1, <2>2, <2>3
<1>9. \A i \in active : kept[i] = a[i] - given[i] /\ kept[i] \in Int
  <2> HIDE DEF S, cut, own, to, given
  <2> QED BY <1>5
<1> HIDE DEF S, cut, own, to, given, kept, Cut
<1>10. SumFunctionOnSet(own, active) = SumFunctionOnSet(cut, Cut)
  <2>1. SumFunctionOnSet(own, active)
            = SumFunctionOnSet(own, S) + SumFunctionOnSet(own, active \ S)
    <3>1. S \cap (active \ S) = {}
      OBVIOUS
    <3> QED BY <1>1, <1>2, <1>4, <3>1, SumSplit
  <2>2. SumFunctionOnSet(own, active \ S) = 0
    BY <1>1, <1>2, <1>4, <1>8, SumOfNothing
  <2>3. SumFunctionOnSet(cut, S) = SumFunctionOnSet(cut, Cut) + SumFunctionOnSet(cut, S \ Cut)
    <3>1. Cut \cap (S \ Cut) = {}
      OBVIOUS
    <3> QED BY <1>1, <1>2, <1>3, <3>1, SumSplit
  <2>4. SumFunctionOnSet(cut, S \ Cut) = 0
    BY <1>1, <1>2, <1>3, <1>8, SumOfNothing
  <2>5. SumFunctionOnSet(own, S) = SumFunctionOnSet(cut, S)
    BY <1>2, <1>3, <1>8, SumOfSame
  <2>6. /\ SumFunctionOnSet(own, S) \in Int /\ SumFunctionOnSet(cut, Cut) \in Int
    <3>1. S \in SUBSET S
      OBVIOUS
    <3> QED BY <1>1, <1>2, <1>3, <1>4, <3>1, SumRules
  <2> QED BY <2>1, <2>2, <2>3, <2>4, <2>5, <2>6
<1>11. \A i \in active : s[i] = 1 * own[i] + 1 * kept[i] /\ kept[i] = 1 * a[i] + (-1) * given[i]
  BY <1>4, <1>5, <1>6, <1>9
<1>12. SumFunctionOnSet(s, active)
            = 1 * SumFunctionOnSet(own, active) + 1 * SumFunctionOnSet(kept, active)
  BY <1>4, <1>9, <1>11, SumLinear
<1>13. SumFunctionOnSet(kept, active)
            = 1 * SumFunctionOnSet(a, active) + (-1) * SumFunctionOnSet(given, active)
  BY <1>5, <1>11, SumLinear
<1>14. /\ SumFunctionOnSet(a, active) \in Int /\ SumFunctionOnSet(given, active) \in Int
  <2>1. active \in SUBSET active
    OBVIOUS
  <2> QED BY <1>5, <2>1, SumRules
<1>15. s \in [active -> Int]
  BY <1>4, <1>5, <1>6
<1> QED BY <1>7, <1>10, <1>12, <1>13, <1>14, <1>15

(* A profit is shared out without a loss, if no capital is overdrawn and  *)
(* the fixed shares leave a pool.                                          *)
LEMMA GrossNotNegative ==
  ASSUME IsFiniteSet(active), NEW rule \in [active -> Rules], NEW p \in Int, p >= 0,
         NEW capital \in [active -> Int], \A i \in active : capital[i] >= 0,
         Pool(p, rule) >= 0
  PROVE  \A i \in active : Gross(p, rule, capital)[i] \in Int /\ Gross(p, rule, capital)[i] >= 0
<1> DEFINE weight == SumFunctionOnSet(capital, Weighted(rule))
           pool == Pool(p, rule)
           g == Gross(p, rule, capital)
<1>1. weight \in Int /\ pool \in Int /\ g \in [active -> Int]
  BY GrossType
<1> SUFFICES ASSUME NEW i \in active PROVE g[i] \in Int /\ g[i] >= 0
  OBVIOUS
<1>2. g[i] = IF rule[i].mode = "fixed_pct" THEN Percent(p, rule[i])
             ELSE IF i \in Weighted(rule) /\ weight > 0
             THEN Round(pool * capital[i], weight)
             ELSE 0
  BY DEF Gross
<1>3. Percent(p, rule[i]) >= 0
  BY PercentBetween
<1>4. weight > 0 => Round(pool * capital[i], weight) >= 0
  <2> HAVE weight > 0
  <2>1. pool >= 0
    OBVIOUS
  <2> HIDE DEF weight, pool
  <2>2. pool * capital[i] \in Int /\ pool * capital[i] >= 0
    BY <1>1, <2>1, TimesNotNegative
  <2>3. weight \in Nat \ {0} /\ 0 \in Int
    BY <1>1
  <2> QED BY <2>2, <2>3, RoundKeepsOrder
<1>5. g[i] \in Int
  BY <1>1
<1> HIDE DEF weight, pool, g
<1> QED BY <1>2, <1>3, <1>4, <1>5

(* Who does not pay for others is assigned no loss of a profit.            *)
LEMMA AssignedNotNegative ==
  ASSUME IsFiniteSet(active), NEW rule \in [active -> Rules],
         NEW g \in [active -> Int], \A i \in active : g[i] >= 0,
         NEW i \in active, ~PaysForOthers(i, rule)
  PROVE  Assigned(g, rule)[i] \in Int /\ Assigned(g, rule)[i] >= 0
<1> DEFINE residual == Residual(g, rule)
           S == {j \in active : rule[j].other = i}
<1>1. \A j \in S : residual[j] \in Int /\ residual[j] >= 0
  <2> TAKE j \in S
  <2>1. rule[j] \in Rules /\ ~(rule[j].mode = "multiplier" /\ rule[j].pct > 100)
    BY DEF PaysForOthers
  <2>2. Own(g[j], rule[j]) \in Int /\ Own(g[j], rule[j]) <= g[j] /\ g[j] \in Int
    BY <2>1, OwnBetween
  <2>3. residual[j] = g[j] - Own(g[j], rule[j])
    BY DEF Residual
  <2> HIDE DEF residual
  <2> QED BY <2>2, <2>3
<1>2. IsFiniteSet(S)
  BY FS_Subset
<1>3. Assigned(g, rule)[i] = Own(g[i], rule[i]) + SumFunctionOnSet(residual, S)
  BY DEF Assigned
<1>4. Own(g[i], rule[i]) \in Int /\ Own(g[i], rule[i]) >= 0
  BY OwnBetween
<1> HIDE DEF residual, S
<1>5. SumFunctionOnSet(residual, S) \in Int /\ SumFunctionOnSet(residual, S) >= 0
  BY <1>1, <1>2, SumNotNegative
<1> QED BY <1>3, <1>4, <1>5

-----------------------------------------------------------------------------
(* For TLC a function is tabulated; it is the function.                    *)
LEMMA Tabulates == ASSUME NEW f PROVE Tabulated(f) = f
  BY DEF Tabulated

DayBook(f, d) == IF d = 0 THEN Blank ELSE ShareOut(f[d - 1], d)

LEMMA BooksChosen ==
  Books = CHOOSE f : f = [d \in 0..MaxDays |-> DayBook(f, d)]
  BY DEF Books, DayBook

(* There is a book of every day.                                           *)
LEMMA BooksExist == \A n \in Nat : \E f : f = [d \in 0..n |-> DayBook(f, d)]
<1> DEFINE G == {n \in Nat : \E f : f = [d \in 0..n |-> DayBook(f, d)]}
<1>1. 0 \in G
  <2> DEFINE f == [d \in 0..0 |-> Blank]
  <2>1. f = [d \in 0..0 |-> DayBook(f, d)]
    BY DEF DayBook
  <2> HIDE DEF f
  <2> QED BY <2>1
<1>2. ASSUME NEW n \in Nat, n \in G PROVE n + 1 \in G
  <2>1. PICK f : f = [d \in 0..n |-> DayBook(f, d)]
    BY <1>2
  <2> DEFINE g == [d \in 0..(n + 1) |-> IF d \in 0..n THEN f[d] ELSE ShareOut(f[n], n + 1)]
  <2>2. ASSUME NEW d \in 0..(n + 1) PROVE g[d] = DayBook(g, d)
    <3>1. CASE d = n + 1
      <4>1. d # 0 /\ d - 1 = n /\ n \in 0..(n + 1) /\ n \in 0..n /\ d \notin 0..n
        BY <3>1
      <4>2. g[d] = ShareOut(f[n], d) /\ g[d - 1] = f[n]
        BY <3>1, <4>1
      <4> QED BY <4>1, <4>2 DEF DayBook
    <3>2. CASE d \in 0..n /\ d # 0
      <4>1. d - 1 \in 0..n /\ d - 1 \in 0..(n + 1)
        BY <3>2
      <4>2. g[d] = f[d] /\ g[d - 1] = f[d - 1]
        BY <3>2, <4>1
      <4>3. f[d] = DayBook(f, d)
        BY <2>1, <3>2
      <4> HIDE DEF g
      <4> QED BY <3>2, <4>2, <4>3 DEF DayBook
    <3>3. CASE d = 0
      <4>1. g[d] = f[d] /\ f[d] = DayBook(f, d)
        BY <2>1, <3>3
      <4> QED BY <3>3, <4>1 DEF DayBook
    <3> QED BY <3>1, <3>2, <3>3
  <2>3. g = [d \in 0..(n + 1) |-> DayBook(g, d)]
    <3>1. g = [d \in 0..(n + 1) |-> g[d]]
      OBVIOUS
    <3> HIDE DEF g
    <3> QED BY <2>2, <3>1
  <2> HIDE DEF g
  <2> QED BY <2>3
<1>3. Nat \subseteq G
  <2> HIDE DEF G
  <2> QED BY <1>1, <1>2, CountingInduction
<1> QED BY <1>3

(* Books is the function its definition describes, as far as days go.      *)
LEMMA BooksUnfold ==
  /\ Books[0] = Blank
  /\ \A d \in 1..MaxDays : Books[d] = ShareOut(Books[d - 1], d)
<1>1. Books = [d \in 0..MaxDays |-> DayBook(Books, d)]
  <2>1. MaxDays \in Nat
    BY BoundsAssumption
  <2> QED BY <2>1, BooksChosen, BooksExist
<1>2. ASSUME NEW d \in 0..MaxDays PROVE Books[d] = DayBook(Books, d)
  BY <1>1, <1>2
<1> QED BY <1>2, BoundsAssumption DEF DayBook

(* The days of the snapshots, and what the constants say of the investors. *)
LEMMA DaysOfTheBooks ==
  ASSUME TypeOK
  PROVE  /\ LastDay \in 1..MaxDays /\ MaxDays \in Nat /\ LastDay - 1 \in 0..MaxDays
         /\ \A d \in 1..LastDay : d \in Days /\ pnl[d] \in Int
         /\ IsFiniteSet(active) /\ active \subseteq Investors
         /\ Cardinality(active) \in Nat /\ Cardinality(Investors) \in Nat
         /\ Cardinality(active) <= Cardinality(Investors)
<1>1. LastDay \in 1..MaxDays /\ MaxDays \in Nat
  BY BoundsAssumption DEF TypeOK, Days
<1>2. \A d \in 1..LastDay : pnl[d] \in Profits \cup {0}
  BY DEF TypeOK, LastDay
<1>3. active \subseteq Investors
  BY DEF TypeOK
<1>4. ASSUME NEW d \in 1..LastDay PROVE d \in Days /\ pnl[d] \in Int
  <2>1. d \in Days
    BY <1>1 DEF Days
  <2>2. pnl[d] \in Profits \cup {0}
    BY <1>2, <1>4
  <2>3. Profits \cup {0} \subseteq Int
    BY ProfitsAssumption
  <2> QED BY <2>1, <2>2, <2>3
<1>5. /\ IsFiniteSet(active) /\ Cardinality(active) \in Nat
      /\ Cardinality(Investors) \in Nat /\ Cardinality(active) <= Cardinality(Investors)
  BY <1>3, FS_Subset, FS_CardinalityType, InvestorsAssumption
<1> QED BY <1>1, <1>3, <1>4, <1>5

(* Whatever is dated and deleted, there is an agreement in force each day. *)
LEMMA ResolvedIsRule ==
  ASSUME TypeOK, NEW i \in Investors, NEW d \in 1..LastDay
  PROVE  Resolved(i, d) \in Rules
<1> DEFINE from == {k \in 1..d : d <= dated[i][k].until}
<1>1. default[i] \in Rules
  BY DEF TypeOK
<1>2. ASSUME NEW k \in from PROVE dated[i][k].rule \in Rules
  <2>1. k \in Days /\ d \in Nat /\ 1 <= d
    BY DaysOfTheBooks DEF Days
  <2>2. dated[i][k] \in Terms \cup {NoRule}
    BY <2>1 DEF TypeOK
  <2>3. dated[i][k] # NoRule
    BY <2>1 DEF NoRule
  <2> QED BY <2>2, <2>3 DEF Terms
<1>3. from # {} => Max(from) \in from
  <2>1. IsFiniteSet(1..d) /\ 1..d \subseteq Int /\ from \in SUBSET (1..d)
    BY FS_Interval
  <2> HIDE DEF from
  <2> QED BY <2>1, MaxIsOne
<1>4. Resolved(i, d) = IF from = {} THEN default[i] ELSE dated[i][Max(from)].rule
  BY DEF Resolved
<1> HIDE DEF from
<1> QED BY <1>1, <1>2, <1>3, <1>4

(* What is banked, and the equity of a rebuild, of any transactions and    *)
(* adjustments: those of the state and of the next one alike.              *)
Flows == [Days -> [Investors -> Flow]]
NetOf(flows, i, k) == flows[k][i].in - flows[k][i].out
NetsOf(flows, i, d) == [k \in 1..d |-> NetOf(flows, i, k)]
PapersOf(flows, i, d) == [k \in 1..d |-> flows[k][i].paper]
BankedOf(flows, i, d) == SumFunction(NetsOf(flows, i, d)) - SumFunction(PapersOf(flows, i, d))
AllBanked(flows, d) == [i \in Investors |-> BankedOf(flows, i, d)]
Known(adjs, d) == {u \in adjs : u.counted /\ u.day <= d}
UnlinkedOf(adjs, d) == SumFunction([adj \in Known(adjs, d) |-> adj.amount])
TotalOf(profits, flows, adjs) ==
    Opening + SumFunction(profits) + UnlinkedOf(adjs, Len(profits))
        + SumFunction(AllBanked(flows, Len(profits)))

LEMMA DaySums ==
  ASSUME NEW flows \in Flows, NEW i \in Investors, NEW d \in Days
  PROVE  /\ IsFiniteSet(1..d) /\ 1..d \subseteq Days
         /\ \A k \in 1..d : /\ NetsOf(flows, i, d)[k] = NetOf(flows, i, k)
                           /\ NetsOf(flows, i, d)[k] \in Int
                           /\ PapersOf(flows, i, d)[k] = flows[k][i].paper
                           /\ PapersOf(flows, i, d)[k] \in Int
         /\ SumFunction(NetsOf(flows, i, d)) = SumFunctionOnSet(NetsOf(flows, i, d), 1..d)
         /\ SumFunction(NetsOf(flows, i, d)) \in Int
         /\ SumFunction(PapersOf(flows, i, d)) = SumFunctionOnSet(PapersOf(flows, i, d), 1..d)
         /\ SumFunction(PapersOf(flows, i, d)) \in Int
         /\ BankedOf(flows, i, d) \in Int
<1>1. IsFiniteSet(1..d) /\ 1..d \subseteq Days /\ 1..d \in SUBSET (1..d)
  BY FS_Interval, BoundsAssumption DEF Days
<1>2. \A k \in 1..d : flows[k][i] \in Flow
  BY <1>1 DEF Flows
<1>3. \A k \in 1..d : /\ NetsOf(flows, i, d)[k] = NetOf(flows, i, k)
                      /\ NetsOf(flows, i, d)[k] \in Int
                      /\ PapersOf(flows, i, d)[k] = flows[k][i].paper
                      /\ PapersOf(flows, i, d)[k] \in Int
  BY <1>2 DEF Flow, NetsOf, NetOf, PapersOf
<1>4. /\ SumFunction(NetsOf(flows, i, d)) = SumFunctionOnSet(NetsOf(flows, i, d), 1..d)
      /\ SumFunction(PapersOf(flows, i, d)) = SumFunctionOnSet(PapersOf(flows, i, d), 1..d)
  BY DEF SumFunction, NetsOf, PapersOf
<1>5. /\ SumFunctionOnSet(NetsOf(flows, i, d), 1..d) \in Int
      /\ SumFunctionOnSet(PapersOf(flows, i, d), 1..d) \in Int
  BY <1>1, <1>3, SumRules
<1>6. BankedOf(flows, i, d) \in Int
  BY <1>4, <1>5 DEF BankedOf
<1> QED BY <1>1, <1>3, <1>4, <1>5, <1>6

LEMMA ExternalInt ==
  ASSUME TypeOK, NEW i \in Investors, NEW d \in Days
  PROVE  External(i, d) \in Int /\ Late(i, d) \in Int /\ Paper(i, d) \in Int
<1>1. flow \in Flows
  BY DEF TypeOK, Flows
<1>2. flow[d][i] \in Flow
  BY <1>1 DEF Flows
<1>3. Late(i, d) \in Int
  BY <1>2 DEF Late, Flow
<1>4. [k \in 1..d |-> Net(i, k)] = NetsOf(flow, i, d)
  BY DEF NetsOf, NetOf, Net
<1>5. SumFunction(NetsOf(flow, i, d)) \in Int /\ SumFunction(PapersOf(flow, i, d)) \in Int
  BY <1>1, DaySums
<1>6. Paper(i, d) \in Int
  BY <1>5 DEF Paper, PapersOf
<1>7. External(i, d) = SumFunction(NetsOf(flow, i, d)) - Late(i, d)
  BY <1>4 DEF External
<1> QED BY <1>3, <1>5, <1>6, <1>7

(* What the ledger and the report know of an investor differs by what is   *)
(* late and what is on paper only.                                         *)
LEMMA BankedIs ==
  ASSUME TypeOK, NEW i \in Investors, NEW d \in Days
  PROVE  /\ Banked(i, d) = BankedOf(flow, i, d) /\ Banked(i, d) \in Int
         /\ Banked(i, d) = External(i, d) + (Late(i, d) - Paper(i, d))
<1>1. flow \in Flows
  BY DEF TypeOK, Flows
<1> DEFINE n == SumFunction(NetsOf(flow, i, d))
<1>2. [k \in 1..d |-> Net(i, k)] = NetsOf(flow, i, d)
  BY DEF NetsOf, NetOf, Net
<1>3. Paper(i, d) = SumFunction(PapersOf(flow, i, d))
  BY DEF Paper, PapersOf
<1>4. n \in Int /\ Paper(i, d) \in Int /\ Late(i, d) \in Int
  BY <1>1, DaySums, ExternalInt
<1>5. /\ Banked(i, d) = n - Paper(i, d) /\ External(i, d) = n - Late(i, d)
      /\ BankedOf(flow, i, d) = n - Paper(i, d)
  BY <1>2, <1>3 DEF Banked, External, BankedOf
<1> HIDE DEF n
<1> QED BY <1>4, <1>5

(* The parts of a day's share-out.                                         *)
DayCapital(book, d) == [i \in active |-> External(i, d) + book.assigned[i]]
DayGross(book, d) == Gross(pnl[d], RulesOf(d), DayCapital(book, d))
DayAssigned(book, d) == Assigned(DayGross(book, d), RulesOf(d))
DayShown(book, d) == Shown(DayAssigned(book, d), RulesOf(d))
DayLost(book, d) ==
    SumFunctionOnSet(Residual(DayGross(book, d), RulesOf(d)),
                     {i \in active : RulesOf(d)[i].other \notin active})
DayUnassigned(book, d) ==
    IF SumFunctionOnSet(DayCapital(book, d), Weighted(RulesOf(d))) > 0 THEN 0
    ELSE Pool(pnl[d], RulesOf(d))

(* A share-out adds these parts to the totals.                             *)
LEMMA ShareOutIs ==
  ASSUME NEW book, NEW d
  PROVE  ShareOut(book, d) =
           [assigned |-> [i \in active |-> book.assigned[i] + DayAssigned(book, d)[i]],
            shown |-> [i \in active |-> book.shown[i] + DayShown(book, d)[i]],
            lost |-> book.lost + DayLost(book, d),
            unassigned |-> book.unassigned + DayUnassigned(book, d)]
<1> DEFINE rule == Tabulated(RulesOf(d))
           capital == Tabulated([i \in active |-> External(i, d) + book.assigned[i]])
           gross == Tabulated(Gross(pnl[d], rule, capital))
           assigned == Tabulated(Assigned(gross, rule))
<1>1. rule = RulesOf(d)
  BY Tabulates
<1>2. capital = DayCapital(book, d)
  BY Tabulates DEF DayCapital
<1>3. gross = DayGross(book, d)
  <2> HIDE DEF rule, capital
  <2> QED BY <1>1, <1>2, Tabulates DEF DayGross
<1>4. assigned = DayAssigned(book, d)
  <2> HIDE DEF rule, gross
  <2> QED BY <1>1, <1>3, Tabulates DEF DayAssigned
<1> HIDE DEF rule, capital, gross, assigned
<1>5. ShareOut(book, d) =
        [assigned |-> Tabulated([i \in active |-> book.assigned[i] + assigned[i]]),
         shown |-> Tabulated([i \in active |-> book.shown[i] + Shown(assigned, rule)[i]]),
         lost |-> book.lost + SumFunctionOnSet(Residual(gross, rule),
                                               {i \in active : rule[i].other \notin active}),
         unassigned |-> book.unassigned +
            IF SumFunctionOnSet(capital, Weighted(rule)) > 0 THEN 0 ELSE Pool(pnl[d], rule)]
  BY DEF ShareOut, rule, capital, gross, assigned
<1>6. /\ Tabulated([i \in active |-> book.assigned[i] + assigned[i]])
            = [i \in active |-> book.assigned[i] + assigned[i]]
      /\ Tabulated([i \in active |-> book.shown[i] + Shown(assigned, rule)[i]])
            = [i \in active |-> book.shown[i] + Shown(assigned, rule)[i]]
  BY Tabulates
<1> QED BY <1>1, <1>2, <1>3, <1>4, <1>5, <1>6 DEF DayShown, DayLost, DayUnassigned

(* What the totals are, and what they account for.                         *)
IsBook(book) ==
    /\ book.assigned \in [active -> Int] /\ book.shown \in [active -> Int]
    /\ book.lost \in Int /\ book.unassigned \in Int

Given(book) == SumFunctionOnSet(book.assigned, active) + book.lost + book.unassigned

LEMMA DayType ==
  ASSUME TypeOK, NEW d \in 1..LastDay, NEW book, IsBook(book)
  PROVE  /\ RulesOf(d) \in [active -> Rules]
         /\ DayCapital(book, d) \in [active -> Int]
<1>1. ASSUME NEW i \in active PROVE Resolved(i, d) \in Rules /\ External(i, d) \in Int
  <2>1. i \in Investors /\ d \in Days
    BY DaysOfTheBooks
  <2> QED BY <2>1, ResolvedIsRule, ExternalInt
<1>2. RulesOf(d) \in [active -> Rules]
  BY <1>1 DEF RulesOf
<1>3. DayCapital(book, d) \in [active -> Int]
  <2>1. \A i \in active : book.assigned[i] \in Int
    BY DEF IsBook
  <2> QED BY <1>1, <2>1 DEF DayCapital
<1> QED BY <1>2, <1>3

(* What a day's profit becomes: all of it is somebody's, lost or           *)
(* unassigned, but for half a step an investor.                            *)
LEMMA DayAddsUp ==
  ASSUME TypeOK, NEW d \in 1..LastDay, NEW book, IsBook(book)
  PROVE  LET p == pnl[d]
             a == DayAssigned(book, d)
             s == DayShown(book, d)
             off == SumFunctionOnSet(a, active) + DayLost(book, d) + DayUnassigned(book, d) - p
         IN  /\ a \in [active -> Int] /\ s \in [active -> Int]
             /\ DayLost(book, d) \in Int /\ DayUnassigned(book, d) \in Int
             /\ SumFunctionOnSet(a, active) \in Int
             /\ SumFunctionOnSet(s, active) = SumFunctionOnSet(a, active)
             /\ off \in Int
             /\ -Cardinality(Investors) <= 2 * off /\ 2 * off <= Cardinality(Investors)
<1> DEFINE p == pnl[d]
           rule == RulesOf(d)
           capital == DayCapital(book, d)
           g == DayGross(book, d)
           a == DayAssigned(book, d)
           s == DayShown(book, d)
           lost == DayLost(book, d)
           unassigned == DayUnassigned(book, d)
           weight == SumFunctionOnSet(capital, Weighted(rule))
           pool == Pool(p, rule)
<1>1. /\ rule \in [active -> Rules] /\ capital \in [active -> Int]
      /\ p \in Int /\ IsFiniteSet(active) /\ active \in SUBSET active
  BY DayType, DaysOfTheBooks
<1>2. /\ g = Gross(p, rule, capital) /\ a = Assigned(g, rule) /\ s = Shown(a, rule)
      /\ lost = SumFunctionOnSet(Residual(g, rule), {i \in active : rule[i].other \notin active})
      /\ unassigned = IF weight > 0 THEN 0 ELSE pool
  BY DEF DayGross, DayAssigned, DayShown, DayLost, DayUnassigned
<1> HIDE DEF p, rule, capital, g, a, s, lost, unassigned
<1>3. /\ g \in [active -> Int] /\ weight \in Int /\ pool \in Int
  BY <1>1, <1>2, GrossType
<1>4. /\ SumFunctionOnSet(g, active) \in Int
      /\ IF weight > 0
         THEN /\ -Cardinality(active) <= 2 * (SumFunctionOnSet(g, active) - p)
              /\ 2 * (SumFunctionOnSet(g, active) - p) <= Cardinality(active)
         ELSE SumFunctionOnSet(g, active) + pool = p
  BY <1>1, <1>2, GrossAddsUp
<1>5. /\ a \in [active -> Int] /\ lost \in Int
      /\ SumFunctionOnSet(a, active) + lost = SumFunctionOnSet(g, active)
  BY <1>1, <1>2, <1>3, AssignedAddsUp
<1>6. /\ s \in [active -> Int] /\ SumFunctionOnSet(s, active) = SumFunctionOnSet(a, active)
  BY <1>1, <1>2, <1>5, ShownAddsUp
<1>7. SumFunctionOnSet(a, active) \in Int
  BY <1>1, <1>5, SumRules
<1>8. unassigned \in Int /\ (weight > 0 => unassigned = 0) /\ (~(weight > 0) => unassigned = pool)
  BY <1>2, <1>3
<1> DEFINE off == SumFunctionOnSet(a, active) + lost + unassigned - p
<1> HIDE DEF weight, pool
<1>9. off \in Int
  BY <1>1, <1>5, <1>7, <1>8
<1>10. -Cardinality(Investors) <= 2 * off /\ 2 * off <= Cardinality(Investors)
  <2>1. /\ Cardinality(active) <= Cardinality(Investors)
        /\ Cardinality(active) \in Nat /\ Cardinality(Investors) \in Nat
    BY DaysOfTheBooks
  <2>2. CASE weight > 0
    <3>1. off = SumFunctionOnSet(g, active) - p
      BY <1>1, <1>4, <1>5, <1>7, <1>8, <2>2
    <3> HIDE DEF off
    <3> QED BY <1>1, <1>4, <2>1, <2>2, <3>1
  <2>3. CASE ~(weight > 0)
    <3>1. off = 0
      BY <1>1, <1>4, <1>5, <1>7, <1>8, <2>3
    <3> HIDE DEF off
    <3> QED BY <2>1, <3>1
  <2> QED BY <2>2, <2>3
<1> QED BY <1>5, <1>6, <1>7, <1>8, <1>9, <1>10 DEF p, a, s, lost, unassigned

(* The same of the totals, which the day adds to.                          *)
LEMMA ShareOutAddsUp ==
  ASSUME TypeOK, NEW d \in 1..LastDay, NEW book, IsBook(book),
         NEW next, next = ShareOut(book, d)
  PROVE  /\ IsBook(next)
         /\ Given(book) \in Int /\ Given(next) \in Int
         /\ -Cardinality(Investors) <= 2 * (Given(next) - Given(book) - pnl[d])
         /\ 2 * (Given(next) - Given(book) - pnl[d]) <= Cardinality(Investors)
         /\ SumFunctionOnSet(next.assigned, active) - SumFunctionOnSet(next.shown, active)
              = SumFunctionOnSet(book.assigned, active) - SumFunctionOnSet(book.shown, active)
<1> DEFINE a == DayAssigned(book, d)
           s == DayShown(book, d)
           lost == DayLost(book, d)
           unassigned == DayUnassigned(book, d)
           Tot(f) == SumFunctionOnSet(f, active)
<1>1. /\ next.assigned = [i \in active |-> book.assigned[i] + a[i]]
      /\ next.shown = [i \in active |-> book.shown[i] + s[i]]
      /\ next.lost = book.lost + lost
      /\ next.unassigned = book.unassigned + unassigned
  BY ShareOutIs
<1>2. /\ a \in [active -> Int] /\ s \in [active -> Int] /\ lost \in Int /\ unassigned \in Int
      /\ Tot(a) \in Int /\ Tot(s) = Tot(a)
      /\ -Cardinality(Investors) <= 2 * (Tot(a) + lost + unassigned - pnl[d])
      /\ 2 * (Tot(a) + lost + unassigned - pnl[d]) <= Cardinality(Investors)
  BY DayAddsUp
<1>3. /\ pnl[d] \in Int /\ IsFiniteSet(active) /\ active \in SUBSET active
      /\ Cardinality(Investors) \in Nat
  BY DaysOfTheBooks
<1> HIDE DEF a, s, lost, unassigned
<1>4. /\ book.assigned \in [active -> Int] /\ book.shown \in [active -> Int]
      /\ book.lost \in Int /\ book.unassigned \in Int
  BY DEF IsBook
<1>5. /\ next.assigned \in [active -> Int] /\ next.shown \in [active -> Int]
      /\ next.lost \in Int /\ next.unassigned \in Int
  BY <1>1, <1>2, <1>4
<1>6. ASSUME NEW i \in active
      PROVE  /\ next.assigned[i] = 1 * book.assigned[i] + 1 * a[i]
             /\ next.shown[i] = 1 * book.shown[i] + 1 * s[i]
  <2>1. book.assigned[i] \in Int /\ a[i] \in Int /\ book.shown[i] \in Int /\ s[i] \in Int
    BY <1>2, <1>4
  <2>2. /\ next.assigned[i] = book.assigned[i] + a[i]
        /\ next.shown[i] = book.shown[i] + s[i]
    BY <1>1
  <2> QED BY <2>1, <2>2
<1>7. /\ Tot(next.assigned) = 1 * Tot(book.assigned) + 1 * Tot(a)
      /\ Tot(next.shown) = 1 * Tot(book.shown) + 1 * Tot(s)
  <2>1. \A i \in active : book.assigned[i] \in Int /\ a[i] \in Int
                          /\ book.shown[i] \in Int /\ s[i] \in Int
    BY <1>2, <1>4
  <2>2. Tot(next.assigned) = 1 * Tot(book.assigned) + 1 * Tot(a)
    BY <1>3, <1>6, <2>1, SumLinear
  <2>3. Tot(next.shown) = 1 * Tot(book.shown) + 1 * Tot(s)
    BY <1>3, <1>6, <2>1, SumLinear
  <2> QED BY <2>2, <2>3
<1>8. Tot(book.assigned) \in Int /\ Tot(book.shown) \in Int
  <2>1. \A i \in active : book.assigned[i] \in Int /\ book.shown[i] \in Int
    BY <1>4
  <2> QED BY <1>3, <2>1, SumRules
<1>9. /\ Given(book) = Tot(book.assigned) + book.lost + book.unassigned
      /\ Given(next) = Tot(next.assigned) + next.lost + next.unassigned
  BY DEF Given
<1>10. Given(next) - Given(book) - pnl[d] = Tot(a) + lost + unassigned - pnl[d]
  BY <1>1, <1>2, <1>3, <1>4, <1>7, <1>8, <1>9
<1>11. Given(book) \in Int /\ Given(next) \in Int
  BY <1>2, <1>4, <1>5, <1>7, <1>8, <1>9
<1>12. Tot(next.assigned) - Tot(next.shown) = Tot(book.assigned) - Tot(book.shown)
  BY <1>2, <1>7, <1>8
<1>13. IsBook(next)
  BY <1>5 DEF IsBook
<1> QED BY <1>2, <1>10, <1>11, <1>12, <1>13

(* What the days up to d have earned.                                      *)
Earned(d) == SumFunctionOnSet(pnl, 1..d)

LEMMA EarnedUnfold ==
  ASSUME TypeOK
  PROVE  /\ Earned(0) = 0
         /\ \A d \in 0..LastDay : Earned(d) \in Int
         /\ \A d \in 1..LastDay : Earned(d) = pnl[d] + Earned(d - 1)
<1> DEFINE D == 1..LastDay
<1>1. IsFiniteSet(D) /\ \A d \in D : pnl[d] \in Int
  BY DaysOfTheBooks, FS_Interval
<1>2. LastDay \in Nat /\ 1..0 = {}
  BY DaysOfTheBooks
<1>3. \A d \in 0..LastDay : 1..d \in SUBSET D
  BY <1>2
<1>4. \A d \in D : d \in 1..d /\ (1..d) \ {d} = 1..(d - 1) /\ d \in 0..LastDay
  BY <1>2
<1> HIDE DEF D
<1>5. /\ SumFunctionOnSet(pnl, {}) = 0
      /\ \A T \in SUBSET D : SumFunctionOnSet(pnl, T) \in Int
      /\ \A T \in SUBSET D : \A x \in T :
           SumFunctionOnSet(pnl, T) = pnl[x] + SumFunctionOnSet(pnl, T \ {x})
  BY <1>1, SumRules
<1>6. Earned(0) = 0
  BY <1>2, <1>5 DEF Earned
<1>7. ASSUME NEW d \in 0..LastDay PROVE Earned(d) \in Int
  BY <1>3, <1>5, <1>7 DEF Earned
<1>8. ASSUME NEW d \in D PROVE Earned(d) = pnl[d] + Earned(d - 1)
  <2> DEFINE T == 1..d
  <2>1. T \in SUBSET D /\ d \in T /\ T \ {d} = 1..(d - 1)
    BY <1>3, <1>4
  <2>2. SumFunctionOnSet(pnl, T) = pnl[d] + SumFunctionOnSet(pnl, T \ {d})
    <3> HIDE DEF T
    <3> QED BY <1>5, <2>1
  <2> QED BY <2>1, <2>2 DEF Earned
<1> QED BY <1>6, <1>7, <1>8 DEF D

LEMMA BlankIsBook ==
  ASSUME IsFiniteSet(active)
  PROVE  /\ IsBook(Blank) /\ Given(Blank) = 0
         /\ SumFunctionOnSet(Blank.assigned, active) = SumFunctionOnSet(Blank.shown, active)
<1> DEFINE f == [i \in active |-> 0]
<1>1. Blank.assigned = f /\ Blank.shown = f /\ Blank.lost = 0 /\ Blank.unassigned = 0
  BY DEF Blank
<1>2. f \in [active -> Int] /\ \A i \in active : f[i] = 0
  OBVIOUS
<1> HIDE DEF f
<1>3. SumFunctionOnSet(f, active) = 0
  BY <1>2, SumOfNothing
<1> QED BY <1>1, <1>2, <1>3 DEF IsBook, Given

(* And of the totals after every day: the errors add up, no more.          *)
LEMMA BooksAddUp ==
  ASSUME TypeOK, NEW d \in 0..LastDay
  PROVE  /\ IsBook(Books[d]) /\ Given(Books[d]) \in Int
         /\ -(d * Cardinality(Investors)) <= 2 * (Given(Books[d]) - Earned(d))
         /\ 2 * (Given(Books[d]) - Earned(d)) <= d * Cardinality(Investors)
         /\ SumFunctionOnSet(Books[d].assigned, active) = SumFunctionOnSet(Books[d].shown, active)
<1> DEFINE c == Cardinality(Investors)
           Good(n) == /\ IsBook(Books[n]) /\ Given(Books[n]) \in Int
                      /\ -(n * c) <= 2 * (Given(Books[n]) - Earned(n))
                      /\ 2 * (Given(Books[n]) - Earned(n)) <= n * c
                      /\ SumFunctionOnSet(Books[n].assigned, active)
                           = SumFunctionOnSet(Books[n].shown, active)
           G == {n \in Nat : n <= LastDay => Good(n)}
<1>1. /\ LastDay \in 1..MaxDays /\ MaxDays \in Nat /\ c \in Nat /\ IsFiniteSet(active)
      /\ \A n \in 1..LastDay : pnl[n] \in Int
  BY DaysOfTheBooks
<1>2. Good(0)
  <2>1. Books[0] = Blank
    BY BooksUnfold
  <2>2. 0 * c = 0
    BY <1>1
  <2> QED BY <1>1, <2>1, <2>2, BlankIsBook, EarnedUnfold
<1>3. ASSUME NEW n \in Nat, n \in G, n + 1 <= LastDay PROVE Good(n + 1)
  <2>1. n + 1 \in 1..LastDay /\ n + 1 \in 1..MaxDays /\ n \in 0..LastDay /\ (n + 1) - 1 = n
    BY <1>1, <1>3
  <2>2. Good(n)
    BY <1>3, <2>1
  <2>3. Books[n + 1] = ShareOut(Books[n], n + 1)
    BY <2>1, BooksUnfold
  <2>4. /\ Earned(n + 1) = pnl[n + 1] + Earned(n) /\ Earned(n) \in Int /\ pnl[n + 1] \in Int
    BY <1>1, <2>1, EarnedUnfold
  <2> DEFINE b == Books[n]
             b2 == Books[n + 1]
  <2>5. /\ IsBook(b) /\ Given(b) \in Int
        /\ -(n * c) <= 2 * (Given(b) - Earned(n)) /\ 2 * (Given(b) - Earned(n)) <= n * c
        /\ SumFunctionOnSet(b.assigned, active) = SumFunctionOnSet(b.shown, active)
    BY <2>2
  <2> HIDE DEF b, b2, c
  <2>6. /\ IsBook(b2) /\ Given(b2) \in Int
        /\ -c <= 2 * (Given(b2) - Given(b) - pnl[n + 1])
        /\ 2 * (Given(b2) - Given(b) - pnl[n + 1]) <= c
        /\ SumFunctionOnSet(b2.assigned, active) - SumFunctionOnSet(b2.shown, active)
             = SumFunctionOnSet(b.assigned, active) - SumFunctionOnSet(b.shown, active)
    <3>1. b2 = ShareOut(b, n + 1)
      BY <2>3 DEF b, b2
    <3> QED BY <2>1, <2>5, <3>1, ShareOutAddsUp DEF c
  <2>7. (n + 1) * c = n * c + c /\ n * c \in Int
    BY <1>1
  <2>8. /\ -((n + 1) * c) <= 2 * (Given(b2) - Earned(n + 1))
        /\ 2 * (Given(b2) - Earned(n + 1)) <= (n + 1) * c
    BY <1>1, <2>4, <2>5, <2>6, <2>7
  <2>9. SumFunctionOnSet(b2.assigned, active) = SumFunctionOnSet(b2.shown, active)
    <3>1. /\ SumFunctionOnSet(b.assigned, active) \in Int /\ SumFunctionOnSet(b2.assigned, active) \in Int
          /\ SumFunctionOnSet(b.shown, active) \in Int /\ SumFunctionOnSet(b2.shown, active) \in Int
      <4>1. /\ active \in SUBSET active
            /\ \A i \in active : /\ b.assigned[i] \in Int /\ b.shown[i] \in Int
                                 /\ b2.assigned[i] \in Int /\ b2.shown[i] \in Int
        BY <2>5, <2>6 DEF IsBook
      <4> QED BY <1>1, <4>1, SumRules
    <3> QED BY <2>5, <2>6, <3>1
  <2> QED BY <2>6, <2>8, <2>9 DEF b2
<1>4. Nat \subseteq G
  <2>1. 0 \in G /\ \A n \in Nat : n \in G => n + 1 \in G
    <3>1. 0 \in G
      BY <1>2
    <3>2. ASSUME NEW n \in Nat, n \in G PROVE n + 1 \in G
      BY <1>3, <3>2
    <3> QED BY <3>1, <3>2
  <2> HIDE DEF G
  <2> QED BY <2>1, CountingInduction
<1>5. d \in Nat /\ d <= LastDay
  BY <1>1
<1>6. Good(d)
  BY <1>4, <1>5
<1> QED BY <1>6

-----------------------------------------------------------------------------
LEMMA UnlinkedInt ==
  ASSUME NEW adjs \in SUBSET Adjustments, IsFiniteSet(adjs), NEW d
  PROVE  UnlinkedOf(adjs, d) \in Int
<1> DEFINE U == Known(adjs, d)
           f == [adj \in U |-> adj.amount]
<1>1. IsFiniteSet(U) /\ U \in SUBSET U
  BY FS_Subset DEF Known
<1>2. \A u \in U : f[u] \in Int
  BY DEF Known, Adjustments
<1>3. UnlinkedOf(adjs, d) = SumFunctionOnSet(f, U)
  BY DEF UnlinkedOf, SumFunction
<1> HIDE DEF U, f
<1>4. SumFunctionOnSet(f, U) \in Int
  BY <1>1, <1>2, SumRules
<1> QED BY <1>3, <1>4

(* The equity that is stored and what was booked since are what a rebuild  *)
(* would find now.                                                         *)
IInv ==
    /\ TypeOK /\ IsFiniteSet(unlinked)
    /\ equity + since = TotalOf(pnl, flow, unlinked)

LEMMA Reconciles == IInv => ReconcilesToEquity
<1> SUFFICES ASSUME IInv PROVE ReconcilesToEquity
  OBVIOUS
<1> USE DEF IInv
<1> DEFINE book == Books[LastDay]
           bank == [i \in Investors |-> Banked(i, LastDay)]
           ext == [i \in active |-> External(i, LastDay)]
           gap == [i \in active |-> Late(i, LastDay) - Paper(i, LastDay)]
           eco == [i \in active |-> Economic(i, book)]
           Of(f, I) == SumFunctionOnSet(f, I)
           c == Cardinality(Investors)
<1>1. /\ LastDay \in 0..LastDay /\ LastDay \in Days /\ LastDay \in Nat
      /\ IsFiniteSet(active) /\ active \subseteq Investors /\ c \in Nat
      /\ IsFiniteSet(Investors) /\ IsFiniteSet(Investors \ active)
  <2>1. IsFiniteSet(Investors)
    BY InvestorsAssumption
  <2>2. LastDay \in 1..MaxDays /\ MaxDays \in Nat
    BY DaysOfTheBooks
  <2>3. IsFiniteSet(active) /\ active \subseteq Investors /\ c \in Nat
    BY DaysOfTheBooks
  <2>4. IsFiniteSet(Investors \ active)
    BY <2>1, FS_Subset
  <2> QED BY <2>1, <2>2, <2>3, <2>4 DEF Days
<1>2. /\ IsBook(book) /\ Given(book) \in Int
      /\ -(LastDay * c) <= 2 * (Given(book) - Earned(LastDay))
      /\ 2 * (Given(book) - Earned(LastDay)) <= LastDay * c
  BY <1>1, BooksAddUp
<1>3. SumFunction(pnl) = Earned(LastDay) /\ Earned(LastDay) \in Int
  <2>1. DOMAIN pnl = 1..LastDay
    BY DEF TypeOK, LastDay
  <2>2. SumFunction(pnl) = Earned(LastDay)
    BY <2>1 DEF SumFunction, Earned
  <2> QED BY <1>1, <2>2, EarnedUnfold
<1> HIDE DEF book, c
<1>4. /\ \A i \in Investors : bank[i] \in Int
      /\ \A i \in active : /\ ext[i] \in Int /\ gap[i] \in Int
                           /\ bank[i] = ext[i] + gap[i]
  <2>1. \A i \in Investors : bank[i] \in Int
    BY <1>1, BankedIs
  <2>2. ASSUME NEW i \in active
        PROVE  ext[i] \in Int /\ gap[i] \in Int /\ bank[i] = ext[i] + gap[i]
    <3>1. i \in Investors
      BY <1>1
    <3>2. External(i, LastDay) \in Int /\ Late(i, LastDay) \in Int /\ Paper(i, LastDay) \in Int
      BY <1>1, <3>1, ExternalInt
    <3>3. Banked(i, LastDay) = External(i, LastDay) + (Late(i, LastDay) - Paper(i, LastDay))
      BY <1>1, <3>1, BankedIs
    <3> QED BY <3>1, <3>2, <3>3
  <2> QED BY <2>1, <2>2
<1>5. \A i \in active : /\ book.assigned[i] \in Int
                        /\ eco[i] = 1 * ext[i] + 1 * book.assigned[i]
  <2> TAKE i \in active
  <2>1. book.assigned[i] \in Int /\ ext[i] \in Int
    BY <1>1, <1>2, <1>4 DEF IsBook
  <2>2. eco[i] = ext[i] + book.assigned[i]
    BY <1>1 DEF Economic
  <2> HIDE DEF eco, ext
  <2> QED BY <2>1, <2>2
<1>6. SumFunction([i \in Investors \ active |-> Banked(i, LastDay)]) = Of(bank, Investors \ active)
  <2> DEFINE f == [i \in Investors \ active |-> Banked(i, LastDay)]
  <2> DEFINE rest == Investors \ active
  <2>1. IsFiniteSet(rest) /\ \A i \in rest : bank[i] \in Int /\ f[i] = bank[i]
    BY <1>1, <1>4
  <2>2. SumFunction(f) = SumFunctionOnSet(f, Investors \ active)
    BY DEF SumFunction
  <2> HIDE DEF f, bank, rest
  <2>3. SumFunctionOnSet(f, rest) = SumFunctionOnSet(bank, rest)
    BY <2>1, SumOfSame
  <2> QED BY <2>2, <2>3 DEF f, rest
<1>7. /\ SumFunction(AllBanked(flow, LastDay)) = Of(bank, Investors)
      /\ SumFunction(gap) = Of(gap, active) /\ SumFunction(eco) = Of(eco, active)
  <2>1. AllBanked(flow, LastDay) = bank
    BY <1>1, BankedIs DEF AllBanked
  <2> QED BY <2>1 DEF SumFunction
<1>8. UnlinkedOf(unlinked, LastDay) \in Int /\ Unlinked(LastDay) = UnlinkedOf(unlinked, LastDay)
  <2>1. unlinked \in SUBSET Adjustments
    BY DEF TypeOK
  <2> QED BY <2>1, UnlinkedInt DEF Unlinked, UnlinkedOf, Known
<1>9. equity \in Int /\ since \in Int
      /\ equity + since = Opening + Earned(LastDay) + Unlinked(LastDay) + Of(bank, Investors)
  <2>1. equity \in Int /\ since \in Int
    BY DEF TypeOK
  <2> HIDE DEF bank
  <2>2. TotalOf(pnl, flow, unlinked)
          = Opening + Earned(LastDay) + Unlinked(LastDay) + Of(bank, Investors)
    BY <1>3, <1>7, <1>8 DEF TotalOf, LastDay
  <2> QED BY <2>1, <2>2
<1>10. /\ Diff(book) = equity - SumFunction(eco) - book.unassigned - book.lost
       /\ Given(book) = SumFunctionOnSet(book.assigned, active) + book.lost + book.unassigned
       /\ book.lost \in Int /\ book.unassigned \in Int
       /\ Explained = Opening + Unlinked(LastDay) - since
                         + Of(bank, Investors \ active) + Of(gap, active)
  BY <1>2, <1>6, <1>7 DEF Diff, Given, IsBook, Explained
<1> HIDE DEF bank, ext, gap, eco
<1>11. Of(bank, Investors) = Of(bank, active) + Of(bank, Investors \ active)
  <2>1. active \cup (Investors \ active) = Investors /\ active \cap (Investors \ active) = {}
    BY <1>1
  <2>2. \A i \in active \cup (Investors \ active) : bank[i] \in Int
    BY <1>4, <2>1
  <2>3. Of(bank, active \cup (Investors \ active)) = Of(bank, active) + Of(bank, Investors \ active)
    BY <1>1, <2>1, <2>2, SumSplit
  <2> QED BY <2>1, <2>3
<1>12. Of(bank, active) = 1 * Of(ext, active) + 1 * Of(gap, active)
  <2>1. \A i \in active : bank[i] = 1 * ext[i] + 1 * gap[i]
    BY <1>4
  <2> QED BY <1>1, <1>4, <2>1, SumLinear
<1>13. Of(eco, active) = 1 * Of(ext, active) + 1 * SumFunctionOnSet(book.assigned, active)
  BY <1>1, <1>4, <1>5, SumLinear
<1>14. /\ Of(ext, active) \in Int /\ Of(gap, active) \in Int
       /\ SumFunctionOnSet(book.assigned, active) \in Int
       /\ Of(bank, Investors \ active) \in Int /\ Opening \in Int
  <2>1. active \in SUBSET active /\ (Investors \ active) \in SUBSET (Investors \ active)
        /\ \A i \in Investors \ active : bank[i] \in Int
    BY <1>4
  <2> QED BY <1>1, <1>4, <1>5, <2>1, SumRules, ProfitsAssumption
<1> DEFINE off == Diff(book) - Explained
<1>15. off = Earned(LastDay) - Given(book) /\ off \in Int
  <2> DEFINE E == Earned(LastDay)
             G == Given(book)
             X == Of(ext, active)
             P == Of(gap, active)
             A == SumFunctionOnSet(book.assigned, active)
             B == Of(bank, Investors \ active)
             U == Unlinked(LastDay)
  <2>1. /\ E \in Int /\ G \in Int /\ X \in Int /\ P \in Int /\ A \in Int /\ B \in Int
        /\ U \in Int /\ equity \in Int /\ since \in Int /\ Opening \in Int
        /\ book.lost \in Int /\ book.unassigned \in Int
    BY <1>2, <1>3, <1>8, <1>9, <1>10, <1>14
  <2>2. /\ Diff(book) = equity - (X + A) - book.unassigned - book.lost
        /\ G = A + book.lost + book.unassigned
        /\ Explained = Opening + U - since + B + P
        /\ equity + since = Opening + E + U + (X + P + B)
    <3>1. Of(eco, active) = X + A /\ Of(bank, active) = X + P
      BY <1>12, <1>13, <2>1
    <3>2. Of(bank, Investors) = X + P + B
      BY <1>11, <3>1
    <3> HIDE DEF X, P, A, B, E, G, U, Of
    <3> QED BY <1>7, <1>9, <1>10, <3>1, <3>2 DEF E, G, U, B, P, A
  <2> HIDE DEF X, P, A, B, E, G, U
  <2>3. off = E - G /\ off \in Int
    BY <2>1, <2>2
  <2> QED BY <2>3 DEF E, G
<1>16. LastDay * c \in Int
  BY <1>1
<1> HIDE DEF off
<1>17. 2 * Abs(off) <= LastDay * c
  BY <1>2, <1>3, <1>15, <1>16 DEF Abs
<1> QED BY <1>17 DEF ReconcilesToEquity, off, book, c

LEMMA SplitMovesOnly == TypeOK => SplitIsZeroSum
<1> SUFFICES ASSUME TypeOK PROVE SplitIsZeroSum
  OBVIOUS
<1>1. LastDay \in 0..LastDay
  BY DaysOfTheBooks
<1>2. SumFunctionOnSet(Books[LastDay].assigned, active) = SumFunctionOnSet(Books[LastDay].shown, active)
  BY <1>1, BooksAddUp
<1> QED BY <1>2 DEF SplitIsZeroSum

LEMMA GoodDay == TypeOK => GoodDayHurtsNobody
<1> SUFFICES ASSUME TypeOK,
                    pnl[LastDay] >= 0, Pool(pnl[LastDay], RulesOf(LastDay)) >= 0,
                    \A i \in active : Economic(i, Books[LastDay - 1]) >= 0,
                    NEW i \in active, ~PaysForOthers(i, RulesOf(LastDay))
             PROVE  Books[LastDay].assigned[i] >= Books[LastDay - 1].assigned[i]
  BY DEF GoodDayHurtsNobody
<1> DEFINE d == LastDay
           before == Books[d - 1]
           after == Books[d]
           rule == RulesOf(d)
           capital == DayCapital(before, d)
           g == DayGross(before, d)
           a == DayAssigned(before, d)
<1>1. /\ d \in 1..LastDay /\ d \in 1..MaxDays /\ d - 1 \in 0..LastDay
      /\ IsFiniteSet(active) /\ pnl[d] \in Int
  BY DaysOfTheBooks
<1>2. IsBook(before)
  BY <1>1, BooksAddUp
<1>3. after = ShareOut(before, d)
  BY <1>1, BooksUnfold
<1>4. \A j \in active : capital[j] >= 0
  BY DEF Economic, DayCapital
<1> HIDE DEF before, after
<1>5. rule \in [active -> Rules] /\ capital \in [active -> Int]
  BY <1>1, <1>2, DayType
<1>6. g = Gross(pnl[d], rule, capital) /\ a = Assigned(g, rule)
  BY DEF DayGross, DayAssigned
<1>7. after.assigned[i] = before.assigned[i] + a[i]
  BY <1>3, ShareOutIs
<1>8. before.assigned[i] \in Int
  BY <1>2 DEF IsBook
<1> HIDE DEF d, rule, capital, g, a
<1>9. pnl[d] >= 0 /\ Pool(pnl[d], rule) >= 0 /\ ~PaysForOthers(i, rule)
  BY DEF d, rule
<1>10. g \in [active -> Int] /\ \A j \in active : g[j] >= 0
  <2>1. g \in [active -> Int]
    BY <1>1, <1>5, <1>6, GrossType
  <2>2. \A j \in active : g[j] >= 0
    BY <1>1, <1>4, <1>5, <1>6, <1>9, GrossNotNegative
  <2> QED BY <2>1, <2>2
<1>11. a[i] \in Int /\ a[i] >= 0
  BY <1>1, <1>5, <1>6, <1>9, <1>10, AssignedNotNegative
<1> QED BY <1>7, <1>8, <1>11 DEF before, after, d

-----------------------------------------------------------------------------
LEMMA InitType == Init => IInv
<1> SUFFICES ASSUME Init PROVE IInv
  OBVIOUS
<1>1. PICK stake \in Stakes :
        /\ flow = [d \in Days |-> [i \in Investors |->
                    [in |-> IF d = 1 THEN stake[i] ELSE 0, out |-> 0,
                     night |-> 0, paper |-> 0]]]
        /\ equity = Opening + SumFunction(stake)
  BY DEF Init
<1>2. stake \in [Investors -> Nat] /\ Opening \in Int
  BY AmountsAssumption, ProfitsAssumption
<1>3. flow \in Flows
  <2>1. \A i \in Investors : stake[i] \in Nat
    BY <1>2
  <2>2. ASSUME NEW d \in Days, NEW i \in Investors
        PROVE  (IF d = 1 THEN stake[i] ELSE 0) \in Nat
    BY <2>1
  <2> QED BY <1>1, <2>2 DEF Flows, Flow
<1>4. pnl = <<0>> /\ pnl \in Seq(Profits \cup {0}) /\ Len(pnl) = 1 /\ 1 \in Days
      /\ LastDay \in Days
  <2>1. pnl = <<0>> /\ 0 \in Profits \cup {0}
    BY DEF Init
  <2>2. Len(pnl) = 1
    BY <2>1
  <2> QED BY <2>1, <2>2, BoundsAssumption DEF LastDay, Days
<1>5. unlinked = {} /\ unlinked \subseteq Adjustments /\ IsFiniteSet(unlinked) /\ since = 0
  BY FS_EmptySet DEF Init
<1>6. default \in [Investors -> Rules]
  BY AgreementsAssumption DEF Init
<1>7. dated \in [Investors -> [Days -> Terms \cup {NoRule}]]
  BY DEF Init
<1>8. active \subseteq Investors /\ changes \in 0..MaxChanges
  BY BoundsAssumption DEF Init
<1>9. IsFiniteSet(1..1) /\ 1..1 = {1} /\ {1} \in SUBSET {1} /\ {1} \ {1} = {}
  <2>1. IsFiniteSet({1})
    BY FS_Singleton
  <2>2. 1..1 = {1}
    OBVIOUS
  <2> QED BY <2>1, <2>2
<1>10. SumFunction(pnl) = 0
  <2>1. SumFunction(pnl) = SumFunctionOnSet(pnl, 1..1)
    BY <1>4 DEF SumFunction
  <2>2. \A k \in 1..1 : pnl[k] = 0
    BY <1>4
  <2> QED BY <1>9, <2>1, <2>2, SumOfNothing
<1>11. UnlinkedOf(unlinked, 1) = 0
  <2> DEFINE f == [adj \in Known(unlinked, 1) |-> adj.amount]
  <2>1. Known(unlinked, 1) = {}
    BY <1>5 DEF Known
  <2>2. UnlinkedOf(unlinked, 1) = SumFunctionOnSet(f, {})
    BY <2>1 DEF UnlinkedOf, SumFunction
  <2>3. IsFiniteSet({}) /\ \A x \in {} : f[x] = 0
    BY FS_EmptySet
  <2> HIDE DEF f
  <2> QED BY <2>2, <2>3, SumOfNothing
<1>12. \A i \in Investors : BankedOf(flow, i, 1) = stake[i]
  <2> TAKE i \in Investors
  <2> DEFINE f == NetsOf(flow, i, 1)
             g == PapersOf(flow, i, 1)
  <2>1. f[1] = stake[i] - 0 /\ g[1] = 0
    BY <1>1, <1>4 DEF NetsOf, NetOf, PapersOf
  <2>2. /\ SumFunction(f) = SumFunctionOnSet(f, {1}) /\ SumFunction(g) = SumFunctionOnSet(g, {1})
        /\ \A x \in {1} : f[x] \in Int /\ g[x] \in Int
    <3>1. /\ SumFunction(f) = SumFunctionOnSet(f, 1..1) /\ SumFunction(g) = SumFunctionOnSet(g, 1..1)
          /\ \A x \in 1..1 : f[x] \in Int /\ g[x] \in Int
      BY <1>3, <1>4, DaySums
    <3> HIDE DEF f, g
    <3> QED BY <1>9, <3>1
  <2>3. BankedOf(flow, i, 1) = SumFunction(f) - SumFunction(g)
    BY DEF BankedOf
  <2> HIDE DEF f, g
  <2>4. /\ SumFunctionOnSet(f, {1}) = f[1] + SumFunctionOnSet(f, {})
        /\ SumFunctionOnSet(g, {1}) = g[1] + SumFunctionOnSet(g, {})
        /\ SumFunctionOnSet(f, {}) = 0 /\ SumFunctionOnSet(g, {}) = 0
    <3>1. 1 \in {1} /\ IsFiniteSet({1})
      BY <1>9
    <3> QED BY <1>9, <2>2, <3>1, SumRules
  <2>5. stake[i] \in Int
    BY <1>2
  <2> QED BY <2>1, <2>2, <2>3, <2>4, <2>5
<1>13. SumFunction(AllBanked(flow, 1)) = SumFunction(stake) /\ SumFunction(stake) \in Int
  <2>1. AllBanked(flow, 1) = stake
    BY <1>2, <1>12 DEF AllBanked
  <2>2. SumFunction(stake) = SumFunctionOnSet(stake, Investors)
    BY <1>2 DEF SumFunction
  <2>3. Investors \in SUBSET Investors /\ \A i \in Investors : stake[i] \in Int
    BY <1>2
  <2>4. SumFunctionOnSet(stake, Investors) \in Int
    BY <2>3, InvestorsAssumption, SumRules
  <2> QED BY <2>1, <2>2, <2>4
<1>14. equity \in Int /\ since \in Int /\ equity + since = TotalOf(pnl, flow, unlinked)
  <2>1. TotalOf(pnl, flow, unlinked) = Opening + 0 + 0 + SumFunction(stake)
    BY <1>4, <1>10, <1>11, <1>13 DEF TotalOf
  <2> QED BY <1>1, <1>2, <1>5, <1>13, <2>1
<1> QED BY <1>3, <1>4, <1>5, <1>6, <1>7, <1>8, <1>14 DEF IInv, TypeOK, Flows

-----------------------------------------------------------------------------
Credited(flows, i, adj) ==
    [flows EXCEPT ![adj.day][i] =
        [in |-> @.in + (IF adj.amount > 0 THEN adj.amount ELSE 0),
         out |-> @.out + (IF adj.amount > 0 THEN 0 ELSE -adj.amount),
         night |-> @.night + (IF adj.night THEN adj.amount ELSE 0),
         paper |-> @.paper + (IF adj.counted THEN 0 ELSE adj.amount)]]

(* What a rebuild finds of an adjustment that has been booked.             *)
Worth(adj, d) == IF adj.counted /\ adj.day <= d THEN adj.amount ELSE 0

LEMMA AdjustmentParts ==
  ASSUME NEW adj \in Adjustments
  PROVE  /\ adj.day \in Days /\ adj.amount \in Int /\ adj.night \in BOOLEAN
         /\ adj.counted \in BOOLEAN /\ \A d : Worth(adj, d) \in Int
  BY DEF Adjustments, Worth

(* A transaction adds what it is worth to what the ledger knows of its     *)
(* investor: on paper only, nothing.                                       *)
LEMMA CreditBanks ==
  ASSUME NEW flows \in Flows, NEW i \in Investors, NEW adj \in Adjustments
  PROVE  /\ Credited(flows, i, adj) \in Flows
         /\ \A j \in Investors, d \in Days :
              BankedOf(Credited(flows, i, adj), j, d)
                = BankedOf(flows, j, d) + (IF j = i THEN Worth(adj, d) ELSE 0)
<1> DEFINE after == Credited(flows, i, adj)
           old == flows[adj.day][i]
           new == [in |-> old.in + (IF adj.amount > 0 THEN adj.amount ELSE 0),
                   out |-> old.out + (IF adj.amount > 0 THEN 0 ELSE -adj.amount),
                   night |-> old.night + (IF adj.night THEN adj.amount ELSE 0),
                   paper |-> old.paper + (IF adj.counted THEN 0 ELSE adj.amount)]
<1>1. adj.day \in Days /\ adj.amount \in Int /\ old \in Flow
  BY AdjustmentParts DEF Flows
<1>2. old.in \in Nat /\ old.out \in Nat /\ old.night \in Int /\ old.paper \in Int
  BY <1>1 DEF Flow
<1>3. new \in Flow
  <2>1. /\ old.in + (IF adj.amount > 0 THEN adj.amount ELSE 0) \in Nat
        /\ old.out + (IF adj.amount > 0 THEN 0 ELSE -adj.amount) \in Nat
        /\ old.night + (IF adj.night THEN adj.amount ELSE 0) \in Int
        /\ old.paper + (IF adj.counted THEN 0 ELSE adj.amount) \in Int
    BY <1>1, <1>2
  <2> QED BY <2>1 DEF Flow
<1>4. /\ new.in - new.out = old.in - old.out + adj.amount
      /\ new.paper = old.paper + (IF adj.counted THEN 0 ELSE adj.amount)
  BY <1>1, <1>2
<1>5. after = [flows EXCEPT ![adj.day] = [flows[adj.day] EXCEPT ![i] = new]]
  BY <1>1 DEF Credited
<1> HIDE DEF new, old, after
<1>6. after \in Flows
  BY <1>1, <1>3, <1>5 DEF Flows
<1>7. after[adj.day][i] = new /\ old = flows[adj.day][i]
      /\ \A k \in Days, j \in Investors : k # adj.day \/ j # i => after[k][j] = flows[k][j]
  BY <1>1, <1>5 DEF Flows, old
<1>8. ASSUME NEW j \in Investors, NEW d \in Days
      PROVE  BankedOf(after, j, d) = BankedOf(flows, j, d) + (IF j = i THEN Worth(adj, d) ELSE 0)
  <2> DEFINE f == NetsOf(flows, j, d)
             g == NetsOf(after, j, d)
             p == PapersOf(flows, j, d)
             q == PapersOf(after, j, d)
  <2>1. /\ IsFiniteSet(1..d) /\ 1..d \subseteq Days
        /\ \A k \in 1..d : /\ f[k] \in Int /\ g[k] \in Int /\ p[k] \in Int /\ q[k] \in Int
                           /\ f[k] = NetOf(flows, j, k) /\ g[k] = NetOf(after, j, k)
                           /\ p[k] = flows[k][j].paper /\ q[k] = after[k][j].paper
        /\ SumFunction(f) = SumFunctionOnSet(f, 1..d) /\ SumFunction(f) \in Int
        /\ SumFunction(g) = SumFunctionOnSet(g, 1..d) /\ SumFunction(g) \in Int
        /\ SumFunction(p) = SumFunctionOnSet(p, 1..d) /\ SumFunction(p) \in Int
        /\ SumFunction(q) = SumFunctionOnSet(q, 1..d) /\ SumFunction(q) \in Int
    BY <1>6, DaySums
  <2>2. /\ BankedOf(flows, j, d) = SumFunction(f) - SumFunction(p)
        /\ BankedOf(after, j, d) = SumFunction(g) - SumFunction(q)
    BY DEF BankedOf
  <2> HIDE DEF f, g, p, q
  <2>3. CASE j = i /\ adj.day <= d
    <3> DEFINE x == adj.day
    <3>1. x \in 1..d
      BY <1>1, <2>3 DEF Days
    <3>2. \A k \in 1..d : k # x => g[k] = f[k] /\ q[k] = p[k]
      BY <1>7, <2>1 DEF NetOf
    <3>3. g[x] = f[x] + adj.amount /\ q[x] = p[x] + (IF adj.counted THEN 0 ELSE adj.amount)
      BY <1>4, <1>7, <2>1, <2>3, <3>1 DEF NetOf
    <3>4. f[x] \in Int /\ p[x] \in Int /\ g[x] \in Int /\ q[x] \in Int
      BY <2>1, <3>1
    <3> DEFINE S == 1..d
    <3>8. IsFiniteSet(S) /\ x \in S
      BY <2>1, <3>1
    <3>9. /\ \A k \in S : f[k] \in Int /\ g[k] \in Int
          /\ \A k \in S : k # x => g[k] = f[k]
      BY <2>1, <3>2
    <3>10. /\ \A k \in S : p[k] \in Int /\ q[k] \in Int
           /\ \A k \in S : k # x => q[k] = p[k]
      BY <2>1, <3>2
    <3> HIDE DEF x, S
    <3>5. SumFunctionOnSet(g, S) = SumFunctionOnSet(f, S) + (g[x] - f[x])
      BY <3>8, <3>9, SumOfChange
    <3>6. SumFunctionOnSet(q, S) = SumFunctionOnSet(p, S) + (q[x] - p[x])
      BY <3>8, <3>10, SumOfChange
    <3>7. Worth(adj, d) = IF adj.counted THEN adj.amount ELSE 0
      BY <2>3 DEF Worth
    <3>11. /\ SumFunction(g) - SumFunction(f) = adj.amount
           /\ SumFunction(q) - SumFunction(p) = IF adj.counted THEN 0 ELSE adj.amount
      BY <1>1, <2>1, <3>3, <3>4, <3>5, <3>6 DEF S
    <3>12. /\ SumFunction(f) \in Int /\ SumFunction(g) \in Int
           /\ SumFunction(p) \in Int /\ SumFunction(q) \in Int
      BY <2>1
    <3> QED BY <1>1, <2>2, <2>3, <3>7, <3>11, <3>12
  <2>4. CASE j # i \/ ~(adj.day <= d)
    <3>1. \A k \in 1..d : g[k] = f[k] /\ q[k] = p[k]
      <4> TAKE k \in 1..d
      <4>1. k \in Days /\ (k # adj.day \/ j # i)
        BY <1>1, <2>1, <2>4 DEF Days
      <4>2. after[k][j] = flows[k][j]
        BY <1>7, <4>1
      <4> QED BY <2>1, <4>2 DEF NetOf
    <3>2. /\ SumFunctionOnSet(g, 1..d) = SumFunctionOnSet(f, 1..d)
          /\ SumFunctionOnSet(q, 1..d) = SumFunctionOnSet(p, 1..d)
      BY <2>1, <3>1, SumOfSame
    <3>3. (IF j = i THEN Worth(adj, d) ELSE 0) = 0
      BY <2>4 DEF Worth
    <3> QED BY <2>1, <2>2, <3>2, <3>3
  <2> QED BY <2>3, <2>4
<1> QED BY <1>6, <1>8 DEF after

LEMMA CreditTotals ==
  ASSUME NEW flows \in Flows, NEW i \in Investors, NEW adj \in Adjustments, NEW d \in Days
  PROVE  /\ SumFunction(AllBanked(Credited(flows, i, adj), d))
              = SumFunction(AllBanked(flows, d)) + Worth(adj, d)
         /\ SumFunction(AllBanked(flows, d)) \in Int
<1> DEFINE f == AllBanked(flows, d)
           g == AllBanked(Credited(flows, i, adj), d)
<1>1. /\ SumFunction(f) = SumFunctionOnSet(f, Investors)
      /\ SumFunction(g) = SumFunctionOnSet(g, Investors)
  BY DEF SumFunction, AllBanked
<1>2. \A j \in Investors : f[j] \in Int /\ g[j] = f[j] + (IF j = i THEN Worth(adj, d) ELSE 0)
  <2> TAKE j \in Investors
  <2>1. f[j] = BankedOf(flows, j, d) /\ g[j] = BankedOf(Credited(flows, i, adj), j, d)
    BY DEF AllBanked
  <2> HIDE DEF f, g
  <2> QED BY <2>1, CreditBanks, DaySums
<1>3. Worth(adj, d) \in Int
  BY AdjustmentParts
<1> HIDE DEF f, g
<1>4. /\ \A j \in Investors : f[j] \in Int /\ g[j] \in Int
      /\ \A j \in Investors : j # i => g[j] = f[j]
  BY <1>2, <1>3
<1>5. g[i] - f[i] = Worth(adj, d)
  BY <1>2, <1>3
<1>6. SumFunctionOnSet(g, Investors) = SumFunctionOnSet(f, Investors) + (g[i] - f[i])
  <2>1. IsFiniteSet(Investors)
    BY InvestorsAssumption
  <2> QED BY <1>4, <2>1, SumOfChange
<1>7. Investors \in SUBSET Investors
  OBVIOUS
<1>8. SumFunctionOnSet(f, Investors) \in Int
  BY <1>4, <1>7, InvestorsAssumption, SumRules
<1> QED BY <1>1, <1>5, <1>6, <1>8 DEF f, g

(* So does an adjustment that is nobody's.                                 *)
LEMMA UnlinkedMore ==
  ASSUME NEW adjs \in SUBSET Adjustments, IsFiniteSet(adjs),
         NEW adj \in Adjustments, adj \notin adjs, NEW d
  PROVE  UnlinkedOf(adjs \cup {adj}, d) = UnlinkedOf(adjs, d) + Worth(adj, d)
<1> DEFINE more == adjs \cup {adj}
           U == Known(adjs, d)
           V == Known(more, d)
           f == [u \in U |-> u.amount]
           g == [u \in V |-> u.amount]
<1>1. UnlinkedOf(adjs, d) = SumFunctionOnSet(f, U) /\ UnlinkedOf(more, d) = SumFunctionOnSet(g, V)
  BY DEF UnlinkedOf, SumFunction
<1>2. UnlinkedOf(adjs, d) \in Int
  BY UnlinkedInt
<1>3. /\ IsFiniteSet(U) /\ IsFiniteSet(V)
      /\ \A u \in V : g[u] = u.amount /\ g[u] \in Int
      /\ \A u \in U : f[u] \in Int /\ u \in V /\ g[u] = f[u]
  <2>1. IsFiniteSet(more)
    BY FS_AddElement
  <2>2. IsFiniteSet(U) /\ IsFiniteSet(V)
    BY <2>1, FS_Subset DEF Known
  <2> QED BY <2>2, AdjustmentParts DEF Known
<1>4. SumFunctionOnSet(g, U) = SumFunctionOnSet(f, U)
  <2> HIDE DEF f, g, U, V
  <2> QED BY <1>3, SumOfSame
<1>5. CASE adj.counted /\ adj.day <= d
  <2>1. adj \in V /\ V \ {adj} = U
    BY <1>5 DEF Known
  <2>2. g[adj] = adj.amount /\ Worth(adj, d) = adj.amount
    BY <1>3, <1>5, <2>1 DEF Worth
  <2>3. adj.amount \in Int /\ V \in SUBSET V
    BY AdjustmentParts
  <2> HIDE DEF f, g, U, V
  <2>4. SumFunctionOnSet(g, V) = g[adj] + SumFunctionOnSet(g, V \ {adj})
    <3>1. IsFiniteSet(V) /\ \A u \in V : g[u] \in Int
      BY <1>3
    <3> QED BY <2>1, <2>3, <3>1, SumRules
  <2>5. SumFunctionOnSet(f, U) \in Int
    BY <1>1, <1>2
  <2>6. SumFunctionOnSet(g, V) = SumFunctionOnSet(f, U) + Worth(adj, d)
    <3>1. V \ {adj} = U
      BY <2>1
    <3>2. SumFunctionOnSet(g, V) = g[adj] + SumFunctionOnSet(g, U)
      BY <2>4, <3>1, Zenon
    <3> QED BY <1>4, <2>2, <2>3, <2>5, <3>2
  <2> HIDE DEF more
  <2> QED BY <1>1, <2>6 DEF more
<1>6. CASE ~(adj.counted /\ adj.day <= d)
  <2>1. V = U
    BY <1>6 DEF Known
  <2>2. Worth(adj, d) = 0
    BY <1>6 DEF Worth
  <2> HIDE DEF f, g, U, V
  <2> QED BY <1>1, <1>2, <1>4, <2>1, <2>2
<1> QED BY <1>5, <1>6

(* The equity a rebuild would find, by its parts.                          *)
LEMMA TotalParts ==
  ASSUME NEW flows \in Flows, NEW adjs \in SUBSET Adjustments, IsFiniteSet(adjs),
         NEW profits \in Seq(Profits \cup {0}), Len(profits) \in Days
  PROVE  /\ SumFunction(profits) \in Int
         /\ UnlinkedOf(adjs, Len(profits)) \in Int
         /\ SumFunction(AllBanked(flows, Len(profits))) \in Int
         /\ TotalOf(profits, flows, adjs) \in Int
<1>1. SumFunction(profits) \in Int
  <2>1. DOMAIN profits = 1..Len(profits) /\ \A k \in 1..Len(profits) : profits[k] \in Int
    <3>1. Profits \cup {0} \subseteq Int
      BY ProfitsAssumption
    <3>2. \A k \in 1..Len(profits) : profits[k] \in Profits \cup {0}
      OBVIOUS
    <3> QED BY <3>1, <3>2
  <2>2. IsFiniteSet(1..Len(profits)) /\ 1..Len(profits) \in SUBSET (1..Len(profits))
    BY FS_Interval DEF Days
  <2>3. SumFunctionOnSet(profits, 1..Len(profits)) \in Int
    BY <2>1, <2>2, SumRules
  <2> QED BY <2>1, <2>3 DEF SumFunction
<1>2. SumFunction(AllBanked(flows, Len(profits))) \in Int
  <2> DEFINE f == AllBanked(flows, Len(profits))
  <2>1. /\ SumFunction(f) = SumFunctionOnSet(f, Investors)
        /\ \A i \in Investors : f[i] = BankedOf(flows, i, Len(profits))
    BY DEF SumFunction, AllBanked
  <2>2. \A i \in Investors : BankedOf(flows, i, Len(profits)) \in Int
    BY DaySums
  <2> HIDE DEF f
  <2>3. Investors \in SUBSET Investors /\ \A i \in Investors : f[i] \in Int
    BY <2>1, <2>2
  <2>4. SumFunctionOnSet(f, Investors) \in Int
    BY <2>3, InvestorsAssumption, SumRules
  <2> QED BY <2>1, <2>4 DEF f
<1>3. UnlinkedOf(adjs, Len(profits)) \in Int /\ Opening \in Int
  BY UnlinkedInt, ProfitsAssumption
<1> QED BY <1>1, <1>2, <1>3 DEF TotalOf

(* What is booked adds its worth to that, as it does to since.             *)
LEMMA BookCounts ==
  ASSUME IInv, NEW adj \in Adjustments, Book(adj)
  PROVE  /\ equity' = equity /\ since' = since + Worth(adj, LastDay) /\ since' \in Int
         /\ pnl' = pnl /\ pnl' \in Seq(Profits \cup {0}) /\ LastDay' \in Days
         /\ equity' + since' = TotalOf(pnl, flow, unlinked) + Worth(adj, LastDay)
         /\ equity' \in Int
<1>1. since \in Int /\ equity \in Int /\ Worth(adj, LastDay) \in Int
  BY AdjustmentParts DEF IInv, TypeOK
<1>2. equity' = equity /\ since' = since + Worth(adj, LastDay) /\ pnl' = pnl
  BY DEF Book, Worth
<1>3. equity + since = TotalOf(pnl, flow, unlinked)
  BY DEF IInv
<1>4. (equity + since) + Worth(adj, LastDay) = equity + (since + Worth(adj, LastDay))
  BY <1>1
<1> QED BY <1>1, <1>2, <1>3, <1>4 DEF IInv, TypeOK, LastDay

(* What is booked with an investor's transaction, or without one.          *)
LEMMA CreditAndBook ==
  ASSUME IInv, NEW i \in Investors, NEW adj \in Adjustments, Credit(i, adj), Book(adj),
         UNCHANGED unlinked
  PROVE  flow' \in Flows /\ equity' + since' = TotalOf(pnl', flow', unlinked')
<1>1. /\ flow \in Flows /\ LastDay \in Days /\ pnl \in Seq(Profits \cup {0})
      /\ LastDay = Len(pnl) /\ unlinked \in SUBSET Adjustments /\ IsFiniteSet(unlinked)
  BY DEF IInv, TypeOK, Flows, LastDay
<1>2. flow' = Credited(flow, i, adj)
  BY DEF Credit, Credited
<1>3. flow' \in Flows
  BY <1>1, <1>2, CreditBanks
<1>4. SumFunction(AllBanked(flow', LastDay)) = SumFunction(AllBanked(flow, LastDay)) + Worth(adj, LastDay)
  BY <1>1, <1>2, CreditTotals
<1>5. /\ SumFunction(pnl) \in Int /\ UnlinkedOf(unlinked, LastDay) \in Int /\ Opening \in Int
      /\ SumFunction(AllBanked(flow, LastDay)) \in Int /\ Worth(adj, LastDay) \in Int
  BY <1>1, TotalParts, AdjustmentParts, ProfitsAssumption
<1>6. /\ TotalOf(pnl, flow, unlinked) = Opening + SumFunction(pnl)
            + UnlinkedOf(unlinked, LastDay) + SumFunction(AllBanked(flow, LastDay))
      /\ TotalOf(pnl, flow', unlinked) = Opening + SumFunction(pnl)
            + UnlinkedOf(unlinked, LastDay) + SumFunction(AllBanked(flow', LastDay))
  BY <1>1 DEF TotalOf
<1>7. TotalOf(pnl, flow', unlinked) = TotalOf(pnl, flow, unlinked) + Worth(adj, LastDay)
  BY <1>4, <1>5, <1>6
<1>8. equity' + since' = TotalOf(pnl, flow, unlinked) + Worth(adj, LastDay) /\ pnl' = pnl
  BY BookCounts
<1> QED BY <1>3, <1>7, <1>8

LEMMA BankFlowBooks ==
  ASSUME IInv, NEW adj \in Adjustments, BankFlow(adj)
  PROVE  /\ unlinked' \in SUBSET Adjustments /\ IsFiniteSet(unlinked')
         /\ equity' + since' = TotalOf(pnl', flow', unlinked')
<1>1. /\ flow \in Flows /\ LastDay \in Days /\ pnl \in Seq(Profits \cup {0})
      /\ LastDay = Len(pnl) /\ unlinked \in SUBSET Adjustments /\ IsFiniteSet(unlinked)
  BY DEF IInv, TypeOK, Flows, LastDay
<1>2. adj \notin unlinked /\ unlinked' = unlinked \cup {adj} /\ flow' = flow /\ Book(adj)
  BY DEF BankFlow
<1>3. unlinked' \in SUBSET Adjustments /\ IsFiniteSet(unlinked')
  BY <1>1, <1>2, FS_AddElement
<1>4. UnlinkedOf(unlinked', LastDay) = UnlinkedOf(unlinked, LastDay) + Worth(adj, LastDay)
  BY <1>1, <1>2, UnlinkedMore
<1>5. /\ SumFunction(pnl) \in Int /\ UnlinkedOf(unlinked, LastDay) \in Int /\ Opening \in Int
      /\ SumFunction(AllBanked(flow, LastDay)) \in Int /\ Worth(adj, LastDay) \in Int
  BY <1>1, TotalParts, AdjustmentParts, ProfitsAssumption
<1>6. /\ TotalOf(pnl, flow, unlinked) = Opening + SumFunction(pnl)
            + UnlinkedOf(unlinked, LastDay) + SumFunction(AllBanked(flow, LastDay))
      /\ TotalOf(pnl, flow, unlinked') = Opening + SumFunction(pnl)
            + UnlinkedOf(unlinked', LastDay) + SumFunction(AllBanked(flow, LastDay))
  BY <1>1 DEF TotalOf
<1>7. TotalOf(pnl, flow, unlinked') = TotalOf(pnl, flow, unlinked) + Worth(adj, LastDay)
  BY <1>4, <1>5, <1>6
<1>8. equity' + since' = TotalOf(pnl, flow, unlinked) + Worth(adj, LastDay) /\ pnl' = pnl
  BY <1>2, BookCounts
<1> QED BY <1>2, <1>3, <1>7, <1>8

(* A link moves what an adjustment is worth from nobody to an investor.    *)
LEMMA LinkMoves ==
  ASSUME IInv, NEW i \in Investors, NEW adj \in unlinked, Link(i, adj)
  PROVE  /\ flow' \in Flows /\ unlinked' \in SUBSET Adjustments /\ IsFiniteSet(unlinked')
         /\ equity' + since' = TotalOf(pnl', flow', unlinked')
<1>1. /\ flow \in Flows /\ LastDay \in Days /\ pnl \in Seq(Profits \cup {0})
      /\ LastDay = Len(pnl) /\ unlinked \in SUBSET Adjustments /\ IsFiniteSet(unlinked)
      /\ adj \in Adjustments /\ equity + since = TotalOf(pnl, flow, unlinked)
  BY DEF IInv, TypeOK, Flows, LastDay
<1>2. /\ unlinked' = unlinked \ {adj} /\ UNCHANGED <<pnl, equity, since>>
      /\ flow' = Credited(flow, i, adj)
  BY DEF Link, Credit, Credited
<1>3. /\ unlinked' \in SUBSET Adjustments /\ IsFiniteSet(unlinked')
      /\ adj \notin unlinked' /\ unlinked' \cup {adj} = unlinked
  BY <1>1, <1>2, FS_Subset
<1>4. UnlinkedOf(unlinked, LastDay) = UnlinkedOf(unlinked', LastDay) + Worth(adj, LastDay)
  BY <1>1, <1>3, UnlinkedMore
<1>5. flow' \in Flows
  BY <1>1, <1>2, CreditBanks
<1>6. SumFunction(AllBanked(flow', LastDay)) = SumFunction(AllBanked(flow, LastDay)) + Worth(adj, LastDay)
  BY <1>1, <1>2, CreditTotals
<1>7. /\ SumFunction(pnl) \in Int /\ UnlinkedOf(unlinked', LastDay) \in Int /\ Opening \in Int
      /\ SumFunction(AllBanked(flow, LastDay)) \in Int /\ Worth(adj, LastDay) \in Int
  BY <1>1, <1>3, TotalParts, AdjustmentParts, ProfitsAssumption
<1>8. /\ TotalOf(pnl, flow, unlinked) = Opening + SumFunction(pnl)
            + UnlinkedOf(unlinked, LastDay) + SumFunction(AllBanked(flow, LastDay))
      /\ TotalOf(pnl, flow', unlinked') = Opening + SumFunction(pnl)
            + UnlinkedOf(unlinked', LastDay) + SumFunction(AllBanked(flow', LastDay))
  BY <1>1 DEF TotalOf
<1>9. TotalOf(pnl, flow', unlinked') = TotalOf(pnl, flow, unlinked)
  BY <1>4, <1>6, <1>7, <1>8
<1> QED BY <1>1, <1>2, <1>3, <1>5, <1>9

(* A rebuild stores what it finds.                                         *)
LEMMA TotalIs ==
  ASSUME IInv, NEW profits \in Seq(Profits \cup {0}), Len(profits) \in Days
  PROVE  TotalEquity(profits) = TotalOf(profits, flow, unlinked) /\ TotalEquity(profits) \in Int
<1>1. [i \in Investors |-> Banked(i, Len(profits))] = AllBanked(flow, Len(profits))
  BY BankedIs DEF AllBanked, IInv
<1>2. Unlinked(Len(profits)) = UnlinkedOf(unlinked, Len(profits))
  BY DEF Unlinked, UnlinkedOf, Known
<1>3. TotalEquity(profits) = TotalOf(profits, flow, unlinked)
  BY <1>1, <1>2 DEF TotalEquity, TotalOf
<1>4. flow \in Flows /\ unlinked \in SUBSET Adjustments /\ IsFiniteSet(unlinked)
  BY DEF IInv, TypeOK, Flows
<1> QED BY <1>3, <1>4, TotalParts

LEMMA StepType == IInv /\ [Next]_vars => IInv'
<1> SUFFICES ASSUME IInv, [Next]_vars PROVE IInv'
  OBVIOUS
<1>0. /\ pnl \in Seq(Profits \cup {0}) /\ LastDay \in Days /\ LastDay = Len(pnl)
      /\ flow \in Flows /\ equity \in Int /\ since \in Int
      /\ unlinked \in SUBSET Adjustments /\ IsFiniteSet(unlinked)
      /\ default \in [Investors -> Rules]
      /\ dated \in [Investors -> [Days -> Terms \cup {NoRule}]]
      /\ active \subseteq Investors
      /\ changes \in 0..MaxChanges
      /\ equity + since = TotalOf(pnl, flow, unlinked)
  BY DEF IInv, TypeOK, Flows, LastDay
<1> DEFINE Agreed == /\ default' \in [Investors -> Rules]
                     /\ dated' \in [Investors -> [Days -> Terms \cup {NoRule}]]
                     /\ active' \subseteq Investors
                     /\ changes' \in 0..MaxChanges
           Booked == /\ pnl' \in Seq(Profits \cup {0}) /\ LastDay' \in Days
                     /\ flow' \in Flows /\ equity' \in Int /\ since' \in Int
                     /\ unlinked' \in SUBSET Adjustments /\ IsFiniteSet(unlinked')
                     /\ equity' + since' = TotalOf(pnl', flow', unlinked')
<1>1. Change => changes' \in 0..MaxChanges
  BY <1>0, BoundsAssumption DEF Change
<1>2. UNCHANGED <<pnl, equity, since, flow, unlinked>> => Booked
  BY <1>0 DEF LastDay
<1>3. UNCHANGED agreements /\ (Change \/ changes' = changes) => Agreed
  BY <1>0, <1>1 DEF agreements
<1>4. Booked /\ Agreed => IInv'
  BY DEF IInv, TypeOK, Flows
<1>5. Dates \subseteq Days
  BY DEF Dates
<1>6. \A amount \in Amounts, d \in Dates, night, counted \in BOOLEAN :
        /\ Adjustment(d, amount, night, counted) \in Adjustments
        /\ Adjustment(d, -amount, night, counted) \in Adjustments
  BY <1>5, AmountsAssumption DEF Adjustment, Adjustments
<1> HIDE DEF Agreed
<1>7. ASSUME NEW p \in Profits, Snapshot(p) PROVE IInv'
  <2> DEFINE days == Append(pnl, p)
  <2>1. /\ pnl' = days /\ p \in Profits \cup {0} /\ Len(pnl) < MaxDays
        /\ equity' = TotalEquity(days) /\ since' = 0 /\ UNCHANGED <<flow, unlinked>>
    BY <1>7 DEF Snapshot, LastDay
  <2>2. days \in Seq(Profits \cup {0}) /\ Len(days) = Len(pnl) + 1 /\ Len(pnl) \in Nat
    BY <1>0, <2>1
  <2>3. Len(days) \in Days
    BY <2>1, <2>2, BoundsAssumption DEF Days
  <2> HIDE DEF days
  <2>4. TotalEquity(days) = TotalOf(days, flow, unlinked) /\ TotalEquity(days) \in Int
    BY <2>2, <2>3, TotalIs
  <2>5. Booked
    BY <1>0, <2>1, <2>2, <2>3, <2>4 DEF LastDay
  <2> HIDE DEF Booked
  <2> QED BY <1>3, <1>4, <1>7, <2>5 DEF Snapshot
<1>8. CASE Rebuild
  <2>1. TotalEquity(pnl) = TotalOf(pnl, flow, unlinked) /\ TotalEquity(pnl) \in Int
    BY <1>0, TotalIs
  <2>2. Booked
    BY <1>0, <1>8, <2>1 DEF Rebuild, LastDay
  <2> HIDE DEF Booked
  <2> QED BY <1>3, <1>4, <1>8, <2>2 DEF Rebuild
<1>9. ASSUME NEW i \in Investors, NEW adj \in Adjustments, Change, Credit(i, adj), Book(adj),
             UNCHANGED unlinked
      PROVE  IInv'
  <2>1. Booked
    BY <1>0, <1>9, CreditAndBook, BookCounts
  <2> HIDE DEF Booked
  <2> QED BY <1>3, <1>4, <1>9, <2>1 DEF Book
<1>10. ASSUME NEW i \in Investors, NEW amount \in Amounts, NEW d \in Dates, NEW night \in BOOLEAN,
              Deposit(i, amount, d, night) \/ Withdraw(i, amount, d, night)
       PROVE  IInv'
  BY <1>6, <1>9, <1>10 DEF Deposit, Withdraw
<1>11. ASSUME NEW adj \in Adjustments, BankFlow(adj) PROVE IInv'
  <2>1. Book(adj) /\ flow' = flow /\ Change
    BY <1>11 DEF BankFlow
  <2>2. Booked
    BY <1>0, <1>11, <2>1, BankFlowBooks, BookCounts
  <2> HIDE DEF Booked
  <2> QED BY <1>3, <1>4, <2>1, <2>2 DEF Book
<1>12. ASSUME NEW i \in Investors, NEW adj \in unlinked, Link(i, adj) PROVE IInv'
  <2>1. UNCHANGED <<pnl, equity, since, agreements>> /\ Change
    BY <1>12 DEF Link
  <2>2. Booked
    BY <1>0, <1>12, <2>1, LinkMoves DEF LastDay
  <2> HIDE DEF Booked
  <2> QED BY <1>3, <1>4, <2>1, <2>2
<1> HIDE DEF Booked
<1> USE DEF Agreed
<1>13. ASSUME NEW i \in Investors, NEW term \in Terms, NEW d \in Dates, CreateRule(i, term, d)
       PROVE  IInv'
  <2>1. dated' \in [Investors -> [Days -> Terms \cup {NoRule}]]
    BY <1>0, <1>5, <1>13 DEF CreateRule
  <2> QED BY <1>0, <1>1, <1>2, <1>4, <1>13, <2>1 DEF CreateRule
<1>14. ASSUME NEW i \in Investors, NEW d \in Days, DeleteRule(i, d) PROVE IInv'
  <2>1. dated' \in [Investors -> [Days -> Terms \cup {NoRule}]]
    BY <1>0, <1>14 DEF DeleteRule
  <2> QED BY <1>0, <1>1, <1>2, <1>4, <1>14, <2>1 DEF DeleteRule
<1>15. ASSUME NEW i \in Investors, NEW rule \in Rules, EditAgreement(i, rule) PROVE IInv'
  BY <1>0, <1>1, <1>2, <1>4, <1>15 DEF EditAgreement
<1>16. ASSUME NEW i \in Investors, EditActivity(i) PROVE IInv'
  BY <1>0, <1>1, <1>2, <1>4, <1>16 DEF EditActivity
<1>17. CASE UNCHANGED vars
  BY <1>0, <1>2, <1>4, <1>17 DEF vars
<1> HIDE DEF Agreed
<1> QED BY <1>6, <1>7, <1>8, <1>10, <1>11, <1>12, <1>13, <1>14, <1>15, <1>16, <1>17 DEF Next

-----------------------------------------------------------------------------
(* The records keep their types, whatever users date into the past or take *)
(* back.                                                                   *)
THEOREM TypeCorrect == Spec => []TypeOK
<1>1. Spec => []IInv
  BY InitType, StepType, PTL DEF Spec
<1>2. IInv => TypeOK
  BY DEF IInv
<1> QED BY <1>1, <1>2, PTL

(* However capital events and agreements are dated, linked, edited and     *)
(* deleted, and whenever rebuilds come, the report and what is listed as   *)
(* explained account for the equity of the last snapshot but for half a    *)
(* step an investor and day: no profit is given twice or lost.             *)
THEOREM Reconciled == Spec => []ReconcilesToEquity
<1>1. Spec => []IInv
  BY InitType, StepType, PTL DEF Spec
<1>2. IInv => ReconcilesToEquity
  BY Reconciles
<1> QED BY <1>1, <1>2, PTL

(* Splits of splits, of inactive sources and over any number of days move  *)
(* what is displayed between investors, and nothing in or out.             *)
THEOREM ZeroSum == Spec => []SplitIsZeroSum
<1>1. TypeOK => SplitIsZeroSum
  BY SplitMovesOnly
<1> QED BY <1>1, TypeCorrect, PTL

(* A day with a profit costs nobody who pays for no multiplier above 100 %  *)
(* anything, under any agreements and residual investors.                  *)
THEOREM GoodDays == Spec => []GoodDayHurtsNobody
<1>1. TypeOK => GoodDayHurtsNobody
  BY GoodDay
<1> QED BY <1>1, TypeCorrect, PTL

-----------------------------------------------------------------------------
(* Nothing is entered for the days up to k, no investor's own row is       *)
(* edited, and no snapshot after k brings in what was paid in its night.   *)
Untouched(k) ==
    /\ UNCHANGED <<default, active>>
    /\ \A d \in 1..k : /\ flow'[d] = flow[d]
                       /\ \A i \in Investors : dated'[i][d] = dated[i][d]
    /\ k = LastDay => LastDay' = LastDay \/ \A i \in Investors : flow[k][i].night = 0

(* A step adds a day at most.                                              *)
LEMMA Lengthens ==
  ASSUME TypeOK, [Next]_vars
  PROVE  /\ LastDay' = LastDay \/ LastDay' = LastDay + 1
         /\ \A d \in 1..LastDay : pnl'[d] = pnl[d]
<1>1. pnl \in Seq(Profits \cup {0}) /\ LastDay = Len(pnl) /\ LastDay' = Len(pnl')
  BY DEF TypeOK, LastDay
<1>2. pnl' = pnl \/ \E p \in Profits : pnl' = Append(pnl, p)
  <2>1. \A p \in Profits : Snapshot(p) => pnl' = Append(pnl, p)
    BY DEF Snapshot
  <2>2. Rebuild => pnl' = pnl
    BY DEF Rebuild
  <2>3. \A adj : Book(adj) => pnl' = pnl
    BY DEF Book
  <2>4. \A i, amount, d, night :
            Deposit(i, amount, d, night) \/ Withdraw(i, amount, d, night) => pnl' = pnl
    BY <2>3 DEF Deposit, Withdraw
  <2>5. \A i, adj : BankFlow(adj) \/ Link(i, adj) => pnl' = pnl
    BY <2>3 DEF BankFlow, Link
  <2>6. \A i, term, d, rule :
            \/ CreateRule(i, term, d) \/ DeleteRule(i, d)
            \/ EditAgreement(i, rule) \/ EditActivity(i)
            => pnl' = pnl
    BY DEF CreateRule, DeleteRule, EditAgreement, EditActivity
  <2>7. UNCHANGED vars => pnl' = pnl
    BY DEF vars
  <2> QED BY <2>1, <2>2, <2>4, <2>5, <2>6, <2>7 DEF Next
<1> QED BY <1>1, <1>2

(* The rules and the capital of a day come of nothing that is dated later. *)
LEMMA SameTerms ==
  ASSUME TypeOK, [Next]_vars, NEW d \in 1..LastDay, Untouched(d)
  PROVE  /\ RulesOf(d)' = RulesOf(d)
         /\ \A i \in active : External(i, d)' = External(i, d)
<1>0. d \in Nat /\ active' = active /\ default' = default /\ active \subseteq Investors
  BY DaysOfTheBooks DEF Untouched
<1>1. ASSUME NEW i \in Investors PROVE Resolved(i, d)' = Resolved(i, d)
  <2> DEFINE from == {k \in 1..d : d <= dated[i][k].until}
             later == {k \in 1..d : d <= dated'[i][k].until}
  <2>1. \A k \in 1..d : dated'[i][k] = dated[i][k]
    BY DEF Untouched
  <2>2. later = from
    BY <2>1
  <2>3. from # {} => Max(from) \in 1..d
    <3>1. IsFiniteSet(1..d) /\ 1..d \subseteq Int /\ from \in SUBSET (1..d)
      BY <1>0, FS_Interval
    <3> HIDE DEF from
    <3> QED BY <3>1, MaxIsOne
  <2>4. Resolved(i, d) = IF from = {} THEN default[i] ELSE dated[i][Max(from)].rule
    BY DEF Resolved
  <2>5. Resolved(i, d)' = IF later = {} THEN default'[i] ELSE dated'[i][Max(later)].rule
    BY DEF Resolved
  <2> HIDE DEF from, later
  <2> QED BY <1>0, <2>1, <2>2, <2>3, <2>4, <2>5
<1>2. RulesOf(d)' = RulesOf(d)
  <2>1. RulesOf(d)' = [i \in active |-> Resolved(i, d)']
    BY <1>0 DEF RulesOf
  <2> QED BY <1>0, <1>1, <2>1 DEF RulesOf
<1>3. ASSUME NEW i \in active PROVE External(i, d)' = External(i, d)
  <2>1. [k \in 1..d |-> Net(i, k)'] = [k \in 1..d |-> Net(i, k)]
    <3>1. \A k \in 1..d : Net(i, k)' = Net(i, k)
      BY DEF Net, Untouched
    <3> QED BY <3>1
  <2>2. External(i, d)' = SumFunction([k \in 1..d |-> Net(i, k)']) - Late(i, d)'
    BY DEF External
  <2>3. Late(i, d)' = Late(i, d)
    <3>1. i \in Investors /\ flow'[d] = flow[d] /\ d \in 1..LastDay /\ LastDay \in Nat
      BY <1>0, DaysOfTheBooks DEF Untouched
    <3>2. CASE d = LastDay
      BY <3>1, <3>2 DEF Untouched, Late
    <3>3. CASE d # LastDay
      <4>1. LastDay' = LastDay \/ LastDay' = LastDay + 1
        BY Lengthens
      <4> QED BY <3>1, <3>3, <4>1 DEF Late
    <3> QED BY <3>2, <3>3
  <2> QED BY <2>1, <2>2, <2>3 DEF External
<1> QED BY <1>2, <1>3

(* ShareOutIs as a formula, which the next state satisfies as well.        *)
AllShareOuts ==
    \A book, d :
        ShareOut(book, d) =
           [assigned |-> [i \in active |-> book.assigned[i] + DayAssigned(book, d)[i]],
            shown |-> [i \in active |-> book.shown[i] + DayShown(book, d)[i]],
            lost |-> book.lost + DayLost(book, d),
            unassigned |-> book.unassigned + DayUnassigned(book, d)]

LEMMA SharesOut == AllShareOuts
  BY ShareOutIs DEF AllShareOuts

LEMMA SharesOutAgain == AllShareOuts'
  BY SharesOut, PTL

(* The parts of a share-out depend on the snapshot, the rules, the capital *)
(* and the active investors only.                                          *)
LEMMA SameGross ==
  ASSUME active' = active, NEW p, NEW rule, NEW capital
  PROVE  Gross(p, rule, capital)' = Gross(p, rule, capital)
BY DEF Gross, Weighted, In, Pool, Percent

LEMMA SameAssigned ==
  ASSUME active' = active, NEW gross, NEW rule
  PROVE  Assigned(gross, rule)' = Assigned(gross, rule)
BY DEF Assigned, Residual

LEMMA SameResidual ==
  ASSUME active' = active, NEW gross, NEW rule
  PROVE  Residual(gross, rule)' = Residual(gross, rule)
BY DEF Residual

LEMMA SamePool ==
  ASSUME active' = active, NEW p, NEW rule
  PROVE  Weighted(rule)' = Weighted(rule) /\ Pool(p, rule)' = Pool(p, rule)
BY DEF Weighted, Pool, In

LEMMA SameShown ==
  ASSUME active' = active, NEW assigned, NEW rule
  PROVE  Shown(assigned, rule)' = Shown(assigned, rule)
BY DEF Shown, In

(* A day that nothing is entered for or before is shared out as it was,    *)
(* whatever the totals it is added to.                                     *)
LEMMA SameDay ==
  ASSUME TypeOK, [Next]_vars, NEW d \in 1..LastDay, Untouched(d), pnl'[d] = pnl[d], NEW book
  PROVE  ShareOut(book, d)' = ShareOut(book, d)
<1>1. active' = active /\ RulesOf(d)' = RulesOf(d)
  BY SameTerms DEF Untouched
<1>2. DayCapital(book, d)' = DayCapital(book, d)
  <2>1. DayCapital(book, d)' = [i \in active |-> External(i, d)' + book.assigned[i]]
    BY <1>1 DEF DayCapital
  <2> QED BY <2>1, SameTerms DEF DayCapital
<1>3. DayGross(book, d)' = DayGross(book, d)
  <2> DEFINE rule == RulesOf(d)
             capital == DayCapital(book, d)
  <2>1. DayGross(book, d)' = Gross(pnl[d], rule, capital)'
    BY DEF DayGross
  <2> QED BY <1>1, <1>2, <2>1, SameGross DEF DayGross
<1>4. DayAssigned(book, d)' = DayAssigned(book, d)
  <2> DEFINE gross == DayGross(book, d)
             rule == RulesOf(d)
  <2>1. DayAssigned(book, d)' = Assigned(gross, rule)'
    BY DEF DayAssigned
  <2> QED BY <1>1, <1>3, <2>1, SameAssigned DEF DayAssigned
<1>5. DayShown(book, d)' = DayShown(book, d)
  <2> DEFINE assigned == DayAssigned(book, d)
             rule == RulesOf(d)
  <2>1. DayShown(book, d)' = Shown(assigned, rule)'
    BY DEF DayShown
  <2> QED BY <1>1, <1>4, <2>1, SameShown DEF DayShown
<1>6. DayLost(book, d)' = DayLost(book, d)
  <2> DEFINE gross == DayGross(book, d)
             rule == RulesOf(d)
  <2>1. DayLost(book, d)' = SumFunctionOnSet(Residual(gross, rule)',
                                {i \in active : rule'[i].other \notin active})
    BY <1>1 DEF DayLost
  <2>2. Residual(gross, rule)' = Residual(gross, rule)
    BY <1>1, <1>3, SameResidual
  <2> QED BY <1>1, <2>1, <2>2 DEF DayLost
<1>7. DayUnassigned(book, d)' = DayUnassigned(book, d)
  <2> DEFINE rule == RulesOf(d)
             capital == DayCapital(book, d)
  <2>1. Weighted(rule)' = Weighted(rule) /\ Pool(pnl[d], rule)' = Pool(pnl[d], rule)
    BY <1>1, SamePool
  <2>2. DayUnassigned(book, d)' =
          IF SumFunctionOnSet(capital', Weighted(rule)') > 0 THEN 0 ELSE Pool(pnl[d], rule)'
    BY DEF DayUnassigned
  <2> QED BY <1>2, <2>1, <2>2 DEF DayUnassigned
<1>8. ShareOut(book, d)' =
        [assigned |-> [i \in active' |-> book.assigned[i] + DayAssigned(book, d)'[i]],
         shown |-> [i \in active' |-> book.shown[i] + DayShown(book, d)'[i]],
         lost |-> book.lost + DayLost(book, d)',
         unassigned |-> book.unassigned + DayUnassigned(book, d)']
  BY SharesOutAgain DEF AllShareOuts
<1>9. ShareOut(book, d) =
        [assigned |-> [i \in active |-> book.assigned[i] + DayAssigned(book, d)[i]],
         shown |-> [i \in active |-> book.shown[i] + DayShown(book, d)[i]],
         lost |-> book.lost + DayLost(book, d),
         unassigned |-> book.unassigned + DayUnassigned(book, d)]
  BY ShareOutIs
<1> QED BY <1>1, <1>4, <1>5, <1>6, <1>7, <1>8, <1>9

(* BooksUnfold likewise.                                                   *)
Unfolded ==
    /\ Books[0] = Blank
    /\ \A d \in 1..MaxDays : Books[d] = ShareOut(Books[d - 1], d)

LEMMA UnfoldsAgain == Unfolded'
<1>1. Unfolded
  BY BooksUnfold DEF Unfolded
<1> QED BY <1>1, PTL

(* A snapshot, capital, a link or an agreement dated after a day leaves    *)
(* the report up to that day as it was; only an investor's own row and its *)
(* activity reach back beyond their date (investor_report,                 *)
(* services.py:133-254), and what was paid in the night of the last day    *)
(* counts for it from the next snapshot on (services.py:150).              *)
THEOREM PastStands ==
    Spec => [][\A k \in 0..LastDay : Untouched(k) => Books'[k] = Books[k]]_vars
<1>1. TypeOK /\ [Next]_vars => \A k \in 0..LastDay : Untouched(k) => Books'[k] = Books[k]
  <2> SUFFICES ASSUME TypeOK, [Next]_vars, NEW k \in 0..LastDay, Untouched(k)
               PROVE  Books'[k] = Books[k]
    OBVIOUS
  <2>1. /\ LastDay \in 1..MaxDays /\ MaxDays \in Nat /\ k \in Nat /\ k <= LastDay
        /\ active' = active
    BY DaysOfTheBooks DEF Untouched
  <2>2. \A d \in 1..LastDay : pnl'[d] = pnl[d]
    BY Lengthens
  <2> DEFINE G == {n \in Nat : n <= k => Books'[n] = Books[n]}
  <2>3. 0 \in G
    <3>1. Books'[0] = Blank' /\ Books[0] = Blank
      BY UnfoldsAgain, BooksUnfold DEF Unfolded
    <3>2. Blank' = Blank
      BY <2>1 DEF Blank
    <3> QED BY <3>1, <3>2
  <2>4. ASSUME NEW n \in Nat, n \in G, n + 1 <= k PROVE Books'[n + 1] = Books[n + 1]
    <3>1. /\ n + 1 \in 1..MaxDays /\ n + 1 \in 1..LastDay /\ (n + 1) - 1 = n
          /\ Books'[n] = Books[n] /\ Untouched(n + 1)
      BY <2>1, <2>4 DEF Untouched
    <3>2. Books[n + 1] = ShareOut(Books[n], n + 1)
      BY <3>1, BooksUnfold
    <3>3. Books'[n + 1] = ShareOut(Books[n], n + 1)'
      BY <3>1, UnfoldsAgain DEF Unfolded
    <3>4. \A book : ShareOut(book, n + 1)' = ShareOut(book, n + 1)
      BY <2>2, <3>1, SameDay
    <3> QED BY <3>1, <3>2, <3>3, <3>4
  <2>5. Nat \subseteq G
    <3>1. \A n \in Nat : n \in G => n + 1 \in G
      BY <2>4
    <3> HIDE DEF G
    <3> QED BY <2>3, <3>1, CountingInduction
  <2> QED BY <2>1, <2>5
<1> QED BY <1>1, TypeCorrect, PTL DEF Spec
=============================================================================
