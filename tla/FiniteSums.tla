------------------------------ MODULE FiniteSums ------------------------------
(***************************************************************************)
(* Sums and maxima over finite sets: SumFunctionOnSet of the community     *)
(* modules satisfies its recursion, and what follows from that.  Induction *)
(* is used in the form "a set of subsets that is closed under adding an    *)
(* element contains every finite set", which needs no operator parameter.  *)
(***************************************************************************)
EXTENDS FiniteSetsExt, FiniteSetTheorems, TLAPS

(***************************************************************************)
(* A set P of subsets of S that holds the empty set and, with every T, the *)
(* sets with one more element, holds S.                                    *)
(***************************************************************************)
LEMMA SubsetInduction ==
  ASSUME NEW S, IsFiniteSet(S), NEW P, {} \in P,
         \A T \in SUBSET S : T # {} /\ (\A x \in T : T \ {x} \in P) => T \in P
  PROVE  S \in P
<1> DEFINE Bad == (SUBSET S) \ P
<1>1. SUFFICES Bad = {}
  OBVIOUS
<1>2. SUFFICES ASSUME Bad # {} PROVE FALSE
  OBVIOUS
<1>3. IsWellFoundedOn(StrictSubsetOrdering(S), FiniteSubsetsOf(S))
  BY FS_StrictSubsetOrderingWellFounded
<1>4. Bad \subseteq FiniteSubsetsOf(S)
  BY FS_FiniteSubsetsOfFinite
<1>5. PICK T \in Bad : \A U \in Bad : <<U, T>> \notin StrictSubsetOrdering(S)
  <2> HIDE DEF Bad
  <2> QED
    BY <1>2, <1>3, <1>4, WFMin
<1>6. ASSUME NEW x \in T
      PROVE  T \ {x} \in P
  <2>1. T \ {x} \in SUBSET S /\ T \ {x} # T /\ T \ {x} \subseteq T
    BY <1>5
  <2>2. <<T \ {x}, T>> \in StrictSubsetOrdering(S)
    BY <1>5, <2>1 DEF StrictSubsetOrdering
  <2> QED
    BY <1>5, <2>1, <2>2
<1>7. T # {}
  BY <1>5
<1> QED
  BY <1>5, <1>6, <1>7

\* The same, where all the proper subsets of a set may be used.
LEMMA StrongSubsetInduction ==
  ASSUME NEW S, IsFiniteSet(S), NEW P, {} \in P,
         \A T \in SUBSET S :
           T # {} /\ (\A U \in SUBSET T : U # T => U \in P) => T \in P
  PROVE  S \in P
<1> DEFINE Q == {T \in SUBSET S : \A U \in SUBSET T : U \in P}
<1>1. {} \in Q
  OBVIOUS
<1>2. ASSUME NEW T \in SUBSET S, T # {}, \A x \in T : T \ {x} \in Q
      PROVE  T \in Q
  <2>1. ASSUME NEW U \in SUBSET T, U # T
        PROVE  U \in P
    <3>1. PICK x \in T : x \notin U
      BY <2>1
    <3> QED
      BY <1>2, <2>1, <3>1
  <2> QED
    BY <1>2, <2>1
<1>3. S \in Q
  <2> HIDE DEF Q
  <2> QED
    BY <1>1, <1>2, SubsetInduction
<1> QED
  BY <1>3

-----------------------------------------------------------------------------
(***************************************************************************)
(* The recursion behind SumFunctionOnSet(f, S) is well defined.            *)
(***************************************************************************)
Pick(s) == CHOOSE x \in s : TRUE

IsSum(f, S, g) ==
  g = [s \in SUBSET S |-> IF s = {} THEN 0 ELSE f[Pick(s)] + g[s \ {Pick(s)}]]

SumOf(f, S) == CHOOSE g : IsSum(f, S, g)

\* What the community module computes is the value of that function.
LEMMA SumUnfolds ==
  ASSUME NEW f, NEW S
  PROVE  SumFunctionOnSet(f, S) = SumOf(f, S)[S]
BY DEF SumFunctionOnSet, FoldFunctionOnSet, MapThenFoldSet, SumOf, IsSum, Pick

\* Two of them agree wherever both are defined.
LEMMA SumUnique ==
  ASSUME NEW f, NEW S, NEW T, IsFiniteSet(T), T \subseteq S,
         NEW g, IsSum(f, S, g), NEW h, IsSum(f, T, h)
  PROVE  g[T] = h[T]
<1> DEFINE P == {U \in SUBSET T : g[U] = h[U]}
<1>1. \A U \in SUBSET T : /\ U = {} => g[U] = 0 /\ h[U] = 0
                          /\ U # {} => /\ g[U] = f[Pick(U)] + g[U \ {Pick(U)}]
                                       /\ h[U] = f[Pick(U)] + h[U \ {Pick(U)}]
  BY DEF IsSum
<1>2. {} \in P
  BY <1>1
<1>3. ASSUME NEW U \in SUBSET T, \A x \in U : U \ {x} \in P, U # {}
      PROVE  U \in P
  <2>1. Pick(U) \in U
    BY <1>3 DEF Pick
  <2>2. g[U \ {Pick(U)}] = h[U \ {Pick(U)}]
    BY <1>3, <2>1
  <2> QED
    BY <1>1, <1>3, <2>2
<1> QED
  <2> HIDE DEF P
  <2>1. T \in P
    BY <1>2, <1>3, SubsetInduction
  <2> QED
    BY <2>1 DEF P

\* There is one over every finite set.
LEMMA SumExists ==
  ASSUME NEW f, NEW S, IsFiniteSet(S)
  PROVE  IsSum(f, S, SumOf(f, S))
<1> DEFINE P == {T \in SUBSET S : IsSum(f, T, SumOf(f, T))}
<1>1. {} \in P
  <2> DEFINE g == [s \in SUBSET {} |-> 0]
  <2>1. IsSum(f, {}, g)
    BY DEF IsSum
  <2> QED
    BY <2>1 DEF SumOf
<1>2. ASSUME NEW T \in SUBSET S, T # {}, \A U \in SUBSET T : U # T => U \in P
      PROVE  T \in P
  <2> DEFINE s1(s) == s \ {Pick(s)}
  <2> DEFINE g == [s \in SUBSET T |-> IF s = {} THEN 0
                                      ELSE f[Pick(s)] + SumOf(f, s1(s))[s1(s)]]
  <2>1. ASSUME NEW s \in SUBSET T, s # T
        PROVE  g[s] = SumOf(f, s)[s]
    <3>1. IsSum(f, s, SumOf(f, s))
      BY <1>2, <2>1
    <3>2. CASE s = {}
      BY <3>1, <3>2 DEF IsSum
    <3>3. CASE s # {}
      <4>1. Pick(s) \in s
        BY <3>3 DEF Pick
      <4>2. s1(s) \in SUBSET s /\ s1(s) # T
        BY <2>1, <4>1
      <4>3. IsSum(f, s1(s), SumOf(f, s1(s))) /\ IsFiniteSet(s1(s))
        BY <1>2, <4>2, FS_Subset
      <4>4. SumOf(f, s)[s1(s)] = SumOf(f, s1(s))[s1(s)]
        BY <3>1, <4>2, <4>3, SumUnique
      <4>5. SumOf(f, s)[s] = f[Pick(s)] + SumOf(f, s)[s1(s)]
        BY <3>1, <3>3 DEF IsSum
      <4> QED
        BY <3>3, <4>4, <4>5
    <3> QED
      BY <3>2, <3>3
  <2>2. ASSUME NEW s \in SUBSET T, s # {}
        PROVE  g[s] = f[Pick(s)] + g[s1(s)]
    <3>1. Pick(s) \in s
      BY <2>2 DEF Pick
    <3>2. s1(s) \in SUBSET T /\ s1(s) # T
      BY <3>1
    <3>3. g[s1(s)] = SumOf(f, s1(s))[s1(s)]
      BY <2>1, <3>2
    <3> QED
      BY <2>2, <3>3
  <2>3. IsSum(f, T, g)
    BY <2>2 DEF IsSum
  <2> QED
    BY <2>3 DEF SumOf
<1>3. S \in P
  <2> HIDE DEF P
  <2> QED
    BY <1>1, <1>2, StrongSubsetInduction
<1> QED
  BY <1>3

-----------------------------------------------------------------------------
(***************************************************************************)
(* What the proofs of the components use.                                  *)
(***************************************************************************)
LEMMA SumEmpty ==
  ASSUME NEW f
  PROVE  SumFunctionOnSet(f, {}) = 0
<1>1. IsSum(f, {}, SumOf(f, {}))
  BY FS_EmptySet, SumExists
<1> QED
  BY <1>1, SumUnfolds DEF IsSum

\* The recursion: the elements in the order of CHOOSE.
LEMMA SumPick ==
  ASSUME NEW f, NEW S, IsFiniteSet(S), S # {}
  PROVE  /\ Pick(S) \in S
         /\ SumFunctionOnSet(f, S) = f[Pick(S)] + SumFunctionOnSet(f, S \ {Pick(S)})
<1> DEFINE R == S \ {Pick(S)}
<1>1. Pick(S) \in S
  BY DEF Pick
<1>2. IsSum(f, S, SumOf(f, S))
  BY SumExists
<1>3. IsFiniteSet(R) /\ R \subseteq S
  BY FS_Subset
<1>4. IsSum(f, R, SumOf(f, R))
  BY <1>3, SumExists
<1>5. SumOf(f, S)[R] = SumOf(f, R)[R]
  BY <1>2, <1>3, <1>4, SumUnique
<1>6. SumOf(f, S)[S] = f[Pick(S)] + SumOf(f, S)[R]
  BY <1>2 DEF IsSum
<1> QED
  BY <1>1, <1>5, <1>6, SumUnfolds

\* A sum depends on the values in its range only.
LEMMA SumSame ==
  ASSUME NEW f, NEW g, NEW S, IsFiniteSet(S), \A x \in S : f[x] = g[x]
  PROVE  SumFunctionOnSet(f, S) = SumFunctionOnSet(g, S)
<1> DEFINE P == {T \in SUBSET S : SumFunctionOnSet(f, T) = SumFunctionOnSet(g, T)}
<1>1. {} \in P
  BY SumEmpty
<1>2. ASSUME NEW T \in SUBSET S, T # {}, \A x \in T : T \ {x} \in P
      PROVE  T \in P
  <2>1. IsFiniteSet(T)
    BY FS_Subset
  <2>2. Pick(T) \in T /\ SumFunctionOnSet(f, T) = f[Pick(T)] + SumFunctionOnSet(f, T \ {Pick(T)})
    BY <1>2, <2>1, SumPick
  <2>3. SumFunctionOnSet(g, T) = g[Pick(T)] + SumFunctionOnSet(g, T \ {Pick(T)})
    BY <1>2, <2>1, SumPick
  <2> QED
    BY <1>2, <2>2, <2>3
<1>3. S \in P
  <2> HIDE DEF P
  <2> QED
    BY <1>1, <1>2, SubsetInduction
<1> QED
  BY <1>3

\* A sum of integers is an integer.
LEMMA SumInt ==
  ASSUME NEW f, NEW S, IsFiniteSet(S), \A x \in S : f[x] \in Int
  PROVE  SumFunctionOnSet(f, S) \in Int
<1> DEFINE P == {T \in SUBSET S : SumFunctionOnSet(f, T) \in Int}
<1>1. {} \in P
  BY SumEmpty
<1>2. ASSUME NEW T \in SUBSET S, T # {}, \A x \in T : T \ {x} \in P
      PROVE  T \in P
  <2>1. IsFiniteSet(T)
    BY FS_Subset
  <2>2. Pick(T) \in T /\ SumFunctionOnSet(f, T) = f[Pick(T)] + SumFunctionOnSet(f, T \ {Pick(T)})
    BY <1>2, <2>1, SumPick
  <2>3. f[Pick(T)] \in Int /\ SumFunctionOnSet(f, T \ {Pick(T)}) \in Int
    BY <1>2, <2>2
  <2> QED
    BY <2>2, <2>3
<1>3. S \in P
  <2> HIDE DEF P
  <2> QED
    BY <1>1, <1>2, SubsetInduction
<1> QED
  BY <1>3

\* A sum of zeros is zero.
LEMMA SumZero ==
  ASSUME NEW f, NEW S, IsFiniteSet(S), \A x \in S : f[x] = 0
  PROVE  SumFunctionOnSet(f, S) = 0
<1> DEFINE P == {T \in SUBSET S : SumFunctionOnSet(f, T) = 0}
<1>1. {} \in P
  BY SumEmpty
<1>2. ASSUME NEW T \in SUBSET S, T # {}, \A x \in T : T \ {x} \in P
      PROVE  T \in P
  <2>1. IsFiniteSet(T)
    BY FS_Subset
  <2>2. Pick(T) \in T /\ SumFunctionOnSet(f, T) = f[Pick(T)] + SumFunctionOnSet(f, T \ {Pick(T)})
    BY <1>2, <2>1, SumPick
  <2>3. f[Pick(T)] = 0 /\ SumFunctionOnSet(f, T \ {Pick(T)}) = 0
    BY <1>2, <2>2
  <2> QED
    BY <2>2, <2>3
<1>3. S \in P
  <2> HIDE DEF P
  <2> QED
    BY <1>1, <1>2, SubsetInduction
<1> QED
  BY <1>3

\* The order of the elements does not matter: any of them may be taken out.
LEMMA SumRemove ==
  ASSUME NEW f, NEW S, IsFiniteSet(S), \A x \in S : f[x] \in Int
  PROVE  \A x \in S : SumFunctionOnSet(f, S) = f[x] + SumFunctionOnSet(f, S \ {x})
<1> DEFINE Splits(T) == \A x \in T : SumFunctionOnSet(f, T) = f[x] + SumFunctionOnSet(f, T \ {x})
<1> DEFINE P == {T \in SUBSET S : Splits(T)}
<1>1. {} \in P
  OBVIOUS
<1>2. ASSUME NEW T \in SUBSET S, T # {}, \A x \in T : T \ {x} \in P
      PROVE  T \in P
  <2> DEFINE y == Pick(T)
  <2>1. \A U \in SUBSET T : IsFiniteSet(U) /\ SumFunctionOnSet(f, U) \in Int
    <3>1. ASSUME NEW U \in SUBSET T
          PROVE  IsFiniteSet(U) /\ SumFunctionOnSet(f, U) \in Int
      <4>1. IsFiniteSet(U) /\ \A x \in U : f[x] \in Int
        BY FS_Subset
      <4> QED
        BY <4>1, SumInt
    <3> QED
      BY <3>1
  <2>2. y \in T /\ SumFunctionOnSet(f, T) = f[y] + SumFunctionOnSet(f, T \ {y})
    BY <1>2, <2>1, SumPick
  <2> HIDE DEF y
  <2>3. ASSUME NEW x \in T, x # y
        PROVE  SumFunctionOnSet(f, T) = f[x] + SumFunctionOnSet(f, T \ {x})
    <3> DEFINE U == T \ {x, y}
    <3>1. T \ {y} \in P /\ T \ {x} \in P /\ x \in T \ {y} /\ y \in T \ {x}
      BY <1>2, <2>2, <2>3
    <3>2. (T \ {y}) \ {x} = U /\ (T \ {x}) \ {y} = U /\ U \in SUBSET T
      OBVIOUS
    <3>3. /\ SumFunctionOnSet(f, T \ {y}) = f[x] + SumFunctionOnSet(f, U)
          /\ SumFunctionOnSet(f, T \ {x}) = f[y] + SumFunctionOnSet(f, U)
      BY <3>1, <3>2
    <3>4. SumFunctionOnSet(f, U) \in Int /\ f[x] \in Int /\ f[y] \in Int
      BY <2>1, <2>2, <3>2
    <3> QED
      BY <2>2, <3>3, <3>4
  <2> QED
    BY <2>2, <2>3
<1>3. S \in P
  <2> HIDE DEF P
  <2> QED
    BY <1>1, <1>2, SubsetInduction
<1> QED
  BY <1>3

\* One more element adds its value.
LEMMA SumAdd ==
  ASSUME NEW f, NEW S, IsFiniteSet(S), NEW x, x \notin S, \A y \in S \cup {x} : f[y] \in Int
  PROVE  SumFunctionOnSet(f, S \cup {x}) = SumFunctionOnSet(f, S) + f[x]
<1>1. IsFiniteSet(S \cup {x}) /\ (S \cup {x}) \ {x} = S
  BY FS_AddElement
<1>2. SumFunctionOnSet(f, S \cup {x}) = f[x] + SumFunctionOnSet(f, S)
  BY <1>1, SumRemove
<1>3. SumFunctionOnSet(f, S) \in Int /\ f[x] \in Int
  BY SumInt
<1> QED
  BY <1>2, <1>3

\* A sum over two parts of a set.
LEMMA SumSplit ==
  ASSUME NEW f, NEW S, IsFiniteSet(S), \A x \in S : f[x] \in Int, NEW R \in SUBSET S
  PROVE  SumFunctionOnSet(f, S) = SumFunctionOnSet(f, R) + SumFunctionOnSet(f, S \ R)
<1> DEFINE D == S \ R
<1> DEFINE P == {T \in SUBSET D :
                   SumFunctionOnSet(f, R \cup T) = SumFunctionOnSet(f, R) + SumFunctionOnSet(f, T)}
<1>0. \A U \in SUBSET S : IsFiniteSet(U) /\ SumFunctionOnSet(f, U) \in Int
  <2>1. ASSUME NEW U \in SUBSET S
        PROVE  IsFiniteSet(U) /\ SumFunctionOnSet(f, U) \in Int
    <3>1. IsFiniteSet(U) /\ \A x \in U : f[x] \in Int
      BY FS_Subset
    <3> QED
      BY <3>1, SumInt
  <2> QED
    BY <2>1
<1>1. {} \in P
  BY <1>0, SumEmpty
<1>2. ASSUME NEW T \in SUBSET D, T # {}, \A x \in T : T \ {x} \in P
      PROVE  T \in P
  <2>1. PICK x \in T : TRUE
    BY <1>2
  <2> DEFINE U == T \ {x}
  <2>2. /\ SumFunctionOnSet(f, T) = f[x] + SumFunctionOnSet(f, U)
        /\ SumFunctionOnSet(f, R \cup T) = f[x] + SumFunctionOnSet(f, R \cup U)
    <3>1. (R \cup T) \ {x} = R \cup U /\ x \in R \cup T
      BY <2>1
    <3>2. /\ IsFiniteSet(T) /\ IsFiniteSet(R \cup T)
          /\ \A z \in T : f[z] \in Int
          /\ \A z \in R \cup T : f[z] \in Int
      BY <1>0
    <3> HIDE DEF U, D
    <3>3. SumFunctionOnSet(f, T) = f[x] + SumFunctionOnSet(f, T \ {x})
      BY <2>1, <3>2, SumRemove
    <3>4. SumFunctionOnSet(f, R \cup T) = f[x] + SumFunctionOnSet(f, (R \cup T) \ {x})
      BY <3>1, <3>2, SumRemove
    <3> QED
      BY <3>1, <3>3, <3>4 DEF U
  <2>3. SumFunctionOnSet(f, R \cup U) = SumFunctionOnSet(f, R) + SumFunctionOnSet(f, U)
    BY <1>2, <2>1
  <2>4. /\ f[x] \in Int /\ SumFunctionOnSet(f, R) \in Int /\ SumFunctionOnSet(f, U) \in Int
    BY <1>0, <2>1
  <2> HIDE DEF U
  <2> QED
    BY <2>2, <2>3, <2>4
<1>3. D \in P
  <2>1. IsFiniteSet(D)
    BY <1>0
  <2> HIDE DEF P, D
  <2> QED
    BY <1>1, <1>2, <2>1, SubsetInduction
<1>4. R \cup D = S
  OBVIOUS
<1> QED
  BY <1>3, <1>4

\* A sum of naturals is a natural.
LEMMA SumNat ==
  ASSUME NEW f, NEW S, IsFiniteSet(S), \A x \in S : f[x] \in Nat
  PROVE  SumFunctionOnSet(f, S) \in Nat
<1> DEFINE P == {T \in SUBSET S : SumFunctionOnSet(f, T) \in Nat}
<1>1. {} \in P
  BY SumEmpty
<1>2. ASSUME NEW T \in SUBSET S, T # {}, \A x \in T : T \ {x} \in P
      PROVE  T \in P
  <2>1. IsFiniteSet(T)
    BY FS_Subset
  <2>2. Pick(T) \in T /\ SumFunctionOnSet(f, T) = f[Pick(T)] + SumFunctionOnSet(f, T \ {Pick(T)})
    BY <1>2, <2>1, SumPick
  <2>3. f[Pick(T)] \in Nat /\ SumFunctionOnSet(f, T \ {Pick(T)}) \in Nat
    BY <1>2, <2>2
  <2> QED
    BY <2>2, <2>3
<1>3. S \in P
  <2> HIDE DEF P
  <2> QED
    BY <1>1, <1>2, SubsetInduction
<1> QED
  BY <1>3

\* Naturals: a part of a set sums up to no more than the whole.
LEMMA SumMonotonic ==
  ASSUME NEW f, NEW S, IsFiniteSet(S), \A x \in S : f[x] \in Nat, NEW R \in SUBSET S
  PROVE  SumFunctionOnSet(f, R) <= SumFunctionOnSet(f, S)
<1>1. IsFiniteSet(R) /\ IsFiniteSet(S \ R)
  BY FS_Subset
<1>2. \A x \in R : f[x] \in Nat
  OBVIOUS
<1>3. \A x \in S \ R : f[x] \in Nat
  OBVIOUS
<1>4. SumFunctionOnSet(f, R) \in Nat /\ SumFunctionOnSet(f, S \ R) \in Nat
  BY <1>1, <1>2, <1>3, SumNat
<1>5. SumFunctionOnSet(f, S) = SumFunctionOnSet(f, R) + SumFunctionOnSet(f, S \ R)
  <2>1. \A x \in S : f[x] \in Int
    OBVIOUS
  <2> QED
    BY <2>1, SumSplit
<1> QED
  BY <1>4, <1>5

\* Two sums over the same set are one sum.
LEMMA SumPlus ==
  ASSUME NEW f, NEW g, NEW h, NEW S, IsFiniteSet(S),
         \A x \in S : f[x] \in Int /\ g[x] \in Int /\ h[x] = f[x] + g[x]
  PROVE  SumFunctionOnSet(h, S) = SumFunctionOnSet(f, S) + SumFunctionOnSet(g, S)
<1> DEFINE P == {T \in SUBSET S :
                   SumFunctionOnSet(h, T) = SumFunctionOnSet(f, T) + SumFunctionOnSet(g, T)}
<1>1. {} \in P
  BY SumEmpty
<1>2. ASSUME NEW T \in SUBSET S, T # {}, \A x \in T : T \ {x} \in P
      PROVE  T \in P
  <2> DEFINE y == Pick(T)
  <2>1. IsFiniteSet(T)
    BY FS_Subset
  <2>2. /\ y \in T
        /\ SumFunctionOnSet(f, T) = f[y] + SumFunctionOnSet(f, T \ {y})
        /\ SumFunctionOnSet(g, T) = g[y] + SumFunctionOnSet(g, T \ {y})
        /\ SumFunctionOnSet(h, T) = h[y] + SumFunctionOnSet(h, T \ {y})
    BY <1>2, <2>1, SumPick
  <2> DEFINE U == T \ {y}
  <2>3. IsFiniteSet(U) /\ U \subseteq S
    BY FS_Subset
  <2>4. \A x \in U : f[x] \in Int /\ g[x] \in Int
    BY <2>3
  <2>5. SumFunctionOnSet(f, U) \in Int /\ SumFunctionOnSet(g, U) \in Int
    BY <2>3, <2>4, SumInt
  <2>6. SumFunctionOnSet(h, U) = SumFunctionOnSet(f, U) + SumFunctionOnSet(g, U)
    BY <1>2, <2>2
  <2>7. f[y] \in Int /\ g[y] \in Int /\ h[y] = f[y] + g[y]
    BY <2>2
  <2> QED
    BY <2>2, <2>5, <2>6, <2>7
<1>3. S \in P
  <2> HIDE DEF P
  <2> QED
    BY <1>1, <1>2, SubsetInduction
<1> QED
  BY <1>3

\* A value that changes changes the sum by as much.
LEMMA SumChange ==
  ASSUME NEW f, NEW g, NEW S, IsFiniteSet(S), NEW x \in S,
         \A y \in S : f[y] \in Int /\ g[y] \in Int,
         \A y \in S : y # x => g[y] = f[y]
  PROVE  SumFunctionOnSet(g, S) = SumFunctionOnSet(f, S) + (g[x] - f[x])
<1> DEFINE U == S \ {x}
<1>1. IsFiniteSet(U) /\ \A y \in U : g[y] = f[y] /\ f[y] \in Int
  BY FS_Subset
<1>2. f[x] \in Int /\ g[x] \in Int
  OBVIOUS
<1>3. SumFunctionOnSet(f, S) = f[x] + SumFunctionOnSet(f, U)
  BY SumRemove
<1>4. SumFunctionOnSet(g, S) = g[x] + SumFunctionOnSet(g, U)
  BY SumRemove
<1>5. SumFunctionOnSet(g, U) = SumFunctionOnSet(f, U) /\ SumFunctionOnSet(f, U) \in Int
  <2> HIDE DEF U
  <2> QED
    BY <1>1, SumSame, SumInt
<1> HIDE DEF U
<1> QED
  BY <1>2, <1>3, <1>4, <1>5

-----------------------------------------------------------------------------
\* Of finitely many values one is the largest.
LEMMA LargestExists ==
  ASSUME NEW f, NEW S, IsFiniteSet(S), S # {}, \A x \in S : f[x] \in Int
  PROVE  \E x \in S : \A y \in S : f[x] >= f[y]
<1> DEFINE HasLargest(T) == T # {} => \E x \in T : \A y \in T : f[x] >= f[y]
<1> DEFINE P == {T \in SUBSET S : HasLargest(T)}
<1>1. {} \in P
  OBVIOUS
<1>2. ASSUME NEW T \in SUBSET S, T # {}, \A x \in T : T \ {x} \in P
      PROVE  T \in P
  <2>1. PICK x \in T : TRUE
    BY <1>2
  <2>2. CASE T \ {x} = {}
    BY <2>1, <2>2
  <2>3. CASE T \ {x} # {}
    <3>1. PICK z \in T \ {x} : \A y \in T \ {x} : f[z] >= f[y]
      BY <1>2, <2>1, <2>3
    <3>2. f[x] \in Int /\ \A y \in T : f[y] \in Int
      OBVIOUS
    <3>3. CASE f[x] >= f[z]
      <4>1. \A y \in T : f[x] >= f[y]
        BY <3>1, <3>2, <3>3
      <4> QED
        BY <2>1, <4>1
    <3>4. CASE ~(f[x] >= f[z])
      <4>1. \A y \in T : f[z] >= f[y]
        BY <3>1, <3>2, <3>4
      <4> QED
        BY <3>1, <4>1
    <3> QED
      BY <3>3, <3>4
  <2> QED
    BY <2>2, <2>3
<1>3. S \in P
  <2> HIDE DEF P
  <2> QED
    BY <1>1, <1>2, SubsetInduction
<1> QED
  BY <1>3

\* So the largest of them is well defined, and there is only one.
LEMMA LargestIs ==
  ASSUME NEW f, NEW S, IsFiniteSet(S), S # {}, \A x \in S : f[x] \in Int
  PROVE  /\ Max({f[x] : x \in S}) \in Int
         /\ \E y \in S : Max({f[x] : x \in S}) = f[y]
         /\ \A y \in S : Max({f[x] : x \in S}) >= f[y]
<1> DEFINE V == {f[x] : x \in S}
<1>1. PICK x \in S : \A y \in S : f[x] >= f[y]
  BY LargestExists
<1>2. f[x] \in V /\ \A v \in V : f[x] >= v
  BY <1>1
<1>3. Max(V) \in V /\ \A v \in V : Max(V) >= v
  BY <1>2 DEF Max
<1> QED
  BY <1>3

\* Largest and smallest elements.
LEMMA MaxIs ==
  ASSUME NEW S \in SUBSET Int, IsFiniteSet(S), S # {}
  PROVE  /\ Max(S) \in S /\ \A y \in S : y <= Max(S)
         /\ \A m \in S : (\A y \in S : y <= m) => m = Max(S)
<1> DEFINE f == [x \in S |-> x]
<1>1. \A x \in S : f[x] \in Int /\ f[x] = x
  OBVIOUS
<1>2. PICK x \in S : \A y \in S : f[x] >= f[y]
  <2> HIDE DEF f
  <2> QED
    BY <1>1, LargestExists
<1>3. \A y \in S : x >= y
  BY <1>1, <1>2
<1>4. Max(S) \in S /\ \A y \in S : Max(S) >= y
  BY <1>2, <1>3 DEF Max
<1>5. \A a, b \in S : a <= b /\ b <= a => a = b
  OBVIOUS
<1> QED
  BY <1>4, <1>5

LEMMA MinIs ==
  ASSUME NEW S \in SUBSET Int, IsFiniteSet(S), S # {}
  PROVE  /\ Min(S) \in S /\ \A y \in S : Min(S) <= y
         /\ \A m \in S : (\A y \in S : m <= y) => m = Min(S)
<1> DEFINE f == [x \in S |-> -x]
<1>1. \A x \in S : f[x] \in Int /\ f[x] = -x
  OBVIOUS
<1>2. PICK x \in S : \A y \in S : f[x] >= f[y]
  <2> HIDE DEF f
  <2> QED
    BY <1>1, LargestExists
<1>3. \A y \in S : x <= y
  BY <1>1, <1>2
<1>4. Min(S) \in S /\ \A y \in S : Min(S) <= y
  BY <1>2, <1>3 DEF Min
<1>5. \A a, b \in S : a <= b /\ b <= a => a = b
  OBVIOUS
<1> QED
  BY <1>4, <1>5

LEMMA MaxOfTwo ==
  ASSUME NEW a \in Int, NEW b \in Int
  PROVE  /\ Max({a, b}) \in Int /\ a <= Max({a, b}) /\ b <= Max({a, b})
         /\ Max({a, b}) = a \/ Max({a, b}) = b
<1>1. \E x \in {a, b} : \A y \in {a, b} : x >= y
  OBVIOUS
<1> QED
  BY <1>1 DEF Max

LEMMA MinOfTwo ==
  ASSUME NEW a \in Int, NEW b \in Int
  PROVE  /\ Min({a, b}) \in Int /\ Min({a, b}) <= a /\ Min({a, b}) <= b
         /\ Min({a, b}) = a \/ Min({a, b}) = b
<1>1. \E x \in {a, b} : \A y \in {a, b} : x <= y
  OBVIOUS
<1> QED
  BY <1>1 DEF Min
===============================================================================
