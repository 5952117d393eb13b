----------------------------- MODULE DataLemmas -----------------------------
(***************************************************************************)
(* Facts about finite sets, sums and folds that the proofs of several      *)
(* components rest on.  None of them is about the program.                 *)
(***************************************************************************)
EXTENDS Integers, FiniteSetsExt, FiniteSetTheorems, TLAPS

-----------------------------------------------------------------------------
\* A set of numbers has a least one: it is as large as the set of the numbers
\* that no member reaches down to.
LEMMA LeastExists ==
    ASSUME NEW S \in SUBSET Nat, S # {}
    PROVE  \E x \in S : \A y \in S : x <= y
<1>1. PICK a \in S : TRUE
    OBVIOUS
<1> DEFINE N == {n \in 0..a : \A y \in S : n < y}
           k == Cardinality(N)
<1>2. IsFiniteSet(0..a) /\ N \subseteq 0..a
    BY <1>1, FS_Interval
<1>3. IsFiniteSet(N) /\ k \in Nat
    BY <1>2, FS_Subset, FS_CardinalityType
<1>4. \A n \in Nat : IsFiniteSet(0..n) /\ Cardinality(0..n) = n + 1
    BY FS_Interval
<1>5. \A n \in Nat : n < k => \A y \in S : n < y
  <2> SUFFICES ASSUME NEW n \in Nat, n < k, NEW y \in S, y <= n PROVE FALSE
    OBVIOUS
  <2>1. CASE n = 0
    <3>1. N = {}
      BY <2>1
    <3> QED BY <3>1, FS_EmptySet
  <2>2. CASE n # 0
    <3>1. N \subseteq 0..(n - 1) /\ n - 1 \in Nat
      BY <2>2
    <3>2. IsFiniteSet(0..(n - 1)) /\ Cardinality(0..(n - 1)) = n - 1 + 1
      BY <3>1, <1>4
    <3> HIDE DEF N
    <3>3. k <= Cardinality(0..(n - 1))
      BY <3>1, <3>2, FS_Subset
    <3> QED BY <2>2, <3>2, <3>3, <1>3
  <2> QED BY <2>1, <2>2
<1>6. \E y \in S : y <= k
  <2> SUFFICES ASSUME \A y \in S : k < y PROVE FALSE
    BY <1>3
  <2>1. 0..k \subseteq N
    BY <1>1, <1>3
  <2>2. Cardinality(0..k) <= k
    BY <2>1, <1>3, FS_Subset
  <2> QED BY <2>2, <1>3, <1>4
<1> HIDE DEF N, k
<1>7. PICK y \in S : y <= k
    BY <1>6
<1>8. \A x \in S : k <= x
    BY <1>3, <1>5
<1>9. y = k
    BY <1>3, <1>7, <1>8
<1> QED BY <1>8, <1>9

-----------------------------------------------------------------------------
(***************************************************************************)
(* Sums.  SumFunctionOnSet is a recursive definition, and the induction    *)
(* that shows what it computes is an argument by a smallest counterexample.*)
(***************************************************************************)

\* A set of subsets of a finite set has a smallest member.
LEMMA SmallestSubset ==
    ASSUME NEW S, IsFiniteSet(S), NEW bad, bad \subseteq SUBSET S, bad # {}
    PROVE  \E T \in bad : \A U \in bad : U \subseteq T => U = T
<1>1. IsWellFoundedOn(StrictSubsetOrdering(S), FiniteSubsetsOf(S))
    BY FS_StrictSubsetOrderingWellFounded
<1>2. bad \subseteq FiniteSubsetsOf(S)
    BY FS_FiniteSubsetsOfFinite
<1>3. PICK T \in bad : \A U \in bad : ~(<<U, T>> \in StrictSubsetOrdering(S))
    BY <1>1, <1>2, WFMin
<1> QED BY <1>3 DEF StrictSubsetOrdering

\* A finite set of numbers has a largest one.
LEMMA GreatestExists ==
    ASSUME NEW S, IsFiniteSet(S), (\A x \in S : x \in Nat), S # {}
    PROVE  \E x \in S : \A y \in S : y <= x
<1> DEFINE bad == {T \in SUBSET S : T # {} /\ ~\E x \in T : \A y \in T : y <= x}
<1>1. SUFFICES ASSUME bad # {} PROVE FALSE
    OBVIOUS
<1>2. PICK T \in bad : \A U \in bad : U \subseteq T => U = T
  <2>1. bad \subseteq SUBSET S
    OBVIOUS
  <2>2. bad # {}
    BY <1>1
  <2> HIDE DEF bad
  <2> QED BY <2>1, <2>2, SmallestSubset
<1>3. PICK x \in T : TRUE
    BY <1>2
<1> DEFINE R == T \ {x}
<1>4. R \in SUBSET S /\ R # T /\ R \subseteq T
    BY <1>2, <1>3
<1>5. R # {}
    BY <1>2
<1>6. PICK m \in R : \A y \in R : y <= m
    BY <1>2, <1>4, <1>5
<1>7. m \in T /\ m \in Nat /\ x \in Nat /\ \A y \in T : y \in Nat /\ (y = x \/ y \in R)
    BY <1>2, <1>3, <1>6
<1>8. CASE x <= m
    BY <1>2, <1>6, <1>7, <1>8
<1>9. CASE m <= x
    BY <1>2, <1>6, <1>7, <1>9
<1> QED BY <1>7, <1>8, <1>9

\* What has the sum of f over every subset of S, the way the recursion makes it.
Picked(s) == CHOOSE x \in s : TRUE
Sums(it, f, S) ==
    \A s \in SUBSET S :
        it[s] = IF s = {} THEN 0 ELSE f[Picked(s)] + it[s \ {Picked(s)}]

LEMMA PickedIn == ASSUME NEW s, s # {} PROVE Picked(s) \in s
BY DEF Picked

\* There is one such value at most, and it depends on the summands only.
LEMMA SumsAgree ==
    ASSUME NEW S, IsFiniteSet(S), NEW R, S \subseteq R, NEW f, NEW g, NEW it, NEW is,
           Sums(it, f, S), Sums(is, g, R), \A x \in S : f[x] = g[x]
    PROVE  \A s \in SUBSET S : it[s] = is[s]
<1> DEFINE bad == {s \in SUBSET S : it[s] # is[s]}
<1>1. SUFFICES ASSUME bad # {} PROVE FALSE
    OBVIOUS
<1>2. PICK s \in bad : \A r \in bad : r \subseteq s => r = s
  <2>1. bad \subseteq SUBSET S
    OBVIOUS
  <2> HIDE DEF bad
  <2> QED BY <1>1, <2>1, SmallestSubset
<1>3. s # {} /\ s \in SUBSET R
    BY <1>2 DEF Sums
<1>4. Picked(s) \in s /\ s \ {Picked(s)} \in SUBSET S
    BY <1>2, <1>3, PickedIn
<1>5. it[s \ {Picked(s)}] = is[s \ {Picked(s)}]
    BY <1>2, <1>4
<1> QED BY <1>2, <1>3, <1>4, <1>5 DEF Sums

\* There is such a value.
LEMMA SumsExist ==
    ASSUME NEW S, IsFiniteSet(S), NEW f, \A x \in S : f[x] \in Int
    PROVE  \E it \in [SUBSET S -> Int] : Sums(it, f, S)
<1> DEFINE Good(it, T) == it \in [SUBSET T -> Int] /\ Sums(it, f, T)
           bad == {T \in SUBSET S : ~\E it : Good(it, T)}
           G(T) == CHOOSE it : Good(it, T)
           Rest(s) == s \ {Picked(s)}
<1>1. SUFFICES ASSUME bad # {} PROVE FALSE
    BY <1>1
<1>2. PICK T \in bad : \A U \in bad : U \subseteq T => U = T
  <2>1. bad \subseteq SUBSET S
    OBVIOUS
  <2> HIDE DEF bad
  <2> QED BY <1>1, <2>1, SmallestSubset
<1>3. \A U \in SUBSET T : U # T => Good(G(U), U)
    BY <1>2
<1> HIDE DEF G
<1>4. \A s \in SUBSET T : s # {} =>
        Picked(s) \in s /\ f[Picked(s)] \in Int /\ Rest(s) \in SUBSET s /\ Rest(s) # s
    BY <1>2, PickedIn
<1> DEFINE it == [s \in SUBSET T |->
        IF s = {} THEN 0
        ELSE IF s = T THEN f[Picked(s)] + G(Rest(s))[Rest(s)] ELSE G(s)[s]]
<1>5. ASSUME NEW s \in SUBSET T, s # T
      PROVE  it[s] = G(s)[s] /\ G(s)[s] \in Int
  <2>1. G(s) \in [SUBSET s -> Int] /\ Sums(G(s), f, s)
    BY <1>3, <1>5
  <2>2. G(s)[s] \in Int
    BY <2>1
  <2>3. s = {} => G(s)[s] = 0
    BY <2>1 DEF Sums
  <2> QED BY <1>5, <2>2, <2>3
<1>6. ASSUME NEW s \in SUBSET T, s # {}
      PROVE  it[s] = f[Picked(s)] + it[Rest(s)]
  <2>1. Rest(s) \in SUBSET T /\ Rest(s) # T /\ it[Rest(s)] = G(Rest(s))[Rest(s)]
    <3>1. Rest(s) \in SUBSET T /\ Rest(s) # T
      BY <1>4, <1>6
    <3> QED BY <1>5, <3>1
  <2>2. CASE s = T
    BY <1>6, <2>1, <2>2
  <2>3. CASE s # T
    <3>1. Sums(G(s), f, s) /\ Sums(G(Rest(s)), f, Rest(s))
      BY <1>3, <2>1, <2>3
    <3>2. IsFiniteSet(Rest(s)) /\ Rest(s) \subseteq s
      BY <1>2, FS_Subset
    <3>3. G(Rest(s))[Rest(s)] = G(s)[Rest(s)]
      <4> HIDE DEF Rest
      <4> QED BY <3>1, <3>2, SumsAgree
    <3>4. G(s)[s] = f[Picked(s)] + G(s)[Rest(s)]
      BY <1>6, <3>1 DEF Sums
    <3> QED BY <1>5, <2>1, <2>3, <3>3, <3>4
  <2> QED BY <2>2, <2>3
<1>7. ASSUME NEW s \in SUBSET T PROVE it[s] \in Int
  <2>1. CASE s = T /\ s # {}
    <3>1. Rest(s) # T /\ Rest(s) \in SUBSET T /\ f[Picked(s)] \in Int
      BY <1>4, <2>1
    <3>2. it[Rest(s)] \in Int
      BY <1>5, <3>1
    <3> HIDE DEF it, Rest
    <3> QED BY <1>6, <2>1, <3>1, <3>2
  <2>2. CASE s = {}
    BY <2>2
  <2> QED BY <1>5, <2>1, <2>2
<1>8. Good(it, T)
  <2>1. it \in [SUBSET T -> Int]
    BY <1>7
  <2>2. it[{}] = 0
    OBVIOUS
  <2> QED BY <1>6, <2>1, <2>2 DEF Sums
<1> QED BY <1>2, <1>8

LEMMA SumsAreTheSums ==
    ASSUME NEW S, IsFiniteSet(S), NEW f, \A x \in S : f[x] \in Int
    PROVE  \E it \in [SUBSET S -> Int] : Sums(it, f, S) /\ it[S] = SumFunctionOnSet(f, S)
<1> DEFINE Right(it) == it = [s \in SUBSET S |->
                IF s = {} THEN 0
                ELSE f[CHOOSE x \in s : TRUE] + it[s \ {CHOOSE x \in s : TRUE}]]
           sum == CHOOSE it : Right(it)
<1>1. PICK it \in [SUBSET S -> Int] : Sums(it, f, S)
    BY SumsExist
<1>2. Right(it)
    BY <1>1 DEF Sums, Picked
<1>3. Right(sum)
  <2> HIDE DEF Right
  <2> QED BY <1>2
<1>4. sum[S] = SumFunctionOnSet(f, S)
    BY DEF SumFunctionOnSet, FoldFunctionOnSet, MapThenFoldSet
<1> HIDE DEF sum
<1>5. Sums(sum, f, S)
    BY <1>3 DEF Sums, Picked
<1>6. \A s \in SUBSET S : sum[s] = it[s]
    BY <1>1, <1>5, SumsAgree
<1> QED BY <1>1, <1>4, <1>6

\* What a sum of integers is: none of nothing, and one element more than
\* without that element.
LEMMA SumInt ==
    ASSUME NEW S, IsFiniteSet(S), NEW f, \A x \in S : f[x] \in Int
    PROVE  SumFunctionOnSet(f, S) \in Int
<1>1. PICK it \in [SUBSET S -> Int] : it[S] = SumFunctionOnSet(f, S)
    BY SumsAreTheSums
<1> QED BY <1>1

LEMMA SumEmpty == ASSUME NEW f PROVE SumFunctionOnSet(f, {}) = 0
<1>1. PICK it \in [SUBSET {} -> Int] : Sums(it, f, {}) /\ it[{}] = SumFunctionOnSet(f, {})
    BY FS_EmptySet, SumsAreTheSums
<1> QED BY <1>1 DEF Sums

LEMMA SumEqual ==
    ASSUME NEW S, IsFiniteSet(S), NEW f, NEW g, \A x \in S : f[x] = g[x] /\ f[x] \in Int
    PROVE  SumFunctionOnSet(f, S) = SumFunctionOnSet(g, S)
<1>1. PICK it : Sums(it, f, S) /\ it[S] = SumFunctionOnSet(f, S)
    BY SumsAreTheSums
<1>2. PICK is : Sums(is, g, S) /\ is[S] = SumFunctionOnSet(g, S)
  <2>1. \A x \in S : g[x] \in Int
    OBVIOUS
  <2> QED BY <2>1, SumsAreTheSums
<1>3. it[S] = is[S]
    BY <1>1, <1>2, SumsAgree
<1> QED BY <1>1, <1>2, <1>3

LEMMA SumWithout ==
    ASSUME NEW S, IsFiniteSet(S), NEW f, \A x \in S : f[x] \in Int, NEW x \in S
    PROVE  SumFunctionOnSet(f, S) = f[x] + SumFunctionOnSet(f, S \ {x})
<1>1. PICK it \in [SUBSET S -> Int] : Sums(it, f, S) /\ it[S] = SumFunctionOnSet(f, S)
    BY SumsAreTheSums
<1>2. ASSUME NEW z \in S
      PROVE  it[S \ {z}] = SumFunctionOnSet(f, S \ {z})
  <2> DEFINE R == S \ {z}
  <2>1. IsFiniteSet(R) /\ R \subseteq S /\ \A y \in R : f[y] \in Int
    BY FS_Subset
  <2>2. PICK is : Sums(is, f, R) /\ is[R] = SumFunctionOnSet(f, R)
    BY <2>1, SumsAreTheSums
  <2>3. is[R] = it[R]
    <3> HIDE DEF R
    <3>1. \A s \in SUBSET R : is[s] = it[s]
      BY <1>1, <2>1, <2>2, SumsAgree
    <3> QED BY <3>1
  <2> QED BY <2>2, <2>3
<1> DEFINE bad == {T \in SUBSET S : \E z \in T : it[T] # f[z] + it[T \ {z}]}
<1>3. CASE bad # {}
  <2>1. PICK T \in bad : \A U \in bad : U \subseteq T => U = T
    <3>1. bad \subseteq SUBSET S
      OBVIOUS
    <3> HIDE DEF bad
    <3> QED BY <1>3, <3>1, SmallestSubset
  <2>2. PICK z \in T : it[T] # f[z] + it[T \ {z}]
    BY <2>1
  <2>3. PICK y \in T : y = Picked(T)
    BY <2>2, PickedIn
  <2>4. it[T] = f[y] + it[T \ {y}] /\ y # z
    BY <1>1, <2>1, <2>2, <2>3 DEF Sums
  <2> DEFINE R == T \ {y}
             Q == T \ {z}
  <2>5. R \notin bad /\ R \in SUBSET S /\ z \in R /\ Q \notin bad /\ Q \in SUBSET S /\ y \in Q
    BY <2>1, <2>4
  <2>6. it[R] = f[z] + it[R \ {z}] /\ it[Q] = f[y] + it[Q \ {y}]
    BY <2>5
  <2>7. R \ {z} = Q \ {y} /\ R \ {z} \in SUBSET S
    BY <2>5
  <2>8. it[R \ {z}] \in Int /\ f[z] \in Int /\ f[y] \in Int
    BY <2>1, <2>7
  <2> HIDE DEF R
  <2>9. it[T] = f[y] + (f[z] + it[R \ {z}]) /\ it[Q] = f[y] + it[R \ {z}]
    BY <2>4, <2>6, <2>7 DEF R
  <2>10. it[T] = f[z] + it[Q]
    BY <2>8, <2>9
  <2> QED BY <2>2, <2>10
<1>4. CASE bad = {}
  <2>1. it[S] = f[x] + it[S \ {x}]
    BY <1>4
  <2> QED BY <1>1, <1>2, <2>1
<1> QED BY <1>3, <1>4

\* Adding an element, and changing the summand of one.
LEMMA SumWith ==
    ASSUME NEW S, IsFiniteSet(S), NEW x, x \notin S, NEW f, \A y \in S \cup {x} : f[y] \in Int
    PROVE  SumFunctionOnSet(f, S \cup {x}) = SumFunctionOnSet(f, S) + f[x]
<1> DEFINE T == S \cup {x}
<1>1. IsFiniteSet(T) /\ T \ {x} = S /\ x \in T
    BY FS_AddElement
<1>2. SumFunctionOnSet(f, S) \in Int
    BY SumInt
<1>3. SumFunctionOnSet(f, T) = f[x] + SumFunctionOnSet(f, T \ {x})
  <2> HIDE DEF T
  <2>1. \A y \in T : f[y] \in Int
    BY DEF T
  <2> QED BY <1>1, <2>1, SumWithout
<1>4. SumFunctionOnSet(f, T) = f[x] + SumFunctionOnSet(f, S)
  <2> HIDE DEF T
  <2> QED BY <1>1, <1>3
<1>5. f[x] \in Int
  OBVIOUS
<1> QED BY <1>2, <1>4, <1>5

LEMMA SumChange ==
    ASSUME NEW S, IsFiniteSet(S), NEW x \in S, NEW f, NEW g,
           \A y \in S : f[y] \in Int /\ g[y] \in Int,
           \A y \in S \ {x} : g[y] = f[y]
    PROVE  SumFunctionOnSet(g, S) = SumFunctionOnSet(f, S) - f[x] + g[x]
<1> DEFINE R == S \ {x}
<1>1. IsFiniteSet(R)
    BY FS_Subset
<1>2. SumFunctionOnSet(f, R) = SumFunctionOnSet(g, R) /\ SumFunctionOnSet(f, R) \in Int
    BY <1>1, SumEqual, SumInt
<1>3. SumFunctionOnSet(f, S) = f[x] + SumFunctionOnSet(f, R)
      /\ SumFunctionOnSet(g, S) = g[x] + SumFunctionOnSet(g, R)
    BY SumWithout
<1> QED BY <1>2, <1>3

\* A sum of larger summands is larger.
LEMMA SumMonotone ==
    ASSUME NEW S, IsFiniteSet(S), NEW f, NEW g,
           \A x \in S : f[x] \in Int /\ g[x] \in Int /\ f[x] <= g[x]
    PROVE  SumFunctionOnSet(f, S) <= SumFunctionOnSet(g, S)
<1> DEFINE F(T) == SumFunctionOnSet(f, T)
           H(T) == SumFunctionOnSet(g, T)
           bad == {T \in SUBSET S : ~(F(T) <= H(T))}
<1>1. SUFFICES ASSUME bad # {} PROVE FALSE
    BY <1>1
<1>2. PICK T \in bad : \A U \in bad : U \subseteq T => U = T
  <2>1. bad \subseteq SUBSET S
    OBVIOUS
  <2> HIDE DEF bad
  <2> QED BY <1>1, <2>1, SmallestSubset
<1>3. F({}) <= H({})
    BY SumEmpty
<1>4. PICK x \in T : TRUE
    BY <1>2, <1>3
<1> DEFINE R == T \ {x}
<1>5. IsFiniteSet(T) /\ IsFiniteSet(R) /\ R \in SUBSET S
    BY <1>2, FS_Subset
<1>6. F(R) <= H(R)
    BY <1>2, <1>5
<1>7. F(T) = f[x] + F(R) /\ H(T) = g[x] + H(R) /\ F(R) \in Int /\ H(R) \in Int
    BY <1>2, <1>5, SumWithout, SumInt
<1> QED BY <1>2, <1>6, <1>7

LEMMA SumZero ==
    ASSUME NEW S, IsFiniteSet(S), NEW f, \A x \in S : f[x] = 0
    PROVE  SumFunctionOnSet(f, S) = 0
<1> DEFINE F(T) == SumFunctionOnSet(f, T)
           bad == {T \in SUBSET S : F(T) # 0}
<1>1. SUFFICES ASSUME bad # {} PROVE FALSE
    BY <1>1
<1>2. PICK T \in bad : \A U \in bad : U \subseteq T => U = T
  <2>1. bad \subseteq SUBSET S
    OBVIOUS
  <2> HIDE DEF bad
  <2> QED BY <1>1, <2>1, SmallestSubset
<1>3. PICK x \in T : TRUE
    BY <1>2, SumEmpty
<1>4. IsFiniteSet(T) /\ T \ {x} \in SUBSET S
    BY <1>2, FS_Subset
<1>5. F(T \ {x}) = 0
    BY <1>2, <1>4
<1>6. F(T) = f[x] + F(T \ {x})
    BY <1>2, <1>4, SumWithout
<1> QED BY <1>2, <1>5, <1>6

LEMMA SumNatural ==
    ASSUME NEW S, IsFiniteSet(S), NEW f, \A x \in S : f[x] \in Nat
    PROVE  SumFunctionOnSet(f, S) \in Nat
<1> DEFINE zero == [x \in S |-> 0]
<1>1. SumFunctionOnSet(zero, S) = 0
    BY SumZero
<1>2. SumFunctionOnSet(zero, S) <= SumFunctionOnSet(f, S)
    BY SumMonotone
<1>3. SumFunctionOnSet(f, S) \in Int
    BY SumInt
<1> QED BY <1>1, <1>2, <1>3

\* A sum over two sets that have nothing in common.
LEMMA SumUnion ==
    ASSUME NEW S, IsFiniteSet(S), NEW R, IsFiniteSet(R), S \cap R = {},
           NEW f, \A x \in S \cup R : f[x] \in Int
    PROVE  SumFunctionOnSet(f, S \cup R) = SumFunctionOnSet(f, S) + SumFunctionOnSet(f, R)
<1> DEFINE F(T) == SumFunctionOnSet(f, T)
           bad == {T \in SUBSET R : F(S \cup T) # F(S) + F(T)}
<1>1. SUFFICES ASSUME bad # {} PROVE FALSE
    BY <1>1
<1>2. PICK T \in bad : \A U \in bad : U \subseteq T => U = T
  <2>1. bad \subseteq SUBSET R
    OBVIOUS
  <2> HIDE DEF bad
  <2> QED BY <1>1, <2>1, SmallestSubset
<1>3. F(S) \in Int
    BY SumInt
<1>4. PICK x \in T : TRUE
  <2>1. F({}) = 0
    BY SumEmpty
  <2>2. S \cup {} = S
    OBVIOUS
  <2>3. F(S \cup {}) = F(S) + F({})
    BY <1>3, <2>1, <2>2
  <2> QED BY <1>2, <2>3
<1> DEFINE Q == T \ {x}
<1>5. IsFiniteSet(T) /\ IsFiniteSet(Q) /\ Q \in SUBSET R /\ T \in SUBSET R
    BY <1>2, FS_Subset
<1>6. F(S \cup Q) = F(S) + F(Q)
    BY <1>2, <1>5
<1>7. F(T) = f[x] + F(Q) /\ F(Q) \in Int
    BY <1>2, <1>5, SumWithout, SumInt
<1>8. F(S \cup T) = f[x] + F(S \cup Q)
  <2>1. IsFiniteSet(S \cup T) /\ x \in S \cup T /\ \A y \in S \cup T : f[y] \in Int
    BY <1>2, <1>5, FS_Union
  <2>2. (S \cup T) \ {x} = S \cup Q
    BY <1>2
  <2> QED BY <2>1, <2>2, SumWithout
<1> QED BY <1>2, <1>3, <1>6, <1>7, <1>8

\* What is zero need not be summed.
LEMMA SumWithZeros ==
    ASSUME NEW S, IsFiniteSet(S), NEW T, T \subseteq S, NEW f, NEW g,
           \A x \in S : g[x] \in Int,
           \A x \in T : f[x] = g[x],
           \A x \in S \ T : g[x] = 0
    PROVE  SumFunctionOnSet(f, T) = SumFunctionOnSet(g, S)
<1> DEFINE R == S \ T
<1>1. IsFiniteSet(T) /\ IsFiniteSet(R) /\ T \cap R = {} /\ T \cup R = S
    BY FS_Subset
<1>2. SumFunctionOnSet(f, T) = SumFunctionOnSet(g, T) /\ SumFunctionOnSet(g, T) \in Int
    BY <1>1, SumEqual, SumInt
<1>3. SumFunctionOnSet(g, R) = 0
    BY <1>1, SumZero
<1>4. SumFunctionOnSet(g, S) = SumFunctionOnSet(g, T) + SumFunctionOnSet(g, R)
  <2> HIDE DEF R
  <2> QED BY <1>1, SumUnion
<1> QED BY <1>2, <1>3, <1>4

-----------------------------------------------------------------------------
(***************************************************************************)
(* Folds of sequences.  FoldLeft is a recursion over the sets of positions,*)
(* of which the positions 1..i are the only ones that matter.              *)
(***************************************************************************)

\* Induction up to n, over a set of numbers.
LEMMA UpTo ==
    ASSUME NEW n \in Nat, NEW good, 0 \in good, \A i \in 1..n : i - 1 \in good => i \in good
    PROVE  0..n \subseteq good
<1> DEFINE bad == {i \in 0..n : i \notin good}
<1>1. SUFFICES ASSUME bad # {} PROVE FALSE
    OBVIOUS
<1>2. bad \subseteq Nat
    OBVIOUS
<1>3. PICK i \in bad : \A j \in bad : i <= j
  <2> HIDE DEF bad
  <2> QED BY <1>1, <1>2, LeastExists
<1>4. i # 0 /\ i \in 1..n
    BY <1>3
<1>5. i - 1 \in 0..n /\ i - 1 \notin bad
    BY <1>3, <1>4
<1> QED BY <1>3, <1>4, <1>5

LEMMA MaxIs ==
    ASSUME NEW n \in Nat, NEW s, s \subseteq 1..n, s # {}
    PROVE  Max(s) \in s /\ \A y \in s : y <= Max(s)
<1> DEFINE N == 1..n
<1>1. IsFiniteSet(s)
  <2>1. IsFiniteSet(N) /\ s \subseteq N
    BY FS_Interval
  <2> HIDE DEF N
  <2> QED BY <2>1, FS_Subset
<1>2. \A x \in s : x \in Nat
    OBVIOUS
<1>3. \E x \in s : \A y \in s : y <= x
    BY <1>1, <1>2, GreatestExists
<1> QED BY <1>2, <1>3 DEF Max

LEMMA MaxUpTo ==
    ASSUME NEW i \in Nat \ {0}
    PROVE  Max(1..i) = i /\ (1..i) \ {i} = 1..(i - 1)
<1> DEFINE s == 1..i
<1>1. Max(s) \in s /\ \A y \in s : y <= Max(s)
  <2>1. s \subseteq 1..i /\ s # {} /\ i \in Nat
    OBVIOUS
  <2> HIDE DEF s
  <2> QED BY <2>1, MaxIs
<1>2. i \in 1..i
    OBVIOUS
<1>3. Max(1..i) = i
    BY <1>1, <1>2
<1> QED BY <1>3

\* What folds g over the sets of positions up to n.
FoldsTo(it, base, g, n) ==
    \A s \in SUBSET (1..n) :
        it[s] = IF s = {} THEN base ELSE g[Max(s)][it[s \ {Max(s)}]]

\* There is such a value, whatever is folded.
LEMMA FoldExists ==
    ASSUME NEW n \in Nat, NEW V, NEW base \in V, NEW g,
           \A i \in 1..n : \A v \in V : g[i][v] \in V
    PROVE  \E it \in [SUBSET (1..n) -> V] : FoldsTo(it, base, g, n)
<1> DEFINE Good(k, it) == it \in [SUBSET (1..k) -> V] /\ FoldsTo(it, base, g, k)
           good == {k \in 0..n : \E it : Good(k, it)}
<1>1. 0 \in good
  <2> DEFINE it == [s \in SUBSET (1..0) |-> base]
  <2>1. Good(0, it)
    BY DEF FoldsTo
  <2> QED BY <2>1
<1>2. ASSUME NEW k \in 1..n, k - 1 \in good PROVE k \in good
  <2>1. PICK it : Good(k - 1, it)
    BY <1>2
  <2> DEFINE is == [s \in SUBSET (1..k) |->
                       IF k \notin s THEN it[s] ELSE g[k][it[s \ {k}]]]
  <2>2. ASSUME NEW s \in SUBSET (1..k)
        PROVE  /\ k \notin s => s \in SUBSET (1..(k - 1))
               /\ k \in s => Max(s) = k
               /\ s \ {k} \in SUBSET (1..(k - 1))
    <3>1. CASE k \in s
      <4>1. s \subseteq 1..k /\ s # {} /\ k \in Nat
        BY <3>1
      <4>2. Max(s) \in s /\ \A y \in s : y <= Max(s)
        BY <4>1, MaxIs
      <4> DEFINE m == Max(s)
      <4>3. m \in 1..k /\ k <= m
        BY <3>1, <4>1, <4>2
      <4> HIDE DEF m
      <4>4. m = k
        BY <4>1, <4>3
      <4> QED BY <3>1, <4>4 DEF m
    <3>2. CASE k \notin s
      BY <3>2
    <3> QED BY <3>1, <3>2
  <2>3. \A s \in SUBSET (1..(k - 1)) : it[s] \in V
    BY <2>1
  <2>4. ASSUME NEW s \in SUBSET (1..k)
        PROVE  is[s] \in V
    BY <2>2, <2>3, <1>2
  <2>5. is \in [SUBSET (1..k) -> V]
    BY <2>4
  <2>6. ASSUME NEW s \in SUBSET (1..k)
        PROVE  is[s] = IF s = {} THEN base ELSE g[Max(s)][is[s \ {Max(s)}]]
    <3>1. CASE k \in s
      <4>1. is[s] = g[k][it[s \ {k}]]
        BY <3>1
      <4>2. is[s \ {k}] = it[s \ {k}]
        OBVIOUS
      <4> HIDE DEF is
      <4> QED BY <2>2, <3>1, <4>1, <4>2
    <3>2. CASE k \notin s /\ s # {}
      <4>1. s \in SUBSET (1..(k - 1))
        BY <2>2, <3>2
      <4>2. it[s] = g[Max(s)][it[s \ {Max(s)}]]
        BY <2>1, <3>2, <4>1 DEF FoldsTo
      <4>3. is[s] = it[s] /\ is[s \ {Max(s)}] = it[s \ {Max(s)}]
        BY <3>2
      <4> HIDE DEF is
      <4> QED BY <3>2, <4>2, <4>3
    <3>3. CASE s = {}
      <4>1. it[{}] = base
        BY <2>1 DEF FoldsTo
      <4>2. is[s] = it[{}]
        BY <3>3
      <4> HIDE DEF is
      <4> QED BY <3>3, <4>1, <4>2
    <3> QED BY <3>1, <3>2, <3>3
  <2>7. FoldsTo(is, base, g, k)
    <3> HIDE DEF is
    <3> QED BY <2>6 DEF FoldsTo
  <2>8. Good(k, is)
    BY <2>5, <2>7
  <2> HIDE DEF is, Good
  <2> QED BY <2>8
<1>3. n \in good
  <2> HIDE DEF good
  <2> QED BY <1>1, <1>2, UpTo
<1> QED BY <1>3
=============================================================================
