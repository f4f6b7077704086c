----------------------------- MODULE SumLemmas -----------------------------
(***************************************************************************)
(* Sums of a function over a finite set (SumFunctionOnSet of the community *)
(* modules), for the invariants that count tokens.  The fold behind them   *)
(* is a recursive function; what it computes is shown by least             *)
(* counterexample: the subsets of a finite set are well founded under      *)
(* inclusion, so a property some subset lacks is lacked by a minimal one.  *)
(***************************************************************************)
EXTENDS Integers, Functions, FiniteSetTheorems, TLAPS

(* The element the folds take out first. *)
Pick(s) == CHOOSE x \in s : TRUE

(* One level of the recursion of the folds. *)
Unfolded(g, f, S) ==
  [s \in SUBSET S |-> IF s = {} THEN 0 ELSE f[Pick(s)] + g[s \ {Pick(s)}]]

(* The sum is the fold. *)
LEMMA SumUnfolds ==
  ASSUME NEW f, NEW S
  PROVE  SumFunctionOnSet(f, S) = (CHOOSE g : g = Unfolded(g, f, S))[S]
  BY DEF SumFunctionOnSet, FoldFunctionOnSet, MapThenFoldSet, Unfolded, Pick

(* Least counterexample: a family of subsets has a minimal member. *)
LEMMA MinimalSubset ==
  ASSUME NEW S, IsFiniteSet(S), NEW F \in SUBSET (SUBSET S), F # {}
  PROVE  \E T \in F : \A U \in F : U \subseteq T => U = T
<1>1. IsWellFoundedOn(StrictSubsetOrdering(S), SUBSET S)
  BY FS_StrictSubsetOrderingWellFounded, FS_FiniteSubsetsOfFinite
<1>2. PICK T \in F : \A U \in F : <<U, T>> \notin StrictSubsetOrdering(S)
  BY <1>1, WFMin
<1> QED
  BY <1>2 DEF StrictSubsetOrdering

(* g is the recursive function behind the sum of f over the subsets of S.  *)
Solves(g, f, S) == g = Unfolded(g, f, S)

(* A set that is not empty has an element to pick. *)
LEMMA PickIsIn == ASSUME NEW s, s # {} PROVE Pick(s) \in s
  BY DEF Pick

(* One level of the recursion, at one subset. *)
LEMMA SolvesAt ==
  ASSUME NEW S, NEW f, NEW g, Solves(g, f, S), NEW s \in SUBSET S
  PROVE  g[s] = IF s = {} THEN 0 ELSE f[Pick(s)] + g[s \ {Pick(s)}]
  BY Zenon DEF Solves, Unfolded

(* Two of them agree wherever their functions do. *)
LEMMA SolutionsAgree ==
  ASSUME NEW S, IsFiniteSet(S), NEW f, NEW h, NEW g, NEW k,
         NEW S1, NEW S2, S \subseteq S1, S \subseteq S2,
         Solves(g, f, S1), Solves(k, h, S2), \A x \in S : f[x] = h[x]
  PROVE  g[S] = k[S]
<1> DEFINE F == {s \in SUBSET S : g[s] # k[s]}
<1> SUFFICES ASSUME F # {} PROVE FALSE
  BY Zenon
<1>0. F \in SUBSET (SUBSET S)
  OBVIOUS
<1> HIDE DEF F
<1>1. PICK T \in F : \A U \in F : U \subseteq T => U = T
  BY <1>0, MinimalSubset
<1> USE DEF F
<1>2. /\ g[T] = IF T = {} THEN 0 ELSE f[Pick(T)] + g[T \ {Pick(T)}]
      /\ k[T] = IF T = {} THEN 0 ELSE h[Pick(T)] + k[T \ {Pick(T)}]
  <2>1. T \in SUBSET S1 /\ T \in SUBSET S2
    BY <1>1
  <2> QED
    BY <2>1, SolvesAt
<1>3. T # {} /\ Pick(T) \in T
  BY <1>2, PickIsIn
<1>4. g[T \ {Pick(T)}] = k[T \ {Pick(T)}]
  BY <1>1, <1>3
<1> QED
  BY <1>1, <1>2, <1>3, <1>4

(* The recursion has a solution on every finite set. *)
LEMMA SolutionExists ==
  ASSUME NEW f, NEW S, IsFiniteSet(S)
  PROVE  \E g : Solves(g, f, S)
<1> DEFINE F == {T \in SUBSET S : ~ \E g : Solves(g, f, T)}
<1> SUFFICES ASSUME F # {} PROVE FALSE
  BY Zenon
<1>0. F \in SUBSET (SUBSET S)
  OBVIOUS
<1> HIDE DEF F
<1>1. PICK T \in F : \A U \in F : U \subseteq T => U = T
  BY <1>0, MinimalSubset
<1> USE DEF F
<1> DEFINE Of(U) == CHOOSE g : Solves(g, f, U)
           Rest(s) == s \ {Pick(s)}
           h == [s \in SUBSET T |-> IF s = {} THEN 0 ELSE f[Pick(s)] + Of(Rest(s))[Rest(s)]]
<1>2. \A U \in SUBSET T : U # T => Solves(Of(U), f, U)
  <2> SUFFICES ASSUME NEW U \in SUBSET T, U # T PROVE Solves(Of(U), f, U)
    OBVIOUS
  <2>1. U \notin F /\ U \in SUBSET S
    BY <1>1
  <2>2. \E g : Solves(g, f, U)
    BY <2>1
  <2> QED
    BY <2>2
<1> HIDE DEF Of
<1>3. \A s \in SUBSET T : s # {} => Rest(s) \in SUBSET T /\ Rest(s) # T /\ Rest(s) \subseteq s /\ Rest(s) # s
  BY PickIsIn
<1>4. \A s \in SUBSET T : s # T => h[s] = Of(s)[s]
  <2> SUFFICES ASSUME NEW s \in SUBSET T, s # T PROVE h[s] = Of(s)[s]
    OBVIOUS
  <2>1. Solves(Of(s), f, s)
    BY <1>2
  <2>2. Of(s)[s] = IF s = {} THEN 0 ELSE f[Pick(s)] + Of(s)[Rest(s)]
    BY <2>1, SolvesAt
  <2>3. CASE s = {}
    BY <2>2, <2>3
  <2>4. CASE s # {}
    <3>1. Solves(Of(Rest(s)), f, Rest(s)) /\ Rest(s) \subseteq s
      BY <1>2, <1>3, <2>4
    <3>2. IsFiniteSet(Rest(s))
      BY <1>3, <2>4, FS_Subset
    <3> HIDE DEF Rest
    <3>3. Of(s)[Rest(s)] = Of(Rest(s))[Rest(s)]
      BY <2>1, <3>1, <3>2, SolutionsAgree
    <3> QED
      BY <2>2, <2>4, <3>3
  <2> QED
    BY <2>3, <2>4
<1>5. \A s \in SUBSET T : s # {} => h[Rest(s)] = Of(Rest(s))[Rest(s)]
  BY <1>3, <1>4
<1>6. Solves(h, f, T)
  BY <1>5, <1>3 DEF Solves, Unfolded
<1> QED
  BY <1>1, <1>6

(* The sum over a set is the value of any such function at it. *)
LEMMA SumIsSolution ==
  ASSUME NEW f, NEW S, IsFiniteSet(S), NEW D, S \subseteq D, NEW g, Solves(g, f, D)
  PROVE  SumFunctionOnSet(f, S) = g[S]
<1> DEFINE k == CHOOSE k : Solves(k, f, S)
<1>1. Solves(k, f, S)
  BY SolutionExists
<1>2. SumFunctionOnSet(f, S) = k[S]
  BY SumUnfolds DEF Solves
<1> HIDE DEF k
<1> QED
  BY <1>1, <1>2, SolutionsAgree

-----------------------------------------------------------------------------
(* What the proofs use. *)

(* Nothing sums to nothing. *)
LEMMA SumOfNone == ASSUME NEW f PROVE SumFunctionOnSet(f, {}) = 0
<1>1. PICK g : Solves(g, f, {})
  BY SolutionExists, FS_EmptySet
<1> QED
  BY <1>1, SumIsSolution, SolvesAt, FS_EmptySet

(* Only the values on the set matter. *)
LEMMA SumOfSame ==
  ASSUME NEW f, NEW h, NEW S, IsFiniteSet(S), \A x \in S : f[x] = h[x]
  PROVE  SumFunctionOnSet(f, S) = SumFunctionOnSet(h, S)
<1>1. PICK g : Solves(g, f, S)
  BY SolutionExists
<1>2. PICK k : Solves(k, h, S)
  BY SolutionExists
<1>3. g[S] = k[S]
  BY <1>1, <1>2, SolutionsAgree
<1> QED
  BY <1>1, <1>2, <1>3, SumIsSolution

(* A solution takes values where the function summed does. *)
LEMMA SolutionType ==
  ASSUME NEW S, IsFiniteSet(S), NEW f, NEW g, Solves(g, f, S), NEW N \in {Nat, Int},
         \A x \in S : f[x] \in N
  PROVE  \A s \in SUBSET S : g[s] \in N
<1> DEFINE F == {s \in SUBSET S : g[s] \notin N}
<1> SUFFICES ASSUME F # {} PROVE FALSE
  BY Zenon
<1>0. F \in SUBSET (SUBSET S)
  OBVIOUS
<1> HIDE DEF F
<1>1. PICK T \in F : \A U \in F : U \subseteq T => U = T
  BY <1>0, MinimalSubset
<1> USE DEF F
<1>2. g[T] = IF T = {} THEN 0 ELSE f[Pick(T)] + g[T \ {Pick(T)}]
  <2>1. T \in SUBSET S
    BY <1>1
  <2> HIDE DEF F
  <2>2. \A s \in SUBSET S : g[s] = IF s = {} THEN 0 ELSE f[Pick(s)] + g[s \ {Pick(s)}]
    BY SolvesAt
  <2> QED
    BY <2>1, <2>2, Zenon
<1>3. T # {}
  BY <1>1, <1>2
<1>4. Pick(T) \in T
  BY <1>3, PickIsIn
<1>5. g[T \ {Pick(T)}] \in N /\ f[Pick(T)] \in N
  BY <1>1, <1>4
<1> QED
  BY <1>1, <1>2, <1>3, <1>5

(* A sum of naturals is a natural, a sum of integers an integer. *)
LEMMA SumType ==
  ASSUME NEW S, IsFiniteSet(S), NEW f, NEW N \in {Nat, Int}, \A x \in S : f[x] \in N
  PROVE  SumFunctionOnSet(f, S) \in N
<1>1. PICK g : Solves(g, f, S)
  BY SolutionExists
<1>2. g[S] \in N
  BY <1>1, SolutionType
<1> QED
  BY <1>1, <1>2, SumIsSolution

(* Any element can be taken out first. *)
LEMMA SumWithout ==
  ASSUME NEW S, IsFiniteSet(S), NEW f, \A x \in S : f[x] \in Int, NEW e \in S
  PROVE  SumFunctionOnSet(f, S) = f[e] + SumFunctionOnSet(f, S \ {e})
<1>0. PICK g : Solves(g, f, S)
  BY SolutionExists
<1> DEFINE F == {s \in SUBSET S : \E x \in s : g[s] # f[x] + g[s \ {x}]}
<1>1. ASSUME F # {} PROVE FALSE
  <2>0. F \in SUBSET (SUBSET S)
    OBVIOUS
  <2> HIDE DEF F
  <2>1. PICK T \in F : \A U \in F : U \subseteq T => U = T
    BY <1>1, <2>0, MinimalSubset
  <2> USE DEF F
  <2>2. PICK x \in T : g[T] # f[x] + g[T \ {x}]
    BY <2>1
  <2> DEFINE p == Pick(T)
  <2>3. p \in T
    BY <2>2, PickIsIn
  <2>4. g[T] = f[p] + g[T \ {p}]
    <3>1. T \in SUBSET S /\ T # {}
      BY <2>1, <2>2
    <3> QED
      BY <1>0, <3>1, SolvesAt
  <2> HIDE DEF p
  <2>5. x # p
    BY <2>2, <2>4
  <2>6. T \ {p} \notin F /\ T \ {x} \notin F
    BY <2>1, <2>2, <2>3
  <2>7. g[T \ {p}] = f[x] + g[(T \ {p}) \ {x}]
    BY <2>2, <2>5, <2>6
  <2>8. g[T \ {x}] = f[p] + g[(T \ {x}) \ {p}]
    BY <2>3, <2>5, <2>6
  <2>9. (T \ {p}) \ {x} = (T \ {x}) \ {p}
    OBVIOUS
  <2>10. g[(T \ {p}) \ {x}] \in Int /\ f[x] \in Int /\ f[p] \in Int
    <3>1. (T \ {p}) \ {x} \in SUBSET S
      BY <2>1
    <3> QED
      BY <1>0, <2>1, <2>2, <2>3, <3>1, SolutionType
  <2> DEFINE u == g[(T \ {p}) \ {x}]
             a == f[x]
             b == f[p]
  <2>11. g[T] = b + (a + u) /\ g[T \ {x}] = b + u /\ g[T] # a + g[T \ {x}]
    BY <2>2, <2>4, <2>7, <2>8, <2>9
  <2>12. u \in Int /\ a \in Int /\ b \in Int
    BY <2>10
  <2> HIDE DEF u, a, b
  <2> QED
    BY <2>11, <2>12
<1>2. g[S] = f[e] + g[S \ {e}]
  BY <1>1
<1>3. SumFunctionOnSet(f, S) = g[S] /\ SumFunctionOnSet(f, S \ {e}) = g[S \ {e}]
  BY <1>0, SumIsSolution, FS_RemoveElement
<1> QED
  BY <1>2, <1>3

(* One value changes. *)
LEMMA SumChange ==
  ASSUME NEW S, IsFiniteSet(S), NEW f, NEW h, NEW e \in S,
         \A x \in S : f[x] \in Int /\ h[x] \in Int,
         \A x \in S \ {e} : f[x] = h[x]
  PROVE  SumFunctionOnSet(h, S) = SumFunctionOnSet(f, S) + h[e] - f[e]
<1>1. IsFiniteSet(S \ {e})
  BY FS_RemoveElement
<1>2. SumFunctionOnSet(f, S \ {e}) = SumFunctionOnSet(h, S \ {e})
  BY <1>1, SumOfSame
<1>3. SumFunctionOnSet(f, S \ {e}) \in Int
  BY <1>1, SumType
<1>4. /\ SumFunctionOnSet(f, S) = f[e] + SumFunctionOnSet(f, S \ {e})
      /\ SumFunctionOnSet(h, S) = h[e] + SumFunctionOnSet(h, S \ {e})
  BY SumWithout
<1> QED
  BY <1>2, <1>3, <1>4

(* Each element of a part of the set counts n more than before. *)
LEMMA SumRaised ==
  ASSUME NEW S, IsFiniteSet(S), NEW f, NEW h, NEW B \in SUBSET S, NEW n \in Int,
         \A x \in S : f[x] \in Int,
         \A x \in S : h[x] = IF x \in B THEN f[x] + n ELSE f[x]
  PROVE  SumFunctionOnSet(h, S) = SumFunctionOnSet(f, S) + n * Cardinality(B)
<1> DEFINE k(b) == [x \in S |-> IF x \in b THEN f[x] + n ELSE f[x]]
           F == {b \in SUBSET S :
                   SumFunctionOnSet(k(b), S) # SumFunctionOnSet(f, S) + n * Cardinality(b)}
<1>0. SumFunctionOnSet(f, S) \in Int
  BY SumType
<1>1. ASSUME F # {} PROVE FALSE
  <2>0. F \in SUBSET (SUBSET S)
    OBVIOUS
  <2> HIDE DEF F
  <2>1. PICK b \in F : \A U \in F : U \subseteq b => U = b
    BY <1>1, <2>0, MinimalSubset
  <2> USE DEF F
  <2>2. CASE b = {}
    <3>1. SumFunctionOnSet(k(b), S) = SumFunctionOnSet(f, S)
      BY <2>2, SumOfSame
    <3> QED
      BY <1>0, <2>1, <2>2, <3>1, FS_EmptySet
  <2>3. ASSUME NEW e \in b PROVE FALSE
    <3> DEFINE c == b \ {e}
    <3>1. c \notin F /\ c \in SUBSET S
      BY <2>1, <2>3
    <3>2. SumFunctionOnSet(k(c), S) = SumFunctionOnSet(f, S) + n * Cardinality(c)
      BY <3>1
    <3>3. IsFiniteSet(b) /\ Cardinality(c) = Cardinality(b) - 1 /\ Cardinality(b) \in Nat
      BY <2>1, <2>3, FS_Subset, FS_RemoveElement, FS_CardinalityType
    <3>4. /\ \A x \in S : k(c)[x] \in Int /\ k(b)[x] \in Int
          /\ \A x \in S \ {e} : k(c)[x] = k(b)[x]
          /\ e \in S /\ k(b)[e] - k(c)[e] = n
      BY <2>1, <2>3
    <3> DEFINE u == k(c)  v == k(b)
    <3>5. u[e] \in Int /\ v[e] \in Int /\ v[e] - u[e] = n
      BY <3>4
    <3> HIDE DEF k, u, v
    <3>a. /\ \A x \in S : u[x] \in Int /\ v[x] \in Int
          /\ \A x \in S \ {e} : u[x] = v[x]
          /\ e \in S
      BY <3>4 DEF u, v
    <3>6. SumFunctionOnSet(v, S) = SumFunctionOnSet(u, S) + v[e] - u[e]
      BY <3>a, SumChange
    <3>7. SumFunctionOnSet(u, S) \in Int
      BY <3>4, SumType DEF u
    <3>8. n * (Cardinality(b) - 1) + n = n * Cardinality(b)
      BY <3>3
    <3>9. n * (Cardinality(b) - 1) \in Int
      BY <3>3
    <3> HIDE DEF c
    <3> QED
      BY <1>0, <2>1, <3>2, <3>3, <3>5, <3>6, <3>7, <3>8, <3>9 DEF u, v
  <2> QED
    BY <2>2, <2>3
<1>2. SumFunctionOnSet(k(B), S) = SumFunctionOnSet(f, S) + n * Cardinality(B)
  BY <1>1
<1>3. SumFunctionOnSet(h, S) = SumFunctionOnSet(k(B), S)
  BY SumOfSame
<1> QED
  BY <1>2, <1>3

(* Nothing counts: the sum is zero. *)
LEMMA SumOfZeros ==
  ASSUME NEW S, IsFiniteSet(S), NEW f, \A x \in S : f[x] = 0
  PROVE  SumFunctionOnSet(f, S) = 0
<1> DEFINE F == {T \in SUBSET S : SumFunctionOnSet(f, T) # 0}
<1>1. ASSUME F # {} PROVE FALSE
  <2>0. F \in SUBSET (SUBSET S)
    OBVIOUS
  <2> HIDE DEF F
  <2>1. PICK T \in F : \A U \in F : U \subseteq T => U = T
    BY <1>1, <2>0, MinimalSubset
  <2> USE DEF F
  <2>2. T # {}
    BY <2>1, SumOfNone
  <2>3. PICK x \in T : TRUE
    BY <2>2
  <2>4. IsFiniteSet(T) /\ \A y \in T : f[y] \in Int
    BY <2>1, FS_Subset
  <2>5. SumFunctionOnSet(f, T) = f[x] + SumFunctionOnSet(f, T \ {x})
    BY <2>4, SumWithout
  <2>6. SumFunctionOnSet(f, T \ {x}) = 0
    BY <2>1
  <2>7. f[x] = 0
    BY <2>1
  <2> QED
    BY <2>1, <2>5, <2>6, <2>7
<1> QED
  BY <1>1

(* A sum of naturals is positive as soon as one of them is. *)
LEMMA SumPositive ==
  ASSUME NEW S, IsFiniteSet(S), NEW f, \A x \in S : f[x] \in Nat, NEW e \in S, f[e] > 0
  PROVE  SumFunctionOnSet(f, S) > 0
<1>1. SumFunctionOnSet(f, S) = f[e] + SumFunctionOnSet(f, S \ {e})
  BY SumWithout
<1>2. SumFunctionOnSet(f, S \ {e}) \in Nat
  BY SumType, FS_RemoveElement
<1> QED
  BY <1>1, <1>2

(* Two sums at once. *)
LEMMA SumOfBoth ==
  ASSUME NEW S, IsFiniteSet(S), NEW f, NEW g, NEW h,
         \A x \in S : f[x] \in Int /\ g[x] \in Int,
         \A x \in S : h[x] = f[x] + g[x]
  PROVE  SumFunctionOnSet(h, S) = SumFunctionOnSet(f, S) + SumFunctionOnSet(g, S)
<1> DEFINE F == {T \in SUBSET S :
                   SumFunctionOnSet(h, T) # SumFunctionOnSet(f, T) + SumFunctionOnSet(g, T)}
<1>1. ASSUME F # {} PROVE FALSE
  <2>0. F \in SUBSET (SUBSET S)
    OBVIOUS
  <2> HIDE DEF F
  <2>1. PICK T \in F : \A U \in F : U \subseteq T => U = T
    BY <1>1, <2>0, MinimalSubset
  <2> USE DEF F
  <2>2. T # {}
    <3>1. /\ SumFunctionOnSet(f, {}) = 0 /\ SumFunctionOnSet(g, {}) = 0
          /\ SumFunctionOnSet(h, {}) = 0
      BY SumOfNone
    <3>2. SumFunctionOnSet(h, {}) = SumFunctionOnSet(f, {}) + SumFunctionOnSet(g, {})
      BY <3>1
    <3> QED
      BY <2>1, <3>2
  <2>3. PICK x \in T : TRUE
    BY <2>2
  <2>4. /\ IsFiniteSet(T) /\ IsFiniteSet(T \ {x}) /\ x \in S
        /\ \A y \in T : f[y] \in Int /\ g[y] \in Int /\ h[y] \in Int
    BY <2>1, FS_Subset
  <2>5. /\ SumFunctionOnSet(f, T) = f[x] + SumFunctionOnSet(f, T \ {x})
        /\ SumFunctionOnSet(g, T) = g[x] + SumFunctionOnSet(g, T \ {x})
        /\ SumFunctionOnSet(h, T) = h[x] + SumFunctionOnSet(h, T \ {x})
    BY <2>4, SumWithout
  <2>6. SumFunctionOnSet(h, T \ {x})
          = SumFunctionOnSet(f, T \ {x}) + SumFunctionOnSet(g, T \ {x})
    BY <2>1
  <2>7. SumFunctionOnSet(f, T \ {x}) \in Int /\ SumFunctionOnSet(g, T \ {x}) \in Int
    BY <2>4, SumType
  <2>8. h[x] = f[x] + g[x] /\ f[x] \in Int /\ g[x] \in Int
    BY <2>4
  <2>9. SumFunctionOnSet(h, T) # SumFunctionOnSet(f, T) + SumFunctionOnSet(g, T)
    BY <2>1
  <2> QED
    BY <2>5, <2>6, <2>7, <2>8, <2>9
<1> QED
  BY <1>1

(* A set is summed part by part. *)
LEMMA SumOfParts ==
  ASSUME NEW S, IsFiniteSet(S), NEW f, \A x \in S : f[x] \in Int, NEW A \in SUBSET S
  PROVE  SumFunctionOnSet(f, S) = SumFunctionOnSet(f, A) + SumFunctionOnSet(f, S \ A)
<1> DEFINE F == {T \in SUBSET S : SumFunctionOnSet(f, S)
                                    # SumFunctionOnSet(f, T) + SumFunctionOnSet(f, S \ T)}
<1>0. SumFunctionOnSet(f, S) \in Int
  BY SumType
<1>1. ASSUME F # {} PROVE FALSE
  <2>0. F \in SUBSET (SUBSET S)
    OBVIOUS
  <2> HIDE DEF F
  <2>1. PICK T \in F : \A U \in F : U \subseteq T => U = T
    BY <1>1, <2>0, MinimalSubset
  <2> USE DEF F
  <2>2. T # {}
    <3>1. SumFunctionOnSet(f, {}) = 0 /\ S \ {} = S
      BY SumOfNone
    <3>2. SumFunctionOnSet(f, S)
            = SumFunctionOnSet(f, {}) + SumFunctionOnSet(f, S \ {})
      BY <1>0, <3>1
    <3> QED
      BY <2>1, <3>2
  <2>3. PICK x \in T : TRUE
    BY <2>2
  <2> DEFINE U == S \ (T \ {x})
  <2>4. /\ IsFiniteSet(T) /\ IsFiniteSet(U) /\ IsFiniteSet(T \ {x}) /\ IsFiniteSet(S \ T)
        /\ x \in S /\ x \in U /\ U \ {x} = S \ T /\ T \subseteq S /\ U \subseteq S
    BY <2>1, FS_Subset
  <2>5. /\ SumFunctionOnSet(f, T) = f[x] + SumFunctionOnSet(f, T \ {x})
        /\ SumFunctionOnSet(f, U) = f[x] + SumFunctionOnSet(f, S \ T)
    <3>1. /\ \A y \in T : f[y] \in Int
          /\ \A y \in U : f[y] \in Int
      BY <2>4
    <3> HIDE DEF F, U
    <3> QED
      BY <2>4, <3>1, SumWithout
  <2>6. SumFunctionOnSet(f, S) = SumFunctionOnSet(f, T \ {x}) + SumFunctionOnSet(f, U)
    BY <2>1
  <2>7. SumFunctionOnSet(f, T \ {x}) \in Int /\ SumFunctionOnSet(f, S \ T) \in Int
    BY <2>4, SumType
  <2>8. f[x] \in Int
    BY <2>4
  <2>9. SumFunctionOnSet(f, S) # SumFunctionOnSet(f, T) + SumFunctionOnSet(f, S \ T)
    BY <2>1
  <2> HIDE DEF F, U
  <2> QED
    BY <2>5, <2>6, <2>7, <2>8, <2>9
<1> QED
  BY <1>1

(* More naturals sum to more. *)
LEMMA SumOfMore ==
  ASSUME NEW S, IsFiniteSet(S), NEW f, \A x \in S : f[x] \in Nat, NEW A \in SUBSET S
  PROVE  SumFunctionOnSet(f, A) <= SumFunctionOnSet(f, S)
<1>1. SumFunctionOnSet(f, S) = SumFunctionOnSet(f, A) + SumFunctionOnSet(f, S \ A)
  BY SumOfParts
<1>2. SumFunctionOnSet(f, A) \in Nat /\ SumFunctionOnSet(f, S \ A) \in Nat
  <2>1. IsFiniteSet(A) /\ IsFiniteSet(S \ A)
    BY FS_Subset
  <2> QED
    BY <2>1, SumType
<1> QED
  BY <1>1, <1>2

(* A sum over what is listed without repetition is the sum over the list. *)
LEMMA SumOverRange ==
  ASSUME NEW m, IsFiniteSet(DOMAIN m), IsInjective(m), NEW f, NEW g,
         \A i \in DOMAIN m : f[m[i]] \in Int /\ g[i] = f[m[i]]
  PROVE  /\ IsFiniteSet(Range(m))
         /\ SumFunctionOnSet(g, DOMAIN m) = SumFunctionOnSet(f, Range(m))
<1> DEFINE D == DOMAIN m
           Image(s) == {m[i] : i \in s}
           Same(s) == IsFiniteSet(Image(s)) /\ SumFunctionOnSet(g, s) = SumFunctionOnSet(f, Image(s))
           F == {s \in SUBSET D : ~Same(s)}
<1>1. ASSUME F # {} PROVE FALSE
  <2>0. F \in SUBSET (SUBSET D)
    OBVIOUS
  <2>1. PICK T \in F : \A U \in F : U \subseteq T => U = T
    <3> HIDE DEF F
    <3> QED
      BY <1>1, <2>0, MinimalSubset
  <2>2. T \in SUBSET D /\ IsFiniteSet(T)
    BY <2>1, FS_Subset
  <2>3. T # {}
    <3>1. ASSUME T = {} PROVE FALSE
      <4>1. Image(T) = {}
        BY <3>1
      <4>2. IsFiniteSet(Image(T)) /\ SumFunctionOnSet(g, T) = SumFunctionOnSet(f, Image(T))
        <5> HIDE DEF F, Image
        <5> QED
          BY <3>1, <4>1, FS_EmptySet, SumOfNone
      <4> QED
        BY <2>1, <4>2
    <3> QED
      BY <3>1
  <2>4. PICK i \in T : TRUE
    BY <2>3
  <2> DEFINE U == T \ {i}
  <2>5. U \in SUBSET D /\ U \notin F /\ IsFiniteSet(U)
    <3>1. U \subseteq T /\ U # T /\ U \in SUBSET D
      BY <2>2, <2>4
    <3>2. IsFiniteSet(U)
      BY <2>2, FS_RemoveElement
    <3> HIDE DEF F, U
    <3> QED
      BY <2>1, <3>1, <3>2
  <2>6. IsFiniteSet(Image(U)) /\ SumFunctionOnSet(g, U) = SumFunctionOnSet(f, Image(U))
    BY <2>5
  <2>7. Image(T) \ {m[i]} = Image(U) /\ m[i] \in Image(T) /\ Image(T) = Image(U) \cup {m[i]}
    <3>1. \A j \in U : m[j] # m[i]
      BY <2>2, <2>4 DEF IsInjective
    <3> QED
      BY <2>4, <3>1
  <2>8. \A j \in T : g[j] \in Int
    BY <2>2
  <2>9. \A y \in Image(T) : f[y] \in Int
    BY <2>2
  <2>10. g[i] = f[m[i]]
    BY <2>2
  <2> HIDE DEF F, U, Image
  <2>11. IsFiniteSet(Image(T))
    BY <2>6, <2>7, FS_AddElement
  <2>12. SumFunctionOnSet(g, T) = g[i] + SumFunctionOnSet(g, U)
    BY <2>2, <2>8, SumWithout DEF U
  <2>13. SumFunctionOnSet(f, Image(T)) = f[m[i]] + SumFunctionOnSet(f, Image(U))
    BY <2>7, <2>9, <2>11, SumWithout
  <2>14. SumFunctionOnSet(g, T) = SumFunctionOnSet(f, Image(T))
    BY <2>6, <2>10, <2>12, <2>13
  <2> QED
    BY <2>1, <2>11, <2>14 DEF F
<1>2. IsFiniteSet(Image(D)) /\ SumFunctionOnSet(g, D) = SumFunctionOnSet(f, Image(D))
  BY <1>1
<1>3. Image(D) = Range(m)
  BY DEF Range
<1> HIDE DEF Image
<1> QED
  BY <1>2, <1>3

(* A sum of smaller numbers is smaller. *)
LEMMA SumOfSmaller ==
  ASSUME NEW S, IsFiniteSet(S), NEW f, NEW g,
         \A x \in S : f[x] \in Int /\ g[x] \in Int /\ f[x] <= g[x]
  PROVE  SumFunctionOnSet(f, S) <= SumFunctionOnSet(g, S)
<1> DEFINE d == [x \in S |-> g[x] - f[x]]
<1>1. \A x \in S : d[x] \in Nat /\ d[x] \in Int /\ g[x] = f[x] + d[x]
  OBVIOUS
<1> HIDE DEF d
<1>2. SumFunctionOnSet(g, S) = SumFunctionOnSet(f, S) + SumFunctionOnSet(d, S)
  BY <1>1, SumOfBoth
<1>3. SumFunctionOnSet(d, S) \in Nat /\ SumFunctionOnSet(f, S) \in Int
  BY <1>1, SumType
<1> QED
  BY <1>2, <1>3

=============================================================================
