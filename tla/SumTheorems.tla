---------------------------- MODULE SumTheorems ----------------------------
(***************************************************************************)
(* Facts about SumFunctionOnSet, the sum of a function over a finite set   *)
(* of indices, which is how every balance of this project is written (the  *)
(* application asks PostgreSQL for sum(amount) over a set of postings).    *)
(*                                                                         *)
(* The sum is defined by recursion over subsets, taking elements out by    *)
(* CHOOSE, so nothing about it is immediate: that the recursion defines a  *)
(* function (SumIterExists), and that the order in which the elements are  *)
(* taken out does not matter (SumRemove), come first.  Induction over      *)
(* finite sets is done by taking a minimal counterexample, which theorem   *)
(* WFMin of WellFoundedInduction provides.                                 *)
(***************************************************************************)
EXTENDS Functions, FiniteSetTheorems, WellFoundedInduction, TLAPS

(* One unfolding of the recursion behind SumFunctionOnSet(f, S). *)
SumStep(f, g, T) == IF T = {} THEN 0
                    ELSE f[CHOOSE x \in T : TRUE] + g[T \ {CHOOSE x \in T : TRUE}]

(* g computes the sums of f over the sets of the family D. *)
SumsOver(f, g, D) == g = [T \in D |-> SumStep(f, g, T)]

SumIter(f, S) == CHOOSE g : SumsOver(f, g, SUBSET S)

LEMMA SumUnfold ==
  ASSUME NEW f, NEW S
  PROVE  SumFunctionOnSet(f, S) = SumIter(f, S)[S]
BY DEF SumFunctionOnSet, FoldFunctionOnSet, MapThenFoldSet, SumIter, SumsOver, SumStep

(***************************************************************************)
(* Induction over the subsets of a finite set, in the form the provers can *)
(* use: a non-empty family of subsets has a member none of whose strict    *)
(* subsets is in the family.                                               *)
(***************************************************************************)
LEMMA MinimalSubset ==
  ASSUME NEW S, IsFiniteSet(S), NEW Bad \in SUBSET SUBSET S, Bad # {}
  PROVE  \E T \in Bad : \A U \in SUBSET T : U # T => U \notin Bad
<1>1. IsWellFoundedOn(StrictSubsetOrdering(S), FiniteSubsetsOf(S))
  BY FS_StrictSubsetOrderingWellFounded
<1>2. Bad \subseteq FiniteSubsetsOf(S)
  BY FS_Subset DEF FiniteSubsetsOf
<1>3. PICK T \in Bad : \A U \in Bad : ~ (<<U, T>> \in StrictSubsetOrdering(S))
  BY <1>1, <1>2, WFMin
<1>4. \A U \in SUBSET T : U # T => U \notin Bad
  BY <1>3 DEF StrictSubsetOrdering
<1> QED  BY <1>3, <1>4

(***************************************************************************)
(* The same for numbers: a non-empty set of naturals has a least one.      *)
(***************************************************************************)
LEMMA LeastNatural ==
  ASSUME NEW S, S \subseteq Nat, S # {}
  PROVE  \E x \in S : \A y \in S : x <= y
<1>1. PICK x \in S : \A y \in S : ~ (<<y, x>> \in OpToRel(<, Nat))
  BY NatLessThanWellFounded, WFMin
<1>2. \A y \in S : ~ (y < x)
  BY <1>1 DEF OpToRel
<1>3. \A y \in S : x <= y
  BY <1>2
<1> QED  BY <1>3

(***************************************************************************)
(* Sums over a family restrict to a family closed under removing elements. *)
(* The recursion has at most one solution on the subsets of a finite set.  *)
(***************************************************************************)
LEMMA SumIterUnique ==
  ASSUME NEW S, IsFiniteSet(S), NEW f, NEW g, NEW h, NEW C \in SUBSET SUBSET S,
         NEW D \in SUBSET SUBSET S,
         \A T \in C : SUBSET T \subseteq C, \A T \in D : SUBSET T \subseteq D,
         SumsOver(f, g, C), SumsOver(f, h, D)
  PROVE  \A T \in C \cap D : g[T] = h[T]
<1> DEFINE Bad == {T \in C \cap D : g[T] # h[T]}
<1> SUFFICES ASSUME Bad # {} PROVE FALSE
  OBVIOUS
<1>0. Bad \in SUBSET SUBSET S
  OBVIOUS
<1>1. PICK T \in Bad : \A U \in SUBSET T : U # T => U \notin Bad
  <2> HIDE DEF Bad
  <2> QED  BY <1>0, MinimalSubset
<1>2. g[T] = SumStep(f, g, T) /\ h[T] = SumStep(f, h, T)
  BY DEF SumsOver
<1>3. T # {}
  BY <1>2 DEF SumStep
<1> DEFINE x == CHOOSE x \in T : TRUE
<1>4. x \in T
  BY <1>3
<1>5. T \ {x} \in C \cap D /\ T \ {x} # T /\ T \ {x} \in SUBSET T
  BY <1>4
<1>6. g[T \ {x}] = h[T \ {x}]
  BY <1>1, <1>5
<1> QED  BY <1>2, <1>3, <1>6 DEF SumStep

(***************************************************************************)
(* The recursion has a solution: for a minimal T without one, the sums of  *)
(* its strict subsets, each taken from its own solution, make one for T.   *)
(***************************************************************************)
LEMMA SumIterExists ==
  ASSUME NEW S, IsFiniteSet(S), NEW f
  PROVE  \A T \in SUBSET S : SumsOver(f, SumIter(f, T), SUBSET T)
<1> DEFINE Bad == {T \in SUBSET S : ~ \E g : SumsOver(f, g, SUBSET T)}
<1> SUFFICES ASSUME Bad # {} PROVE FALSE
  BY DEF SumIter
<1>0. Bad \in SUBSET SUBSET S
  OBVIOUS
<1>1. PICK T \in Bad : \A U \in SUBSET T : U # T => U \notin Bad
  <2> HIDE DEF Bad
  <2> QED  BY <1>0, MinimalSubset
<1> DEFINE Smaller == (SUBSET T) \ {T}
<1> DEFINE G == [U \in Smaller |-> SumIter(f, U)[U]]
<1> DEFINE h == [U \in SUBSET T |-> SumStep(f, G, U)]
<1>2. \A U \in Smaller : SumsOver(f, SumIter(f, U), SUBSET U)
  BY <1>1 DEF SumIter
<1>3. ASSUME NEW W \in Smaller PROVE h[W] = G[W]
  <2>1. SumIter(f, W)[W] = SumStep(f, SumIter(f, W), W)
    BY <1>2 DEF SumsOver
  <2>2. CASE W = {}
    BY <2>1, <2>2 DEF SumStep
  <2>3. CASE W # {}
    <3> DEFINE y == CHOOSE y \in W : TRUE
    <3> DEFINE V == W \ {y}
    <3>1. V \in Smaller /\ V \in SUBSET W /\ W \in SUBSET S /\ V \in SUBSET S
      BY <2>3
    <3>2. SumIter(f, W)[V] = SumIter(f, V)[V]
      <4>1. IsFiniteSet(S)
        OBVIOUS
      <4>2. SumsOver(f, SumIter(f, W), SUBSET W) /\ SumsOver(f, SumIter(f, V), SUBSET V)
        BY <1>2, <3>1
      <4>3. V \in SUBSET W \cap SUBSET V
        BY <3>1
      <4>4. SUBSET W \in SUBSET SUBSET S /\ SUBSET V \in SUBSET SUBSET S
        BY <3>1
      <4>5. (\A A \in SUBSET W : SUBSET A \subseteq SUBSET W)
            /\ (\A A \in SUBSET V : SUBSET A \subseteq SUBSET V)
        OBVIOUS
      <4> HIDE DEF V
      <4> QED  BY <4>1, <4>2, <4>3, <4>4, <4>5, SumIterUnique
    <3>3. h[W] = f[y] + G[V]
      BY <2>3 DEF SumStep
    <3>4. G[V] = SumIter(f, V)[V]
      BY <3>1
    <3> QED  BY <2>1, <2>3, <3>1, <3>2, <3>3, <3>4 DEF SumStep
  <2> QED  BY <2>2, <2>3
<1>4. ASSUME NEW U \in SUBSET T PROVE h[U] = SumStep(f, h, U)
  <2>1. CASE U = {}
    BY <2>1 DEF SumStep
  <2>2. CASE U # {}
    <3> DEFINE y == CHOOSE y \in U : TRUE
    <3>1. U \ {y} \in Smaller
      BY <2>2
    <3>2. h[U \ {y}] = G[U \ {y}]
      BY <1>3, <3>1
    <3> QED  BY <2>2, <3>2 DEF SumStep
  <2> QED  BY <2>1, <2>2
<1>5. SumsOver(f, h, SUBSET T)
  BY <1>4 DEF SumsOver
<1> QED  BY <1>1, <1>5

(* The sum over S takes out the element CHOOSE picks, then sums the rest.  *)
LEMMA SumChoose ==
  ASSUME NEW S, IsFiniteSet(S), NEW f
  PROVE  /\ S = {} => SumFunctionOnSet(f, S) = 0
         /\ S # {} => LET x == CHOOSE x \in S : TRUE
                      IN  SumFunctionOnSet(f, S) = f[x] + SumFunctionOnSet(f, S \ {x})
<1>1. SumsOver(f, SumIter(f, S), SUBSET S)
  BY SumIterExists
<1>2. SumIter(f, S)[S] = SumStep(f, SumIter(f, S), S)
  BY <1>1 DEF SumsOver
<1>3. SumFunctionOnSet(f, S) = SumIter(f, S)[S]
  BY SumUnfold
<1>4. CASE S = {}
  BY <1>2, <1>3, <1>4 DEF SumStep
<1>5. CASE S # {}
  <2> DEFINE x == CHOOSE x \in S : TRUE
  <2> DEFINE V == S \ {x}
  <2>1. V \in SUBSET S
    OBVIOUS
  <2>2. SumsOver(f, SumIter(f, V), SUBSET V)
    BY <2>1, SumIterExists
  <2>3. SumFunctionOnSet(f, V) = SumIter(f, V)[V]
    BY SumUnfold
  <2>4. SumIter(f, S)[V] = SumIter(f, V)[V]
    <3>1. V \in SUBSET S \cap SUBSET V
      OBVIOUS
    <3>2. SUBSET V \in SUBSET SUBSET S /\ SUBSET S \in SUBSET SUBSET S
      OBVIOUS
    <3>3. (\A A \in SUBSET S : SUBSET A \subseteq SUBSET S)
          /\ (\A A \in SUBSET V : SUBSET A \subseteq SUBSET V)
      OBVIOUS
    <3> HIDE DEF V
    <3> QED  BY <1>1, <2>2, <3>1, <3>2, <3>3, SumIterUnique
  <2> QED  BY <1>2, <1>3, <1>5, <2>3, <2>4 DEF SumStep
<1> QED  BY <1>4, <1>5

(* A sum of integers is an integer. *)
LEMMA SumType ==
  ASSUME NEW S, IsFiniteSet(S), NEW f, \A x \in S : f[x] \in Int
  PROVE  SumFunctionOnSet(f, S) \in Int
<1> DEFINE Bad == {T \in SUBSET S : SumFunctionOnSet(f, T) \notin Int}
<1> SUFFICES ASSUME Bad # {} PROVE FALSE
  OBVIOUS
<1>0. Bad \in SUBSET SUBSET S
  OBVIOUS
<1>1. PICK T \in Bad : \A U \in SUBSET T : U # T => U \notin Bad
  <2> HIDE DEF Bad
  <2> QED  BY <1>0, MinimalSubset
<1> DEFINE x == CHOOSE x \in T : TRUE
<1>2. IsFiniteSet(T)
  BY FS_Subset
<1>3. T # {}
  BY <1>2, SumChoose
<1>4. SumFunctionOnSet(f, T) = f[x] + SumFunctionOnSet(f, T \ {x})
  BY <1>2, <1>3, SumChoose
<1>5. x \in T /\ T \ {x} \in SUBSET T /\ T \ {x} # T
  BY <1>3
<1>6. SumFunctionOnSet(f, T \ {x}) \in Int
  BY <1>1, <1>5
<1> QED  BY <1>4, <1>5, <1>6

(***************************************************************************)
(* Any element may be taken out first: exchange it with the one CHOOSE     *)
(* takes out.                                                              *)
(***************************************************************************)
LEMMA SumRemove ==
  ASSUME NEW S, IsFiniteSet(S), NEW f, \A y \in S : f[y] \in Int, NEW x \in S
  PROVE  SumFunctionOnSet(f, S) = f[x] + SumFunctionOnSet(f, S \ {x})
<1> DEFINE Splits(T) == \A y \in T : SumFunctionOnSet(f, T) = f[y] + SumFunctionOnSet(f, T \ {y})
<1> DEFINE Bad == {T \in SUBSET S : ~ Splits(T)}
<1> SUFFICES ASSUME Bad # {} PROVE FALSE
  OBVIOUS
<1>0. Bad \in SUBSET SUBSET S
  OBVIOUS
<1>1. PICK T \in Bad : \A U \in SUBSET T : U # T => U \notin Bad
  <2> HIDE DEF Bad
  <2> QED  BY <1>0, MinimalSubset
<1>2. PICK y \in T : SumFunctionOnSet(f, T) # f[y] + SumFunctionOnSet(f, T \ {y})
  OBVIOUS
<1> DEFINE c == CHOOSE c \in T : TRUE
<1>3. \A U \in SUBSET T : IsFiniteSet(U) /\ SumFunctionOnSet(f, U) \in Int
  BY FS_Subset, SumType
<1>4. SumFunctionOnSet(f, T) = f[c] + SumFunctionOnSet(f, T \ {c})
  BY <1>2, <1>3, SumChoose
<1>5. c \in T /\ c # y
  BY <1>2, <1>4
<1>6. SumFunctionOnSet(f, T \ {c}) = f[y] + SumFunctionOnSet(f, (T \ {c}) \ {y})
  BY <1>1, <1>5
<1>7. SumFunctionOnSet(f, T \ {y}) = f[c] + SumFunctionOnSet(f, (T \ {y}) \ {c})
  BY <1>1, <1>5
<1>8. (T \ {c}) \ {y} = (T \ {y}) \ {c} /\ (T \ {c}) \ {y} \in SUBSET T
  OBVIOUS
<1>9. f[c] \in Int /\ f[y] \in Int /\ SumFunctionOnSet(f, (T \ {c}) \ {y}) \in Int
  BY <1>3, <1>5, <1>8
<1>10. \A p, q, r \in Int : p + (q + r) = q + (p + r)
  OBVIOUS
<1> DEFINE w == SumFunctionOnSet(f, (T \ {c}) \ {y})
<1>11. SumFunctionOnSet(f, T) = f[y] + SumFunctionOnSet(f, T \ {y})
  <2>1. SumFunctionOnSet(f, T \ {y}) = f[c] + w
    BY <1>7, <1>8
  <2>2. SumFunctionOnSet(f, T) = f[c] + (f[y] + w)
    BY <1>4, <1>6
  <2>3. f[c] + (f[y] + w) = f[y] + (f[c] + w)
    <3> HIDE DEF c, w
    <3> QED  BY <1>9, <1>10 DEF w
  <2> QED  BY <2>1, <2>2, <2>3
<1> QED  BY <1>2, <1>11

(* Sums of functions that agree on the indices are equal. *)
LEMMA SumEqual ==
  ASSUME NEW S, IsFiniteSet(S), NEW f, NEW g, \A x \in S : f[x] = g[x]
  PROVE  SumFunctionOnSet(f, S) = SumFunctionOnSet(g, S)
<1> DEFINE Bad == {T \in SUBSET S : SumFunctionOnSet(f, T) # SumFunctionOnSet(g, T)}
<1> SUFFICES ASSUME Bad # {} PROVE FALSE
  OBVIOUS
<1>0. Bad \in SUBSET SUBSET S
  OBVIOUS
<1>1. PICK T \in Bad : \A U \in SUBSET T : U # T => U \notin Bad
  <2> HIDE DEF Bad
  <2> QED  BY <1>0, MinimalSubset
<1> DEFINE x == CHOOSE x \in T : TRUE
<1>2. IsFiniteSet(T)
  BY FS_Subset
<1>3. T # {}
  BY <1>2, SumChoose
<1>4. /\ SumFunctionOnSet(f, T) = f[x] + SumFunctionOnSet(f, T \ {x})
      /\ SumFunctionOnSet(g, T) = g[x] + SumFunctionOnSet(g, T \ {x})
  BY <1>2, <1>3, SumChoose
<1>5. x \in T /\ T \ {x} \in SUBSET T /\ T \ {x} # T
  BY <1>3
<1>6. SumFunctionOnSet(f, T \ {x}) = SumFunctionOnSet(g, T \ {x})
  BY <1>1, <1>5
<1> QED  BY <1>4, <1>5, <1>6

(* The sum of a pointwise sum is the sum of the sums. *)
LEMMA SumLinear ==
  ASSUME NEW S, IsFiniteSet(S), NEW f, NEW g, NEW h,
         \A x \in S : f[x] \in Int /\ g[x] \in Int /\ h[x] = f[x] + g[x]
  PROVE  SumFunctionOnSet(h, S) = SumFunctionOnSet(f, S) + SumFunctionOnSet(g, S)
<1> DEFINE Bad == {T \in SUBSET S :
                     SumFunctionOnSet(h, T) # SumFunctionOnSet(f, T) + SumFunctionOnSet(g, T)}
<1> SUFFICES ASSUME Bad # {} PROVE FALSE
  OBVIOUS
<1>0. Bad \in SUBSET SUBSET S
  OBVIOUS
<1>1. PICK T \in Bad : \A U \in SUBSET T : U # T => U \notin Bad
  <2> HIDE DEF Bad
  <2> QED  BY <1>0, MinimalSubset
<1> DEFINE x == CHOOSE x \in T : TRUE
<1>2. IsFiniteSet(T)
  BY FS_Subset
<1>3. T # {}
  <2> SUFFICES ASSUME T = {} PROVE FALSE
    OBVIOUS
  <2>1. SumFunctionOnSet(f, T) = 0 /\ SumFunctionOnSet(g, T) = 0 /\ SumFunctionOnSet(h, T) = 0
    BY <1>2, SumChoose
  <2> QED  BY <2>1
<1>4. /\ SumFunctionOnSet(f, T) = f[x] + SumFunctionOnSet(f, T \ {x})
      /\ SumFunctionOnSet(g, T) = g[x] + SumFunctionOnSet(g, T \ {x})
      /\ SumFunctionOnSet(h, T) = h[x] + SumFunctionOnSet(h, T \ {x})
  BY <1>2, <1>3, SumChoose
<1>5. x \in T /\ T \ {x} \in SUBSET T /\ T \ {x} # T
  BY <1>3
<1>6. SumFunctionOnSet(h, T \ {x}) = SumFunctionOnSet(f, T \ {x}) + SumFunctionOnSet(g, T \ {x})
  BY <1>1, <1>5
<1>7. SumFunctionOnSet(f, T \ {x}) \in Int /\ SumFunctionOnSet(g, T \ {x}) \in Int
  BY <1>5, FS_Subset, SumType
<1>8. SumFunctionOnSet(h, T) = SumFunctionOnSet(f, T) + SumFunctionOnSet(g, T)
  <2>1. f[x] \in Int /\ g[x] \in Int /\ h[x] = f[x] + g[x]
    BY <1>5
  <2> HIDE DEF x
  <2> QED  BY <1>4, <1>6, <1>7, <2>1
<1> QED  BY <1>1, <1>8

(* A sum of zeros is zero. *)
LEMMA SumZero ==
  ASSUME NEW S, IsFiniteSet(S), NEW f, \A x \in S : f[x] = 0
  PROVE  SumFunctionOnSet(f, S) = 0
<1>1. SumFunctionOnSet(f, S) = SumFunctionOnSet(f, S) + SumFunctionOnSet(f, S)
  BY SumLinear
<1>2. SumFunctionOnSet(f, S) \in Int
  BY SumType
<1>3. \A n \in Int : n = n + n => n = 0
  OBVIOUS
<1> QED  BY <1>1, <1>2, <1>3

(* Opposite summands have opposite sums. *)
LEMMA SumNegate ==
  ASSUME NEW S, IsFiniteSet(S), NEW f, NEW g,
         \A x \in S : f[x] \in Int /\ g[x] = -f[x]
  PROVE  SumFunctionOnSet(g, S) = -SumFunctionOnSet(f, S)
<1> DEFINE z == [x \in S |-> 0]
<1>1. SumFunctionOnSet(z, S) = SumFunctionOnSet(f, S) + SumFunctionOnSet(g, S)
  BY SumLinear
<1>2. SumFunctionOnSet(z, S) = 0
  BY SumZero
<1>3. SumFunctionOnSet(f, S) \in Int /\ SumFunctionOnSet(g, S) \in Int
  BY SumType
<1> QED  BY <1>1, <1>2, <1>3

(* Indices at which the function is zero may be left out. *)
LEMMA SumSupport ==
  ASSUME NEW S, IsFiniteSet(S), NEW A \in SUBSET S, NEW f,
         \A x \in S : f[x] \in Int, \A x \in S \ A : f[x] = 0
  PROVE  SumFunctionOnSet(f, S) = SumFunctionOnSet(f, A)
<1> DEFINE Bad == {T \in SUBSET S : SumFunctionOnSet(f, T) # SumFunctionOnSet(f, T \cap A)}
<1> SUFFICES ASSUME Bad # {} PROVE FALSE
  <2>1. S \cap A = A
    OBVIOUS
  <2> QED  BY <2>1
<1>0. Bad \in SUBSET SUBSET S
  OBVIOUS
<1>1. PICK T \in Bad : \A U \in SUBSET T : U # T => U \notin Bad
  <2> HIDE DEF Bad
  <2> QED  BY <1>0, MinimalSubset
<1>2. T # {}
  <2> SUFFICES ASSUME T = {} PROVE FALSE
    OBVIOUS
  <2>1. T \cap A = T
    OBVIOUS
  <2> QED  BY <2>1
<1>3. PICK x : x \in T
  BY <1>2
<1> DEFINE V == T \ {x}
<1>4. V \in SUBSET T /\ V # T
  BY <1>3
<1>5. SumFunctionOnSet(f, V) = SumFunctionOnSet(f, V \cap A)
  BY <1>1, <1>4
<1>6. /\ IsFiniteSet(T) /\ IsFiniteSet(V \cap A) /\ IsFiniteSet(T \cap A)
      /\ SumFunctionOnSet(f, V \cap A) \in Int
  <2>1. V \cap A \in SUBSET S /\ T \cap A \in SUBSET S /\ T \in SUBSET S
    OBVIOUS
  <2> QED  BY <2>1, FS_Subset, SumType
<1>7. SumFunctionOnSet(f, T) = f[x] + SumFunctionOnSet(f, V)
  BY <1>3, <1>6, SumRemove
<1>8. CASE x \in A
  <2>1. V \cap A = (T \cap A) \ {x}
    OBVIOUS
  <2>2. SumFunctionOnSet(f, T \cap A) = f[x] + SumFunctionOnSet(f, (T \cap A) \ {x})
    BY <1>3, <1>6, <1>8, SumRemove
  <2> QED  BY <1>5, <1>7, <2>1, <2>2
<1>9. CASE x \notin A
  <2>1. V \cap A = T \cap A /\ f[x] = 0
    BY <1>3, <1>9
  <2>2. \A n \in Int : 0 + n = n
    OBVIOUS
  <2> QED  BY <1>5, <1>6, <1>7, <2>1, <2>2
<1> QED  BY <1>8, <1>9

(* The sum over a disjoint union. *)
LEMMA SumUnion ==
  ASSUME NEW A, NEW B, IsFiniteSet(A), IsFiniteSet(B), A \cap B = {}, NEW f,
         \A x \in A \cup B : f[x] \in Int
  PROVE  SumFunctionOnSet(f, A \cup B) = SumFunctionOnSet(f, A) + SumFunctionOnSet(f, B)
<1> DEFINE fA == [x \in A \cup B |-> IF x \in A THEN f[x] ELSE 0]
<1> DEFINE fB == [x \in A \cup B |-> IF x \in B THEN f[x] ELSE 0]
<1>1. IsFiniteSet(A \cup B)
  BY FS_Union
<1>2. SumFunctionOnSet(f, A \cup B) = SumFunctionOnSet(fA, A \cup B) + SumFunctionOnSet(fB, A \cup B)
  <2>1. \A x \in A \cup B : fA[x] \in Int /\ fB[x] \in Int /\ f[x] = fA[x] + fB[x]
    OBVIOUS
  <2> HIDE DEF fA, fB
  <2> QED  BY <1>1, <2>1, SumLinear
<1>3. SumFunctionOnSet(fA, A \cup B) = SumFunctionOnSet(fA, A)
  <2>1. (\A x \in A \cup B : fA[x] \in Int) /\ (\A x \in (A \cup B) \ A : fA[x] = 0)
    OBVIOUS
  <2> HIDE DEF fA
  <2> QED  BY <1>1, <2>1, SumSupport
<1>4. SumFunctionOnSet(fB, A \cup B) = SumFunctionOnSet(fB, B)
  <2>1. (\A x \in A \cup B : fB[x] \in Int) /\ (\A x \in (A \cup B) \ B : fB[x] = 0)
    OBVIOUS
  <2> HIDE DEF fB
  <2> QED  BY <1>1, <2>1, SumSupport
<1>5. SumFunctionOnSet(fA, A) = SumFunctionOnSet(f, A)
  BY SumEqual
<1>6. SumFunctionOnSet(fB, B) = SumFunctionOnSet(f, B)
  BY SumEqual
<1> QED  BY <1>2, <1>3, <1>4, <1>5, <1>6

(* The sum over one index. *)
LEMMA SumSingleton ==
  ASSUME NEW x, NEW f, f[x] \in Int
  PROVE  SumFunctionOnSet(f, {x}) = f[x]
<1>1. IsFiniteSet({x}) /\ IsFiniteSet({})
  BY FS_Singleton, FS_EmptySet
<1>2. SumFunctionOnSet(f, {x}) = f[x] + SumFunctionOnSet(f, {x} \ {x})
  BY <1>1, SumRemove
<1>3. SumFunctionOnSet(f, {}) = 0
  BY <1>1, SumChoose
<1>4. {x} \ {x} = {}
  OBVIOUS
<1> QED  BY <1>2, <1>3, <1>4

(* Indexes that carry a tag sum as they do without it.                     *)
Tagged(tag, S) == {tag} \X S

LEMMA SumTagged ==
  ASSUME NEW S, IsFiniteSet(S), NEW tag, NEW f, NEW g,
         \A x \in S : g[x] \in Int /\ f[<<tag, x>>] = g[x]
  PROVE  SumFunctionOnSet(f, Tagged(tag, S)) = SumFunctionOnSet(g, S)
<1> USE DEF Tagged
<1> DEFINE Bad == {T \in SUBSET S : SumFunctionOnSet(f, {tag} \X T) # SumFunctionOnSet(g, T)}
<1> SUFFICES ASSUME Bad # {} PROVE FALSE
  OBVIOUS
<1>0. Bad \in SUBSET SUBSET S
  OBVIOUS
<1>1. PICK T \in Bad : \A U \in SUBSET T : U # T => U \notin Bad
  <2> HIDE DEF Bad
  <2> QED  BY <1>0, MinimalSubset
<1>2. T \in SUBSET S /\ IsFiniteSet(T)
  BY FS_Subset
<1>3. IsFiniteSet({tag} \X T)
  BY <1>2, FS_Singleton, FS_Product
<1>4. CASE T = {}
  <2>1. {tag} \X T = {}
    BY <1>4
  <2>2. SumFunctionOnSet(f, {tag} \X T) = 0 /\ SumFunctionOnSet(g, T) = 0
    BY <1>2, <1>3, <1>4, <2>1, SumChoose
  <2> QED  BY <1>1, <2>2
<1>5. ASSUME NEW x \in T PROVE FALSE
  <2> DEFINE U == T \ {x}
  <2>1. SumFunctionOnSet(f, {tag} \X U) = SumFunctionOnSet(g, U)
    BY <1>1, <1>2
  <2>2. ({tag} \X T) \ {<<tag, x>>} = {tag} \X U /\ <<tag, x>> \in {tag} \X T
    OBVIOUS
  <2>3. \A y \in {tag} \X T : f[y] \in Int
    BY <1>2
  <2> HIDE DEF U
  <2>4. SumFunctionOnSet(f, {tag} \X T) = f[<<tag, x>>] + SumFunctionOnSet(f, {tag} \X U)
    <3>1. SumFunctionOnSet(f, {tag} \X T)
            = f[<<tag, x>>] + SumFunctionOnSet(f, ({tag} \X T) \ {<<tag, x>>})
      BY <1>3, <2>2, <2>3, SumRemove
    <3> QED  BY <2>2, <3>1
  <2>5. SumFunctionOnSet(g, T) = g[x] + SumFunctionOnSet(g, U)
    BY <1>2, SumRemove DEF U
  <2>6. f[<<tag, x>>] = g[x]
    BY <1>2
  <2> QED  BY <1>1, <2>1, <2>4, <2>5, <2>6
<1> QED  BY <1>4, <1>5

(* A table sums to the same by rows and by columns.                        *)
SumsOf(f, S, T) == [x \in S |-> SumFunctionOnSet(f[x], T)]

LEMMA SumSwap ==
  ASSUME NEW S, IsFiniteSet(S), NEW T, IsFiniteSet(T), NEW f, NEW h,
         \A x \in S, y \in T : f[x][y] \in Int /\ h[y][x] = f[x][y]
  PROVE  SumFunctionOnSet(SumsOf(f, S, T), S) = SumFunctionOnSet(SumsOf(h, T, S), T)
<1> DEFINE rows == SumsOf(f, S, T)
           columns == SumsOf(h, T, S)
<1>1. /\ \A x \in S : rows[x] = SumFunctionOnSet(f[x], T)
      /\ \A y \in T : columns[y] = SumFunctionOnSet(h[y], S)
  BY DEF SumsOf
<1> HIDE DEF rows, columns
<1> DEFINE Part(U) == [y \in T |-> SumFunctionOnSet(h[y], U)]
<1> DEFINE Bad == {U \in SUBSET S : SumFunctionOnSet(rows, U) # SumFunctionOnSet(Part(U), T)}
<1>2. SumFunctionOnSet(columns, T) = SumFunctionOnSet(Part(S), T)
  <2>1. \A y \in T : columns[y] = Part(S)[y]
    BY <1>1
  <2> QED  BY <2>1, SumEqual
<1> SUFFICES ASSUME Bad # {} PROVE FALSE
  BY <1>2 DEF rows, columns
<1>3. PICK U \in Bad : \A V \in SUBSET U : V # U => V \notin Bad
  <2>1. Bad \in SUBSET SUBSET S
    OBVIOUS
  <2> HIDE DEF Bad
  <2> QED  BY <2>1, MinimalSubset
<1>4. U \in SUBSET S /\ IsFiniteSet(U)
  BY FS_Subset
<1>5. \A x \in S : rows[x] \in Int
  BY <1>1, SumType
<1>6. CASE U = {}
  <2>1. \A y \in T : Part(U)[y] = 0
    BY <1>4, <1>6, SumChoose
  <2>2. SumFunctionOnSet(Part(U), T) = 0
    <3> HIDE DEF Part
    <3> QED  BY <2>1, SumZero
  <2>3. SumFunctionOnSet(rows, U) = 0
    BY <1>4, <1>6, SumChoose
  <2> QED  BY <1>3, <2>2, <2>3
<1>7. ASSUME NEW x \in U PROVE FALSE
  <2> DEFINE V == U \ {x}
  <2>0. V \in SUBSET S /\ IsFiniteSet(V) /\ x \in S
    BY <1>4, FS_Subset
  <2>1. SumFunctionOnSet(rows, V) = SumFunctionOnSet(Part(V), T)
    BY <1>3, <1>4
  <2>2. SumFunctionOnSet(rows, U) = rows[x] + SumFunctionOnSet(rows, V)
    BY <1>4, <1>5, SumRemove
  <2>3. \A y \in T : f[x][y] \in Int /\ Part(V)[y] \in Int /\ Part(U)[y] = f[x][y] + Part(V)[y]
    <3> TAKE y \in T
    <3> DEFINE column == h[y]
    <3>1. \A z \in S : column[z] \in Int /\ column[x] = f[x][y]
      BY <2>0
    <3>2. Part(V)[y] = SumFunctionOnSet(column, V) /\ Part(U)[y] = SumFunctionOnSet(column, U)
      OBVIOUS
    <3>3. \A z \in U : column[z] \in Int
      BY <1>4, <3>1
    <3> HIDE DEF column, Part
    <3>4. SumFunctionOnSet(column, U) = column[x] + SumFunctionOnSet(column, V)
      BY <1>4, <3>3, SumRemove
    <3>5. SumFunctionOnSet(column, V) \in Int
      BY <2>0, <3>1, SumType
    <3> QED  BY <2>0, <3>1, <3>2, <3>4, <3>5
  <2> HIDE DEF V, Part
  <2>4. SumFunctionOnSet(Part(U), T) = SumFunctionOnSet(f[x], T) + SumFunctionOnSet(Part(V), T)
    BY <2>3, SumLinear
  <2> QED  BY <1>1, <1>3, <2>0, <2>1, <2>2, <2>4
<1> QED  BY <1>6, <1>7
(***************************************************************************)
(* A change of one of the summands is a change of the sum.                 *)
(***************************************************************************)
LEMMA SumChangedAt ==
  ASSUME NEW S, IsFiniteSet(S), NEW x \in S, NEW a \in Int, NEW f, NEW g,
         \A y \in S : f[y] \in Int, g[x] = f[x] + a, \A y \in S \ {x} : g[y] = f[y]
  PROVE  SumFunctionOnSet(g, S) = SumFunctionOnSet(f, S) + a
<1>1. IsFiniteSet(S \ {x})
  BY FS_Subset
<1>2. \A y \in S : g[y] \in Int
  OBVIOUS
<1>3. SumFunctionOnSet(g, S) = g[x] + SumFunctionOnSet(g, S \ {x})
  BY <1>2, SumRemove
<1>4. SumFunctionOnSet(f, S) = f[x] + SumFunctionOnSet(f, S \ {x})
  BY SumRemove
<1>5. SumFunctionOnSet(g, S \ {x}) = SumFunctionOnSet(f, S \ {x})
  BY <1>1, SumEqual
<1>6. SumFunctionOnSet(f, S \ {x}) \in Int
  BY <1>1, SumType
<1> QED  BY <1>3, <1>4, <1>5, <1>6

=============================================================================
