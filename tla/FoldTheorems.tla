---------------------------- MODULE FoldTheorems ----------------------------
(***************************************************************************)
(* What sums over finite sets and folds over sequences compute.  The folds *)
(* of the community modules are recursive functions on the subsets of a    *)
(* finite set; that they exist and what they return is proved here by      *)
(* looking at a smallest set for which it fails (WFMin), and so is what a  *)
(* binary search finds.                                                    *)
(***************************************************************************)
EXTENDS SequencesExt, FiniteSetTheorems, WellFoundedInduction, TLAPS

(* A collection of subsets of a finite set has a smallest member. *)
LEMMA SmallestSet ==
  ASSUME NEW S, IsFiniteSet(S), NEW C \in SUBSET SUBSET S, C # {}
  PROVE  \E A \in C : \A B \in C : B \subseteq A => B = A
<1> DEFINE R == StrictSubsetOrdering(S)
<1>1. IsWellFoundedOn(R, FiniteSubsetsOf(S))
  BY FS_StrictSubsetOrderingWellFounded
<1>2. C \subseteq FiniteSubsetsOf(S)
  BY FS_FiniteSubsetsOfFinite
<1>3. \A A, B \in C : <<B, A>> \in R <=> B \subseteq A /\ B # A
  BY DEF StrictSubsetOrdering
<1> HIDE DEF R
<1>4. PICK A \in C : \A B \in C : ~(<<B, A>> \in R)
  BY <1>1, <1>2, WFMin
<1>5. \A B \in C : B \subseteq A => B = A
  BY <1>3, <1>4
<1> QED
  BY <1>5

(* So has a set of numbers. *)
LEMMA SmallestNat ==
  ASSUME NEW C \in SUBSET Nat, C # {}
  PROVE  \E n \in C : \A m \in C : n <= m
<1> DEFINE R == OpToRel(<, Nat)
<1>1. PICK n \in C : \A m \in C : ~(<<m, n>> \in R)
  <2>1. IsWellFoundedOn(R, Nat)
    BY NatLessThanWellFounded
  <2> HIDE DEF R
  <2> QED
    BY <2>1, WFMin
<1>2. \A m \in C : <<m, n>> \in R <=> m < n
  BY DEF OpToRel
<1> HIDE DEF R
<1>3. \A m \in C : ~(m < n)
  BY <1>1, <1>2
<1> QED
  BY <1>3

-----------------------------------------------------------------------------
(* A fold over the subsets of A: Pick says which element of a set is       *)
(* applied last, and D[x] what applying x does to a value.                 *)

IsFold(g, D, Pick, base, A) ==
  /\ g = [s \in SUBSET A |-> g[s]]
  /\ \A s \in SUBSET A : g[s] = IF s = {} THEN base ELSE D[Pick[s]][g[s \ {Pick[s]}]]

Picks(Pick, A) == \A s \in SUBSET A : s # {} => Pick[s] \in s

(* Two folds that apply the same elements agree where both are defined.    *)
LEMMA FoldsAgree ==
  ASSUME NEW S, IsFiniteSet(S), NEW D, NEW Pick, NEW base, Picks(Pick, S),
         NEW A \in SUBSET S, NEW B \in SUBSET S, NEW g, NEW h,
         IsFold(g, D, Pick, base, A), IsFold(h, D, Pick, base, B)
  PROVE  \A s \in SUBSET (A \cap B) : g[s] = h[s]
<1> DEFINE C == {s \in SUBSET (A \cap B) : g[s] # h[s]}
<1> SUFFICES ASSUME C # {} PROVE FALSE
  OBVIOUS
<1>1. C \in SUBSET SUBSET S
  OBVIOUS
<1>2. PICK s \in C : \A t \in C : t \subseteq s => t = s
  <2> HIDE DEF C
  <2> QED
    BY <1>1, SmallestSet
<1>3. s \in SUBSET A /\ s \in SUBSET B
  OBVIOUS
<1>4. /\ g[s] = IF s = {} THEN base ELSE D[Pick[s]][g[s \ {Pick[s]}]]
      /\ h[s] = IF s = {} THEN base ELSE D[Pick[s]][h[s \ {Pick[s]}]]
  BY <1>3 DEF IsFold
<1>5. s # {}
  BY <1>4
<1>6. Pick[s] \in s
  BY <1>3, <1>5 DEF Picks
<1>7. s \ {Pick[s]} \notin C
  BY <1>2, <1>6
<1>8. g[s \ {Pick[s]}] = h[s \ {Pick[s]}]
  BY <1>7
<1> QED
  BY <1>4, <1>8

LEMMA FoldExists ==
  ASSUME NEW S, IsFiniteSet(S), NEW D, NEW Pick, NEW base, Picks(Pick, S)
  PROVE  \E g : IsFold(g, D, Pick, base, S)
<1> DEFINE Has(A) == \E g : IsFold(g, D, Pick, base, A)
           The(A) == CHOOSE g : IsFold(g, D, Pick, base, A)
           C == {A \in SUBSET S : ~Has(A)}
<1> SUFFICES ASSUME C # {} PROVE FALSE
  OBVIOUS
<1>1. PICK A \in C : \A B \in C : B \subseteq A => B = A
  <2>1. C \in SUBSET SUBSET S
    OBVIOUS
  <2> HIDE DEF C
  <2> QED
    BY <2>1, SmallestSet
<1>2. \A B \in SUBSET A : B # A => IsFold(The(B), D, Pick, base, B)
  <2> SUFFICES ASSUME NEW B \in SUBSET A, B # A PROVE IsFold(The(B), D, Pick, base, B)
    OBVIOUS
  <2>1. Has(B)
    BY <1>1
  <2> QED
    BY <2>1
<1> DEFINE g == [s \in SUBSET A |-> IF s = {} THEN base
                                    ELSE D[Pick[s]][The(s \ {Pick[s]})[s \ {Pick[s]}]]]
<1>3. ASSUME NEW s \in SUBSET A, s # A
      PROVE  g[s] = The(s)[s]
  <2>1. /\ g[s] = IF s = {} THEN base ELSE D[Pick[s]][The(s \ {Pick[s]})[s \ {Pick[s]}]]
        /\ IsFold(The(s), D, Pick, base, s)
    BY <1>2, <1>3
  <2> HIDE DEF g, The
  <2>2. The(s)[s] = IF s = {} THEN base ELSE D[Pick[s]][The(s)[s \ {Pick[s]}]]
    BY <2>1 DEF IsFold
  <2>3. CASE s # {}
    <3> DEFINE t == s \ {Pick[s]}
    <3>1. Pick[s] \in s
      BY <2>3 DEF Picks
    <3>2. t \in SUBSET A /\ t # A /\ t \in SUBSET S /\ s \in SUBSET S /\ t \in SUBSET (t \cap s)
      BY <3>1
    <3>3. IsFold(The(t), D, Pick, base, t)
      BY <1>2, <3>2
    <3> HIDE DEF t
    <3>4. The(t)[t] = The(s)[t]
      BY <2>1, <3>2, <3>3, FoldsAgree
    <3> QED
      BY <2>1, <2>2, <2>3, <3>4 DEF t
  <2> QED
    BY <2>1, <2>2, <2>3
<1>4. IsFold(g, D, Pick, base, A)
  <2>1. ASSUME NEW s \in SUBSET A, s # {}
        PROVE  g[s \ {Pick[s]}] = The(s \ {Pick[s]})[s \ {Pick[s]}]
    <3>1. Pick[s] \in s
      BY <2>1 DEF Picks
    <3>2. s \ {Pick[s]} \in SUBSET A /\ s \ {Pick[s]} # A
      BY <3>1
    <3> HIDE DEF g, The
    <3> QED
      BY <1>3, <3>2
  <2>2. \A s \in SUBSET A :
          g[s] = IF s = {} THEN base ELSE D[Pick[s]][g[s \ {Pick[s]}]]
    <3> SUFFICES ASSUME NEW s \in SUBSET A
                 PROVE  g[s] = IF s = {} THEN base ELSE D[Pick[s]][g[s \ {Pick[s]}]]
      OBVIOUS
    <3>1. g[s] = IF s = {} THEN base ELSE D[Pick[s]][The(s \ {Pick[s]})[s \ {Pick[s]}]]
      OBVIOUS
    <3> HIDE DEF g, The
    <3> QED
      BY <2>1, <3>1
  <2>3. g = [s \in SUBSET A |-> g[s]]
    OBVIOUS
  <2> HIDE DEF g
  <2> QED
    BY <2>2, <2>3 DEF IsFold
<1> QED
  BY <1>4

-----------------------------------------------------------------------------
(* Sums of the values of a function over a finite set. *)

Sum(F, S) == MapThenSumSet(LAMBDA x : F[x], S)

AnyOf(s) == CHOOSE x \in s : TRUE

IsSum(g, F, S) ==
  /\ g = [s \in SUBSET S |-> g[s]]
  /\ \A s \in SUBSET S : g[s] = IF s = {} THEN 0 ELSE F[AnyOf(s)] + g[s \ {AnyOf(s)}]

LEMMA SumTypes ==
  ASSUME NEW S, IsFiniteSet(S), NEW V \in SUBSET Int, 0 \in V, \A x, y \in V : x + y \in V,
         NEW F, \A x \in S : F[x] \in V, NEW g, IsSum(g, F, S)
  PROVE  \A s \in SUBSET S : g[s] \in V
<1> DEFINE C == {s \in SUBSET S : g[s] \notin V}
<1> SUFFICES ASSUME C # {} PROVE FALSE
  OBVIOUS
<1>1. PICK s \in C : \A t \in C : t \subseteq s => t = s
  <2>1. C \in SUBSET SUBSET S
    OBVIOUS
  <2> HIDE DEF C
  <2> QED
    BY <2>1, SmallestSet
<1>2. g[s] = IF s = {} THEN 0 ELSE F[AnyOf(s)] + g[s \ {AnyOf(s)}]
  BY DEF IsSum
<1>3. s # {} /\ AnyOf(s) \in s
  BY <1>2 DEF AnyOf
<1>4. g[s \ {AnyOf(s)}] \in V
  BY <1>1, <1>3
<1> QED
  BY <1>2, <1>3, <1>4

LEMMA SumExists ==
  ASSUME NEW S, IsFiniteSet(S), NEW F, \A x \in S : F[x] \in Int
  PROVE  \E g : IsSum(g, F, S)
<1> DEFINE D == [x \in S |-> [v \in Int |-> F[x] + v]]
           Pick == [s \in SUBSET S |-> AnyOf(s)]
<1>1. Picks(Pick, S)
  BY DEF Picks, AnyOf
<1>2. PICK g : IsFold(g, D, Pick, 0, S)
  <2> HIDE DEF D, Pick
  <2> QED
    BY <1>1, FoldExists
<1>3. \A s \in SUBSET S : s # {} => Pick[s] = AnyOf(s) /\ AnyOf(s) \in s
  BY DEF AnyOf
<1>4. \A s \in SUBSET S : g[s] \in Int
  <2> DEFINE C == {s \in SUBSET S : g[s] \notin Int}
  <2> SUFFICES ASSUME C # {} PROVE FALSE
    OBVIOUS
  <2>1. PICK s \in C : \A t \in C : t \subseteq s => t = s
    <3>1. C \in SUBSET SUBSET S
      OBVIOUS
    <3> HIDE DEF C
    <3> QED
      BY <3>1, SmallestSet
  <2>2. g[s] = IF s = {} THEN 0 ELSE D[Pick[s]][g[s \ {Pick[s]}]]
    BY <1>2 DEF IsFold
  <2>3. s # {} /\ Pick[s] \in s
    <3>1. g[s] # 0
      OBVIOUS
    <3>2. s # {}
      BY <2>2, <3>1
    <3> QED
      BY <1>3, <3>2
  <2>4. g[s \ {Pick[s]}] \in Int
    BY <2>1, <2>3
  <2>5. D[Pick[s]][g[s \ {Pick[s]}]] \in Int
    BY <2>3, <2>4
  <2> QED
    BY <2>2, <2>3, <2>5
<1>5. \A s \in SUBSET S : g[s] = IF s = {} THEN 0 ELSE F[AnyOf(s)] + g[s \ {AnyOf(s)}]
  <2> SUFFICES ASSUME NEW s \in SUBSET S
               PROVE  g[s] = IF s = {} THEN 0 ELSE F[AnyOf(s)] + g[s \ {AnyOf(s)}]
    OBVIOUS
  <2>1. CASE s = {}
    BY <1>2, <2>1 DEF IsFold
  <2>2. CASE s # {}
    <3>1. g[s] = D[AnyOf(s)][g[s \ {AnyOf(s)}]]
      BY <1>2, <1>3, <2>2 DEF IsFold
    <3>2. g[s \ {AnyOf(s)}] \in Int /\ AnyOf(s) \in S
      BY <1>3, <1>4, <2>2
    <3> QED
      BY <2>2, <3>1, <3>2
  <2> QED
    BY <2>1, <2>2
<1> QED
  BY <1>2, <1>5 DEF IsSum, IsFold

(* Sums depend only on the values summed. *)
LEMMA SumsAgree ==
  ASSUME NEW S, IsFiniteSet(S), NEW A \in SUBSET S, NEW B \in SUBSET S, NEW F, NEW G, NEW g, NEW h,
         IsSum(g, F, A), IsSum(h, G, B), \A x \in A \cap B : F[x] = G[x]
  PROVE  \A s \in SUBSET (A \cap B) : g[s] = h[s]
<1> DEFINE C == {s \in SUBSET (A \cap B) : g[s] # h[s]}
<1> SUFFICES ASSUME C # {} PROVE FALSE
  OBVIOUS
<1>1. C \in SUBSET SUBSET S
  OBVIOUS
<1>2. PICK s \in C : \A t \in C : t \subseteq s => t = s
  <2> HIDE DEF C
  <2> QED
    BY <1>1, SmallestSet
<1>3. s \in SUBSET A /\ s \in SUBSET B
  OBVIOUS
<1>4. /\ g[s] = IF s = {} THEN 0 ELSE F[AnyOf(s)] + g[s \ {AnyOf(s)}]
      /\ h[s] = IF s = {} THEN 0 ELSE G[AnyOf(s)] + h[s \ {AnyOf(s)}]
  BY <1>3 DEF IsSum
<1>5. s # {} /\ AnyOf(s) \in s
  BY <1>4 DEF AnyOf
<1>6. g[s \ {AnyOf(s)}] = h[s \ {AnyOf(s)}]
  BY <1>2, <1>5
<1> QED
  BY <1>3, <1>4, <1>5, <1>6

LEMMA SumIs ==
  ASSUME NEW S, IsFiniteSet(S), NEW F, NEW g, IsSum(g, F, S)
  PROVE  Sum(F, S) = g[S]
<1> DEFINE Eq(h) == h = [s \in SUBSET S |-> IF s = {} THEN 0
                                           ELSE F[CHOOSE x \in s : TRUE] + h[s \ {CHOOSE x \in s : TRUE}]]
           h == CHOOSE h : Eq(h)
<1>1. Eq(g)
  BY DEF IsSum, AnyOf
<1>2. Eq(h)
  BY <1>1
<1>3. Sum(F, S) = h[S]
  BY DEF Sum, MapThenSumSet, MapThenFoldSet
<1> HIDE DEF h
<1>4. IsSum(h, F, S)
  BY <1>2 DEF IsSum, AnyOf
<1> QED
  BY <1>3, <1>4, SumsAgree

(* A sum is taken apart at any of its elements. *)
LEMMA SumAt ==
  ASSUME NEW S, IsFiniteSet(S), NEW F, \A x \in S : F[x] \in Int
  PROVE  Sum(F, S) = IF S = {} THEN 0 ELSE F[AnyOf(S)] + Sum(F, S \ {AnyOf(S)})
<1>1. PICK g : IsSum(g, F, S)
  BY SumExists
<1>2. Sum(F, S) = g[S]
  BY <1>1, SumIs
<1>3. g[S] = IF S = {} THEN 0 ELSE F[AnyOf(S)] + g[S \ {AnyOf(S)}]
  BY <1>1 DEF IsSum
<1> DEFINE T == S \ {AnyOf(S)}
<1>4. T \in SUBSET S /\ IsFiniteSet(T) /\ T \in SUBSET (S \cap T)
  BY FS_Subset
<1> HIDE DEF T
<1>5. PICK h : IsSum(h, F, T)
  BY <1>4, SumExists
<1>6. g[T] = h[T]
  BY <1>1, <1>4, <1>5, SumsAgree
<1>7. Sum(F, T) = h[T]
  BY <1>4, <1>5, SumIs
<1> QED
  BY <1>2, <1>3, <1>6, <1>7 DEF T

LEMMA SumInt ==
  ASSUME NEW S, IsFiniteSet(S), NEW F, \A x \in S : F[x] \in Int
  PROVE  Sum(F, S) \in Int
<1>1. PICK g : IsSum(g, F, S)
  BY SumExists
<1>2. \A s \in SUBSET S : g[s] \in Int
  BY <1>1, SumTypes
<1> QED
  BY <1>1, <1>2, SumIs

LEMMA SumRemove ==
  ASSUME NEW S, IsFiniteSet(S), NEW F, \A x \in S : F[x] \in Int, NEW e \in S
  PROVE  Sum(F, S) = F[e] + Sum(F, S \ {e})
<1> DEFINE C == {s \in SUBSET S : \E x \in s : Sum(F, s) # F[x] + Sum(F, s \ {x})}
<1> SUFFICES ASSUME C # {} PROVE FALSE
  OBVIOUS
<1>1. PICK s \in C : \A t \in C : t \subseteq s => t = s
  <2>1. C \in SUBSET SUBSET S
    OBVIOUS
  <2> HIDE DEF C
  <2> QED
    BY <2>1, SmallestSet
<1>2. PICK x \in s : Sum(F, s) # F[x] + Sum(F, s \ {x})
  OBVIOUS
<1> DEFINE p == AnyOf(s)
           t == s \ {p}
           r == s \ {x}
<1>3. s \in SUBSET S /\ p \in s
  BY DEF AnyOf
<1>4. IsFiniteSet(s) /\ IsFiniteSet(t) /\ IsFiniteSet(r) /\ IsFiniteSet(t \ {x})
  BY <1>3, FS_Subset
<1>5. Sum(F, s) = F[p] + Sum(F, t)
  BY <1>3, <1>4, SumAt
<1>6. p # x
  BY <1>2, <1>5
<1>7. ASSUME NEW q \in SUBSET s, q # s, NEW y \in q
      PROVE  Sum(F, q) = F[y] + Sum(F, q \ {y})
  <2>1. q \in SUBSET S /\ q \notin C
    BY <1>1, <1>3, <1>7
  <2> QED
    BY <2>1
<1>8. t \in SUBSET s /\ t # s /\ x \in t /\ r \in SUBSET s /\ r # s /\ p \in r /\ r \ {p} = t \ {x}
  BY <1>3, <1>6
<1>10. Sum(F, t \ {x}) \in Int /\ F[p] \in Int /\ F[x] \in Int
  BY <1>3, <1>4, SumInt
<1>11. Sum(F, s) # F[x] + Sum(F, r)
  BY <1>2
<1> HIDE DEF t, r, p, C
<1>12. Sum(F, t) = F[x] + Sum(F, t \ {x})
  BY <1>7, <1>8
<1>13. Sum(F, r) = F[p] + Sum(F, t \ {x})
  <2>1. Sum(F, r) = F[p] + Sum(F, r \ {p})
    BY <1>7, <1>8
  <2> QED
    BY <1>8, <2>1
<1> QED
  BY <1>5, <1>10, <1>11, <1>12, <1>13

LEMMA SumEmpty ==
  ASSUME NEW F
  PROVE  Sum(F, {}) = 0
<1>1. IsFiniteSet({})
  BY FS_EmptySet
<1> QED
  BY <1>1, SumAt

LEMMA SumAdd ==
  ASSUME NEW S, IsFiniteSet(S), NEW e, e \notin S, NEW F, \A x \in S \cup {e} : F[x] \in Int
  PROVE  Sum(F, S \cup {e}) = Sum(F, S) + F[e]
<1> DEFINE T == S \cup {e}
<1>1. IsFiniteSet(T) /\ T \ {e} = S /\ e \in T
  BY FS_AddElement
<1>2. Sum(F, S) \in Int
  BY SumInt
<1>3. \A x \in T : F[x] \in Int
  OBVIOUS
<1>4. F[e] \in Int
  OBVIOUS
<1> HIDE DEF T
<1>5. Sum(F, T) = F[e] + Sum(F, T \ {e})
  BY <1>1, <1>3, SumRemove
<1>6. Sum(F, T) = Sum(F, S) + F[e]
  <2>1. Sum(F, T) = F[e] + Sum(F, S)
    BY <1>1, <1>5, Zenon
  <2> QED
    BY <1>2, <1>4, <2>1
<1> QED
  BY <1>6 DEF T

(* Sums of equal values are equal. *)
LEMMA SumSame ==
  ASSUME NEW S, IsFiniteSet(S), NEW F, NEW G, \A x \in S : F[x] \in Int /\ F[x] = G[x]
  PROVE  Sum(F, S) = Sum(G, S)
<1>1. PICK g : IsSum(g, F, S)
  BY SumExists
<1>2. PICK h : IsSum(h, G, S)
  BY SumExists
<1>3. g[S] = h[S]
  BY <1>1, <1>2, SumsAgree
<1> QED
  BY <1>1, <1>2, <1>3, SumIs

(* A sum in which one value changes. *)
LEMMA SumChange ==
  ASSUME NEW S, IsFiniteSet(S), NEW e \in S, NEW F, NEW G,
         \A x \in S : F[x] \in Int /\ G[x] \in Int /\ (x # e => F[x] = G[x])
  PROVE  Sum(G, S) = Sum(F, S) + G[e] - F[e]
<1> DEFINE T == S \ {e}
<1>1. IsFiniteSet(T) /\ \A x \in T : x \in S /\ x # e
  BY FS_Subset
<1>2. Sum(F, S) = F[e] + Sum(F, T) /\ Sum(G, S) = G[e] + Sum(G, T)
  BY SumRemove
<1> HIDE DEF T
<1>3. Sum(F, T) = Sum(G, T) /\ Sum(F, T) \in Int
  BY <1>1, SumSame, SumInt
<1> QED
  BY <1>2, <1>3

(* The sum of sums.  Like the following lemmas it is shown at a smallest   *)
(* set for which it fails, one of whose elements is taken out.             *)
LEMMA SumPlus ==
  ASSUME NEW S, IsFiniteSet(S), NEW F, NEW G, NEW H,
         \A x \in S : F[x] \in Int /\ G[x] \in Int /\ H[x] = F[x] + G[x]
  PROVE  Sum(H, S) = Sum(F, S) + Sum(G, S)
<1> DEFINE C == {s \in SUBSET S : Sum(H, s) # Sum(F, s) + Sum(G, s)}
<1> SUFFICES ASSUME C # {} PROVE FALSE
  OBVIOUS
<1>1. PICK s \in C : \A t \in C : t \subseteq s => t = s
  <2>1. C \in SUBSET SUBSET S
    OBVIOUS
  <2> HIDE DEF C
  <2> QED
    BY <2>1, SmallestSet
<1>2. s \in SUBSET S /\ Sum(H, s) # Sum(F, s) + Sum(G, s)
  OBVIOUS
<1>3. s # {}
  <2> SUFFICES ASSUME s = {} PROVE FALSE
    OBVIOUS
  <2>1. Sum(F, s) = 0 /\ Sum(G, s) = 0 /\ Sum(H, s) = 0
    BY SumEmpty, Zenon
  <2> HIDE DEF C
  <2> QED
    BY <1>2, <2>1
<1>4. PICK x \in s : TRUE
  BY <1>3
<1> DEFINE t == s \ {x}
<1>5. t \in SUBSET S /\ IsFiniteSet(s) /\ IsFiniteSet(t)
  BY <1>2, FS_Subset
<1>6. Sum(H, t) = Sum(F, t) + Sum(G, t)
  <2>1. t \notin C
    BY <1>1
  <2> QED
    BY <1>5, <2>1
<1>7. \A y \in s : F[y] \in Int /\ G[y] \in Int /\ H[y] = F[y] + G[y] /\ H[y] \in Int
  BY <1>2
<1>8. /\ Sum(F, s) = F[x] + Sum(F, t)
      /\ Sum(G, s) = G[x] + Sum(G, t)
      /\ Sum(H, s) = H[x] + Sum(H, t)
  BY <1>5, <1>7, SumRemove
<1>9. Sum(F, t) \in Int /\ Sum(G, t) \in Int
  BY <1>5, SumInt
<1> HIDE DEF t, C
<1> QED
  BY <1>2, <1>6, <1>7, <1>8, <1>9

(* A sum that is scaled. *)
LEMMA SumScale ==
  ASSUME NEW S, IsFiniteSet(S), NEW k \in Int, NEW F, NEW G,
         \A x \in S : F[x] \in Int /\ G[x] = k * F[x]
  PROVE  Sum(G, S) = k * Sum(F, S)
<1> DEFINE C == {s \in SUBSET S : Sum(G, s) # k * Sum(F, s)}
<1> SUFFICES ASSUME C # {} PROVE FALSE
  OBVIOUS
<1>1. PICK s \in C : \A t \in C : t \subseteq s => t = s
  <2>1. C \in SUBSET SUBSET S
    OBVIOUS
  <2> HIDE DEF C
  <2> QED
    BY <2>1, SmallestSet
<1>2. s \in SUBSET S /\ Sum(G, s) # k * Sum(F, s)
  OBVIOUS
<1>3. s # {}
  <2> SUFFICES ASSUME s = {} PROVE FALSE
    OBVIOUS
  <2>1. Sum(F, s) = 0 /\ Sum(G, s) = 0
    BY SumEmpty, Zenon
  <2> HIDE DEF C
  <2> QED
    BY <1>2, <2>1
<1>4. PICK x \in s : TRUE
  BY <1>3
<1> DEFINE t == s \ {x}
<1>5. t \in SUBSET S /\ IsFiniteSet(s) /\ IsFiniteSet(t)
  BY <1>2, FS_Subset
<1>6. Sum(G, t) = k * Sum(F, t)
  <2>1. t \notin C
    BY <1>1
  <2> QED
    BY <1>5, <2>1
<1>7. \A y \in s : F[y] \in Int /\ G[y] = k * F[y] /\ G[y] \in Int
  BY <1>2
<1>8. Sum(F, s) = F[x] + Sum(F, t) /\ Sum(G, s) = G[x] + Sum(G, t)
  BY <1>5, <1>7, SumRemove
<1>9. Sum(F, t) \in Int /\ F[x] \in Int /\ G[x] = k * F[x]
  BY <1>5, <1>7, SumInt
<1> HIDE DEF t, C
<1>10. k * (F[x] + Sum(F, t)) = k * F[x] + k * Sum(F, t)
  BY <1>9
<1> QED
  BY <1>2, <1>6, <1>8, <1>9, <1>10

(* A sum of values in a set of numbers closed under addition. *)
LEMMA SumIn ==
  ASSUME NEW S, IsFiniteSet(S), NEW V \in SUBSET Int, 0 \in V, \A x, y \in V : x + y \in V,
         NEW F, \A x \in S : F[x] \in V
  PROVE  Sum(F, S) \in V
<1>1. PICK g : IsSum(g, F, S)
  BY SumExists
<1>2. \A s \in SUBSET S : g[s] \in V
  BY <1>1, SumTypes
<1> QED
  BY <1>1, <1>2, SumIs

LEMMA SumNat ==
  ASSUME NEW S, IsFiniteSet(S), NEW F, \A x \in S : F[x] \in Nat
  PROVE  Sum(F, S) \in Nat
<1> DEFINE V == Nat
<1>1. V \in SUBSET Int /\ 0 \in V /\ (\A x, y \in V : x + y \in V) /\ \A x \in S : F[x] \in V
  OBVIOUS
<1> HIDE DEF V
<1>2. Sum(F, S) \in V
  BY <1>1, SumIn
<1> QED
  BY <1>2 DEF V

LEMMA SumZero ==
  ASSUME NEW S, IsFiniteSet(S), NEW F, \A x \in S : F[x] = 0
  PROVE  Sum(F, S) = 0
<1> DEFINE V == {0}
<1>1. V \in SUBSET Int /\ 0 \in V /\ (\A x, y \in V : x + y \in V) /\ \A x \in S : F[x] \in V
  OBVIOUS
<1> HIDE DEF V
<1>2. Sum(F, S) \in V
  BY <1>1, SumIn
<1> QED
  BY <1>2 DEF V

LEMMA SumOne ==
  ASSUME NEW F, NEW e, F[e] \in Int
  PROVE  Sum(F, {e}) = F[e]
<1>1. Sum(F, {} \cup {e}) = Sum(F, {}) + F[e]
  BY SumAdd, FS_EmptySet
<1>2. Sum(F, {e}) = Sum(F, {}) + F[e]
  <2>1. {} \cup {e} = {e}
    OBVIOUS
  <2> QED
    BY <1>1, <2>1, Zenon
<1> QED
  BY <1>2, SumEmpty

LEMMA SumUnion ==
  ASSUME NEW S, IsFiniteSet(S), NEW T, IsFiniteSet(T), S \cap T = {},
         NEW F, \A x \in S \cup T : F[x] \in Int
  PROVE  Sum(F, S \cup T) = Sum(F, S) + Sum(F, T)
<1> DEFINE C == {t \in SUBSET T : Sum(F, S \cup t) # Sum(F, S) + Sum(F, t)}
<1> SUFFICES ASSUME C # {} PROVE FALSE
  <2>1. T \in SUBSET T
    OBVIOUS
  <2> QED
    BY <2>1
<1>1. PICK t \in C : \A u \in C : u \subseteq t => u = t
  <2>1. C \in SUBSET SUBSET T
    OBVIOUS
  <2> HIDE DEF C
  <2> QED
    BY <2>1, SmallestSet
<1>2. t \in SUBSET T /\ Sum(F, S \cup t) # Sum(F, S) + Sum(F, t)
  OBVIOUS
<1>3. Sum(F, S) \in Int
  BY SumInt
<1>4. t # {}
  <2> SUFFICES ASSUME t = {} PROVE FALSE
    OBVIOUS
  <2>1. S \cup t = S
    OBVIOUS
  <2>2. Sum(F, S \cup t) = Sum(F, S) /\ Sum(F, t) = Sum(F, {})
    BY <2>1, Zenon
  <2> HIDE DEF C
  <2> QED
    BY <1>2, <1>3, <2>2, SumEmpty
<1>5. PICK e \in t : TRUE
  BY <1>4
<1> DEFINE u == t \ {e}
<1>6. /\ u \in SUBSET T /\ IsFiniteSet(t) /\ IsFiniteSet(u) /\ IsFiniteSet(S \cup u)
      /\ e \notin S \cup u /\ F[e] \in Int
  BY <1>2, FS_Subset, FS_Union
<1>7. Sum(F, S \cup u) = Sum(F, S) + Sum(F, u)
  <2>1. u \notin C
    BY <1>1
  <2> QED
    BY <1>6, <2>1
<1>8. Sum(F, (S \cup u) \cup {e}) = Sum(F, S \cup u) + F[e] /\ Sum(F, u \cup {e}) = Sum(F, u) + F[e]
  <2>1. \A x \in (S \cup u) \cup {e} : F[x] \in Int
    BY <1>2, <1>6
  <2>2. e \notin u /\ \A x \in u \cup {e} : F[x] \in Int
    BY <2>1
  <2> HIDE DEF u, C
  <2>3. Sum(F, (S \cup u) \cup {e}) = Sum(F, S \cup u) + F[e]
    BY <1>6, <2>1, SumAdd
  <2>4. Sum(F, u \cup {e}) = Sum(F, u) + F[e]
    BY <1>6, <2>2, SumAdd
  <2> QED
    BY <2>3, <2>4
<1>9. (S \cup u) \cup {e} = S \cup t /\ u \cup {e} = t
  OBVIOUS
<1>10. Sum(F, S \cup t) = Sum(F, S \cup u) + F[e] /\ Sum(F, t) = Sum(F, u) + F[e]
  BY <1>8, <1>9, Zenon
<1>11. Sum(F, u) \in Int
  BY <1>2, <1>6, SumInt
<1> HIDE DEF u, C
<1> QED
  BY <1>2, <1>3, <1>6, <1>7, <1>10, <1>11

(* Elements that count for nothing may be left out. *)
LEMMA SumSub ==
  ASSUME NEW S, IsFiniteSet(S), NEW T \in SUBSET S, NEW F, \A x \in T : F[x] \in Int,
         \A x \in S \ T : F[x] = 0
  PROVE  Sum(F, S) = Sum(F, T)
<1> DEFINE U == S \ T
<1>1. IsFiniteSet(T) /\ IsFiniteSet(U) /\ T \cap U = {} /\ S = T \cup U
  BY FS_Subset
<1>2. \A x \in T \cup U : F[x] \in Int
  OBVIOUS
<1>3. \A x \in U : F[x] = 0
  OBVIOUS
<1> HIDE DEF U
<1>4. Sum(F, T \cup U) = Sum(F, T) + Sum(F, U)
  BY <1>1, <1>2, SumUnion
<1>5. Sum(F, S) = Sum(F, T \cup U)
  BY <1>1, Zenon
<1>6. Sum(F, U) = 0
  BY <1>1, <1>3, SumZero
<1>7. Sum(F, T) \in Int
  BY <1>1, SumInt
<1> QED
  BY <1>4, <1>5, <1>6, <1>7

(* The values of a function on a finite set are finitely many. *)
LEMMA ImageFinite ==
  ASSUME NEW S, IsFiniteSet(S), NEW f
  PROVE  IsFiniteSet({f[x] : x \in S})
<1> DEFINE T == {f[x] : x \in S}
           h == [x \in S |-> f[x]]
<1>1. h \in Surjection(S, T)
  BY DEF Surjection
<1> HIDE DEF h, T
<1>2. IsFiniteSet(T)
  BY <1>1, FS_Surjection
<1> QED
  BY <1>2 DEF T

(* A sum may be taken over the images of the elements, if they are         *)
(* different.                                                              *)
LEMMA SumImage ==
  ASSUME NEW S, IsFiniteSet(S), NEW f, \A x, y \in S : f[x] = f[y] => x = y,
         NEW F, NEW G, \A x \in S : F[x] \in Int /\ G[f[x]] = F[x]
  PROVE  Sum(G, {f[x] : x \in S}) = Sum(F, S)
<1> DEFINE image == [s \in SUBSET S |-> {f[x] : x \in s}]
           C == {s \in SUBSET S : Sum(G, image[s]) # Sum(F, s)}
<1> SUFFICES ASSUME C # {} PROVE FALSE
  <2>1. S \in SUBSET S /\ image[S] = {f[x] : x \in S}
    OBVIOUS
  <2> HIDE DEF image
  <2>2. Sum(G, image[S]) = Sum(F, S)
    BY <2>1
  <2> QED
    BY <2>1, <2>2, Zenon
<1>1. PICK s \in C : \A t \in C : t \subseteq s => t = s
  <2>1. C \in SUBSET SUBSET S
    OBVIOUS
  <2> HIDE DEF C
  <2> QED
    BY <2>1, SmallestSet
<1>2. s \in SUBSET S /\ Sum(G, image[s]) # Sum(F, s)
  OBVIOUS
<1>3. image[{}] = {}
  OBVIOUS
<1>4. ASSUME NEW t \in SUBSET S
      PROVE  IsFiniteSet(t) /\ IsFiniteSet(image[t]) /\ \A y \in image[t] : \E x \in t : y = f[x]
  <2>1. image[t] = {f[x] : x \in t}
    OBVIOUS
  <2>2. IsFiniteSet(t)
    BY FS_Subset
  <2>3. IsFiniteSet({f[x] : x \in t})
    BY <2>2, ImageFinite
  <2> HIDE DEF image
  <2>4. IsFiniteSet(image[t])
    BY <2>1, <2>3, Zenon
  <2> QED
    BY <2>1, <2>2, <2>4
<1>5. ASSUME NEW t \in SUBSET S, NEW x \in t
      PROVE  image[t] = image[t \ {x}] \cup {f[x]} /\ f[x] \notin image[t \ {x}]
  <2>1. image[t] = {f[y] : y \in t} /\ image[t \ {x}] = {f[y] : y \in t \ {x}}
    OBVIOUS
  <2> HIDE DEF image
  <2> QED
    BY <2>1
<1> HIDE DEF image
<1>6. s # {}
  BY <1>2, <1>3, SumEmpty
<1>7. PICK e \in s : TRUE
  BY <1>6
<1> DEFINE u == s \ {e}
<1>8. /\ u \in SUBSET S /\ e \notin u /\ s = u \cup {e} /\ u \notin C /\ IsFiniteSet(u)
      /\ IsFiniteSet(image[u]) /\ F[e] \in Int /\ G[f[e]] = F[e]
  BY <1>1, <1>2, <1>4
<1>9. image[s] = image[u] \cup {f[e]} /\ f[e] \notin image[u]
  BY <1>2, <1>5
<1>10. Sum(G, image[u]) = Sum(F, u)
  BY <1>8
<1> HIDE DEF u, C
<1>11. \A y \in image[u] \cup {f[e]} : G[y] \in Int
  BY <1>4, <1>8
<1>12. \A x \in u \cup {e} : F[x] \in Int
  BY <1>8
<1>13. Sum(G, image[u] \cup {f[e]}) = Sum(G, image[u]) + G[f[e]]
  <2> DEFINE T == image[u]
             v == f[e]
  <2>1. IsFiniteSet(T) /\ v \notin T /\ \A y \in T \cup {v} : G[y] \in Int
    BY <1>8, <1>9, <1>11
  <2> HIDE DEF T, v
  <2>2. Sum(G, T \cup {v}) = Sum(G, T) + G[v]
    BY <2>1, SumAdd
  <2> QED
    BY <2>2 DEF T, v
<1>14. Sum(F, u \cup {e}) = Sum(F, u) + F[e]
  BY <1>8, <1>12, SumAdd
<1>15. Sum(G, image[s]) = Sum(F, s)
  BY <1>8, <1>9, <1>10, <1>13, <1>14
<1> QED
  BY <1>2, <1>15

-----------------------------------------------------------------------------
(* Folds from the left over the numbers 1 .. n, where applying i maps a    *)
(* value v in V to D[i][v].                                                *)

Steps(D, V, n) == \A i \in 1 .. n : \A v \in V : D[i][v] \in V

Largest(n) == [s \in SUBSET (1 .. n) |-> Max(s)]

LEMMA MaxOf ==
  ASSUME NEW n \in Nat, NEW s \in SUBSET (1 .. n), s # {}
  PROVE  Max(s) \in s /\ \A y \in s : Max(s) >= y
<1> DEFINE S == 1 .. n
           C == {t \in SUBSET S : s \subseteq t /\ \E k \in 0 .. n : t = 1 .. k}
<1>1. C # {} /\ C \in SUBSET SUBSET S /\ IsFiniteSet(S)
  <2>1. S \in C
    OBVIOUS
  <2>2. IsFiniteSet(S)
    BY FS_Interval
  <2>3. C \in SUBSET SUBSET S
    OBVIOUS
  <2> HIDE DEF C, S
  <2> QED
    BY <2>1, <2>2, <2>3
<1>2. PICK t \in C : \A u \in C : u \subseteq t => u = t
  <2> HIDE DEF C, S
  <2> QED
    BY <1>1, SmallestSet
<1>3. PICK k \in 0 .. n : t = 1 .. k
  OBVIOUS
<1>4. s \subseteq 1 .. k
  BY <1>3
<1>5. k # 0
  <2>1. PICK x \in s : TRUE
    OBVIOUS
  <2>2. 1 <= x /\ x <= k
    BY <1>4, <2>1
  <2> QED
    BY <2>2
<1>6. k \in s
  <2> SUFFICES ASSUME k \notin s PROVE FALSE
    OBVIOUS
  <2> DEFINE u == 1 .. (k - 1)
  <2>1. s \subseteq u
    BY <1>4
  <2>2. u \in SUBSET S /\ (k - 1) \in 0 .. n
    BY <1>5
  <2>3. u \in C
    BY <2>1, <2>2
  <2>4. u \subseteq t /\ k \notin u /\ k \in t
    BY <1>3, <1>5
  <2> HIDE DEF u, C
  <2> QED
    BY <1>2, <2>3, <2>4
<1>7. \A y \in s : k >= y
  BY <1>4
<1> HIDE DEF C
<1> QED
  BY <1>6, <1>7 DEF Max

LEMMA LargestPicks ==
  ASSUME NEW n \in Nat
  PROVE  Picks(Largest(n), 1 .. n) /\ IsFiniteSet(1 .. n)
<1>1. ASSUME NEW s \in SUBSET (1 .. n), s # {}
      PROVE  Largest(n)[s] \in s
  <2>1. Max(s) \in s
    BY <1>1, MaxOf
  <2> QED
    BY <2>1 DEF Largest
<1>2. IsFiniteSet(1 .. n)
  BY FS_Interval
<1> QED
  BY <1>1, <1>2 DEF Picks

LEMMA FoldIn ==
  ASSUME NEW S, IsFiniteSet(S), NEW D, NEW Pick, NEW V, NEW base \in V, Picks(Pick, S),
         \A x \in S : \A v \in V : D[x][v] \in V, NEW g, IsFold(g, D, Pick, base, S)
  PROVE  \A s \in SUBSET S : g[s] \in V
<1> DEFINE C == {s \in SUBSET S : g[s] \notin V}
<1> SUFFICES ASSUME C # {} PROVE FALSE
  OBVIOUS
<1>1. PICK s \in C : \A t \in C : t \subseteq s => t = s
  <2>1. C \in SUBSET SUBSET S
    OBVIOUS
  <2> HIDE DEF C
  <2> QED
    BY <2>1, SmallestSet
<1>2. s \in SUBSET S /\ g[s] \notin V
  OBVIOUS
<1>3. g[s] = IF s = {} THEN base ELSE D[Pick[s]][g[s \ {Pick[s]}]]
  BY <1>2 DEF IsFold
<1>4. s # {} /\ Pick[s] \in s
  BY <1>2, <1>3 DEF Picks
<1>5. g[s \ {Pick[s]}] \in V
  BY <1>1, <1>2, <1>4
<1> HIDE DEF C
<1> QED
  BY <1>2, <1>3, <1>4, <1>5

(* The value after the first n steps. *)
Run(D, base, n) == (CHOOSE g : IsFold(g, D, Largest(n), base, 1 .. n))[1 .. n]

LEMMA RunIs ==
  ASSUME NEW n \in Nat, NEW D, NEW base, NEW g, IsFold(g, D, Largest(n), base, 1 .. n)
  PROVE  Run(D, base, n) = g[1 .. n]
<1> DEFINE h == CHOOSE h : IsFold(h, D, Largest(n), base, 1 .. n)
<1>1. IsFold(h, D, Largest(n), base, 1 .. n)
  OBVIOUS
<1>2. Run(D, base, n) = h[1 .. n]
  BY DEF Run
<1> HIDE DEF h
<1> DEFINE S == 1 .. n
<1>3. S \in SUBSET S /\ S \in SUBSET (S \cap S)
  OBVIOUS
<1>4. Picks(Largest(n), S) /\ IsFiniteSet(S)
  BY LargestPicks
<1>5. IsFold(h, D, Largest(n), base, S) /\ IsFold(g, D, Largest(n), base, S)
  BY <1>1
<1>6. Run(D, base, n) = h[S]
  BY <1>2
<1> HIDE DEF S
<1>7. h[S] = g[S]
  BY <1>3, <1>4, <1>5, FoldsAgree
<1> QED
  BY <1>6, <1>7 DEF S

LEMMA RunIn ==
  ASSUME NEW n \in Nat, NEW D, NEW V, NEW base \in V, Steps(D, V, n)
  PROVE  Run(D, base, n) \in V
<1> DEFINE S == 1 .. n
<1>1. Picks(Largest(n), S) /\ IsFiniteSet(S) /\ S \in SUBSET S
  BY LargestPicks
<1>2. \A x \in S : \A v \in V : D[x][v] \in V
  BY DEF Steps
<1>3. PICK g : IsFold(g, D, Largest(n), base, 1 .. n)
  BY LargestPicks, FoldExists
<1>4. Run(D, base, n) = g[S] /\ IsFold(g, D, Largest(n), base, S)
  BY <1>3, RunIs
<1> HIDE DEF S
<1>5. g[S] \in V
  BY <1>1, <1>2, <1>4, FoldIn
<1> QED
  BY <1>4, <1>5

LEMMA RunNone ==
  ASSUME NEW D, NEW base
  PROVE  Run(D, base, 0) = base
<1>1. PICK g : IsFold(g, D, Largest(0), base, 1 .. 0)
  BY LargestPicks, FoldExists
<1>2. 1 .. 0 = {} /\ 1 .. 0 \in SUBSET (1 .. 0)
  OBVIOUS
<1>3. g[1 .. 0] = base
  BY <1>1, <1>2 DEF IsFold
<1> QED
  BY <1>1, <1>3, RunIs

(* One more step, whatever the steps beyond it are. *)
LEMMA RunStep ==
  ASSUME NEW n \in Nat, NEW D, NEW E, NEW base, \A i \in 1 .. n : D[i] = E[i]
  PROVE  Run(E, base, n + 1) = E[n + 1][Run(D, base, n)]
<1> DEFINE S == 1 .. n
           T == 1 .. n + 1
<1>1. PICK g : IsFold(g, D, Largest(n), base, 1 .. n)
  BY LargestPicks, FoldExists
<1>0. n + 1 \in Nat
  OBVIOUS
<1>2. PICK h : IsFold(h, E, Largest(n + 1), base, 1 .. n + 1)
  <2> DEFINE m == n + 1
  <2> HIDE DEF m
  <2>1. \E h : IsFold(h, E, Largest(m), base, 1 .. m)
    BY <1>0, LargestPicks, FoldExists DEF m
  <2> QED
    BY <2>1 DEF m
<1>3. \A s \in SUBSET S : g[s] = h[s]
  <2> DEFINE C == {s \in SUBSET S : g[s] # h[s]}
  <2> SUFFICES ASSUME C # {} PROVE FALSE
    OBVIOUS
  <2>1. PICK s \in C : \A t \in C : t \subseteq s => t = s
    <3>1. C \in SUBSET SUBSET S /\ IsFiniteSet(S)
      BY FS_Interval
    <3> HIDE DEF C, S
    <3> QED
      BY <3>1, SmallestSet
  <2>2. s \in SUBSET (1 .. n) /\ s \in SUBSET (1 .. n + 1) /\ g[s] # h[s]
    OBVIOUS
  <2>3. /\ g[s] = IF s = {} THEN base ELSE D[Max(s)][g[s \ {Max(s)}]]
        /\ h[s] = IF s = {} THEN base ELSE E[Max(s)][h[s \ {Max(s)}]]
    BY <1>1, <1>2, <2>2 DEF IsFold, Largest
  <2>4. s # {} /\ Max(s) \in s
    BY <2>2, <2>3, MaxOf
  <2>5. g[s \ {Max(s)}] = h[s \ {Max(s)}]
    BY <2>1, <2>2, <2>4
  <2>6. D[Max(s)] = E[Max(s)]
    BY <2>2, <2>4
  <2> HIDE DEF C
  <2> QED
    BY <2>2, <2>3, <2>4, <2>5, <2>6
<1>4. Max(T) = n + 1
  <2>1. Max(T) \in T /\ \A y \in T : Max(T) >= y
    <3>1. T \in SUBSET (1 .. n + 1) /\ n + 1 \in T
      OBVIOUS
    <3> HIDE DEF T
    <3> QED
      BY <1>0, <3>1, MaxOf
  <2> QED
    BY <2>1
<1>5. T # {} /\ T \in SUBSET T /\ T \ {n + 1} = S
  OBVIOUS
<1>6. h[T] = E[n + 1][h[S]]
  <2>1. h[T] = E[Max(T)][h[T \ {Max(T)}]]
    BY <1>2, <1>5 DEF IsFold, Largest
  <2> HIDE DEF S, T
  <2> QED
    BY <1>4, <1>5, <2>1, Zenon
<1>7. Run(D, base, n) = g[S] /\ Run(E, base, n + 1) = h[T]
  BY <1>1, <1>2, RunIs
<1>8. g[S] = h[S]
  BY <1>3
<1> HIDE DEF S, T
<1> QED
  BY <1>6, <1>7, <1>8

(* A fold with its values: what the recursive function of a fold over the  *)
(* indices of a sequence is compared with.                                 *)
RunsThrough(g, D, V, base, n) ==
  /\ g = [s \in SUBSET (1 .. n) |-> g[s]]
  /\ \A s \in SUBSET (1 .. n) :
       /\ g[s] \in V
       /\ s = {} => g[s] = base
       /\ s # {} => /\ Max(s) \in 1 .. n /\ Max(s) \in s
                    /\ g[s] = D[Max(s)][g[s \ {Max(s)}]]

LEMMA RunFold ==
  ASSUME NEW n \in Nat, NEW D, NEW V, NEW base \in V, Steps(D, V, n)
  PROVE  \E g : RunsThrough(g, D, V, base, n)
<1> DEFINE S == 1 .. n
<1>1. PICK g : IsFold(g, D, Largest(n), base, S)
  BY LargestPicks, FoldExists
<1>2. \A s \in SUBSET S : g[s] \in V
  <2>1. Picks(Largest(n), S) /\ IsFiniteSet(S) /\ \A x \in S : \A v \in V : D[x][v] \in V
    BY LargestPicks DEF Steps
  <2> HIDE DEF S
  <2> QED
    BY <1>1, <2>1, FoldIn
<1>3. ASSUME NEW s \in SUBSET S, s # {}
      PROVE  /\ Max(s) \in 1 .. n /\ Max(s) \in s
             /\ g[s] = D[Max(s)][g[s \ {Max(s)}]]
  <2>1. Max(s) \in s
    BY <1>3, MaxOf
  <2> QED
    BY <1>1, <1>3, <2>1 DEF IsFold, Largest
<1>4. g = [s \in SUBSET S |-> g[s]] /\ \A s \in SUBSET S : s = {} => g[s] = base
  BY <1>1 DEF IsFold
<1> QED
  BY <1>2, <1>3, <1>4 DEF RunsThrough

(* A function that takes the steps as long as its values are in V is the   *)
(* fold.                                                                   *)
LEMMA RunFrom ==
  ASSUME NEW n \in Nat, NEW D, NEW V, NEW base \in V, Steps(D, V, n), NEW h,
         h[{}] = base,
         \A s \in SUBSET (1 .. n) :
           s # {} /\ h[s \ {Max(s)}] \in V => h[s] = D[Max(s)][h[s \ {Max(s)}]]
  PROVE  h[1 .. n] = Run(D, base, n)
<1> DEFINE S == 1 .. n
<1>1. PICK g : IsFold(g, D, Largest(n), base, S)
  BY LargestPicks, FoldExists
<1>2. \A s \in SUBSET S : g[s] \in V
  <2>1. Picks(Largest(n), S) /\ IsFiniteSet(S) /\ \A x \in S : \A v \in V : D[x][v] \in V
    BY LargestPicks DEF Steps
  <2> HIDE DEF S
  <2> QED
    BY <1>1, <2>1, FoldIn
<1>3. \A s \in SUBSET S : g[s] = h[s]
  <2> DEFINE C == {s \in SUBSET S : g[s] # h[s]}
  <2> SUFFICES ASSUME C # {} PROVE FALSE
    OBVIOUS
  <2>1. PICK s \in C : \A t \in C : t \subseteq s => t = s
    <3>1. C \in SUBSET SUBSET S /\ IsFiniteSet(S)
      BY FS_Interval
    <3> HIDE DEF C, S
    <3> QED
      BY <3>1, SmallestSet
  <2>2. s \in SUBSET (1 .. n) /\ g[s] # h[s]
    OBVIOUS
  <2>3. g[s] = IF s = {} THEN base ELSE D[Max(s)][g[s \ {Max(s)}]]
    BY <1>1, <2>2 DEF IsFold, Largest
  <2>4. s # {} /\ Max(s) \in s
    BY <2>2, <2>3, MaxOf
  <2>5. g[s \ {Max(s)}] = h[s \ {Max(s)}] /\ g[s \ {Max(s)}] \in V
    BY <1>2, <2>1, <2>2, <2>4
  <2> HIDE DEF C
  <2> QED
    BY <2>2, <2>3, <2>4, <2>5
<1>4. Run(D, base, n) = g[S]
  BY <1>1, RunIs
<1>5. S \in SUBSET S
  OBVIOUS
<1> HIDE DEF S
<1>6. g[S] = h[S]
  BY <1>3, <1>5
<1> QED
  BY <1>4, <1>6 DEF S

-----------------------------------------------------------------------------
(* A binary search between from and to for the last number in fits.        *)

IsSearch(search, fits, from, to) ==
  search = [p \in (from .. to + 1) \X (from - 1 .. to) |->
             LET mid   == p[1] + (p[2] - p[1]) \div 2
                 above == search[<<mid + 1, p[2]>>]
             IN  CASE p[1] > p[2] -> 0
                   [] p[1] <= p[2] /\ mid \in fits -> IF above = 0 THEN mid ELSE above
                   [] OTHER -> search[<<p[1], mid - 1>>]]

Points(from, to, n) == {p \in (from .. to + 1) \X (from - 1 .. to) : p[2] - p[1] < n}

Middle(p) == p[1] + (p[2] - p[1]) \div 2

(* The value at p, given the search at the points below it. *)
Probe(search, fits, p) ==
  IF p[1] > p[2] THEN 0
  ELSE IF Middle(p) \in fits
       THEN IF search[<<Middle(p) + 1, p[2]>>] = 0 THEN Middle(p)
            ELSE search[<<Middle(p) + 1, p[2]>>]
  ELSE search[<<p[1], Middle(p) - 1>>]

IsProbe(search, fits, D) == search = [p \in D |-> Probe(search, fits, p)]

LEMMA Halves ==
  ASSUME NEW from \in Int, NEW to \in Int, NEW n \in Nat, NEW p \in Points(from, to, n), p[1] <= p[2]
  PROVE  /\ Middle(p) \in from .. to
         /\ n > 0
         /\ <<Middle(p) + 1, p[2]>> \in Points(from, to, n - 1)
         /\ <<p[1], Middle(p) - 1>> \in Points(from, to, n - 1)
<1> DEFINE lo == p[1]
           hi == p[2]
           half == (hi - lo) \div 2
<1>1. lo \in from .. to + 1 /\ hi \in from - 1 .. to /\ hi - lo < n /\ lo <= hi
  BY DEF Points
<1> HIDE DEF lo, hi
<1>2. half \in Int /\ 0 <= half /\ half <= hi - lo
  BY <1>1
<1> HIDE DEF half
<1>3. Middle(p) = lo + half
  BY DEF Middle, lo, hi, half
<1> QED
  BY <1>1, <1>2, <1>3 DEF Points, lo, hi

LEMMA ProbeExists ==
  ASSUME NEW from \in Int, NEW to \in Int, NEW fits, NEW n \in Nat
  PROVE  \E f : IsProbe(f, fits, Points(from, to, n))
<1> DEFINE C == {m \in Nat : ~ \E f : IsProbe(f, fits, Points(from, to, m))}
<1> SUFFICES ASSUME C # {} PROVE FALSE
  OBVIOUS
<1>1. PICK m \in C : \A k \in C : m <= k
  <2>1. C \in SUBSET Nat
    OBVIOUS
  <2> HIDE DEF C
  <2> QED
    BY <2>1, SmallestNat
<1>2. m \in Nat /\ ~ \E f : IsProbe(f, fits, Points(from, to, m))
  OBVIOUS
<1> DEFINE D == Points(from, to, m)
           E == IF m = 0 THEN {} ELSE Points(from, to, m - 1)
<1>3. \E f : IsProbe(f, fits, E)
  <2>1. CASE m = 0
    <3>1. IsProbe([p \in {} |-> 0], fits, {})
      BY DEF IsProbe
    <3> QED
      BY <2>1, <3>1
  <2>2. CASE m # 0
    <3>1. m - 1 \in Nat /\ m - 1 \notin C
      BY <1>1, <2>2
    <3> QED
      BY <2>2, <3>1
  <2> QED
    BY <2>1, <2>2
<1>4. PICK f : IsProbe(f, fits, E)
  BY <1>3
<1> DEFINE h == [p \in D |-> Probe(f, fits, p)]
<1>5. E \subseteq D
  BY <1>2 DEF Points
<1>6. ASSUME NEW p \in D, p[1] <= p[2]
      PROVE  <<Middle(p) + 1, p[2]>> \in E /\ <<p[1], Middle(p) - 1>> \in E
  BY <1>2, <1>6, Halves
<1> HIDE DEF D, E, C
<1>7. \A p \in E : h[p] = f[p]
  BY <1>4, <1>5 DEF IsProbe
<1>8. \A p \in D : p[1] \in Int /\ p[2] \in Int
  BY DEF D, Points
<1>9. ASSUME NEW p \in D
      PROVE  Probe(f, fits, p) = Probe(h, fits, p)
  <2>1. CASE p[1] > p[2]
    BY <2>1 DEF Probe
  <2>2. CASE p[1] <= p[2]
    <3>1. h[<<Middle(p) + 1, p[2]>>] = f[<<Middle(p) + 1, p[2]>>]
      BY <1>6, <1>7, <2>2
    <3>2. h[<<p[1], Middle(p) - 1>>] = f[<<p[1], Middle(p) - 1>>]
      BY <1>6, <1>7, <2>2
    <3> HIDE DEF h
    <3> QED
      BY <3>1, <3>2 DEF Probe
  <2> QED
    BY <1>8, <2>1, <2>2
<1>10. IsProbe(h, fits, D)
  BY <1>9 DEF IsProbe
<1> QED
  BY <1>2, <1>10 DEF D

LEMMA SearchExists ==
  ASSUME NEW from \in Int, NEW to \in Int, NEW fits
  PROVE  \E f : IsSearch(f, fits, from, to)
<1> DEFINE n == IF to < from THEN 0 ELSE to - from + 1
           D == (from .. to + 1) \X (from - 1 .. to)
<1>1. n \in Nat
  OBVIOUS
<1>2. Points(from, to, n) = D
  BY DEF Points
<1> HIDE DEF n
<1>3. PICK f : IsProbe(f, fits, Points(from, to, n))
  BY <1>1, ProbeExists
<1>4. IsProbe(f, fits, D)
  BY <1>2, <1>3, Zenon
<1> DEFINE Val(p) == LET mid   == p[1] + (p[2] - p[1]) \div 2
                         above == f[<<mid + 1, p[2]>>]
                     IN  CASE p[1] > p[2] -> 0
                           [] p[1] <= p[2] /\ mid \in fits -> IF above = 0 THEN mid ELSE above
                           [] OTHER -> f[<<p[1], mid - 1>>]
<1>5. ASSUME NEW p \in D
      PROVE  Probe(f, fits, p) = Val(p)
  <2>1. p[1] \in Int /\ p[2] \in Int
    OBVIOUS
  <2> QED
    BY <2>1 DEF Probe, Middle
<1> HIDE DEF D, Val
<1>6. f = [p \in D |-> Val(p)]
  BY <1>4, <1>5 DEF IsProbe
<1>7. IsSearch(f, fits, from, to)
  BY <1>6 DEF IsSearch, D, Val
<1> QED
  BY <1>7

(* It finds a number that fits, or none. *)
LEMMA SearchFits ==
  ASSUME NEW from \in Int, NEW to \in Int, from <= to + 1, NEW fits,
         NEW f, IsSearch(f, fits, from, to)
  PROVE  f[<<from, to>>] = 0 \/ f[<<from, to>>] \in fits \cap (from .. to)
<1> DEFINE Bad(p) == ~(f[p] = 0 \/ f[p] \in fits \cap (from .. to))
           C == {m \in Nat : \E p \in Points(from, to, m) : Bad(p)}
           D == (from .. to + 1) \X (from - 1 .. to)
<1>1. ASSUME NEW p \in D
      PROVE  f[p] = Probe(f, fits, p)
  <2>1. p[1] \in Int /\ p[2] \in Int
    OBVIOUS
  <2> DEFINE mid   == p[1] + (p[2] - p[1]) \div 2
             above == f[<<mid + 1, p[2]>>]
  <2>2. f[p] = CASE p[1] > p[2] -> 0
                 [] p[1] <= p[2] /\ mid \in fits -> IF above = 0 THEN mid ELSE above
                 [] OTHER -> f[<<p[1], mid - 1>>]
    BY DEF IsSearch
  <2> QED
    BY <2>1, <2>2 DEF Probe, Middle
<1>2. C = {}
  <2> SUFFICES ASSUME C # {} PROVE FALSE
    OBVIOUS
  <2>1. PICK m \in C : \A k \in C : m <= k
    <3>1. C \in SUBSET Nat
      OBVIOUS
    <3> HIDE DEF C
    <3> QED
      BY <3>1, SmallestNat
  <2>2. PICK p \in Points(from, to, m) : Bad(p)
    OBVIOUS
  <2>3. m \in Nat /\ p = <<p[1], p[2]>> /\ p[1] \in from .. to + 1 /\ p[2] \in from - 1 .. to
    BY DEF Points
  <2>4. f[p] = Probe(f, fits, p)
    BY <1>1, <2>3
  <2>5. p[1] <= p[2]
    BY <2>2, <2>3, <2>4 DEF Probe
  <2>6. /\ Middle(p) \in from .. to /\ m > 0
        /\ <<Middle(p) + 1, p[2]>> \in Points(from, to, m - 1)
        /\ <<p[1], Middle(p) - 1>> \in Points(from, to, m - 1)
    BY <2>3, <2>5, Halves
  <2>7. m - 1 \in Nat /\ m - 1 \notin C
    BY <2>1, <2>3, <2>6
  <2>8. ~Bad(<<Middle(p) + 1, p[2]>>) /\ ~Bad(<<p[1], Middle(p) - 1>>)
    BY <2>6, <2>7
  <2> QED
    BY <2>2, <2>3, <2>4, <2>5, <2>6, <2>8 DEF Probe
<1> DEFINE n == to - from + 1
<1>3. n \in Nat /\ <<from, to>> \in Points(from, to, n)
  BY DEF Points
<1> HIDE DEF n
<1>4. ~Bad(<<from, to>>)
  BY <1>2, <1>3
<1> QED
  BY <1>4

(* What it finds cannot be raised by one: either the search went to the    *)
(* end, or it has tried the next number and that does not fit; where it    *)
(* finds nothing, the first number does not fit (the one after zero, which *)
(* is not told from nothing).  No assumption is made on what fits.         *)
LEMMA SearchIsTight ==
  ASSUME NEW from \in Nat, NEW to \in Int, from <= to,
         NEW fits, NEW f, IsSearch(f, fits, from, to)
  PROVE  /\ f[<<from, to>>] # 0 /\ f[<<from, to>>] < to => f[<<from, to>>] + 1 \notin fits
         /\ f[<<from, to>>] = 0 /\ from > 0 => from \notin fits
         /\ f[<<from, to>>] = 0 /\ from = 0 /\ to > 0 /\ 0 \in fits => 1 \notin fits
<1> DEFINE Good(p) ==
             p[1] <= p[2] =>
               /\ f[p] # 0 /\ f[p] < p[2] => f[p] + 1 \notin fits
               /\ f[p] = 0 /\ p[1] > 0 => p[1] \notin fits
               /\ f[p] = 0 /\ p[1] = 0 /\ p[2] > 0 /\ 0 \in fits => 1 \notin fits
               /\ f[p] # 0 => f[p] \in p[1] .. p[2]
           C == {m \in Nat : \E p \in Points(from, to, m) : ~(Good(p) /\ (p[1] > p[2] => f[p] = 0))}
           D == (from .. to + 1) \X (from - 1 .. to)
<1>1. ASSUME NEW p \in D
      PROVE  f[p] = Probe(f, fits, p)
  <2>1. p[1] \in Int /\ p[2] \in Int
    OBVIOUS
  <2> DEFINE mid   == p[1] + (p[2] - p[1]) \div 2
             above == f[<<mid + 1, p[2]>>]
  <2>2. f[p] = CASE p[1] > p[2] -> 0
                 [] p[1] <= p[2] /\ mid \in fits -> IF above = 0 THEN mid ELSE above
                 [] OTHER -> f[<<p[1], mid - 1>>]
    BY DEF IsSearch
  <2> QED
    BY <2>1, <2>2 DEF Probe, Middle
<1>2. C = {}
  <2> SUFFICES ASSUME C # {} PROVE FALSE
    OBVIOUS
  <2>1. PICK m \in C : \A k \in C : m <= k
    <3>1. C \in SUBSET Nat
      OBVIOUS
    <3> HIDE DEF C
    <3> QED
      BY <3>1, SmallestNat
  <2>2. PICK p \in Points(from, to, m) : ~(Good(p) /\ (p[1] > p[2] => f[p] = 0))
    OBVIOUS
  <2>3. /\ m \in Nat /\ p = <<p[1], p[2]>> /\ p[1] \in from .. to + 1 /\ p[2] \in from - 1 .. to
        /\ p \in D
    BY DEF Points
  <2>4. f[p] = Probe(f, fits, p)
    BY <1>1, <2>3
  <2>5. p[1] <= p[2]
    BY <2>2, <2>3, <2>4 DEF Probe
  <2> DEFINE mid == Middle(p)
             up == <<mid + 1, p[2]>>
             down == <<p[1], mid - 1>>
  <2>6. /\ mid \in from .. to /\ m > 0
        /\ up \in Points(from, to, m - 1) /\ down \in Points(from, to, m - 1)
    <3>1. from \in Int /\ to \in Int
      OBVIOUS
    <3> QED
      BY <2>3, <2>5, <3>1, Halves
  <2>7. m - 1 \in Nat /\ m - 1 \notin C
    BY <2>1, <2>3, <2>6
  <2>8. /\ Good(up) /\ (up[1] > up[2] => f[up] = 0)
        /\ Good(down) /\ (down[1] > down[2] => f[down] = 0)
    BY <2>6, <2>7
  <2>9. p[1] <= mid /\ mid <= p[2] /\ mid \in Int
    BY <2>3, <2>5 DEF Middle
  <2>10. f[p] = IF mid \in fits THEN IF f[up] = 0 THEN mid ELSE f[up] ELSE f[down]
    BY <2>3, <2>4, <2>5 DEF Probe
  <2> DEFINE lo == p[1]
             hi == p[2]
             u == f[up]
             d == f[down]
             r == f[p]
  <2>11. /\ lo \in Nat /\ hi \in Int /\ lo <= mid /\ mid <= hi /\ mid \in Int
         /\ r = IF mid \in fits THEN IF u = 0 THEN mid ELSE u ELSE d
         /\ mid + 1 <= hi => /\ u # 0 /\ u < hi => u + 1 \notin fits
                             /\ u = 0 /\ mid + 1 > 0 => mid + 1 \notin fits
                             /\ u # 0 => u \in mid + 1 .. hi
         /\ mid + 1 > hi => u = 0
         /\ lo <= mid - 1 => /\ d # 0 /\ d < mid - 1 => d + 1 \notin fits
                             /\ d = 0 /\ lo > 0 => lo \notin fits
                             /\ d = 0 /\ lo = 0 /\ mid - 1 > 0 /\ 0 \in fits => 1 \notin fits
                             /\ d # 0 => d \in lo .. mid - 1
         /\ lo > mid - 1 => d = 0
    BY <2>3, <2>8, <2>9, <2>10
  <2>12. ~(/\ r # 0 /\ r < hi => r + 1 \notin fits
           /\ r = 0 /\ lo > 0 => lo \notin fits
           /\ r = 0 /\ lo = 0 /\ hi > 0 /\ 0 \in fits => 1 \notin fits
           /\ r # 0 => r \in lo .. hi)
    <3>1. ~(p[1] > p[2])
      BY <2>3, <2>5
    <3>2. ~Good(p)
      BY <2>2, <3>1
    <3> QED
      BY <2>5, <3>2
  <2> HIDE DEF lo, hi, u, d, r, mid
  <2>13. CASE mid \in fits /\ u = 0
    BY <2>11, <2>12, <2>13
  <2>14. CASE mid \in fits /\ u # 0
    BY <2>11, <2>12, <2>14
  <2>15. CASE mid \notin fits
    <3>1. r = d
      BY <2>11, <2>15
    <3>2. d = mid - 1 => d + 1 \notin fits
      BY <2>11, <2>15
    <3> QED
      BY <2>11, <2>12, <2>15, <3>1, <3>2
  <2> QED
    BY <2>13, <2>14, <2>15
<1> DEFINE n == to - from + 1
<1>3. n \in Nat /\ <<from, to>> \in Points(from, to, n)
  BY DEF Points
<1> HIDE DEF n
<1>4. Good(<<from, to>>)
  BY <1>2, <1>3
<1> QED
  BY <1>4

(* Where every number below one that fits does so too, what it finds is    *)
(* the largest of all that fit.                                            *)
LEMMA SearchIsLargest ==
  ASSUME NEW from \in Nat \ {0}, NEW to \in Int, from <= to, NEW fits,
         \A k \in fits \cap (from .. to) : \A j \in from .. k : j \in fits,
         NEW f, IsSearch(f, fits, from, to)
  PROVE  \A k \in fits \cap (from .. to) : k <= f[<<from, to>>]
<1> DEFINE r == f[<<from, to>>]
<1>1. /\ r # 0 /\ r < to => r + 1 \notin fits
      /\ r = 0 => from \notin fits
  BY SearchIsTight
<1>2. r = 0 \/ r \in fits \cap (from .. to)
  BY SearchFits
<1> HIDE DEF r
<1> SUFFICES ASSUME NEW k \in fits \cap (from .. to), ~(k <= r)
             PROVE  FALSE
  BY DEF r
<1>3. CASE r = 0
  <2>1. from \in from .. k
    OBVIOUS
  <2> QED
    BY <1>1, <1>3, <2>1
<1>4. CASE r # 0
  <2>1. r \in from .. to /\ r < k
    BY <1>2, <1>4
  <2>2. r + 1 \in from .. k
    BY <2>1
  <2>3. r + 1 \in fits /\ r < to
    BY <2>1, <2>2
  <2> QED
    BY <1>1, <1>4, <2>3
<1> QED
  BY <1>3, <1>4

=============================================================================
