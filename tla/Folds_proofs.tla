---------------------------- MODULE Folds_proofs ----------------------------
(***************************************************************************)
(* What the proofs need of numbers, finite sets and folds: induction over  *)
(* a set of numbers or of subsets, and a function that is defined by       *)
(* recursion over the subsets of a finite set, as the folds are.           *)
(***************************************************************************)
EXTENDS Integers, FiniteSets, FiniteSetTheorems, NaturalsInduction, WellFoundedInduction, Functions,
        FiniteSetsExt, TLAPS

(* Induction by the least number that would be an exception.               *)
LEMMA LeastNumber ==
    ASSUME NEW S \in SUBSET Nat, S # {}
    PROVE  \E n \in S : \A m \in S : n <= m
<1>1. IsWellFoundedOn(OpToRel(<, Nat), Nat)
  BY NatLessThanWellFounded
<1>2. PICK n \in S : \A m \in S : ~(<<m, n>> \in OpToRel(<, Nat))
  BY <1>1, WFMin
<1>3. ASSUME NEW m \in S
      PROVE  n <= m
  <2>1. m \in Nat /\ n \in Nat
    OBVIOUS
  <2>2. ~(m < n)
    BY <1>2, <2>1 DEF OpToRel
  <2> QED
    BY <2>1, <2>2
<1> QED
  BY <1>3

(* Induction: a set of numbers with 0 and each successor has them all. *)
LEMMA AllNumbers ==
    ASSUME NEW N, 0 \in N, \A n \in Nat : n \in N => n + 1 \in N
    PROVE  \A n \in Nat : n \in N
<1> SUFFICES ASSUME Nat \ N # {} PROVE FALSE
  OBVIOUS
<1>1. PICK n \in Nat \ N : \A m \in Nat \ N : n <= m
  BY LeastNumber
<1>2. n # 0 /\ n - 1 \in Nat
  BY <1>1
<1>3. n - 1 \in N
  BY <1>1, <1>2
<1> QED
  BY <1>2, <1>3

(* C has the empty set, and a set when it has the set without its picked   *)
(* element.                                                                *)
Reaches(C, S, pick) ==
    /\ {} \in C
    /\ \A s \in SUBSET S : s # {} => pick[s] \in s /\ (s \ {pick[s]} \in C => s \in C)

(* Induction: then it has every subset of a finite set. *)
LEMMA AllSubsets ==
    ASSUME NEW S, IsFiniteSet(S), NEW pick, NEW C, Reaches(C, S, pick)
    PROVE  \A s \in SUBSET S : s \in C
<1> DEFINE N == {n \in Nat : \A s \in SUBSET S : Cardinality(s) = n => s \in C}
<1>1. \A s \in SUBSET S : IsFiniteSet(s) /\ Cardinality(s) \in Nat
  BY FS_Subset, FS_CardinalityType
<1>2. 0 \in N
  BY <1>1, FS_EmptySet DEF Reaches
<1>3. ASSUME NEW n \in Nat, n \in N, NEW s \in SUBSET S, Cardinality(s) = n + 1
      PROVE  s \in C
  <2>1. Cardinality(s) = n + 1
    BY <1>3
  <2>2. Cardinality(s \ {pick[s]}) = n /\ s # {}
    <3> HIDE DEF N
    <3>1. s # {}
      <4>1. Cardinality(s) # 0
        BY <2>1
      <4> QED
        BY <4>1, FS_EmptySet
    <3>2. pick[s] \in s
      BY <3>1 DEF Reaches
    <3>3. Cardinality(s \ {pick[s]}) = Cardinality(s) - 1
      BY <1>1, <3>2, FS_RemoveElement
    <3> QED
      BY <2>1, <3>1, <3>3
  <2> QED
    BY <1>3, <2>2 DEF Reaches
<1>4. \A n \in Nat : n \in N
  <2>1. ASSUME NEW n \in Nat, n \in N PROVE n + 1 \in N
    <3>1. \A s \in SUBSET S : Cardinality(s) = n + 1 => s \in C
      BY <1>3, <2>1
    <3> QED
      BY <3>1
  <2> HIDE DEF N
  <2> QED
    BY <1>2, <2>1, AllNumbers
<1> QED
  BY <1>1, <1>4

-----------------------------------------------------------------------------
(* The equation of MapThenFoldSet: pick says which element goes first, comb *)
(* what it adds.                                                           *)
Folds(g, D, base, pick, comb) ==
    \A s \in D : g[s] = IF s = {} THEN base ELSE comb[<<pick[s], g[s \ {pick[s]}]>>]

(* It has a solution over the subsets of a finite set. *)
LEMMA FoldDefined ==
    ASSUME NEW S, IsFiniteSet(S), NEW V, NEW base \in V, NEW pick,
           \A s \in SUBSET S : s # {} => pick[s] \in s,
           NEW comb \in [S \X V -> V]
    PROVE  \E g \in [SUBSET S -> V] : Folds(g, SUBSET S, base, pick, comb)
<1> DEFINE Small(m) == {s \in SUBSET S : Cardinality(s) <= m}
           N == {m \in Nat : \E g \in [Small(m) -> V] : Folds(g, Small(m), base, pick, comb)}
<1>1. \A s \in SUBSET S : IsFiniteSet(s) /\ Cardinality(s) \in Nat
  BY FS_Subset, FS_CardinalityType
<1>2. 0 \in N
  <2>1. Small(0) = {{}}
    BY <1>1, FS_EmptySet
  <2>2. Folds([s \in Small(0) |-> base], Small(0), base, pick, comb)
    BY <2>1 DEF Folds
  <2> QED
    BY <2>2
<1>3. ASSUME NEW m \in Nat, m \in N
      PROVE  m + 1 \in N
  <2>1. PICK g \in [Small(m) -> V] : Folds(g, Small(m), base, pick, comb)
    BY <1>3
  <2> DEFINE h == [s \in Small(m + 1) |->
                      IF s \in Small(m) THEN g[s] ELSE comb[<<pick[s], g[s \ {pick[s]}]>>]]
  <2>2. ASSUME NEW s \in Small(m + 1), s # {}
        PROVE  pick[s] \in S /\ s \ {pick[s]} \in Small(m) /\ s \ {pick[s]} \in Small(m + 1)
    <3>1. pick[s] \in s
      BY <2>2
    <3>2. Cardinality(s \ {pick[s]}) = Cardinality(s) - 1
      BY <1>1, <3>1, FS_RemoveElement
    <3> QED
      BY <1>1, <3>1, <3>2
  <2>3. {} \in Small(m)
    BY FS_EmptySet
  <2>4. h \in [Small(m + 1) -> V]
    BY <2>2, <2>3
  <2>5. ASSUME NEW s \in Small(m + 1)
        PROVE  h[s] = IF s = {} THEN base ELSE comb[<<pick[s], h[s \ {pick[s]}]>>]
    <3>1. CASE s = {}
      BY <2>1, <2>3, <3>1 DEF Folds
    <3>2. CASE s # {}
      <4>1. h[s \ {pick[s]}] = g[s \ {pick[s]}]
        BY <2>2, <3>2
      <4>2. h[s] = comb[<<pick[s], g[s \ {pick[s]}]>>]
        BY <2>1, <3>2 DEF Folds
      <4> QED
        BY <3>2, <4>1, <4>2
    <3> QED
      BY <3>1, <3>2
  <2>6. Folds(h, Small(m + 1), base, pick, comb)
    <3> HIDE DEF h, Small
    <3> QED
      BY <2>5 DEF Folds
  <2> HIDE DEF h, Small
  <2> QED
    BY <2>4, <2>6
<1>4. Cardinality(S) \in N
  <2>1. Cardinality(S) \in Nat
    BY FS_CardinalityType
  <2> HIDE DEF N
  <2> QED
    BY <1>2, <1>3, <2>1, AllNumbers
<1>5. Small(Cardinality(S)) = SUBSET S
  BY FS_Subset
<1> QED
  BY <1>4, <1>5

-----------------------------------------------------------------------------
(* The greatest of numbers. *)
LEMMA GreatestNumber ==
    ASSUME NEW S \in SUBSET Nat, IsFiniteSet(S), S # {}
    PROVE  \E n \in S : \A m \in S : n >= m
<1> DEFINE C == {T \in SUBSET S : T # {} => \E n \in T : \A m \in T : n >= m}
<1>1. PICK pick : pick = [s \in SUBSET S |-> CHOOSE x \in s : TRUE]
  OBVIOUS
<1>2. \A s \in SUBSET S : s # {} => pick[s] \in s
  BY <1>1
<1>3. ASSUME NEW T \in SUBSET S, T # {}, T \ {pick[T]} \in C
      PROVE  T \in C
  <2> DEFINE x == pick[T]
  <2>1. x \in T /\ x \in Nat
    BY <1>2, <1>3
  <2>2. CASE T \ {x} = {}
    <3>1. \A m \in T : x >= m
      BY <2>1, <2>2
    <3> QED
      BY <2>1, <3>1
  <2>3. CASE T \ {x} # {}
    <3>1. PICK n \in T \ {x} : \A m \in T \ {x} : n >= m
      BY <1>3, <2>3
    <3>2. CASE x >= n
      <4>1. \A m \in T : x >= m
        BY <2>1, <3>1, <3>2
      <4> QED
        BY <2>1, <4>1
    <3>3. CASE n >= x
      <4>1. \A m \in T : n >= m
        BY <2>1, <3>1, <3>3
      <4> QED
        BY <4>1
    <3> QED
      BY <2>1, <3>2, <3>3
  <2> QED
    BY <2>2, <2>3
<1>4. S \in C
  <2>1. {} \in C
    OBVIOUS
  <2>2. Reaches(C, S, pick)
    BY <1>2, <1>3, <2>1 DEF Reaches
  <2> HIDE DEF C
  <2> QED
    BY <2>2, AllSubsets
<1> QED
  BY <1>4

(* Induction by adding an element. *)
LEMMA AddedOneByOne ==
    ASSUME NEW S, IsFiniteSet(S), NEW C, {} \in C,
           \A T \in SUBSET S, x \in S : T \in C /\ x \notin T => T \cup {x} \in C
    PROVE  \A T \in SUBSET S : T \in C
<1>1. PICK pick : pick = [s \in SUBSET S |-> CHOOSE x \in s : TRUE]
  OBVIOUS
<1>2. ASSUME NEW s \in SUBSET S, s # {}
      PROVE  pick[s] \in s /\ (s \ {pick[s]} \in C => s \in C)
  <2>1. pick[s] \in s
    BY <1>1, <1>2
  <2>2. s = (s \ {pick[s]}) \cup {pick[s]} /\ pick[s] \notin s \ {pick[s]}
        /\ s \ {pick[s]} \in SUBSET S /\ pick[s] \in S
    BY <2>1
  <2> QED
    BY <2>1, <2>2
<1>3. Reaches(C, S, pick)
  BY <1>2 DEF Reaches
<1> QED
  BY <1>3, AllSubsets

(* What a function makes of a finite set is finite. *)
LEMMA ImageIsFinite ==
    ASSUME NEW S, IsFiniteSet(S), NEW f
    PROVE  IsFiniteSet({f[x] : x \in S}) /\ Cardinality({f[x] : x \in S}) <= Cardinality(S)
<1> DEFINE Image(T) == {f[x] : x \in T}
           C == {T \in SUBSET S : IsFiniteSet(Image(T)) /\ Cardinality(Image(T)) <= Cardinality(T)}
<1>1. ASSUME NEW T \in SUBSET S, NEW x \in S, T \in C, x \notin T
      PROVE  T \cup {x} \in C
  <2>1. Image(T \cup {x}) = Image(T) \cup {f[x]}
    OBVIOUS
  <2>2. IsFiniteSet(T) /\ IsFiniteSet(Image(T)) /\ Cardinality(Image(T)) <= Cardinality(T)
    BY <1>1, FS_Subset
  <2>3. Cardinality(T \cup {x}) = Cardinality(T) + 1 /\ Cardinality(T) \in Nat
    BY <1>1, <2>2, FS_AddElement, FS_CardinalityType
  <2>4. /\ IsFiniteSet(Image(T) \cup {f[x]})
        /\ Cardinality(Image(T) \cup {f[x]}) \in Cardinality(Image(T))..Cardinality(Image(T)) + 1
        /\ Cardinality(Image(T)) \in Nat
    <3> HIDE DEF Image
    <3>1. Cardinality(Image(T)) \in Nat
      BY <2>2, FS_CardinalityType
    <3>2. /\ IsFiniteSet(Image(T) \cup {f[x]})
          /\ Cardinality(Image(T) \cup {f[x]}) = IF f[x] \in Image(T) THEN Cardinality(Image(T))
                                                 ELSE Cardinality(Image(T)) + 1
      BY <2>2, FS_AddElement
    <3> QED
      BY <3>1, <3>2
  <2>5. IsFiniteSet(Image(T \cup {x})) /\ Cardinality(Image(T \cup {x})) <= Cardinality(T \cup {x})
    <3> HIDE DEF Image
    <3> QED
      BY <2>1, <2>2, <2>3, <2>4
  <2> QED
    BY <2>5
<1>2. {} \in C
  <2>1. Image({}) = {}
    OBVIOUS
  <2>2. IsFiniteSet(Image({})) /\ Cardinality(Image({})) <= Cardinality({})
    <3> HIDE DEF Image
    <3> QED
      BY <2>1, FS_EmptySet
  <2> QED
    BY <2>2
<1>3. S \in C
  <2> HIDE DEF C
  <2> QED
    BY <1>1, <1>2, AddedOneByOne
<1> QED
  BY <1>3

-----------------------------------------------------------------------------
(* Sums of the amounts a function w tells of the elements of a set.        *)
Sum(w, S) == SumFunctionOnSet(w, S)

(* What it is computed by: CHOOSE says which element goes first.           *)
Sums(g, w, S) ==
    g = [s \in SUBSET S |->
            IF s = {} THEN 0 ELSE w[CHOOSE x \in s : TRUE] + g[s \ {CHOOSE x \in s : TRUE}]]

LEMMA SumUnfolds == ASSUME NEW w, NEW S PROVE Sum(w, S) = (CHOOSE g : Sums(g, w, S))[S]
  BY DEF Sum, SumFunctionOnSet, FoldFunctionOnSet, MapThenFoldSet, Sums

LEMMA SumsDefined ==
    ASSUME NEW S, IsFiniteSet(S), NEW w, \A x \in S : w[x] \in Int
    PROVE  \E g \in [SUBSET S -> Int] : Sums(g, w, S)
<1>1. PICK pick : pick = [s \in SUBSET S |-> CHOOSE x \in s : TRUE]
  OBVIOUS
<1>2. PICK comb : comb = [p \in S \X Int |-> w[p[1]] + p[2]]
  OBVIOUS
<1>3. PICK g \in [SUBSET S -> Int] : Folds(g, SUBSET S, 0, pick, comb)
  <2>1. \A s \in SUBSET S : s # {} => pick[s] \in s
    BY <1>1
  <2>2. comb \in [S \X Int -> Int]
    BY <1>2
  <2>3. 0 \in Int
    OBVIOUS
  <2> QED
    BY <2>1, <2>2, <2>3, FoldDefined
<1>4. ASSUME NEW s \in SUBSET S
      PROVE  g[s] = IF s = {} THEN 0
                    ELSE w[CHOOSE x \in s : TRUE] + g[s \ {CHOOSE x \in s : TRUE}]
  <2>1. CASE s # {}
    <3>1. PICK x \in s : x = (CHOOSE y \in s : TRUE) /\ x = pick[s]
      BY <1>1, <2>1
    <3>2. g[s] = comb[<<x, g[s \ {x}]>>]
      BY <1>3, <2>1, <3>1 DEF Folds
    <3>3. g[s \ {x}] \in Int /\ x \in S
      OBVIOUS
    <3>4. comb[<<x, g[s \ {x}]>>] = w[x] + g[s \ {x}]
      BY <1>2, <3>3
    <3> QED
      BY <2>1, <3>1, <3>2, <3>4
  <2>2. CASE s = {}
    BY <1>3, <2>2 DEF Folds
  <2> QED
    BY <2>1, <2>2
<1>5. Sums(g, w, S)
  BY <1>4 DEF Sums
<1> QED
  BY <1>5

(* Two computations of the same amounts agree on what they share.          *)
LEMMA SumsAgree ==
    ASSUME NEW S, NEW T \in SUBSET S, IsFiniteSet(T), NEW w, NEW v, NEW g, NEW h,
           Sums(g, w, S), Sums(h, v, T), \A x \in T : w[x] = v[x] /\ w[x] \in Int
    PROVE  \A s \in SUBSET T : g[s] = h[s] /\ g[s] \in Int
<1> DEFINE C == {s \in SUBSET T : g[s] = h[s] /\ g[s] \in Int}
<1>1. PICK pick : pick = [s \in SUBSET T |-> CHOOSE x \in s : TRUE]
  OBVIOUS
<1>2. ASSUME NEW s \in SUBSET T, s # {}
      PROVE  pick[s] \in s /\ (s \ {pick[s]} \in C => s \in C)
  <2>1. PICK x \in s : x = (CHOOSE y \in s : TRUE) /\ x = pick[s]
    BY <1>1, <1>2
  <2>2. g[s] = w[x] + g[s \ {x}]
    BY <1>2, <2>1 DEF Sums
  <2>3. h[s] = v[x] + h[s \ {x}]
    BY <1>2, <2>1 DEF Sums
  <2>4. ASSUME s \ {x} \in C PROVE g[s] = h[s] /\ g[s] \in Int
    <3>1. g[s \ {x}] = h[s \ {x}] /\ g[s \ {x}] \in Int
      BY <2>4
    <3>2. w[x] = v[x] /\ w[x] \in Int
      BY <2>1
    <3> QED
      BY <2>2, <2>3, <3>1, <3>2
  <2> QED
    BY <2>1, <2>4
<1>3. {} \in C
  BY DEF Sums
<1>4. Reaches(C, T, pick)
  <2> HIDE DEF C
  <2> QED
    BY <1>2, <1>3 DEF Reaches
<1>5. \A s \in SUBSET T : s \in C
  <2> HIDE DEF C
  <2> QED
    BY <1>4, AllSubsets
<1> QED
  BY <1>5

(* So whatever computes it finds the sum, of any part.                     *)
LEMMA SumFound ==
    ASSUME NEW S, IsFiniteSet(S), NEW w, \A x \in S : w[x] \in Int, NEW g, Sums(g, w, S),
           NEW T \in SUBSET S
    PROVE  g[T] = Sum(w, T) /\ Sum(w, T) \in Int
<1>1. IsFiniteSet(T) /\ \A x \in T : w[x] \in Int
  BY FS_Subset
<1>2. PICK h : h = CHOOSE f : Sums(f, w, T)
  OBVIOUS
<1>3. Sums(h, w, T)
  <2>1. \E f : Sums(f, w, T)
    BY <1>1, SumsDefined
  <2> QED
    BY <1>2, <2>1
<1>4. Sum(w, T) = h[T]
  BY <1>2, SumUnfolds
<1>5. g[T] = h[T] /\ g[T] \in Int
  <2>1. T \in SUBSET T /\ \A x \in T : w[x] = w[x] /\ w[x] \in Int
    BY <1>1
  <2>2. \A s \in SUBSET T : g[s] = h[s] /\ g[s] \in Int
    BY <1>1, <1>3, <2>1, SumsAgree
  <2> QED
    BY <2>1, <2>2
<1> QED
  BY <1>4, <1>5

LEMMA SumType ==
    ASSUME NEW S, IsFiniteSet(S), NEW w, \A x \in S : w[x] \in Int
    PROVE  Sum(w, S) \in Int
<1>1. \E g : Sums(g, w, S)
  BY SumsDefined
<1>2. S \in SUBSET S
  OBVIOUS
<1> QED
  BY <1>1, <1>2, SumFound

(* The same amounts have the same sum.                                     *)
LEMMA SumSame ==
    ASSUME NEW S, IsFiniteSet(S), NEW w, NEW v, \A x \in S : w[x] = v[x] /\ w[x] \in Int
    PROVE  Sum(w, S) = Sum(v, S)
<1>1. PICK g : Sums(g, w, S)
  BY SumsDefined
<1>2. PICK h : Sums(h, v, S)
  BY SumsDefined
<1>3. S \in SUBSET S
  OBVIOUS
<1>4. g[S] = h[S]
  BY <1>1, <1>2, <1>3, SumsAgree
<1>5. g[S] = Sum(w, S) /\ h[S] = Sum(v, S)
  BY <1>1, <1>2, <1>3, SumFound
<1> QED
  BY <1>4, <1>5

LEMMA SumOfNone == ASSUME NEW w PROVE Sum(w, {}) = 0
<1>1. IsFiniteSet({}) /\ \A x \in {} : w[x] \in Int
  BY FS_EmptySet
<1>2. PICK g : Sums(g, w, {})
  BY <1>1, SumsDefined
<1>3. g[{}] = Sum(w, {})
  BY <1>1, <1>2, SumFound
<1> QED
  BY <1>2, <1>3 DEF Sums

(* The element that goes first. *)
LEMMA SumPicked ==
    ASSUME NEW S, IsFiniteSet(S), NEW w, \A x \in S : w[x] \in Int, S # {}
    PROVE  \E x \in S : Sum(w, S) = w[x] + Sum(w, S \ {x})
<1>1. PICK g : Sums(g, w, S)
  BY SumsDefined
<1>2. PICK x \in S : x = CHOOSE y \in S : TRUE
  OBVIOUS
<1>3. g[S] = w[x] + g[S \ {x}]
  BY <1>1, <1>2 DEF Sums
<1>4. g[S] = Sum(w, S) /\ g[S \ {x}] = Sum(w, S \ {x})
  <2>1. S \in SUBSET S /\ S \ {x} \in SUBSET S
    OBVIOUS
  <2> QED
    BY <1>1, <2>1, SumFound
<1> QED
  BY <1>3, <1>4

(* Any element may be taken out. *)
LEMMA SumWithout ==
    ASSUME NEW S, IsFiniteSet(S), NEW w, \A x \in S : w[x] \in Int, NEW e \in S
    PROVE  Sum(w, S) = w[e] + Sum(w, S \ {e})
<1> DEFINE Out(s) == \A x \in s : Sum(w, s) = w[x] + Sum(w, s \ {x})
           N == {n \in Nat : \A s \in SUBSET S : Cardinality(s) = n => Out(s)}
<1>1. \A s \in SUBSET S : IsFiniteSet(s) /\ Cardinality(s) \in Nat
  BY FS_Subset, FS_CardinalityType
<1>2. 0 \in N
  BY <1>1, FS_EmptySet
<1>3. ASSUME NEW n \in Nat, n \in N, NEW s \in SUBSET S, Cardinality(s) = n + 1, NEW x \in s
      PROVE  Sum(w, s) = w[x] + Sum(w, s \ {x})
  <2>1. PICK p \in s : Sum(w, s) = w[p] + Sum(w, s \ {p})
    BY <1>1, SumPicked
  <2>2. CASE x = p
    BY <2>1, <2>2
  <2>3. CASE x # p
    <3>1. Cardinality(s) = n + 1
      BY <1>3
    <3>2. Cardinality(s \ {p}) = n /\ Cardinality(s \ {x}) = n
      <4> HIDE DEF N
      <4>1. Cardinality(s \ {p}) = Cardinality(s) - 1 /\ Cardinality(s \ {x}) = Cardinality(s) - 1
        BY <1>1, FS_RemoveElement
      <4> QED
        BY <3>1, <4>1
    <3>3. Out(s \ {p}) /\ Out(s \ {x})
      BY <1>3, <3>2
    <3>4. Sum(w, s \ {p}) = w[x] + Sum(w, (s \ {p}) \ {x})
      BY <2>3, <3>3
    <3>5. Sum(w, s \ {x}) = w[p] + Sum(w, (s \ {x}) \ {p})
      BY <2>3, <3>3
    <3>6. (s \ {p}) \ {x} = (s \ {x}) \ {p}
      OBVIOUS
    <3>7. Sum(w, (s \ {x}) \ {p}) \in Int /\ w[x] \in Int /\ w[p] \in Int
      <4>1. IsFiniteSet((s \ {x}) \ {p})
        BY <1>1
      <4> QED
        BY <4>1, SumType
    <3>8. Sum(w, (s \ {p}) \ {x}) = Sum(w, (s \ {x}) \ {p})
      BY <3>6, Zenon
    <3> HIDE DEF N, Out
    <3> QED
      BY <2>1, <3>4, <3>5, <3>7, <3>8
  <2> QED
    BY <2>2, <2>3
<1>4. \A n \in Nat : n \in N
  <2>1. ASSUME NEW n \in Nat, n \in N PROVE n + 1 \in N
    <3>1. \A s \in SUBSET S : Cardinality(s) = n + 1 => Out(s)
      BY <1>3, <2>1
    <3> QED
      BY <3>1
  <2> HIDE DEF N
  <2> QED
    BY <1>2, <2>1, AllNumbers
<1>5. Out(S)
  BY <1>1, <1>4
<1> QED
  BY <1>5

LEMMA SumWith ==
    ASSUME NEW S, IsFiniteSet(S), NEW w, NEW x, x \notin S, \A y \in S \cup {x} : w[y] \in Int
    PROVE  Sum(w, S \cup {x}) = w[x] + Sum(w, S)
<1>1. IsFiniteSet(S \cup {x})
  BY FS_AddElement
<1>2. (S \cup {x}) \ {x} = S /\ x \in S \cup {x}
  OBVIOUS
<1>3. Sum(w, S \cup {x}) = w[x] + Sum(w, (S \cup {x}) \ {x})
  BY <1>1, <1>2, SumWithout
<1> QED
  BY <1>2, <1>3

-----------------------------------------------------------------------------
(* Two parts that share nothing make up the whole. *)
LEMMA SumOfUnion ==
    ASSUME NEW A, IsFiniteSet(A), NEW B, IsFiniteSet(B), A \cap B = {},
           NEW w, \A x \in A \cup B : w[x] \in Int
    PROVE  Sum(w, A \cup B) = Sum(w, A) + Sum(w, B)
<1> DEFINE C == {T \in SUBSET B : Sum(w, A \cup T) = Sum(w, A) + Sum(w, T)}
<1>1. ASSUME NEW T \in SUBSET B, NEW x \in B, T \in C, x \notin T
      PROVE  T \cup {x} \in C
  <2>1. IsFiniteSet(T) /\ IsFiniteSet(A \cup T)
    BY FS_Subset, FS_Union
  <2>2. A \cup (T \cup {x}) = (A \cup T) \cup {x} /\ x \notin A \cup T
    BY <1>1
  <2>3. Sum(w, (A \cup T) \cup {x}) = w[x] + Sum(w, A \cup T)
    BY <2>1, <2>2, SumWith
  <2>4. Sum(w, T \cup {x}) = w[x] + Sum(w, T)
    BY <1>1, <2>1, SumWith
  <2>5. w[x] \in Int /\ Sum(w, A) \in Int /\ Sum(w, T) \in Int
    BY <2>1, SumType
  <2>6. Sum(w, A \cup T) = Sum(w, A) + Sum(w, T)
    BY <1>1
  <2>7. Sum(w, A \cup (T \cup {x})) = Sum(w, (A \cup T) \cup {x})
    BY <2>2, Zenon
  <2> QED
    BY <2>3, <2>4, <2>5, <2>6, <2>7
<1>2. {} \in C
  <2>1. Sum(w, A) \in Int /\ Sum(w, {}) = 0 /\ A \cup {} = A
    BY SumType, SumOfNone
  <2> QED
    BY <2>1
<1>3. B \in C
  <2> HIDE DEF C
  <2> QED
    BY <1>1, <1>2, AddedOneByOne
<1> QED
  BY <1>3

(* Larger amounts have a larger sum. *)
LEMMA SumGrows ==
    ASSUME NEW S, IsFiniteSet(S), NEW w, NEW v,
           \A x \in S : w[x] \in Int /\ v[x] \in Int /\ w[x] <= v[x]
    PROVE  Sum(w, S) <= Sum(v, S)
<1> DEFINE C == {T \in SUBSET S : Sum(w, T) <= Sum(v, T)}
<1>1. ASSUME NEW T \in SUBSET S, NEW x \in S, T \in C, x \notin T
      PROVE  T \cup {x} \in C
  <2>1. IsFiniteSet(T)
    BY FS_Subset
  <2>2. Sum(w, T \cup {x}) = w[x] + Sum(w, T) /\ Sum(v, T \cup {x}) = v[x] + Sum(v, T)
    BY <1>1, <2>1, SumWith
  <2>3. Sum(w, T) \in Int /\ Sum(v, T) \in Int
    BY <2>1, SumType
  <2>4. Sum(w, T) <= Sum(v, T)
    BY <1>1
  <2>5. w[x] \in Int /\ v[x] \in Int /\ w[x] <= v[x]
    OBVIOUS
  <2> QED
    BY <2>2, <2>3, <2>4, <2>5
<1>2. {} \in C
  BY SumOfNone
<1>3. S \in C
  <2> HIDE DEF C
  <2> QED
    BY <1>1, <1>2, AddedOneByOne
<1> QED
  BY <1>3

LEMMA SumOfZeros ==
    ASSUME NEW S, IsFiniteSet(S), NEW w, \A x \in S : w[x] = 0
    PROVE  Sum(w, S) = 0
<1> DEFINE C == {T \in SUBSET S : Sum(w, T) = 0}
<1>1. ASSUME NEW T \in SUBSET S, NEW x \in S, T \in C, x \notin T
      PROVE  T \cup {x} \in C
  <2>1. IsFiniteSet(T) /\ \A y \in T \cup {x} : w[y] \in Int
    BY FS_Subset
  <2>2. Sum(w, T \cup {x}) = w[x] + Sum(w, T)
    BY <1>1, <2>1, SumWith
  <2> QED
    BY <1>1, <2>2
<1>2. {} \in C
  BY SumOfNone
<1>3. S \in C
  <2> HIDE DEF C
  <2> QED
    BY <1>1, <1>2, AddedOneByOne
<1> QED
  BY <1>3

LEMMA SumOfNaturals ==
    ASSUME NEW S, IsFiniteSet(S), NEW w, \A x \in S : w[x] \in Nat
    PROVE  Sum(w, S) \in Nat /\ \A e \in S : w[e] <= Sum(w, S)
<1>1. PICK zero : zero = [x \in S |-> 0]
  OBVIOUS
<1>2. \A T \in SUBSET S : Sum(w, T) \in Nat
  <2> SUFFICES ASSUME NEW T \in SUBSET S PROVE Sum(w, T) \in Nat
    OBVIOUS
  <2>1. IsFiniteSet(T) /\ \A x \in T : w[x] \in Int /\ zero[x] \in Int /\ zero[x] <= w[x]
    BY <1>1, FS_Subset
  <2>2. Sum(zero, T) = 0
    <3>1. \A x \in T : zero[x] = 0
      BY <1>1
    <3> QED
      BY <2>1, <3>1, SumOfZeros
  <2>3. Sum(zero, T) <= Sum(w, T)
    BY <2>1, SumGrows
  <2>4. Sum(w, T) \in Int
    BY <2>1, SumType
  <2> QED
    BY <2>2, <2>3, <2>4
<1>3. ASSUME NEW e \in S PROVE w[e] <= Sum(w, S)
  <2>1. \A x \in S : w[x] \in Int
    OBVIOUS
  <2>2. Sum(w, S) = w[e] + Sum(w, S \ {e})
    BY <2>1, SumWithout
  <2>3. Sum(w, S \ {e}) \in Nat
    BY <1>2
  <2> QED
    BY <2>2, <2>3
<1> QED
  BY <1>2, <1>3

(* A part has at most the sum of the whole. *)
LEMMA SumOfPart ==
    ASSUME NEW S, IsFiniteSet(S), NEW w, \A x \in S : w[x] \in Nat, NEW A \in SUBSET S
    PROVE  Sum(w, A) <= Sum(w, S)
<1>1. IsFiniteSet(A) /\ IsFiniteSet(S \ A) /\ A \cap (S \ A) = {} /\ A \cup (S \ A) = S
  BY FS_Subset
<1>2. \A x \in A \cup (S \ A) : w[x] \in Int
  OBVIOUS
<1>3. Sum(w, A \cup (S \ A)) = Sum(w, A) + Sum(w, S \ A)
  BY <1>1, <1>2, SumOfUnion
<1>4. Sum(w, A \cup (S \ A)) = Sum(w, S)
  BY <1>1, Zenon
<1>5. Sum(w, A) \in Nat /\ Sum(w, S \ A) \in Nat
  BY <1>1, SumOfNaturals
<1> QED
  BY <1>3, <1>4, <1>5

(* Counting is adding ones. *)
LEMMA SumOfOnes ==
    ASSUME NEW S, IsFiniteSet(S), NEW w, \A x \in S : w[x] = 1
    PROVE  Sum(w, S) = Cardinality(S)
<1> DEFINE C == {T \in SUBSET S : Sum(w, T) = Cardinality(T)}
<1>1. ASSUME NEW T \in SUBSET S, NEW x \in S, T \in C, x \notin T
      PROVE  T \cup {x} \in C
  <2>1. IsFiniteSet(T) /\ \A y \in T \cup {x} : w[y] \in Int
    BY FS_Subset
  <2>2. Sum(w, T \cup {x}) = w[x] + Sum(w, T)
    BY <1>1, <2>1, SumWith
  <2>3. Cardinality(T \cup {x}) = Cardinality(T) + 1 /\ Cardinality(T) \in Nat
    BY <1>1, <2>1, FS_AddElement, FS_CardinalityType
  <2>4. w[x] = 1 /\ Sum(w, T) = Cardinality(T)
    BY <1>1
  <2> QED
    BY <2>2, <2>3, <2>4
<1>2. {} \in C
  BY SumOfNone, FS_EmptySet
<1>3. S \in C
  <2> HIDE DEF C
  <2> QED
    BY <1>1, <1>2, AddedOneByOne
<1> QED
  BY <1>3

(* The sums of groups make up the whole: key tells the group of an element,*)
(* total the sum of a group.                                               *)
LEMMA SumOfGroups ==
    ASSUME NEW S, IsFiniteSet(S), NEW w, \A x \in S : w[x] \in Int, NEW key,
           NEW L, IsFiniteSet(L), \A x \in S : key[x] \in L,
           NEW group, \A l \in L : group[l] = {x \in S : key[x] = l},
           NEW total, \A l \in L : total[l] = Sum(w, group[l])
    PROVE  Sum(total, L) = Sum(w, S)
<1> DEFINE In(T) == {x \in S : key[x] \in T}
           C == {T \in SUBSET L : Sum(total, T) = Sum(w, In(T))}
<1>0. \A l \in L : total[l] \in Int
  <2> SUFFICES ASSUME NEW l \in L PROVE total[l] \in Int
    OBVIOUS
  <2>1. IsFiniteSet(group[l]) /\ \A x \in group[l] : w[x] \in Int
    BY FS_Subset
  <2>2. Sum(w, group[l]) \in Int
    BY <2>1, SumType
  <2> QED
    BY <2>2
<1>1. ASSUME NEW T \in SUBSET L, NEW l \in L, T \in C, l \notin T
      PROVE  T \cup {l} \in C
  <2> DEFINE G == group[l]
  <2>1. IsFiniteSet(T) /\ IsFiniteSet(In(T)) /\ IsFiniteSet(G)
    BY FS_Subset
  <2>2. In(T \cup {l}) = In(T) \cup G /\ In(T) \cap G = {}
    BY <1>1
  <2>3. Sum(w, In(T) \cup G) = Sum(w, In(T)) + Sum(w, G)
    <3>1. \A x \in In(T) \cup G : w[x] \in Int
      OBVIOUS
    <3> HIDE DEF G, In
    <3> QED
      BY <2>1, <2>2, <3>1, SumOfUnion
  <2>4. Sum(total, T \cup {l}) = total[l] + Sum(total, T)
    <3>1. \A x \in T \cup {l} : total[x] \in Int
      BY <1>0
    <3> QED
      BY <1>1, <2>1, <3>1, SumWith
  <2>5. total[l] = Sum(w, G) /\ Sum(total, T) = Sum(w, In(T))
    BY <1>1
  <2>6. Sum(w, In(T \cup {l})) = Sum(w, In(T) \cup G)
    <3>1. In(T \cup {l}) = In(T) \cup G
      BY <2>2
    <3> HIDE DEF G, In
    <3> QED
      BY <3>1, Zenon
  <2>7. Sum(w, In(T)) \in Int /\ Sum(w, G) \in Int
    <3>1. (\A x \in In(T) : w[x] \in Int) /\ (\A x \in G : w[x] \in Int)
      OBVIOUS
    <3> HIDE DEF G, In
    <3> QED
      BY <2>1, <3>1, SumType
  <2>8. Sum(total, T \cup {l}) = Sum(w, In(T \cup {l}))
    <3> HIDE DEF G, In
    <3> QED
      BY <2>3, <2>4, <2>5, <2>6, <2>7
  <2> QED
    BY <2>8
<1>2. {} \in C
  <2>1. In({}) = {}
    OBVIOUS
  <2>2. Sum(total, {}) = 0 /\ Sum(w, {}) = 0
    BY SumOfNone
  <2>3. Sum(w, In({})) = Sum(w, {})
    <3> HIDE DEF In
    <3> QED
      BY <2>1, Zenon
  <2> QED
    BY <2>2, <2>3
<1>3. L \in C
  <2> HIDE DEF C
  <2> QED
    BY <1>1, <1>2, AddedOneByOne
<1>4. In(L) = S
  OBVIOUS
<1>5. Sum(w, In(L)) = Sum(w, S)
  <2> HIDE DEF In
  <2> QED
    BY <1>4, Zenon
<1> QED
  BY <1>3, <1>5

(* And so do their sizes. *)
LEMMA SizeOfGroups ==
    ASSUME NEW S, IsFiniteSet(S), NEW key, NEW L, IsFiniteSet(L), \A x \in S : key[x] \in L,
           NEW group, \A l \in L : group[l] = {x \in S : key[x] = l},
           NEW total, \A l \in L : total[l] = Cardinality(group[l])
    PROVE  Sum(total, L) = Cardinality(S)
<1>1. PICK w : w = [x \in S |-> 1]
  OBVIOUS
<1>2. \A x \in S : w[x] = 1 /\ w[x] \in Int
  BY <1>1
<1>3. ASSUME NEW l \in L PROVE total[l] = Sum(w, group[l])
  <2>1. IsFiniteSet(group[l]) /\ \A y \in group[l] : w[y] = 1
    BY <1>2, FS_Subset
  <2>2. Sum(w, group[l]) = Cardinality(group[l])
    BY <2>1, SumOfOnes
  <2> QED
    BY <2>2
<1>4. Sum(total, L) = Sum(w, S)
  <2>1. \A x \in S : w[x] \in Int
    BY <1>2
  <2>2. \A l \in L : total[l] = Sum(w, group[l])
    BY <1>3
  <2> QED
    BY <2>1, <2>2, SumOfGroups
<1>5. Sum(w, S) = Cardinality(S)
  BY <1>2, SumOfOnes
<1> QED
  BY <1>4, <1>5

-----------------------------------------------------------------------------
(* The first n of a finite set by amount: no element left out has more     *)
(* than one taken.                                                         *)
LEMMA LeadersExist ==
    ASSUME NEW D, IsFiniteSet(D), NEW v, \A x \in D : v[x] \in Nat, NEW n \in 0..Cardinality(D)
    PROVE  \E K \in SUBSET D : Cardinality(K) = n /\ \A l \in K, m \in D \ K : ~(v[m] > v[l])
<1> DEFINE Leads(K) == \A l \in K, m \in D \ K : ~(v[m] > v[l])
           N == {j \in Nat : j <= Cardinality(D) => \E K \in SUBSET D : Cardinality(K) = j /\ Leads(K)}
<1>1. 0 \in N
  BY FS_EmptySet
<1>2. ASSUME NEW j \in Nat, j \in N, j + 1 <= Cardinality(D)
      PROVE  \E K \in SUBSET D : Cardinality(K) = j + 1 /\ Leads(K)
  <2>1. Cardinality(D) \in Nat
    BY FS_CardinalityType
  <2>2. PICK K \in SUBSET D : Cardinality(K) = j /\ Leads(K)
    BY <1>2, <2>1
  <2> DEFINE values == {v[x] : x \in D \ K}
  <2>3. IsFiniteSet(K) /\ IsFiniteSet(D \ K)
    BY FS_Subset
  <2>4. D \ K # {}
    <3>1. CASE D \ K = {}
      <4>1. K = D
        BY <3>1
      <4> QED
        BY <1>2, <2>1, <2>2, <4>1
    <3> QED
      BY <3>1
  <2>5. IsFiniteSet(values) /\ values # {} /\ values \in SUBSET Nat
    <3>1. IsFiniteSet(values)
      BY <2>3, ImageIsFinite
    <3> QED
      BY <2>4, <3>1
  <2>6. PICK most \in values : \A a \in values : most >= a
    <3> HIDE DEF values
    <3> QED
      BY <2>5, GreatestNumber
  <2>7. PICK x \in D \ K : v[x] = most
    BY <2>6
  <2>8. Cardinality(K \cup {x}) = j + 1
    BY <2>2, <2>3, <2>7, FS_AddElement
  <2>9. Leads(K \cup {x})
    <3>1. ASSUME NEW l \in K \cup {x}, NEW m \in D \ (K \cup {x})
          PROVE  ~(v[m] > v[l])
      <4>1. CASE l \in K
        BY <2>2, <4>1
      <4>2. CASE l = x
        <5>1. v[m] \in values /\ v[m] \in Nat /\ v[x] \in Nat
          BY <2>7
        <5>2. v[x] >= v[m]
          BY <2>6, <2>7, <5>1
        <5> QED
          BY <4>2, <5>1, <5>2
      <4> QED
        BY <4>1, <4>2
    <3> QED
      BY <3>1
  <2> QED
    BY <2>7, <2>8, <2>9
<1>3. \A j \in Nat : j \in N
  <2>1. ASSUME NEW j \in Nat, j \in N PROVE j + 1 \in N
    BY <1>2, <2>1
  <2> HIDE DEF N
  <2> QED
    BY <1>1, <2>1, AllNumbers
<1>4. n \in Nat /\ n <= Cardinality(D)
  BY FS_CardinalityType
<1> QED
  BY <1>3, <1>4
-----------------------------------------------------------------------------
(* What a report computes: the sum of a function, the rows of groups, and  *)
(* the least and the greatest of days.                                     *)
LEMMA SumFunctionIs == ASSUME NEW w PROVE SumFunction(w) = Sum(w, DOMAIN w)
  BY DEF SumFunction, Sum

LEMMA SumOfRow ==
    ASSUME NEW S, IsFiniteSet(S), NEW v, DOMAIN v = S, NEW w,
           \A x \in S : v[x] = w[x] /\ w[x] \in Int
    PROVE  SumFunction(v) = Sum(w, S)
<1>1. SumFunction(v) = Sum(v, S)
  BY SumFunctionIs
<1>2. Sum(w, S) = Sum(v, S)
  BY SumSame
<1> QED
  BY <1>1, <1>2

(* The rows of the groups of S, group by group: their counts make up all   *)
(* of S ...                                                                *)
LEMMA RowsCountAll ==
    ASSUME NEW S, IsFiniteSet(S), NEW key, NEW L, IsFiniteSet(L), \A x \in S : key[x] \in L,
           NEW group, \A l \in L : group[l] = {x \in S : key[x] = l},
           NEW v, DOMAIN v = L, \A l \in L : v[l] = Cardinality(group[l])
    PROVE  SumFunction(v) = Cardinality(S)
<1>1. SumFunction(v) = Sum(v, L)
  BY SumFunctionIs
<1>2. Sum(v, L) = Cardinality(S)
  BY SizeOfGroups
<1> QED
  BY <1>1, <1>2

(* ... and their sums the sum of S.                                        *)
LEMMA RowsSumAll ==
    ASSUME NEW S, IsFiniteSet(S), NEW w, \A x \in S : w[x] \in Int, NEW key,
           NEW L, IsFiniteSet(L), \A x \in S : key[x] \in L,
           NEW group, \A l \in L : group[l] = {x \in S : key[x] = l},
           NEW v, DOMAIN v = L, \A l \in L : v[l] = Sum(w, group[l])
    PROVE  SumFunction(v) = Sum(w, S)
<1>1. SumFunction(v) = Sum(v, L)
  BY SumFunctionIs
<1>2. Sum(v, L) = Sum(w, S)
  BY SumOfGroups
<1> QED
  BY <1>1, <1>2

(* Rows that are kept of all have at most the sum of all.                  *)
LEMMA RowsSumKept ==
    ASSUME NEW S, IsFiniteSet(S), NEW w, \A x \in S : w[x] \in Nat, NEW key,
           NEW L, IsFiniteSet(L), NEW group, \A l \in L : group[l] = {x \in S : key[x] = l},
           NEW v, DOMAIN v = L, \A l \in L : v[l] = Sum(w, group[l])
    PROVE  SumFunction(v) <= Sum(w, S) /\ SumFunction(v) \in Nat
<1>1. PICK A \in SUBSET S : A = {x \in S : key[x] \in L}
  OBVIOUS
<1>2. IsFiniteSet(A) /\ (\A x \in A : w[x] \in Int /\ key[x] \in L)
  BY <1>1, FS_Subset
<1>3. \A l \in L : group[l] = {x \in A : key[x] = l}
  BY <1>1
<1>4. SumFunction(v) = Sum(w, A)
  BY <1>2, <1>3, RowsSumAll
<1>5. Sum(w, A) <= Sum(w, S)
  BY SumOfPart
<1>6. Sum(w, A) \in Nat
  BY <1>2, SumOfNaturals
<1> QED
  BY <1>4, <1>5, <1>6

LEMMA RowsCountKept ==
    ASSUME NEW S, IsFiniteSet(S), NEW key,
           NEW L, IsFiniteSet(L), NEW group, \A l \in L : group[l] = {x \in S : key[x] = l},
           NEW v, DOMAIN v = L, \A l \in L : v[l] = Cardinality(group[l])
    PROVE  SumFunction(v) <= Cardinality(S)
<1>1. PICK A \in SUBSET S : A = {x \in S : key[x] \in L}
  OBVIOUS
<1>2. IsFiniteSet(A) /\ Cardinality(A) <= Cardinality(S) /\ (\A x \in A : key[x] \in L)
  BY <1>1, FS_Subset
<1>3. \A l \in L : group[l] = {x \in A : key[x] = l}
  BY <1>1
<1>4. SumFunction(v) = Cardinality(A)
  BY <1>2, <1>3, RowsCountAll
<1> QED
  BY <1>2, <1>4

(* What is kept of rows up to a limit is all of them, if it is less.       *)
LEMMA KeptAll ==
    ASSUME NEW D, IsFiniteSet(D), NEW K \in SUBSET D, NEW n \in Nat,
           Cardinality(K) = Min({n, Cardinality(D)}), Cardinality(K) < n
    PROVE  K = D
<1>1. Cardinality(D) \in Nat
  BY FS_CardinalityType
<1>2. Min({n, Cardinality(D)}) \in {n, Cardinality(D)}
  <2>1. \E x \in {n, Cardinality(D)} : \A y \in {n, Cardinality(D)} : x =< y
    BY <1>1
  <2> QED
    BY <2>1 DEF Min
<1>3. Cardinality(K) = Cardinality(D)
  BY <1>1, <1>2
<1> QED
  BY <1>3, FS_Subset

LEMMA MinMaxOf ==
    ASSUME NEW S \in SUBSET Int, IsFiniteSet(S), S # {}
    PROVE  /\ Min(S) \in S /\ \A x \in S : Min(S) <= x
           /\ Max(S) \in S /\ \A x \in S : Max(S) >= x
<1> DEFINE Bounded(T) == /\ \E n \in T : \A m \in T : n =< m
                         /\ \E n \in T : \A m \in T : n >= m
           C == {T \in SUBSET S : T = {} \/ Bounded(T)}
<1>1. ASSUME NEW T \in SUBSET S, NEW x \in S, T \in C, x \notin T
      PROVE  T \cup {x} \in C
  <2>1. CASE T = {}
    <3>1. Bounded(T \cup {x})
      BY <2>1
    <3> QED
      BY <3>1
  <2>2. CASE T # {}
    <3>1. PICK a \in T : \A m \in T : a =< m
      BY <1>1, <2>2
    <3>2. PICK b \in T : \A m \in T : b >= m
      BY <1>1, <2>2
    <3>3. a \in Int /\ b \in Int /\ x \in Int /\ T \subseteq Int
      OBVIOUS
    <3>4. \E n \in T \cup {x} : \A m \in T \cup {x} : n =< m
      <4>1. CASE a =< x
        BY <3>1, <3>3, <4>1
      <4>2. CASE x =< a
        <5>1. \A m \in T \cup {x} : x =< m
          BY <3>1, <3>3, <4>2
        <5> QED
          BY <5>1
      <4> QED
        BY <3>3, <4>1, <4>2
    <3>5. \E n \in T \cup {x} : \A m \in T \cup {x} : n >= m
      <4>1. CASE b >= x
        BY <3>2, <3>3, <4>1
      <4>2. CASE x >= b
        <5>1. \A m \in T \cup {x} : x >= m
          BY <3>2, <3>3, <4>2
        <5> QED
          BY <5>1
      <4> QED
        BY <3>3, <4>1, <4>2
    <3> QED
      BY <3>4, <3>5
  <2> QED
    BY <2>1, <2>2
<1>2. {} \in C
  OBVIOUS
<1>3. S \in C
  <2>1. \A T \in SUBSET S, x \in S : T \in C /\ x \notin T => T \cup {x} \in C
    BY <1>1
  <2> HIDE DEF C
  <2> QED
    BY <1>2, <2>1, AddedOneByOne
<1>4. Bounded(S)
  BY <1>3
<1> QED
  BY <1>4 DEF Min, Max

LEMMA OfTwo ==
    ASSUME NEW a \in Int, NEW b \in Int
    PROVE  /\ Min({a, b}) = IF a <= b THEN a ELSE b
           /\ Max({a, b}) = IF a >= b THEN a ELSE b
<1>1. {a, b} \in SUBSET Int /\ IsFiniteSet({a, b}) /\ {a, b} # {}
  <2>1. IsFiniteSet({a} \cup {b}) /\ {a} \cup {b} = {a, b}
    BY FS_Singleton, FS_Union
  <2> QED
    BY <2>1
<1>2. /\ Min({a, b}) \in {a, b} /\ \A x \in {a, b} : Min({a, b}) <= x
      /\ Max({a, b}) \in {a, b} /\ \A x \in {a, b} : Max({a, b}) >= x
  BY <1>1, MinMaxOf
<1> QED
  BY <1>2

(* The images of more are more. *)
LEMMA ImageGrows ==
    ASSUME NEW B, IsFiniteSet(B), NEW A \in SUBSET B, NEW f
    PROVE  /\ IsFiniteSet({f[x] : x \in A}) /\ IsFiniteSet({f[x] : x \in B})
           /\ Cardinality({f[x] : x \in A}) \in Nat
           /\ Cardinality({f[x] : x \in A}) <= Cardinality({f[x] : x \in B})
<1> DEFINE P == {f[x] : x \in A}
           Q == {f[x] : x \in B}
<1>1. IsFiniteSet(Q)
  BY ImageIsFinite
<1>2. P \in SUBSET Q
  OBVIOUS
<1> HIDE DEF P, Q
<1>3. IsFiniteSet(P) /\ Cardinality(P) \in Nat /\ Cardinality(P) <= Cardinality(Q)
  BY <1>1, <1>2, FS_Subset, FS_CardinalityType
<1> QED
  BY <1>1, <1>3 DEF P, Q

(* A table of rows and columns, zero where D has no cell, has the sum of D.*)
LEMMA SumOfCells ==
    ASSUME NEW D, NEW N, IsFiniteSet(N), NEW W, IsFiniteSet(W), D \subseteq N \X W,
           NEW z, \A k \in D : z[k] \in Int,
           NEW rows, \A n \in N : DOMAIN rows[n] = W,
           \A n \in N : \A w \in W : rows[n][w] = IF <<n, w>> \in D THEN z[<<n, w>>] ELSE 0,
           NEW v, DOMAIN v = N, \A n \in N : v[n] = SumFunction(rows[n])
    PROVE  SumFunction(v) = Sum(z, D)
<1>1. PICK P, y, key, col : /\ P = N \X W
                            /\ y = [k \in P |-> IF k \in D THEN z[k] ELSE 0]
                            /\ key = [k \in P |-> k[1]] /\ col = [k \in P |-> k[2]]
  OBVIOUS
<1>2. IsFiniteSet(P)
  BY <1>1, FS_Product
<1>3. \A k \in P : y[k] \in Int /\ (k \in D => y[k] = z[k]) /\ (k \notin D => y[k] = 0)
  BY <1>1
<1>4. PICK group : group = [n \in N |-> {k \in P : key[k] = n}]
  OBVIOUS
<1>5. ASSUME NEW n \in N PROVE v[n] = Sum(y, group[n])
  <2>1. PICK G, cell : G = group[n] /\ cell = [w \in W |-> {k \in G : col[k] = w}]
    OBVIOUS
  <2>2. G \in SUBSET P /\ G = {k \in P : key[k] = n}
    BY <1>4, <2>1
  <2>3. IsFiniteSet(G)
    BY <1>2, <2>2, FS_Subset
  <2>4. ASSUME NEW w \in W PROVE rows[n][w] = Sum(y, cell[w])
    <3>1. PICK k : k = <<n, w>> /\ k \in P /\ key[k] = n /\ col[k] = w
      <4>1. <<n, w>> \in P
        BY <1>1
      <4>2. key[<<n, w>>] = n /\ col[<<n, w>>] = w
        BY <1>1, <4>1
      <4> QED
        BY <4>1, <4>2
    <3>2. \A j \in P : key[j] = n /\ col[j] = w => j = k
      BY <1>1, <3>1
    <3>3. k \notin {} /\ cell[w] = {} \cup {k} /\ \A j \in {} \cup {k} : y[j] \in Int
      BY <1>3, <2>1, <2>2, <3>1, <3>2
    <3>4. Sum(y, {} \cup {k}) = y[k] + Sum(y, {})
      <4>1. IsFiniteSet({})
        BY FS_EmptySet
      <4> QED
        BY <3>3, <4>1, SumWith
    <3>5. Sum(y, {}) = 0
      BY SumOfNone
    <3>6. y[k] \in Int /\ y[k] = rows[n][w]
      BY <1>3, <3>1
    <3> QED
      BY <3>3, <3>4, <3>5, <3>6
  <2>5. \A k \in G : col[k] \in W /\ y[k] \in Int
    BY <1>1, <1>3, <2>2
  <2>6. \A w \in W : cell[w] = {k \in G : col[k] = w}
    BY <2>1
  <2>7. SumFunction(rows[n]) = Sum(y, G)
    BY <2>3, <2>4, <2>5, <2>6, RowsSumAll
  <2> QED
    BY <2>1, <2>7
<1>6. SumFunction(v) = Sum(y, P)
  <2>1. \A k \in P : key[k] \in N /\ y[k] \in Int
    BY <1>1, <1>3
  <2>2. \A n \in N : group[n] = {k \in P : key[k] = n}
    BY <1>4
  <2> QED
    BY <1>2, <1>5, <2>1, <2>2, RowsSumAll
<1>7. PICK R : R = P \ D /\ D \cap R = {} /\ D \cup R = P
  <2>1. D \subseteq P
    BY <1>1
  <2>2. D \cap (P \ D) = {} /\ D \cup (P \ D) = P
    BY <2>1
  <2> QED
    BY <2>2
<1>8. IsFiniteSet(D) /\ IsFiniteSet(R)
  BY <1>1, <1>2, <1>7, FS_Subset
<1>9. Sum(y, D \cup R) = Sum(y, D) + Sum(y, R)
  <2>1. \A k \in D \cup R : y[k] \in Int
    BY <1>3, <1>7
  <2> QED
    BY <1>7, <1>8, <2>1, SumOfUnion
<1>10. Sum(y, R) = 0
  BY <1>3, <1>7, <1>8, SumOfZeros
<1>11. Sum(y, D) = Sum(z, D) /\ Sum(y, D) \in Int
  <2>1. \A k \in D : y[k] = z[k] /\ y[k] \in Int
    BY <1>1, <1>3
  <2> QED
    BY <1>8, <2>1, SumSame, SumType
<1>12. Sum(y, P) = Sum(y, D) + 0
  BY <1>7, <1>9, <1>10
<1> QED
  BY <1>6, <1>11, <1>12
=============================================================================
