----------------------------- MODULE DataLemmas -----------------------------
(* Lemmas about the data the models compute with, for any finite data:        *)
(* induction over finite sets and numbers, extrema, and sums.                 *)
(*                                                                           *)
(* The library states induction over a predicate, which a proof here cannot   *)
(* instantiate; these state it over the set of what has the property, and     *)
(* follow from the well-founded order of the finite subsets of a set.         *)
EXTENDS Integers, Sequences, FiniteSets, FiniteSetsExt, FiniteSetTheorems,
        WellFoundedInduction, Sorting, TLAPS

\* The subsets of a finite set are well-founded.
LEMMA SubsetsOrdered ==
    ASSUME NEW S, IsFiniteSet(S)
    PROVE  IsWellFoundedOn(StrictSubsetOrdering(S), SUBSET S)
  BY FS_StrictSubsetOrderingWellFounded, FS_FiniteSubsetsOfFinite

\* What holds of a set if it holds of its proper subsets holds of every finite set.
LEMMA SubsetInduction ==
    ASSUME NEW S, IsFiniteSet(S), NEW G,
           \A X \in SUBSET S : (\A Y \in SUBSET X : Y # X => Y \in G) => X \in G
    PROVE  SUBSET S \subseteq G
<1> SUFFICES ASSUME NEW Z \in SUBSET S, Z \notin G PROVE FALSE
  OBVIOUS
<1> DEFINE Bad == {X \in SUBSET S : X \notin G}
<1>1. IsWellFoundedOn(StrictSubsetOrdering(S), SUBSET S)
  BY SubsetsOrdered
<1>2. PICK X \in Bad : \A Y \in Bad : <<Y, X>> \notin StrictSubsetOrdering(S)
  <2>1. Bad \subseteq SUBSET S /\ Bad # {}
    OBVIOUS
  <2> HIDE DEF Bad
  <2> QED
    BY <1>1, <2>1, WFMin
<1>3. ASSUME NEW Y \in SUBSET X, Y # X PROVE Y \in G
  <2>1. <<Y, X>> \in StrictSubsetOrdering(S)
    BY <1>2, <1>3 DEF StrictSubsetOrdering
  <2> QED
    BY <1>2, <2>1
<1> QED
  BY <1>2, <1>3

\* What holds of the empty set and of a set with one element more holds of every
\* finite set.
LEMMA SetInduction ==
    ASSUME NEW S, IsFiniteSet(S), NEW G,
           {} \in G,
           \A X \in SUBSET S, x \in S : X \in G /\ x \notin X => X \cup {x} \in G
    PROVE  S \in G
<1>1. ASSUME NEW X \in SUBSET S, \A Y \in SUBSET X : Y # X => Y \in G PROVE X \in G
  <2>1. CASE X = {}
    BY <2>1
  <2>2. CASE X # {}
    <3>1. PICK x \in X : TRUE
      BY <2>2
    <3>2. X \ {x} \in G /\ (X \ {x}) \cup {x} = X /\ x \notin X \ {x}
      BY <1>1, <3>1
    <3> QED
      BY <3>1, <3>2
  <2> QED
    BY <2>1, <2>2
<1> QED
  BY <1>1, SubsetInduction

-----------------------------------------------------------------------------
(* Extrema. *)

\* A finite set of numbers has a largest and a smallest one.
LEMMA Extrema ==
    ASSUME NEW S \in SUBSET Int, IsFiniteSet(S), S # {}
    PROVE  /\ \E x \in S : \A y \in S : x >= y
           /\ \E x \in S : \A y \in S : x <= y
<1> DEFINE G == {X \in SUBSET S : X # {} => /\ \E x \in X : \A y \in X : x >= y
                                           /\ \E x \in X : \A y \in X : x <= y}
<1>1. {} \in G
  OBVIOUS
<1>2. ASSUME NEW X \in SUBSET S, NEW a \in S, X \in G, a \notin X PROVE X \cup {a} \in G
  <2>1. CASE X = {}
    BY <2>1
  <2>2. CASE X # {}
    <3>1. PICK u \in X : \A y \in X : u >= y
      BY <1>2, <2>2
    <3>2. PICK l \in X : \A y \in X : l <= y
      BY <1>2, <2>2
    <3>3. \E x \in X \cup {a} : \A y \in X \cup {a} : x >= y
      <4>1. CASE a >= u
        BY <3>1, <4>1
      <4>2. CASE ~ (a >= u)
        BY <3>1, <4>2
      <4> QED
        BY <4>1, <4>2
    <3>4. \E x \in X \cup {a} : \A y \in X \cup {a} : x <= y
      <4>1. CASE a <= l
        BY <3>2, <4>1
      <4>2. CASE ~ (a <= l)
        BY <3>2, <4>2
      <4> QED
        BY <4>1, <4>2
    <3> QED
      BY <3>3, <3>4
  <2> QED
    BY <2>1, <2>2
<1>3. S \in G
  <2> HIDE DEF G
  <2> QED
    BY <1>1, <1>2, SetInduction
<1> QED
  BY <1>3

\* Max and Min of the community modules.
LEMMA MaxIs ==
    ASSUME NEW S \in SUBSET Int, IsFiniteSet(S), S # {}
    PROVE  Max(S) \in S /\ \A y \in S : y <= Max(S)
<1>1. \E x \in S : \A y \in S : x >= y
  BY Extrema
<1>2. Max(S) \in S /\ \A y \in S : Max(S) >= y
  BY <1>1 DEF Max
<1> QED
  BY <1>2

\* The smallest of a finite set of numbers.
LEMMA MinIs ==
    ASSUME NEW S \in SUBSET Int, IsFiniteSet(S), S # {}
    PROVE  Min(S) \in S /\ \A y \in S : Min(S) <= y
<1>1. \E x \in S : \A y \in S : x <= y
  BY Extrema
<1> QED
  BY <1>1 DEF Min

\* What holds of zero and of the next number holds of every number.
LEMMA NumberInduction ==
    ASSUME NEW G, 0 \in G, \A n \in Nat : n \in G => n + 1 \in G
    PROVE  Nat \subseteq G
<1> SUFFICES ASSUME NEW n \in Nat, n \notin G PROVE FALSE
  OBVIOUS
<1> DEFINE Bad == {m \in 0..n : m \notin G}
<1>1. Bad \in SUBSET Int /\ Bad # {} /\ IsFiniteSet(Bad)
  <2>1. IsFiniteSet(0..n)
    BY FS_Interval
  <2> QED
    BY <2>1, FS_Subset
<1>2. PICK m \in Bad : \A k \in Bad : m <= k
  <2> HIDE DEF Bad
  <2> QED
    BY <1>1, Extrema
<1>3. m \in Nat \ {0} /\ m - 1 \in Nat /\ m - 1 \in 0..n
  BY <1>2
<1>4. m - 1 \in G
  BY <1>2, <1>3
<1>5. (m - 1) + 1 = m
  BY <1>3
<1> QED
  BY <1>2, <1>3, <1>4, <1>5

-----------------------------------------------------------------------------
(* Sums.  SumFunctionOnSet(w, S) is defined by a recursive function on the     *)

(* subsets of S; that there is one is what the first lemmas show.             *)

Adds(f, w, S) ==
    f = [s \in SUBSET S |-> IF s = {} THEN 0
                            ELSE LET x == CHOOSE x \in s : TRUE IN w[x] + f[s \ {x}]]

\* A sum is the value of the fold's recursion at the set summed over.
LEMMA SumIsChosen ==
    ASSUME NEW w, NEW S
    PROVE  SumFunctionOnSet(w, S) = (CHOOSE f : Adds(f, w, S))[S]
  BY DEF SumFunctionOnSet, FoldFunctionOnSet, MapThenFoldSet, Adds

\* What it says of one subset.
LEMMA AddsAt ==
    ASSUME NEW f, NEW w, NEW S, Adds(f, w, S)
    PROVE  /\ f[{}] = 0
           /\ \A s \in SUBSET S : s # {} =>
                 f[s] = w[CHOOSE x \in s : TRUE] + f[s \ {CHOOSE x \in s : TRUE}]
           /\ DOMAIN f = SUBSET S
<1> DEFINE body(s) == IF s = {} THEN 0
                      ELSE w[CHOOSE x \in s : TRUE] + f[s \ {CHOOSE x \in s : TRUE}]
<1>1. f = [s \in SUBSET S |-> body(s)]
  BY DEF Adds
<1> HIDE DEF body
<1>2. DOMAIN f = SUBSET S /\ \A s \in SUBSET S : f[s] = body(s)
  BY <1>1
<1> QED
  BY <1>2 DEF body

\* Two such functions agree where both are defined.
LEMMA AddsUnique ==
    ASSUME NEW w, NEW S, NEW T \in SUBSET S, IsFiniteSet(S),
           NEW f, NEW g, Adds(f, w, S), Adds(g, w, T)
    PROVE  \A s \in SUBSET T : f[s] = g[s]
<1> DEFINE G == {s \in SUBSET T : f[s] = g[s]}
<1>1. ASSUME NEW X \in SUBSET T, \A Y \in SUBSET X : Y # X => Y \in G PROVE X \in G
  <2>1. CASE X = {}
    BY <2>1, AddsAt
  <2>2. CASE X # {}
    <3> DEFINE c == CHOOSE x \in X : TRUE
    <3>1. c \in X
      BY <2>2
    <3> HIDE DEF c
    <3>2. f[X \ {c}] = g[X \ {c}]
      BY <1>1, <3>1
    <3>3. f[X] = w[c] + f[X \ {c}] /\ g[X] = w[c] + g[X \ {c}]
      BY <2>2, AddsAt DEF c
    <3> QED
      BY <3>2, <3>3
  <2> QED
    BY <2>1, <2>2
<1>2. IsFiniteSet(T)
  BY FS_Subset
<1> HIDE DEF G
<1>3. SUBSET T \subseteq G
  BY <1>1, <1>2, SubsetInduction
<1> QED
  BY <1>3 DEF G

\* There is one.
LEMMA AddsExists ==
    ASSUME NEW w, NEW S, IsFiniteSet(S)
    PROVE  \E f : Adds(f, w, S)
<1> DEFINE G == {X \in SUBSET S : \E f : Adds(f, w, X)}
<1>1. ASSUME NEW X \in SUBSET S, \A Y \in SUBSET X : Y # X => Y \in G PROVE X \in G
  <2> DEFINE of(Y) == CHOOSE f : Adds(f, w, Y)
             pick(s) == CHOOSE x \in s : TRUE
             val(s) == IF s = {} THEN 0 ELSE w[pick(s)] + of(s \ {pick(s)})[s \ {pick(s)}]
             g == [s \in SUBSET X |-> val(s)]
  <2>1. ASSUME NEW Y \in SUBSET X, Y # X PROVE Adds(of(Y), w, Y)
    BY <1>1, <2>1
  <2>2. ASSUME NEW s \in SUBSET X, s # {} PROVE pick(s) \in s
    BY <2>2
  <2>3. ASSUME NEW s \in SUBSET X, s # X PROVE of(s)[s] = val(s)
    <3>1. Adds(of(s), w, s)
      BY <2>1, <2>3
    <3>2. CASE s = {}
      <4>1. of(s)[{}] = 0
        <5> HIDE DEF of
        <5> QED
          BY <3>1, AddsAt
      <4> QED
        BY <3>2, <4>1
    <3>3. CASE s # {}
      <4> DEFINE r == s \ {pick(s)}
      <4>1. pick(s) \in s
        BY <3>3, <2>2
      <4>2. r \in SUBSET s /\ r \in SUBSET X /\ r # X
        BY <4>1
      <4>3. Adds(of(r), w, r)
        BY <4>2, <2>1
      <4>4. IsFiniteSet(s)
        BY FS_Subset
      <4>5. of(s)[r] = of(r)[r]
        <5> HIDE DEF of, r
        <5> QED
          BY <3>1, <4>2, <4>3, <4>4, AddsUnique
      <4>6. of(s)[s] = w[pick(s)] + of(s)[r]
        <5> HIDE DEF of
        <5> QED
          BY <3>1, <3>3, AddsAt
      <4> QED
        BY <3>3, <4>5, <4>6
    <3> QED
      BY <3>2, <3>3
  <2>4. ASSUME NEW s \in SUBSET X, s # {} PROVE g[s \ {pick(s)}] = of(s \ {pick(s)})[s \ {pick(s)}]
    <3> DEFINE r == s \ {pick(s)}
    <3>1. r \in SUBSET X /\ r # X
      BY <2>2, <2>4
    <3> HIDE DEF of, pick
    <3> QED
      BY <3>1, <2>3
  <2>5. \A s \in SUBSET X : val(s) = IF s = {} THEN 0 ELSE w[pick(s)] + g[s \ {pick(s)}]
    <3> HIDE DEF of, pick, g
    <3> QED
      BY <2>4
  <2>6. g = [s \in SUBSET X |-> IF s = {} THEN 0 ELSE w[pick(s)] + g[s \ {pick(s)}]]
    <3> DEFINE rhs == [s \in SUBSET X |-> IF s = {} THEN 0 ELSE w[pick(s)] + g[s \ {pick(s)}]]
    <3>1. g = [s \in SUBSET X |-> val(s)]
      OBVIOUS
    <3> HIDE DEF val, pick, g
    <3> QED
      BY <2>5, <3>1
  <2>7. Adds(g, w, X)
    BY <2>6 DEF Adds
  <2> QED
    BY <2>7
<1> HIDE DEF G
<1>2. SUBSET S \subseteq G
  BY <1>1, SubsetInduction
<1> QED
  BY <1>2 DEF G

\* So the sum is what it should be: of nothing 0, and of more what a chosen one has
\* and the sum of the others.
LEMMA SumUnfolds ==
    ASSUME NEW w, NEW S, IsFiniteSet(S)
    PROVE  /\ SumFunctionOnSet(w, {}) = 0
           /\ S # {} => SumFunctionOnSet(w, S) =
                 w[CHOOSE x \in S : TRUE] + SumFunctionOnSet(w, S \ {CHOOSE x \in S : TRUE})
<1> DEFINE of(Y) == CHOOSE f : Adds(f, w, Y)
           c == CHOOSE x \in S : TRUE
           r == S \ {c}
<1>1. ASSUME NEW Y, IsFiniteSet(Y) PROVE Adds(of(Y), w, Y) /\ SumFunctionOnSet(w, Y) = of(Y)[Y]
  BY <1>1, AddsExists, SumIsChosen
<1> HIDE DEF of
<1>2. SumFunctionOnSet(w, {}) = 0
  BY <1>1, FS_EmptySet, AddsAt
<1>3. CASE S # {}
  <2>1. IsFiniteSet(r) /\ r \in SUBSET S
    BY FS_Subset
  <2>2. of(S)[r] = of(r)[r]
    <3> HIDE DEF r
    <3> QED
      BY <1>1, <2>1, AddsUnique
  <2>3. of(S)[S] = w[c] + of(S)[r]
    BY <1>1, <1>3, AddsAt
  <2>4. SumFunctionOnSet(w, S) = w[c] + SumFunctionOnSet(w, r)
    <3> HIDE DEF c, r
    <3> QED
      BY <1>1, <2>1, <2>2, <2>3
  <2> QED
    BY <1>2, <2>4
<1> QED
  BY <1>2, <1>3

\* Nothing adds up to zero.
LEMMA SumEmpty == ASSUME NEW w PROVE SumFunctionOnSet(w, {}) = 0
  BY SumUnfolds, FS_EmptySet

\* It depends on the values summed only.
LEMMA SumExt ==
    ASSUME NEW S, IsFiniteSet(S), NEW w, NEW v, \A x \in S : w[x] = v[x]
    PROVE  SumFunctionOnSet(w, S) = SumFunctionOnSet(v, S)
<1> DEFINE G == {X \in SUBSET S : SumFunctionOnSet(w, X) = SumFunctionOnSet(v, X)}
<1>1. ASSUME NEW X \in SUBSET S, \A Y \in SUBSET X : Y # X => Y \in G PROVE X \in G
  <2>1. CASE X = {}
    BY <2>1, SumEmpty
  <2>2. CASE X # {}
    <3> DEFINE c == CHOOSE x \in X : TRUE
    <3>1. c \in X /\ IsFiniteSet(X)
      BY <2>2, FS_Subset
    <3>2. /\ SumFunctionOnSet(w, X) = w[c] + SumFunctionOnSet(w, X \ {c})
          /\ SumFunctionOnSet(v, X) = v[c] + SumFunctionOnSet(v, X \ {c})
      BY <2>2, <3>1, SumUnfolds
    <3> HIDE DEF c
    <3>3. SumFunctionOnSet(w, X \ {c}) = SumFunctionOnSet(v, X \ {c})
      BY <1>1, <3>1
    <3> QED
      BY <3>1, <3>2, <3>3
  <2> QED
    BY <2>1, <2>2
<1> HIDE DEF G
<1>2. SUBSET S \subseteq G
  BY <1>1, SubsetInduction
<1> QED
  BY <1>2 DEF G

\* Sums of numbers are numbers.
LEMMA SumInt ==
    ASSUME NEW S, IsFiniteSet(S), NEW w, \A x \in S : w[x] \in Int
    PROVE  SumFunctionOnSet(w, S) \in Int
<1> DEFINE G == {X \in SUBSET S : SumFunctionOnSet(w, X) \in Int}
<1>1. ASSUME NEW X \in SUBSET S, \A Y \in SUBSET X : Y # X => Y \in G PROVE X \in G
  <2>1. CASE X = {}
    BY <2>1, SumEmpty
  <2>2. CASE X # {}
    <3> DEFINE c == CHOOSE x \in X : TRUE
    <3>1. c \in X /\ IsFiniteSet(X)
      BY <2>2, FS_Subset
    <3>2. SumFunctionOnSet(w, X) = w[c] + SumFunctionOnSet(w, X \ {c})
      BY <2>2, <3>1, SumUnfolds
    <3> HIDE DEF c
    <3>3. SumFunctionOnSet(w, X \ {c}) \in Int
      BY <1>1, <3>1
    <3> QED
      BY <3>1, <3>2, <3>3
  <2> QED
    BY <2>1, <2>2
<1> HIDE DEF G
<1>2. SUBSET S \subseteq G
  BY <1>1, SubsetInduction
<1> QED
  BY <1>2 DEF G

\* Any element may be taken out of a sum.
LEMMA SumRemove ==
    ASSUME NEW S, IsFiniteSet(S), NEW w, \A x \in S : w[x] \in Int, NEW a \in S
    PROVE  SumFunctionOnSet(w, S) = w[a] + SumFunctionOnSet(w, S \ {a})
<1> DEFINE G == {X \in SUBSET S : \A x \in X :
                    SumFunctionOnSet(w, X) = w[x] + SumFunctionOnSet(w, X \ {x})}
<1>1. ASSUME NEW X \in SUBSET S, \A Y \in SUBSET X : Y # X => Y \in G, NEW x \in X
      PROVE  SumFunctionOnSet(w, X) = w[x] + SumFunctionOnSet(w, X \ {x})
  <2> DEFINE c == CHOOSE y \in X : TRUE
  <2>1. c \in X /\ IsFiniteSet(X)
    BY FS_Subset
  <2>2. SumFunctionOnSet(w, X) = w[c] + SumFunctionOnSet(w, X \ {c})
    BY <2>1, SumUnfolds
  <2> HIDE DEF c
  <2>3. CASE x = c
    BY <2>2, <2>3
  <2>4. CASE x # c
    <3>1. X \ {c} \in G /\ X \ {x} \in G
      BY <1>1, <2>1
    <3>2. SumFunctionOnSet(w, X \ {c}) = w[x] + SumFunctionOnSet(w, (X \ {c}) \ {x})
      BY <2>4, <3>1
    <3>3. SumFunctionOnSet(w, X \ {x}) = w[c] + SumFunctionOnSet(w, (X \ {x}) \ {c})
      BY <2>1, <2>4, <3>1
    <3> DEFINE rest == SumFunctionOnSet(w, (X \ {c}) \ {x})
    <3>4. SumFunctionOnSet(w, (X \ {x}) \ {c}) = rest
      <4>1. (X \ {x}) \ {c} = (X \ {c}) \ {x}
        OBVIOUS
      <4> QED
        BY <4>1
    <3>5. rest \in Int
      <4>1. IsFiniteSet((X \ {c}) \ {x}) /\ (X \ {c}) \ {x} \subseteq S
        BY <2>1, FS_Subset
      <4> QED
        BY <4>1, SumInt
    <3>6. w[x] \in Int /\ w[c] \in Int
      BY <2>1
    <3>7. SumFunctionOnSet(w, X) = w[c] + (w[x] + rest)
      BY <2>2, <3>2
    <3>8. SumFunctionOnSet(w, X \ {x}) = w[c] + rest
      BY <3>3, <3>4
    <3> HIDE DEF rest
    <3> QED
      BY <3>5, <3>6, <3>7, <3>8
  <2> QED
    BY <2>3, <2>4
<1>2. \A X \in SUBSET S : (\A Y \in SUBSET X : Y # X => Y \in G) => X \in G
  BY <1>1
<1> HIDE DEF G
<1>3. SUBSET S \subseteq G
  BY <1>2, SubsetInduction
<1> QED
  BY <1>3 DEF G

\* And put into one.
LEMMA SumAdd ==
    ASSUME NEW S, IsFiniteSet(S), NEW a, a \notin S, NEW w, \A x \in S \cup {a} : w[x] \in Int
    PROVE  SumFunctionOnSet(w, S \cup {a}) = SumFunctionOnSet(w, S) + w[a]
<1>1. IsFiniteSet(S \cup {a}) /\ (S \cup {a}) \ {a} = S
  BY FS_AddElement
<1>2. SumFunctionOnSet(w, S \cup {a}) = w[a] + SumFunctionOnSet(w, (S \cup {a}) \ {a})
  BY <1>1, SumRemove
<1>3. SumFunctionOnSet(w, S) \in Int /\ w[a] \in Int
  BY SumInt
<1>4. SumFunctionOnSet(w, S \cup {a}) = w[a] + SumFunctionOnSet(w, S)
  BY <1>1, <1>2
<1> QED
  BY <1>3, <1>4

\* One value adds up to itself.
LEMMA SumSingle == ASSUME NEW a, NEW w, w[a] \in Int PROVE SumFunctionOnSet(w, {a}) = w[a]
<1>1. SumFunctionOnSet(w, {} \cup {a}) = SumFunctionOnSet(w, {}) + w[a]
  BY SumAdd, FS_EmptySet
<1> QED
  BY <1>1, SumEmpty

\* Natural numbers add up to one.
LEMMA SumNat ==
    ASSUME NEW S, IsFiniteSet(S), NEW w, \A x \in S : w[x] \in Nat
    PROVE  SumFunctionOnSet(w, S) \in Nat
<1> DEFINE G == {X \in SUBSET S : SumFunctionOnSet(w, X) \in Nat}
<1>1. {} \in G
  BY SumEmpty
<1>2. ASSUME NEW X \in SUBSET S, NEW a \in S, X \in G, a \notin X PROVE X \cup {a} \in G
  <2>1. SumFunctionOnSet(w, X \cup {a}) = SumFunctionOnSet(w, X) + w[a]
    <3>1. IsFiniteSet(X) /\ \A x \in X \cup {a} : w[x] \in Int
      BY FS_Subset
    <3> QED
      BY <1>2, <3>1, SumAdd
  <2> QED
    BY <1>2, <2>1
<1> HIDE DEF G
<1>3. S \in G
  BY <1>1, <1>2, SetInduction
<1> QED
  BY <1>3 DEF G

\* Disjoint parts add up.
LEMMA SumUnion ==
    ASSUME NEW S, IsFiniteSet(S), NEW T, IsFiniteSet(T), S \cap T = {},
           NEW w, \A x \in S \cup T : w[x] \in Int
    PROVE  SumFunctionOnSet(w, S \cup T) = SumFunctionOnSet(w, S) + SumFunctionOnSet(w, T)
<1> DEFINE G == {X \in SUBSET T :
                    SumFunctionOnSet(w, S \cup X) = SumFunctionOnSet(w, S) + SumFunctionOnSet(w, X)}
<1>0. SumFunctionOnSet(w, S) \in Int
  BY SumInt
<1>1. {} \in G
  <2>1. S \cup {} = S
    OBVIOUS
  <2> QED
    BY <1>0, <2>1, SumEmpty
<1>2. ASSUME NEW X \in SUBSET T, NEW a \in T, X \in G, a \notin X PROVE X \cup {a} \in G
  <2>1. IsFiniteSet(X) /\ IsFiniteSet(S \cup X) /\ a \notin S \cup X
    BY <1>2, FS_Subset, FS_Union
  <2>2. SumFunctionOnSet(w, (S \cup X) \cup {a}) = SumFunctionOnSet(w, S \cup X) + w[a]
    BY <2>1, SumAdd
  <2>3. SumFunctionOnSet(w, X \cup {a}) = SumFunctionOnSet(w, X) + w[a]
    BY <1>2, <2>1, SumAdd
  <2>4. (S \cup X) \cup {a} = S \cup (X \cup {a})
    OBVIOUS
  <2>5. SumFunctionOnSet(w, X) \in Int /\ w[a] \in Int
    BY <2>1, SumInt
  <2>6. SumFunctionOnSet(w, S \cup (X \cup {a})) = SumFunctionOnSet(w, S \cup X) + w[a]
    BY <2>2, <2>4
  <2>7. SumFunctionOnSet(w, S \cup X) = SumFunctionOnSet(w, S) + SumFunctionOnSet(w, X)
    BY <1>2
  <2>8. X \cup {a} \in SUBSET T
    BY <1>2
  <2> QED
    BY <1>0, <2>3, <2>5, <2>6, <2>7, <2>8
<1> HIDE DEF G
<1>3. T \in G
  BY <1>1, <1>2, SetInduction
<1> QED
  BY <1>3 DEF G

\* More of what is not negative is not less.
LEMMA SumMono ==
    ASSUME NEW S, IsFiniteSet(S), NEW T \in SUBSET S, NEW w, \A x \in S : w[x] \in Nat
    PROVE  SumFunctionOnSet(w, T) <= SumFunctionOnSet(w, S)
<1>1. IsFiniteSet(T) /\ IsFiniteSet(S \ T) /\ T \cup (S \ T) = S
  BY FS_Subset
<1>2. SumFunctionOnSet(w, T \cup (S \ T)) = SumFunctionOnSet(w, T) + SumFunctionOnSet(w, S \ T)
  BY <1>1, SumUnion
<1>3. SumFunctionOnSet(w, T) \in Nat /\ SumFunctionOnSet(w, S \ T) \in Nat
  BY <1>1, SumNat
<1>4. SumFunctionOnSet(w, S) = SumFunctionOnSet(w, T) + SumFunctionOnSet(w, S \ T)
  BY <1>1, <1>2
<1> QED
  BY <1>3, <1>4

\* Larger terms have a larger sum.
LEMMA SumLe ==
    ASSUME NEW S, IsFiniteSet(S), NEW v, NEW w,
           \A x \in S : v[x] \in Int /\ w[x] \in Int /\ v[x] <= w[x]
    PROVE  SumFunctionOnSet(v, S) <= SumFunctionOnSet(w, S)
<1> DEFINE G == {X \in SUBSET S : SumFunctionOnSet(v, X) <= SumFunctionOnSet(w, X)}
<1>1. {} \in G
  BY SumEmpty
<1>2. ASSUME NEW X \in SUBSET S, NEW a \in S, X \in G, a \notin X PROVE X \cup {a} \in G
  <2>1. IsFiniteSet(X) /\ X \subseteq S
    BY FS_Subset
  <2>2. /\ SumFunctionOnSet(v, X \cup {a}) = SumFunctionOnSet(v, X) + v[a]
        /\ SumFunctionOnSet(w, X \cup {a}) = SumFunctionOnSet(w, X) + w[a]
    BY <1>2, <2>1, SumAdd
  <2>3. SumFunctionOnSet(v, X) \in Int /\ SumFunctionOnSet(w, X) \in Int
    BY <2>1, SumInt
  <2> QED
    BY <1>2, <2>2, <2>3
<1> HIDE DEF G
<1>3. S \in G
  BY <1>1, <1>2, SetInduction
<1> QED
  BY <1>3 DEF G

\* A factor may be taken out.
LEMMA SumTimes ==
    ASSUME NEW S, IsFiniteSet(S), NEW n \in Int, NEW v, NEW w,
           \A x \in S : w[x] \in Int /\ v[x] = n * w[x]
    PROVE  SumFunctionOnSet(v, S) = n * SumFunctionOnSet(w, S)
<1> DEFINE G == {X \in SUBSET S : SumFunctionOnSet(v, X) = n * SumFunctionOnSet(w, X)}
<1>1. {} \in G
  BY SumEmpty
<1>2. ASSUME NEW X \in SUBSET S, NEW a \in S, X \in G, a \notin X PROVE X \cup {a} \in G
  <2>1. IsFiniteSet(X) /\ X \subseteq S
    BY FS_Subset
  <2>2. \A x \in S : v[x] \in Int
    OBVIOUS
  <2>3. /\ SumFunctionOnSet(v, X \cup {a}) = SumFunctionOnSet(v, X) + v[a]
        /\ SumFunctionOnSet(w, X \cup {a}) = SumFunctionOnSet(w, X) + w[a]
    BY <1>2, <2>1, <2>2, SumAdd
  <2>4. SumFunctionOnSet(w, X) \in Int /\ w[a] \in Int /\ v[a] = n * w[a]
    BY <2>1, SumInt
  <2>5. n * (SumFunctionOnSet(w, X) + w[a]) = n * SumFunctionOnSet(w, X) + n * w[a]
    BY <2>4
  <2> QED
    BY <1>2, <2>3, <2>4, <2>5
<1> HIDE DEF G
<1>3. S \in G
  BY <1>1, <1>2, SetInduction
<1> QED
  BY <1>3 DEF G

\* One term changed changes the sum by as much.
LEMMA SumChange ==
    ASSUME NEW S, IsFiniteSet(S), NEW a \in S, NEW d \in Int, NEW v, NEW w,
           \A x \in S : v[x] \in Int /\ w[x] \in Int,
           w[a] = v[a] + d, \A x \in S \ {a} : w[x] = v[x]
    PROVE  SumFunctionOnSet(w, S) = SumFunctionOnSet(v, S) + d
<1>1. /\ SumFunctionOnSet(w, S) = w[a] + SumFunctionOnSet(w, S \ {a})
      /\ SumFunctionOnSet(v, S) = v[a] + SumFunctionOnSet(v, S \ {a})
  BY SumRemove
<1>2. IsFiniteSet(S \ {a})
  BY FS_Subset
<1>3. /\ SumFunctionOnSet(w, S \ {a}) = SumFunctionOnSet(v, S \ {a})
      /\ SumFunctionOnSet(v, S \ {a}) \in Int
  BY <1>2, SumExt, SumInt
<1> QED
  BY <1>1, <1>3

\* However a set is cut into parts, the sums of the parts add up to its sum.
LEMMA SumParts ==
    ASSUME NEW S, IsFiniteSet(S), NEW w, \A x \in S : w[x] \in Int,
           NEW P, IsFiniteSet(P), NEW part, \A x \in S : part[x] \in P
    PROVE  SumFunctionOnSet([p \in P |-> SumFunctionOnSet(w, {x \in S : part[x] = p})], P)
              = SumFunctionOnSet(w, S)
<1> DEFINE In(X, p) == {x \in X : part[x] = p}
           Of(X) == [p \in P |-> SumFunctionOnSet(w, In(X, p))]
           G == {X \in SUBSET S : SumFunctionOnSet(Of(X), P) = SumFunctionOnSet(w, X)}
<1>0. ASSUME NEW X \in SUBSET S, NEW p \in P
      PROVE  IsFiniteSet(X) /\ IsFiniteSet(In(X, p)) /\ Of(X)[p] \in Int
  <2>1. IsFiniteSet(X) /\ IsFiniteSet(In(X, p)) /\ \A x \in In(X, p) : w[x] \in Int
    BY FS_Subset
  <2> HIDE DEF In
  <2> QED
    BY <2>1, SumInt
<1>1. {} \in G
  <2>1. \A p \in P : Of({})[p] = 0 * Of({})[p]
    <3>1. \A p \in P : In({}, p) = {}
      OBVIOUS
    <3>2. \A p \in P : Of({})[p] = 0
      BY <3>1, SumEmpty
    <3> QED
      BY <3>2
  <2>2. \A p \in P : Of({})[p] \in Int
    BY <1>0
  <2>3. SumFunctionOnSet(Of({}), P) = 0 * SumFunctionOnSet(Of({}), P)
    <3> HIDE DEF Of
    <3> QED
      BY <2>1, <2>2, SumTimes
  <2>4. SumFunctionOnSet(Of({}), P) \in Int
    <3> HIDE DEF Of
    <3> QED
      BY <2>2, SumInt
  <2>5. SumFunctionOnSet(Of({}), P) = 0
    <3> HIDE DEF Of
    <3> QED
      BY <2>3, <2>4
  <2>6. SumFunctionOnSet(w, {}) = 0
    BY SumEmpty
  <2> HIDE DEF Of
  <2> QED
    BY <2>5, <2>6
<1>2. ASSUME NEW X \in SUBSET S, NEW a \in S, X \in G, a \notin X PROVE X \cup {a} \in G
  <2> DEFINE Y == X \cup {a}
  <2>1. part[a] \in P /\ Y \in SUBSET S /\ w[a] \in Int
    BY <1>2
  <2>2. In(Y, part[a]) = In(X, part[a]) \cup {a} /\ a \notin In(X, part[a])
    BY <1>2
  <2>3. \A p \in P \ {part[a]} : In(Y, p) = In(X, p)
    OBVIOUS
  <2>4. Of(Y)[part[a]] = Of(X)[part[a]] + w[a]
    <3>1. IsFiniteSet(In(X, part[a])) /\ \A x \in In(X, part[a]) \cup {a} : w[x] \in Int
      BY <1>0, <2>1
    <3>2. SumFunctionOnSet(w, In(X, part[a]) \cup {a}) = SumFunctionOnSet(w, In(X, part[a])) + w[a]
      <4> HIDE DEF In
      <4> QED
        BY <2>2, <3>1, SumAdd
    <3> HIDE DEF In, Y
    <3> QED
      BY <2>1, <2>2, <3>2
  <2>5. \A p \in P \ {part[a]} : Of(Y)[p] = Of(X)[p]
    <3> HIDE DEF In, Y
    <3> QED
      BY <2>3
  <2>6. \A p \in P : Of(X)[p] \in Int /\ Of(Y)[p] \in Int
    BY <1>0, <2>1
  <2>7. SumFunctionOnSet(Of(Y), P) = SumFunctionOnSet(Of(X), P) + w[a]
    <3> DEFINE v == Of(X)
               u == Of(Y)
    <3>1. /\ part[a] \in P /\ w[a] \in Int
          /\ \A p \in P : v[p] \in Int /\ u[p] \in Int
          /\ u[part[a]] = v[part[a]] + w[a]
          /\ \A p \in P \ {part[a]} : u[p] = v[p]
      BY <2>1, <2>4, <2>5, <2>6
    <3> HIDE DEF u, v
    <3>2. SumFunctionOnSet(u, P) = SumFunctionOnSet(v, P) + w[a]
      BY <3>1, SumChange
    <3> QED
      BY <3>2 DEF u, v
  <2>8. SumFunctionOnSet(w, Y) = SumFunctionOnSet(w, X) + w[a]
    BY <1>0, <1>2, <2>1, SumAdd
  <2>9. SumFunctionOnSet(Of(X), P) = SumFunctionOnSet(w, X)
    BY <1>2
  <2> HIDE DEF Of
  <2> QED
    BY <2>1, <2>7, <2>8, <2>9
<1>3. S \in G
  <2> HIDE DEF G
  <2> QED
    BY <1>1, <1>2, SetInduction
<1> QED
  BY <1>3

\* SumFunction of the community modules.
LEMMA SumOf == ASSUME NEW f PROVE SumFunction(f) = SumFunctionOnSet(f, DOMAIN f)
  BY DEF SumFunction, SumFunctionOnSet, FoldFunction, FoldFunctionOnSet

-----------------------------------------------------------------------------
(* Cardinalities. *)

\* A set has as many elements as the sum of a one for each.
LEMMA CardIsSum ==
    ASSUME NEW S, IsFiniteSet(S), NEW w, \A x \in S : w[x] = 1
    PROVE  Cardinality(S) = SumFunctionOnSet(w, S)
<1> DEFINE G == {X \in SUBSET S : Cardinality(X) = SumFunctionOnSet(w, X)}
<1>1. {} \in G
  BY SumEmpty, FS_EmptySet
<1>2. ASSUME NEW X \in SUBSET S, NEW a \in S, X \in G, a \notin X PROVE X \cup {a} \in G
  <2>1. IsFiniteSet(X)
    BY FS_Subset
  <2>2. Cardinality(X \cup {a}) = Cardinality(X) + 1
    BY <1>2, <2>1, FS_AddElement
  <2>3. SumFunctionOnSet(w, X \cup {a}) = SumFunctionOnSet(w, X) + w[a]
    <3>1. \A x \in X \cup {a} : w[x] \in Int
      OBVIOUS
    <3> QED
      BY <1>2, <2>1, <3>1, SumAdd
  <2> QED
    BY <1>2, <2>2, <2>3
<1> HIDE DEF G
<1>3. S \in G
  BY <1>1, <1>2, SetInduction
<1> QED
  BY <1>3 DEF G

\* However a set is cut into parts, the parts have as many elements as the set.
LEMMA CardParts ==
    ASSUME NEW S, IsFiniteSet(S),
           NEW P, IsFiniteSet(P), NEW part, \A x \in S : part[x] \in P
    PROVE  SumFunctionOnSet([p \in P |-> Cardinality({x \in S : part[x] = p})], P) = Cardinality(S)
<1> DEFINE w == [x \in S |-> 1]
           In(p) == {x \in S : part[x] = p}
           byCard == [p \in P |-> Cardinality(In(p))]
           bySum  == [p \in P |-> SumFunctionOnSet(w, In(p))]
<1>1. \A x \in S : w[x] = 1
  OBVIOUS
<1>2. ASSUME NEW p \in P PROVE byCard[p] = bySum[p]
  <2>1. IsFiniteSet(In(p)) /\ \A x \in In(p) : w[x] = 1
    BY FS_Subset
  <2> HIDE DEF w, In
  <2>2. Cardinality(In(p)) = SumFunctionOnSet(w, In(p))
    BY <2>1, CardIsSum
  <2> QED
    BY <2>2
<1>3. SumFunctionOnSet(bySum, P) = SumFunctionOnSet(w, S)
  <2> HIDE DEF w
  <2> QED
    BY <1>1, SumParts
<1>4. SumFunctionOnSet(byCard, P) = SumFunctionOnSet(bySum, P)
  <2> HIDE DEF byCard, bySum
  <2> QED
    BY <1>2, SumExt
<1>5. Cardinality(S) = SumFunctionOnSet(w, S)
  <2> HIDE DEF w
  <2> QED
    BY <1>1, CardIsSum
<1> HIDE DEF w
<1> QED
  BY <1>3, <1>4, <1>5

\* The image of a finite set is finite, and not larger.
LEMMA ImageIsFinite ==
    ASSUME NEW S, IsFiniteSet(S), NEW f
    PROVE  LET T == {f[x] : x \in S} IN IsFiniteSet(T) /\ Cardinality(T) <= Cardinality(S)
<1> DEFINE T == {f[x] : x \in S}
           g == [x \in S |-> f[x]]
<1>1. g \in Surjection(S, T)
  BY DEF Surjection
<1> HIDE DEF g, T
<1>2. IsFiniteSet(T) /\ Cardinality(T) <= Cardinality(S)
  BY <1>1, FS_Surjection
<1> QED
  BY <1>2 DEF T

\* What is in one of some sets is at most what is in each of them, added up.
LEMMA UnionIsFewer ==
    ASSUME NEW P, IsFiniteSet(P), NEW part, \A p \in P : IsFiniteSet(part[p]),
           NEW w, \A p \in P : w[p] = Cardinality(part[p]),
           NEW T, \A t \in T : \E p \in P : t \in part[p]
    PROVE  IsFiniteSet(T) /\ Cardinality(T) <= SumFunctionOnSet(w, P)
<1> DEFINE In(Q) == UNION {part[p] : p \in Q}
           G == {Q \in SUBSET P : IsFiniteSet(In(Q)) /\ Cardinality(In(Q)) <= SumFunctionOnSet(w, Q)}
<1>1. \A p \in P : w[p] \in Nat /\ w[p] \in Int /\ IsFiniteSet(part[p])
  BY FS_CardinalityType
<1>2. \A Q \in SUBSET P : IsFiniteSet(Q) /\ SumFunctionOnSet(w, Q) \in Int
  <2> SUFFICES ASSUME NEW Q \in SUBSET P PROVE IsFiniteSet(Q) /\ SumFunctionOnSet(w, Q) \in Int
    OBVIOUS
  <2>1. IsFiniteSet(Q)
    BY FS_Subset
  <2> QED
    BY <1>1, <2>1, SumInt
<1>3. {} \in G
  <2>1. In({}) = {}
    OBVIOUS
  <2> HIDE DEF In
  <2> QED
    BY <2>1, SumEmpty, FS_EmptySet
<1>4. ASSUME NEW Q \in SUBSET P, NEW q \in P, Q \in G, q \notin Q PROVE Q \cup {q} \in G
  <2>1. In(Q \cup {q}) = In(Q) \cup part[q]
    OBVIOUS
  <2>2. SumFunctionOnSet(w, Q \cup {q}) = SumFunctionOnSet(w, Q) + w[q]
    <3>1. IsFiniteSet(Q) /\ \A p \in Q \cup {q} : w[p] \in Int
      BY <1>1, <1>2
    <3> QED
      BY <1>4, <3>1, SumAdd
  <2>3. IsFiniteSet(In(Q)) /\ Cardinality(In(Q)) <= SumFunctionOnSet(w, Q)
    BY <1>4
  <2> HIDE DEF In
  <2>4. /\ IsFiniteSet(In(Q) \cup part[q])
        /\ Cardinality(In(Q) \cup part[q]) =
              Cardinality(In(Q)) + Cardinality(part[q]) - Cardinality(In(Q) \cap part[q])
        /\ IsFiniteSet(In(Q) \cap part[q])
    BY <1>1, <2>3, FS_Union, FS_Intersection
  <2>5. /\ Cardinality(In(Q) \cap part[q]) \in Nat /\ Cardinality(In(Q)) \in Nat
        /\ Cardinality(part[q]) \in Nat
    BY <1>1, <2>3, <2>4, FS_CardinalityType
  <2>6. Cardinality(In(Q \cup {q})) <= SumFunctionOnSet(w, Q \cup {q})
    <3>1. /\ SumFunctionOnSet(w, Q) \in Int /\ w[q] = Cardinality(part[q])
          /\ Cardinality(In(Q)) <= SumFunctionOnSet(w, Q)
      BY <1>2, <2>3
    <3>2. Cardinality(In(Q \cup {q})) = Cardinality(In(Q) \cup part[q])
      BY <2>1
    <3> QED
      BY <2>2, <2>4, <2>5, <3>1, <3>2
  <2> QED
    BY <2>1, <2>4, <2>6
<1>5. P \in G
  <2> HIDE DEF G
  <2> QED
    BY <1>3, <1>4, SetInduction
<1>6. T \subseteq In(P)
  OBVIOUS
<1>7. IsFiniteSet(In(P)) /\ Cardinality(In(P)) <= SumFunctionOnSet(w, P)
  BY <1>5
<1> HIDE DEF In, G
<1>8. IsFiniteSet(T) /\ Cardinality(T) <= Cardinality(In(P))
  BY <1>6, <1>7, FS_Subset
<1>9. Cardinality(T) \in Nat /\ Cardinality(In(P)) \in Nat
  BY <1>7, <1>8, FS_CardinalityType
<1> QED
  BY <1>2, <1>7, <1>8, <1>9

-----------------------------------------------------------------------------
(* Sorted sequences.  R is a set of pairs, <<x, y>> for x before y. *)

IsOrderOf(R, S) ==
    /\ \A x, y \in S : x # y => <<x, y>> \in R \/ <<y, x>> \in R
    /\ \A x, y, z \in S : <<x, y>> \in R /\ <<y, z>> \in R => <<x, z>> \in R

\* A finite set that is ordered has a last element.
LEMMA LastOne ==
    ASSUME NEW S, IsFiniteSet(S), S # {}, NEW R, IsOrderOf(R, S)
    PROVE  \E m \in S : \A x \in S : x # m => <<x, m>> \in R
<1> DEFINE IsLast(X, m) == m \in X /\ \A x \in X : x # m => <<x, m>> \in R
           G == {X \in SUBSET S : X # {} => \E m \in X : IsLast(X, m)}
<1>1. {} \in G
  OBVIOUS
<1>2. ASSUME NEW X \in SUBSET S, NEW a \in S, X \in G, a \notin X PROVE X \cup {a} \in G
  <2>1. CASE X = {}
    <3>1. IsLast(X \cup {a}, a)
      BY <2>1
    <3> QED
      BY <3>1
  <2>2. CASE X # {}
    <3>1. PICK m \in X : IsLast(X, m)
      BY <1>2, <2>2
    <3>2. CASE <<a, m>> \in R
      <4>1. IsLast(X \cup {a}, m)
        BY <3>1, <3>2
      <4> QED
        BY <4>1
    <3>3. CASE <<a, m>> \notin R
      <4>1. <<m, a>> \in R
        BY <1>2, <3>1, <3>3 DEF IsOrderOf
      <4>2. \A x \in X : <<x, a>> \in R
        BY <3>1, <4>1 DEF IsOrderOf
      <4>3. IsLast(X \cup {a}, a)
        BY <4>2
      <4> QED
        BY <4>3
    <3> QED
      BY <3>2, <3>3
  <2> QED
    BY <2>1, <2>2
<1>3. S \in G
  <2> HIDE DEF G
  <2> QED
    BY <1>1, <1>2, SetInduction
<1> QED
  BY <1>3

\* An enumeration of a finite set has each of its elements once.
LEMMA Enumeration ==
    ASSUME NEW S, IsFiniteSet(S), NEW s \in SetToSeqs(S)
    PROVE  /\ s \in Seq(S) /\ Len(s) = Cardinality(S) /\ Len(s) \in Nat
           /\ DOMAIN s = 1..Len(s)
           /\ \A i \in DOMAIN s : s[i] \in S
           /\ \A i, j \in DOMAIN s : s[i] = s[j] => i = j
           /\ \A x \in S : \E i \in DOMAIN s : s[i] = x
<1> DEFINE n == Cardinality(S)
           D == 1..n
<1>1. n \in Nat /\ IsFiniteSet(D) /\ Cardinality(D) = n
  BY FS_CardinalityType, FS_Interval
<1> HIDE DEF n
<1>2. s \in [D -> S] /\ \A i, j \in D : i # j => s[i] # s[j]
  BY DEF SetToSeqs, n
<1>3. s \in Injection(D, S)
  BY <1>2 DEF Injection, IsInjective
<1>4. s \in Surjection(D, S)
  BY <1>1, <1>3, FS_Injection DEF n
<1>5. \A x \in S : \E i \in D : s[i] = x
  BY <1>4 DEF Surjection
<1>6. DOMAIN s = 1..n /\ s \in Seq(S) /\ Len(s) = n
  BY <1>1, <1>2
<1> QED
  BY <1>1, <1>2, <1>5, <1>6 DEF n

\* A finite set that is ordered can be enumerated in its order.
LEMMA Sorted ==
    ASSUME NEW S, IsFiniteSet(S), NEW R, IsOrderOf(R, S)
    PROVE  \E s \in SetToSeqs(S) : \A i, j \in DOMAIN s : i < j => <<s[i], s[j]>> \in R
<1> DEFINE InOrder(s) == \A i, j \in DOMAIN s : i < j => <<s[i], s[j]>> \in R
           G == {X \in SUBSET S : \E s \in SetToSeqs(X) : InOrder(s)}
<1>1. ASSUME NEW X \in SUBSET S, \A Y \in SUBSET X : Y # X => Y \in G PROVE X \in G
  <2>1. CASE X = {}
    <3>1. Cardinality(X) = 0
      BY <2>1, FS_EmptySet
    <3> DEFINE s == [i \in 1..0 |-> 0]
    <3>2. s \in SetToSeqs(X) /\ InOrder(s)
      BY <3>1 DEF SetToSeqs
    <3> HIDE DEF s
    <3> QED
      BY <3>2
  <2>2. CASE X # {}
    <3>1. IsFiniteSet(X) /\ IsOrderOf(R, X)
      BY FS_Subset DEF IsOrderOf
    <3>2. PICK m \in X : \A x \in X : x # m => <<x, m>> \in R
      BY <2>2, <3>1, LastOne
    <3> DEFINE Y == X \ {m}
               n == Cardinality(Y)
    <3>3. Y \in G /\ IsFiniteSet(Y)
      BY <1>1, <3>1, FS_Subset
    <3>4. PICK s \in SetToSeqs(Y) : InOrder(s)
      BY <3>3
    <3>5. /\ n \in Nat /\ DOMAIN s = 1..n /\ \A i \in 1..n : s[i] \in Y
          /\ \A i, j \in 1..n : s[i] = s[j] => i = j
      <4> HIDE DEF Y
      <4>1. /\ Len(s) = n /\ Len(s) \in Nat /\ DOMAIN s = 1..Len(s)
            /\ \A i \in DOMAIN s : s[i] \in Y
            /\ \A i, j \in DOMAIN s : s[i] = s[j] => i = j
        BY <3>3, Enumeration
      <4> HIDE DEF n
      <4> QED
        BY <4>1
    <3>6. Cardinality(X) = n + 1
      <4>1. X = Y \cup {m} /\ m \notin Y
        OBVIOUS
      <4> HIDE DEF Y
      <4> QED
        BY <3>3, <4>1, FS_AddElement
    <3> HIDE DEF n
    <3> DEFINE t == [i \in 1..(n + 1) |-> IF i = n + 1 THEN m ELSE s[i]]
    <3>7. \A i \in 1..(n + 1) : i = n + 1 \/ i \in 1..n
      BY <3>5
    <3>8. t \in SetToSeqs(X)
      <4>1. t \in [1..(n + 1) -> X]
        BY <3>5, <3>7
      <4>2. \A i, j \in 1..(n + 1) : i # j => t[i] # t[j]
        BY <3>5, <3>7
      <4> HIDE DEF t, Y
      <4> QED
        BY <3>6, <4>1, <4>2 DEF SetToSeqs
    <3>9. InOrder(t)
      <4> SUFFICES ASSUME NEW i \in 1..(n + 1), NEW j \in 1..(n + 1), i < j
                   PROVE  <<t[i], t[j]>> \in R
        OBVIOUS
      <4>1. i \in 1..n /\ t[i] = s[i]
        BY <3>5
      <4>2. CASE j = n + 1
        BY <3>2, <3>5, <4>1, <4>2
      <4>3. CASE j # n + 1
        BY <3>4, <3>5, <3>7, <4>1, <4>3
      <4> QED
        BY <4>2, <4>3
    <3> HIDE DEF t
    <3> QED
      BY <3>8, <3>9
  <2> QED
    BY <2>1, <2>2
<1>2. SUBSET S \subseteq G
  <2> HIDE DEF G
  <2> QED
    BY <1>1, SubsetInduction
<1> QED
  BY <1>2

-----------------------------------------------------------------------------
(* Numbers. *)

\* Division.
LEMMA DivIs ==
    ASSUME NEW a \in Int, NEW d \in Nat \ {0}
    PROVE  /\ a \div d \in Int /\ a % d \in 0..(d - 1)
           /\ d * (a \div d) <= a /\ a < d * (a \div d) + d
           /\ a % d = a - d * (a \div d)
           /\ a \in Nat => a \div d \in Nat
  OBVIOUS

\* Rounded up, a part of b is at most b.
LEMMA CeilingIs ==
    ASSUME NEW n \in Nat, NEW d \in Nat \ {0}, NEW b \in Nat, n <= b * d
    PROVE  LET c == (n + d - 1) \div d
           IN  /\ c \in Nat /\ c <= b /\ (n = 0 => c = 0)
               /\ n % d = 0 /\ n < b * d => c + 1 <= b
<1> DEFINE c == (n + d - 1) \div d
<1>1. n + d - 1 \in Nat
  OBVIOUS
<1>2. c \in Nat /\ d * c <= n + d - 1 /\ n + d - 1 < d * c + d
  <2> DEFINE a == n + d - 1
  <2>1. a \in Nat
    OBVIOUS
  <2> HIDE DEF a
  <2>2. a \div d \in Nat /\ d * (a \div d) <= a /\ a < d * (a \div d) + d
    BY <2>1, DivIs
  <2> QED
    BY <2>2 DEF a
<1> HIDE DEF c
<1>3. c <= b
  <2> SUFFICES ASSUME b + 1 <= c PROVE FALSE
    BY <1>2
  <2>1. d * (b + 1) <= d * c
    BY <1>2
  <2>2. d * (b + 1) = b * d + d
    OBVIOUS
  <2>3. b * d \in Nat /\ d * c \in Nat
    BY <1>2
  <2> QED
    BY <1>2, <2>1, <2>2, <2>3
<1>4. ASSUME n = 0 PROVE c = 0
  <2> SUFFICES ASSUME 1 <= c PROVE FALSE
    BY <1>2
  <2>1. d * 1 <= d * c
    BY <1>2
  <2> QED
    BY <1>2, <1>4, <2>1
<1>5. ASSUME n % d = 0, n < b * d PROVE c + 1 <= b
  <2> DEFINE m == n \div d
  <2>1. m \in Nat /\ n = d * m
    BY <1>5, DivIs
  <2> HIDE DEF m
  <2>2. c <= m
    <3> SUFFICES ASSUME m + 1 <= c PROVE FALSE
      BY <1>2, <2>1
    <3>1. d * (m + 1) <= d * c /\ d * (m + 1) = d * m + d
      BY <1>2, <2>1
    <3>2. d * m \in Nat /\ d * c \in Nat
      BY <1>2, <2>1
    <3> QED
      BY <1>2, <2>1, <3>1, <3>2
  <2>3. m + 1 <= b
    <3> SUFFICES ASSUME b <= m PROVE FALSE
      BY <2>1
    <3>1. d * b <= d * m /\ d * b = b * d
      BY <2>1
    <3> QED
      BY <1>5, <2>1, <3>1
  <2> QED
    BY <1>2, <2>1, <2>2, <2>3
<1> QED
  BY <1>2, <1>3, <1>4, <1>5 DEF c

\* Half of a number of players.
LEMMA HalfIs ==
    ASSUME NEW n \in Nat \ {0}
    PROVE  LET m == n \div 2
           IN  /\ m \in Nat
               /\ n % 2 = 1 => n = 2 * m + 1 /\ m + 1 \in 1..n
               /\ n % 2 # 1 => n = 2 * m /\ m \in 1..n /\ m + 1 \in 1..n
<1> DEFINE m == n \div 2
<1>1. m \in Nat /\ n % 2 \in 0..1 /\ n % 2 = n - 2 * m
  BY DivIs
<1> HIDE DEF m
<1>2. n % 2 = 1 => n = 2 * m + 1 /\ m + 1 \in 1..n
  BY <1>1
<1>3. n % 2 # 1 => n = 2 * m /\ m \in 1..n /\ m + 1 \in 1..n
  BY <1>1
<1> QED
  BY <1>1, <1>2, <1>3 DEF m

\* Fractions over positive numbers are ordered.
LEMMA RatiosOrdered ==
    ASSUME NEW a \in Nat, NEW b \in Nat \ {0}, NEW c \in Nat, NEW d \in Nat \ {0},
           NEW e \in Nat, NEW f \in Nat \ {0}, c * b <= a * d, e * d <= c * f
    PROVE  e * b <= a * f
<1>1. (c * b) * f <= (a * d) * f
  OBVIOUS
<1>2. (e * d) * b <= (c * f) * b
  OBVIOUS
<1>3. (c * b) * f = (c * f) * b /\ (e * d) * b = d * (e * b) /\ (a * d) * f = d * (a * f)
  OBVIOUS
<1> DEFINE p == e * b
           q == a * f
<1>4. p \in Nat /\ q \in Nat
  OBVIOUS
<1>5. (c * f) * b \in Nat /\ d * p \in Nat /\ d * q \in Nat
  OBVIOUS
<1>6. d * p <= d * q
  BY <1>1, <1>2, <1>3, <1>5
<1> HIDE DEF p, q
<1>7. p <= q
  <2> SUFFICES ASSUME q + 1 <= p PROVE FALSE
    BY <1>4
  <2>1. d * (q + 1) <= d * p /\ d * (q + 1) = d * q + d
    BY <1>4
  <2>2. d * q \in Nat /\ d * p \in Nat
    BY <1>4
  <2> QED
    BY <1>6, <2>1, <2>2
<1> QED
  BY <1>7 DEF p, q

\* The extrema of two numbers.
LEMMA OfTwo ==
    ASSUME NEW a \in Int, NEW b \in Int
    PROVE  /\ Min({a, b}) = IF a <= b THEN a ELSE b
           /\ Max({a, b}) = IF a <= b THEN b ELSE a
  BY DEF Min, Max

\* The smallest instant.
LEMMA LeastNumber ==
    ASSUME NEW S \in SUBSET Nat, S # {}
    PROVE  Min(S) \in S /\ \A y \in S : Min(S) <= y
<1>1. PICK n \in S : TRUE
  OBVIOUS
<1> DEFINE T == {k \in S : k <= n}
<1>2. T \in SUBSET Int /\ T # {} /\ IsFiniteSet(T)
  <2>1. /\ n \in Nat /\ n \in T
        /\ \A k \in T : k \in 0..n
    BY <1>1
  <2>2. IsFiniteSet(0..n)
    BY FS_Interval
  <2> QED
    <3> HIDE DEF T
    <3>1. T \in SUBSET (0..n) /\ T # {}
      BY <2>1
    <3>2. T \in SUBSET Int
      BY <2>1, <3>1
    <3> QED
      BY <2>2, <3>1, <3>2, FS_Subset
<1>3. PICK m \in T : \A y \in T : m <= y
  <2> HIDE DEF T
  <2> QED
    BY <1>2, Extrema
<1>4. \E x \in S : \A y \in S : x <= y
  <2>1. \A y \in S : m <= y
    BY <1>3
  <2> QED
    BY <2>1
<1> QED
  BY <1>4 DEF Min

-----------------------------------------------------------------------------
(* More on parts, places and sequences. *)

\* What is zero outside T adds up to what it does in T.
LEMMA SumSupport ==
    ASSUME NEW S, IsFiniteSet(S), NEW T \in SUBSET S, NEW w, \A x \in S : w[x] \in Int,
           \A x \in S \ T : w[x] = 0
    PROVE  SumFunctionOnSet(w, T) = SumFunctionOnSet(w, S)
<1> DEFINE R == S \ T
           one == [x \in R |-> 1]
<1>1. IsFiniteSet(T) /\ IsFiniteSet(R) /\ T \cap R = {} /\ S = T \cup R
  BY FS_Subset
<1>2. \A x \in R : one[x] \in Int /\ w[x] = 0 * one[x]
  OBVIOUS
<1>3. SumFunctionOnSet(one, R) \in Int
  <2>1. \A x \in R : one[x] \in Int
    OBVIOUS
  <2> HIDE DEF one, R
  <2> QED
    BY <1>1, <2>1, SumInt
<1>4. SumFunctionOnSet(w, R) = 0
  <2> HIDE DEF one, R
  <2>1. SumFunctionOnSet(w, R) = 0 * SumFunctionOnSet(one, R)
    BY <1>1, <1>2, SumTimes
  <2> QED
    BY <1>3, <2>1
<1>5. SumFunctionOnSet(w, T) \in Int
  BY <1>1, SumInt
<1>6. SumFunctionOnSet(w, T \cup R) = SumFunctionOnSet(w, T) + SumFunctionOnSet(w, R)
  <2> HIDE DEF R
  <2> QED
    BY <1>1, SumUnion
<1> HIDE DEF R
<1> QED
  BY <1>1, <1>4, <1>5, <1>6

\* Cardinalities, points and badges of a set of check-ins, part by part.
LEMMA CountInParts ==
    ASSUME NEW S, IsFiniteSet(S), NEW P, IsFiniteSet(P), NEW part, \A k \in S : part[k] \in P
    PROVE  SumFunction([p \in P |-> Cardinality({k \in S : part[k] = p})]) = Cardinality(S)
<1> DEFINE w == [p \in P |-> Cardinality({k \in S : part[k] = p})]
<1>1. DOMAIN w = P
  OBVIOUS
<1>2. SumFunctionOnSet(w, P) = Cardinality(S)
  BY CardParts
<1> HIDE DEF w
<1>3. SumFunction(w) = SumFunctionOnSet(w, P)
  BY <1>1, SumOf
<1> QED
  BY <1>2, <1>3 DEF w

\* A set of places closed downwards is the places up to its size.
LEMMA FirstPlaces ==
    ASSUME NEW n \in Nat, NEW K \in SUBSET (1..n), \A i \in K, j \in 1..n : j < i => j \in K
    PROVE  /\ IsFiniteSet(K) /\ Cardinality(K) \in Nat
           /\ \A j \in 1..n : j \in K <=> j <= Cardinality(K)
<1>1. IsFiniteSet(K) /\ Cardinality(K) \in Nat
  <2>1. IsFiniteSet(1..n)
    BY FS_Interval
  <2> QED
    BY <2>1, FS_Subset, FS_CardinalityType
<1>2. ASSUME NEW j \in 1..n, j \in K PROVE j <= Cardinality(K)
  <2>1. 1..j \subseteq K
    BY <1>2
  <2>2. Cardinality(1..j) = j /\ IsFiniteSet(1..j)
    BY FS_Interval
  <2> QED
    BY <1>1, <2>1, <2>2, FS_Subset
<1>3. ASSUME NEW j \in 1..n, j \notin K PROVE Cardinality(K) < j
  <2>1. K \subseteq 1..(j - 1)
    <3> SUFFICES ASSUME NEW i \in K PROVE i \in 1..(j - 1)
      OBVIOUS
    <3> QED
      BY <1>3
  <2>2. Cardinality(1..(j - 1)) = j - 1 /\ IsFiniteSet(1..(j - 1))
    BY FS_Interval
  <2>3. Cardinality(K) <= j - 1
    BY <2>1, <2>2, FS_Subset
  <2> QED
    BY <1>1, <2>3
<1> QED
  BY <1>1, <1>2, <1>3

\* What is filtered out of rows that are told apart is what is in the set, once.
LEMMA FilteredIs ==
    ASSUME NEW S, NEW s \in Seq(S), \A i, j \in DOMAIN s : s[i] = s[j] => i = j, NEW T
    PROVE  LET f == Filtered(s, T)
           IN  /\ f \in Seq(S) /\ \A i, j \in DOMAIN f : f[i] = f[j] => i = j
               /\ Range(f) = Range(s) \cap T
<1> DEFINE K == {i \in DOMAIN s : s[i] \in T}
           Before(i, j) == i < j
           R == {p \in K \X K : Before(p[1], p[2])}
           kept == SortedBy(K, Before)
           f == Filtered(s, T)
<1>1. DOMAIN s = 1..Len(s) /\ Len(s) \in Nat
  OBVIOUS
<1>2. IsFiniteSet(K) /\ K \subseteq Nat
  <2>1. IsFiniteSet(1..Len(s))
    BY <1>1, FS_Interval
  <2>2. K \in SUBSET (1..Len(s))
    BY <1>1
  <2> HIDE DEF K
  <2>3. IsFiniteSet(K)
    BY <2>1, <2>2, FS_Subset
  <2> QED
    BY <2>2, <2>3
<1>3. \A x, y \in K : <<x, y>> \in R <=> x < y
  OBVIOUS
<1>4. kept = CHOOSE x \in SetToSeqs(K) : \A i, j \in DOMAIN x : i < j => x[i] < x[j]
  BY DEF SortedBy
<1>5. f = [k \in DOMAIN kept |-> s[kept[k]]]
  BY DEF Filtered
<1>6. \A i \in K : i \in DOMAIN s /\ s[i] \in T
  OBVIOUS
<1>7. \A i \in DOMAIN s : s[i] \in T => i \in K
  OBVIOUS
<1> HIDE DEF K, R, kept, f
<1>8. IsOrderOf(R, K)
  BY <1>2, <1>3 DEF IsOrderOf
<1>9. PICK o \in SetToSeqs(K) : \A i, j \in DOMAIN o : i < j => <<o[i], o[j]>> \in R
  BY <1>2, <1>8, Sorted
<1>10. \A i, j \in DOMAIN o : i < j => o[i] < o[j]
  <2>1. \A i \in DOMAIN o : o[i] \in K
    BY <1>2, Enumeration
  <2> QED
    BY <1>3, <1>9, <2>1
<1>11. kept \in SetToSeqs(K)
  BY <1>4, <1>9, <1>10
<1>12. /\ DOMAIN kept = 1..Len(kept) /\ Len(kept) \in Nat
       /\ \A i \in DOMAIN kept : kept[i] \in K
       /\ \A i, j \in DOMAIN kept : kept[i] = kept[j] => i = j
       /\ \A x \in K : \E i \in DOMAIN kept : kept[i] = x
  BY <1>2, <1>11, Enumeration
<1>13. DOMAIN f = DOMAIN kept /\ \A k \in DOMAIN kept : f[k] = s[kept[k]]
  BY <1>5
<1>14. f \in Seq(S)
  <2>1. f \in [1..Len(kept) -> S]
    <3>1. \A k \in 1..Len(kept) : s[kept[k]] \in S
      BY <1>6, <1>12
    <3> QED
      BY <1>5, <1>12, <3>1
  <2> QED
    BY <1>12, <2>1
<1>15. ASSUME NEW i \in DOMAIN f, NEW j \in DOMAIN f, f[i] = f[j] PROVE i = j
  <2>1. kept[i] \in DOMAIN s /\ kept[j] \in DOMAIN s /\ s[kept[i]] = s[kept[j]]
    BY <1>6, <1>12, <1>13, <1>15
  <2> QED
    BY <1>12, <1>13, <2>1
<1>16. Range(f) = Range(s) \cap T
  <2>1. ASSUME NEW x \in Range(f) PROVE x \in Range(s) \cap T
    <3>1. PICK k \in DOMAIN f : x = f[k]
      BY DEF Range
    <3>2. kept[k] \in DOMAIN s /\ x = s[kept[k]] /\ x \in T
      BY <1>6, <1>12, <1>13, <3>1
    <3> QED
      BY <3>2 DEF Range
  <2>2. ASSUME NEW x \in Range(s), x \in T PROVE x \in Range(f)
    <3>1. PICK i \in DOMAIN s : x = s[i]
      BY DEF Range
    <3>2. PICK k \in DOMAIN kept : kept[k] = i
      BY <1>7, <1>12, <2>2, <3>1
    <3>3. k \in DOMAIN f /\ f[k] = x
      BY <1>13, <3>1, <3>2
    <3> QED
      BY <3>3 DEF Range
  <2> QED
    BY <2>1, <2>2
<1> QED
  BY <1>14, <1>15, <1>16 DEF f

\* A sequence without repetition is as long as its range is large.
LEMMA RangeIsLong ==
    ASSUME NEW S, NEW s \in Seq(S), \A i, j \in DOMAIN s : s[i] = s[j] => i = j
    PROVE  IsFiniteSet(Range(s)) /\ Cardinality(Range(s)) = Len(s) /\ Len(s) \in Nat
<1>1. DOMAIN s = 1..Len(s) /\ Len(s) \in Nat
  OBVIOUS
<1>2. IsFiniteSet(1..Len(s)) /\ Cardinality(1..Len(s)) = Len(s)
  BY <1>1, FS_Interval
<1> DEFINE D == 1..Len(s)
           W == Range(s)
<1>3. s \in [D -> W] /\ \A x \in W : \E i \in D : s[i] = x
  BY <1>1 DEF Range
<1>4. s \in Bijection(D, W)
  BY <1>1, <1>3 DEF Bijection, Injection, Surjection, IsInjective
<1> HIDE DEF D, W
<1>5. ExistsBijection(D, W)
  BY <1>4 DEF ExistsBijection
<1>6. IsFiniteSet(D) /\ Cardinality(D) = Len(s)
  BY <1>2 DEF D
<1>7. IsFiniteSet(W) /\ Cardinality(W) = Cardinality(D)
  BY <1>5, <1>6, FS_Bijection
<1> QED
  BY <1>1, <1>6, <1>7 DEF W
=============================================================================
