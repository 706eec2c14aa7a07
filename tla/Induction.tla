------------------------------ MODULE Induction -----------------------------
(***************************************************************************)
(* Induction over data, and what the folds over + of the library compute.  *)
(* The induction theorems of the library take a predicate as a parameter,  *)
(* which the provers cannot instantiate.  Here a predicate is the set of   *)
(* the things that satisfy it, and induction over that set follows from    *)
(* the well-foundedness of the strict subsets of a finite set.             *)
(***************************************************************************)
EXTENDS Integers, SequencesExt, FiniteSetTheorems, SequenceTheorems, TLAPS

-----------------------------------------------------------------------------
(* Induction.                                                              *)

(* Of some finite sets one has none of the others below it.               *)
LEMMA MinimalFinite ==
  ASSUME NEW S, IsFiniteSet(S), NEW B, B \subseteq SUBSET S, B # {}
  PROVE  \E T \in B : \A U \in B : U \subseteq T => U = T
<1>1. B \subseteq FiniteSubsetsOf(S)
  BY FS_FiniteSubsetsOfFinite
<1>2. PICK T \in B : \A U \in B : ~(<<U, T>> \in StrictSubsetOrdering(S))
  BY <1>1, FS_StrictSubsetOrderingWellFounded, WFMin
<1> QED BY <1>2 DEF StrictSubsetOrdering

(* What is true of {}, and stays true when an element is added, is true of *)
(* every finite set.                                                       *)
LEMMA FiniteInduction ==
  ASSUME NEW S, IsFiniteSet(S), NEW G, {} \in G,
         \A T \in SUBSET S, x \in S : T \in G => T \cup {x} \in G
  PROVE  S \in G
<1> SUFFICES ASSUME S \notin G PROVE FALSE
  OBVIOUS
<1> DEFINE B == {T \in SUBSET S : T \notin G}
<1>0. B \subseteq SUBSET S /\ B # {}
  OBVIOUS
<1>1. PICK T \in B : \A U \in B : U \subseteq T => U = T
  <2> HIDE DEF B
  <2> QED BY <1>0, MinimalFinite
<1>2. PICK x \in T : TRUE
  BY <1>1
<1>3. T \ {x} \in G
  BY <1>1, <1>2
<1>4. T = (T \ {x}) \cup {x}
  BY <1>2
<1> QED BY <1>1, <1>2, <1>3, <1>4

(* What is true of 0, and of n + 1 if of n, is true of every number.       *)
LEMMA SetInduction ==
  ASSUME NEW S, 0 \in S, \A n \in Nat : n \in S => n + 1 \in S
  PROVE  Nat \subseteq S
<1> SUFFICES ASSUME NEW m \in Nat, m \notin S PROVE FALSE
  OBVIOUS
<1> DEFINE B == {0..k : k \in {j \in 0..m : j \notin S}}
<1>0. IsFiniteSet(0..m)
  BY FS_Interval
<1>1. /\ B \subseteq SUBSET (0..m)
      /\ B # {}
  OBVIOUS
<1>2. PICK T \in B : \A U \in B : U \subseteq T => U = T
  <2> DEFINE M == 0..m
  <2>1. IsFiniteSet(M) /\ B \subseteq SUBSET M /\ B # {}
    BY <1>0, <1>1
  <2> HIDE DEF B, M
  <2> QED BY <2>1, MinimalFinite
<1>3. PICK k \in 0..m : k \notin S /\ T = 0..k
  BY <1>2
<1>4. k # 0 /\ k - 1 \in 0..m /\ k - 1 \in Nat /\ (k - 1) + 1 = k
  BY <1>3
<1>5. k - 1 \notin S
  BY <1>3, <1>4
<1>6. 0..(k - 1) \in B
  BY <1>4, <1>5
<1>7. 0..(k - 1) \subseteq T
  BY <1>3
<1>8. k \in T /\ k \notin 0..(k-1)
  BY <1>3
<1> QED BY <1>2, <1>6, <1>7, <1>8

-----------------------------------------------------------------------------
(* Sums.  FoldFunctionOnSet is a recursive function on the subsets of a    *)
(* set: Iter, which is the only solution of IsIter.                        *)

SumOver(f, S) == FoldFunctionOnSet(+, 0, f, S)

Picked(s) == CHOOSE x \in s : TRUE

SumStep(f, g, s) == IF s = {} THEN 0 ELSE f[Picked(s)] + g[s \ {Picked(s)}]

IsIter(f, g, S) == g = [s \in SUBSET S |-> SumStep(f, g, s)]

Iter(f, S) == CHOOSE g : IsIter(f, g, S)

LEMMA SumIsIter == \A f, S : SumOver(f, S) = Iter(f, S)[S]
BY Zenon DEF SumOver, Iter, IsIter, SumStep, Picked, FoldFunctionOnSet, MapThenFoldSet

(* Solutions for two sets agree on the subsets of both.                    *)
LEMMA IterAgree ==
  ASSUME NEW f, NEW S, NEW T, NEW g, NEW h, IsIter(f, g, S), IsIter(f, h, T),
         NEW U \in SUBSET S, U \in SUBSET T, IsFiniteSet(U)
  PROVE  g[U] = h[U]
<1> DEFINE B == {V \in SUBSET U : g[V] # h[V]}
<1> SUFFICES ASSUME B # {} PROVE FALSE
  OBVIOUS
<1>1. PICK V \in B : \A W \in B : W \subseteq V => W = V
  <2>1. B \subseteq SUBSET U
    OBVIOUS
  <2> HIDE DEF B
  <2> QED BY <2>1, MinimalFinite
<1>2. V \in SUBSET S /\ V \in SUBSET T /\ g[V] # h[V]
  OBVIOUS
<1>3. g[V] = SumStep(f, g, V) /\ h[V] = SumStep(f, h, V)
  BY <1>2 DEF IsIter
<1>4. V # {}
  BY <1>2, <1>3 DEF SumStep
<1>5. Picked(V) \in V
  BY <1>4 DEF Picked
<1>6. g[V \ {Picked(V)}] = h[V \ {Picked(V)}]
  BY <1>1, <1>5
<1> QED BY <1>2, <1>3, <1>6 DEF SumStep

LEMMA IterExists ==
  ASSUME NEW f, NEW S, IsFiniteSet(S)
  PROVE  IsIter(f, Iter(f, S), S)
<1> DEFINE B == {T \in SUBSET S : ~IsIter(f, Iter(f, T), T)}
<1> SUFFICES ASSUME B # {} PROVE FALSE
  OBVIOUS
<1>1. PICK T \in B : \A U \in B : U \subseteq T => U = T
  <2>1. B \subseteq SUBSET S
    OBVIOUS
  <2> HIDE DEF B
  <2> QED BY <2>1, MinimalFinite
<1> DEFINE Less(s) == s \ {Picked(s)}
           Value(s) == Iter(f, s)[s]
           g == [s \in SUBSET T |->
                   IF s = {} THEN 0 ELSE f[Picked(s)] + Value(Less(s))]
<1>2. ASSUME NEW s \in SUBSET T, s # {}
      PROVE  /\ Less(s) \in SUBSET T /\ Less(s) # T /\ IsFiniteSet(Less(s))
             /\ IsIter(f, Iter(f, Less(s)), Less(s))
  <2>1. Picked(s) \in s
    BY <1>2 DEF Picked
  <2>2. Less(s) \in SUBSET T /\ Less(s) # T /\ Less(s) \in SUBSET S
    BY <2>1
  <2>3. Less(s) \notin B
    BY <1>1, <2>2
  <2> QED BY <2>2, <2>3, FS_Subset
<1>3. ASSUME NEW s \in SUBSET T, s # {}
      PROVE  g[Less(s)] = Value(Less(s))
  <2> DEFINE u == Less(s)
  <2>1. /\ u \in SUBSET T /\ IsFiniteSet(u)
        /\ IsIter(f, Iter(f, u), u)
    BY <1>2, <1>3
  <2> SUFFICES g[u] = Value(u)
    OBVIOUS
  <2> HIDE DEF u
  <2>2. Value(u) = SumStep(f, Iter(f, u), u)
    BY <2>1 DEF IsIter
  <2>5. g[u] = IF u = {} THEN 0 ELSE f[Picked(u)] + Value(Less(u))
    BY <2>1
  <2> HIDE DEF g
  <2>3. CASE u = {}
    BY <2>2, <2>3, <2>5 DEF SumStep
  <2>4. CASE u # {}
    <3>1. /\ Less(u) \in SUBSET T /\ IsFiniteSet(Less(u))
          /\ IsIter(f, Iter(f, Less(u)), Less(u))
      BY <1>2, <2>1, <2>4
    <3>2. Iter(f, u)[Less(u)] = Value(Less(u))
      <4>1. Less(u) \subseteq u
        OBVIOUS
      <4> QED BY <2>1, <3>1, <4>1, IterAgree
    <3> QED BY <2>2, <2>4, <2>5, <3>2 DEF SumStep
  <2> QED BY <2>3, <2>4
<1>4. IsIter(f, g, T)
  <2>1. \A s \in SUBSET T : g[s] = SumStep(f, g, s)
    <3> TAKE s \in SUBSET T
    <3>1. CASE s = {}
      BY <3>1 DEF SumStep
    <3>2. CASE s # {}
      <4>1. g[s] = f[Picked(s)] + Value(Less(s))
        BY <3>2
      <4> HIDE DEF g
      <4> QED BY <1>3, <3>2, <4>1 DEF SumStep
    <3> QED BY <3>1, <3>2
  <2>2. g = [s \in SUBSET T |-> g[s]]
    OBVIOUS
  <2> HIDE DEF g
  <2> QED BY <2>1, <2>2 DEF IsIter
<1>5. IsIter(f, Iter(f, T), T)
  <2> HIDE DEF g
  <2> QED BY <1>4 DEF Iter
<1> QED BY <1>1, <1>5

(* A sum is 0 or an element's value and the sum of the rest.               *)
LEMMA SumDef ==
  ASSUME NEW f, NEW S, IsFiniteSet(S)
  PROVE  SumOver(f, S) = IF S = {} THEN 0
                     ELSE f[Picked(S)] + SumOver(f, S \ {Picked(S)})
<1>1. IsIter(f, Iter(f, S), S)
  BY IterExists
<1>2. Iter(f, S)[S] = SumStep(f, Iter(f, S), S)
  BY <1>1 DEF IsIter
<1>3. CASE S = {}
  BY <1>2, <1>3, SumIsIter DEF SumStep
<1>4. CASE S # {}
  <2> DEFINE u == S \ {Picked(S)}
  <2>1. u \subseteq S /\ IsFiniteSet(u)
    BY FS_Subset
  <2> HIDE DEF u
  <2>2. Iter(f, S)[u] = Iter(f, u)[u]
    <3>1. IsIter(f, Iter(f, u), u)
      BY <2>1, IterExists
    <3>2. u \subseteq u
      OBVIOUS
    <3> DEFINE g == Iter(f, S)
               h == Iter(f, u)
    <3>3. /\ IsIter(f, g, S) /\ IsIter(f, h, u) /\ u \in SUBSET S /\ u \in SUBSET u
          /\ IsFiniteSet(u)
      BY <1>1, <2>1, <3>1, <3>2
    <3> HIDE DEF g, h
    <3>4. g[u] = h[u]
      BY <3>3, IterAgree
    <3> QED BY <3>4 DEF g, h
  <2>3. SumOver(f, S) = f[Picked(S)] + SumOver(f, u)
    BY <1>2, <1>4, <2>2, SumIsIter DEF SumStep, u
  <2> QED BY <1>4, <2>3 DEF u
<1> QED BY <1>3, <1>4

LEMMA SumEmpty == \A f : SumOver(f, {}) = 0
BY SumDef, FS_EmptySet

(* Any element may be taken first.                                         *)
LEMMA SumRemove ==
  ASSUME NEW S, IsFiniteSet(S), NEW f, \A x \in S : f[x] \in Nat, NEW x \in S
  PROVE  /\ SumOver(f, S) \in Nat
         /\ SumOver(f, S \ {x}) \in Nat
         /\ SumOver(f, S) = f[x] + SumOver(f, S \ {x})
<1> DEFINE Good(T) == /\ SumOver(f, T) \in Nat
                      /\ \A y \in T : SumOver(f, T) = f[y] + SumOver(f, T \ {y})
           B == {T \in SUBSET S : ~Good(T)}
<1>1. \A T \in SUBSET S : Good(T)
  <2> SUFFICES ASSUME B # {} PROVE FALSE
    OBVIOUS
  <2>1. PICK T \in B : \A U \in B : U \subseteq T => U = T
    <3>1. B \subseteq SUBSET S
      OBVIOUS
    <3> HIDE DEF B
    <3> QED BY <3>1, MinimalFinite
  <2> DEFINE p == Picked(T)
  <2>2. T \subseteq S /\ IsFiniteSet(T)
    BY FS_Subset
  <2>3. T # {}
    <3>1. Good({})
      BY SumEmpty
    <3> HIDE DEF Good
    <3> QED BY <3>1
  <2>4. p \in T
    BY <2>3 DEF Picked
  <2>5. \A y \in T : Good(T \ {y})
    <3> HIDE DEF Good
    <3> QED BY <2>1, <2>2
  <2>6. SumOver(f, T) = f[p] + SumOver(f, T \ {p})
    BY <2>2, <2>3, SumDef
  <2> HIDE DEF p
  <2>7. SumOver(f, T) \in Nat
    BY <2>2, <2>4, <2>5, <2>6
  <2>8. ASSUME NEW y \in T, y # p PROVE SumOver(f, T) = f[y] + SumOver(f, T \ {y})
    <3> DEFINE r == (T \ {p}) \ {y}
    <3>1. SumOver(f, T \ {p}) = f[y] + SumOver(f, r)
      BY <2>4, <2>5, <2>8
    <3>2. SumOver(f, T \ {y}) = f[p] + SumOver(f, r)
      <4>1. r = (T \ {y}) \ {p}
        OBVIOUS
      <4> HIDE DEF r
      <4> QED BY <2>4, <2>5, <2>8, <4>1
    <3>3. SumOver(f, r) \in Nat
      <4>1. r = (T \ {p}) \ {y} /\ r \subseteq T /\ r # T
        BY <2>4
      <4>2. r \in SUBSET S /\ r \notin B
        BY <4>1, <2>1, <2>2
      <4> QED BY <4>2
    <3>4. f[p] \in Nat /\ f[y] \in Nat
      BY <2>2, <2>4
    <3> HIDE DEF r
    <3> QED BY <2>6, <3>1, <3>2, <3>3, <3>4
  <2>9. Good(T)
    BY <2>6, <2>7, <2>8
  <2> QED BY <2>1, <2>9
<1>2. S \in SUBSET S /\ S \ {x} \in SUBSET S
  OBVIOUS
<1> QED BY <1>1, <1>2

LEMMA SumNat ==
  ASSUME NEW S, IsFiniteSet(S), NEW f, \A x \in S : f[x] \in Nat
  PROVE  SumOver(f, S) \in Nat
<1>1. CASE S = {}
  BY <1>1, SumEmpty
<1>2. CASE S # {}
  <2> PICK x \in S : TRUE
    BY <1>2
  <2> QED BY SumRemove
<1> QED BY <1>1, <1>2

LEMMA SumAdd ==
  ASSUME NEW S, IsFiniteSet(S), NEW f, NEW x, x \notin S,
         \A y \in S \cup {x} : f[y] \in Nat
  PROVE  SumOver(f, S \cup {x}) = f[x] + SumOver(f, S)
<1> DEFINE T == S \cup {x}
<1>1. IsFiniteSet(T) /\ x \in T /\ T \ {x} = S /\ \A y \in T : f[y] \in Nat
  BY FS_AddElement
<1>2. SumOver(f, T) = f[x] + SumOver(f, T \ {x})
  <2> HIDE DEF T
  <2> QED BY <1>1, SumRemove
<1> QED BY <1>1, <1>2

(* g has at h[x] what f has at x, for distinct places h[x].                *)
RenamedBy(f, g, h, S) ==
  /\ \A x \in S : f[x] \in Nat /\ g[h[x]] = f[x]
  /\ \A x, y \in S : h[x] = h[y] => x = y

ImageOf(h, S) == {h[x] : x \in S}

(* Sums of the same values, renamed by a bijection, are the same.          *)
LEMMA SumRenamed ==
  ASSUME NEW S, IsFiniteSet(S), NEW f, NEW g, NEW h, RenamedBy(f, g, h, S)
  PROVE  SumOver(g, ImageOf(h, S)) = SumOver(f, S)
<1> USE DEF RenamedBy
<1> DEFINE Image(T) == {h[x] : x \in T}
           G == {T \in SUBSET S : IsFiniteSet(Image(T)) /\ SumOver(g, Image(T)) = SumOver(f, T)}
<1>1. {} \in G
  BY FS_EmptySet, SumEmpty
<1>2. ASSUME NEW T \in SUBSET S, NEW x \in S, T \in G PROVE T \cup {x} \in G
  <2>1. CASE x \in T
    <3>1. T \cup {x} = T
      BY <2>1
    <3> HIDE DEF G
    <3> QED BY <1>2, <3>1
  <2>2. CASE x \notin T
    <3>1. Image(T \cup {x}) = Image(T) \cup {h[x]} /\ h[x] \notin Image(T)
      BY <2>2
    <3>2. \A y \in Image(T) \cup {h[x]} : g[y] \in Nat
      OBVIOUS
    <3>3. IsFiniteSet(Image(T)) /\ IsFiniteSet(T) /\ SumOver(g, Image(T)) = SumOver(f, T)
      BY <1>2, FS_Subset
    <3>4. SumOver(f, T \cup {x}) = f[x] + SumOver(f, T)
      BY <2>2, <3>3, SumAdd
    <3>5. /\ SumOver(g, Image(T \cup {x})) = g[h[x]] + SumOver(g, Image(T))
          /\ IsFiniteSet(Image(T \cup {x}))
      <4> DEFINE I == Image(T)
      <4>1. Image(T \cup {x}) = I \cup {h[x]} /\ h[x] \notin I
            /\ IsFiniteSet(I) /\ \A y \in I \cup {h[x]} : g[y] \in Nat
        BY <3>1, <3>2, <3>3
      <4> HIDE DEF I
      <4>2. IsFiniteSet(I \cup {h[x]})
        BY <4>1, FS_AddElement
      <4>3. SumOver(g, I \cup {h[x]}) = g[h[x]] + SumOver(g, I)
        BY <4>1, SumAdd
      <4> QED BY <4>1, <4>2, <4>3 DEF I
    <3> HIDE DEF Image
    <3> QED BY <3>3, <3>4, <3>5
  <2> QED BY <2>1, <2>2
<1>3. S \in G
  <2> HIDE DEF G
  <2> QED BY <1>1, <1>2, FiniteInduction
<1> QED BY <1>3 DEF ImageOf

LEMMA SumSame ==
  ASSUME NEW S, IsFiniteSet(S), NEW f, NEW g,
         \A x \in S : f[x] \in Nat /\ g[x] = f[x]
  PROVE  SumOver(g, S) = SumOver(f, S)
<1> DEFINE h == [x \in S |-> x]
<1>1. S = {h[x] : x \in S}
  OBVIOUS
<1>2. RenamedBy(f, g, h, S)
  BY DEF RenamedBy
<1> HIDE DEF h
<1>3. SumOver(g, ImageOf(h, S)) = SumOver(f, S)
  BY <1>2, SumRenamed
<1> QED BY <1>1, <1>3 DEF ImageOf

(* A sum over two disjoint sets.                                           *)
LEMMA SumUnion ==
  ASSUME NEW S, IsFiniteSet(S), NEW T, IsFiniteSet(T), S \cap T = {},
         NEW f, \A x \in S \cup T : f[x] \in Nat
  PROVE  SumOver(f, S \cup T) = SumOver(f, S) + SumOver(f, T)
<1> DEFINE G == {U \in SUBSET T : SumOver(f, S \cup U) = SumOver(f, S) + SumOver(f, U)}
<1>0. SumOver(f, S) \in Nat
  BY SumNat
<1>1. {} \in G
  BY <1>0, SumEmpty
<1>2. ASSUME NEW U \in SUBSET T, NEW x \in T, U \in G PROVE U \cup {x} \in G
  <2>1. CASE x \in U
    <3>1. U \cup {x} = U
      BY <2>1
    <3> HIDE DEF G
    <3> QED BY <1>2, <3>1
  <2>2. CASE x \notin U
    <3>1. IsFiniteSet(U) /\ IsFiniteSet(S \cup U) /\ x \notin S \cup U
      BY <2>2, FS_Subset, FS_Union
    <3>2. SumOver(f, U \cup {x}) = f[x] + SumOver(f, U)
      BY <2>2, <3>1, SumAdd
    <3>3. SumOver(f, (S \cup U) \cup {x}) = f[x] + SumOver(f, S \cup U)
      <4>1. \A y \in (S \cup U) \cup {x} : f[y] \in Nat
        OBVIOUS
      <4> DEFINE V == S \cup U
      <4>2. IsFiniteSet(V) /\ x \notin V /\ \A y \in V \cup {x} : f[y] \in Nat
        BY <3>1, <4>1
      <4> HIDE DEF V
      <4>3. SumOver(f, V \cup {x}) = f[x] + SumOver(f, V)
        BY <4>2, SumAdd
      <4> QED BY <4>3 DEF V
    <3>4. (S \cup U) \cup {x} = S \cup (U \cup {x})
      OBVIOUS
    <3>5. SumOver(f, U) \in Nat /\ f[x] \in Nat
      BY <3>1, SumNat
    <3>6. SumOver(f, S \cup U) = SumOver(f, S) + SumOver(f, U)
      BY <1>2
    <3>7. SumOver(f, S \cup (U \cup {x})) = f[x] + (SumOver(f, S) + SumOver(f, U))
      BY <3>3, <3>4, <3>6, Zenon
    <3>8. SumOver(f, S \cup (U \cup {x})) = SumOver(f, S) + SumOver(f, U \cup {x})
      BY <1>0, <3>2, <3>5, <3>7
    <3> QED BY <3>8
  <2> QED BY <2>1, <2>2
<1>3. T \in G
  <2> HIDE DEF G
  <2> QED BY <1>1, <1>2, FiniteInduction
<1> QED BY <1>3

(* Values outside of T that are 0 may be left out.                         *)
LEMMA SumSupport ==
  ASSUME NEW S, IsFiniteSet(S), NEW T \in SUBSET S, NEW f, NEW g,
         \A x \in T : f[x] \in Nat /\ g[x] = f[x],
         \A x \in S \ T : g[x] = 0
  PROVE  SumOver(g, S) = SumOver(f, T)
<1> DEFINE G == {U \in SUBSET (S \ T) : SumOver(g, T \cup U) = SumOver(f, T)}
           R == S \ T
<1>1. IsFiniteSet(T) /\ IsFiniteSet(R)
  BY FS_Subset
<1>2. {} \in G
  <2>1. SumOver(g, T) = SumOver(f, T)
    BY <1>1, SumSame
  <2>2. T \cup {} = T
    OBVIOUS
  <2> QED BY <2>1, <2>2
<1>3. ASSUME NEW U \in SUBSET R, NEW x \in R, U \in G PROVE U \cup {x} \in G
  <2>1. CASE x \in U
    <3>1. U \cup {x} = U
      BY <2>1
    <3> HIDE DEF G
    <3> QED BY <1>3, <3>1
  <2>2. CASE x \notin U
    <3> DEFINE V == T \cup U
    <3>1. IsFiniteSet(V) /\ x \notin V /\ \A y \in V \cup {x} : g[y] \in Nat
      <4>1. x \notin V /\ \A y \in V \cup {x} : g[y] \in Nat
        BY <2>2
      <4>2. V \subseteq S
        OBVIOUS
      <4> HIDE DEF V
      <4> QED BY <4>1, <4>2, FS_Subset
    <3>2. V \cup {x} = T \cup (U \cup {x}) /\ g[x] = 0 /\ SumOver(g, V) = SumOver(f, T)
      BY <1>3
    <3> HIDE DEF V
    <3>3. SumOver(g, V \cup {x}) = g[x] + SumOver(g, V) /\ SumOver(g, V) \in Nat
      BY <3>1, SumAdd, SumNat
    <3>4. SumOver(g, V \cup {x}) = SumOver(f, T)
      BY <3>2, <3>3
    <3> QED BY <3>2, <3>4
  <2> QED BY <2>1, <2>2
<1>4. R \in G
  <2> HIDE DEF G, R
  <2> QED BY <1>1, <1>2, <1>3, FiniteInduction
<1>5. S = T \cup R
  OBVIOUS
<1> QED BY <1>4, <1>5

(* Changing one value changes the sum by as much.                          *)
OnlyAt(f, g, S, x) ==
  /\ \A y \in S : f[y] \in Nat /\ g[y] \in Nat
  /\ \A y \in S \ {x} : g[y] = f[y]

LEMMA SumExcept ==
  ASSUME NEW S, IsFiniteSet(S), NEW f, NEW g, NEW x \in S, OnlyAt(f, g, S, x)
  PROVE  SumOver(g, S) + f[x] = SumOver(f, S) + g[x]
<1> DEFINE R == S \ {x}
<1>1. IsFiniteSet(R) /\ \A y \in R : f[y] \in Nat /\ g[y] = f[y]
  BY FS_Subset DEF OnlyAt
<1>0. \A y \in S : f[y] \in Nat /\ g[y] \in Nat
  BY DEF OnlyAt
<1>2. SumOver(g, R) = SumOver(f, R)
  <2> HIDE DEF R
  <2> QED BY <1>1, SumSame
<1>3. /\ SumOver(f, R) \in Nat
      /\ SumOver(f, S) = f[x] + SumOver(f, R)
      /\ SumOver(g, S) = g[x] + SumOver(g, R)
  BY <1>0, SumRemove
<1> QED BY <1>0, <1>2, <1>3

-----------------------------------------------------------------------------
(* Sums of sequences.                                                      *)

TotalOf(s) == SumOver(s, DOMAIN s)

LEMMA FoldIsTotalOf == \A s : FoldSeq(+, 0, s) = TotalOf(s) /\ FoldFunction(+, 0, s) = TotalOf(s)
BY Zenon DEF TotalOf, SumOver, FoldSeq, FoldFunction

LEMMA TotalEmpty == TotalOf(<<>>) = 0
<1>1. DOMAIN <<>> = {}
  OBVIOUS
<1> QED BY <1>1, SumEmpty DEF TotalOf

LEMMA SeqDomain ==
  ASSUME NEW s \in Seq(Nat)
  PROVE  DOMAIN s = 1..Len(s) /\ IsFiniteSet(DOMAIN s) /\ \A i \in DOMAIN s : s[i] \in Nat
BY FS_Interval

LEMMA TotalNat == \A s \in Seq(Nat) : TotalOf(s) \in Nat
BY SeqDomain, SumNat DEF TotalOf

LEMMA TotalAppend ==
  ASSUME NEW s \in Seq(Nat), NEW n \in Nat
  PROVE  TotalOf(Append(s, n)) = TotalOf(s) + n
<1> DEFINE t == Append(s, n)
           m == Len(s) + 1
<1>1. /\ t \in Seq(Nat) /\ t[m] = n /\ DOMAIN t = DOMAIN s \cup {m}
      /\ m \notin DOMAIN s /\ \A i \in DOMAIN s : t[i] = s[i]
  BY SMTT(30)
<1>2. IsFiniteSet(DOMAIN s) /\ \A i \in DOMAIN s : s[i] \in Nat /\ t[i] = s[i]
  BY <1>1, SeqDomain
<1>3. \A i \in DOMAIN s \cup {m} : t[i] \in Nat
  BY <1>1, <1>2
<1> HIDE DEF t, m
<1>4. SumOver(t, DOMAIN s \cup {m}) = t[m] + SumOver(t, DOMAIN s)
  BY <1>1, <1>2, <1>3, SumAdd
<1>5. SumOver(t, DOMAIN s) = SumOver(s, DOMAIN s)
  BY <1>2, SumSame
<1>6. SumOver(s, DOMAIN s) \in Nat
  BY <1>2, SumNat
<1>7. TotalOf(t) = TotalOf(s) + n
  BY <1>1, <1>4, <1>5, <1>6 DEF TotalOf
<1> QED BY <1>7 DEF t

LEMMA TotalConcat ==
  ASSUME NEW s \in Seq(Nat), NEW t \in Seq(Nat)
  PROVE  TotalOf(s \o t) = TotalOf(s) + TotalOf(t)
<1> DEFINE u == s \o t
           h == [i \in DOMAIN t |-> Len(s) + i]
           R == {h[i] : i \in DOMAIN t}
<1>1. u \in Seq(Nat) /\ Len(u) = Len(s) + Len(t)
      /\ \A i \in 1..Len(u) : u[i] = IF i <= Len(s) THEN s[i] ELSE t[i - Len(s)]
  BY ConcatProperties
<1>2. R = (Len(s) + 1)..Len(u)
  <2>1. ASSUME NEW j \in (Len(s) + 1)..Len(u) PROVE j \in R
    <3>1. j - Len(s) \in DOMAIN t
      BY <1>1
    <3>2. h[j - Len(s)] = j
      BY <3>1
    <3> QED BY <3>1, <3>2
  <2>2. ASSUME NEW i \in DOMAIN t PROVE h[i] \in (Len(s) + 1)..Len(u)
    BY <1>1
  <2> HIDE DEF h
  <2> QED BY <2>1, <2>2
<1>3. DOMAIN u = DOMAIN s \cup R /\ DOMAIN s \cap R = {} /\ IsFiniteSet(R)
  <2> HIDE DEF R
  <2>1. IsFiniteSet(R)
    BY <1>1, <1>2, FS_Interval
  <2>2. DOMAIN u = DOMAIN s \cup R /\ DOMAIN s \cap R = {}
    BY <1>1, <1>2
  <2> QED BY <2>1, <2>2
<1>4. \A i \in DOMAIN s : u[i] = s[i]
  BY <1>1
<1>5. /\ \A i \in DOMAIN t : u[h[i]] = t[i]
      /\ \A i, j \in DOMAIN t : h[i] = h[j] => i = j
  BY <1>1
<1>6. SumOver(u, DOMAIN s \cup R) = SumOver(u, DOMAIN s) + SumOver(u, R)
  <2>1. \A i \in DOMAIN s \cup R : u[i] \in Nat
    BY <1>1, <1>3
  <2> HIDE DEF u, R, h
  <2> QED BY <1>3, <2>1, SeqDomain, SumUnion
<1>7. SumOver(u, DOMAIN s) = SumOver(s, DOMAIN s)
  <2> HIDE DEF u
  <2> QED BY <1>4, SeqDomain, SumSame
<1>8. SumOver(u, R) = SumOver(t, DOMAIN t)
  <2> HIDE DEF u, h
  <2>1. IsFiniteSet(DOMAIN t) /\ \A i \in DOMAIN t : t[i] \in Nat /\ u[h[i]] = t[i]
    BY <1>5, SeqDomain
  <2> DEFINE D == DOMAIN t
  <2>2. IsFiniteSet(D) /\ RenamedBy(t, u, h, D)
    BY <1>5, <2>1 DEF RenamedBy
  <2> HIDE DEF D
  <2>3. SumOver(u, ImageOf(h, D)) = SumOver(t, D)
    BY <2>2, SumRenamed
  <2> QED BY <2>3 DEF D, ImageOf
<1>9. TotalOf(u) = TotalOf(s) + TotalOf(t)
  <2> HIDE DEF u, R
  <2> QED BY <1>3, <1>6, <1>7, <1>8 DEF TotalOf
<1> QED BY <1>9

LEMMA TotalOne == \A n \in Nat : TotalOf(<<n>>) = n
<1> TAKE n \in Nat
<1>1. <<n>> = Append(<<>>, n) /\ <<>> \in Seq(Nat)
  OBVIOUS
<1>2. TotalOf(Append(<<>>, n)) = TotalOf(<<>>) + n
  BY <1>1, TotalAppend
<1> QED BY <1>1, <1>2, TotalEmpty

(* A sequence and its first element.                                       *)
LEMMA TotalTail ==
  ASSUME NEW s \in Seq(Nat), s # <<>>
  PROVE  /\ Head(s) \in Nat /\ Tail(s) \in Seq(Nat)
         /\ TotalOf(s) = Head(s) + TotalOf(Tail(s))
<1>1. Head(s) \in Nat /\ Tail(s) \in Seq(Nat) /\ <<Head(s)>> \in Seq(Nat)
  OBVIOUS
<1>2. s = <<Head(s)>> \o Tail(s)
  BY HeadTailProperties
<1>3. TotalOf(<<Head(s)>> \o Tail(s)) = TotalOf(<<Head(s)>>) + TotalOf(Tail(s))
  BY <1>1, TotalConcat
<1> QED BY <1>1, <1>2, <1>3, TotalOne

-----------------------------------------------------------------------------
(* Recursion.  A function f with f[x] == IF x \in Stop THEN v[x]           *)
(* ELSE f[next[x]] exists when next brings a bounded rank down.            *)

IsRecursive(f, D, Stop, v, next) ==
  f = [x \in D |-> IF x \in Stop THEN v[x] ELSE f[next[x]]]

Descends(D, Stop, next, r) ==
  \A x \in D : x \notin Stop => next[x] \in D /\ r[next[x]] < r[x]

LEMMA RecursionExists ==
  ASSUME NEW D, NEW Stop, NEW v, NEW next, NEW r, NEW N \in Nat,
         \A x \in D : r[x] \in 0..N, Descends(D, Stop, next, r)
  PROVE  \E f : IsRecursive(f, D, Stop, v, next)
<1> DEFINE Upto(n) == {x \in D : r[x] <= n}
           S == {n \in Nat : \E f : IsRecursive(f, Upto(n), Stop, v, next)}
<1>1. ASSUME NEW x \in D, x \notin Stop, NEW n \in Nat, r[x] <= n + 1
      PROVE  next[x] \in D /\ r[next[x]] <= n
  <2>1. next[x] \in D /\ r[next[x]] < r[x] /\ r[x] \in Nat /\ r[next[x]] \in Nat
    BY <1>1 DEF Descends
  <2> QED BY <1>1, <2>1
<1>2. 0 \in S
  <2> DEFINE f == [x \in Upto(0) |-> v[x]]
  <2>1. ASSUME NEW x \in Upto(0) PROVE x \in Stop
    <3> SUFFICES ASSUME x \notin Stop PROVE FALSE
      OBVIOUS
    <3>1. next[x] \in D /\ r[next[x]] < r[x] /\ r[next[x]] \in Nat /\ r[x] = 0
      BY DEF Descends
    <3> QED BY <3>1
  <2>2. f = [x \in Upto(0) |-> IF x \in Stop THEN v[x] ELSE f[next[x]]]
    <3> HIDE DEF Upto
    <3> QED BY <2>1
  <2> HIDE DEF f, Upto
  <2> QED BY <2>2 DEF IsRecursive
<1>3. ASSUME NEW n \in Nat, n \in S PROVE n + 1 \in S
  <2>1. PICK g : IsRecursive(g, Upto(n), Stop, v, next)
    BY <1>3
  <2> DEFINE f == [x \in Upto(n + 1) |-> IF x \in Stop THEN v[x] ELSE g[next[x]]]
  <2>2. ASSUME NEW x \in Upto(n + 1), x \notin Stop
        PROVE  next[x] \in Upto(n) /\ next[x] \in Upto(n + 1)
    <3>1. next[x] \in D /\ r[next[x]] <= n
      BY <1>1, <2>2
    <3>2. r[next[x]] \in Nat
      BY <3>1
    <3> QED BY <3>1, <3>2
  <2> HIDE DEF Upto
  <2>3. ASSUME NEW y \in Upto(n), y \in Upto(n + 1) PROVE f[y] = g[y]
    BY <2>1, <2>3 DEF IsRecursive
  <2>4. ASSUME NEW x \in Upto(n + 1), x \notin Stop PROVE f[next[x]] = g[next[x]]
    <3>1. next[x] \in Upto(n) /\ next[x] \in Upto(n + 1)
      BY <2>2, <2>4
    <3> HIDE DEF f
    <3> QED BY <2>3, <3>1
  <2>5. f = [x \in Upto(n + 1) |-> IF x \in Stop THEN v[x] ELSE f[next[x]]]
    <3>1. \A x \in Upto(n + 1) : f[x] = IF x \in Stop THEN v[x] ELSE g[next[x]]
      OBVIOUS
    <3>2. f = [x \in Upto(n + 1) |-> f[x]]
      OBVIOUS
    <3> HIDE DEF f
    <3>3. \A x \in Upto(n + 1) : f[x] = IF x \in Stop THEN v[x] ELSE f[next[x]]
      BY <2>4, <3>1
    <3> QED BY <3>2, <3>3
  <2>6. IsRecursive(f, Upto(n + 1), Stop, v, next)
    <3> HIDE DEF f
    <3> QED BY <2>5 DEF IsRecursive
  <2> QED BY <2>6
<1>4. Nat \subseteq S
  <2> HIDE DEF S
  <2> QED BY <1>2, <1>3, SetInduction
<1>5. Upto(N) = D
  OBVIOUS
<1> HIDE DEF Upto
<1> QED BY <1>4, <1>5

(* FlattenSeq joins the first i sequences for every i.                     *)
IsFlatten(f, s, n) ==
  f = [i \in 1..n |-> IF i = 1 THEN s[i] ELSE f[i - 1] \o s[i]]

Flattener(s) == CHOOSE f : IsFlatten(f, s, Len(s))

LEMMA FlattenIs == \A s : FlattenSeq(s) = IF Len(s) = 0 THEN s ELSE Flattener(s)[Len(s)]
BY Zenon DEF FlattenSeq, Flattener, IsFlatten

LEMMA FlattenExists ==
  ASSUME NEW s, NEW m \in Nat
  PROVE  \E f : IsFlatten(f, s, m)
<1> DEFINE S == {n \in Nat : \E f : IsFlatten(f, s, n)}
<1>1. 0 \in S
  <2>1. IsFlatten(<<>>, s, 0)
    BY DEF IsFlatten
  <2> QED BY <2>1
<1>2. ASSUME NEW n \in Nat, n \in S PROVE n + 1 \in S
  <2>1. PICK g : IsFlatten(g, s, n)
    BY <1>2
  <2> DEFINE f == [i \in 1..(n + 1) |-> IF i = 1 THEN s[i] ELSE g[i - 1] \o s[i]]
  <2>2. \A i \in 1..n : g[i] = IF i = 1 THEN s[i] ELSE g[i - 1] \o s[i]
    BY <2>1 DEF IsFlatten
  <2>3. \A i \in 1..(n + 1) : f[i] = IF i = 1 THEN s[i] ELSE g[i - 1] \o s[i]
    OBVIOUS
  <2>4. f = [i \in 1..(n + 1) |-> f[i]]
    OBVIOUS
  <2> HIDE DEF f
  <2>5. \A i \in 1..n : f[i] = g[i]
    BY <2>2, <2>3
  <2>6. \A i \in 1..(n + 1) : f[i] = IF i = 1 THEN s[i] ELSE f[i - 1] \o s[i]
    <3> TAKE i \in 1..(n + 1)
    <3>1. CASE i = 1
      BY <2>3, <3>1
    <3>2. CASE i # 1
      <4>1. i - 1 \in 1..n
        BY <3>2
      <4> QED BY <2>3, <2>5, <3>2, <4>1
    <3> QED BY <3>1, <3>2
  <2>7. IsFlatten(f, s, n + 1)
    BY <2>4, <2>6 DEF IsFlatten
  <2> QED BY <2>7
<1> HIDE DEF S
<1>3. Nat \subseteq S
  BY <1>1, <1>2, SetInduction
<1> QED BY <1>3 DEF S

Joins(f, s, T) ==
  /\ f \in [0..Len(s) -> Seq(T)]
  /\ f[0] = <<>>
  /\ \A i \in 1..Len(s) : f[i] = f[i - 1] \o s[i]

LEMMA FlattenJoins ==
  ASSUME NEW T, NEW s \in Seq(Seq(T))
  PROVE  \E f : Joins(f, s, T) /\ FlattenSeq(s) = f[Len(s)]
<1> DEFINE m == Len(s)
           g == Flattener(s)
           f == [i \in 0..m |-> IF i = 0 THEN <<>> ELSE g[i]]
<1>1. m \in Nat /\ \A i \in 1..m : s[i] \in Seq(T)
  OBVIOUS
<1>2. IsFlatten(g, s, m)
  BY <1>1, FlattenExists DEF Flattener
<1> HIDE DEF m, g
<1>3. \A i \in 1..m : g[i] = IF i = 1 THEN s[i] ELSE g[i - 1] \o s[i]
  BY <1>2 DEF IsFlatten
<1>4. /\ f = [i \in 0..m |-> f[i]] /\ f[0] = <<>>
      /\ \A i \in 1..m : f[i] = g[i]
  BY <1>1
<1> HIDE DEF f
<1>5. \A i \in 1..m : f[i] = f[i - 1] \o s[i]
  <2> TAKE i \in 1..m
  <2>1. CASE i = 1
    <3>1. <<>> \o s[i] = s[i]
      BY <1>1
    <3>2. f[i - 1] = <<>>
      BY <1>4, <2>1
    <3>3. f[i] = s[i]
      BY <1>3, <1>4, <2>1
    <3> QED BY <3>1, <3>2, <3>3
  <2>2. CASE i # 1
    <3>1. i - 1 \in 1..m
      BY <1>1, <2>2
    <3> QED BY <1>3, <1>4, <2>2, <3>1
  <2> QED BY <2>1, <2>2
<1>6. \A i \in 0..m : f[i] \in Seq(T)
  <2> DEFINE S == {n \in Nat : n <= m => f[n] \in Seq(T)}
  <2>1. 0 \in S
    <3>1. f[0] = <<>> /\ <<>> \in Seq(T)
      BY <1>4
    <3> QED BY <3>1
  <2>2. ASSUME NEW n \in Nat, n \in S PROVE n + 1 \in S
    <3> SUFFICES ASSUME n + 1 <= m PROVE f[n + 1] \in Seq(T)
      OBVIOUS
    <3>1. n + 1 \in 1..m /\ (n + 1) - 1 = n /\ f[n] \in Seq(T)
      BY <1>1, <2>2
    <3>2. f[n + 1] = f[n] \o s[n + 1] /\ s[n + 1] \in Seq(T)
      BY <1>1, <1>5, <3>1
    <3> QED BY <3>1, <3>2
  <2>3. Nat \subseteq S
    <3> HIDE DEF S
    <3> QED BY <2>1, <2>2, SetInduction
  <2> QED BY <1>1, <2>3
<1>7. FlattenSeq(s) = f[m]
  <2>1. CASE m = 0
    <3>1. s = <<>>
      BY <2>1 DEF m
    <3> QED BY <1>4, <2>1, <3>1, FlattenIs DEF m
  <2>2. CASE m # 0
    <3>1. m \in 1..m
      BY <1>1, <2>2
    <3>2. FlattenSeq(s) = g[m]
      BY <2>2, FlattenIs DEF m, g
    <3> QED BY <1>4, <3>1, <3>2
  <2> QED BY <2>1, <2>2
<1>8. Joins(f, s, T)
  BY <1>4, <1>5, <1>6 DEF Joins, m
<1> QED BY <1>7, <1>8 DEF m

LEMMA FlattenSequence ==
  ASSUME NEW T, NEW s \in Seq(Seq(T))
  PROVE  FlattenSeq(s) \in Seq(T)
<1>1. PICK f : Joins(f, s, T) /\ FlattenSeq(s) = f[Len(s)]
  BY FlattenJoins
<1>2. Len(s) \in 0..Len(s)
  OBVIOUS
<1> QED BY <1>1, <1>2 DEF Joins

-----------------------------------------------------------------------------
(* A finite set of numbers in ascending order.                             *)

Ascends(s) == \A i, j \in DOMAIN s : i < j => s[i] < s[j]

LEMMA SortedExists ==
  ASSUME NEW m \in Nat, NEW S \in SUBSET (0..m)
  PROVE  \E s \in SetToSeqs(S) : Ascends(s)
<1> DEFINE G == {n \in Nat : \A T \in SUBSET (0..n) : \E s \in SetToSeqs(T) : Ascends(s)}
<1>1. \E s \in SetToSeqs({}) : Ascends(s)
  <2>1. <<>> \in SetToSeqs({}) /\ Ascends(<<>>)
    BY FS_EmptySet DEF SetToSeqs, Ascends
  <2> QED BY <2>1
<1>2. ASSUME NEW T \in SUBSET Nat, IsFiniteSet(T), NEW s \in SetToSeqs(T), Ascends(s),
             NEW n \in Nat, \A x \in T : x < n
      PROVE  \E t \in SetToSeqs(T \cup {n}) : Ascends(t)
  <2> DEFINE k == Cardinality(T)
             t == [i \in 1..(k + 1) |-> IF i = k + 1 THEN n ELSE s[i]]
             U == T \cup {n}
  <2>1. k \in Nat /\ n \notin T
    BY <1>2, FS_CardinalityType
  <2>2. Cardinality(U) = k + 1
    BY <1>2, <2>1, FS_AddElement
  <2>3. s \in [1..k -> T] /\ \A i, j \in 1..k : i < j => s[i] < s[j]
    BY <1>2 DEF SetToSeqs, Ascends
  <2> HIDE DEF k
  <2>4. /\ t \in [1..(k + 1) -> U] /\ t[k + 1] = n
        /\ \A i \in 1..k : t[i] = s[i] /\ s[i] \in T
    BY <2>1, <2>3
  <2> HIDE DEF t
  <2>5. \A i, j \in 1..(k + 1) : i < j => t[i] < t[j]
    <3> SUFFICES ASSUME NEW i \in 1..(k + 1), NEW j \in 1..(k + 1), i < j PROVE t[i] < t[j]
      OBVIOUS
    <3>1. i \in 1..k
      BY <2>1
    <3>2. CASE j = k + 1
      BY <1>2, <2>4, <3>1, <3>2
    <3>3. CASE j # k + 1
      <4>1. j \in 1..k
        BY <2>1, <3>3
      <4> QED BY <2>3, <2>4, <3>1, <4>1
    <3> QED BY <3>2, <3>3
  <2>6. \A i, j \in 1..(k + 1) : i # j => t[i] # t[j]
    <3> SUFFICES ASSUME NEW i \in 1..(k + 1), NEW j \in 1..(k + 1), i # j PROVE t[i] # t[j]
      OBVIOUS
    <3>1. t[i] \in Nat /\ t[j] \in Nat
      BY <2>4
    <3>2. i < j \/ j < i
      BY <2>1
    <3> QED BY <2>5, <3>1, <3>2
  <2>7. t \in SetToSeqs(U) /\ Ascends(t)
    <3> HIDE DEF U
    <3> QED BY <2>2, <2>4, <2>5, <2>6 DEF SetToSeqs, Ascends
  <2> QED BY <2>7
<1>3. 0 \in G
  <2> SUFFICES ASSUME NEW T \in SUBSET (0..0) PROVE \E s \in SetToSeqs(T) : Ascends(s)
    OBVIOUS
  <2>1. CASE T = {}
    BY <1>1, <2>1
  <2>2. CASE T # {}
    <3>0. 0..0 = {0}
      OBVIOUS
    <3>1. T = {} \cup {0}
      BY <2>2, <3>0
    <3>2. PICK s \in SetToSeqs({}) : Ascends(s)
      BY <1>1
    <3>3. {} \in SUBSET Nat /\ IsFiniteSet({}) /\ \A x \in {} : x < 0
      BY FS_EmptySet
    <3>4. \E t \in SetToSeqs({} \cup {0}) : Ascends(t)
      BY <1>2, <3>2, <3>3
    <3> QED BY <3>1, <3>4
  <2> QED BY <2>1, <2>2
<1>4. ASSUME NEW n \in Nat, n \in G PROVE n + 1 \in G
  <2> SUFFICES ASSUME NEW T \in SUBSET (0..(n + 1)) PROVE \E s \in SetToSeqs(T) : Ascends(s)
    OBVIOUS
  <2> DEFINE R == T \ {n + 1}
  <2>1. R \in SUBSET (0..n) /\ R \in SUBSET Nat /\ \A x \in R : x < n + 1
    OBVIOUS
  <2>2. PICK s \in SetToSeqs(R) : Ascends(s)
    <3> HIDE DEF R
    <3> QED BY <1>4, <2>1
  <2>3. IsFiniteSet(R)
    <3>1. n \in Nat /\ \A x \in R : x <= n
      OBVIOUS
    <3> HIDE DEF R
    <3> QED BY <2>1, <3>1, FS_BoundedSetOfNaturals
  <2>4. CASE n + 1 \in T
    <3>1. T = R \cup {n + 1}
      BY <2>4
    <3> HIDE DEF R
    <3>2. \E t \in SetToSeqs(R \cup {n + 1}) : Ascends(t)
      BY <1>2, <2>1, <2>2, <2>3
    <3> QED BY <3>1, <3>2
  <2>5. CASE n + 1 \notin T
    <3>1. R = T
      BY <2>5
    <3> QED BY <2>2, <3>1
  <2> QED BY <2>4, <2>5
<1>5. Nat \subseteq G
  <2> HIDE DEF G
  <2> QED BY <1>3, <1>4, SetInduction
<1> QED BY <1>5
=============================================================================
