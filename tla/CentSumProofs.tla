--------------------------- MODULE CentSumProofs ---------------------------
(***************************************************************************)
(* What a sum does when one of its entries changes.                        *)
(***************************************************************************)
EXTENDS CentSum, FiniteSetTheorems, TLAPS

(* The cents of a finite number of entries form a finite set. *)
LEMMA CentsFinite ==
  ASSUME NEW S, IsFiniteSet(S), NEW f \in [S -> Nat]
  PROVE  IsFiniteSet(Cents(f, S))
<1> DEFINE Block == {{x} \X (1 .. f[x]) : x \in S}
           blockOf == [x \in S |-> {x} \X (1 .. f[x])]
<1>1. blockOf \in Surjection(S, Block)
  BY DEF Surjection
<1>2. IsFiniteSet(Block)
  BY <1>1, FS_Surjection
<1>3. \A B \in Block : IsFiniteSet(B)
  <2>1. SUFFICES ASSUME NEW x \in S PROVE IsFiniteSet({x} \X (1 .. f[x]))
    OBVIOUS
  <2>2. IsFiniteSet({x})
    BY FS_Singleton
  <2>3. f[x] \in Int /\ 1 \in Int
    OBVIOUS
  <2>4. IsFiniteSet(1 .. f[x])
    BY <2>3, FS_Interval
  <2> QED BY <2>2, <2>4, FS_Product
<1> HIDE DEF Block
<1>4. IsFiniteSet(UNION Block)
  BY <1>2, <1>3, FS_UNION
<1> QED BY <1>4 DEF Cents, Block

(* A sum of naturals is a natural. *)
LEMMA SumType ==
  ASSUME NEW S, IsFiniteSet(S), NEW f \in [S -> Nat]
  PROVE  SumOver(f, S) \in Nat
BY CentsFinite, FS_CardinalityType DEF SumOver

(* The sum splits into one entry and the rest. *)
LEMMA SumSplit ==
  ASSUME NEW S, IsFiniteSet(S), NEW f \in [S -> Nat], NEW x \in S
  PROVE  /\ Cardinality(Cents(f, S \ {x})) \in Nat
         /\ SumOver(f, S) = Cardinality(Cents(f, S \ {x})) + f[x]
<1> DEFINE Rest == Cents(f, S \ {x})
           Own == {x} \X (1 .. f[x])
<1>1. Cents(f, S) = Rest \cup Own
  BY DEF Cents
<1>2. Rest \cap Own = {}
  BY DEF Cents
<1>3. IsFiniteSet(Cents(f, S))
  BY CentsFinite
<1>4. IsFiniteSet(Rest) /\ IsFiniteSet(Own)
  <2>1. Rest \in SUBSET Cents(f, S) /\ Own \in SUBSET Cents(f, S)
    BY <1>1
  <2> HIDE DEF Rest, Own
  <2> QED BY <2>1, <1>3, FS_Subset
<1>5. Cardinality(Own) = f[x]
  <2>1. f[x] \in Nat /\ 1 \in Int /\ f[x] \in Int
    OBVIOUS
  <2>2. IsFiniteSet(1 .. f[x]) /\ Cardinality(1 .. f[x]) = f[x]
    BY <2>1, FS_Interval
  <2>3. IsFiniteSet({x}) /\ Cardinality({x}) = 1
    BY FS_Singleton
  <2>4. Cardinality(Own) = Cardinality({x}) * Cardinality(1 .. f[x])
    BY <2>2, <2>3, FS_Product
  <2> QED BY <2>1, <2>2, <2>3, <2>4
<1> HIDE DEF Rest, Own
<1>6. Cardinality(Rest \cup Own) = Cardinality(Rest) + Cardinality(Own) - Cardinality(Rest \cap Own)
  BY <1>4, FS_Union
<1>7. Cardinality(Rest \cap Own) = 0
  BY <1>2, FS_EmptySet
<1>8. Cardinality(Rest) \in Nat
  BY <1>4, FS_CardinalityType
<1>9. f[x] \in Nat
  OBVIOUS
<1>10. SumOver(f, S) = Cardinality(Rest \cup Own)
  BY <1>1 DEF SumOver
<1>11. SumOver(f, S) = Cardinality(Rest) + f[x]
  BY <1>5, <1>6, <1>7, <1>8, <1>9, <1>10
<1> QED BY <1>8, <1>11 DEF Rest

(* Two families of amounts that agree everywhere have the same sum. *)
LEMMA SumSame ==
  ASSUME NEW S, NEW f, NEW h, \A y \in S : f[y] = h[y]
  PROVE  SumOver(f, S) = SumOver(h, S)
<1>1. Cents(f, S) = Cents(h, S)
  BY DEF Cents
<1> QED BY <1>1 DEF SumOver

(* Two families of amounts that differ in one entry only have sums that
   differ by what that entry differs by. *)
LEMMA SumChange ==
  ASSUME NEW S, IsFiniteSet(S), NEW f \in [S -> Nat], NEW h \in [S -> Nat],
         NEW x \in S, \A y \in S \ {x} : f[y] = h[y]
  PROVE  SumOver(h, S) + f[x] = SumOver(f, S) + h[x]
<1>1. Cents(f, S \ {x}) = Cents(h, S \ {x})
  BY DEF Cents
<1> DEFINE rest == Cardinality(Cents(f, S \ {x}))
<1>2. rest \in Nat /\ SumOver(f, S) = rest + f[x]
  BY SumSplit
<1>3. SumOver(h, S) = rest + h[x]
  BY SumSplit, <1>1
<1>4. f[x] \in Nat /\ h[x] \in Nat
  OBVIOUS
<1> HIDE DEF rest
<1> QED BY <1>2, <1>3, <1>4

(* The sum of zeros is zero. *)
LEMMA SumZero ==
  ASSUME NEW S, NEW f, \A y \in S : f[y] = 0
  PROVE  SumOver(f, S) = 0
<1>1. Cents(f, S) = {}
  BY DEF Cents
<1> QED BY <1>1, FS_EmptySet DEF SumOver

(* An entry is at most the sum. *)
LEMMA SumBounds ==
  ASSUME NEW S, IsFiniteSet(S), NEW f \in [S -> Nat], NEW x \in S
  PROVE  f[x] <= SumOver(f, S)
<1> DEFINE rest == Cardinality(Cents(f, S \ {x}))
<1>1. rest \in Nat /\ SumOver(f, S) = rest + f[x]
  BY SumSplit
<1>2. f[x] \in Nat
  OBVIOUS
<1> HIDE DEF rest
<1> QED BY <1>1, <1>2

(* Amounts of at most L each sum up to at most L for each of them. *)
LEMMA SumAtMost ==
  ASSUME NEW S, IsFiniteSet(S), NEW L \in Nat, NEW f,
         \A x \in S : f[x] \in Nat /\ f[x] <= L
  PROVE  SumOver(f, S) <= L * Cardinality(S)
<1> DEFINE Box == S \X (1 .. L)
<1>1. Cents(f, S) \in SUBSET Box
  <2>1. ASSUME NEW e \in Cents(f, S) PROVE e \in Box
    <3>1. PICK x \in S : e \in {x} \X (1 .. f[x])
      BY DEF Cents
    <3>2. f[x] \in Nat /\ f[x] <= L
      OBVIOUS
    <3> QED BY <3>1, <3>2
  <2> HIDE DEF Box
  <2> QED BY <2>1
<1>2. IsFiniteSet(1 .. L) /\ Cardinality(1 .. L) = L
  <2>1. 1 \in Int /\ L \in Int /\ L \in Nat
    OBVIOUS
  <2> QED BY <2>1, FS_Interval
<1>3. IsFiniteSet(Box) /\ Cardinality(Box) = Cardinality(S) * Cardinality(1 .. L)
  BY <1>2, FS_Product
<1> HIDE DEF Box
<1>4. Cardinality(Cents(f, S)) <= Cardinality(Box)
  BY <1>1, <1>3, FS_Subset
<1>5. Cardinality(S) \in Nat
  BY FS_CardinalityType
<1> QED BY <1>2, <1>3, <1>4, <1>5 DEF SumOver

(* The same when one of them, which is zero, is to have room for L more. *)
LEMMA SumLeavesRoom ==
  ASSUME NEW S, IsFiniteSet(S), NEW L \in Nat, NEW f \in [S -> Nat],
         \A y \in S : f[y] <= L, NEW x \in S, f[x] = 0
  PROVE  SumOver(f, S) + L <= L * Cardinality(S)
<1>1. SumOver(f, S) = SumOver(f, S \ {x})
  <2>1. /\ Cardinality(Cents(f, S \ {x})) \in Nat
        /\ SumOver(f, S) = Cardinality(Cents(f, S \ {x})) + f[x]
    BY SumSplit
  <2> QED BY <2>1 DEF SumOver
<1>2. /\ IsFiniteSet(S \ {x}) /\ Cardinality(S) \in Nat
      /\ Cardinality(S \ {x}) = Cardinality(S) - 1
  BY FS_CardinalityType, FS_RemoveElement
<1>3. SumOver(f, S \ {x}) <= L * Cardinality(S \ {x})
  <2>1. \A y \in S \ {x} : f[y] \in Nat /\ f[y] <= L
    OBVIOUS
  <2> QED BY <1>2, <2>1, SumAtMost
<1>4. SumOver(f, S) \in Nat
  BY SumType
<1>5. PICK n \in Nat, k \in Nat : n = Cardinality(S) /\ k = SumOver(f, S)
  BY <1>2, <1>4
<1>6. k <= L * (n - 1)
  BY <1>1, <1>2, <1>3, <1>5
<1>7. L * (n - 1) + L = L * n
  OBVIOUS
<1>8. L * (n - 1) \in Int /\ L * n \in Int
  OBVIOUS
<1> QED BY <1>5, <1>6, <1>7, <1>8

(* A sum whose entries each belong to one of two parts is the sum of the parts. *)
LEMMA SumParts ==
  ASSUME NEW S, IsFiniteSet(S), NEW f \in [S -> Nat], NEW g \in [S -> Nat], NEW h \in [S -> Nat],
         \A x \in S : (g[x] = 0 /\ h[x] = f[x]) \/ (g[x] = f[x] /\ h[x] = 0)
  PROVE  SumOver(f, S) = SumOver(g, S) + SumOver(h, S)
<1> DEFINE F == Cents(f, S)
           G == Cents(g, S)
           H == Cents(h, S)
<1>1. IsFiniteSet(F) /\ IsFiniteSet(G) /\ IsFiniteSet(H)
  BY CentsFinite
<1>2. F = G \cup H
  BY DEF Cents
<1>3. G \cap H = {}
  BY DEF Cents
<1> HIDE DEF F, G, H
<1>4. Cardinality(G \cup H) = Cardinality(G) + Cardinality(H) - Cardinality(G \cap H)
  BY <1>1, FS_Union
<1>5. Cardinality(G \cap H) = 0 /\ Cardinality(G) \in Nat /\ Cardinality(H) \in Nat
  BY <1>1, <1>3, FS_EmptySet, FS_CardinalityType
<1>6. Cardinality(F) = Cardinality(G) + Cardinality(H)
  BY <1>2, <1>4, <1>5
<1> QED BY <1>6 DEF SumOver, F, G, H

(* Amounts f of which each is covered by the amount of the same entry in e, or *)
(* by an amount in g that is assigned to it, sum up to at most e and g.        *)
LEMMA SumCovered ==
  ASSUME NEW S, IsFiniteSet(S), NEW T, IsFiniteSet(T),
         NEW f \in [S -> Nat], NEW e \in [S -> Nat], NEW g \in [T -> Nat], NEW h,
         \A x \in S : f[x] <= e[x] \/ \E t \in T : h[t] = x /\ f[x] <= g[t]
  PROVE  SumOver(f, S) <= SumOver(e, S) + SumOver(g, T)
<1> DEFINE F == Cents(f, S)
           E == Cents(e, S)
           G == Cents(g, T)
           move == [y \in G |-> <<h[y[1]], y[2]>>]
           I == {move[y] : y \in G}
<1>1. IsFiniteSet(F) /\ IsFiniteSet(E) /\ IsFiniteSet(G)
  BY CentsFinite
<1>2. IsFiniteSet(I) /\ Cardinality(I) <= Cardinality(G)
  <2>1. move \in Surjection(G, I)
    BY DEF Surjection
  <2> HIDE DEF move, I, G
  <2> QED BY <1>1, <2>1, FS_Surjection
<1>3. ASSUME NEW y \in F PROVE y \in E \/ y \in I
  <2>1. PICK x \in S : y \in {x} \X (1 .. f[x])
    BY DEF Cents
  <2>2. PICK i \in 1 .. f[x] : y = <<x, i>>
    BY <2>1
  <2>3. CASE f[x] <= e[x]
    <3>1. f[x] \in Nat /\ e[x] \in Nat
      OBVIOUS
    <3>2. i \in 1 .. e[x]
      BY <2>3, <3>1
    <3>3. y \in {x} \X (1 .. e[x])
      BY <2>2, <3>2
    <3> QED BY <3>3 DEF Cents
  <2>4. ASSUME NEW t \in T, h[t] = x, f[x] <= g[t] PROVE y \in I
    <3>1. f[x] \in Nat /\ g[t] \in Nat
      OBVIOUS
    <3>2. i \in 1 .. g[t]
      BY <2>4, <3>1
    <3>3. <<t, i>> \in {t} \X (1 .. g[t])
      BY <3>2
    <3>4. <<t, i>> \in G
      BY <3>3 DEF Cents
    <3>5. move[<<t, i>>] = <<h[t], i>>
      BY <3>4
    <3> QED BY <2>2, <2>4, <3>4, <3>5
  <2> QED BY <2>3, <2>4
<1> HIDE DEF F, E, G, I, move
<1>4. F \in SUBSET (E \cup I)
  BY <1>3
<1>5. IsFiniteSet(E \cup I) /\ Cardinality(E \cup I) = Cardinality(E) + Cardinality(I) - Cardinality(E \cap I)
  BY <1>1, <1>2, FS_Union
<1>6. Cardinality(F) <= Cardinality(E \cup I)
  BY <1>4, <1>5, FS_Subset
<1>7. IsFiniteSet(E \cap I)
  <2>1. E \cap I \in SUBSET E
    OBVIOUS
  <2> QED BY <1>1, <2>1, FS_Subset
<1>8. /\ Cardinality(F) \in Nat /\ Cardinality(E) \in Nat /\ Cardinality(I) \in Nat
      /\ Cardinality(G) \in Nat /\ Cardinality(E \cap I) \in Nat
  BY <1>1, <1>2, <1>7, FS_CardinalityType
<1>9. Cardinality(F) <= Cardinality(E) + Cardinality(G)
  BY <1>2, <1>5, <1>6, <1>8
<1> QED BY <1>9 DEF SumOver, F, E, G

=============================================================================
