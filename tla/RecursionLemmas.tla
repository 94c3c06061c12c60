--------------------------- MODULE RecursionLemmas ---------------------------
(***************************************************************************)
(* Induction over numbers and the existence of recursively defined         *)
(* functions, stated about sets and functions instead of operators, so     *)
(* that the provers can instantiate them.                                  *)
(***************************************************************************)
EXTENDS Integers, WellFoundedInduction, TLAPS

\* A set of natural numbers that is not empty has a least member.
LEMMA LeastNumber ==
  ASSUME NEW T \in SUBSET Nat, T # {}
  PROVE  \E n \in T : \A m \in T : n <= m
<1>1. IsWellFoundedOn(OpToRel(<, Nat), Nat)
  BY NatLessThanWellFounded
<1>2. PICK n \in T : \A m \in T : ~(<<m, n>> \in OpToRel(<, Nat))
  BY <1>1, WFMin
<1>3. \A m \in T : ~(m < n)
  BY <1>2 DEF OpToRel
<1> QED  BY <1>3

\* A set that has a number as soon as it has all smaller ones has all.
LEMMA StrongInduction ==
  ASSUME NEW T, \A n \in Nat : (\A k \in 0 .. n - 1 : k \in T) => n \in T
  PROVE  \A n \in Nat : n \in T
<1> SUFFICES ASSUME Nat \ T # {} PROVE FALSE
  OBVIOUS
<1>1. PICK n \in Nat \ T : \A m \in Nat \ T : n <= m
  BY LeastNumber
<1>2. \A k \in 0 .. n - 1 : k \in T
  BY <1>1
<1> QED  BY <1>1, <1>2

LEMMA Induction ==
  ASSUME NEW T, 0 \in T, \A n \in Nat : n \in T => n + 1 \in T
  PROVE  \A n \in Nat : n \in T
<1>1. ASSUME NEW n \in Nat, \A k \in 0 .. n - 1 : k \in T
      PROVE  n \in T
  <2>1. CASE n = 0
    BY <2>1
  <2>2. CASE n # 0
    <3>1. n - 1 \in Nat /\ n - 1 \in T
      BY <1>1, <2>2
    <3>2. (n - 1) + 1 \in T
      BY <3>1
    <3> QED  BY <3>2
  <2> QED  BY <2>1, <2>2
<1> QED  BY <1>1, StrongInduction

(***************************************************************************)
(* F[x][f] is what the definition of a function f says of x, m[x] how deep *)
(* the recursion goes.  If it depends only on the values at smaller m,     *)
(* there is a function that fits the definition.                           *)
(***************************************************************************)
Grounded(D, V, N, m, F) ==
  /\ V # {} /\ N \in Nat /\ m \in [D -> 0 .. N] /\ F \in [D -> [[D -> V] -> V]]
  /\ \A x \in D : \A g, h \in [D -> V] :
       (\A y \in D : m[y] < m[x] => g[y] = h[y]) => F[x][g] = F[x][h]

Defines(D, V, F) == \E f \in [D -> V] : \A x \in D : f[x] = F[x][f]

LEMMA RecursionDefined ==
  ASSUME NEW D, NEW V, NEW N, NEW m, NEW F, Grounded(D, V, N, m, F)
  PROVE  Defines(D, V, F)
<1> USE DEF Grounded
<1> DEFINE Fits(f, n) == \A x \in D : m[x] < n => f[x] = F[x][f]
           T == {n \in Nat : \E f \in [D -> V] : Fits(f, n)}
<1>1. 0 \in T
  <2>1. PICK v : v \in V
    OBVIOUS
  <2>2. [x \in D |-> v] \in [D -> V]
    BY <2>1
  <2>3. \A x \in D : ~(m[x] < 0)
    OBVIOUS
  <2> QED  BY <2>2, <2>3
<1>2. ASSUME NEW n \in Nat, n \in T
      PROVE  n + 1 \in T
  <2>1. PICK f \in [D -> V] : Fits(f, n)
    BY <1>2
  <2> DEFINE g == [x \in D |-> IF m[x] < n THEN f[x] ELSE F[x][f]]
  <2>2. g \in [D -> V]
    OBVIOUS
  <2>3. ASSUME NEW x \in D, m[x] < n + 1
        PROVE  g[x] = F[x][g]
    <3>1. \A y \in D : m[y] < m[x] => g[y] = f[y]
      BY <2>3
    <3>2. F[x][g] = F[x][f]
      <4> HIDE DEF g
      <4> QED  BY <2>2, <3>1
    <3>3. g[x] = F[x][f]
      BY <2>1
    <3> QED  BY <3>2, <3>3
  <2>4. Fits(g, n + 1)
    BY <2>3
  <2> HIDE DEF Fits, g
  <2> QED  BY <2>2, <2>4
<1>3. N + 1 \in T
  <2> HIDE DEF T
  <2> QED  BY <1>1, <1>2, Induction
<1>4. PICK f \in [D -> V] : Fits(f, N + 1)
  BY <1>3
<1>5. \A x \in D : f[x] = F[x][f]
  BY <1>4
<1> QED  BY <1>5 DEF Defines
=============================================================================
