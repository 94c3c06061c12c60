---------------------------- MODULE StreamsProofs ----------------------------
(***************************************************************************)
(* First the checksum and the groups of five bits of an address, as        *)
(* functions of the hrp and the bytes: what the folds of Bech32mStream and *)
(* Streams compute, for texts of every length.  Then the encoders: the     *)
(* regrouper of bech32m never runs out of space, for all buffers of at     *)
(* least four groups and all inputs, and both encoders keep their types.   *)
(***************************************************************************)
EXTENDS Streams, RecursionLemmas, SequenceTheorems, FiniteSetTheorems

-----------------------------------------------------------------------------
(* Sums of bits. *)

Word30 == SUBSET (0 .. 29)

LEMMA BitsWord == ASSUME NEW n PROVE Bits(n) \in Word30
  BY DEF Bits, Word30

LEMMA XorWord == ASSUME NEW a \in Word30, NEW b \in Word30 PROVE Xor(a, b) \in Word30
  BY DEF Xor, Word30

\* An element is in exactly one of the two.
LEMMA XorMember ==
  ASSUME NEW a, NEW b, NEW j
  PROVE  j \in Xor(a, b) <=> ~(j \in a <=> j \in b)
  BY DEF Xor

LEMMA XorLaws ==
  ASSUME NEW a, NEW b, NEW c
  PROVE  /\ Xor(a, b) = Xor(b, a)
         /\ Xor(Xor(a, b), c) = Xor(a, Xor(b, c))
         /\ Xor(a, {}) = a /\ Xor({}, a) = a /\ Xor(a, a) = {}
  BY DEF Xor

LEMMA XorSwaps == ASSUME NEW a, NEW b, NEW c PROVE Xor(a, Xor(b, c)) = Xor(b, Xor(a, c))
  BY DEF Xor
-----------------------------------------------------------------------------
(* The step of the checksum. *)

When(p, x) == IF p THEN x ELSE {}
Shifted(pre) == {b + 5 : b \in pre \cap 0 .. 24}

\* The generators of those g for which p[g], added to base.
Folded(p1, p2, p3, p4, p5, base) ==
  Xor(When(p1, Generator[1]), Xor(When(p2, Generator[2]), Xor(When(p3, Generator[3]),
    Xor(When(p4, Generator[4]), Xor(When(p5, Generator[5]), base)))))

StepOf(pre) == Folded(25 \in pre, 26 \in pre, 27 \in pre, 28 \in pre, 29 \in pre, Shifted(pre))

LEMMA GeneratorsWord == \A g \in 1 .. 5 : Generator[g] \in Word30
  BY BitsWord DEF Generator

\* Which is why a set can stand for them.
LEMMA GeneratorsDiffer ==
  \A g, h \in 1 .. 5 : g # h => Generator[g] # Generator[h]
<1>1. /\ 0 \notin Generator[1] /\ 0 \in Generator[2] /\ 0 \notin Generator[3]
      /\ 0 \in Generator[4] /\ 0 \in Generator[5]
  BY DEF Generator, Bits
<1>2. /\ 1 \in Generator[1] /\ 1 \notin Generator[2] /\ 1 \in Generator[3]
      /\ 1 \notin Generator[4] /\ 1 \in Generator[5]
  BY DEF Generator, Bits
<1>3. /\ 3 \notin Generator[1] /\ 3 \in Generator[2] /\ 3 \in Generator[3]
      /\ 3 \in Generator[4] /\ 3 \notin Generator[5]
  BY DEF Generator, Bits
<1>4. 4 \notin Generator[2] /\ 4 \in Generator[4]
  BY DEF Generator, Bits
<1> QED  BY <1>1, <1>2, <1>3, <1>4

\* The terms of two sums that differ in one of them.
LEMMA XorMoves ==
  ASSUME NEW x, NEW z, NEW w1, NEW w2, NEW w3, NEW w4, NEW w5,
         NEW v1, NEW v2, NEW v3, NEW v4, NEW v5,
         \/ w1 = x /\ v1 = {} /\ w2 = v2 /\ w3 = v3 /\ w4 = v4 /\ w5 = v5
         \/ w2 = x /\ v2 = {} /\ w1 = v1 /\ w3 = v3 /\ w4 = v4 /\ w5 = v5
         \/ w3 = x /\ v3 = {} /\ w1 = v1 /\ w2 = v2 /\ w4 = v4 /\ w5 = v5
         \/ w4 = x /\ v4 = {} /\ w1 = v1 /\ w2 = v2 /\ w3 = v3 /\ w5 = v5
         \/ w5 = x /\ v5 = {} /\ w1 = v1 /\ w2 = v2 /\ w3 = v3 /\ w4 = v4
  PROVE  Xor(w1, Xor(w2, Xor(w3, Xor(w4, Xor(w5, z))))) =
           Xor(x, Xor(v1, Xor(v2, Xor(v3, Xor(v4, Xor(v5, z))))))
<1>1. \A a : Xor({}, a) = a
  BY XorLaws
<1>2. \A a, b, c : Xor(a, Xor(b, c)) = Xor(b, Xor(a, c))
  BY XorSwaps
<1>3. CASE w1 = x /\ v1 = {} /\ w2 = v2 /\ w3 = v3 /\ w4 = v4 /\ w5 = v5
  BY <1>1, <1>2, <1>3
<1>4. CASE w2 = x /\ v2 = {} /\ w1 = v1 /\ w3 = v3 /\ w4 = v4 /\ w5 = v5
  BY <1>1, <1>2, <1>4
<1>5. CASE w3 = x /\ v3 = {} /\ w1 = v1 /\ w2 = v2 /\ w4 = v4 /\ w5 = v5
  BY <1>1, <1>2, <1>5
<1>6. CASE w4 = x /\ v4 = {} /\ w1 = v1 /\ w2 = v2 /\ w3 = v3 /\ w5 = v5
  BY <1>1, <1>2, <1>6
<1>7. CASE w5 = x /\ v5 = {} /\ w1 = v1 /\ w2 = v2 /\ w3 = v3 /\ w4 = v4
  BY <1>1, <1>2, <1>7
<1> QED  BY <1>3, <1>4, <1>5, <1>6, <1>7

SumIn(t, base) ==
  Folded(Generator[1] \in t, Generator[2] \in t, Generator[3] \in t, Generator[4] \in t,
         Generator[5] \in t, base)

\* What one generator adds to the sum of a set of them.
LEMMA SumTakes ==
  ASSUME NEW t, NEW base, NEW g \in 1 .. 5, Generator[g] \in t
  PROVE  SumIn(t, base) = Xor(Generator[g], SumIn(t \ {Generator[g]}, base))
<1> DEFINE w(n) == When(Generator[n] \in t, Generator[n])
           v(n) == When(Generator[n] \in t \ {Generator[g]}, Generator[n])
<1>1. w(g) = Generator[g] /\ v(g) = {}
  BY DEF When
<1>2. \A n \in 1 .. 5 : n # g => w(n) = v(n)
  <2> SUFFICES ASSUME NEW n \in 1 .. 5, n # g PROVE w(n) = v(n)
    OBVIOUS
  <2>1. Generator[n] # Generator[g]
    BY GeneratorsDiffer
  <2>2. CASE Generator[n] \in t  BY <2>1, <2>2 DEF When
  <2>3. CASE Generator[n] \notin t  BY <2>3 DEF When
  <2> QED  BY <2>2, <2>3
<1>3. /\ SumIn(t, base) = Xor(w(1), Xor(w(2), Xor(w(3), Xor(w(4), Xor(w(5), base)))))
      /\ SumIn(t \ {Generator[g]}, base) = Xor(v(1), Xor(v(2), Xor(v(3), Xor(v(4), Xor(v(5), base)))))
  BY DEF SumIn, Folded
<1> HIDE DEF w, v
<1>4. \/ w(1) = Generator[g] /\ v(1) = {} /\ w(2) = v(2) /\ w(3) = v(3) /\ w(4) = v(4) /\ w(5) = v(5)
      \/ w(2) = Generator[g] /\ v(2) = {} /\ w(1) = v(1) /\ w(3) = v(3) /\ w(4) = v(4) /\ w(5) = v(5)
      \/ w(3) = Generator[g] /\ v(3) = {} /\ w(1) = v(1) /\ w(2) = v(2) /\ w(4) = v(4) /\ w(5) = v(5)
      \/ w(4) = Generator[g] /\ v(4) = {} /\ w(1) = v(1) /\ w(2) = v(2) /\ w(3) = v(3) /\ w(5) = v(5)
      \/ w(5) = Generator[g] /\ v(5) = {} /\ w(1) = v(1) /\ w(2) = v(2) /\ w(3) = v(3) /\ w(4) = v(4)
  <2>1. \A n \in 1 .. 5 : n # g => w(n) = v(n)
    BY <1>2
  <2>2. g = 1 \/ g = 2 \/ g = 3 \/ g = 4 \/ g = 5
    OBVIOUS
  <2> QED  BY <1>1, <2>1, <2>2
<1> DEFINE w1 == w(1)  w2 == w(2)  w3 == w(3)  w4 == w(4)  w5 == w(5)
           v1 == v(1)  v2 == v(2)  v3 == v(3)  v4 == v(4)  v5 == v(5)
           x == Generator[g]
<1>5. Xor(w1, Xor(w2, Xor(w3, Xor(w4, Xor(w5, base))))) =
        Xor(x, Xor(v1, Xor(v2, Xor(v3, Xor(v4, Xor(v5, base))))))
  <2>1. \/ w1 = x /\ v1 = {} /\ w2 = v2 /\ w3 = v3 /\ w4 = v4 /\ w5 = v5
        \/ w2 = x /\ v2 = {} /\ w1 = v1 /\ w3 = v3 /\ w4 = v4 /\ w5 = v5
        \/ w3 = x /\ v3 = {} /\ w1 = v1 /\ w2 = v2 /\ w4 = v4 /\ w5 = v5
        \/ w4 = x /\ v4 = {} /\ w1 = v1 /\ w2 = v2 /\ w3 = v3 /\ w5 = v5
        \/ w5 = x /\ v5 = {} /\ w1 = v1 /\ w2 = v2 /\ w3 = v3 /\ w4 = v4
    BY <1>4
  <2> HIDE DEF w1, w2, w3, w4, w5, v1, v2, v3, v4, v5, x
  <2> QED  BY <2>1, XorMoves
<1> QED  BY <1>3, <1>5

\* The fold of _bech32m_polymod_step, generator by generator.
LEMMA PolymodStep ==
  ASSUME NEW pre
  PROVE  polymod_step(pre) = StepOf(pre)
<1> DEFINE S == {Generator[g] : g \in {g \in 1 .. 5 : 24 + g \in pre}}
           base == Shifted(pre)
           body(f, s) == IF s = {} THEN base
                         ELSE LET x == CHOOSE x \in s : TRUE IN Xor(x, f[s \ {x}])
           iter[s \in SUBSET S] == IF s = {} THEN base
                         ELSE LET x == CHOOSE x \in s : TRUE IN Xor(x, iter[s \ {x}])
           H(t) == SumIn(t, base)
           h == [t \in SUBSET S |-> H(t)]
<1>1. polymod_step(pre) = iter[S]
  BY DEF polymod_step, FoldSet, MapThenFoldSet, Shifted
<1>2. S \subseteq {Generator[1], Generator[2], Generator[3], Generator[4], Generator[5]}
  OBVIOUS
<1>3. \A t \in SUBSET S : t # {} =>
         LET x == CHOOSE x \in t : TRUE IN x \in t /\ H(t) = Xor(x, H(t \ {x}))
  <2> SUFFICES ASSUME NEW t \in SUBSET S, NEW x \in t
               PROVE  H(t) = Xor(x, H(t \ {x}))
    <3> HIDE DEF H, S
    <3> QED  OBVIOUS
  <2>1. PICK g \in 1 .. 5 : x = Generator[g]
    BY <1>2
  <2> QED  BY <2>1, SumTakes
<1>4. H({}) = base
  BY XorLaws DEF SumIn, Folded, When
<1>5. \A t \in SUBSET S : h[t] = body(h, t)
  <2> HIDE DEF H, S, base
  <2> QED  BY <1>3, <1>4
<1>6. h = [s \in SUBSET S |-> body(h, s)]
  <2> HIDE DEF body, H, S
  <2> QED  BY <1>5
<1>7. iter = [s \in SUBSET S |-> body(iter, s)]
  <2> HIDE DEF h, S, base
  <2> QED  BY <1>6
<1> HIDE DEF iter, h
<1>8. IsFiniteSet(S)
  <2>1. IsFiniteSet({Generator[1], Generator[2], Generator[3], Generator[4], Generator[5]})
    <3> DEFINE g1 == Generator[1]  g2 == Generator[2]  g3 == Generator[3]
               g4 == Generator[4]  g5 == Generator[5]
    <3> HIDE DEF g1, g2, g3, g4, g5
    <3>1. IsFiniteSet({g1})
      BY FS_Singleton
    <3>2. IsFiniteSet({g1} \cup {g2})
      BY <3>1, FS_AddElement
    <3>3. IsFiniteSet({g1, g2} \cup {g3})
      BY <3>2, FS_AddElement
    <3>4. IsFiniteSet({g1, g2, g3} \cup {g4})
      BY <3>3, FS_AddElement
    <3>5. IsFiniteSet({g1, g2, g3, g4} \cup {g5})
      BY <3>4, FS_AddElement
    <3>6. {g1, g2, g3, g4} \cup {g5} = {g1, g2, g3, g4, g5}
      OBVIOUS
    <3> QED  BY <3>5, <3>6 DEF g1, g2, g3, g4, g5
  <2> QED  BY <1>2, <2>1, FS_Subset
<1> DEFINE T == {n \in Nat : \A t \in SUBSET S : Cardinality(t) = n => iter[t] = H(t)}
<1> HIDE DEF S, base
<1>9. ASSUME NEW n \in Nat, \A j \in 0 .. n - 1 : j \in T
      PROVE  n \in T
  <2> SUFFICES ASSUME NEW t \in SUBSET S, Cardinality(t) = n
               PROVE  iter[t] = H(t)
    OBVIOUS
  <2>1. CASE t = {}
    BY <1>4, <1>7, <2>1
  <2>2. CASE t # {}
    <3> DEFINE x == CHOOSE x \in t : TRUE
    <3>1. x \in t /\ H(t) = Xor(x, H(t \ {x}))
      BY <1>3, <2>2
    <3>2. iter[t] = Xor(x, iter[t \ {x}])
      <4> HIDE DEF H
      <4> QED  BY <1>7, <2>2
    <3> HIDE DEF x, H
    <3>3. IsFiniteSet(t)
      BY <1>8, FS_Subset
    <3>4. Cardinality(t \ {x}) = n - 1 /\ Cardinality(t \ {x}) \in Nat
      BY <3>1, <3>3, FS_RemoveElement, FS_CardinalityType
    <3>5. n - 1 \in T /\ t \ {x} \in SUBSET S
      BY <1>9, <3>4
    <3>6. iter[t \ {x}] = H(t \ {x})
      BY <3>4, <3>5
    <3> QED  BY <3>1, <3>2, <3>6
  <2> QED  BY <2>1, <2>2
<1>10. \A n \in Nat : n \in T
  <2> HIDE DEF T
  <2> QED  BY <1>9, StrongInduction
<1>11. iter[S] = H(S)
  <2>1. Cardinality(S) \in Nat
    BY <1>8, FS_CardinalityType
  <2> HIDE DEF H
  <2> QED  BY <1>10, <2>1
<1>12. H(S) = StepOf(pre)
  <2>1. \A g \in 1 .. 5 : Generator[g] \in S <=> 24 + g \in pre
    BY GeneratorsDiffer DEF S
  <2>2. 24 + 1 = 25 /\ 24 + 2 = 26 /\ 24 + 3 = 27 /\ 24 + 4 = 28 /\ 24 + 5 = 29
    OBVIOUS
  <2>3. /\ Generator[1] \in S <=> 25 \in pre
        /\ Generator[2] \in S <=> 26 \in pre
        /\ Generator[3] \in S <=> 27 \in pre
        /\ Generator[4] \in S <=> 28 \in pre
        /\ Generator[5] \in S <=> 29 \in pre
    BY <2>1, <2>2
  <2> QED  BY <2>3 DEF StepOf, SumIn, Folded, When, base
<1> QED  BY <1>1, <1>11, <1>12

LEMMA StepWord == ASSUME NEW pre PROVE polymod_step(pre) \in Word30
<1>1. Shifted(pre) \in Word30 /\ {} \in Word30
  BY DEF Shifted, Word30
<1>2. \A p, x : x \in Word30 => When(p, x) \in Word30
  BY <1>1 DEF When
<1> QED  BY <1>1, <1>2, PolymodStep, GeneratorsWord, XorWord DEF StepOf, Folded
-----------------------------------------------------------------------------
(* The six characters of the checksum. *)

Place(t, b, value) == IF b \in t THEN value ELSE 0
Value5(t) ==
  Place(t, 0, 1) + Place(t, 1, 2) + Place(t, 2, 4) + Place(t, 3, 8) + Place(t, 4, 16)

LEMMA Value5Takes ==
  ASSUME NEW t, NEW b \in 0 .. 4, b \in t
  PROVE  Value5(t) = Value5(t \ {b}) + 2^b /\ Value5(t \ {b}) \in Nat
<1>1. CASE b = 0  BY <1>1 DEF Value5, Place
<1>2. CASE b = 1  BY <1>2 DEF Value5, Place
<1>3. CASE b = 2  BY <1>3 DEF Value5, Place
<1>4. CASE b = 3  BY <1>4 DEF Value5, Place
<1>5. CASE b = 4  BY <1>5 DEF Value5, Place
<1> QED  BY <1>1, <1>2, <1>3, <1>4, <1>5

FiveBits(sum, n) == {b \in 0 .. 4 : b + 5 * (5 - n) \in sum}

\* The fold adds the values of five bits.
LEMMA SymbolValue ==
  ASSUME NEW sum, NEW n
  PROVE  ChecksumSymbol(sum, n) = Value5(FiveBits(sum, n))
<1> DEFINE S == FiveBits(sum, n)
           iter[s \in SUBSET S] == IF s = {} THEN 0
                         ELSE LET x == CHOOSE x \in s : TRUE IN iter[s \ {x}] + 2^x
           body(f, s) == IF s = {} THEN 0
                         ELSE LET x == CHOOSE x \in s : TRUE IN f[s \ {x}] + 2^x
           h == [t \in SUBSET S |-> Value5(t)]
<1>1. ChecksumSymbol(sum, n) = iter[S]
  BY DEF ChecksumSymbol, FoldSet, MapThenFoldSet, FiveBits
<1>2. S \subseteq 0 .. 4
  BY DEF FiveBits
<1> HIDE DEF S
<1>3. \A t \in SUBSET S : t # {} =>
         LET x == CHOOSE x \in t : TRUE
         IN  x \in t /\ Value5(t) = Value5(t \ {x}) + 2^x
  <2> SUFFICES ASSUME NEW t \in SUBSET S, NEW x \in t
               PROVE  Value5(t) = Value5(t \ {x}) + 2^x
    OBVIOUS
  <2> QED  BY <1>2, Value5Takes
<1>4. Value5({}) = 0
  BY DEF Value5, Place
<1>5. h = [s \in SUBSET S |-> body(h, s)]
  <2>1. \A t \in SUBSET S : h[t] = body(h, t)
    BY <1>3, <1>4
  <2> HIDE DEF body
  <2> QED  BY <2>1
<1>6. iter = [s \in SUBSET S |-> body(iter, s)]
  <2> HIDE DEF h
  <2> QED  BY <1>5
<1> HIDE DEF iter, h
<1>7. IsFiniteSet(S)
  <2>1. S \in SUBSET Nat /\ 4 \in Nat /\ \A s \in S : s <= 4
    BY <1>2
  <2> QED  BY <2>1, FS_BoundedSetOfNaturals
<1> DEFINE T == {m \in Nat : \A t \in SUBSET S : Cardinality(t) = m => iter[t] = Value5(t)}
<1>8. ASSUME NEW m \in Nat, \A j \in 0 .. m - 1 : j \in T
      PROVE  m \in T
  <2> SUFFICES ASSUME NEW t \in SUBSET S, Cardinality(t) = m
               PROVE  iter[t] = Value5(t)
    OBVIOUS
  <2>1. CASE t = {}
    BY <1>4, <1>6, <2>1
  <2>2. CASE t # {}
    <3> DEFINE x == CHOOSE x \in t : TRUE
    <3>1. x \in t /\ Value5(t) = Value5(t \ {x}) + 2^x
      BY <1>3, <2>2
    <3>2. iter[t] = iter[t \ {x}] + 2^x
      BY <1>6, <2>2
    <3> HIDE DEF x
    <3>3. IsFiniteSet(t)
      BY <1>7, FS_Subset
    <3>4. Cardinality(t \ {x}) = m - 1 /\ Cardinality(t \ {x}) \in Nat
      BY <3>1, <3>3, FS_RemoveElement, FS_CardinalityType
    <3>5. m - 1 \in T /\ t \ {x} \in SUBSET S
      BY <1>8, <3>4
    <3>6. iter[t \ {x}] = Value5(t \ {x})
      BY <3>4, <3>5
    <3> QED  BY <3>1, <3>2, <3>6
  <2> QED  BY <2>1, <2>2
<1>9. \A m \in Nat : m \in T
  <2> HIDE DEF T
  <2> QED  BY <1>8, StrongInduction
<1>10. iter[S] = Value5(S)
  <2>1. Cardinality(S) \in Nat
    BY <1>7, FS_CardinalityType
  <2> QED  BY <1>9, <2>1
<1> QED  BY <1>1, <1>10 DEF S

LEMMA SymbolType ==
  ASSUME NEW sum, NEW n
  PROVE  ChecksumSymbol(sum, n) \in 0 .. 31
BY SymbolValue DEF Value5, Place
-----------------------------------------------------------------------------
(* Texts of every length. *)

\* The checksum of a text, symbol by symbol.
PolymodOf(s, t, g) ==
  IF t = {} THEN Bits(1) ELSE Xor(polymod_step(g[t \ {Max(t)}]), Bits(s[Max(t)]))

\* The greatest number of a set, and of the numbers up to j + 1.
LEMMA MaxOf ==
  ASSUME NEW n \in Nat, NEW t \in SUBSET (1 .. n), t # {}
  PROVE  Max(t) \in t /\ \A y \in t : Max(t) >= y
<1> DEFINE T == {d \in 0 .. n : n - d \in t}
<1>1. T \in SUBSET Nat /\ T # {}
  <2>1. PICK y \in t : TRUE
    OBVIOUS
  <2>2. y \in 1 .. n
    BY <2>1
  <2>3. n - y \in 0 .. n /\ n - (n - y) = y
    BY <2>2
  <2>4. n - y \in T
    BY <2>1, <2>3
  <2>5. T \in SUBSET Nat
    OBVIOUS
  <2> HIDE DEF T
  <2> QED  BY <2>4, <2>5
<1>2. PICK d \in T : \A e \in T : d <= e
  <2> HIDE DEF T
  <2> QED  BY <1>1, LeastNumber
<1>3. n - d \in t /\ \A y \in t : n - d >= y
  <2>1. ASSUME NEW y \in t PROVE n - d >= y
    <3>1. y \in 1 .. n /\ n - y \in 0 .. n /\ n - (n - y) = y
      OBVIOUS
    <3>2. n - y \in T
      BY <3>1
    <3> QED  BY <1>2, <3>1, <3>2
  <2> QED  BY <1>2, <2>1
<1> QED  BY <1>3 DEF Max

LEMMA LastOf ==
  ASSUME NEW n \in Nat, NEW j \in Nat, j + 1 <= n
  PROVE  /\ 1 .. j + 1 \in SUBSET (1 .. n) /\ 1 .. j + 1 # {} /\ j + 1 \in 1 .. n
         /\ Max(1 .. j + 1) = j + 1 /\ (1 .. j + 1) \ {j + 1} = 1 .. j
<1>1. 1 .. j + 1 \in SUBSET (1 .. n) /\ 1 .. j + 1 # {} /\ j + 1 \in 1 .. n
  <2>1. j + 1 \in 1 .. n /\ j + 1 \in 1 .. j + 1
    OBVIOUS
  <2>2. \A x \in 1 .. j + 1 : x \in 1 .. n
    OBVIOUS
  <2> QED  BY <2>1, <2>2
<1>2. Max(1 .. j + 1) = j + 1
  <2> DEFINE t == 1 .. j + 1
             x == Max(t)
  <2>1. x \in t /\ \A y \in t : x >= y
    <3>1. t \in SUBSET (1 .. n) /\ t # {}
      BY <1>1
    <3> HIDE DEF t
    <3> QED  BY <3>1, MaxOf
  <2> HIDE DEF x
  <2>2. x >= j + 1 /\ x <= j + 1 /\ x \in Int
    BY <2>1
  <2> QED  BY <2>2 DEF x
<1>3. (1 .. j + 1) \ {j + 1} = 1 .. j
  OBVIOUS
<1> QED  BY <1>1, <1>2, <1>3

\* The fold of Polymod has a value for every set of places.
LEMMA PolymodDefined ==
  ASSUME NEW s, NEW n \in Nat
  PROVE  \E f \in [SUBSET (1 .. n) -> Word30] : \A t \in SUBSET (1 .. n) : f[t] = PolymodOf(s, t, f)
<1> DEFINE D == SUBSET (1 .. n)
           m == [t \in D |-> Cardinality(t)]
           F == [t \in D |-> [g \in [D -> Word30] |-> PolymodOf(s, t, g)]]
<1>1. IsFiniteSet(1 .. n) /\ Cardinality(1 .. n) = n
  BY FS_Interval
<1>2. \A t \in D : IsFiniteSet(t) /\ Cardinality(t) \in 0 .. n
  <2> SUFFICES ASSUME NEW t \in D PROVE IsFiniteSet(t) /\ Cardinality(t) \in 0 .. n
    OBVIOUS
  <2>1. IsFiniteSet(t) /\ Cardinality(t) <= Cardinality(1 .. n)
    BY <1>1, FS_Subset
  <2>2. Cardinality(t) \in Nat
    BY <2>1, FS_CardinalityType
  <2> QED  BY <1>1, <2>1, <2>2
<1>3. m \in [D -> 0 .. n]
  <2> HIDE DEF D
  <2> QED  BY <1>2
<1>4. Word30 # {} /\ \A t \in D : \A g \in [D -> Word30] : PolymodOf(s, t, g) \in Word30
  <2>1. \A n1 : Bits(n1) \in Word30
    BY BitsWord
  <2>2. \A a, b \in Word30 : Xor(a, b) \in Word30
    BY XorWord
  <2>3. \A a : polymod_step(a) \in Word30
    BY StepWord
  <2> QED  BY <2>1, <2>2, <2>3 DEF PolymodOf
<1>5. F \in [D -> [[D -> Word30] -> Word30]]
  <2> HIDE DEF D
  <2> QED  BY <1>4
<1>6. ASSUME NEW t \in D, NEW g \in [D -> Word30], NEW h \in [D -> Word30],
             \A y \in D : m[y] < m[t] => g[y] = h[y]
      PROVE  F[t][g] = F[t][h]
  <2>1. CASE t = {}
    BY <1>6, <2>1 DEF PolymodOf
  <2>2. CASE t # {}
    <3> DEFINE r == t \ {Max(t)}
    <3>1. Max(t) \in t
      BY <2>2, MaxOf
    <3>2. r \in D /\ Cardinality(r) = Cardinality(t) - 1 /\ Cardinality(t) \in Nat
      BY <1>2, <3>1, FS_RemoveElement
    <3>3. m[r] < m[t]
      BY <3>2
    <3>4. g[r] = h[r]
      BY <1>6, <3>2, <3>3
    <3> QED  BY <1>6, <2>2, <3>4 DEF PolymodOf
  <2> QED  BY <2>1, <2>2
<1>7. Grounded(D, Word30, n, m, F)
  <2> HIDE DEF D, m, F
  <2> QED  BY <1>3, <1>4, <1>5, <1>6 DEF Grounded
<1>8. PICK f \in [D -> Word30] : \A t \in D : f[t] = F[t][f]
  <2>1. Defines(D, Word30, F)
    <3> HIDE DEF D, m, F
    <3> QED  BY <1>7, RecursionDefined
  <2> QED  BY <2>1 DEF Defines
<1>9. \A t \in D : f[t] = PolymodOf(s, t, f)
  BY <1>8
<1> QED  BY <1>8, <1>9

\* A function that goes along with the steps of the checksum ends with it.
LEMMA PolymodIs ==
  ASSUME NEW s, NEW n \in Nat, DOMAIN s = 1 .. n, NEW f, f[0] = Bits(1),
         \A j \in 1 .. n : f[j] = Xor(polymod_step(f[j - 1]), Bits(s[j]))
  PROVE  Polymod(s) = f[n]
<1> DEFINE D == SUBSET (1 .. n)
           iter[t \in SUBSET (1 .. n)] ==
             IF t = {} THEN Bits(1)
             ELSE LET x == Max(t) IN Xor(polymod_step(iter[t \ {x}]), Bits(s[x]))
<1>1. Polymod(s) = iter[1 .. n]
  BY DEF Polymod, FoldLeft, MapThenFoldSet
<1>2. PICK h \in [D -> Word30] : \A t \in D : h[t] = PolymodOf(s, t, h)
  BY PolymodDefined
<1>3. h = [t \in D |-> IF t = {} THEN Bits(1)
                      ELSE LET x == Max(t) IN Xor(polymod_step(h[t \ {x}]), Bits(s[x]))]
  <2> HIDE DEF D
  <2> QED  BY <1>2 DEF PolymodOf
<1>4. iter = [t \in D |-> IF t = {} THEN Bits(1)
                      ELSE LET x == Max(t) IN Xor(polymod_step(iter[t \ {x}]), Bits(s[x]))]
  BY <1>3
<1>5. \A t \in D : iter[t] = PolymodOf(s, t, iter)
  <2> HIDE DEF D, iter
  <2> QED  BY <1>4 DEF PolymodOf
<1> HIDE DEF iter
<1> DEFINE T == {j \in Nat : j <= n => iter[1 .. j] = f[j]}
<1>6. 0 \in T
  <2>1. 1 .. 0 = {} /\ 1 .. 0 \in D
    OBVIOUS
  <2> QED  BY <1>5, <2>1 DEF PolymodOf
<1>7. ASSUME NEW j \in Nat, j \in T
      PROVE  j + 1 \in T
  <2> SUFFICES ASSUME j + 1 <= n PROVE iter[1 .. j + 1] = f[j + 1]
    OBVIOUS
  <2>1. 1 .. j + 1 \in D /\ 1 .. j + 1 # {} /\ j + 1 \in 1 .. n
        /\ Max(1 .. j + 1) = j + 1 /\ (1 .. j + 1) \ {j + 1} = 1 .. j
    BY LastOf
  <2>4. iter[1 .. j + 1] = Xor(polymod_step(iter[1 .. j]), Bits(s[j + 1]))
    BY <1>5, <2>1 DEF PolymodOf
  <2>5. f[j + 1] = Xor(polymod_step(f[j]), Bits(s[j + 1]))
    <3>1. j + 1 - 1 = j
      OBVIOUS
    <3> QED  BY <2>1, <3>1
  <2>6. iter[1 .. j] = f[j]
    BY <1>7
  <2> QED  BY <2>4, <2>5, <2>6
<1>8. n \in T
  <2> HIDE DEF T
  <2> QED  BY <1>6, <1>7, Induction
<1> QED  BY <1>1, <1>8

\* The first n of a sequence.
Take(s, n) == [j \in 1 .. n |-> s[j]]

\* The checksum of a beginning, from that of the beginning before it.
LEMMA PolymodTakes ==
  ASSUME NEW s, NEW n \in Nat
  PROVE  /\ Polymod(Take(s, 0)) = Bits(1)
         /\ Polymod(Take(s, n + 1)) = Xor(polymod_step(Polymod(Take(s, n))), Bits(s[n + 1]))
<1>0. n + 1 \in Nat
  OBVIOUS
<1>1. PICK h \in [SUBSET (1 .. n + 1) -> Word30] :
        \A t \in SUBSET (1 .. n + 1) : h[t] = PolymodOf(s, t, h)
  BY <1>0, PolymodDefined
<1> DEFINE f == [j \in 0 .. n + 1 |-> h[1 .. j]]
<1>2. f[0] = Bits(1)
  <2>1. 1 .. 0 = {} /\ 1 .. 0 \in SUBSET (1 .. n + 1) /\ 0 \in 0 .. n + 1
    OBVIOUS
  <2>2. h[1 .. 0] = Bits(1)
    BY <1>1, <2>1 DEF PolymodOf
  <2> QED  BY <2>1, <2>2
<1>3. ASSUME NEW j \in 1 .. n + 1
      PROVE  f[j] = Xor(polymod_step(f[j - 1]), Bits(s[j]))
  <2> DEFINE p == j - 1
  <2>1. p \in Nat /\ j = p + 1 /\ p + 1 <= n + 1 /\ p \in 0 .. n + 1 /\ p + 1 \in 0 .. n + 1
    OBVIOUS
  <2> HIDE DEF p
  <2>2. 1 .. p + 1 \in SUBSET (1 .. n + 1) /\ 1 .. p + 1 # {}
        /\ Max(1 .. p + 1) = p + 1 /\ (1 .. p + 1) \ {p + 1} = 1 .. p
    BY <2>1, LastOf
  <2>3. h[1 .. p + 1] = Xor(polymod_step(h[1 .. p]), Bits(s[p + 1]))
    BY <1>1, <2>2 DEF PolymodOf
  <2>4. f[p + 1] = Xor(polymod_step(f[p]), Bits(s[p + 1]))
    BY <2>1, <2>3
  <2> QED  BY <2>1, <2>4 DEF p
<1> HIDE DEF f
<1>4. ASSUME NEW m \in 0 .. n + 1
      PROVE  Polymod(Take(s, m)) = f[m]
  <2> DEFINE u == Take(s, m)
  <2>1. DOMAIN u = 1 .. m /\ \A j \in 1 .. m : u[j] = s[j]
    BY DEF Take
  <2> HIDE DEF u
  <2>2. \A j \in 1 .. m : f[j] = Xor(polymod_step(f[j - 1]), Bits(u[j]))
    <3> SUFFICES ASSUME NEW j \in 1 .. m
                 PROVE  f[j] = Xor(polymod_step(f[j - 1]), Bits(u[j]))
      OBVIOUS
    <3>1. j \in 1 .. n + 1
      OBVIOUS
    <3>2. f[j] = Xor(polymod_step(f[j - 1]), Bits(s[j]))
      BY <1>3, <3>1
    <3> QED  BY <2>1, <3>2
  <2>3. m \in Nat
    OBVIOUS
  <2>4. Polymod(u) = f[m]
    BY <1>2, <2>1, <2>2, <2>3, PolymodIs
  <2> QED  BY <2>4 DEF u
<1>5. 0 \in 0 .. n + 1 /\ n \in 0 .. n + 1 /\ n + 1 \in 0 .. n + 1 /\ n + 1 \in 1 .. n + 1 /\ n + 1 - 1 = n
  OBVIOUS
<1> DEFINE g == n + 1
<1> HIDE DEF g
<1>6. Polymod(Take(s, 0)) = f[0] /\ Polymod(Take(s, n)) = f[n] /\ Polymod(Take(s, g)) = f[g]
  BY <1>4, <1>5 DEF g
<1>7. f[g] = Xor(polymod_step(f[n]), Bits(s[g]))
  BY <1>3, <1>5 DEF g
<1> QED  BY <1>2, <1>6, <1>7 DEF g
-----------------------------------------------------------------------------
(* The text of an address and the groups of its bytes. *)

\* A beginning of s, and the whole of it.
LEMMA TakeIs ==
  ASSUME NEW S, NEW s \in Seq(S), NEW n \in 0 .. Len(s)
  PROVE  /\ Take(s, n) \in Seq(S) /\ Len(Take(s, n)) = n
         /\ \A j \in 1 .. n : Take(s, n)[j] = s[j]
<1>1. Len(s) \in Nat /\ \A j \in 1 .. Len(s) : s[j] \in S
  BY LenProperties, ElementOfSeq
<1>2. \A j \in 1 .. n : s[j] \in S
  BY <1>1
<1> DEFINE t == [j \in 1 .. n |-> s[j]]
<1>3. n \in Nat /\ t = [j \in 1 .. n |-> t[j]] /\ \A j \in 1 .. n : t[j] \in S /\ t[j] = s[j]
  BY <1>1, <1>2
<1> HIDE DEF t
<1>4. t \in Seq(S) /\ Len(t) = n
  BY <1>3
<1> QED  BY <1>3, <1>4 DEF Take, t

LEMMA TakeAll ==
  ASSUME NEW S, NEW s \in Seq(S)
  PROVE  Take(s, Len(s)) = s
BY LenProperties DEF Take

\* One more element.
LEMMA TakeNext ==
  ASSUME NEW S, NEW s \in Seq(S), NEW n \in Nat, n < Len(s)
  PROVE  Take(s, n + 1) = Take(s, n) \o <<s[n + 1]>>
<1> DEFINE a == Take(s, n)
           b == <<s[n + 1]>>
           c == Take(s, n + 1)
<1>1. n + 1 \in 1 .. Len(s) /\ n \in 0 .. Len(s) /\ n + 1 \in 0 .. Len(s) /\ Len(s) \in Nat
  BY LenProperties
<1>2. s[n + 1] \in S
  BY <1>1, ElementOfSeq
<1>3. a \in Seq(S) /\ Len(a) = n /\ \A j \in 1 .. n : a[j] = s[j]
  BY <1>1, TakeIs
<1>4. c \in Seq(S) /\ Len(c) = n + 1 /\ \A j \in 1 .. n + 1 : c[j] = s[j]
  BY <1>1, TakeIs
<1>5. b \in Seq(S) /\ Len(b) = 1 /\ b[1] = s[n + 1]
  BY <1>2
<1> HIDE DEF a, b, c
<1>6. a \o b \in Seq(S) /\ Len(a \o b) = n + 1
      /\ \A j \in 1 .. n + 1 : (a \o b)[j] = IF j <= n THEN a[j] ELSE b[j - n]
  <2>1. a \in Seq(S) /\ b \in Seq(S)
    BY <1>3, <1>5
  <2>2. a \o b \in Seq(S) /\ Len(a \o b) = Len(a) + Len(b)
        /\ \A j \in 1 .. Len(a) + Len(b) : (a \o b)[j] = IF j <= Len(a) THEN a[j] ELSE b[j - Len(a)]
    BY <2>1, ConcatProperties
  <2> QED  BY <1>3, <1>5, <2>2
<1>7. \A j \in 1 .. n + 1 : c[j] = (a \o b)[j]
  <2> SUFFICES ASSUME NEW j \in 1 .. n + 1 PROVE c[j] = (a \o b)[j]
    OBVIOUS
  <2>1. CASE j <= n
    <3>1. j \in 1 .. n
      BY <2>1
    <3> QED  BY <1>3, <1>4, <1>6, <2>1, <3>1
  <2>2. CASE ~(j <= n)
    <3>1. j = n + 1 /\ j - n = 1
      BY <2>2
    <3> QED  BY <1>4, <1>5, <1>6, <2>2, <3>1
  <2> QED  BY <2>1, <2>2
<1>8. c = a \o b
  BY <1>4, <1>6, <1>7, SeqEqual
<1> QED  BY <1>8 DEF a, b, c

\* Of two beginnings one begins the other.
LEMMA TakeOfTake ==
  ASSUME NEW S, NEW s \in Seq(S), NEW n \in 0 .. Len(s), NEW m \in 0 .. n
  PROVE  IsPrefix(Take(s, m), Take(s, n))
<1> DEFINE a == Take(s, m)
           b == Take(s, n)
<1>1. m \in 0 .. Len(s) /\ Len(s) \in Nat
  BY LenProperties
<1>2. a \in Seq(S) /\ Len(a) = m /\ \A j \in 1 .. m : a[j] = s[j]
  BY <1>1, TakeIs
<1>3. b \in Seq(S) /\ Len(b) = n /\ \A j \in 1 .. n : b[j] = s[j]
  BY TakeIs
<1> HIDE DEF a, b
<1>4. \A j \in 1 .. m : b[j] = a[j]
  BY <1>2, <1>3
<1>5. a = SubSeq(b, 1, m)
  <2>1. SubSeq(b, 1, m) = [j \in 1 .. (1 + m - 1) |-> b[1 + j - 1]]
    BY DEF SubSeq
  <2>2. a = [j \in 1 .. m |-> a[j]]
    BY <1>2
  <2>3. \A j \in 1 .. m : 1 + j - 1 = j
    OBVIOUS
  <2> QED  BY <1>4, <2>1, <2>2, <2>3
<1> QED  BY <1>2, <1>3, <1>5 DEF IsPrefix, a, b
-----------------------------------------------------------------------------
(* One sequence behind the other. *)

\* The first n of the sequences ps, one behind the other.
Flat(ps, n) ==
  LET flatten[j \in 1 .. Len(ps)] == IF j = 1 THEN ps[j] ELSE flatten[j - 1] \o ps[j]
  IN  flatten[n]

FlatOf(ps, j, g) == IF j = 1 THEN ps[j] ELSE g[j - 1] \o ps[j]

\* The recursive definition has a value.
LEMMA FlatDefined ==
  ASSUME NEW S, NEW ps \in Seq(Seq(S))
  PROVE  \E f \in [1 .. Len(ps) -> Seq(S)] : \A j \in 1 .. Len(ps) : f[j] = FlatOf(ps, j, f)
<1> DEFINE D == 1 .. Len(ps)
           V == Seq(S)
           m == [j \in D |-> j]
           F == [j \in D |-> [g \in [D -> V] |-> FlatOf(ps, j, g)]]
<1>0. Len(ps) \in Nat /\ \A j \in D : ps[j] \in V
  BY LenProperties, ElementOfSeq
<1>1. m \in [D -> 0 .. Len(ps)]
  <2>1. \A j \in D : j \in 0 .. Len(ps)
    BY <1>0
  <2> HIDE DEF D
  <2> QED  BY <2>1
<1>2. ASSUME NEW j \in D, NEW g \in [D -> V] PROVE FlatOf(ps, j, g) \in V
  <2>1. CASE j = 1
    BY <1>0, <2>1 DEF FlatOf
  <2>2. CASE j # 1
    <3>1. j - 1 \in D
      BY <1>0, <2>2
    <3>2. g[j - 1] \in V /\ ps[j] \in V
      BY <1>0, <3>1
    <3> DEFINE a == g[j - 1]  b == ps[j]
    <3>3. a \in Seq(S) /\ b \in Seq(S)
      BY <3>2
    <3> HIDE DEF a, b
    <3>4. a \o b \in Seq(S)
      BY <3>3, ConcatProperties
    <3> QED  BY <2>2, <3>4 DEF FlatOf, a, b
  <2> QED  BY <2>1, <2>2
<1>3. F \in [D -> [[D -> V] -> V]]
  <2> HIDE DEF D, V
  <2> QED  BY <1>2
<1>4. ASSUME NEW j \in D, NEW g \in [D -> V], NEW h \in [D -> V],
             \A y \in D : m[y] < m[j] => g[y] = h[y]
      PROVE  F[j][g] = F[j][h]
  <2>1. CASE j = 1
    BY <1>4, <2>1 DEF FlatOf
  <2>2. CASE j # 1
    <3>1. j - 1 \in D /\ m[j - 1] < m[j]
      BY <1>0, <2>2
    <3>2. g[j - 1] = h[j - 1]
      BY <1>4, <3>1
    <3> QED  BY <1>4, <2>2, <3>2 DEF FlatOf
  <2> QED  BY <2>1, <2>2
<1>5. V # {}
  <2>1. << >> \in V
    BY EmptySeq
  <2> QED  BY <2>1
<1>6. Grounded(D, V, Len(ps), m, F)
  <2> HIDE DEF D, V, m, F
  <2> QED  BY <1>0, <1>1, <1>3, <1>4, <1>5 DEF Grounded
<1>7. PICK f \in [D -> V] : \A j \in D : f[j] = F[j][f]
  <2>1. Defines(D, V, F)
    <3> DEFINE N == Len(ps)
    <3> HIDE DEF D, V, m, F, N
    <3>1. Grounded(D, V, N, m, F)
      BY <1>6 DEF N
    <3> QED  BY <3>1, RecursionDefined
  <2> QED  BY <2>1 DEF Defines
<1>8. \A j \in D : f[j] = FlatOf(ps, j, f)
  BY <1>7
<1> QED  BY <1>7, <1>8

\* Unfolding it.
LEMMA FlatStep ==
  ASSUME NEW S, NEW ps \in Seq(Seq(S)), NEW n \in 1 .. Len(ps)
  PROVE  /\ Flat(ps, n) \in Seq(S)
         /\ Flat(ps, n) = IF n = 1 THEN ps[n] ELSE Flat(ps, n - 1) \o ps[n]
<1> DEFINE D == 1 .. Len(ps)
           flatten[j \in 1 .. Len(ps)] == IF j = 1 THEN ps[j] ELSE flatten[j - 1] \o ps[j]
<1>1. PICK f \in [D -> Seq(S)] : \A j \in D : f[j] = FlatOf(ps, j, f)
  BY FlatDefined
<1>2. f = [j \in D |-> IF j = 1 THEN ps[j] ELSE f[j - 1] \o ps[j]]
  <2> HIDE DEF D
  <2> QED  BY <1>1 DEF FlatOf
<1>3. flatten = [j \in D |-> IF j = 1 THEN ps[j] ELSE flatten[j - 1] \o ps[j]]
  BY <1>2
<1>4. \A j \in 1 .. Len(ps) : Flat(ps, j) = flatten[j]
  BY DEF Flat
<1> HIDE DEF flatten
<1>5. \A j \in D : flatten[j] = IF j = 1 THEN ps[j] ELSE flatten[j - 1] \o ps[j]
  <2> HIDE DEF D
  <2> QED  BY <1>3
<1>6. Len(ps) \in Nat /\ \A j \in 1 .. Len(ps) : ps[j] \in Seq(S)
  BY LenProperties, ElementOfSeq
<1> DEFINE T == {d \in Nat : d + 1 <= Len(ps) => flatten[d + 1] \in Seq(S)}
<1>7. 0 \in T
  <2>1. 0 + 1 = 1
    OBVIOUS
  <2>2. 1 <= Len(ps) => 1 \in D
    BY <1>6
  <2> QED  BY <1>5, <1>6, <2>1, <2>2
<1>8. ASSUME NEW d \in Nat, d \in T PROVE d + 1 \in T
  <2> SUFFICES ASSUME d + 1 + 1 <= Len(ps) PROVE flatten[d + 1 + 1] \in Seq(S)
    OBVIOUS
  <2>1. d + 1 + 1 \in D /\ d + 1 + 1 # 1 /\ d + 1 + 1 - 1 = d + 1 /\ d + 1 <= Len(ps)
    BY <1>6
  <2> DEFINE a == flatten[d + 1]  b == ps[d + 1 + 1]
  <2>2. a \in Seq(S) /\ b \in Seq(S) /\ flatten[d + 1 + 1] = a \o b
    <3> DEFINE q == d + 1 + 1
    <3>1. q \in D /\ q # 1 /\ q - 1 = d + 1
      BY <2>1
    <3>2. a \in Seq(S)
      BY <1>8, <2>1
    <3> HIDE DEF q, D
    <3>3. ps[q] \in Seq(S)
      BY <1>6, <3>1 DEF D
    <3>4. flatten[q] = flatten[q - 1] \o ps[q]
      BY <1>5, <3>1
    <3> QED  BY <3>1, <3>2, <3>3, <3>4 DEF q
  <2> HIDE DEF a, b
  <2>3. a \o b \in Seq(S)
    BY <2>2, ConcatProperties
  <2> QED  BY <2>2, <2>3
<1>9. \A d \in Nat : d \in T
  <2> HIDE DEF T
  <2> QED  BY <1>7, <1>8, Induction
<1>10. flatten[n] \in Seq(S)
  <2>1. n - 1 \in Nat /\ n - 1 + 1 = n
    BY <1>6
  <2>2. n - 1 \in T
    <3> HIDE DEF T
    <3> QED  BY <1>9, <2>1
  <2> QED  BY <1>6, <2>1, <2>2
<1>11. n # 1 => n - 1 \in 1 .. Len(ps)
  BY <1>6
<1> QED  BY <1>4, <1>5, <1>10, <1>11

\* Where the sequence number c begins in the whole.
Begins(ps, c) == IF c = 1 THEN 0 ELSE Len(Flat(ps, c - 1))

\* What the sequence number c adds to the whole.
LEMMA BeginsStep ==
  ASSUME NEW S, NEW ps \in Seq(Seq(S)), NEW c \in 1 .. Len(ps)
  PROVE  /\ Begins(ps, c) \in Nat /\ ps[c] \in Seq(S) /\ Len(ps[c]) \in Nat
         /\ Begins(ps, c + 1) = Begins(ps, c) + Len(ps[c])
         /\ Len(Flat(ps, c)) = Begins(ps, c + 1)
         /\ \A o \in 1 .. Begins(ps, c) : Flat(ps, c)[o] = Flat(ps, c - 1)[o]
         /\ \A o \in 1 .. Len(ps[c]) : Flat(ps, c)[Begins(ps, c) + o] = ps[c][o]
<1>1. Len(ps) \in Nat /\ ps[c] \in Seq(S) /\ c + 1 # 1 /\ c + 1 - 1 = c
  BY LenProperties, ElementOfSeq
<1>2. Len(ps[c]) \in Nat
  BY <1>1, LenProperties
<1>3. Begins(ps, c + 1) = Len(Flat(ps, c))
  BY <1>1 DEF Begins
<1>4. CASE c = 1
  <2>1. Flat(ps, c) = ps[c] /\ Begins(ps, c) = 0
    BY <1>4, FlatStep DEF Begins
  <2>2. \A o \in 1 .. Len(ps[c]) : 0 + o = o
    BY <1>2
  <2> QED  BY <1>1, <1>2, <1>3, <2>1, <2>2
<1>5. CASE c # 1
  <2> DEFINE p == c - 1
             a == Flat(ps, p)  b == ps[c]
  <2>1. p \in 1 .. Len(ps)
    BY <1>1, <1>5
  <2>2. a \in Seq(S) /\ b \in Seq(S) /\ Flat(ps, c) = a \o b
    BY <1>1, <1>5, <2>1, FlatStep
  <2>3. Begins(ps, c) = Len(a)
    BY <1>5 DEF Begins
  <2> HIDE DEF a, b
  <2>4. Len(a) \in Nat /\ Len(b) \in Nat
    BY <2>2, LenProperties
  <2>5. Len(a \o b) = Len(a) + Len(b)
        /\ \A o \in 1 .. Len(a) + Len(b) : (a \o b)[o] = IF o <= Len(a) THEN a[o] ELSE b[o - Len(a)]
    BY <2>2, ConcatProperties
  <2>6. \A o \in 1 .. Len(a) : (a \o b)[o] = a[o]
    BY <2>4, <2>5
  <2>7. \A o \in 1 .. Len(b) : (a \o b)[Len(a) + o] = b[o]
    <3> SUFFICES ASSUME NEW o \in 1 .. Len(b) PROVE (a \o b)[Len(a) + o] = b[o]
      OBVIOUS
    <3>1. Len(a) + o \in 1 .. Len(a) + Len(b) /\ ~(Len(a) + o <= Len(a)) /\ Len(a) + o - Len(a) = o
      BY <2>4
    <3> QED  BY <2>5, <3>1
  <2> QED  BY <1>1, <1>2, <1>3, <2>2, <2>3, <2>4, <2>5, <2>6, <2>7 DEF a, b
<1> QED  BY <1>4, <1>5

\* The bytes of the sequences in the whole.
LEMMA FlatHolds ==
  ASSUME NEW S, NEW ps \in Seq(Seq(S)), NEW n \in 1 .. Len(ps), NEW c \in 1 .. n,
         NEW o \in 1 .. Len(ps[c])
  PROVE  Begins(ps, c) + o <= Len(Flat(ps, n)) /\ Flat(ps, n)[Begins(ps, c) + o] = ps[c][o]
<1> DEFINE at == Begins(ps, c) + o
           T == {d \in Nat : c + d <= Len(ps) => at <= Len(Flat(ps, c + d)) /\ Flat(ps, c + d)[at] = ps[c][o]}
<1>0. Len(ps) \in Nat /\ c \in 1 .. Len(ps)
  BY LenProperties
<1>1. at \in Nat \ {0} /\ Len(ps[c]) \in Nat
  <2>1. Begins(ps, c) \in Nat /\ Len(ps[c]) \in Nat
    BY <1>0, BeginsStep
  <2> QED  BY <2>1
<1>2. 0 \in T
  <2>1. c + 0 = c
    OBVIOUS
  <2>2. at <= Len(Flat(ps, c)) /\ Flat(ps, c)[at] = ps[c][o]
    <3>1. Begins(ps, c) \in Nat /\ Len(ps[c]) \in Nat
          /\ Len(Flat(ps, c)) = Begins(ps, c) + Len(ps[c])
          /\ Flat(ps, c)[Begins(ps, c) + o] = ps[c][o]
      BY <1>0, BeginsStep
    <3> QED  BY <3>1
  <2> QED  BY <2>1, <2>2
<1> HIDE DEF at
<1>3. ASSUME NEW d \in Nat, d \in T PROVE d + 1 \in T
  <2> SUFFICES ASSUME c + (d + 1) <= Len(ps)
               PROVE  at <= Len(Flat(ps, c + (d + 1))) /\ Flat(ps, c + (d + 1))[at] = ps[c][o]
    OBVIOUS
  <2> DEFINE q == c + (d + 1)
             p == c + d
  <2>1. q \in 1 .. Len(ps) /\ p \in 1 .. Len(ps) /\ p = q - 1 /\ q # 1 /\ c + d <= Len(ps)
    BY <1>0
  <2>2. at <= Len(Flat(ps, p)) /\ Flat(ps, p)[at] = ps[c][o]
    BY <1>3, <2>1
  <2> HIDE DEF q, p
  <2>3. Begins(ps, q) = Len(Flat(ps, p))
    BY <2>1 DEF Begins
  <2>4. Begins(ps, q) \in Nat /\ Len(ps[q]) \in Nat /\ Len(Flat(ps, q)) = Begins(ps, q) + Len(ps[q])
        /\ \A x \in 1 .. Begins(ps, q) : Flat(ps, q)[x] = Flat(ps, q - 1)[x]
    <3>1. q \in 1 .. Len(ps)
      BY <2>1
    <3>2. /\ Begins(ps, q) \in Nat /\ Len(ps[q]) \in Nat
          /\ Begins(ps, q + 1) = Begins(ps, q) + Len(ps[q])
          /\ Len(Flat(ps, q)) = Begins(ps, q + 1)
          /\ \A x \in 1 .. Begins(ps, q) : Flat(ps, q)[x] = Flat(ps, q - 1)[x]
      BY <3>1, BeginsStep, ZenonT(60)
    <3> QED  BY <3>2
  <2>5. at \in 1 .. Begins(ps, q) /\ at <= Len(Flat(ps, q))
    BY <1>1, <2>2, <2>3, <2>4, SMTT(30)
  <2>6. Flat(ps, q)[at] = Flat(ps, p)[at]
    BY <2>1, <2>4, <2>5
  <2> QED  BY <2>2, <2>5, <2>6 DEF q
<1>4. \A d \in Nat : d \in T
  <2> HIDE DEF T
  <2> QED  BY <1>2, <1>3, Induction
<1>5. n - c \in Nat /\ c + (n - c) = n /\ n <= Len(ps)
  BY <1>0
<1>6. n - c \in T
  <2> HIDE DEF T
  <2> QED  BY <1>4, <1>5
<1> QED  BY <1>5, <1>6 DEF at

\* FlattenSeq holds each sequence at its place.
LEMMA FlattenIs ==
  ASSUME NEW S, NEW ps \in Seq(Seq(S))
  PROVE  /\ FlattenSeq(ps) \in Seq(S) /\ Len(FlattenSeq(ps)) = Begins(ps, Len(ps) + 1)
         /\ \A c \in 1 .. Len(ps) : \A o \in 1 .. Len(ps[c]) :
              Begins(ps, c) + o <= Len(FlattenSeq(ps)) /\ FlattenSeq(ps)[Begins(ps, c) + o] = ps[c][o]
<1>1. Len(ps) \in Nat
  BY LenProperties
<1>2. CASE Len(ps) = 0
  <2>1. FlattenSeq(ps) = ps /\ ps = <<>>
    BY <1>2, EmptySeq DEF FlattenSeq
  <2>2. <<>> \in Seq(S) /\ Len(<<>>) = 0
    BY EmptySeq
  <2>3. Begins(ps, Len(ps) + 1) = 0
    BY <1>2 DEF Begins
  <2> QED  BY <1>2, <2>1, <2>2, <2>3
<1>3. CASE Len(ps) # 0
  <2> DEFINE n == Len(ps)
  <2>1. FlattenSeq(ps) = Flat(ps, n)
    BY <1>3 DEF FlattenSeq, Flat
  <2>2. n \in 1 .. Len(ps)
    BY <1>1, <1>3
  <2>3. Flat(ps, n) \in Seq(S) /\ Len(Flat(ps, n)) = Begins(ps, n + 1)
    BY <2>2, FlatStep, BeginsStep
  <2>4. ASSUME NEW c \in 1 .. n, NEW o \in 1 .. Len(ps[c])
        PROVE  Begins(ps, c) + o <= Len(Flat(ps, n)) /\ Flat(ps, n)[Begins(ps, c) + o] = ps[c][o]
    <3> HIDE DEF n
    <3> QED  BY <2>2, FlatHolds
  <2> DEFINE z == Flat(ps, n)
  <2> HIDE DEF z
  <2>5. z \in Seq(S) /\ Len(z) = Begins(ps, Len(ps) + 1)
    BY <2>3 DEF z
  <2>6. \A c \in 1 .. Len(ps) : \A o \in 1 .. Len(ps[c]) :
          Begins(ps, c) + o <= Len(z) /\ z[Begins(ps, c) + o] = ps[c][o]
    BY <2>4 DEF z
  <2>7. FlattenSeq(ps) = z
    BY <2>1 DEF z
  <2> QED  BY <2>5, <2>6, <2>7
<1> QED  BY <1>2, <1>3
-----------------------------------------------------------------------------
(* What the encoders keep. *)

\* The register is zero behind its first buffer_bits bits.
Register ==
  /\ buffer \in 0 .. 255 /\ buffer_bits \in 0 .. 7
  /\ buffer % Power(8 - buffer_bits) = 0

\* What the running call of cursors_inputter has given the regrouper.
Given ==
  /\ got \in Seq(0 .. 255)
  /\ pc \in {"input", "got", "regroup"} => asked = InputLength /\ Len(got) <= asked

\* A byte makes at most two groups.
Regrouped ==
  /\ data \in Seq(0 .. 31)
  /\ pc \in {"input", "got"} => data = <<>>
  /\ pc = "regroup" => i \in Nat /\ i <= Len(got) /\ Len(data) <= 2 * i

Reading == current_cursor \in Nat \ {0} /\ current_offset \in Nat

IInv ==
  /\ input \in Job /\ result # "overflow"
  /\ input.job = "address" => Reading /\ Register /\ Given /\ Regrouped
  /\ input.job = "string" => data = <<>>
-----------------------------------------------------------------------------
(* Arithmetic of the register. *)

\* The powers that occur.
LEMMA Powers ==
  /\ Power(0) = 1 /\ Power(1) = 2 /\ Power(2) = 4 /\ Power(3) = 8 /\ Power(4) = 16
  /\ Power(5) = 32 /\ Power(6) = 64 /\ Power(7) = 128 /\ Power(8) = 256
  BY DEF Power

\* Taking a group out of the register leaves it clean.
LEMMA ShiftKeepsClean ==
  ASSUME NEW b \in 0 .. 255, NEW n \in 5 .. 7, b % Power(8 - n) = 0
  PROVE  ByteShifted(b, 5) \in 0 .. 255 /\ ByteShifted(b, 5) % Power(8 - (n - 5)) = 0
<1>1. CASE n = 5  BY <1>1, Powers DEF ByteShifted
<1>2. CASE n = 6
  <2>1. PICK t \in 0 .. 127 : b = 4 * t
    <3>1. b % 4 = 0
      BY <1>2, Powers
    <3> WITNESS b \div 4 \in 0 .. 127
    <3> QED  BY <3>1
  <2>2. ByteShifted(b, 5) = (128 * t) % 256
    BY <2>1, Powers DEF ByteShifted
  <2>3. (128 * t) % 256 \in 0 .. 255 /\ ((128 * t) % 256) % 128 = 0
    OBVIOUS
  <2> QED  BY <1>2, <2>2, <2>3, Powers
<1>3. CASE n = 7
  <2>1. PICK t \in 0 .. 127 : b = 2 * t
    <3>1. b % 2 = 0
      BY <1>3, Powers
    <3> WITNESS b \div 2 \in 0 .. 127
    <3> QED  BY <3>1
  <2>2. ByteShifted(b, 5) = (64 * t) % 256
    BY <2>1, Powers DEF ByteShifted
  <2>3. (64 * t) % 256 \in 0 .. 255 /\ ((64 * t) % 256) % 64 = 0
    OBVIOUS
  <2> QED  BY <1>3, <2>2, <2>3, Powers
<1> QED  BY <1>1, <1>2, <1>3

\* What a byte leaves in the register is clean.
LEMMA ByteKeepsClean ==
  ASSUME NEW b \in 0 .. 255, NEW n \in 0 .. 4
  PROVE  ByteShifted(b, 5 - n) \in 0 .. 255 /\ ByteShifted(b, 5 - n) % Power(8 - (n + 3)) = 0
<1>1. CASE n = 0  BY <1>1, Powers DEF ByteShifted
<1>2. CASE n = 1  BY <1>2, Powers DEF ByteShifted
<1>3. CASE n = 2  BY <1>3, Powers DEF ByteShifted
<1>4. CASE n = 3  BY <1>4, Powers DEF ByteShifted
<1>5. CASE n = 4  BY <1>5, Powers DEF ByteShifted
<1> QED  BY <1>1, <1>2, <1>3, <1>4, <1>5

\* The bits of a clean register and of the next byte make one group.
LEMMA GroupFits ==
  ASSUME NEW r \in 0 .. 255, NEW n \in 0 .. 4, r % Power(8 - n) = 0, NEW b \in 0 .. 255
  PROVE  (r \div 8) + (b \div Power(3 + n)) \in 0 .. 31
<1>1. CASE n = 0  BY <1>1, Powers
<1>2. CASE n = 1
  <2>1. r % 128 = 0 /\ Power(3 + n) = 16
    BY <1>2, Powers
  <2>2. r \div 8 = 16 * (r \div 128) /\ r \div 128 \in 0 .. 1
    BY <2>1
  <2>3. b \div 16 \in 0 .. 15
    OBVIOUS
  <2> QED  BY <2>1, <2>2, <2>3
<1>3. CASE n = 2
  <2>1. r % 64 = 0 /\ Power(3 + n) = 32
    BY <1>3, Powers
  <2>2. r \div 8 = 8 * (r \div 64) /\ r \div 64 \in 0 .. 3
    BY <2>1
  <2>3. b \div 32 \in 0 .. 7
    OBVIOUS
  <2> QED  BY <2>1, <2>2, <2>3
<1>4. CASE n = 3
  <2>1. r % 32 = 0 /\ Power(3 + n) = 64
    BY <1>4, Powers
  <2>2. r \div 8 = 4 * (r \div 32) /\ r \div 32 \in 0 .. 7
    BY <2>1
  <2>3. b \div 64 \in 0 .. 3
    OBVIOUS
  <2> QED  BY <2>1, <2>2, <2>3
<1>5. CASE n = 4
  <2>1. r % 16 = 0 /\ Power(3 + n) = 128
    BY <1>5, Powers
  <2>2. r \div 8 = 2 * (r \div 16) /\ r \div 16 \in 0 .. 15
    BY <2>1
  <2>3. b \div 128 \in 0 .. 1
    OBVIOUS
  <2> QED  BY <2>1, <2>2, <2>3
<1> QED  BY <1>1, <1>2, <1>3, <1>4, <1>5
-----------------------------------------------------------------------------
LEMMA InputLengthFits ==
  InputLength \in Nat /\ 2 * InputLength <= Bech32mBufLen
  BY Bech32mAssumption DEF InputLength, Least

LEMMA InitInv == Init => IInv
<1> SUFFICES ASSUME Init PROVE IInv
  OBVIOUS
<1>1. Reading
  BY DEF Init, CallbacksInit, Reading
<1>2. Register
  BY Powers DEF Init, Bech32mInit, Register
<1>3. Given /\ Regrouped
  BY DEF Init, CallbacksInit, Bech32mInit, Given, Regrouped
<1> QED  BY <1>1, <1>2, <1>3, InputsAssumption DEF IInv, Init, CallbacksInit, Bech32mInit
-----------------------------------------------------------------------------
(* The steps of utf8_check and of the inputter. *)

LEMMA Utf8KeepsInv ==
  ASSUME IInv, Utf8Next, UNCHANGED bech32mVars
  PROVE  IInv'
<1>1. input.job = "string" /\ UNCHANGED <<input, data>> /\ result' # "overflow"
  BY DEF IInv, Utf8Next, Round, Loaded, PassSequence, Malforms, Waits, ScanEnds, Output, Utf8Ends,
         Checking, Scanning, CallInputter, Return, Takes, Refuses, feederVars, callbackVars,
         bech32mVars
<1> QED  BY <1>1 DEF IInv

\* Of the inputter's steps a String matters nothing.
LEMMA InputterOfString ==
  ASSUME IInv, InputterNext, UNCHANGED bech32mVars, result = "running", input.job = "string"
  PROVE  IInv'
<1>1. UNCHANGED <<input, data>> /\ result' # "overflow"
  BY DEF InputterNext, CopyBytes, NextCursor, InputterReturns, Return, feederVars, bech32mVars
<1> QED  BY <1>1 DEF IInv

\* n bytes of a memory.
LEMMA PieceOf ==
  ASSUME NEW s \in Seq(0 .. 255), NEW m \in Nat, NEW n \in Nat, m + n <= Len(s)
  PROVE  SubSeq(s, m + 1, m + n) \in Seq(0 .. 255) /\ Len(SubSeq(s, m + 1, m + n)) = n
<1>1. \A p \in m + 1 .. m + n : s[p] \in 0 .. 255
  <2> SUFFICES ASSUME NEW p \in m + 1 .. m + n PROVE s[p] \in 0 .. 255
    OBVIOUS
  <2>1. p \in 1 .. Len(s)
    OBVIOUS
  <2> QED  BY <2>1, ElementOfSeq
<1>2. m + 1 \in Int /\ m + n \in Int
  OBVIOUS
<1>3. /\ SubSeq(s, m + 1, m + n) \in Seq(0 .. 255)
      /\ Len(SubSeq(s, m + 1, m + n)) =
           IF m + 1 <= m + n THEN m + n - (m + 1) + 1 ELSE 0
  BY <1>1, <1>2, SubSeqProperties
<1> QED  BY <1>3

\* got never grows beyond what was asked for.
LEMMA CopyKeepsInv ==
  ASSUME IInv, CopyBytes, UNCHANGED bech32mVars, result = "running", input.job = "address"
  PROVE  IInv'
<1> DEFINE n == Least(Current.size - current_offset, asked - Len(got))
           from == Current.off + current_offset
<1>1. Current \in Window
  BY DEF IInv, Reading, Job, CopyBytes, InCursors, Current, Cursors
<1>2. UNCHANGED <<input, current_cursor, asked, bech32mVars>>
  BY DEF CopyBytes
<1>3. CASE from + n > TotalSize(Current.mem)
  <2>1. result' = "panic" /\ pc' = "end" /\ UNCHANGED <<current_offset, got>>
    BY <1>3 DEF CopyBytes, Return
  <2> QED
    BY <1>2, <2>1 DEF IInv, Reading, Register, Given, Regrouped, bech32mVars
<1>4. CASE ~(from + n > TotalSize(Current.mem))
  <2> DEFINE piece == SubSeq(Current.mem, from + 1, from + n)
  <2>1. got' = got \o piece /\ current_offset' = current_offset + n /\ UNCHANGED <<pc, result>>
    BY <1>4 DEF CopyBytes
  <2>2. asked \in Nat /\ got \in Seq(0 .. 255) /\ asked = InputLength
    BY InputLengthFits DEF IInv, Given, CopyBytes
  <2>3. n \in Nat /\ n <= asked - Len(got) /\ from \in Nat
    <3>1. Current.size \in Nat /\ Current.off \in Nat /\ current_offset \in Nat
      BY <1>1 DEF Window, IInv, Reading
    <3>2. current_offset < Current.size /\ Len(got) < asked /\ Len(got) \in Nat
      BY <2>2 DEF CopyBytes
    <3>3. Current.size - current_offset \in Nat /\ asked - Len(got) \in Nat
      BY <2>2, <3>1, <3>2
    <3> QED  BY <3>1, <3>3 DEF Least
  <2>4. Current.mem \in Seq(0 .. 255) /\ from + n <= Len(Current.mem)
    <3>1. Byte = 0 .. 255
      BY Bech32mAssumption DEF Byte
    <3>2. Current.mem \in Seq(0 .. 255)
      BY <1>1, <3>1 DEF Window
    <3>3. Len(Current.mem) \in Nat
      BY <3>2
    <3> QED  BY <1>4, <2>3, <3>2, <3>3 DEF TotalSize
  <2> HIDE DEF n, from
  <2>5. piece \in Seq(0 .. 255) /\ Len(piece) = n
    <3> DEFINE mem == Current.mem
    <3>1. mem \in Seq(0 .. 255) /\ from + n <= Len(mem)
      BY <2>4
    <3> HIDE DEF mem
    <3>2. SubSeq(mem, from + 1, from + n) \in Seq(0 .. 255)
          /\ Len(SubSeq(mem, from + 1, from + n)) = n
      BY <2>3, <3>1, PieceOf, ZenonT(60)
    <3> QED  BY <3>2 DEF mem
  <2> HIDE DEF piece
  <2>6. got' \in Seq(0 .. 255) /\ Len(got') <= asked
    <3>1. got \o piece \in Seq(0 .. 255) /\ Len(got \o piece) = Len(got) + n
      BY <2>2, <2>5, ConcatProperties, ZenonT(60)
    <3> QED  BY <2>1, <2>2, <2>3, <3>1
  <2>7. Reading' /\ Given'
    BY <1>2, <2>1, <2>2, <2>3, <2>6 DEF IInv, Reading, Given, InputLength
  <2>8. Register' /\ Regrouped'
    BY <1>2, <2>1 DEF IInv, Register, Regrouped, CopyBytes, bech32mVars
  <2> QED  BY <1>2, <2>1, <2>7, <2>8 DEF IInv, bech32mVars
<1> QED  BY <1>3, <1>4

LEMMA InputterKeepsInv ==
  ASSUME IInv, InputterNext, UNCHANGED bech32mVars, result = "running"
  PROVE  IInv'
<1>1. CASE input.job = "string"
  BY <1>1, InputterOfString
<1>2. CASE input.job = "address"
  <2>1. CASE CopyBytes
    BY <1>2, <2>1, CopyKeepsInv
  <2>2. CASE NextCursor
    BY <1>2, <2>2
    DEF IInv, NextCursor, Reading, Register, Given, Regrouped, InputLength, feederVars, bech32mVars
  <2>3. CASE InputterReturns
    BY <1>2, <2>3 DEF IInv, InputterReturns, Reading, Register, Given, Regrouped, InputLength,
                      inputterVars, feederVars, bech32mVars
  <2> QED  BY <2>1, <2>2, <2>3 DEF InputterNext
<1> QED  BY <1>1, <1>2 DEF IInv, Job
-----------------------------------------------------------------------------
(* The steps of bech32m_encode. *)

\* Text goes out, and the regrouper rests.
LEMMA FeedingKeepsInv ==
  ASSUME IInv, UNCHANGED utf8Vars, UNCHANGED <<regrouperVars, data, input, inputterVars>>,
         Encoding, pc \notin {"input", "got", "regroup"},
         pc' \notin {"input", "got", "regroup"}, result' # "overflow"
  PROVE  IInv'
  BY DEF IInv, Reading, Register, Given, Regrouped, regrouperVars, inputterVars, Encoding

LEMMA AskKeepsInv ==
  ASSUME IInv, AskForBytes \/ AskForRest \/ GotBytes
  PROVE  IInv'
<1>0. input.job = "address" /\ result = "running"
  BY DEF AskForBytes, AskForRest, GotBytes, Encoding
<1>1. CASE AskForBytes
  BY <1>0, <1>1, InputLengthFits DEF IInv, AskForBytes, CallInputter, Reading, Register, Given,
     Regrouped, InputLength, feederVars, regrouperVars
<1>2. CASE AskForRest
  BY <1>0, <1>2 DEF IInv, AskForRest, Reading, Register, Given, Regrouped, feederVars,
     inputterVars, regrouperVars
<1>3. CASE GotBytes
  BY <1>0, <1>3 DEF IInv, GotBytes, Reading, Register, Given, Regrouped, InputLength,
     feederVars, inputterVars
<1> QED  BY <1>1, <1>2, <1>3

\* A byte makes one or two groups of five bits, for which there is space.
LEMMA RegroupKeepsInv ==
  ASSUME IInv, RegroupByte
  PROVE  IInv'
<1> DEFINE byte == got[i + 1]
           ready == buffer_bits >= 5
           bits == IF ready THEN buffer_bits - 5 ELSE buffer_bits
           left == IF ready THEN ByteShifted(buffer, 5) ELSE buffer
           group == (left \div 8) + (byte \div Power(3 + bits))
           groups == (IF ready THEN <<buffer \div 8>> ELSE <<>>) \o <<group>>
<1>1. /\ input.job = "address" /\ result = "running" /\ pc = "regroup"
      /\ UNCHANGED <<input, inputterVars, c_end>>
  BY DEF RegroupByte, Encoding
<1>2. Reading /\ Register /\ Given /\ Regrouped /\ i < Len(got)
  BY <1>1 DEF IInv, RegroupByte
<1>3. byte \in 0 .. 255
  <2>1. got \in Seq(0 .. 255) /\ i + 1 \in 1 .. Len(got)
    BY <1>1, <1>2 DEF Given, Regrouped
  <2> QED  BY <2>1, ElementOfSeq
<1>4. left \in 0 .. 255 /\ bits \in 0 .. 4 /\ left % Power(8 - bits) = 0
  <2>1. CASE ready
    <3>1. buffer \in 0 .. 255 /\ buffer_bits \in 5 .. 7 /\ buffer % Power(8 - buffer_bits) = 0
      BY <1>2, <2>1, SMTT(30) DEF Register
    <3>2. /\ ByteShifted(buffer, 5) \in 0 .. 255
          /\ ByteShifted(buffer, 5) % Power(8 - (buffer_bits - 5)) = 0
      BY <3>1, ShiftKeepsClean, ZenonT(60)
    <3> QED  BY <2>1, <3>1, <3>2
  <2>2. CASE ~ready
    BY <1>2, <2>2 DEF Register
  <2> QED  BY <2>1, <2>2
<1>5. group \in 0 .. 31
  BY <1>3, <1>4, GroupFits, ZenonT(60)
<1>6. buffer \div 8 \in 0 .. 31
  BY <1>2 DEF Register
<1> HIDE DEF byte, left, bits, group, ready
<1>7. groups \in Seq(0 .. 31) /\ Len(groups) <= 2
  <2>1. <<group>> \in Seq(0 .. 31) /\ Len(<<group>>) = 1
    BY <1>5
  <2>2. <<buffer \div 8>> \in Seq(0 .. 31) /\ Len(<<buffer \div 8>>) = 1
    BY <1>6
  <2>3. <<>> \in Seq(0 .. 31) /\ Len(<<>>) = 0
    OBVIOUS
  <2>4. CASE ready
    BY <2>1, <2>2, <2>4, ConcatProperties
  <2>5. CASE ~ready
    BY <2>1, <2>3, <2>5, ConcatProperties
  <2> QED  BY <2>4, <2>5
<1> HIDE DEF groups
<1>8. Len(data) + Len(groups) <= 2 * (i + 1) /\ 2 * (i + 1) <= Bech32mBufLen
  BY <1>1, <1>2, <1>7, InputLengthFits, Bech32mAssumption DEF Regrouped, Given
<1>9. /\ data' = data \o groups
      /\ buffer' = ByteShifted(byte, 5 - bits) /\ buffer_bits' = bits + 3
      /\ i' = i + 1 /\ UNCHANGED <<pc, result>>
  <2>1. ~(Len(data) + Len(groups) > Bech32mBufLen)
    BY <1>1, <1>2, <1>7, <1>8, Bech32mAssumption DEF Regrouped
  <2> QED  BY <2>1 DEF RegroupByte, byte, ready, bits, left, group, groups
<1>10. Register'
  <2>1. /\ ByteShifted(byte, 5 - bits) \in 0 .. 255
        /\ ByteShifted(byte, 5 - bits) % Power(8 - (bits + 3)) = 0
    BY <1>3, <1>4, ByteKeepsClean, ZenonT(60)
  <2> QED  BY <1>4, <1>9, <2>1, SMTT(30) DEF Register
<1>11. Regrouped'
  BY <1>1, <1>2, <1>7, <1>8, <1>9 DEF Regrouped, inputterVars
<1>12. Reading' /\ Given'
  BY <1>1, <1>2, <1>9 DEF Reading, Given, InputLength, inputterVars
<1> QED  BY <1>1, <1>9, <1>10, <1>11, <1>12 DEF IInv

\* What is left goes out without spoiling the register.
LEMMA FlushKeepsInv ==
  ASSUME IInv, Flush
  PROVE  IInv'
<1> DEFINE ready == c_end /\ buffer_bits >= 5 /\ Len(data) < Bech32mBufLen
           bits == IF ready THEN buffer_bits - 5 ELSE buffer_bits
           left == IF ready THEN ByteShifted(buffer, 5) ELSE buffer
           made == data \o (IF ready THEN <<buffer \div 8>> ELSE <<>>)
           rest == c_end /\ bits # 0 /\ Len(made) < Bech32mBufLen
<1>1. /\ input.job = "address" /\ result = "running" /\ pc' = "symbols"
      /\ UNCHANGED <<input, inputterVars, feederVars, i>>
      /\ data' = made \o (IF rest THEN <<left \div 8>> ELSE <<>>)
      /\ buffer' = IF rest THEN 0 ELSE left
      /\ buffer_bits' = IF rest THEN 0 ELSE bits
  BY DEF Flush, Encoding
<1>2. Reading /\ Register /\ Given /\ Regrouped
  BY <1>1 DEF IInv
<1>3. left \in 0 .. 255 /\ bits \in 0 .. 7 /\ left % Power(8 - bits) = 0
  <2>1. CASE ready
    <3>1. buffer \in 0 .. 255 /\ buffer_bits \in 5 .. 7 /\ buffer % Power(8 - buffer_bits) = 0
      BY <1>2, <2>1 DEF Register
    <3>2. /\ ByteShifted(buffer, 5) \in 0 .. 255
          /\ ByteShifted(buffer, 5) % Power(8 - (buffer_bits - 5)) = 0
      BY <3>1, ShiftKeepsClean
    <3> QED  BY <2>1, <3>1, <3>2
  <2>2. CASE ~ready
    BY <1>2, <2>2 DEF Register
  <2> QED  BY <2>1, <2>2
<1> HIDE DEF left, bits, ready
<1>4. /\ <<buffer \div 8>> \in Seq(0 .. 31) /\ <<left \div 8>> \in Seq(0 .. 31)
      /\ <<>> \in Seq(0 .. 31)
  <2>1. buffer \div 8 \in 0 .. 31
    BY <1>2 DEF Register
  <2>2. left \div 8 \in 0 .. 31
    BY <1>3
  <2> QED  BY <2>1, <2>2
<1>5. made \in Seq(0 .. 31)
  <2>1. CASE ready
    BY <1>2, <1>4, <2>1, ConcatProperties DEF Regrouped
  <2>2. CASE ~ready
    BY <1>2, <1>4, <2>2, ConcatProperties DEF Regrouped
  <2> QED  BY <2>1, <2>2
<1> HIDE DEF made, rest
<1>6. data' \in Seq(0 .. 31)
  <2>1. CASE rest
    BY <1>1, <1>4, <1>5, <2>1, ConcatProperties
  <2>2. CASE ~rest
    BY <1>1, <1>4, <1>5, <2>2, ConcatProperties
  <2> QED  BY <2>1, <2>2
<1>7. Register'
  BY <1>1, <1>3, Powers DEF Register
<1> QED
  BY <1>1, <1>2, <1>6, <1>7 DEF IInv, Reading, Given, Regrouped, inputterVars, feederVars
-----------------------------------------------------------------------------
\* Every other step of the encoder leaves the regrouper alone.
LEMMA EncoderKeepsInv ==
  ASSUME IInv, Bech32mNext, UNCHANGED utf8Vars
  PROVE  IInv'
<1>1. CASE AskForBytes \/ AskForRest \/ GotBytes
  BY <1>1, AskKeepsInv
<1>2. CASE RegroupByte
  BY <1>2, RegroupKeepsInv
<1>3. CASE Flush
  BY <1>3, FlushKeepsInv
<1>4. CASE BytesRegrouped
  BY <1>4 DEF IInv, BytesRegrouped, Encoding, Reading, Register, Given, Regrouped, inputterVars,
              feederVars, bech32mVars
<1>5. CASE CheckHrp \/ HrpChecked \/ FeedHrp \/ FeedOne
  <2>1. /\ Encoding /\ UNCHANGED <<regrouperVars, data, input, inputterVars>>
        /\ pc \in {"hrp", "prefix"} /\ pc' \in {"hrp", "prefix", "more", "end"}
        /\ result' # "overflow"
    BY <1>5 DEF CheckHrp, HrpChecked, FeedHrp, FeedOne, Encoding, Return, Takes, Refuses,
                inputterVars, feederVars, regrouperVars, bech32mVars
  <2> QED  BY <2>1, FeedingKeepsInv
<1>6. CASE FeedSymbol \/ MoreSymbols \/ SymbolsEnd \/ PadChecksum
  <2>1. /\ Encoding /\ UNCHANGED <<regrouperVars, data, input, inputterVars>>
        /\ pc \in {"symbols", "pad"} /\ pc' \in {"symbols", "more", "pad", "checksum", "end"}
        /\ result' # "overflow"
    BY <1>6 DEF FeedSymbol, MoreSymbols, SymbolsEnd, PadChecksum, Encoding, Return, Takes, Refuses,
                inputterVars, feederVars, regrouperVars, bech32mVars
  <2> QED  BY <2>1, FeedingKeepsInv
<1>7. CASE FeedChecksum \/ Bech32mEnds
  <2>1. /\ Encoding /\ UNCHANGED <<regrouperVars, data, input, inputterVars>>
        /\ pc = "checksum" /\ pc' \in {"checksum", "end"} /\ result' # "overflow"
    BY <1>7 DEF FeedChecksum, Bech32mEnds, Encoding, Return, Takes, Refuses, inputterVars,
                feederVars, regrouperVars, bech32mVars
  <2> QED  BY <2>1, FeedingKeepsInv
<1> QED  BY <1>1, <1>2, <1>3, <1>4, <1>5, <1>6, <1>7 DEF Bech32mNext

LEMMA StepInv == IInv /\ [Next]_streamVars => IInv'
<1> SUFFICES ASSUME IInv, [Next]_streamVars PROVE IInv'
  OBVIOUS
<1>1. CASE Utf8Next /\ UNCHANGED bech32mVars
  BY <1>1, Utf8KeepsInv
<1>2. CASE Bech32mNext /\ UNCHANGED utf8Vars
  BY <1>2, EncoderKeepsInv
<1>3. CASE result = "running" /\ InputterNext /\ UNCHANGED <<utf8Vars, bech32mVars>>
  BY <1>3, InputterKeepsInv
<1>4. CASE UNCHANGED streamVars
  BY <1>4 DEF IInv, Reading, Register, Given, Regrouped, InputLength, streamVars, callbackVars,
              inputterVars, feederVars, bech32mVars
<1> QED  BY <1>1, <1>2, <1>3, <1>4 DEF Next

\* Whatever the input and the length of the buffer, there is space in it for
\* all groups that the bytes of one call make, and each has five bits: an
\* address never ends in its middle with success, nor for lack of space.
THEOREM RegrouperFits == Spec => []NeverOverflows
<1>1. Init => IInv
  BY InitInv
<1>2. IInv /\ [Next]_streamVars => IInv'
  BY StepInv
<1>3. IInv => NeverOverflows
  <2> SUFFICES ASSUME IInv PROVE NeverOverflows
    OBVIOUS
  <2>1. data \in Seq(0 .. 31)
    <3>1. CASE input.job = "address"
      BY <3>1 DEF IInv, Regrouped
    <3>2. CASE input.job = "string"
      BY <3>2 DEF IInv
    <3> QED  BY <3>1, <3>2 DEF IInv, Job
  <2>2. DOMAIN data = 1 .. Len(data) /\ \A n \in 1 .. Len(data) : data[n] \in 0 .. 31
    BY <2>1, ElementOfSeq, LenProperties
  <2>3. ASSUME NEW n \in DOMAIN data PROVE data[n] < 32
    <3>1. data[n] \in 0 .. 31
      BY <2>2
    <3> QED  BY <3>1
  <2> QED  BY <2>3 DEF IInv, NeverOverflows
<1> QED  BY <1>1, <1>2, <1>3, PTL DEF Spec
-----------------------------------------------------------------------------
(* Types. *)

InputterTypes ==
  /\ input \in Job /\ current_cursor \in 1 .. Len(Cursors) + 1 /\ current_offset \in Nat
  /\ asked \in Nat /\ got \in Seq(Byte) /\ Len(got) <= asked
FeederTypes == fed \in Seq(Byte) /\ result \in Results
EncoderTypes == chk \subseteq 0 .. 29 /\ k \in Nat
RegrouperTypes ==
  /\ buffer \in Byte /\ buffer_bits \in 0 .. 7 /\ c_end \in BOOLEAN
  /\ i \in Nat /\ (pc = "regroup" => i <= Len(got)) /\ data \in Seq(Nat)

\* utf8_check asks for no more than its buffer has space for.
Space ==
  input.job = "string" =>
    pc # "regroup" /\ (pc \in {"input", "got"} => asked + Len(buf) <= Utf8BufLen)

TInv ==
  IInv /\ InputterTypes /\ FeederTypes /\ Utf8TypeOK /\ EncoderTypes /\ RegrouperTypes /\ Space

LEMMA Bytes == Byte = 0 .. 255
  BY Bech32mAssumption DEF Byte

\* What is left of a buffer.
LEMMA RestOf ==
  ASSUME NEW s \in Seq(Byte), NEW m \in 0 .. Len(s)
  PROVE  /\ SubSeq(s, m + 1, Len(s)) \in Seq(Byte)
         /\ Len(SubSeq(s, m + 1, Len(s))) = Len(s) - m
<1> DEFINE n == Len(s) - m
<1>1. s \in Seq(0 .. 255)
  BY Bytes
<1>2. Len(s) \in Nat
  BY <1>1
<1>3. n \in Nat /\ m \in Nat /\ m + n <= Len(s)
  BY <1>2
<1>4. m + n = Len(s)
  BY <1>2
<1> HIDE DEF n
<1>5. SubSeq(s, m + 1, m + n) \in Seq(0 .. 255) /\ Len(SubSeq(s, m + 1, m + n)) = n
  BY <1>1, <1>3, PieceOf, ZenonT(60)
<1> QED  BY <1>4, <1>5, Bytes, ZenonT(60) DEF n

LEMMA InitTypes == Init => TInv
<1> SUFFICES ASSUME Init PROVE TInv
  OBVIOUS
<1>1. IInv
  BY InitInv
<1>2. InputterTypes /\ FeederTypes
  BY InputsAssumption DEF Init, CallbacksInit, InputterTypes, FeederTypes, Results, Job, Cursors
<1>3. Utf8TypeOK
  <2>1. buf = <<>> /\ processed = 0
    BY DEF Init, Utf8Init
  <2>2. end \in BOOLEAN
    BY Zenon DEF Init, Utf8Init
  <2>3. <<>> \in Seq(Byte) /\ Len(<<>>) = 0 /\ 0 \in 0 .. 0 /\ 0 <= Utf8BufLen
    BY Utf8Assumption
  <2> QED  BY <2>1, <2>2, <2>3 DEF Utf8TypeOK
<1>4. EncoderTypes
  BY BitsWord DEF Init, Bech32mInit, EncoderTypes, Word30
<1>5. RegrouperTypes /\ Space
  <2>1. buffer = 0 /\ buffer_bits = 0 /\ i = 0 /\ data = <<>> /\ pc \in {"round", "hrp"}
    BY DEF Init, Bech32mInit
  <2>2. c_end \in BOOLEAN
    BY Zenon DEF Init, Bech32mInit
  <2>3. <<>> \in Seq(Nat)
    OBVIOUS
  <2> QED  BY <2>1, <2>2, <2>3, Bytes DEF RegrouperTypes, Space
<1> QED  BY <1>1, <1>2, <1>3, <1>4, <1>5 DEF TInv
-----------------------------------------------------------------------------
\* The inputter writes bytes, and no more than it was asked for.
LEMMA InputterKeepsTypes ==
  ASSUME TInv, IInv', InputterNext, UNCHANGED <<utf8Vars, bech32mVars>>, result = "running"
  PROVE  TInv'
<1> USE DEF TInv, InputterTypes, FeederTypes, EncoderTypes, RegrouperTypes, Space, utf8Vars,
            bech32mVars, feederVars, inputterVars
<1>1. CASE CopyBytes
  <2> DEFINE n == Least(Current.size - current_offset, asked - Len(got))
             from == Current.off + current_offset
  <2>1. Current \in Window /\ UNCHANGED <<input, current_cursor, asked, fed>>
    BY <1>1 DEF CopyBytes, InCursors, Current, Cursors, Job
  <2>2. CASE from + n > TotalSize(Current.mem)
    <3>1. result' = "panic" /\ pc' = "end" /\ UNCHANGED <<current_offset, got>>
      BY <1>1, <2>2 DEF CopyBytes, Return
    <3> QED  BY <2>1, <3>1 DEF Results, Utf8TypeOK, Cursors
  <2>3. CASE ~(from + n > TotalSize(Current.mem))
    <3> DEFINE mem == Current.mem
               piece == SubSeq(mem, from + 1, from + n)
    <3>1. got' = got \o piece /\ current_offset' = current_offset + n /\ UNCHANGED <<pc, result>>
      BY <1>1, <2>3 DEF CopyBytes
    <3>2. n \in Nat /\ n <= asked - Len(got) /\ from \in Nat
      <4>1. Current.size \in Nat /\ Current.off \in Nat
        BY <2>1 DEF Window
      <4>2. current_offset < Current.size /\ Len(got) < asked /\ Len(got) \in Nat
        BY <1>1 DEF CopyBytes
      <4>3. Current.size - current_offset \in Nat /\ asked - Len(got) \in Nat
        BY <4>1, <4>2
      <4> QED  BY <4>1, <4>3 DEF Least
    <3>3. mem \in Seq(0 .. 255) /\ from + n <= Len(mem)
      <4>1. mem \in Seq(0 .. 255)
        BY <2>1, Bytes DEF Window
      <4>2. Len(mem) \in Nat
        BY <4>1
      <4> QED  BY <2>3, <3>2, <4>1, <4>2 DEF TotalSize
    <3> HIDE DEF n, from, mem
    <3>4. piece \in Seq(Byte) /\ Len(piece) = n
      <4>1. SubSeq(mem, from + 1, from + n) \in Seq(0 .. 255)
            /\ Len(SubSeq(mem, from + 1, from + n)) = n
        <5> HIDE DEF TInv, InputterTypes, FeederTypes, EncoderTypes, RegrouperTypes, Space,
                     utf8Vars, bech32mVars, feederVars, inputterVars
        <5> QED  BY <3>2, <3>3, PieceOf, ZenonT(60)
      <4> QED  BY <4>1, Bytes
    <3> HIDE DEF piece
    <3>5. got \o piece \in Seq(Byte) /\ Len(got \o piece) = Len(got) + n
      BY <3>4, ConcatProperties
    <3>6. got' \in Seq(Byte) /\ Len(got') <= asked' /\ Len(got') >= Len(got)
      BY <2>1, <3>1, <3>2, <3>5
    <3>7. current_offset' \in Nat
      <4>1. current_offset \in Nat
        OBVIOUS
      <4> QED  BY <3>1, <3>2, <4>1
    <3>8. Utf8TypeOK' /\ Space' /\ RegrouperTypes'
      <4>1. pc = "input" /\ pc' = "input"
        BY <1>1, <3>1 DEF CopyBytes
      <4>2. Utf8TypeOK'
        BY DEF Utf8TypeOK
      <4>3. Space'
        BY <2>1, <4>1
      <4>4. RegrouperTypes'
        BY <4>1
      <4> QED  BY <4>2, <4>3, <4>4
    <3> QED  BY <2>1, <3>1, <3>6, <3>7, <3>8 DEF Cursors
  <2> QED  BY <2>2, <2>3
<1>2. CASE NextCursor
  <2>1. current_cursor' \in 1 .. Len(Cursors) + 1
    BY <1>2 DEF NextCursor, InCursors, Job, Cursors
  <2> QED  BY <1>2, <2>1 DEF NextCursor, Utf8TypeOK, Cursors
<1>3. CASE InputterReturns
  BY <1>3 DEF InputterReturns, Utf8TypeOK, Cursors
<1> QED  BY <1>1, <1>2, <1>3 DEF InputterNext
-----------------------------------------------------------------------------
(* utf8_check *)

\* What a first byte of the buffer announces.
LEMMA AnnouncedType ==
  ASSUME Utf8TypeOK, processed < Len(buf)
  PROVE  Announced \in 0 .. Utf8BufLen
<1>1. processed + 1 \in 1 .. Len(buf) /\ buf \in Seq(Byte)
  BY DEF Utf8TypeOK
<1>2. buf[processed + 1] \in Byte
  BY <1>1, ElementOfSeq
<1> QED  BY <1>2, Utf8Assumption DEF Announced

LEMMA CheckerKeepsTypes ==
  ASSUME TInv, IInv', Utf8Next, UNCHANGED bech32mVars
  PROVE  TInv'
<1> USE DEF TInv, InputterTypes, FeederTypes, EncoderTypes, RegrouperTypes, Space, bech32mVars,
            callbackVars, feederVars, inputterVars, utf8Vars, Checking, Scanning, Scan, Return
<1>0. input.job = "string" /\ result = "running"
  BY DEF Utf8Next, Round, Loaded, PassSequence, Malforms, Waits, ScanEnds, Output, Utf8Ends
<1>1. CASE Round
  <2>1. Len(buf) \in Nat /\ Utf8BufLen \in Nat
    BY Utf8Assumption DEF Utf8TypeOK
  <2>2. Utf8TypeOK'
    <3>1. UNCHANGED <<buf, end>> /\ processed' \in {processed, 0}
      BY <1>1 DEF Round
    <3> QED  BY <2>1, <3>1 DEF Utf8TypeOK
  <2>3. CASE CallInputter(Utf8BufLen - Len(buf)) /\ ~end /\ Len(buf) < Utf8BufLen
    <3>1. asked' = Utf8BufLen - Len(buf) /\ got' = <<>> /\ pc' = "input"
          /\ UNCHANGED <<input, current_cursor, current_offset, fed, result, buf>>
      BY <1>1, <2>3 DEF CallInputter, Round
    <3>2. asked' \in Nat /\ asked' + Len(buf') <= Utf8BufLen
      BY <2>1, <2>3, <3>1
    <3>3. got' \in Seq(Byte) /\ Len(got') = 0
      BY <3>1
    <3>4. InputterTypes' /\ FeederTypes'
      BY <3>1, <3>2, <3>3 DEF Cursors
    <3>5. EncoderTypes' /\ RegrouperTypes' /\ Space'
      BY <3>1, <3>2
    <3> QED  BY <2>2, <3>4, <3>5
  <2>4. CASE Scan /\ UNCHANGED <<input, inputterVars, feederVars>>
    <3>1. InputterTypes' /\ FeederTypes'
      BY <2>4 DEF Cursors
    <3>2. EncoderTypes' /\ RegrouperTypes' /\ Space'
      BY <2>4
    <3> QED  BY <2>2, <3>1, <3>2
  <2> QED  BY <1>1, <2>3, <2>4 DEF Round
<1>2. CASE Loaded
  <2>1. buf' = buf \o got /\ buf \in Seq(Byte) /\ got \in Seq(Byte) /\ asked + Len(buf) <= Utf8BufLen
    BY <1>0, <1>2 DEF Loaded, Utf8TypeOK
  <2>2. buf' \in Seq(Byte) /\ Len(buf') = Len(buf) + Len(got)
    BY <2>1, ConcatProperties
  <2>3. Len(buf) \in Nat /\ Len(got) \in Nat
    BY <2>1
  <2>4. Utf8TypeOK'
    BY <1>2, <2>1, <2>2, <2>3, Utf8Assumption DEF Loaded, Utf8TypeOK
  <2> QED  BY <1>0, <1>2, <2>4 DEF Loaded, Cursors
<1>3. CASE PassSequence
  <2>1. Announced \in Nat /\ processed + Announced <= Len(buf) /\ processed' = processed + Announced
    BY <1>3, AnnouncedType DEF PassSequence, Whole
  <2>2. Utf8TypeOK'
    BY <1>3, <2>1 DEF PassSequence, Utf8TypeOK
  <2> QED  BY <1>0, <1>3, <2>2 DEF PassSequence, Cursors
<1>4. CASE Malforms \/ Waits \/ ScanEnds \/ Utf8Ends
  <2>1. UNCHANGED <<input, inputterVars, fed, utf8Vars>> /\ pc' \in {"end", "output"}
        /\ result' \in {"running", "ok", "malformed"}
    BY <1>0, <1>4 DEF Malforms, Waits, ScanEnds, Utf8Ends
  <2> QED  BY <1>0, <2>1 DEF Results, Utf8TypeOK, Cursors
<1>5. CASE Output
  <2>1. CASE Takes(buf) /\ pc' = "round"
          /\ buf' = SubSeq(buf, processed + 1, Len(buf)) /\ processed' = 0
    <3>1. buf \in Seq(Byte) /\ processed \in 0 .. Len(buf) /\ Len(buf) \in Nat
          /\ Len(buf) <= Utf8BufLen /\ Utf8BufLen \in Nat
      BY Utf8Assumption DEF Utf8TypeOK
    <3>2. buf' \in Seq(Byte) /\ Len(buf') = Len(buf) - processed
      BY <2>1, <3>1, RestOf
    <3>3. fed' \in Seq(Byte)
      BY <2>1, <3>1, ConcatProperties DEF Takes
    <3>4. Len(buf') <= Utf8BufLen /\ processed' \in 0 .. Len(buf')
      BY <2>1, <3>1, <3>2
    <3>5. Utf8TypeOK'
      BY <1>5, <3>2, <3>4 DEF Output, Utf8TypeOK
    <3> QED  BY <1>0, <1>5, <2>1, <3>3, <3>5 DEF Output, Takes, Cursors
  <2>2. CASE Refuses /\ UNCHANGED <<buf, processed>>
    BY <1>0, <1>5, <2>2 DEF Output, Refuses, Results, Utf8TypeOK, Cursors
  <2> QED  BY <1>5, <2>1, <2>2 DEF Output
<1> QED  BY <1>1, <1>2, <1>3, <1>4, <1>5 DEF Utf8Next
-----------------------------------------------------------------------------
(* bech32m_encode *)

LEMMA ChecksumTypes ==
  /\ polymod_step(chk) \subseteq 0 .. 29
  /\ \A symbol : Mixed(symbol) \subseteq 0 .. 29
  /\ chk \subseteq 0 .. 29 => Xor(chk, Constant) \subseteq 0 .. 29
<1>1. \A n : Bits(n) \in Word30
  BY BitsWord
<1>2. polymod_step(chk) \in Word30
  BY StepWord
<1>3. \A symbol : Mixed(symbol) \in Word30
  BY <1>1, <1>2, XorWord DEF Mixed
<1>4. chk \in Word30 => Xor(chk, Constant) \in Word30
  BY <1>1, XorWord DEF Constant
<1> QED  BY <1>2, <1>3, <1>4 DEF Word30

\* The charset has a byte for each group of five bits.
LEMMA CharsetType ==
  ASSUME NEW n \in 0 .. 31
  PROVE  Charset[n + 1] \in Byte
<1>1. Charset \in Seq(0 .. 255) /\ Len(Charset) = 32
  BY DEF Charset
<1>2. n + 1 \in 1 .. Len(Charset)
  BY <1>1
<1> QED  BY <1>1, <1>2, ElementOfSeq, Bytes

\* A character goes out, or is refused.
LEMMA FedType ==
  ASSUME NEW c \in Byte, fed \in Seq(Byte), result = "running",
         (Takes(<<c>>) /\ UNCHANGED pc) \/ (Takes(<<c>>) /\ pc' = "more") \/ Refuses
  PROVE  fed' \in Seq(Byte) /\ result' \in Results /\ pc' \in {pc, "more", "end"}
<1>1. <<c>> \in Seq(Byte)
  OBVIOUS
<1>2. fed \o <<c>> \in Seq(Byte)
  BY <1>1, ConcatProperties
<1> QED  BY <1>2 DEF Takes, Refuses, Return, Results

LEMMA HrpType ==
  ASSUME input \in Job, NEW n \in Nat, n < Len(input.hrp)
  PROVE  Hrp(n) \in Byte
<1>1. input.hrp \in Seq(Byte) /\ n + 1 \in 1 .. Len(input.hrp)
  BY DEF Job
<1> QED  BY <1>1, ElementOfSeq DEF Hrp

\* Steps that leave the inputter and the regrouper alone.
LEMMA EncoderStepTypes ==
  ASSUME TInv, IInv', UNCHANGED utf8Vars, UNCHANGED <<input, inputterVars, buffer, buffer_bits, c_end>>,
         Encoding, i' \in Nat, pc' = "regroup" => i' <= Len(got),
         FeederTypes', EncoderTypes', data' \in Seq(Nat)
  PROVE  TInv'
BY DEF TInv, InputterTypes, RegrouperTypes, Space, Utf8TypeOK, Encoding, inputterVars, utf8Vars,
       Cursors

LEMMA NumbersAreNat == \A s \in Seq(0 .. 31) : s \in Seq(Nat)
<1> SUFFICES ASSUME NEW s \in Seq(0 .. 31) PROVE s \in Seq(Nat)
  OBVIOUS
<1>1. \A n \in 1 .. Len(s) : s[n] \in Nat
  <2> SUFFICES ASSUME NEW n \in 1 .. Len(s) PROVE s[n] \in Nat
    OBVIOUS
  <2>1. s[n] \in 0 .. 31
    BY ElementOfSeq
  <2>2. \A x \in 0 .. 31 : x \in Nat
    OBVIOUS
  <2> QED  BY <2>1, <2>2, Zenon
<1>2. Len(s) \in Nat /\ DOMAIN s = 1 .. Len(s) /\ s = [n \in 1 .. Len(s) |-> s[n]]
  OBVIOUS
<1>3. s \in [1 .. Len(s) -> Nat]
  BY <1>1, <1>2
<1> QED  BY <1>2, <1>3

\* data holds numbers, as the regrouper's invariant says.
LEMMA DataType == ASSUME IInv PROVE data \in Seq(0 .. 31) /\ data \in Seq(Nat)
<1>1. data \in Seq(0 .. 31)
  <2>1. CASE input.job = "address"  BY <2>1 DEF IInv, Regrouped
  <2>2. CASE input.job = "string"  BY <2>2 DEF IInv
  <2> QED  BY <2>1, <2>2 DEF IInv, Job
<1> QED  BY <1>1, NumbersAreNat

LEMMA EncoderKeepsTypes ==
  ASSUME TInv, IInv', Bech32mNext, UNCHANGED utf8Vars
  PROVE  TInv'
<1>0. /\ Encoding /\ input.job = "address" /\ result = "running"
      /\ input \in Job /\ fed \in Seq(Byte) /\ result \in Results
      /\ chk \subseteq 0 .. 29 /\ k \in Nat /\ i \in Nat /\ "running" \in Results
      /\ IInv
  BY DEF TInv, InputterTypes, FeederTypes, EncoderTypes, RegrouperTypes, Results, Encoding,
         Bech32mNext, CheckHrp, HrpChecked, FeedHrp, FeedOne, AskForBytes, AskForRest, GotBytes,
         RegroupByte, BytesRegrouped, Flush, FeedSymbol, MoreSymbols, SymbolsEnd, PadChecksum,
         FeedChecksum, Bech32mEnds
<1>1. data' \in Seq(Nat) /\ data \in Seq(Nat) /\ data \in Seq(0 .. 31)
  <2>1. data' \in Seq(0 .. 31)
    <3>1. input' \in Job /\ IInv'
      BY DEF IInv
    <3>2. CASE input'.job = "address"  BY <3>1, <3>2 DEF IInv, Regrouped
    <3>3. CASE input'.job = "string"  BY <3>1, <3>3 DEF IInv
    <3> QED  BY <3>1, <3>2, <3>3 DEF Job
  <2> QED  BY <1>0, <2>1, DataType, NumbersAreNat
<1>2. CASE CheckHrp
  <2>1. chk' \subseteq 0 .. 29 /\ k' \in Nat
    <3>1. \/ UNCHANGED <<chk, k>>
          \/ chk' = Mixed(Hrp(k) \div 32) /\ k' = k + 1
      <4> DEFINE c == Hrp(k)
                 chk1 == Mixed(c \div 32)
      <4>1. CASE c \notin 33 .. 126  BY <1>2, <4>1 DEF CheckHrp
      <4>2. CASE c \in 33 .. 126 /\ c \in 65 .. 90
        <5> HIDE DEF c, chk1
        <5> QED  BY <1>2, <4>2 DEF CheckHrp, c
      <4>3. CASE c \in 33 .. 126 /\ c \notin 65 .. 90  BY <1>2, <4>3 DEF CheckHrp
      <4> QED  BY <4>1, <4>2, <4>3
    <3>2. Mixed(Hrp(k) \div 32) \subseteq 0 .. 29
      BY ChecksumTypes
    <3>3. CASE UNCHANGED <<chk, k>>  BY <1>0, <3>3
    <3>4. CASE chk' = Mixed(Hrp(k) \div 32) /\ k' = k + 1
      <4>1. k' \in Nat
        BY <1>0, <3>4
      <4> QED  BY <3>2, <3>4, <4>1
    <3> QED  BY <3>1, <3>3, <3>4
  <2>2. pc' \in {"hrp", "end"} /\ result' \in {"running", "ok", "malformed"}
    BY <1>0, <1>2 DEF CheckHrp, Return
  <2>3. FeederTypes'
    BY <1>0, <1>2, <2>2 DEF CheckHrp, FeederTypes, Results
  <2>4. UNCHANGED <<input, inputterVars, regrouperVars>>
    BY <1>2 DEF CheckHrp
  <2> QED  BY <1>0, <1>1, <2>1, <2>2, <2>3, <2>4, EncoderStepTypes DEF EncoderTypes, regrouperVars
<1>3. CASE HrpChecked \/ PadChecksum
  <2>1. chk' \subseteq 0 .. 29 /\ k' \in Nat
    <3>1. /\ chk' \in {polymod_step(chk), Xor(chk, Constant)}
          /\ k' = k + 1 \/ k' = 0
      BY <1>3 DEF HrpChecked, PadChecksum
    <3>2. polymod_step(chk) \subseteq 0 .. 29 /\ Xor(chk, Constant) \subseteq 0 .. 29
      BY <1>0, ChecksumTypes
    <3> QED  BY <1>0, <3>1, <3>2
  <2>2. pc' \in {"prefix", "pad", "checksum"} /\ UNCHANGED <<input, inputterVars, feederVars, regrouperVars>>
    BY <1>3 DEF HrpChecked, PadChecksum
  <2>3. FeederTypes'
    BY <1>0, <2>2 DEF feederVars, FeederTypes
  <2> QED  BY <1>0, <1>1, <2>1, <2>2, <2>3, EncoderStepTypes DEF EncoderTypes, regrouperVars
<1>4. CASE FeedHrp
  <2>1. Hrp(k) \in Byte
    BY <1>0, <1>4, HrpType DEF FeedHrp, Prefixed
  <2>2. fed' \in Seq(Byte) /\ result' \in Results /\ pc' # "regroup"
    BY <1>0, <1>4, <2>1, FedType DEF FeedHrp
  <2> QED  BY <1>0, <1>1, <1>4, <2>2, ChecksumTypes, EncoderStepTypes
           DEF FeedHrp, FeederTypes, EncoderTypes, regrouperVars
<1>5. CASE FeedOne
  <2>1. One \in Byte
    BY Bytes DEF One
  <2>2. fed' \in Seq(Byte) /\ result' \in Results /\ pc' # "regroup"
    BY <1>0, <1>5, <2>1, FedType DEF FeedOne
  <2> QED  BY <1>0, <1>1, <1>5, <2>2, EncoderStepTypes
           DEF FeedOne, FeederTypes, EncoderTypes, bech32mVars
<1>6. CASE AskForBytes
  <2>1. InputLength \in Nat
    BY InputLengthFits
  <2> QED  BY <1>0, <1>1, <1>6, <2>1
           DEF AskForBytes, CallInputter, TInv, InputterTypes, FeederTypes, EncoderTypes,
               RegrouperTypes, Space, Utf8TypeOK, Cursors, utf8Vars, feederVars, regrouperVars
<1>7. CASE AskForRest \/ MoreSymbols \/ SymbolsEnd
  BY <1>0, <1>1, <1>7, EncoderStepTypes
  DEF AskForRest, MoreSymbols, SymbolsEnd, FeederTypes, EncoderTypes, regrouperVars, bech32mVars,
      feederVars
<1>8. CASE GotBytes
  BY <1>0, <1>1, <1>8 DEF GotBytes, TInv, InputterTypes, FeederTypes, EncoderTypes,
     RegrouperTypes, Space, Utf8TypeOK, Cursors, utf8Vars, feederVars, inputterVars
<1>9. CASE RegroupByte
  <2>1. buffer' \in Byte /\ buffer_bits' \in 0 .. 7
    BY <1>0, <1>9, Bytes DEF RegroupByte, IInv, Register
  <2>2. i' \in Nat /\ (pc' = "regroup" => i' <= Len(got'))
    BY <1>0, <1>9, SMTT(30) DEF RegroupByte, TInv, InputterTypes, RegrouperTypes, Return, inputterVars
  <2>3. FeederTypes'
    BY <1>0, <1>9 DEF RegroupByte, Return, FeederTypes, Results
  <2> QED  BY <1>0, <1>1, <1>9, <2>1, <2>2, <2>3
           DEF RegroupByte, TInv, InputterTypes, EncoderTypes, RegrouperTypes, Space, Utf8TypeOK,
               Cursors, utf8Vars, inputterVars
<1>10. CASE BytesRegrouped
  BY <1>0, <1>1, <1>10, EncoderStepTypes
  DEF BytesRegrouped, FeederTypes, EncoderTypes, bech32mVars, feederVars
<1>11. CASE Flush
  <2>1. buffer' \in Byte /\ buffer_bits' \in 0 .. 7
    BY <1>0, <1>11, Bytes DEF Flush, IInv, Register
  <2> QED  BY <1>0, <1>1, <1>11, <2>1
           DEF Flush, TInv, InputterTypes, FeederTypes, EncoderTypes, RegrouperTypes, Space,
               Utf8TypeOK, Cursors, utf8Vars, feederVars, inputterVars
<1>12. CASE FeedSymbol
  <2>1. CASE data[k + 1] >= 32
    BY <1>0, <1>1, <1>12, <2>1, EncoderStepTypes
    DEF FeedSymbol, Return, FeederTypes, EncoderTypes, Results, regrouperVars
  <2>2. CASE ~(data[k + 1] >= 32)
    <3>1. k + 1 \in 1 .. Len(data)
      BY <1>0, <1>1, <1>12 DEF FeedSymbol
    <3>2. data[k + 1] \in 0 .. 31
      BY <1>1, <3>1, ElementOfSeq
    <3>3. Charset[data[k + 1] + 1] \in Byte
      BY <3>2, CharsetType
    <3>4. fed' \in Seq(Byte) /\ result' \in Results /\ pc' # "regroup"
      BY <1>0, <1>12, <2>2, <3>3, FedType DEF FeedSymbol
    <3> QED  BY <1>0, <1>1, <1>12, <2>2, <3>4, ChecksumTypes, EncoderStepTypes
             DEF FeedSymbol, FeederTypes, EncoderTypes, regrouperVars
  <2> QED  BY <2>1, <2>2
<1>13. CASE FeedChecksum
  <2>1. ChecksumSymbol(chk, k) \in 0 .. 31
    BY SymbolType
  <2>2. Charset[ChecksumSymbol(chk, k) + 1] \in Byte
    BY <2>1, CharsetType
  <2>3. fed' \in Seq(Byte) /\ result' \in Results /\ pc' # "regroup"
    BY <1>0, <1>13, <2>2, FedType DEF FeedChecksum
  <2> QED  BY <1>0, <1>1, <1>13, <2>3, EncoderStepTypes
           DEF FeedChecksum, FeederTypes, EncoderTypes, regrouperVars
<1>14. CASE Bech32mEnds
  BY <1>0, <1>1, <1>14, EncoderStepTypes
  DEF Bech32mEnds, Return, FeederTypes, EncoderTypes, Results, bech32mVars
<1> QED  BY <1>2, <1>3, <1>4, <1>5, <1>6, <1>7, <1>8, <1>9, <1>10, <1>11, <1>12, <1>13, <1>14
         DEF Bech32mNext

LEMMA StepTypes == TInv /\ [Next]_streamVars => TInv'
<1> SUFFICES ASSUME TInv, [Next]_streamVars PROVE TInv'
  OBVIOUS
<1>0. IInv'
  BY StepInv DEF TInv
<1>1. CASE Utf8Next /\ UNCHANGED bech32mVars
  BY <1>0, <1>1, CheckerKeepsTypes
<1>2. CASE Bech32mNext /\ UNCHANGED utf8Vars
  BY <1>0, <1>2, EncoderKeepsTypes
<1>3. CASE result = "running" /\ InputterNext /\ UNCHANGED <<utf8Vars, bech32mVars>>
  BY <1>0, <1>3, InputterKeepsTypes
<1>4. CASE UNCHANGED streamVars
  BY <1>0, <1>4 DEF TInv, InputterTypes, FeederTypes, EncoderTypes, RegrouperTypes, Space,
     Utf8TypeOK, Cursors, streamVars, callbackVars, inputterVars, feederVars, utf8Vars, bech32mVars
<1> QED  BY <1>1, <1>2, <1>3, <1>4 DEF Next

LEMMA TypesHold == Spec => []TInv
BY InitTypes, StepTypes, PTL DEF Spec

\* The inputter writes no more than it was asked for and stays at a cursor
\* or behind the last, utf8_check's buffer never overflows, the checksum
\* stays a number of thirty bits, and all that is fed are bytes.
THEOREM StreamsTypes == Spec => []StreamsTypeOK
<1>1. TInv => StreamsTypeOK
  BY DEF TInv, InputterTypes, FeederTypes, EncoderTypes, RegrouperTypes, StreamsTypeOK
<1> QED  BY <1>1, TypesHold, PTL
=============================================================================
