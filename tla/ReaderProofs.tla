---------------------------- MODULE ReaderProofs ----------------------------
(***************************************************************************)
(* What a reader makes of what the encoders return, by way of Delivery.    *)
(* First a String: a character of Unicode is what the bit tests of         *)
(* utf8_check let pass, so a scan of buffers of any length passes exactly  *)
(* the texts.  Then an Address: the step of its checksum adds up, so the   *)
(* six symbols at its end make the checksum of the whole the constant.     *)
(***************************************************************************)
EXTENDS DeliveryProofs, Utf8Shape

-----------------------------------------------------------------------------
(* A character has one form, and the tests are about its bits. *)

\* Numbers of six bits are read back from the number they make.
LEMMA JoinedTwo ==
  ASSUME NEW a \in Nat, a < 32, NEW b \in Nat, b < 64
  PROVE  (64 * a + b) \div 64 = a /\ (64 * a + b) % 64 = b
OBVIOUS

LEMMA JoinedThree ==
  ASSUME NEW a \in Nat, a < 16, NEW b \in Nat, b < 64, NEW c \in Nat, c < 64
  PROVE  LET p == 4096 * a + 64 * b + c
         IN  p \div 4096 = a /\ (p \div 64) % 64 = b /\ p % 64 = c
OBVIOUS

LEMMA JoinedFour ==
  ASSUME NEW a \in Nat, a < 8, NEW b \in Nat, b < 64, NEW c \in Nat, c < 64, NEW d \in Nat, d < 64
  PROVE  LET p == 262144 * a + 4096 * b + 64 * c + d
         IN  p \div 262144 = a /\ (p \div 4096) % 64 = b /\ (p \div 64) % 64 = c /\ p % 64 = d
OBVIOUS

\* The lengths that lead bytes announce.
LEMMA LengthIs ==
  ASSUME NEW b \in Nat, b < 256
  PROVE  /\ SequenceLength(b) = 1 <=> b < 128
         /\ SequenceLength(b) = 2 <=> b \div 32 = 6
         /\ SequenceLength(b) = 3 <=> b \div 16 = 14
         /\ SequenceLength(b) = 4 <=> b \div 8 = 30
         /\ SequenceLength(b) \in 0 .. 4
BY DEF SequenceLength

\* Code points by the number of bytes they take.
Sized(p, n) ==
  \/ n = 1 /\ p < 128
  \/ n = 2 /\ p >= 128 /\ p < 2048
  \/ n = 3 /\ p >= 2048 /\ p < 65536
  \/ n = 4 /\ p >= 65536

SpellsTwo(p, a, b) == p \div 64 = a /\ p % 64 = b
SpellsThree(p, a, b, c) == p \div 4096 = a /\ (p \div 64) % 64 = b /\ p % 64 = c
SpellsFour(p, a, b, c, d) ==
  p \div 262144 = a /\ (p \div 4096) % 64 = b /\ (p \div 64) % 64 = c /\ p % 64 = d

LEMMA EncodedOne == ASSUME NEW p \in Nat, Sized(p, 1) PROVE Encoded(p) = <<p>>
BY DEF Encoded, Sized

LEMMA EncodedTwo ==
  ASSUME NEW p \in Nat, Sized(p, 2), NEW a, NEW b, SpellsTwo(p, a, b)
  PROVE  Encoded(p) = <<192 + a, 128 + b>>
<1>1. p >= 128 /\ p < 2048
  BY DEF Sized
<1>2. Encoded(p) = <<192 + (p \div 64), Low6(p)>>
  BY <1>1 DEF Encoded
<1> QED  BY <1>2 DEF SpellsTwo, Low6

LEMMA EncodedThree ==
  ASSUME NEW p \in Nat, Sized(p, 3), NEW a, NEW b, NEW c, SpellsThree(p, a, b, c)
  PROVE  Encoded(p) = <<224 + a, 128 + b, 128 + c>>
<1>1. p >= 2048 /\ p < 65536
  BY DEF Sized
<1>2. Encoded(p) = <<224 + (p \div 4096), Low6(p \div 64), Low6(p)>>
  BY <1>1 DEF Encoded
<1> QED  BY <1>2 DEF SpellsThree, Low6

LEMMA EncodedFour ==
  ASSUME NEW p \in Nat, Sized(p, 4), NEW a, NEW b, NEW c, NEW d, SpellsFour(p, a, b, c, d)
  PROVE  Encoded(p) = <<240 + a, 128 + b, 128 + c, 128 + d>>
<1>1. p >= 65536
  BY DEF Sized
<1>2. Encoded(p) = <<240 + (p \div 262144), Low6(p \div 4096), Low6(p \div 64), Low6(p)>>
  BY <1>1 DEF Encoded
<1> QED  BY <1>2 DEF SpellsFour, Low6

\* Sequences of one to four elements.
LEMMA OneIs ==
  ASSUME NEW S, NEW s \in Seq(S), NEW x
  PROVE  <<x>> = s <=> Len(s) = 1 /\ s[1] = x
<1>1. ASSUME Len(s) = 1, s[1] = x PROVE <<x>> = s
  BY <1>1
<1> QED  BY <1>1

LEMMA TwoIs ==
  ASSUME NEW S, NEW s \in Seq(S), NEW x, NEW y
  PROVE  <<x, y>> = s <=> Len(s) = 2 /\ s[1] = x /\ s[2] = y
<1>1. ASSUME Len(s) = 2, s[1] = x, s[2] = y PROVE <<x, y>> = s
  BY <1>1
<1> QED  BY <1>1

LEMMA ThreeIs ==
  ASSUME NEW S, NEW s \in Seq(S), NEW x, NEW y, NEW z
  PROVE  <<x, y, z>> = s <=> Len(s) = 3 /\ s[1] = x /\ s[2] = y /\ s[3] = z
<1>1. ASSUME Len(s) = 3, s[1] = x, s[2] = y, s[3] = z PROVE <<x, y, z>> = s
  BY <1>1
<1> QED  BY <1>1

LEMMA FourIs ==
  ASSUME NEW S, NEW s \in Seq(S), NEW x, NEW y, NEW z, NEW u
  PROVE  <<x, y, z, u>> = s <=> Len(s) = 4 /\ s[1] = x /\ s[2] = y /\ s[3] = z /\ s[4] = u
<1>1. ASSUME Len(s) = 4, s[1] = x, s[2] = y, s[3] = z, s[4] = u PROVE <<x, y, z, u>> = s
  BY <1>1
<1> QED  BY <1>1

\* The length of a form is that of its code point's size.
LEMMA SizedOne ==
  ASSUME NEW p \in Nat
  PROVE  Sized(p, 1) \/ Sized(p, 2) \/ Sized(p, 3) \/ Sized(p, 4)
BY DEF Sized

LEMMA EncodedLength ==
  ASSUME NEW p \in Nat, NEW s, Encoded(p) = s
  PROVE  Sized(p, Len(s))
<1>1. ASSUME Sized(p, 1) PROVE Len(s) = 1
  <2>1. s = <<p>>
    BY <1>1, EncodedOne
  <2> QED  BY <2>1
<1>2. ASSUME Sized(p, 2) PROVE Len(s) = 2
  <2>1. PICK a, b : SpellsTwo(p, a, b)
    BY DEF SpellsTwo
  <2>2. s = <<192 + a, 128 + b>>
    BY <1>2, <2>1, EncodedTwo
  <2> QED  BY <2>2
<1>3. ASSUME Sized(p, 3) PROVE Len(s) = 3
  <2>1. PICK a, b, c : SpellsThree(p, a, b, c)
    BY DEF SpellsThree
  <2>2. s = <<224 + a, 128 + b, 128 + c>>
    BY <1>3, <2>1, EncodedThree
  <2> QED  BY <2>2
<1>4. ASSUME Sized(p, 4) PROVE Len(s) = 4
  <2>1. PICK a, b, c, d : SpellsFour(p, a, b, c, d)
    BY DEF SpellsFour
  <2>2. s = <<240 + a, 128 + b, 128 + c, 128 + d>>
    BY <1>4, <2>1, EncodedFour
  <2> QED  BY <2>2
<1> QED  BY <1>1, <1>2, <1>3, <1>4, SizedOne

\* The values of a byte.
Octet(b) == b \in Nat /\ b < 256

LEMMA ByteBound ==
  ASSUME NEW b \in Byte, Base = 256
  PROVE  Octet(b)
<1>1. ASSUME NEW n \in Nat, NEW x \in 0 .. n - 1 PROVE x \in Nat /\ x < n
  BY <1>1
<1>2. b \in Nat /\ b < Base
  BY <1>1, BaseAssumption DEF Byte
<1> QED  BY <1>2 DEF Octet

LEMMA ByteOf ==
  ASSUME NEW s \in Seq(Byte), NEW n \in 1 .. Len(s), Base = 256
  PROVE  Octet(s[n])
<1>1. s[n] \in Byte
  BY ElementOfSeq
<1> QED  BY <1>1, ByteBound

\* The bits of a lead byte and of the bytes behind it.
Tail6(b, n) == n \in Nat /\ n < 64 /\ (b = 128 + n <=> b \div 64 = 2)

LEMMA TailParts ==
  ASSUME NEW b, Octet(b)
  PROVE  Tail6(b, b % 64)
BY DEF Octet, Tail6

LEMMA CharacterOne ==
  ASSUME NEW s \in Seq(Byte), Len(s) = 1, Base = 256
  PROVE  Character(s) <=> s[1] < 128
<1> DEFINE p == Point(s)
<1>1. s[1] \in Nat /\ s[1] < 256
  <2>1. 1 \in 1 .. Len(s)
    OBVIOUS
  <2> QED  BY <2>1, ByteOf DEF Octet
<1>2. p = s[1] % 128
  BY DEF Point
<1>3. p \in Nat /\ p < 128 /\ (p = s[1] <=> s[1] < 128)
  BY <1>1, <1>2
<1> HIDE DEF p
<1>4. Encoded(p) = <<p>>
  <2>1. Sized(p, 1)
    BY <1>3 DEF Sized
  <2> QED  BY <1>3, <2>1, EncodedOne
<1>5. p <= LastPoint /\ ~Surrogate(p) /\ ~Noncharacter(p)
  BY <1>3 DEF LastPoint, Surrogate, Noncharacter
<1>6. Character(s) <=> Encoded(p) = s
  BY <1>5 DEF Character, p
<1> QED  BY <1>3, <1>4, <1>6, OneIs

LEMMA CharacterTwo ==
  ASSUME NEW s \in Seq(Byte), Len(s) = 2, Base = 256
  PROVE  Character(s) <=> s[1] \div 32 = 6 /\ s[2] \div 64 = 2 /\ s[1] \div 2 # 96
<1> DEFINE p == Point(s)
           a == s[1] % 32
           b == s[2] % 64
<1>1. Octet(s[1]) /\ Octet(s[2])
  <2>1. 1 \in 1 .. Len(s) /\ 2 \in 1 .. Len(s)
    OBVIOUS
  <2> QED  BY <2>1, ByteOf
<1>2. p = 64 * a + b
  BY DEF Point
<1>3. /\ a \in Nat /\ a < 32 /\ (s[1] = 192 + a <=> s[1] \div 32 = 6)
      /\ s[1] = 192 + a => (s[1] \div 2 # 96 <=> a > 1)
  BY <1>1, SMTT(30) DEF Octet
<1>4. b \in Nat /\ b < 64 /\ (s[2] = 128 + b <=> s[2] \div 64 = 2)
  BY <1>1, TailParts DEF Tail6
<1> HIDE DEF a, b, p
<1>5. p \in Nat /\ p < 2048 /\ (Sized(p, 2) <=> a > 1)
  BY <1>2, <1>3, <1>4 DEF Sized
<1>6. SpellsTwo(p, a, b)
  BY <1>2, <1>3, <1>4, JoinedTwo DEF SpellsTwo
<1>7. p <= LastPoint /\ ~Surrogate(p) /\ ~Noncharacter(p)
  BY <1>5 DEF LastPoint, Surrogate, Noncharacter
<1>8. Character(s) <=> Encoded(p) = s
  BY <1>7 DEF Character, p
<1>9. p \in Nat
  BY <1>5
<1>10. Encoded(p) = s => Sized(p, 2)
  BY <1>9, EncodedLength
<1>11. Sized(p, 2) => Encoded(p) = <<192 + a, 128 + b>>
  BY <1>6, <1>9, EncodedTwo
<1>12. <<192 + a, 128 + b>> = s <=> s[1] = 192 + a /\ s[2] = 128 + b
  BY TwoIs
<1>13. Encoded(p) = s <=> Sized(p, 2) /\ s[1] = 192 + a /\ s[2] = 128 + b
  BY <1>10, <1>11, <1>12, Zenon
<1>14. Sized(p, 2) <=> a > 1
  BY <1>5
<1> QED  BY <1>3, <1>4, <1>8, <1>13, <1>14

LEMMA CharacterThree ==
  ASSUME NEW s \in Seq(Byte), Len(s) = 3, Base = 256
  PROVE  Character(s) <=>
           /\ s[1] \div 16 = 14 /\ s[2] \div 64 = 2 /\ s[3] \div 64 = 2
           /\ ~(s[1] = 224 /\ s[2] \div 32 = 4)
           /\ ~(s[1] = 237 /\ s[2] \div 32 = 5)
           /\ ~(s[1] = 239 /\ s[2] = 191 /\ s[3] \div 2 = 95)
<1> DEFINE p == Point(s)
           a == s[1] % 16
           b == s[2] % 64
           c == s[3] % 64
<1>1. Octet(s[1]) /\ Octet(s[2]) /\ Octet(s[3])
  <2>1. 1 \in 1 .. Len(s) /\ 2 \in 1 .. Len(s) /\ 3 \in 1 .. Len(s)
    OBVIOUS
  <2> QED  BY <2>1, ByteOf
<1>2. p = 4096 * a + 64 * b + c
  BY DEF Point
<1>3. a \in Nat /\ a < 16 /\ (s[1] = 224 + a <=> s[1] \div 16 = 14)
  BY <1>1 DEF Octet
<1>4. b \in Nat /\ b < 64 /\ (s[2] = 128 + b <=> s[2] \div 64 = 2)
  BY <1>1, TailParts DEF Tail6
<1>5. c \in Nat /\ c < 64 /\ (s[3] = 128 + c <=> s[3] \div 64 = 2)
  BY <1>1, TailParts DEF Tail6
<1> HIDE DEF a, b, c, p
<1>6. ASSUME s[1] = 224 + a, s[2] = 128 + b, s[3] = 128 + c
      PROVE  /\ (s[1] = 224 /\ s[2] \div 32 = 4) <=> (a = 0 /\ b < 32)
             /\ (s[1] = 237 /\ s[2] \div 32 = 5) <=> (a = 13 /\ b >= 32)
             /\ (s[1] = 239 /\ s[2] = 191 /\ s[3] \div 2 = 95) <=> (a = 15 /\ b = 63 /\ c >= 62)
  BY <1>3, <1>4, <1>5, <1>6
<1>7. p \in Nat /\ p < 65536 /\ (Sized(p, 3) <=> ~(a = 0 /\ b < 32))
  BY <1>2, <1>3, <1>4, <1>5 DEF Sized
<1>8. Surrogate(p) <=> a = 13 /\ b >= 32
  BY <1>2, <1>3, <1>4, <1>5 DEF Surrogate
<1>9. Noncharacter(p) <=> a = 15 /\ b = 63 /\ c >= 62
  BY <1>2, <1>3, <1>4, <1>5 DEF Noncharacter
<1>10. SpellsThree(p, a, b, c)
  BY <1>2, <1>3, <1>4, <1>5, JoinedThree DEF SpellsThree
<1>11. Character(s) <=> Encoded(p) = s /\ ~Surrogate(p) /\ ~Noncharacter(p)
  <2>1. p <= LastPoint
    BY <1>7 DEF LastPoint
  <2> QED  BY <2>1 DEF Character, p
<1>12. p \in Nat
  BY <1>7
<1>13. Encoded(p) = s => Sized(p, 3)
  BY <1>12, EncodedLength
<1>14. Sized(p, 3) => Encoded(p) = <<224 + a, 128 + b, 128 + c>>
  BY <1>10, <1>12, EncodedThree
<1>15. <<224 + a, 128 + b, 128 + c>> = s <=> s[1] = 224 + a /\ s[2] = 128 + b /\ s[3] = 128 + c
  BY ThreeIs
<1>16. Encoded(p) = s <=> Sized(p, 3) /\ s[1] = 224 + a /\ s[2] = 128 + b /\ s[3] = 128 + c
  BY <1>13, <1>14, <1>15, Zenon
<1>17. Sized(p, 3) <=> ~(a = 0 /\ b < 32)
  BY <1>7
<1>18. Character(s) <=> /\ s[1] = 224 + a /\ s[2] = 128 + b /\ s[3] = 128 + c
                        /\ ~(a = 0 /\ b < 32) /\ ~(a = 13 /\ b >= 32)
                        /\ ~(a = 15 /\ b = 63 /\ c >= 62)
  BY <1>8, <1>9, <1>11, <1>16, <1>17
<1>19. s[1] = 224 + a /\ s[2] = 128 + b /\ s[3] = 128 + c <=>
         s[1] \div 16 = 14 /\ s[2] \div 64 = 2 /\ s[3] \div 64 = 2
  BY <1>3, <1>4, <1>5, Zenon
<1> QED  BY <1>6, <1>18, <1>19, ZenonT(60)

LEMMA CharacterFour ==
  ASSUME NEW s \in Seq(Byte), Len(s) = 4, Base = 256
  PROVE  Character(s) <=>
           /\ s[1] \div 8 = 30 /\ s[2] \div 64 = 2 /\ s[3] \div 64 = 2 /\ s[4] \div 64 = 2
           /\ ~(s[1] = 240 /\ s[2] \div 16 = 8)
           /\ ~(s[1] = 244 /\ s[2] > 143) /\ s[1] <= 244
<1> DEFINE p == Point(s)
           a == s[1] % 8
           b == s[2] % 64
           c == s[3] % 64
           d == s[4] % 64
<1>1. Octet(s[1]) /\ Octet(s[2]) /\ Octet(s[3]) /\ Octet(s[4])
  <2>1. 1 \in 1 .. Len(s) /\ 2 \in 1 .. Len(s) /\ 3 \in 1 .. Len(s) /\ 4 \in 1 .. Len(s)
    OBVIOUS
  <2> QED  BY <2>1, ByteOf
<1>2. p = 262144 * a + 4096 * b + 64 * c + d
  BY DEF Point
<1>3. a \in Nat /\ a < 8 /\ (s[1] = 240 + a <=> s[1] \div 8 = 30)
  BY <1>1, SMTT(30) DEF Octet
<1>4. b \in Nat /\ b < 64 /\ (s[2] = 128 + b <=> s[2] \div 64 = 2)
  BY <1>1, TailParts DEF Tail6
<1>5. c \in Nat /\ c < 64 /\ (s[3] = 128 + c <=> s[3] \div 64 = 2)
  BY <1>1, TailParts DEF Tail6
<1>6. d \in Nat /\ d < 64 /\ (s[4] = 128 + d <=> s[4] \div 64 = 2)
  BY <1>1, TailParts DEF Tail6
<1> HIDE DEF a, b, c, d, p
<1>7. ASSUME s[1] = 240 + a, s[2] = 128 + b
      PROVE  /\ (s[1] = 240 /\ s[2] \div 16 = 8) <=> (a = 0 /\ b < 16)
             /\ (s[1] = 244 /\ s[2] > 143) <=> (a = 4 /\ b > 15)
             /\ s[1] <= 244 <=> a <= 4
  BY <1>3, <1>4, <1>7
<1>8. p \in Nat /\ (Sized(p, 4) <=> ~(a = 0 /\ b < 16))
  BY <1>2, <1>3, <1>4, <1>5, <1>6 DEF Sized
<1>9. p <= LastPoint <=> a < 4 \/ (a = 4 /\ b <= 15)
  BY <1>2, <1>3, <1>4, <1>5, <1>6 DEF LastPoint
<1>10. SpellsFour(p, a, b, c, d)
  BY <1>2, <1>3, <1>4, <1>5, <1>6, JoinedFour, SMTT(30) DEF SpellsFour
<1>11. Sized(p, 4) => ~Surrogate(p) /\ ~Noncharacter(p)
  BY <1>8 DEF Surrogate, Noncharacter, Sized
<1>12. p \in Nat
  BY <1>8
<1>13. Encoded(p) = s => Sized(p, 4)
  BY <1>12, EncodedLength
<1>14. Sized(p, 4) => Encoded(p) = <<240 + a, 128 + b, 128 + c, 128 + d>>
  BY <1>10, <1>12, EncodedFour
<1>15. <<240 + a, 128 + b, 128 + c, 128 + d>> = s <=>
         s[1] = 240 + a /\ s[2] = 128 + b /\ s[3] = 128 + c /\ s[4] = 128 + d
  BY FourIs
<1>16. Encoded(p) = s <=>
         Sized(p, 4) /\ s[1] = 240 + a /\ s[2] = 128 + b /\ s[3] = 128 + c /\ s[4] = 128 + d
  BY <1>13, <1>14, <1>15, ZenonT(60)
<1>17. Sized(p, 4) <=> ~(a = 0 /\ b < 16)
  BY <1>8
<1>18. Character(s) <=> Encoded(p) = s /\ p <= LastPoint /\ ~Surrogate(p) /\ ~Noncharacter(p)
  BY DEF Character, p
<1>19. Character(s) <=> Encoded(p) = s /\ (a < 4 \/ (a = 4 /\ b <= 15))
  BY <1>9, <1>11, <1>13, <1>18, Zenon
<1>20. Character(s) <=> /\ s[1] = 240 + a /\ s[2] = 128 + b /\ s[3] = 128 + c /\ s[4] = 128 + d
                        /\ ~(a = 0 /\ b < 16) /\ (a < 4 \/ (a = 4 /\ b <= 15))
  BY <1>16, <1>17, <1>19, Zenon
<1>21. (a < 4 \/ (a = 4 /\ b <= 15)) <=> ~(a = 4 /\ b > 15) /\ a <= 4
  BY <1>3, <1>4
<1>22. s[1] = 240 + a /\ s[2] = 128 + b /\ s[3] = 128 + c /\ s[4] = 128 + d <=>
         s[1] \div 8 = 30 /\ s[2] \div 64 = 2 /\ s[3] \div 64 = 2 /\ s[4] \div 64 = 2
  BY <1>3, <1>4, <1>5, <1>6, Zenon
<1> QED  BY <1>7, <1>20, <1>21, <1>22, ZenonT(60)

\* A character is what utf8_check passes: a lead byte that announces its
\* length, and a sequence that is legal.
LEMMA CharacterIs ==
  ASSUME NEW s \in Seq(Byte), Len(s) \in 1 .. 4, Base = 256
  PROVE  Character(s) <=> SequenceLength(s[1]) = Len(s) /\ (Len(s) > 1 => LegalSequence(s))
<1>1. s[1] \in Nat /\ s[1] < 256
  <2>1. 1 \in 1 .. Len(s)
    BY SMTT(30)
  <2> QED  BY <2>1, ByteOf DEF Octet
<1>2. CASE Len(s) = 1
  BY <1>1, <1>2, CharacterOne, LengthIs
<1>3. CASE Len(s) = 2
  <2>1. LegalSequence(s) <=> s[2] \div 64 = 2 /\ s[1] \div 2 # 96
    BY <1>3 DEF LegalSequence
  <2> QED  BY <1>1, <1>3, <2>1, CharacterTwo, LengthIs
<1>4. CASE Len(s) = 3
  <2>1. LegalSequence(s) <=>
          /\ s[2] \div 64 = 2 /\ s[3] \div 64 = 2
          /\ ~(s[1] = 224 /\ s[2] \div 32 = 4)
          /\ ~(s[1] = 237 /\ s[2] \div 32 = 5)
          /\ ~(s[1] = 239 /\ s[2] = 191 /\ s[3] \div 2 = 95)
    BY <1>4 DEF LegalSequence
  <2> QED  BY <1>1, <1>4, <2>1, CharacterThree, LengthIs, SMTT(30)
<1>5. CASE Len(s) = 4
  <2>1. LegalSequence(s) <=>
          /\ s[2] \div 64 = 2 /\ s[3] \div 64 = 2 /\ s[4] \div 64 = 2
          /\ ~(s[1] = 240 /\ s[2] \div 16 = 8)
          /\ ~(s[1] = 244 /\ s[2] > 143) /\ s[1] <= 244
    BY <1>5 DEF LegalSequence
  <2> QED  BY <1>1, <1>5, <2>1, CharacterFour, LengthIs
<1> QED  BY <1>2, <1>3, <1>4, <1>5
-----------------------------------------------------------------------------
(* The rounds of utf8_check and the characters of a text. *)

\* The bit tests are those of the program.
Utf8Tests ==
  /\ \A b \in Byte : SeqLen(b) = SequenceLength(b)
  /\ \A s \in Seq(Byte) : Legal(s) <=> LegalSequence(s)

\* What behind byte p of a text is a sequence of characters.
FromOf(t, p, f) ==
  p = Len(t) \/ \E n \in 1 .. 4 : p + n <= Len(t) /\ Character(SubSeq(t, p + 1, p + n)) /\ f[p + n]

UnicodeFrom(t, p) ==
  LET from[x \in 0 .. Len(t)] ==
        x = Len(t) \/ \E n \in 1 .. 4 :
          x + n <= Len(t) /\ Character(SubSeq(t, x + 1, x + n)) /\ from[x + n]
  IN  from[p]

\* The recursive definition has a value.
LEMMA FromDefined ==
  ASSUME NEW t, Len(t) \in Nat
  PROVE  \E f \in [0 .. Len(t) -> BOOLEAN] : \A x \in 0 .. Len(t) : f[x] = FromOf(t, x, f)
<1> DEFINE D == 0 .. Len(t)
           m == [x \in D |-> Len(t) - x]
           F == [x \in D |-> [g \in [D -> BOOLEAN] |-> FromOf(t, x, g)]]
<1>1. m \in [D -> 0 .. Len(t)]
  <2>1. \A x \in D : Len(t) - x \in 0 .. Len(t)
    OBVIOUS
  <2> HIDE DEF D
  <2> QED  BY <2>1
<1>2. F \in [D -> [[D -> BOOLEAN] -> BOOLEAN]]
  <2>1. ASSUME NEW x, NEW g PROVE FromOf(t, x, g) \in BOOLEAN
    BY DEF FromOf
  <2> HIDE DEF D
  <2> QED  BY <2>1
<1>3. ASSUME NEW x \in D, NEW g \in [D -> BOOLEAN], NEW h \in [D -> BOOLEAN],
             \A y \in D : m[y] < m[x] => g[y] = h[y]
      PROVE  F[x][g] = F[x][h]
  <2>1. ASSUME NEW n \in 1 .. 4, x + n <= Len(t) PROVE g[x + n] = h[x + n]
    <3>1. x + n \in D /\ Len(t) - (x + n) < Len(t) - x
      BY <2>1
    <3>2. m[x + n] < m[x]
      BY <3>1
    <3> QED  BY <1>3, <3>1, <3>2
  <2>2. FromOf(t, x, g) <=> FromOf(t, x, h)
    BY <2>1 DEF FromOf
  <2>3. FromOf(t, x, g) \in BOOLEAN /\ FromOf(t, x, h) \in BOOLEAN
    BY DEF FromOf
  <2>4. FromOf(t, x, g) = FromOf(t, x, h)
    <3> DEFINE a == FromOf(t, x, g)  b == FromOf(t, x, h)
    <3>1. a \in BOOLEAN /\ b \in BOOLEAN /\ (a <=> b)
      BY <2>2, <2>3
    <3> HIDE DEF a, b
    <3>2. a = b
      BY <3>1
    <3> QED  BY <3>2 DEF a, b
  <2> HIDE DEF D
  <2> QED  BY <2>4
<1>4. Grounded(D, BOOLEAN, Len(t), m, F)
  <2> HIDE DEF D, m, F
  <2> QED  BY <1>1, <1>2, <1>3 DEF Grounded
<1>5. PICK f \in [D -> BOOLEAN] : \A x \in D : f[x] = F[x][f]
  <2>1. Defines(D, BOOLEAN, F)
    <3> DEFINE N == Len(t)
    <3> HIDE DEF D, m, F, N
    <3>1. Grounded(D, BOOLEAN, N, m, F)
      BY <1>4 DEF N
    <3> QED  BY <3>1, RecursionDefined
  <2> QED  BY <2>1 DEF Defines
<1>6. \A x \in D : f[x] = FromOf(t, x, f)
  <2> HIDE DEF D
  <2> QED  BY <1>5
<1> QED  BY <1>5, <1>6

\* One character after the other.
LEMMA FromStep ==
  ASSUME NEW t, Len(t) \in Nat, NEW p \in 0 .. Len(t)
  PROVE  UnicodeFrom(t, p) <=>
           p = Len(t) \/ \E n \in 1 .. 4 :
             p + n <= Len(t) /\ Character(SubSeq(t, p + 1, p + n)) /\ UnicodeFrom(t, p + n)
<1> DEFINE D == 0 .. Len(t)
           from[x \in 0 .. Len(t)] ==
             x = Len(t) \/ \E n \in 1 .. 4 :
               x + n <= Len(t) /\ Character(SubSeq(t, x + 1, x + n)) /\ from[x + n]
<1>1. PICK f \in [D -> BOOLEAN] : \A x \in D : f[x] = FromOf(t, x, f)
  BY FromDefined
<1>2. f = [x \in D |-> x = Len(t) \/ \E n \in 1 .. 4 :
             x + n <= Len(t) /\ Character(SubSeq(t, x + 1, x + n)) /\ f[x + n]]
  <2> HIDE DEF D
  <2> QED  BY <1>1 DEF FromOf
<1>3. from = [x \in D |-> x = Len(t) \/ \E n \in 1 .. 4 :
             x + n <= Len(t) /\ Character(SubSeq(t, x + 1, x + n)) /\ from[x + n]]
  BY <1>2
<1>4. \A x : UnicodeFrom(t, x) <=> from[x]
  BY DEF UnicodeFrom
<1> HIDE DEF from
<1>5. from[p] <=> FromOf(t, p, from)
  <2> HIDE DEF D
  <2>1. p \in D
    BY DEF D
  <2> QED  BY <1>3, <2>1 DEF FromOf
<1> QED  BY <1>4, <1>5 DEF FromOf

\* The whole text.
LEMMA UnicodeIs == ASSUME NEW t PROVE Unicode(t) <=> UnicodeFrom(t, 0)
BY DEF Unicode, UnicodeFrom
-----------------------------------------------------------------------------
\* A text is the window c of a block.
TextOf(t, mem, c) ==
  Len(t) = c.size /\ \A q \in 0 .. c.size : \A n \in 1 .. 4 :
    q + n <= c.size => SubSeq(t, q + 1, q + n) = [j \in 1 .. n |-> ByteAt(mem, c.off + q + j - 1)]

\* A character in the block has the length that its first byte announces,
\* and is legal.
LEMMA CharacterHere ==
  ASSUME Utf8Tests, Base = 256, NEW mem \in Seq(Byte), NEW c \in Cursor, NEW t, TextOf(t, mem, c),
         NEW q \in 0 .. c.size, NEW n \in 1 .. 4, q + n <= c.size, c.off + q < Len(mem),
         Character(SubSeq(t, q + 1, q + n))
  PROVE  /\ SeqLen(ByteAt(mem, c.off + q)) = n
         /\ n > 1 => Legal([j \in 1 .. n |-> ByteAt(mem, c.off + q + j - 1)])
<1> DEFINE s == [j \in 1 .. n |-> ByteAt(mem, c.off + q + j - 1)]
<1>1. SubSeq(t, q + 1, q + n) = s
  BY DEF TextOf
<1>2. Len(s) = n /\ s[1] = ByteAt(mem, c.off + q)
  <2>1. 1 \in 1 .. n /\ c.off + q + 1 - 1 = c.off + q
    BY DEF Cursor
  <2> QED  BY <2>1
<1> HIDE DEF s
<1>3. s \in Seq(Byte)
  BY <1>1 DEF Character
<1>4. SequenceLength(s[1]) = n /\ (n > 1 => LegalSequence(s))
  <2>1. Len(s) \in 1 .. 4 /\ Character(s)
    BY <1>1, <1>2
  <2>2. SequenceLength(s[1]) = Len(s) /\ (Len(s) > 1 => LegalSequence(s))
    BY <1>3, <2>1, CharacterIs
  <2> QED  BY <1>2, <2>2
<1>5. ByteAt(mem, c.off + q) \in Byte
  <2>1. c.off + q \in Nat
    BY DEF Cursor
  <2> QED  BY <2>1, Announces
<1> QED  BY <1>2, <1>3, <1>4, <1>5 DEF Utf8Tests, s

\* What the scan passes is a character.
LEMMA PassedCharacter ==
  ASSUME Utf8Tests, Base = 256, NEW mem \in Seq(Byte), NEW c \in Cursor, NEW t, TextOf(t, mem, c),
         NEW w \in 0 .. c.size, c.off + w <= Len(mem), NEW q \in 0 .. w, ~Stops(mem, c, q, w)
  PROVE  /\ Behind(mem, c, q) - q \in 1 .. 4 /\ Behind(mem, c, q) \in 0 .. w
         /\ Character(SubSeq(t, q + 1, q + (Behind(mem, c, q) - q)))
<1> DEFINE b == ByteAt(mem, c.off + q)
           n == SeqLen(b)
           s == [j \in 1 .. n |-> ByteAt(mem, c.off + q + j - 1)]
<1>1. c.off \in Nat /\ c.size \in Nat /\ q \in Nat /\ w \in Nat
  BY DEF Cursor
<1>2. Behind(mem, c, q) \in q + 1 .. w /\ Behind(mem, c, q) = q + n /\ q < w
  <2>1. Behind(mem, c, q) \in q + 1 .. w
    BY <1>1, WalkClimbs
  <2>2. q < w
    BY <1>1, <2>1
  <2> QED  BY <2>1, <2>2 DEF Behind
<1>3. b \in Byte
  <2>1. c.off + q \in Nat /\ c.off + q < Len(mem)
    BY <1>1, <1>2
  <2> QED  BY <2>1, Announces
<1>4. n = SequenceLength(b) /\ n \in 0 .. 4
  <2>1. n = SequenceLength(b)
    BY <1>3 DEF Utf8Tests
  <2>2. Octet(b)
    BY <1>3, ByteBound
  <2>3. SequenceLength(b) \in 0 .. 4
    BY <2>2, LengthIs DEF Octet
  <2> QED  BY <2>1, <2>3
<1>5. n \in 1 .. 4 /\ Behind(mem, c, q) - q = n /\ q + n <= w
  <2> HIDE DEF n, b
  <2> QED  BY <1>1, <1>2, <1>4
<1>6. n > 1 => Legal(s)
  BY <1>2, <1>5 DEF Stops, Malformed
<1>7. s \in Seq(Byte) /\ Len(s) = n /\ s[1] = b
  <2>1. \A j \in 1 .. n : ByteAt(mem, c.off + q + j - 1) \in Byte
    <3> SUFFICES ASSUME NEW j \in 1 .. n PROVE ByteAt(mem, c.off + q + j - 1) \in Byte
      OBVIOUS
    <3> HIDE DEF n
    <3>1. c.off + q + j - 1 \in Nat /\ c.off + q + j - 1 < Len(mem)
      BY <1>1, <1>5
    <3> QED  BY <3>1, Announces
  <2>2. 1 \in 1 .. n /\ c.off + q + 1 - 1 = c.off + q
    <3> HIDE DEF n
    <3> QED  BY <1>1, <1>5
  <2> DEFINE k0 == n
  <2>3. k0 \in Nat
    <3> HIDE DEF n
    <3> QED  BY <1>5
  <2> HIDE DEF n
  <2> QED  BY <2>1, <2>2, <2>3
<1> HIDE DEF s, n, b
<1>8. Character(s)
  <2>1. LegalSequence(s) \/ ~(n > 1)
    BY <1>6, <1>7 DEF Utf8Tests
  <2>2. Len(s) \in 1 .. 4 /\ SequenceLength(s[1]) = Len(s) /\ (Len(s) > 1 => LegalSequence(s))
    BY <1>4, <1>5, <1>7, <2>1
  <2> QED  BY <1>7, <2>2, CharacterIs
<1>9. SubSeq(t, q + 1, q + n) = s
  <2>1. q \in 0 .. c.size /\ q + n <= c.size
    BY <1>1, <1>5
  <2> QED  BY <1>5, <2>1 DEF TextOf, s, n, b
<1>10. Behind(mem, c, q) \in 0 .. w
  BY <1>1, <1>2
<1> QED  BY <1>5, <1>8, <1>9, <1>10

\* So the scan keeps what is a text.
LEMMA ScanKeeps ==
  ASSUME Utf8Tests, Base = 256, NEW mem \in Seq(Byte), NEW c \in Cursor, NEW t, TextOf(t, mem, c),
         NEW w \in 0 .. c.size, c.off + w <= Len(mem), NEW q \in 0 .. w
  PROVE  UnicodeFrom(t, q) <=> UnicodeFrom(t, Processed(mem, c, q, w))
<1> DEFINE T == {d \in Nat : \A x \in 0 .. w :
                   w - x = d => (UnicodeFrom(t, x) <=> UnicodeFrom(t, Processed(mem, c, x, w)))}
<1>0. c.off \in Nat /\ c.size \in Nat /\ w \in Nat /\ Len(t) = c.size
  BY DEF Cursor, TextOf
<1>1. ASSUME NEW d \in Nat, \A e \in 0 .. d - 1 : e \in T
      PROVE  d \in T
  <2> SUFFICES ASSUME NEW x \in 0 .. w, w - x = d
               PROVE  UnicodeFrom(t, x) <=> UnicodeFrom(t, Processed(mem, c, x, w))
    OBVIOUS
  <2>1. Processed(mem, c, x, w) = IF Stops(mem, c, x, w) THEN x ELSE Processed(mem, c, Behind(mem, c, x), w)
    BY <1>0, ProcessedStep
  <2>2. CASE Stops(mem, c, x, w)
    BY <2>1, <2>2
  <2>3. CASE ~Stops(mem, c, x, w)
    <3> DEFINE y == Behind(mem, c, x)
               n == y - x
    <3>1. n \in 1 .. 4 /\ y \in 0 .. w /\ Character(SubSeq(t, x + 1, x + n))
      BY <2>3, PassedCharacter
    <3>2. x \in 0 .. c.size /\ x < c.size /\ y = x + n /\ y <= c.size
          /\ c.off + x < Len(mem) /\ x \in Nat /\ w - y \in 0 .. d - 1
      <4> HIDE DEF y
      <4> QED  BY <1>0, <3>1
    <3>3. ASSUME NEW m \in 1 .. 4, x + m <= c.size, Character(SubSeq(t, x + 1, x + m))
          PROVE  m = n
      <4>1. SeqLen(ByteAt(mem, c.off + x)) = m
        BY <3>2, <3>3, CharacterHere
      <4> QED  BY <3>1, <3>2, <4>1 DEF Behind
    <3> HIDE DEF n, y
    <3>4. UnicodeFrom(t, x) <=> \E m \in 1 .. 4 :
             x + m <= c.size /\ Character(SubSeq(t, x + 1, x + m)) /\ UnicodeFrom(t, x + m)
      BY <1>0, <3>2, FromStep, SMTT(30)
    <3>5. UnicodeFrom(t, x) <=> UnicodeFrom(t, y)
      BY <3>1, <3>2, <3>3, <3>4
    <3>6. UnicodeFrom(t, y) <=> UnicodeFrom(t, Processed(mem, c, y, w))
      BY <1>1, <3>1, <3>2
    <3> QED  BY <2>1, <2>3, <3>5, <3>6 DEF y
  <2> QED  BY <2>2, <2>3
<1>2. \A d \in Nat : d \in T
  <2> HIDE DEF T
  <2> QED  BY <1>1, StrongInduction
<1>3. w - q \in Nat
  BY <1>0
<1> QED  BY <1>2, <1>3

\* Where a round is rejected no character begins.
LEMMA RejectedNoText ==
  ASSUME Utf8Tests, Base = 256, NEW mem \in Seq(Byte), NEW c \in Cursor, NEW t, TextOf(t, mem, c),
         NEW p \in 0 .. c.size, p # c.size, ~ReadsPast(mem, c, p), Rejects(mem, c, p)
  PROVE  ~UnicodeFrom(t, p)
<1> DEFINE w == BufferEnd(c, p)
           q == BufferWalk(mem, c, p)
           b == ByteAt(mem, c.off + q)
           n == SeqLen(b)
<1>0. c.off \in Nat /\ c.size \in Nat /\ Len(t) = c.size /\ Len(mem) \in Nat
      /\ Utf8BufLen \in Nat \ {0}
  BY Utf8Assumption DEF Cursor, TextOf
<1>1. w \in 0 .. c.size /\ p < w /\ (w = c.size \/ w = p + Utf8BufLen)
  BY <1>0, BufferEndType DEF BufferEnd
<1>2. c.off + w <= Len(mem) /\ p \in 0 .. w
  <2> HIDE DEF w
  <2>1. c.off + w <= Len(mem)
    BY <1>0, <1>1 DEF ReadsPast, TotalSize, w
  <2> QED  BY <1>0, <1>1, <2>1
<1>3. q \in p .. w /\ Stops(mem, c, q, w)
  <2>1. w \in Nat
    BY <1>0, <1>1
  <2> HIDE DEF w
  <2>2. Processed(mem, c, p, w) \in p .. w /\ Stops(mem, c, Processed(mem, c, p, w), w)
    BY <1>2, <2>1, ProcessedStops
  <2> QED  BY <2>2 DEF BufferWalk, w
<1>4. Malformed(mem, c, q, w) \/ q = p
  BY DEF Rejects
<1>5. UnicodeFrom(t, p) <=> UnicodeFrom(t, q)
  <2> HIDE DEF w
  <2>1. UnicodeFrom(t, p) <=> UnicodeFrom(t, Processed(mem, c, p, w))
    BY <1>1, <1>2, ScanKeeps
  <2> QED  BY <2>1 DEF BufferWalk, w
<1>6. q < w
  <2> HIDE DEF w, q
  <2>1. Malformed(mem, c, q, w) => q < w
    BY DEF Malformed
  <2> QED  BY <1>1, <1>4, <2>1
<1>7. q \in 0 .. c.size /\ q # c.size /\ c.off + q < Len(mem) /\ c.off + q \in Nat
  <2> HIDE DEF w, q
  <2> QED  BY <1>0, <1>1, <1>2, <1>3, <1>6
<1>8. n \in 0 .. Utf8BufLen
  BY <1>7, Announces
<1>9. \/ n = 0
      \/ n > 1 /\ ~Legal([j \in 1 .. n |-> ByteAt(mem, c.off + q + j - 1)])
      \/ q + n > c.size
  <2>1. CASE Malformed(mem, c, q, w)
    BY <2>1 DEF Malformed
  <2>2. CASE ~Malformed(mem, c, q, w)
    <3>1. q = p /\ ~Complete(mem, c, q, w)
      BY <1>3, <1>4, <2>2 DEF Stops
    <3>2. n = 0 \/ ~(q + n <= w)
      BY <1>6, <3>1 DEF Complete
    <3> HIDE DEF n, w, q
    <3> QED  BY <1>0, <1>1, <1>7, <1>8, <3>1, <3>2
  <2> QED  BY <2>1, <2>2
<1>10. ASSUME NEW m \in 1 .. 4, q + m <= c.size, Character(SubSeq(t, q + 1, q + m))
       PROVE  FALSE
  <2>1. n = m /\ (m > 1 => Legal([j \in 1 .. m |-> ByteAt(mem, c.off + q + j - 1)]))
    <3> HIDE DEF q
    <3> QED  BY <1>7, <1>10, CharacterHere
  <2> HIDE DEF n, q
  <2>2. q \in Nat
    BY <1>0, <1>7
  <2> QED  BY <1>0, <1>9, <1>10, <2>1, <2>2
<1>11. ~UnicodeFrom(t, q)
  <2> HIDE DEF q
  <2>1. UnicodeFrom(t, q) <=> q = Len(t) \/ \E m \in 1 .. 4 :
             q + m <= Len(t) /\ Character(SubSeq(t, q + 1, q + m)) /\ UnicodeFrom(t, q + m)
    BY <1>0, <1>7, FromStep
  <2> QED  BY <1>0, <1>7, <1>10, <2>1
<1> QED  BY <1>5, <1>11

(***************************************************************************)
(* utf8_check accepts exactly the sequences of characters: whatever the    *)
(* length of its buffer is, each byte from p on belongs to a character.    *)
(***************************************************************************)
LEMMA CheckIsUnicode ==
  ASSUME Utf8Tests, Base = 256, NEW mem \in Seq(Byte), NEW c \in Cursor, NEW t, TextOf(t, mem, c)
  PROVE  \A p \in 0 .. c.size :
           /\ ResultFrom(mem, c, p) = "ok" => UnicodeFrom(t, p)
           /\ ResultFrom(mem, c, p) = "malformed" => ~UnicodeFrom(t, p)
<1> DEFINE Fits(p) == /\ ResultFrom(mem, c, p) = "ok" => UnicodeFrom(t, p)
                      /\ ResultFrom(mem, c, p) = "malformed" => ~UnicodeFrom(t, p)
           T == {d \in Nat : \A p \in 0 .. c.size : c.size - p = d => Fits(p)}
<1>0. c.off \in Nat /\ c.size \in Nat /\ Len(t) = c.size
  BY DEF Cursor, TextOf
<1>1. ASSUME NEW d \in Nat, \A e \in 0 .. d - 1 : e \in T
      PROVE  d \in T
  <2> SUFFICES ASSUME NEW p \in 0 .. c.size, c.size - p = d PROVE Fits(p)
    OBVIOUS
  <2>1. ResultFrom(mem, c, p) = IF p = c.size THEN "ok"
           ELSE IF ReadsPast(mem, c, p) THEN "panic"
           ELSE IF Rejects(mem, c, p) THEN "malformed"
           ELSE ResultFrom(mem, c, BufferWalk(mem, c, p))
    BY ResultStep
  <2>2. CASE p = c.size
    <3>1. UnicodeFrom(t, p)
      BY <1>0, <2>2, FromStep
    <3> QED  BY <2>1, <2>2, <3>1
  <2>3. CASE p # c.size /\ ReadsPast(mem, c, p)
    BY <2>1, <2>3
  <2>4. CASE p # c.size /\ ~ReadsPast(mem, c, p) /\ Rejects(mem, c, p)
    <3>1. ~UnicodeFrom(t, p)
      BY <2>4, RejectedNoText
    <3> QED  BY <2>1, <2>4, <3>1
  <2>5. CASE p # c.size /\ ~ReadsPast(mem, c, p) /\ ~Rejects(mem, c, p)
    <3> DEFINE q == BufferWalk(mem, c, p)
               w == BufferEnd(c, p)
    <3>1. q \in 0 .. c.size /\ q > p
      BY <2>5, RoundClimbs
    <3>2. ResultFrom(mem, c, p) = ResultFrom(mem, c, q)
      BY <2>1, <2>5
    <3>3. UnicodeFrom(t, p) <=> UnicodeFrom(t, q)
      <4>1. w \in p .. c.size
        BY BufferEndType
      <4>2. c.off + w <= Len(mem)
        <5>1. ~(c.off + w > Len(mem)) /\ Len(mem) \in Nat
          BY <2>5 DEF ReadsPast, TotalSize
        <5> HIDE DEF w
        <5> QED  BY <1>0, <4>1, <5>1
      <4> HIDE DEF w
      <4>3. w \in 0 .. c.size /\ p \in 0 .. w
        BY <1>0, <4>1
      <4>4. UnicodeFrom(t, p) <=> UnicodeFrom(t, Processed(mem, c, p, w))
        BY <4>2, <4>3, ScanKeeps
      <4> QED  BY <4>4 DEF BufferWalk, w
    <3> HIDE DEF q
    <3>4. c.size - q \in 0 .. d - 1 /\ c.size - q \in Nat
      BY <1>0, <3>1
    <3>5. Fits(q)
      BY <1>1, <3>1, <3>4
    <3> QED  BY <3>2, <3>3, <3>5
  <2> QED  BY <2>2, <2>3, <2>4, <2>5
<1>2. \A d \in Nat : d \in T
  <2> HIDE DEF T
  <2> QED  BY <1>1, StrongInduction
<1>3. \A p \in 0 .. c.size : c.size - p \in Nat
  BY <1>0
<1> QED  BY <1>2, <1>3
-----------------------------------------------------------------------------
\* One piece is the whole.
LEMMA FlattenOne ==
  ASSUME NEW S, NEW x \in Seq(S)
  PROVE  FlattenSeq(<<x>>) = x
<1> DEFINE ps == <<x>>
<1>1. ps \in Seq(Seq(S)) /\ Len(ps) = 1 /\ ps[1] = x
  OBVIOUS
<1> HIDE DEF ps
<1> DEFINE z == FlattenSeq(ps)
<1>2. /\ z \in Seq(S) /\ Len(z) = Begins(ps, Len(ps) + 1)
      /\ \A c \in 1 .. Len(ps) : \A o \in 1 .. Len(ps[c]) :
           Begins(ps, c) + o <= Len(z) /\ z[Begins(ps, c) + o] = ps[c][o]
  BY <1>1, FlattenIs
<1>3. Begins(ps, 1) = 0 /\ Begins(ps, 2) = Len(x)
  <2>1. 1 \in 1 .. Len(ps)
    BY <1>1
  <2>2. Begins(ps, 1) \in Nat /\ Len(ps[1]) \in Nat /\ Begins(ps, 1 + 1) = Begins(ps, 1) + Len(ps[1])
    BY <1>1, <2>1, BeginsStep
  <2>3. Begins(ps, 1) = 0
    BY DEF Begins
  <2> QED  BY <1>1, <2>2, <2>3
<1> HIDE DEF z
<1>4. Len(x) \in Nat
  BY LenProperties
<1>5. Len(z) = Len(x)
  BY <1>1, <1>2, <1>3
<1>6. \A o \in 1 .. Len(x) : z[o] = x[o]
  <2> SUFFICES ASSUME NEW o \in 1 .. Len(x) PROVE z[o] = x[o]
    OBVIOUS
  <2>1. z[Begins(ps, 1) + o] = ps[1][o]
    BY <1>1, <1>2
  <2> QED  BY <1>1, <1>3, <1>4, <2>1
<1>7. z = x
  BY <1>2, <1>5, <1>6, SeqEqual
<1> QED  BY <1>7 DEF z, ps

\* A piece that may reach beyond its sequence.
LEMMA PieceFrom ==
  ASSUME NEW s, NEW m \in Nat, NEW n \in Nat
  PROVE  SubSeq(s, m + 1, m + n) = [j \in 1 .. n |-> s[m + j]]
<1>1. SubSeq(s, m + 1, m + n) = [j \in 1 .. (1 + (m + n) - (m + 1)) |-> s[m + 1 + j - 1]]
  BY DEF SubSeq
<1>2. 1 + (m + n) - (m + 1) = n
  OBVIOUS
<1>3. \A j \in 1 .. n : m + 1 + j - 1 = m + j
  OBVIOUS
<1> QED  BY <1>1, <1>2, <1>3

\* The bytes of a string are its window of the block.
LEMMA StringContents ==
  ASSUME TInv, OneWindow
  PROVE  TextOf(Contents(input), Mem, Win)
<1> DEFINE off == Win.off  size == Win.size
           x == SubSeq(Mem, off + 1, off + size)
           S == {Mem[off + j] : j \in 1 .. size}
           cs == Cursors
           f == [n \in DOMAIN cs |-> SubSeq(cs[n].mem, cs[n].off + 1, cs[n].off + cs[n].size)]
<1>1. off \in Nat /\ size \in Nat /\ Mem = cs[1].mem /\ off = cs[1].off /\ size = cs[1].size /\ Len(cs) = 1
  BY StringSetting DEF OneWindow
<1>2. DOMAIN cs = {1}
  <2>1. input \in Job
    BY DEF TInv, IInv
  <2>2. cs \in Seq(Window)
    BY <2>1 DEF Job, Cursors
  <2>3. DOMAIN cs = 1 .. Len(cs)
    BY <2>2, LenProperties
  <2> QED  BY <1>1, <2>3
<1>3. Contents(input) = FlattenSeq(f)
  BY DEF Contents, Cursors
<1> HIDE DEF cs
<1>4. f = <<x>>
  <2>1. f = [n \in {1} |-> x]
    BY <1>1, <1>2
  <2> HIDE DEF x, f
  <2>2. <<x>> = [n \in {1} |-> x]
    OBVIOUS
  <2> QED  BY <2>1, <2>2
<1> HIDE DEF f, off, size
<1>5. x = [j \in 1 .. size |-> Mem[off + j]]
  <2>1. off \in Nat /\ size \in Nat
    BY <1>1
  <2> DEFINE m == Mem
  <2> HIDE DEF m
  <2>2. SubSeq(m, off + 1, off + size) = [j \in 1 .. size |-> m[off + j]]
    BY <2>1, PieceFrom
  <2> QED  BY <2>2 DEF m
<1> HIDE DEF x
<1>6. x \in Seq(S) /\ Len(x) = size
  <2>1. \A j \in 1 .. size : x[j] \in S
    BY <1>5
  <2>2. x = [j \in 1 .. size |-> x[j]]
    BY <1>5
  <2>3. size \in Nat
    BY <1>1
  <2> HIDE DEF S
  <2> QED  BY <2>1, <2>2, <2>3
<1>7. Contents(input) = x
  <2> HIDE DEF S
  <2> QED  BY <1>3, <1>4, <1>6, FlattenOne
<1>8. ASSUME NEW q \in 0 .. size, NEW n \in 1 .. 4, q + n <= size
      PROVE  SubSeq(x, q + 1, q + n) = [j \in 1 .. n |-> ByteAt(Mem, off + q + j - 1)]
  <2>1. SubSeq(x, q + 1, q + n) = [j \in 1 .. (1 + (q + n) - (q + 1)) |-> x[q + 1 + j - 1]]
    BY DEF SubSeq
  <2>2. 1 + (q + n) - (q + 1) = n /\ q \in Nat
    BY <1>1
  <2>3. \A j \in 1 .. n : x[q + 1 + j - 1] = ByteAt(Mem, off + q + j - 1)
    <3> SUFFICES ASSUME NEW j \in 1 .. n PROVE x[q + 1 + j - 1] = ByteAt(Mem, off + q + j - 1)
      OBVIOUS
    <3>1. q + 1 + j - 1 \in 1 .. size /\ off + (q + 1 + j - 1) = off + q + j - 1 + 1
      BY <1>1, <1>8
    <3> QED  BY <1>5, <3>1 DEF ByteAt
  <2> QED  BY <2>1, <2>2, <2>3
<1> QED  BY <1>6, <1>7, <1>8 DEF TextOf, off, size

\* What the encoders return is what Delivery allows.
Answered ==
  /\ result = "ok" => Verdict(input) = "ok" /\ fed = Text(input)
  /\ result = "malformed" => Verdict(input) = "malformed"

\* A step of Delivery keeps them right.
LEMMA StepAnswers ==
  ASSUME Answered, AbsStep, UNCHANGED input
  PROVE  Answered'
<1>1. Verdict(input)' = Verdict(input) /\ Text(input)' = Text(input)
  BY DEF Verdict, Text, AddressText, StringText, Block, Extended, Value, Contents
<1>2. CASE Abs!Feed
  BY <1>2 DEF Answered, Abs!Feed
<1>3. CASE Abs!Succeed
  BY <1>1, <1>3 DEF Answered, Abs!Succeed
<1>4. CASE Abs!Reject
  BY <1>1, <1>4 DEF Answered, Abs!Reject
<1>5. CASE Abs!Refused
  BY <1>5 DEF Answered, Abs!Refused
<1>6. CASE UNCHANGED <<input, fed, result>>
  BY <1>1, <1>6 DEF Answered
<1> QED  BY <1>2, <1>3, <1>4, <1>5, <1>6 DEF AbsStep, Abs!Next

\* All answers are right.
LEMMA StreamsAnswer ==
  ASSUME \A in \in Inputs : Deliverable(in)
  PROVE  Spec => [](DInv /\ Answered)
<1>1. Init => DInv /\ Answered
  <2> SUFFICES ASSUME Init PROVE DInv /\ Answered
    OBVIOUS
  <2>1. DInv /\ result = "running"
    BY InitDelivers DEF Abs!Init
  <2> QED  BY <2>1 DEF Answered
<1>2. DInv /\ Answered /\ [Next]_streamVars => (DInv /\ Answered)'
  <2> SUFFICES ASSUME DInv, Answered, [Next]_streamVars PROVE DInv' /\ Answered'
    OBVIOUS
  <2>1. DInv' /\ AbsStep /\ UNCHANGED input
    BY StepDelivers, InputStays
  <2>2. Answered'
    BY <2>1, StepAnswers
  <2> QED  BY <2>1, <2>2
<1> QED  BY <1>1, <1>2, PTL DEF Spec

\* So its answer is about the bytes of the string.
LEMMA AnswersUnicode ==
  ASSUME Utf8Tests, Base = 256, DInv, Answered
  PROVE  ChecksUnicode
<1> SUFFICES ASSUME input.job = "string" 
             PROVE  /\ result = "ok" => Unicode(Contents(input))
                    /\ result = "malformed" => ~Unicode(Contents(input))
  BY DEF ChecksUnicode
<1>1. TInv /\ OneWindow
  BY DEF DInv, OneWindow, Deliverable, Cursors
<1>2. Mem \in Seq(Byte) /\ Win \in Cursor /\ Win.size \in Nat
  BY <1>1, StringSetting
<1>3. Verdict(input) = ResultFrom(Mem, Win, 0)
  BY DEF Verdict, Utf8Result, ResultFrom, Mem, Win
<1>4. TextOf(Contents(input), Mem, Win)
  BY <1>1, StringContents
<1>5. /\ ResultFrom(Mem, Win, 0) = "ok" => UnicodeFrom(Contents(input), 0)
      /\ ResultFrom(Mem, Win, 0) = "malformed" => ~UnicodeFrom(Contents(input), 0)
  <2>1. 0 \in 0 .. Win.size
    BY <1>2
  <2> QED  BY <1>2, <1>4, <2>1, CheckIsUnicode
<1> QED  BY <1>3, <1>5, UnicodeIs DEF Answered

(***************************************************************************)
(* With the bit tests of utf8.h, for every length of its buffer, every     *)
(* content and every refusal of the feeder: utf8_check accepts a String    *)
(* just when its bytes are a sequence of characters.                       *)
(***************************************************************************)
THEOREM StreamsCheckUnicode ==
  ASSUME \A in \in Inputs : Deliverable(in), Utf8Tests
  PROVE  Spec => []ChecksUnicode
<1>1. Spec => [](DInv /\ Answered)
  BY StreamsAnswer
<1>2. DInv /\ Answered => ChecksUnicode
  BY AnswersUnicode, Bech32mAssumption
<1> QED  BY <1>1, <1>2, PTL
-----------------------------------------------------------------------------
(* The checksum of an address: its step is linear. *)

\* Sums of two sums.
LEMMA XorPairs ==
  ASSUME NEW a, NEW b, NEW c, NEW d
  PROVE  Xor(Xor(a, b), Xor(c, d)) = Xor(Xor(a, c), Xor(b, d))
BY DEF Xor

\* The shift of a sum.
LEMMA ShiftedSum ==
  ASSUME NEW a, NEW b
  PROVE  Shifted(Xor(a, b)) = Xor(Shifted(a), Shifted(b))
<1>1. \A p, j : j \in Shifted(p) <=> \E x \in 0 .. 24 : x \in p /\ j = x + 5
  BY DEF Shifted
<1>2. \A x, y \in 0 .. 24 : x + 5 = y + 5 => x = y
  OBVIOUS
<1>3. ASSUME NEW j PROVE j \in Shifted(Xor(a, b)) <=> ~(j \in Shifted(a) <=> j \in Shifted(b))
  BY <1>1, <1>2, XorMember
<1>4. ASSUME NEW j PROVE j \in Xor(Shifted(a), Shifted(b)) <=> ~(j \in Shifted(a) <=> j \in Shifted(b))
  BY XorMember
<1> QED  BY <1>3, <1>4

\* The generator for a bit of a sum.
LEMMA WhenSum ==
  ASSUME NEW a, NEW b, NEW x, NEW j
  PROVE  When(j \in Xor(a, b), x) = Xor(When(j \in a, x), When(j \in b, x))
<1>1. j \in Xor(a, b) <=> ~(j \in a <=> j \in b)
  BY XorMember
<1>2. CASE j \in a /\ j \in b
  BY <1>1, <1>2, XorLaws DEF When
<1>3. CASE j \in a /\ j \notin b
  BY <1>1, <1>3, XorLaws DEF When
<1>4. CASE j \notin a /\ j \in b
  BY <1>1, <1>4, XorLaws DEF When
<1>5. CASE j \notin a /\ j \notin b
  BY <1>1, <1>5, XorLaws DEF When
<1> QED  BY <1>2, <1>3, <1>4, <1>5

\* The step of the checksum adds up.
LEMMA StepSum ==
  ASSUME NEW a, NEW b
  PROVE  polymod_step(Xor(a, b)) = Xor(polymod_step(a), polymod_step(b))
<1> DEFINE w(g, t) == When(24 + g \in t, Generator[g])
           five(t) == Xor(w(5, t), Shifted(t))
           four(t) == Xor(w(4, t), five(t))
           three(t) == Xor(w(3, t), four(t))
           two(t) == Xor(w(2, t), three(t))
           one(t) == Xor(w(1, t), two(t))
           s == Xor(a, b)
<1>1. \A t : polymod_step(t) = one(t)
  <2> SUFFICES ASSUME NEW t PROVE polymod_step(t) = one(t)
    OBVIOUS
  <2>1. 24 + 1 = 25 /\ 24 + 2 = 26 /\ 24 + 3 = 27 /\ 24 + 4 = 28 /\ 24 + 5 = 29
    OBVIOUS
  <2>2. polymod_step(t) = StepOf(t)
    BY PolymodStep
  <2> QED  BY <2>1, <2>2 DEF StepOf, Folded
<1>2. \A g : w(g, s) = Xor(w(g, a), w(g, b))
  BY WhenSum
<1> HIDE DEF w
<1>3. five(s) = Xor(five(a), five(b))
  BY <1>2, ShiftedSum, XorPairs
<1> HIDE DEF five
<1>4. four(s) = Xor(four(a), four(b))
  BY <1>2, <1>3, XorPairs
<1> HIDE DEF four
<1>5. three(s) = Xor(three(a), three(b))
  BY <1>2, <1>4, XorPairs
<1> HIDE DEF three
<1>6. two(s) = Xor(two(a), two(b))
  BY <1>2, <1>5, XorPairs
<1> HIDE DEF two
<1>7. one(s) = Xor(one(a), one(b))
  BY <1>2, <1>6, XorPairs
<1> HIDE DEF one
<1> QED  BY <1>1, <1>7

\* It shifts what has none of the upper five bits.
LEMMA StepShifts ==
  ASSUME NEW a \in SUBSET (0 .. 24)
  PROVE  polymod_step(a) = Shifted(a)
<1>1. 25 \notin a /\ 26 \notin a /\ 27 \notin a /\ 28 \notin a /\ 29 \notin a
  OBVIOUS
<1>2. polymod_step(a) = StepOf(a)
  BY PolymodStep
<1> DEFINE s == Shifted(a)
<1>3. StepOf(a) = Folded(25 \in a, 26 \in a, 27 \in a, 28 \in a, 29 \in a, s)
  BY DEF StepOf
<1> HIDE DEF s
<1>4. Folded(25 \in a, 26 \in a, 27 \in a, 28 \in a, 29 \in a, s) = s
  BY <1>1, XorLaws DEF Folded, When
<1> QED  BY <1>2, <1>3, <1>4 DEF s

\* What is less than a power has no bit there.
LEMMA DivSmall == ASSUME NEW v \in Nat, NEW d \in Nat, v < d PROVE v \div d = 0
  OBVIOUS

\* Of a number of five bits, each bit.
LEMMA Binary ==
  ASSUME NEW x0 \in 0 .. 1, NEW x1 \in 0 .. 1, NEW x2 \in 0 .. 1, NEW x3 \in 0 .. 1, NEW x4 \in 0 .. 1,
         NEW v, v = x0 + 2 * x1 + 4 * x2 + 8 * x3 + 16 * x4
  PROVE  /\ (v \div 1) % 2 = x0 /\ (v \div 2) % 2 = x1 /\ (v \div 4) % 2 = x2
         /\ (v \div 8) % 2 = x3 /\ (v \div 16) % 2 = x4
<1>2. v \div 1 = v /\ v \div 2 = x1 + 2 * x2 + 4 * x3 + 8 * x4 /\ v \div 4 = x2 + 2 * x3 + 4 * x4
      /\ v \div 8 = x3 + 2 * x4 /\ v \div 16 = x4
  <2>1. v \div 1 = v  OBVIOUS
  <2>2. v \div 2 = x1 + 2 * x2 + 4 * x3 + 8 * x4  OBVIOUS
  <2>3. v \div 4 = x2 + 2 * x3 + 4 * x4  OBVIOUS
  <2>4. v \div 8 = x3 + 2 * x4  OBVIOUS
  <2>5. v \div 16 = x4  OBVIOUS
  <2> QED  BY <2>1, <2>2, <2>3, <2>4, <2>5
<1>3. v % 2 = x0  OBVIOUS
<1>4. (x1 + 2 * x2 + 4 * x3 + 8 * x4) % 2 = x1  OBVIOUS
<1>5. (x2 + 2 * x3 + 4 * x4) % 2 = x2  OBVIOUS
<1>6. (x3 + 2 * x4) % 2 = x3  OBVIOUS
<1>7. x4 % 2 = x4  OBVIOUS
<1> QED  BY <1>2, <1>3, <1>4, <1>5, <1>6, <1>7

\* The five bits of a symbol.
LEMMA BitsOfFive ==
  ASSUME NEW t \in SUBSET (0 .. 4)
  PROVE  Bits(Value5(t)) = t
<1> DEFINE P(b) == 2^b
           v == Value5(t)
           x(b) == Place(t, b, 1)
<1>1. /\ P(0) = 1 /\ P(1) = 2 /\ P(2) = 4 /\ P(3) = 8 /\ P(4) = 16
      /\ P(5) = 32 /\ P(6) = 64 /\ P(7) = 128 /\ P(8) = 256 /\ P(9) = 512
      /\ P(10) = 1024 /\ P(11) = 2048 /\ P(12) = 4096 /\ P(13) = 8192 /\ P(14) = 16384
      /\ P(15) = 32768 /\ P(16) = 65536 /\ P(17) = 131072 /\ P(18) = 262144 /\ P(19) = 524288
      /\ P(20) = 1048576 /\ P(21) = 2097152 /\ P(22) = 4194304 /\ P(23) = 8388608 /\ P(24) = 16777216
      /\ P(25) = 33554432 /\ P(26) = 67108864 /\ P(27) = 134217728 /\ P(28) = 268435456 /\ P(29) = 536870912
  OBVIOUS
<1>2. Bits(v) = {b \in 0 .. 29 : (v \div P(b)) % 2 = 1}
  BY DEF Bits
<1> HIDE DEF P
<1>3. \A b \in 5 .. 29 : P(b) \in Nat /\ P(b) >= 32
  BY <1>1
<1>4. \A b \in 0 .. 4 : x(b) \in {0, 1} /\ (x(b) = 1 <=> b \in t)
  BY DEF Place
<1>5. v = x(0) + 2 * x(1) + 4 * x(2) + 8 * x(3) + 16 * x(4)
  BY DEF Value5, Place
<1> HIDE DEF v, x
<1>6. v \in Nat /\ v < 32
  BY <1>4, <1>5
<1>7. /\ (v \div 1) % 2 = x(0) /\ (v \div 2) % 2 = x(1) /\ (v \div 4) % 2 = x(2)
      /\ (v \div 8) % 2 = x(3) /\ (v \div 16) % 2 = x(4)
  <2>1. x(0) \in 0 .. 1 /\ x(1) \in 0 .. 1 /\ x(2) \in 0 .. 1 /\ x(3) \in 0 .. 1 /\ x(4) \in 0 .. 1
    BY <1>4
  <2> DEFINE x0 == x(0)  x1 == x(1)  x2 == x(2)  x3 == x(3)  x4 == x(4)
  <2> HIDE DEF x0, x1, x2, x3, x4
  <2>2. x0 \in 0 .. 1 /\ x1 \in 0 .. 1 /\ x2 \in 0 .. 1 /\ x3 \in 0 .. 1 /\ x4 \in 0 .. 1
    BY <2>1 DEF x0, x1, x2, x3, x4
  <2>3. v = x0 + 2 * x1 + 4 * x2 + 8 * x3 + 16 * x4
    BY <1>5 DEF x0, x1, x2, x3, x4
  <2>4. /\ (v \div 1) % 2 = x0 /\ (v \div 2) % 2 = x1 /\ (v \div 4) % 2 = x2
        /\ (v \div 8) % 2 = x3 /\ (v \div 16) % 2 = x4
    BY <2>2, <2>3, Binary
  <2> QED  BY <2>4 DEF x0, x1, x2, x3, x4
<1>8. \A b \in 0 .. 4 : (v \div P(b)) % 2 = x(b)
  BY <1>1, <1>7
<1>9. \A b \in 5 .. 29 : (v \div P(b)) % 2 = 0
  <2> SUFFICES ASSUME NEW b \in 5 .. 29 PROVE (v \div P(b)) % 2 = 0
    OBVIOUS
  <2>1. P(b) \in Nat /\ v < P(b)
    BY <1>3, <1>6
  <2>2. v \div P(b) = 0
    BY <1>6, <2>1, DivSmall
  <2> QED  BY <2>2
<1>10. \A b : b \in 0 .. 29 <=> (b \in 0 .. 4 \/ b \in 5 .. 29)
  OBVIOUS
<1>11. \A b \in 5 .. 29 : b \notin t
  OBVIOUS
<1>12. \A b \in 0 .. 29 : (v \div P(b)) % 2 = 1 <=> b \in t
  <2> SUFFICES ASSUME NEW b \in 0 .. 29 PROVE (v \div P(b)) % 2 = 1 <=> b \in t
    OBVIOUS
  <2>1. CASE b \in 0 .. 4
    BY <1>4, <1>8, <2>1
  <2>2. CASE b \in 5 .. 29
    BY <1>9, <1>11, <2>2
  <2> QED  BY <1>10, <2>1, <2>2
<1>13. \A b \in t : b \in 0 .. 29
  OBVIOUS
<1>14. Bits(v) = t
  BY <1>2, <1>12, <1>13
<1> QED  BY <1>14 DEF v

\* The bits of a character of the checksum.
LEMMA SymbolBits ==
  ASSUME NEW sum, NEW n
  PROVE  Bits(ChecksumSymbol(sum, n)) = FiveBits(sum, n)
<1>1. FiveBits(sum, n) \in SUBSET (0 .. 4)
  BY DEF FiveBits
<1> QED  BY <1>1, SymbolValue, BitsOfFive

\* What the first j symbols of a sum put into the register.
LowPart(sum, j) == {b \in 0 .. 5 * j - 1 : b + 5 * (6 - j) \in sum}

\* The next symbol shifts it by five.
LEMMA LowPartGrows ==
  ASSUME NEW sum, NEW j \in 1 .. 5
  PROVE  /\ LowPart(sum, j) \in SUBSET (0 .. 24)
         /\ LowPart(sum, j + 1) = Xor(Shifted(LowPart(sum, j)), FiveBits(sum, j))
<1>1. LowPart(sum, j) \in SUBSET (0 .. 24)
  BY DEF LowPart
<1>2. \A b : b \in Shifted(LowPart(sum, j)) <=> b \in 5 .. 5 * j + 4 /\ b + 5 * (5 - j) \in sum
  <2>1. \A b : b \in Shifted(LowPart(sum, j)) <=> \E x \in LowPart(sum, j) : b = x + 5
    BY <1>1 DEF Shifted
  <2>2. ASSUME NEW x \in LowPart(sum, j) PROVE x + 5 \in 5 .. 5 * j + 4 /\ x + 5 + 5 * (5 - j) \in sum
    <3>1. x \in 0 .. 5 * j - 1 /\ x + 5 * (6 - j) \in sum
      BY DEF LowPart
    <3>2. x + 5 * (6 - j) = x + 5 + 5 * (5 - j) /\ x + 5 \in 5 .. 5 * j + 4
      BY <3>1
    <3> QED  BY <3>1, <3>2
  <2>3. ASSUME NEW b \in 5 .. 5 * j + 4, b + 5 * (5 - j) \in sum
        PROVE  \E x \in LowPart(sum, j) : b = x + 5
    <3> DEFINE x == b - 5
    <3>1. x \in 0 .. 5 * j - 1 /\ b = x + 5 /\ x + 5 * (6 - j) = b + 5 * (5 - j)
      OBVIOUS
    <3>2. x \in LowPart(sum, j)
      BY <2>3, <3>1 DEF LowPart
    <3> QED  BY <3>1, <3>2
  <2> QED  BY <2>1, <2>2, <2>3
<1>3. \A b : b \in FiveBits(sum, j) <=> b \in 0 .. 4 /\ b + 5 * (5 - j) \in sum
  BY DEF FiveBits
<1>4. \A b : b \in LowPart(sum, j + 1) <=> b \in 0 .. 5 * j + 4 /\ b + 5 * (5 - j) \in sum
  <2>1. 5 * (j + 1) - 1 = 5 * j + 4 /\ 6 - (j + 1) = 5 - j
    OBVIOUS
  <2> QED  BY <2>1 DEF LowPart
<1>5. \A b : (b \in 0 .. 5 * j + 4 <=> b \in 0 .. 4 \/ b \in 5 .. 5 * j + 4)
             /\ ~(b \in 0 .. 4 /\ b \in 5 .. 5 * j + 4)
  OBVIOUS
<1>6. \A b : b \in LowPart(sum, j + 1) <=> b \in Xor(Shifted(LowPart(sum, j)), FiveBits(sum, j))
  BY <1>2, <1>3, <1>4, <1>5, XorMember
<1> QED  BY <1>1, <1>6

\* Six steps of the checksum, with x[1] to x[6] added.
Steps(f, x) == \A n \in 0 .. 5 : f[n + 1] = Xor(polymod_step(f[n]), Bits(x[n + 1]))

\* What PadChecksum makes is what cancels the rest.
LEMMA ChecksumCancels ==
  ASSUME NEW f, NEW h, NEW x, NEW y, f[0] = h[0], f[6] \in Word30, Steps(f, x), Steps(h, y),
         \A n \in 1 .. 6 : x[n] = 0,
         \A n \in 1 .. 6 : y[n] = ChecksumSymbol(Xor(f[6], Constant), n - 1)
  PROVE  h[6] = Constant
<1> DEFINE C == Xor(f[6], Constant)
<1>1. \A n \in 0 .. 5 : f[n + 1] = polymod_step(f[n])
  <2> SUFFICES ASSUME NEW n \in 0 .. 5 PROVE f[n + 1] = polymod_step(f[n])
    OBVIOUS
  <2>1. n + 1 \in 1 .. 6
    OBVIOUS
  <2>2. f[n + 1] = Xor(polymod_step(f[n]), Bits(x[n + 1])) /\ x[n + 1] = 0
    BY <2>1 DEF Steps
  <2> QED  BY <2>2, BitsZero, XorLaws
<1>2. \A n \in 0 .. 5 : h[n + 1] = Xor(polymod_step(h[n]), FiveBits(C, n))
  <2> SUFFICES ASSUME NEW n \in 0 .. 5 PROVE h[n + 1] = Xor(polymod_step(h[n]), FiveBits(C, n))
    OBVIOUS
  <2>1. n + 1 \in 1 .. 6 /\ n + 1 - 1 = n
    OBVIOUS
  <2>2. h[n + 1] = Xor(polymod_step(h[n]), Bits(y[n + 1])) /\ y[n + 1] = ChecksumSymbol(C, n)
    BY <2>1 DEF Steps
  <2> QED  BY <2>2, SymbolBits
<1> HIDE DEF C
<1>3. h[1] = Xor(f[1], LowPart(C, 1))
  <2>1. 0 \in 0 .. 5 /\ 0 + 1 = 1
    OBVIOUS
  <2>2. f[1] = polymod_step(f[0]) /\ h[1] = Xor(polymod_step(h[0]), FiveBits(C, 0))
    BY <1>1, <1>2, <2>1
  <2>3. LowPart(C, 1) = FiveBits(C, 0)
    BY DEF LowPart, FiveBits
  <2> QED  BY <2>2, <2>3
<1>4. ASSUME NEW j \in 1 .. 5, h[j] = Xor(f[j], LowPart(C, j))
      PROVE  h[j + 1] = Xor(f[j + 1], LowPart(C, j + 1))
  <2> DEFINE low == LowPart(C, j)
             five == FiveBits(C, j)
  <2>1. low \in SUBSET (0 .. 24) /\ LowPart(C, j + 1) = Xor(Shifted(low), five)
    BY LowPartGrows
  <2>2. j \in 0 .. 5
    OBVIOUS
  <2>3. f[j + 1] = polymod_step(f[j]) /\ h[j + 1] = Xor(polymod_step(h[j]), five)
    BY <1>1, <1>2, <2>2
  <2>4. polymod_step(h[j]) = Xor(polymod_step(f[j]), polymod_step(low))
    BY <1>4, StepSum
  <2> HIDE DEF low, five
  <2>5. polymod_step(low) = Shifted(low)
    BY <2>1, StepShifts
  <2> QED  BY <2>1, <2>3, <2>4, <2>5, XorLaws
<1>5. h[2] = Xor(f[2], LowPart(C, 2))
  <2>1. 1 \in 1 .. 5 /\ 1 + 1 = 2
    OBVIOUS
  <2> QED  BY <1>3, <1>4, <2>1
<1>6. h[3] = Xor(f[3], LowPart(C, 3))
  <2>1. 2 \in 1 .. 5 /\ 2 + 1 = 3
    OBVIOUS
  <2> QED  BY <1>5, <1>4, <2>1
<1>7. h[4] = Xor(f[4], LowPart(C, 4))
  <2>1. 3 \in 1 .. 5 /\ 3 + 1 = 4
    OBVIOUS
  <2> QED  BY <1>6, <1>4, <2>1
<1>8. h[5] = Xor(f[5], LowPart(C, 5))
  <2>1. 4 \in 1 .. 5 /\ 4 + 1 = 5
    OBVIOUS
  <2> QED  BY <1>7, <1>4, <2>1
<1>9. h[6] = Xor(f[6], LowPart(C, 6))
  <2>1. 5 \in 1 .. 5 /\ 5 + 1 = 6
    OBVIOUS
  <2> QED  BY <1>8, <1>4, <2>1
<1>10. C \in Word30
  BY BitsWord, XorWord DEF C, Constant
<1>11. LowPart(C, 6) = C
  <2>1. 5 * 6 - 1 = 29 /\ \A b \in 0 .. 29 : b + 5 * (6 - 6) = b
    OBVIOUS
  <2> QED  BY <1>10, <2>1, ZenonT(60) DEF LowPart, Word30
<1>12. \A a, b : Xor(a, Xor(a, b)) = b
  BY DEF Xor
<1> QED  BY <1>9, <1>11, <1>12 DEF C
-----------------------------------------------------------------------------
(* An address, from its last "1" on. *)

\* What is in front of another sequence.
LEMMA TakeFront ==
  ASSUME NEW S, NEW s \in Seq(S), NEW t \in Seq(S)
  PROVE  Take(s \o t, Len(s)) = s
<1> DEFINE u == s \o t
           N == Len(s)
           a == Take(u, N)
<1>1. N \in Nat /\ Len(t) \in Nat
  BY LenProperties
<1>2. u \in Seq(S) /\ Len(u) = N + Len(t)
      /\ \A n \in 1 .. N + Len(t) : u[n] = IF n <= N THEN s[n] ELSE t[n - N]
  BY ConcatProperties
<1> HIDE DEF u, N
<1>3. a \in Seq(S) /\ Len(a) = N /\ \A j \in 1 .. N : a[j] = u[j]
  <2>1. N \in 0 .. Len(u)
    BY <1>1, <1>2
  <2> QED  BY <1>2, <2>1, TakeIs
<1>4. \A j \in 1 .. N : u[j] = s[j]
  <2> SUFFICES ASSUME NEW j \in 1 .. N PROVE u[j] = s[j]
    OBVIOUS
  <2>1. j \in 1 .. N + Len(t) /\ j <= N
    BY <1>1
  <2> QED  BY <1>2, <2>1
<1> HIDE DEF a
<1>5. a = s
  BY <1>3, <1>4, SeqEqual DEF N
<1> QED  BY <1>5 DEF a, u, N

\* The checksum of a text from that of all but its last six symbols.
LEMMA PolymodSix ==
  ASSUME NEW c \in Seq(Nat), NEW x \in Seq(Nat), Len(x) = 6
  PROVE  \E f : f[0] = Polymod(c) /\ f[6] = Polymod(c \o x) /\ f[6] \in Word30 /\ Steps(f, x)
<1> DEFINE u == c \o x
           N == Len(c)
           f == [n \in 0 .. 6 |-> Polymod(Take(u, N + n))]
<1>1. N \in Nat
  BY LenProperties
<1>2. u \in Seq(Nat) /\ Len(u) = N + 6
      /\ \A n \in 1 .. N + 6 : u[n] = IF n <= N THEN c[n] ELSE x[n - N]
  <2>1. u \in Seq(Nat) /\ Len(u) = N + Len(x)
      /\ \A n \in 1 .. N + Len(x) : u[n] = IF n <= N THEN c[n] ELSE x[n - N]
    BY ConcatProperties
  <2> QED  BY <2>1
<1>3. Take(u, N) = c
  BY TakeFront
<1> HIDE DEF u, N
<1>4. Take(u, N + 6) = u
  <2>1. Take(u, Len(u)) = u
    BY <1>2, TakeAll
  <2> QED  BY <1>2, <2>1
<1>5. \A n \in 0 .. 6 : f[n] = Polymod(Take(u, N + n))
  OBVIOUS
<1>6. f[0] = Polymod(c) /\ f[6] = Polymod(u)
  <2>1. N + 0 = N /\ 0 \in 0 .. 6 /\ 6 \in 0 .. 6
    BY <1>1
  <2> HIDE DEF f
  <2> QED  BY <1>3, <1>4, <1>5, <2>1
<1> HIDE DEF f
<1>7. ASSUME NEW n \in 0 .. 5
      PROVE  f[n + 1] = Xor(polymod_step(f[n]), Bits(x[n + 1]))
  <2>1. n \in 0 .. 6 /\ n + 1 \in 0 .. 6 /\ N + (n + 1) = N + n + 1 /\ N + n \in Nat
    BY <1>1
  <2>2. f[n] = Polymod(Take(u, N + n)) /\ f[n + 1] = Polymod(Take(u, N + n + 1))
    BY <1>5, <2>1
  <2>3. Polymod(Take(u, N + n + 1)) = Xor(polymod_step(Polymod(Take(u, N + n))), Bits(u[N + n + 1]))
    <3>1. N + n \in Nat
      BY <2>1
    <3> QED  BY <3>1, PolymodTakes
  <2>4. u[N + n + 1] = x[n + 1]
    <3> DEFINE j == N + n + 1
    <3>1. j \in 1 .. N + 6 /\ ~(j <= N) /\ j - N = n + 1
      BY <1>1
    <3> HIDE DEF j
    <3>2. u[j] = x[j - N]
      BY <1>2, <3>1
    <3> QED  BY <3>1, <3>2 DEF j
  <2> QED  BY <2>2, <2>3, <2>4
<1>8. f[6] \in Word30
  <2>1. 5 \in 0 .. 5 /\ 5 + 1 = 6
    OBVIOUS
  <2>2. f[6] = Xor(polymod_step(f[5]), Bits(x[6]))
    BY <1>7, <2>1
  <2> QED  BY <2>2, StepWord, BitsWord, XorWord
<1>9. Steps(f, x)
  BY <1>7 DEF Steps
<1> QED  BY <1>6, <1>8, <1>9 DEF u

\* With the checksum of a text behind it, its checksum is the constant.
LEMMA ChecksumHolds ==
  ASSUME NEW c \in Seq(Nat), NEW x \in Seq(Nat), Len(x) = 6,
         \A n \in 1 .. 6 : x[n] = ChecksumSymbol(Xor(Polymod(c \o <<0, 0, 0, 0, 0, 0>>), Constant), n - 1)
  PROVE  Polymod(c \o x) = Constant
<1> DEFINE z == <<0, 0, 0, 0, 0, 0>>
<1>1. z \in Seq(Nat) /\ Len(z) = 6 /\ \A n \in 1 .. 6 : z[n] = 0
  <2>1. z = [n \in 1 .. 6 |-> 0]
    OBVIOUS
  <2> HIDE DEF z
  <2> QED  BY <2>1
<1> HIDE DEF z
<1>2. PICK f : f[0] = Polymod(c) /\ f[6] = Polymod(c \o z) /\ f[6] \in Word30 /\ Steps(f, z)
  BY <1>1, PolymodSix
<1>3. PICK h : h[0] = Polymod(c) /\ h[6] = Polymod(c \o x) /\ h[6] \in Word30 /\ Steps(h, x)
  BY PolymodSix
<1>4. \A n \in 1 .. 6 : x[n] = ChecksumSymbol(Xor(f[6], Constant), n - 1)
  BY <1>2 DEF z
<1>5. h[6] = Constant
  BY <1>1, <1>2, <1>3, <1>4, ChecksumCancels
<1> QED  BY <1>3, <1>5

\* What an hrp contributes.
LEMMA ExpandedType ==
  ASSUME NEW hrp \in Seq(Byte), Base = 256
  PROVE  ExpandedHrp(hrp) \in Seq(Nat)
<1> DEFINE N == Len(hrp)
           high == [n \in DOMAIN hrp |-> hrp[n] \div 32]
           low == [n \in DOMAIN hrp |-> hrp[n] % 32]
           zero == <<0>>
<1>1. N \in Nat /\ DOMAIN hrp = 1 .. N /\ \A n \in 1 .. N : hrp[n] \in Byte
  BY LenProperties, ElementOfSeq
<1>2. \A n \in 1 .. N : hrp[n] \in Nat
  <2>1. \A v \in Byte : v \in Nat
    BY DEF Byte
  <2> QED  BY <1>1, <2>1
<1>3. \A v \in Nat : v \div 32 \in Nat /\ v % 32 \in Nat
  OBVIOUS
<1>4. high \in Seq(Nat) /\ low \in Seq(Nat)
  <2>1. \A n \in 1 .. N : high[n] \in Nat /\ low[n] \in Nat
    BY <1>1, <1>2, <1>3
  <2>2. high = [n \in 1 .. N |-> high[n]] /\ low = [n \in 1 .. N |-> low[n]]
    BY <1>1
  <2> HIDE DEF high, low, N
  <2>3. high \in Seq(Nat)
    BY <1>1, <2>1, <2>2
  <2>4. low \in Seq(Nat)
    BY <1>1, <2>1, <2>2
  <2> QED  BY <2>3, <2>4
<1>5. zero \in Seq(Nat)
  OBVIOUS
<1>6. ExpandedHrp(hrp) = high \o zero \o low
  BY DEF ExpandedHrp
<1> HIDE DEF high, low, zero
<1>7. high \o zero \in Seq(Nat)
  BY <1>4, <1>5, ConcatProperties
<1>8. (high \o zero) \o low \in Seq(Nat)
  BY <1>4, <1>7, ConcatProperties
<1> QED  BY <1>6, <1>8

\* No two groups of five bits have the same character.
LEMMA CharsetDiffers ==
  ASSUME NEW m \in 0 .. 31, NEW n \in 0 .. 31, Charset[m + 1] = Charset[n + 1]
  PROVE  m = n
BY DEF Charset

\* The six symbols of the checksum.
Check == [n \in 1 .. 6 |-> ChecksumSymbol(Checksum, n - 1)]

\* Six groups of five bits.
LEMMA CheckType ==
  /\ Check \in Seq(0 .. 31) /\ Len(Check) = 6
  /\ \A n \in 1 .. 6 : Check[n] = ChecksumSymbol(Checksum, n - 1) /\ Check[n] \in 0 .. 31
<1> DEFINE V == 0 .. 31
<1>1. \A n \in 1 .. 6 : Check[n] = ChecksumSymbol(Checksum, n - 1) /\ Check[n] \in V
  BY SymbolType DEF Check
<1>2. Check = [n \in 1 .. 6 |-> Check[n]]
  BY DEF Check
<1> HIDE DEF V
<1>3. Check \in Seq(V) /\ Len(Check) = 6
  BY <1>1, <1>2
<1> QED  BY <1>1, <1>3 DEF V

\* The symbols of an address and their characters.
LEMMA ShownSymbols ==
  ASSUME input \in Job, AddressJob
  PROVE  LET shown == Symbols \o Check
             text == AddressText(input)
         IN  /\ shown \in Seq(0 .. 31) /\ Len(shown) = Len(Symbols) + 6
             /\ \A n \in 1 .. Len(Symbols) : shown[n] = Symbols[n]
             /\ \A n \in 1 .. Len(Symbols) + 6 :
                  shown[n] \in 0 .. 31 /\ text[HrpLen + 1 + n] = Charset[shown[n] + 1]
<1> DEFINE shown == Symbols \o Check
           text == AddressText(input)
           M == Len(Symbols)
           V == 0 .. 31
<1>1. Symbols \in Seq(V) /\ Check \in Seq(V) /\ Len(Check) = 6 /\ M \in Nat
  BY SymbolsSetting, CheckType
<1> HIDE DEF V
<1>2. shown \in Seq(V) /\ Len(shown) = M + 6
      /\ \A n \in 1 .. M + 6 : shown[n] = IF n <= M THEN Symbols[n] ELSE Check[n - M]
  <2>1. shown \in Seq(V) /\ Len(shown) = Len(Symbols) + Len(Check)
        /\ \A n \in 1 .. Len(Symbols) + Len(Check) :
             shown[n] = IF n <= Len(Symbols) THEN Symbols[n] ELSE Check[n - Len(Symbols)]
    BY <1>1, ConcatProperties
  <2> QED  BY <1>1, <2>1
<1> HIDE DEF shown
<1>3. \A n \in 1 .. M + 6 : shown[n] \in V
  BY <1>2, ElementOfSeq
<1>4. /\ \A n \in 1 .. M : text[HrpLen + 1 + n] = Charset[Symbols[n] + 1]
      /\ \A n \in 1 .. 6 : text[HrpLen + 1 + M + n] = Charset[ChecksumSymbol(Checksum, n - 1) + 1]
      /\ HrpLen \in Nat
  BY TextSetting
<1> HIDE DEF text, M
<1>5. ASSUME NEW n \in 1 .. M + 6 PROVE text[HrpLen + 1 + n] = Charset[shown[n] + 1]
  <2>1. CASE n <= M
    <3>1. n \in 1 .. M
      BY <1>1, <2>1
    <3>2. shown[n] = Symbols[n]
      BY <1>2, <2>1
    <3> QED  BY <1>4, <3>1, <3>2
  <2>2. CASE ~(n <= M)
    <3> DEFINE m == n - M
    <3>1. m \in 1 .. 6 /\ HrpLen + 1 + M + m = HrpLen + 1 + n
      BY <1>1, <1>4, <2>2
    <3>2. shown[n] = Check[m]
      BY <1>2, <2>2
    <3> HIDE DEF m
    <3>3. text[HrpLen + 1 + M + m] = Charset[ChecksumSymbol(Checksum, m - 1) + 1]
      BY <1>4, <3>1
    <3>4. Check[m] = ChecksumSymbol(Checksum, m - 1)
      BY <3>1, CheckType
    <3> QED  BY <3>1, <3>2, <3>3, <3>4
  <2> QED  BY <2>1, <2>2
<1>6. \A n \in 1 .. M : shown[n] = Symbols[n]
  <2> SUFFICES ASSUME NEW n \in 1 .. M PROVE shown[n] = Symbols[n]
    OBVIOUS
  <2>1. n \in 1 .. M + 6 /\ n <= M
    BY <1>1
  <2> QED  BY <1>2, <2>1
<1> QED  BY <1>2, <1>3, <1>5, <1>6 DEF shown, text, M, V

\* The checksum of an address holds.
LEMMA AddressChecks ==
  ASSUME input \in Job, AddressJob, Base = 256
  PROVE  Polymod(ExpandedHrp(input.hrp) \o (Symbols \o Check)) = Constant
<1> DEFINE e == ExpandedHrp(input.hrp)
           c == e \o Symbols
           x == Check
<1>1. e \in Seq(Nat)
  <2>1. input.hrp \in Seq(Byte)
    BY DEF Job
  <2> QED  BY <2>1, ExpandedType
<1>2. Symbols \in Seq(Nat) /\ x \in Seq(Nat)
  <2>1. Symbols \in Seq(0 .. 31) /\ x \in Seq(0 .. 31)
    BY SymbolsSetting, CheckType
  <2> QED  BY <2>1, NumbersAreNat
<1>3. c \in Seq(Nat)
  BY <1>1, <1>2, ConcatProperties
<1>4. Padded = c \o <<0, 0, 0, 0, 0, 0>>
  BY DEF Padded
<1>5. Len(x) = 6
      /\ \A n \in 1 .. 6 : x[n] = ChecksumSymbol(Xor(Polymod(c \o <<0, 0, 0, 0, 0, 0>>), Constant), n - 1)
  BY <1>4, CheckType DEF Checksum
<1>6. e \o (Symbols \o x) = c \o x
  <2> HIDE DEF e, x
  <2>1. \A s1, s2, s3 \in Seq(Nat) : (s1 \o s2) \o s3 = s1 \o (s2 \o s3)
    BY ConcatAssociative, SMTT(60)
  <2> QED  BY <1>1, <1>2, <2>1
<1>7. Polymod(c \o x) = Constant
  <2> HIDE DEF c, x
  <2> QED  BY <1>2, <1>3, <1>5, ChecksumHolds
<1> QED  BY <1>6, <1>7

\* An address is read as its hrp and its payload.
LEMMA AddressRead ==
  ASSUME input \in Job, AddressJob, Base = 256
  PROVE  ReadsAs(AddressText(input), input.hrp, Content)
<1> DEFINE text == AddressText(input)
           hrp == input.hrp
           N == HrpLen
           M == Len(Symbols)
           at == N + 1
           shown == Symbols \o Check
           symbol(n) == CHOOSE s \in 0 .. 31 : Charset[s + 1] = text[n]
           symbols == [n \in 1 .. Len(text) - at |-> symbol(at + n)]
<1>1. hrp \in Seq(Byte) /\ N = Len(hrp) /\ N \in Nat
  <2>1. hrp \in Seq(Byte)
    BY DEF Job
  <2> QED  BY <2>1, LenProperties DEF HrpLen
<1>2. /\ text \in Seq(Byte) /\ Len(text) = N + 1 + M + 6
      /\ \A n \in 1 .. N : text[n] = hrp[n]
      /\ text[at] = One
  BY TextSetting
<1>3. Symbols \in Seq(0 .. 31) /\ M \in Nat
  BY SymbolsSetting
<1>4. /\ shown \in Seq(0 .. 31) /\ Len(shown) = M + 6
      /\ \A n \in 1 .. M : shown[n] = Symbols[n]
      /\ \A n \in 1 .. M + 6 : shown[n] \in 0 .. 31 /\ text[N + 1 + n] = Charset[shown[n] + 1]
  BY ShownSymbols
<1>5. Polymod(ExpandedHrp(hrp) \o shown) = Constant
  BY AddressChecks
<1>6. at \in DOMAIN text
  <2>1. DOMAIN text = 1 .. N + 1 + M + 6
    BY <1>2, LenProperties
  <2> HIDE DEF text, N, M
  <2>2. at \in 1 .. N + 1 + M + 6
    BY <1>1, <1>3
  <2> QED  BY <2>1, <2>2
<1> HIDE DEF text, hrp, N, M, shown
<1>7. ASSUME NEW n \in 1 .. M + 6 PROVE symbol(at + n) = shown[n]
  <2>1. shown[n] \in 0 .. 31 /\ text[at + n] = Charset[shown[n] + 1]
    BY <1>4
  <2>2. \A s \in 0 .. 31 : Charset[s + 1] = text[at + n] => s = shown[n]
    BY <2>1, CharsetDiffers
  <2> QED  BY <2>1, <2>2
<1>8. Len(text) - at = M + 6
  BY <1>1, <1>2, <1>3
<1>9. symbols = shown
  <2>1. symbols = [n \in 1 .. M + 6 |-> symbol(at + n)]
    BY <1>8
  <2>2. DOMAIN shown = 1 .. M + 6
    BY <1>4, LenProperties
  <2>3. shown = [n \in 1 .. M + 6 |-> shown[n]]
    <3> DEFINE V == 0 .. 31
    <3> HIDE DEF V
    <3>1. shown \in Seq(V)
      BY <1>4 DEF V
    <3> QED  BY <2>2, <3>1
  <2> HIDE DEF symbol, symbols, at
  <2> QED  BY <1>7, <2>1, <2>3
<1>10. \A n \in at + 1 .. Len(text) : text[n] \in Range(Charset)
  <2> SUFFICES ASSUME NEW n \in at + 1 .. Len(text) PROVE text[n] \in Range(Charset)
    OBVIOUS
  <2> DEFINE m == n - at
  <2>1. m \in 1 .. M + 6 /\ N + 1 + m = n
    BY <1>1, <1>2, <1>3
  <2> HIDE DEF m
  <2>2. shown[m] \in 0 .. 31 /\ text[n] = Charset[shown[m] + 1]
    BY <1>4, <2>1
  <2>3. \A s \in 0 .. 31 : Charset[s + 1] \in Range(Charset)
    <3>1. Len(Charset) = 32 /\ DOMAIN Charset = 1 .. Len(Charset)
      BY DEF Charset
    <3>2. \A s \in 0 .. 31 : s + 1 \in DOMAIN Charset
      BY <3>1
    <3> QED  BY <3>2 DEF Range
  <2> QED  BY <2>2, <2>3
<1>11. SubSeq(text, 1, at - 1) = hrp
  <2>1. at - 1 = N
    BY <1>1
  <2>2. SubSeq(text, 1, N) = [j \in 1 .. N |-> text[j]]
    <3>1. SubSeq(text, 0 + 1, 0 + N) = [j \in 1 .. N |-> text[0 + j]]
      BY <1>1, PieceFrom
    <3>2. 0 + 1 = 1 /\ 0 + N = N /\ \A j \in 1 .. N : 0 + j = j
      BY <1>1
    <3> QED  BY <3>1, <3>2
  <2>3. hrp = [j \in 1 .. N |-> hrp[j]]
    BY <1>1
  <2> QED  BY <1>2, <2>1, <2>2, <2>3
<1>12. SubSeq(shown, 1, Len(shown) - 6) = Groups(Content)
  <2>1. Len(shown) - 6 = M
    BY <1>3, <1>4
  <2>2. SubSeq(shown, 1, M) = [j \in 1 .. M |-> shown[j]]
    <3>1. SubSeq(shown, 0 + 1, 0 + M) = [j \in 1 .. M |-> shown[0 + j]]
      BY <1>3, PieceFrom
    <3>2. 0 + 1 = 1 /\ 0 + M = M /\ \A j \in 1 .. M : 0 + j = j
      BY <1>3
    <3> QED  BY <3>1, <3>2
  <2>3. Symbols = [j \in 1 .. M |-> Symbols[j]]
    <3> DEFINE V == 0 .. 31
    <3> HIDE DEF V
    <3>1. Symbols \in Seq(V)
      BY <1>3 DEF V
    <3> QED  BY <3>1 DEF M
  <2> QED  BY <1>4, <2>1, <2>2, <2>3 DEF Symbols
<1>13. /\ text[at] = One /\ \A n \in at + 1 .. Len(text) : text[n] \in Range(Charset)
       /\ SubSeq(text, 1, at - 1) = hrp
       /\ Polymod(ExpandedHrp(hrp) \o symbols) = Constant
       /\ SubSeq(symbols, 1, Len(symbols) - 6) = Groups(Content)
  <2> HIDE DEF symbols, at
  <2> QED  BY <1>2, <1>5, <1>9, <1>10, <1>11, <1>12
<1>14. ReadsAs(text, hrp, Content)
  <2> HIDE DEF at
  <2> QED  BY <1>6, <1>13 DEF ReadsAs
<1> QED  BY <1>14 DEF text, hrp

(***************************************************************************)
(* What bech32m_encode has fed when it succeeds can be read back, for      *)
(* every hrp that is not in capitals and every payload, however it is cut: *)
(* the hrp, a checksum that holds for all of it, the groups of the bytes.  *)
(***************************************************************************)
THEOREM AddressesReadBack ==
  ASSUME \A in \in Inputs : Deliverable(in)
  PROVE  Spec => []AddressReadsBack
<1>1. Spec => [](DInv /\ Answered)
  BY StreamsAnswer
<1>2. DInv /\ Answered => AddressReadsBack
  <2> SUFFICES ASSUME DInv, Answered, input.job = "address", result = "ok"
               PROVE  ReadsAs(fed, input.hrp, Contents(input))
    BY DEF AddressReadsBack
  <2>1. input \in Job /\ AddressJob
    BY DEF DInv, TInv, IInv, AddressJob
  <2>2. Verdict(input) = "ok" /\ fed = Text(input)
    BY DEF Answered
  <2>3. fed = AddressText(input)
    BY <2>2 DEF Verdict, Text
  <2> QED  BY <2>1, <2>3, AddressRead, Bech32mAssumption DEF Content
<1> QED  BY <1>1, <1>2, PTL
=============================================================================
