------------------------------- MODULE Streams -------------------------------
(***************************************************************************)
(* The two encoders of text that the visitor calls, over the callbacks     *)
(* they share, against what a reader of the text expects of them.          *)
(***************************************************************************)
EXTENDS Utf8Stream, Bech32mStream

streamVars == <<callbackVars, utf8Vars, bech32mVars>>

Init ==
  /\ CallbacksInit /\ Utf8Init /\ Bech32mInit
  /\ pc = IF input.job = "string" THEN "round" ELSE "hrp"

Next ==
  \/ Utf8Next /\ UNCHANGED bech32mVars
  \/ Bech32mNext /\ UNCHANGED utf8Vars
  \/ result = "running" /\ InputterNext /\ UNCHANGED <<utf8Vars, bech32mVars>>

Spec == Init /\ [][Next]_streamVars

\* One thread that waits for nothing; the callbacks return.
FairSpec == Spec /\ WF_streamVars(Next)
-----------------------------------------------------------------------------
(* What has to be shown. *)

Contents(in) ==
  FlattenSeq([n \in DOMAIN in.cursors |->
    SubSeq(in.cursors[n].mem, in.cursors[n].off + 1, in.cursors[n].off + in.cursors[n].size)])

\* A byte string as numbers of five bits, the last filled up with zeros.
Group(bytes, g) ==
  LET first == (5 * (g - 1)) \div 8
      byte(n) == IF n < Len(bytes) THEN bytes[n + 1] ELSE 0
      past == (5 * (g - 1)) % 8
  IN  ((256 * byte(first) + byte(first + 1)) \div 2^(11 - past)) % 32

Groups(bytes) == [g \in 1 .. (8 * Len(bytes) + 4) \div 5 |-> Group(bytes, g)]

\* The checksum of bech32m, and what an hrp contributes to it.
Polymod(symbols) ==
  FoldLeft(LAMBDA sum, symbol : Xor(polymod_step(sum), Bits(symbol)), Bits(1), symbols)

ExpandedHrp(hrp) ==
  [n \in DOMAIN hrp |-> hrp[n] \div 32] \o <<0>> \o [n \in DOMAIN hrp |-> hrp[n] % 32]

AddressText(in) ==
  LET symbols == Groups(Contents(in))
      sum == Xor(Polymod(ExpandedHrp(in.hrp) \o symbols \o <<0, 0, 0, 0, 0, 0>>), Constant)
      text == symbols \o [n \in 1 .. 6 |-> ChecksumSymbol(sum, n - 1)]
  IN  in.hrp \o <<One>> \o [n \in DOMAIN text |-> Charset[text[n] + 1]]

\* As the visitor is modelled to see a String: Utf8Check.  Zeros stand for
\* what is behind the memory; a panic comes before they are seen.
Block(in) == in.cursors[1].mem
Extended(in) ==
  Block(in) \o [n \in 1 .. in.cursors[1].off + in.cursors[1].size |-> 0]
Value(in) == [off |-> in.cursors[1].off, size |-> in.cursors[1].size]

StringText(in) ==
  LET echo == Utf8Echo(Extended(in), Value(in))
  IN  [n \in DOMAIN echo |-> ByteAt(Extended(in), echo[n])]

BadHrp(hrp) == \E n \in DOMAIN hrp : hrp[n] \notin 33 .. 126

Text(in) ==
  IF in.job = "string" THEN StringText(in)
  ELSE IF BadHrp(in.hrp) THEN <<>> ELSE AddressText(in)

Verdict(in) ==
  IF in.job = "string" THEN Utf8Result(Block(in), Value(in))
  ELSE IF BadHrp(in.hrp) THEN "malformed" ELSE "ok"

\* What the visitor asks for: a String has one cursor, the cursors of an
\* Address lie in their memory, and its hrp is not in capitals.
Deliverable(in) ==
  IF in.job = "string" THEN Len(in.cursors) = 1
  ELSE /\ \A n \in DOMAIN in.cursors :
            in.cursors[n].off + in.cursors[n].size <= Len(in.cursors[n].mem)
       /\ \A n \in DOMAIN in.hrp : in.hrp[n] \notin 65 .. 90

Abs == INSTANCE Delivery
-----------------------------------------------------------------------------
StreamsTypeOK ==
  /\ input \in Job
  /\ current_cursor \in 1 .. Len(Cursors) + 1 /\ current_offset \in Nat
  /\ asked \in Nat /\ got \in Seq(Byte) /\ Len(got) <= asked
  /\ fed \in Seq(Byte) /\ result \in Results
  /\ Utf8TypeOK
  /\ chk \subseteq 0 .. 29 /\ k \in Nat
  /\ buffer \in Byte /\ buffer_bits \in 0 .. 7 /\ c_end \in BOOLEAN
  /\ i \in Nat /\ (pc = "regroup" => i <= Len(got)) /\ data \in Seq(Nat)

(***************************************************************************)
(* However the cursors are cut, whatever the buffers' lengths and whenever *)
(* the feeder refuses: what was fed is a beginning of the text, success    *)
(* means all of the text, and only what has no text is rejected.  For a    *)
(* String the text is what Utf8Check says, which is what Visitor uses.     *)
(***************************************************************************)
Delivers == Abs!Spec

(***************************************************************************)
(* The regrouper never runs out of space in the encoder's buffer and never *)
(* makes a number of more than five bits, at which the encoder would       *)
(* return 0 in the middle of an address.                                   *)
(***************************************************************************)
NeverOverflows ==
  result # "overflow" /\ \A n \in DOMAIN data : data[n] < 32

\* What a reader makes of an address, from its last "1" on.
ReadsAs(text, hrp, bytes) ==
  \E at \in DOMAIN text :
    LET symbol(n) == CHOOSE s \in 0 .. 31 : Charset[s + 1] = text[n]
        symbols == [n \in 1 .. Len(text) - at |-> symbol(at + n)]
    IN  /\ text[at] = One /\ \A n \in at + 1 .. Len(text) : text[n] \in Range(Charset)
        /\ SubSeq(text, 1, at - 1) = hrp
        /\ Polymod(ExpandedHrp(hrp) \o symbols) = Constant
        /\ SubSeq(symbols, 1, Len(symbols) - 6) = Groups(bytes)

(***************************************************************************)
(* An address that was fed completely can be read back: the hrp before the *)
(* last "1", a checksum that holds, and the bytes of the four cursors.     *)
(***************************************************************************)
AddressReadsBack ==
  input.job = "address" /\ result = "ok" => ReadsAs(fed, input.hrp, Contents(input))

\* The UTF-8 form of a code point.
Low6(n) == 128 + (n % 64)

Encoded(point) ==
  CASE point < 128 -> <<point>>
    [] 128 <= point /\ point < 2048 -> <<192 + (point \div 64), Low6(point)>>
    [] 2048 <= point /\ point < 65536 ->
         <<224 + (point \div 4096), Low6(point \div 64), Low6(point)>>
    [] 65536 <= point ->
         <<240 + (point \div 262144), Low6(point \div 4096), Low6(point \div 64), Low6(point)>>

LastPoint == 1114111
Surrogate(point) == 55296 <= point /\ point < 57344
Noncharacter(point) == point \in {65534, 65535}

\* The code point that one to four bytes spell, if they spell one.
Point(s) ==
  LET low(n) == s[n] % 64
  IN  CASE Len(s) = 1 -> s[1] % 128
        [] Len(s) = 2 -> 64 * (s[1] % 32) + low(2)
        [] Len(s) = 3 -> 4096 * (s[1] % 16) + 64 * low(2) + low(3)
        [] Len(s) = 4 -> 262144 * (s[1] % 8) + 4096 * low(2) + 64 * low(3) + low(4)

Character(s) ==
  LET point == Point(s)
  IN  /\ s \in Seq(Byte) /\ Encoded(point) = s
      /\ point <= LastPoint /\ ~Surrogate(point) /\ ~Noncharacter(point)

\* text is a sequence of characters.
Unicode(text) ==
  LET from[p \in 0 .. Len(text)] ==
        p = Len(text) \/ \E n \in 1 .. 4 :
          p + n <= Len(text) /\ Character(SubSeq(text, p + 1, p + n)) /\ from[p + n]
  IN  from[0]

(***************************************************************************)
(* utf8_check accepts exactly the texts that are sequences of characters,  *)
(* each in its one encoding, none of them a surrogate, U+FFFE or U+FFFF,   *)
(* wherever the ends of its buffer fall.                                   *)
(***************************************************************************)
ChecksUnicode ==
  input.job = "string" =>
    /\ result = "ok" => Unicode(Contents(input))
    /\ result = "malformed" => ~Unicode(Contents(input))

(***************************************************************************)
(* Both encoders return, for every input: utf8_check although what it      *)
(* waits for may never come, bech32m_encode although only an empty piece   *)
(* of input ends its loop.                                                 *)
(***************************************************************************)
Returns == <>(result # "running")
=============================================================================
