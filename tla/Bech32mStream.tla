---------------------------- MODULE Bech32mStream ----------------------------
(***************************************************************************)
(* bech32m_encode of clib/bech32m.h with bech32m_raw_to_5bits_inputter     *)
(* between it and the cursors, which turns bytes into groups of five bits: *)
(* one step per byte regrouped and per character fed.  The checksum is a   *)
(* set of bits.                                                            *)
(***************************************************************************)
EXTENDS Callbacks, FiniteSetsExt

CONSTANT Bech32mBufLen  \* _BECH32M_BUF_LEN, 32 in the program

\* With less than 4 the inputter returns 1.
ASSUME Bech32mAssumption == Base = 256 /\ Bech32mBufLen \in Nat /\ Bech32mBufLen >= 4

VARIABLES
  chk,          \* checksum so far
  k,            \* characters of the hrp, data or checksum passed
  buffer,       \* the last buffer_bits bits taken and not grouped yet are its first
  buffer_bits,
  c_end,        \* c->end: the cursors have run out
  i,            \* bytes in `got` regrouped
  data          \* groups made by the running call of the inputter

bech32mVars == <<chk, k, buffer, buffer_bits, c_end, i, data>>

Bits(n) == {b \in 0 .. 29 : (n \div 2^b) % 2 = 1}

\* bech32m_initialize_raw_to_5bits_inputter, and the start of the encoder.
Bech32mInit ==
  /\ chk = Bits(1) /\ k = 0
  /\ buffer = 0 /\ buffer_bits = 0 /\ c_end = FALSE
  /\ i = 0 /\ data = <<>>

Encoding == input.job = "address" /\ result = "running"
regrouperVars == <<buffer, buffer_bits, c_end, i>>
-----------------------------------------------------------------------------
Xor(S, T) == (S \ T) \cup (T \ S)

Generator ==
  <<Bits(996825010), Bits(642813549), Bits(513874426), Bits(1027748829), Bits(705979059)>>
Constant == Bits(734539939)

\* _bech32m_polymod_step
polymod_step(pre) ==
  FoldSet(Xor, {b + 5 : b \in pre \cap 0 .. 24},
          {Generator[g] : g \in {g \in 1 .. 5 : 24 + g \in pre}})

\* The characters of the text, "1" and the charset.
One == 49
Charset ==
  <<113, 112, 122, 114, 121, 57, 120, 56, 103, 102, 50, 116, 118, 100, 119, 48,
    115, 51, 106, 110, 53, 52, 107, 104, 99, 101, 54, 109, 117, 97, 55, 108>>

Mixed(symbol) == Xor(polymod_step(chk), Bits(symbol))
-----------------------------------------------------------------------------
(* The hrp: checked and added to the checksum, then fed. *)

Hrp(n) == input.hrp[n + 1]
Prefixed == k < Len(input.hrp)

CheckHrp ==
  /\ Encoding /\ pc = "hrp" /\ Prefixed
  /\ CASE Hrp(k) \notin 33 .. 126 -> Return("malformed") /\ UNCHANGED <<chk, k>>
       [] Hrp(k) \in 65 .. 90 -> Return("ok") /\ UNCHANGED <<chk, k>>
       [] OTHER -> chk' = Mixed(Hrp(k) \div 32) /\ k' = k + 1 /\ UNCHANGED <<pc, result>>
  /\ UNCHANGED <<input, inputterVars, fed, regrouperVars, data>>

HrpCheckedBare ==
  /\ Encoding /\ pc = "hrp" /\ ~Prefixed
  /\ k' = 0 /\ pc' = "prefix"
  /\ UNCHANGED <<input, inputterVars, feederVars, chk, regrouperVars, data>>

HrpChecked ==
  /\ Encoding /\ pc = "hrp" /\ ~Prefixed
  /\ chk' = polymod_step(chk) /\ k' = 0 /\ pc' = "prefix"
  /\ UNCHANGED <<input, inputterVars, feederVars, regrouperVars, data>>

FeedHrp ==
  /\ Encoding /\ pc = "prefix" /\ Prefixed
  /\ chk' = Mixed(Hrp(k) % 32) /\ k' = k + 1
  /\ (Takes(<<Hrp(k)>>) /\ UNCHANGED pc) \/ Refuses
  /\ UNCHANGED <<input, inputterVars, regrouperVars, data>>

FeedOne ==
  /\ Encoding /\ pc = "prefix" /\ ~Prefixed
  /\ (Takes(<<One>>) /\ pc' = "more") \/ Refuses
  /\ UNCHANGED <<input, inputterVars, bech32mVars>>
-----------------------------------------------------------------------------
(* bech32m_raw_to_5bits_inputter: at most Bech32mBufLen groups. *)

\* A shift by n to the left or right multiplies with or divides by this.
Power(n) == <<1, 2, 4, 8, 16, 32, 64, 128, 256>>[n + 1]

ByteShifted(byte, by) == (byte * Power(by)) % 256

InputLengthWhole == Bech32mBufLen
InputLength == Least((Bech32mBufLen - 2) \div 2, Bech32mBufLen)

AskForBytes ==
  /\ Encoding /\ pc = "more" /\ ~c_end
  /\ CallInputter(InputLength) /\ data' = <<>>
  /\ UNCHANGED <<chk, k, regrouperVars>>

AskForRest ==
  /\ Encoding /\ pc = "more" /\ c_end
  /\ pc' = "flush" /\ data' = <<>>
  /\ UNCHANGED <<input, inputterVars, feederVars, chk, k, regrouperVars>>

GotBytes ==
  /\ Encoding /\ pc = "got"
  /\ c_end' = (got = <<>>) /\ i' = 0 /\ pc' = "regroup"
  /\ UNCHANGED <<input, inputterVars, feederVars, chk, k, buffer, buffer_bits, data>>

\* The next byte makes one group, or two if five bits were left.  The bits
\* or-ed in the code never overlap: what is behind buffer_bits is zero.
RegroupByte ==
  /\ Encoding /\ pc = "regroup" /\ i < Len(got)
  /\ LET byte == got[i + 1]
         ready == buffer_bits >= 5
         bits == IF ready THEN buffer_bits - 5 ELSE buffer_bits
         left == IF ready THEN ByteShifted(buffer, 5) ELSE buffer
         groups == (IF ready THEN <<buffer \div 8>> ELSE <<>>)
                     \o <<(left \div 8) + (byte \div Power(3 + bits))>>
     IN  IF Len(data) + Len(groups) > Bech32mBufLen
         THEN Return("overflow") /\ UNCHANGED <<buffer, buffer_bits, i, data>>
         ELSE /\ data' = data \o groups
              /\ buffer' = ByteShifted(byte, 5 - bits) /\ buffer_bits' = bits + 3
              /\ i' = i + 1 /\ UNCHANGED <<pc, result>>
  /\ UNCHANGED <<input, inputterVars, fed, chk, k, c_end>>

BytesRegrouped ==
  /\ Encoding /\ pc = "regroup" /\ i = Len(got)
  /\ pc' = "flush"
  /\ UNCHANGED <<input, inputterVars, feederVars, bech32mVars>>

\* At the end the rest goes out, the last bits filled up with zeros.
Flush ==
  /\ Encoding /\ pc = "flush" /\ pc' = "symbols" /\ k' = 0
  /\ LET ready == c_end /\ buffer_bits >= 5 /\ Len(data) < Bech32mBufLen
         bits == IF ready THEN buffer_bits - 5 ELSE buffer_bits
         left == IF ready THEN ByteShifted(buffer, 5) ELSE buffer
         made == data \o (IF ready THEN <<buffer \div 8>> ELSE <<>>)
         rest == c_end /\ bits # 0 /\ Len(made) < Bech32mBufLen
     IN  /\ data' = made \o (IF rest THEN <<left \div 8>> ELSE <<>>)
         /\ buffer' = IF rest THEN 0 ELSE left
         /\ buffer_bits' = IF rest THEN 0 ELSE bits
  /\ UNCHANGED <<input, inputterVars, feederVars, chk, c_end, i>>
-----------------------------------------------------------------------------
(* Data and checksum. *)

FeedSymbol ==
  /\ Encoding /\ pc = "symbols" /\ k < Len(data)
  /\ IF data[k + 1] >= 32
     THEN Return("ok") /\ UNCHANGED <<chk, k, fed>>
     ELSE /\ chk' = Mixed(data[k + 1]) /\ k' = k + 1
          /\ (Takes(<<Charset[data[k + 1] + 1]>>) /\ UNCHANGED pc) \/ Refuses
  /\ UNCHANGED <<input, inputterVars, regrouperVars, data>>

MoreSymbolsAlways ==
  /\ Encoding /\ pc = "symbols" /\ k = Len(data)
  /\ pc' = "more"
  /\ UNCHANGED <<input, inputterVars, feederVars, bech32mVars>>

\* Until the inputter makes no more groups.
MoreSymbols ==
  /\ Encoding /\ pc = "symbols" /\ k = Len(data) /\ data # <<>>
  /\ pc' = "more"
  /\ UNCHANGED <<input, inputterVars, feederVars, bech32mVars>>

SymbolsEnd ==
  /\ Encoding /\ pc = "symbols" /\ k = Len(data) /\ data = <<>>
  /\ k' = 0 /\ pc' = "pad"
  /\ UNCHANGED <<input, inputterVars, feederVars, chk, regrouperVars, data>>

\* Six steps for the six characters to come, then the constant.
PadChecksum ==
  /\ Encoding /\ pc = "pad"
  /\ IF k < 6 THEN chk' = polymod_step(chk) /\ k' = k + 1 /\ UNCHANGED pc
     ELSE chk' = Xor(chk, Constant) /\ k' = 0 /\ pc' = "checksum"
  /\ UNCHANGED <<input, inputterVars, feederVars, regrouperVars, data>>

\* (chk >> ((5 - n) * 5)) & 0x1f
ChecksumSymbol(sum, n) ==
  FoldSet(LAMBDA b, value : value + 2^b, 0, {b \in 0 .. 4 : b + 5 * (5 - n) \in sum})

FeedChecksum ==
  /\ Encoding /\ pc = "checksum" /\ k < 6
  /\ (Takes(<<Charset[ChecksumSymbol(chk, k) + 1]>>) /\ UNCHANGED pc) \/ Refuses
  /\ k' = k + 1
  /\ UNCHANGED <<input, inputterVars, chk, regrouperVars, data>>

Bech32mEnds ==
  /\ Encoding /\ pc = "checksum" /\ k = 6
  /\ Return("ok")
  /\ UNCHANGED <<input, inputterVars, fed, bech32mVars>>

Bech32mNext ==
  \/ CheckHrp \/ HrpChecked \/ FeedHrp \/ FeedOne
  \/ AskForBytes \/ AskForRest \/ GotBytes \/ RegroupByte \/ BytesRegrouped \/ Flush
  \/ FeedSymbol \/ MoreSymbols \/ SymbolsEnd \/ PadChecksum
  \/ FeedChecksum \/ Bech32mEnds
=============================================================================
