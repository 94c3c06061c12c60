----------------------------- MODULE MCVisitor ------------------------------
(***************************************************************************)
(* Schemas and data on which TLC checks the visitor.  A byte is a digit of *)
(* radix 4, so a 32-bit number is one of 0 .. 255; hashes have two bytes,  *)
(* Uint64 has three, and the UTF-8 buffer four.                            *)
(***************************************************************************)
EXTENDS MoleculeFormat

(* A miniature UTF-8: 0 stands alone, 1 continues, 2 starts a sequence of  *)
(* two bytes and 3 one of three.                                           *)
MCSeqLen(b) == <<1, 0, 2, 3>>[b + 1]
MCLegal(s) == \A k \in 2 .. Len(s) : s[k] = 1

Calls(top, blocks) ==
  {[top |-> top, version |-> 1, hrp |-> "plain", data |-> d] : d \in blocks}

Text(s) == PackFixvec([k \in DOMAIN s |-> <<s[k]>>])

\* d, d with one byte changed, d cut short, d with a byte too many.
Damaged(d) ==
  {d} \cup {[d EXCEPT ![k] = b] : k \in DOMAIN d, b \in Byte}
      \cup {SubSeq(d, 1, k) : k \in 0 .. Len(d) - 1}
      \cup {Append(d, b) : b \in Byte}

\* The words of d (its bytes 4k+1 .. 4k+4) changed by one up and down: the
\* off-by-one headers.
Shifted(d) ==
  LET word(k) == WordAt(d, k)
      put(k, n) == SubSeq(d, 1, k) \o PackNumber(n) \o SubSeq(d, k + 5, Len(d))
  IN  {put(4 * k, (word(4 * k) + e) % WordMod) :
         k \in 0 .. (Len(d) \div 4) - 1, e \in {1, 4, WordMod - 1, WordMod - 4}}
-----------------------------------------------------------------------------
(* schemas/misc.mol: the project's own sample schema. *)

ScriptDefs ==
  << Array("Byte32", "byte", Byte32Len), Fixvec("Bytes", "byte"),
     Fixvec("String", "byte"), Array("Uint64", "byte", Uint64Len),
     Table("Script", <<"Byte32", "byte", "Bytes">>),
     Union("Address", <<[typ |-> "Script", id |-> 0]>>) >>

MiscDefs ==
  ScriptDefs \o << Table("Misc", <<"Uint64", "Byte32", "String", "Address", "Bytes">>) >>

PackScript(args) == PackTable(<<<<1, 2>>, <<1>>, Text(args)>>)

MiscData(string, args) ==
  PackTable(<<<<3, 0, 1>>, <<2, 3>>, Text(string),
              PackUnion(0, PackScript(args)), Text(<<1>>)>>)

(* Addresses on their own, whose windows are the whole block, and scripts  *)
(* whose fields start n bytes behind the header.                           *)
AddressData == PackUnion(0, PackScript(<<2>>))

LateScript(n) ==
  PackNumber(24 + n)
    \o PackNumber(16 + n) \o PackNumber(18 + n) \o PackNumber(19 + n)
    \o [k \in 1 .. n |-> 0] \o <<1, 2>> \o <<1>> \o Text(<<2>>)

AddressBlocks ==
  Damaged(AddressData) \cup Shifted(AddressData)
    \cup {PackUnion(0, LateScript(n)) : n \in 0 .. 4}

(* Texts of more than one buffer that keep every sequence inside one.      *)
AlignedTexts ==
  {s \o t : s \in {<<0, 2, 1, 0>>, <<2, 1, 2, 1>>, <<0, 3, 1, 1>>},
            t \in UNION {[1 .. k -> Byte] : k \in 0 .. 4}}

MiscInputs ==
  Calls("Misc", Damaged(MiscData(<<0, 2, 1>>, <<3>>)))
    \cup Calls("Address", AddressBlocks)
    \cup Calls("String", {Text(s) : s \in AlignedTexts})
-----------------------------------------------------------------------------
(* Every kind inside every kind that may hold it, without the builtins. *)

ShapeDefs ==
  << Fixvec("Bytes", "byte"), Opt("BytesOpt", "Bytes"),
     Dynvec("OptVec", "BytesOpt"), Array("Two", "byte", 2),
     Struct("Pair", <<"Two", "Two">>), Fixvec("PairVec", "Pair"),
     Array("Grid", "Pair", 2),
     Union("Choice", <<[typ |-> "PairVec", id |-> 2], [typ |-> "OptVec", id |-> 1],
                       [typ |-> "byte", id |-> 3]>>),
     Dynvec("ChoiceVec", "Choice"),
     Table("Shape", <<"OptVec", "ChoiceVec", "Grid">>) >>

OptVecData == PackDynvec(<<<<>>, Text(<<3>>)>>)

ShapeData(choices) ==
  PackTable(<<OptVecData, PackDynvec(choices), <<0, 1, 2, 3, 3, 2, 1, 0>>>>)

ShapeBlocks ==
  {ShapeData(<<>>),
   ShapeData(<<PackUnion(3, <<1>>), PackUnion(2, PackFixvec(<<<<1, 2, 3, 0>>>>))>>)}

ShapeInputs ==
  Calls("Shape", UNION {Damaged(d) \cup Shifted(d) : d \in ShapeBlocks})

ValueDefs == MiscDefs \o ShapeDefs
-----------------------------------------------------------------------------
(* Strings: short texts, counts that disagree with the text, and the       *)
(* counts around the wrap of item_count + 4.                               *)

Texts(n) == UNION {[1 .. k -> Byte] : k \in 0 .. n}

CountInputs ==
  Calls("String",
        {PackNumber(n) \o s : n \in 0 .. 7 \cup WordMod - 5 .. WordMod - 1,
                              s \in Texts(3) \cup {<<0, 0, 0, 0, 0>>}})

ValueInputs == MiscInputs \cup ShapeInputs \cup CountInputs

ASSUME ValuesAssumption ==
  Defs = ValueDefs =>
    /\ SizesGrounded([t \in SizedTypes |-> DefIndex(t)]) /\ BuiltinsKept
    /\ Inputs = ValueInputs => \A in \in Inputs : ~Overlong(in.data)

(* Texts of valid sequences one of which straddles two buffers. *)
StraddlingInputs ==
  Calls("String", {Text(<<0, 0, 0>> \o s) : s \in {<<2, 1>>, <<2, 1, 0>>, <<3, 1, 1>>}})

(* An upper-case hrp for an address that is in order. *)
UpperInputs ==
  {[top |-> "Address", version |-> 1, hrp |-> "upper", data |-> AddressData]}

(* A script that announces four fields, so that its args end at the fourth  *)
(* offset, four bytes behind the script and inside the field that follows.  *)
OverlongData ==
  PackNumber(27)
    \o PackNumber(20) \o PackNumber(22) \o PackNumber(23) \o PackNumber(31)
    \o <<1, 2>> \o <<1>> \o PackNumber(4)

OverlongInputs ==
  Calls("Misc", {PackTable(<<<<3, 0, 1>>, <<2, 3>>, Text(<<0>>),
                             PackUnion(0, OverlongData), Text(<<1>>)>>)})
-----------------------------------------------------------------------------
(* Schemas that a user can pack and that disagree with the visitor's own   *)
(* idea of the builtin types, or name types they do not define.            *)

OddDefs ==
  << Array("Byte32", "byte", Byte32Len + 1), Array("Uint64", "byte", Uint64Len + 1),
     Array("Two", "byte", 2), Array("Huge", "byte", WordMod),
     Array("None", "byte", 0), Array("Nones", "Two", 0), Fixvec("String", "Two"),
     Array("Bools", "Two", 3),
     Fixvec("Bytes", "byte"), Struct("Lost", <<"byte", "Missing">>),
     Opt("Maybe", "Lost"), Dynvec("Maybes", "Maybe"),
     Table("Script", <<"Two", "byte", "Bytes">>),
     Union("Address", <<[typ |-> "Script", id |-> 0], [typ |-> "Two", id |-> 1]>>),
     Union("Any", <<[typ |-> "None", id |-> 0], [typ |-> "Nones", id |-> 1],
                    [typ |-> "Lost", id |-> 2], [typ |-> "Bytes", id |-> 3]>>) >>

OddBlocks ==
  LET words == {PackNumber(n) : n \in 0 .. 4 \cup {WordMod - 4, WordMod - 1}}
  IN  Texts(2) \cup {<<1, 2, 3>>, <<3, 2, 1, 0, 1, 2>>, PackDynvec(<<<<>>, <<>>>>)}
        \cup {h \o t : h \in words, t \in Texts(2) \cup words}

OddInputs ==
  UNION {Calls(OddDefs[k].name, OddBlocks) : k \in DOMAIN OddDefs}
    \cup Calls("Missing", {<<>>}) \cup Calls("byte", OddBlocks)
    \cup {[top |-> "Address", version |-> v, hrp |-> h, data |-> AddressData] :
            v \in {1, 2}, h \in {"plain", "upper", "bad"}}
-----------------------------------------------------------------------------
(* A struct that mixes an array with a single byte: type correct molecule. *)

MixedDefs == << Array("Two", "byte", 2), Struct("Mixed", <<"Two", "byte">>) >>
MixedInputs == Calls("Mixed", {<<1, 2, 3>>})
=============================================================================
