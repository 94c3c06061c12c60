------------------------------ MODULE MiscCode -------------------------------
(***************************************************************************)
(* misc.rs: the code generated from schemas/misc.mol for its data          *)
(* generator. A type is what its three copies say: the entity (its literal *)
(* of default bytes and its accessors), the reader (its accessors and      *)
(* verify) and the builder (what it holds, in the order it is written).    *)
(***************************************************************************)
EXTENDS GeneratedTypes

Uint8 == Entity(Zeros(1), Array("byte", 1, 1))
Uint8Reader == Array("byte", 1, 1)
Uint8Builder == Array("byte", 1, 1)

Uint16 == Entity(Zeros(2), Array("byte", 1, 2))
Uint16Reader == Array("byte", 1, 2)
Uint16Builder == Array("byte", 1, 2)

Uint32 == Entity(Zeros(4), Array("byte", 1, 4))
Uint32Reader == Array("byte", 1, 4)
Uint32Builder == Array("byte", 1, 4)

Uint64 == Entity(Zeros(8), Array("byte", 1, 8))
Uint64Reader == Array("byte", 1, 8)
Uint64Builder == Array("byte", 1, 8)

Uint128 == Entity(Zeros(16), Array("byte", 1, 16))
Uint128Reader == Array("byte", 1, 16)
Uint128Builder == Array("byte", 1, 16)

Uint256 == Entity(Zeros(32), Array("byte", 1, 32))
Uint256Reader == Array("byte", 1, 32)
Uint256Builder == Array("byte", 1, 32)

Byte32 == Entity(Zeros(32), Array("byte", 1, 32))
Byte32Reader == Array("byte", 1, 32)
Byte32Builder == Array("byte", 1, 32)

Bytes == Entity(Zeros(4), Fixvec("byte", 1))
BytesReader == Fixvec("byte", 1)
BytesBuilder == Fixvec("byte", 1)

String == Entity(Zeros(4), Fixvec("byte", 1))
StringReader == Fixvec("byte", 1)
StringBuilder == Fixvec("byte", 1)

Script ==
  Entity(Numbers(<<53, 16, 48, 49>>) \o Zeros(37),
         Table(<<Field("code_hash", "Byte32"), Field("hash_type", "byte"),
                 Field("args", "Bytes")>>))
ScriptReader ==
  Table(<<Field("code_hash", "Byte32"), Field("hash_type", "byte"),
          Field("args", "Bytes")>>)
ScriptBuilder ==
  Table(<<Field("code_hash", "Byte32"), Field("hash_type", "byte"),
          Field("args", "Bytes")>>)

Capacity == Entity(Zeros(8), Struct(8, <<FieldAt("amount", "Uint64", 0, 8)>>))
CapacityReader == Struct(8, <<FieldAt("amount", "Uint64", 0, 8)>>)
CapacityBuilder == Struct(8, <<FieldAt("amount", "Uint64", 0, 8)>>)

AddressUnion == <<"Script">>
Address ==
  Entity(Zeros(4) \o Numbers(<<53, 16, 48, 49>>) \o Zeros(37),
         Union(AddressUnion))
AddressReader == Union(<<"Script">>)
AddressBuilder == UnionBuilder(AddressUnion, "Script")

Misc ==
  Entity(Numbers(<<129, 24, 32, 64, 68, 125>>) \o Zeros(48) \o
         Numbers(<<53, 16, 48, 49>>) \o Zeros(41),
         Table(<<Field("integer", "Uint64"), Field("hash", "Byte32"),
                 Field("string", "String"), Field("addr", "Address"),
                 Field("var_bytes", "Bytes")>>))
MiscReader ==
  Table(<<Field("integer", "Uint64"), Field("hash", "Byte32"),
          Field("string", "String"), Field("addr", "Address"),
          Field("var_bytes", "Bytes")>>)
MiscBuilder ==
  Table(<<Field("integer", "Uint64"), Field("hash", "Byte32"),
          Field("string", "String"), Field("addr", "Address"),
          Field("var_bytes", "Bytes")>>)

Types ==
  [ Uint8 |-> Type(Uint8, Uint8Reader, Uint8Builder),
    Uint16 |-> Type(Uint16, Uint16Reader, Uint16Builder),
    Uint32 |-> Type(Uint32, Uint32Reader, Uint32Builder),
    Uint64 |-> Type(Uint64, Uint64Reader, Uint64Builder),
    Uint128 |-> Type(Uint128, Uint128Reader, Uint128Builder),
    Uint256 |-> Type(Uint256, Uint256Reader, Uint256Builder),
    Byte32 |-> Type(Byte32, Byte32Reader, Byte32Builder),
    Bytes |-> Type(Bytes, BytesReader, BytesBuilder),
    String |-> Type(String, StringReader, StringBuilder),
    Script |-> Type(Script, ScriptReader, ScriptBuilder),
    Capacity |-> Type(Capacity, CapacityReader, CapacityBuilder),
    Address |-> Type(Address, AddressReader, AddressBuilder),
    Misc |-> Type(Misc, MiscReader, MiscBuilder)]
==============================================================================
