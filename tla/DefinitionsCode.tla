--------------------------- MODULE DefinitionsCode ---------------------------
(***************************************************************************)
(* definitions.rs: the code of the schema compacter's own types, generated *)
(* from schemas/definitions.mol. A type is what its three copies say: the  *)
(* entity (its literal of default bytes and its accessors), the reader     *)
(* (its accessors and verify) and the builder (what it holds, in the order *)
(* it is written).                                                         *)
(***************************************************************************)
EXTENDS GeneratedTypes

Uint64 == Entity(Zeros(8), Array("byte", 1, 8))
Uint64Reader == Array("byte", 1, 8)
Uint64Builder == Array("byte", 1, 8)

String == Entity(Zeros(4), Fixvec("byte", 1))
StringReader == Fixvec("byte", 1)
StringBuilder == Fixvec("byte", 1)

FieldPair ==
  Entity(Numbers(<<20, 12, 16>>) \o Zeros(8),
         Table(<<Field("name", "String"), Field("typ", "String")>>))
FieldPairReader == Table(<<Field("name", "String"), Field("typ", "String")>>)
FieldPairBuilder == Table(<<Field("name", "String"), Field("typ", "String")>>)

FieldPairVec == Entity(Numbers(<<4>>), Dynvec("FieldPair"))
FieldPairVecReader == Dynvec("FieldPair")
FieldPairVecBuilder == Dynvec("FieldPair")

OptionDefinition ==
  Entity(Numbers(<<20, 12, 16>>) \o Zeros(8),
         Table(<<Field("name", "String"), Field("item", "String")>>))
OptionDefinitionReader ==
  Table(<<Field("name", "String"), Field("item", "String")>>)
OptionDefinitionBuilder ==
  Table(<<Field("name", "String"), Field("item", "String")>>)

UnionPair ==
  Entity(Numbers(<<24, 12, 16>>) \o Zeros(12),
         Table(<<Field("typ", "String"), Field("id", "Uint64")>>))
UnionPairReader == Table(<<Field("typ", "String"), Field("id", "Uint64")>>)
UnionPairBuilder == Table(<<Field("typ", "String"), Field("id", "Uint64")>>)

UnionPairVec == Entity(Numbers(<<4>>), Dynvec("UnionPair"))
UnionPairVecReader == Dynvec("UnionPair")
UnionPairVecBuilder == Dynvec("UnionPair")

UnionDefinition ==
  Entity(Numbers(<<20, 12, 16>>) \o Zeros(4) \o Numbers(<<4>>),
         Table(<<Field("name", "String"), Field("items", "UnionPairVec")>>))
UnionDefinitionReader ==
  Table(<<Field("name", "String"), Field("items", "UnionPairVec")>>)
UnionDefinitionBuilder ==
  Table(<<Field("name", "String"), Field("items", "UnionPairVec")>>)

ArrayDefinition ==
  Entity(Numbers(<<32, 16, 20, 24>>) \o Zeros(16),
         Table(<<Field("name", "String"), Field("item", "String"),
                 Field("item_count", "Uint64")>>))
ArrayDefinitionReader ==
  Table(<<Field("name", "String"), Field("item", "String"),
          Field("item_count", "Uint64")>>)
ArrayDefinitionBuilder ==
  Table(<<Field("name", "String"), Field("item", "String"),
          Field("item_count", "Uint64")>>)

StructDefinition ==
  Entity(Numbers(<<20, 12, 16>>) \o Zeros(4) \o Numbers(<<4>>),
         Table(<<Field("name", "String"), Field("fields", "FieldPairVec")>>))
StructDefinitionReader ==
  Table(<<Field("name", "String"), Field("fields", "FieldPairVec")>>)
StructDefinitionBuilder ==
  Table(<<Field("name", "String"), Field("fields", "FieldPairVec")>>)

FixvecDefinition ==
  Entity(Numbers(<<20, 12, 16>>) \o Zeros(8),
         Table(<<Field("name", "String"), Field("item", "String")>>))
FixvecDefinitionReader ==
  Table(<<Field("name", "String"), Field("item", "String")>>)
FixvecDefinitionBuilder ==
  Table(<<Field("name", "String"), Field("item", "String")>>)

DynvecDefinition ==
  Entity(Numbers(<<20, 12, 16>>) \o Zeros(8),
         Table(<<Field("name", "String"), Field("item", "String")>>))
DynvecDefinitionReader ==
  Table(<<Field("name", "String"), Field("item", "String")>>)
DynvecDefinitionBuilder ==
  Table(<<Field("name", "String"), Field("item", "String")>>)

TableDefinition ==
  Entity(Numbers(<<20, 12, 16>>) \o Zeros(4) \o Numbers(<<4>>),
         Table(<<Field("name", "String"), Field("fields", "FieldPairVec")>>))
TableDefinitionReader ==
  Table(<<Field("name", "String"), Field("fields", "FieldPairVec")>>)
TableDefinitionBuilder ==
  Table(<<Field("name", "String"), Field("fields", "FieldPairVec")>>)

DefinitionUnion ==
  <<"OptionDefinition", "UnionDefinition", "ArrayDefinition",
    "StructDefinition", "FixvecDefinition", "DynvecDefinition",
    "TableDefinition">>
Definition ==
  Entity(Zeros(4) \o Numbers(<<20, 12, 16>>) \o Zeros(8),
         Union(DefinitionUnion))
DefinitionReader ==
  Union(<<"OptionDefinition", "UnionDefinition", "ArrayDefinition",
          "StructDefinition", "FixvecDefinition", "DynvecDefinition",
          "TableDefinition">>)
DefinitionBuilder == UnionBuilder(DefinitionUnion, "OptionDefinition")

DefinitionVec == Entity(Numbers(<<4>>), Dynvec("Definition"))
DefinitionVecReader == Dynvec("Definition")
DefinitionVecBuilder == Dynvec("Definition")

Definitions ==
  Entity(Numbers(<<32, 16, 20, 24, 4>>) \o Zeros(12),
         Table(<<Field("definitions", "DefinitionVec"),
                 Field("top_level_type", "String"),
                 Field("syntax_version", "Uint64")>>))
DefinitionsReader ==
  Table(<<Field("definitions", "DefinitionVec"),
          Field("top_level_type", "String"),
          Field("syntax_version", "Uint64")>>)
DefinitionsBuilder ==
  Table(<<Field("definitions", "DefinitionVec"),
          Field("top_level_type", "String"),
          Field("syntax_version", "Uint64")>>)

Types ==
  [ Uint64 |-> Type(Uint64, Uint64Reader, Uint64Builder),
    String |-> Type(String, StringReader, StringBuilder),
    FieldPair |-> Type(FieldPair, FieldPairReader, FieldPairBuilder),
    FieldPairVec |-> Type(FieldPairVec, FieldPairVecReader, FieldPairVecBuilder),
    OptionDefinition |-> Type(OptionDefinition, OptionDefinitionReader, OptionDefinitionBuilder),
    UnionPair |-> Type(UnionPair, UnionPairReader, UnionPairBuilder),
    UnionPairVec |-> Type(UnionPairVec, UnionPairVecReader, UnionPairVecBuilder),
    UnionDefinition |-> Type(UnionDefinition, UnionDefinitionReader, UnionDefinitionBuilder),
    ArrayDefinition |-> Type(ArrayDefinition, ArrayDefinitionReader, ArrayDefinitionBuilder),
    StructDefinition |-> Type(StructDefinition, StructDefinitionReader, StructDefinitionBuilder),
    FixvecDefinition |-> Type(FixvecDefinition, FixvecDefinitionReader, FixvecDefinitionBuilder),
    DynvecDefinition |-> Type(DynvecDefinition, DynvecDefinitionReader, DynvecDefinitionBuilder),
    TableDefinition |-> Type(TableDefinition, TableDefinitionReader, TableDefinitionBuilder),
    Definition |-> Type(Definition, DefinitionReader, DefinitionBuilder),
    DefinitionVec |-> Type(DefinitionVec, DefinitionVecReader, DefinitionVecBuilder),
    Definitions |-> Type(Definitions, DefinitionsReader, DefinitionsBuilder)]
==============================================================================
