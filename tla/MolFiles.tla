------------------------------ MODULE MolFiles ------------------------------
(***************************************************************************)
(* Declarations of molecule schemas, in the form in which Definitions      *)
(* holds them, and the schemas of this repository.                         *)
(***************************************************************************)
LOCAL INSTANCE Integers
LOCAL INSTANCE SequencesExt

Blank(kind, name) == [kind |-> kind, name |-> name, item |-> "", count |-> 0,
                      pairs |-> <<>>, fields |-> <<>>]
Opt(name, item) == [Blank("option", name) EXCEPT !.item = item]
Union(name, pairs) == [Blank("union", name) EXCEPT !.pairs = pairs]
Array(name, item, n) == [Blank("array", name) EXCEPT !.item = item, !.count = n]
Struct(name, fields) == [Blank("struct", name) EXCEPT !.fields = fields]
Fixvec(name, item) == [Blank("fixvec", name) EXCEPT !.item = item]
Dynvec(name, item) == [Blank("dynvec", name) EXCEPT !.item = item]
Table(name, fields) == [Blank("table", name) EXCEPT !.fields = fields]

\* A union without explicit ids numbers its items from 0.
Numbered(types) == [k \in DOMAIN types |-> [typ |-> types[k], id |-> k - 1]]
-----------------------------------------------------------------------------
ScriptMol == Table("Script", <<"Byte32", "byte", "Bytes">>)
AddressMol == Union("Address", Numbered(<<"Script">>))

\* schemas/misc.mol
MiscMol ==
  << Array("Uint8", "byte", 1), Array("Uint16", "byte", 2),
     Array("Uint32", "byte", 4), Array("Uint64", "byte", 8),
     Array("Uint128", "byte", 16), Array("Uint256", "byte", 32),
     Array("Byte32", "byte", 32), Fixvec("Bytes", "byte"),
     Fixvec("String", "byte"), ScriptMol, Struct("Capacity", <<"Uint64">>),
     AddressMol,
     Table("Misc", <<"Uint64", "Byte32", "String", "Address", "Bytes">>) >>

\* schemas/spore.mol
SporeMol ==
  LET Mint(name) == Table(name, <<"Byte32", "Address", "Byte32">>)
      Transfer(name) == Table(name, <<"Byte32", "Address", "Address">>)
      Burn(name) == Table(name, <<"Byte32", "Address">>)
      Proxy(name) == Table(name, <<"Byte32", "Byte32", "Address">>)
  IN << Array("Byte32", "byte", 32), Fixvec("Bytes", "byte"), ScriptMol, AddressMol,
        Mint("MintSpore"), Transfer("TransferSpore"), Burn("BurnSpore"),
        Mint("MintCluster"), Transfer("TransferCluster"),
        Proxy("MintProxy"),
        Table("TransferProxy", <<"Byte32", "Byte32", "Address", "Address">>),
        Proxy("BurnProxy"),
        Proxy("MintAgent"), Transfer("TransferAgent"), Burn("BurnAgent"),
        Union("SporeAction",
              Numbered(<<"MintSpore", "TransferSpore", "BurnSpore",
                         "MintCluster", "TransferCluster",
                         "MintProxy", "TransferProxy", "BurnProxy",
                         "MintAgent", "TransferAgent", "BurnAgent">>)) >>

\* schemas/definitions.mol
DefinitionsMol ==
  LET Of(name, second) == Table(name, <<"String", second>>)
  IN << Array("Uint64", "byte", 8), Fixvec("String", "byte"),
        Of("FieldPair", "String"), Dynvec("FieldPairVec", "FieldPair"),
        Of("OptionDefinition", "String"),
        Of("UnionPair", "Uint64"), Dynvec("UnionPairVec", "UnionPair"),
        Of("UnionDefinition", "UnionPairVec"),
        Table("ArrayDefinition", <<"String", "String", "Uint64">>),
        Of("StructDefinition", "FieldPairVec"),
        Of("FixvecDefinition", "String"), Of("DynvecDefinition", "String"),
        Of("TableDefinition", "FieldPairVec"),
        Union("Definition",
              Numbered(<<"OptionDefinition", "UnionDefinition", "ArrayDefinition",
                         "StructDefinition", "FixvecDefinition", "DynvecDefinition",
                         "TableDefinition">>)),
        Dynvec("DefinitionVec", "Definition"),
        Table("Definitions", <<"DefinitionVec", "String", "Uint64">>) >>
=============================================================================
