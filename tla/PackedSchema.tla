----------------------------- MODULE PackedSchema -----------------------------
(***************************************************************************)
(* How a schema gets from the compacter to the visitor: the From           *)
(* implementations of schemas/mod.rs build a molecule value with the       *)
(* builders of definitions.rs, and the accessors of mol2_definitions.h     *)
(* read it through molecule2_reader.h.                                     *)
(*                                                                         *)
(* Of a declaration `refs` are the types it names, and `more` is the rest: *)
(* its kind, names of fields, ids of union items and the item count.       *)
(***************************************************************************)
EXTENDS GeneratedCode

CONSTANT Text  \* Text[n]: the bytes of name n

ASSUME TextAssumption == \A n \in DOMAIN Text : Text[n] \in Seq(Byte)

Ours(name) == [crate |-> "definitions", name |-> name]
-----------------------------------------------------------------------------
(* schemas/mod.rs. *)

\* A new builder with all its fields set, and one extended by items.
BuildTable(type, values) ==
  LET fields == Generated(Ours(type)).builder.fields
  IN  Build(Ours(type), [k \in DOMAIN fields |-> Held(fields[k].typ, values[fields[k].name])])

BuildVec(type, items) ==
  LET item == Generated(Ours(type)).builder.item
  IN  Build(Ours(type), [k \in DOMAIN items |-> Held(item, items[k])])

FromStr(n) == BuildVec("String", [k \in DOMAIN Text[n] |-> <<Text[n][k]>>])

\* Byte k of usize::to_le_bytes.
LeByte(n, k) == FoldLeft(LAMBDA rest, j : rest \div Base, n, [j \in 1 .. k - 1 |-> j]) % Base

FromUsizeReversed(n) ==
  Build(Ours("Uint64"), [k \in 1 .. 8 |-> Held("byte", <<LeByte(n, 9 - k)>>)])

FromUsize(n) == Build(Ours("Uint64"), [k \in 1 .. 8 |-> Held("byte", <<LeByte(n, k)>>)])

FromFields(d) ==
  BuildVec("FieldPairVec",
    [k \in DOMAIN d.refs |->
       BuildTable("FieldPair", [name |-> FromStr(d.more.fields[k]), typ |-> FromStr(d.refs[k])])])

FromUnionItems(d) ==
  BuildVec("UnionPairVec",
    [k \in DOMAIN d.refs |->
       BuildTable("UnionPair", [typ |-> FromStr(d.refs[k]), id |-> FromUsize(d.more.ids[k])])])

VariantOf == [option |-> "OptionDefinition", union |-> "UnionDefinition",
              array |-> "ArrayDefinition", struct |-> "StructDefinition",
              fixvec |-> "FixvecDefinition", dynvec |-> "DynvecDefinition",
              table |-> "TableDefinition"]

\* What a variant is set to; a builder asks for the fields it has.
FromVariant(d) ==
  LET name == FromStr(d.name)
      built(values) == BuildTable(VariantOf[d.more.kind], values)
  IN CASE d.more.kind \in {"option", "fixvec", "dynvec"} ->
            built([name |-> name, item |-> FromStr(d.refs[1])])
       [] d.more.kind = "array" ->
            built([name |-> name, item |-> FromStr(d.refs[1]),
                   item_count |-> FromUsize(d.more.count)])
       [] d.more.kind = "union" -> built([name |-> name, items |-> FromUnionItems(d)])
       [] d.more.kind \in {"struct", "table"} ->
            built([name |-> name, fields |-> FromFields(d)])

FromTopDecl(d) ==
  Build(Ours("Definition"), <<Held(VariantOf[d.more.kind], FromVariant(d))>>)

build_compact_definitions(syntax_version, top, decls) ==
  BuildTable("Definitions",
    [syntax_version |-> FromUsize(syntax_version), top_level_type |-> FromStr(top),
     definitions |-> BuildVec("DefinitionVec", [k \in DOMAIN decls |-> FromTopDecl(decls[k])])])
-----------------------------------------------------------------------------
(* molecule2_reader.h and mol2_definitions.h.  An operator returns a set,  *)
(* empty when the code ends the process.                                   *)

\* All results of a sequence of reads.
Each(sets) ==
  IF \E k \in DOMAIN sets : sets[k] = {} THEN {}
  ELSE {[k \in DOMAIN sets |-> CHOOSE x \in sets[k] : TRUE]}

\* mol2_fixvec_slice_raw_bytes.
RawBytes(mem, c) ==
  IF ~Unpacks(mem, c) THEN {}
  ELSE {r \in {[off |-> c.off + NumSize, size |-> WordAt(mem, c.off)]} : Validates(mem, r)}

\* The String in field i, and the Uint64 there.
StringAt(mem, c, i) ==
  {SubSeq(mem, r.off + 1, r.off + r.size) :
     r \in UNION {RawBytes(mem, s) : s \in TableSlice(mem, c, i)}}

Uint64At(mem, c, i) ==
  {FoldRight(LAMBDA b, n : b + Base * n, SubSeq(mem, s.off + 1, s.off + 8), 0) :
     s \in {s \in TableSlice(mem, c, i) : s.size >= 8 /\ s.off + 8 <= TotalSize(mem)}}

DynvecLength(mem, c) ==
  IF c.size = NumSize THEN {0}
  ELSE IF c.size < 2 * NumSize \/ ~Validates(mem, c) THEN {}
  ELSE {n \in {WordAt(mem, c.off + NumSize) \div NumSize - 1} : n >= 0}

\* The items that vec.t->get finds.
ItemCursors(mem, c) ==
  UNION {Each([k \in 1 .. n |-> {r.cur : r \in {r \in DynvecSlice(mem, c, k - 1) : r.found}}]) :
           n \in DynvecLength(mem, c)}

\* as_...: the item behind the id, mol2_union_unpack.
UnionCursor(mem, c) ==
  IF ~Unpacks(mem, c) THEN {} ELSE {u \in {Advance(c, NumSize)} : Validates(mem, u)}

FieldPairs(mem, c) ==
  UNION {Each([k \in DOMAIN items |->
                 {[name |-> name, typ |-> typ] :
                    name \in StringAt(mem, items[k], 0), typ \in StringAt(mem, items[k], 1)}]) :
           items \in UNION {ItemCursors(mem, s) : s \in TableSlice(mem, c, 1)}}

UnionPairs(mem, c) ==
  UNION {Each([k \in DOMAIN items |->
                 {[typ |-> typ, id |-> id] :
                    typ \in StringAt(mem, items[k], 0), id \in Uint64At(mem, items[k], 1)}]) :
           items \in UNION {ItemCursors(mem, s) : s \in TableSlice(mem, c, 1)}}

\* The cases of _mdp_visit_subtype by item_id.
KindOfId == <<"option", "union", "array", "struct", "fixvec", "dynvec", "table">>

\* What the accessors of a definition at v find, for each kind.
Details(mem, v, kind) ==
  CASE kind \in {"option", "fixvec", "dynvec"} -> {[item |-> i] : i \in StringAt(mem, v, 1)}
    [] kind = "array" ->
         {[item |-> i, count |-> n] : i \in StringAt(mem, v, 1), n \in Uint64At(mem, v, 2)}
    [] kind = "union" -> {[pairs |-> p] : p \in UnionPairs(mem, v)}
    [] kind \in {"struct", "table"} -> {[fields |-> f] : f \in FieldPairs(mem, v)}

ReadDefinition(mem, c) ==
  LET kind == KindOfId[WordAt(mem, c.off) + 1]
  IN  UNION {{[kind |-> kind, name |-> name, details |-> details] :
                name \in StringAt(mem, v, 0), details \in Details(mem, v, kind)} :
               v \in UnionCursor(mem, c)}

ReadSchema(mem) ==
  LET whole == [off |-> 0, size |-> Len(mem)]
      definitions ==
        UNION {Each([k \in DOMAIN items |-> ReadDefinition(mem, items[k])]) :
                 items \in UNION {ItemCursors(mem, s) : s \in TableSlice(mem, whole, 0)}}
  IN  {[definitions |-> d, top |-> t, version |-> n] :
         d \in definitions, t \in StringAt(mem, whole, 1), n \in Uint64At(mem, whole, 2)}
-----------------------------------------------------------------------------
(* What the visitor should find: the declaration itself. *)
Meant(d) ==
  [kind |-> d.more.kind, name |-> Text[d.name],
   details |->
     CASE d.more.kind \in {"option", "fixvec", "dynvec"} -> [item |-> Text[d.refs[1]]]
       [] d.more.kind = "array" -> [item |-> Text[d.refs[1]], count |-> d.more.count]
       [] d.more.kind = "union" ->
            [pairs |-> [k \in DOMAIN d.refs |-> [typ |-> Text[d.refs[k]], id |-> d.more.ids[k]]]]
       [] d.more.kind \in {"struct", "table"} ->
            [fields |-> [k \in DOMAIN d.refs |->
                           [name |-> Text[d.more.fields[k]], typ |-> Text[d.refs[k]]]]]]
=============================================================================
