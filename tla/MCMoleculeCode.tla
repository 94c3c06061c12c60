---------------------------- MODULE MCMoleculeCode ----------------------------
(***************************************************************************)
(* MoleculeCode over the checked in code and schemas of the three crates:  *)
(* for every type its default, a filled value, values of newer schemas at  *)
(* the top and further in, and damaged forms of these.                     *)
(***************************************************************************)
EXTENDS DataGenerators, TLC

Files == INSTANCE MolFiles
DefinitionsRs == INSTANCE DefinitionsCode
MiscRs == INSTANCE MiscCode
SporeRs == INSTANCE SporeCode

Crates == {"definitions", "misc", "spore"}

\* Each a LET, which TLC's statistics do not expand at every use.
CheckedInCode ==
  LET of == [definitions |-> DefinitionsRs!Types, misc |-> MiscRs!Types,
             spore |-> SporeRs!Types]
  IN  of

CheckedInSchemas ==
  LET of == [definitions |-> Files!DefinitionsMol, misc |-> Files!MiscMol,
             spore |-> Files!SporeMol]
  IN  of

Mol(crate) == INSTANCE MoleculeRules WITH Defs <- CheckedInSchemas[crate]
-----------------------------------------------------------------------------
(* A value with something in every vector; `newer(name)` adds a field to   *)
(* the tables for which it holds.                                          *)
RECURSIVE Filled(_, _, _)
Filled(crate, name, newer) ==
  IF name = "byte" THEN <<3>>
  ELSE LET d == Mol(crate)!DefOf(name)
           part(t) == Filled(crate, t, newer)
           fields == [k \in DOMAIN d.fields |-> part(d.fields[k])]
       IN CASE d.kind = "array" -> FlattenSeq([k \in 1 .. d.count |-> part(d.item)])
            [] d.kind = "struct" -> FlattenSeq(fields)
            [] d.kind = "fixvec" -> Mol(crate)!PackFixvec(<<part(d.item), part(d.item)>>)
            [] d.kind = "dynvec" -> Mol(crate)!PackDynvec(<<part(d.item), part(d.item)>>)
            [] d.kind = "table" ->
                 Mol(crate)!PackTable(IF name \in newer THEN Append(fields, <<5>>) ELSE fields)
            [] d.kind = "union" ->
                 Mol(crate)!PackUnion(d.pairs[Len(d.pairs)].id, part(d.pairs[Len(d.pairs)].typ))

Names(crate) == DOMAIN CheckedInCode[crate]
Tables(crate) ==
  {name \in Names(crate) : Mol(crate)!DefOf(name).kind = "table"}

\* Schemas that differ in one table, and one that differs in all.
Newer(crate) == {{name} : name \in Tables(crate)} \cup {{}, Tables(crate)}

Encodings(crate, name) ==
  {Filled(crate, name, newer) : newer \in Newer(crate)} \cup
  {CheckedInCode[crate][name].default}

\* One header word off by a little, bytes cut off, a byte too many.
HeaderWords == 0 .. 9
Damaged(d) ==
  {[d EXCEPT ![4 * w + 1] = @ + by] :
     <<w, by>> \in {p \in HeaderWords \X {-4, -1, 1, 4} :
                      4 * p[1] < Len(d) /\ d[4 * p[1] + 1] + p[2] \in 0 .. 255}}
  \cup {SubSeq(d, 1, n) : n \in {m \in {0, 3, 4, 7, 8, 12, Len(d) - 1} : m \in 0 .. Len(d) - 1}}
  \cup {Append(d, 6)}

Given(crate, name, slices) ==
  {[typ |-> [crate |-> crate, name |-> name], slice |-> d] : d \in slices}

\* Draws of the generators: short and long arguments, both hash types.
Some(n, byte) == [k \in 1 .. n |-> byte]
Scripts ==
  {[code_hash |-> Some(32, 7), hash_type |-> h, args |-> Some(n, 8)] :
     <<h, n>> \in {<<0, 0>>, <<1, 2>>, <<1, 5>>}}
DrawsOf(crate, top, values) ==
  {[crate |-> crate, top |-> top, value |-> v] : v \in values}
GeneratorDraws ==
  DrawsOf("misc", "Misc",
          [integer : {Some(8, 9)}, hash : {Some(32, 10)}, string : {Some(6, 65)},
           addr : Scripts, var_bytes : {<<>>, Some(5, 11)}]) \cup
  DrawsOf("spore", "MintSpore",
          [spore_id : {Some(32, 12)}, to : Scripts, data_hash : {Some(32, 13)}]) \cup
  DrawsOf("spore", "TransferSpore",
          [spore_id : {Some(32, 12)}, from : Scripts, to : Scripts]) \cup
  DrawsOf("spore", "BurnSpore", [spore_id : {Some(32, 12)}, from : Scripts])

CallerInputs ==
  {[typ |-> w.typ, slice |-> w.slice] : w \in Written} \cup
  UNION {Given(crate, name,
               Encodings(crate, name) \cup
               UNION {Damaged(d) : d \in Encodings(crate, name)}) :
           <<crate, name>> \in UNION {{c} \X Names(c) : c \in Crates}}

CallerValues(t) ==
  IF t.name = "byte" THEN {<<9>>} ELSE {Default(t), Filled(t.crate, t.name, {})}
=============================================================================
