---------------------------- MODULE GeneratedTypes ----------------------------
(***************************************************************************)
(* How the generated code of one molecule type is written down: by what    *)
(* its copies (entity, reader, builder) say about the type.  What a copy   *)
(* does with it is in MoleculeCode.  Bytes have their eight bits here.     *)
(***************************************************************************)
EXTENDS Integers, Sequences, SequencesExt

\* Literals: zero bytes, and numbers below 2^16 in four bytes each.
Zeros(n) == [k \in 1 .. n |-> 0]
Numbers(ns) ==
  FlattenSeq([k \in DOMAIN ns |-> <<ns[k] % 256, ns[k] \div 256, 0, 0>>])

Field(name, type) == [name |-> name, typ |-> type]
FieldAt(name, type, from, to) ==
  [name |-> name, typ |-> type, from |-> from, to |-> to]

Array(item, size, count) ==
  [kind |-> "array", item |-> item, size |-> size, count |-> count]
Struct(total, fields) == [kind |-> "struct", total |-> total, fields |-> fields]
Table(fields) == [kind |-> "table", fields |-> fields]
Fixvec(item, size) == [kind |-> "fixvec", item |-> item, size |-> size]
Dynvec(item) == [kind |-> "dynvec", item |-> item]

\* Item k of a union has the id k - 1; a new builder holds the default item.
Union(items) == [kind |-> "union", items |-> items]
UnionBuilder(items, default) ==
  [kind |-> "union", items |-> items, default |-> default]

\* An entity with its DEFAULT_VALUE.
Entity(default, copy) == [default |-> default, copy |-> copy]

Type(entity, reader, builder) ==
  [default |-> entity.default, entity |-> entity.copy,
   reader |-> reader, builder |-> builder]
=============================================================================
