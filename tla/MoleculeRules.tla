---------------------------- MODULE MoleculeRules ----------------------------
(***************************************************************************)
(* The encoding of molecule, for an arbitrary schema `Defs`: which bytes   *)
(* are a value of a type, and how a value is put together.  The rules are  *)
(* those of the readers and builders in crates/*/src/schemas.  They are    *)
(* the reference for the visitor (MoleculeFormat) and for the generated    *)
(* code itself (MoleculeCode).                                             *)
(***************************************************************************)
EXTENDS Mol2Cursor, Schema, SequencesExt

INSTANCE MoleculePack

DefOf(typ) ==
  Defs[CHOOSE k \in DOMAIN Defs :
         /\ Defs[k].name = typ
         /\ \A j \in 1 .. k - 1 : Defs[j].name # typ]

\* The types whose readers have a TOTAL_SIZE.
SizedTypes ==
  {t \in TypeNames : t = "byte" \/ DefOf(t).kind \in {"array", "struct"}}

TotalSizes[t \in SizedTypes] ==
  IF t = "byte" THEN 1
  ELSE IF DefOf(t).kind = "array" THEN DefOf(t).count * TotalSizes[DefOf(t).item]
  ELSE Added([k \in DOMAIN DefOf(t).fields |-> TotalSizes[DefOf(t).fields[k]]])

FixedSize(typ) == TotalSizes[typ]

\* Offset k of a dynvec or table with n items; the last one is the total.
OffsetAt(mem, c, k, n) ==
  WordAt(mem, c.off + (IF k < n THEN NumSize * (k + 1) ELSE 0))

Items(mem, c) == WordAt(mem, c.off + NumSize) \div NumSize - 1

\* The header of a non-empty dynvec or of a table is sound.
Framed(mem, c) ==
  /\ c.size >= 2 * NumSize
  /\ WordAt(mem, c.off) = c.size
  /\ WordAt(mem, c.off + NumSize) % NumSize = 0
  /\ WordAt(mem, c.off + NumSize) \in 2 * NumSize .. c.size
  /\ \A k \in 0 .. Items(mem, c) - 1 :
       OffsetAt(mem, c, k, Items(mem, c)) <= OffsetAt(mem, c, k + 1, Items(mem, c))

\* Some pair of a union carries this id.
HasVariant(pairs, id) == \E k \in DOMAIN pairs : pairs[k].id = id

\* The first pair with this id is the one a match takes.
Variant(pairs, id) ==
  pairs[CHOOSE k \in DOMAIN pairs :
          pairs[k].id = id /\ \A j \in 1 .. k - 1 : pairs[j].id # id].typ

WellSized(mem, c, typ) ==
  IF typ = "byte" THEN c.size = 1
  ELSE LET d == DefOf(typ) IN
    CASE d.kind = "option" -> TRUE
      [] d.kind = "union" ->
           c.size >= NumSize /\ HasVariant(d.pairs, WordAt(mem, c.off))
      [] d.kind \in {"array", "struct"} -> c.size = FixedSize(typ)
      [] d.kind = "fixvec" ->
           /\ c.size >= NumSize
           /\ c.size = NumSize + FixedSize(d.item) * WordAt(mem, c.off)
      [] d.kind = "dynvec" ->
           \/ c.size = NumSize /\ WordAt(mem, c.off) = NumSize
           \/ Framed(mem, c)
      [] d.kind = "table" -> Framed(mem, c) /\ Items(mem, c) = Len(d.fields)

\* The values directly inside a well-sized value, with their types.
Parts(mem, c, typ) ==
  LET d == DefOf(typ)
      part(o, n, t) == [cur |-> [off |-> c.off + o, size |-> n], typ |-> t]
      step == FixedSize(d.item)
      slice(k, t) ==
        LET n == Items(mem, c)
        IN  part(OffsetAt(mem, c, k - 1, n),
                 OffsetAt(mem, c, k, n) - OffsetAt(mem, c, k - 1, n), t)
  IN IF typ = "byte" THEN <<>>
     ELSE CASE d.kind = "option" ->
                 IF c.size = 0 THEN <<>> ELSE <<part(0, c.size, d.item)>>
            [] d.kind = "union" ->
                 <<part(NumSize, c.size - NumSize, Variant(d.pairs, WordAt(mem, c.off)))>>
            [] d.kind = "array" ->
                 [k \in 1 .. d.count |-> part((k - 1) * step, step, d.item)]
            [] d.kind = "struct" ->
                 [k \in DOMAIN d.fields |->
                    part(Added([j \in 1 .. k - 1 |-> FixedSize(d.fields[j])]),
                         FixedSize(d.fields[k]), d.fields[k])]
            [] d.kind = "fixvec" ->
                 [k \in 1 .. WordAt(mem, c.off) |->
                    part(NumSize + (k - 1) * step, step, d.item)]
            [] d.kind = "dynvec" ->
                 IF c.size = NumSize THEN <<>>
                 ELSE [k \in 1 .. Items(mem, c) |-> slice(k, d.item)]
            [] d.kind = "table" -> [k \in DOMAIN d.fields |-> slice(k, d.fields[k])]

\* A slice together with the type it is read as, and the ones inside it.
TypedWindow == [cur : Cursor, typ : TypeNames]

Kids(mem, w) ==
  LET parts == Parts(mem, w.cur, w.typ) IN {parts[k] : k \in DOMAIN parts}

\* Reader::verify(slice, compatible = false).
Verify(mem, c, typ) ==
  LET ok[w \in TypedWindow] ==
        /\ WellSized(mem, w.cur, w.typ)
        /\ \A p \in Kids(mem, w) : p \in TypedWindow /\ ok[p]
  IN  ok[[cur |-> c, typ |-> typ]]
=============================================================================
