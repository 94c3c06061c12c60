---------------------------- MODULE GeneratedCode ----------------------------
(***************************************************************************)
(* The Rust code generated for the molecule types in                       *)
(* crates/*/src/schemas/*.rs: entities, readers and builders.  The code of *)
(* a type is written out three times there, once per role; `Code` holds    *)
(* what each copy says (DefinitionsCode, MiscCode, SporeCode) and the      *)
(* operators below say what a copy does with it.                           *)
(*                                                                         *)
(* Code that may panic is an operator that returns a set: empty when it    *)
(* panics, a singleton otherwise.                                          *)
(***************************************************************************)
EXTENDS Mol2Cursor, GeneratedTypes, FiniteSetsExt

CONSTANT Code  \* Code[c][n]: the generated code of type n in crate c

Generated(t) == Code[t.crate][t.name]
Named(t, name) == [crate |-> t.crate, name |-> name]

INSTANCE MoleculePack
-----------------------------------------------------------------------------
(* Slices and numbers. *)

\* &d[from..to]
Slice(d, from, to) ==
  IF from <= to /\ to <= Len(d) THEN {SubSeq(d, from + 1, to)} ELSE {}

\* molecule::unpack_number(&d[o..])
Number(d, o) == IF HasWord(d, o) THEN {WordAt(d, o)} ELSE {}

\* field_count of a table, item_count of a dynvec.
FieldCount(d) ==
  UNION {IF total = NumSize THEN {0} ELSE {n \div NumSize - 1 : n \in Number(d, NumSize)} :
           total \in Number(d, 0)}

Offset(d, k) == Number(d, NumSize * k)

SliceFrom(d, starts, ends) == UNION {Slice(d, s, e) : s \in starts, e \in ends}
-----------------------------------------------------------------------------
(* Accessors: what an entity, or the reader it borrows, finds in its bytes. *)

FieldEndOpen(d, k, n) == IF k < n THEN Offset(d, k + 1) ELSE {Len(d)}

\* The end of field k of n: the next offset, or the end of the bytes.
FieldEnd(d, k, n) ==
  UNION {IF k < n \/ count # n THEN Offset(d, k + 1) ELSE {Len(d)} : count \in FieldCount(d)}

\* get_unchecked(k - 1) of a dynvec with n items.
ItemEnd(d, k, n) == IF k = n THEN {Len(d)} ELSE Offset(d, k + 1)

Part(type, slices) == [typ |-> type, slices |-> slices]
Panics == <<Part("byte", {})>>

Parts(copy, d) ==
  CASE copy.kind = "array" ->
         [k \in 1 .. copy.count |->
            Part(copy.item, Slice(d, (k - 1) * copy.size, k * copy.size))]
    [] copy.kind = "struct" ->
         [k \in DOMAIN copy.fields |->
            Part(copy.fields[k].typ, Slice(d, copy.fields[k].from, copy.fields[k].to))]
    [] copy.kind = "table" ->
         [k \in DOMAIN copy.fields |->
            Part(copy.fields[k].typ,
                 SliceFrom(d, Offset(d, k), FieldEnd(d, k, Len(copy.fields))))]
    [] copy.kind = "union" ->
         IF \E id \in Number(d, 0) : id < Len(copy.items)
         THEN <<Part(copy.items[WordAt(d, 0) + 1], Slice(d, NumSize, Len(d)))>>
         ELSE Panics
    [] copy.kind = "fixvec" ->
         IF Number(d, 0) = {} THEN Panics
         ELSE [k \in 1 .. WordAt(d, 0) |->
                 Part(copy.item, Slice(d, NumSize + (k - 1) * copy.size,
                                          NumSize + k * copy.size))]
    [] copy.kind = "dynvec" ->
         IF FieldCount(d) = {} THEN Panics
         ELSE LET n == CHOOSE c \in FieldCount(d) : TRUE
              IN  [k \in 1 .. n |->
                     Part(copy.item, SliceFrom(d, Offset(d, k), ItemEnd(d, k, n)))]
-----------------------------------------------------------------------------
(* Reader::verify. *)

OffsetsAscendUnchecked(d, first) == TRUE

OffsetsAscend(d, first) ==
  LET offsets == [k \in 1 .. first \div NumSize |->
                    IF k < first \div NumSize THEN WordAt(d, NumSize * k) ELSE Len(d)]
  IN  \A k \in 1 .. Len(offsets) - 1 : offsets[k] <= offsets[k + 1]

\* The header of a table or of a dynvec that is not empty.
HeaderHolds(d) ==
  /\ Len(d) >= 2 * NumSize
  /\ WordAt(d, NumSize) % NumSize = 0
  /\ WordAt(d, NumSize) >= 2 * NumSize
  /\ Len(d) >= WordAt(d, NumSize)
  /\ OffsetsAscend(d, WordAt(d, NumSize))

CountHoldsAtLeast(count, declared, compatible) == count >= declared

CountHolds(count, declared, compatible) ==
  count >= declared /\ (compatible \/ count <= declared)

ItemsFillAtMost(d, size) == Len(d) >= NumSize + size * WordAt(d, 0)

\* The length of a fixvec follows from its item count.
ItemsFill(d, size) == Len(d) = NumSize + size * WordAt(d, 0)

ShapeHolds(reader, d, compatible) ==
  CASE reader.kind = "array" -> Len(d) = reader.size * reader.count
    [] reader.kind = "struct" -> Len(d) = reader.total
    [] reader.kind = "union" ->
         Len(d) >= NumSize /\ WordAt(d, 0) < Len(reader.items)
    [] reader.kind = "fixvec" ->
         Len(d) >= NumSize /\ ItemsFill(d, reader.size)
    [] reader.kind = "dynvec" ->
         /\ Len(d) >= NumSize /\ WordAt(d, 0) = Len(d)
         /\ Len(d) = NumSize \/ HeaderHolds(d)
    [] reader.kind = "table" ->
         /\ Len(d) >= NumSize /\ WordAt(d, 0) = Len(d)
         /\ HeaderHolds(d)
         /\ CountHolds(WordAt(d, NumSize) \div NumSize - 1, Len(reader.fields), compatible)

\* The slices verify goes down to.  Values of a fixed size have none, and
\* verify computes its own offsets.
Inner(reader, d) ==
  LET n == WordAt(d, NumSize) \div NumSize - 1
      between(k) == SliceFrom(d, Offset(d, k), ItemEnd(d, k, n))
  IN CASE reader.kind = "union" -> Parts(reader, d)
       [] reader.kind = "table" ->
            [k \in DOMAIN reader.fields |-> Part(reader.fields[k].typ, between(k))]
       [] reader.kind = "dynvec" ->
            IF Len(d) = NumSize THEN <<>>
            ELSE [k \in 1 .. n |-> Part(reader.item, between(k))]
       [] OTHER -> <<>>

\* Calls joined by `?`: the first that is not Ok decides.
Sequentially(results) ==
  LET stops == {k \in DOMAIN results : results[k] # {TRUE}}
  IN  IF stops = {} THEN {TRUE} ELSE results[Min(stops)]

RECURSIVE Verify(_, _, _)
Verify(t, d, compatible) ==
  IF t.name = "byte" THEN {Len(d) = 1}
  ELSE LET reader == Generated(t).reader IN
       IF ~ShapeHolds(reader, d, compatible) THEN {FALSE}
       ELSE LET inner == Inner(reader, d)
            IN  Sequentially([k \in DOMAIN inner |->
                  UNION {Verify(Named(t, inner[k].typ), s, compatible) : s \in inner[k].slices}])
-----------------------------------------------------------------------------
(* Builders: what is held while a value is put together. *)

Held(type, d) == [typ |-> type, slice |-> d]
Slices(held) == [k \in DOMAIN held |-> held[k].slice]

DefaultZeroed(t) ==
  IF t.name = "byte" THEN <<0>> ELSE Zeros(Len(Generated(t).default))

\* T::default()
Default(t) == IF t.name = "byte" THEN <<0>> ELSE Generated(t).default

\* T::new_builder()
NewBuilder(t) ==
  LET builder == Generated(t).builder
      fresh(type) == Held(type, Default(Named(t, type)))
  IN CASE builder.kind = "array" -> [k \in 1 .. builder.count |-> fresh(builder.item)]
       [] builder.kind \in {"struct", "table"} ->
            [k \in DOMAIN builder.fields |-> fresh(builder.fields[k].typ)]
       [] builder.kind = "union" -> <<fresh(builder.default)>>
       [] OTHER -> <<>>

\* The accessors as_builder calls, in the builder's order.
Taken(t, d) ==
  LET entity == Generated(t).entity
      builder == Generated(t).builder
      parts == Parts(entity, d)
      called(name) == CHOOSE k \in DOMAIN entity.fields : entity.fields[k].name = name
  IN  IF builder.kind \in {"struct", "table"}
      THEN [k \in DOMAIN builder.fields |-> parts[called(builder.fields[k].name)]]
      ELSE parts

AsBuilderShort(t, d) ==
  LET taken == Taken(t, d)
      last == IF Generated(t).builder.kind = "dynvec" THEN Len(taken) - 1 ELSE Len(taken)
  IN  IF \E k \in DOMAIN taken : taken[k].slices = {} THEN {}
      ELSE {[k \in 1 .. last |-> Held(taken[k].typ, CHOOSE s \in taken[k].slices : TRUE)]}

\* entity.as_builder()
AsBuilder(t, d) ==
  LET taken == Taken(t, d) IN
  IF \E k \in DOMAIN taken : taken[k].slices = {} THEN {}
  ELSE {[k \in DOMAIN taken |-> Held(taken[k].typ, CHOOSE s \in taken[k].slices : TRUE)]}

ItemId(builder, type) == (CHOOSE k \in DOMAIN builder.items : builder.items[k] = type) - 1

\* builder.build()
Build(t, held) ==
  LET builder == Generated(t).builder
      pack == Slices(held)
  IN CASE builder.kind \in {"array", "struct"} -> FlattenSeq(pack)
       [] builder.kind = "table" -> PackTable(pack)
       [] builder.kind = "fixvec" -> PackFixvec(pack)
       [] builder.kind = "dynvec" -> PackDynvec(pack)
       [] builder.kind = "union" ->
            PackUnion(ItemId(builder, held[1].typ), held[1].slice)

ExpectedLengthBare(t, held) == Added([k \in DOMAIN held |-> Len(held[k].slice)])

ExpectedLength(t, held) ==
  LET builder == Generated(t).builder
      content == Added([k \in DOMAIN held |-> Len(held[k].slice)])
  IN CASE builder.kind = "array" -> builder.size * builder.count
       [] builder.kind = "struct" -> builder.total
       [] builder.kind = "table" -> NumSize * (Len(builder.fields) + 1) + content
       [] builder.kind = "fixvec" -> NumSize + builder.size * Len(held)
       [] builder.kind = "dynvec" -> NumSize * (Len(held) + 1) + content
       [] builder.kind = "union" -> NumSize + content
=============================================================================
