------------------------------ MODULE Visitor -------------------------------
(***************************************************************************)
(* mdp_visit of clib/molecule-dynamic-visitor.h: a recursive walk over a   *)
(* piece of molecule-encoded data, driven by a schema found at run time,   *)
(* that hands the text it produces to a feeder supplied by the caller.     *)
(*                                                                         *)
(* The C recursion is a stack of frames, one per visitor function that is  *)
(* waiting for the _mdp_visit_subtype call it made.  `pc` says what runs:  *)
(*   "start"  mdp_visit is entered                                         *)
(*   "call"   _mdp_visit_subtype is called with `arg`                      *)
(*   "loop"   the top frame is at the head of its item loop                *)
(*   "ret"    a visitor function returned to the top frame, or to          *)
(*            mdp_visit when the stack is empty                            *)
(*   "done"   mdp_visit returned                                           *)
(*   "panic"  MOL2_PANIC or a trap ended the process                       *)
(* Every return value of a visitor equals inner->last_error, so the model  *)
(* has one variable for both.  The text itself is abstracted to the data   *)
(* bytes it renders: `shown` is the sequence of their offsets.             *)
(*                                                                         *)
(* The schema is one the compacter packed, read through the accessors of   *)
(* mol2_definitions.h without an error, and the data cursor covers the     *)
(* whole of a memory source of its own, as in test_main.c.                 *)
(***************************************************************************)
EXTENDS Utf8Check, Schema

CONSTANTS
  Inputs,        \* the calls of mdp_visit: records of the set Input below
  Byte32Len,     \* 32: the length of a Byte32 and of a script's code hash
  Uint64Len      \* 8: the length of a Uint64

Input == [top : STRING,           \* top_level_type of the schema
          version : Nat,          \* syntax_version of the schema
          hrp : {"plain", "upper", "bad"},  \* first odd character of context.hrp
          data : Seq(Byte)]       \* the block context.data covers

ASSUME VisitorAssumption ==
  /\ Defs \in Seq(Definition)
  /\ Inputs \subseteq Input
  /\ \A in \in Inputs : Len(in.data) < WordMod   \* total_size is a uint32_t
  /\ Byte32Len \in Nat \ {0} /\ Uint64Len \in Nat \ {0}

VARIABLES
  input,         \* the mdp_context and the top-level fields of its schema
  pc,
  arg,           \* value and sub_type_name of the running _mdp_visit_subtype
  stack,         \* frames of the suspended visitors, innermost first
  consumed,      \* *consumed_size as the last visitor that returned left it
  last_error,    \* inner->last_error
  indent,        \* inner->indent_levels
  refused,       \* history: some call of the feeder returned non-zero
  shown          \* history: offsets of the data bytes rendered so far

vars == <<input, pc, arg, stack, consumed, last_error, indent, refused, shown>>

Errors == {"MOLECULE_ENCODING", "FEEDER", "MOL2_IO", "SCHEMA_ENCODING", "BECH32M"}

(***************************************************************************)
(* A suspended visitor: the index of its definition, its value cursor, and *)
(* the locals of its loop.  `used` is total_consumed, `full` is full_size  *)
(* (dynvec and table), `sub` is value2.size of the call under way, and     *)
(* `entry` remembers indent_levels when the visitor was called; no step    *)
(* reads `entry`.                                                          *)
(***************************************************************************)
Frame == [def : DOMAIN Defs, value : Cursor, i : Nat, count : Nat,
          used : Nat, full : Nat, sub : Nat, entry : Nat]

Top == Head(stack)
Kind(f) == Defs[f.def].kind

\* struct and table indent their fields once more than other items.
FieldKinds == {"struct", "table"}
OffsetKinds == {"dynvec", "table"}    \* items found through header offsets
-----------------------------------------------------------------------------
\* _mdp_visit_subtype: the first definition of that name, 0 if there is none.
FirstNamed(k, typ) ==
  Defs[k].name = typ /\ \A j \in 1 .. k - 1 : Defs[j].name # typ

DefIndex(typ) ==
  IF \E k \in DOMAIN Defs : FirstNamed(k, typ)
  THEN CHOOSE k \in DOMAIN Defs : FirstNamed(k, typ)
  ELSE 0

Callee == Defs[DefIndex(arg.typ)]

VisitingAfterError(kind) ==
  /\ pc = "call"
  /\ arg.typ # "byte" /\ DefIndex(arg.typ) # 0 /\ Callee.kind = kind

Visiting(kind) ==
  /\ pc = "call" /\ last_error = "OK"
  /\ arg.typ # "byte" /\ DefIndex(arg.typ) # 0 /\ Callee.kind = kind

\* Some _mdp_send_* call of the step is refused by the feeder.  The helpers
\* send nothing once last_error is set.
Sends(fail) ==
  /\ fail \in BOOLEAN
  /\ fail => last_error = "OK"
  /\ refused' = (refused \/ fail)

SendsNothing == UNCHANGED refused

AfterIgnored(fail) == last_error

After(fail) == IF fail THEN "FEEDER" ELSE last_error

\* MDP_RETURN_ERROR(e) in a visitor that never entered its loop; indent_levels
\* may already have been raised by `up`.
Reject(e, up) ==
  /\ pc' = "ret" /\ last_error' = e /\ indent' = indent + up
  /\ UNCHANGED <<input, arg, stack, consumed, shown>>

\* The visitor returns inner->last_error after consuming n bytes and rendering
\* the data bytes at `offsets`; when a send of the step is refused, the feeder
\* may have been given only some of them.
Accept(fail, n, offsets) ==
  /\ pc' = "ret" /\ last_error' = After(fail)
  /\ consumed' = n /\ shown' = shown \o offsets
  /\ UNCHANGED <<input, arg, stack, indent>>

Panic(fail) ==
  /\ pc' = "panic" /\ last_error' = After(fail)
  /\ UNCHANGED <<input, arg, stack, consumed, indent, shown>>

\* The visitor of `arg` enters its item loop.
Enter(fail, count, used, full) ==
  /\ pc' = "loop" /\ last_error' = After(fail) /\ indent' = indent + 1
  /\ stack' = <<[def |-> DefIndex(arg.typ), value |-> arg.value, i |-> 0,
                 count |-> count, used |-> used, full |-> full, sub |-> 0,
                 entry |-> indent]>> \o stack
  /\ UNCHANGED <<input, arg, consumed, shown>>

\* The visitor of `arg` makes its only call, on the value behind `used` bytes.
Descend(fail, used, typ) ==
  /\ pc' = "call" /\ last_error' = After(fail) /\ indent' = indent + 1
  /\ arg' = [value |-> Advance(arg.value, used), typ |-> typ]
  /\ stack' = <<[def |-> DefIndex(arg.typ), value |-> arg.value, i |-> 0,
                 count |-> 1, used |-> used, full |-> 0,
                 sub |-> arg.value.size - used, entry |-> indent]>> \o stack
  /\ UNCHANGED <<input, consumed, shown>>
-----------------------------------------------------------------------------
Init ==
  /\ input \in Inputs
  /\ pc = "start"
  /\ arg = [value |-> [off |-> 0, size |-> Len(input.data)], typ |-> input.top]
  /\ stack = <<>> /\ consumed = 0 /\ last_error = "OK" /\ indent = 0
  /\ refused = FALSE /\ shown = <<>>

\* mdp_visit up to its call of _mdp_visit_subtype.
Start ==
  /\ pc = "start"
  /\ \/ /\ input.version # 1
        /\ pc' = "done" /\ last_error' = "SCHEMA_ENCODING"
     \/ /\ input.version = 1
        /\ pc' = "call" /\ UNCHANGED last_error
  /\ UNCHANGED <<input, arg, stack, consumed, indent, refused, shown>>

\* The guard every visitor starts with: nothing is done after an error.
VisitAfterError ==
  /\ pc = "call" /\ last_error # "OK"
  /\ Reject(last_error, 0) /\ SendsNothing

VisitUnknownType ==
  /\ pc = "call" /\ last_error = "OK"
  /\ arg.typ # "byte" /\ DefIndex(arg.typ) = 0
  /\ Reject("SCHEMA_ENCODING", 0) /\ SendsNothing

VisitByte ==
  /\ pc = "call" /\ last_error = "OK" /\ arg.typ = "byte"
  /\ \E fail \in BOOLEAN :
       /\ Sends(fail)
       /\ \/ arg.value.size = 0 /\ Reject("MOL2_IO", 0)
          \/ arg.value.size > 0 /\ Accept(fail, 1, <<arg.value.off>>)

VisitOption ==
  /\ Visiting("option")
  /\ \E fail \in BOOLEAN :
       /\ Sends(fail)
       /\ \/ arg.value.size > 0 /\ Descend(fail, 0, Callee.item)      \* Some
          \/ arg.value.size = 0 /\ Accept(fail, 0, <<>>)              \* None
-----------------------------------------------------------------------------
\* _mdp_find_union: the first variant with this id, 0 if there is none.
FirstVariant(k, pairs, id) ==
  pairs[k].id = id /\ \A j \in 1 .. k - 1 : pairs[j].id # id

VariantIndex(pairs, id) ==
  IF \E k \in DOMAIN pairs : FirstVariant(k, pairs, id)
  THEN CHOOSE k \in DOMAIN pairs : FirstVariant(k, pairs, id)
  ELSE 0

UnionId(value) == WordAt(input.data, value.off)

UnionKnown(value) ==
  value.size >= NumSize /\ VariantIndex(Callee.pairs, UnionId(value)) # 0

VisitUnion ==
  /\ Visiting("union")
  /\ \/ /\ ~UnionKnown(arg.value)
        /\ Reject("MOLECULE_ENCODING", 0) /\ SendsNothing
     \/ /\ UnionKnown(arg.value) /\ Callee.name # "Address"
        /\ \E fail \in BOOLEAN :
             /\ Sends(fail)
             /\ Descend(fail, NumSize,
                        Callee.pairs[VariantIndex(Callee.pairs,
                                                  UnionId(arg.value))].typ)

\* The Script table an Address holds, and its three fields: each a set, empty
\* when reading the field panics.
Script == Advance(arg.value, NumSize)
ScriptField(k) == TableSlice(input.data, Script, k)

IsArgsUnsized(code, hash, c) ==
  c.size >= NumSize /\ c.size = (WordAt(input.data, c.off) + NumSize) % WordMod

IsArgsBare(code, hash, c) ==
  /\ c.size >= NumSize /\ c.size = WordAt(input.data, c.off)
  /\ (code.size + hash.size + c.size + 4 * NumSize) % WordMod
       = WordAt(input.data, Script.off)

IsCodeHash(c) == c.size = Byte32Len
IsHashType(c) == c.size = 1
IsArgs(code, hash, c) ==
  /\ c.size >= NumSize
  /\ c.size = (WordAt(input.data, c.off) + NumSize) % WordMod
  /\ (code.size + hash.size + c.size + 4 * NumSize) % WordMod
       = WordAt(input.data, Script.off)

\* Some field is read, and refused, before any read panics.
ScriptRefused ==
  \E code \in ScriptField(0) :
    \/ ~IsCodeHash(code)
    \/ \E hash \in ScriptField(1) :
         \/ ~IsHashType(hash)
         \/ \E c \in ScriptField(2) : ~IsArgs(code, hash, c)

\* A field cannot be read, and nothing was refused before.
ScriptPanics ==
  \/ ScriptField(0) = {}
  \/ \E code \in ScriptField(0) :
       /\ IsCodeHash(code)
       /\ \/ ScriptField(1) = {}
          \/ \E hash \in ScriptField(1) : IsHashType(hash) /\ ScriptField(2) = {}

\* bech32m_encode hands its characters straight to the feeder, whatever
\* last_error is.  An upper-case hrp ends it at once with 0, a character that
\* is not printable with 1.
EncodeAddress(fail, offsets) ==
  LET size == (WordAt(input.data, Script.off) + NumSize) % WordMod
  IN \/ /\ input.hrp = "plain"
        /\ Accept(fail, size, offsets) /\ Sends(fail)
     \/ /\ input.hrp = "plain"
        /\ Reject("BECH32M", 0) /\ refused' = TRUE
     \/ /\ input.hrp = "upper"
        /\ Accept(fail, size, <<>>) /\ Sends(fail)
     \/ /\ input.hrp = "bad"
        /\ Reject("BECH32M", 0) /\ Sends(fail)

\* The Address branch of _mdp_visit_union.
VisitAddress ==
  /\ Visiting("union") /\ UnionKnown(arg.value) /\ Callee.name = "Address"
  /\ \E fail \in BOOLEAN :
       \/ /\ UnionId(arg.value) # 0 \/ ScriptRefused
          /\ Reject("MOLECULE_ENCODING", 0) /\ Sends(fail)
       \/ /\ UnionId(arg.value) = 0 /\ ScriptPanics
          /\ Panic(fail) /\ Sends(fail)
       \/ /\ UnionId(arg.value) = 0
          /\ \E code \in ScriptField(0), hash \in ScriptField(1),
                c \in ScriptField(2) :
               /\ IsCodeHash(code) /\ IsHashType(hash) /\ IsArgs(code, hash, c)
               /\ EncodeAddress(fail,
                                Offsets(code) \o Offsets(hash) \o Offsets(c))
-----------------------------------------------------------------------------
\* What `size % count` leaves: a division by zero traps or, on RISC-V, leaves
\* the dividend.
Remainder(size, count) == IF count = 0 THEN size ELSE size % count

ArrayAdmits(value) ==
  Callee.count < WordMod /\ Remainder(value.size, Callee.count) = 0

\* The schema declares Byte32 or Uint64 with another length.
BuiltinMismatch(count) ==
  \/ Callee.name = "Byte32" /\ count # Byte32Len
  \/ Callee.name = "Uint64" /\ count # Uint64Len

VisitArray ==
  LET n == Callee.count
      value == arg.value
      bytes == Offsets([off |-> value.off, size |-> n])
  IN /\ Visiting("array")
     /\ \/ /\ ~ArrayAdmits(value)
           /\ Reject("SCHEMA_ENCODING", 0) /\ SendsNothing
        \/ /\ n = 0
           /\ Panic(FALSE) /\ SendsNothing
        \/ /\ ArrayAdmits(value)
           /\ \E fail \in BOOLEAN :
                /\ Sends(fail)
                /\ \/ /\ BuiltinMismatch(n)
                      /\ Reject("SCHEMA_ENCODING", 0)
                   \/ /\ ~BuiltinMismatch(n) /\ Callee.name \in {"Byte32", "Uint64"}
                      /\ \/ value.size < n /\ Reject("MOLECULE_ENCODING", 0)
                         \/ value.size >= n /\ Accept(fail, n, bytes)
                   \/ /\ Callee.name \notin {"Byte32", "Uint64"}
                      /\ \/ /\ Callee.item = "byte" /\ value.size < n
                            /\ Reject("MOLECULE_ENCODING", 1)
                         \/ /\ Callee.item = "byte" /\ value.size >= n
                            /\ Accept(fail, n, bytes)
                         \/ /\ Callee.item # "byte"
                            /\ Enter(fail, n, 0, 0)

VisitStruct ==
  /\ Visiting("struct")
  /\ \E fail \in BOOLEAN :
       Sends(fail) /\ Enter(fail, Len(Callee.fields), 0, 0)
-----------------------------------------------------------------------------
VectorSizeBare(n) == n % WordMod

\* item_count + 4 in 32-bit arithmetic, and the content it stands for.
VectorSize(n) == (n + NumSize) % WordMod
ContentWithHeader(value, n) == [off |-> value.off, size |-> n]

Content(value, n) == [off |-> value.off + NumSize, size |-> n]

\* utf8_check over the content, echoing it to the feeder whatever last_error
\* is.  Whatever stops it is reported as an encoding error.
CheckString(fail, value, n) ==
  LET text == Content(value, n)
      result == Utf8Result(input.data, text)
  IN \/ /\ result = "ok"
        /\ Accept(fail, VectorSize(n), Utf8Echo(input.data, text))
        /\ Sends(fail)
     \/ /\ result = "ok" /\ Reject("MOLECULE_ENCODING", 0) /\ refused' = TRUE
     \/ /\ result = "malformed"
        /\ Reject("MOLECULE_ENCODING", 0)
        /\ Sends(fail) \/ refused' = TRUE
     \/ /\ result = "panic" /\ Panic(fail) /\ Sends(fail)
     \/ /\ result = "panic"       \* refused after the first buffer
        /\ text.off + BufferEnd(text, 0) <= TotalSize(input.data)
        /\ Reject("MOLECULE_ENCODING", 0) /\ refused' = TRUE

VisitFixvec ==
  LET value == arg.value
      n == WordAt(input.data, value.off)
  IN /\ Visiting("fixvec")
     /\ \/ /\ value.size < NumSize
           /\ Reject("MOLECULE_ENCODING", 0) /\ SendsNothing
        \/ /\ value.size >= NumSize
           /\ \E fail \in BOOLEAN :
                \/ /\ Callee.name = "String"
                   /\ \/ /\ Callee.item # "byte"
                         /\ Reject("SCHEMA_ENCODING", 0) /\ Sends(fail)
                      \/ /\ Callee.item = "byte" /\ value.size < VectorSize(n)
                         /\ Reject("MOLECULE_ENCODING", 0) /\ Sends(fail)
                      \/ /\ Callee.item = "byte" /\ value.size >= VectorSize(n)
                         /\ CheckString(fail, value, n)
                \/ /\ Callee.name # "String" /\ Callee.item = "byte"
                   /\ Sends(fail)
                   /\ \/ /\ value.size < VectorSize(n)
                         /\ Reject("MOLECULE_ENCODING", 1)
                      \/ /\ value.size >= VectorSize(n)
                         /\ Validates(input.data, Content(value, n))
                         /\ Accept(fail, VectorSize(n), Offsets(Content(value, n)))
                      \/ /\ value.size >= VectorSize(n)   \* VectorSize wrapped
                         /\ ~Validates(input.data, Content(value, n))
                         /\ \/ Panic(fail)
                            \/ fail /\ Accept(fail, VectorSize(n), <<>>)
                \/ /\ Callee.name # "String" /\ Callee.item # "byte"
                   /\ Sends(fail) /\ Enter(fail, n, NumSize, 0)
-----------------------------------------------------------------------------
FullSize(value) == WordAt(input.data, value.off)
FirstOffset(value) == WordAt(input.data, value.off + NumSize)
ItemCount(value) == FirstOffset(value) \div NumSize - 1

HeaderFitsNoItems(value) ==
  /\ value.size >= NumSize
  /\ FullSize(value) <= value.size /\ FullSize(value) >= 2 * NumSize
  /\ FirstOffset(value) % NumSize = 0 /\ FirstOffset(value) >= 2 * NumSize

\* The header of a non-empty dynvec or of a table.  value.size is what bounds
\* the header; the items are checked one at a time.
HeaderFits(value) ==
  /\ value.size >= NumSize
  /\ FullSize(value) <= value.size
  /\ FullSize(value) >= 2 * NumSize
  /\ FirstOffset(value) % NumSize = 0
  /\ FirstOffset(value) >= 2 * NumSize
  /\ value.size >= FirstOffset(value)

EmptyDynvec(value) == value.size >= NumSize /\ FullSize(value) = NumSize

VisitDynvec ==
  LET value == arg.value
  IN /\ Visiting("dynvec")
     /\ \/ /\ EmptyDynvec(value)            \* returns before it sends anything
           /\ Accept(FALSE, NumSize, <<>>) /\ SendsNothing
        \/ /\ ~EmptyDynvec(value) /\ ~HeaderFits(value)
           /\ Reject("MOLECULE_ENCODING", 0) /\ SendsNothing
        \/ /\ HeaderFits(value)
           /\ \E fail \in BOOLEAN :
                /\ Sends(fail)
                /\ Enter(fail, ItemCount(value), FirstOffset(value), FullSize(value))

TableFits(value) ==
  /\ value.size >= 2 * NumSize
  /\ HeaderFits(value)
  /\ ItemCount(value) = Len(Callee.fields)

VisitTable ==
  LET value == arg.value
  IN /\ Visiting("table")
     /\ \/ /\ ~TableFits(value)
           /\ Reject("MOLECULE_ENCODING", 0) /\ SendsNothing
        \/ /\ TableFits(value)
           /\ \E fail \in BOOLEAN :
                /\ Sends(fail)
                /\ Enter(fail, ItemCount(value), FirstOffset(value), FullSize(value))
-----------------------------------------------------------------------------
\* The end of item i of a dynvec or table, relative to its value.
ItemEnd(f) ==
  IF f.i + 1 < f.count
  THEN WordAt(input.data, f.value.off + NumSize + NumSize * (f.i + 1))
  ELSE f.full

ItemFitsNonEmpty(f) ==
  Kind(f) \in OffsetKinds => ItemEnd(f) \in f.used + 1 .. f.value.size

ItemFitsLow(f) == Kind(f) \in OffsetKinds => ItemEnd(f) >= f.used

ItemFits(f) == Kind(f) \in OffsetKinds => ItemEnd(f) \in f.used .. f.value.size

\* value2.size: the rest of the value, or what the offsets say.
ItemSize(f) == IF Kind(f) \in OffsetKinds THEN ItemEnd(f) - f.used
                                          ELSE f.value.size - f.used

ItemType(f) == IF Kind(f) \in FieldKinds THEN Defs[f.def].fields[f.i + 1]
                                         ELSE Defs[f.def].item

\* indent_levels goes up around the visit of a field, and down after it.
FieldIndent(f) == IF Kind(f) \in FieldKinds THEN 1 ELSE 0

FieldOutdentNone(f) == 0
FieldOutdentTwice(f) == 2 * FieldIndent(f)
FieldOutdent(f) == FieldIndent(f)

\* Loop head: visit item i.  struct and table first send the field's name and
\* indent once more.
NextItem ==
  /\ pc = "loop" /\ Top.i < Top.count /\ ItemFits(Top)
  /\ \E fail \in BOOLEAN :
       /\ Sends(fail)
       /\ fail => Kind(Top) \in FieldKinds
       /\ last_error' = After(fail)
  /\ pc' = "call"
  /\ arg' = [value |-> [off |-> Top.value.off + Top.used, size |-> ItemSize(Top)],
             typ |-> ItemType(Top)]
  /\ stack' = <<[Top EXCEPT !.sub = ItemSize(Top)]>> \o Tail(stack)
  /\ indent' = indent + FieldIndent(Top)
  /\ UNCHANGED <<input, consumed, shown>>

\* The top frame's function returns error e from inside its loop.
Abandon(e) ==
  /\ pc' = "ret" /\ last_error' = e /\ stack' = Tail(stack)
  /\ UNCHANGED <<input, arg, consumed, indent, refused, shown>>

NextItemRefused ==
  /\ pc = "loop" /\ Top.i < Top.count /\ ~ItemFits(Top)
  /\ Abandon("MOLECULE_ENCODING")

Looping == stack # <<>> /\ Kind(Top) \notin {"option", "union"}

\* Sequential items may use less than what is left, items found through
\* offsets exactly their slice.
ItemConsumedAtMost(f) == consumed <= f.sub

ItemConsumed(f) == IF Kind(f) \in OffsetKinds THEN consumed = f.sub
                                              ELSE consumed <= f.sub

\* total_consumed += current_consumed; i++
CountedNot(f) == [f EXCEPT !.used = @ + consumed]
Counted(f) == [f EXCEPT !.i = @ + 1, !.used = @ + consumed]

\* The item's visitor returned.
FinishItem ==
  /\ pc = "ret" /\ Looping
  /\ \/ /\ last_error # "OK"
        /\ Abandon(last_error)
     \/ /\ last_error = "OK" /\ ~ItemConsumed(Top)
        /\ Abandon("MOLECULE_ENCODING")
     \/ /\ last_error = "OK" /\ ItemConsumed(Top)
        /\ \E fail \in BOOLEAN :
             /\ Sends(fail)
             /\ fail => Kind(Top) # "struct"          \* a struct sends nothing
             /\ last_error' = After(fail)
        /\ pc' = "loop"
        /\ stack' = <<Counted(Top)>> \o Tail(stack)
        /\ indent' = indent - FieldOutdent(Top)
        /\ UNCHANGED <<input, arg, consumed, shown>>

\* The loop is over: dynvec and table check that the items fill the value.
FinishLoop ==
  /\ pc = "loop" /\ Top.i >= Top.count
  /\ \/ /\ Kind(Top) \in OffsetKinds /\ Top.used # Top.full
        /\ Abandon("MOLECULE_ENCODING")
     \/ /\ Kind(Top) \in OffsetKinds => Top.used = Top.full
        /\ \E fail \in BOOLEAN :
             /\ Sends(fail)
             /\ fail => Kind(Top) # "struct"
             /\ last_error' = After(fail)
        /\ pc' = "ret" /\ stack' = Tail(stack)
        /\ consumed' = Top.used /\ indent' = indent - 1
        /\ UNCHANGED <<input, arg, shown>>

\* _mdp_visit_option ignores what the call returned.
ReturnOption ==
  /\ pc = "ret" /\ stack # <<>> /\ Kind(Top) = "option"
  /\ stack' = Tail(stack) /\ indent' = indent - 1
  /\ UNCHANGED <<input, pc, arg, consumed, last_error, refused, shown>>

ReturnUnion ==
  /\ pc = "ret" /\ stack # <<>> /\ Kind(Top) = "union"
  /\ \/ last_error # "OK" /\ Abandon(last_error)
     \/ /\ last_error = "OK"
        /\ consumed' = (consumed + NumSize) % WordMod
        /\ stack' = Tail(stack) /\ indent' = indent - 1
        /\ UNCHANGED <<input, pc, arg, last_error, refused, shown>>

\* mdp_visit after the call of _mdp_visit_subtype.
Finish ==
  /\ pc = "ret" /\ stack = <<>>
  /\ pc' = "done"
  /\ \/ last_error # "OK" /\ UNCHANGED <<last_error, refused>>
     \/ /\ last_error = "OK" /\ consumed # Len(input.data)
        /\ last_error' = "MOLECULE_ENCODING" /\ SendsNothing
     \/ /\ last_error = "OK" /\ consumed = Len(input.data)
        /\ \E fail \in BOOLEAN : Sends(fail) /\ last_error' = After(fail)
  /\ UNCHANGED <<input, arg, stack, consumed, indent, shown>>

Terminated == pc \in {"done", "panic"} /\ UNCHANGED vars

Step ==
  \/ Start \/ VisitAfterError \/ VisitUnknownType
  \/ VisitByte \/ VisitOption \/ VisitUnion \/ VisitAddress
  \/ VisitArray \/ VisitStruct \/ VisitFixvec \/ VisitDynvec \/ VisitTable
  \/ NextItem \/ NextItemRefused \/ FinishItem \/ FinishLoop
  \/ ReturnOption \/ ReturnUnion \/ Finish

Next == Step \/ Terminated

Spec == Init /\ [][Next]_vars

\* The walk is one thread that runs until mdp_visit returns.
FairSpec == Spec /\ WF_vars(Step)
-----------------------------------------------------------------------------
TypeOK ==
  /\ input \in Input /\ Len(input.data) < WordMod
  /\ pc \in {"start", "call", "loop", "ret", "done", "panic"}
  /\ arg \in [value : Cursor, typ : STRING]
  /\ stack \in Seq(Frame)
  /\ consumed \in Nat
  /\ last_error \in Errors \cup {"OK"}
  /\ indent \in Nat
  /\ refused \in BOOLEAN

\* A window of the block.
InBlock(c) == c.off + c.size <= TotalSize(input.data)

\* Frame f is suspended in a call on window c.
Encloses(f, c) ==
  /\ c = [off |-> f.value.off + f.used, size |-> f.sub]
  /\ f.used + f.sub <= f.value.size

\* The Address branch slices its script at places behind the block.
ScriptAstray ==
  \/ SlicesAstray(input.data, Script, 0)
  \/ \E code \in ScriptField(0) :
       /\ IsCodeHash(code)
       /\ \/ SlicesAstray(input.data, Script, 1)
          \/ \E hash \in ScriptField(1) :
               IsHashType(hash) /\ SlicesAstray(input.data, Script, 2)

(***************************************************************************)
(* Every window a visitor works on lies inside what its caller has left,   *)
(* and so inside the block: the size checks the visitors make on their own *)
(* window are enough for every header word they read, and no cursor        *)
(* arithmetic overflows (the panics of mol2_add_offset and mol2_sub_size). *)
(* The slices of an address's script are no exception: their header is not *)
(* checked, but whatever it says the reader, which moves to its slots with *)
(* no validation, stays inside when fields 0, 1 and 2 are cut out in turn. *)
(***************************************************************************)
NestedWindows ==
  /\ pc = "call" => InBlock(arg.value)
  /\ pc = "call" /\ stack # <<>> => Encloses(Top, arg.value)
  /\ pc = "loop" => Top.used <= Top.value.size
  /\ \A k \in DOMAIN stack : InBlock(stack[k].value)
  /\ \A k \in DOMAIN stack : k > 1 => Encloses(stack[k], stack[k - 1].value)
  /\ /\ Visiting("union") /\ UnionKnown(arg.value)
     /\ Callee.name = "Address" /\ UnionId(arg.value) = 0
     => ~ScriptAstray

\* How deep frame f indents what it calls, and its own loop.
Raised(f) == IF Kind(f) \in FieldKinds THEN 2 ELSE 1

ExpectedIndent ==
  CASE stack = <<>> -> 0
    [] stack # <<>> /\ pc = "loop" -> Top.entry + 1
    [] OTHER -> Top.entry + Raised(Top)

(***************************************************************************)
(* inner->indent_levels follows the nesting of the text: it is exact as    *)
(* long as no error occurred (so the lines of a finished text are indented *)
(* by their depth and the count is back at 0 in the end), and never falls  *)
(* below the depth, an unsigned wrap-around, when error returns skip the   *)
(* decrements.                                                             *)
(***************************************************************************)
IndentBalanced ==
  /\ pc # "panic" => indent >= ExpectedIndent
  /\ last_error = "OK" /\ pc # "panic" => indent = ExpectedIndent
  /\ \A k \in DOMAIN stack :
       stack[k].entry = IF k = Len(stack) THEN 0
                        ELSE stack[k + 1].entry + Raised(stack[k + 1])

(***************************************************************************)
(* A caller told MDP_OK has the whole text: as long as the visitor runs    *)
(* without an error no call of the feeder was refused, the calls made by   *)
(* the UTF-8 and bech32m encoders past the _mdp_send_* helpers included.   *)
(***************************************************************************)
SuccessMeansFed == last_error = "OK" => ~refused

(***************************************************************************)
(* The first error ends the text.  Once a step has left an error, nothing  *)
(* is handed to the feeder, no visitor is entered, and the error can be    *)
(* replaced by another one but never be lost.  (Within the step that meets *)
(* the error the encoders of String and Address still run to their end.)   *)
(***************************************************************************)
ErrorEndsText ==
  [][last_error # "OK" =>
       /\ last_error' # "OK"
       /\ refused' = refused /\ shown' = shown
       /\ Len(stack') <= Len(stack)]_vars

(***************************************************************************)
(* Data ends the process only at three places: reading the script of an    *)
(* address, a vector of bytes whose item count + 4 is beyond 32 bits, and  *)
(* the division by the length of an array the schema declares empty.       *)
(***************************************************************************)
PanicSites ==
  pc = "panic" =>
    \/ Callee.kind = "union" /\ Callee.name = "Address"
    \/ /\ Callee.kind = "fixvec" /\ Callee.item = "byte"
       /\ WordAt(input.data, arg.value.off) + NumSize >= WordMod
    \/ Callee.kind = "array" /\ Callee.count = 0

(***************************************************************************)
(* "It is always true: offset+size <= total_size" (molecule2_reader.h, on  *)
(* mol2_cursor_t), for the cursor over the content of a vector of bytes    *)
(* whose length check passed.                                              *)
(***************************************************************************)
ContentInBlock ==
  LET n == WordAt(input.data, arg.value.off)
  IN  (/\ Visiting("fixvec") /\ Callee.item = "byte"
       /\ arg.value.size >= NumSize /\ arg.value.size >= VectorSize(n))
        => InBlock(Content(arg.value, n))

\* mdp_visit returns (or the process is ended) for every input: no item loop
\* and no recursion over an acyclic schema goes on for ever.
Terminates == <>(pc \in {"done", "panic"})
=============================================================================
