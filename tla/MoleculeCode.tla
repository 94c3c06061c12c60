----------------------------- MODULE MoleculeCode -----------------------------
(***************************************************************************)
(* The generated entities in use.  The machine takes bytes from outside or *)
(* from a builder and uses the entity made of them: it reads parts,        *)
(* replaces them and rebuilds.                                             *)
(***************************************************************************)
EXTENDS GeneratedCode

CONSTANTS
  Schemas,   \* Schemas[c]: the declarations of the crate's .mol file
  Inputs,    \* [typ, slice]: bytes from outside and the type they claim
  Values(_), \* entities of a type that a caller puts into others
  MaxEdits   \* bound on the changes made to one entity

VARIABLES
  typ,       \* type of the entity in use, [crate, name]
  slice,     \* its bytes
  state,     \* how these bytes came to be trusted, or what went wrong
  edits      \* changes made so far

vars == <<typ, slice, state, edits>>

States == {"raw", "strict", "compatible", "refused", "incompatible", "panic"}

Rules(crate) == INSTANCE MoleculeRules WITH Defs <- Schemas[crate]
-----------------------------------------------------------------------------
Init ==
  /\ \E in \in Inputs : typ = in.typ /\ slice = in.slice
  /\ state = "raw"
  /\ edits = 0

Judge(compatible, accepted, rejected) ==
  /\ state = "raw"
  /\ LET verdict == Verify(typ, slice, compatible)
     IN  state' = CASE verdict = {TRUE} -> accepted
                    [] verdict = {FALSE} -> rejected
                    [] OTHER -> "panic"
  /\ UNCHANGED <<typ, slice, edits>>

\* T::from_slice, T::from_compatible_slice
FromSlice == Judge(FALSE, "strict", "refused")
FromCompatibleSlice == Judge(TRUE, "compatible", "incompatible")

\* T::default(), and T::new_builder().build(), instead of the bytes.
TakeDefault ==
  /\ state = "raw"
  /\ slice' \in {Default(typ), Build(typ, NewBuilder(typ))}
  /\ state' = "strict"
  /\ UNCHANGED <<typ, edits>>

InUse == state \in {"strict", "compatible"} /\ typ.name # "byte"

\* An accessor of the entity or of its reader; the caller goes on with the
\* entity it returns.
Get(k) ==
  /\ InUse
  /\ \E copy \in {Generated(typ).entity, Generated(typ).reader} :
     LET part == Parts(copy, slice)[k] IN
     IF part.slices = {} THEN state' = "panic" /\ UNCHANGED <<typ, slice>>
     ELSE /\ slice' \in part.slices
          /\ typ' = Named(typ, part.typ)
          /\ UNCHANGED state
  /\ UNCHANGED edits

\* entity.as_builder(), a change to what it holds, build().
Change(kinds, Edited(_)) ==
  /\ InUse /\ Generated(typ).builder.kind \in kinds
  /\ edits < MaxEdits /\ edits' = edits + 1
  /\ IF AsBuilder(typ, slice) = {} THEN state' = "panic" /\ UNCHANGED slice
     ELSE /\ \E held \in AsBuilder(typ, slice) : slice' = Build(typ, Edited(held))
          /\ UNCHANGED state
  /\ UNCHANGED typ

Rebuild ==
  Change({"array", "struct", "table", "fixvec", "dynvec", "union"}, LAMBDA held : held)

\* The setter of field k, nth, or replace of a vector.
SetPart(k, v) ==
  Change({"array", "struct", "table", "fixvec", "dynvec"},
         LAMBDA held : [held EXCEPT ![k].slice = v])

Push(v) ==
  Change({"fixvec", "dynvec"},
         LAMBDA held : Append(held, Held(Generated(typ).builder.item, v)))

SetItem(type, v) == Change({"union"}, LAMBDA held : <<Held(type, v)>>)

PartTypes(k) == Named(typ, Parts(Generated(typ).entity, slice)[k].typ)

Next ==
  \/ FromSlice \/ FromCompatibleSlice \/ TakeDefault \/ Rebuild
  \/ InUse /\ \E k \in DOMAIN Parts(Generated(typ).entity, slice) :
       \/ Get(k)
       \/ \E v \in Values(PartTypes(k)) : SetPart(k, v)
  \/ InUse /\ Generated(typ).builder.kind \in {"fixvec", "dynvec"}
       /\ \E v \in Values(Named(typ, Generated(typ).builder.item)) : Push(v)
  \/ InUse /\ Generated(typ).builder.kind = "union"
       /\ \E type \in Range(Generated(typ).builder.items) :
            \E v \in Values(Named(typ, type)) : SetItem(type, v)

Spec == Init /\ [][Next]_vars
-----------------------------------------------------------------------------
CodeTypeOK ==
  /\ typ.crate \in DOMAIN Code
  /\ typ.name \in DOMAIN Code[typ.crate] \cup {"byte"}
  /\ slice \in Seq(Byte)
  /\ state \in States
  /\ edits \in 0 .. MaxEdits

(***************************************************************************)
(* No bytes make a reader panic, and an entity that was verified, in       *)
(* either mode, can be read and rebuilt to any depth without a panic.      *)
(***************************************************************************)
NeverPanics == state # "panic"

(***************************************************************************)
(* Trust is inherited: what an accessor returns, a setter, a push or a     *)
(* rebuild leaves, and what a default is, passes the verification its      *)
(* origin passed.  In particular the last field of a table ends where the  *)
(* first field of a newer schema begins.                                   *)
(***************************************************************************)
HeldVerifies ==
  state \in {"strict", "compatible"} => Verify(typ, slice, state = "compatible") = {TRUE}

\* The bytes are a value of the type by the rules of the .mol file.
InSchema(t, d) ==
  Rules(t.crate)!Verify(d, [off |-> 0, size |-> Len(d)], t.name)

(***************************************************************************)
(* The checked in code implements the checked in schema: from_slice        *)
(* accepts exactly the values of the .mol file, and what is accepted       *)
(* strictly is accepted compatibly.                                        *)
(***************************************************************************)
FollowsSchema ==
  /\ state = "strict" => InSchema(typ, slice)
  /\ state \in {"refused", "incompatible"} => ~InSchema(typ, slice)

\* as_builder().build() at every depth.
RECURSIVE Normal(_, _)
Normal(t, d) ==
  IF t.name = "byte" THEN d
  ELSE LET held == CHOOSE h \in AsBuilder(t, d) : TRUE
       IN  Build(t, [k \in DOMAIN held |->
                       Held(held[k].typ, Normal(Named(t, held[k].typ), held[k].slice))])

(***************************************************************************)
(* A value has one encoding: bytes accepted strictly are what the builders *)
(* write for the parts the accessors find in them.  Bytes accepted         *)
(* compatibly are such an encoding plus fields this schema does not know.  *)
(***************************************************************************)
OneEncoding ==
  /\ state = "strict" => Normal(typ, slice) = slice
  /\ state = "compatible" => InSchema(typ, Normal(typ, slice))

\* A new builder holds what DEFAULT_VALUE, a literal of its own, spells out.
DefaultsAgree == typ.name # "byte" => Build(typ, NewBuilder(typ)) = Default(typ)

\* build() reserves exactly the bytes that write() appends.
LengthsExpected ==
  InUse => \A held \in AsBuilder(typ, slice) :
             Len(Build(typ, held)) = ExpectedLength(typ, held)

(***************************************************************************)
(* A setter changes the part it names and no other; a rebuild keeps every  *)
(* part, and the whole value unless it drops fields of a newer schema.     *)
(***************************************************************************)
EditsAreLocal ==
  [][edits' > edits =>
       /\ Rebuild => /\ AsBuilder(typ, slice') = AsBuilder(typ, slice)
                     /\ state = "strict" => slice' = slice
       /\ \A k \in DOMAIN Parts(Generated(typ).entity, slice) :
            \A v \in Values(PartTypes(k)) :
              SetPart(k, v) =>
                AsBuilder(typ, slice') =
                  {[held EXCEPT ![k].slice = v] : held \in AsBuilder(typ, slice)}]_vars
=============================================================================
