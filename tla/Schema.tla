------------------------------- MODULE Schema -------------------------------
(***************************************************************************)
(* The definitions of a molecule schema, as the compacter packs them and   *)
(* as the accessors of clib/mol2_definitions.h present them.               *)
(***************************************************************************)
EXTENDS Integers, Sequences

CONSTANT Defs  \* the schema's definitions, in the order they are packed

Kinds == {"option", "union", "array", "struct", "fixvec", "dynvec", "table"}

\* One entry of Definitions.definitions; fields a kind lacks are empty.
Definition == [kind : Kinds, name : STRING,
               item : STRING,                            \* option, array, vectors
               count : Nat,                              \* array
               pairs : Seq([typ : STRING, id : Nat]),    \* union
               fields : Seq(STRING)]                     \* struct, table: types

TypeNames == {"byte"} \cup {Defs[k].name : k \in DOMAIN Defs}
=============================================================================
