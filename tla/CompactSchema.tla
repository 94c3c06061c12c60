----------------------------- MODULE CompactSchema -----------------------------
(***************************************************************************)
(* The compacter with the bytes it writes and the visitor's view of them.  *)
(***************************************************************************)
EXTENDS Compacter, PackedSchema

\* std::fs::write: the bytes of the output file.
Output == build_compact_definitions(EXPECTED_SYNTAX_VERSION, args.top, packed)

(***************************************************************************)
(* What is written is a molecule value of type Definitions, and the        *)
(* visitor's accessors find in it the declarations that were chosen, with  *)
(* nothing mixed up on the way through two languages' generated code: the  *)
(* kind, the names, the ids and the counts that mdp_visit goes by.         *)
(***************************************************************************)
PackedReadsBack ==
  pc = "done" =>
    /\ Verify(Ours("Definitions"), Output, FALSE) = {TRUE}
    /\ ReadSchema(Output) =
         {[definitions |-> [k \in DOMAIN packed |-> Meant(packed[k])],
           top |-> Text[args.top], version |-> EXPECTED_SYNTAX_VERSION]}
=============================================================================
