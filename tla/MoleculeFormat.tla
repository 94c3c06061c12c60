--------------------------- MODULE MoleculeFormat ---------------------------
(***************************************************************************)
(* What mdp_visit promises, for data judged by the encoding rules of       *)
(* MoleculeRules: which values can be shown, what the text of a value has  *)
(* to contain, and that the visitor accepts and shows exactly that.        *)
(***************************************************************************)
EXTENDS Visitor, MoleculeRules, MolFiles

\* A sequence of bytes is UTF-8: it splits into code sequences.
Utf8(mem, c) ==
  LET from[p \in 0 .. c.size] ==
        \/ p = c.size
        \/ /\ Complete(mem, c, p, c.size) /\ ~Malformed(mem, c, p, c.size)
           /\ from[p + SeqLen(ByteAt(mem, c.off + p))]
  IN  from[0]

\* Strings of a verified value are UTF-8 and its addresses are scripts.
Legible(mem, c, typ) ==
  LET ok[w \in TypedWindow] ==
        /\ w.typ = "String" => Utf8(mem, Content(w.cur, w.cur.size - NumSize))
        /\ w.typ = "Address" => WordAt(mem, w.cur.off) = 0
        /\ \A p \in Kids(mem, w) : p \in TypedWindow /\ ok[p]
  IN  ok[[cur |-> c, typ |-> typ]]

(***************************************************************************)
(* The data bytes the text of a verified value stands for, in order: every *)
(* byte that is not a header.  An address encodes its script's code hash,  *)
(* hash type and args, the args as the packed Bytes they are stored as     *)
(* (the generators' to_address does the same): what is addressed shows its *)
(* parts whole.                                                            *)
(***************************************************************************)
Payload(mem, c, typ) ==
  LET payload[w \in TypedWindow, addressed \in BOOLEAN] ==
        LET bytes(p) == IF addressed THEN Offsets(p.cur)
                        ELSE payload[p, w.typ = "Address"]
        IN  IF w.typ = "byte" THEN Offsets(w.cur)
            ELSE FoldLeft(LAMBDA text, p : text \o bytes(p), <<>>,
                          Parts(mem, w.cur, w.typ))
  IN  payload[[cur |-> c, typ |-> typ], FALSE]
-----------------------------------------------------------------------------
Block(in) == [off |-> 0, size |-> Len(in.data)]

Valid(in) ==
  /\ in.version = 1 /\ in.top \in TypeNames
  /\ Verify(in.data, Block(in), in.top) /\ Legible(in.data, Block(in), in.top)

Shows(in) == Payload(in.data, Block(in), in.top)

Displayable == Valid(input)

-----------------------------------------------------------------------------
(* What Sound needs of the schema and of the data. *)

\* The types a sized type is made of.
Inner(t) ==
  IF t = "byte" THEN {}
  ELSE IF DefOf(t).kind = "array" THEN {DefOf(t).item} ELSE Range(DefOf(t).fields)

\* Arrays, structs and fixvecs hold sized types, and none holds itself: `rank`
\* goes down from a type to its parts.
SizesGrounded(rank) ==
  /\ rank \in [SizedTypes -> 0 .. Len(Defs)]
  /\ \A t \in SizedTypes : \A u \in Inner(t) : u \in SizedTypes /\ rank[u] < rank[t]
  /\ \A k \in DOMAIN Defs : Defs[k].kind = "fixvec" => Defs[k].item \in SizedTypes

\* The builtins the visitor knows by name are those of schemas/builtins.mol.
BuiltinMol ==
  {Array("Byte32", "byte", Byte32Len), Array("Uint64", "byte", Uint64Len),
   Fixvec("Bytes", "byte"), Fixvec("String", "byte"), ScriptMol, AddressMol}

BuiltinsKept ==
  /\ \A k \in DOMAIN Defs, b \in BuiltinMol : Defs[k].name = b.name => Defs[k] = b
  /\ "Address" \in TypeNames => {"Script", "Byte32", "Bytes"} \subseteq TypeNames

\* At o stands a table that announces more than three fields, three of which
\* have the sizes of a script's: the third ends behind the table.
OverlongScript(mem, o) ==
  LET slot(k) == WordAt(mem, o + NumSize * (k + 1))
  IN  /\ HasWord(mem, o + 4 * NumSize)
      /\ slot(0) >= 5 * NumSize
      /\ slot(1) = slot(0) + Byte32Len /\ slot(2) = slot(1) + 1
      /\ slot(3) - slot(0) + 4 * NumSize = WordAt(mem, o)

Overlong(mem) == \E o \in 0 .. Len(mem) : OverlongScript(mem, o)
-----------------------------------------------------------------------------
(***************************************************************************)
(* Only data that the generated readers accept is shown as valid: mdp_visit *)
(* returns MDP_OK for nothing else.                                        *)
(***************************************************************************)
Sound == pc = "done" /\ last_error = "OK" => Displayable

(***************************************************************************)
(* "this function visits a piece of data generated from the given molecule *)
(* schema, then generates human readable text": every such piece of data,  *)
(* given a feeder that takes everything and a proper hrp, ends in MDP_OK.  *)
(***************************************************************************)
AcceptsValid ==
  pc \in {"done", "panic"} /\ ~refused /\ input.hrp # "bad" /\ Displayable
    => pc = "done" /\ last_error = "OK"

(***************************************************************************)
(* The text of a value shows every payload byte of the value exactly once, *)
(* in the order of the encoding.                                           *)
(***************************************************************************)
ShowsPayload ==
  pc = "done" /\ last_error = "OK" /\ Displayable
    => shown = Shows(input)
-----------------------------------------------------------------------------
(***************************************************************************)
(* The visitor is an encoder of text like the ones it calls.  Behind an    *)
(* error of its own stands invalid data, unless the feeder refused a piece. *)
(***************************************************************************)
Verdict(in) == IF Valid(in) THEN "ok" ELSE "invalid"

Outcome ==
  IF pc \notin {"done", "panic"} THEN "running"
  ELSE IF pc = "done" /\ last_error = "OK" THEN "ok"
  ELSE IF refused THEN "refused" ELSE "invalid"

Abs ==
  INSTANCE Delivery WITH Inputs <- Input, Text <- Shows, fed <- shown, result <- Outcome

(***************************************************************************)
(* At every moment, also of a walk that the feeder later cuts short, the   *)
(* text of valid data stands for a beginning of its payload: nothing is    *)
(* shown twice, left out or out of order, and mdp_visit says MDP_OK at the *)
(* end of the payload and nowhere before it.                               *)
(***************************************************************************)
DeliversPayload == Abs!Spec
=============================================================================
