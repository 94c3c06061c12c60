------------------------------ MODULE Callbacks ------------------------------
(***************************************************************************)
(* The two callbacks between the visitor and its encoders of text:         *)
(* cursors_inputter, from which they take bytes, and the feeder, to which  *)
(* they give them.  A job is one call of an encoder: utf8_check for a      *)
(* String, bech32m_encode for an Address.                                  *)
(***************************************************************************)
EXTENDS Mol2Cursor, SequencesExt

CONSTANT Inputs  \* [job, cursors, hrp]; a cursor has its memory with it

VARIABLES
  input,           \* the job
  pc,              \* where it is
  current_cursor,  \* cursors_inputter_context, from 1
  current_offset,
  asked,           \* *length of the running call of cursors_inputter
  got,             \* what this call has written to the buffer
  fed,             \* all bytes the feeder was given
  result           \* "running", or what the job returned

inputterVars == <<current_cursor, current_offset, asked, got>>
feederVars == <<fed, result>>
callbackVars == <<input, pc, inputterVars, feederVars>>

Window == [mem : Seq(Byte), off : Nat, size : Nat]
Job == [job : {"string", "address"}, cursors : Seq(Window), hrp : Seq(Byte)]
Results == {"running", "ok", "malformed", "panic", "overflow", "refused"}

ASSUME InputsAssumption == Inputs \subseteq Job

\* cursors_inputter_context_initialize
CallbacksInit ==
  /\ input \in Inputs
  /\ current_cursor = 1 /\ current_offset = 0
  /\ asked = 0 /\ got = <<>>
  /\ fed = <<>> /\ result = "running"

Return(value) == result' = value /\ pc' = "end"
-----------------------------------------------------------------------------
(* cursors_inputter *)

\* A call of it for at most n bytes.
CallInputter(n) ==
  /\ pc' = "input" /\ asked' = n /\ got' = <<>>
  /\ UNCHANGED <<input, current_cursor, current_offset, feederVars>>

Cursors == input.cursors
Current == Cursors[current_cursor]
InCursors == current_cursor <= Len(Cursors)
LeastFirst(m, n) == m
Least(m, n) == IF m <= n THEN m ELSE n

\* mol2_read_at of what the cursor has left, or of what there is space for.
CopyBytes ==
  /\ pc = "input" /\ Len(got) < asked
  /\ InCursors /\ current_offset < Current.size
  /\ LET n == Least(Current.size - current_offset, asked - Len(got))
         from == Current.off + current_offset
     IN  IF from + n > TotalSize(Current.mem)
         THEN Return("panic") /\ UNCHANGED <<current_offset, got>>
         ELSE /\ got' = got \o SubSeq(Current.mem, from + 1, from + n)
              /\ current_offset' = current_offset + n
              /\ UNCHANGED <<pc, result>>
  /\ UNCHANGED <<input, current_cursor, asked, fed>>

NextCursorKeeps ==
  /\ pc = "input" /\ Len(got) < asked
  /\ InCursors /\ current_offset >= Current.size
  /\ current_cursor' = current_cursor + 1
  /\ UNCHANGED <<input, pc, current_offset, asked, got, feederVars>>

NextCursor ==
  /\ pc = "input" /\ Len(got) < asked
  /\ InCursors /\ current_offset >= Current.size
  /\ current_cursor' = current_cursor + 1 /\ current_offset' = 0
  /\ UNCHANGED <<input, pc, asked, got, feederVars>>

\* The buffer is full or the cursors have run out: back to the encoder.
InputterReturns ==
  /\ pc = "input" /\ (Len(got) >= asked \/ ~InCursors)
  /\ pc' = "got"
  /\ UNCHANGED <<input, inputterVars, feederVars>>

InputterNext == CopyBytes \/ NextCursor \/ InputterReturns
-----------------------------------------------------------------------------
(* The feeder takes a piece, or refuses it, which ends the job. *)

Takes(piece) == fed' = fed \o piece /\ UNCHANGED result
Refuses == Return("refused") /\ UNCHANGED fed
=============================================================================
