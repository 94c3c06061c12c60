----------------------------- MODULE Utf8Check ------------------------------
(***************************************************************************)
(* clib/utf8.h as a function of the bytes it is given: what utf8_check     *)
(* answers, and which bytes it hands to the outputter.                     *)
(*                                                                         *)
(* The checker keeps a buffer of Utf8BufLen bytes.  Each round fills the   *)
(* buffer, walks over the complete code sequences in it, outputs the WHOLE *)
(* buffer and keeps only the incomplete tail for the next round.  The      *)
(* shape of UTF-8 is a parameter: SeqLen(b) is the length announced by a   *)
(* first byte (0 when no sequence starts with it) and Legal(s) the bit     *)
(* tests made on a complete sequence of two bytes or more.                 *)
(***************************************************************************)
EXTENDS Mol2Cursor

CONSTANTS Utf8BufLen,   \* _UTF8_BUF_LEN, 32 in the program
          SeqLen(_),    \* length of the sequence a first byte announces
          Legal(_)      \* the tests on a complete multi-byte sequence

ASSUME Utf8Assumption ==
  /\ Utf8BufLen \in Nat \ {0}
  /\ \A b \in Byte : SeqLen(b) \in 0 .. Utf8BufLen

\* The offsets of a window, in reading order.
Offsets(c) == [k \in 1 .. c.size |-> c.off + k - 1]

\* End of the buffer that starts at byte p of c: the inputter fills it
\* unless the cursor has no more bytes.
BufferEnd(c, p) == IF p + Utf8BufLen < c.size THEN p + Utf8BufLen ELSE c.size

\* Byte p of c starts a complete code sequence that ends before byte w.
Complete(mem, c, p, w) ==
  /\ p < w
  /\ SeqLen(ByteAt(mem, c.off + p)) # 0
  /\ p + SeqLen(ByteAt(mem, c.off + p)) <= w

Malformed(mem, c, p, w) ==
  LET n == SeqLen(ByteAt(mem, c.off + p))
  IN  /\ p < w
      /\ \/ n = 0
         \/ /\ n > 1 /\ p + n <= w
            /\ ~Legal([k \in 1 .. n |-> ByteAt(mem, c.off + p + k - 1)])

\* Where the inner loop stops in the buffer [p, w): at a malformed sequence,
\* at an incomplete one, or at w.
Processed(mem, c, p, w) ==
  LET walk[q \in p .. w] ==
        IF Malformed(mem, c, q, w) \/ ~Complete(mem, c, q, w) THEN q
        ELSE walk[q + SeqLen(ByteAt(mem, c.off + q))]
  IN  walk[p]

\* utf8_check: "ok" (0 is returned), "malformed" (non-zero) or "panic" (the
\* inputter reads past the block and mol2_read_at ends the process).
Utf8Result(mem, c) ==
  LET round[p \in 0 .. c.size] ==
        LET w == BufferEnd(c, p)
            q == Processed(mem, c, p, w)
        IN  IF p = c.size THEN "ok"
            ELSE IF c.off + w > TotalSize(mem) THEN "panic"
            ELSE IF Malformed(mem, c, q, w) \/ q = p THEN "malformed"
            ELSE round[q]
  IN  round[0]

\* The offsets of the bytes output by an accepted check, in order: one
\* whole buffer each round.
Utf8Echo(mem, c) ==
  LET round[p \in 0 .. c.size] ==
        LET w == BufferEnd(c, p)
            q == Processed(mem, c, p, w)
        IN  IF p = c.size \/ q = p THEN <<>>
            ELSE Offsets([off |-> c.off + p, size |-> w - p]) \o round[q]
  IN  round[0]
=============================================================================
