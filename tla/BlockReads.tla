----------------------------- MODULE BlockReads -----------------------------
(***************************************************************************)
(* What the users of clib/molecule2_reader.h may rely on: a cursor is a    *)
(* window on the block its data source covers, a read returns the bytes of *)
(* the block under the window, a comparison compares them, an item of a    *)
(* dynamic vector is cut out at the offsets its header announces.  There   *)
(* is no cache and no buffer here; module Mol2Source adds them.            *)
(*                                                                         *)
(* One source is static: it covers whatever block a cursor was last made   *)
(* for with mol2_make_cursor_from_memory, and every comparison with a      *)
(* literal makes one.                                                      *)
(*                                                                         *)
(* Some operations validate the cursor they return, others move it without *)
(* looking.  `checked` remembers which: the cursor was whole or validated  *)
(* and was only advanced over what was read since.  No step reads it.      *)
(***************************************************************************)
EXTENDS Integers, Sequences

CONSTANTS
  Blocks,      \* contents of the memory that sources cover
  Own,         \* the sources that are objects of the caller
  Static,      \* the source inside mol2_make_cursor_from_memory
  Handles,     \* the cursors the program keeps
  MaxCache,    \* max_cache_size of every source
  WordMod,     \* offsets are numbers below it: 2^32
  BufLens,     \* lengths of the buffers that reads fill
  MaxSize      \* bound on the moves, sizes and item numbers the program gives

Source == Own \cup {Static}

\* A block and a cache behind it are addressed without overflow.
ASSUME BlockAssumption ==
  /\ Blocks \subseteq Seq(Nat) /\ <<>> \in Blocks
  /\ Static \notin Own
  /\ MaxCache \in Nat \ {0} /\ WordMod \in Nat
  /\ \A b \in Blocks : Len(b) + MaxCache < WordMod
  /\ BufLens \subseteq Nat \ {0} /\ MaxSize \in Nat

VARIABLES
  block,       \* the memory each source covers
  cursor,      \* the cursor behind each handle
  answer       \* what the last call returned besides a cursor, or how it ended

\* MOL2_NUM_T_SIZE: offsets and sizes are counted in numbers, so that one
\* element of a block is a byte or a whole number of a header.
NumSize == 1

Cursor == [src : Source, off : Nat, size : Nat, checked : BOOLEAN]

\* Bytes o + 1 .. o + n of a block.
Window(b, o, n) == [k \in 1 .. n |-> b[o + k]]

Whole(s) == [src |-> s, off |-> 0, size |-> Len(block[s]), checked |-> TRUE]

Bytes(n, w) == [kind |-> "bytes", count |-> n, bytes |-> w]
Word(kind) == [kind |-> kind, count |-> 0, bytes |-> <<>>]

\* "bounds" and "data" are panics, "stray" a copy from outside the block.
Fatal == {"bounds", "data", "stray"}
Verdict == {"equal", "differ", "io"}

Running == answer.kind \notin Fatal

Least(m, n) == IF m <= n THEN m ELSE n

\* The window of c lies inside what its source covers now.
InBlock(c) == c.off + c.size <= Len(block[c.src])

\* What a read of n bytes at the start of c may answer.  Behind the block
\* it copies from outside or, when a hit is mistaken, panics.
Outcomes(c, n) ==
  LET left == Len(block[c.src]) - c.off
  IN  IF left < 0 THEN {Word("stray"), Word("bounds")}
      ELSE IF n <= left THEN {Bytes(n, Window(block[c.src], c.off, n))}
      ELSE IF n > MaxCache THEN {Bytes(left, Window(block[c.src], c.off, left))}
      ELSE {Word("data")}

\* The reader moves c behind n bytes.
Advanced(c, n) == [c EXCEPT !.off = @ + n, !.size = @ - n]
-----------------------------------------------------------------------------
\* Number k of the header that c starts with, if the block has it.
HasNumber(c, k) == c.size >= NumSize /\ c.off + k + NumSize <= Len(block[c.src])
Number(c, k) == IF HasNumber(c, k) THEN block[c.src][c.off + k + 1] ELSE 0

\* The header announces no item when the vector is no longer than a number,
\* else one less than its first offset has numbers in front of it.
ItemCount(c) == IF Number(c, 0) = NumSize THEN 0 ELSE Number(c, 1) - 1

\* The numbers that are read to cut out item i.
ItemPlaces(c, i) ==
  IF Number(c, 0) = NumSize THEN {0}
  ELSE {0, 1} \cup {k \in {i + 1, i + 2} : i < ItemCount(c) /\ k <= ItemCount(c)}

\* The window from the offset of item i to the next one, or to the end.
Item(c, i) ==
  LET start == Number(c, i + 1)
      end == IF i + 1 = ItemCount(c) THEN Number(c, 0) ELSE Number(c, i + 2)
  IN  [c EXCEPT !.off = @ + start, !.size = end - start, !.checked = TRUE]

\* How the slice of item i may end.  Nothing is promised when the block
\* lacks one of the numbers: behind the block anything is read.
ItemEnds(c, i) ==
  IF \E k \in ItemPlaces(c, i) : ~HasNumber(c, k) THEN Fatal
  ELSE IF ItemCount(c) < 0 THEN {"bounds"}
  ELSE IF i >= ItemCount(c) THEN {"missing"}
  ELSE IF Item(c, i).size >= 0 /\ InBlock(Item(c, i)) THEN {"item"}
  ELSE {"bounds"}
-----------------------------------------------------------------------------
Init ==
  /\ block \in [Source -> Blocks] /\ block[Static] = <<>>
  /\ cursor \in [Handles -> {Whole(s) : s \in Own}]
  /\ answer = Word("none")

\* The cursors when the static source is set up for other memory.
Outdated == [g \in Handles |->
               IF cursor[g].src = Static THEN [cursor[g] EXCEPT !.checked = FALSE]
               ELSE cursor[g]]

MakeFromMemory(h, b) ==
  /\ Running
  /\ block' = [block EXCEPT ![Static] = b]
  /\ cursor' = [Outdated EXCEPT ![h] = Whole(Static)']
  /\ answer' = Word("none")

\* The static source is set up and no handle keeps the cursor.
Literal(b) ==
  /\ Running
  /\ block' = [block EXCEPT ![Static] = b]
  /\ cursor' = Outdated
  /\ answer' = Word("none")

\* The program goes on with cursor c in handle h, or panics.
Becomes(h, c) == cursor' = [cursor EXCEPT ![h] = c] /\ answer' = Word("none")
Overflow == answer' = Word("bounds") /\ UNCHANGED cursor

\* Handle h becomes a validated window inside the source of g.
SliceUnvalidated(h, g, o, n) ==
  /\ Running
  /\ Becomes(h, [cursor[g] EXCEPT !.off = @ + o, !.size = n, !.checked = TRUE])
  /\ UNCHANGED block

Slice(h, g, o, n) ==
  LET c == [cursor[g] EXCEPT !.off = @ + o, !.size = n, !.checked = TRUE]
  IN  /\ Running
      /\ \/ InBlock(c) /\ Becomes(h, c)
         \/ ~InBlock(c) /\ Overflow
      /\ UNCHANGED block

\* Handle h becomes a copy of g whose start is moved, without a validation:
\* only the offset itself must not overflow.
Move(h, g, o) ==
  LET c == [cursor[g] EXCEPT !.off = @ + o, !.checked = @ /\ o = 0]
  IN  /\ Running
      /\ \/ c.off < WordMod /\ Becomes(h, c)
         \/ c.off >= WordMod /\ Overflow
      /\ UNCHANGED block

\* The size of a cursor is overwritten, without a validation.
Resize(h, n) ==
  /\ Running /\ Becomes(h, [cursor[h] EXCEPT !.size = n]) /\ UNCHANGED block

\* The size of a cursor is reduced; it must not fall below zero.
Shrink(h, n) ==
  /\ Running
  /\ \/ n <= cursor[h].size /\ Becomes(h, [cursor[h] EXCEPT !.size = @ - n])
     \/ n > cursor[h].size /\ Overflow
  /\ UNCHANGED block

\* Item i of the vector under g is cut out; h may take it.  A vector that
\* has no such item gives a copy of its own cursor.
SliceItem(h, g, i) ==
  /\ Running
  /\ \E end \in ItemEnds(cursor[g], i) :
       LET c == IF end = "item" THEN Item(cursor[g], i) ELSE cursor[g]
       IN  /\ answer' = Word(end)
           /\ cursor' \in {cursor, [cursor EXCEPT ![h] = c]}
  /\ UNCHANGED block

Read(h, len) ==
  /\ Running
  /\ answer' \in Outcomes(cursor[h], Least(cursor[h].size, len))
  /\ UNCHANGED <<block, cursor>>

\* A read followed by an advance over what was read.
Consume(h, len) ==
  /\ Running
  /\ answer' \in Outcomes(cursor[h], Least(cursor[h].size, len))
  /\ cursor' = [cursor EXCEPT ![h] = Advanced(@, answer'.count)]
  /\ UNCHANGED block

\* What a comparison of a with b may answer.  Nothing is promised of a
\* cursor that leaves its block, except that sizes are compared first.
Verdicts(a, b) ==
  IF a.size # b.size THEN {"differ"}
  ELSE IF ~InBlock(a) \/ ~InBlock(b) THEN Verdict \cup Fatal
  ELSE IF Window(block[a.src], a.off, a.size) = Window(block[b.src], b.off, b.size)
       THEN {"equal"}
       ELSE {"differ"}

Compare(h, c) ==
  /\ Running
  /\ \E v \in Verdicts(cursor[h], c) : answer' = Word(v)
  /\ UNCHANGED <<block, cursor>>

\* What a cursor is compared with: a literal, or another cursor.
Comparable == {Whole(Static)} \cup {cursor[g] : g \in Handles}

Terminated == ~Running /\ UNCHANGED <<block, cursor, answer>>

Next ==
  \/ \E h \in Handles, b \in Blocks : MakeFromMemory(h, b)
  \/ \E b \in Blocks : Literal(b)
  \/ \E h, g \in Handles, o, n \in 0 .. MaxSize : Slice(h, g, o, n)
  \/ \E h, g \in Handles, o \in 0 .. MaxSize : Move(h, g, o) \/ SliceItem(h, g, o)
  \/ \E h \in Handles, n \in 0 .. MaxSize : Resize(h, n) \/ Shrink(h, n)
  \/ \E h \in Handles, len \in BufLens : Read(h, len) \/ Consume(h, len)
  \/ \E h \in Handles, c \in Comparable : Compare(h, c)
  \/ Terminated

Spec == Init /\ [][Next]_<<block, cursor, answer>>
=============================================================================
