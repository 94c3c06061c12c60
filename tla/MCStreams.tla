------------------------------ MODULE MCStreams ------------------------------
(***************************************************************************)
(* Texts and addresses for the encoders, with buffers of 4 bytes for UTF-8 *)
(* and of 6 groups for bech32m, which is 2 bytes a call.                   *)
(***************************************************************************)
EXTENDS Streams, Utf8Shape

AllOf(mem) == [mem |-> mem, off |-> 0, size |-> Len(mem)]
String(cursor) == [job |-> "string", cursors |-> <<cursor>>, hrp |-> <<>>]

\* All short texts of letters, of the first bytes of sequences of two to
\* four bytes and of continuation bytes.
Letters == {65, 128, 195, 225, 241}
ShortTexts ==
  UNION {[1 .. n -> Letters] : n \in 0 .. 4} \cup UNION {[1 .. n -> {65, 128, 226}] : n \in 5 .. 6}

\* A text of characters of one to four bytes with ends of the buffer in
\* all places, and the same cut short.
Long == <<195, 169, 226, 130, 172, 65, 240, 159, 152, 128, 195, 169, 66, 226, 130, 172>>
LongTexts ==
  {SubSeq(Long, p, q) : p \in {1, 3, 6, 7, 11}, q \in 10 .. 16}

\* Sequences at the boundaries of what is a character.
Starts == {127, 128, 191, 192, 193, 194, 223, 224, 225, 236, 237, 238, 239, 240, 241, 243,
           244, 245, 247, 248, 255}
Edges ==
  {<<a, b>> : a \in Starts, b \in {127, 128, 191, 192}} \cup
  {<<a, b, c>> : a \in Starts, b \in {128, 159, 160, 191, 192}, c \in {127, 128, 189, 190, 191, 192}} \cup
  {<<a, b, 128, c>> : a \in Starts, b \in {128, 143, 144, 191}, c \in {127, 128, 191, 192}}

\* Counts that do not fit the memory.
Outside == {[mem |-> <<65, 66, 67, 68, 69>>, off |-> p, size |-> n] : p \in {0, 2, 5, 6}, n \in {4, 5}}

Address(code_hash, args, hrp) ==
  [job |-> "address", hrp |-> hrp,
   cursors |-> <<AllOf(<<0>>), [mem |-> <<90>> \o code_hash, off |-> 1, size |-> Len(code_hash)],
                 AllOf(<<1>>), AllOf(args)>>]

Arguments == UNION {[1 .. n -> {0, 105, 255}] : n \in 0 .. 3} \cup {<<1, 2, 3, 4, 5>>}

MCInputs ==
  {String(AllOf(t)) : t \in ShortTexts \cup LongTexts \cup Edges}
    \cup {String(c) : c \in Outside}
    \cup {Address(h, a, <<99, 107>>) : h \in {<<>>, <<171, 205>>, <<18, 52, 171>>}, a \in Arguments}
    \cup {Address(<<171, 205>>, <<255>>, hrp) : hrp \in {<<99, 49, 98>>, <<126>>, <<99, 32>>, <<127>>}}

\* All of them are jobs the visitor gives.
ASSUME InputsDeliverable == \A in \in MCInputs : Deliverable(in)
=============================================================================
