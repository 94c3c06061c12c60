--------------------------- MODULE DeliveryProofs ---------------------------
(***************************************************************************)
(* Both encoders implement Delivery, for all buffers, values and cursors.  *)
(* First utf8_check, whose buffer is a piece of the window that Visitor's  *)
(* BufferWalk and EchoFrom are about; then bech32m_encode, whose register  *)
(* has the bits of the payload that no group has yet; then the two.        *)
(***************************************************************************)
EXTENDS StreamsProofs, Utf8Proofs

-----------------------------------------------------------------------------
(* What utf8_check has read and passed on. *)

\* The block and the window of the string, and the inputter at work.
Mem == Block(input)
Win == Value(input)
Loading == pc \in {"input", "got"}

\* Bytes of the window that the inputter has passed, and of those the
\* bytes still in the buffer or on the way to it; the buffer begins at Start.
ReadTo == IF current_cursor = 1 THEN current_offset ELSE Win.size
Held == Len(buf) + (IF Loading THEN Len(got) ELSE 0)
Start == ReadTo - Held

\* The bytes of the block at some offsets.
BytesAt(mem, offsets) == [n \in DOMAIN offsets |-> ByteAt(mem, offsets[n])]

\* buf and got are the bytes of the window behind Start, and a short answer of
\* the inputter is at its end.
Window1 ==
  /\ Len(Cursors) = 1 /\ ReadTo \in 0 .. Win.size /\ Start \in Nat
  /\ ReadTo > 0 => Win.off + ReadTo <= Len(Mem)
  /\ \A n \in 1 .. Len(buf) : buf[n] = ByteAt(Mem, Win.off + Start + n - 1)
  /\ Loading => \A n \in 1 .. Len(got) : got[n] = ByteAt(Mem, Win.off + Start + Len(buf) + n - 1)
  /\ pc \in {"round", "input", "got", "scan", "output"}
  /\ Loading => ~end /\ asked = Utf8BufLen - Len(buf) /\ asked > 0
  /\ pc = "got" => Len(got) = asked \/ ReadTo = Win.size
  /\ end => ReadTo = Win.size

\* The scan stops where BufferWalk does.
Scanned ==
  /\ pc \in {"scan", "output"} => ReadTo = BufferEnd(Win, Start)
  /\ pc = "scan" =>
       Processed(Mem, Win, Start + processed, ReadTo) = BufferWalk(Mem, Win, Start)
  /\ pc = "output" =>
       /\ buf # <<>> => /\ BufferWalk(Mem, Win, Start) = Start + processed
                        /\ ~Malformed(Mem, Win, Start + processed, ReadTo)
       /\ end => processed = Len(buf)

\* What is fed and what the buffer will show are together the text.
Shows ==
  /\ Verdict(input) = ResultFrom(Mem, Win, Start)
  /\ Verdict(input) = "ok" =>
       fed \o BytesAt(Extended(input), EchoFrom(Extended(input), Win, Start)) = Text(input)

\* What utf8_check has read, scanned and fed.
StringInv == Checking => Window1 /\ Scanned /\ Shows

\* A step of Delivery or none.
AbsStep == [Abs!Next]_<<input, fed, result>>
-----------------------------------------------------------------------------
(* Sequences. *)

\* A piece of a sequence by its elements.
LEMMA PieceIs ==
  ASSUME NEW s \in Seq(Byte), NEW m \in Nat, NEW n \in Nat, m + n <= Len(s)
  PROVE  SubSeq(s, m + 1, m + n) = [j \in 1 .. n |-> s[m + j]]
<1>1. SubSeq(s, m + 1, m + n) = [j \in 1 .. (1 + (m + n) - (m + 1)) |-> s[m + 1 + j - 1]]
  BY DEF SubSeq
<1>2. 1 + (m + n) - (m + 1) = n
  OBVIOUS
<1>3. \A j \in 1 .. n : m + 1 + j - 1 = m + j
  OBVIOUS
<1> QED  BY <1>1, <1>2, <1>3

\* A sequence is the beginning of its concatenation with another.
LEMMA PrefixOfConcat ==
  ASSUME NEW S, NEW s \in Seq(S), NEW t \in Seq(S)
  PROVE  IsPrefix(s, s \o t)
<1>1. s \o t \in Seq(S) /\ Len(s \o t) = Len(s) + Len(t)
      /\ \A n \in 1 .. Len(s) + Len(t) : (s \o t)[n] = IF n <= Len(s) THEN s[n] ELSE t[n - Len(s)]
  BY ConcatProperties
<1>2. Len(s) \in Nat /\ Len(t) \in Nat
  BY LenProperties
<1>3. SubSeq(s, 1, Len(s)) = s
  BY SubSeqFull
<1>4. SubSeq(s \o t, 1, Len(s)) = s
  <2> DEFINE u == s \o t
             v == SubSeq(u, 1, Len(s))
  <2>1. \A n \in 1 .. Len(s) : u[n] = s[n] /\ u[n] \in S
    <3> SUFFICES ASSUME NEW n \in 1 .. Len(s) PROVE u[n] = s[n] /\ u[n] \in S
      OBVIOUS
    <3>1. n \in 1 .. Len(s) + Len(t) /\ n <= Len(s)
      BY <1>2
    <3>2. u[n] = s[n]
      BY <1>1, <3>1
    <3> QED  BY <3>2, ElementOfSeq
  <2> HIDE DEF u
  <2>2. v \in Seq(S) /\ Len(v) = (IF 1 <= Len(s) THEN Len(s) - 1 + 1 ELSE 0)
        /\ \A n \in 1 .. Len(s) - 1 + 1 : v[n] = u[1 + n - 1]
    BY <1>2, <2>1, SubSeqProperties
  <2>3. Len(v) = Len(s) /\ \A n \in 1 .. Len(s) : v[n] = s[n]
    <3> HIDE DEF v
    <3>1. Len(v) = Len(s)
      BY <1>2, <2>2
    <3>2. ASSUME NEW n \in 1 .. Len(s) PROVE v[n] = s[n]
      <4>1. n \in 1 .. Len(s) - 1 + 1 /\ 1 + n - 1 = n
        BY <1>2
      <4> QED  BY <2>1, <2>2, <4>1
    <3> QED  BY <3>1, <3>2
  <2> HIDE DEF v
  <2> QED  BY <2>2, <2>3, SeqEqual DEF v, u
<1> QED  BY <1>1, <1>2, <1>3, <1>4 DEF IsPrefix

\* The bytes that a memory can show.
Shown(mem) == Byte \cup {ByteAt(mem, o) : o \in Nat}

\* Bytes at offsets are bytes, as many as offsets.
LEMMA BytesAtType ==
  ASSUME NEW mem, NEW a \in Seq(Nat)
  PROVE  /\ BytesAt(mem, a) \in Seq(Shown(mem)) /\ Len(BytesAt(mem, a)) = Len(a)
         /\ \A n \in 1 .. Len(a) : BytesAt(mem, a)[n] = ByteAt(mem, a[n])
<1>1. Len(a) \in Nat /\ DOMAIN a = 1 .. Len(a)
  BY LenProperties
<1>2. \A n \in 1 .. Len(a) : a[n] \in Nat
  BY ElementOfSeq
<1>3. BytesAt(mem, a) = [n \in 1 .. Len(a) |-> ByteAt(mem, a[n])]
  BY <1>1 DEF BytesAt
<1>4. \A n \in 1 .. Len(a) : ByteAt(mem, a[n]) \in Shown(mem)
  BY <1>2 DEF Shown
<1>5. BytesAt(mem, a) \in Seq(Shown(mem)) /\ Len(BytesAt(mem, a)) = Len(a)
  <2> DEFINE e == [n \in 1 .. Len(a) |-> ByteAt(mem, a[n])]
             V == Shown(mem)
  <2>1. \A n \in 1 .. Len(a) : e[n] \in V
    BY <1>4
  <2>2. e = [n \in 1 .. Len(a) |-> e[n]]
    OBVIOUS
  <2> HIDE DEF e, V
  <2>3. e \in Seq(V) /\ Len(e) = Len(a)
    BY <1>1, <2>1, <2>2
  <2> QED  BY <1>3, <2>3 DEF e, V
<1> QED  BY <1>3, <1>5

\* Bytes at offsets that follow others follow their bytes.
LEMMA BytesAtConcat ==
  ASSUME NEW mem, NEW a \in Seq(Nat), NEW b \in Seq(Nat)
  PROVE  BytesAt(mem, a \o b) = BytesAt(mem, a) \o BytesAt(mem, b)
<1> DEFINE S == Shown(mem)
           x == BytesAt(mem, a)  y == BytesAt(mem, b)  z == BytesAt(mem, a \o b)
<1>1. a \o b \in Seq(Nat) /\ Len(a \o b) = Len(a) + Len(b)
      /\ \A n \in 1 .. Len(a) + Len(b) : (a \o b)[n] = IF n <= Len(a) THEN a[n] ELSE b[n - Len(a)]
  BY ConcatProperties
<1>2. x \in Seq(S) /\ Len(x) = Len(a) /\ (\A n \in 1 .. Len(a) : x[n] = ByteAt(mem, a[n]))
  BY BytesAtType
<1>3. y \in Seq(S) /\ Len(y) = Len(b) /\ (\A n \in 1 .. Len(b) : y[n] = ByteAt(mem, b[n]))
  BY BytesAtType
<1>4. z \in Seq(S) /\ Len(z) = Len(a) + Len(b)
      /\ \A n \in 1 .. Len(a) + Len(b) : z[n] = ByteAt(mem, (a \o b)[n])
  BY <1>1, BytesAtType
<1> HIDE DEF S, x, y, z
<1>5. x \o y \in Seq(S) /\ Len(x \o y) = Len(x) + Len(y)
      /\ \A n \in 1 .. Len(x) + Len(y) : (x \o y)[n] = IF n <= Len(x) THEN x[n] ELSE y[n - Len(x)]
  <2>1. x \in Seq(S) /\ y \in Seq(S)
    BY <1>2, <1>3
  <2> QED  BY <2>1, ConcatProperties
<1>6. Len(a) \in Nat /\ Len(b) \in Nat
  BY LenProperties
<1>7. \A n \in 1 .. Len(z) : z[n] = (x \o y)[n]
  <2> SUFFICES ASSUME NEW n \in 1 .. Len(a) + Len(b) PROVE z[n] = (x \o y)[n]
    BY <1>4
  <2>1. CASE n <= Len(a)
    <3>1. n \in 1 .. Len(a)
      BY <1>6, <2>1
    <3> QED  BY <1>1, <1>2, <1>3, <1>4, <1>5, <2>1, <3>1
  <2>2. CASE ~(n <= Len(a))
    <3>1. n - Len(a) \in 1 .. Len(b)
      BY <1>6, <2>2
    <3>2. z[n] = ByteAt(mem, b[n - Len(a)])
      BY <1>1, <1>4, <2>2
    <3>3. (x \o y)[n] = y[n - Len(a)]
      BY <1>2, <1>3, <1>5, <2>2
    <3> QED  BY <1>3, <3>1, <3>2, <3>3
  <2> QED  BY <2>1, <2>2
<1>8. Len(z) = Len(x \o y)
  BY <1>2, <1>3, <1>4, <1>5
<1>9. z = x \o y
  BY <1>4, <1>5, <1>7, <1>8, SeqEqual
<1> QED  BY <1>9 DEF x, y, z

\* The bytes of one buffer.
LEMMA BytesOfBuffer ==
  ASSUME NEW mem \in Seq(Byte), NEW ext \in Seq(Byte), Continues(ext, mem),
         NEW c \in Cursor, NEW p \in 0 .. c.size, c.off + BufferEnd(c, p) <= Len(mem),
         NEW s \in Seq(Byte), Len(s) = BufferEnd(c, p) - p,
         \A n \in 1 .. Len(s) : s[n] = ByteAt(mem, c.off + p + n - 1)
  PROVE  BytesAt(ext, BufferOffsets(c, p)) = s
<1> DEFINE e == BytesAt(ext, BufferOffsets(c, p))
           w == BufferEnd(c, p)
<1>1. BufferOffsets(c, p) \in Seq(Nat) /\ Len(BufferOffsets(c, p)) = w - p
      /\ \A n \in 1 .. w - p : BufferOffsets(c, p)[n] = c.off + p + n - 1
  BY BufferOffsetsType
<1>2. e \in Seq(Shown(ext)) /\ Len(e) = w - p
      /\ \A n \in 1 .. w - p : e[n] = ByteAt(ext, BufferOffsets(c, p)[n])
  BY <1>1, BytesAtType
<1>3. c.off \in Nat /\ c.size \in Nat /\ w \in p .. c.size /\ Len(mem) \in Nat
  BY BufferEndType DEF Cursor
<1> HIDE DEF e, w
<1>4. \A n \in 1 .. w - p : e[n] = s[n]
  <2> SUFFICES ASSUME NEW n \in 1 .. w - p PROVE e[n] = s[n]
    OBVIOUS
  <2>1. c.off + p + n - 1 \in 0 .. Len(mem) - 1
    BY <1>3, SMTT(30) DEF w
  <2>2. ByteAt(ext, c.off + p + n - 1) = ByteAt(mem, c.off + p + n - 1)
    BY <2>1 DEF Continues
  <2> QED  BY <1>1, <1>2, <2>2 DEF w
<1>5. Byte \subseteq Shown(ext)
  BY DEF Shown
<1>6. s \in Seq(Shown(ext))
  BY <1>5, SeqMonotonic
<1>7. Len(e) = Len(s) /\ \A n \in 1 .. Len(e) : e[n] = s[n]
  BY <1>2, <1>4 DEF w
<1>8. e = s
  BY <1>2, <1>6, <1>7, SeqEqual
<1> QED  BY <1>8 DEF e
-----------------------------------------------------------------------------
(* The step of the inputter under utf8_check. *)

\* The job is a string of one window.
OneWindow == input.job = "string" /\ Len(Cursors) = 1

\* What the types of Streams say of a string.
LEMMA StringSetting ==
  ASSUME TInv, OneWindow
  PROVE  /\ Mem \in Seq(Byte) /\ Len(Mem) \in Nat /\ Win \in Cursor
         /\ Win.off \in Nat /\ Win.size \in Nat
         /\ Mem = Cursors[1].mem /\ Win.off = Cursors[1].off /\ Win.size = Cursors[1].size
         /\ current_cursor \in 1 .. 2 /\ current_offset \in Nat
         /\ buf \in Seq(Byte) /\ Len(buf) \in Nat /\ Len(buf) <= Utf8BufLen
         /\ got \in Seq(Byte) /\ Len(got) \in Nat /\ Len(got) <= asked /\ asked \in Nat
         /\ processed \in 0 .. Len(buf) /\ fed \in Seq(Byte)
         /\ Utf8BufLen \in Nat \ {0}
<1>1. input \in Job /\ current_cursor \in 1 .. Len(Cursors) + 1 /\ current_offset \in Nat
      /\ asked \in Nat /\ got \in Seq(Byte) /\ Len(got) <= asked /\ fed \in Seq(Byte)
      /\ buf \in Seq(Byte) /\ Len(buf) <= Utf8BufLen /\ processed \in 0 .. Len(buf)
  BY DEF TInv, InputterTypes, FeederTypes, Utf8TypeOK
<1>2. Cursors \in Seq(Window) /\ 1 \in 1 .. Len(Cursors)
  BY <1>1 DEF Job, Cursors, OneWindow
<1>3. Cursors[1] \in Window
  BY <1>2, ElementOfSeq
<1>4. Mem = Cursors[1].mem /\ Win = [off |-> Cursors[1].off, size |-> Cursors[1].size]
  BY DEF Mem, Win, Block, Value, Cursors
<1>5. Mem \in Seq(Byte) /\ Win \in Cursor /\ Win.off \in Nat /\ Win.size \in Nat
      /\ Win.off = Cursors[1].off /\ Win.size = Cursors[1].size
  BY <1>3, <1>4 DEF Window, Cursor
<1>6. Len(Mem) \in Nat /\ Len(buf) \in Nat /\ Len(got) \in Nat
  BY <1>1, <1>5, LenProperties
<1> QED  BY <1>1, <1>4, <1>5, <1>6, Utf8Assumption DEF OneWindow

\* While the bytes are on their way, Start stays.
LEMMA StringCopies ==
  ASSUME TInv, StringInv, OneWindow, CopyBytes, result = "running", UNCHANGED utf8Vars
  PROVE  StringInv' /\ AbsStep
<1> DEFINE n == Least(Current.size - current_offset, asked - Len(got))
           from == Current.off + current_offset
<1>1. Window1 /\ Scanned /\ Shows /\ pc = "input" /\ Checking
  BY DEF StringInv, Checking, OneWindow, CopyBytes
<1>2. current_cursor = 1 /\ Current = Cursors[1] /\ ReadTo = current_offset
  BY StringSetting DEF CopyBytes, InCursors, Current, ReadTo, OneWindow
<1>3. /\ Mem \in Seq(Byte) /\ Len(Mem) \in Nat /\ Win \in Cursor
      /\ Win.off \in Nat /\ Win.size \in Nat
      /\ Current.mem = Mem /\ Current.size = Win.size /\ Current.off = Win.off
      /\ Len(buf) \in Nat /\ Len(got) \in Nat /\ asked \in Nat /\ got \in Seq(Byte)
      /\ Utf8BufLen \in Nat
  BY <1>2, StringSetting
<1>4. current_offset \in Nat /\ current_offset < Win.size /\ Len(got) < asked
  BY <1>1, <1>2, <1>3, StringSetting DEF CopyBytes
<1>5. n \in Nat /\ n > 0 /\ n <= Win.size - current_offset /\ n <= asked - Len(got)
      /\ from = Win.off + current_offset
      /\ (n = Win.size - current_offset \/ n = asked - Len(got))
  BY <1>3, <1>4 DEF Least
<1>6. Start = current_offset - (Len(buf) + Len(got)) /\ Start \in Nat
      /\ asked = Utf8BufLen - Len(buf)
  BY <1>1, <1>2 DEF Start, Held, Loading, Window1
<1>7. UNCHANGED <<input, current_cursor, asked, fed, buf, processed, end>>
  BY DEF CopyBytes, utf8Vars
<1>8. Mem' = Mem /\ Win' = Win /\ Cursors' = Cursors
  BY <1>7 DEF Mem, Win, Cursors
<1> HIDE DEF n, from
<1>9. CASE from + n > TotalSize(Current.mem)
  <2>1. result' = "panic" /\ pc' = "end"
    BY <1>1, <1>9 DEF CopyBytes, Return, n, from
  <2>2. StringInv'
    BY <2>1 DEF StringInv, Checking
  <2>3. from + n = Win.off + BufferEnd(Win, Start)
    <3>1. current_offset + n = BufferEnd(Win, Start)
      <4>1. Start + Utf8BufLen = current_offset + (asked - Len(got))
        BY <1>3, <1>4, <1>6
      <4>2. CASE n = Win.size - current_offset
        <5>1. ~(Start + Utf8BufLen < Win.size)
          BY <1>3, <1>4, <1>5, <4>1, <4>2
        <5> QED  BY <1>3, <1>4, <4>2, <5>1 DEF BufferEnd
      <4>3. CASE n = asked - Len(got)
        <5>1. current_offset + n = Start + Utf8BufLen /\ Start + Utf8BufLen <= Win.size
          BY <1>3, <1>4, <1>5, <4>1, <4>3
        <5>2. CASE Start + Utf8BufLen < Win.size
          BY <5>1, <5>2 DEF BufferEnd
        <5>3. CASE Start + Utf8BufLen = Win.size
          BY <1>3, <5>1, <5>3 DEF BufferEnd
        <5> QED  BY <1>3, <1>6, <5>1, <5>2, <5>3
      <4> QED  BY <1>5, <4>2, <4>3
    <3> QED  BY <1>3, <1>4, <1>5, <3>1
  <2>4. Start \in 0 .. Win.size /\ Start # Win.size
    BY <1>3, <1>4, <1>6
  <2>5. ReadsPast(Mem, Win, Start)
    BY <1>3, <1>9, <2>3 DEF ReadsPast
  <2>6. ResultFrom(Mem, Win, Start) = "panic"
    BY <1>3, <2>4, <2>5, ResultStep
  <2>7. Verdict(input) = "panic"
    BY <1>1, <2>6 DEF Shows
  <2>8. AbsStep
    <3>1. result' \notin {"running", "ok"} /\ result' = Verdict(input) /\ UNCHANGED <<input, fed>>
      BY <1>7, <2>1, <2>7
    <3> QED  BY <3>1 DEF AbsStep, Abs!Next, Abs!Reject
  <2> QED  BY <2>2, <2>8
<1>10. CASE ~(from + n > TotalSize(Current.mem))
  <2> DEFINE piece == SubSeq(Mem, from + 1, from + n)
  <2>1. got' = got \o piece /\ current_offset' = current_offset + n /\ UNCHANGED <<pc, result>>
    BY <1>1, <1>3, <1>10 DEF CopyBytes, n, from
  <2>2. from \in Nat /\ n \in Nat /\ from + n <= Len(Mem) /\ Mem \in Seq(Byte)
    <3>1. Mem \in Seq(Byte) /\ from \in Nat /\ n \in Nat
      BY <1>3, <1>4, <1>5, SMTT(30)
    <3>2. TotalSize(Current.mem) = Len(Mem) /\ Len(Mem) \in Nat
      BY <1>3 DEF TotalSize
    <3> QED  BY <1>10, <3>1, <3>2
  <2>3. piece = [j \in 1 .. n |-> Mem[from + j]]
    BY <2>2, PieceIs
  <2>4. piece \in Seq(Byte) /\ Len(piece) = n /\ \A j \in 1 .. n : piece[j] = Mem[from + j]
    <3>1. Mem \in Seq(0 .. 255)
      BY <1>3, Bytes
    <3>2. piece \in Seq(0 .. 255) /\ Len(piece) = n
      BY <2>2, <3>1, PieceOf, ZenonT(60)
    <3> QED  BY <2>3, <3>2, Bytes
  <2> HIDE DEF piece
  <2>5. Len(got') = Len(got) + n
        /\ \A j \in 1 .. Len(got) + n : got'[j] = IF j <= Len(got) THEN got[j] ELSE piece[j - Len(got)]
    BY <1>3, <2>1, <2>4, ConcatProperties, ZenonT(60)
  <2>6. ReadTo' = current_offset + n /\ Start' = Start
    BY <1>1, <1>2, <1>3, <1>4, <1>5, <1>6, <1>7, <2>1, <2>5 DEF ReadTo, Start, Held, Loading
  <2>7. \A j \in 1 .. Len(got') : got'[j] = ByteAt(Mem, Win.off + Start + Len(buf) + j - 1)
    <3> SUFFICES ASSUME NEW j \in 1 .. Len(got) + n
                 PROVE  got'[j] = ByteAt(Mem, Win.off + Start + Len(buf) + j - 1)
      BY <2>5
    <3>1. CASE j <= Len(got)
      <4>1. j \in 1 .. Len(got) /\ got'[j] = got[j]
        BY <1>3, <2>5, <3>1
      <4>2. \A m \in 1 .. Len(got) : got[m] = ByteAt(Mem, Win.off + Start + Len(buf) + m - 1)
        BY <1>1 DEF Window1, Loading
      <4> QED  BY <4>1, <4>2
    <3>2. CASE ~(j <= Len(got))
      <4>1. j - Len(got) \in 1 .. n
        BY <1>3, <1>5, <3>2
      <4>2. got'[j] = Mem[from + (j - Len(got))]
        BY <2>4, <2>5, <3>2, <4>1
      <4>3. from + (j - Len(got)) = (Win.off + Start + Len(buf) + j - 1) + 1
        <5>1. from = Win.off + (Start + Len(buf) + Len(got))
          BY <1>3, <1>4, <1>5, <1>6
        <5>2. Win.off \in Int /\ Start \in Int /\ Len(buf) \in Int /\ Len(got) \in Int /\ j \in Int
          BY <1>3, <1>6
        <5> QED  BY <5>1, <5>2, SMTT(30)
      <4> QED  BY <4>2, <4>3 DEF ByteAt
    <3> QED  BY <3>1, <3>2
  <2>8. Window1'
    <3>1. ReadTo' \in 0 .. Win.size /\ Start' \in Nat
      <4>1. /\ current_offset \in Nat /\ n \in Nat /\ Win.size \in Nat
            /\ n <= Win.size - current_offset
        BY <1>3, <1>4, <1>5
      <4>2. current_offset + n \in 0 .. Win.size
        BY <4>1
      <4> QED  BY <1>6, <2>6, <4>2
    <3>2. Win.off + ReadTo' <= Len(Mem)
      BY <1>3, <1>4, <1>5, <2>2, <2>6, SMTT(30)
    <3>3. \A j \in 1 .. Len(buf') : buf'[j] = ByteAt(Mem', Win'.off + Start' + j - 1)
      BY <1>1, <1>7, <1>8, <2>6 DEF Window1
    <3> QED  BY <1>1, <1>5, <1>6, <1>7, <1>8, <2>1, <2>6, <2>7, <3>1, <3>2, <3>3 DEF Window1, Loading
  <2>9. Scanned'
    BY <1>1, <2>1 DEF Scanned
  <2>10. Shows'
    BY <1>1, <1>7, <1>8, <2>6 DEF Shows
  <2>11. AbsStep
    BY <1>7, <2>1 DEF AbsStep
  <2> QED  BY <2>8, <2>9, <2>10, <2>11 DEF StringInv
<1> QED  BY <1>9, <1>10

\* The window is read to its end.
LEMMA StringNextCursor ==
  ASSUME TInv, StringInv, OneWindow, NextCursor, result = "running", UNCHANGED utf8Vars
  PROVE  StringInv' /\ AbsStep
<1>1. Window1 /\ Scanned /\ Shows /\ pc = "input" /\ pc' = "input"
  BY DEF StringInv, Checking, OneWindow, NextCursor
<1>2. current_cursor = 1 /\ Current = Cursors[1] /\ current_cursor' = 2
  BY StringSetting DEF NextCursor, InCursors, Current, OneWindow
<1>3. UNCHANGED <<input, asked, got, fed, result, buf, processed, end>>
  BY DEF NextCursor, utf8Vars, feederVars
<1>4. Mem' = Mem /\ Win' = Win /\ Cursors' = Cursors
  BY <1>3 DEF Mem, Win, Cursors
<1>5. ReadTo = Win.size
  <2>1. current_offset >= Win.size /\ current_offset \in Nat /\ Win.size \in Nat
    BY <1>2, StringSetting DEF NextCursor
  <2>2. current_offset \in 0 .. Win.size
    BY <1>1, <1>2 DEF Window1, ReadTo
  <2> QED  BY <1>2, <2>1, <2>2 DEF ReadTo
<1>6. ReadTo' = ReadTo /\ Start' = Start /\ Loading' = Loading
  BY <1>1, <1>2, <1>3, <1>4, <1>5 DEF ReadTo, Start, Held, Loading
<1>7. Window1'
  BY <1>1, <1>3, <1>4, <1>6 DEF Window1
<1>8. Scanned' /\ Shows'
  BY <1>1, <1>3, <1>4, <1>6 DEF Scanned, Shows
<1> QED  BY <1>3, <1>7, <1>8 DEF StringInv, AbsStep

\* The inputter has filled buf or come to the end.
LEMMA StringInputterReturns ==
  ASSUME TInv, StringInv, OneWindow, InputterReturns, result = "running", UNCHANGED utf8Vars
  PROVE  StringInv' /\ AbsStep
<1>1. Window1 /\ Scanned /\ Shows /\ pc = "input" /\ pc' = "got"
  BY DEF StringInv, Checking, OneWindow, InputterReturns
<1>2. UNCHANGED <<input, current_cursor, current_offset, asked, got, fed, result, buf, processed, end>>
  BY DEF InputterReturns, utf8Vars, feederVars, inputterVars
<1>3. Mem' = Mem /\ Win' = Win /\ Cursors' = Cursors
  BY <1>2 DEF Mem, Win, Cursors
<1>4. ReadTo' = ReadTo /\ Start' = Start /\ Loading' /\ Loading
  BY <1>1, <1>2, <1>3 DEF ReadTo, Start, Held, Loading
<1>5. Len(got) = asked \/ ReadTo = Win.size
  BY StringSetting DEF InputterReturns, InCursors, OneWindow, ReadTo
<1>6. Window1'
  BY <1>1, <1>2, <1>3, <1>4, <1>5 DEF Window1
<1>7. Scanned' /\ Shows'
  BY <1>1, <1>2, <1>3, <1>4 DEF Scanned, Shows
<1> QED  BY <1>2, <1>6, <1>7 DEF StringInv, AbsStep
-----------------------------------------------------------------------------
(* The steps of utf8_check. *)

\* A buffer that is full, or has the rest of the window, ends where BufferEnd
\* does.
LEMMA Filled ==
  ASSUME NEW c \in Cursor, NEW p \in Nat, NEW r \in 0 .. c.size,
         r = p + Utf8BufLen \/ (r = c.size /\ r - p <= Utf8BufLen)
  PROVE  r = BufferEnd(c, p)
BY Utf8Assumption DEF BufferEnd, Cursor

\* The buffer is a piece of the window, and inside the memory.
LEMMA BufferInside ==
  ASSUME TInv, OneWindow, Window1, ~Loading
  PROVE  /\ ReadTo = Start + Len(buf) /\ Start \in 0 .. Win.size /\ ReadTo \in Start .. Win.size
         /\ ReadTo \in Nat
         /\ buf # <<>> => Start < Win.size /\ Win.off + ReadTo <= Len(Mem)
<1>1. ReadTo \in 0 .. Win.size /\ Start \in Nat /\ Win.size \in Nat /\ Len(buf) \in Nat
  BY StringSetting DEF Window1
<1>2. Start = ReadTo - Len(buf)
  BY <1>1 DEF Start, Held
<1>3. ReadTo = Start + Len(buf) /\ Start \in 0 .. Win.size /\ ReadTo \in Start .. Win.size
  BY <1>1, <1>2
<1>4. buf # <<>> => Len(buf) > 0
  <2>1. buf \in Seq(Byte)
    BY StringSetting
  <2> QED  BY <2>1, EmptySeq
<1>5. buf # <<>> => ReadTo > 0
  BY <1>1, <1>3, <1>4
<1>6. buf # <<>> => Start < Win.size
  BY <1>1, <1>3, <1>4
<1> QED  BY <1>1, <1>3, <1>5, <1>6 DEF Window1

\* A round asks for the rest of a buffer.
LEMMA StringRound ==
  ASSUME TInv, StringInv, OneWindow, Round
  PROVE  StringInv' /\ AbsStep
<1>1. Window1 /\ Scanned /\ Shows /\ pc = "round" /\ ~Loading
  BY DEF StringInv, Round, Loading
<1>2. UNCHANGED <<input, current_cursor, current_offset, fed, result, buf, end>>
  BY DEF Round, CallInputter, inputterVars, feederVars
<1>3. Mem' = Mem /\ Win' = Win /\ Cursors' = Cursors /\ ReadTo' = ReadTo
  BY <1>2 DEF Mem, Win, Cursors, ReadTo
<1>4. Utf8BufLen \in Nat /\ Len(buf) \in Nat /\ Len(buf) <= Utf8BufLen /\ Win \in Cursor
      /\ Win.size \in Nat
  BY StringSetting
<1>5. CASE ~end /\ Len(buf) < Utf8BufLen
  <2>1. pc' = "input" /\ asked' = Utf8BufLen - Len(buf) /\ got' = <<>>
    BY <1>5 DEF Round, CallInputter
  <2>2. Start' = Start /\ Loading'
    <3>1. Held = Len(buf) /\ Loading'
      BY <1>1, <2>1 DEF Held, Loading
    <3>2. Held' = Len(buf) + 0
      BY <1>2, <2>1, <3>1 DEF Held
    <3>3. Held' = Held
      BY <1>4, <3>1, <3>2
    <3> QED  BY <1>3, <3>1, <3>3 DEF Start
  <2>3. asked' > 0 /\ Len(got') = 0
    BY <1>4, <1>5, <2>1
  <2>4. \A n \in 1 .. Len(got') : got'[n] = ByteAt(Mem', Win'.off + Start' + Len(buf') + n - 1)
    BY <2>3
  <2>5. Window1'
    BY <1>1, <1>2, <1>3, <1>5, <2>1, <2>2, <2>3, <2>4 DEF Window1
  <2>6. Scanned'
    BY <2>1 DEF Scanned
  <2>7. Shows'
    BY <1>1, <1>2, <1>3, <2>2 DEF Shows
  <2> QED  BY <1>2, <2>5, <2>6, <2>7 DEF StringInv, AbsStep
<1>6. CASE ~(~end /\ Len(buf) < Utf8BufLen)
  <2>1. pc' = "scan" /\ processed' = 0 /\ UNCHANGED <<asked, got>>
    BY <1>6 DEF Round, Scan, inputterVars
  <2>2. ~Loading' /\ Start' = Start
    BY <1>1, <1>2, <1>3, <2>1 DEF Loading, Held, Start
  <2>3. ReadTo = BufferEnd(Win, Start)
    <3>1. ReadTo = Start + Len(buf) /\ Start \in Nat /\ ReadTo \in 0 .. Win.size
      BY <1>1, BufferInside DEF Window1
    <3>2. CASE end
      <4>1. ReadTo = Win.size
        BY <1>1, <3>2 DEF Window1
      <4>2. ReadTo - Start <= Utf8BufLen
        BY <1>4, <3>1
      <4> QED  BY <1>4, <3>1, <4>1, <4>2, Filled
    <3>3. CASE ~end
      <4>1. ReadTo = Start + Utf8BufLen
        BY <1>4, <1>6, <3>1, <3>3
      <4> QED  BY <1>4, <3>1, <4>1, Filled
    <3> QED  BY <3>2, <3>3
  <2>4. Window1'
    BY <1>1, <1>2, <1>3, <2>1, <2>2 DEF Window1
  <2>5. Scanned'
    <3>1. Start + 0 = Start
      BY <1>1 DEF Window1
    <3>2. Processed(Mem, Win, Start + 0, ReadTo) = BufferWalk(Mem, Win, Start)
      BY <2>3, <3>1 DEF BufferWalk
    <3> QED  BY <1>2, <1>3, <2>1, <2>2, <2>3, <3>2 DEF Scanned
  <2>6. Shows'
    BY <1>1, <1>2, <1>3, <2>2 DEF Shows
  <2> QED  BY <1>2, <2>4, <2>5, <2>6 DEF StringInv, AbsStep
<1> QED  BY <1>5, <1>6

\* What was read is behind what buf held.
LEMMA StringLoaded ==
  ASSUME TInv, StringInv, OneWindow, Loaded
  PROVE  StringInv' /\ AbsStep
<1>1. Window1 /\ Scanned /\ Shows /\ pc = "got" /\ Loading
  BY DEF StringInv, Loaded, Loading
<1>2. UNCHANGED <<input, current_cursor, current_offset, asked, got, fed, result>>
      /\ pc' = "scan" /\ processed' = 0 /\ buf' = buf \o got /\ end' = (got = <<>>)
  BY DEF Loaded, Scan, inputterVars, feederVars
<1>3. Mem' = Mem /\ Win' = Win /\ Cursors' = Cursors /\ ReadTo' = ReadTo /\ ~Loading'
  BY <1>2 DEF Mem, Win, Cursors, ReadTo, Loading
<1>4. Utf8BufLen \in Nat /\ Len(buf) \in Nat /\ Len(got) \in Nat /\ Win \in Cursor
      /\ Win.size \in Nat /\ Win.off \in Nat /\ buf \in Seq(Byte) /\ got \in Seq(Byte)
      /\ Len(got) <= asked /\ asked \in Nat
  BY StringSetting
<1>5. Len(buf') = Len(buf) + Len(got)
      /\ \A n \in 1 .. Len(buf) + Len(got) :
           buf'[n] = IF n <= Len(buf) THEN buf[n] ELSE got[n - Len(buf)]
  BY <1>2, <1>4, ConcatProperties
<1>6. Start' = Start /\ Start = ReadTo - (Len(buf) + Len(got)) /\ Start \in Nat /\ ReadTo \in 0 .. Win.size
  BY <1>1, <1>3, <1>4, <1>5 DEF Start, Held, Window1
<1>7. asked = Utf8BufLen - Len(buf) /\ asked > 0 /\ (Len(got) = asked \/ ReadTo = Win.size)
  BY <1>1 DEF Window1
<1>8. ReadTo = BufferEnd(Win, Start)
  <2>1. CASE Len(got) = asked
    <3>1. ReadTo = Start + Utf8BufLen
      BY <1>4, <1>6, <1>7, <2>1
    <3> QED  BY <1>4, <1>6, <3>1, Filled
  <2>2. CASE ReadTo = Win.size
    <3>1. ReadTo - Start <= Utf8BufLen
      BY <1>4, <1>6, <1>7
    <3> QED  BY <1>4, <1>6, <2>2, <3>1, Filled
  <2> QED  BY <1>7, <2>1, <2>2
<1>9. \A n \in 1 .. Len(buf') : buf'[n] = ByteAt(Mem, Win.off + Start + n - 1)
  <2> SUFFICES ASSUME NEW n \in 1 .. Len(buf) + Len(got)
               PROVE  buf'[n] = ByteAt(Mem, Win.off + Start + n - 1)
    BY <1>5
  <2>1. CASE n <= Len(buf)
    <3>1. n \in 1 .. Len(buf) /\ buf'[n] = buf[n]
      BY <1>4, <1>5, <2>1
    <3> QED  BY <1>1, <3>1 DEF Window1
  <2>2. CASE ~(n <= Len(buf))
    <3> DEFINE j == n - Len(buf)
    <3>1. j \in 1 .. Len(got) /\ buf'[n] = got[j]
      BY <1>4, <1>5, <2>2
    <3>2. Win.off + Start + Len(buf) + j - 1 = Win.off + Start + n - 1
      BY <1>4, <1>6
    <3> HIDE DEF j
    <3>3. got[j] = ByteAt(Mem, Win.off + Start + Len(buf) + j - 1)
      BY <1>1, <3>1 DEF Window1
    <3> QED  BY <3>1, <3>2, <3>3
  <2> QED  BY <2>1, <2>2
<1>10. end' => ReadTo = Win.size
  <2>1. CASE got = <<>>
    <3>1. Len(got) = 0
      BY <2>1
    <3>2. Len(got) # asked
      BY <1>7, <3>1
    <3> QED  BY <1>7, <3>2
  <2>2. CASE got # <<>>
    BY <1>2, <2>2
  <2> QED  BY <2>1, <2>2
<1>11. Window1'
  BY <1>1, <1>2, <1>3, <1>6, <1>9, <1>10 DEF Window1
<1>12. Scanned'
  <2>1. Start + 0 = Start
    BY <1>6
  <2>2. Processed(Mem, Win, Start + 0, ReadTo) = BufferWalk(Mem, Win, Start)
    BY <1>8, <2>1 DEF BufferWalk
  <2> QED  BY <1>2, <1>3, <1>6, <1>8, <2>2 DEF Scanned
<1>13. Shows'
  BY <1>1, <1>2, <1>3, <1>6 DEF Shows
<1> QED  BY <1>2, <1>11, <1>12, <1>13 DEF StringInv, AbsStep

\* The tests on the buffer are those of Utf8Check on the window.
LEMMA SequenceHere ==
  ASSUME TInv, OneWindow, Window1, Scanned, pc = "scan", processed < Len(buf)
  PROVE  LET q == Start + processed
         IN  /\ q \in Start .. ReadTo /\ q < ReadTo /\ Win.off + ReadTo <= Len(Mem)
             /\ ReadTo \in Nat /\ Announced \in Nat /\ buf # <<>>
             /\ Malformed(Mem, Win, q, ReadTo) <=>
                  Announced = 0 \/ (Announced > 1 /\ Whole /\ ~Legal(Sequence))
             /\ Complete(Mem, Win, q, ReadTo) <=> Announced # 0 /\ Whole
             /\ Behind(Mem, Win, q) = q + Announced
<1> DEFINE q == Start + processed
<1>1. buf \in Seq(Byte) /\ Len(buf) \in Nat /\ processed \in Nat /\ Win.off \in Nat /\ ~Loading
  BY StringSetting DEF Loading
<1>2. buf # <<>>
  <2>1. Len(buf) # 0
    BY <1>1
  <2> QED  BY <2>1
<1>3. ReadTo = Start + Len(buf) /\ Start \in Nat /\ ReadTo \in Nat /\ Win.off + ReadTo <= Len(Mem)
  BY <1>1, <1>2, BufferInside DEF Window1
<1>4. q \in Start .. ReadTo /\ q < ReadTo
  BY <1>1, <1>3
<1>5. Announced = SeqLen(ByteAt(Mem, Win.off + q)) /\ Announced \in Nat
  <2>1. processed + 1 \in 1 .. Len(buf)
    BY <1>1
  <2>2. buf[processed + 1] = ByteAt(Mem, Win.off + Start + (processed + 1) - 1)
    BY <2>1 DEF Window1
  <2>3. Win.off + Start + (processed + 1) - 1 = Win.off + q
    BY <1>1, <1>3
  <2>4. Announced \in 0 .. Utf8BufLen /\ Utf8BufLen \in Nat
    BY AnnouncedType, Utf8Assumption DEF TInv
  <2> QED  BY <2>2, <2>3, <2>4 DEF Announced
<1>6. Whole <=> q + Announced <= ReadTo
  BY <1>1, <1>3, <1>5 DEF Whole
<1>7. Whole => Sequence = [j \in 1 .. Announced |-> ByteAt(Mem, Win.off + q + j - 1)]
  <2> SUFFICES ASSUME Whole
               PROVE  Sequence = [j \in 1 .. Announced |-> ByteAt(Mem, Win.off + q + j - 1)]
    OBVIOUS
  <2>1. processed + Announced <= Len(buf)
    BY DEF Whole
  <2>2. Sequence = [j \in 1 .. Announced |-> buf[processed + j]]
    <3> DEFINE n == Announced
    <3>1. n \in Nat /\ processed \in Nat /\ processed + n <= Len(buf)
      BY <1>1, <1>5, <2>1
    <3> HIDE DEF n
    <3>2. SubSeq(buf, processed + 1, processed + n) = [j \in 1 .. n |-> buf[processed + j]]
      BY <1>1, <3>1, PieceIs
    <3> QED  BY <3>2 DEF n, Sequence
  <2>3. \A j \in 1 .. Announced : buf[processed + j] = ByteAt(Mem, Win.off + q + j - 1)
    <3> SUFFICES ASSUME NEW j \in 1 .. Announced
                 PROVE  buf[processed + j] = ByteAt(Mem, Win.off + q + j - 1)
      OBVIOUS
    <3>1. processed + j \in 1 .. Len(buf)
      BY <1>1, <1>5, <2>1
    <3>2. buf[processed + j] = ByteAt(Mem, Win.off + Start + (processed + j) - 1)
      BY <3>1 DEF Window1
    <3>3. Win.off + Start + (processed + j) - 1 = Win.off + q + j - 1
      BY <1>1, <1>3, <1>5
    <3> QED  BY <3>2, <3>3
  <2> QED  BY <2>2, <2>3
<1> DEFINE Here == [j \in 1 .. SeqLen(ByteAt(Mem, Win.off + q)) |-> ByteAt(Mem, Win.off + q + j - 1)]
<1>8. /\ Malformed(Mem, Win, q, ReadTo) <=>
           Announced = 0 \/ (Announced > 1 /\ q + Announced <= ReadTo /\ ~Legal(Here))
      /\ Complete(Mem, Win, q, ReadTo) <=> Announced # 0 /\ q + Announced <= ReadTo
      /\ Behind(Mem, Win, q) = q + Announced
  BY <1>4, <1>5 DEF Malformed, Complete, Behind
<1>9. Whole => Sequence = Here
  BY <1>5, <1>7
<1> HIDE DEF q, Here
<1>10. Malformed(Mem, Win, q, ReadTo) <=>
         Announced = 0 \/ (Announced > 1 /\ Whole /\ ~Legal(Sequence))
  BY <1>6, <1>8, <1>9
<1>11. Complete(Mem, Win, q, ReadTo) <=> Announced # 0 /\ Whole
  BY <1>6, <1>8
<1> QED  BY <1>2, <1>3, <1>4, <1>5, <1>8, <1>10, <1>11 DEF q

\* A sequence that is legal and whole is passed.
LEMMA StringPasses ==
  ASSUME TInv, StringInv, OneWindow, PassSequence
  PROVE  StringInv' /\ AbsStep
<1> DEFINE q == Start + processed
<1>1. Window1 /\ Scanned /\ Shows /\ pc = "scan" /\ processed < Len(buf)
  BY DEF StringInv, PassSequence, Scanning
<1>2. UNCHANGED <<input, pc, current_cursor, current_offset, asked, got, fed, result, buf, end>>
      /\ processed' = processed + Announced
  BY DEF PassSequence, callbackVars, inputterVars, feederVars
<1>3. Mem' = Mem /\ Win' = Win /\ Cursors' = Cursors /\ ReadTo' = ReadTo /\ Start' = Start
      /\ Loading' = Loading
  BY <1>2 DEF Mem, Win, Cursors, ReadTo, Loading, Held, Start
<1>4. q \in Start .. ReadTo /\ q < ReadTo /\ Win.off + ReadTo <= Len(Mem) /\ ReadTo \in Nat
      /\ Announced \in Nat
  BY <1>1, SequenceHere
<1>5. ~Stops(Mem, Win, q, ReadTo) /\ Behind(Mem, Win, q) = q + Announced
  <2>1. Announced # 0 /\ Whole /\ (Announced > 1 => Legal(Sequence))
    BY DEF PassSequence
  <2> HIDE DEF q
  <2>2. /\ Malformed(Mem, Win, q, ReadTo) <=>
             Announced = 0 \/ (Announced > 1 /\ Whole /\ ~Legal(Sequence))
        /\ Complete(Mem, Win, q, ReadTo) <=> Announced # 0 /\ Whole
        /\ Behind(Mem, Win, q) = q + Announced
    BY <1>1, SequenceHere DEF q
  <2> QED  BY <2>1, <2>2 DEF Stops
<1>6. Mem \in Seq(Byte) /\ Win \in Cursor /\ processed \in Nat
  BY StringSetting
<1>7. Start \in Nat
  BY <1>1 DEF Window1
<1>8. Processed(Mem, Win, q, ReadTo) = Processed(Mem, Win, q + Announced, ReadTo)
  <2> HIDE DEF q
  <2>1. q \in 0 .. ReadTo
    BY <1>4, <1>7
  <2> QED  BY <1>4, <1>5, <1>6, <2>1, ProcessedStep
<1>9. q + Announced = Start + processed'
  BY <1>2, <1>4, <1>6, <1>7
<1>10. Window1'
  BY <1>1, <1>2, <1>3 DEF Window1
<1>11. Scanned'
  BY <1>1, <1>2, <1>3, <1>8, <1>9 DEF Scanned
<1>12. Shows'
  BY <1>1, <1>2, <1>3 DEF Shows
<1> QED  BY <1>2, <1>10, <1>11, <1>12 DEF StringInv, AbsStep

\* A round in which the scan stops at q ends the check if the sequence
\* there is malformed, or can not become whole.
LEMMA Rejected ==
  ASSUME TInv, OneWindow, Window1, Scanned, Shows, pc = "scan", processed < Len(buf),
         Stops(Mem, Win, Start + processed, ReadTo),
         Malformed(Mem, Win, Start + processed, ReadTo) \/ end
  PROVE  Verdict(input) = "malformed"
<1> DEFINE q == Start + processed
           w == ReadTo
<1>1. /\ q \in Start .. w /\ q < w /\ Win.off + w <= Len(Mem) /\ w \in Nat /\ buf # <<>>
  BY SequenceHere
<1>2. Mem \in Seq(Byte) /\ Win \in Cursor /\ processed \in Nat /\ Win.size \in Nat /\ Win.off \in Nat
      /\ Len(Mem) \in Nat
  BY StringSetting
<1>3. ~Loading
  BY DEF Loading
<1>4. Start \in 0 .. Win.size /\ w \in Start .. Win.size /\ Start < Win.size /\ w = BufferEnd(Win, Start)
      /\ BufferWalk(Mem, Win, Start) = Processed(Mem, Win, q, w)
  BY <1>1, <1>3, BufferInside DEF Scanned
<1> HIDE DEF q, w
<1>5. Stops(Mem, Win, q, w) /\ (Malformed(Mem, Win, q, w) \/ end)
  BY DEF q, w
<1>6. q \in 0 .. w /\ Start \in Nat
  BY <1>1, <1>4
<1>7. Processed(Mem, Win, q, w) = q
  BY <1>1, <1>2, <1>5, <1>6, ProcessedStep
<1>8. ~ReadsPast(Mem, Win, Start)
  BY <1>1, <1>2, <1>4 DEF ReadsPast, TotalSize
<1>9. ResultFrom(Mem, Win, Start) = "malformed"
  <2>1. CASE Malformed(Mem, Win, q, w) \/ q = Start
    <3>1. Rejects(Mem, Win, Start)
      BY <1>4, <1>7, <2>1 DEF Rejects
    <3> QED  BY <1>2, <1>4, <1>8, <3>1, ResultStep
  <2>2. CASE ~Malformed(Mem, Win, q, w) /\ q # Start
    <3>1. end /\ w = Win.size
      BY <1>5, <2>2 DEF Window1, w
    <3>2. ~Rejects(Mem, Win, Start)
      BY <1>4, <1>7, <2>2 DEF Rejects
    <3>3. ResultFrom(Mem, Win, Start) = ResultFrom(Mem, Win, q)
      BY <1>2, <1>4, <1>7, <1>8, <3>2, ResultStep
    <3>4. q \in 0 .. Win.size /\ q < Win.size
      BY <1>1, <1>2, <1>6, <3>1
    <3>5. BufferEnd(Win, q) = w
      <4>1. q >= Start /\ ~(Start + Utf8BufLen < Win.size)
        BY <1>1, <1>2, <1>4, <3>1, Utf8Assumption DEF BufferEnd
      <4>2. ~(q + Utf8BufLen < Win.size)
        BY <1>2, <1>6, <3>4, <4>1, Utf8Assumption
      <4> QED  BY <3>1, <4>2 DEF BufferEnd
    <3>6. BufferWalk(Mem, Win, q) = q /\ ~ReadsPast(Mem, Win, q)
      BY <1>1, <1>2, <1>7, <3>5 DEF BufferWalk, ReadsPast, TotalSize
    <3>7. Rejects(Mem, Win, q)
      BY <3>6 DEF Rejects
    <3>8. ResultFrom(Mem, Win, q) = "malformed"
      BY <1>2, <3>4, <3>6, <3>7, ResultStep
    <3> QED  BY <3>3, <3>8
  <2> QED  BY <2>1, <2>2
<1> QED  BY <1>9 DEF Shows

\* A malformed sequence rejects the string, which has no text.
LEMMA StringMalforms ==
  ASSUME TInv, StringInv, OneWindow, Malforms
  PROVE  StringInv' /\ AbsStep
<1>1. Window1 /\ Scanned /\ Shows /\ pc = "scan" /\ processed < Len(buf)
  BY DEF StringInv, Malforms, Scanning
<1>2. result' = "malformed" /\ UNCHANGED <<input, fed>> /\ result = "running"
  BY DEF Malforms, Return, Scanning, Checking
<1>3. Malformed(Mem, Win, Start + processed, ReadTo)
  <2>1. Announced = 0 \/ (Announced > 1 /\ Whole /\ ~Legal(Sequence))
    BY DEF Malforms
  <2> QED  BY <1>1, <2>1, SequenceHere
<1>4. Verdict(input) = "malformed"
  BY <1>1, <1>3, Rejected DEF Stops
<1> QED  BY <1>2, <1>4 DEF StringInv, Checking, AbsStep, Abs!Next, Abs!Reject

\* A sequence that may be cut ends the scan.
LEMMA StringWaits ==
  ASSUME TInv, StringInv, OneWindow, Waits
  PROVE  StringInv' /\ AbsStep
<1>1. Window1 /\ Scanned /\ Shows /\ pc = "scan" /\ processed < Len(buf) /\ result = "running"
  BY DEF StringInv, Waits, Scanning, Checking
<1>2. UNCHANGED <<input, current_cursor, current_offset, asked, got, fed, buf, processed, end>>
  BY DEF Waits, inputterVars, utf8Vars
<1> DEFINE q == Start + processed
<1>3. /\ ~Complete(Mem, Win, q, ReadTo) /\ ~Malformed(Mem, Win, q, ReadTo)
  <2>1. Announced # 0 /\ ~Whole
    BY DEF Waits
  <2>2. /\ Malformed(Mem, Win, q, ReadTo) <=>
             Announced = 0 \/ (Announced > 1 /\ Whole /\ ~Legal(Sequence))
        /\ Complete(Mem, Win, q, ReadTo) <=> Announced # 0 /\ Whole
    BY <1>1, SequenceHere
  <2> QED  BY <2>1, <2>2
<1>4. Stops(Mem, Win, q, ReadTo)
  BY <1>3 DEF Stops
<1>5. CASE end
  <2>1. result' = "malformed"
    BY <1>5 DEF Waits, Return
  <2>2. Verdict(input) = "malformed"
    BY <1>1, <1>4, <1>5, Rejected
  <2> QED  BY <1>1, <1>2, <2>1, <2>2 DEF StringInv, Checking, AbsStep, Abs!Next, Abs!Reject
<1>6. CASE ~end
  <2>1. pc' = "output" /\ result' = result
    BY <1>6 DEF Waits
  <2>2. Mem' = Mem /\ Win' = Win /\ Cursors' = Cursors /\ ReadTo' = ReadTo /\ Start' = Start
        /\ ~Loading' /\ ~Loading
    BY <1>1, <1>2, <2>1 DEF Mem, Win, Cursors, ReadTo, Loading, Held, Start
  <2>3. Processed(Mem, Win, q, ReadTo) = q
    <3>1. /\ q \in Start .. ReadTo /\ Win.off + ReadTo <= Len(Mem) /\ ReadTo \in Nat
      BY <1>1, SequenceHere
    <3> HIDE DEF q
    <3>2. q \in 0 .. ReadTo
      BY <1>1, <3>1 DEF Window1
    <3> QED  BY <1>4, <3>1, <3>2, StringSetting, ProcessedStep DEF q
  <2>4. Window1'
    BY <1>1, <1>2, <2>1, <2>2 DEF Window1
  <2>5. Scanned'
    BY <1>1, <1>2, <1>3, <1>6, <2>1, <2>2, <2>3 DEF Scanned
  <2>6. Shows'
    BY <1>1, <1>2, <2>2 DEF Shows
  <2> QED  BY <1>2, <2>1, <2>4, <2>5, <2>6 DEF StringInv, AbsStep
<1> QED  BY <1>5, <1>6

\* So does the end of buf.
LEMMA StringScanEnds ==
  ASSUME TInv, StringInv, OneWindow, ScanEnds
  PROVE  StringInv' /\ AbsStep
<1>1. Window1 /\ Scanned /\ Shows /\ pc = "scan" /\ processed = Len(buf)
  BY DEF StringInv, ScanEnds
<1>2. UNCHANGED <<input, current_cursor, current_offset, asked, got, fed, result, buf, processed, end>>
      /\ pc' = "output"
  BY DEF ScanEnds, inputterVars, feederVars, utf8Vars
<1>3. Mem' = Mem /\ Win' = Win /\ Cursors' = Cursors /\ ReadTo' = ReadTo /\ Start' = Start
      /\ ~Loading' /\ ~Loading
  BY <1>1, <1>2 DEF Mem, Win, Cursors, ReadTo, Loading, Held, Start
<1>4. buf # <<>> => /\ BufferWalk(Mem, Win, Start) = Start + processed
                    /\ ~Malformed(Mem, Win, Start + processed, ReadTo)
  <2> SUFFICES ASSUME buf # <<>>
               PROVE  /\ BufferWalk(Mem, Win, Start) = Start + processed
                      /\ ~Malformed(Mem, Win, Start + processed, ReadTo)
    OBVIOUS
  <2> DEFINE w == ReadTo
  <2>1. w = Start + processed /\ w \in Nat /\ Win.off + w <= Len(Mem)
    BY <1>1, <1>3, BufferInside
  <2> HIDE DEF w
  <2>2. Stops(Mem, Win, w, w) /\ ~Malformed(Mem, Win, w, w)
    BY <2>1 DEF Stops, Complete, Malformed
  <2>3. Mem \in Seq(Byte) /\ Win \in Cursor /\ w \in 0 .. w
    BY <2>1, StringSetting
  <2>4. Processed(Mem, Win, w, w) = w
    BY <2>1, <2>2, <2>3, ProcessedStep
  <2>5. Processed(Mem, Win, Start + processed, w) = BufferWalk(Mem, Win, Start)
    BY <1>1 DEF Scanned, w
  <2> QED  BY <2>1, <2>2, <2>4, <2>5 DEF w
<1>5. Window1'
  BY <1>1, <1>2, <1>3 DEF Window1
<1>6. Scanned'
  BY <1>1, <1>2, <1>3, <1>4 DEF Scanned
<1>7. Shows'
  BY <1>1, <1>2, <1>3 DEF Shows
<1> QED  BY <1>2, <1>5, <1>6, <1>7 DEF StringInv, AbsStep

\* The memory as Streams extends it to say what is shown.
LEMMA ExtendedSetting ==
  ASSUME TInv, OneWindow
  PROVE  /\ Extended(input) \in Seq(Byte) /\ Continues(Extended(input), Mem)
         /\ Validates(Extended(input), Win)
<1> DEFINE e == Extended(input)
           m == Win.off + Win.size
           zeros == [n \in 1 .. m |-> 0]
<1>1. Mem \in Seq(Byte) /\ Len(Mem) \in Nat /\ Win \in Cursor /\ Win.off \in Nat /\ Win.size \in Nat
      /\ m \in Nat
  BY StringSetting
<1>2. e = Mem \o zeros
  <2>1. Win.off = input.cursors[1].off /\ Win.size = input.cursors[1].size
    BY DEF Win, Value
  <2> QED  BY <2>1 DEF Extended, Mem
<1> HIDE DEF e, m
<1>3. zeros \in Seq(Byte) /\ Len(zeros) = m
  <2>1. 0 \in Byte
    BY Bytes
  <2>2. \A n \in 1 .. m : zeros[n] \in Byte
    BY <2>1
  <2>3. zeros = [n \in 1 .. m |-> zeros[n]]
    OBVIOUS
  <2> HIDE DEF zeros
  <2> QED  BY <1>1, <2>2, <2>3
<1> HIDE DEF zeros
<1>4. e \in Seq(Byte) /\ Len(e) = Len(Mem) + m
      /\ \A n \in 1 .. Len(Mem) + m : e[n] = IF n <= Len(Mem) THEN Mem[n] ELSE zeros[n - Len(Mem)]
  <2>1. Mem \in Seq(Byte) /\ zeros \in Seq(Byte)
    BY <1>1, <1>3
  <2> QED  BY <1>2, <1>3, <2>1, ConcatProperties
<1>5. Len(Mem) <= Len(e)
  BY <1>1, <1>4
<1>6. \A o \in 0 .. Len(Mem) - 1 : ByteAt(e, o) = ByteAt(Mem, o)
  <2> SUFFICES ASSUME NEW o \in 0 .. Len(Mem) - 1
               PROVE  ByteAt(e, o) = ByteAt(Mem, o)
    OBVIOUS
  <2>1. o + 1 \in 1 .. Len(Mem) + m /\ o + 1 <= Len(Mem)
    BY <1>1
  <2> QED  BY <1>4, <2>1 DEF ByteAt
<1>7. Validates(e, Win)
  BY <1>1, <1>4 DEF Validates, TotalSize, m
<1> QED  BY <1>4, <1>5, <1>6, <1>7 DEF Continues, e

\* What is left to show after the buffer was output.
LEMMA RestShown ==
  ASSUME TInv, OneWindow, Window1, Scanned, Shows, pc = "output", buf # <<>>
  PROVE  /\ Verdict(input) = ResultFrom(Mem, Win, Start + processed)
         /\ Verdict(input) = "ok" =>
              LET rest == EchoFrom(Extended(input), Win, Start + processed)
              IN  /\ BytesAt(Extended(input), rest) \in Seq(Shown(Extended(input)))
                  /\ (fed \o buf) \o BytesAt(Extended(input), rest) = Text(input)
<1> DEFINE e == Extended(input)
           q == Start + processed
           w == ReadTo
           S == Shown(e)
<1>1. /\ Mem \in Seq(Byte) /\ Len(Mem) \in Nat /\ Win \in Cursor /\ processed \in Nat
      /\ buf \in Seq(Byte) /\ Win.size \in Nat /\ Win.off \in Nat /\ fed \in Seq(Byte)
      /\ processed <= Len(buf) /\ Len(buf) \in Nat
  BY StringSetting
<1>2. e \in Seq(Byte) /\ Continues(e, Mem) /\ Validates(e, Win)
  BY ExtendedSetting
<1>3. ~Loading
  BY DEF Loading
<1>4. Start \in 0 .. Win.size /\ w \in Start .. Win.size /\ Start < Win.size
      /\ Win.off + w <= Len(Mem) /\ w = Start + Len(buf)
  BY <1>3, BufferInside
<1>5. w = BufferEnd(Win, Start) /\ BufferWalk(Mem, Win, Start) = q /\ ~Malformed(Mem, Win, q, w)
  BY DEF Scanned
<1>6. q \in Start .. w /\ Start \in Nat /\ q \in 0 .. Win.size
  BY <1>1, <1>4
<1>7. \A n \in 1 .. Len(buf) : buf[n] = ByteAt(Mem, Win.off + Start + n - 1)
  BY DEF Window1
<1>8. Verdict(input) = ResultFrom(Mem, Win, Start)
      /\ (Verdict(input) = "ok" => fed \o BytesAt(e, EchoFrom(e, Win, Start)) = Text(input))
  BY DEF Shows
<1> HIDE DEF e, q, w
<1>9. ~ReadsPast(Mem, Win, Start)
  BY <1>1, <1>4, <1>5 DEF ReadsPast, TotalSize
<1>10. CASE q = Start
  <2>1. Rejects(Mem, Win, Start)
    BY <1>5, <1>10 DEF Rejects
  <2>2. ResultFrom(Mem, Win, Start) = "malformed"
    BY <1>1, <1>4, <1>9, <2>1, ResultStep
  <2> QED  BY <1>8, <1>10, <2>2 DEF q
<1>11. CASE q # Start
  <2>1. ~Rejects(Mem, Win, Start)
    BY <1>5, <1>11 DEF Rejects
  <2>2. ResultFrom(Mem, Win, Start) = ResultFrom(Mem, Win, q)
    <3>1. Start # Win.size
      BY <1>1, <1>4
    <3> QED  BY <1>1, <1>4, <1>5, <1>9, <2>1, <3>1, ResultStep
  <2>3. BufferWalk(e, Win, Start) = q
    <3>1. w \in Nat /\ Start \in 0 .. w
      BY <1>1, <1>4, <1>6
    <3>2. Processed(e, Win, Start, w) = Processed(Mem, Win, Start, w)
      BY <1>1, <1>2, <1>4, <3>1, ProcessedSame
    <3> QED  BY <1>5, <3>2 DEF BufferWalk
  <2> DEFINE first == BufferOffsets(Win, Start)
             rest == EchoFrom(e, Win, q)
  <2>4. EchoFrom(e, Win, Start) = first \o rest
    <3>1. Start # Win.size
      BY <1>1, <1>4
    <3> QED  BY <1>1, <1>2, <1>4, <1>11, <2>3, <3>1, EchoStep
  <2>5. first \in Seq(Nat) /\ rest \in Seq(Nat)
    BY <1>1, <1>2, <1>4, <1>6, BufferOffsetsType, EchoType
  <2>6. BytesAt(e, first) = buf
    <3>1. Win.off + BufferEnd(Win, Start) <= Len(Mem) /\ Len(buf) = BufferEnd(Win, Start) - Start
      BY <1>1, <1>4, <1>5, <1>6
    <3> QED  BY <1>1, <1>2, <1>4, <1>7, <3>1, BytesOfBuffer, SMTT(30)
  <2> HIDE DEF first, rest
  <2>7. BytesAt(e, first \o rest) = buf \o BytesAt(e, rest)
    BY <2>5, <2>6, BytesAtConcat
  <2>8. BytesAt(e, rest) \in Seq(S)
    BY <2>5, BytesAtType
  <2>9. fed \o (buf \o BytesAt(e, rest)) = (fed \o buf) \o BytesAt(e, rest)
    <3> DEFINE z == BytesAt(e, rest)
    <3>1. Byte \subseteq S
      BY DEF Shown
    <3>2. fed \in Seq(S) /\ buf \in Seq(S) /\ z \in Seq(S)
      BY <1>1, <2>8, <3>1, SeqMonotonic
    <3> HIDE DEF S, z
    <3> QED  BY <3>2, ConcatAssociative
  <2> HIDE DEF S
  <2>10. Verdict(input) = "ok" => (fed \o buf) \o BytesAt(e, rest) = Text(input)
    BY <1>8, <2>4, <2>7, <2>9
  <2> QED  BY <1>8, <2>2, <2>8, <2>10 DEF e, q, rest, S
<1> QED  BY <1>10, <1>11

\* What was scanned is fed, and buf keeps the rest.
LEMMA StringOutput ==
  ASSUME TInv, StringInv, OneWindow, Output
  PROVE  StringInv' /\ AbsStep
<1>1. Window1 /\ Scanned /\ Shows /\ pc = "output" /\ result = "running" /\ ~Loading
  BY DEF StringInv, Output, Checking, Loading
<1>2. UNCHANGED <<input, current_cursor, current_offset, asked, got, end>>
  BY DEF Output, inputterVars
<1>3. Mem' = Mem /\ Win' = Win /\ Cursors' = Cursors /\ ReadTo' = ReadTo
  BY <1>2 DEF Mem, Win, Cursors, ReadTo
<1>4. Start \in Nat /\ ReadTo = Start + Len(buf) /\ ReadTo \in Nat
  BY <1>1, BufferInside DEF Window1
<1>5. buf \in Seq(Byte) /\ Len(buf) \in Nat /\ processed \in 0 .. Len(buf) /\ fed \in Seq(Byte)
      /\ Win.off \in Nat
  BY StringSetting
<1>6. CASE Refuses /\ UNCHANGED <<buf, processed>>
  <2>1. result' = "refused" /\ fed' = fed
    BY <1>6 DEF Refuses, Return
  <2> QED  BY <1>1, <1>2, <2>1 DEF StringInv, Checking, AbsStep, Abs!Next, Abs!Refused
<1>7. CASE /\ Takes(buf) /\ pc' = "round"
           /\ buf' = SubSeq(buf, processed + 1, Len(buf)) /\ processed' = 0
  <2>1. fed' = fed \o buf /\ result' = result /\ pc' = "round"
    BY <1>7 DEF Takes
  <2>2. Len(buf') = Len(buf) - processed
        /\ \A n \in 1 .. Len(buf) - processed : buf'[n] = buf[processed + n]
    <3> DEFINE n == Len(buf) - processed
    <3>1. n \in Nat /\ processed \in Nat /\ processed + n <= Len(buf) /\ processed + n = Len(buf)
      BY <1>5
    <3> HIDE DEF n
    <3>2. SubSeq(buf, processed + 1, processed + n) = [j \in 1 .. n |-> buf[processed + j]]
      BY <1>5, <3>1, PieceIs
    <3>3. buf' = [j \in 1 .. n |-> buf[processed + j]]
      BY <1>7, <3>1, <3>2
    <3>4. Len(buf') = n
      BY <3>1, <3>3
    <3> QED  BY <3>3, <3>4 DEF n
  <2>3. ~Loading' /\ Start' = Start + processed
    <3>1. ~Loading'
      BY <2>1 DEF Loading
    <3>2. Start' = ReadTo - Len(buf')
      <4>1. Len(buf') \in Nat
        BY <1>5, <2>2
      <4> QED  BY <1>3, <3>1, <4>1 DEF Start, Held
    <3> QED  BY <1>4, <1>5, <2>2, <3>1, <3>2
  <2>4. \A n \in 1 .. Len(buf') : buf'[n] = ByteAt(Mem, Win.off + Start' + n - 1)
    <3> SUFFICES ASSUME NEW n \in 1 .. Len(buf) - processed
                 PROVE  buf'[n] = ByteAt(Mem, Win.off + Start' + n - 1)
      BY <2>2
    <3>1. processed + n \in 1 .. Len(buf)
      BY <1>5
    <3>2. buf[processed + n] = ByteAt(Mem, Win.off + Start + (processed + n) - 1)
      BY <1>1, <3>1 DEF Window1
    <3>3. Win.off + Start + (processed + n) - 1 = Win.off + Start' + n - 1
      BY <1>4, <1>5, <2>3
    <3> QED  BY <2>2, <3>2, <3>3
  <2>5. Window1'
    <3>1. Start' \in Nat
      BY <1>4, <1>5, <2>3
    <3> QED  BY <1>1, <1>2, <1>3, <2>1, <2>3, <2>4, <3>1 DEF Window1
  <2>6. Scanned'
    BY <2>1 DEF Scanned
  <2>7. CASE buf = <<>>
    <3>1. processed = 0 /\ Start' = Start /\ fed' = fed
      <4>1. Len(buf) = 0
        BY <2>7
      <4>2. processed = 0
        BY <1>5, <4>1
      <4>3. fed \o buf = fed
        BY <1>5, <2>7, ConcatEmptySeq
      <4> QED  BY <1>4, <2>1, <2>3, <4>2, <4>3
    <3>2. Shows'
      BY <1>1, <1>2, <1>3, <3>1 DEF Shows
    <3> QED  BY <1>2, <2>1, <2>5, <2>6, <3>1, <3>2 DEF StringInv, AbsStep
  <2>8. CASE buf # <<>>
    <3> DEFINE rest == BytesAt(Extended(input), EchoFrom(Extended(input), Win, Start + processed))
               S == Shown(Extended(input))
    <3>1. /\ Verdict(input) = ResultFrom(Mem, Win, Start + processed)
          /\ Verdict(input) = "ok" => rest \in Seq(S) /\ (fed \o buf) \o rest = Text(input)
      BY <1>1, <2>8, RestShown
    <3>2. Shows'
      BY <1>2, <1>3, <2>1, <2>3, <3>1 DEF Shows
    <3> HIDE DEF rest, S
    <3>3. fed' # fed
      <4>1. Len(fed \o buf) = Len(fed) + Len(buf)
        BY <1>5, ConcatProperties
      <4>2. Len(buf) # 0
        BY <1>5, <2>8, EmptySeq
      <4>3. Len(fed) \in Nat
        BY <1>5, LenProperties
      <4>4. Len(fed \o buf) # Len(fed)
        BY <1>5, <4>1, <4>2, <4>3
      <4> QED  BY <2>1, <4>4
    <3>4. IsPrefix(fed, fed')
      BY <1>5, <2>1, PrefixOfConcat
    <3>5. Verdict(input) = "ok" => IsPrefix(fed', Text(input))
      <4> SUFFICES ASSUME Verdict(input) = "ok" PROVE IsPrefix(fed', Text(input))
        OBVIOUS
      <4>1. Byte \subseteq S
        BY DEF Shown, S
      <4>2. fed \o buf \in Seq(Byte)
        BY <1>5, ConcatProperties
      <4>3. fed \o buf \in Seq(S) /\ rest \in Seq(S)
        BY <3>1, <4>1, <4>2, SeqMonotonic
      <4> DEFINE u == fed \o buf
      <4> HIDE DEF u
      <4>4. IsPrefix(u, u \o rest)
        <5>1. u \in Seq(S) /\ rest \in Seq(S)
          BY <4>3 DEF u
        <5> QED  BY <5>1, PrefixOfConcat
      <4> QED  BY <2>1, <3>1, <4>4 DEF u
    <3>6. Abs!Feed
      <4>1. Abs!IsPrefix(fed, fed') /\ (Verdict(input) = "ok" => Abs!IsPrefix(fed', Text(input)))
        BY <3>4, <3>5 DEF IsPrefix, Abs!IsPrefix
      <4> QED  BY <1>1, <1>2, <2>1, <3>3, <4>1 DEF Abs!Feed
    <3> QED  BY <1>2, <2>1, <2>5, <2>6, <3>2, <3>6 DEF StringInv, AbsStep, Abs!Next
  <2> QED  BY <2>7, <2>8
<1> QED  BY <1>6, <1>7 DEF Output

\* At the end of the window everything is fed.
LEMMA StringEnds ==
  ASSUME TInv, StringInv, OneWindow, Utf8Ends
  PROVE  StringInv' /\ AbsStep
<1>1. Window1 /\ Shows /\ pc = "round" /\ result = "running" /\ ~Loading /\ end
  BY DEF StringInv, Utf8Ends, Checking, Loading
<1>2. result' = "ok" /\ UNCHANGED <<input, fed>>
  BY DEF Utf8Ends, Return
<1>3. Start = Win.size /\ Win.size \in Nat
  <2>1. ReadTo = Start + Len(buf) /\ Start \in 0 .. Win.size
    BY <1>1, BufferInside
  <2>2. buf = <<>>
    BY DEF Utf8Ends
  <2>3. Len(buf) = 0 /\ ReadTo = Win.size /\ Win.size \in Nat
    BY <1>1, <2>2, StringSetting DEF Window1
  <2> QED  BY <2>1, <2>3
<1>4. Mem \in Seq(Byte) /\ Win \in Cursor /\ fed \in Seq(Byte) /\ Win.size \in 0 .. Win.size
  BY <1>3, StringSetting
<1>5. Verdict(input) = "ok"
  BY <1>1, <1>3, <1>4, ResultStep DEF Shows
<1>6. fed = Text(input)
  <2> DEFINE e == Extended(input)
  <2>1. e \in Seq(Byte) /\ Validates(e, Win)
    BY ExtendedSetting
  <2>2. fed \o BytesAt(e, EchoFrom(e, Win, Start)) = Text(input)
    BY <1>1, <1>5 DEF Shows
  <2> HIDE DEF e
  <2>3. EchoFrom(e, Win, Start) = <<>>
    BY <1>3, <1>4, <2>1, EchoStep
  <2>4. BytesAt(e, <<>>) = <<>>
    BY DEF BytesAt
  <2>5. fed \o <<>> = fed
    BY <1>4, ConcatEmptySeq
  <2> QED  BY <2>2, <2>3, <2>4, <2>5
<1> QED  BY <1>1, <1>2, <1>5, <1>6 DEF StringInv, Checking, AbsStep, Abs!Next, Abs!Succeed

\* At the start nothing is read or fed.
LEMMA StringBegins ==
  ASSUME TInv, Init, OneWindow
  PROVE  StringInv
<1>1. current_cursor = 1 /\ current_offset = 0 /\ fed = <<>> /\ buf = <<>> /\ end = FALSE /\ pc = "round"
  BY DEF Init, CallbacksInit, Utf8Init, OneWindow
<1>2. ReadTo = 0 /\ Start = 0 /\ ~Loading
  <2>1. ~Loading /\ ReadTo = 0
    BY <1>1 DEF Loading, ReadTo
  <2>2. Len(buf) = 0
    BY <1>1
  <2>3. Held = 0
    BY <2>1, <2>2 DEF Held
  <2> QED  BY <2>1, <2>3 DEF Start
<1>3. Win.size \in Nat /\ Len(buf) = 0
  BY <1>1, StringSetting
<1>4. Window1
  BY <1>1, <1>2, <1>3 DEF Window1, OneWindow
<1>5. Scanned
  BY <1>1 DEF Scanned
<1>6. Shows
  <2> DEFINE e == Extended(input)
  <2>1. Verdict(input) = ResultFrom(Mem, Win, Start)
    BY <1>2 DEF Verdict, OneWindow, Mem, Win, Utf8Result, ResultFrom
  <2>2. EchoFrom(e, Win, Start) = Utf8Echo(e, Win)
    BY <1>2 DEF EchoFrom, Utf8Echo
  <2>3. BytesAt(e, Utf8Echo(e, Win)) = Text(input)
    BY DEF BytesAt, Text, StringText, OneWindow, Win
  <2>4. e \in Seq(Byte) /\ Validates(e, Win) /\ Win \in Cursor /\ 0 \in 0 .. Win.size
    BY <1>3, ExtendedSetting, StringSetting
  <2> HIDE DEF e
  <2>5. EchoFrom(e, Win, 0) \in Seq(Nat)
    BY <2>4, EchoType
  <2>6. BytesAt(e, EchoFrom(e, Win, Start)) \in Seq(Shown(e))
    BY <1>2, <2>5, BytesAtType
  <2>7. fed \o BytesAt(e, EchoFrom(e, Win, Start)) = BytesAt(e, EchoFrom(e, Win, Start))
    BY <1>1, <2>6, ConcatEmptySeq
  <2> QED  BY <2>1, <2>2, <2>3, <2>7 DEF Shows, e
<1> QED  BY <1>4, <1>5, <1>6 DEF StringInv
-----------------------------------------------------------------------------
(* The register of bech32m_encode and the groups of five bits. *)

\* What is left in the register of a byte of which n bits are not grouped.
Reg(b, n) == IF n = 0 THEN 0 ELSE ByteShifted(b, 8 - n)

\* Byte n of bytes, counted from 0, as Groups reads it.
Nth(bytes, n) == IF n < Len(bytes) THEN bytes[n + 1] ELSE 0

\* Five bits of two bytes, from the last n bits of the first on.
Five(b, c, n) == ((256 * b + c) \div (8 * Power(n))) % 32

\* The group that begins with the last n bits of byte u - 1.
LEMMA GroupAt ==
  ASSUME NEW bytes, NEW g \in Nat, NEW u \in Nat, NEW n \in 0 .. 7, 5 * g + n = 8 * u
  PROVE  Group(bytes, g + 1) =
           IF n = 0 THEN Five(Nth(bytes, u), Nth(bytes, u + 1), 8)
           ELSE Five(Nth(bytes, u - 1), Nth(bytes, u), n)
<1> DEFINE first == (5 * (g + 1 - 1)) \div 8
           past == (5 * (g + 1 - 1)) % 8
<1>1. Group(bytes, g + 1) =
        ((256 * Nth(bytes, first) + Nth(bytes, first + 1)) \div 2^(11 - past)) % 32
  BY DEF Group, Nth
<1>2. 5 * (g + 1 - 1) = 8 * u - n
  OBVIOUS
<1>3. CASE n = 0
  <2>1. first = u /\ past = 0
    BY <1>2, <1>3
  <2> HIDE DEF first, past
  <2>2. 11 - past = 11 /\ 2^11 = 2048 /\ 8 * Power(8) = 2048
    BY <2>1, Powers
  <2> QED  BY <1>1, <1>3, <2>1, <2>2 DEF Five
<1>4. ASSUME NEW v \in 1 .. 7, n = v PROVE first = u - 1 /\ past = 8 - v /\ first + 1 = u
  <2>1. first = u - 1 /\ past = 8 - v
    BY <1>2, <1>4
  <2> QED  BY <2>1
<1>5. ASSUME NEW v \in 1 .. 7 PROVE 2^(3 + v) = 8 * Power(v)
  <2>1. CASE v = 1  BY <2>1, Powers
  <2>2. CASE v = 2  BY <2>2, Powers
  <2>3. CASE v = 3  BY <2>3, Powers
  <2>4. CASE v = 4  BY <2>4, Powers
  <2>5. CASE v = 5  BY <2>5, Powers
  <2>6. CASE v = 6  BY <2>6, Powers
  <2>7. CASE v = 7  BY <2>7, Powers
  <2> QED  BY <2>1, <2>2, <2>3, <2>4, <2>5, <2>6, <2>7
<1>6. CASE n # 0
  <2>1. n \in 1 .. 7
    BY <1>6
  <2>2. first = u - 1 /\ past = 8 - n /\ first + 1 = u
    BY <1>4, <2>1
  <2>3. 11 - past = 3 + n
    BY <2>1, <2>2
  <2> HIDE DEF first, past
  <2>4. 2^(11 - past) = 8 * Power(n)
    BY <1>5, <2>1, <2>3
  <2> QED  BY <1>1, <1>6, <2>2, <2>4 DEF Five
<1> QED  BY <1>3, <1>6

\* It is what the register has, if it has a whole group.
LEMMA RegGroup ==
  ASSUME NEW b \in 0 .. 255, NEW c \in 0 .. 255, NEW n \in 5 .. 7
  PROVE  /\ Five(b, c, n) = Reg(b, n) \div 8
         /\ ByteShifted(Reg(b, n), 5) = Reg(b, n - 5)
<1>1. CASE n = 5
  <2>1. Reg(b, n) = (b * 8) % 256 /\ 8 * Power(n) = 256 /\ Reg(b, n - 5) = 0
    BY <1>1, Powers DEF Reg, ByteShifted
  <2>2. (256 * b + c) \div 256 = b
    OBVIOUS
  <2>3. (b * 8) % 256 = 8 * (b % 32)
    OBVIOUS
  <2>4. (256 * b + c) \div (8 * Power(n)) = b /\ Reg(b, n) = 8 * (b % 32)
    BY <2>1, <2>2, <2>3
  <2>5. ByteShifted(Reg(b, n), 5) = (8 * (b % 32) * 32) % 256
    BY <2>4, Powers DEF ByteShifted
  <2>6. (8 * (b % 32) * 32) % 256 = 0 /\ (8 * (b % 32)) \div 8 = b % 32
    OBVIOUS
  <2> QED  BY <2>1, <2>4, <2>5, <2>6 DEF Five
<1>2. CASE n = 6
  <2>1. Reg(b, n) = (b * 4) % 256 /\ 8 * Power(n) = 512 /\ Reg(b, n - 5) = (b * 128) % 256
    BY <1>2, Powers DEF Reg, ByteShifted
  <2>2. (256 * b + c) \div 512 = b \div 2
    OBVIOUS
  <2>3. (b * 4) % 256 = 4 * (b % 64)
    OBVIOUS
  <2>4. (256 * b + c) \div (8 * Power(n)) = b \div 2 /\ Reg(b, n) = 4 * (b % 64)
    BY <2>1, <2>2, <2>3
  <2>5. ByteShifted(Reg(b, n), 5) = (4 * (b % 64) * 32) % 256
    BY <2>4, Powers DEF ByteShifted
  <2>6. (4 * (b % 64) * 32) % 256 = (b * 128) % 256 /\ (4 * (b % 64)) \div 8 = (b \div 2) % 32
    OBVIOUS
  <2> QED  BY <2>1, <2>4, <2>5, <2>6 DEF Five
<1>3. CASE n = 7
  <2>1. Reg(b, n) = (b * 2) % 256 /\ 8 * Power(n) = 1024 /\ Reg(b, n - 5) = (b * 64) % 256
    BY <1>3, Powers DEF Reg, ByteShifted
  <2>2. (256 * b + c) \div 1024 = b \div 4
    OBVIOUS
  <2>3. (b * 2) % 256 = 2 * (b % 128)
    OBVIOUS
  <2>4. (256 * b + c) \div (8 * Power(n)) = b \div 4 /\ Reg(b, n) = 2 * (b % 128)
    BY <2>1, <2>2, <2>3
  <2>5. ByteShifted(Reg(b, n), 5) = (2 * (b % 128) * 32) % 256
    BY <2>4, Powers DEF ByteShifted
  <2>6. (2 * (b % 128) * 32) % 256 = (b * 64) % 256 /\ (2 * (b % 128)) \div 8 = (b \div 4) % 32
    OBVIOUS
  <2> QED  BY <2>1, <2>4, <2>5, <2>6 DEF Five
<1> QED  BY <1>1, <1>2, <1>3

\* Else it is that and the first bits of the next byte.
LEMMA RegAndByte ==
  ASSUME NEW b \in 0 .. 255, NEW c \in 0 .. 255, NEW n \in 1 .. 4
  PROVE  Five(b, c, n) = (Reg(b, n) \div 8) + (c \div Power(3 + n))
<1>1. CASE n = 1
  <2>1. Reg(b, n) = (b * 128) % 256 /\ 8 * Power(n) = 16 /\ Power(3 + n) = 16
    BY <1>1, Powers DEF Reg, ByteShifted
  <2>2. ((b * 128) % 256) \div 8 = 16 * (b % 2)
    OBVIOUS
  <2>3. ((256 * b + c) \div 16) % 32 = 16 * (b % 2) + (c \div 16)
    OBVIOUS
  <2> QED  BY <2>1, <2>2, <2>3, ZenonT(60) DEF Five
<1>2. CASE n = 2
  <2>1. Reg(b, n) = (b * 64) % 256 /\ 8 * Power(n) = 32 /\ Power(3 + n) = 32
    BY <1>2, Powers DEF Reg, ByteShifted
  <2>2. ((b * 64) % 256) \div 8 = 8 * (b % 4)
    OBVIOUS
  <2>3. ((256 * b + c) \div 32) % 32 = 8 * (b % 4) + (c \div 32)
    OBVIOUS
  <2> QED  BY <2>1, <2>2, <2>3, ZenonT(60) DEF Five
<1>3. CASE n = 3
  <2>1. Reg(b, n) = (b * 32) % 256 /\ 8 * Power(n) = 64 /\ Power(3 + n) = 64
    BY <1>3, Powers DEF Reg, ByteShifted
  <2>2. ((b * 32) % 256) \div 8 = 4 * (b % 8)
    OBVIOUS
  <2>3. ((256 * b + c) \div 64) % 32 = 4 * (b % 8) + (c \div 64)
    OBVIOUS
  <2> QED  BY <2>1, <2>2, <2>3 DEF Five
<1>4. CASE n = 4
  <2>1. Reg(b, n) = (b * 16) % 256 /\ 8 * Power(n) = 128 /\ Power(3 + n) = 128
    BY <1>4, Powers DEF Reg, ByteShifted
  <2>2. ((b * 16) % 256) \div 8 = 2 * (b % 16)
    OBVIOUS
  <2>3. ((256 * b + c) \div 128) % 32 = 2 * (b % 16) + (c \div 128)
    OBVIOUS
  <2> QED  BY <2>1, <2>2, <2>3 DEF Five
<1> QED  BY <1>1, <1>2, <1>3, <1>4

\* With an empty register the group is the first five bits of the next byte.
LEMMA WholeByte ==
  ASSUME NEW b \in 0 .. 255, NEW c \in 0 .. 255
  PROVE  Five(b, c, 8) = b \div Power(3)
<1>1. (256 * b + c) \div 2048 = b \div 8
  OBVIOUS
<1>2. (b \div 8) % 32 = b \div 8
  OBVIOUS
<1>3. 8 * Power(8) = 2048 /\ Power(3) = 8
  BY Powers
<1> QED  BY <1>1, <1>2, <1>3 DEF Five

\* A byte beyond the last reads as 0.
LEMMA NthType ==
  ASSUME NEW bytes \in Seq(Byte), NEW u \in Nat
  PROVE  Nth(bytes, u) \in 0 .. 255 /\ (u >= Len(bytes) => Nth(bytes, u) = 0)
<1>1. Len(bytes) \in Nat
  BY LenProperties
<1>2. CASE u < Len(bytes)
  <2>1. u + 1 \in 1 .. Len(bytes)
    BY <1>1, <1>2
  <2>2. bytes[u + 1] \in 0 .. 255
    BY <2>1, ElementOfSeq, Bytes
  <2>3. Nth(bytes, u) = bytes[u + 1] /\ ~(u >= Len(bytes))
    BY <1>1, <1>2 DEF Nth
  <2> QED  BY <2>2, <2>3
<1>3. CASE ~(u < Len(bytes))
  BY <1>3 DEF Nth
<1> QED  BY <1>2, <1>3

\* The register is a byte.
LEMMA RegType ==
  ASSUME NEW b \in 0 .. 255, NEW n \in 0 .. 7
  PROVE  Reg(b, n) \in 0 .. 255 /\ Reg(b, 0) = 0
<1>1. ASSUME NEW p \in 1 .. 8 PROVE (b * Power(p)) % 256 \in 0 .. 255
  <2>1. Power(p) \in Nat
    BY Powers
  <2> DEFINE m == b * Power(p)
  <2>2. m \in Nat
    BY <2>1
  <2> HIDE DEF m
  <2>3. m % 256 \in 0 .. 255
    BY <2>2
  <2> QED  BY <2>3 DEF m
<1>2. 8 - n \in 1 .. 8
  OBVIOUS
<1>3. (b * Power(8 - n)) % 256 \in 0 .. 255
  BY <1>1, <1>2
<1> QED  BY <1>3 DEF Reg, ByteShifted

\* Behind g groups n bits of the first u bytes are left.
BitsLeft(g, u, n) == 5 * g + n = 8 * u

\* The next group is from the register alone or with the next byte.
LEMMA GroupNext ==
  ASSUME NEW bytes \in Seq(Byte), NEW g \in Nat, NEW u \in Nat, NEW n \in 0 .. 7, BitsLeft(g, u, n)
  PROVE  LET r == Reg(Nth(bytes, u - 1), n)
         IN  /\ r \in 0 .. 255 /\ (n = 0 => r = 0)
             /\ n >= 5 => /\ Group(bytes, g + 1) = r \div 8
                          /\ ByteShifted(r, 5) = Reg(Nth(bytes, u - 1), n - 5)
             /\ n <= 4 => Group(bytes, g + 1) = (r \div 8) + (Nth(bytes, u) \div Power(3 + n))
<1>0. u + 1 \in Nat /\ (n # 0 => u - 1 \in Nat)
  BY DEF BitsLeft
<1> DEFINE a == Nth(bytes, u - 1)
           b == Nth(bytes, u)
           c == Nth(bytes, u + 1)
           r == Reg(a, n)
           G == Group(bytes, g + 1)
<1>1. b \in 0 .. 255 /\ c \in 0 .. 255
  BY <1>0, NthType
<1>2. n # 0 => a \in 0 .. 255
  BY <1>0, NthType
<1>3. G = IF n = 0 THEN Five(b, c, 8) ELSE Five(a, b, n)
  BY GroupAt DEF BitsLeft
<1> HIDE DEF a, b, c, G
<1>5. CASE n = 0
  <2>1. r = 0
    BY <1>5, SMTT(30) DEF Reg
  <2>2. Five(b, c, 8) = b \div Power(3)
    BY <1>1, WholeByte, ZenonT(60)
  <2>3. 0 \div 8 = 0 /\ 3 + 0 = 3
    OBVIOUS
  <2>4. b \div Power(3) \in Nat
    <3>1. b \div 8 \in Nat
      BY <1>1
    <3> QED  BY <3>1, Powers
  <2>5. G = b \div Power(3)
    BY <1>3, <1>5, <2>2
  <2> HIDE DEF r
  <2>6. G = (r \div 8) + (b \div Power(3 + n))
    <3> DEFINE p == b \div Power(3)
    <3>1. p \in Nat /\ G = p
      BY <2>4, <2>5
    <3>2. b \div Power(3 + n) = p
      BY <1>5, <2>3
    <3> HIDE DEF p
    <3> QED  BY <2>1, <2>3, <3>1, <3>2
  <2>7. r \in 0 .. 255
    BY <2>1
  <2> QED  BY <1>5, <2>1, <2>6, <2>7 DEF b, G, r, a
<1>6. CASE n \in 1 .. 4
  <2>1. a \in 0 .. 255 /\ n # 0
    BY <1>2, <1>6, SMTT(30)
  <2>2. Five(a, b, n) = (r \div 8) + (b \div Power(3 + n))
    BY <1>1, <1>6, <2>1, RegAndByte, ZenonT(60)
  <2>3. r \in 0 .. 255
    BY <2>1, RegType, ZenonT(60)
  <2>4. G = (r \div 8) + (b \div Power(3 + n))
    BY <1>3, <2>1, <2>2
  <2> HIDE DEF r
  <2>5. ~(n >= 5)
    BY <1>6
  <2> QED  BY <2>1, <2>3, <2>4, <2>5 DEF b, G, r, a
<1>7. CASE n \in 5 .. 7
  <2>1. a \in 0 .. 255 /\ n # 0
    BY <1>2, <1>7, SMTT(30)
  <2>2. /\ Five(a, b, n) = r \div 8
        /\ ByteShifted(r, 5) = Reg(a, n - 5)
    BY <1>1, <1>7, <2>1, RegGroup, ZenonT(60)
  <2>3. r \in 0 .. 255
    BY <2>1, RegType
  <2>4. G = r \div 8
    BY <1>3, <2>1, <2>2
  <2> HIDE DEF r
  <2>5. ~(n <= 4)
    BY <1>7
  <2> QED  BY <2>1, <2>2, <2>3, <2>4, <2>5 DEF G, r, a
<1>8. n = 0 \/ n \in 1 .. 4 \/ n \in 5 .. 7
  OBVIOUS
<1> QED  BY <1>5, <1>6, <1>7, <1>8

\* What is left of n bits in the register r once a whole group is taken.
RestBits(n) == IF n >= 5 THEN n - 5 ELSE n
RestReg(r, n) == IF n >= 5 THEN ByteShifted(r, 5) ELSE r
RestMade(g, n) == IF n >= 5 THEN g + 1 ELSE g

\* What is left is behind the groups made.
LEMMA GroupTaken ==
  ASSUME NEW bytes \in Seq(Byte), NEW g \in Nat, NEW u \in Nat, NEW n \in 0 .. 7, BitsLeft(g, u, n)
  PROVE  /\ n >= 5 => Reg(Nth(bytes, u - 1), n) \div 8 = Group(bytes, g + 1)
         /\ RestReg(Reg(Nth(bytes, u - 1), n), n) = Reg(Nth(bytes, u - 1), RestBits(n))
         /\ RestBits(n) \in 0 .. 4 /\ RestMade(g, n) \in Nat
         /\ BitsLeft(RestMade(g, n), u, RestBits(n))
<1> DEFINE a == Nth(bytes, u - 1)
<1>1. RestBits(n) \in 0 .. 4 /\ RestMade(g, n) \in Nat /\ BitsLeft(RestMade(g, n), u, RestBits(n))
  <2>1. CASE n >= 5
    BY <2>1 DEF BitsLeft, RestBits, RestMade
  <2>2. CASE ~(n >= 5)
    BY <2>2 DEF BitsLeft, RestBits, RestMade
  <2> QED  BY <2>1, <2>2
<1>2. n >= 5 => Group(bytes, g + 1) = Reg(a, n) \div 8 /\ ByteShifted(Reg(a, n), 5) = Reg(a, n - 5)
  BY GroupNext
<1> HIDE DEF a
<1>3. RestReg(Reg(a, n), n) = Reg(a, RestBits(n))
  <2>1. CASE n >= 5
    BY <1>2, <2>1 DEF RestReg, RestBits
  <2>2. CASE ~(n >= 5)
    BY <2>2 DEF RestReg, RestBits
  <2> QED  BY <2>1, <2>2
<1> QED  BY <1>1, <1>2, <1>3 DEF a

\* What a byte adds to fewer than five bits.
LEMMA ByteMakes ==
  ASSUME NEW bytes \in Seq(Byte), NEW g \in Nat, NEW u \in Nat, NEW n \in 0 .. 4, BitsLeft(g, u, n)
  PROVE  /\ (Reg(Nth(bytes, u - 1), n) \div 8) + (Nth(bytes, u) \div Power(3 + n)) = Group(bytes, g + 1)
         /\ ByteShifted(Nth(bytes, u), 5 - n) = Reg(Nth(bytes, u), n + 3)
         /\ BitsLeft(g + 1, u + 1, n + 3)
<1>1. n \in 0 .. 7 /\ n <= 4 /\ 8 - (n + 3) = 5 - n /\ n + 3 # 0
  OBVIOUS
<1>2. Group(bytes, g + 1) = (Reg(Nth(bytes, u - 1), n) \div 8) + (Nth(bytes, u) \div Power(3 + n))
  BY <1>1, GroupNext
<1>3. ByteShifted(Nth(bytes, u), 5 - n) = Reg(Nth(bytes, u), n + 3)
  BY <1>1 DEF Reg
<1>4. BitsLeft(g + 1, u + 1, n + 3)
  BY DEF BitsLeft
<1> QED  BY <1>2, <1>3, <1>4
-----------------------------------------------------------------------------
(* Parts of sequences. *)

\* a is what t has from s on.
PartOf(a, t, s) == \A n \in 1 .. Len(a) : a[n] = t[s + n]

\* What is made is appended.
LEMMA Appended ==
  ASSUME NEW a \in Seq(Nat), NEW b \in Seq(Nat), NEW t, NEW s \in Nat,
         PartOf(a, t, s), PartOf(b, t, s + Len(a))
  PROVE  a \o b \in Seq(Nat) /\ Len(a \o b) = Len(a) + Len(b) /\ PartOf(a \o b, t, s)
<1> DEFINE c == a \o b
<1>1. /\ c \in Seq(Nat) /\ Len(c) = Len(a) + Len(b)
      /\ \A n \in 1 .. Len(a) + Len(b) : c[n] = IF n <= Len(a) THEN a[n] ELSE b[n - Len(a)]
  BY ConcatProperties
<1>2. Len(a) \in Nat /\ Len(b) \in Nat
  BY LenProperties
<1> HIDE DEF c
<1>3. ASSUME NEW n \in 1 .. Len(a) + Len(b) PROVE c[n] = t[s + n]
  <2>1. CASE n <= Len(a)
    <3>1. n \in 1 .. Len(a) /\ c[n] = a[n]
      BY <1>1, <1>2, <2>1
    <3> QED  BY <3>1 DEF PartOf
  <2>2. CASE ~(n <= Len(a))
    <3> DEFINE m == n - Len(a)
    <3>1. m \in 1 .. Len(b) /\ s + Len(a) + m = s + n
      BY <1>2, <2>2
    <3>2. c[n] = b[m]
      BY <1>1, <2>2
    <3> HIDE DEF m
    <3>3. b[m] = t[s + Len(a) + m]
      BY <3>1 DEF PartOf
    <3> QED  BY <3>1, <3>2, <3>3
  <2> QED  BY <2>1, <2>2
<1> QED  BY <1>1, <1>3 DEF c, PartOf

\* The same for one element.
LEMMA AppendedOne ==
  ASSUME NEW a \in Seq(Nat), NEW v \in Nat, NEW t, NEW s \in Nat,
         PartOf(a, t, s), v = t[s + Len(a) + 1]
  PROVE  /\ a \o <<v>> \in Seq(Nat) /\ Len(a \o <<v>>) = Len(a) + 1
         /\ PartOf(a \o <<v>>, t, s)
<1> DEFINE b == <<v>>
           p == s + Len(a)
<1>1. b \in Seq(Nat) /\ Len(b) = 1 /\ b[1] = v
  OBVIOUS
<1>2. v = t[p + 1]
  OBVIOUS
<1> HIDE DEF b, p
<1>3. PartOf(b, t, p)
  <2>1. \A n \in 1 .. 1 : n = 1
    OBVIOUS
  <2> QED  BY <1>1, <1>2, <2>1 DEF PartOf
<1>4. a \o b \in Seq(Nat) /\ Len(a \o b) = Len(a) + Len(b) /\ PartOf(a \o b, t, s)
  <2>1. b \in Seq(Nat)
    BY <1>1
  <2>2. PartOf(b, t, s + Len(a))
    BY <1>3 DEF p
  <2> QED  BY <2>1, <2>2, Appended
<1> QED  BY <1>1, <1>4 DEF b

\* Two groups made at once.
LEMMA TwoOf ==
  ASSUME NEW a \in Nat, NEW b \in Nat
  PROVE  /\ <<a>> \o <<b>> \in Seq(Nat) /\ Len(<<a>> \o <<b>>) = 2
         /\ (<<a>> \o <<b>>)[1] = a /\ (<<a>> \o <<b>>)[2] = b
<1> DEFINE x == <<a>>
           y == <<b>>
           z == x \o y
<1>1. x \in Seq(Nat) /\ y \in Seq(Nat) /\ Len(x) = 1 /\ Len(y) = 1 /\ x[1] = a /\ y[1] = b
  OBVIOUS
<1> HIDE DEF x, y
<1>2. x \in Seq(Nat) /\ y \in Seq(Nat)
  BY <1>1
<1>3. /\ z \in Seq(Nat) /\ Len(z) = Len(x) + Len(y)
      /\ \A n \in 1 .. Len(x) + Len(y) : z[n] = IF n <= Len(x) THEN x[n] ELSE y[n - Len(x)]
  BY <1>2, ConcatProperties
<1> HIDE DEF z
<1>4. z \in Seq(Nat) /\ Len(z) = 2 /\ z[1] = a /\ z[2] = b
  BY <1>1, <1>3
<1> QED  BY <1>4 DEF x, y, z

\* Nothing is a part of everything.
LEMMA EmptyPart ==
  /\ Len(<<>>) = 0 /\ <<>> \in Seq(Nat)
  /\ \A t, s : PartOf(<<>>, t, s)
<1>1. Len(<<>>) = 0 /\ <<>> \in Seq(Nat) /\ 1 .. 0 = {}
  OBVIOUS
<1> QED  BY <1>1 DEF PartOf

\* Nothing is sought where no sequence begins.
LEMMA BeginsInside ==
  ASSUME NEW S, NEW ps \in Seq(Seq(S)), NEW c \in 1 .. Len(ps) + 1
  PROVE  Begins(ps, c) \in Nat /\ Begins(ps, c) <= Len(FlattenSeq(ps))
<1> DEFINE T == {d \in Nat : \A b \in 1 .. Len(ps) + 1 : b + d = Len(ps) + 1 =>
                    Begins(ps, b) \in Nat /\ Begins(ps, b) <= Len(FlattenSeq(ps))}
<1>0. Len(ps) \in Nat /\ FlattenSeq(ps) \in Seq(S) /\ Len(FlattenSeq(ps)) = Begins(ps, Len(ps) + 1)
  BY LenProperties, FlattenIs
<1>1. 0 \in T
  <2>1. Len(FlattenSeq(ps)) \in Nat
    BY <1>0, LenProperties
  <2> QED  BY <1>0, <2>1
<1>2. ASSUME NEW d \in Nat, d \in T PROVE d + 1 \in T
  <2> SUFFICES ASSUME NEW b \in 1 .. Len(ps) + 1, b + (d + 1) = Len(ps) + 1
               PROVE  Begins(ps, b) \in Nat /\ Begins(ps, b) <= Len(FlattenSeq(ps))
    OBVIOUS
  <2>1. b \in 1 .. Len(ps) /\ b + 1 \in 1 .. Len(ps) + 1 /\ b + 1 + d = Len(ps) + 1
    BY <1>0
  <2>2. Begins(ps, b + 1) \in Nat /\ Begins(ps, b + 1) <= Len(FlattenSeq(ps))
    BY <1>2, <2>1
  <2>3. Begins(ps, b) \in Nat /\ Len(ps[b]) \in Nat /\ Begins(ps, b + 1) = Begins(ps, b) + Len(ps[b])
    BY <2>1, BeginsStep
  <2>4. Len(FlattenSeq(ps)) \in Nat
    BY <1>0, LenProperties
  <2> QED  BY <2>2, <2>3, <2>4
<1>3. \A d \in Nat : d \in T
  <2> HIDE DEF T
  <2> QED  BY <1>1, <1>2, Induction
<1>4. Len(ps) + 1 - c \in Nat /\ c + (Len(ps) + 1 - c) = Len(ps) + 1
  BY <1>0
<1>5. Len(ps) + 1 - c \in T
  <2> HIDE DEF T
  <2> QED  BY <1>3, <1>4
<1> QED  BY <1>4, <1>5
-----------------------------------------------------------------------------
(* What bech32m_encode has read and passed on. *)

\* The bytes of each cursor.
Pieces ==
  [n \in DOMAIN Cursors |->
    SubSeq(Cursors[n].mem, Cursors[n].off + 1, Cursors[n].off + Cursors[n].size)]

\* The payload of the address, its groups of five bits, the values its
\* checksum is of, and the length of its hrp.
Content == Contents(input)
Symbols == Groups(Content)
Padded == ExpandedHrp(input.hrp) \o Symbols \o <<0, 0, 0, 0, 0, 0>>
Checksum == Xor(Polymod(Padded), Constant)
HrpLen == Len(input.hrp)

\* The job is an address that can be delivered.
AddressJob == input.job = "address" /\ Deliverable(input)

\* The bytes of the cursors, one behind the other.
LEMMA ContentSetting ==
  ASSUME input \in Job, AddressJob
  PROVE  /\ Pieces \in Seq(Seq(Byte)) /\ Len(Pieces) = Len(Cursors) /\ Len(Cursors) \in Nat
         /\ \A c \in 1 .. Len(Cursors) :
              /\ Cursors[c] \in Window /\ Cursors[c].off + Cursors[c].size <= Len(Cursors[c].mem)
              /\ Len(Pieces[c]) = Cursors[c].size
              /\ \A o \in 1 .. Cursors[c].size : Pieces[c][o] = Cursors[c].mem[Cursors[c].off + o]
         /\ Content = FlattenSeq(Pieces) /\ Content \in Seq(Byte) /\ Len(Content) \in Nat
<1>1. Cursors \in Seq(Window) /\ Len(Cursors) \in Nat /\ DOMAIN Cursors = 1 .. Len(Cursors)
  <2>1. Cursors \in Seq(Window)
    BY DEF Job, Cursors
  <2> QED  BY <2>1, LenProperties
<1>2. ASSUME NEW c \in 1 .. Len(Cursors)
      PROVE  /\ Cursors[c] \in Window /\ Cursors[c].off + Cursors[c].size <= Len(Cursors[c].mem)
             /\ Pieces[c] \in Seq(Byte) /\ Len(Pieces[c]) = Cursors[c].size
             /\ \A o \in 1 .. Cursors[c].size : Pieces[c][o] = Cursors[c].mem[Cursors[c].off + o]
  <2> DEFINE w == Cursors[c]
             m == w.off
             z == w.size
             mem == w.mem
  <2>1. w \in Window /\ m + z <= Len(mem)
    BY <1>1, ElementOfSeq DEF AddressJob, Deliverable, Cursors
  <2>2. mem \in Seq(Byte) /\ m \in Nat /\ z \in Nat
    BY <2>1 DEF Window
  <2>3. Pieces[c] = SubSeq(mem, m + 1, m + z)
    BY <1>1 DEF Pieces
  <2> HIDE DEF m, z, mem
  <2>4. SubSeq(mem, m + 1, m + z) = [j \in 1 .. z |-> mem[m + j]]
    BY <2>1, <2>2, PieceIs
  <2>5. SubSeq(mem, m + 1, m + z) \in Seq(Byte) /\ Len(SubSeq(mem, m + 1, m + z)) = z
    <3>1. mem \in Seq(0 .. 255)
      BY <2>2, Bytes
    <3>2. SubSeq(mem, m + 1, m + z) \in Seq(0 .. 255) /\ Len(SubSeq(mem, m + 1, m + z)) = z
      BY <2>1, <2>2, <3>1, PieceOf, ZenonT(60)
    <3> QED  BY <3>2, Bytes
  <2>6. Pieces[c] \in Seq(Byte) /\ Len(Pieces[c]) = z /\ \A o \in 1 .. z : Pieces[c][o] = mem[m + o]
    BY <2>3, <2>4, <2>5
  <2> QED  BY <2>1, <2>6 DEF m, z, mem
<1>3. Pieces \in Seq(Seq(Byte)) /\ Len(Pieces) = Len(Cursors)
  <2> DEFINE e == Pieces
             B == Seq(Byte)
  <2>1. e = [n \in 1 .. Len(Cursors) |-> e[n]]
    BY <1>1 DEF Pieces
  <2>2. \A n \in 1 .. Len(Cursors) : e[n] \in B
    BY <1>2
  <2> HIDE DEF e, B
  <2>3. e \in Seq(B) /\ Len(e) = Len(Cursors)
    BY <1>1, <2>1, <2>2
  <2> QED  BY <2>3 DEF e, B
<1>4. Content = FlattenSeq(Pieces)
  BY DEF Content, Contents, Pieces, Cursors
<1>5. Content \in Seq(Byte)
  BY <1>3, <1>4, FlattenIs
<1>6. Len(Content) \in Nat
  BY <1>5, LenProperties
<1> QED  BY <1>1, <1>2, <1>3, <1>4, <1>5, <1>6

\* The payload of N bytes has (8 N + 4) \div 5 groups, the last of them filled.
LEMMA SymbolsSetting ==
  ASSUME input \in Job, AddressJob
  PROVE  /\ Symbols \in Seq(0 .. 31) /\ Len(Symbols) = (8 * Len(Content) + 4) \div 5
         /\ Len(Symbols) \in Nat
         /\ \A g \in 1 .. Len(Symbols) : Symbols[g] = Group(Content, g) /\ Symbols[g] \in 0 .. 31
<1> DEFINE m == (8 * Len(Content) + 4) \div 5
           e == [g \in 1 .. m |-> Group(Content, g)]
<1>1. Len(Content) \in Nat /\ Content \in Seq(Byte)
  BY ContentSetting
<1>2. m \in Nat
  BY <1>1
<1>3. \A g \in 1 .. m : Group(Content, g) \in 0 .. 31
  <2> SUFFICES ASSUME NEW g \in 1 .. m PROVE Group(Content, g) \in 0 .. 31
    OBVIOUS
  <2> DEFINE a == (256 * Nth(Content, (5 * (g - 1)) \div 8) + Nth(Content, (5 * (g - 1)) \div 8 + 1))
             past == (5 * (g - 1)) % 8
  <2>1. Group(Content, g) = (a \div 2^(11 - past)) % 32
    BY DEF Group, Nth
  <2>2. \A x \in Nat : Nth(Content, x) \in Nat
    <3> SUFFICES ASSUME NEW x \in Nat PROVE Nth(Content, x) \in Nat
      OBVIOUS
    <3>1. x < Len(Content) => x + 1 \in 1 .. Len(Content)
      BY <1>1
    <3>2. x < Len(Content) => Content[x + 1] \in 0 .. 255
      BY <1>1, <3>1, ElementOfSeq, Bytes
    <3>3. CASE x < Len(Content)
      <4>0. \A v \in 0 .. 255 : v \in Nat
        OBVIOUS
      <4>1. Content[x + 1] \in Nat
        BY <3>2, <3>3, <4>0, Zenon
      <4> QED  BY <3>3, <4>1 DEF Nth
    <3>4. CASE ~(x < Len(Content))
      BY <3>4 DEF Nth
    <3> QED  BY <3>3, <3>4
  <2>3. (5 * (g - 1)) \div 8 \in Nat /\ (5 * (g - 1)) \div 8 + 1 \in Nat /\ past \in 0 .. 7
    BY <1>2
  <2>4. a \in Nat
    <3> DEFINE x == (5 * (g - 1)) \div 8
    <3> HIDE DEF x
    <3>1. Nth(Content, x) \in Nat /\ Nth(Content, x + 1) \in Nat
      BY <2>2, <2>3 DEF x
    <3> QED  BY <3>1 DEF x
  <2> HIDE DEF a, past
  <2>5. 2^(11 - past) \in Nat \ {0}
    <3>2. 11 - past \in 4 .. 11
      BY <2>3
    <3>3. ASSUME NEW y \in 4 .. 11 PROVE 2^y \in Nat \ {0}
      <4>1. CASE y = 4  BY <4>1
      <4>2. CASE y = 5  BY <4>2
      <4>3. CASE y = 6  BY <4>3
      <4>4. CASE y = 7  BY <4>4
      <4>5. CASE y = 8  BY <4>5
      <4>6. CASE y = 9  BY <4>6
      <4>7. CASE y = 10  BY <4>7
      <4>8. CASE y = 11  BY <4>8
      <4> QED  BY <4>1, <4>2, <4>3, <4>4, <4>5, <4>6, <4>7, <4>8
    <3> QED  BY <3>2, <3>3
  <2>6. a \div 2^(11 - past) \in Nat
    <3> DEFINE d == 2^(11 - past)
    <3> HIDE DEF d
    <3>1. d \in Nat \ {0}
      BY <2>5 DEF d
    <3>2. a \div d \in Nat
      BY <2>4, <3>1
    <3> QED  BY <3>2 DEF d
  <2> DEFINE y == a \div 2^(11 - past)
  <2> HIDE DEF y
  <2>7. y % 32 \in 0 .. 31
    <3>1. y \in Nat
      BY <2>6 DEF y
    <3> QED  BY <3>1
  <2> QED  BY <2>1, <2>7 DEF y
<1>4. Symbols = e
  BY DEF Symbols, Groups
<1>5. e = [g \in 1 .. m |-> e[g]] /\ \A g \in 1 .. m : e[g] = Group(Content, g) /\ e[g] \in 0 .. 31
  BY <1>3
<1> HIDE DEF e, m
<1>6. e \in Seq(0 .. 31) /\ Len(e) = m
  <2> DEFINE V == 0 .. 31
  <2>1. e = [g \in 1 .. m |-> e[g]] /\ \A g \in 1 .. m : e[g] \in V
    BY <1>5
  <2> HIDE DEF V
  <2>2. e \in Seq(V) /\ Len(e) = m
    BY <1>2, <2>1
  <2> QED  BY <2>2 DEF V
<1> QED  BY <1>2, <1>4, <1>5, <1>6 DEF m

\* What an hrp contributes to the checksum, and what is behind the data.
LEMMA PaddedSetting ==
  ASSUME input \in Job, AddressJob
  PROVE  /\ HrpLen \in Nat /\ \A n \in 1 .. HrpLen : input.hrp[n] \in Byte /\ Padded[n] = input.hrp[n] \div 32
         /\ Padded[HrpLen + 1] = 0
         /\ \A n \in 1 .. HrpLen : Padded[HrpLen + 1 + n] = input.hrp[n] % 32
         /\ \A n \in 1 .. Len(Symbols) : Padded[2 * HrpLen + 1 + n] = Symbols[n]
         /\ \A n \in 1 .. 6 : Padded[2 * HrpLen + 1 + Len(Symbols) + n] = 0
         /\ Take(Padded, 2 * HrpLen + 1 + Len(Symbols) + 6) = Padded
<1> DEFINE hrp == input.hrp
           high == [n \in DOMAIN hrp |-> hrp[n] \div 32]
           low == [n \in DOMAIN hrp |-> hrp[n] % 32]
           zero == <<0>>
           zeros == <<0, 0, 0, 0, 0, 0>>
           N == Len(hrp)
           M == Len(Symbols)
<1>1. hrp \in Seq(Byte) /\ N \in Nat /\ DOMAIN hrp = 1 .. N /\ \A n \in 1 .. N : hrp[n] \in Byte
  <2>1. hrp \in Seq(Byte)
    BY DEF Job
  <2> QED  BY <2>1, LenProperties, ElementOfSeq
<1>2. high \in Seq(Nat) /\ Len(high) = N /\ \A n \in 1 .. N : high[n] = hrp[n] \div 32
  <2>1. \A n \in 1 .. N : hrp[n] \div 32 \in Nat
    <3>1. \A x \in 0 .. 255 : x \div 32 \in Nat
      OBVIOUS
    <3>2. \A n \in 1 .. N : hrp[n] \in 0 .. 255
      BY <1>1, Bytes
    <3> QED  BY <3>1, <3>2
  <2>2. high = [n \in 1 .. N |-> hrp[n] \div 32]
    BY <1>1
  <2>3. \A n \in 1 .. N : high[n] = hrp[n] \div 32 /\ high[n] \in Nat
    BY <2>1, <2>2
  <2>4. high = [n \in 1 .. N |-> high[n]]
    BY <2>2, <2>3
  <2> HIDE DEF high, N
  <2> QED  BY <1>1, <2>3, <2>4
<1>3. low \in Seq(Nat) /\ Len(low) = N /\ \A n \in 1 .. N : low[n] = hrp[n] % 32
  <2>1. \A n \in 1 .. N : hrp[n] % 32 \in Nat
    <3>1. \A x \in 0 .. 255 : x % 32 \in Nat
      OBVIOUS
    <3>2. \A n \in 1 .. N : hrp[n] \in 0 .. 255
      BY <1>1, Bytes
    <3> QED  BY <3>1, <3>2
  <2>2. low = [n \in 1 .. N |-> hrp[n] % 32]
    BY <1>1
  <2>3. \A n \in 1 .. N : low[n] = hrp[n] % 32 /\ low[n] \in Nat
    BY <2>1, <2>2
  <2>4. low = [n \in 1 .. N |-> low[n]]
    BY <2>2, <2>3
  <2> HIDE DEF low, N
  <2> QED  BY <1>1, <2>3, <2>4
<1>4. Padded = ((high \o zero) \o low) \o Symbols \o zeros
  BY DEF Padded, ExpandedHrp
<1>5. zero \in Seq(Nat) /\ Len(zero) = 1 /\ zero[1] = 0
  OBVIOUS
<1>6. zeros \in Seq(Nat) /\ Len(zeros) = 6 /\ \A n \in 1 .. 6 : zeros[n] = 0
  <2>1. zeros \in Seq(Nat) /\ Len(zeros) = 6
    OBVIOUS
  <2>2. ASSUME NEW n \in 1 .. 6 PROVE zeros[n] = 0
    <3>1. n = 1 \/ n = 2 \/ n = 3 \/ n = 4 \/ n = 5 \/ n = 6
      OBVIOUS
    <3> QED  BY <3>1
  <2> QED  BY <2>1, <2>2
<1>7. Symbols \in Seq(Nat) /\ M \in Nat
  <2>1. Symbols \in Seq(0 .. 31) /\ M \in Nat
    BY SymbolsSetting
  <2> QED  BY <2>1, NumbersAreNat
<1> DEFINE a == high \o zero
           b == a \o low
           c == b \o Symbols
           d == c \o zeros
<1> HIDE DEF hrp, high, low, zero, zeros, N, M
<1>8. a \in Seq(Nat) /\ Len(a) = N + 1
      /\ \A n \in 1 .. N + 1 : a[n] = IF n <= N THEN high[n] ELSE zero[n - N]
  <2>1. high \in Seq(Nat) /\ zero \in Seq(Nat)
    BY <1>2, <1>5
  <2>2. a \in Seq(Nat) /\ Len(a) = Len(high) + Len(zero)
        /\ \A n \in 1 .. Len(high) + Len(zero) : a[n] = IF n <= Len(high) THEN high[n] ELSE zero[n - Len(high)]
    BY <2>1, ConcatProperties
  <2> QED  BY <1>2, <1>5, <2>2
<1> HIDE DEF a
<1>9. b \in Seq(Nat) /\ Len(b) = 2 * N + 1
      /\ \A n \in 1 .. 2 * N + 1 : b[n] = IF n <= N + 1 THEN a[n] ELSE low[n - (N + 1)]
  <2>1. a \in Seq(Nat) /\ low \in Seq(Nat)
    BY <1>3, <1>8
  <2>2. b \in Seq(Nat) /\ Len(b) = Len(a) + Len(low)
        /\ \A n \in 1 .. Len(a) + Len(low) : b[n] = IF n <= Len(a) THEN a[n] ELSE low[n - Len(a)]
    BY <2>1, ConcatProperties
  <2>3. N + 1 + N = 2 * N + 1
    BY <1>1
  <2> QED  BY <1>3, <1>8, <2>2, <2>3
<1> HIDE DEF b
<1>10. c \in Seq(Nat) /\ Len(c) = 2 * N + 1 + M
       /\ \A n \in 1 .. 2 * N + 1 + M : c[n] = IF n <= 2 * N + 1 THEN b[n] ELSE Symbols[n - (2 * N + 1)]
  <2>1. b \in Seq(Nat) /\ Symbols \in Seq(Nat)
    BY <1>7, <1>9
  <2>2. c \in Seq(Nat) /\ Len(c) = Len(b) + Len(Symbols)
        /\ \A n \in 1 .. Len(b) + Len(Symbols) : c[n] = IF n <= Len(b) THEN b[n] ELSE Symbols[n - Len(b)]
    BY <2>1, ConcatProperties
  <2> QED  BY <1>9, <2>2 DEF M
<1> HIDE DEF c
<1>11. d \in Seq(Nat) /\ Len(d) = 2 * N + 1 + M + 6
       /\ \A n \in 1 .. 2 * N + 1 + M + 6 :
            d[n] = IF n <= 2 * N + 1 + M THEN c[n] ELSE zeros[n - (2 * N + 1 + M)]
  <2>1. c \in Seq(Nat) /\ zeros \in Seq(Nat)
    BY <1>6, <1>10
  <2>2. d \in Seq(Nat) /\ Len(d) = Len(c) + Len(zeros)
        /\ \A n \in 1 .. Len(c) + Len(zeros) : d[n] = IF n <= Len(c) THEN c[n] ELSE zeros[n - Len(c)]
    BY <2>1, ConcatProperties
  <2> QED  BY <1>6, <1>10, <2>2
<1>12. Padded = d
  BY <1>4 DEF a, b, c, d
<1> HIDE DEF d
<1>13. \A n \in 1 .. N : d[n] = hrp[n] \div 32
  <2> SUFFICES ASSUME NEW n \in 1 .. N PROVE d[n] = hrp[n] \div 32
    OBVIOUS
  <2>1. n \in 1 .. N + 1 /\ n \in 1 .. 2 * N + 1 /\ n \in 1 .. 2 * N + 1 + M /\ n \in 1 .. 2 * N + 1 + M + 6
        /\ n <= N /\ n <= N + 1 /\ n <= 2 * N + 1 /\ n <= 2 * N + 1 + M
    BY <1>1, <1>7
  <2>2. d[n] = c[n] /\ c[n] = b[n] /\ b[n] = a[n] /\ a[n] = high[n]
    BY <1>8, <1>9, <1>10, <1>11, <2>1
  <2> QED  BY <1>2, <2>2
<1>14. d[N + 1] = 0
  <2> DEFINE n == N + 1
  <2>1. n \in 1 .. N + 1 /\ n \in 1 .. 2 * N + 1 /\ n \in 1 .. 2 * N + 1 + M /\ n \in 1 .. 2 * N + 1 + M + 6
        /\ ~(n <= N) /\ n <= N + 1 /\ n <= 2 * N + 1 /\ n <= 2 * N + 1 + M /\ n - N = 1
    BY <1>1, <1>7
  <2> HIDE DEF n
  <2>2. d[n] = c[n] /\ c[n] = b[n] /\ b[n] = a[n] /\ a[n] = zero[1]
    BY <1>8, <1>9, <1>10, <1>11, <2>1
  <2> QED  BY <1>5, <2>2 DEF n
<1>15. \A m \in 1 .. N : d[N + 1 + m] = hrp[m] % 32
  <2> SUFFICES ASSUME NEW m \in 1 .. N PROVE d[N + 1 + m] = hrp[m] % 32
    OBVIOUS
  <2> DEFINE n == N + 1 + m
  <2>1. n \in 1 .. 2 * N + 1 /\ n \in 1 .. 2 * N + 1 + M /\ n \in 1 .. 2 * N + 1 + M + 6
        /\ ~(n <= N + 1) /\ n <= 2 * N + 1 /\ n <= 2 * N + 1 + M /\ n - (N + 1) = m
    BY <1>1, <1>7
  <2> HIDE DEF n
  <2>2. d[n] = c[n] /\ c[n] = b[n] /\ b[n] = low[m]
    BY <1>9, <1>10, <1>11, <2>1
  <2> QED  BY <1>3, <2>2 DEF n
<1>16. \A m \in 1 .. M : d[2 * N + 1 + m] = Symbols[m]
  <2> SUFFICES ASSUME NEW m \in 1 .. M PROVE d[2 * N + 1 + m] = Symbols[m]
    OBVIOUS
  <2> DEFINE n == 2 * N + 1 + m
  <2>1. n \in 1 .. 2 * N + 1 + M /\ n \in 1 .. 2 * N + 1 + M + 6
        /\ ~(n <= 2 * N + 1) /\ n <= 2 * N + 1 + M /\ n - (2 * N + 1) = m
    BY <1>1, <1>7
  <2> HIDE DEF n
  <2>2. d[n] = c[n] /\ c[n] = Symbols[m]
    BY <1>10, <1>11, <2>1
  <2> QED  BY <2>2 DEF n
<1>17. \A m \in 1 .. 6 : d[2 * N + 1 + M + m] = 0
  <2> SUFFICES ASSUME NEW m \in 1 .. 6 PROVE d[2 * N + 1 + M + m] = 0
    OBVIOUS
  <2> DEFINE n == 2 * N + 1 + M + m
  <2>1. n \in 1 .. 2 * N + 1 + M + 6 /\ ~(n <= 2 * N + 1 + M) /\ n - (2 * N + 1 + M) = m
    BY <1>1, <1>7
  <2> HIDE DEF n
  <2>2. d[n] = zeros[m]
    BY <1>11, <2>1
  <2> QED  BY <1>6, <2>2 DEF n
<1>18. Take(d, 2 * N + 1 + M + 6) = d
  BY <1>11, TakeAll
<1>19. HrpLen = N
  BY DEF HrpLen, N, hrp
<1> QED  BY <1>1, <1>12, <1>13, <1>14, <1>15, <1>16, <1>17, <1>18, <1>19 DEF hrp, M

\* The text, part by part.
LEMMA TextSetting ==
  ASSUME input \in Job, AddressJob
  PROVE  LET text == AddressText(input)
         IN  /\ text \in Seq(Byte) /\ Len(text) = HrpLen + 1 + Len(Symbols) + 6 /\ HrpLen \in Nat
             /\ \A n \in 1 .. HrpLen : text[n] = input.hrp[n]
             /\ text[HrpLen + 1] = One
             /\ \A n \in 1 .. Len(Symbols) : text[HrpLen + 1 + n] = Charset[Symbols[n] + 1]
             /\ \A n \in 1 .. 6 :
                  text[HrpLen + 1 + Len(Symbols) + n] = Charset[ChecksumSymbol(Checksum, n - 1) + 1]
<1> DEFINE text == AddressText(input)
           hrp == input.hrp
           M == Len(Symbols)
           N == HrpLen
           check == [n \in 1 .. 6 |-> ChecksumSymbol(Checksum, n - 1)]
           shown == Symbols \o check
           chars == [n \in DOMAIN shown |-> Charset[shown[n] + 1]]
           one == <<One>>
           front == hrp \o one
<1>1. text = front \o chars
  BY DEF AddressText, Symbols, Content, Checksum, Padded
<1>2. hrp \in Seq(Byte) /\ N = Len(hrp) /\ N \in Nat
  <2>1. hrp \in Seq(Byte)
    BY DEF Job
  <2> QED  BY <2>1, LenProperties DEF HrpLen
<1>3. one \in Seq(Byte) /\ Len(one) = 1 /\ one[1] = One
  BY Bytes DEF One
<1>4. Symbols \in Seq(0 .. 31) /\ M \in Nat
  BY SymbolsSetting
<1>5. check \in Seq(0 .. 31) /\ Len(check) = 6
      /\ \A n \in 1 .. 6 : check[n] = ChecksumSymbol(Checksum, n - 1)
  <2> DEFINE V == 0 .. 31
  <2>1. \A n \in 1 .. 6 : check[n] \in V
    BY SymbolType
  <2>2. check = [n \in 1 .. 6 |-> check[n]]
    OBVIOUS
  <2>3. \A n \in 1 .. 6 : check[n] = ChecksumSymbol(Checksum, n - 1)
    OBVIOUS
  <2> HIDE DEF check, V
  <2>4. check \in Seq(V) /\ Len(check) = 6
    BY <2>1, <2>2
  <2> QED  BY <2>3, <2>4 DEF V
<1> HIDE DEF check
<1>6. shown \in Seq(0 .. 31) /\ Len(shown) = M + 6
      /\ \A n \in 1 .. M + 6 : shown[n] = IF n <= M THEN Symbols[n] ELSE check[n - M]
  <2> DEFINE V == 0 .. 31
  <2> HIDE DEF V
  <2>1. Symbols \in Seq(V) /\ check \in Seq(V)
    BY <1>4, <1>5 DEF V
  <2>2. shown \in Seq(V) /\ Len(shown) = Len(Symbols) + Len(check)
        /\ \A n \in 1 .. Len(Symbols) + Len(check) :
             shown[n] = IF n <= Len(Symbols) THEN Symbols[n] ELSE check[n - Len(Symbols)]
    BY <2>1, ConcatProperties
  <2> QED  BY <1>5, <2>2 DEF V
<1> HIDE DEF shown
<1>7. chars \in Seq(Byte) /\ Len(chars) = M + 6
      /\ \A n \in 1 .. M + 6 : chars[n] = Charset[shown[n] + 1]
  <2>1. DOMAIN shown = 1 .. M + 6
    BY <1>6, LenProperties
  <2>2. chars = [n \in 1 .. M + 6 |-> Charset[shown[n] + 1]]
    BY <2>1
  <2>3. \A n \in 1 .. M + 6 : shown[n] \in 0 .. 31
    <3> DEFINE V == 0 .. 31
    <3> HIDE DEF V
    <3>1. shown \in Seq(V)
      BY <1>6 DEF V
    <3>2. \A n \in 1 .. Len(shown) : shown[n] \in V
      BY <3>1, ElementOfSeq
    <3> QED  BY <1>6, <3>2 DEF V
  <2>4. \A n \in 1 .. M + 6 : chars[n] = Charset[shown[n] + 1] /\ chars[n] \in Byte
    BY <2>2, <2>3, CharsetType
  <2>5. chars = [n \in 1 .. M + 6 |-> chars[n]] /\ M + 6 \in Nat
    BY <1>4, <2>2
  <2> HIDE DEF chars, M
  <2> QED  BY <2>4, <2>5
<1> HIDE DEF hrp, chars, one, M, N, text
<1>8. front \in Seq(Byte) /\ Len(front) = N + 1
      /\ \A n \in 1 .. N + 1 : front[n] = IF n <= N THEN hrp[n] ELSE one[n - N]
  <2>1. hrp \in Seq(Byte) /\ one \in Seq(Byte)
    BY <1>2, <1>3
  <2>2. front \in Seq(Byte) /\ Len(front) = Len(hrp) + Len(one)
        /\ \A n \in 1 .. Len(hrp) + Len(one) : front[n] = IF n <= Len(hrp) THEN hrp[n] ELSE one[n - Len(hrp)]
    BY <2>1, ConcatProperties
  <2> QED  BY <1>2, <1>3, <2>2
<1> HIDE DEF front
<1>9. text \in Seq(Byte) /\ Len(text) = N + 1 + M + 6
      /\ \A n \in 1 .. N + 1 + M + 6 : text[n] = IF n <= N + 1 THEN front[n] ELSE chars[n - (N + 1)]
  <2>1. front \in Seq(Byte) /\ chars \in Seq(Byte)
    BY <1>7, <1>8
  <2>2. text \in Seq(Byte) /\ Len(text) = Len(front) + Len(chars)
        /\ \A n \in 1 .. Len(front) + Len(chars) :
             text[n] = IF n <= Len(front) THEN front[n] ELSE chars[n - Len(front)]
    BY <1>1, <2>1, ConcatProperties
  <2>3. N + 1 + (M + 6) = N + 1 + M + 6
    BY <1>2, <1>4 DEF M
  <2> QED  BY <1>7, <1>8, <2>2, <2>3
<1>10. M \in Nat
  BY <1>4 DEF M
<1>11. \A n \in 1 .. N : text[n] = hrp[n]
  <2> SUFFICES ASSUME NEW n \in 1 .. N PROVE text[n] = hrp[n]
    OBVIOUS
  <2>1. n \in 1 .. N + 1 /\ n \in 1 .. N + 1 + M + 6 /\ n <= N /\ n <= N + 1
    BY <1>2, <1>10
  <2> QED  BY <1>8, <1>9, <2>1
<1>12. text[N + 1] = One
  <2> DEFINE n == N + 1
  <2>1. n \in 1 .. N + 1 /\ n \in 1 .. N + 1 + M + 6 /\ ~(n <= N) /\ n <= N + 1 /\ n - N = 1
    BY <1>2, <1>10
  <2> HIDE DEF n
  <2>2. text[n] = front[n] /\ front[n] = one[1]
    BY <1>8, <1>9, <2>1
  <2> QED  BY <1>3, <2>2 DEF n
<1>13. \A m \in 1 .. M + 6 : text[N + 1 + m] = Charset[shown[m] + 1]
  <2> SUFFICES ASSUME NEW m \in 1 .. M + 6 PROVE text[N + 1 + m] = Charset[shown[m] + 1]
    OBVIOUS
  <2> DEFINE n == N + 1 + m
  <2>1. n \in 1 .. N + 1 + M + 6 /\ ~(n <= N + 1) /\ n - (N + 1) = m
    BY <1>2, <1>10
  <2> HIDE DEF n
  <2>2. text[n] = chars[m]
    BY <1>9, <2>1
  <2> QED  BY <1>7, <2>2 DEF n
<1>14. \A m \in 1 .. M : text[N + 1 + m] = Charset[Symbols[m] + 1]
  <2> SUFFICES ASSUME NEW m \in 1 .. M PROVE text[N + 1 + m] = Charset[Symbols[m] + 1]
    OBVIOUS
  <2>1. m \in 1 .. M + 6 /\ m <= M
    BY <1>10
  <2> QED  BY <1>6, <1>13, <2>1 DEF M
<1>15. \A n \in 1 .. 6 : text[N + 1 + M + n] = Charset[ChecksumSymbol(Checksum, n - 1) + 1]
  <2> SUFFICES ASSUME NEW n \in 1 .. 6
               PROVE  text[N + 1 + M + n] = Charset[ChecksumSymbol(Checksum, n - 1) + 1]
    OBVIOUS
  <2> DEFINE m == M + n
  <2>1. m \in 1 .. M + 6 /\ ~(m <= M) /\ m - M = n /\ N + 1 + m = N + 1 + M + n
    BY <1>2, <1>10
  <2> HIDE DEF m
  <2>2. shown[m] = check[n]
    BY <1>6, <2>1 DEF M
  <2> QED  BY <1>5, <1>13, <2>1, <2>2
<1> QED  BY <1>2, <1>9, <1>11, <1>12, <1>14, <1>15 DEF text, N, M, hrp

\* A group that the bytes fill is in the text.
LEMMA SymbolAt ==
  ASSUME input \in Job, AddressJob, NEW m \in Nat, 5 * (m + 1) <= 8 * Len(Content) + 4
  PROVE  /\ m + 1 \in 1 .. Len(Symbols) /\ Symbols[m + 1] = Group(Content, m + 1)
         /\ Symbols[m + 1] \in 0 .. 31 /\ Symbols[m + 1] \in Nat
<1>1. Len(Symbols) = (8 * Len(Content) + 4) \div 5 /\ Len(Content) \in Nat
  BY SymbolsSetting, ContentSetting
<1>2. m + 1 \in 1 .. Len(Symbols)
  BY <1>1
<1>3. Symbols[m + 1] = Group(Content, m + 1) /\ Symbols[m + 1] \in 0 .. 31
  BY <1>2, SymbolsSetting
<1>4. \A x \in 0 .. 31 : x \in Nat
  OBVIOUS
<1>5. Symbols[m + 1] \in Nat
  BY <1>3, <1>4, Zenon
<1> QED  BY <1>2, <1>3, <1>5

\* The end of the bytes: how many groups there are, and the last of them.
LEMMA LastGroup ==
  ASSUME input \in Job, AddressJob, NEW m \in Nat, NEW n \in 0 .. 4, BitsLeft(m, Len(Content), n)
  PROVE  /\ n = 0 => Len(Symbols) = m
         /\ n # 0 => /\ Len(Symbols) = m + 1
                     /\ Reg(Nth(Content, Len(Content) - 1), n) \div 8 = Symbols[m + 1]
<1> DEFINE N == Len(Content)
           r == Reg(Nth(Content, N - 1), n)
<1>1. Content \in Seq(Byte) /\ N \in Nat /\ Len(Symbols) = (8 * N + 4) \div 5
  BY ContentSetting, SymbolsSetting
<1>2. 5 * m + n = 8 * N
  BY DEF BitsLeft
<1>3. n = 0 => Len(Symbols) = m
  <2> HIDE DEF N
  <2>1. n = 0 => (8 * N + 4) \div 5 = m
    BY <1>1, <1>2
  <2> QED  BY <1>1, <2>1
<1>4. n # 0 => Len(Symbols) = m + 1
  <2> HIDE DEF N
  <2>1. n # 0 => (8 * N + 4) \div 5 = m + 1
    BY <1>1, <1>2
  <2> QED  BY <1>1, <2>1
<1>5. n # 0 => r \div 8 = Symbols[m + 1]
  <2> SUFFICES ASSUME n # 0 PROVE r \div 8 = Symbols[m + 1]
    OBVIOUS
  <2>1. 5 * (m + 1) <= 8 * N + 4
    <3> HIDE DEF N
    <3> QED  BY <1>1, <1>2
  <2>2. Symbols[m + 1] = Group(Content, m + 1)
    BY <2>1, SymbolAt
  <2>3. Nth(Content, N) = 0
    <3>1. N >= N
      BY <1>1
    <3> QED  BY <1>1, <3>1, NthType
  <2>4. (r \div 8) + (Nth(Content, N) \div Power(3 + n)) = Group(Content, m + 1)
    BY <1>1, ByteMakes
  <2>5. r \in 0 .. 255
    <3>1. n \in 0 .. 7
      OBVIOUS
    <3> QED  BY <1>1, <3>1, GroupNext
  <2>6. 0 \div Power(3 + n) = 0
    <3>1. 3 + n \in 3 .. 7
      OBVIOUS
    <3>2. \A p \in 3 .. 7 : Power(p) \in Nat \ {0}
      BY Powers, SMTT(30)
    <3>3. \A d \in Nat \ {0} : 0 \div d = 0
      OBVIOUS
    <3> QED  BY <3>1, <3>2, <3>3
  <2> DEFINE q == r \div 8
  <2>7. q \in Nat
    <3>1. \A x \in 0 .. 255 : x \div 8 \in Nat
      OBVIOUS
    <3> HIDE DEF r
    <3> QED  BY <2>5, <3>1
  <2> HIDE DEF q, N, r
  <2>8. q + 0 = Group(Content, m + 1)
    BY <2>3, <2>4, <2>6 DEF q
  <2>9. q = Group(Content, m + 1)
    BY <2>7, <2>8
  <2> QED  BY <2>2, <2>9 DEF q
<1> QED  BY <1>3, <1>4, <1>5
-----------------------------------------------------------------------------
(* Its invariant. *)

\* Bytes that the inputter has passed, those of them that are on their way
\* to the regrouper, and those it has used.
Passed == Begins(Pieces, current_cursor) + current_offset

\* Bytes that the inputter has passed and regrouping has not, where they begin
\* in got, and the bytes that are regrouped.
OnTheWay ==
  IF pc \in {"input", "got"} THEN Len(got) ELSE IF pc = "regroup" THEN Len(got) - i ELSE 0
GotFirst == IF pc = "regroup" THEN i ELSE 0
Used == Passed - OnTheWay

\* Groups that the encoder has fed, those it will feed next, and both.
Sent == Len(fed) - HrpLen - 1

\* Groups made and not yet fed, where they begin in data, and all the groups
\* made.
Unfed ==
  IF pc = "symbols" THEN Len(data) - k ELSE IF pc \in {"regroup", "flush"} THEN Len(data) ELSE 0
DataFirst == IF pc = "symbols" THEN k ELSE 0
Made == Sent + Unfed

\* Between the "1" and the checksum.
Middle == pc \in {"more", "input", "got", "regroup", "flush", "symbols"}

\* The hrp is checked up to character k, and good behind the loop.
HrpPart ==
  /\ pc = "hrp" => \A n \in 1 .. k : input.hrp[n] \in 33 .. 126
  /\ pc # "hrp" => ~BadHrp(input.hrp)

\* What is fed is the beginning of the text, and how much of it.
TextPart ==
  /\ Len(fed) <= Len(AddressText(input)) /\ fed = Take(AddressText(input), Len(fed))
  /\ pc = "hrp" => fed = <<>> /\ k <= HrpLen
  /\ pc = "prefix" => Len(fed) = k /\ k <= HrpLen
  /\ Middle => Sent \in Nat
  /\ pc = "pad" => Sent = Len(Symbols) /\ k <= 6
  /\ pc = "checksum" => Sent = Len(Symbols) + k /\ k <= 6

\* chk is the checksum of the values fed so far.
SumPart ==
  /\ pc = "hrp" => chk = Polymod(Take(Padded, k))
  /\ pc = "prefix" => chk = Polymod(Take(Padded, HrpLen + 1 + k))
  /\ Middle => chk = Polymod(Take(Padded, 2 * HrpLen + 1 + Sent))
  /\ pc = "pad" => chk = Polymod(Take(Padded, 2 * HrpLen + 1 + Sent + k))
  /\ pc = "checksum" => chk = Checksum

\* What the inputter has returned is the part of the payload that follows
\* the bytes used.
ReadPart ==
  /\ InCursors => current_offset <= Current.size
  /\ ~InCursors => current_offset = 0
  /\ pc \in {"hrp", "prefix"} => Passed = 0 /\ ~c_end /\ buffer_bits = 0 /\ buffer = 0
  /\ Middle => Used \in Nat
  /\ Middle => \A n \in 1 .. OnTheWay : got[GotFirst + n] = Content[Used + n]
  /\ pc = "got" => Len(got) = asked \/ ~InCursors
  /\ c_end => ~InCursors

\* The register has the bits that were used and not grouped; after the end
\* there are none.
Going == 5 * Made + buffer_bits = 8 * Used /\ buffer = Reg(Nth(Content, Used - 1), buffer_bits)

\* Every group is made.
Done == c_end /\ buffer_bits = 0 /\ buffer = 0 /\ Made = Len(Symbols)

\* The groups in data are the next of the payload; flush is never with an
\* empty data before the end.
GroupPart ==
  /\ Middle => /\ Going \/ Done
               /\ \A n \in 1 .. Unfed : data[DataFirst + n] = Symbols[Sent + n]
  /\ pc \in {"input", "got"} => ~c_end
  /\ pc = "regroup" => Going /\ (c_end <=> got = <<>>) /\ (i > 0 => data # <<>>)
  /\ pc = "flush" => IF c_end THEN data = <<>> ELSE data # <<>>
  /\ pc = "symbols" => (c_end \/ data # <<>>) /\ k <= Len(data)
  /\ pc \in {"more", "symbols"} => (c_end => Done)

\* What bech32m_encode has read, regrouped, summed and fed.
AddressInv == Encoding => HrpPart /\ TextPart /\ SumPart /\ ReadPart /\ GroupPart

\* What the types of Streams say of an address.
LEMMA AddressState ==
  ASSUME TInv, AddressJob
  PROVE  /\ input \in Job /\ fed \in Seq(Byte) /\ Len(fed) \in Nat /\ k \in Nat
         /\ data \in Seq(0 .. 31) /\ Len(data) \in Nat /\ got \in Seq(Byte) /\ Len(got) \in Nat
         /\ i \in Nat /\ buffer \in 0 .. 255 /\ buffer_bits \in 0 .. 7 /\ c_end \in BOOLEAN
         /\ current_cursor \in 1 .. Len(Cursors) + 1 /\ current_offset \in Nat
         /\ HrpLen \in Nat /\ Len(Symbols) \in Nat /\ Len(Content) \in Nat /\ Len(Cursors) \in Nat
         /\ Given /\ Regrouped
<1>1. /\ input \in Job /\ fed \in Seq(Byte) /\ k \in Nat /\ got \in Seq(Byte)
      /\ i \in Nat /\ buffer \in 0 .. 255 /\ buffer_bits \in 0 .. 7 /\ c_end \in BOOLEAN
      /\ current_cursor \in 1 .. Len(Cursors) + 1 /\ current_offset \in Nat /\ Given /\ Regrouped
  BY Bytes DEF TInv, IInv, InputterTypes, FeederTypes, EncoderTypes, RegrouperTypes, AddressJob
<1>2. data \in Seq(0 .. 31)
  BY <1>1 DEF Regrouped
<1>3. Len(fed) \in Nat /\ Len(data) \in Nat /\ Len(got) \in Nat
  BY <1>1, <1>2, LenProperties
<1>4. HrpLen \in Nat /\ Len(Symbols) \in Nat /\ Len(Content) \in Nat /\ Len(Cursors) \in Nat
  BY <1>1, PaddedSetting, SymbolsSetting, ContentSetting
<1> QED  BY <1>1, <1>2, <1>3, <1>4

\* The input stays, and what is made of it.
LEMMA AddressSame ==
  ASSUME UNCHANGED input
  PROVE  /\ Cursors' = Cursors /\ Pieces' = Pieces /\ Content' = Content /\ Symbols' = Symbols
         /\ Padded' = Padded /\ Checksum' = Checksum /\ HrpLen' = HrpLen
         /\ AddressText(input)' = AddressText(input)
BY DEF Cursors, Pieces, Content, Symbols, Padded, Checksum, HrpLen

\* Of the content some bytes are passed, and all at the end of the cursors.
LEMMA PassedIs ==
  ASSUME TInv, AddressJob, ReadPart
  PROVE  /\ Passed \in Nat /\ Passed <= Len(Content) /\ (~InCursors => Passed = Len(Content))
         /\ OnTheWay \in Nat /\ Used + OnTheWay = Passed
         /\ Middle => Used \in Nat /\ Used <= Len(Content)
<1>1. /\ Pieces \in Seq(Seq(Byte)) /\ Len(Pieces) = Len(Cursors) /\ Content = FlattenSeq(Pieces)
      /\ Len(Content) \in Nat /\ Len(Cursors) \in Nat
  BY AddressState, ContentSetting
<1>2. current_cursor \in 1 .. Len(Pieces) + 1 /\ current_offset \in Nat
  BY <1>1, AddressState
<1>3. Begins(Pieces, current_cursor) \in Nat /\ Begins(Pieces, current_cursor) <= Len(Content)
  BY <1>1, <1>2, BeginsInside
<1>4. ASSUME InCursors PROVE Passed \in Nat /\ Passed <= Len(Content)
  <2>1. current_cursor \in 1 .. Len(Pieces) /\ current_cursor + 1 \in 1 .. Len(Pieces) + 1
    BY <1>1, <1>2, <1>4 DEF InCursors
  <2>2. /\ Len(Pieces[current_cursor]) = Current.size /\ Current.size \in Nat
    BY <1>1, <2>1, AddressState, ContentSetting DEF Current, Window
  <2>3. Begins(Pieces, current_cursor + 1) = Begins(Pieces, current_cursor) + Current.size
    BY <1>1, <2>1, <2>2, BeginsStep
  <2>4. Begins(Pieces, current_cursor + 1) <= Len(Content)
    BY <1>1, <2>1, BeginsInside
  <2>5. current_offset <= Current.size
    BY <1>4 DEF ReadPart
  <2> QED  BY <1>1, <1>2, <1>3, <2>2, <2>3, <2>4, <2>5 DEF Passed
<1>5. ASSUME ~InCursors PROVE Passed = Len(Content)
  <2>1. current_cursor = Len(Pieces) + 1 /\ current_offset = 0
    BY <1>1, <1>2, <1>5 DEF InCursors, ReadPart
  <2>2. Len(FlattenSeq(Pieces)) = Begins(Pieces, Len(Pieces) + 1)
    BY <1>1, FlattenIs
  <2> QED  BY <1>1, <2>1, <2>2 DEF Passed
<1>6. Passed \in Nat /\ Passed <= Len(Content) /\ (~InCursors => Passed = Len(Content))
  BY <1>1, <1>4, <1>5
<1>7. OnTheWay \in Nat
  <2>1. Len(got) \in Nat /\ (pc = "regroup" => i \in Nat /\ i <= Len(got))
    BY AddressState DEF Regrouped
  <2> QED  BY <2>1 DEF OnTheWay
<1>8. Used + OnTheWay = Passed
  BY <1>6, <1>7 DEF Used
<1>9. Middle => Used \in Nat
  BY DEF ReadPart
<1>10. Middle => Used <= Len(Content)
  BY <1>1, <1>6, <1>7, <1>8, <1>9
<1> QED  BY <1>6, <1>7, <1>8, <1>9, <1>10

\* No group is made that is not in the text.
LEMMA MadeInside ==
  ASSUME TInv, AddressJob, TextPart, ReadPart, GroupPart, Middle
  PROVE  Sent \in Nat /\ Unfed \in Nat /\ Made \in Nat /\ Made = Sent + Unfed /\ Made <= Len(Symbols)
<1>1. Sent \in Nat
  BY DEF TextPart
<1>2. Unfed \in Nat
  <2>1. Len(data) \in Nat /\ k \in Nat /\ (pc = "symbols" => k <= Len(data))
    BY AddressState DEF GroupPart
  <2> QED  BY <2>1 DEF Unfed
<1>3. Made = Sent + Unfed /\ Made \in Nat
  BY <1>1, <1>2 DEF Made
<1>4. Len(Symbols) = (8 * Len(Content) + 4) \div 5 /\ Len(Content) \in Nat
  BY AddressState, SymbolsSetting
<1>5. CASE Going
  <2>1. 5 * Made + buffer_bits = 8 * Used /\ buffer_bits \in 0 .. 7
    BY <1>5, AddressState DEF Going
  <2>2. Used \in Nat /\ Used <= Len(Content)
    BY PassedIs
  <2>3. Made <= Len(Symbols)
    BY <1>3, <1>4, <2>1, <2>2
  <2> QED  BY <1>1, <1>2, <1>3, <2>3
<1>6. CASE Done
  <2>1. Made = Len(Symbols)
    BY <1>6 DEF Done
  <2>2. Made <= Len(Symbols)
    BY <1>3, <2>1
  <2> QED  BY <1>1, <1>2, <1>3, <2>2
<1> QED  BY <1>5, <1>6 DEF GroupPart

\* While no text goes out.
LEMMA MiddleSame ==
  ASSUME AddressInv, Encoding, Middle, Middle', UNCHANGED <<input, fed, chk, result>>
  PROVE  /\ HrpPart' /\ TextPart' /\ SumPart' /\ AbsStep /\ Sent' = Sent
         /\ HrpPart /\ TextPart /\ SumPart /\ ReadPart /\ GroupPart
<1>1. HrpPart /\ TextPart /\ SumPart /\ ReadPart /\ GroupPart
  BY DEF AddressInv
<1>2. Padded' = Padded /\ HrpLen' = HrpLen /\ AddressText(input)' = AddressText(input)
  BY AddressSame
<1>3. Sent' = Sent
  BY <1>2 DEF Sent
<1>4. pc' \notin {"hrp", "prefix", "pad", "checksum"}
  BY DEF Middle
<1>5. HrpPart'
  <2>1. ~BadHrp(input.hrp)
    BY <1>1 DEF HrpPart, Middle
  <2> QED  BY <1>4, <2>1 DEF HrpPart
<1>6. TextPart'
  BY <1>1, <1>2, <1>3, <1>4 DEF TextPart
<1>7. SumPart'
  BY <1>1, <1>2, <1>3, <1>4 DEF SumPart
<1>8. AbsStep
  BY DEF AbsStep
<1> QED  BY <1>1, <1>3, <1>5, <1>6, <1>7, <1>8

\* Behind the data.
LEMMA OutsideMiddle ==
  ASSUME ReadPart, UNCHANGED <<input, current_cursor, current_offset, c_end>>,
         pc' \in {"pad", "checksum"}
  PROVE  ReadPart' /\ GroupPart'
<1>1. Cursors' = Cursors
  BY AddressSame
<1>2. ReadPart'
  BY <1>1 DEF ReadPart, Middle, InCursors, Current
<1>3. GroupPart'
  BY DEF GroupPart, Middle
<1> QED  BY <1>2, <1>3
-----------------------------------------------------------------------------
(* The hrp. *)

\* Zero has no bits.
LEMMA BitsZero == Bits(0) = {}
<1> DEFINE P(b) == 2^b
<1>1. /\ P(0) = 1 /\ P(1) = 2 /\ P(2) = 4 /\ P(3) = 8 /\ P(4) = 16
        /\ P(5) = 32 /\ P(6) = 64 /\ P(7) = 128 /\ P(8) = 256 /\ P(9) = 512
        /\ P(10) = 1024 /\ P(11) = 2048 /\ P(12) = 4096 /\ P(13) = 8192 /\ P(14) = 16384
        /\ P(15) = 32768 /\ P(16) = 65536 /\ P(17) = 131072 /\ P(18) = 262144 /\ P(19) = 524288
        /\ P(20) = 1048576 /\ P(21) = 2097152 /\ P(22) = 4194304 /\ P(23) = 8388608 /\ P(24) = 16777216
        /\ P(25) = 33554432 /\ P(26) = 67108864 /\ P(27) = 134217728 /\ P(28) = 268435456 /\ P(29) = 536870912
  OBVIOUS
<1>2. Bits(0) = {b \in 0 .. 29 : (0 \div P(b)) % 2 = 1}
  BY DEF Bits
<1> HIDE DEF P
<1>3. \A b \in 0 .. 29 : P(b) \in Nat \ {0}
  BY <1>1
<1>4. \A d \in Nat \ {0} : (0 \div d) % 2 = 0
  OBVIOUS
<1> QED  BY <1>2, <1>3, <1>4

\* The next character of the text goes out.
LEMMA FeedsNext ==
  ASSUME TInv, AddressJob, TextPart, result = "running", ~BadHrp(input.hrp),
         Len(fed) < Len(AddressText(input)),
         fed' = fed \o <<AddressText(input)[Len(fed) + 1]>>, UNCHANGED <<input, result>>
  PROVE  /\ Len(fed') = Len(fed) + 1 /\ Len(fed') <= Len(AddressText(input))
         /\ fed' = Take(AddressText(input), Len(fed')) /\ AbsStep
<1> DEFINE text == AddressText(input)
           n == Len(fed)
<1>1. text \in Seq(Byte) /\ Len(text) \in Nat /\ n \in Nat /\ fed \in Seq(Byte) /\ n < Len(text)
  <2>1. text \in Seq(Byte)
    BY AddressState, TextSetting
  <2> QED  BY <2>1, AddressState, LenProperties
<1>2. fed = Take(text, n)
  BY DEF TextPart
<1>3. Verdict(input) = "ok" /\ Text(input) = text
  BY DEF Verdict, Text, AddressJob
<1> HIDE DEF text, n
<1>4. fed' = Take(text, n + 1)
  <2>1. Take(text, n + 1) = Take(text, n) \o <<text[n + 1]>>
    BY <1>1, TakeNext
  <2> QED  BY <1>2, <2>1 DEF text, n
<1> DEFINE m == n + 1
<1>5. m \in 0 .. Len(text) /\ n \in 0 .. m /\ m \in Nat
  BY <1>1
<1> HIDE DEF m
<1>6. fed' = Take(text, m)
  BY <1>4 DEF m
<1>7. Len(fed') = m /\ Len(fed') <= Len(text)
  <2>1. Len(Take(text, m)) = m
    BY <1>1, <1>5, TakeIs
  <2>2. m <= Len(text)
    BY <1>1, <1>5
  <2> QED  BY <1>6, <2>1, <2>2
<1>8. fed' # fed
  BY <1>1, <1>7 DEF m, n
<1>9. IsPrefix(fed, fed')
  BY <1>1, <1>2, <1>5, <1>6, TakeOfTake
<1>10. IsPrefix(fed', text)
  <2> DEFINE z == Len(text)
  <2>1. z \in 0 .. Len(text) /\ m \in 0 .. z
    BY <1>1, <1>5
  <2>2. Take(text, z) = text
    BY <1>1, TakeAll
  <2> HIDE DEF z
  <2>3. IsPrefix(Take(text, m), Take(text, z))
    BY <1>1, <2>1, TakeOfTake
  <2> QED  BY <1>6, <2>2, <2>3
<1>11. Abs!Feed
  <2>1. Abs!IsPrefix(fed, fed') /\ Abs!IsPrefix(fed', text)
    BY <1>9, <1>10 DEF IsPrefix, Abs!IsPrefix
  <2> QED  BY <1>3, <1>8, <2>1 DEF Abs!Feed
<1> QED  BY <1>6, <1>7, <1>11 DEF AbsStep, Abs!Next, text, m, n

\* A feeder that refuses ends it.
LEMMA AddressRefused ==
  ASSUME Encoding, Refuses, UNCHANGED input
  PROVE  AddressInv' /\ AbsStep
<1>1. result = "running" /\ result' = "refused" /\ UNCHANGED <<input, fed>>
  BY DEF Encoding, Refuses, Return
<1> QED  BY <1>1 DEF AddressInv, Encoding, AbsStep, Abs!Next, Abs!Refused

\* At the start nothing is read or fed.
LEMMA AddressBegins ==
  ASSUME TInv, Init, AddressJob
  PROVE  AddressInv
<1>1. /\ current_cursor = 1 /\ current_offset = 0 /\ fed = <<>> /\ k = 0 /\ chk = Bits(1)
      /\ c_end = FALSE /\ buffer = 0 /\ buffer_bits = 0 /\ pc = "hrp"
  BY DEF Init, CallbacksInit, Bech32mInit, AddressJob
<1>2. Len(fed) = 0 /\ HrpLen \in Nat
  BY <1>1, AddressState
<1>3. HrpPart
  BY <1>1 DEF HrpPart
<1>4. TextPart
  <2>1. AddressText(input) \in Seq(Byte)
    BY AddressState, TextSetting
  <2>2. Len(AddressText(input)) \in Nat
    BY <2>1, LenProperties
  <2>3. Take(AddressText(input), 0) = <<>>
    <3>1. 1 .. 0 = {}
      OBVIOUS
    <3> QED  BY <3>1 DEF Take
  <2> QED  BY <1>1, <1>2, <2>2, <2>3 DEF TextPart, Middle
<1>5. SumPart
  <2>1. Polymod(Take(Padded, 0)) = Bits(1)
    <3>1. 0 \in Nat
      OBVIOUS
    <3> QED  BY <3>1, PolymodTakes
  <2> QED  BY <1>1, <2>1 DEF SumPart, Middle
<1>6. ReadPart
  <2>1. Passed = 0
    BY <1>1 DEF Passed, Begins
  <2>2. InCursors => current_offset <= Current.size
    <3> SUFFICES ASSUME InCursors PROVE current_offset <= Current.size
      OBVIOUS
    <3>1. 1 \in 1 .. Len(Cursors)
      BY <1>1, AddressState DEF InCursors
    <3>2. Cursors[1] \in Window
      BY <3>1, AddressState, ContentSetting
    <3> QED  BY <1>1, <3>2 DEF Current, Window
  <2> QED  BY <1>1, <2>1, <2>2 DEF ReadPart, Middle
<1>7. GroupPart
  BY <1>1 DEF GroupPart, Middle
<1> QED  BY <1>3, <1>4, <1>5, <1>6, <1>7 DEF AddressInv

\* A character of the hrp that is checked.
LEMMA AddressCheckHrp ==
  ASSUME TInv, AddressInv, AddressJob, CheckHrp
  PROVE  AddressInv' /\ AbsStep
<1>1. HrpPart /\ TextPart /\ SumPart /\ ReadPart /\ pc = "hrp" /\ k < HrpLen /\ result = "running"
      /\ Encoding
  BY DEF AddressInv, CheckHrp, Encoding, Prefixed, HrpLen
<1>2. UNCHANGED <<input, fed, current_cursor, current_offset, asked, got, buffer, buffer_bits, c_end, i, data>>
  BY DEF CheckHrp, inputterVars, regrouperVars
<1>3. k + 1 \in 1 .. HrpLen /\ k \in Nat /\ Hrp(k) = input.hrp[k + 1] /\ DOMAIN input.hrp = 1 .. HrpLen
  <2>1. input.hrp \in Seq(Byte)
    BY AddressState DEF Job
  <2>2. DOMAIN input.hrp = 1 .. HrpLen
    BY <2>1, LenProperties DEF HrpLen
  <2>3. k + 1 \in 1 .. HrpLen /\ k \in Nat
    BY <1>1, AddressState, SMTT(30)
  <2> QED  BY <2>2, <2>3 DEF Hrp
<1>4. CASE Hrp(k) \notin 33 .. 126
  <2>1. result' = "malformed"
    BY <1>4 DEF CheckHrp, Return
  <2>2. Verdict(input) = "malformed"
    <3>1. BadHrp(input.hrp)
      BY <1>3, <1>4 DEF BadHrp
    <3> QED  BY <3>1 DEF Verdict, AddressJob
  <2> QED  BY <1>1, <1>2, <2>1, <2>2 DEF AddressInv, Encoding, AbsStep, Abs!Next, Abs!Reject
<1>5. CASE Hrp(k) \in 33 .. 126
  <2>1. Hrp(k) \notin 65 .. 90
    BY <1>3 DEF AddressJob, Deliverable
  <2>2. chk' = Mixed(Hrp(k) \div 32) /\ k' = k + 1 /\ UNCHANGED <<pc, result>>
    BY <1>5, <2>1 DEF CheckHrp
  <2>3. Padded[k + 1] = Hrp(k) \div 32
    BY <1>3, AddressState, PaddedSetting
  <2>4. chk' = Polymod(Take(Padded, k + 1))
    <3>1. chk = Polymod(Take(Padded, k))
      BY <1>1 DEF SumPart
    <3>2. Polymod(Take(Padded, k + 1)) = Xor(polymod_step(Polymod(Take(Padded, k))), Bits(Padded[k + 1]))
      BY <1>3, PolymodTakes
    <3> QED  BY <2>2, <2>3, <3>1, <3>2 DEF Mixed
  <2>5. HrpPart'
    <3>1. ASSUME NEW n \in 1 .. k + 1 PROVE input.hrp[n] \in 33 .. 126
      <4>1. CASE n = k + 1
        BY <1>3, <1>5, <4>1
      <4>2. CASE n # k + 1
        <5>1. n \in 1 .. k
          BY <1>3, <4>2
        <5> QED  BY <1>1, <5>1 DEF HrpPart
      <4> QED  BY <4>1, <4>2
    <3> QED  BY <1>1, <1>2, <2>2, <3>1 DEF HrpPart
  <2>6. /\ Cursors' = Cursors /\ Pieces' = Pieces /\ HrpLen' = HrpLen /\ Padded' = Padded
        /\ AddressText(input)' = AddressText(input)
    BY <1>2, AddressSame
  <2>7. TextPart'
    <3>1. k + 1 <= HrpLen
      BY <1>3
    <3> QED  BY <1>1, <1>2, <2>2, <2>6, <3>1 DEF TextPart, Middle
  <2>8. SumPart'
    BY <1>1, <2>2, <2>4, <2>6 DEF SumPart, Middle
  <2>9. ReadPart'
    BY <1>1, <1>2, <2>2, <2>6 DEF ReadPart, Middle, InCursors, Current, Passed
  <2>10. GroupPart'
    BY <1>1, <2>2 DEF GroupPart, Middle
  <2> QED  BY <1>2, <2>2, <2>5, <2>7, <2>8, <2>9, <2>10 DEF AddressInv, AbsStep
<1> QED  BY <1>4, <1>5

\* The hrp has been checked; an empty one is rejected.
LEMMA AddressHrpChecked ==
  ASSUME TInv, AddressInv, AddressJob, HrpChecked
  PROVE  AddressInv' /\ AbsStep
<1>1. HrpPart /\ TextPart /\ SumPart /\ ReadPart /\ pc = "hrp" /\ ~(k < HrpLen)
  BY DEF AddressInv, HrpChecked, Encoding, Prefixed, HrpLen
<1>2. UNCHANGED <<input, fed, result, current_cursor, current_offset, asked, got, buffer, buffer_bits, c_end, i, data>>
      /\ chk' = polymod_step(chk) /\ k' = 0 /\ pc' = "prefix"
  BY DEF HrpChecked, inputterVars, regrouperVars, feederVars
<1>3. k = HrpLen /\ HrpLen \in Nat
  BY <1>1, AddressState DEF TextPart
<1>4. chk' = Polymod(Take(Padded, HrpLen + 1))
  <2>1. chk = Polymod(Take(Padded, HrpLen))
    BY <1>1, <1>3 DEF SumPart
  <2>2. Padded[HrpLen + 1] = 0
    BY AddressState, PaddedSetting
  <2>3. Polymod(Take(Padded, HrpLen + 1))
          = Xor(polymod_step(Polymod(Take(Padded, HrpLen))), Bits(Padded[HrpLen + 1]))
    BY <1>3, PolymodTakes
  <2>4. Xor(polymod_step(chk), {}) = polymod_step(chk)
    BY XorLaws
  <2> QED  BY <1>2, <2>1, <2>2, <2>3, <2>4, BitsZero
<1>5. ~BadHrp(input.hrp)
  <2>1. input.hrp \in Seq(Byte)
    BY AddressState DEF Job
  <2>2. DOMAIN input.hrp = 1 .. k
    BY <1>3, <2>1, LenProperties DEF HrpLen
  <2> QED  BY <1>1, <2>2 DEF BadHrp, HrpPart
<1>6. /\ Cursors' = Cursors /\ Pieces' = Pieces /\ HrpLen' = HrpLen /\ Padded' = Padded
      /\ AddressText(input)' = AddressText(input)
  BY <1>2, AddressSame
<1>7. HrpPart'
  BY <1>2, <1>5 DEF HrpPart
<1>8. TextPart'
  <2>1. Len(<<>>) = 0 /\ 0 <= HrpLen
    BY <1>3
  <2> QED  BY <1>1, <1>2, <1>6, <2>1 DEF TextPart, Middle
<1>9. SumPart'
  <2>1. HrpLen + 1 + 0 = HrpLen + 1
    BY <1>3
  <2> QED  BY <1>2, <1>4, <1>6, <2>1 DEF SumPart, Middle
<1>10. ReadPart'
  BY <1>1, <1>2, <1>6 DEF ReadPart, Middle, InCursors, Current, Passed
<1>11. GroupPart'
  BY <1>2 DEF GroupPart, Middle
<1> QED  BY <1>2, <1>7, <1>8, <1>9, <1>10, <1>11 DEF AddressInv, AbsStep

\* A character of the hrp that is fed.
LEMMA AddressFeedHrp ==
  ASSUME TInv, AddressInv, AddressJob, FeedHrp
  PROVE  AddressInv' /\ AbsStep
<1>1. HrpPart /\ TextPart /\ SumPart /\ ReadPart /\ pc = "prefix" /\ k < HrpLen /\ result = "running"
      /\ Encoding
  BY DEF AddressInv, FeedHrp, Encoding, Prefixed, HrpLen
<1>2. UNCHANGED <<input, current_cursor, current_offset, asked, got, buffer, buffer_bits, c_end, i, data>>
      /\ chk' = Mixed(Hrp(k) % 32) /\ k' = k + 1
  BY DEF FeedHrp, inputterVars, regrouperVars
<1>3. CASE Refuses
  BY <1>1, <1>2, <1>3, AddressRefused
<1>4. CASE Takes(<<Hrp(k)>>) /\ UNCHANGED pc
  <2>1. k + 1 \in 1 .. HrpLen /\ k \in Nat /\ HrpLen \in Nat /\ Hrp(k) = input.hrp[k + 1] /\ Len(fed) = k
    BY <1>1, AddressState DEF Hrp, TextPart
  <2>2. AddressText(input)[k + 1] = Hrp(k) /\ Len(AddressText(input)) = HrpLen + 1 + Len(Symbols) + 6
    BY <2>1, AddressState, TextSetting
  <2>3. fed' = fed \o <<AddressText(input)[Len(fed) + 1]>> /\ result' = result
    BY <1>4, <2>1, <2>2 DEF Takes
  <2>4. Len(fed) < Len(AddressText(input))
    BY <2>1, <2>2, AddressState
  <2>5. /\ Len(fed') = Len(fed) + 1 /\ Len(fed') <= Len(AddressText(input))
        /\ fed' = Take(AddressText(input), Len(fed')) /\ AbsStep
    <3>1. ~BadHrp(input.hrp)
      BY <1>1 DEF HrpPart
    <3> QED  BY <1>1, <1>2, <2>3, <2>4, <3>1, FeedsNext
  <2>6. chk' = Polymod(Take(Padded, HrpLen + 1 + (k + 1)))
    <3> DEFINE n == HrpLen + 1 + k
    <3>1. n \in Nat /\ HrpLen + 1 + (k + 1) = n + 1
      BY <2>1
    <3>2. chk = Polymod(Take(Padded, n))
      BY <1>1 DEF SumPart
    <3>3. Padded[n + 1] = Hrp(k) % 32
      BY <2>1, <3>1, AddressState, PaddedSetting
    <3> HIDE DEF n
    <3>4. Polymod(Take(Padded, n + 1)) = Xor(polymod_step(Polymod(Take(Padded, n))), Bits(Padded[n + 1]))
      BY <3>1, PolymodTakes
    <3> QED  BY <1>2, <3>1, <3>2, <3>3, <3>4 DEF Mixed
  <2>7. /\ Cursors' = Cursors /\ Pieces' = Pieces /\ HrpLen' = HrpLen /\ Padded' = Padded
        /\ AddressText(input)' = AddressText(input)
    BY <1>2, AddressSame
  <2>8. HrpPart'
    BY <1>1, <1>2, <1>4 DEF HrpPart
  <2>9. TextPart'
    <3>1. Len(fed') = k' /\ k' <= HrpLen
      BY <1>2, <2>1, <2>5
    <3> QED  BY <1>1, <1>4, <2>5, <2>7, <3>1 DEF TextPart, Middle
  <2>10. SumPart'
    BY <1>1, <1>2, <1>4, <2>6, <2>7 DEF SumPart, Middle
  <2>11. ReadPart'
    BY <1>1, <1>2, <1>4, <2>7 DEF ReadPart, Middle, InCursors, Current, Passed
  <2>12. GroupPart'
    BY <1>1, <1>4 DEF GroupPart, Middle
  <2> QED  BY <2>5, <2>8, <2>9, <2>10, <2>11, <2>12 DEF AddressInv
<1> QED  BY <1>3, <1>4 DEF FeedHrp

\* The "1" behind the hrp.
LEMMA AddressFeedOne ==
  ASSUME TInv, AddressInv, AddressJob, FeedOne
  PROVE  AddressInv' /\ AbsStep
<1>1. HrpPart /\ TextPart /\ SumPart /\ ReadPart /\ pc = "prefix" /\ ~(k < HrpLen) /\ result = "running"
      /\ Encoding
  BY DEF AddressInv, FeedOne, Encoding, Prefixed, HrpLen
<1>2. UNCHANGED <<input, current_cursor, current_offset, asked, got, buffer, buffer_bits, c_end, i, data, chk, k>>
  BY DEF FeedOne, inputterVars, bech32mVars
<1>3. CASE Refuses
  BY <1>1, <1>2, <1>3, AddressRefused
<1>4. CASE Takes(<<One>>) /\ pc' = "more"
  <2>1. k = HrpLen /\ HrpLen \in Nat /\ Len(fed) = HrpLen
    BY <1>1, AddressState DEF TextPart
  <2>2. AddressText(input)[HrpLen + 1] = One /\ Len(AddressText(input)) = HrpLen + 1 + Len(Symbols) + 6
    BY AddressState, TextSetting
  <2>3. fed' = fed \o <<AddressText(input)[Len(fed) + 1]>> /\ result' = result
    BY <1>4, <2>1, <2>2 DEF Takes
  <2>4. Len(fed) < Len(AddressText(input))
    BY <2>1, <2>2, AddressState
  <2>5. /\ Len(fed') = Len(fed) + 1 /\ Len(fed') <= Len(AddressText(input))
        /\ fed' = Take(AddressText(input), Len(fed')) /\ AbsStep
    <3>1. ~BadHrp(input.hrp)
      BY <1>1 DEF HrpPart
    <3> QED  BY <1>1, <1>2, <2>3, <2>4, <3>1, FeedsNext
  <2>6. /\ Cursors' = Cursors /\ Pieces' = Pieces /\ HrpLen' = HrpLen /\ Padded' = Padded
        /\ AddressText(input)' = AddressText(input) /\ Content' = Content /\ Symbols' = Symbols
    BY <1>2, AddressSame
  <2>7. Sent' = 0 /\ Unfed' = 0 /\ Made' = 0
    <3>1. Sent' = 0
      BY <2>1, <2>5, <2>6 DEF Sent
    <3>2. Unfed' = 0
      BY <1>4 DEF Unfed
    <3> QED  BY <3>1, <3>2 DEF Made
  <2>8. Passed' = 0 /\ OnTheWay' = 0 /\ Used' = 0
    <3>1. Passed' = 0
      BY <1>1, <1>2, <2>6 DEF Passed, ReadPart
    <3>2. OnTheWay' = 0
      BY <1>4 DEF OnTheWay
    <3> QED  BY <3>1, <3>2 DEF Used
  <2>9. c_end' = FALSE /\ buffer_bits' = 0 /\ buffer' = 0
    BY <1>1, <1>2, AddressState DEF ReadPart
  <2>10. HrpPart'
    BY <1>1, <1>2, <1>4 DEF HrpPart
  <2>11. TextPart'
    BY <1>4, <2>5, <2>6, <2>7 DEF TextPart, Middle
  <2>12. SumPart'
    <3>1. HrpLen + 1 + k = 2 * HrpLen + 1 + 0
      BY <2>1
    <3>2. chk = Polymod(Take(Padded, HrpLen + 1 + k))
      BY <1>1 DEF SumPart
    <3> QED  BY <1>2, <1>4, <2>6, <2>7, <3>1, <3>2 DEF SumPart, Middle
  <2>13. ReadPart'
    <3>1. (InCursors => current_offset <= Current.size)' /\ (~InCursors => current_offset = 0)'
      BY <1>1, <1>2, <2>6 DEF ReadPart, InCursors, Current
    <3>2. 1 .. 0 = {}
      OBVIOUS
    <3> QED  BY <1>4, <2>8, <2>9, <3>1, <3>2 DEF ReadPart
  <2>14. GroupPart'
    <3>1. Going'
      <4>1. 5 * 0 + 0 = 8 * 0
        OBVIOUS
      <4> QED  BY <2>7, <2>8, <2>9, <4>1 DEF Going, Reg
    <3>2. 1 .. 0 = {}
      OBVIOUS
    <3> QED  BY <1>4, <2>7, <2>9, <3>1, <3>2 DEF GroupPart
  <2> QED  BY <2>5, <2>10, <2>11, <2>12, <2>13, <2>14 DEF AddressInv
<1> QED  BY <1>3, <1>4 DEF FeedOne
-----------------------------------------------------------------------------
(* The bytes. *)

\* Asking the inputter, at first or for the rest of a group.
LEMMA AddressAsks ==
  ASSUME TInv, AddressInv, AddressJob, AskForBytes \/ AskForRest
  PROVE  AddressInv' /\ AbsStep
<1>1. /\ Encoding /\ pc = "more" /\ data' = <<>>
      /\ UNCHANGED <<input, fed, result, chk, current_cursor, current_offset, buffer, buffer_bits, c_end>>
  BY DEF AskForBytes, AskForRest, CallInputter, inputterVars, regrouperVars, feederVars
<1>2. /\ pc' = "input" => got' = <<>> /\ ~c_end
      /\ pc' = "flush" => c_end
      /\ pc' \in {"input", "flush"}
  BY DEF AskForBytes, AskForRest, CallInputter
<1>3. Middle /\ Middle'
  BY <1>1, <1>2 DEF Middle
<1>4. /\ HrpPart' /\ TextPart' /\ SumPart' /\ AbsStep /\ Sent' = Sent /\ ReadPart /\ GroupPart
  BY <1>1, <1>3, MiddleSame
<1>5. /\ Cursors' = Cursors /\ Pieces' = Pieces /\ Content' = Content /\ Symbols' = Symbols
  BY <1>1, AddressSame
<1>6. OnTheWay = 0 /\ OnTheWay' = 0
  <2>1. Len(<<>>) = 0
    OBVIOUS
  <2> QED  BY <1>1, <1>2, <2>1 DEF OnTheWay
<1>7. Unfed = 0 /\ Unfed' = 0
  <2>1. Len(<<>>) = 0
    OBVIOUS
  <2> QED  BY <1>1, <1>2, <2>1 DEF Unfed
<1>8. Passed' = Passed /\ Used' = Used /\ Made' = Made
  <2>1. Passed' = Passed
    BY <1>1, <1>5 DEF Passed
  <2> QED  BY <1>4, <1>6, <1>7, <2>1 DEF Used, Made
<1>9. 1 .. 0 = {}
  OBVIOUS
<1>10. ReadPart'
  <2>1. Used \in Nat
    BY <1>3, <1>4 DEF ReadPart
  <2>2. (InCursors => current_offset <= Current.size)' /\ (~InCursors => current_offset = 0)'
        /\ (c_end => ~InCursors)'
    BY <1>1, <1>4, <1>5 DEF ReadPart, InCursors, Current
  <2> QED  BY <1>2, <1>6, <1>8, <1>9, <2>1, <2>2 DEF ReadPart
<1>11. (Going \/ Done)'
  <2>1. Going \/ Done
    BY <1>3, <1>4 DEF GroupPart
  <2>2. Going => Going'
    BY <1>1, <1>5, <1>8 DEF Going
  <2>3. Done => Done'
    BY <1>1, <1>5, <1>8 DEF Done
  <2> QED  BY <2>1, <2>2, <2>3
<1>12. GroupPart'
  BY <1>1, <1>2, <1>7, <1>9, <1>11 DEF GroupPart
<1> QED  BY <1>4, <1>10, <1>12 DEF AddressInv

\* The inputter returned.
LEMMA AddressGotBytes ==
  ASSUME TInv, AddressInv, AddressJob, GotBytes
  PROVE  AddressInv' /\ AbsStep
<1>1. /\ Encoding /\ pc = "got" /\ pc' = "regroup" /\ c_end' = (got = <<>>) /\ i' = 0
      /\ UNCHANGED <<input, fed, result, chk, current_cursor, current_offset, got, data, buffer, buffer_bits>>
  BY DEF GotBytes, inputterVars, feederVars
<1>3. Middle /\ Middle'
  BY <1>1 DEF Middle
<1>4. /\ HrpPart' /\ TextPart' /\ SumPart' /\ AbsStep /\ Sent' = Sent /\ ReadPart /\ GroupPart
  BY <1>1, <1>3, MiddleSame
<1>5. /\ Cursors' = Cursors /\ Pieces' = Pieces /\ Content' = Content /\ Symbols' = Symbols
  BY <1>1, AddressSame
<1>6. Len(got) \in Nat /\ data = <<>> /\ asked = InputLength
  BY <1>1, AddressState DEF Regrouped, Given
<1>7. OnTheWay = Len(got) /\ OnTheWay' = Len(got) /\ GotFirst = 0 /\ GotFirst' = 0
  BY <1>1, <1>6 DEF OnTheWay, GotFirst
<1>8. Unfed = 0 /\ Unfed' = 0
  <2>1. Len(<<>>) = 0
    OBVIOUS
  <2> QED  BY <1>1, <1>6, <2>1 DEF Unfed
<1>9. Passed' = Passed /\ Used' = Used /\ Made' = Made
  <2>1. Passed' = Passed
    BY <1>1, <1>5 DEF Passed
  <2> QED  BY <1>4, <1>7, <1>8, <2>1 DEF Used, Made
<1>10. 1 .. 0 = {}
  OBVIOUS
<1>11. got = <<>> => ~InCursors
  <2>1. InputLength > 0
    BY Bech32mAssumption DEF InputLength, Least
  <2>2. got = <<>> => Len(got) = 0
    OBVIOUS
  <2>3. Len(got) = asked \/ ~InCursors
    BY <1>1, <1>4 DEF ReadPart
  <2> QED  BY <1>6, <2>1, <2>2, <2>3
<1>12. ReadPart'
  <2>1. Used \in Nat /\ \A n \in 1 .. OnTheWay : got[GotFirst + n] = Content[Used + n]
    BY <1>3, <1>4 DEF ReadPart
  <2>2. (InCursors => current_offset <= Current.size)' /\ (~InCursors => current_offset = 0)'
    BY <1>1, <1>4, <1>5 DEF ReadPart, InCursors, Current
  <2>3. (c_end => ~InCursors)'
    BY <1>1, <1>5, <1>11 DEF InCursors
  <2>4. (\A n \in 1 .. OnTheWay : got[GotFirst + n] = Content[Used + n])'
    BY <1>1, <1>5, <1>7, <1>9, <2>1
  <2> QED  BY <1>1, <1>9, <2>1, <2>2, <2>3, <2>4 DEF ReadPart
<1>13. Going'
  <2>1. Going
    <3>1. ~c_end
      BY <1>1, <1>4 DEF GroupPart
    <3> QED  BY <1>3, <1>4, <3>1 DEF GroupPart, Done
  <2> QED  BY <1>1, <1>5, <1>9, <2>1 DEF Going
<1>14. GroupPart'
  <2>1. (c_end <=> got = <<>>)'
    BY <1>1, Zenon
  <2>2. ~(i' > 0) /\ pc' = "regroup"
    BY <1>1
  <2> QED  BY <1>8, <1>10, <1>13, <2>1, <2>2 DEF GroupPart
<1> QED  BY <1>4, <1>12, <1>14 DEF AddressInv

\* The bytes that the inputter writes are the next bytes of the content.
LEMMA AddressCopies ==
  ASSUME TInv, AddressInv, AddressJob, CopyBytes, result = "running", UNCHANGED bech32mVars
  PROVE  AddressInv' /\ AbsStep
<1> DEFINE n == Least(Current.size - current_offset, asked - Len(got))
           from == Current.off + current_offset
           mem == Current.mem
           begin == Begins(Pieces, current_cursor)
           z == Current.size
           piece == SubSeq(mem, from + 1, from + n)
<1>1. /\ Encoding /\ pc = "input" /\ Len(got) < asked /\ InCursors /\ current_offset < z
      /\ UNCHANGED <<input, fed, chk, current_cursor, asked, data, buffer, buffer_bits, c_end>>
  BY DEF CopyBytes, bech32mVars, AddressJob, Encoding
<1>2. Middle
  BY <1>1 DEF Middle
<1>3. ReadPart /\ GroupPart
  BY <1>1 DEF AddressInv
<1>4. /\ current_cursor \in 1 .. Len(Cursors) /\ Len(Pieces) = Len(Cursors) /\ Pieces \in Seq(Seq(Byte))
      /\ Content = FlattenSeq(Pieces) /\ Content \in Seq(Byte)
  BY <1>1, AddressState, ContentSetting DEF InCursors
<1>5. /\ Current \in Window /\ Current.off + z <= Len(mem) /\ Len(Pieces[current_cursor]) = z
      /\ \A o \in 1 .. z : Pieces[current_cursor][o] = mem[Current.off + o]
  BY <1>4, AddressState, ContentSetting DEF Current
<1>6. Current.off \in Nat /\ z \in Nat /\ mem \in Seq(Byte)
  BY <1>5 DEF Window
<1>7. asked \in Nat /\ Len(got) \in Nat /\ current_offset \in Nat /\ got \in Seq(Byte)
  BY <1>1, AddressState, InputLengthFits DEF Given
<1>8. n \in Nat /\ n <= z - current_offset /\ n <= asked - Len(got)
  <2>1. z - current_offset \in Nat /\ asked - Len(got) \in Nat
    BY <1>1, <1>6, <1>7
  <2> QED  BY <2>1 DEF Least
<1>9. from \in Nat /\ from + n <= Len(mem)
  <2>1. Len(mem) \in Nat
    BY <1>6, LenProperties
  <2> DEFINE off == Current.off
  <2>2. off + z <= Len(mem) /\ off \in Nat /\ z \in Nat
    BY <1>5, <1>6
  <2> HIDE DEF n, mem, z, off
  <2>3. off + current_offset \in Nat /\ off + current_offset + n <= Len(mem)
    BY <1>7, <1>8, <2>1, <2>2
  <2> QED  BY <2>3 DEF off
<1>10. begin \in Nat /\ \A o \in 1 .. z : Content[begin + o] = mem[Current.off + o]
  <2>1. begin \in Nat
    BY <1>4, BeginsStep
  <2>2. \A o \in 1 .. z : Content[begin + o] = Pieces[current_cursor][o]
    BY <1>4, <1>5, FlattenIs
  <2> QED  BY <1>5, <2>1, <2>2
<1>11. got' = got \o piece /\ current_offset' = current_offset + n /\ UNCHANGED <<pc, result>>
  <2>1. ~(from + n > TotalSize(mem))
    <3>1. Len(mem) \in Nat
      BY <1>6, LenProperties
    <3> HIDE DEF n, from
    <3> QED  BY <1>8, <1>9, <3>1 DEF TotalSize
  <2> QED  BY <2>1 DEF CopyBytes
<1> HIDE DEF n, from, mem, z, begin
<1>12. piece \in Seq(Byte) /\ Len(piece) = n /\ \A o \in 1 .. n : piece[o] = mem[from + o]
  <2>1. piece = [o \in 1 .. n |-> mem[from + o]]
    BY <1>6, <1>8, <1>9, PieceIs
  <2>2. mem \in Seq(0 .. 255)
    BY <1>6, Bytes
  <2>3. piece \in Seq(0 .. 255) /\ Len(piece) = n
    BY <1>8, <1>9, <2>2, PieceOf, ZenonT(60)
  <2> QED  BY <2>1, <2>3, Bytes
<1> HIDE DEF piece
<1>13. /\ Len(got') = Len(got) + n
       /\ \A o \in 1 .. Len(got) + n : got'[o] = IF o <= Len(got) THEN got[o] ELSE piece[o - Len(got)]
  <2>1. got \in Seq(Byte) /\ piece \in Seq(Byte)
    BY <1>7, <1>12
  <2>2. Len(got \o piece) = Len(got) + Len(piece)
        /\ \A o \in 1 .. Len(got) + Len(piece) :
             (got \o piece)[o] = IF o <= Len(got) THEN got[o] ELSE piece[o - Len(got)]
    BY <2>1, ConcatProperties
  <2> QED  BY <1>11, <1>12, <2>2
<1>14. Middle'
  BY <1>1, <1>11 DEF Middle
<1>15. HrpPart' /\ TextPart' /\ SumPart' /\ AbsStep /\ Sent' = Sent
  BY <1>1, <1>2, <1>11, <1>14, MiddleSame
<1>16. /\ Cursors' = Cursors /\ Pieces' = Pieces /\ Content' = Content /\ Symbols' = Symbols
  BY <1>1, AddressSame
<1>17. Passed = begin + current_offset /\ Passed' = begin + (current_offset + n)
  BY <1>1, <1>11, <1>16 DEF Passed, begin
<1>18. OnTheWay = Len(got) /\ OnTheWay' = Len(got) + n /\ GotFirst = 0 /\ GotFirst' = 0
  BY <1>1, <1>11, <1>13 DEF OnTheWay, GotFirst
<1>19. Used' = Used /\ Used \in Nat /\ Used + Len(got) = begin + current_offset
  <2>1. Used = Passed - Len(got) /\ Used' = Passed' - (Len(got) + n)
    BY <1>18 DEF Used
  <2>2. Used \in Nat
    BY <1>2, <1>3 DEF ReadPart
  <2>3. begin \in Nat
    BY <1>10
  <2> QED  BY <1>7, <1>8, <1>17, <2>1, <2>2, <2>3
<1>20. ASSUME NEW o \in 1 .. Len(got) + n PROVE got'[o] = Content[Used + o]
  <2>1. CASE o <= Len(got)
    <3>1. o \in 1 .. OnTheWay
      BY <1>7, <1>18, <2>1
    <3>2. got[GotFirst + o] = Content[Used + o]
      BY <1>2, <1>3, <3>1 DEF ReadPart
    <3> QED  BY <1>13, <1>18, <2>1, <3>2
  <2>2. CASE ~(o <= Len(got))
    <3> DEFINE p == o - Len(got)
               q == current_offset + p
    <3>1. p \in 1 .. n /\ q \in 1 .. z
      BY <1>6, <1>7, <1>8, <2>2
    <3>2. from + p = Current.off + q /\ Used + o = begin + q
      <4>1. o \in Nat /\ begin \in Nat /\ Used + Len(got) = begin + current_offset /\ Used \in Nat
        BY <1>7, <1>8, <1>10, <1>19
      <4>2. Used + o = begin + q
        BY <1>7, <4>1
      <4> DEFINE off == Current.off
      <4>3. off \in Nat
        BY <1>6
      <4> HIDE DEF off
      <4>4. off + current_offset + p = off + q
        BY <1>7, <4>1, <4>3
      <4> QED  BY <4>2, <4>4 DEF from, off
    <3>3. got'[o] = piece[p]
      BY <1>13, <2>2
    <3> HIDE DEF p, q
    <3>4. piece[p] = mem[Current.off + q] /\ Content[begin + q] = mem[Current.off + q]
      BY <1>10, <1>12, <3>1, <3>2
    <3> QED  BY <3>2, <3>3, <3>4
  <2> QED  BY <2>1, <2>2
<1>21. ReadPart'
  <2>1. (InCursors => current_offset <= Current.size)' /\ (~InCursors => current_offset = 0)'
    <3>1. InCursors' /\ Current' = Current
      BY <1>1, <1>16 DEF InCursors, Current
    <3>2. current_offset + n <= z
      BY <1>6, <1>7, <1>8
    <3> QED  BY <1>11, <3>1, <3>2 DEF z
  <2>2. ~c_end'
    BY <1>1, <1>3 DEF GroupPart
  <2>3. (\A o \in 1 .. OnTheWay : got[GotFirst + o] = Content[Used + o])'
    <3>1. \A o \in 1 .. Len(got) + n : 0 + o = o
      BY <1>7, <1>8
    <3> QED  BY <1>16, <1>18, <1>19, <1>20, <3>1
  <2> QED  BY <1>1, <1>11, <1>19, <2>1, <2>2, <2>3 DEF ReadPart
<1>22. Unfed = 0 /\ Unfed' = 0
  BY <1>1, <1>11 DEF Unfed
<1>23. Made' = Made
  BY <1>15, <1>22 DEF Made
<1>24. Going'
  <2>1. Going
    <3>1. ~c_end
      BY <1>1, <1>3 DEF GroupPart
    <3> QED  BY <1>2, <1>3, <3>1 DEF GroupPart, Done
  <2> QED  BY <1>1, <1>16, <1>19, <1>23, <2>1 DEF Going
<1>25. GroupPart'
  <2>1. 1 .. 0 = {}
    OBVIOUS
  <2>2. ~c_end'
    BY <1>1, <1>3 DEF GroupPart
  <2> QED  BY <1>1, <1>11, <1>22, <1>24, <2>1, <2>2 DEF GroupPart
<1> QED  BY <1>15, <1>21, <1>25 DEF AddressInv

\* The cursor is read to its end.
LEMMA AddressNextCursor ==
  ASSUME TInv, AddressInv, AddressJob, NextCursor, result = "running", UNCHANGED bech32mVars
  PROVE  AddressInv' /\ AbsStep
<1>1. /\ Encoding /\ pc = "input" /\ pc' = "input" /\ InCursors /\ current_offset >= Current.size
      /\ current_cursor' = current_cursor + 1 /\ current_offset' = 0
      /\ UNCHANGED <<input, fed, result, chk, asked, got, data, buffer, buffer_bits, c_end>>
  BY DEF NextCursor, bech32mVars, AddressJob, Encoding, feederVars
<1>2. Middle /\ Middle'
  BY <1>1 DEF Middle
<1>3. /\ HrpPart' /\ TextPart' /\ SumPart' /\ AbsStep /\ Sent' = Sent /\ ReadPart /\ GroupPart
  BY <1>1, <1>2, MiddleSame
<1>4. /\ Cursors' = Cursors /\ Pieces' = Pieces /\ Content' = Content /\ Symbols' = Symbols
  BY <1>1, AddressSame
<1>5. /\ current_cursor \in 1 .. Len(Cursors) /\ Len(Pieces) = Len(Cursors) /\ Pieces \in Seq(Seq(Byte))
      /\ Len(Cursors) \in Nat
  BY <1>1, AddressState, ContentSetting DEF InCursors
<1>6. Len(Pieces[current_cursor]) = Current.size /\ Current.size \in Nat
  BY <1>5, AddressState, ContentSetting DEF Current, Window
<1>7. current_offset = Current.size
  <2>1. current_offset <= Current.size /\ current_offset \in Nat
    BY <1>1, <1>3, AddressState DEF ReadPart
  <2> QED  BY <1>1, <1>6, <2>1
<1>8. Passed' = Passed
  <2>1. Begins(Pieces, current_cursor + 1) = Begins(Pieces, current_cursor) + Current.size
        /\ Begins(Pieces, current_cursor) \in Nat
    BY <1>5, <1>6, BeginsStep
  <2>2. Passed' = Begins(Pieces, current_cursor + 1) + 0
    BY <1>1, <1>4 DEF Passed
  <2>3. Passed = Begins(Pieces, current_cursor) + Current.size
    BY <1>7 DEF Passed
  <2> QED  BY <1>6, <2>1, <2>2, <2>3
<1>9. OnTheWay' = OnTheWay /\ GotFirst' = GotFirst /\ Unfed' = Unfed /\ DataFirst' = DataFirst
  BY <1>1 DEF OnTheWay, GotFirst, Unfed, DataFirst
<1>10. Used' = Used /\ Made' = Made
  BY <1>3, <1>8, <1>9 DEF Used, Made
<1>11. ~c_end /\ ~c_end'
  BY <1>1, <1>3 DEF GroupPart
<1>12. ReadPart'
  <2>1. Used \in Nat /\ \A n \in 1 .. OnTheWay : got[GotFirst + n] = Content[Used + n]
    BY <1>2, <1>3 DEF ReadPart
  <2>2. (InCursors => current_offset <= Current.size)'
    <3> SUFFICES ASSUME InCursors' PROVE (current_offset <= Current.size)'
      OBVIOUS
    <3>1. current_cursor + 1 \in 1 .. Len(Cursors)
      BY <1>1, <1>4, <1>5 DEF InCursors
    <3>2. Cursors[current_cursor + 1].size \in Nat
      BY <3>1, AddressState, ContentSetting DEF Window
    <3> QED  BY <1>1, <1>4, <3>2 DEF Current
  <2>3. (\A n \in 1 .. OnTheWay : got[GotFirst + n] = Content[Used + n])'
    BY <1>1, <1>4, <1>9, <1>10, <2>1
  <2> QED  BY <1>1, <1>10, <1>11, <2>1, <2>2, <2>3 DEF ReadPart
<1>13. GroupPart'
  <2>1. Going
    BY <1>2, <1>3, <1>11 DEF GroupPart, Done
  <2>2. Going'
    BY <1>1, <1>4, <1>10, <2>1 DEF Going
  <2>3. \A n \in 1 .. Unfed : data[DataFirst + n] = Symbols[Sent + n]
    BY <1>2, <1>3 DEF GroupPart
  <2>4. (\A n \in 1 .. Unfed : data[DataFirst + n] = Symbols[Sent + n])'
    BY <1>1, <1>3, <1>4, <1>9, <2>3
  <2> QED  BY <1>1, <1>11, <2>2, <2>4 DEF GroupPart
<1> QED  BY <1>3, <1>12, <1>13 DEF AddressInv

\* A step that only moves on: from the inputter, from the bytes to the
\* rest, or from the symbols to the next call of the inputter.
LEMMA AddressMovesOn ==
  ASSUME TInv, AddressInv, AddressJob, Encoding,
         UNCHANGED <<input, fed, result, inputterVars, bech32mVars>>,
         \/ pc = "input" /\ pc' = "got" /\ (Len(got) >= asked \/ ~InCursors)
         \/ pc = "regroup" /\ pc' = "flush" /\ i = Len(got)
         \/ pc = "symbols" /\ pc' = "more" /\ k = Len(data)
  PROVE  AddressInv' /\ AbsStep
<1>1. /\ UNCHANGED <<input, fed, result, chk, k, i, current_cursor, current_offset, asked, got, data>>
      /\ UNCHANGED <<buffer, buffer_bits, c_end>>
  BY DEF inputterVars, bech32mVars
<1>2. Middle /\ Middle'
  BY DEF Middle
<1>3. /\ HrpPart' /\ TextPart' /\ SumPart' /\ AbsStep /\ Sent' = Sent /\ ReadPart /\ GroupPart
  BY <1>1, <1>2, MiddleSame
<1>4. /\ Cursors' = Cursors /\ Pieces' = Pieces /\ Content' = Content /\ Symbols' = Symbols
  BY <1>1, AddressSame
<1>5. Len(got) \in Nat /\ Len(data) \in Nat /\ asked \in Nat /\ Len(got) <= asked
  <2>1. asked \in Nat /\ Len(got) <= asked
    BY DEF TInv, InputterTypes
  <2> QED  BY <2>1, AddressState
<1>6. OnTheWay' = OnTheWay /\ (OnTheWay = 0 \/ GotFirst' = GotFirst)
  BY <1>1, <1>5 DEF OnTheWay, GotFirst
<1>7. Unfed' = Unfed /\ (Unfed = 0 \/ DataFirst' = DataFirst)
  BY <1>1, <1>5 DEF Unfed, DataFirst
<1>8. Passed' = Passed
  BY <1>1, <1>4 DEF Passed
<1>9. Used' = Used /\ Made' = Made
  BY <1>3, <1>6, <1>7, <1>8 DEF Used, Made
<1>10. 1 .. 0 = {}
  OBVIOUS
<1>11. ReadPart'
  <2>1. Used \in Nat /\ \A n \in 1 .. OnTheWay : got[GotFirst + n] = Content[Used + n]
    BY <1>2, <1>3 DEF ReadPart
  <2>2. (\A n \in 1 .. OnTheWay : got[GotFirst + n] = Content[Used + n])'
    <3>1. CASE OnTheWay = 0
      BY <1>6, <1>10, <3>1
    <3>2. CASE GotFirst' = GotFirst
      BY <1>1, <1>4, <1>6, <1>9, <2>1, <3>2
    <3> QED  BY <1>6, <3>1, <3>2
  <2>3. (InCursors => current_offset <= Current.size)' /\ (~InCursors => current_offset = 0)'
        /\ (c_end => ~InCursors)'
    BY <1>1, <1>3, <1>4 DEF ReadPart, InCursors, Current
  <2>4. (pc = "got" => Len(got) = asked \/ ~InCursors)'
    <3> SUFFICES ASSUME pc' = "got" PROVE (Len(got) = asked \/ ~InCursors)'
      OBVIOUS
    <3>1. Len(got) >= asked \/ ~InCursors
      OBVIOUS
    <3>2. Len(got) = asked \/ ~InCursors
      BY <1>5, <3>1
    <3> QED  BY <1>1, <1>4, <3>2 DEF InCursors
  <2>5. pc' \notin {"hrp", "prefix"}
    OBVIOUS
  <2> QED  BY <1>9, <2>1, <2>2, <2>3, <2>4, <2>5 DEF ReadPart
<1>12. (Going => Going') /\ (Done => Done')
  <2>1. Going => Going'
    BY <1>1, <1>4, <1>9 DEF Going
  <2>2. Done => Done'
    BY <1>1, <1>4, <1>9 DEF Done
  <2> QED  BY <2>1, <2>2
<1>13. (\A n \in 1 .. Unfed : data[DataFirst + n] = Symbols[Sent + n])'
  <2>1. \A n \in 1 .. Unfed : data[DataFirst + n] = Symbols[Sent + n]
    BY <1>2, <1>3 DEF GroupPart
  <2>2. CASE Unfed = 0
    BY <1>7, <1>10, <2>2
  <2>3. CASE DataFirst' = DataFirst
    BY <1>1, <1>3, <1>4, <1>7, <2>1, <2>3
  <2> QED  BY <1>7, <2>2, <2>3
<1>14. (Going \/ Done)'
  BY <1>2, <1>3, <1>12 DEF GroupPart
<1>15. (pc \in {"input", "got"} => ~c_end)'
  BY <1>1, <1>3 DEF GroupPart
<1>16. (pc = "flush" => IF c_end THEN data = <<>> ELSE data # <<>>)'
  <2> SUFFICES ASSUME pc' = "flush" PROVE IF c_end THEN data = <<>> ELSE data # <<>>
    BY <1>1
  <2>1. pc = "regroup" /\ i = Len(got)
    OBVIOUS
  <2>2. (c_end <=> got = <<>>) /\ (i > 0 => data # <<>>)
    BY <1>3, <2>1 DEF GroupPart
  <2>3. CASE c_end
    <3>1. Len(got) = 0
      BY <2>2, <2>3
    <3>2. Len(data) <= 2 * i
      BY <2>1, AddressState DEF Regrouped
    <3>3. Len(data) = 0
      BY <1>5, <2>1, <3>1, <3>2
    <3>4. data \in Seq(0 .. 31)
      BY AddressState
    <3>5. data = <<>>
      BY <3>3, <3>4, EmptySeq
    <3> QED  BY <2>3, <3>5
  <2>4. CASE ~c_end
    <3>1. got # <<>> /\ got \in Seq(Byte)
      BY <2>2, <2>4, AddressState
    <3>2. Len(got) # 0
      BY <3>1, EmptySeq
    <3>3. i > 0
      BY <1>5, <2>1, <3>2
    <3> QED  BY <2>2, <2>4, <3>3
  <2> QED  BY <2>3, <2>4
<1>17. (pc \in {"more", "symbols"} => (c_end => Done))'
  BY <1>1, <1>3, <1>12 DEF GroupPart
<1>18. pc' \notin {"regroup", "symbols"}
  OBVIOUS
<1>19. GroupPart'
  BY <1>13, <1>14, <1>15, <1>16, <1>17, <1>18 DEF GroupPart
<1> QED  BY <1>3, <1>11, <1>19 DEF AddressInv
-----------------------------------------------------------------------------
(* The groups. *)

\* A byte is regrouped: its bits and those of the register make one group
\* or two, and the register keeps the others.
LEMMA AddressRegroups ==
  ASSUME TInv, AddressInv, AddressJob, RegroupByte
  PROVE  AddressInv' /\ AbsStep
<1> DEFINE byte == got[i + 1]
           ready == buffer_bits >= 5
           bits == IF ready THEN buffer_bits - 5 ELSE buffer_bits
           left == IF ready THEN ByteShifted(buffer, 5) ELSE buffer
           group == (left \div 8) + (byte \div Power(3 + bits))
           groups == (IF ready THEN <<buffer \div 8>> ELSE <<>>) \o <<group>>
           m == IF ready THEN Made + 1 ELSE Made
<1>1. /\ Encoding /\ pc = "regroup" /\ i < Len(got)
      /\ UNCHANGED <<input, current_cursor, current_offset, asked, got, fed, chk, c_end>>
  BY DEF RegroupByte, inputterVars
<1>2. Middle
  BY <1>1 DEF Middle
<1>3. TextPart /\ ReadPart /\ GroupPart
  BY <1>1 DEF AddressInv
<1>4. /\ i \in Nat /\ Len(got) \in Nat /\ Len(data) \in Nat /\ buffer_bits \in 0 .. 7
      /\ data \in Seq(0 .. 31) /\ Content \in Seq(Byte) /\ Len(Content) \in Nat
  BY AddressState, ContentSetting
<1>5. Used \in Nat /\ Used + (Len(got) - i) = Passed /\ Passed \in Nat /\ Passed <= Len(Content)
  <2>1. OnTheWay = Len(got) - i
    BY <1>1 DEF OnTheWay
  <2> QED  BY <1>2, <1>3, <2>1, PassedIs
<1>6. Sent \in Nat /\ Made \in Nat /\ Made = Sent + Len(data)
  <2>1. Unfed = Len(data)
    BY <1>1 DEF Unfed
  <2> QED  BY <1>2, <1>3, <2>1, MadeInside
<1>7. byte = Nth(Content, Used) /\ Used + 1 <= Len(Content)
  <2>1. OnTheWay = Len(got) - i /\ GotFirst = i
    BY <1>1 DEF OnTheWay, GotFirst
  <2>2. 1 \in 1 .. OnTheWay
    BY <1>1, <1>4, <2>1
  <2>3. got[GotFirst + 1] = Content[Used + 1]
    BY <1>2, <1>3, <2>2 DEF ReadPart
  <2>4. Used < Len(Content) /\ Used + 1 <= Len(Content)
    BY <1>1, <1>4, <1>5
  <2> QED  BY <2>1, <2>3, <2>4 DEF Nth
<1>8. 5 * Made + buffer_bits = 8 * Used /\ buffer = Reg(Nth(Content, Used - 1), buffer_bits)
  BY <1>1, <1>3 DEF GroupPart, Going
<1>9. /\ ready => buffer \div 8 = Group(Content, Made + 1)
      /\ group = Group(Content, m + 1)
      /\ ByteShifted(byte, 5 - bits) = Reg(byte, bits + 3)
      /\ bits \in 0 .. 4 /\ m \in Nat
      /\ BitsLeft(m, Used, bits) /\ BitsLeft(m + 1, Used + 1, bits + 3)
  <2> DEFINE c == Content
             g == Made
             u == Used
             n == buffer_bits
             r == Reg(Nth(c, u - 1), n)
             b == Nth(c, u)
  <2> HIDE DEF c, g, u, n
  <2>1. c \in Seq(Byte) /\ g \in Nat /\ u \in Nat /\ n \in 0 .. 7 /\ BitsLeft(g, u, n)
    BY <1>4, <1>5, <1>6, <1>8 DEF c, g, u, n, BitsLeft
  <2>2. /\ n >= 5 => r \div 8 = Group(c, g + 1)
        /\ RestReg(r, n) = Reg(Nth(c, u - 1), RestBits(n))
        /\ RestBits(n) \in 0 .. 4 /\ RestMade(g, n) \in Nat
        /\ BitsLeft(RestMade(g, n), u, RestBits(n))
    BY <2>1, GroupTaken
  <2>3. buffer = r /\ byte = b
    BY <1>7, <1>8 DEF c, u, n
  <2> HIDE DEF byte
  <2>4. bits = RestBits(n) /\ left = RestReg(buffer, n) /\ m = RestMade(g, n) /\ (ready <=> n >= 5)
    BY DEF n, g, RestBits, RestReg, RestMade
  <2> HIDE DEF bits, left, m, ready
  <2>5. bits \in 0 .. 4 /\ m \in Nat /\ BitsLeft(m, u, bits)
    BY <2>2, <2>4
  <2>6. /\ (Reg(Nth(c, u - 1), bits) \div 8) + (b \div Power(3 + bits)) = Group(c, m + 1)
        /\ ByteShifted(b, 5 - bits) = Reg(b, bits + 3)
        /\ BitsLeft(m + 1, u + 1, bits + 3)
    BY <2>1, <2>5, ByteMakes
  <2>7. left = Reg(Nth(c, u - 1), bits)
    BY <2>2, <2>3, <2>4
  <2> HIDE DEF r, b
  <2>8. group = Group(c, m + 1)
    BY <2>3, <2>6, <2>7 DEF b
  <2>9. ready => buffer \div 8 = Group(c, g + 1)
    BY <2>2, <2>3, <2>4
  <2> QED  BY <2>3, <2>5, <2>6, <2>8, <2>9 DEF c, g, u
<1>10. ready => m = Made + 1
  OBVIOUS
<1>11. ~ready => m = Made
  OBVIOUS
<1>12. data \in Seq(Nat)
  BY <1>4, NumbersAreNat
<1> HIDE DEF byte, ready, bits, left, group, m
<1> HIDE DEF groups
<1>12a. /\ 5 * (m + 1) <= 8 * Len(Content) + 4
        /\ ready => 5 * (Made + 1) <= 8 * Len(Content) + 4
  <2> DEFINE N == Len(Content)
             u == Used
  <2>1. N \in Nat /\ u \in Nat /\ u + 1 <= N /\ m \in Nat /\ bits \in 0 .. 4
        /\ 5 * (m + 1) + (bits + 3) = 8 * (u + 1)
    BY <1>4, <1>5, <1>7, <1>9 DEF BitsLeft
  <2> HIDE DEF N, u
  <2>2. 5 * (m + 1) <= 8 * N + 4
    BY <2>1
  <2>3. 5 * m <= 8 * N + 4
    BY <2>1, <2>2
  <2> QED  BY <1>10, <2>2, <2>3 DEF N
<1> USE DEF groups
<1>13. group = Symbols[m + 1] /\ group \in Nat
  BY <1>9, <1>12a, AddressState, SymbolAt
<1>14. ready => buffer \div 8 = Symbols[Made + 1] /\ buffer \div 8 \in Nat
  <2> SUFFICES ASSUME ready PROVE buffer \div 8 = Symbols[Made + 1] /\ buffer \div 8 \in Nat
    OBVIOUS
  <2> QED  BY <1>6, <1>9, <1>12a, AddressState, SymbolAt
<1> DEFINE p == Sent + Len(data)
<1>15. /\ groups \in Seq(Nat) /\ Len(groups) = m + 1 - Made /\ Len(groups) \in 1 .. 2
       /\ PartOf(groups, Symbols, p)
  <2>1. p = Made /\ Made \in Nat
    BY <1>6
  <2> HIDE DEF p
  <2>2. CASE ready
    <3> DEFINE v == buffer \div 8
    <3>1. v \in Nat /\ v = Symbols[p + 1] /\ group \in Nat /\ group = Symbols[p + 2]
      <4>1. m + 1 = p + 2
        BY <1>10, <2>1, <2>2
      <4> QED  BY <1>13, <1>14, <2>1, <2>2, <4>1
    <3>2. groups = <<v>> \o <<group>>
      BY <2>2
    <3> HIDE DEF v, groups
    <3>4. groups \in Seq(Nat) /\ Len(groups) = 2 /\ groups[1] = v /\ groups[2] = group
      BY <3>1, <3>2, TwoOf
    <3>5. PartOf(groups, Symbols, p)
      <4>1. \A n \in 1 .. 2 : n = 1 \/ n = 2
        OBVIOUS
      <4> QED  BY <3>1, <3>4, <4>1 DEF PartOf
    <3>6. m + 1 - Made = 2
      BY <1>10, <2>1, <2>2
    <3> QED  BY <3>4, <3>5, <3>6
  <2>3. CASE ~ready
    <3>1. group \in Nat /\ group = Symbols[p + 1]
      BY <1>11, <1>13, <2>1, <2>3
    <3>2. groups = <<>> \o <<group>>
      BY <2>3
    <3> HIDE DEF groups
    <3>3. groups = <<group>>
      BY <3>2
    <3>4. groups \in Seq(Nat) /\ Len(groups) = 1 /\ groups[1] = group
      BY <3>1, <3>3
    <3>5. PartOf(groups, Symbols, p)
      <4>1. \A n \in 1 .. 1 : n = 1
        OBVIOUS
      <4> QED  BY <3>1, <3>4, <4>1 DEF PartOf
    <3>6. m + 1 - Made = 1
      BY <1>11, <2>1, <2>3
    <3> QED  BY <3>4, <3>5, <3>6
  <2> QED  BY <2>2, <2>3
<1> HIDE DEF p
<1>16. /\ data' = data \o groups
       /\ buffer' = ByteShifted(byte, 5 - bits) /\ buffer_bits' = bits + 3
       /\ i' = i + 1 /\ UNCHANGED <<pc, result>>
  <2>1. ~(Len(data) + Len(groups) > Bech32mBufLen)
    <3>1. Len(data) <= 2 * i /\ asked = InputLength /\ Len(got) <= asked
      BY <1>1, AddressState DEF Regrouped, Given
    <3>2. Len(groups) \in 1 .. 2
      BY <1>15
    <3> DEFINE d == Len(data)
               e == Len(got)
               f == Len(groups)
               l == InputLength
    <3>3. d \in Nat /\ d <= 2 * i /\ e <= l /\ f \in 1 .. 2 /\ l \in Nat /\ 2 * l <= Bech32mBufLen
          /\ i < e /\ e \in Nat /\ i \in Nat
      BY <1>1, <1>4, <3>1, <3>2, InputLengthFits
    <3> HIDE DEF groups, d, e, f, l
    <3>4. ~(d + f > Bech32mBufLen)
      BY <3>3, Bech32mAssumption
    <3> QED  BY <3>4 DEF d, f
  <2> QED  BY <2>1 DEF RegroupByte, byte, ready, bits, left, group
<1> HIDE DEF groups
<1>17. /\ data' \in Seq(Nat) /\ Len(data') = Len(data) + Len(groups) /\ PartOf(data', Symbols, Sent)
  <2>1. PartOf(data, Symbols, Sent)
    <3>1. Unfed = Len(data) /\ DataFirst = 0
      BY <1>1 DEF Unfed, DataFirst
    <3>2. \A n \in 1 .. Len(data) : data[0 + n] = Symbols[Sent + n]
      BY <1>2, <1>3, <3>1 DEF GroupPart
    <3>3. \A n \in 1 .. Len(data) : 0 + n = n
      BY <1>4
    <3> QED  BY <3>2, <3>3 DEF PartOf
  <2>2. groups \in Seq(Nat) /\ PartOf(groups, Symbols, Sent + Len(data))
    BY <1>15 DEF p
  <2>3. data \o groups \in Seq(Nat) /\ Len(data \o groups) = Len(data) + Len(groups)
        /\ PartOf(data \o groups, Symbols, Sent)
    BY <1>6, <1>12, <2>1, <2>2, Appended
  <2> QED  BY <1>16, <2>3
<1>18. Middle'
  BY <1>1, <1>16 DEF Middle
<1>19. HrpPart' /\ TextPart' /\ SumPart' /\ AbsStep /\ Sent' = Sent
  BY <1>1, <1>2, <1>16, <1>18, MiddleSame
<1>20. /\ Cursors' = Cursors /\ Pieces' = Pieces /\ Content' = Content /\ Symbols' = Symbols
  BY <1>1, AddressSame
<1>21. OnTheWay' = Len(got) - (i + 1) /\ GotFirst' = i + 1 /\ OnTheWay = Len(got) - i /\ GotFirst = i
  BY <1>1, <1>16 DEF OnTheWay, GotFirst
<1>22. Passed' = Passed
  BY <1>1, <1>20 DEF Passed
<1>23. Used' = Used + 1 /\ Used' \in Nat
  <2> DEFINE l == Len(got)
             u == Used
             v == Used'
             x == Passed
  <2>1. v = x - (l - (i + 1))
    BY <1>21, <1>22 DEF Used
  <2>2. l \in Nat /\ i \in Nat /\ u \in Nat /\ x \in Nat /\ u + (l - i) = x
    BY <1>4, <1>5
  <2> HIDE DEF l, u, v, x
  <2>3. v = u + 1 /\ v \in Nat
    BY <2>1, <2>2
  <2> QED  BY <2>3 DEF u, v
<1>24. ReadPart'
  <2>1. (\A n \in 1 .. OnTheWay : got[GotFirst + n] = Content[Used + n])'
    <3> SUFFICES ASSUME NEW n \in 1 .. (Len(got) - (i + 1))
                 PROVE  got[i + 1 + n] = Content[Used + 1 + n]
      BY <1>1, <1>20, <1>21, <1>23
    <3> DEFINE o == n + 1
    <3>1. o \in 1 .. (Len(got) - i) /\ i + 1 + n = i + o /\ Used + 1 + n = Used + o
      BY <1>4, <1>5
    <3> HIDE DEF o
    <3>2. got[i + o] = Content[Used + o]
      BY <1>2, <1>3, <1>21, <3>1 DEF ReadPart
    <3> QED  BY <3>1, <3>2
  <2>2. (InCursors => current_offset <= Current.size)' /\ (~InCursors => current_offset = 0)'
        /\ (c_end => ~InCursors)'
    BY <1>1, <1>3, <1>20 DEF ReadPart, InCursors, Current
  <2> QED  BY <1>1, <1>16, <1>23, <2>1, <2>2 DEF ReadPart
<1>25. Unfed' = Len(data') /\ DataFirst' = 0
  BY <1>1, <1>16 DEF Unfed, DataFirst
<1>26. Made' = m + 1
  <2>1. Made' = Sent + Len(data')
    BY <1>19, <1>25 DEF Made
  <2> QED  BY <1>4, <1>6, <1>9, <1>15, <1>17, <2>1
<1>27. Going'
  <2>1. 5 * Made' + buffer_bits' = 8 * Used'
    BY <1>9, <1>16, <1>23, <1>26 DEF BitsLeft
  <2>2. Used' - 1 = Used
    BY <1>5, <1>23
  <2>3. buffer' = Reg(Nth(Content, Used), bits + 3)
    BY <1>7, <1>9, <1>16
  <2> QED  BY <1>16, <1>20, <2>1, <2>2, <2>3 DEF Going
<1>28. (\A n \in 1 .. Unfed : data[DataFirst + n] = Symbols[Sent + n])'
  <2>1. \A n \in 1 .. Len(data') : data'[n] = Symbols[Sent + n]
    BY <1>17 DEF PartOf
  <2>2. \A n \in 1 .. Len(data') : 0 + n = n
    OBVIOUS
  <2> QED  BY <1>19, <1>20, <1>25, <2>1, <2>2
<1>29. data' # <<>>
  <2>1. Len(data') # 0
    BY <1>4, <1>15, <1>17
  <2>2. Len(<<>>) = 0
    OBVIOUS
  <2> QED  BY <2>1, <2>2
<1>30. (c_end <=> got = <<>>)'
  BY <1>1, <1>3 DEF GroupPart
<1>31. GroupPart'
  <2>1. pc' = "regroup"
    BY <1>1, <1>16
  <2> QED  BY <1>27, <1>28, <1>29, <1>30, <2>1 DEF GroupPart
<1> QED  BY <1>19, <1>24, <1>31 DEF AddressInv

\* The rest of the bits goes out behind all bytes.
LEMMA AddressFlushed ==
  ASSUME TInv, AddressInv, AddressJob, Flush
  PROVE  /\ data' \in Seq(Nat) /\ PartOf(data', Symbols, Sent)
         /\ c_end => buffer' = 0 /\ buffer_bits' = 0 /\ Sent + Len(data') = Len(Symbols)
         /\ ~c_end => UNCHANGED <<data, buffer, buffer_bits>>
<1> DEFINE ready == c_end /\ buffer_bits >= 5 /\ Len(data) < Bech32mBufLen
           bits == IF ready THEN buffer_bits - 5 ELSE buffer_bits
           left == IF ready THEN ByteShifted(buffer, 5) ELSE buffer
           made == data \o (IF ready THEN <<buffer \div 8>> ELSE <<>>)
           rest == c_end /\ bits # 0 /\ Len(made) < Bech32mBufLen
<1>1. /\ Encoding /\ pc = "flush"
      /\ data' = made \o (IF rest THEN <<left \div 8>> ELSE <<>>)
      /\ buffer' = IF rest THEN 0 ELSE left
      /\ buffer_bits' = IF rest THEN 0 ELSE bits
  BY DEF Flush
<1>2. Middle
  BY <1>1 DEF Middle
<1>3. TextPart /\ ReadPart /\ GroupPart
  BY <1>1 DEF AddressInv
<1>4. /\ data \in Seq(Nat) /\ buffer_bits \in 0 .. 7 /\ Len(data) \in Nat /\ Content \in Seq(Byte)
      /\ Len(Content) \in Nat
  BY AddressState, ContentSetting, NumbersAreNat
<1>5. OnTheWay = 0 /\ Unfed = Len(data) /\ DataFirst = 0
  BY <1>1 DEF OnTheWay, Unfed, DataFirst
<1>6. Sent \in Nat /\ Made \in Nat /\ Made = Sent + Len(data)
  BY <1>2, <1>3, <1>5, MadeInside
<1>7. PartOf(data, Symbols, Sent)
  <2>1. \A n \in 1 .. Len(data) : data[0 + n] = Symbols[Sent + n]
    BY <1>2, <1>3, <1>5 DEF GroupPart
  <2>2. \A n \in 1 .. Len(data) : 0 + n = n
    BY <1>4
  <2> QED  BY <2>1, <2>2 DEF PartOf
<1>8. \A a \in Seq(Nat) : a \o <<>> = a
  BY ConcatEmptySeq
<1>9. CASE ~c_end
  <2>1. ~ready /\ ~rest
    BY <1>9
  <2>2. made = data /\ bits = buffer_bits /\ left = buffer
    BY <1>4, <1>8, <2>1
  <2> HIDE DEF ready, rest, made, bits, left
  <2>3. data' = data /\ buffer' = buffer /\ buffer_bits' = buffer_bits
    BY <1>1, <1>4, <1>8, <2>1, <2>2
  <2> QED  BY <1>4, <1>7, <1>9, <2>3
<1>10. CASE c_end /\ ~Going
  <2>1. Done
    BY <1>2, <1>3, <1>10 DEF GroupPart
  <2>2. data = <<>> /\ buffer_bits = 0 /\ buffer = 0
    BY <1>1, <1>3, <1>10, <2>1 DEF GroupPart, Done
  <2>3. ~ready
    BY <2>2
  <2>4. bits = 0 /\ left = 0 /\ made = data
    BY <1>4, <1>8, <2>2, <2>3
  <2>5. ~rest
    BY <2>4
  <2> HIDE DEF ready, rest, made, bits, left
  <2>6. data' = data /\ buffer' = 0 /\ buffer_bits' = 0
    BY <1>1, <1>4, <1>8, <2>4, <2>5
  <2>7. Sent + Len(data) = Len(Symbols)
    BY <1>6, <2>1 DEF Done
  <2> QED  BY <1>4, <1>7, <1>10, <2>6, <2>7
<1>11. CASE c_end /\ Going
  <2>1. data = <<>> /\ Len(data) = 0 /\ Made = Sent
    <3>1. data = <<>>
      BY <1>1, <1>3, <1>11 DEF GroupPart
    <3> QED  BY <1>6, <3>1, EmptyPart
  <2>2. Used = Len(Content)
    <3>1. ~InCursors
      BY <1>3, <1>11 DEF ReadPart
    <3>2. Passed = Len(Content)
      BY <1>3, <3>1, PassedIs
    <3> QED  BY <1>4, <1>5, <3>2 DEF Used
  <2> DEFINE c == Content
             u == Len(Content)
             n == buffer_bits
             a == Nth(c, u - 1)
             r == Reg(a, n)
             g == Sent
             m == RestMade(g, n)
  <2>3. BitsLeft(g, u, n) /\ buffer = r
    BY <1>11, <2>1, <2>2 DEF Going, BitsLeft
  <2>4. ready <=> n >= 5
    BY <1>4, <1>11, <2>1, Bech32mAssumption
  <2>5. bits = RestBits(n) /\ left = RestReg(buffer, n)
    BY <2>4 DEF RestBits, RestReg
  <2> HIDE DEF c, u, n, g, ready, bits, left
  <2>6. c \in Seq(Byte) /\ u \in Nat /\ n \in 0 .. 7 /\ g \in Nat
    BY <1>4, <1>6 DEF c, u, n, g
  <2>7. /\ n >= 5 => r \div 8 = Group(c, g + 1)
        /\ RestReg(r, n) = Reg(a, RestBits(n))
        /\ RestBits(n) \in 0 .. 4 /\ m \in Nat /\ BitsLeft(m, u, RestBits(n))
    BY <2>3, <2>6, GroupTaken
  <2> HIDE DEF a, r, m
  <2>8. bits \in 0 .. 4 /\ m \in Nat /\ BitsLeft(m, u, bits) /\ left = Reg(a, bits)
    BY <2>3, <2>5, <2>7
  <2>9. /\ bits = 0 => Len(Symbols) = m
        /\ bits # 0 => Len(Symbols) = m + 1 /\ Reg(a, bits) \div 8 = Symbols[m + 1]
    <3>1. BitsLeft(m, Len(Content), bits)
      BY <2>8 DEF u
    <3> QED  BY <2>8, <3>1, AddressState, LastGroup DEF a, c, u
  <2>10. /\ made \in Seq(Nat) /\ PartOf(made, Symbols, g) /\ g + Len(made) = m /\ Len(made) \in 0 .. 1
    <3>1. CASE ready
      <4> DEFINE v == buffer \div 8
      <4>1. m = g + 1 /\ v = Group(c, g + 1)
        BY <2>3, <2>4, <2>7, <3>1 DEF m, RestMade
      <4>2. 5 * (g + 1) <= 8 * Len(Content) + 4
        <5>1. 5 * m + bits = 8 * u
          BY <2>8 DEF BitsLeft
        <5>2. 5 * m <= 8 * u + 4
          BY <2>6, <2>8, <5>1
        <5> QED  BY <4>1, <5>2 DEF u
      <4>3. v = Symbols[g + 1] /\ v \in Nat
        BY <2>6, <4>1, <4>2, AddressState, SymbolAt DEF c
      <4>4. made = data \o <<v>>
        BY <3>1
      <4> HIDE DEF v, made
      <4>5. PartOf(data, Symbols, g) /\ v = Symbols[g + Len(data) + 1]
        <5>1. g + Len(data) + 1 = g + 1
          BY <2>1, <2>6
        <5> QED  BY <1>7, <4>3, <5>1 DEF g
      <4>6. made \in Seq(Nat) /\ Len(made) = Len(data) + 1 /\ PartOf(made, Symbols, g)
        BY <1>4, <2>6, <4>3, <4>4, <4>5, AppendedOne
      <4>7. Len(made) = 1
        BY <2>1, <4>6
      <4>8. g + Len(made) = m
        BY <2>6, <4>1, <4>7
      <4> QED  BY <4>6, <4>7, <4>8
    <3>2. CASE ~ready
      <4>1. made = data
        BY <1>4, <1>8, <3>2
      <4>2. m = g
        BY <2>4, <3>2 DEF m, RestMade
      <4> HIDE DEF made
      <4> QED  BY <1>4, <1>7, <2>1, <2>6, <4>1, <4>2 DEF g
    <3> QED  BY <3>1, <3>2
  <2> HIDE DEF made
  <2>11. rest <=> bits # 0
    <3>1. Len(made) < Bech32mBufLen
      <4>1. Len(made) \in 0 .. 1
        BY <2>10
      <4> QED  BY <4>1, Bech32mAssumption
    <3> QED  BY <1>11, <3>1
  <2> HIDE DEF rest
  <2>12. CASE bits = 0
    <3>1. data' = made /\ buffer' = 0 /\ buffer_bits' = 0
      <4>1. left = 0
        BY <2>8, <2>12 DEF Reg
      <4> QED  BY <1>1, <1>8, <2>10, <2>11, <2>12, <4>1
    <3>2. g + Len(made) = Len(Symbols)
      BY <2>9, <2>10, <2>12
    <3> QED  BY <1>11, <2>10, <3>1, <3>2 DEF g
  <2>13. CASE bits # 0
    <3> DEFINE v == left \div 8
    <3>1. v = Symbols[m + 1] /\ Len(Symbols) = m + 1
      BY <2>8, <2>9, <2>13
    <3>2. v \in Nat
      <4>1. m + 1 \in 1 .. Len(Symbols)
        BY <2>8, <3>1
      <4>2. Symbols[m + 1] \in 0 .. 31
        BY <4>1, AddressState, SymbolsSetting
      <4>3. \A x \in 0 .. 31 : x \in Nat
        OBVIOUS
      <4> HIDE DEF v
      <4> QED  BY <3>1, <4>2, <4>3
    <3>3. data' = made \o <<v>> /\ buffer' = 0 /\ buffer_bits' = 0
      BY <1>1, <2>11, <2>13
    <3> HIDE DEF v
    <3>4. made \in Seq(Nat) /\ PartOf(made, Symbols, g) /\ v = Symbols[g + Len(made) + 1]
      BY <2>10, <3>1
    <3>5. data' \in Seq(Nat) /\ Len(data') = Len(made) + 1 /\ PartOf(data', Symbols, g)
      BY <2>6, <3>2, <3>3, <3>4, AppendedOne
    <3>6. g + Len(data') = Len(Symbols)
      BY <2>6, <2>10, <3>1, <3>5
    <3> QED  BY <1>11, <3>3, <3>5, <3>6 DEF g
  <2> QED  BY <2>12, <2>13
<1> QED  BY <1>9, <1>10, <1>11

\* The register is flushed.
LEMMA AddressFlushes ==
  ASSUME TInv, AddressInv, AddressJob, Flush
  PROVE  AddressInv' /\ AbsStep
<1>1. /\ Encoding /\ pc = "flush" /\ pc' = "symbols" /\ k' = 0
      /\ UNCHANGED <<input, fed, result, chk, current_cursor, current_offset, asked, got, c_end, i>>
  BY DEF Flush, inputterVars, feederVars
<1>2. Middle /\ Middle'
  BY <1>1 DEF Middle
<1>3. /\ HrpPart' /\ TextPart' /\ SumPart' /\ AbsStep /\ Sent' = Sent /\ TextPart /\ ReadPart /\ GroupPart
  BY <1>1, <1>2, MiddleSame
<1>4. /\ Cursors' = Cursors /\ Pieces' = Pieces /\ Content' = Content /\ Symbols' = Symbols
  BY <1>1, AddressSame
<1>5. /\ data' \in Seq(Nat) /\ PartOf(data', Symbols, Sent)
      /\ c_end => buffer' = 0 /\ buffer_bits' = 0 /\ Sent + Len(data') = Len(Symbols)
      /\ ~c_end => UNCHANGED <<data, buffer, buffer_bits>>
  BY AddressFlushed
<1>6. Len(data') \in Nat
  BY <1>5, LenProperties
<1>7. OnTheWay = 0 /\ OnTheWay' = 0 /\ Unfed = Len(data) /\ Unfed' = Len(data') /\ DataFirst' = 0
  <2>1. Unfed' = Len(data') - 0 /\ Len(data') - 0 = Len(data')
    BY <1>1, <1>6 DEF Unfed
  <2> QED  BY <1>1, <2>1 DEF OnTheWay, Unfed, DataFirst
<1>8. Passed' = Passed /\ Used' = Used
  <2>1. Passed' = Passed
    BY <1>1, <1>4 DEF Passed
  <2> QED  BY <1>7, <2>1 DEF Used
<1>9. Made' = Sent + Len(data')
  BY <1>3, <1>7 DEF Made
<1>10. 1 .. 0 = {}
  OBVIOUS
<1>11. ReadPart'
  <2>1. Used \in Nat
    BY <1>2, <1>3 DEF ReadPart
  <2>2. (InCursors => current_offset <= Current.size)' /\ (~InCursors => current_offset = 0)'
        /\ (c_end => ~InCursors)'
    BY <1>1, <1>3, <1>4 DEF ReadPart, InCursors, Current
  <2> QED  BY <1>1, <1>7, <1>8, <1>10, <2>1, <2>2 DEF ReadPart
<1>12. (\A n \in 1 .. Unfed : data[DataFirst + n] = Symbols[Sent + n])'
  <2>1. \A n \in 1 .. Len(data') : data'[n] = Symbols[Sent + n]
    BY <1>5 DEF PartOf
  <2>2. \A n \in 1 .. Len(data') : 0 + n = n
    BY <1>6
  <2> QED  BY <1>3, <1>4, <1>7, <2>1, <2>2
<1>13. k' <= Len(data')
  BY <1>1, <1>6
<1>14. CASE c_end
  <2>1. c_end'
    BY <1>1, <1>14
  <2>2. Done'
    BY <1>4, <1>5, <1>9, <1>14, <2>1 DEF Done
  <2> QED  BY <1>1, <1>3, <1>11, <1>12, <1>13, <2>1, <2>2 DEF GroupPart, AddressInv
<1>15. CASE ~c_end
  <2>1. ~c_end'
    BY <1>1, <1>15
  <2>2. data # <<>> /\ Going
    BY <1>1, <1>2, <1>3, <1>15 DEF GroupPart, Done
  <2>3. data' = data /\ buffer' = buffer /\ buffer_bits' = buffer_bits
    BY <1>5, <1>15
  <2>4. Made' = Made
    BY <1>7, <1>9, <2>3 DEF Made
  <2>5. Going'
    BY <1>4, <1>8, <2>2, <2>3, <2>4 DEF Going
  <2>6. data' # <<>>
    BY <2>2, <2>3
  <2> QED  BY <1>1, <1>3, <1>11, <1>12, <1>13, <2>1, <2>5, <2>6 DEF GroupPart, AddressInv
<1> QED  BY <1>14, <1>15
-----------------------------------------------------------------------------
(* The text behind the "1". *)

\* A group is fed and summed.
LEMMA AddressFeedsSymbol ==
  ASSUME TInv, AddressInv, AddressJob, FeedSymbol
  PROVE  AddressInv' /\ AbsStep
<1>1. /\ Encoding /\ pc = "symbols" /\ k < Len(data) /\ result = "running"
      /\ UNCHANGED <<input, current_cursor, current_offset, asked, got, buffer, buffer_bits, c_end, i, data>>
  BY DEF FeedSymbol, inputterVars, regrouperVars, Encoding
<1>2. HrpPart /\ TextPart /\ SumPart /\ ReadPart /\ GroupPart /\ Middle
  BY <1>1 DEF AddressInv, Middle
<1>3. k \in Nat /\ Len(data) \in Nat /\ data \in Seq(0 .. 31) /\ HrpLen \in Nat /\ Len(Symbols) \in Nat
      /\ Len(fed) \in Nat
  BY AddressState
<1>4. Unfed = Len(data) - k /\ DataFirst = k /\ Sent \in Nat /\ Made = Sent + Unfed /\ Made <= Len(Symbols)
      /\ Made \in Nat
  BY <1>1, <1>2, MadeInside DEF Unfed, DataFirst
<1> DEFINE symbol == data[k + 1]
<1>5. symbol = Symbols[Sent + 1] /\ symbol \in 0 .. 31 /\ Sent + 1 \in 1 .. Len(Symbols)
  <2>1. 1 \in 1 .. Unfed /\ Sent + 1 \in 1 .. Len(Symbols)
    BY <1>1, <1>3, <1>4
  <2>2. data[DataFirst + 1] = Symbols[Sent + 1]
    BY <1>2, <2>1 DEF GroupPart
  <2>3. Symbols[Sent + 1] \in 0 .. 31
    BY <2>1, AddressState, SymbolsSetting
  <2> QED  BY <1>4, <2>1, <2>2, <2>3
<1>6. ~(symbol >= 32)
  BY <1>5
<1>7. /\ chk' = Mixed(symbol) /\ k' = k + 1
      /\ (Takes(<<Charset[symbol + 1]>>) /\ UNCHANGED pc) \/ Refuses
  BY <1>6 DEF FeedSymbol
<1> HIDE DEF symbol
<1>8. CASE Refuses
  BY <1>1, <1>8, AddressRefused
<1>9. CASE Takes(<<Charset[symbol + 1]>>) /\ UNCHANGED pc
  <2>1. Len(fed) + 1 = HrpLen + 1 + (Sent + 1)
    BY <1>3, <1>4 DEF Sent
  <2>2. /\ AddressText(input)[Len(fed) + 1] = Charset[symbol + 1]
        /\ Len(AddressText(input)) = HrpLen + 1 + Len(Symbols) + 6
    BY <1>5, <2>1, AddressState, TextSetting
  <2>3. fed' = fed \o <<AddressText(input)[Len(fed) + 1]>> /\ result' = result
    BY <1>9, <2>2 DEF Takes
  <2>4. Len(fed) < Len(AddressText(input))
    BY <1>3, <1>4, <1>5, <2>1, <2>2
  <2>5. /\ Len(fed') = Len(fed) + 1 /\ Len(fed') <= Len(AddressText(input))
        /\ fed' = Take(AddressText(input), Len(fed')) /\ AbsStep
    <3>1. ~BadHrp(input.hrp)
      BY <1>1, <1>2 DEF HrpPart
    <3> QED  BY <1>1, <1>2, <2>3, <2>4, <3>1, FeedsNext
  <2>6. chk' = Polymod(Take(Padded, 2 * HrpLen + 1 + (Sent + 1)))
    <3> DEFINE n == 2 * HrpLen + 1 + Sent
    <3>1. n \in Nat /\ 2 * HrpLen + 1 + (Sent + 1) = n + 1
      BY <1>3, <1>4
    <3>2. chk = Polymod(Take(Padded, n))
      BY <1>2 DEF SumPart
    <3>3. Padded[n + 1] = symbol
      <4> DEFINE m == Sent + 1
      <4>1. m \in 1 .. Len(Symbols) /\ symbol = Symbols[m] /\ 2 * HrpLen + 1 + m = n + 1
        BY <1>5, <3>1
      <4> HIDE DEF m, n
      <4>2. Padded[2 * HrpLen + 1 + m] = Symbols[m]
        BY <4>1, AddressState, PaddedSetting
      <4> QED  BY <4>1, <4>2
    <3> HIDE DEF n
    <3>4. Polymod(Take(Padded, n + 1)) = Xor(polymod_step(Polymod(Take(Padded, n))), Bits(Padded[n + 1]))
      BY <3>1, PolymodTakes
    <3> QED  BY <1>7, <3>1, <3>2, <3>3, <3>4 DEF Mixed
  <2>7. /\ Cursors' = Cursors /\ Pieces' = Pieces /\ HrpLen' = HrpLen /\ Padded' = Padded
        /\ AddressText(input)' = AddressText(input) /\ Content' = Content /\ Symbols' = Symbols
    BY <1>1, AddressSame
  <2>8. pc' = "symbols" /\ Middle'
    BY <1>1, <1>9 DEF Middle
  <2>9. Sent' = Sent + 1 /\ Unfed' = Unfed - 1 /\ DataFirst' = k + 1 /\ Made' = Made
    <3>1. Sent' = Sent + 1
      BY <1>3, <2>5, <2>7 DEF Sent
    <3>2. Unfed' = Len(data) - (k + 1) /\ DataFirst' = k + 1
      BY <1>1, <1>7, <2>8 DEF Unfed, DataFirst
    <3>3. Unfed' = Unfed - 1
      BY <1>3, <1>4, <3>2
    <3>4. Made' = (Sent + 1) + (Unfed - 1)
      BY <3>1, <3>3 DEF Made
    <3> QED  BY <1>3, <1>4, <3>1, <3>2, <3>3, <3>4
  <2>10. OnTheWay' = OnTheWay /\ OnTheWay = 0 /\ Passed' = Passed /\ Used' = Used
    <3>1. OnTheWay' = 0 /\ OnTheWay = 0
      BY <1>1, <2>8 DEF OnTheWay
    <3>2. Passed' = Passed
      BY <1>1, <2>7 DEF Passed
    <3> QED  BY <3>1, <3>2 DEF Used
  <2>11. HrpPart'
    BY <1>1, <1>2, <2>8 DEF HrpPart
  <2>12. TextPart'
    <3>1. Sent' \in Nat
      BY <1>4, <2>9
    <3> QED  BY <2>5, <2>7, <2>8, <3>1 DEF TextPart
  <2>13. SumPart'
    BY <2>6, <2>7, <2>8, <2>9 DEF SumPart
  <2>14. ReadPart'
    <3>1. Used \in Nat /\ 1 .. 0 = {}
      BY <1>2 DEF ReadPart
    <3>2. (InCursors => current_offset <= Current.size)' /\ (~InCursors => current_offset = 0)'
          /\ (c_end => ~InCursors)'
      BY <1>1, <1>2, <2>7 DEF ReadPart, InCursors, Current
    <3> QED  BY <2>8, <2>10, <3>1, <3>2 DEF ReadPart
  <2>15. GroupPart'
    <3>1. (\A n \in 1 .. Unfed : data[DataFirst + n] = Symbols[Sent + n])'
      <4> SUFFICES ASSUME NEW n \in 1 .. Unfed - 1 PROVE data[k + 1 + n] = Symbols[Sent + 1 + n]
        BY <1>1, <2>7, <2>9
      <4> DEFINE o == n + 1
      <4>1. o \in 1 .. Unfed /\ k + 1 + n = k + o /\ Sent + 1 + n = Sent + o
        BY <1>3, <1>4
      <4> HIDE DEF o
      <4>2. data[k + o] = Symbols[Sent + o]
        BY <1>2, <1>4, <4>1 DEF GroupPart
      <4> QED  BY <4>1, <4>2
    <3>2. Going => Going'
      BY <1>1, <2>7, <2>9, <2>10 DEF Going
    <3>3. Done => Done'
      BY <1>1, <2>7, <2>9 DEF Done
    <3>4. k' <= Len(data')
      BY <1>1, <1>3, <1>7
    <3>5. (Going \/ Done)' /\ (c_end => Done)' /\ (c_end \/ data # <<>>)'
      BY <1>1, <1>2, <3>2, <3>3 DEF GroupPart
    <3> QED  BY <2>8, <3>1, <3>4, <3>5 DEF GroupPart
  <2> QED  BY <2>5, <2>11, <2>12, <2>13, <2>14, <2>15 DEF AddressInv
<1> QED  BY <1>7, <1>8, <1>9

\* All groups are fed.
LEMMA AddressSymbolsEnd ==
  ASSUME TInv, AddressInv, AddressJob, SymbolsEnd
  PROVE  AddressInv' /\ AbsStep
<1>1. /\ Encoding /\ pc = "symbols" /\ k = Len(data) /\ data = <<>> /\ k' = 0 /\ pc' = "pad"
      /\ UNCHANGED <<input, fed, result, chk, current_cursor, current_offset, c_end>>
  BY DEF SymbolsEnd, inputterVars, feederVars, regrouperVars
<1>2. HrpPart /\ TextPart /\ SumPart /\ ReadPart /\ GroupPart /\ Middle
  BY <1>1 DEF AddressInv, Middle
<1>3. Sent = Len(Symbols)
  <2>1. Done
    BY <1>1, <1>2 DEF GroupPart
  <2>2. Unfed = 0
    <3>1. Len(<<>>) = 0 /\ 0 - 0 = 0
      OBVIOUS
    <3> QED  BY <1>1, <3>1 DEF Unfed
  <2>3. Sent \in Nat
    BY <1>2 DEF TextPart
  <2> QED  BY <2>1, <2>2, <2>3 DEF Done, Made
<1>4. /\ HrpLen' = HrpLen /\ Padded' = Padded /\ Symbols' = Symbols
      /\ AddressText(input)' = AddressText(input)
  BY <1>1, AddressSame
<1>5. Sent' = Sent /\ Sent \in Nat /\ HrpLen \in Nat
  BY <1>1, <1>2, <1>4, AddressState DEF Sent, TextPart
<1>6. HrpPart'
  BY <1>1, <1>2 DEF HrpPart
<1>7. TextPart'
  BY <1>1, <1>2, <1>3, <1>4, <1>5 DEF TextPart, Middle
<1>8. SumPart'
  <2>1. 2 * HrpLen + 1 + Sent + 0 = 2 * HrpLen + 1 + Sent
    BY <1>5
  <2>2. chk = Polymod(Take(Padded, 2 * HrpLen + 1 + Sent))
    BY <1>2 DEF SumPart
  <2> QED  BY <1>1, <1>4, <1>5, <2>1, <2>2 DEF SumPart, Middle
<1>9. ReadPart' /\ GroupPart'
  BY <1>1, <1>2, OutsideMiddle
<1> QED  BY <1>1, <1>6, <1>7, <1>8, <1>9 DEF AddressInv, AbsStep

\* A zero is summed for a character of the checksum.
LEMMA AddressPads ==
  ASSUME TInv, AddressInv, AddressJob, PadChecksum
  PROVE  AddressInv' /\ AbsStep
<1>1. /\ Encoding /\ pc = "pad" /\ pc' \in {"pad", "checksum"}
      /\ UNCHANGED <<input, fed, result, current_cursor, current_offset, c_end>>
  BY DEF PadChecksum, inputterVars, feederVars, regrouperVars
<1>2. HrpPart /\ TextPart /\ SumPart /\ ReadPart
  BY <1>1 DEF AddressInv
<1>3. Sent = Len(Symbols) /\ k <= 6 /\ k \in Nat /\ HrpLen \in Nat /\ Len(Symbols) \in Nat
  BY <1>1, <1>2, AddressState DEF TextPart
<1>4. /\ HrpLen' = HrpLen /\ Padded' = Padded /\ Symbols' = Symbols /\ Checksum' = Checksum
      /\ AddressText(input)' = AddressText(input) /\ Sent' = Sent
  BY <1>1, AddressSame DEF Sent
<1>5. HrpPart'
  BY <1>1, <1>2 DEF HrpPart
<1>6. ReadPart' /\ GroupPart'
  BY <1>1, <1>2, OutsideMiddle
<1> DEFINE n == 2 * HrpLen + 1 + Sent + k
<1>7. chk = Polymod(Take(Padded, n)) /\ n \in Nat
  BY <1>1, <1>2, <1>3 DEF SumPart
<1>8. CASE k < 6
  <2>1. chk' = polymod_step(chk) /\ k' = k + 1 /\ pc' = "pad"
    BY <1>1, <1>8 DEF PadChecksum
  <2>2. Padded[n + 1] = 0
    <3> DEFINE m == k + 1
    <3>1. m \in 1 .. 6 /\ 2 * HrpLen + 1 + Len(Symbols) + m = n + 1
      BY <1>3, <1>8
    <3> HIDE DEF m, n
    <3>2. Padded[2 * HrpLen + 1 + Len(Symbols) + m] = 0
      BY <3>1, AddressState, PaddedSetting
    <3> QED  BY <3>1, <3>2
  <2>3. 2 * HrpLen + 1 + Sent + (k + 1) = n + 1
    BY <1>3
  <2> HIDE DEF n
  <2>4. Polymod(Take(Padded, n + 1)) = Xor(polymod_step(Polymod(Take(Padded, n))), Bits(Padded[n + 1]))
    BY <1>7, PolymodTakes
  <2>5. Xor(polymod_step(chk), {}) = polymod_step(chk)
    BY XorLaws
  <2>6. chk' = Polymod(Take(Padded, n + 1))
    BY <1>7, <2>1, <2>2, <2>4, <2>5, BitsZero
  <2>7. SumPart'
    BY <1>4, <2>1, <2>3, <2>6 DEF SumPart, Middle
  <2>8. k + 1 <= 6
    BY <1>3, <1>8
  <2>9. TextPart'
    BY <1>1, <1>2, <1>3, <1>4, <2>1, <2>8 DEF TextPart, Middle
  <2> QED  BY <1>1, <1>5, <1>6, <2>7, <2>9 DEF AddressInv, AbsStep
<1>9. CASE ~(k < 6)
  <2>1. chk' = Xor(chk, Constant) /\ k' = 0 /\ pc' = "checksum"
    BY <1>1, <1>9 DEF PadChecksum
  <2>2. n = 2 * HrpLen + 1 + Len(Symbols) + 6
    BY <1>3, <1>9
  <2>3. Take(Padded, n) = Padded
    BY <2>2, AddressState, PaddedSetting
  <2> HIDE DEF n
  <2>4. chk' = Checksum
    BY <1>7, <2>1, <2>3 DEF Checksum
  <2>5. SumPart'
    BY <1>4, <2>1, <2>4 DEF SumPart, Middle
  <2>6. Sent = Len(Symbols) + 0
    BY <1>3
  <2>7. TextPart'
    BY <1>1, <1>2, <1>3, <1>4, <2>1, <2>6 DEF TextPart, Middle
  <2> QED  BY <1>1, <1>5, <1>6, <2>5, <2>7 DEF AddressInv, AbsStep
<1> QED  BY <1>8, <1>9

\* A character of the checksum is fed.
LEMMA AddressFeedsChecksum ==
  ASSUME TInv, AddressInv, AddressJob, FeedChecksum
  PROVE  AddressInv' /\ AbsStep
<1>1. /\ Encoding /\ pc = "checksum" /\ k < 6 /\ result = "running" /\ k' = k + 1
      /\ UNCHANGED <<input, chk, current_cursor, current_offset, c_end>>
  BY DEF FeedChecksum, inputterVars, regrouperVars, Encoding
<1>2. HrpPart /\ TextPart /\ SumPart /\ ReadPart
  BY <1>1 DEF AddressInv
<1>3. Sent = Len(Symbols) + k /\ k \in Nat /\ HrpLen \in Nat /\ Len(Symbols) \in Nat /\ Len(fed) \in Nat
  BY <1>1, <1>2, AddressState DEF TextPart
<1>4. chk = Checksum
  BY <1>1, <1>2 DEF SumPart
<1>5. CASE Refuses
  BY <1>1, <1>5, AddressRefused
<1>6. CASE Takes(<<Charset[ChecksumSymbol(chk, k) + 1]>>) /\ UNCHANGED pc
  <2>1. Len(fed) + 1 = HrpLen + 1 + Len(Symbols) + (k + 1)
    BY <1>3 DEF Sent
  <2>2. /\ AddressText(input)[Len(fed) + 1] = Charset[ChecksumSymbol(Checksum, k) + 1]
        /\ Len(AddressText(input)) = HrpLen + 1 + Len(Symbols) + 6
    <3> DEFINE m == k + 1
    <3>1. m \in 1 .. 6 /\ m - 1 = k
      BY <1>1, <1>3
    <3>2. Len(fed) + 1 = HrpLen + 1 + Len(Symbols) + m
      BY <2>1
    <3> HIDE DEF m
    <3>3. AddressText(input)[HrpLen + 1 + Len(Symbols) + m] = Charset[ChecksumSymbol(Checksum, m - 1) + 1]
      BY <3>1, AddressState, TextSetting
    <3>4. Len(AddressText(input)) = HrpLen + 1 + Len(Symbols) + 6
      BY AddressState, TextSetting
    <3> QED  BY <3>1, <3>2, <3>3, <3>4
  <2>3. fed' = fed \o <<AddressText(input)[Len(fed) + 1]>> /\ result' = result
    BY <1>4, <1>6, <2>2 DEF Takes
  <2>4. Len(fed) < Len(AddressText(input))
    BY <1>1, <1>3, <2>1, <2>2
  <2>5. /\ Len(fed') = Len(fed) + 1 /\ Len(fed') <= Len(AddressText(input))
        /\ fed' = Take(AddressText(input), Len(fed')) /\ AbsStep
    <3>1. ~BadHrp(input.hrp)
      BY <1>1, <1>2 DEF HrpPart
    <3> QED  BY <1>1, <1>2, <2>3, <2>4, <3>1, FeedsNext
  <2>6. /\ HrpLen' = HrpLen /\ Padded' = Padded /\ Symbols' = Symbols /\ Checksum' = Checksum
        /\ AddressText(input)' = AddressText(input)
    BY <1>1, AddressSame
  <2>7. pc' = "checksum"
    BY <1>1, <1>6
  <2>8. HrpPart'
    BY <1>1, <1>2, <2>7 DEF HrpPart
  <2>9. ReadPart' /\ GroupPart'
    BY <1>1, <1>2, <2>7, OutsideMiddle
  <2>10. SumPart'
    BY <1>1, <1>4, <2>6, <2>7 DEF SumPart, Middle
  <2>11. Sent' = Len(Symbols) + (k + 1) /\ k + 1 <= 6
    <3>1. Sent' = Sent + 1
      BY <1>3, <2>5, <2>6 DEF Sent
    <3>2. Sent' = Len(Symbols) + (k + 1)
      BY <1>3, <3>1
    <3> QED  BY <1>1, <1>3, <3>2
  <2>12. TextPart'
    BY <1>1, <2>5, <2>6, <2>7, <2>11 DEF TextPart, Middle
  <2> QED  BY <2>5, <2>8, <2>9, <2>10, <2>12 DEF AddressInv
<1> QED  BY <1>5, <1>6 DEF FeedChecksum

\* The text is fed.
LEMMA AddressEnds ==
  ASSUME TInv, AddressInv, AddressJob, Bech32mEnds
  PROVE  AddressInv' /\ AbsStep
<1>1. /\ Encoding /\ pc = "checksum" /\ k = 6 /\ result = "running" /\ result' = "ok"
      /\ UNCHANGED <<input, fed>>
  BY DEF Bech32mEnds, Encoding, Return
<1>2. HrpPart /\ TextPart
  BY <1>1 DEF AddressInv
<1>3. Sent = Len(Symbols) + 6 /\ HrpLen \in Nat /\ Len(Symbols) \in Nat /\ Len(fed) \in Nat
  BY <1>1, <1>2, AddressState DEF TextPart
<1>4. AddressText(input) \in Seq(Byte) /\ Len(AddressText(input)) = HrpLen + 1 + Len(Symbols) + 6
  BY AddressState, TextSetting
<1>5. Len(fed) = Len(AddressText(input))
  BY <1>3, <1>4 DEF Sent
<1>6. fed = AddressText(input)
  <2>1. fed = Take(AddressText(input), Len(AddressText(input)))
    BY <1>2, <1>5 DEF TextPart
  <2> QED  BY <1>4, <2>1, TakeAll
<1>7. Verdict(input) = "ok" /\ Text(input) = AddressText(input)
  <2>1. ~BadHrp(input.hrp)
    BY <1>1, <1>2 DEF HrpPart
  <2> QED  BY <2>1 DEF Verdict, Text, AddressJob
<1>8. Abs!Succeed
  BY <1>1, <1>6, <1>7 DEF Abs!Succeed
<1> QED  BY <1>1, <1>8 DEF AddressInv, Encoding, AbsStep, Abs!Next
-----------------------------------------------------------------------------
(* All steps. *)

\* A step of bech32m_encode.
LEMMA AddressEncodes ==
  ASSUME TInv, AddressInv, AddressJob, Bech32mNext
  PROVE  AddressInv' /\ AbsStep
<1>1. CASE CheckHrp
  BY <1>1, AddressCheckHrp
<1>2. CASE HrpChecked
  BY <1>2, AddressHrpChecked
<1>3. CASE FeedHrp
  BY <1>3, AddressFeedHrp
<1>4. CASE FeedOne
  BY <1>4, AddressFeedOne
<1>5. CASE AskForBytes \/ AskForRest
  BY <1>5, AddressAsks
<1>6. CASE GotBytes
  BY <1>6, AddressGotBytes
<1>7. CASE RegroupByte
  BY <1>7, AddressRegroups
<1>8. CASE BytesRegrouped
  <2>1. Encoding /\ UNCHANGED <<input, fed, result, inputterVars, bech32mVars>>
        /\ pc = "regroup" /\ pc' = "flush" /\ i = Len(got)
    BY <1>8 DEF BytesRegrouped, feederVars
  <2> QED  BY <2>1, AddressMovesOn
<1>9. CASE Flush
  BY <1>9, AddressFlushes
<1>10. CASE FeedSymbol
  BY <1>10, AddressFeedsSymbol
<1>11. CASE MoreSymbols
  <2>1. Encoding /\ UNCHANGED <<input, fed, result, inputterVars, bech32mVars>>
        /\ pc = "symbols" /\ pc' = "more" /\ k = Len(data)
    BY <1>11 DEF MoreSymbols, feederVars
  <2> QED  BY <2>1, AddressMovesOn
<1>12. CASE SymbolsEnd
  BY <1>12, AddressSymbolsEnd
<1>13. CASE PadChecksum
  BY <1>13, AddressPads
<1>14. CASE FeedChecksum
  BY <1>14, AddressFeedsChecksum
<1>15. CASE Bech32mEnds
  BY <1>15, AddressEnds
<1> QED  BY <1>1, <1>2, <1>3, <1>4, <1>5, <1>6, <1>7, <1>8, <1>9, <1>10, <1>11, <1>12, <1>13,
            <1>14, <1>15 DEF Bech32mNext

\* A step of the inputter for it.
LEMMA AddressReads ==
  ASSUME TInv, AddressInv, AddressJob, InputterNext, result = "running", UNCHANGED bech32mVars
  PROVE  AddressInv' /\ AbsStep
<1>1. CASE CopyBytes
  BY <1>1, AddressCopies
<1>2. CASE NextCursor
  BY <1>2, AddressNextCursor
<1>3. CASE InputterReturns
  <2>1. Encoding /\ UNCHANGED <<input, fed, result, inputterVars, bech32mVars>>
        /\ pc = "input" /\ pc' = "got" /\ (Len(got) >= asked \/ ~InCursors)
    BY <1>3 DEF InputterReturns, feederVars, Encoding, AddressJob
  <2> QED  BY <2>1, AddressMovesOn
<1> QED  BY <1>1, <1>2, <1>3 DEF InputterNext

\* A step of utf8_check.
LEMMA StringChecks ==
  ASSUME TInv, StringInv, OneWindow, Utf8Next
  PROVE  StringInv' /\ AbsStep
<1>1. CASE Round
  BY <1>1, StringRound
<1>2. CASE Loaded
  BY <1>2, StringLoaded
<1>3. CASE PassSequence
  BY <1>3, StringPasses
<1>4. CASE Malforms
  BY <1>4, StringMalforms
<1>5. CASE Waits
  BY <1>5, StringWaits
<1>6. CASE ScanEnds
  BY <1>6, StringScanEnds
<1>7. CASE Output
  BY <1>7, StringOutput
<1>8. CASE Utf8Ends
  BY <1>8, StringEnds
<1> QED  BY <1>1, <1>2, <1>3, <1>4, <1>5, <1>6, <1>7, <1>8 DEF Utf8Next

\* A step of the inputter for it.
LEMMA StringReads ==
  ASSUME TInv, StringInv, OneWindow, InputterNext, result = "running", UNCHANGED utf8Vars
  PROVE  StringInv' /\ AbsStep
<1>1. CASE CopyBytes
  BY <1>1, StringCopies
<1>2. CASE NextCursor
  BY <1>2, StringNextCursor
<1>3. CASE InputterReturns
  BY <1>3, StringInputterReturns
<1> QED  BY <1>1, <1>2, <1>3 DEF InputterNext

\* What the encoder has given the feeder is a beginning of the text, and
\* what it still has makes the rest.
DInv == TInv /\ Deliverable(input) /\ StringInv /\ AddressInv

\* A job that can be delivered is an address or a string of one window.
LEMMA JobIsOne == ASSUME DInv PROVE AddressJob \/ OneWindow
  BY DEF DInv, TInv, IInv, Job, AddressJob, OneWindow, Deliverable, Cursors

\* A job has one encoder.
LEMMA OtherJob ==
  /\ OneWindow => AddressInv
  /\ AddressJob => StringInv
  /\ OneWindow /\ UNCHANGED input => OneWindow'
  /\ AddressJob /\ UNCHANGED input => AddressJob'
  BY DEF OneWindow, AddressJob, AddressInv, StringInv, Encoding, Checking, Cursors

\* A step that changes nothing keeps what is known of a string.
LEMMA StringRests ==
  ASSUME StringInv, UNCHANGED streamVars
  PROVE  StringInv'
BY DEF StringInv, Checking, Window1, Scanned, Shows, Start, Held, ReadTo, Loading, Mem, Win, Cursors,
       streamVars, callbackVars, inputterVars, feederVars, utf8Vars, bech32mVars

\* The same for an address.
LEMMA AddressRests ==
  ASSUME AddressInv, UNCHANGED streamVars
  PROVE  AddressInv'
<1>1. /\ UNCHANGED <<input, pc, current_cursor, current_offset, asked, got, fed, result, chk, k>>
      /\ UNCHANGED <<buffer, buffer_bits, c_end, i, data>>
  BY DEF streamVars, callbackVars, inputterVars, feederVars, bech32mVars
<1>2. /\ Cursors' = Cursors /\ Pieces' = Pieces /\ Content' = Content /\ Symbols' = Symbols
      /\ Padded' = Padded /\ Checksum' = Checksum /\ HrpLen' = HrpLen
      /\ AddressText(input)' = AddressText(input)
  BY <1>1, AddressSame
<1>3. /\ Sent' = Sent /\ Unfed' = Unfed /\ DataFirst' = DataFirst /\ OnTheWay' = OnTheWay
      /\ GotFirst' = GotFirst /\ Passed' = Passed /\ (Middle' <=> Middle)
  BY <1>1, <1>2 DEF Sent, Unfed, DataFirst, OnTheWay, GotFirst, Passed, Middle
<1>4. Used' = Used /\ Made' = Made
  BY <1>3 DEF Used, Made
<1>5. HrpPart => HrpPart'
  BY <1>1 DEF HrpPart
<1>6. TextPart => TextPart'
  BY <1>1, <1>2, <1>3 DEF TextPart
<1>7. SumPart => SumPart'
  BY <1>1, <1>2, <1>3 DEF SumPart
<1>8. ReadPart => ReadPart'
  BY <1>1, <1>2, <1>3, <1>4 DEF ReadPart, InCursors, Current
<1>9. (Going => Going') /\ (Done => Done')
  <2>1. Going => Going'
    BY <1>1, <1>2, <1>4 DEF Going
  <2>2. Done => Done'
    BY <1>1, <1>2, <1>4 DEF Done
  <2> QED  BY <2>1, <2>2
<1>10. GroupPart => GroupPart'
  BY <1>1, <1>2, <1>3, <1>9 DEF GroupPart
<1>11. Encoding' => Encoding
  BY <1>1 DEF Encoding
<1> QED  BY <1>5, <1>6, <1>7, <1>8, <1>10, <1>11 DEF AddressInv

\* It holds at the start, where nothing is fed.
LEMMA InitDelivers ==
  ASSUME \A in \in Inputs : Deliverable(in), Init
  PROVE  DInv /\ Abs!Init
<1>1. TInv
  BY InitTypes
<1>2. input \in Inputs /\ fed = <<>> /\ result = "running"
  BY DEF Init, CallbacksInit
<1>3. Deliverable(input)
  BY <1>2
<1>4. AddressJob \/ OneWindow
  BY <1>1, <1>3 DEF TInv, IInv, Job, AddressJob, OneWindow, Deliverable, Cursors
<1>5. StringInv /\ AddressInv
  <2>1. CASE AddressJob
    BY <1>1, <2>1, AddressBegins, OtherJob
  <2>2. CASE OneWindow
    BY <1>1, <2>2, StringBegins, OtherJob
  <2> QED  BY <1>4, <2>1, <2>2
<1> QED  BY <1>1, <1>2, <1>3, <1>5 DEF DInv, Abs!Init

\* No step changes the job.
LEMMA InputStays ==
  ASSUME [Next]_streamVars
  PROVE  UNCHANGED input
<1>1. CASE Utf8Next
  BY <1>1 DEF Utf8Next, Round, Loaded, PassSequence, Malforms, Waits, ScanEnds, Output, Utf8Ends,
              CallInputter, callbackVars
<1>2. CASE Bech32mNext
  BY <1>2 DEF Bech32mNext, CheckHrp, HrpChecked, FeedHrp, FeedOne, AskForBytes, AskForRest, GotBytes,
              RegroupByte, BytesRegrouped, Flush, FeedSymbol, MoreSymbols, SymbolsEnd, PadChecksum,
              FeedChecksum, Bech32mEnds, CallInputter
<1>3. CASE InputterNext
  BY <1>3 DEF InputterNext, CopyBytes, NextCursor, InputterReturns
<1>4. CASE UNCHANGED streamVars
  BY <1>4 DEF streamVars, callbackVars
<1> QED  BY <1>1, <1>2, <1>3, <1>4 DEF Next

\* Every step keeps it, and is a step of Delivery or none.
LEMMA StepDelivers ==
  ASSUME DInv, [Next]_streamVars
  PROVE  DInv' /\ AbsStep
<1>1. TInv /\ StringInv /\ AddressInv /\ Deliverable(input)
  BY DEF DInv
<1>2. TInv'
  BY <1>1, StepTypes
<1>3. UNCHANGED input
  BY InputStays
<1>4. Deliverable(input)'
  BY <1>1, <1>3
<1>5. (AddressJob => AddressJob') /\ (OneWindow => OneWindow')
  BY <1>3, OtherJob
<1>6. CASE UNCHANGED streamVars
  <2>1. StringInv' /\ AddressInv'
    BY <1>1, <1>6, StringRests, AddressRests
  <2>2. AbsStep
    BY <1>6 DEF AbsStep, streamVars, callbackVars, feederVars
  <2> QED  BY <1>2, <1>4, <2>1, <2>2 DEF DInv
<1>7. CASE OneWindow /\ Next
  <2>1. ~Bech32mNext
    BY <1>7 DEF OneWindow, Bech32mNext, CheckHrp, HrpChecked, FeedHrp, FeedOne, AskForBytes,
                AskForRest, GotBytes, RegroupByte, BytesRegrouped, Flush, FeedSymbol, MoreSymbols,
                SymbolsEnd, PadChecksum, FeedChecksum, Bech32mEnds, Encoding
  <2>2. StringInv' /\ AbsStep
    <3>1. CASE Utf8Next
      BY <1>1, <1>7, <3>1, StringChecks
    <3>2. CASE result = "running" /\ InputterNext /\ UNCHANGED <<utf8Vars, bech32mVars>>
      BY <1>1, <1>7, <3>2, StringReads
    <3> QED  BY <1>7, <2>1, <3>1, <3>2 DEF Next
  <2>3. AddressInv'
    <3>1. OneWindow'
      BY <1>5, <1>7
    <3> QED  BY <3>1 DEF OneWindow, AddressInv, Encoding
  <2> QED  BY <1>2, <1>4, <2>2, <2>3 DEF DInv
<1>8. CASE AddressJob /\ Next
  <2>1. ~Utf8Next
    BY <1>8 DEF AddressJob, Utf8Next, Round, Loaded, PassSequence, Malforms, Waits, ScanEnds, Output,
                Utf8Ends, Scanning, Checking
  <2>2. AddressInv' /\ AbsStep
    <3>1. CASE Bech32mNext
      BY <1>1, <1>8, <3>1, AddressEncodes
    <3>2. CASE result = "running" /\ InputterNext /\ UNCHANGED <<utf8Vars, bech32mVars>>
      BY <1>1, <1>8, <3>2, AddressReads
    <3> QED  BY <1>8, <2>1, <3>1, <3>2 DEF Next
  <2>3. StringInv'
    <3>1. AddressJob'
      BY <1>5, <1>8
    <3> QED  BY <3>1 DEF AddressJob, StringInv, Checking
  <2> QED  BY <1>2, <1>4, <2>2, <2>3 DEF DInv
<1> QED  BY <1>6, <1>7, <1>8, JobIsOne

(***************************************************************************)
(* For all buffers of at least four bytes or groups, for every String and  *)
(* every Address, however its cursors are cut, and whenever the feeder     *)
(* refuses: what utf8_check and bech32m_encode give the feeder is a        *)
(* beginning of the text, success means all of it, and only an input       *)
(* without a text is rejected.                                             *)
(***************************************************************************)
THEOREM StreamsDeliver ==
  ASSUME \A in \in Inputs : Deliverable(in)
  PROVE  Spec => Delivers
<1>1. Init => DInv /\ Abs!Init
  BY InitDelivers
<1>2. DInv /\ [Next]_streamVars => DInv' /\ [Abs!Next]_<<input, fed, result>>
  BY StepDelivers DEF AbsStep
<1> QED  BY <1>1, <1>2, PTL DEF Spec, Delivers, Abs!Spec
=============================================================================
