-------------------------- MODULE Mol2SourceProofs --------------------------
(***************************************************************************)
(* The reader of Mol2Source implements BlockReads for all blocks, cache    *)
(* and buffer sizes: caches and chunks cannot be observed.                 *)
(***************************************************************************)
EXTENDS Mol2Source, TLAPS

\* Cache ch holds bytes of block b.
CoherentAt(ch, b) ==
  /\ ch.start + ch.size <= Len(b)
  /\ ch.size <= MaxCache
  /\ ch.bytes = Window(b, ch.start, ch.size)

CacheType == [start : Nat, size : Nat, bytes : Seq(Nat)]
AnswerType == [kind : Verdict \cup Fatal \cup {"none", "bytes", "item", "missing"}, count : Nat, bytes : Seq(Nat)]

\* A cursor that was checked, and only advanced since, starts inside its block.
CheckedInside ==
  \A h \in Handles : cursor[h].checked => cursor[h].off <= Len(block[cursor[h].src])

\* Where a comparison stands: its chunks were read from inside the blocks,
\* and what was compared is equal.
PairProgress ==
  \A p \in pair :
    /\ Running
    /\ p.done # 0 => /\ cursor[p.h].size = p.c.size
                     /\ cursor[p.h].off + p.done <= Len(block[cursor[p.h].src])
                     /\ p.c.off + p.done <= Len(block[p.c.src])
    /\ Window(block[cursor[p.h].src], cursor[p.h].off, p.done)
         = Window(block[p.c.src], p.c.off, p.done)

SrcInv == SrcTypeOK /\ Coherent /\ CheckedInside /\ PairProgress
-----------------------------------------------------------------------------
\* Windows of a block: their type, and windows inside windows.
LEMMA WindowType ==
  ASSUME NEW b \in Seq(Nat), NEW o \in Nat, NEW n \in Nat, o + n <= Len(b)
  PROVE  Window(b, o, n) \in Seq(Nat)
<1>1. \A k \in 1 .. n : b[o + k] \in Nat
  OBVIOUS
<1>2. Window(b, o, n) \in [1 .. n -> Nat]
  BY <1>1 DEF Window
<1> QED
  BY <1>2

LEMMA WindowInWindow ==
  ASSUME NEW b, NEW o \in Nat, NEW m \in Nat, NEW d \in Nat, NEW n \in Nat, d + n <= m
  PROVE  Window(Window(b, o, m), d, n) = Window(b, o + d, n)
<1>1. \A k \in 1 .. n : d + k \in 1 .. m /\ o + (d + k) = (o + d) + k
  OBVIOUS
<1> QED
  BY <1>1 DEF Window

\* Two windows agree when they agree on a prefix and on what follows it.
LEMMA WindowJoin ==
  ASSUME NEW a, NEW b, NEW i \in Nat, NEW j \in Nat, NEW m \in Nat, NEW n \in Nat,
         Window(a, i, m) = Window(b, j, m),
         Window(a, i + m, n) = Window(b, j + m, n)
  PROVE  Window(a, i, m + n) = Window(b, j, m + n)
<1>1. \A k \in 1 .. m : a[i + k] = b[j + k]
  BY DEF Window
<1>2. \A k \in 1 .. n : a[(i + m) + k] = b[(j + m) + k]
  BY DEF Window
<1>3. ASSUME NEW k \in 1 .. (m + n) PROVE a[i + k] = b[j + k]
  <2>1. CASE k <= m
    BY <1>1, <2>1
  <2>2. CASE k > m
    <3>1. k - m \in 1 .. n
      BY <2>2
    <3>2. a[(i + m) + (k - m)] = b[(j + m) + (k - m)]
      BY <1>2, <3>1
    <3>3. (i + m) + (k - m) = i + k /\ (j + m) + (k - m) = j + k
      BY <3>1
    <3> QED
      BY <3>2, <3>3
  <2> QED
    BY <2>1, <2>2
<1> QED
  BY <1>3 DEF Window

\* A part of two equal windows is equal.
LEMMA WindowPart ==
  ASSUME NEW a, NEW b, NEW i \in Nat, NEW j \in Nat, NEW s \in Nat, NEW m \in Nat,
         NEW n \in Nat, m + n <= s, Window(a, i, s) = Window(b, j, s)
  PROVE  Window(a, i + m, n) = Window(b, j + m, n)
<1>1. \A k \in 1 .. s : a[i + k] = b[j + k]
  BY DEF Window
<1>2. \A k \in 1 .. n : /\ m + k \in 1 .. s
                        /\ i + (m + k) = (i + m) + k
                        /\ j + (m + k) = (j + m) + k
  OBVIOUS
<1>3. \A k \in 1 .. n : a[(i + m) + k] = b[(j + m) + k]
  BY <1>1, <1>2
<1> QED
  BY <1>3 DEF Window
-----------------------------------------------------------------------------
\* A number below the modulus is its own remainder.
LEMMA SmallModulo ==
  ASSUME NEW M \in Nat, NEW a \in Nat, a < M PROVE a % M = a
  OBVIOUS

\* The central fact about mol2_read_at: over a coherent cache a read returns
\* what BlockReads promises, and it leaves a coherent cache.
LEMMA ReadIsTransparent ==
  ASSUME NEW ch \in CacheType, NEW c, NEW n \in Nat, c.off \in Nat,
         block[c.src] \in Blocks, CoherentAt(ch, block[c.src])
  PROVE  /\ ReadAt(ch, c, n) \in Outcomes(c, n)
         /\ CacheAfter(ch, c, n) \in CacheType
         /\ CoherentAt(CacheAfter(ch, c, n), block[c.src])
<1> DEFINE b == block[c.src]
           left == Len(b) - c.off
<1>0. /\ MaxCache \in Nat \ {0} /\ Len(b) \in Nat /\ left \in Int
      /\ ch.start \in Nat /\ ch.size \in Nat /\ b \in Seq(Nat)
      /\ WordMod \in Nat /\ Len(b) + MaxCache < WordMod
      /\ ch.start + ch.size <= Len(b) /\ ch.size <= MaxCache
      /\ ch.bytes = Window(b, ch.start, ch.size)
  BY BlockAssumption, SMTT(30) DEF CacheType, CoherentAt
<1>1. CASE left < 0
  <2>1. CASE Strays(ch, c, n)
    BY <1>1, <2>1 DEF ReadAt, Outcomes, CacheAfter
  <2>2. CASE ~Strays(ch, c, n)
    <3>1. n <= MaxCache /\ ~Miss(ch, c, n)
      BY <1>0, <1>1, <2>2 DEF Strays, FromSource
    <3>2. c.off >= ch.start /\ c.off - ch.start + n > ch.size
      <4>1. c.off > Len(b)
        BY <1>0, <1>1
      <4> HIDE DEF b, left
      <4> QED
        BY <1>0, <4>1, SMTT(30)
    <3>3. BadHit(ch, c, n)
      BY <3>1, <3>2, <1>0 DEF BadHit, FromSource
    <3>4. ReadAt(ch, c, n) = Word("bounds") /\ CacheAfter(ch, c, n) = ch
      BY <1>0, <2>2, <3>1, <3>3 DEF ReadAt, CacheAfter
    <3> QED
      BY <1>1, <3>4 DEF Outcomes
  <2> QED
    BY <2>1, <2>2
<1>2. CASE left >= 0 /\ n > MaxCache
  <2>1. ~Strays(ch, c, n)
    BY <1>0, <1>2 DEF Strays
  <2>2. CacheAfter(ch, c, n) = ch
    BY <1>0, <1>2 DEF CacheAfter
  <2>3. Least(n, left) = IF n <= left THEN n ELSE left
    BY DEF Least
  <2>4. ReadAt(ch, c, n) \in Outcomes(c, n)
    BY <1>0, <1>2, <2>1, <2>3 DEF ReadAt, Outcomes, Direct
  <2> QED
    BY <2>2, <2>4
<1>3. CASE left >= 0 /\ n <= MaxCache /\ Miss(ch, c, n)
  <2> DEFINE s == Least(MaxCache, left)
  <2>1. ~Strays(ch, c, n) /\ ~BadHit(ch, c, n)
    BY <1>0, <1>3 DEF Strays, BadHit, FromSource
  <2>2. s \in Nat /\ s <= MaxCache /\ s <= left /\ (s < n <=> n > left)
    BY <1>0, <1>3 DEF Least
  <2>3. Filled(c) = [start |-> c.off, size |-> s, bytes |-> Window(b, c.off, s)]
    BY DEF Filled
  <2>4. CASE n > left
    <3>1. ReadAt(ch, c, n) = Word("data") /\ Outcomes(c, n) = {Word("data")}
      BY <1>0, <1>3, <2>1, <2>2, <2>3, <2>4, SMTT(30) DEF ReadAt, Outcomes
    <3>2. CacheAfter(ch, c, n) = ch
      BY <1>0, <2>2, <2>3, <2>4 DEF CacheAfter
    <3> QED
      BY <3>1, <3>2
  <2>5. CASE n <= left
    <3>1. CacheAfter(ch, c, n) = Filled(c)
      BY <1>0, <1>3, <2>1, <2>2, <2>3, <2>5 DEF CacheAfter
    <3>2. Window(b, c.off, s) \in Seq(Nat)
      <4>1. c.off + s <= Len(b)
        BY <1>0, <2>2, SMTT(30)
      <4> HIDE DEF b, left, s
      <4> QED
        BY <1>0, <2>2, <4>1, WindowType
    <3>3. Filled(c) \in CacheType /\ CoherentAt(Filled(c), b)
      BY <1>0, <2>2, <2>3, <3>2, SMTT(30) DEF CacheType, CoherentAt
    <3>4. ReadAt(ch, c, n) = Bytes(n, Window(Window(b, c.off, s), c.off - c.off, n))
      BY <1>0, <1>3, <2>1, <2>2, <2>3, <2>5, <3>1 DEF ReadAt, FromCache
    <3>5. Window(Window(b, c.off, s), 0, n) = Window(b, c.off + 0, n)
      <4> DEFINE o == c.off
                 z == 0
      <4>1. o \in Nat /\ z \in Nat /\ s \in Nat /\ z + n <= s
        BY <2>2, <2>5
      <4> HIDE DEF b, left, s, o, z
      <4>2. Window(Window(b, o, s), z, n) = Window(b, o + z, n)
        BY <4>1, WindowInWindow
      <4> QED
        BY <4>2 DEF o, z
    <3>6. Outcomes(c, n) = {Bytes(n, Window(b, c.off, n))}
      BY <1>0, <1>3, <2>5 DEF Outcomes
    <3>7. c.off - c.off = 0 /\ c.off + 0 = c.off
      OBVIOUS
    <3> QED
      BY <3>1, <3>3, <3>4, <3>5, <3>6, <3>7
  <2> QED
    BY <1>0, <2>4, <2>5
<1>4. CASE left >= 0 /\ n <= MaxCache /\ ~Miss(ch, c, n)
  <2> DEFINE off == c.off
             start == ch.start
             size == ch.size
             len == Len(b)
  <2>0. /\ off \in Nat /\ start \in Nat /\ size \in Nat /\ len \in Nat
        /\ MaxCache \in Nat /\ WordMod \in Nat /\ len + MaxCache < WordMod
        /\ len - off >= 0 /\ n <= MaxCache /\ start + size <= len
    BY <1>0, <1>4
  <2>1. ~Strays(ch, c, n) /\ CacheAfter(ch, c, n) = ch
    BY <1>0, <1>4 DEF Strays, CacheAfter
  <2>2. (c.off + n) % WordMod = c.off + n
    <3>1. c.off + n \in Nat /\ c.off + n < WordMod
      <4> HIDE DEF off, start, size, len
      <4>1. off + n \in Nat /\ off + n < WordMod
        BY <2>0
      <4> QED
        BY <4>1 DEF off
    <3> QED
      BY <1>0, <3>1, SmallModulo
  <2>3. /\ c.off >= ch.start /\ c.off + n <= ch.start + ch.size /\ n <= left
        /\ c.off - ch.start \in Nat /\ (c.off - ch.start) + n <= ch.size
    <3>1. ~(off < start) /\ ~(off + n > start + size)
      BY <1>4, <2>2 DEF Miss
    <3> HIDE DEF off, start, size, len
    <3>2. /\ off >= start /\ off + n <= start + size /\ n <= len - off
          /\ off - start \in Nat /\ (off - start) + n <= size
      BY <2>0, <3>1
    <3> QED
      BY <3>2 DEF off, start, size, len
  <2> HIDE DEF off, start, size, len
  <2>4. c.off - ch.start \in Nat /\ (c.off - ch.start) + n <= ch.size
    BY <2>3
  <2>5. ~BadHit(ch, c, n)
    BY <1>0, <2>4 DEF BadHit
  <2>6. ReadAt(ch, c, n) = Bytes(n, Window(ch.bytes, c.off - ch.start, n))
    BY <1>0, <1>4, <2>1, <2>5 DEF ReadAt, FromCache
  <2>7. Window(Window(b, ch.start, ch.size), c.off - ch.start, n)
          = Window(b, ch.start + (c.off - ch.start), n)
    <3> DEFINE o == ch.start
               m == ch.size
               d == c.off - ch.start
    <3>1. o \in Nat /\ m \in Nat /\ d \in Nat /\ d + n <= m
      BY <1>0, <2>4
    <3> HIDE DEF b, o, m, d
    <3>2. Window(Window(b, o, m), d, n) = Window(b, o + d, n)
      BY <3>1, WindowInWindow
    <3> QED
      BY <3>2 DEF o, m, d
  <2>8. ch.start + (c.off - ch.start) = c.off
    BY <1>0
  <2>9. Outcomes(c, n) = {Bytes(n, Window(b, c.off, n))}
    BY <1>0, <1>4, <2>3, SMTT(30) DEF Outcomes
  <2>10. ReadAt(ch, c, n) \in Outcomes(c, n)
    BY <1>0, <2>6, <2>7, <2>8, <2>9
  <2> QED
    BY <2>1, <2>10
<1> QED
  BY <1>0, <1>1, <1>2, <1>3, <1>4
-----------------------------------------------------------------------------
\* What a read promises: a kind, the number of bytes it advances over, and
\* that those bytes lie inside the block.
LEMMA OutcomeFacts ==
  ASSUME NEW c, NEW n \in Nat, c.off \in Nat, block[c.src] \in Blocks,
         NEW r \in Outcomes(c, n)
  PROVE  /\ r \in AnswerType
         /\ r.kind \in {"bytes", "data", "stray", "bounds"}
         /\ r.count <= n
         /\ r.kind # "bytes" => r.count = 0
         /\ r.kind = "stray" => c.off > Len(block[c.src])
         /\ c.off <= Len(block[c.src]) => c.off + r.count <= Len(block[c.src])
         /\ r.count # 0 => c.off <= Len(block[c.src])
         /\ c.off + n <= Len(block[c.src]) =>
              r = Bytes(n, Window(block[c.src], c.off, n))
         /\ c.off + n > Len(block[c.src]) /\ n <= MaxCache => r.kind # "bytes"
         /\ r.kind = "bytes" => r.bytes = Window(block[c.src], c.off, r.count)
<1> DEFINE b == block[c.src]
           left == Len(b) - c.off
<1>0. MaxCache \in Nat /\ Len(b) \in Nat /\ left \in Int /\ b \in Seq(Nat)
  BY BlockAssumption
<1>1. /\ <<>> \in Seq(Nat)
      /\ {"bytes", "data", "stray", "bounds"}
           \subseteq Verdict \cup Fatal \cup {"none", "bytes", "item", "missing"}
  BY DEF Fatal
<1>2. CASE left < 0
  <2>1. r = Word("stray") \/ r = Word("bounds")
    BY <1>0, <1>2 DEF Outcomes
  <2>2. /\ r.kind \in {"stray", "bounds"} /\ r.count = 0 /\ r.bytes = <<>>
        /\ r = [kind |-> r.kind, count |-> r.count, bytes |-> r.bytes]
    BY <2>1 DEF Word
  <2>3. r \in AnswerType
    <3>1. /\ r.kind \in Verdict \cup Fatal \cup {"none", "bytes", "item", "missing"}
          /\ r.count \in Nat /\ r.bytes \in Seq(Nat)
      BY <1>1, <2>2 DEF Fatal
    <3> QED
      BY <2>2, <3>1 DEF AnswerType
  <2>4. c.off > Len(b) /\ ~(c.off <= Len(b)) /\ ~(c.off + n <= Len(b))
    BY <1>0, <1>2
  <2> HIDE DEF b, left
  <2>5. r.kind # "bytes" /\ r.kind \in {"bytes", "data", "stray", "bounds"} /\ 0 <= n
    BY <2>2
  <2> QED
    BY <2>2, <2>3, <2>4, <2>5 DEF b
<1>3. CASE left >= 0 /\ n <= left
  <2>1. r = Bytes(n, Window(b, c.off, n))
    BY <1>0, <1>3 DEF Outcomes
  <2>2. Window(b, c.off, n) \in Seq(Nat)
    BY <1>0, <1>3, WindowType
  <2> QED
    BY <1>0, <1>1, <1>3, <2>1, <2>2 DEF Bytes, AnswerType
<1>4. CASE left >= 0 /\ n > left /\ n > MaxCache
  <2>1. r = Bytes(left, Window(b, c.off, left))
    BY <1>0, <1>4 DEF Outcomes
  <2>2. Window(b, c.off, left) \in Seq(Nat)
    BY <1>0, <1>4, WindowType
  <2> QED
    BY <1>0, <1>1, <1>4, <2>1, <2>2 DEF Bytes, AnswerType
<1>5. CASE left >= 0 /\ n > left /\ n <= MaxCache
  <2>1. r = Word("data")
    BY <1>0, <1>5 DEF Outcomes
  <2> QED
    BY <1>0, <1>1, <1>5, <2>1 DEF Word, AnswerType
<1> QED
  BY <1>0, <1>2, <1>3, <1>4, <1>5
-----------------------------------------------------------------------------
\* All caches are coherent with their blocks.
CoherentCaches(f) ==
  f \in [Source -> CacheType] /\ \A s \in Source : CoherentAt(f[s], block[s])

\* The checked invariant, over all caches at once.
LEMMA CoherentIsCoherent ==
  ASSUME SrcTypeOK PROVE Coherent <=> CoherentCaches(cache)
  BY DEF SrcTypeOK, Coherent, CoherentCaches, CoherentAt, CacheType

\* A read through any cursor of any source, as one fact about all caches.
LEMMA SourceRead ==
  ASSUME block \in [Source -> Blocks], NEW f, CoherentCaches(f),
         NEW c \in Cursor, NEW n \in Nat
  PROVE  /\ ReadAt(f[c.src], c, n) \in Outcomes(c, n)
         /\ CoherentCaches([f EXCEPT ![c.src] = CacheAfter(@, c, n)])
<1>1. c.src \in Source /\ c.off \in Nat /\ block[c.src] \in Blocks
  BY DEF Cursor
<1>2. f[c.src] \in CacheType /\ CoherentAt(f[c.src], block[c.src])
  BY <1>1 DEF CoherentCaches
<1>3. /\ ReadAt(f[c.src], c, n) \in Outcomes(c, n)
      /\ CacheAfter(f[c.src], c, n) \in CacheType
      /\ CoherentAt(CacheAfter(f[c.src], c, n), block[c.src])
  BY <1>1, <1>2, ReadIsTransparent
<1> QED
  BY <1>1, <1>3 DEF CoherentCaches

\* A window of no bytes.
LEMMA EmptyWindow == ASSUME NEW b, NEW o \in Nat PROVE Window(b, o, 0) = <<>>
  BY DEF Window

\* The empty cache is coherent with every block.
LEMMA EmptyCoherent ==
  ASSUME NEW b \in Seq(Nat) PROVE Empty \in CacheType /\ CoherentAt(Empty, b)
  BY EmptyWindow, BlockAssumption DEF Empty, CacheType, CoherentAt

\* A new cursor starts at the start of its source.
LEMMA WholeIsCursor ==
  ASSUME block \in [Source -> Blocks], NEW s \in Source
  PROVE  /\ Whole(s) \in Cursor /\ Whole(s).checked
         /\ Whole(s).src = s /\ Whole(s).off = 0
  BY BlockAssumption DEF Whole, Cursor

\* No cache is filled and no comparison runs at the start.
LEMMA InitInv == SrcInit => SrcInv
<1> SUFFICES ASSUME SrcInit PROVE SrcInv
  OBVIOUS
<1>1. block \in [Source -> Blocks] /\ Own \subseteq Source
  BY DEF SrcInit, Init, Source
<1>2. \A h \in Handles : /\ cursor[h] \in Cursor /\ cursor[h].checked
                         /\ cursor[h].off = 0 /\ cursor[h].src \in Source
  BY <1>1, WholeIsCursor DEF SrcInit, Init
<1>3. cursor \in [Handles -> Cursor]
  BY <1>2 DEF SrcInit, Init
<1>4. answer = Word("none") /\ answer.kind = "none" /\ answer \in AnswerType
  BY DEF SrcInit, Init, Word, AnswerType
<1>5. CoherentCaches(cache)
  BY <1>1, EmptyCoherent, BlockAssumption DEF SrcInit, CoherentCaches
<1>6. SrcTypeOK
  BY <1>1, <1>3, <1>4, <1>5
  DEF SrcInit, SrcTypeOK, CoherentCaches, CacheType, AnswerType
<1>7. Coherent
  BY <1>5, <1>6, CoherentIsCoherent
<1>8. CheckedInside
  BY <1>1, <1>2, BlockAssumption DEF CheckedInside
<1>9. PairProgress
  BY DEF SrcInit, PairProgress
<1> QED
  BY <1>6, <1>7, <1>8, <1>9 DEF SrcInv
-----------------------------------------------------------------------------
\* What is the same for every step outside a comparison.
LEMMA IdleStep ==
  ASSUME SrcInv, pair' = {}, block' \in [Source -> Blocks],
         cursor' \in [Handles -> Cursor], answer' \in AnswerType,
         CoherentCaches(cache)', CheckedInside'
  PROVE  SrcInv'
<1>1. SrcTypeOK'
  BY DEF SrcTypeOK, CoherentCaches, CacheType, AnswerType
<1>2. Coherent'
  BY <1>1 DEF SrcTypeOK, Coherent, CoherentCaches, CoherentAt, CacheType
<1>3. PairProgress'
  BY DEF PairProgress
<1> QED
  BY <1>1, <1>2, <1>3 DEF SrcInv

\* The static source is set up for block b: its cache is emptied, the other
\* caches and blocks are as before.
LEMMA RedirectFacts ==
  ASSUME SrcInv, NEW b \in Blocks, Running,
         block' = [block EXCEPT ![Static] = b],
         cache' = [cache EXCEPT ![Static] = Renewed(@)]
  PROVE  /\ block' \in [Source -> Blocks]
         /\ CoherentCaches(cache)'
         /\ Outdated \in [Handles -> Cursor]
         /\ \A h \in Handles :
              Outdated[h].checked => Outdated[h].off <= Len(block'[Outdated[h].src])
<1>1. /\ SrcTypeOK /\ CoherentCaches(cache) /\ CheckedInside
      /\ Static \in Source /\ b \in Seq(Nat)
  BY CoherentIsCoherent, BlockAssumption DEF SrcInv, Source
<1>2. block' \in [Source -> Blocks]
  BY <1>1 DEF SrcTypeOK
<1>3. CoherentCaches(cache)'
  <2>1. cache' \in [Source -> CacheType]
    BY <1>1, EmptyCoherent DEF CoherentCaches, Renewed
  <2>2. ASSUME NEW s \in Source PROVE CoherentAt(cache'[s], block'[s])
    <3>1. CASE s = Static
      BY <1>1, <3>1, EmptyCoherent DEF CoherentCaches, Renewed, SrcTypeOK
    <3>2. CASE s # Static
      BY <1>1, <3>2 DEF CoherentCaches, SrcTypeOK
    <3> QED
      BY <3>1, <3>2
  <2> QED
    BY <2>1, <2>2 DEF CoherentCaches, CoherentAt
<1>4. ASSUME NEW h \in Handles
      PROVE  /\ Outdated[h] \in Cursor
             /\ Outdated[h].checked => Outdated[h] = cursor[h] /\ cursor[h].src # Static
  <2>1. Outdated[h] = IF cursor[h].src = Static
                      THEN [cursor[h] EXCEPT !.checked = FALSE] ELSE cursor[h]
    BY DEF Outdated
  <2>2. cursor[h] \in Cursor
    BY <1>1 DEF SrcTypeOK
  <2>3. CASE cursor[h].src = Static
    <3>1. [cursor[h] EXCEPT !.checked = FALSE] \in Cursor
          /\ [cursor[h] EXCEPT !.checked = FALSE].checked = FALSE
      BY <2>2 DEF Cursor
    <3> QED
      BY <2>1, <2>3, <3>1
  <2>4. CASE cursor[h].src # Static
    BY <2>1, <2>2, <2>4
  <2> QED
    BY <2>3, <2>4
<1>5. Outdated \in [Handles -> Cursor]
  BY <1>4 DEF Outdated
<1>6. ASSUME NEW h \in Handles, Outdated[h].checked
      PROVE  Outdated[h].off <= Len(block'[Outdated[h].src])
  <2>1. Outdated[h] = cursor[h] /\ cursor[h].src \in Source \ {Static}
    BY <1>1, <1>4, <1>6 DEF SrcTypeOK, Cursor
  <2>2. block'[cursor[h].src] = block[cursor[h].src]
    BY <1>1, <2>1 DEF SrcTypeOK
  <2> QED
    BY <1>1, <1>6, <2>1, <2>2 DEF CheckedInside
<1> QED
  BY <1>2, <1>3, <1>5, <1>6

\* The steps outside a comparison, one by one.
LEMMA MakeStep ==
  ASSUME SrcInv, NEW h \in Handles, NEW b \in Blocks, SrcMake(h, b)
  PROVE  SrcInv' /\ Next
<1>1. /\ Running /\ pair = {} /\ pair' = pair /\ answer' = Word("none")
      /\ block' = [block EXCEPT ![Static] = b]
      /\ cursor' = [Outdated EXCEPT ![h] = Whole(Static)']
      /\ cache' = [cache EXCEPT ![Static] = Renewed(@)]
  BY DEF SrcMake, MakeFromMemory, Idle
<1>2. /\ block' \in [Source -> Blocks] /\ CoherentCaches(cache)'
      /\ Outdated \in [Handles -> Cursor]
      /\ \A g \in Handles :
           Outdated[g].checked => Outdated[g].off <= Len(block'[Outdated[g].src])
  BY <1>1, RedirectFacts
<1>3. /\ Whole(Static)' \in Cursor /\ Whole(Static)'.src = Static
      /\ Whole(Static)'.off = 0 /\ Static \in Source
  BY <1>2, BlockAssumption DEF Whole, Cursor, Source
<1>4. cursor' \in [Handles -> Cursor]
  BY <1>1, <1>2, <1>3
<1>5. CheckedInside'
  <2>1. ASSUME NEW g \in Handles, cursor'[g].checked
        PROVE  cursor'[g].off <= Len(block'[cursor'[g].src])
    <3>1. CASE g = h
      <4>1. block'[Static] \in Seq(Nat)
        BY <1>2, <1>3, BlockAssumption
      <4> QED
        BY <1>1, <1>2, <1>3, <3>1, <4>1
    <3>2. CASE g # h
      BY <1>1, <1>2, <2>1, <3>2
    <3> QED
      BY <3>1, <3>2
  <2> QED
    BY <2>1 DEF CheckedInside
<1>6. answer' \in AnswerType
  BY <1>1 DEF Word, AnswerType
<1>7. SrcInv'
  BY <1>1, <1>2, <1>4, <1>5, <1>6, IdleStep
<1>8. Next
  BY DEF SrcMake, Next
<1> QED
  BY <1>7, <1>8

\* A comparison with a literal starts by redirecting the static source.
LEMMA LiteralStep ==
  ASSUME SrcInv, NEW h \in Handles, NEW b \in Blocks, StartLiteral(h, b)
  PROVE  SrcInv' /\ Next
<1> DEFINE c == Whole(Static)'
<1>1. /\ Running /\ answer' = Word("none")
      /\ block' = [block EXCEPT ![Static] = b]
      /\ cursor' = Outdated
      /\ cache' = [cache EXCEPT ![Static] = Renewed(@)]
      /\ pair' = {[h |-> h, c |-> c, done |-> 0]}
  BY DEF StartLiteral, Literal, Idle
<1>2. /\ block' \in [Source -> Blocks] /\ CoherentCaches(cache)'
      /\ cursor' \in [Handles -> Cursor]
      /\ CheckedInside'
  BY <1>1, RedirectFacts DEF CheckedInside
<1>3. c \in Cursor /\ c \in Comparable'
  BY <1>2, BlockAssumption DEF Whole, Cursor, Source, Comparable
<1>4. answer' \in AnswerType /\ Running'
  BY <1>1 DEF Word, AnswerType, Running, Fatal
<1>5. SrcTypeOK'
  <2>1. 0 \in 0 .. c.size
    BY <1>3 DEF Cursor
  <2>2. \E k \in 0 .. c.size : pair' = {[h |-> h, c |-> c, done |-> k]}
    BY <1>1, <2>1
  <2> HIDE DEF c
  <2>3. \E g \in Handles, d \in Comparable' : \E k \in 0 .. d.size :
          pair' = {[h |-> g, c |-> d, done |-> k]}
    BY <1>3, <2>2
  <2> QED
    BY <1>2, <1>4, <2>3 DEF SrcTypeOK, CoherentCaches, CacheType, AnswerType
<1>6. Coherent'
  BY <1>2, <1>5 DEF SrcTypeOK, Coherent, CoherentCaches, CoherentAt, CacheType
<1>7. PairProgress'
  <2> HIDE DEF c
  <2> SUFFICES ASSUME NEW p \in pair'
               PROVE  p.done = 0 /\ p.h = h /\ p.c = c
    <3>1. cursor'[h].off \in Nat /\ c.off \in Nat
      BY <1>2, <1>3 DEF Cursor
    <3>2. Window(block'[cursor'[h].src], cursor'[h].off, 0)
            = Window(block'[c.src], c.off, 0)
      BY <3>1, EmptyWindow
    <3> QED
      BY <1>4, <3>2 DEF PairProgress
  <2> QED
    BY <1>1
<1>8. SrcInv'
  BY <1>2, <1>4, <1>5, <1>6, <1>7 DEF SrcInv
<1>9. Next
  BY DEF StartLiteral, Next
<1> QED
  BY <1>8, <1>9

\* What is the same for every step that gives one handle another cursor.
LEMMA BecomesStep ==
  ASSUME SrcInv, Idle, NEW h \in Handles, NEW c \in Cursor,
         c.checked => c.off <= Len(block[c.src]),
         \/ Becomes(h, c)
         \/ answer' = Word("bounds") /\ cursor' \in {cursor, [cursor EXCEPT ![h] = c]},
         UNCHANGED <<block, cache, pair>>
  PROVE  SrcInv'
<1>1. /\ pair' = {} /\ block' = block /\ cache' = cache
      /\ c \in Cursor /\ answer' \in {Word("none"), Word("bounds")}
      /\ cursor' \in {cursor, [cursor EXCEPT ![h] = c]}
  BY DEF Idle, Becomes
<1>2. /\ block' \in [Source -> Blocks] /\ cursor \in [Handles -> Cursor]
      /\ CoherentCaches(cache) /\ CheckedInside
  BY <1>1, CoherentIsCoherent DEF SrcInv, SrcTypeOK
<1>3. CoherentCaches(cache)'
  BY <1>1, <1>2 DEF CoherentCaches
<1>4. answer' \in AnswerType
  <2>1. /\ Word("none") \in AnswerType
        /\ Word("bounds") \in AnswerType
    BY DEF Word, AnswerType, Fatal
  <2> QED
    BY <1>1, <2>1
<1>5. cursor' \in [Handles -> Cursor]
  BY <1>1, <1>2
<1>6. CheckedInside'
  BY <1>1, <1>2 DEF CheckedInside
<1> QED
  BY <1>1, <1>2, <1>3, <1>4, <1>5, <1>6, IdleStep

\* A cursor with another start, size and flag, field by field.
LEMMA CursorReplaced ==
  ASSUME NEW c \in Cursor, NEW o, NEW n, NEW d
  PROVE  [c EXCEPT !.off = o, !.size = n, !.checked = d]
           = [src |-> c.src, off |-> o, size |-> n, checked |-> d]
<1>1. [c EXCEPT !.off = o, !.size = n, !.checked = d]
        = [f \in {"src", "off", "size", "checked"} |->
             IF f = "checked" THEN d ELSE IF f = "size" THEN n
             ELSE IF f = "off" THEN o ELSE c[f]]
  BY DEF Cursor
<1> QED
  BY <1>1

LEMMA CursorExcept ==
  ASSUME NEW c \in Cursor, NEW o, NEW n, NEW d
  PROVE  /\ [c EXCEPT !.off = o, !.checked = d]
              = [src |-> c.src, off |-> o, size |-> c.size, checked |-> d]
         /\ [c EXCEPT !.size = n]
              = [src |-> c.src, off |-> c.off, size |-> n, checked |-> c.checked]
<1>1. [c EXCEPT !.off = o, !.checked = d]
        = [src |-> c.src, off |-> o, size |-> c.size, checked |-> d]
  <2>1. [c EXCEPT !.off = o, !.checked = d]
          = [f \in {"src", "off", "size", "checked"} |->
               IF f = "checked" THEN d ELSE IF f = "off" THEN o ELSE c[f]]
    BY DEF Cursor
  <2> QED
    BY <2>1
<1>2. [c EXCEPT !.size = n]
        = [src |-> c.src, off |-> c.off, size |-> n, checked |-> c.checked]
  BY DEF Cursor
<1> QED
  BY <1>1, <1>2

LEMMA CursorMoved ==
  ASSUME NEW c \in Cursor, NEW o \in Nat, NEW n \in Nat, NEW d \in BOOLEAN
  PROVE  [src |-> c.src, off |-> o, size |-> n, checked |-> d] \in Cursor
BY DEF Cursor

\* The cursor that a slice makes.
LEMMA SliceCursor ==
  ASSUME NEW c \in Cursor, NEW o \in Nat, NEW n \in Nat
  PROVE  /\ [c EXCEPT !.off = @ + o, !.size = n, !.checked = TRUE]
              = [src |-> c.src, off |-> c.off + o, size |-> n, checked |-> TRUE]
         /\ [src |-> c.src, off |-> c.off + o, size |-> n, checked |-> TRUE] \in Cursor
<1>1. [c EXCEPT !.off = @ + o, !.size = n, !.checked = TRUE]
        = [src |-> c.src, off |-> c.off + o, size |-> n, checked |-> TRUE]
  BY CursorReplaced, Zenon
<1>2. c.off + o \in Nat
  BY DEF Cursor
<1> QED
  BY <1>1, <1>2, CursorMoved

\* The cursor behind a handle, as the steps below use it.
LEMMA HandleFacts ==
  ASSUME SrcInv, NEW g \in Handles
  PROVE  /\ cursor[g] \in Cursor /\ cursor[g].src \in Source
         /\ cursor[g].off \in Nat /\ cursor[g].size \in Nat
         /\ cursor[g].checked \in BOOLEAN
         /\ block[cursor[g].src] \in Blocks
         /\ Len(block[cursor[g].src]) \in Nat
         /\ cursor[g].checked => cursor[g].off <= Len(block[cursor[g].src])
<1>1. /\ cursor[g] \in Cursor /\ block \in [Source -> Blocks]
      /\ cursor[g].checked => cursor[g].off <= Len(block[cursor[g].src])
  BY DEF SrcInv, SrcTypeOK, CheckedInside
<1>2. /\ cursor[g].src \in Source /\ cursor[g].off \in Nat
      /\ cursor[g].size \in Nat /\ cursor[g].checked \in BOOLEAN
  BY <1>1 DEF Cursor
<1> QED
  BY <1>1, <1>2, BlockAssumption

\* A panic of an operation on cursors leaves everything else as it is.
LEMMA OverflowStep ==
  ASSUME SrcInv, Idle, Overflow, NEW h \in Handles, UNCHANGED <<block, cache, pair>>
  PROVE  SrcInv'
<1>1. /\ cursor[h] \in Cursor
      /\ cursor[h].checked => cursor[h].off <= Len(block[cursor[h].src])
  BY HandleFacts
<1>2. /\ answer' = Word("bounds")
      /\ cursor' \in {cursor, [cursor EXCEPT ![h] = cursor[h]]}
  BY DEF Overflow
<1> QED
  BY <1>1, <1>2, BecomesStep

\* A slice that passes mol2_validate starts inside its block.
LEMMA SliceStep ==
  ASSUME SrcInv, NEW h \in Handles, NEW g \in Handles, NEW o \in 0 .. MaxSize,
         NEW n \in 0 .. MaxSize, SrcSlice(h, g, o, n)
  PROVE  SrcInv' /\ Next
<1> DEFINE x == cursor[g]
           c == [x EXCEPT !.off = @ + o, !.size = n, !.checked = TRUE]
           e == [src |-> x.src, off |-> x.off + o, size |-> n, checked |-> TRUE]
<1>1. Idle /\ Slice(h, g, o, n) /\ UNCHANGED <<block, cache, pair>>
  BY DEF SrcSlice, Slice
<1>2. o \in Nat /\ n \in Nat
  BY BlockAssumption
<1>3. /\ x \in Cursor /\ x.off \in Nat /\ x.off + o \in Nat
      /\ Len(block[x.src]) \in Nat
  BY <1>2, HandleFacts
<1>4. c = e /\ e \in Cursor
  BY <1>2, <1>3, SliceCursor, Zenon
<1>5. ASSUME InBlock(e), Becomes(h, e) PROVE SrcInv'
  <2>1. e.off <= Len(block[e.src])
    BY <1>2, <1>3, <1>5, SMTT(30) DEF InBlock
  <2> HIDE DEF e
  <2> QED
    BY <1>1, <1>4, <1>5, <2>1, BecomesStep
<1>6. ASSUME Overflow PROVE SrcInv'
  BY <1>1, <1>6, OverflowStep
<1>7. SrcInv'
  BY <1>1, <1>4, <1>5, <1>6 DEF Slice
<1>8. Next
  BY DEF SrcSlice, Next
<1> QED
  BY <1>7, <1>8

\* A cursor that is moved without a validation is no longer a checked one.
LEMMA MoveStep ==
  ASSUME SrcInv, NEW h \in Handles, NEW g \in Handles, NEW o \in 0 .. MaxSize,
         SrcMove(h, g, o)
  PROVE  SrcInv' /\ Next
<1> DEFINE x == cursor[g]
           d == x.checked /\ o = 0
           c == [x EXCEPT !.off = @ + o, !.checked = @ /\ o = 0]
           e == [src |-> x.src, off |-> x.off + o, size |-> x.size, checked |-> d]
<1>1. Idle /\ Move(h, g, o) /\ UNCHANGED <<block, cache, pair>>
  BY DEF SrcMove, Move
<1>2. o \in Nat
  BY BlockAssumption
<1>3. /\ x \in Cursor /\ x.off \in Nat /\ x.size \in Nat /\ x.off + o \in Nat
      /\ d \in BOOLEAN
      /\ d => x.off + o <= Len(block[x.src])
  BY <1>2, HandleFacts
<1>4. c = e /\ e \in Cursor
  <2> HIDE DEF x, d
  <2>1. c = [x EXCEPT !.off = x.off + o, !.checked = d]
    BY DEF d
  <2>2. c = e
    BY <1>3, <2>1, CursorExcept
  <2>3. e \in Cursor
    BY <1>3, CursorMoved
  <2> QED
    BY <2>2, <2>3
<1>5. ASSUME Becomes(h, e) PROVE SrcInv'
  <2>1. e.checked => e.off <= Len(block[e.src])
    BY <1>3
  <2> HIDE DEF e
  <2> QED
    BY <1>1, <1>4, <1>5, <2>1, BecomesStep
<1>6. ASSUME Overflow PROVE SrcInv'
  BY <1>1, <1>6, OverflowStep
<1>7. SrcInv'
  BY <1>1, <1>4, <1>5, <1>6 DEF Move
<1>8. Next
  BY DEF SrcMove, Next
<1> QED
  BY <1>7, <1>8

\* A size may be overwritten with anything: no invariant is about it.
LEMMA ResizeStep ==
  ASSUME SrcInv, NEW h \in Handles, NEW n \in 0 .. MaxSize, SrcResize(h, n)
  PROVE  SrcInv' /\ Next
<1> DEFINE x == cursor[h]
           e == [src |-> x.src, off |-> x.off, size |-> n, checked |-> x.checked]
<1>1. Idle /\ Resize(h, n) /\ UNCHANGED <<block, cache, pair>>
  BY DEF SrcResize, Resize
<1>2. n \in Nat
  BY BlockAssumption
<1>3. /\ x \in Cursor /\ x.off \in Nat /\ x.checked \in BOOLEAN
      /\ x.checked => x.off <= Len(block[x.src])
  BY HandleFacts
<1>4. [x EXCEPT !.size = n] = e /\ e \in Cursor
  <2> HIDE DEF x
  <2>1. [x EXCEPT !.size = n] = e
    BY <1>3, CursorExcept
  <2>2. e \in Cursor
    BY <1>2, <1>3, CursorMoved
  <2> QED
    BY <2>1, <2>2
<1>5. SrcInv'
  <2>1. Becomes(h, e)
    BY <1>1, <1>4 DEF Resize
  <2>2. e.checked => e.off <= Len(block[e.src])
    BY <1>3
  <2> HIDE DEF e
  <2> QED
    BY <1>1, <1>4, <2>1, <2>2, BecomesStep
<1>6. Next
  BY DEF SrcResize, Next
<1> QED
  BY <1>5, <1>6

\* A size that is reduced stays a size: mol2_sub_size panics below zero.
LEMMA ShrinkStep ==
  ASSUME SrcInv, NEW h \in Handles, NEW n \in 0 .. MaxSize, SrcShrink(h, n)
  PROVE  SrcInv' /\ Next
<1> DEFINE x == cursor[h]
           e == [src |-> x.src, off |-> x.off, size |-> x.size - n,
                 checked |-> x.checked]
<1>1. Idle /\ Shrink(h, n) /\ UNCHANGED <<block, cache, pair>>
  BY DEF SrcShrink, Shrink
<1>2. n \in Nat
  BY BlockAssumption
<1>3. /\ x \in Cursor /\ x.off \in Nat /\ x.size \in Nat /\ x.checked \in BOOLEAN
      /\ x.checked => x.off <= Len(block[x.src])
  BY HandleFacts
<1>4. ASSUME n <= x.size, Becomes(h, [x EXCEPT !.size = @ - n]) PROVE SrcInv'
  <2>1. x.size - n \in Nat
    BY <1>2, <1>3, <1>4
  <2>2. [x EXCEPT !.size = @ - n] = e /\ e \in Cursor
    <3> HIDE DEF x
    <3>1. [x EXCEPT !.size = x.size - n] = e
      BY <1>3, CursorExcept
    <3>2. e \in Cursor
      BY <1>3, <2>1, CursorMoved
    <3> QED
      BY <3>1, <3>2
  <2>3. Becomes(h, e)
    BY <1>4, <2>2
  <2>4. e.checked => e.off <= Len(block[e.src])
    BY <1>3
  <2> HIDE DEF e
  <2> QED
    BY <1>1, <2>2, <2>3, <2>4, BecomesStep
<1>5. ASSUME Overflow PROVE SrcInv'
  BY <1>1, <1>5, OverflowStep
<1>6. SrcInv'
  BY <1>1, <1>4, <1>5 DEF Shrink
<1>7. Next
  BY DEF SrcShrink, Next
<1> QED
  BY <1>6, <1>7
-----------------------------------------------------------------------------
\* A number of a header is read over a coherent cache as BlockReads says:
\* it is there or the process ends, by a stray copy only behind the block.
LEMMA NumberFacts ==
  ASSUME NEW ch \in CacheType, NEW c \in Cursor, NEW k \in Nat,
         block[c.src] \in Blocks, CoherentAt(ch, block[c.src])
  PROVE  /\ CacheAfterNumber(ch, c, k) \in CacheType
         /\ CoherentAt(CacheAfterNumber(ch, c, k), block[c.src])
         /\ HasNumber(c, k) => /\ NumberAt(ch, c, k).kind = "bytes"
                               /\ NumberAt(ch, c, k).bytes[1] = Number(c, k)
                               /\ Number(c, k) \in Nat
         /\ ~HasNumber(c, k) => NumberAt(ch, c, k).kind \in Fatal
         /\ c.off + k <= Len(block[c.src]) => NumberAt(ch, c, k).kind # "stray"
<1> DEFINE m == Moved(c, k)
           n == Least(c.size, NumSize)
           b == block[c.src]
           r == ReadAt(ch, m, n)
<1>1. /\ c.off \in Nat /\ c.size \in Nat /\ c.src \in Source
      /\ b \in Seq(Nat) /\ Len(b) \in Nat /\ Len(b) < WordMod
      /\ MaxCache \in Nat \ {0} /\ WordMod \in Nat
  BY BlockAssumption DEF Cursor
<1>2. m.off = c.off + k /\ m.off \in Nat /\ m.src = c.src
  BY <1>1 DEF Moved, Cursor
<1>3. n \in {0, 1} /\ (n = 1 <=> c.size >= 1) /\ n <= MaxCache
  BY <1>1 DEF Least, NumSize
<1> HIDE DEF m, n
<1>4. /\ r \in Outcomes(m, n)
      /\ CacheAfter(ch, m, n) \in CacheType
      /\ CoherentAt(CacheAfter(ch, m, n), b)
  BY <1>1, <1>2, <1>3, ReadIsTransparent
<1>5. /\ r \in AnswerType /\ r.kind \in {"bytes", "data", "stray", "bounds"}
      /\ r.count <= n
      /\ r.kind = "stray" => m.off > Len(b)
      /\ m.off + n <= Len(b) => r = Bytes(n, Window(b, m.off, n))
      /\ m.off + n > Len(b) => r.kind # "bytes"
  BY <1>1, <1>2, <1>3, <1>4, OutcomeFacts, SMTT(30)
<1>6. CacheAfterNumber(ch, c, k) = CacheAfter(ch, m, n)
  BY DEF CacheAfterNumber, m, n
<1>7. NumberAt(ch, c, k) = IF c.off + k >= WordMod THEN Word("bounds")
                           ELSE IF r.kind = "bytes" /\ r.count # 1 THEN Word("bounds")
                           ELSE r
  BY DEF NumberAt, NumSize, m, n
<1>8. HasNumber(c, k) <=> n = 1 /\ m.off + 1 <= Len(b)
  BY <1>1, <1>2, <1>3 DEF HasNumber, NumSize
<1>9. CASE HasNumber(c, k)
  <2>1. r = Bytes(1, Window(b, m.off, 1)) /\ c.off + k < WordMod
    BY <1>1, <1>2, <1>5, <1>8, <1>9
  <2>2. r.kind = "bytes" /\ r.count = 1 /\ r.bytes[1] = b[m.off + 1]
    BY <2>1 DEF Bytes, Window
  <2>3. NumberAt(ch, c, k) = r
    BY <1>1, <1>2, <1>7, <2>1, <2>2
  <2>4. Number(c, k) = b[m.off + 1] /\ b[m.off + 1] \in Nat
    <3>1. Number(c, k) = b[(c.off + k) + 1]
      BY <1>9 DEF Number
    <3>2. m.off + 1 \in 1 .. Len(b)
      BY <1>1, <1>2, <1>8, <1>9
    <3>3. b[m.off + 1] \in Nat
      <4> HIDE DEF b
      <4> QED
        BY <1>1, <3>2
    <3> QED
      BY <1>2, <3>1, <3>3
  <2> QED
    BY <1>4, <1>6, <1>9, <2>2, <2>3, <2>4
<1>10. CASE ~HasNumber(c, k)
  <2>1. NumberAt(ch, c, k).kind \in Fatal
    <3>1. CASE r.kind = "bytes"
      <4>1. n = 0
        BY <1>1, <1>2, <1>3, <1>5, <1>8, <1>10, <3>1
      <4>2. r.count # 1
        BY <1>5, <4>1 DEF AnswerType
      <4> QED
        BY <1>7, <3>1, <4>2 DEF Word, Fatal
    <3>2. CASE r.kind # "bytes"
      BY <1>5, <1>7, <3>2 DEF Word, Fatal
    <3> QED
      BY <3>1, <3>2
  <2>2. m.off <= Len(b) => NumberAt(ch, c, k).kind # "stray"
    BY <1>1, <1>2, <1>5, <1>7 DEF Word
  <2> QED
    BY <1>2, <1>4, <1>6, <1>10, <2>1, <2>2
<1> QED
  BY <1>9, <1>10

\* mol2_dynvec_slice_by_index cuts out the item of BlockReads, whatever the
\* cache held and became between its reads, and copies from outside the
\* block only if its cursor starts there or the item before is not there.
LEMMA ItemIsTransparent ==
  ASSUME NEW ch \in CacheType, NEW c \in Cursor, NEW i \in Nat,
         block[c.src] \in Blocks, CoherentAt(ch, block[c.src])
  PROVE  LET r == ItemAt(ch, c, i)
         IN  /\ r.cache \in CacheType /\ CoherentAt(r.cache, block[c.src])
             /\ r.kind \in ItemEnds(c, i)
             /\ r.cur = IF r.kind = "item" THEN Item(c, i) ELSE c
             /\ r.kind = "item" => /\ i + 1 < ItemCount(c) => HasNumber(c, i + 2)
                                   /\ Item(c, i) \in Cursor
                                   /\ Item(c, i).off <= Len(block[c.src])
                                   /\ Item(c, i).src = c.src
             /\ /\ c.off <= Len(block[c.src])
                /\ i = 0 \/ (i < ItemCount(c) => HasNumber(c, i + 1))
                => r.kind # "stray"
<1> DEFINE b == block[c.src]
           ch0 == CacheAfterNumber(ch, c, 0)
           ch1 == CacheAfterNumber(ch0, c, 1)
           ch2 == CacheAfterNumber(ch1, c, i + 1)
           ch3 == CacheAfterNumber(ch2, c, i + 2)
           total == NumberAt(ch, c, 0)
           first == NumberAt(ch0, c, 1)
           start == NumberAt(ch1, c, i + 1)
           next == NumberAt(ch2, c, i + 2)
           count == first.bytes[1] - 1
           last == i + 1 = count
           end == IF last THEN total ELSE next
           item == [c EXCEPT !.off = @ + start.bytes[1],
                             !.size = end.bytes[1] - start.bytes[1], !.checked = TRUE]
           Ends(kind, cur, cch) == [kind |-> kind, cur |-> cur, cache |-> cch]
           r == ItemAt(ch, c, i)
<1>1. r = IF total.kind # "bytes" THEN Ends(total.kind, c, ch0)
          ELSE IF total.bytes[1] = NumSize THEN Ends("missing", c, ch0)
          ELSE IF first.kind # "bytes" THEN Ends(first.kind, c, ch1)
          ELSE IF count < 0 THEN Ends("bounds", c, ch1)
          ELSE IF i >= count THEN Ends("missing", c, ch1)
          ELSE IF start.kind # "bytes" THEN Ends(start.kind, c, ch2)
          ELSE IF end.kind # "bytes" THEN Ends(end.kind, c, ch3)
          ELSE Ends(IF item.size >= 0 /\ InBlock(item) THEN "item" ELSE "bounds",
                    IF item.size >= 0 /\ InBlock(item) THEN item ELSE c,
                    IF last THEN ch2 ELSE ch3)
  BY DEF ItemAt
<1>2. /\ c.off \in Nat /\ c.size \in Nat /\ b \in Seq(Nat) /\ Len(b) \in Nat
      /\ 0 \in Nat /\ 1 \in Nat /\ i + 1 \in Nat /\ i + 2 \in Nat
  BY BlockAssumption DEF Cursor
<1>3. /\ ch0 \in CacheType /\ CoherentAt(ch0, b)
      /\ HasNumber(c, 0) => /\ total.kind = "bytes" /\ total.bytes[1] = Number(c, 0)
                            /\ Number(c, 0) \in Nat
      /\ ~HasNumber(c, 0) => total.kind \in Fatal
      /\ c.off <= Len(b) => total.kind # "stray"
  BY <1>2, NumberFacts
<1> HIDE DEF ch0, total
<1>4. /\ ch1 \in CacheType /\ CoherentAt(ch1, b)
      /\ HasNumber(c, 1) => /\ first.kind = "bytes" /\ first.bytes[1] = Number(c, 1)
                            /\ Number(c, 1) \in Nat
      /\ ~HasNumber(c, 1) => first.kind \in Fatal
      /\ c.off + 1 <= Len(b) => first.kind # "stray"
  BY <1>2, <1>3, NumberFacts
<1> HIDE DEF ch1, first
<1>5. /\ ch2 \in CacheType /\ CoherentAt(ch2, b)
      /\ HasNumber(c, i + 1) => /\ start.kind = "bytes"
                                /\ start.bytes[1] = Number(c, i + 1)
                                /\ Number(c, i + 1) \in Nat
      /\ ~HasNumber(c, i + 1) => start.kind \in Fatal
      /\ c.off + (i + 1) <= Len(b) => start.kind # "stray"
  BY <1>2, <1>4, NumberFacts
<1> HIDE DEF ch2, start
<1>6. /\ ch3 \in CacheType /\ CoherentAt(ch3, b)
      /\ HasNumber(c, i + 2) => /\ next.kind = "bytes"
                                /\ next.bytes[1] = Number(c, i + 2)
                                /\ Number(c, i + 2) \in Nat
      /\ ~HasNumber(c, i + 2) => next.kind \in Fatal
      /\ c.off + (i + 2) <= Len(b) => next.kind # "stray"
  BY <1>2, <1>5, NumberFacts
<1> HIDE DEF ch3, next
<1>7. /\ "bytes" \notin Fatal /\ "item" \notin Fatal /\ "missing" \notin Fatal
      /\ "bounds" \in Fatal
  BY DEF Fatal
<1>8. \A k \in Nat : HasNumber(c, k) => c.off + (k + 1) <= Len(b)
  BY <1>2 DEF HasNumber, NumSize
<1>9. CASE ~HasNumber(c, 0)
  <2>1. r.kind = total.kind /\ r.cur = c /\ r.cache = ch0
    BY <1>1, <1>3, <1>7, <1>9
  <2>2. 0 \in ItemPlaces(c, i)
    BY DEF ItemPlaces
  <2>3. ItemEnds(c, i) = Fatal
    BY <1>9, <2>2 DEF ItemEnds
  <2> QED
    BY <1>3, <1>7, <1>9, <2>1, <2>3
<1>10. CASE HasNumber(c, 0) /\ Number(c, 0) = NumSize
  <2>1. r.kind = "missing" /\ r.cur = c /\ r.cache = ch0
    BY <1>1, <1>3, <1>7, <1>10
  <2>2. ItemPlaces(c, i) = {0} /\ ItemCount(c) = 0
    BY <1>10 DEF ItemPlaces, ItemCount
  <2>3. ItemEnds(c, i) = {"missing"}
    BY <1>10, <2>2 DEF ItemEnds
  <2> QED
    BY <1>3, <2>1, <2>3
<1>11. CASE HasNumber(c, 0) /\ Number(c, 0) # NumSize /\ ~HasNumber(c, 1)
  <2>1. r.kind = first.kind /\ r.cur = c /\ r.cache = ch1
    BY <1>1, <1>3, <1>4, <1>7, <1>11
  <2>2. 1 \in ItemPlaces(c, i)
    BY <1>11 DEF ItemPlaces
  <2>3. ItemEnds(c, i) = Fatal
    BY <1>11, <2>2 DEF ItemEnds
  <2>4. first.kind # "stray"
    BY <1>4, <1>8, <1>11
  <2> QED
    BY <1>4, <1>7, <1>11, <2>1, <2>3, <2>4
<1>12. ASSUME HasNumber(c, 0), Number(c, 0) # NumSize, HasNumber(c, 1)
       PROVE  /\ count = ItemCount(c) /\ ItemCount(c) \in Int
              /\ {0, 1} \subseteq ItemPlaces(c, i)
              /\ i >= ItemCount(c) => ItemPlaces(c, i) = {0, 1}
              /\ i < ItemCount(c) =>
                   /\ i + 1 \in ItemPlaces(c, i)
                   /\ i + 1 # ItemCount(c) => i + 2 \in ItemPlaces(c, i)
                   /\ ItemPlaces(c, i) = {0, 1, i + 1}
                        \cup (IF i + 1 = ItemCount(c) THEN {} ELSE {i + 2})
  <2>1. ItemCount(c) = Number(c, 1) - 1 /\ count = ItemCount(c) /\ ItemCount(c) \in Int
    BY <1>4, <1>12 DEF ItemCount
  <2>2. ItemPlaces(c, i)
          = {0, 1} \cup {k \in {i + 1, i + 2} : i < ItemCount(c) /\ k <= ItemCount(c)}
    BY <1>12 DEF ItemPlaces
  <2> HIDE DEF count
  <2> QED
    BY <2>1, <2>2
<1>13. CASE HasNumber(c, 0) /\ Number(c, 0) # NumSize /\ HasNumber(c, 1)
              /\ i >= ItemCount(c)
  <2>1. /\ r.kind = IF ItemCount(c) < 0 THEN "bounds" ELSE "missing"
        /\ r.cur = c /\ r.cache = ch1
    BY <1>1, <1>3, <1>4, <1>12, <1>13
  <2>2. ItemEnds(c, i) = IF ItemCount(c) < 0 THEN {"bounds"} ELSE {"missing"}
    BY <1>12, <1>13 DEF ItemEnds
  <2> QED
    BY <1>4, <2>1, <2>2
<1>14. CASE HasNumber(c, 0) /\ Number(c, 0) # NumSize /\ HasNumber(c, 1)
              /\ i < ItemCount(c) /\ ~HasNumber(c, i + 1)
  <2>1. count >= 0 /\ ~(count < 0) /\ ~(i >= count)
    BY <1>12, <1>14
  <2>2. r.kind = start.kind /\ r.cur = c /\ r.cache = ch2
    BY <1>1, <1>3, <1>4, <1>5, <1>7, <1>14, <2>1
  <2>3. ItemEnds(c, i) = Fatal
    BY <1>12, <1>14 DEF ItemEnds
  <2>4. i = 0 => start.kind # "stray"
    BY <1>5, <1>8, <1>14
  <2> QED
    BY <1>5, <1>7, <1>14, <2>2, <2>3, <2>4
<1>15. CASE HasNumber(c, 0) /\ Number(c, 0) # NumSize /\ HasNumber(c, 1)
              /\ i < ItemCount(c) /\ HasNumber(c, i + 1)
              /\ i + 1 # ItemCount(c) /\ ~HasNumber(c, i + 2)
  <2>1. ~(count < 0) /\ ~(i >= count) /\ ~last
    BY <1>12, <1>15
  <2>2. r.kind = next.kind /\ r.cur = c /\ r.cache = ch3
    BY <1>1, <1>3, <1>4, <1>5, <1>6, <1>7, <1>15, <2>1
  <2>3. ItemEnds(c, i) = Fatal
    BY <1>12, <1>15 DEF ItemEnds
  <2>4. next.kind # "stray"
    <3>1. c.off + ((i + 1) + 1) <= Len(b)
      BY <1>2, <1>8, <1>15
    <3>2. (i + 1) + 1 = i + 2
      OBVIOUS
    <3> QED
      BY <1>6, <3>1, <3>2
  <2> QED
    BY <1>6, <1>7, <1>15, <2>2, <2>3, <2>4
<1>16. CASE HasNumber(c, 0) /\ Number(c, 0) # NumSize /\ HasNumber(c, 1)
              /\ i < ItemCount(c) /\ HasNumber(c, i + 1)
              /\ (i + 1 = ItemCount(c) \/ HasNumber(c, i + 2))
  <2> DEFINE stop == IF i + 1 = ItemCount(c) THEN Number(c, 0) ELSE Number(c, i + 2)
             begin == Number(c, i + 1)
             I == Item(c, i)
  <2>1. ~(count < 0) /\ ~(i >= count) /\ (last <=> i + 1 = ItemCount(c))
    BY <1>12, <1>16
  <2>2. end.kind = "bytes" /\ end.bytes[1] = stop /\ stop \in Nat /\ begin \in Nat
    BY <1>3, <1>5, <1>6, <1>16, <2>1
  <2>3. I = [c EXCEPT !.off = @ + begin, !.size = stop - begin, !.checked = TRUE]
    BY DEF Item
  <2>4. item = I
    BY <1>5, <1>16, <2>2, <2>3
  <2>5. /\ r.kind = (IF I.size >= 0 /\ InBlock(I) THEN "item" ELSE "bounds")
        /\ r.cur = (IF I.size >= 0 /\ InBlock(I) THEN I ELSE c)
        /\ r.cache = (IF last THEN ch2 ELSE ch3)
    <3> HIDE DEF item, I, end, count, last, r
    <3> QED
      BY <1>1, <1>3, <1>4, <1>5, <1>7, <1>16, <2>1, <2>2, <2>4
  <2>6. \A k \in ItemPlaces(c, i) : HasNumber(c, k)
    BY <1>12, <1>16
  <2>7. ItemEnds(c, i) = {IF I.size >= 0 /\ InBlock(I) THEN "item" ELSE "bounds"}
    BY <1>12, <1>16, <2>6 DEF ItemEnds
  <2>8. /\ I.src = c.src /\ I.off = c.off + begin /\ I.size = stop - begin
        /\ I.size >= 0 => I \in Cursor
    <3>1. c.off + begin \in Nat /\ stop - begin \in Int
      BY <1>2, <2>2
    <3>2. I = [src |-> c.src, off |-> c.off + begin, size |-> stop - begin,
               checked |-> TRUE]
      <4> HIDE DEF I, begin, stop
      <4> QED
        BY <2>3, CursorReplaced
    <3> HIDE DEF I, begin, stop
    <3>3. stop - begin >= 0 => I \in Cursor
      <4> SUFFICES ASSUME stop - begin >= 0 PROVE I \in Cursor
        OBVIOUS
      <4>1. stop - begin \in Nat /\ TRUE \in BOOLEAN
        BY <3>1
      <4> QED
        BY <3>1, <3>2, <4>1, CursorMoved
    <3> QED
      BY <3>2, <3>3
  <2>9. I.size >= 0 /\ InBlock(I) => I.off <= Len(b)
    BY <1>2, <2>2, <2>8 DEF InBlock
  <2>10. r.cache \in CacheType /\ CoherentAt(r.cache, b)
    BY <1>5, <1>6, <2>5
  <2>11. i + 1 < ItemCount(c) => HasNumber(c, i + 2)
    BY <1>12, <1>16
  <2> HIDE DEF I, r, item
  <2>12. /\ r.kind \in ItemEnds(c, i) /\ r.kind # "stray"
         /\ r.cur = IF r.kind = "item" THEN I ELSE c
         /\ r.kind = "item" => I.size >= 0 /\ InBlock(I)
    BY <2>5, <2>7
  <2> QED
    BY <2>8, <2>9, <2>10, <2>11, <2>12 DEF I, r
<1>17. ItemCount(c) \in Int \/ ~HasNumber(c, 0) \/ Number(c, 0) = NumSize \/ ~HasNumber(c, 1)
  BY <1>12
<1> QED
  BY <1>9, <1>10, <1>11, <1>13, <1>14, <1>15, <1>16, <1>17

\* An item is cut out as BlockReads says, and starts inside its block.
LEMMA SliceItemStep ==
  ASSUME SrcInv, NEW h \in Handles, NEW g \in Handles, NEW i \in 0 .. MaxSize,
         SrcSliceItem(h, g, i)
  PROVE  SrcInv' /\ Next
<1> DEFINE c == cursor[g]
           s == c.src
           r == ItemAt(cache[s], c, i)
<1>1. /\ Running /\ pair = {} /\ pair' = pair /\ block' = block
      /\ answer' = Word(r.kind)
      /\ cursor' \in {cursor, [cursor EXCEPT ![h] = r.cur]}
      /\ cache' = [cache EXCEPT ![s] = r.cache]
  BY DEF SrcSliceItem, Idle
<1>2. /\ c \in Cursor /\ s \in Source /\ block[s] \in Blocks
      /\ c.checked => c.off <= Len(block[s])
  BY HandleFacts
<1>3. /\ cursor \in [Handles -> Cursor] /\ block' \in [Source -> Blocks]
      /\ CoherentCaches(cache) /\ CheckedInside /\ i \in Nat
      /\ cache[s] \in CacheType /\ CoherentAt(cache[s], block[s])
  BY <1>1, <1>2, CoherentIsCoherent DEF SrcInv, SrcTypeOK, CoherentCaches
<1>4. /\ r.cache \in CacheType /\ CoherentAt(r.cache, block[s])
      /\ r.kind \in ItemEnds(c, i)
      /\ r.cur = IF r.kind = "item" THEN Item(c, i) ELSE c
      /\ r.kind = "item" => /\ Item(c, i) \in Cursor
                            /\ Item(c, i).off <= Len(block[s])
                            /\ Item(c, i).src = s
  BY <1>2, <1>3, ItemIsTransparent
<1> HIDE DEF r, c
<1>5. CoherentCaches(cache)'
  BY <1>1, <1>2, <1>3, <1>4 DEF CoherentCaches
<1>6. r.cur \in Cursor /\ (r.cur.checked => r.cur.off <= Len(block[r.cur.src]))
  BY <1>2, <1>4
<1>7. cursor' \in [Handles -> Cursor] /\ CheckedInside'
  BY <1>1, <1>3, <1>6 DEF CheckedInside
<1>8. answer' \in AnswerType
  <2>1. ItemEnds(c, i) \subseteq Fatal \cup {"item", "missing"}
    BY DEF ItemEnds, Fatal
  <2> QED
    BY <1>1, <1>4, <2>1 DEF Word, AnswerType
<1>9. SrcInv'
  BY <1>1, <1>3, <1>5, <1>7, <1>8, IdleStep
<1>10. SliceItem(h, g, i)
  BY <1>1, <1>4 DEF SliceItem, c
<1> QED
  BY <1>9, <1>10 DEF Next

\* A cursor that is advanced over what was read from it.
LEMMA AdvancedType ==
  ASSUME NEW c \in Cursor, NEW n \in Nat, n <= c.size
  PROVE  /\ Advanced(c, n) \in Cursor
         /\ Advanced(c, n).src = c.src /\ Advanced(c, n).off = c.off + n
         /\ Advanced(c, n).size = c.size - n /\ Advanced(c, n).checked = c.checked
<1>1. c.off + n \in Nat /\ c.size - n \in Nat
  BY DEF Cursor
<1> DEFINE o == c.off + n
           s == c.size - n
<1>2. Advanced(c, n) = [c EXCEPT !.off = o, !.size = s]
  BY DEF Advanced
<1>3. o \in Nat /\ s \in Nat
  BY <1>1
<1> HIDE DEF o, s
<1>4. /\ [c EXCEPT !.off = o, !.size = s] \in Cursor
      /\ [c EXCEPT !.off = o, !.size = s].src = c.src
      /\ [c EXCEPT !.off = o, !.size = s].off = o
      /\ [c EXCEPT !.off = o, !.size = s].size = s
      /\ [c EXCEPT !.off = o, !.size = s].checked = c.checked
  BY <1>3 DEF Cursor
<1> QED
  BY <1>2, <1>4 DEF o, s

\* What both actions that read one cursor have in common.
LEMMA ReadFacts ==
  ASSUME SrcInv, NEW h \in Handles, NEW len \in BufLens,
         ReadThrough(cursor[h], len)
  PROVE  /\ Running /\ pair' = {} /\ block' = block
         /\ cursor[h] \in Cursor
         /\ Least(cursor[h].size, len) \in Nat
         /\ answer' \in Outcomes(cursor[h], Least(cursor[h].size, len))
         /\ answer' \in AnswerType /\ answer'.count <= cursor[h].size
         /\ CoherentCaches(cache)'
         /\ cursor[h].checked =>
              cursor[h].off + answer'.count <= Len(block[cursor[h].src])
<1> DEFINE c == cursor[h]
           n == Least(c.size, len)
<1>1. /\ SrcTypeOK /\ CoherentCaches(cache) /\ CheckedInside
      /\ block \in [Source -> Blocks] /\ c \in Cursor
  BY CoherentIsCoherent DEF SrcInv, SrcTypeOK
<1>2. /\ c.src \in Source /\ c.off \in Nat /\ c.size \in Nat
      /\ block[c.src] \in Blocks
  BY <1>1 DEF Cursor
<1>3. n \in Nat /\ n <= c.size
  BY <1>2, BlockAssumption DEF Least
<1>4. /\ Running /\ pair = {} /\ block' = block /\ pair' = pair
      /\ answer' = ReadAt(cache[c.src], c, n)
      /\ cache' = [cache EXCEPT ![c.src] = CacheAfter(@, c, n)]
  BY DEF ReadThrough, Idle
<1> HIDE DEF n
<1>5. answer' \in Outcomes(c, n)
  BY <1>1, <1>3, <1>4, SourceRead
<1>6. CoherentCaches(cache)'
  <2>1. CoherentCaches([cache EXCEPT ![c.src] = CacheAfter(@, c, n)])
    BY <1>1, <1>3, SourceRead
  <2> QED
    BY <1>4, <2>1 DEF CoherentCaches
<1>7. /\ answer' \in AnswerType /\ answer'.count <= n
      /\ c.off <= Len(block[c.src]) => c.off + answer'.count <= Len(block[c.src])
  BY <1>2, <1>3, <1>5, OutcomeFacts
<1>8. c.checked => c.off <= Len(block[c.src])
  BY <1>1 DEF CheckedInside
<1>9. answer'.count <= c.size
  BY <1>2, <1>3, <1>7 DEF AnswerType
<1> QED
  BY <1>1, <1>3, <1>4, <1>5, <1>6, <1>7, <1>8, <1>9 DEF n

\* A read changes caches only.
LEMMA ReadStep ==
  ASSUME SrcInv, NEW h \in Handles, NEW len \in BufLens, SrcRead(h, len)
  PROVE  SrcInv' /\ Next
<1>1. ReadThrough(cursor[h], len) /\ cursor' = cursor
  BY DEF SrcRead
<1>2. /\ Running /\ pair' = {} /\ block' = block
      /\ answer' \in Outcomes(cursor[h], Least(cursor[h].size, len))
      /\ answer' \in AnswerType /\ CoherentCaches(cache)'
  BY <1>1, ReadFacts
<1>3. /\ block' \in [Source -> Blocks] /\ cursor' \in [Handles -> Cursor]
      /\ CheckedInside'
  BY <1>1, <1>2 DEF SrcInv, SrcTypeOK, CheckedInside
<1>4. SrcInv'
  BY <1>2, <1>3, IdleStep
<1>5. Read(h, len)
  BY <1>1, <1>2 DEF Read
<1> QED
  BY <1>4, <1>5 DEF Next

\* A cursor advances over what was read and stays inside its block.
LEMMA ConsumeStep ==
  ASSUME SrcInv, NEW h \in Handles, NEW len \in BufLens, SrcConsume(h, len)
  PROVE  SrcInv' /\ Next
<1> DEFINE c == Advanced(cursor[h], answer'.count)
<1>1. /\ ReadThrough(cursor[h], len)
      /\ cursor' = [cursor EXCEPT ![h] = Advanced(@, answer'.count)]
  BY DEF SrcConsume
<1>2. /\ Running /\ pair' = {} /\ block' = block /\ cursor[h] \in Cursor
      /\ answer' \in Outcomes(cursor[h], Least(cursor[h].size, len))
      /\ answer' \in AnswerType /\ answer'.count <= cursor[h].size
      /\ CoherentCaches(cache)'
      /\ cursor[h].checked =>
           cursor[h].off + answer'.count <= Len(block[cursor[h].src])
  BY <1>1, ReadFacts
<1>3. /\ c \in Cursor /\ c.src = cursor[h].src
      /\ c.off = cursor[h].off + answer'.count /\ c.checked = cursor[h].checked
  <2>1. answer'.count \in Nat
    BY <1>2 DEF AnswerType
  <2> QED
    BY <1>2, <2>1, AdvancedType
<1>4. /\ block' \in [Source -> Blocks] /\ cursor \in [Handles -> Cursor]
      /\ cursor' = [cursor EXCEPT ![h] = c] /\ CheckedInside
  BY <1>1, <1>2 DEF SrcInv, SrcTypeOK
<1> HIDE DEF c
<1>5. cursor' \in [Handles -> Cursor]
  BY <1>3, <1>4
<1>6. CheckedInside'
  <2>1. ASSUME NEW g \in Handles, cursor'[g].checked
        PROVE  cursor'[g].off <= Len(block'[cursor'[g].src])
    <3>1. CASE g = h
      BY <1>2, <1>3, <1>4, <2>1, <3>1
    <3>2. CASE g # h
      BY <1>2, <1>4, <2>1, <3>2 DEF CheckedInside
    <3> QED
      BY <3>1, <3>2
  <2> QED
    BY <2>1 DEF CheckedInside
<1>7. SrcInv'
  BY <1>2, <1>4, <1>5, <1>6, IdleStep
<1>8. Consume(h, len)
  BY <1>1, <1>2 DEF Consume
<1> QED
  BY <1>7, <1>8 DEF Next
-----------------------------------------------------------------------------
\* The comparison under way.
LEMMA PairFacts ==
  ASSUME SrcInv, NEW p \in pair
  PROVE  /\ pair = {p} /\ p.h \in Handles /\ p.c \in Comparable
         /\ p = [h |-> p.h, c |-> p.c, done |-> p.done]
         /\ p.c \in Cursor /\ p.done \in Nat /\ p.done <= p.c.size
         /\ p.c.checked => p.c.off <= Len(block[p.c.src])
<1>1. PICK h \in Handles, c \in Comparable : \E k \in 0 .. c.size :
        pair = {[h |-> h, c |-> c, done |-> k]}
  BY DEF SrcInv, SrcTypeOK
<1>2. PICK k \in 0 .. c.size : pair = {[h |-> h, c |-> c, done |-> k]}
  BY <1>1
<1>3. p = [h |-> h, c |-> c, done |-> k]
  BY <1>2
<1>4. /\ block \in [Source -> Blocks] /\ cursor \in [Handles -> Cursor]
      /\ CheckedInside /\ Static \in Source
  BY DEF SrcInv, SrcTypeOK, Source
<1>5. /\ c \in Cursor
      /\ c.checked => c.off <= Len(block[c.src])
  <2>1. CASE c = Whole(Static)
    <3>1. Whole(Static) \in Cursor /\ Whole(Static).checked
          /\ Whole(Static).src = Static /\ Whole(Static).off = 0
      BY <1>4, WholeIsCursor
    <3>2. Len(block[Static]) \in Nat
      BY <1>4, BlockAssumption
    <3> QED
      BY <2>1, <3>1, <3>2
  <2>2. CASE \E g \in Handles : c = cursor[g]
    BY <1>4, <2>2 DEF CheckedInside
  <2> QED
    BY <2>1, <2>2 DEF Comparable
<1>6. k \in Nat /\ k <= c.size
  BY <1>5 DEF Cursor
<1>7. p.h = h /\ p.c = c /\ p.done = k
  BY <1>3
<1>8. pair = {p} /\ p = [h |-> p.h, c |-> p.c, done |-> p.done]
  BY <1>2, <1>3, <1>7
<1>9. p.h \in Handles /\ p.c \in Comparable
  BY <1>7
<1>10. /\ p.c \in Cursor /\ p.done \in Nat /\ p.done <= p.c.size
       /\ p.c.checked => p.c.off <= Len(block[p.c.src])
  BY <1>5, <1>6, <1>7
<1> QED
  BY <1>8, <1>9, <1>10

\* A comparison that ends with a verdict BlockReads allows.
LEMMA AnswerStep ==
  ASSUME SrcInv, NEW p \in pair, NEW kind \in Verdict \cup Fatal, Answer(kind),
         kind \in Verdicts(cursor[p.h], p.c), CoherentCaches(cache)'
  PROVE  SrcInv' /\ Next
<1>1. /\ answer' = Word(kind) /\ pair' = {} /\ block' = block /\ cursor' = cursor
  BY DEF Answer
<1>2. p.h \in Handles /\ p.c \in Comparable /\ Running
  BY PairFacts DEF SrcInv, PairProgress
<1>3. answer' \in AnswerType /\ answer'.kind = kind
  BY <1>1 DEF Word, AnswerType
<1>4. /\ block' \in [Source -> Blocks] /\ cursor' \in [Handles -> Cursor]
      /\ CheckedInside'
  BY <1>1 DEF SrcInv, SrcTypeOK, CheckedInside
<1>5. SrcInv'
  BY <1>1, <1>3, <1>4, IdleStep
<1>6. Compare(p.h, p.c)
  BY <1>1, <1>2 DEF Compare
<1> QED
  BY <1>2, <1>5, <1>6 DEF Next

\* The start of a comparison cannot be observed.
LEMMA StartStep ==
  ASSUME SrcInv, NEW h \in Handles, NEW g \in Handles, StartCompare(h, cursor[g])
  PROVE  SrcInv' /\ UNCHANGED <<block, cursor, answer>>
<1> DEFINE c == cursor[g]
<1>1. /\ Running /\ pair' = {[h |-> h, c |-> c, done |-> 0]}
      /\ block' = block /\ cursor' = cursor /\ answer' = answer /\ cache' = cache
  BY DEF StartCompare
<1>2. c \in Cursor /\ cursor[h] \in Cursor /\ c \in Comparable'
  BY <1>1 DEF SrcInv, SrcTypeOK, Comparable
<1> HIDE DEF c
<1>3. SrcTypeOK'
  <2>1. 0 \in 0 .. c.size
    BY <1>2 DEF Cursor
  <2>2. \E k \in 0 .. c.size : pair' = {[h |-> h, c |-> c, done |-> k]}
    BY <1>1, <2>1
  <2> QED
    BY <1>1, <1>2, <2>2 DEF SrcInv, SrcTypeOK
<1>4. PairProgress'
  <2> SUFFICES ASSUME NEW p \in pair'
               PROVE  p.done = 0 /\ p.h = h /\ p.c = c
    <3>1. Window(block[cursor[h].src], cursor[h].off, 0) = Window(block[c.src], c.off, 0)
      BY <1>2, EmptyWindow DEF Cursor
    <3>2. Running'
      BY <1>1 DEF Running
    <3> QED
      BY <1>1, <3>1, <3>2 DEF PairProgress
  <2> QED
    BY <1>1
<1>5. Coherent' /\ CheckedInside'
  BY <1>1 DEF SrcInv, Coherent, CheckedInside
<1> QED
  BY <1>1, <1>3, <1>4, <1>5 DEF SrcInv

\* Different sizes are told apart before anything is read.
LEMMA SizesStep ==
  ASSUME SrcInv, NEW p \in pair, CompareSizes(p)
  PROVE  SrcInv' /\ Next
<1>1. Answer("differ") /\ cursor[p.h].size # p.c.size /\ cache' = cache /\ block' = block
  BY DEF CompareSizes, Answer
<1>2. CoherentCaches(cache)'
  BY <1>1, CoherentIsCoherent DEF SrcInv, CoherentCaches
<1>3. "differ" \in Verdicts(cursor[p.h], p.c) /\ "differ" \in Verdict \cup Fatal
  BY <1>1 DEF Verdicts, Verdict
<1> QED
  BY <1>1, <1>2, <1>3, AnswerStep

\* All chunks were equal.
LEMMA EndStep ==
  ASSUME SrcInv, NEW p \in pair, CompareEnd(p)
  PROVE  SrcInv' /\ Next
<1>1. /\ Answer("equal") /\ cursor[p.h].size = p.c.size /\ p.done = p.c.size
      /\ cache' = cache /\ block' = block
  BY DEF CompareEnd, Answer
<1>2. CoherentCaches(cache)'
  BY <1>1, CoherentIsCoherent DEF SrcInv, CoherentCaches
<1>3. Window(block[cursor[p.h].src], cursor[p.h].off, p.done)
        = Window(block[p.c.src], p.c.off, p.done)
  BY DEF SrcInv, PairProgress
<1>4. "equal" \in Verdicts(cursor[p.h], p.c) /\ "equal" \in Verdict \cup Fatal
  BY <1>1, <1>3 DEF Verdicts, Verdict
<1> QED
  BY <1>1, <1>2, <1>4, AnswerStep

\* The two reads of a chunk, as BlockReads sees them.
ChunkReads(p, n, a, b) ==
  /\ n = Least(p.c.size - p.done, CmpBuf)
  /\ a \in Outcomes(Left(p), n) /\ b \in Outcomes(Right(p), n)
  /\ Chunk(p).verdict = ChunkVerdict(a, b) /\ Chunk(p).count = a.count

\* Both reads of a chunk are those of BlockReads, the second one over the
\* caches the first one left.
LEMMA ChunkFacts ==
  ASSUME SrcInv, NEW p \in pair, ChunkLeft(p)
  PROVE  /\ CoherentCaches(Chunk(p).caches)
         /\ \E n \in Nat, a \in AnswerType, b \in AnswerType : ChunkReads(p, n, a, b)
<1> DEFINE n == Least(p.c.size - p.done, CmpBuf)
           L == Left(p)
           R == Right(p)
           a == ReadAt(cache[L.src], L, n)
           afterA == [cache EXCEPT ![L.src] = CacheAfter(@, L, n)]
           b == ReadAt(afterA[R.src], R, n)
           afterB == [afterA EXCEPT ![R.src] = CacheAfter(@, R, n)]
<1>1. /\ cursor[p.h].size = p.c.size /\ p.done < p.c.size
      /\ Chunk(p).caches = IF a.count = 0 THEN afterA ELSE afterB
      /\ Chunk(p).verdict = ChunkVerdict(a, b) /\ Chunk(p).count = a.count
  BY DEF ChunkLeft, Chunk
<1>2. /\ p.c \in Cursor /\ p.done \in Nat /\ p.done <= p.c.size /\ p.h \in Handles
  BY PairFacts
<1>3. /\ cursor[p.h] \in Cursor /\ block \in [Source -> Blocks]
      /\ CoherentCaches(cache)
  BY <1>2, CoherentIsCoherent DEF SrcInv, SrcTypeOK
<1>4. L \in Cursor /\ R \in Cursor
  BY <1>1, <1>2, <1>3, AdvancedType DEF Left, Right
<1>5. n \in Nat
  BY <1>2, CmpAssumption DEF Least, Cursor
<1> HIDE DEF n, L, R
<1>6. a \in Outcomes(L, n) /\ CoherentCaches(afterA)
  BY <1>3, <1>4, <1>5, SourceRead
<1>7. b \in Outcomes(R, n) /\ CoherentCaches(afterB)
  <2> HIDE DEF afterA
  <2> QED
    BY <1>3, <1>4, <1>5, <1>6, SourceRead
<1>8. CoherentCaches(Chunk(p).caches)
  BY <1>1, <1>6, <1>7
<1>9. a \in AnswerType /\ b \in AnswerType
  <2>1. /\ L.off \in Nat /\ R.off \in Nat
        /\ block[L.src] \in Blocks /\ block[R.src] \in Blocks
    BY <1>3, <1>4 DEF Cursor
  <2> QED
    BY <1>5, <1>6, <1>7, <2>1, OutcomeFacts
<1>10. ChunkReads(p, n, a, b)
  BY <1>1, <1>6, <1>7 DEF ChunkReads, n, L, R
<1> HIDE DEF a, b
<1> QED
  BY <1>5, <1>8, <1>9, <1>10

\* What the two reads of a chunk found.
LEMMA ChunkBytes ==
  ASSUME SrcInv, NEW p \in pair, ChunkLeft(p), NEW n \in Nat,
         NEW a \in AnswerType, NEW b \in AnswerType, ChunkReads(p, n, a, b)
  PROVE  LET bx == block[cursor[p.h].src]
             by == block[p.c.src]
             i == cursor[p.h].off + p.done
             j == p.c.off + p.done
         IN  /\ p.done + n <= p.c.size /\ n <= p.c.size - p.done
             /\ a.kind \in {"bytes", "data", "stray", "bounds"} /\ a.count <= n
             /\ a.kind = "stray" => i > Len(bx)
             /\ a.count # 0 => i + a.count <= Len(bx)
             /\ i + n <= Len(bx) => a = Bytes(n, Window(bx, i, n))
             /\ a.kind = "bytes" => a.bytes = Window(bx, i, a.count)
             /\ b.kind \in {"bytes", "data", "stray", "bounds"} /\ b.count <= n
             /\ b.kind = "stray" => j > Len(by)
             /\ b.count # 0 => j + b.count <= Len(by)
             /\ j + n <= Len(by) => b = Bytes(n, Window(by, j, n))
             /\ b.kind = "bytes" => b.bytes = Window(by, j, b.count)
<1> DEFINE x == cursor[p.h]
           y == p.c
           d == p.done
           L == Left(p)
           R == Right(p)
<1>1. /\ y \in Cursor /\ d \in Nat /\ d <= y.size /\ p.h \in Handles
  BY PairFacts
<1>2. /\ x \in Cursor /\ block \in [Source -> Blocks]
      /\ x.size = y.size /\ d < y.size
  BY <1>1 DEF ChunkLeft, SrcInv, SrcTypeOK
<1>3. /\ L \in Cursor /\ L.src = x.src /\ L.off = x.off + d
      /\ R \in Cursor /\ R.src = y.src /\ R.off = y.off + d
  BY <1>1, <1>2, AdvancedType DEF Left, Right
<1>4. /\ L.off \in Nat /\ R.off \in Nat
      /\ block[L.src] \in Blocks /\ block[R.src] \in Blocks
  BY <1>2, <1>3 DEF Cursor
<1>5. a \in Outcomes(L, n) /\ b \in Outcomes(R, n) /\ n = Least(y.size - d, CmpBuf)
  BY DEF ChunkReads
<1>6. d + n <= y.size /\ n <= y.size - d
  BY <1>1, <1>2, <1>5, CmpAssumption DEF Least, Cursor
<1> HIDE DEF x, y, d, L, R
<1>7. /\ a.kind \in {"bytes", "data", "stray", "bounds"} /\ a.count <= n
      /\ a.kind = "stray" => L.off > Len(block[L.src])
      /\ a.count # 0 => L.off + a.count <= Len(block[L.src])
      /\ L.off + n <= Len(block[L.src]) => a = Bytes(n, Window(block[L.src], L.off, n))
      /\ a.kind = "bytes" => a.bytes = Window(block[L.src], L.off, a.count)
  BY <1>4, <1>5, OutcomeFacts
<1>8. /\ b.kind \in {"bytes", "data", "stray", "bounds"} /\ b.count <= n
      /\ b.kind = "stray" => R.off > Len(block[R.src])
      /\ b.count # 0 => R.off + b.count <= Len(block[R.src])
      /\ R.off + n <= Len(block[R.src]) => b = Bytes(n, Window(block[R.src], R.off, n))
      /\ b.kind = "bytes" => b.bytes = Window(block[R.src], R.off, b.count)
  BY <1>4, <1>5, OutcomeFacts
<1> QED
  BY <1>3, <1>6, <1>7, <1>8 DEF x, y, d

\* What a checked cursor is used for next never copies from outside its
\* block: a read, an item of its vector, the next chunk of a comparison.
LEMMA ReadStays ==
  ASSUME SrcInv, NEW h \in Handles, cursor[h].checked, NEW len \in BufLens
  PROVE  ReadAt(cache[cursor[h].src], cursor[h], Least(cursor[h].size, len)).kind # "stray"
<1> DEFINE c == cursor[h]
           n == Least(c.size, len)
<1>1. /\ c \in Cursor /\ c.off \in Nat /\ block[c.src] \in Blocks
      /\ c.off <= Len(block[c.src]) /\ c.size \in Nat /\ Len(block[c.src]) \in Nat
  BY HandleFacts
<1>2. n \in Nat
  BY <1>1, BlockAssumption DEF Least
<1>3. block \in [Source -> Blocks] /\ CoherentCaches(cache)
  BY CoherentIsCoherent DEF SrcInv, SrcTypeOK
<1> HIDE DEF c, n
<1>4. ReadAt(cache[c.src], c, n) \in Outcomes(c, n)
  BY <1>1, <1>2, <1>3, SourceRead
<1>5. ReadAt(cache[c.src], c, n).kind # "stray"
  BY <1>1, <1>2, <1>4, OutcomeFacts
<1> QED
  BY <1>5 DEF c, n

LEMMA ItemStays ==
  ASSUME SrcInv, NEW h \in Handles, cursor[h].checked, NEW i \in Nat,
         i = 0 \/ ItemAt(cache[cursor[h].src], cursor[h], i - 1).kind = "item"
  PROVE  ItemAt(cache[cursor[h].src], cursor[h], i).kind # "stray"
<1> DEFINE c == cursor[h]
           ch == cache[c.src]
<1>1. /\ c \in Cursor /\ c.src \in Source /\ block[c.src] \in Blocks
      /\ c.off <= Len(block[c.src])
  BY HandleFacts
<1>2. ch \in CacheType /\ CoherentAt(ch, block[c.src])
  BY <1>1, CoherentIsCoherent DEF SrcInv, CoherentCaches
<1> HIDE DEF c, ch
<1>3. i = 0 \/ (i < ItemCount(c) => HasNumber(c, i + 1))
  <2>1. CASE i = 0
    BY <2>1
  <2>2. CASE i # 0
    <3>1. i - 1 \in Nat /\ (i - 1) + 1 = i /\ (i - 1) + 2 = i + 1
      BY <2>2
    <3>2. ItemAt(ch, c, i - 1).kind = "item"
      BY <2>2 DEF c, ch
    <3>3. (i - 1) + 1 < ItemCount(c) => HasNumber(c, (i - 1) + 2)
      BY <1>1, <1>2, <3>1, <3>2, ItemIsTransparent
    <3> QED
      BY <3>1, <3>3
  <2> QED
    BY <2>1, <2>2
<1>4. ItemAt(ch, c, i).kind # "stray"
  BY <1>1, <1>2, <1>3, ItemIsTransparent
<1> QED
  BY <1>4 DEF c, ch

LEMMA ChunkStays ==
  ASSUME SrcInv, NEW p \in pair, cursor[p.h].checked, p.c.checked, ChunkLeft(p)
  PROVE  Chunk(p).verdict # "stray"
<1> DEFINE x == cursor[p.h]
           y == p.c
<1>1. PICK n \in Nat, a \in AnswerType, b \in AnswerType : ChunkReads(p, n, a, b)
  BY ChunkFacts
<1>2. /\ a.kind = "stray" => x.off + p.done > Len(block[x.src])
      /\ b.kind = "stray" => y.off + p.done > Len(block[y.src])
  BY <1>1, ChunkBytes
<1>3. /\ p.h \in Handles /\ y \in Cursor /\ p.done \in Nat
      /\ y.off <= Len(block[y.src])
  BY PairFacts
<1>4. x.off \in Nat /\ x.off <= Len(block[x.src]) /\ y.off \in Nat
  BY <1>3, HandleFacts DEF Cursor
<1>5. p.done # 0 => /\ x.off + p.done <= Len(block[x.src])
                    /\ y.off + p.done <= Len(block[y.src])
  BY DEF SrcInv, PairProgress
<1>6. Len(block[x.src]) \in Nat /\ Len(block[y.src]) \in Nat
  <2>1. block \in [Source -> Blocks] /\ y.src \in Source
    BY <1>3 DEF SrcInv, SrcTypeOK, Cursor
  <2> QED
    BY <1>3, <2>1, HandleFacts, BlockAssumption
<1> HIDE DEF x, y
<1>7. a.kind # "stray" /\ b.kind # "stray"
  BY <1>2, <1>3, <1>4, <1>5, <1>6
<1> QED
  BY <1>1, <1>7 DEF ChunkReads, ChunkVerdict

\* A chunk ends the comparison as BlockReads allows, or adds to what is equal.
LEMMA ChunkStep ==
  ASSUME SrcInv, NEW p \in pair, CompareChunk(p)
  PROVE  SrcInv' /\ (Next \/ UNCHANGED <<block, cursor, answer>>)
<1>0. ChunkLeft(p) /\ cache' = Chunk(p).caches
  BY DEF CompareChunk
<1>1. PICK n \in Nat, a \in AnswerType, b \in AnswerType : ChunkReads(p, n, a, b)
  BY <1>0, ChunkFacts
<1> DEFINE x == cursor[p.h]
           y == p.c
           d == p.done
           bx == block[x.src]
           by == block[y.src]
           v == Chunk(p).verdict
<1>2. /\ pair = {p} /\ p.h \in Handles /\ y \in Comparable /\ y \in Cursor
      /\ p = [h |-> p.h, c |-> p.c, done |-> p.done]
      /\ d \in Nat /\ d <= y.size
  BY PairFacts
<1>3. /\ x \in Cursor /\ bx \in Seq(Nat) /\ by \in Seq(Nat)
  BY <1>2, BlockAssumption DEF SrcInv, SrcTypeOK, Cursor
<1>4. /\ x.off \in Nat /\ x.size \in Nat /\ y.off \in Nat /\ y.size \in Nat
      /\ Len(bx) \in Nat /\ Len(by) \in Nat /\ x.size = y.size /\ d < y.size
  BY <1>0, <1>2, <1>3 DEF Cursor, ChunkLeft
<1>5. /\ d # 0 => x.off + d <= Len(bx) /\ y.off + d <= Len(by)
      /\ Window(bx, x.off, d) = Window(by, y.off, d)
      /\ Running
  BY DEF SrcInv, PairProgress
<1>6. /\ v = ChunkVerdict(a, b) /\ a.count \in Nat /\ b.count \in Nat
      /\ n = Least(y.size - d, CmpBuf)
  BY <1>1 DEF ChunkReads, AnswerType
<1>7. /\ block' = block /\ CoherentCaches(cache)'
      /\ \/ v = "more" /\ pair' = {[p EXCEPT !.done = @ + a.count]}
            /\ cursor' = cursor /\ answer' = answer
         \/ v # "more" /\ Answer(v)
  <2>1. /\ block' = block
        /\ \/ v = "more" /\ pair' = {[p EXCEPT !.done = @ + a.count]}
              /\ cursor' = cursor /\ answer' = answer
           \/ v # "more" /\ Answer(v)
    BY <1>1 DEF CompareChunk, ChunkReads, Answer
  <2>2. CoherentCaches(cache')
    BY <1>0, ChunkFacts
  <2> QED
    BY <2>1, <2>2 DEF CoherentCaches
<1>8. /\ d + n <= y.size /\ n <= y.size - d
  BY <1>0, <1>1, ChunkBytes
<1>10. /\ a.kind \in {"bytes", "data", "stray", "bounds"} /\ a.count <= n
       /\ a.count # 0 => (x.off + d) + a.count <= Len(bx)
       /\ (x.off + d) + n <= Len(bx) => a = Bytes(n, Window(bx, x.off + d, n))
       /\ a.kind = "bytes" => a.bytes = Window(bx, x.off + d, a.count)
  BY <1>0, <1>1, ChunkBytes
<1>11. /\ b.kind \in {"bytes", "data", "stray", "bounds"} /\ b.count <= n
       /\ b.count # 0 => (y.off + d) + b.count <= Len(by)
       /\ (y.off + d) + n <= Len(by) => b = Bytes(n, Window(by, y.off + d, n))
       /\ b.kind = "bytes" => b.bytes = Window(by, y.off + d, b.count)
  BY <1>0, <1>1, ChunkBytes
<1> HIDE DEF x, y, d, bx, by, v
<1>12. CASE v = "more"
  <2>1. /\ a.kind = "bytes" /\ b.kind = "bytes" /\ a.count # 0
        /\ a.count = b.count /\ a.bytes = b.bytes
    BY <1>6, <1>10, <1>11, <1>12 DEF ChunkVerdict, Fatal
  <2> DEFINE m == a.count
             q == [h |-> p.h, c |-> p.c, done |-> d + m]
  <2>2. /\ pair' = {q} /\ q.h = p.h /\ q.c = p.c /\ q.done = d + m
        /\ block' = block /\ cursor' = cursor /\ answer' = answer
    BY <1>2, <1>7, <1>12 DEF d
  <2>3. /\ m \in Nat /\ d + m \in Nat /\ d + m <= y.size
        /\ x.off + (d + m) <= Len(bx) /\ y.off + (d + m) <= Len(by)
    <3>1. m \in Nat /\ d \in Nat /\ m <= n
      BY <1>2, <1>6, <1>10
    <3>2. d + m <= y.size
      BY <1>4, <1>8, <3>1
    <3>3. (x.off + d) + m <= Len(bx) /\ (y.off + d) + m <= Len(by)
      BY <1>10, <1>11, <2>1
    <3> HIDE DEF m
    <3> QED
      BY <1>4, <3>1, <3>2, <3>3
  <2>4. Window(bx, x.off, d + m) = Window(by, y.off, d + m)
    <3>1. Window(bx, x.off + d, m) = Window(by, y.off + d, m)
      BY <1>10, <1>11, <2>1
    <3> HIDE DEF m
    <3> QED
      BY <1>2, <1>4, <1>5, <2>3, <3>1, WindowJoin
  <2> HIDE DEF m, q
  <2>5. SrcTypeOK'
    <3>1. d + m \in 0 .. y.size
      BY <1>4, <2>3
    <3>2. y \in Comparable'
      BY <1>2, <2>2 DEF Comparable, Whole
    <3>3. \E h \in Handles, c \in Comparable' : \E k \in 0 .. c.size :
            pair' = {[h |-> h, c |-> c, done |-> k]}
      BY <1>2, <2>2, <3>1, <3>2 DEF q, y
    <3>4. cache' \in [Source -> [start : Nat, size : Nat, bytes : Seq(Nat)]]
      BY <1>7 DEF CoherentCaches, CacheType
    <3> QED
      BY <2>2, <3>3, <3>4 DEF SrcInv, SrcTypeOK
  <2>6. Coherent'
    BY <1>7, <2>5 DEF SrcTypeOK, Coherent, CoherentCaches, CoherentAt, CacheType
  <2>7. PairProgress'
    <3>1. Running'
      BY <1>5, <2>2 DEF Running
    <3>2. /\ cursor'[q.h] = x /\ q.c = y
          /\ block'[x.src] = bx /\ block'[y.src] = by
      BY <2>2 DEF x, y, bx, by
    <3>3. \A r \in pair' : r = q
      BY <2>2
    <3> QED
      BY <1>4, <2>2, <2>3, <2>4, <3>1, <3>2, <3>3 DEF PairProgress
  <2>8. CheckedInside'
    BY <2>2 DEF SrcInv, CheckedInside
  <2> QED
    BY <2>2, <2>5, <2>6, <2>7, <2>8 DEF SrcInv
<1>13. CASE v # "more"
  <2>1. Answer(v) /\ v \in {"io", "differ"} \cup Fatal
    BY <1>6, <1>7, <1>13 DEF ChunkVerdict
  <2>2. v \in Verdicts(x, y)
    <3>1. CASE ~InBlock(x) \/ ~InBlock(y)
      BY <1>4, <2>1, <3>1 DEF Verdicts, Verdict
    <3>2. CASE InBlock(x) /\ InBlock(y)
      <4>1. (x.off + d) + n <= Len(bx) /\ (y.off + d) + n <= Len(by)
        <5>1. x.off + x.size <= Len(bx) /\ y.off + y.size <= Len(by)
          BY <3>2 DEF InBlock, bx, by
        <5>2. d + n <= y.size /\ d \in Nat
          BY <1>2, <1>8
        <5> QED
          BY <1>4, <5>1, <5>2, SMTT(30)
      <4>2. /\ a = Bytes(n, Window(bx, x.off + d, n))
            /\ b = Bytes(n, Window(by, y.off + d, n))
        BY <1>10, <1>11, <4>1
      <4>3. /\ a.kind = "bytes" /\ a.count = n /\ a.bytes = Window(bx, x.off + d, n)
            /\ b.kind = "bytes" /\ b.count = n /\ b.bytes = Window(by, y.off + d, n)
        BY <4>2 DEF Bytes
      <4>4. n # 0
        BY <1>2, <1>4, <1>6, CmpAssumption DEF Least
      <4>5. v = "differ" /\ Window(bx, x.off + d, n) # Window(by, y.off + d, n)
        BY <1>6, <1>13, <4>3, <4>4 DEF ChunkVerdict, Fatal
      <4>6. Window(bx, x.off, x.size) # Window(by, y.off, x.size)
        <5>1. d + n <= x.size
          BY <1>4, <1>8
        <5> QED
          BY <1>2, <1>4, <4>5, <5>1, WindowPart
      <4> QED
        BY <1>4, <3>2, <4>5, <4>6 DEF Verdicts, bx, by
    <3> QED
      BY <3>1, <3>2
  <2>3. v \in Verdict \cup Fatal
    BY <2>1 DEF Verdict, Fatal
  <2> QED
    BY <1>7, <2>1, <2>2, <2>3, AnswerStep DEF x, y
<1> QED
  BY <1>12, <1>13
-----------------------------------------------------------------------------
\* A stuttering step.
LEMMA TerminatedStep ==
  ASSUME SrcInv, UNCHANGED vars PROVE SrcInv'
<1>1. /\ block' = block /\ cursor' = cursor /\ answer' = answer
      /\ cache' = cache /\ pair' = pair
  BY DEF vars
<1>2. SrcTypeOK' /\ Coherent' /\ CheckedInside'
  BY <1>1 DEF SrcInv, SrcTypeOK, Comparable, Whole, Coherent, CheckedInside
<1>3. PairProgress'
  BY <1>1 DEF SrcInv, PairProgress, Running
<1> QED
  BY <1>2, <1>3 DEF SrcInv

\* Every step of the reader keeps the invariant, and is a step of
\* BlockReads or leaves what BlockReads sees as it is.
LEMMA SrcStep ==
  ASSUME SrcInv, [SrcNext]_vars
  PROVE  SrcInv' /\ [Next]_<<block, cursor, answer>>
<1>1. ASSUME NEW h \in Handles, NEW b \in Blocks, SrcMake(h, b) \/ StartLiteral(h, b)
      PROVE  SrcInv' /\ Next
  BY <1>1, MakeStep, LiteralStep
<1>2. ASSUME NEW h \in Handles, NEW g \in Handles, NEW o \in 0 .. MaxSize,
             NEW n \in 0 .. MaxSize, SrcSlice(h, g, o, n)
      PROVE  SrcInv' /\ Next
  BY <1>2, SliceStep
<1>3. ASSUME NEW h \in Handles, NEW n \in 0 .. MaxSize,
             SrcResize(h, n) \/ SrcShrink(h, n)
      PROVE  SrcInv' /\ Next
  BY <1>3, ResizeStep, ShrinkStep
<1>4. ASSUME NEW h \in Handles, NEW len \in BufLens,
             SrcRead(h, len) \/ SrcConsume(h, len)
      PROVE  SrcInv' /\ Next
  BY <1>4, ReadStep, ConsumeStep
<1>5. ASSUME NEW h \in Handles, NEW g \in Handles, StartCompare(h, cursor[g])
      PROVE  SrcInv' /\ UNCHANGED <<block, cursor, answer>>
  BY <1>5, StartStep
<1>6. ASSUME NEW p \in pair, CompareSizes(p) \/ CompareChunk(p) \/ CompareEnd(p)
      PROVE  SrcInv' /\ [Next]_<<block, cursor, answer>>
  BY <1>6, SizesStep, ChunkStep, EndStep
<1>7. ASSUME NEW h \in Handles, NEW g \in Handles, NEW o \in 0 .. MaxSize,
             SrcMove(h, g, o) \/ SrcSliceItem(h, g, o)
      PROVE  SrcInv' /\ Next
  BY <1>7, MoveStep, SliceItemStep
<1>8. CASE SrcTerminated \/ UNCHANGED vars
  <2>1. UNCHANGED vars
    BY <1>8 DEF SrcTerminated, Terminated, vars
  <2> QED
    BY <2>1, TerminatedStep DEF vars
<1> QED
  BY <1>1, <1>2, <1>3, <1>4, <1>5, <1>6, <1>7, <1>8 DEF SrcNext, CompareStep

\* The inductive invariant holds in every reachable state: the cache of every
\* source is coherent, checked cursors start inside their blocks, and a running
\* comparison has read equal bytes from inside two blocks.
THEOREM SrcInvariance == SrcSpec => []SrcInv
<1>1. SrcInit => SrcInv
  BY InitInv
<1>2. SrcInv /\ [SrcNext]_vars => SrcInv'
  BY SrcStep
<1> QED
  BY <1>1, <1>2, PTL DEF SrcSpec

\* The reader's variables keep their types: no cursor gets a negative size.
THEOREM SrcTypeCorrect == SrcSpec => []SrcTypeOK
<1>1. SrcInv => SrcTypeOK
  BY DEF SrcInv
<1> QED
  BY <1>1, SrcInvariance, PTL

\* The cache of every source holds bytes that its block has now, whatever was
\* read, sliced, moved, resized, compared or made again before.
THEOREM CacheCoherent == SrcSpec => []Coherent
<1>1. SrcInv => Coherent
  BY DEF SrcInv
<1> QED
  BY <1>1, SrcInvariance, PTL

\* mol2_source_memory is never asked for bytes behind its memory by what is
\* done with a cursor that was whole or validated and only advanced since,
\* although the header of its items is read through unvalidated copies.
THEOREM CheckedStayInside == SrcSpec => []CheckedStaysInside
<1>1. SrcInv => CheckedStaysInside
  <2> SUFFICES ASSUME SrcInv PROVE CheckedStaysInside
    OBVIOUS
  <2>1. 0 .. MaxSize \subseteq Nat
    BY BlockAssumption
  <2> QED
    BY <2>1, ReadStays, ItemStays, ChunkStays DEF CheckedStaysInside
<1> QED
  BY <1>1, SrcInvariance, PTL

\* mol2_read_at with its caches, the items that are cut out with it, and the
\* chunked comparison implement the reads, items and comparisons of whole
\* windows in BlockReads.
THEOREM ReaderIsTransparent == SrcSpec => Transparent
<1>1. SrcInit => Init
  BY DEF SrcInit
<1>2. SrcInv /\ [SrcNext]_vars => [Next]_<<block, cursor, answer>>
  BY SrcStep
<1> QED
  BY <1>1, <1>2, SrcInvariance, PTL DEF SrcSpec, Transparent, Spec
=============================================================================
