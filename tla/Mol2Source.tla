----------------------------- MODULE Mol2Source -----------------------------
(***************************************************************************)
(* mol2_read_at of clib/molecule2_reader.h with the cache it keeps in each *)
(* data source, over the memory source of that file, and the comparisons   *)
(* of the visitor, which read two cursors in chunks of a buffer.           *)
(*                                                                         *)
(* All cursors of a source share its cache.  The end of a read is reduced  *)
(* to a word, so a cursor just below 2^32 may be taken for a cache hit.    *)
(***************************************************************************)
EXTENDS BlockReads

CONSTANT CmpBuf    \* MDP_BUFFER_LEN, the buffers of _mdp_cursor_cmp

ASSUME CmpAssumption == CmpBuf \in Nat \ {0}

VARIABLES
  cache,       \* start_point, cache_size and the valid bytes, per source
  pair         \* the comparison under way: none, or one with its progress

vars == <<block, cursor, answer, cache, pair>>

Empty == [start |-> 0, size |-> 0, bytes |-> <<>>]
-----------------------------------------------------------------------------
\* The n bytes at the start of c seem not to be in cache ch.
Miss(ch, c, n) == c.off < ch.start \/ (c.off + n) % WordMod > ch.start + ch.size

\* mol2_source_memory fills the cache from the start of c.
Filled(c) ==
  LET n == Least(MaxCache, Len(block[c.src]) - c.off)
  IN  [start |-> c.off, size |-> n, bytes |-> Window(block[c.src], c.off, n)]

\* The read goes to the source: more than a cache holds, or not cached.
FromSource(ch, c, n) == n > MaxCache \/ Miss(ch, c, n)

\* The source copies from behind its memory: mem_len - offset wraps.
Strays(ch, c, n) == FromSource(ch, c, n) /\ c.off > Len(block[c.src])

\* The cache that a read of n bytes at c leaves in place of ch.  A read
\* that ends the process leaves nothing that is ever read.
CacheAfter(ch, c, n) ==
  IF n <= MaxCache /\ Miss(ch, c, n) /\ ~Strays(ch, c, n) /\ Filled(c).size >= n
  THEN Filled(c) ELSE ch

\* A hit copies from the place of c in the cache.
FromCacheFront(ch, c, n) == Bytes(n, Window(ch.bytes, 0, n))
FromCache(ch, c, n) == Bytes(n, Window(ch.bytes, c.off - ch.start, n))

\* The bytes of a read that bypasses the cache.
Direct(c, n) ==
  LET got == Least(n, Len(block[c.src]) - c.off)
  IN  Bytes(got, Window(block[c.src], c.off, got))

\* A hit that the reader refuses: it lies too far behind or ends too late.
BadHit(ch, c, n) ==
  ~FromSource(ch, c, n)
    /\ (c.off - ch.start > MaxCache \/ c.off - ch.start + n > ch.size)

\* What the read of n bytes at c returns, the cache being ch before it.
ReadAt(ch, c, n) ==
  IF Strays(ch, c, n) THEN Word("stray")
  ELSE IF n > MaxCache THEN Direct(c, n)
  ELSE IF Miss(ch, c, n) /\ Filled(c).size < n THEN Word("data")
  ELSE IF BadHit(ch, c, n) THEN Word("bounds")
  ELSE FromCache(CacheAfter(ch, c, n), c, n)

\* mol2_unpack_number k places behind the start of c: the copy of c is
\* moved there first.  The cache it leaves, and what it returns.
Moved(c, k) == [c EXCEPT !.off = @ + k]
CacheAfterNumber(ch, c, k) == CacheAfter(ch, Moved(c, k), Least(c.size, NumSize))
NumberAt(ch, c, k) ==
  LET r == ReadAt(ch, Moved(c, k), Least(c.size, NumSize))
  IN  IF c.off + k >= WordMod THEN Word("bounds")
      ELSE IF r.kind = "bytes" /\ r.count # NumSize THEN Word("bounds")
      ELSE r

\* How mol2_dynvec_slice_by_index ends, with which cursor and which cache.
\* Each number is read over the cache that the one before it left.
ItemAt(ch, c, i) ==
  LET ch0 == CacheAfterNumber(ch, c, 0)
      ch1 == CacheAfterNumber(ch0, c, 1)
      ch2 == CacheAfterNumber(ch1, c, i + 1)
      ch3 == CacheAfterNumber(ch2, c, i + 2)
      total == NumberAt(ch, c, 0)
      first == NumberAt(ch0, c, 1)
      start == NumberAt(ch1, c, i + 1)
      next == NumberAt(ch2, c, i + 2)
      count == first.bytes[1] - 1
      last == i + 1 = count
      end == IF last THEN total ELSE next
      item == [c EXCEPT !.off = @ + start.bytes[1],
                        !.size = end.bytes[1] - start.bytes[1], !.checked = TRUE]
      Ends(kind, cur, cch) == [kind |-> kind, cur |-> cur, cache |-> cch]
  IN  IF total.kind # "bytes" THEN Ends(total.kind, c, ch0)
      ELSE IF total.bytes[1] = NumSize THEN Ends("missing", c, ch0)
      ELSE IF first.kind # "bytes" THEN Ends(first.kind, c, ch1)
      ELSE IF count < 0 THEN Ends("bounds", c, ch1)
      ELSE IF i >= count THEN Ends("missing", c, ch1)
      ELSE IF start.kind # "bytes" THEN Ends(start.kind, c, ch2)
      ELSE IF end.kind # "bytes" THEN Ends(end.kind, c, ch3)
      ELSE Ends(IF item.size >= 0 /\ InBlock(item) THEN "item" ELSE "bounds",
                IF item.size >= 0 /\ InBlock(item) THEN item ELSE c,
                IF last THEN ch2 ELSE ch3)

\* The cache of a source that was set up again; its bytes stay behind.
RenewedNot(ch) == ch
Renewed(ch) == Empty
-----------------------------------------------------------------------------
Idle == pair = {}

SrcInit == Init /\ cache = [s \in Source |-> Empty] /\ pair = {}

\* mol2_make_cursor_from_memory.
SrcMake(h, b) ==
  /\ Idle /\ MakeFromMemory(h, b)
  /\ cache' = [cache EXCEPT ![Static] = Renewed(@)]
  /\ UNCHANGED pair

SrcSlice(h, g, o, n) == Idle /\ Slice(h, g, o, n) /\ UNCHANGED <<cache, pair>>

SrcMove(h, g, o) == Idle /\ Move(h, g, o) /\ UNCHANGED <<cache, pair>>

SrcResize(h, n) == Idle /\ Resize(h, n) /\ UNCHANGED <<cache, pair>>

SrcShrink(h, n) == Idle /\ Shrink(h, n) /\ UNCHANGED <<cache, pair>>

\* mol2_dynvec_slice_by_index on g, whose result h may take.
SrcSliceItem(h, g, i) ==
  LET s == cursor[g].src
      r == ItemAt(cache[s], cursor[g], i)
  IN  /\ Running /\ Idle
      /\ answer' = Word(r.kind)
      /\ cursor' \in {cursor, [cursor EXCEPT ![h] = r.cur]}
      /\ cache' = [cache EXCEPT ![s] = r.cache]
      /\ UNCHANGED <<block, pair>>

\* mol2_read_at into a buffer of len bytes, through the cursor c.
ReadThrough(c, len) ==
  LET n == Least(c.size, len)
  IN  /\ Running /\ Idle
      /\ answer' = ReadAt(cache[c.src], c, n)
      /\ cache' = [cache EXCEPT ![c.src] = CacheAfter(@, c, n)]
      /\ UNCHANGED <<block, pair>>

SrcRead(h, len) == ReadThrough(cursor[h], len) /\ UNCHANGED cursor

\* A buffer of the loop of _mdp_send_cursor_to_feeder.
SrcConsumeAll(h, len) ==
  /\ ReadThrough(cursor[h], len)
  /\ cursor' = [cursor EXCEPT ![h] = Advanced(@, len)]

SrcConsume(h, len) ==
  /\ ReadThrough(cursor[h], len)
  /\ cursor' = [cursor EXCEPT ![h] = Advanced(@, answer'.count)]

\* _mdp_cursor_cmp is called; it works on copies of its cursors.
StartCompare(h, c) ==
  /\ Running /\ Idle
  /\ pair' = {[h |-> h, c |-> c, done |-> 0]}
  /\ UNCHANGED <<block, cursor, answer, cache>>

\* _mdp_cursor_s_cmp first makes a cursor over the literal.
StartLiteral(h, b) ==
  /\ Idle /\ Literal(b)
  /\ cache' = [cache EXCEPT ![Static] = Renewed(@)]
  /\ pair' = {[h |-> h, c |-> Whole(Static)', done |-> 0]}

\* The two cursors of comparison p, behind the bytes already compared.
Left(p) == Advanced(cursor[p.h], p.done)
Right(p) == Advanced(p.c, p.done)

\* The comparison ends.
Answer(kind) ==
  /\ answer' = Word(kind) /\ pair' = {}
  /\ UNCHANGED <<block, cursor>>

CompareSizes(p) ==
  /\ cursor[p.h].size # p.c.size
  /\ Answer("differ") /\ UNCHANGED cache

CompareEnd(p) ==
  /\ cursor[p.h].size = p.c.size /\ p.done = p.c.size
  /\ Answer("equal") /\ UNCHANGED cache

\* What becomes of a comparison whose chunks were read with answers a, b.
ChunkVerdictUnguarded(a, b) ==
  IF a.kind \in Fatal THEN a.kind
  ELSE IF b.kind \in Fatal THEN b.kind
  ELSE IF a.count # b.count THEN "io"
  ELSE IF a.bytes # b.bytes THEN "differ"
  ELSE "more"

ChunkVerdict(a, b) ==
  IF a.kind \in Fatal THEN a.kind
  ELSE IF a.count = 0 THEN "io"
  ELSE IF b.kind \in Fatal THEN b.kind
  ELSE IF a.count # b.count THEN "io"
  ELSE IF a.bytes # b.bytes THEN "differ"
  ELSE "more"

\* The two reads of the next chunk.  The second read meets the cache that
\* the first one left, and is not made when the first one returned nothing.
Chunk(p) ==
  LET n == Least(p.c.size - p.done, CmpBuf)
      a == ReadAt(cache[Left(p).src], Left(p), n)
      afterA == [cache EXCEPT ![Left(p).src] = CacheAfter(@, Left(p), n)]
      b == ReadAt(afterA[Right(p).src], Right(p), n)
      afterB == [afterA EXCEPT ![Right(p).src] = CacheAfter(@, Right(p), n)]
  IN  [verdict |-> ChunkVerdict(a, b), count |-> a.count,
       caches |-> IF a.count = 0 THEN afterA ELSE afterB]

ChunkLeft(p) == cursor[p.h].size = p.c.size /\ p.done < p.c.size

CompareChunk(p) ==
  LET chunk == Chunk(p)
  IN  /\ ChunkLeft(p)
      /\ cache' = chunk.caches
      /\ \/ chunk.verdict = "more"
            /\ pair' = {[p EXCEPT !.done = @ + chunk.count]}
            /\ UNCHANGED <<block, cursor, answer>>
         \/ chunk.verdict # "more" /\ Answer(chunk.verdict)

CompareStep == \E p \in pair : CompareSizes(p) \/ CompareChunk(p) \/ CompareEnd(p)

SrcTerminated == Terminated /\ UNCHANGED <<cache, pair>>

SrcNext ==
  \/ \E h \in Handles, b \in Blocks : SrcMake(h, b) \/ StartLiteral(h, b)
  \/ \E h, g \in Handles, o, n \in 0 .. MaxSize : SrcSlice(h, g, o, n)
  \/ \E h, g \in Handles, o \in 0 .. MaxSize : SrcMove(h, g, o) \/ SrcSliceItem(h, g, o)
  \/ \E h \in Handles, n \in 0 .. MaxSize : SrcResize(h, n) \/ SrcShrink(h, n)
  \/ \E h \in Handles, len \in BufLens : SrcRead(h, len) \/ SrcConsume(h, len)
  \/ \E h, g \in Handles : StartCompare(h, cursor[g])
  \/ CompareStep
  \/ SrcTerminated

SrcSpec == SrcInit /\ [][SrcNext]_vars

\* The comparison runs in a thread that nothing blocks.
SrcFairSpec == SrcSpec /\ WF_vars(CompareStep)
-----------------------------------------------------------------------------
\* Types of the reader's state: an advanced cursor keeps a size that is not
\* negative (mol2_sub_size), a comparison is past at most its whole window.
SrcTypeOK ==
  /\ block \in [Source -> Blocks]
  /\ cursor \in [Handles -> Cursor]
  /\ answer \in [kind : Verdict \cup Fatal \cup {"none", "bytes", "item", "missing"},
                 count : Nat, bytes : Seq(Nat)]
  /\ cache \in [Source -> [start : Nat, size : Nat, bytes : Seq(Nat)]]
  /\ pair = {} \/ \E h \in Handles, c \in Comparable : \E k \in 0 .. c.size :
                    pair = {[h |-> h, c |-> c, done |-> k]}

\* mol2_read_at answers from its cache without asking the source: at any
\* time, whichever cursors were read, sliced, moved, resized or made again, the
\* cache of a source holds bytes its block has now, at their place.
Coherent ==
  \A s \in Source :
    /\ cache[s].start + cache[s].size <= Len(block[s])
    /\ cache[s].size <= MaxCache
    /\ cache[s].bytes = Window(block[s], cache[s].start, cache[s].size)

\* mol2_source_memory copies from outside its memory when the offset lies
\* behind it (mem_len - offset wraps, the assertion in front of it is
\* compiled out).  One validation when a cursor is made is enough against
\* that for whatever is called next: no read through a cursor that is whole
\* or validated and was only advanced over what was read since strays, no
\* chunk of a comparison of two such cursors does, and neither does the
\* header of such a vector, whose offsets are read through copies that
\* nothing validates, if items are taken from the first one on, each after
\* one that was there.  A cursor that was moved, or whose static source was
\* redirected, and an item taken out of order may stray.
CheckedStaysInside ==
  /\ \A h \in Handles : cursor[h].checked =>
       LET c == cursor[h]
           ch == cache[c.src]
       IN  /\ \A len \in BufLens : ReadAt(ch, c, Least(c.size, len)).kind # "stray"
           /\ \A i \in 0 .. MaxSize :
                (i = 0 \/ ItemAt(ch, c, i - 1).kind = "item")
                  => ItemAt(ch, c, i).kind # "stray"
  /\ \A p \in pair :
       cursor[p.h].checked /\ p.c.checked /\ ChunkLeft(p)
         => Chunk(p).verdict # "stray"

\* Cache, buffers and chunks are invisible: every read returns the bytes
\* under its cursor, every item is the one its header announces and every
\* comparison compares two whole windows, as
\* BlockReads says in one step.
Transparent == Spec

\* _mdp_cursor_cmp returns, also when its sources run out of bytes.
ComparisonsEnd == [](pair # {} => <>(pair = {}))

\* The comment on mol2_read_at: when the data is too small for its cursor,
\* it returns a number below MIN(cur->size, buff_len).
ShortReadsReturn == answer.kind # "data"
=============================================================================
