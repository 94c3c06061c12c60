----------------------------- MODULE Utf8Proofs -----------------------------
(***************************************************************************)
(* What the recursive functions of Utf8Check compute, for every shape of   *)
(* sequences and every length of the buffer.                               *)
(***************************************************************************)
EXTENDS Utf8Check, RecursionLemmas

Stops(mem, c, q, w) == Malformed(mem, c, q, w) \/ ~Complete(mem, c, q, w)
Behind(mem, c, q) == q + SeqLen(ByteAt(mem, c.off + q))

\* A byte of the memory announces the length of a sequence.
LEMMA Announces ==
  ASSUME NEW mem \in Seq(Byte), NEW o \in Nat, o < Len(mem)
  PROVE  ByteAt(mem, o) \in Byte /\ SeqLen(ByteAt(mem, o)) \in 0 .. Utf8BufLen
<1>1. o + 1 \in 1 .. Len(mem)
  OBVIOUS
<1> QED  BY <1>1, Utf8Assumption DEF ByteAt

\* Where the walk does not stop it goes on behind a sequence.
LEMMA WalkClimbs ==
  ASSUME NEW mem \in Seq(Byte), NEW c \in Cursor, NEW w \in Nat, c.off + w <= Len(mem),
         NEW q \in 0 .. w, ~Stops(mem, c, q, w)
  PROVE  Behind(mem, c, q) \in q + 1 .. w
<1>1. c.off \in Nat
  BY DEF Cursor
<1>2. q < w /\ SeqLen(ByteAt(mem, c.off + q)) # 0 /\ Behind(mem, c, q) <= w
  BY DEF Stops, Complete, Behind
<1>3. SeqLen(ByteAt(mem, c.off + q)) \in 0 .. Utf8BufLen
  <2>1. c.off + q \in Nat /\ c.off + q < Len(mem)
    BY <1>1, <1>2
  <2> QED  BY <2>1, Announces
<1> QED  BY <1>2, <1>3, Utf8Assumption DEF Behind

IsWalk(f, mem, c, p, w) ==
  f = [q \in p .. w |-> IF Stops(mem, c, q, w) THEN q ELSE f[Behind(mem, c, q)]]

\* The definition of Processed is sound.
LEMMA WalkDefined ==
  ASSUME NEW mem \in Seq(Byte), NEW c \in Cursor, NEW w \in Nat, c.off + w <= Len(mem),
         NEW p \in 0 .. w
  PROVE  \E f : IsWalk(f, mem, c, p, w) /\ Processed(mem, c, p, w) = f[p]
<1> DEFINE D == p .. w
           m == [x \in D |-> w - x]
           F == [x \in D |-> [g \in [D -> D] |->
                   IF Stops(mem, c, x, w) THEN x ELSE g[Behind(mem, c, x)]]]
<1>0. p \in D /\ D # {}
  <2> HIDE DEF m, F
  <2>1. p \in D
    OBVIOUS
  <2> HIDE DEF D
  <2> QED  BY <2>1
<1>1. m \in [D -> 0 .. w]
  <2>1. \A x \in D : w - x \in 0 .. w
    OBVIOUS
  <2> HIDE DEF D
  <2> QED  BY <2>1
<1>2. \A x \in D : ~Stops(mem, c, x, w) => Behind(mem, c, x) \in D /\ Behind(mem, c, x) > x
  <2> SUFFICES ASSUME NEW x \in D, ~Stops(mem, c, x, w)
               PROVE  Behind(mem, c, x) \in D /\ Behind(mem, c, x) > x
    OBVIOUS
  <2>1. x \in 0 .. w
    OBVIOUS
  <2>2. Behind(mem, c, x) \in x + 1 .. w
    BY <2>1, WalkClimbs
  <2> QED  BY <2>2
<1>3. F \in [D -> [[D -> D] -> D]]
  BY <1>2
<1>4. \A x \in D : \A g, h \in [D -> D] :
        (\A y \in D : m[y] < m[x] => g[y] = h[y]) => F[x][g] = F[x][h]
  <2> SUFFICES ASSUME NEW x \in D, NEW g \in [D -> D], NEW h \in [D -> D],
                      \A y \in D : m[y] < m[x] => g[y] = h[y]
               PROVE  F[x][g] = F[x][h]
    OBVIOUS
  <2>1. CASE Stops(mem, c, x, w)
    BY <2>1
  <2>2. CASE ~Stops(mem, c, x, w)
    <3>1. Behind(mem, c, x) \in D /\ Behind(mem, c, x) > x
      BY <1>2, <2>2
    <3>2. m[Behind(mem, c, x)] < m[x]
      BY <3>1
    <3> QED  BY <2>2, <3>1, <3>2
  <2> QED  BY <2>1, <2>2
<1>5. Grounded(D, D, w, m, F)
  <2> HIDE DEF D, m, F
  <2> QED  BY <1>0, <1>1, <1>3, <1>4 DEF Grounded
<1>6. PICK f \in [D -> D] : \A x \in D : f[x] = F[x][f]
  <2> HIDE DEF D, m, F
  <2> QED  BY <1>5, RecursionDefined DEF Defines
<1>7. IsWalk(f, mem, c, p, w)
  <2>1. \A x \in D : F[x][f] = IF Stops(mem, c, x, w) THEN x ELSE f[Behind(mem, c, x)]
    OBVIOUS
  <2> HIDE DEF F
  <2> QED  BY <1>6, <2>1 DEF IsWalk
<1> DEFINE walk[q \in p .. w] == IF Stops(mem, c, q, w) THEN q ELSE walk[Behind(mem, c, q)]
<1>8. walk = [q \in p .. w |-> IF Stops(mem, c, q, w) THEN q ELSE walk[Behind(mem, c, q)]]
  BY <1>7 DEF IsWalk
<1>9. Processed(mem, c, p, w) = walk[p]
  BY DEF Processed, Stops, Behind
<1> QED  BY <1>8, <1>9 DEF IsWalk

LEMMA WalkStep ==
  ASSUME NEW f, NEW mem, NEW c, NEW p, NEW w, IsWalk(f, mem, c, p, w),
         NEW q \in p .. w
  PROVE  f[q] = IF Stops(mem, c, q, w) THEN q ELSE f[Behind(mem, c, q)]
BY DEF IsWalk

\* The walk from a later byte is the rest of the walk.
LEMMA WalksAgree ==
  ASSUME NEW mem \in Seq(Byte), NEW c \in Cursor, NEW w \in Nat, c.off + w <= Len(mem),
         NEW p \in 0 .. w, NEW r \in p .. w,
         NEW f, IsWalk(f, mem, c, p, w), NEW g, IsWalk(g, mem, c, r, w)
  PROVE  \A q \in r .. w : f[q] = g[q]
<1> DEFINE T == {d \in Nat : \A q \in r .. w : w - q = d => f[q] = g[q]}
<1>1. ASSUME NEW d \in Nat, \A e \in 0 .. d - 1 : e \in T
      PROVE  d \in T
  <2> SUFFICES ASSUME NEW q \in r .. w, w - q = d
               PROVE  f[q] = g[q]
    OBVIOUS
  <2>1. q \in p .. w /\ q \in 0 .. w
    OBVIOUS
  <2>2. CASE Stops(mem, c, q, w)
    BY <2>1, <2>2, WalkStep
  <2>3. CASE ~Stops(mem, c, q, w)
    <3> DEFINE n == Behind(mem, c, q)
    <3>1. n \in q + 1 .. w
      BY <2>1, <2>3, WalkClimbs
    <3> HIDE DEF n
    <3>2. n \in r .. w /\ w - n \in 0 .. d - 1
      BY <3>1
    <3>3. f[n] = g[n]
      BY <1>1, <3>2
    <3> QED  BY <2>1, <2>3, <3>3, WalkStep DEF n
  <2> QED  BY <2>2, <2>3
<1>2. \A d \in Nat : d \in T
  <2> HIDE DEF T
  <2> QED  BY <1>1, StrongInduction
<1> SUFFICES ASSUME NEW q \in r .. w PROVE f[q] = g[q]
  OBVIOUS
<1>3. w - q \in Nat
  OBVIOUS
<1> QED  BY <1>2, <1>3

\* The inner loop of utf8_check, one sequence at a time.
LEMMA ProcessedStep ==
  ASSUME NEW mem \in Seq(Byte), NEW c \in Cursor, NEW w \in Nat, c.off + w <= Len(mem),
         NEW p \in 0 .. w
  PROVE  Processed(mem, c, p, w) =
           IF Stops(mem, c, p, w) THEN p ELSE Processed(mem, c, Behind(mem, c, p), w)
<1>1. PICK f : IsWalk(f, mem, c, p, w) /\ Processed(mem, c, p, w) = f[p]
  BY WalkDefined
<1>2. f[p] = IF Stops(mem, c, p, w) THEN p ELSE f[Behind(mem, c, p)]
  BY <1>1, WalkStep
<1>3. CASE Stops(mem, c, p, w)
  BY <1>1, <1>2, <1>3
<1>4. CASE ~Stops(mem, c, p, w)
  <2> DEFINE n == Behind(mem, c, p)
  <2>1. n \in p + 1 .. w
    BY <1>4, WalkClimbs
  <2> HIDE DEF n
  <2>2. n \in 0 .. w /\ n \in p .. w /\ n \in n .. w
    BY <2>1
  <2>3. PICK g : IsWalk(g, mem, c, n, w) /\ Processed(mem, c, n, w) = g[n]
    BY <2>2, WalkDefined
  <2>4. f[n] = g[n]
    BY <1>1, <2>2, <2>3, WalksAgree
  <2> QED  BY <1>1, <1>2, <1>4, <2>3, <2>4 DEF n
<1> QED  BY <1>3, <1>4

\* The inner loop goes on to the first sequence at which it stops.
LEMMA ProcessedStops ==
  ASSUME NEW mem \in Seq(Byte), NEW c \in Cursor, NEW w \in Nat, c.off + w <= Len(mem),
         NEW p \in 0 .. w
  PROVE  /\ Processed(mem, c, p, w) \in p .. w
         /\ Stops(mem, c, Processed(mem, c, p, w), w)
<1> DEFINE Good(q) == /\ Processed(mem, c, q, w) \in q .. w
                      /\ Stops(mem, c, Processed(mem, c, q, w), w)
           T == {d \in Nat : \A q \in 0 .. w : w - q = d => Good(q)}
<1>1. ASSUME NEW d \in Nat, \A e \in 0 .. d - 1 : e \in T
      PROVE  d \in T
  <2> SUFFICES ASSUME NEW q \in 0 .. w, w - q = d
               PROVE  Good(q)
    OBVIOUS
  <2>1. CASE Stops(mem, c, q, w)
    <3>1. Processed(mem, c, q, w) = q
      BY <2>1, ProcessedStep
    <3> QED  BY <2>1, <3>1
  <2>2. CASE ~Stops(mem, c, q, w)
    <3> DEFINE n == Behind(mem, c, q)
    <3>1. n \in q + 1 .. w
      BY <2>2, WalkClimbs
    <3>2. Processed(mem, c, q, w) = Processed(mem, c, n, w)
      BY <2>2, ProcessedStep
    <3> HIDE DEF n
    <3>3. n \in 0 .. w /\ w - n \in 0 .. d - 1
      BY <3>1
    <3>4. Good(n)
      <4> HIDE DEF Good
      <4> QED  BY <1>1, <3>3
    <3> QED  BY <3>1, <3>2, <3>4
  <2> QED  BY <2>1, <2>2
<1>2. \A d \in Nat : d \in T
  <2> HIDE DEF T
  <2> QED  BY <1>1, StrongInduction
<1>3. w - p \in Nat
  OBVIOUS
<1>4. Good(p)
  <2> HIDE DEF Good
  <2> QED  BY <1>2, <1>3
<1> QED  BY <1>4
-----------------------------------------------------------------------------
(* The outer loop of utf8_check. *)

Verdicts == {"ok", "panic", "malformed"}

BufferWalk(mem, c, p) == Processed(mem, c, p, BufferEnd(c, p))

ReadsPast(mem, c, p) == c.off + BufferEnd(c, p) > TotalSize(mem)

\* A round that begins at byte p ends utf8_check.
Rejects(mem, c, p) ==
  \/ Malformed(mem, c, BufferWalk(mem, c, p), BufferEnd(c, p))
  \/ BufferWalk(mem, c, p) = p

\* What utf8_check answers when its next round begins at byte p.
ResultFrom(mem, c, p) ==
  LET round[x \in 0 .. c.size] ==
        LET w == BufferEnd(c, x)
            q == Processed(mem, c, x, w)
        IN  IF x = c.size THEN "ok"
            ELSE IF c.off + w > TotalSize(mem) THEN "panic"
            ELSE IF Malformed(mem, c, q, w) \/ q = x THEN "malformed"
            ELSE round[q]
  IN  round[p]

RoundOf(mem, c, x, g) ==
  IF x = c.size THEN "ok"
  ELSE IF ReadsPast(mem, c, x) THEN "panic"
  ELSE IF Rejects(mem, c, x) THEN "malformed"
  ELSE g[BufferWalk(mem, c, x)]

LEMMA BufferEndType ==
  ASSUME NEW c \in Cursor, NEW p \in 0 .. c.size
  PROVE  /\ BufferEnd(c, p) \in p .. c.size
         /\ p < c.size => BufferEnd(c, p) > p
BY Utf8Assumption DEF BufferEnd, Cursor

\* The next round begins behind what the last one consumed.
LEMMA RoundClimbs ==
  ASSUME NEW mem \in Seq(Byte), NEW c \in Cursor, NEW p \in 0 .. c.size,
         ~ReadsPast(mem, c, p)
  PROVE  /\ BufferWalk(mem, c, p) \in p .. BufferEnd(c, p)
         /\ BufferWalk(mem, c, p) \in 0 .. c.size
         /\ ~Rejects(mem, c, p) => BufferWalk(mem, c, p) > p
<1> DEFINE w == BufferEnd(c, p)
<1>1. c.off \in Nat /\ c.size \in Nat
  BY DEF Cursor
<1>2. w \in p .. c.size
  BY BufferEndType
<1>3. c.off + w <= Len(mem)
  BY <1>1, <1>2 DEF ReadsPast, TotalSize
<1>4. BufferWalk(mem, c, p) \in p .. w
  <2> HIDE DEF w
  <2>1. w \in Nat /\ p \in 0 .. w
    BY <1>1, <1>2
  <2> QED  BY <1>3, <2>1, ProcessedStops DEF BufferWalk, w
<1> HIDE DEF w
<1>5. ~Rejects(mem, c, p) => BufferWalk(mem, c, p) # p
  BY DEF Rejects
<1> QED  BY <1>1, <1>2, <1>4, <1>5 DEF w

LEMMA RoundDefined ==
  ASSUME NEW mem \in Seq(Byte), NEW c \in Cursor
  PROVE  \E f \in [0 .. c.size -> Verdicts] :
           \A x \in 0 .. c.size : f[x] = RoundOf(mem, c, x, f)
<1> DEFINE D == 0 .. c.size
           m == [x \in D |-> c.size - x]
           F == [x \in D |-> [g \in [D -> Verdicts] |-> RoundOf(mem, c, x, g)]]
<1>0. c.size \in Nat
  BY DEF Cursor
<1>1. m \in [D -> 0 .. c.size]
  <2>1. \A x \in D : c.size - x \in 0 .. c.size
    BY <1>0
  <2> HIDE DEF D
  <2> QED  BY <2>1
<1>2. \A x \in D : \A g \in [D -> Verdicts] : RoundOf(mem, c, x, g) \in Verdicts
  <2> SUFFICES ASSUME NEW x \in D, NEW g \in [D -> Verdicts], ~ReadsPast(mem, c, x)
               PROVE  g[BufferWalk(mem, c, x)] \in Verdicts
    BY DEF RoundOf, Verdicts
  <2>1. BufferWalk(mem, c, x) \in D
    BY RoundClimbs
  <2> QED  BY <2>1
<1>3. F \in [D -> [[D -> Verdicts] -> Verdicts]]
  <2> HIDE DEF D
  <2> QED  BY <1>2
<1>4. \A x \in D : \A g, h \in [D -> Verdicts] :
        (\A y \in D : m[y] < m[x] => g[y] = h[y]) => F[x][g] = F[x][h]
  <2> SUFFICES ASSUME NEW x \in D, NEW g \in [D -> Verdicts], NEW h \in [D -> Verdicts],
                      \A y \in D : m[y] < m[x] => g[y] = h[y]
               PROVE  RoundOf(mem, c, x, g) = RoundOf(mem, c, x, h)
    <3> HIDE DEF D, m
    <3> QED  OBVIOUS
  <2>1. CASE ReadsPast(mem, c, x) \/ Rejects(mem, c, x)
    BY <2>1 DEF RoundOf
  <2>2. CASE ~ReadsPast(mem, c, x) /\ ~Rejects(mem, c, x)
    <3> DEFINE q == BufferWalk(mem, c, x)
    <3>1. q \in D /\ q > x
      BY <2>2, RoundClimbs
    <3> HIDE DEF q
    <3>2. m[q] < m[x]
      BY <1>0, <3>1
    <3> HIDE DEF m, D
    <3> QED  BY <3>1, <3>2 DEF RoundOf, q
  <2> QED  BY <2>1, <2>2
<1>5. Grounded(D, Verdicts, c.size, m, F)
  <2>1. Verdicts # {}
    BY DEF Verdicts
  <2> HIDE DEF D, m, F
  <2> QED  BY <1>0, <1>1, <1>3, <1>4, <2>1 DEF Grounded
<1>6. PICK f \in [D -> Verdicts] : \A x \in D : f[x] = F[x][f]
  <2> HIDE DEF D, m, F
  <2> QED  BY <1>5, RecursionDefined DEF Defines
<1>7. \A x \in D : f[x] = RoundOf(mem, c, x, f)
  <2> HIDE DEF D
  <2> QED  BY <1>6
<1> QED  BY <1>6, <1>7

\* utf8_check, one buffer at a time.
LEMMA ResultStep ==
  ASSUME NEW mem \in Seq(Byte), NEW c \in Cursor, NEW p \in 0 .. c.size
  PROVE  ResultFrom(mem, c, p) =
           IF p = c.size THEN "ok"
           ELSE IF ReadsPast(mem, c, p) THEN "panic"
           ELSE IF Rejects(mem, c, p) THEN "malformed"
           ELSE ResultFrom(mem, c, BufferWalk(mem, c, p))
<1> DEFINE round[x \in 0 .. c.size] ==
        LET w == BufferEnd(c, x)
            q == Processed(mem, c, x, w)
        IN  IF x = c.size THEN "ok"
            ELSE IF c.off + w > TotalSize(mem) THEN "panic"
            ELSE IF Malformed(mem, c, q, w) \/ q = x THEN "malformed"
            ELSE round[q]
<1> DEFINE body(g, x) ==
        LET w == BufferEnd(c, x)
            q == Processed(mem, c, x, w)
        IN  IF x = c.size THEN "ok"
            ELSE IF c.off + w > TotalSize(mem) THEN "panic"
            ELSE IF Malformed(mem, c, q, w) \/ q = x THEN "malformed"
            ELSE g[q]
<1>1. \A g, x : body(g, x) = RoundOf(mem, c, x, g)
  BY DEF RoundOf, ReadsPast, Rejects, BufferWalk
<1>2. PICK f \in [0 .. c.size -> Verdicts] :
        \A x \in 0 .. c.size : f[x] = RoundOf(mem, c, x, f)
  BY RoundDefined
<1>3. f = [x \in 0 .. c.size |-> body(f, x)]
  <2> HIDE DEF body
  <2> QED  BY <1>1, <1>2
<1>4. round = [x \in 0 .. c.size |-> body(round, x)]
  BY <1>3
<1>5. \A x : ResultFrom(mem, c, x) = round[x]
  BY DEF ResultFrom
<1> HIDE DEF round, body
<1>6. round[p] = RoundOf(mem, c, p, round)
  BY <1>1, <1>4
<1> QED  BY <1>5, <1>6 DEF RoundOf

\* Nothing is read behind the end of the block when the cursor is inside it.
LEMMA InsideNeverPastEnd ==
  ASSUME NEW mem \in Seq(Byte), NEW c \in Cursor, Validates(mem, c), NEW p \in 0 .. c.size
  PROVE  ~ReadsPast(mem, c, p)
<1>1. c.off \in Nat /\ c.size \in Nat
  BY DEF Cursor
<1>2. BufferEnd(c, p) \in p .. c.size
  BY BufferEndType
<1> QED  BY <1>1, <1>2 DEF Validates, ReadsPast, TotalSize

(***************************************************************************)
(* utf8_check returns for every content that lies in its block, whatever   *)
(* the bytes and the buffer's length are: it neither ends the process nor  *)
(* walks on for ever.                                                      *)
(***************************************************************************)
THEOREM CheckReturns ==
  ASSUME NEW mem \in Seq(Byte), NEW c \in Cursor, Validates(mem, c)
  PROVE  Utf8Result(mem, c) \in {"ok", "malformed"}
<1> DEFINE T == {d \in Nat : \A p \in 0 .. c.size :
                    c.size - p = d => ResultFrom(mem, c, p) \in {"ok", "malformed"}}
<1>0. c.size \in Nat
  BY DEF Cursor
<1>1. ASSUME NEW d \in Nat, \A e \in 0 .. d - 1 : e \in T
      PROVE  d \in T
  <2> SUFFICES ASSUME NEW p \in 0 .. c.size, c.size - p = d
               PROVE  ResultFrom(mem, c, p) \in {"ok", "malformed"}
    OBVIOUS
  <2>1. ~ReadsPast(mem, c, p)
    BY InsideNeverPastEnd
  <2>2. CASE p = c.size \/ Rejects(mem, c, p)
    BY <2>1, <2>2, ResultStep
  <2>3. CASE p # c.size /\ ~Rejects(mem, c, p)
    <3> DEFINE q == BufferWalk(mem, c, p)
    <3>1. q \in 0 .. c.size /\ q > p
      BY <2>1, <2>3, RoundClimbs
    <3>2. ResultFrom(mem, c, p) = ResultFrom(mem, c, q)
      BY <2>1, <2>3, ResultStep
    <3> HIDE DEF q
    <3>3. c.size - q \in 0 .. d - 1
      BY <1>0, <3>1
    <3> QED  BY <1>1, <3>1, <3>2, <3>3
  <2> QED  BY <2>2, <2>3
<1>2. \A d \in Nat : d \in T
  <2> HIDE DEF T
  <2> QED  BY <1>1, StrongInduction
<1>3. 0 \in 0 .. c.size /\ c.size - 0 \in Nat
  BY <1>0
<1>4. ResultFrom(mem, c, 0) \in {"ok", "malformed"}
  BY <1>2, <1>3
<1> QED  BY <1>4 DEF ResultFrom, Utf8Result
-----------------------------------------------------------------------------
(* What is behind the block makes no difference inside it. *)

Continues(ext, mem) ==
  Len(mem) <= Len(ext) /\ \A o \in 0 .. Len(mem) - 1 : ByteAt(ext, o) = ByteAt(mem, o)

LEMMA StopsSame ==
  ASSUME NEW mem \in Seq(Byte), NEW ext \in Seq(Byte), Continues(ext, mem),
         NEW c \in Cursor, NEW w \in Nat, c.off + w <= Len(mem), NEW q \in 0 .. w
  PROVE  /\ Malformed(ext, c, q, w) <=> Malformed(mem, c, q, w)
         /\ Stops(ext, c, q, w) <=> Stops(mem, c, q, w)
         /\ q < w => Behind(ext, c, q) = Behind(mem, c, q)
<1>1. c.off \in Nat /\ Len(mem) \in Nat
  BY DEF Cursor
<1>2. CASE q = w
  BY <1>2 DEF Malformed, Stops, Complete
<1>3. CASE q < w
  <2> DEFINE n == SeqLen(ByteAt(mem, c.off + q))
             Here(m) == [k \in 1 .. n |-> ByteAt(m, c.off + q + k - 1)]
  <2>1. ByteAt(ext, c.off + q) = ByteAt(mem, c.off + q)
    <3>1. c.off + q \in 0 .. Len(mem) - 1
      BY <1>1, <1>3
    <3> QED  BY <3>1 DEF Continues
  <2>2. n \in 0 .. Utf8BufLen
    <3>1. c.off + q \in Nat /\ c.off + q < Len(mem)
      BY <1>1, <1>3
    <3> QED  BY <3>1, Announces
  <2>3. q + n <= w => Here(ext) = Here(mem)
    <3> SUFFICES ASSUME q + n <= w, NEW k \in 1 .. n
                 PROVE  ByteAt(ext, c.off + q + k - 1) = ByteAt(mem, c.off + q + k - 1)
      OBVIOUS
    <3> HIDE DEF n
    <3>1. n \in Nat
      BY <2>2, Utf8Assumption
    <3>2. c.off + q + k - 1 \in 0 .. Len(mem) - 1
      BY <1>1, <3>1
    <3> QED  BY <3>2 DEF Continues
  <2>4. \A m \in {mem, ext} :
          /\ SeqLen(ByteAt(m, c.off + q)) = n
          /\ Malformed(m, c, q, w) <=> (n = 0 \/ (n > 1 /\ q + n <= w /\ ~Legal(Here(m))))
          /\ Complete(m, c, q, w) <=> (n # 0 /\ q + n <= w)
          /\ Behind(m, c, q) = q + n
    BY <1>3, <2>1 DEF Malformed, Complete, Behind
  <2> HIDE DEF n, Here
  <2>5. Malformed(ext, c, q, w) <=> Malformed(mem, c, q, w)
    BY <2>3, <2>4
  <2>6. Stops(ext, c, q, w) <=> Stops(mem, c, q, w)
    BY <2>4, <2>5 DEF Stops
  <2> QED  BY <2>4, <2>5, <2>6
<1> QED  BY <1>2, <1>3

LEMMA ProcessedSame ==
  ASSUME NEW mem \in Seq(Byte), NEW ext \in Seq(Byte), Continues(ext, mem),
         NEW c \in Cursor, NEW w \in Nat, c.off + w <= Len(mem), NEW p \in 0 .. w
  PROVE  Processed(ext, c, p, w) = Processed(mem, c, p, w)
<1> DEFINE Same(q) == Processed(ext, c, q, w) = Processed(mem, c, q, w)
           T == {d \in Nat : \A q \in 0 .. w : w - q = d => Same(q)}
<1>0. c.off + w <= Len(ext) /\ c.off \in Nat
  BY DEF Continues, Cursor
<1>1. ASSUME NEW d \in Nat, \A e \in 0 .. d - 1 : e \in T
      PROVE  d \in T
  <2> SUFFICES ASSUME NEW q \in 0 .. w, w - q = d
               PROVE  Same(q)
    OBVIOUS
  <2>0. Stops(ext, c, q, w) <=> Stops(mem, c, q, w)
    BY StopsSame
  <2>1. CASE Stops(mem, c, q, w)
    <3>1. Processed(mem, c, q, w) = q
      BY <2>1, ProcessedStep
    <3>2. Processed(ext, c, q, w) = q
      BY <1>0, <2>0, <2>1, ProcessedStep
    <3> QED  BY <3>1, <3>2
  <2>2. CASE ~Stops(mem, c, q, w)
    <3> DEFINE n == Behind(mem, c, q)
    <3>1. n \in q + 1 .. w
      BY <2>2, WalkClimbs
    <3>2. Processed(mem, c, q, w) = Processed(mem, c, n, w)
      BY <2>2, ProcessedStep
    <3>3. q < w
      BY <2>2 DEF Stops, Complete
    <3>4. Behind(ext, c, q) = n
      BY <3>3, StopsSame
    <3>5. Processed(ext, c, q, w) = Processed(ext, c, n, w)
      BY <1>0, <2>0, <2>2, <3>4, ProcessedStep
    <3> HIDE DEF n
    <3>6. n \in 0 .. w /\ w - n \in 0 .. d - 1
      BY <3>1
    <3>7. Same(n)
      <4> HIDE DEF Same
      <4> QED  BY <1>1, <3>6
    <3> QED  BY <3>2, <3>5, <3>7
  <2> QED  BY <2>1, <2>2
<1>2. \A d \in Nat : d \in T
  <2> HIDE DEF T
  <2> QED  BY <1>1, StrongInduction
<1>3. w - p \in Nat
  OBVIOUS
<1>4. Same(p)
  <2> HIDE DEF Same
  <2> QED  BY <1>2, <1>3
<1> QED  BY <1>4
-----------------------------------------------------------------------------
(* The offsets of what is output, one buffer at a time. *)

EchoFrom(mem, c, p) ==
  LET round[x \in 0 .. c.size] ==
        LET w == BufferEnd(c, x)
            q == Processed(mem, c, x, w)
        IN  IF x = c.size \/ q = x THEN <<>>
            ELSE Offsets([off |-> c.off + x, size |-> w - x]) \o round[q]
  IN  round[p]

\* The offsets of the buffer that begins at byte p.
BufferOffsets(c, p) == Offsets([off |-> c.off + p, size |-> BufferEnd(c, p) - p])

EchoOf(mem, c, x, g) ==
  IF x = c.size \/ BufferWalk(mem, c, x) = x THEN <<>>
  ELSE BufferOffsets(c, x) \o g[BufferWalk(mem, c, x)]

LEMMA BufferOffsetsType ==
  ASSUME NEW c \in Cursor, NEW p \in 0 .. c.size
  PROVE  /\ BufferOffsets(c, p) \in Seq(Nat)
         /\ Len(BufferOffsets(c, p)) = BufferEnd(c, p) - p
         /\ \A n \in 1 .. BufferEnd(c, p) - p : BufferOffsets(c, p)[n] = c.off + p + n - 1
<1> DEFINE w == BufferEnd(c, p)
<1>1. c.off \in Nat /\ c.size \in Nat
  BY DEF Cursor
<1>2. w \in p .. c.size
  BY BufferEndType
<1> HIDE DEF w
<1>3. w - p \in Nat
  BY <1>1, <1>2
<1>4. BufferOffsets(c, p) = [n \in 1 .. w - p |-> c.off + p + n - 1]
  BY DEF BufferOffsets, Offsets, w
<1>5. \A n \in 1 .. w - p : c.off + p + n - 1 \in Nat
  BY <1>1
<1> HIDE DEF BufferOffsets
<1>6. BufferOffsets(c, p) \in Seq(Nat) /\ Len(BufferOffsets(c, p)) = w - p
  BY <1>3, <1>4, <1>5
<1> QED  BY <1>4, <1>6 DEF w

\* Where the whole window lies in the memory, a round stays in the window.
LEMMA InsideClimbs ==
  ASSUME NEW mem \in Seq(Byte), NEW c \in Cursor, Validates(mem, c), NEW p \in 0 .. c.size
  PROVE  BufferWalk(mem, c, p) \in p .. c.size
<1>1. ~ReadsPast(mem, c, p)
  BY InsideNeverPastEnd
<1>2. BufferWalk(mem, c, p) \in p .. BufferEnd(c, p) /\ BufferEnd(c, p) \in p .. c.size
  BY <1>1, RoundClimbs, BufferEndType
<1>3. c.size \in Nat
  BY DEF Cursor
<1> QED  BY <1>2, <1>3

LEMMA EchoDefined ==
  ASSUME NEW mem \in Seq(Byte), NEW c \in Cursor, Validates(mem, c)
  PROVE  \E f \in [0 .. c.size -> Seq(Nat)] :
           \A x \in 0 .. c.size : f[x] = EchoOf(mem, c, x, f)
<1> DEFINE D == 0 .. c.size
           V == Seq(Nat)
           m == [x \in D |-> c.size - x]
           F == [x \in D |-> [g \in [D -> V] |-> EchoOf(mem, c, x, g)]]
<1>0. c.size \in Nat
  BY DEF Cursor
<1>1. m \in [D -> 0 .. c.size]
  <2>1. \A x \in D : c.size - x \in 0 .. c.size
    BY <1>0
  <2> HIDE DEF D
  <2> QED  BY <2>1
<1>2. \A x \in D : \A g \in [D -> V] : EchoOf(mem, c, x, g) \in V
  <2> SUFFICES ASSUME NEW x \in D, NEW g \in [D -> V]
               PROVE  EchoOf(mem, c, x, g) \in V
    OBVIOUS
  <2>1. BufferWalk(mem, c, x) \in D
    BY <1>0, InsideClimbs
  <2>2. g[BufferWalk(mem, c, x)] \in V /\ BufferOffsets(c, x) \in V
    BY <2>1, BufferOffsetsType
  <2>3. BufferOffsets(c, x) \o g[BufferWalk(mem, c, x)] \in V
    BY <2>2
  <2> QED  BY <2>3 DEF EchoOf
<1>3. F \in [D -> [[D -> V] -> V]]
  <2> HIDE DEF D, V
  <2> QED  BY <1>2
<1>4. \A x \in D : \A g, h \in [D -> V] :
        (\A y \in D : m[y] < m[x] => g[y] = h[y]) => F[x][g] = F[x][h]
  <2> SUFFICES ASSUME NEW x \in D, NEW g \in [D -> V], NEW h \in [D -> V],
                      \A y \in D : m[y] < m[x] => g[y] = h[y]
               PROVE  EchoOf(mem, c, x, g) = EchoOf(mem, c, x, h)
    <3> HIDE DEF D, m, V
    <3> QED  OBVIOUS
  <2> DEFINE q == BufferWalk(mem, c, x)
  <2>1. q \in x .. c.size
    BY InsideClimbs
  <2>2. CASE q = x
    BY <2>2 DEF EchoOf
  <2>3. CASE q # x
    <3> HIDE DEF q
    <3>1. q \in D /\ m[q] < m[x]
      BY <1>0, <2>1, <2>3
    <3> HIDE DEF m, D
    <3> QED  BY <3>1 DEF EchoOf, q
  <2> QED  BY <2>2, <2>3
<1>5. Grounded(D, V, c.size, m, F)
  <2>1. V # {}
    <3>1. <<>> \in V
      OBVIOUS
    <3> QED  BY <3>1
  <2> HIDE DEF D, m, F, V
  <2> QED  BY <1>0, <1>1, <1>3, <1>4, <2>1 DEF Grounded
<1>6. PICK f \in [D -> V] : \A x \in D : f[x] = F[x][f]
  <2> HIDE DEF D, m, F, V
  <2> QED  BY <1>5, RecursionDefined DEF Defines
<1>7. \A x \in D : f[x] = EchoOf(mem, c, x, f)
  <2> HIDE DEF D, V
  <2> QED  BY <1>6
<1> QED  BY <1>6, <1>7

LEMMA EchoStep ==
  ASSUME NEW mem \in Seq(Byte), NEW c \in Cursor, Validates(mem, c), NEW p \in 0 .. c.size
  PROVE  EchoFrom(mem, c, p) =
           IF p = c.size \/ BufferWalk(mem, c, p) = p THEN <<>>
           ELSE BufferOffsets(c, p) \o EchoFrom(mem, c, BufferWalk(mem, c, p))
<1> DEFINE round[x \in 0 .. c.size] ==
        LET w == BufferEnd(c, x)
            q == Processed(mem, c, x, w)
        IN  IF x = c.size \/ q = x THEN <<>>
            ELSE Offsets([off |-> c.off + x, size |-> w - x]) \o round[q]
<1> DEFINE body(g, x) ==
        LET w == BufferEnd(c, x)
            q == Processed(mem, c, x, w)
        IN  IF x = c.size \/ q = x THEN <<>>
            ELSE Offsets([off |-> c.off + x, size |-> w - x]) \o g[q]
<1>1. \A g, x : body(g, x) = EchoOf(mem, c, x, g)
  BY DEF EchoOf, BufferWalk, BufferOffsets
<1>2. PICK f \in [0 .. c.size -> Seq(Nat)] :
        \A x \in 0 .. c.size : f[x] = EchoOf(mem, c, x, f)
  BY EchoDefined
<1>3. f = [x \in 0 .. c.size |-> body(f, x)]
  <2> HIDE DEF body
  <2> QED  BY <1>1, <1>2
<1>4. round = [x \in 0 .. c.size |-> body(round, x)]
  BY <1>3
<1>5. \A x : EchoFrom(mem, c, x) = round[x]
  BY DEF EchoFrom
<1> HIDE DEF round, body
<1>6. round[p] = EchoOf(mem, c, p, round)
  BY <1>1, <1>4
<1> QED  BY <1>5, <1>6 DEF EchoOf

LEMMA EchoType ==
  ASSUME NEW mem \in Seq(Byte), NEW c \in Cursor, Validates(mem, c), NEW p \in 0 .. c.size
  PROVE  EchoFrom(mem, c, p) \in Seq(Nat)
<1> DEFINE T == {d \in Nat : \A x \in 0 .. c.size :
                    c.size - x = d => EchoFrom(mem, c, x) \in Seq(Nat)}
<1>0. c.size \in Nat
  BY DEF Cursor
<1>1. ASSUME NEW d \in Nat, \A e \in 0 .. d - 1 : e \in T
      PROVE  d \in T
  <2> SUFFICES ASSUME NEW x \in 0 .. c.size, c.size - x = d
               PROVE  EchoFrom(mem, c, x) \in Seq(Nat)
    OBVIOUS
  <2> DEFINE q == BufferWalk(mem, c, x)
  <2>1. q \in x .. c.size
    BY InsideClimbs
  <2>2. CASE x = c.size \/ q = x
    <3>1. EchoFrom(mem, c, x) = <<>>
      BY <2>2, EchoStep
    <3> QED  BY <3>1
  <2>3. CASE ~(x = c.size \/ q = x)
    <3>1. EchoFrom(mem, c, x) = BufferOffsets(c, x) \o EchoFrom(mem, c, q)
      BY <2>3, EchoStep
    <3> HIDE DEF q
    <3>2. q \in 0 .. c.size /\ c.size - q \in 0 .. d - 1
      BY <1>0, <2>1, <2>3
    <3>3. EchoFrom(mem, c, q) \in Seq(Nat) /\ BufferOffsets(c, x) \in Seq(Nat)
      BY <1>1, <3>2, BufferOffsetsType
    <3> QED  BY <3>1, <3>3
  <2> QED  BY <2>2, <2>3
<1>2. \A d \in Nat : d \in T
  <2> HIDE DEF T
  <2> QED  BY <1>1, StrongInduction
<1>3. c.size - p \in Nat
  BY <1>0
<1> QED  BY <1>2, <1>3
=============================================================================
