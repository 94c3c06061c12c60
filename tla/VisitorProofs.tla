--------------------------- MODULE VisitorProofs ----------------------------
(***************************************************************************)
(* Invariants of the visitor for every schema and every input, and that    *)
(* mdp_visit returns MDP_OK only for data the encoding rules accept.       *)
(***************************************************************************)
EXTENDS MoleculeFormat, Utf8Proofs, SequenceTheorems, TLAPS

-----------------------------------------------------------------------------
(* Numbers. *)

\* The radix makes WordMod a positive number.
LEMMA WordModPositive == WordMod \in Nat /\ WordMod > 0
<1>1. Base * Base \in Nat /\ Base * Base > 0
  BY BaseAssumption, SMT
<1>2. \A a, b \in Nat : a > 0 /\ b > 0 => a * b \in Nat /\ a * b > 0
  BY SMT
<1>3. Base * Base * Base \in Nat /\ Base * Base * Base > 0
  BY <1>1, <1>2, BaseAssumption
<1> QED BY <1>2, <1>3, BaseAssumption DEF WordMod

\* A 32-bit result is a number.
LEMMA Wraps == ASSUME NEW a \in Nat PROVE a % WordMod \in Nat
<1>1. \A b \in Nat : b > 0 => a % b \in Nat
  BY SMT
<1> QED BY <1>1, WordModPositive

\* A word found inside the block is a number (mol2_unpack_number).
LEMMA WordIsNat ==
  ASSUME NEW mem \in Seq(Byte), NEW o \in Nat, HasWord(mem, o)
  PROVE  WordAt(mem, o) \in Nat
<1> DEFINE B(k) == ByteAt(mem, o + k)
<1>1. \A k \in 0 .. 3 : ByteAt(mem, o + k) \in Nat
  BY BaseAssumption DEF HasWord, ByteAt, TotalSize, NumSize, Byte
<1>2. \A a, b \in Nat : a * b \in Nat
  BY SMT
<1>3. \A a, b \in Nat : a + Base * b \in Nat
  BY <1>2, BaseAssumption
<1>4. ByteAt(mem, o) \in Nat /\ ByteAt(mem, o + 1) \in Nat
      /\ ByteAt(mem, o + 2) \in Nat /\ ByteAt(mem, o + 3) \in Nat
  <2>1. o + 0 = o
    OBVIOUS
  <2> QED BY <1>1, <2>1
<1>5. ByteAt(mem, o + 2) + Base * ByteAt(mem, o + 3) \in Nat
  BY <1>3, <1>4
<1>6. ByteAt(mem, o + 1)
        + Base * (ByteAt(mem, o + 2) + Base * ByteAt(mem, o + 3)) \in Nat
  BY <1>3, <1>4, <1>5
<1> QED BY <1>3, <1>4, <1>6 DEF WordAt
-----------------------------------------------------------------------------
(* The schema. *)

\* A definition that is found is one of the schema's.
LEMMA DefIndexFound ==
  ASSUME NEW typ, DefIndex(typ) # 0
  PROVE  /\ DefIndex(typ) \in DOMAIN Defs
         /\ Defs[DefIndex(typ)] \in Definition
<1>1. DefIndex(typ) \in DOMAIN Defs
  BY DEF DefIndex
<1> QED BY <1>1, VisitorAssumption

LEMMA ElementAt ==
  ASSUME NEW S, NEW s \in Seq(S), NEW n \in DOMAIN s
  PROVE  s[n] \in S
<1>1. DOMAIN s = 1 .. Len(s)
  BY LenProperties
<1> QED BY <1>1, ElementOfSeq

\* So is a variant.
LEMMA VariantFound ==
  ASSUME NEW pairs \in Seq([typ : STRING, id : Nat]), NEW id,
         VariantIndex(pairs, id) # 0
  PROVE  pairs[VariantIndex(pairs, id)].typ \in STRING
<1>1. VariantIndex(pairs, id) \in DOMAIN pairs
  BY DEF VariantIndex
<1>2. pairs[VariantIndex(pairs, id)] \in [typ : STRING, id : Nat]
  <2> DEFINE T == [typ : STRING, id : Nat]
             n == VariantIndex(pairs, id)
  <2>1. pairs \in Seq(T) /\ n \in DOMAIN pairs
    BY <1>1
  <2> HIDE DEF T, n
  <2>2. pairs[n] \in T
    BY <2>1, ElementAt
  <2> QED BY <2>2 DEF T, n
<1> QED BY <1>2
-----------------------------------------------------------------------------
(* The stack. *)

LEMMA PushFrame ==
  ASSUME NEW f \in Frame, NEW s \in Seq(Frame)
  PROVE  /\ <<f>> \o s \in Seq(Frame)
         /\ <<f>> \o s # <<>>
         /\ Len(<<f>> \o s) = Len(s) + 1
         /\ Head(<<f>> \o s) = f
         /\ Tail(<<f>> \o s) = s
         /\ (<<f>> \o s)[1] = f
         /\ \A k \in 2 .. Len(s) + 1 : (<<f>> \o s)[k] = s[k - 1]
<1>1. /\ <<f>> \o s \in Seq(Frame)
      /\ Len(<<f>> \o s) = Len(s) + 1
      /\ (<<f>> \o s)[1] = f
      /\ \A k \in 2 .. Len(s) + 1 : (<<f>> \o s)[k] = s[k - 1]
  BY SMT
<1>2. <<f>> \o s # <<>>
  BY <1>1
<1>3. Head(<<f>> \o s) = f /\ Tail(<<f>> \o s) = s
  BY <1>1, <1>2, HeadTailProperties, SMT
<1> QED BY <1>1, <1>2, <1>3

LEMMA PopFrame ==
  ASSUME NEW s \in Seq(Frame), s # <<>>
  PROVE  /\ Head(s) \in Frame /\ Head(s) = s[1]
         /\ Tail(s) \in Seq(Frame)
         /\ Len(Tail(s)) = Len(s) - 1 /\ Len(s) > 0
         /\ \A k \in 1 .. Len(s) - 1 : Tail(s)[k] = s[k + 1]
<1>1. Len(s) \in Nat /\ Len(s) > 0
  BY EmptySeq, SMT
<1> QED BY <1>1, HeadTailProperties, SMT
-----------------------------------------------------------------------------
(***************************************************************************)
(* The inductive invariant.  What a frame remembers about its value is     *)
(* enough to read the next item's offsets inside the block, each frame is  *)
(* suspended in a call on the value of the frame above it, and the two     *)
(* cases in which the top frame is the caller are spelled out by pc.       *)
(***************************************************************************)
FrameOK(f, n) ==
  /\ f.value.off + f.value.size <= n
  /\ f.used <= f.value.size
  /\ Kind(f) \in OffsetKinds => /\ f.full <= f.value.size
                                /\ NumSize * (f.count + 1) <= f.value.size
  /\ Kind(f) \in FieldKinds => f.count = Len(Defs[f.def].fields)

Calls(f, g) == Encloses(f, g.value) /\ g.entry = f.entry + Raised(f)

\* A stack of frames over a block of n bytes.
Chain(s, n) ==
  \A k \in 1 .. Len(s) :
    /\ FrameOK(s[k], n)
    /\ k > 1 => Calls(s[k], s[k - 1])
    /\ k = Len(s) => s[k].entry = 0

BlockLen == Len(input.data)

CallInside ==
  pc \in {"start", "call"} => /\ InBlock(arg.value)
                              /\ stack # <<>> => Encloses(Top, arg.value)

TopSuspended ==
  pc \in {"call", "ret"} /\ stack # <<>> => Top.used + Top.sub <= Top.value.size

LoopHasFrame == pc = "loop" => stack # <<>> /\ Kind(Top) \notin {"option", "union"}

IndentFollows ==
  /\ pc # "panic" => indent >= ExpectedIndent
  /\ last_error = "OK" /\ pc # "panic" => indent = ExpectedIndent

Inv ==
  /\ TypeOK /\ Chain(stack, BlockLen) /\ CallInside /\ TopSuspended /\ LoopHasFrame
  /\ IndentFollows /\ SuccessMeansFed

\* A frame and its definition.
LEMMA FrameKind ==
  ASSUME NEW f \in Frame
  PROVE  /\ Defs[f.def] \in Definition /\ Kind(f) \in Kinds
         /\ f.value \in Cursor /\ f.value.off \in Nat /\ f.value.size \in Nat
         /\ f.i \in Nat /\ f.count \in Nat /\ f.used \in Nat /\ f.full \in Nat
         /\ f.sub \in Nat /\ f.entry \in Nat /\ Raised(f) \in {1, 2}
<1>1. f.def \in DOMAIN Defs
  BY DEF Frame
<1>2. Defs[f.def] \in Definition
  BY <1>1, VisitorAssumption, ElementOfSeq
<1>3. Kind(f) \in Kinds
  BY <1>2 DEF Definition, Kind
<1>4. f.value \in Cursor /\ f.i \in Nat /\ f.count \in Nat /\ f.used \in Nat
      /\ f.full \in Nat /\ f.sub \in Nat /\ f.entry \in Nat
  BY DEF Frame
<1>5. f.value.off \in Nat /\ f.value.size \in Nat
  BY <1>4 DEF Cursor
<1> QED BY <1>2, <1>3, <1>4, <1>5 DEF Raised

\* Entering a visitor keeps the chain.
LEMMA ChainPush ==
  ASSUME NEW n, NEW s \in Seq(Frame), Chain(s, n), NEW f \in Frame, FrameOK(f, n),
         IF s = <<>> THEN f.entry = 0 ELSE Calls(Head(s), f)
  PROVE  Chain(<<f>> \o s, n)
<1> DEFINE t == <<f>> \o s
<1>1. SUFFICES ASSUME NEW k \in 1 .. Len(t)
               PROVE  /\ FrameOK(t[k], n)
                      /\ k > 1 => Calls(t[k], t[k - 1])
                      /\ k = Len(t) => t[k].entry = 0
  BY DEF Chain
<1>2. Len(t) = Len(s) + 1 /\ t[1] = f /\ Len(s) \in Nat
      /\ \A j \in 2 .. Len(s) + 1 : t[j] = s[j - 1]
  BY PushFrame
<1> HIDE DEF t
<1>3. CASE k = 1
  <2>1. k = Len(t) => s = <<>>
    BY <1>2, <1>3, EmptySeq
  <2> QED BY <1>2, <1>3, <2>1
<1>4. CASE k = 2
  <2>1. s # <<>> /\ Len(s) >= 1 /\ t[2] = s[1] /\ Head(s) = s[1]
    BY <1>2, <1>4, PopFrame
  <2>2. FrameOK(s[1], n) /\ (1 = Len(s) => s[1].entry = 0)
    BY <2>1, <1>2 DEF Chain
  <2>0. k - 1 = 1
    BY <1>4
  <2>3. t[k - 1] = f /\ t[k] = s[1]
    BY <2>0, <1>4, <1>2, <2>1
  <2>4. Calls(s[1], f)
    <3>1. Calls(Head(s), f)
      BY <2>1
    <3> QED BY <3>1, <2>1
  <2>5. k = Len(t) => 1 = Len(s)
    <3>1. SUFFICES ASSUME k = Len(t) PROVE Len(s) = 1
      OBVIOUS
    <3>2. Len(s) + 1 = 2 /\ Len(s) \in Nat
      BY <1>2, <1>4, <3>1
    <3>3. \A m \in Nat : m + 1 = 2 => m = 1
      OBVIOUS
    <3> QED BY <3>2, <3>3
  <2> QED BY <2>2, <2>3, <2>4, <2>5
<1>5. CASE k > 2
  <2>1. t[k] = s[k - 1] /\ t[k - 1] = s[k - 2] /\ k - 1 \in 1 .. Len(s)
        /\ k - 1 > 1 /\ (k = Len(t) => k - 1 = Len(s))
    BY <1>2, <1>5
  <2>2. (k - 1) - 1 = k - 2
    BY <1>2
  <2>3. FrameOK(s[k - 1], n) /\ Calls(s[k - 1], s[k - 2])
        /\ (k - 1 = Len(s) => s[k - 1].entry = 0)
    BY <2>1, <2>2 DEF Chain
  <2> QED BY <2>1, <2>3
<1> QED BY <1>2, <1>3, <1>4, <1>5

\* Leaving one keeps it too, and says what the caller above was told.
LEMMA ChainPop ==
  ASSUME NEW n, NEW s \in Seq(Frame), Chain(s, n), s # <<>>
  PROVE  /\ Chain(Tail(s), n)
         /\ FrameOK(Head(s), n)
         /\ IF Tail(s) = <<>> THEN Head(s).entry = 0
                              ELSE Calls(Head(Tail(s)), Head(s))
<1> DEFINE t == Tail(s)
<1>1. /\ Head(s) = s[1] /\ t \in Seq(Frame) /\ Len(t) = Len(s) - 1 /\ Len(s) > 0
      /\ \A k \in 1 .. Len(s) - 1 : t[k] = s[k + 1]
      /\ Len(s) \in Nat
  BY PopFrame
<1> HIDE DEF t
<1>2. Chain(t, n)
  <2>1. SUFFICES ASSUME NEW k \in 1 .. Len(t)
                 PROVE  /\ FrameOK(t[k], n)
                        /\ k > 1 => Calls(t[k], t[k - 1])
                        /\ k = Len(t) => t[k].entry = 0
    BY DEF Chain
  <2>2. t[k] = s[k + 1] /\ k + 1 \in 1 .. Len(s) /\ k + 1 > 1 /\ (k + 1) - 1 = k
        /\ (k = Len(t) => k + 1 = Len(s))
    BY <1>1
  <2>3. k > 1 => t[k - 1] = s[k]
    BY <1>1
  <2>4. FrameOK(s[k + 1], n) /\ Calls(s[k + 1], s[k])
        /\ (k + 1 = Len(s) => s[k + 1].entry = 0)
    BY <2>2 DEF Chain
  <2> QED BY <2>2, <2>3, <2>4
<1>3. FrameOK(s[1], n) /\ (Len(s) = 1 => s[1].entry = 0)
  BY <1>1 DEF Chain
<1>4. t # <<>> => Head(t) = s[2] /\ 2 \in 1 .. Len(s)
  BY <1>1, PopFrame
<1>5. t # <<>> => Calls(s[2], s[1])
  <2>1. 2 > 1 /\ 2 - 1 = 1
    OBVIOUS
  <2> QED BY <1>4, <2>1 DEF Chain
<1>6. t = <<>> => Len(s) = 1
  BY <1>1
<1> QED BY <1>1, <1>2, <1>3, <1>4, <1>5, <1>6 DEF t
-----------------------------------------------------------------------------
(* The ways a visitor ends or goes on, each of which keeps the invariant. *)

\* The depth of the text, by cases.
LEMMA Depth ==
  /\ stack = <<>> => ExpectedIndent = 0
  /\ stack # <<>> /\ pc = "loop" => ExpectedIndent = Top.entry + 1
  /\ stack # <<>> /\ pc # "loop" => ExpectedIndent = Top.entry + Raised(Top)
  BY DEF ExpectedIndent

LEMMA DepthIsNat == ASSUME TypeOK PROVE ExpectedIndent \in Nat
<1>1. CASE stack = <<>>
  BY <1>1, Depth
<1>2. CASE stack # <<>>
  <2>1. Top \in Frame
    BY <1>2, PopFrame DEF TypeOK, Top
  <2>2. Top.entry \in Nat /\ Raised(Top) \in {1, 2}
    BY <2>1, FrameKind
  <2>3. ExpectedIndent \in {Top.entry + 1, Top.entry + Raised(Top)}
    BY <1>2, Depth
  <2> QED BY <2>2, <2>3
<1> QED BY <1>1, <1>2

\* A visitor refuses its value: its caller is where it was.
LEMMA RejectKeeps ==
  ASSUME Inv, pc = "call", NEW e \in Errors, NEW up \in {0, 1}, Reject(e, up),
         refused' \in BOOLEAN
  PROVE  Inv'
<1>1. /\ pc' = "ret" /\ last_error' = e /\ indent' = indent + up
      /\ input' = input /\ arg' = arg /\ stack' = stack /\ consumed' = consumed
  BY DEF Reject
<1>2. TypeOK'
  BY <1>1 DEF Inv, TypeOK
<1>3. Chain(stack, BlockLen)'
  BY <1>1 DEF Inv, BlockLen
<1>4. CallInside' /\ LoopHasFrame' /\ SuccessMeansFed'
  BY <1>1 DEF CallInside, LoopHasFrame, SuccessMeansFed, Errors
<1>5. TopSuspended'
  BY <1>1 DEF Inv, TopSuspended, Top
<1>6. IndentFollows'
  <2>1. ExpectedIndent' = ExpectedIndent
    BY <1>1 DEF ExpectedIndent, Top
  <2>2. indent >= ExpectedIndent /\ indent \in Nat
    BY DEF Inv, IndentFollows, TypeOK
  <2>3. e # "OK"
    BY DEF Errors
  <2>4. ExpectedIndent \in Nat
    BY DepthIsNat DEF Inv
  <2> QED BY <1>1, <2>1, <2>2, <2>3, <2>4 DEF IndentFollows
<1> QED BY <1>2, <1>3, <1>4, <1>5, <1>6 DEF Inv

\* A visitor accepts its value.
LEMMA AcceptKeeps ==
  ASSUME Inv, pc = "call", last_error = "OK", NEW fail, Sends(fail),
         NEW n \in Nat, NEW offsets, Accept(fail, n, offsets)
  PROVE  Inv'
<1>1. /\ pc' = "ret" /\ last_error' = After(fail) /\ consumed' = n
      /\ input' = input /\ arg' = arg /\ stack' = stack /\ indent' = indent
  BY DEF Accept
<1>2. fail \in BOOLEAN /\ refused' = (refused \/ fail) /\ refused \in BOOLEAN
  BY DEF Sends, Inv, TypeOK
<1>3. last_error' \in {"FEEDER", "OK"} /\ (last_error' = "OK" => ~fail)
  BY <1>1, <1>2 DEF After
<1>4. TypeOK'
  BY <1>1, <1>2, <1>3 DEF Inv, TypeOK, Errors
<1>5. Chain(stack, BlockLen)'
  BY <1>1 DEF Inv, BlockLen
<1>6. CallInside' /\ LoopHasFrame'
  BY <1>1 DEF CallInside, LoopHasFrame
<1>7. TopSuspended'
  BY <1>1 DEF Inv, TopSuspended, Top
<1>8. IndentFollows'
  <2>1. ExpectedIndent' = ExpectedIndent
    BY <1>1 DEF ExpectedIndent, Top
  <2>2. indent >= ExpectedIndent /\ indent = ExpectedIndent
    BY DEF Inv, IndentFollows
  <2> QED BY <1>1, <2>1, <2>2 DEF IndentFollows
<1>9. SuccessMeansFed'
  BY <1>2, <1>3 DEF Inv, SuccessMeansFed
<1> QED BY <1>4, <1>5, <1>6, <1>7, <1>8, <1>9 DEF Inv

\* Reading the value ends the process.
LEMMA PanicKeeps ==
  ASSUME Inv, last_error = "OK", NEW fail, Sends(fail), Panic(fail)
  PROVE  Inv'
<1>1. /\ pc' = "panic" /\ last_error' = After(fail) /\ indent' = indent
      /\ input' = input /\ arg' = arg /\ stack' = stack /\ consumed' = consumed
  BY DEF Panic
<1>2. fail \in BOOLEAN /\ refused' = (refused \/ fail) /\ refused \in BOOLEAN
  BY DEF Sends, Inv, TypeOK
<1>3. last_error' \in {"FEEDER", "OK"} /\ (last_error' = "OK" => ~fail)
  BY <1>1, <1>2 DEF After
<1>4. TypeOK'
  BY <1>1, <1>2, <1>3 DEF Inv, TypeOK, Errors
<1>5. Chain(stack, BlockLen)'
  BY <1>1 DEF Inv, BlockLen
<1>6. CallInside' /\ LoopHasFrame' /\ TopSuspended' /\ IndentFollows'
  BY <1>1 DEF CallInside, LoopHasFrame, TopSuspended, IndentFollows
<1>7. SuccessMeansFed'
  BY <1>2, <1>3 DEF Inv, SuccessMeansFed
<1> QED BY <1>4, <1>5, <1>6, <1>7 DEF Inv

\* What the top of the stack is once frame f is pushed on it.
LEMMA PushedTop ==
  ASSUME NEW f \in Frame, stack \in Seq(Frame), stack' = <<f>> \o stack
  PROVE  /\ stack' \in Seq(Frame) /\ stack' # <<>>
         /\ Top' = f /\ Tail(stack') = stack
BY PushFrame DEF Top

\* A new frame for the running visitor, and the chain it continues.
LEMMA NewFrame ==
  ASSUME Inv, pc = "call", last_error = "OK", DefIndex(arg.typ) # 0,
         NEW count \in Nat, NEW used \in Nat, NEW full \in Nat, NEW sub \in Nat,
         used <= arg.value.size,
         Callee.kind \in OffsetKinds =>
           /\ full <= arg.value.size
           /\ NumSize * (count + 1) <= arg.value.size,
         Callee.kind \in FieldKinds => count = Len(Callee.fields),
         NEW f,
         f = [def |-> DefIndex(arg.typ), value |-> arg.value, i |-> 0,
              count |-> count, used |-> used, full |-> full, sub |-> sub,
              entry |-> indent]
  PROVE  /\ f \in Frame /\ Kind(f) = Callee.kind
         /\ Chain(<<f>> \o stack, BlockLen)
<1>1. DefIndex(arg.typ) \in DOMAIN Defs
  BY DefIndexFound
<1>2. arg.value \in Cursor /\ indent \in Nat /\ stack \in Seq(Frame)
  BY DEF Inv, TypeOK
<1>3. f \in Frame
  BY <1>1, <1>2 DEF Frame
<1>4. Kind(f) = Callee.kind /\ f.def = DefIndex(arg.typ)
  BY DEF Kind, Callee
<1>5. FrameOK(f, BlockLen)
  <2>1. f.value.off + f.value.size <= BlockLen
    BY DEF Inv, CallInside, InBlock, BlockLen, TotalSize
  <2> QED BY <2>1, <1>4 DEF FrameOK, Callee
<1>6. IF stack = <<>> THEN f.entry = 0 ELSE Calls(Head(stack), f)
  <2>1. indent = ExpectedIndent
    BY DEF Inv, IndentFollows
  <2>2. stack # <<>> => Encloses(Head(stack), f.value)
    BY DEF Inv, CallInside, Top
  <2>3. f.entry = ExpectedIndent
    BY <2>1
  <2>4. stack # <<>> => f.entry = Head(stack).entry + Raised(Head(stack))
    BY <2>3, Depth DEF Top
  <2> QED BY <2>2, <2>3, <2>4, Depth DEF Calls
<1> QED BY <1>2, <1>3, <1>4, <1>5, <1>6, ChainPush DEF Inv

\* A visitor enters its item loop.
LEMMA EnterKeeps ==
  ASSUME Inv, pc = "call", last_error = "OK", DefIndex(arg.typ) # 0,
         Callee.kind \notin {"option", "union"},
         NEW fail, Sends(fail),
         NEW count \in Nat, NEW used \in Nat, NEW full \in Nat,
         used <= arg.value.size,
         Callee.kind \in OffsetKinds =>
           /\ full <= arg.value.size
           /\ NumSize * (count + 1) <= arg.value.size,
         Callee.kind \in FieldKinds => count = Len(Callee.fields),
         Enter(fail, count, used, full)
  PROVE  Inv'
<1> DEFINE f == [def |-> DefIndex(arg.typ), value |-> arg.value, i |-> 0,
                 count |-> count, used |-> used, full |-> full, sub |-> 0,
                 entry |-> indent]
<1>1. /\ pc' = "loop" /\ last_error' = After(fail) /\ indent' = indent + 1
      /\ stack' = <<f>> \o stack
      /\ input' = input /\ arg' = arg /\ consumed' = consumed
  BY DEF Enter
<1>2. fail \in BOOLEAN /\ refused' = (refused \/ fail) /\ refused \in BOOLEAN
  BY DEF Sends, Inv, TypeOK
<1>3. last_error' \in {"FEEDER", "OK"} /\ (last_error' = "OK" => ~fail)
  BY <1>1, <1>2 DEF After
<1>4. f \in Frame /\ Kind(f) = Callee.kind /\ Chain(<<f>> \o stack, BlockLen)
  BY NewFrame
<1>5. f.entry = indent
  OBVIOUS
<1> HIDE DEF f
<1>6. stack' \in Seq(Frame) /\ stack' # <<>> /\ Top' = f
  BY <1>1, <1>4, PushedTop DEF Inv, TypeOK
<1>7. TypeOK'
  BY <1>1, <1>2, <1>3, <1>6 DEF Inv, TypeOK, Errors
<1>8. Chain(stack, BlockLen)'
  BY <1>1, <1>4 DEF BlockLen
<1>9. CallInside' /\ TopSuspended'
  BY <1>1 DEF CallInside, TopSuspended
<1>10. LoopHasFrame'
  <2>1. Kind(Top') \notin {"option", "union"}
    BY <1>4, <1>6
  <2> QED BY <1>6, <2>1 DEF LoopHasFrame, Kind
<1>11. IndentFollows'
  <2>1. ExpectedIndent' = Top'.entry + 1
    BY <1>1, <1>6 DEF ExpectedIndent
  <2>2. indent' = ExpectedIndent' /\ indent \in Nat
    BY <1>1, <1>5, <1>6, <2>1 DEF Inv, TypeOK
  <2> QED BY <1>1, <2>2 DEF IndentFollows
<1>12. SuccessMeansFed'
  BY <1>2, <1>3 DEF Inv, SuccessMeansFed
<1> QED BY <1>7, <1>8, <1>9, <1>10, <1>11, <1>12 DEF Inv

\* A visitor makes its only call.
LEMMA DescendKeeps ==
  ASSUME Inv, pc = "call", last_error = "OK", DefIndex(arg.typ) # 0,
         Callee.kind \in {"option", "union"},
         NEW fail, Sends(fail),
         NEW used \in Nat, used <= arg.value.size, NEW typ \in STRING,
         Descend(fail, used, typ)
  PROVE  Inv'
<1> DEFINE f == [def |-> DefIndex(arg.typ), value |-> arg.value, i |-> 0,
                 count |-> 1, used |-> used, full |-> 0,
                 sub |-> arg.value.size - used, entry |-> indent]
           c == Advance(arg.value, used)
<1>1. /\ pc' = "call" /\ last_error' = After(fail) /\ indent' = indent + 1
      /\ arg' = [value |-> c, typ |-> typ] /\ stack' = <<f>> \o stack
      /\ input' = input /\ consumed' = consumed
  BY DEF Descend
<1>2. fail \in BOOLEAN /\ refused' = (refused \/ fail) /\ refused \in BOOLEAN
  BY DEF Sends, Inv, TypeOK
<1>3. last_error' \in {"FEEDER", "OK"} /\ (last_error' = "OK" => ~fail)
  BY <1>1, <1>2 DEF After
<1>4. arg.value.off \in Nat /\ arg.value.size \in Nat
  BY DEF Inv, TypeOK, Cursor
<1>5. f \in Frame /\ Kind(f) = Callee.kind /\ Chain(<<f>> \o stack, BlockLen)
  <2>1. arg.value.size - used \in Nat
    BY <1>4
  <2>2. Callee.kind \notin OffsetKinds /\ Callee.kind \notin FieldKinds
    BY DEF OffsetKinds, FieldKinds
  <2> QED BY <2>1, <2>2, NewFrame
<1>6. c \in Cursor /\ c.off + c.size = arg.value.off + arg.value.size
  BY <1>4 DEF Advance, Cursor
<1>7. Encloses(f, c) /\ f.used + f.sub <= f.value.size /\ f.entry = indent
  BY <1>4 DEF Encloses, Advance
<1>8. InBlock(c)
  BY <1>6 DEF Inv, CallInside, InBlock
<1>9. Raised(f) = 1
  BY <1>5 DEF Raised, FieldKinds
<1> HIDE DEF f, c
<1>10. stack' \in Seq(Frame) /\ stack' # <<>> /\ Top' = f
  BY <1>1, <1>5, PushedTop DEF Inv, TypeOK
<1>11. TypeOK'
  BY <1>1, <1>2, <1>3, <1>6, <1>10 DEF Inv, TypeOK, Errors
<1>12. Chain(stack, BlockLen)'
  BY <1>1, <1>5 DEF BlockLen
<1>13. CallInside'
  BY <1>1, <1>7, <1>8, <1>10 DEF CallInside, InBlock
<1>14. TopSuspended' /\ LoopHasFrame'
  BY <1>1, <1>7, <1>10 DEF TopSuspended, LoopHasFrame
<1>15. IndentFollows'
  <2>1. ExpectedIndent' = f.entry + 1
    BY <1>1, <1>9, <1>10 DEF ExpectedIndent, Raised, Kind
  <2>2. indent' = ExpectedIndent' /\ indent \in Nat
    BY <1>1, <1>7, <2>1 DEF Inv, TypeOK
  <2> QED BY <1>1, <2>2 DEF IndentFollows
<1>16. SuccessMeansFed'
  BY <1>2, <1>3 DEF Inv, SuccessMeansFed
<1> QED BY <1>11, <1>12, <1>13, <1>14, <1>15, <1>16 DEF Inv

\* The top visitor returns: its caller is on top, at the depth it called from.
LEMMA CallerResumes ==
  ASSUME Inv, stack # <<>>, pc' = "ret", stack' = Tail(stack), input' = input
  PROVE  /\ stack' \in Seq(Frame) /\ Chain(stack, BlockLen)'
         /\ CallInside' /\ TopSuspended' /\ LoopHasFrame'
         /\ ExpectedIndent' = Top.entry /\ Top.entry \in Nat
<1>1. stack \in Seq(Frame) /\ Chain(stack, BlockLen)
  BY DEF Inv, TypeOK
<1>2. /\ Chain(Tail(stack), BlockLen)
      /\ IF Tail(stack) = <<>> THEN Head(stack).entry = 0
                               ELSE Calls(Head(Tail(stack)), Head(stack))
  BY <1>1, ChainPop
<1>3. stack' \in Seq(Frame) /\ Head(stack) \in Frame
  BY <1>1, PopFrame
<1>4. Top.entry \in Nat
  BY <1>3, FrameKind DEF Top
<1>5. Chain(stack, BlockLen)'
  BY <1>2 DEF BlockLen
<1>6. CallInside' /\ LoopHasFrame'
  BY DEF CallInside, LoopHasFrame
<1>7. TopSuspended'
  BY <1>2 DEF TopSuspended, Top, Calls, Encloses
<1>8. ExpectedIndent' = Top.entry
  <2>1. CASE stack' = <<>>
    BY <1>2, <2>1 DEF ExpectedIndent, Top
  <2>2. CASE stack' # <<>>
    <3>1. ExpectedIndent' = Head(stack').entry + Raised(Head(stack'))
      BY <2>2 DEF ExpectedIndent, Top, Raised, Kind
    <3>2. Head(stack).entry = Head(stack').entry + Raised(Head(stack'))
      BY <1>2, <2>2 DEF Calls
    <3> QED BY <3>1, <3>2 DEF Top
  <2> QED BY <2>1, <2>2
<1> QED BY <1>3, <1>4, <1>5, <1>6, <1>7, <1>8

\* It returns an error, its indentation still in place.
LEMMA AbandonKeeps ==
  ASSUME Inv, pc \in {"loop", "ret"}, stack # <<>>, NEW e \in Errors, Abandon(e)
  PROVE  Inv'
<1>1. /\ pc' = "ret" /\ last_error' = e /\ stack' = Tail(stack)
      /\ input' = input /\ arg' = arg /\ consumed' = consumed
      /\ indent' = indent /\ refused' = refused
  BY DEF Abandon
<1>2. /\ stack' \in Seq(Frame) /\ Chain(stack, BlockLen)'
      /\ CallInside' /\ TopSuspended' /\ LoopHasFrame'
      /\ ExpectedIndent' = Top.entry /\ Top.entry \in Nat
  BY <1>1, CallerResumes
<1>3. TypeOK'
  BY <1>1, <1>2 DEF Inv, TypeOK
<1>4. e # "OK"
  BY DEF Errors
<1>5. IndentFollows'
  <2>1. indent \in Nat /\ indent >= ExpectedIndent
    BY DEF Inv, TypeOK, IndentFollows
  <2>2. Raised(Top) \in {1, 2}
    BY DEF Raised
  <2>3. ExpectedIndent \in {Top.entry + 1, Top.entry + Raised(Top)}
    BY Depth
  <2>4. indent >= Top.entry
    BY <1>2, <2>1, <2>2, <2>3
  <2> QED BY <1>1, <1>2, <1>4, <2>4 DEF IndentFollows
<1>6. SuccessMeansFed'
  BY <1>1, <1>4 DEF SuccessMeansFed
<1> QED BY <1>2, <1>3, <1>5, <1>6 DEF Inv

\* It returns without an error, the loop's indentation taken back.
LEMMA ReturnKeeps ==
  ASSUME Inv, stack # <<>>, pc # "panic", ExpectedIndent = Top.entry + 1,
         pc' = "ret", stack' = Tail(stack), input' = input, arg' = arg,
         indent' = indent - 1,
         consumed' \in Nat, last_error' \in Errors \cup {"OK"},
         refused' \in BOOLEAN, last_error' = "OK" => last_error = "OK",
         SuccessMeansFed'
  PROVE  Inv'
<1>1. /\ stack' \in Seq(Frame) /\ Chain(stack, BlockLen)'
      /\ CallInside' /\ TopSuspended' /\ LoopHasFrame'
      /\ ExpectedIndent' = Top.entry /\ Top.entry \in Nat
  BY CallerResumes
<1>2. indent \in Nat
  BY DEF Inv, TypeOK
<1>3. indent >= Top.entry + 1 /\ (last_error = "OK" => indent = Top.entry + 1)
  BY DEF Inv, IndentFollows
<1>4. indent' \in Nat
  BY <1>1, <1>2, <1>3
<1>5. TypeOK'
  BY <1>1, <1>4 DEF Inv, TypeOK
<1>6. IndentFollows'
  <2>1. \A a, b \in Nat : a >= b + 1 => a - 1 >= b
    OBVIOUS
  <2>2. \A b \in Nat : (b + 1) - 1 = b
    OBVIOUS
  <2>3. indent' >= ExpectedIndent'
    BY <1>1, <1>2, <1>3, <2>1
  <2>4. last_error' = "OK" => indent' = ExpectedIndent'
    BY <1>1, <1>3, <2>2
  <2> QED BY <2>3, <2>4 DEF IndentFollows
<1> QED BY <1>1, <1>5, <1>6 DEF Inv

-----------------------------------------------------------------------------
(* The visitors. *)

\* What holds of the visitor that is running.
LEMMA Running ==
  ASSUME Inv, pc = "call"
  PROVE  /\ arg.value \in Cursor /\ arg.value.off \in Nat /\ arg.value.size \in Nat
         /\ arg.typ \in STRING
         /\ arg.value.off + arg.value.size <= TotalSize(input.data)
         /\ input.data \in Seq(Byte) /\ TotalSize(input.data) \in Nat
<1>1. arg.value \in Cursor /\ arg.typ \in STRING /\ input.data \in Seq(Byte)
  BY DEF Inv, TypeOK, Input
<1>2. arg.value.off \in Nat /\ arg.value.size \in Nat
  BY <1>1 DEF Cursor
<1>3. TotalSize(input.data) \in Nat
  BY <1>1 DEF TotalSize
<1> QED BY <1>1, <1>2, <1>3 DEF Inv, CallInside, InBlock

\* The length checks of the visitors are enough for the words they read.
LEMMA HeaderWord ==
  ASSUME Inv, pc = "call", NEW k \in Nat, k + NumSize <= arg.value.size
  PROVE  WordAt(input.data, arg.value.off + k) \in Nat
<1>1. HasWord(input.data, arg.value.off + k) /\ arg.value.off + k \in Nat
  BY Running, SMTT(30) DEF HasWord, NumSize
<1> QED BY <1>1, Running, WordIsNat

LEMMA FirstWord ==
  ASSUME Inv, pc = "call", NumSize <= arg.value.size
  PROVE  WordAt(input.data, arg.value.off) \in Nat
<1>1. arg.value.off + 0 = arg.value.off /\ 0 + NumSize <= arg.value.size
  BY Running DEF NumSize
<1> QED BY <1>1, HeaderWord

LEMMA StartKeeps == ASSUME Inv, Start PROVE Inv'
<1>1. /\ pc = "start" /\ pc' \in {"done", "call"}
      /\ input' = input /\ arg' = arg /\ stack' = stack /\ consumed' = consumed
      /\ indent' = indent /\ refused' = refused
      /\ last_error' \in {"SCHEMA_ENCODING", last_error}
  BY DEF Start
<1>2. TypeOK'
  BY <1>1 DEF Inv, TypeOK, Errors
<1>3. Chain(stack, BlockLen)' /\ LoopHasFrame'
  BY <1>1 DEF Inv, BlockLen, LoopHasFrame
<1>4. CallInside' /\ TopSuspended'
  BY <1>1 DEF Inv, CallInside, TopSuspended, InBlock, Encloses, Top
<1>5. IndentFollows'
  <2>1. ExpectedIndent' = ExpectedIndent
    BY <1>1 DEF ExpectedIndent, Top
  <2> QED BY <1>1, <2>1 DEF Inv, IndentFollows
<1>6. SuccessMeansFed'
  BY <1>1 DEF Inv, SuccessMeansFed
<1> QED BY <1>2, <1>3, <1>4, <1>5, <1>6 DEF Inv

LEMMA VisitAfterErrorKeeps == ASSUME Inv, VisitAfterError PROVE Inv'
<1>1. pc = "call" /\ last_error # "OK" /\ Reject(last_error, 0) /\ refused' = refused
  BY DEF VisitAfterError, SendsNothing
<1>2. last_error \in Errors /\ refused' \in BOOLEAN
  BY <1>1 DEF Inv, TypeOK
<1> QED BY <1>1, <1>2, RejectKeeps

LEMMA VisitUnknownTypeKeeps == ASSUME Inv, VisitUnknownType PROVE Inv'
<1>1. pc = "call" /\ Reject("SCHEMA_ENCODING", 0) /\ refused' = refused
  BY DEF VisitUnknownType, SendsNothing
<1>2. "SCHEMA_ENCODING" \in Errors /\ refused' \in BOOLEAN
  BY <1>1 DEF Inv, TypeOK, Errors
<1> QED BY <1>1, <1>2, RejectKeeps

\* A step of a visitor that sends, and then rejects.
LEMMA SendsBoolean ==
  ASSUME Inv, NEW fail, Sends(fail)
  PROVE  refused' \in BOOLEAN
BY DEF Sends, Inv, TypeOK

LEMMA VisitByteKeeps == ASSUME Inv, VisitByte PROVE Inv'
<1>1. pc = "call" /\ last_error = "OK"
  BY DEF VisitByte
<1>2. PICK fail \in BOOLEAN :
        /\ Sends(fail)
        /\ \/ Reject("MOL2_IO", 0)
           \/ Accept(fail, 1, <<arg.value.off>>)
  BY DEF VisitByte
<1>3. CASE Reject("MOL2_IO", 0)
  BY <1>1, <1>2, <1>3, SendsBoolean, RejectKeeps DEF Errors
<1>4. CASE Accept(fail, 1, <<arg.value.off>>)
  BY <1>1, <1>2, <1>4, AcceptKeeps
<1> QED BY <1>2, <1>3, <1>4

\* The definition of the running visitor.
LEMMA CalleeFound ==
  ASSUME NEW kind, Visiting(kind)
  PROVE  /\ pc = "call" /\ last_error = "OK" /\ DefIndex(arg.typ) # 0
         /\ Callee \in Definition /\ Callee.kind = kind
BY DefIndexFound DEF Visiting, Callee

LEMMA VisitOptionKeeps == ASSUME Inv, VisitOption PROVE Inv'
<1>1. /\ pc = "call" /\ last_error = "OK" /\ DefIndex(arg.typ) # 0
      /\ Callee \in Definition /\ Callee.kind = "option"
  BY CalleeFound DEF VisitOption
<1>2. PICK fail \in BOOLEAN :
        /\ Sends(fail)
        /\ \/ Descend(fail, 0, Callee.item)
           \/ Accept(fail, 0, <<>>)
  BY DEF VisitOption
<1>3. CASE Descend(fail, 0, Callee.item)
  <2>1. Callee.item \in STRING
    BY <1>1 DEF Definition
  <2>2. 0 <= arg.value.size
    BY <1>1, Running
  <2> QED BY <1>1, <1>2, <1>3, <2>1, <2>2, DescendKeeps
<1>4. CASE Accept(fail, 0, <<>>)
  BY <1>1, <1>2, <1>4, AcceptKeeps
<1> QED BY <1>2, <1>3, <1>4

LEMMA VisitUnionKeeps == ASSUME Inv, VisitUnion PROVE Inv'
<1> DEFINE v == VariantIndex(Callee.pairs, UnionId(arg.value))
<1>1. /\ pc = "call" /\ last_error = "OK" /\ DefIndex(arg.typ) # 0
      /\ Callee \in Definition /\ Callee.kind = "union"
  BY CalleeFound DEF VisitUnion
<1>2. CASE Reject("MOLECULE_ENCODING", 0) /\ SendsNothing
  <2>1. "MOLECULE_ENCODING" \in Errors /\ refused' \in BOOLEAN
    BY <1>2 DEF Errors, SendsNothing, Inv, TypeOK
  <2> QED BY <1>1, <1>2, <2>1, RejectKeeps
<1>3. CASE /\ UnionKnown(arg.value)
           /\ \E fail \in BOOLEAN :
                Sends(fail) /\ Descend(fail, NumSize, Callee.pairs[v].typ)
  <2>1. PICK fail \in BOOLEAN :
          Sends(fail) /\ Descend(fail, NumSize, Callee.pairs[v].typ)
    BY <1>3
  <2>2. Callee.pairs \in Seq([typ : STRING, id : Nat])
    BY <1>1 DEF Definition
  <2>3. v # 0 /\ NumSize <= arg.value.size
    BY <1>1, <1>3, Running DEF UnionKnown, NumSize
  <2>4. Callee.pairs[v].typ \in STRING
    BY <2>2, <2>3, VariantFound
  <2>5. NumSize \in Nat
    BY DEF NumSize
  <2> HIDE DEF v
  <2> QED BY <1>1, <2>1, <2>3, <2>4, <2>5, DescendKeeps
<1> QED BY <1>2, <1>3 DEF VisitUnion

\* What a field of the script is, when it can be read.
LEMMA ScriptFieldIsCursor ==
  ASSUME Inv, pc = "call", NumSize <= arg.value.size, NEW k \in Nat,
         NEW c \in ScriptField(k)
  PROVE  HasWord(input.data, Script.off) /\ Script.off \in Nat
<1>1. PICK r \in DynvecSlice(input.data, Script, k) : c = r.cur
  BY DEF ScriptField, TableSlice
<1>2. Unpacks(input.data, Script)
  BY <1>1 DEF DynvecSlice
<1> QED BY <1>2, Running DEF Unpacks, Script, Advance, NumSize

LEMMA VisitAddressKeeps == ASSUME Inv, VisitAddress PROVE Inv'
<1>1. /\ pc = "call" /\ last_error = "OK" /\ DefIndex(arg.typ) # 0
      /\ Callee \in Definition /\ Callee.kind = "union"
      /\ NumSize <= arg.value.size
  <2>1. Visiting("union") /\ UnionKnown(arg.value)
    BY DEF VisitAddress
  <2>2. NumSize <= arg.value.size
    BY <2>1, CalleeFound, Running DEF UnionKnown, NumSize
  <2> QED BY <2>1, <2>2, CalleeFound
<1>2. PICK fail \in BOOLEAN :
        \/ Reject("MOLECULE_ENCODING", 0) /\ Sends(fail)
        \/ Panic(fail) /\ Sends(fail)
        \/ \E code \in ScriptField(0) : \E offsets : EncodeAddress(fail, offsets)
  BY DEF VisitAddress
<1>3. CASE Reject("MOLECULE_ENCODING", 0) /\ Sends(fail)
  BY <1>1, <1>3, SendsBoolean, RejectKeeps DEF Errors
<1>4. CASE Panic(fail) /\ Sends(fail)
  BY <1>1, <1>4, PanicKeeps
<1>5. CASE \E code \in ScriptField(0) : \E offsets : EncodeAddress(fail, offsets)
  <2> DEFINE size == (WordAt(input.data, Script.off) + NumSize) % WordMod
  <2>1. PICK offsets : EncodeAddress(fail, offsets)
    BY <1>5
  <2>2. size \in Nat
    <3>1. HasWord(input.data, Script.off) /\ Script.off \in Nat
      BY <1>1, <1>5, ScriptFieldIsCursor
    <3>2. WordAt(input.data, Script.off) \in Nat
      BY <1>1, <3>1, Running, WordIsNat
    <3>3. WordAt(input.data, Script.off) + NumSize \in Nat
      BY <3>2 DEF NumSize
    <3> QED BY <3>3, Wraps
  <2>3. \/ \E shownNow : Accept(fail, size, shownNow) /\ Sends(fail)
        \/ Reject("BECH32M", 0) /\ (refused' = TRUE \/ Sends(fail))
    BY <2>1 DEF EncodeAddress
  <2> HIDE DEF size
  <2>4. CASE \E shownNow : Accept(fail, size, shownNow) /\ Sends(fail)
    BY <1>1, <2>2, <2>4, AcceptKeeps
  <2>5. CASE Reject("BECH32M", 0) /\ (refused' = TRUE \/ Sends(fail))
    <3>1. "BECH32M" \in Errors /\ refused' \in BOOLEAN
      BY <2>5, SendsBoolean DEF Errors
    <3> QED BY <1>1, <2>5, <3>1, RejectKeeps
  <2> QED BY <2>3, <2>4, <2>5
<1> QED BY <1>2, <1>3, <1>4, <1>5

LEMMA VisitArrayKeeps == ASSUME Inv, VisitArray PROVE Inv'
<1> DEFINE n == Callee.count
<1>1. /\ pc = "call" /\ last_error = "OK" /\ DefIndex(arg.typ) # 0
      /\ Callee \in Definition /\ Callee.kind = "array" /\ n \in Nat
  <2>1. Visiting("array")
    BY DEF VisitArray
  <2>2. Callee \in Definition
    BY <2>1, CalleeFound
  <2>3. Callee.count \in Nat
    BY <2>2 DEF Definition
  <2> QED BY <2>1, <2>3, CalleeFound
<1>2. \/ \E e \in Errors, up \in {0, 1} :
           Reject(e, up) /\ (SendsNothing \/ \E fail \in BOOLEAN : Sends(fail))
      \/ Panic(FALSE) /\ SendsNothing
      \/ \E fail \in BOOLEAN : \E bytes : Sends(fail) /\ Accept(fail, n, bytes)
      \/ \E fail \in BOOLEAN : Sends(fail) /\ Enter(fail, n, 0, 0)
  BY DEF VisitArray, Errors
<1> HIDE DEF n
<1>3. CASE \E e \in Errors, up \in {0, 1} :
             Reject(e, up) /\ (SendsNothing \/ \E fail \in BOOLEAN : Sends(fail))
  <2>1. PICK e \in Errors, up \in {0, 1} :
          Reject(e, up) /\ (SendsNothing \/ \E fail \in BOOLEAN : Sends(fail))
    BY <1>3
  <2>2. refused' \in BOOLEAN
    BY <2>1, SendsBoolean DEF SendsNothing, Inv, TypeOK
  <2> QED BY <1>1, <2>1, <2>2, RejectKeeps
<1>4. CASE Panic(FALSE) /\ SendsNothing
  <2>1. Sends(FALSE)
    BY <1>4 DEF Sends, SendsNothing, Inv, TypeOK
  <2> QED BY <1>1, <1>4, <2>1, PanicKeeps
<1>5. CASE \E fail \in BOOLEAN : \E bytes : Sends(fail) /\ Accept(fail, n, bytes)
  BY <1>1, <1>5, AcceptKeeps
<1>6. CASE \E fail \in BOOLEAN : Sends(fail) /\ Enter(fail, n, 0, 0)
  <2>1. Callee.kind \notin OffsetKinds /\ Callee.kind \notin FieldKinds
        /\ Callee.kind \notin {"option", "union"}
    BY <1>1 DEF OffsetKinds, FieldKinds
  <2>2. 0 <= arg.value.size
    BY <1>1, Running
  <2> QED BY <1>1, <1>6, <2>1, <2>2, EnterKeeps
<1> QED BY <1>2, <1>3, <1>4, <1>5, <1>6

LEMMA VisitStructKeeps == ASSUME Inv, VisitStruct PROVE Inv'
<1>1. Visiting("struct")
  BY DEF VisitStruct
<1>2. /\ pc = "call" /\ last_error = "OK" /\ DefIndex(arg.typ) # 0
      /\ Callee \in Definition /\ Callee.kind = "struct"
  BY <1>1, CalleeFound
<1>3. Callee.fields \in Seq(STRING)
  BY <1>2 DEF Definition
<1>4. Len(Callee.fields) \in Nat
  BY <1>3
<1>5. Callee.kind \notin OffsetKinds /\ Callee.kind \notin {"option", "union"}
      /\ 0 <= arg.value.size
  BY <1>2, Running DEF OffsetKinds
<1>6. PICK fail \in BOOLEAN : Sends(fail) /\ Enter(fail, Len(Callee.fields), 0, 0)
  BY DEF VisitStruct
<1> QED BY <1>2, <1>4, <1>5, <1>6, EnterKeeps

LEMMA VectorSizeIsNat == ASSUME NEW n \in Nat PROVE VectorSize(n) \in Nat
<1>1. n + NumSize \in Nat
  BY DEF NumSize
<1> QED BY <1>1, Wraps DEF VectorSize

LEMMA VisitFixvecKeeps == ASSUME Inv, VisitFixvec PROVE Inv'
<1> DEFINE n == WordAt(input.data, arg.value.off)
<1>1. /\ pc = "call" /\ last_error = "OK" /\ DefIndex(arg.typ) # 0
      /\ Callee \in Definition /\ Callee.kind = "fixvec"
  BY CalleeFound DEF VisitFixvec
<1>2. \/ \E e \in Errors, up \in {0, 1} :
           /\ Reject(e, up)
           /\ \/ SendsNothing \/ refused' = TRUE
              \/ \E fail \in BOOLEAN : Sends(fail)
      \/ \E fail \in BOOLEAN :
           /\ Sends(fail) /\ arg.value.size >= NumSize
           /\ \/ Panic(fail)
              \/ \E offsets : Accept(fail, VectorSize(n), offsets)
              \/ Enter(fail, n, NumSize, 0)
  BY DEF VisitFixvec, CheckString, Errors
<1>3. CASE \E e \in Errors, up \in {0, 1} :
             /\ Reject(e, up)
             /\ \/ SendsNothing \/ refused' = TRUE
                \/ \E fail \in BOOLEAN : Sends(fail)
  <2>1. PICK e \in Errors, up \in {0, 1} :
             /\ Reject(e, up)
             /\ \/ SendsNothing \/ refused' = TRUE
                \/ \E fail \in BOOLEAN : Sends(fail)
    BY <1>3
  <2>2. refused' \in BOOLEAN
    BY <2>1, SendsBoolean DEF SendsNothing, Inv, TypeOK
  <2> QED BY <1>1, <2>1, <2>2, RejectKeeps
<1>4. CASE \E fail \in BOOLEAN :
             /\ Sends(fail) /\ arg.value.size >= NumSize
             /\ \/ Panic(fail)
                \/ \E offsets : Accept(fail, VectorSize(n), offsets)
                \/ Enter(fail, n, NumSize, 0)
  <2>1. PICK fail \in BOOLEAN :
             /\ Sends(fail) /\ arg.value.size >= NumSize
             /\ \/ Panic(fail)
                \/ \E offsets : Accept(fail, VectorSize(n), offsets)
                \/ Enter(fail, n, NumSize, 0)
    BY <1>4
  <2>2. NumSize <= arg.value.size /\ NumSize \in Nat
    BY <1>1, <2>1, Running DEF NumSize
  <2>3. n \in Nat /\ VectorSize(n) \in Nat
    BY <1>1, <2>2, FirstWord, VectorSizeIsNat
  <2>4. Callee.kind \notin OffsetKinds /\ Callee.kind \notin FieldKinds
        /\ Callee.kind \notin {"option", "union"}
    BY <1>1 DEF OffsetKinds, FieldKinds
  <2> HIDE DEF n
  <2>5. CASE Panic(fail)
    BY <1>1, <2>1, <2>5, PanicKeeps
  <2>6. CASE \E offsets : Accept(fail, VectorSize(n), offsets)
    BY <1>1, <2>1, <2>3, <2>6, AcceptKeeps
  <2>7. CASE Enter(fail, n, NumSize, 0)
    BY <1>1, <2>1, <2>2, <2>3, <2>4, <2>7, EnterKeeps
  <2> QED BY <2>1, <2>5, <2>6, <2>7
<1> QED BY <1>2, <1>3, <1>4

\* The header checks of dynvec and table (mol2 item counts are offset / 4 - 1).
LEMMA HeaderNumbers ==
  ASSUME Inv, pc = "call", HeaderFits(arg.value)
  PROVE  /\ FirstOffset(arg.value) \in Nat /\ FirstOffset(arg.value) <= arg.value.size
         /\ FullSize(arg.value) \in Nat /\ FullSize(arg.value) <= arg.value.size
         /\ ItemCount(arg.value) \in Nat
         /\ NumSize * (ItemCount(arg.value) + 1) <= arg.value.size
<1> DEFINE first == FirstOffset(arg.value)
           full == FullSize(arg.value)
<1>1. arg.value.size \in Nat /\ NumSize <= arg.value.size
  BY Running DEF HeaderFits, NumSize
<1>2. full \in Nat
  BY <1>1, FirstWord DEF FullSize
<1>3. full <= arg.value.size /\ full >= 8 /\ first % 4 = 0
      /\ first >= 8 /\ arg.value.size >= first
  BY DEF HeaderFits, NumSize
<1>4. first \in Nat
  <2>1. NumSize \in Nat /\ NumSize + NumSize <= arg.value.size
    BY <1>1, <1>2, <1>3 DEF NumSize
  <2> QED BY <2>1, HeaderWord DEF FirstOffset
<1> HIDE DEF first, full
<1>5. \A a \in Nat : a % 4 = 0 /\ a >= 8 =>
        a \div 4 - 1 \in Nat /\ 4 * ((a \div 4 - 1) + 1) = a
  BY SMT
<1>6. first \div 4 - 1 \in Nat /\ 4 * ((first \div 4 - 1) + 1) = first
  BY <1>3, <1>4, <1>5
<1> QED BY <1>1, <1>2, <1>3, <1>4, <1>6 DEF ItemCount, NumSize, first, full

LEMMA VisitDynvecKeeps == ASSUME Inv, VisitDynvec PROVE Inv'
<1> DEFINE v == arg.value
<1>1. /\ pc = "call" /\ last_error = "OK" /\ DefIndex(arg.typ) # 0
      /\ Callee \in Definition /\ Callee.kind = "dynvec"
  BY CalleeFound DEF VisitDynvec
<1>2. \/ Accept(FALSE, NumSize, <<>>) /\ SendsNothing
      \/ Reject("MOLECULE_ENCODING", 0) /\ SendsNothing
      \/ /\ HeaderFits(v)
         /\ \E fail \in BOOLEAN :
              Sends(fail) /\ Enter(fail, ItemCount(v), FirstOffset(v), FullSize(v))
  BY DEF VisitDynvec
<1>3. CASE Accept(FALSE, NumSize, <<>>) /\ SendsNothing
  <2>1. Sends(FALSE) /\ NumSize \in Nat
    BY <1>3 DEF Sends, SendsNothing, Inv, TypeOK, NumSize
  <2> QED BY <1>1, <1>3, <2>1, AcceptKeeps
<1>4. CASE Reject("MOLECULE_ENCODING", 0) /\ SendsNothing
  <2>1. "MOLECULE_ENCODING" \in Errors /\ refused' \in BOOLEAN
    BY <1>4 DEF Errors, SendsNothing, Inv, TypeOK
  <2> QED BY <1>1, <1>4, <2>1, RejectKeeps
<1>5. CASE /\ HeaderFits(v)
           /\ \E fail \in BOOLEAN :
                Sends(fail) /\ Enter(fail, ItemCount(v), FirstOffset(v), FullSize(v))
  <2>1. Callee.kind \notin {"option", "union"} /\ Callee.kind \notin FieldKinds
    BY <1>1 DEF FieldKinds
  <2> QED BY <1>1, <1>5, <2>1, HeaderNumbers, EnterKeeps
<1> QED BY <1>2, <1>3, <1>4, <1>5

LEMMA VisitTableKeeps == ASSUME Inv, VisitTable PROVE Inv'
<1> DEFINE v == arg.value
<1>1. /\ pc = "call" /\ last_error = "OK" /\ DefIndex(arg.typ) # 0
      /\ Callee \in Definition /\ Callee.kind = "table"
  BY CalleeFound DEF VisitTable
<1>2. \/ Reject("MOLECULE_ENCODING", 0) /\ SendsNothing
      \/ /\ HeaderFits(v) /\ ItemCount(v) = Len(Callee.fields)
         /\ \E fail \in BOOLEAN :
              Sends(fail) /\ Enter(fail, ItemCount(v), FirstOffset(v), FullSize(v))
  BY DEF VisitTable, TableFits
<1>3. CASE Reject("MOLECULE_ENCODING", 0) /\ SendsNothing
  <2>1. "MOLECULE_ENCODING" \in Errors /\ refused' \in BOOLEAN
    BY <1>3 DEF Errors, SendsNothing, Inv, TypeOK
  <2> QED BY <1>1, <1>3, <2>1, RejectKeeps
<1>4. CASE /\ HeaderFits(v) /\ ItemCount(v) = Len(Callee.fields)
           /\ \E fail \in BOOLEAN :
                Sends(fail) /\ Enter(fail, ItemCount(v), FirstOffset(v), FullSize(v))
  <2>1. Callee.kind \notin {"option", "union"}
    BY <1>1
  <2> QED BY <1>1, <1>4, <2>1, HeaderNumbers, EnterKeeps
<1> QED BY <1>2, <1>3, <1>4
-----------------------------------------------------------------------------
(* The item loops. *)

\* The top frame changes its loop variables only.
LEMMA TopReplaced ==
  ASSUME Inv, stack # <<>>, NEW f \in Frame, FrameOK(f, BlockLen),
         f.value = Top.value, f.entry = Top.entry,
         stack' = <<f>> \o Tail(stack), input' = input
  PROVE  /\ stack' \in Seq(Frame) /\ stack' # <<>> /\ Top' = f
         /\ Chain(stack, BlockLen)'
<1>1. stack \in Seq(Frame) /\ Chain(stack, BlockLen)
  BY DEF Inv, TypeOK
<1>2. Tail(stack) \in Seq(Frame)
  BY <1>1, PopFrame
<1>3. stack' \in Seq(Frame) /\ stack' # <<>> /\ Top' = f
  BY <1>2, PushFrame DEF Top
<1>4. /\ Chain(Tail(stack), BlockLen)
      /\ IF Tail(stack) = <<>> THEN Head(stack).entry = 0
                               ELSE Calls(Head(Tail(stack)), Head(stack))
  BY <1>1, ChainPop
<1>5. IF Tail(stack) = <<>> THEN f.entry = 0 ELSE Calls(Head(Tail(stack)), f)
  BY <1>4 DEF Calls, Top
<1>6. Chain(<<f>> \o Tail(stack), BlockLen)
  BY <1>2, <1>4, <1>5, ChainPush
<1> QED BY <1>3, <1>6 DEF BlockLen

\* The frame a loop runs in.
LEMMA TopFrame ==
  ASSUME Inv, stack # <<>>
  PROVE  Top \in Frame /\ FrameOK(Top, BlockLen)
<1>1. stack \in Seq(Frame) /\ Chain(stack, BlockLen)
  BY DEF Inv, TypeOK
<1> QED BY <1>1, PopFrame, ChainPop DEF Top

\* The offset of the next item lies in the header that was checked.
LEMMA ItemEndIsNat ==
  ASSUME Inv, stack # <<>>, Kind(Top) \in OffsetKinds
  PROVE  ItemEnd(Top) \in Nat
<1>1. Top \in Frame /\ FrameOK(Top, BlockLen)
  BY TopFrame
<1>2. /\ Top.value.off \in Nat /\ Top.value.size \in Nat /\ Top.i \in Nat
      /\ Top.count \in Nat /\ Top.full \in Nat
  BY <1>1, FrameKind
<1>3. NumSize * (Top.count + 1) <= Top.value.size
      /\ Top.value.off + Top.value.size <= BlockLen
  BY <1>1 DEF FrameOK
<1>4. input.data \in Seq(Byte) /\ BlockLen \in Nat
  BY DEF Inv, TypeOK, Input, BlockLen
<1>5. CASE Top.i + 1 < Top.count
  <2> DEFINE o == Top.value.off + NumSize + NumSize * (Top.i + 1)
  <2>1. \A a, b, c, s, m \in Nat :
          a + 1 < b /\ 4 * (b + 1) <= s /\ c + s <= m =>
            c + 4 + 4 * (a + 1) \in Nat /\ (c + 4 + 4 * (a + 1)) + 4 <= m
    BY SMT
  <2>2. o \in Nat /\ o + 4 <= BlockLen
    BY <1>2, <1>3, <1>4, <1>5, <2>1 DEF NumSize
  <2>3. HasWord(input.data, o)
    BY <2>2 DEF HasWord, TotalSize, BlockLen, NumSize
  <2>4. WordAt(input.data, o) \in Nat
    BY <1>4, <2>2, <2>3, WordIsNat
  <2> QED BY <1>5, <2>4 DEF ItemEnd
<1>6. CASE ~(Top.i + 1 < Top.count)
  BY <1>2, <1>6 DEF ItemEnd
<1> QED BY <1>5, <1>6

\* An item that fits is a window of what is left of the value.
LEMMA ItemInside ==
  ASSUME Inv, stack # <<>>, ItemFits(Top)
  PROVE  ItemSize(Top) \in Nat /\ Top.used + ItemSize(Top) <= Top.value.size
<1>1. Top \in Frame /\ FrameOK(Top, BlockLen)
  BY TopFrame
<1>2. Top.used \in Nat /\ Top.value.size \in Nat /\ Top.used <= Top.value.size
  BY <1>1, FrameKind DEF FrameOK
<1>3. CASE Kind(Top) \in OffsetKinds
  <2>1. ItemEnd(Top) \in Nat /\ ItemEnd(Top) \in Top.used .. Top.value.size
    BY <1>3, ItemEndIsNat DEF ItemFits
  <2>2. ItemSize(Top) = ItemEnd(Top) - Top.used
    BY <1>3 DEF ItemSize
  <2> QED BY <1>2, <2>1, <2>2
<1>4. CASE Kind(Top) \notin OffsetKinds
  <2>1. ItemSize(Top) = Top.value.size - Top.used
    BY <1>4 DEF ItemSize
  <2> QED BY <1>2, <2>1
<1> QED BY <1>3, <1>4

LEMMA ItemTypeIsString ==
  ASSUME Inv, stack # <<>>, Top.i < Top.count
  PROVE  ItemType(Top) \in STRING
<1>1. Top \in Frame /\ FrameOK(Top, BlockLen)
  BY TopFrame
<1>2. Top.i \in Nat /\ Defs[Top.def] \in Definition
  BY <1>1, FrameKind
<1>3. Defs[Top.def].item \in STRING /\ Defs[Top.def].fields \in Seq(STRING)
  BY <1>2 DEF Definition
<1>4. CASE Kind(Top) \in FieldKinds
  <2>1. Top.count = Len(Defs[Top.def].fields)
    BY <1>1, <1>4 DEF FrameOK
  <2>2. Top.i + 1 \in 1 .. Len(Defs[Top.def].fields)
    BY <1>2, <1>3, <2>1
  <2>3. Defs[Top.def].fields[Top.i + 1] \in STRING
    BY <1>3, <2>2, ElementOfSeq
  <2> QED BY <1>4, <2>3 DEF ItemType
<1>5. CASE Kind(Top) \notin FieldKinds
  BY <1>3, <1>5 DEF ItemType
<1> QED BY <1>4, <1>5

LEMMA RaisedByFields ==
  ASSUME NEW f PROVE Raised(f) = 1 + FieldIndent(f) /\ FieldIndent(f) \in {0, 1}
BY DEF Raised, FieldIndent

LEMMA NextItemKeeps == ASSUME Inv, NextItem PROVE Inv'
<1> DEFINE f == [Top EXCEPT !.sub = ItemSize(Top)]
           c == [off |-> Top.value.off + Top.used, size |-> ItemSize(Top)]
<1>1. /\ pc = "loop" /\ Top.i < Top.count /\ ItemFits(Top) /\ pc' = "call"
      /\ arg' = [value |-> c, typ |-> ItemType(Top)]
      /\ stack' = <<f>> \o Tail(stack) /\ indent' = indent + FieldIndent(Top)
      /\ input' = input /\ consumed' = consumed
  BY DEF NextItem
<1>2. PICK fail \in BOOLEAN : Sends(fail) /\ last_error' = After(fail)
  BY DEF NextItem
<1>3. stack # <<>>
  BY <1>1 DEF Inv, LoopHasFrame
<1>4. ItemSize(Top) \in Nat /\ Top.used + ItemSize(Top) <= Top.value.size
      /\ ItemType(Top) \in STRING
  BY <1>1, <1>3, ItemInside, ItemTypeIsString
<1>5. Top \in Frame /\ FrameOK(Top, BlockLen)
  BY <1>3, TopFrame
<1>6. /\ f \in Frame /\ f.value = Top.value /\ f.entry = Top.entry
      /\ f.def = Top.def /\ f.used = Top.used /\ f.sub = ItemSize(Top)
      /\ f.full = Top.full /\ f.count = Top.count
  BY <1>4, <1>5 DEF Frame
<1>7. Top.value.off \in Nat /\ Top.value.size \in Nat /\ Top.used \in Nat
      /\ Top.entry \in Nat
  BY <1>5, FrameKind
<1>8. c \in Cursor /\ Encloses(f, c) /\ InBlock(c)
  <2>1. c.off \in Nat /\ c.size \in Nat /\ c.off = f.value.off + f.used
        /\ c.size = f.sub /\ f.used + f.sub <= f.value.size
    BY <1>4, <1>6, <1>7
  <2>2. c = [off |-> f.value.off + f.used, size |-> f.sub]
    BY <1>6
  <2>3. Top.value.off + Top.value.size <= BlockLen /\ BlockLen \in Nat
    BY <1>5 DEF FrameOK, Inv, TypeOK, Input, BlockLen
  <2>4. c.off + c.size <= BlockLen
    BY <1>4, <1>7, <2>3
  <2>5. c \in Cursor
    BY <2>1 DEF Cursor
  <2> QED BY <2>1, <2>2, <2>4, <2>5 DEF Encloses, InBlock, BlockLen, TotalSize
<1>9. FrameOK(f, BlockLen) /\ Kind(f) = Kind(Top) /\ f.used + f.sub <= f.value.size
  BY <1>4, <1>5, <1>6 DEF FrameOK, Kind
<1> HIDE DEF f, c
<1>10. stack' \in Seq(Frame) /\ stack' # <<>> /\ Top' = f
       /\ Chain(stack, BlockLen)'
  BY <1>1, <1>3, <1>6, <1>9, TopReplaced
<1>11. fail \in BOOLEAN /\ refused' = (refused \/ fail) /\ refused \in BOOLEAN
       /\ (fail => last_error = "OK")
  BY <1>2 DEF Sends, Inv, TypeOK
<1>12. last_error' \in Errors \cup {"OK"}
       /\ (last_error' = "OK" => ~fail /\ last_error = "OK")
  BY <1>2, <1>11 DEF After, Errors, Inv, TypeOK
<1>13. indent \in Nat /\ FieldIndent(Top) \in {0, 1} /\ Raised(f) = 1 + FieldIndent(Top)
  BY <1>9, RaisedByFields DEF Inv, TypeOK, Raised, FieldIndent
<1>14. TypeOK'
  BY <1>1, <1>4, <1>8, <1>10, <1>11, <1>12, <1>13 DEF Inv, TypeOK
<1>15. CallInside' /\ TopSuspended' /\ LoopHasFrame'
  BY <1>1, <1>8, <1>9, <1>10
     DEF CallInside, TopSuspended, LoopHasFrame, InBlock
<1>16. IndentFollows'
  <2>1. ExpectedIndent' = f.entry + Raised(f)
    BY <1>1, <1>10 DEF ExpectedIndent, Raised, Kind
  <2>2. indent >= Top.entry + 1 /\ (last_error = "OK" => indent = Top.entry + 1)
    BY <1>1, <1>3, Depth DEF Inv, IndentFollows
  <2>3. indent' >= ExpectedIndent' /\ (last_error = "OK" => indent' = ExpectedIndent')
    BY <1>1, <1>6, <1>7, <1>13, <2>1, <2>2
  <2> QED BY <1>12, <2>3 DEF IndentFollows
<1>17. SuccessMeansFed'
  BY <1>11, <1>12 DEF Inv, SuccessMeansFed
<1> QED BY <1>10, <1>14, <1>15, <1>16, <1>17 DEF Inv

LEMMA NextItemRefusedKeeps == ASSUME Inv, NextItemRefused PROVE Inv'
<1>1. pc = "loop" /\ Abandon("MOLECULE_ENCODING") /\ "MOLECULE_ENCODING" \in Errors
  BY DEF NextItemRefused, Errors
<1> QED BY <1>1, AbandonKeeps DEF Inv, LoopHasFrame

LEMMA FinishItemKeeps == ASSUME Inv, FinishItem PROVE Inv'
<1>1. pc = "ret" /\ stack # <<>> /\ Kind(Top) \notin {"option", "union"}
  BY DEF FinishItem, Looping
<1>2. CASE last_error # "OK" /\ Abandon(last_error)
  <2>1. last_error \in Errors
    BY <1>2 DEF Inv, TypeOK
  <2> QED BY <1>1, <1>2, <2>1, AbandonKeeps
<1>3. CASE Abandon("MOLECULE_ENCODING")
  BY <1>1, <1>3, AbandonKeeps DEF Errors
<1>4. CASE /\ last_error = "OK" /\ ItemConsumed(Top)
           /\ \E fail \in BOOLEAN : Sends(fail) /\ last_error' = After(fail)
           /\ pc' = "loop" /\ stack' = <<Counted(Top)>> \o Tail(stack)
           /\ indent' = indent - FieldOutdent(Top)
           /\ UNCHANGED <<input, arg, consumed, shown>>
  <2> DEFINE f == Counted(Top)
  <2>1. PICK fail \in BOOLEAN : Sends(fail) /\ last_error' = After(fail)
    BY <1>4
  <2>2. Top \in Frame /\ FrameOK(Top, BlockLen)
    BY <1>1, TopFrame
  <2>3. /\ Top.value.size \in Nat /\ Top.used \in Nat /\ Top.sub \in Nat
        /\ Top.i \in Nat /\ Top.entry \in Nat /\ consumed \in Nat
    BY <2>2, FrameKind DEF Inv, TypeOK
  <2>4. Top.used + consumed <= Top.value.size
    <3>1. Top.used + Top.sub <= Top.value.size
      BY <1>1 DEF Inv, TopSuspended
    <3>2. consumed <= Top.sub
      BY <1>4, <2>3 DEF ItemConsumed
    <3> QED BY <2>3, <3>1, <3>2
  <2>5. /\ f \in Frame /\ f.value = Top.value /\ f.entry = Top.entry
        /\ f.def = Top.def /\ f.used = Top.used + consumed
        /\ f.full = Top.full /\ f.count = Top.count
    <3> DEFINE i2 == Top.i + 1
               u2 == Top.used + consumed
    <3>1. i2 \in Nat /\ u2 \in Nat
      BY <2>3
    <3>2. f = [Top EXCEPT !.i = i2, !.used = u2]
      BY DEF Counted
    <3> HIDE DEF i2, u2, f
    <3>3. f \in Frame /\ f.value = Top.value /\ f.entry = Top.entry
          /\ f.def = Top.def /\ f.used = u2
          /\ f.full = Top.full /\ f.count = Top.count
      BY <2>2, <3>1, <3>2 DEF Frame
    <3> QED BY <3>3 DEF u2
  <2>6. FrameOK(f, BlockLen) /\ Kind(f) = Kind(Top)
    BY <2>2, <2>4, <2>5 DEF FrameOK, Kind
  <2> HIDE DEF f
  <2>7. stack' \in Seq(Frame) /\ stack' # <<>> /\ Top' = f
        /\ Chain(stack, BlockLen)'
    BY <1>1, <1>4, <2>5, <2>6, TopReplaced DEF f
  <2>8. fail \in BOOLEAN /\ refused' = (refused \/ fail) /\ refused \in BOOLEAN
    BY <2>1 DEF Sends, Inv, TypeOK
  <2>9. last_error' \in Errors \cup {"OK"} /\ (last_error' = "OK" => ~fail)
    BY <1>4, <2>1, <2>8 DEF After, Errors
  <2>10. indent = Top.entry + 1 + FieldIndent(Top)
    <3>1. indent = Top.entry + Raised(Top)
      BY <1>1, <1>4, Depth DEF Inv, IndentFollows
    <3> QED BY <2>3, <3>1, RaisedByFields
  <2>11. FieldIndent(Top) \in {0, 1}
    BY RaisedByFields
  <2>12. indent' = Top.entry + 1 /\ indent' \in Nat
    BY <1>4, <2>3, <2>10, <2>11 DEF FieldOutdent
  <2>13. TypeOK'
    BY <1>4, <2>7, <2>8, <2>9, <2>12 DEF Inv, TypeOK
  <2>14. CallInside' /\ TopSuspended'
    BY <1>4 DEF CallInside, TopSuspended
  <2>15. LoopHasFrame'
    BY <1>1, <2>6, <2>7 DEF LoopHasFrame, Kind
  <2>16. IndentFollows'
    <3>1. ExpectedIndent' = Top.entry + 1
      BY <1>4, <2>5, <2>7 DEF ExpectedIndent
    <3> QED BY <2>12, <3>1 DEF IndentFollows
  <2>17. SuccessMeansFed'
    BY <1>4, <2>8, <2>9 DEF Inv, SuccessMeansFed
  <2> QED BY <2>7, <2>13, <2>14, <2>15, <2>16, <2>17 DEF Inv
<1> QED BY <1>2, <1>3, <1>4 DEF FinishItem

LEMMA FinishLoopKeeps == ASSUME Inv, FinishLoop PROVE Inv'
<1>1. pc = "loop" /\ stack # <<>>
  BY DEF FinishLoop, Inv, LoopHasFrame
<1>2. CASE Abandon("MOLECULE_ENCODING")
  BY <1>1, <1>2, AbandonKeeps DEF Errors
<1>3. CASE /\ \E fail \in BOOLEAN : Sends(fail) /\ last_error' = After(fail)
           /\ pc' = "ret" /\ stack' = Tail(stack)
           /\ consumed' = Top.used /\ indent' = indent - 1
           /\ UNCHANGED <<input, arg, shown>>
  <2>1. PICK fail \in BOOLEAN : Sends(fail) /\ last_error' = After(fail)
    BY <1>3
  <2>2. fail \in BOOLEAN /\ refused' = (refused \/ fail) /\ refused \in BOOLEAN
        /\ (fail => last_error = "OK")
    BY <2>1 DEF Sends, Inv, TypeOK
  <2>3. last_error' \in Errors \cup {"OK"}
        /\ (last_error' = "OK" => ~fail /\ last_error = "OK")
    BY <2>1, <2>2 DEF After, Errors, Inv, TypeOK
  <2>4. Top.used \in Nat
    BY <1>1, TopFrame, FrameKind
  <2>5. SuccessMeansFed'
    BY <2>2, <2>3 DEF Inv, SuccessMeansFed
  <2>6. ExpectedIndent = Top.entry + 1
    BY <1>1, Depth
  <2> QED BY <1>1, <1>3, <2>2, <2>3, <2>4, <2>5, <2>6, ReturnKeeps
<1> QED BY <1>2, <1>3 DEF FinishLoop

\* option and union raise the indentation by one.
LEMMA SingleCallDepth ==
  ASSUME stack # <<>>, pc = "ret", Kind(Top) \in {"option", "union"}
  PROVE  ExpectedIndent = Top.entry + 1
<1>1. Raised(Top) = 1
  BY DEF Raised, FieldKinds
<1> QED BY <1>1, Depth

LEMMA ReturnOptionKeeps == ASSUME Inv, ReturnOption PROVE Inv'
<1>1. /\ pc = "ret" /\ stack # <<>> /\ pc' = pc /\ stack' = Tail(stack)
      /\ input' = input /\ arg' = arg /\ consumed' = consumed
      /\ indent' = indent - 1 /\ last_error' = last_error /\ refused' = refused
  BY DEF ReturnOption
<1>2. ExpectedIndent = Top.entry + 1
  BY SingleCallDepth DEF ReturnOption
<1>3. /\ consumed' \in Nat /\ last_error' \in Errors \cup {"OK"}
      /\ refused' \in BOOLEAN /\ SuccessMeansFed'
  BY <1>1 DEF Inv, TypeOK, SuccessMeansFed
<1> QED BY <1>1, <1>2, <1>3, ReturnKeeps

LEMMA ReturnUnionKeeps == ASSUME Inv, ReturnUnion PROVE Inv'
<1>1. pc = "ret" /\ stack # <<>>
  BY DEF ReturnUnion
<1>2. CASE last_error # "OK" /\ Abandon(last_error)
  <2>1. last_error \in Errors
    BY <1>2 DEF Inv, TypeOK
  <2> QED BY <1>1, <1>2, <2>1, AbandonKeeps
<1>3. CASE /\ consumed' = (consumed + NumSize) % WordMod
           /\ stack' = Tail(stack) /\ indent' = indent - 1
           /\ UNCHANGED <<input, pc, arg, last_error, refused, shown>>
  <2>1. ExpectedIndent = Top.entry + 1
    BY SingleCallDepth DEF ReturnUnion
  <2>2. consumed' \in Nat
    <3>1. consumed + NumSize \in Nat
      BY DEF Inv, TypeOK, NumSize
    <3> QED BY <1>3, <3>1, Wraps
  <2>3. last_error' \in Errors \cup {"OK"} /\ refused' \in BOOLEAN /\ SuccessMeansFed'
    BY <1>3 DEF Inv, TypeOK, SuccessMeansFed
  <2> QED BY <1>1, <1>3, <2>1, <2>2, <2>3, ReturnKeeps
<1> QED BY <1>2, <1>3 DEF ReturnUnion

LEMMA FinishKeeps == ASSUME Inv, Finish PROVE Inv'
<1>1. /\ pc = "ret" /\ stack = <<>> /\ pc' = "done"
      /\ input' = input /\ arg' = arg /\ stack' = stack /\ consumed' = consumed
      /\ indent' = indent
  BY DEF Finish
<1>2. \/ last_error' = last_error /\ refused' = refused
      \/ last_error' = "MOLECULE_ENCODING" /\ refused' = refused
      \/ \E fail \in BOOLEAN : Sends(fail) /\ last_error' = After(fail)
  BY DEF Finish, SendsNothing
<1>3. /\ last_error' \in Errors \cup {"OK"} /\ refused' \in BOOLEAN
      /\ (last_error' = "OK" => ~refused' /\ last_error = "OK")
  BY <1>2 DEF Sends, After, Errors, Inv, TypeOK, SuccessMeansFed
<1>4. TypeOK'
  BY <1>1, <1>3 DEF Inv, TypeOK
<1>5. Chain(stack, BlockLen)'
  BY <1>1 DEF Inv, BlockLen
<1>6. CallInside' /\ TopSuspended' /\ LoopHasFrame' /\ SuccessMeansFed'
  BY <1>1, <1>3 DEF CallInside, TopSuspended, LoopHasFrame, SuccessMeansFed
<1>7. IndentFollows'
  <2>1. ExpectedIndent' = ExpectedIndent
    BY <1>1 DEF ExpectedIndent
  <2> QED BY <1>1, <1>3, <2>1 DEF Inv, IndentFollows
<1> QED BY <1>4, <1>5, <1>6, <1>7 DEF Inv

-----------------------------------------------------------------------------
(* The invariant, and what follows from it. *)

LEMMA InitHolds == ASSUME Init PROVE Inv
<1>1. input \in Input /\ Len(input.data) < WordMod /\ pc = "start" /\ stack = <<>>
      /\ arg = [value |-> [off |-> 0, size |-> Len(input.data)], typ |-> input.top]
      /\ consumed = 0 /\ last_error = "OK" /\ indent = 0 /\ refused = FALSE
  BY VisitorAssumption DEF Init
<1>2. input.data \in Seq(Byte) /\ input.top \in STRING
  BY <1>1 DEF Input
<1>3. Len(input.data) \in Nat
  BY <1>2
<1>4. arg.value \in Cursor /\ arg \in [value : Cursor, typ : STRING]
  BY <1>1, <1>2, <1>3 DEF Cursor
<1>5. TypeOK
  <2>1. stack \in Seq(Frame)
    BY <1>1
  <2>2. consumed \in Nat /\ indent \in Nat /\ refused \in BOOLEAN
        /\ last_error \in Errors \cup {"OK"}
        /\ pc \in {"start", "call", "loop", "ret", "done", "panic"}
    BY <1>1
  <2>3. input \in Input /\ Len(input.data) < WordMod
    BY <1>1
  <2> QED BY <1>4, <2>1, <2>2, <2>3 DEF TypeOK
<1>6. Chain(stack, BlockLen)
  BY <1>1 DEF Chain
<1>7. CallInside /\ TopSuspended /\ LoopHasFrame
  BY <1>1, <1>3 DEF CallInside, TopSuspended, LoopHasFrame, InBlock, TotalSize
<1>8. IndentFollows /\ SuccessMeansFed
  BY <1>1 DEF IndentFollows, ExpectedIndent, SuccessMeansFed
<1> QED BY <1>5, <1>6, <1>7, <1>8 DEF Inv

LEMMA StepKeeps == ASSUME Inv, [Next]_vars PROVE Inv'
<1>1. CASE UNCHANGED vars
  <2>1. /\ input' = input /\ pc' = pc /\ arg' = arg /\ stack' = stack
        /\ consumed' = consumed /\ last_error' = last_error /\ indent' = indent
        /\ refused' = refused
    BY <1>1 DEF vars
  <2>2. TypeOK' /\ SuccessMeansFed'
    BY <2>1 DEF Inv, TypeOK, SuccessMeansFed
  <2>3. Chain(stack, BlockLen)'
    BY <2>1 DEF Inv, BlockLen
  <2>4. CallInside' /\ TopSuspended' /\ LoopHasFrame'
    BY <2>1 DEF Inv, CallInside, TopSuspended, LoopHasFrame, InBlock, Encloses, Top, Kind
  <2>5. IndentFollows'
    <3>1. ExpectedIndent' = ExpectedIndent
      BY <2>1 DEF ExpectedIndent, Top, Raised, Kind
    <3> QED BY <2>1, <3>1 DEF Inv, IndentFollows
  <2> QED BY <2>2, <2>3, <2>4, <2>5 DEF Inv
<1>2. CASE Step
  BY <1>2, StartKeeps, VisitAfterErrorKeeps, VisitUnknownTypeKeeps,
     VisitByteKeeps, VisitOptionKeeps, VisitUnionKeeps, VisitAddressKeeps,
     VisitArrayKeeps, VisitStructKeeps, VisitFixvecKeeps, VisitDynvecKeeps,
     VisitTableKeeps, NextItemKeeps, NextItemRefusedKeeps, FinishItemKeeps,
     FinishLoopKeeps, ReturnOptionKeeps, ReturnUnionKeeps, FinishKeeps
     DEF Step
<1> QED BY <1>1, <1>2 DEF Next, Terminated

\* The windows, the indentation and the refusals of the feeder follow the
\* invariant for every schema, every block and every answer of the feeder.
THEOREM Invariance == Spec => []Inv
<1>1. Init => Inv
  BY InitHolds
<1>2. Inv /\ [Next]_vars => Inv'
  BY StepKeeps
<1> QED BY <1>1, <1>2, PTL DEF Spec

\* An item is looked for inside the block when the item before it was: the
\* slot behind that one's ends it, and lies in the block with it.
LEMMA SlicesStayInside ==
  ASSUME NEW mem \in Seq(Byte), NEW s \in Cursor, NEW i \in Nat,
         s.off <= TotalSize(mem), i = 0 \/ TableSlice(mem, s, i - 1) # {}
  PROVE  ~SlicesAstray(mem, s, i)
<1> DEFINE count == WordAt(mem, s.off + NumSize) \div NumSize - 1
           slot(k) == s.off + NumSize * (k + 1)
<1> SUFFICES ASSUME SlicesAstray(mem, s, i) PROVE FALSE
  OBVIOUS
<1>1. s.off \in Nat /\ TotalSize(mem) \in Nat /\ s.off + NumSize \in Nat
  BY DEF Cursor, TotalSize, NumSize
<1>2. /\ Unpacks(mem, s) /\ WordAt(mem, s.off) # NumSize
      /\ HasWord(mem, s.off + NumSize) /\ i < count
      /\ slot(i) > TotalSize(mem)
  BY <1>1 DEF SlicesAstray
<1>3. count \in Int
  <2>1. WordAt(mem, s.off + NumSize) \in Nat
    BY <1>1, <1>2, WordIsNat
  <2> QED  BY <2>1 DEF NumSize
<1>4. CASE i = 0
  <2>1. slot(0) = s.off + NumSize
    BY <1>1 DEF NumSize
  <2> QED  BY <1>1, <1>2, <1>4, <2>1 DEF HasWord, NumSize
<1>5. CASE i # 0
  <2> DEFINE j == i - 1
  <2>1. j \in Nat /\ j + 1 = i
    BY <1>5
  <2>2. PICK c : c \in TableSlice(mem, s, j)
    BY <1>5
  <2>3. PICK r : r \in DynvecSlice(mem, s, j)
    BY <2>2 DEF TableSlice
  <2> HIDE DEF j
  <2>4. ~(count < 0) /\ ~(j >= count) /\ j + 1 < count
    BY <1>2, <1>3, <2>1
  <2> HIDE DEF count
  <2>5. HasWord(mem, slot(j + 1))
    BY <1>2, <2>3, <2>4 DEF DynvecSlice, count
  <2> QED  BY <1>1, <1>2, <2>1, <2>5 DEF HasWord, NumSize
<1> QED  BY <1>4, <1>5

\* The fields of a script are cut out in turn, each after the one before.
LEMMA ScriptStaysInside ==
  ASSUME Inv, Visiting("union"), UnionKnown(arg.value)
  PROVE  ~ScriptAstray
<1>1. pc = "call" /\ NumSize <= arg.value.size
  BY Running DEF Visiting, UnionKnown, NumSize
<1>2. /\ arg.value.off \in Nat /\ arg.value.size \in Nat
      /\ arg.value.off + arg.value.size <= TotalSize(input.data)
      /\ input.data \in Seq(Byte) /\ TotalSize(input.data) \in Nat
  BY <1>1, Running
<1>3. Script \in Cursor /\ Script.off <= TotalSize(input.data)
  BY <1>1, <1>2 DEF Script, Advance, Cursor, NumSize
<1>4. 0 \in Nat /\ 1 \in Nat /\ 2 \in Nat /\ 1 - 1 = 0 /\ 2 - 1 = 1
  OBVIOUS
<1>5. ~SlicesAstray(input.data, Script, 0)
  BY <1>2, <1>3, <1>4, SlicesStayInside
<1>6. ScriptField(0) # {} => ~SlicesAstray(input.data, Script, 1)
  BY <1>2, <1>3, <1>4, SlicesStayInside DEF ScriptField
<1>7. ScriptField(1) # {} => ~SlicesAstray(input.data, Script, 2)
  BY <1>2, <1>3, <1>4, SlicesStayInside DEF ScriptField
<1> QED  BY <1>5, <1>6, <1>7 DEF ScriptAstray

LEMMA InvNests == ASSUME Inv PROVE NestedWindows
<1>1. stack \in Seq(Frame) /\ Chain(stack, BlockLen)
  BY DEF Inv, TypeOK
<1>2. DOMAIN stack = 1 .. Len(stack) /\ BlockLen = TotalSize(input.data)
  BY <1>1, LenProperties, SMTT(30) DEF BlockLen, TotalSize
<1>3. \A k \in DOMAIN stack : InBlock(stack[k].value)
  BY <1>1, <1>2 DEF Chain, FrameOK, InBlock
<1>4. \A k \in DOMAIN stack : k > 1 => Encloses(stack[k], stack[k - 1].value)
  BY <1>1, <1>2 DEF Chain, Calls
<1>5. pc = "loop" => Top.used <= Top.value.size
  BY TopFrame DEF FrameOK, Inv, LoopHasFrame
<1>6. Visiting("union") /\ UnionKnown(arg.value) => ~ScriptAstray
  BY ScriptStaysInside
<1> QED BY <1>3, <1>4, <1>5, <1>6 DEF NestedWindows, Inv, CallInside

LEMMA InvBalances == ASSUME Inv PROVE IndentBalanced
<1>1. stack \in Seq(Frame) /\ Chain(stack, BlockLen)
  BY DEF Inv, TypeOK
<1>2. DOMAIN stack = 1 .. Len(stack) /\ Len(stack) \in Nat
  BY <1>1, LenProperties
<1>3. SUFFICES ASSUME NEW k \in DOMAIN stack
               PROVE  stack[k].entry = IF k = Len(stack) THEN 0
                        ELSE stack[k + 1].entry + Raised(stack[k + 1])
  BY SMTT(30) DEF IndentBalanced, Inv, IndentFollows
<1>4. CASE k = Len(stack)
  BY <1>1, <1>2, <1>4 DEF Chain
<1>5. CASE k # Len(stack)
  <2>1. k + 1 \in 1 .. Len(stack) /\ k + 1 > 1 /\ (k + 1) - 1 = k
    BY <1>2, <1>5
  <2>2. Calls(stack[k + 1], stack[k])
    BY <1>1, <2>1 DEF Chain
  <2> QED BY <1>5, <2>2 DEF Calls
<1> QED BY <1>4, <1>5

\* Every variable keeps its type, whatever the data, the schema and the feeder.
THEOREM TypeCorrect == Spec => []TypeOK
<1>1. Inv => TypeOK
  BY DEF Inv
<1> QED BY <1>1, Invariance, PTL

\* No visitor looks outside the window its caller gave it, or outside the block,
\* and neither does the reader when it slices the script of an address.
THEOREM WindowsNest == Spec => []NestedWindows
<1>1. Inv => NestedWindows
  BY InvNests
<1> QED BY <1>1, Invariance, PTL

\* indent_levels is exact while there is no error, and never wraps around.
THEOREM IndentationBalanced == Spec => []IndentBalanced
<1>1. Inv => IndentBalanced
  BY InvBalances
<1> QED BY <1>1, Invariance, PTL

\* mdp_visit does not return MDP_OK when the feeder refused some of the text.
THEOREM NoRefusalIsLost == Spec => []SuccessMeansFed
<1>1. Inv => SuccessMeansFed
  BY DEF Inv
<1> QED BY <1>1, Invariance, PTL
-----------------------------------------------------------------------------
(* The first error ends the text. *)

Ended ==
  /\ last_error' # "OK"
  /\ refused' = refused /\ shown' = shown
  /\ Len(stack') <= Len(stack)

LEMMA SilentAfterError ==
  ASSUME Inv, last_error # "OK", NEW fail, Sends(fail)
  PROVE  ~fail /\ refused' = refused /\ After(fail) = last_error
BY DEF Sends, After, Inv, TypeOK

LEMMA AbandonEnds ==
  ASSUME Inv, stack # <<>>, NEW e, e # "OK", Abandon(e)
  PROVE  Ended
<1>1. /\ last_error' = e /\ stack' = Tail(stack) /\ refused' = refused
      /\ shown' = shown
  BY DEF Abandon
<1>2. stack \in Seq(Frame)
  BY DEF Inv, TypeOK
<1>3. Len(Tail(stack)) = Len(stack) - 1 /\ Len(stack) \in Nat
  BY <1>2, PopFrame
<1>4. Len(stack') <= Len(stack)
  BY <1>1, <1>3
<1> QED BY <1>1, <1>4 DEF Ended

LEMMA SameHeight ==
  ASSUME Inv, stack # <<>>, NEW f \in Frame, stack' = <<f>> \o Tail(stack)
  PROVE  Len(stack') <= Len(stack)
<1>1. stack \in Seq(Frame)
  BY DEF Inv, TypeOK
<1>2. Tail(stack) \in Seq(Frame) /\ Len(Tail(stack)) = Len(stack) - 1
      /\ Len(stack) \in Nat
  BY <1>1, PopFrame
<1>3. Len(stack') = Len(Tail(stack)) + 1
  BY <1>2, PushFrame
<1> QED BY <1>2, <1>3

LEMMA NextItemEnds == ASSUME Inv, last_error # "OK", NextItem PROVE Ended
<1> DEFINE f == [Top EXCEPT !.sub = ItemSize(Top)]
<1>1. stack # <<>> /\ ItemFits(Top)
  BY DEF NextItem, Inv, LoopHasFrame
<1>2. Top \in Frame /\ ItemSize(Top) \in Nat
  BY <1>1, TopFrame, ItemInside
<1>3. f \in Frame
  BY <1>2 DEF Frame
<1>4. stack' = <<f>> \o Tail(stack) /\ shown' = shown
  BY DEF NextItem
<1> HIDE DEF f
<1>5. Len(stack') <= Len(stack)
  BY <1>1, <1>3, <1>4, SameHeight
<1>6. PICK fail \in BOOLEAN : Sends(fail) /\ last_error' = After(fail)
  BY DEF NextItem
<1> QED BY <1>4, <1>5, <1>6, SilentAfterError DEF Ended

LEMMA FinishLoopEnds == ASSUME Inv, last_error # "OK", FinishLoop PROVE Ended
<1>1. stack # <<>> /\ stack \in Seq(Frame)
  BY DEF FinishLoop, Inv, LoopHasFrame, TypeOK
<1>2. CASE Abandon("MOLECULE_ENCODING")
  BY <1>1, <1>2, AbandonEnds
<1>3. CASE /\ \E fail \in BOOLEAN : Sends(fail) /\ last_error' = After(fail)
           /\ stack' = Tail(stack) /\ shown' = shown
  <2>1. PICK fail \in BOOLEAN : Sends(fail) /\ last_error' = After(fail)
    BY <1>3
  <2>2. Len(Tail(stack)) = Len(stack) - 1 /\ Len(stack) \in Nat
    BY <1>1, PopFrame
  <2>3. Len(stack') <= Len(stack)
    BY <1>3, <2>2
  <2> QED BY <1>3, <2>1, <2>3, SilentAfterError DEF Ended
<1> QED BY <1>2, <1>3 DEF FinishLoop

LEMMA ReturnEnds ==
  ASSUME Inv, last_error # "OK", FinishItem \/ ReturnOption \/ ReturnUnion
  PROVE  Ended
<1>1. stack # <<>> /\ stack \in Seq(Frame)
  BY DEF FinishItem, Looping, ReturnOption, ReturnUnion, Inv, TypeOK
<1>2. CASE Abandon(last_error)
  BY <1>1, <1>2, AbandonEnds
<1>3. CASE /\ stack' = Tail(stack) /\ last_error' = last_error
           /\ refused' = refused /\ shown' = shown
  <2>1. Len(Tail(stack)) = Len(stack) - 1 /\ Len(stack) \in Nat
    BY <1>1, PopFrame
  <2>2. Len(stack') <= Len(stack)
    BY <1>3, <2>1
  <2> QED BY <1>3, <2>2 DEF Ended
<1> QED BY <1>2, <1>3 DEF FinishItem, ReturnOption, ReturnUnion

\* A step that leaves the stack and what the feeder got alone.
LEMMA QuietEnds ==
  ASSUME Inv, last_error' # "OK", refused' = refused, shown' = shown,
         stack' = stack
  PROVE  Ended
<1>1. stack \in Seq(Frame)
  BY DEF Inv, TypeOK
<1>2. Len(stack) \in Nat
  BY <1>1
<1>3. Len(stack') <= Len(stack)
  BY <1>2
<1> QED BY <1>3 DEF Ended

LEMMA StepEnds == ASSUME Inv, last_error # "OK", [Next]_vars PROVE Ended
<1>1. CASE Start \/ VisitAfterError \/ UNCHANGED vars
  BY <1>1, QuietEnds
     DEF Start, VisitAfterError, Reject, SendsNothing, vars
<1>2. CASE \/ VisitUnknownType \/ VisitByte \/ VisitOption \/ VisitUnion
           \/ VisitAddress \/ VisitArray \/ VisitStruct \/ VisitFixvec
           \/ VisitDynvec \/ VisitTable
  BY <1>2 DEF VisitUnknownType, VisitByte, VisitOption, VisitUnion, VisitAddress,
     VisitArray, VisitStruct, VisitFixvec, VisitDynvec, VisitTable, Visiting
<1>3. CASE NextItem
  BY <1>3, NextItemEnds
<1>4. CASE NextItemRefused
  BY <1>4, AbandonEnds DEF NextItemRefused, Inv, LoopHasFrame
<1>5. CASE FinishItem \/ ReturnOption \/ ReturnUnion
  BY <1>5, ReturnEnds
<1>6. CASE FinishLoop
  BY <1>6, FinishLoopEnds
<1>7. CASE Finish
  <2>1. last_error' = last_error /\ refused' = refused /\ stack' = stack
        /\ shown' = shown
    BY <1>7 DEF Finish
  <2> QED BY <2>1, QuietEnds
<1> QED BY <1>1, <1>2, <1>3, <1>4, <1>5, <1>6, <1>7 DEF Next, Step, Terminated

\* After the first error the feeder gets nothing, no visitor is entered and the
\* error stays an error.
THEOREM FirstErrorEndsText == Spec => ErrorEndsText
<1>1. Inv /\ [Next]_vars =>
        [last_error # "OK" =>
           /\ last_error' # "OK"
           /\ refused' = refused /\ shown' = shown
           /\ Len(stack') <= Len(stack)]_vars
  BY StepEnds DEF Ended
<1> QED BY <1>1, Invariance, PTL DEF Spec, ErrorEndsText
-----------------------------------------------------------------------------
(* Where data ends the process. *)

\* The content of a vector of bytes that passed the length check is in the
\* block, unless the item count + 4 wrapped around.
LEMMA ContentInside ==
  ASSUME Inv, pc = "call", NEW n \in Nat, n + NumSize < WordMod,
         arg.value.size >= VectorSize(n)
  PROVE  Content(arg.value, n) \in Cursor /\ Validates(input.data, Content(arg.value, n))
<1>1. arg.value \in Cursor /\ arg.value.off + arg.value.size <= Len(input.data)
  BY DEF Inv, TypeOK, CallInside, InBlock, TotalSize
<1>2. arg.value.off \in Nat /\ arg.value.size \in Nat
  BY <1>1 DEF Cursor
<1>3. VectorSize(n) = n + NumSize
  BY WordModPositive DEF VectorSize, NumSize
<1>4. Content(arg.value, n) = [off |-> arg.value.off + NumSize, size |-> n]
  BY DEF Content
<1>5. arg.value.off + NumSize \in Nat
  BY <1>2 DEF NumSize
<1> QED  BY <1>1, <1>2, <1>3, <1>4, <1>5 DEF Cursor, Validates, TotalSize, NumSize

LEMMA FixvecPanics ==
  ASSUME Inv, VisitFixvec, pc' = "panic"
  PROVE  /\ Callee.kind = "fixvec" /\ Callee.item = "byte"
         /\ WordAt(input.data, arg.value.off) + NumSize >= WordMod
         /\ input' = input /\ arg' = arg
<1> DEFINE n == WordAt(input.data, arg.value.off)
           text == Content(arg.value, n)
<1>1. pc = "call" /\ Callee.kind = "fixvec"
  BY DEF VisitFixvec, Visiting
<1>2. /\ arg.value.size >= NumSize /\ Callee.item = "byte"
      /\ arg.value.size >= VectorSize(n)
      /\ input' = input /\ arg' = arg
      /\ Utf8Result(input.data, text) = "panic" \/ ~Validates(input.data, text)
  BY DEF VisitFixvec, CheckString, Reject, Accept, Enter, Panic
<1>3. n \in Nat
  BY <1>1, <1>2, FirstWord
<1>4. ASSUME n + NumSize < WordMod
      PROVE  FALSE
  <2>1. text \in Cursor /\ Validates(input.data, text)
    BY <1>1, <1>2, <1>3, <1>4, ContentInside
  <2>2. input.data \in Seq(Byte)
    BY DEF Inv, TypeOK, Input
  <2>3. Utf8Result(input.data, text) \in {"ok", "malformed"}
    <3> HIDE DEF text
    <3> QED  BY <2>1, <2>2, CheckReturns
  <2> QED  BY <1>2, <2>1, <2>3
<1>5. n + NumSize \in Nat /\ WordMod \in Nat
  BY <1>3, WordModPositive DEF NumSize
<1> QED  BY <1>1, <1>2, <1>4, <1>5

LEMMA PanicsKept ==
  ASSUME Inv, PanicSites, [Next]_vars
  PROVE  PanicSites'
<1> SUFFICES ASSUME pc' = "panic" PROVE PanicSites'
  BY DEF PanicSites
<1>1. CASE VisitFixvec
  BY <1>1, FixvecPanics DEF PanicSites, Callee
<1>2. CASE VisitAddress
  BY <1>2 DEF VisitAddress, Visiting, Panic, Reject, EncodeAddress, Accept, PanicSites, Callee
<1>3. CASE VisitArray
  BY <1>3 DEF VisitArray, Visiting, Panic, Reject, Accept, Enter, PanicSites, Callee
<1>4. CASE UNCHANGED vars \/ Terminated
  BY <1>4 DEF vars, Terminated, PanicSites, Callee
<1>5. CASE \/ Start \/ VisitAfterError \/ VisitUnknownType
           \/ VisitByte \/ VisitOption \/ VisitUnion
  BY <1>5 DEF Start, VisitAfterError, VisitUnknownType, VisitByte, VisitOption, VisitUnion,
     Reject, Accept, Descend
<1>6. CASE VisitStruct \/ VisitDynvec \/ VisitTable
  BY <1>6 DEF VisitStruct, VisitDynvec, VisitTable, Reject, Accept, Enter
<1>7. CASE NextItem \/ NextItemRefused \/ FinishItem \/ FinishLoop
  BY <1>7 DEF NextItem, NextItemRefused, FinishItem, FinishLoop, Abandon
<1>8. CASE ReturnOption \/ ReturnUnion \/ Finish
  BY <1>8 DEF ReturnOption, ReturnUnion, Finish, Abandon
<1> QED  BY <1>1, <1>2, <1>3, <1>4, <1>5, <1>6, <1>7, <1>8 DEF Next, Step

\* Data ends the process only while the script of an address is read, at a
\* vector of bytes whose item count + 4 is beyond 32 bits, or at an array that
\* the schema declares empty: for every schema, every block and every feeder.
THEOREM PanicsOnlyThere == Spec => []PanicSites
<1>1. Init => PanicSites
  BY DEF Init, PanicSites
<1>2. Inv /\ PanicSites /\ [Next]_vars => PanicSites'
  BY PanicsKept
<1> QED  BY <1>1, <1>2, Invariance, PTL DEF Spec
-----------------------------------------------------------------------------
(* Sums of sequences of numbers. *)

SumsOf(s, k, g) == IF k = 0 THEN 0 ELSE g[k - 1] + s[k]

LEMMA SumsDefined ==
  ASSUME NEW s \in Seq(Nat)
  PROVE  \E f \in [0 .. Len(s) -> Nat] :
           /\ \A k \in 0 .. Len(s) : f[k] = SumsOf(s, k, f)
           /\ Added(s) = f[Len(s)]
<1> DEFINE D == 0 .. Len(s)
           m == [x \in D |-> x]
           F == [x \in D |-> [g \in [D -> Nat] |-> SumsOf(s, x, g)]]
           upto[k \in 0 .. Len(s)] == IF k = 0 THEN 0 ELSE upto[k - 1] + s[k]
<1>1. \A x \in D, g \in [D -> Nat] : SumsOf(s, x, g) \in Nat
  BY DEF SumsOf
<1>2. F \in [D -> [[D -> Nat] -> Nat]]
  <2> HIDE DEF D
  <2> QED  BY <1>1
<1>3. m \in [D -> 0 .. Len(s)] /\ Len(s) \in Nat
  OBVIOUS
<1>4. ASSUME NEW x \in D, NEW g \in [D -> Nat], NEW h \in [D -> Nat],
             \A y \in D : m[y] < m[x] => g[y] = h[y]
      PROVE  F[x][g] = F[x][h]
  <2>1. CASE x = 0
    BY <2>1 DEF SumsOf
  <2>2. CASE x # 0
    <3>1. x - 1 \in D /\ m[x - 1] < m[x]
      BY <2>2
    <3>2. g[x - 1] = h[x - 1]
      BY <3>1, <1>4
    <3>3. SumsOf(s, x, g) = SumsOf(s, x, h)
      BY <3>2 DEF SumsOf
    <3> QED  BY <3>3
  <2> QED  BY <2>1, <2>2
<1>5. Grounded(D, Nat, Len(s), m, F)
  <2> HIDE DEF D, m, F
  <2> QED  BY <1>2, <1>3, <1>4 DEF Grounded
<1>6. Defines(D, Nat, F)
  <2> HIDE DEF D, m, F
  <2> QED  BY <1>5, RecursionDefined
<1>7. PICK f \in [D -> Nat] : \A x \in D : f[x] = F[x][f]
  <2> HIDE DEF D, F
  <2> QED  BY <1>6 DEF Defines
<1>8. \A x \in D : f[x] = SumsOf(s, x, f)
  BY <1>7
<1>9. f = [k \in 0 .. Len(s) |-> IF k = 0 THEN 0 ELSE f[k - 1] + s[k]]
  BY <1>8 DEF SumsOf
<1>10. upto = [k \in 0 .. Len(s) |-> IF k = 0 THEN 0 ELSE upto[k - 1] + s[k]]
  BY <1>9
<1>11. upto \in [D -> Nat] /\ \A x \in D : upto[x] = SumsOf(s, x, upto)
  <2> DEFINE T == {n \in Nat : n \in D => upto[n] \in Nat}
  <2>1. 0 \in T
    <3> HIDE DEF upto
    <3>1. upto[0] = 0
      BY <1>10
    <3> QED  BY <3>1
  <2>2. ASSUME NEW n \in Nat, n \in T PROVE n + 1 \in T
    <3> SUFFICES ASSUME n + 1 \in D PROVE upto[n + 1] \in Nat
      OBVIOUS
    <3>1. n \in D /\ upto[n] \in Nat
      BY <2>2
    <3>2. upto[n + 1] = upto[n] + s[n + 1]
      <4> HIDE DEF upto
      <4>1. upto[n + 1] = IF n + 1 = 0 THEN 0 ELSE upto[(n + 1) - 1] + s[n + 1]
        BY <1>10
      <4> QED  BY <4>1
    <3>3. s[n + 1] \in Nat
      BY <3>1
    <3> HIDE DEF upto
    <3> QED  BY <3>1, <3>2, <3>3
  <2>3. \A n \in Nat : n \in T
    <3> HIDE DEF T, upto
    <3> QED  BY <2>1, <2>2, Induction
  <2> HIDE DEF upto
  <2>4. \A x \in D : upto[x] \in Nat /\ upto[x] = SumsOf(s, x, upto)
    <3> SUFFICES ASSUME NEW x \in D
                 PROVE  upto[x] \in Nat /\ upto[x] = SumsOf(s, x, upto)
      OBVIOUS
    <3>1. upto[x] = SumsOf(s, x, upto)
      BY <1>10 DEF SumsOf
    <3>2. x \in Nat /\ x \in T
      BY <2>3
    <3>3. upto[x] \in Nat
      BY <3>2
    <3> QED  BY <3>1, <3>3
  <2> QED  BY <2>4, <1>10
<1>12. Added(s) = upto[Len(s)]
  BY DEF Added
<1>13. \A k \in 0 .. Len(s) : upto[k] = SumsOf(s, k, upto)
  <2> HIDE DEF upto
  <2> QED  BY <1>11
<1>14. upto \in [0 .. Len(s) -> Nat]
  <2> HIDE DEF upto
  <2> QED  BY <1>11
<1> HIDE DEF upto
<1> QED  BY <1>12, <1>13, <1>14

LEMMA SumIsNat == ASSUME NEW s \in Seq(Nat) PROVE Added(s) \in Nat
BY SumsDefined

LEMMA SumEmpty == ASSUME NEW s \in Seq(Nat), Len(s) = 0 PROVE Added(s) = 0
<1>1. PICK f \in [0 .. Len(s) -> Nat] :
        /\ \A k \in 0 .. Len(s) : f[k] = SumsOf(s, k, f)
        /\ Added(s) = f[Len(s)]
  BY SumsDefined
<1>2. f[0] = SumsOf(s, 0, f)
  BY <1>1
<1> QED  BY <1>1, <1>2 DEF SumsOf

LEMMA SumLonger ==
  ASSUME NEW s \in Seq(Nat), NEW t \in Seq(Nat), Len(t) = Len(s) + 1,
         \A k \in 1 .. Len(s) : t[k] = s[k]
  PROVE  Added(t) = Added(s) + t[Len(t)]
<1>1. PICK f \in [0 .. Len(s) -> Nat] :
        /\ \A k \in 0 .. Len(s) : f[k] = SumsOf(s, k, f)
        /\ Added(s) = f[Len(s)]
  BY SumsDefined
<1>2. PICK g \in [0 .. Len(t) -> Nat] :
        /\ \A k \in 0 .. Len(t) : g[k] = SumsOf(t, k, g)
        /\ Added(t) = g[Len(t)]
  BY SumsDefined
<1> DEFINE T == {n \in Nat : n <= Len(s) => g[n] = f[n]}
<1>3. 0 \in T
  BY <1>1, <1>2 DEF SumsOf
<1>4. ASSUME NEW n \in Nat, n \in T PROVE n + 1 \in T
  <2> SUFFICES ASSUME n + 1 <= Len(s) PROVE g[n + 1] = f[n + 1]
    OBVIOUS
  <2>0. n + 1 \in 0 .. Len(t) /\ n + 1 \in 0 .. Len(s) /\ (n + 1) - 1 = n /\ n + 1 # 0
    OBVIOUS
  <2>1. g[n + 1] = g[n] + t[n + 1]
    <3>1. g[n + 1] = SumsOf(t, n + 1, g)
      BY <1>2, <2>0
    <3> QED  BY <2>0, <3>1 DEF SumsOf
  <2>2. f[n + 1] = f[n] + s[n + 1]
    <3>1. f[n + 1] = SumsOf(s, n + 1, f)
      BY <1>1, <2>0
    <3> QED  BY <2>0, <3>1 DEF SumsOf
  <2>3. g[n] = f[n]
    BY <1>4, <2>0
  <2>4. t[n + 1] = s[n + 1]
    BY <2>0
  <2> QED  BY <2>1, <2>2, <2>3, <2>4
<1>5. \A n \in Nat : n \in T
  <2> HIDE DEF T
  <2> QED  BY <1>3, <1>4, Induction
<1>6. g[Len(s)] = f[Len(s)]
  BY <1>5
<1>7. g[Len(t)] = g[Len(s)] + t[Len(t)]
  <2>1. Len(t) \in 0 .. Len(t) /\ Len(t) - 1 = Len(s) /\ Len(t) # 0
    OBVIOUS
  <2>2. g[Len(t)] = SumsOf(t, Len(t), g)
    BY <1>2, <2>1
  <2> QED  BY <2>1, <2>2 DEF SumsOf
<1> QED  BY <1>1, <1>2, <1>6, <1>7
-----------------------------------------------------------------------------
(* Types by name, and the sizes of sized types. *)

\* The definition a name stands for.
DefinitionOf(t) ==
  /\ t \in TypeNames /\ DefIndex(t) \in DOMAIN Defs
  /\ DefOf(t) = Defs[DefIndex(t)]
  /\ DefOf(t) \in Definition /\ DefOf(t).name = t

LEMMA IndexedType == ASSUME NEW t, DefIndex(t) # 0 PROVE DefinitionOf(t)
<1>1. /\ \E k \in DOMAIN Defs : FirstNamed(k, t)
      /\ DefIndex(t) = CHOOSE k \in DOMAIN Defs : FirstNamed(k, t)
  BY DEF DefIndex
<1>2. DefIndex(t) \in DOMAIN Defs /\ FirstNamed(DefIndex(t), t)
  BY <1>1
<1>3. Defs[DefIndex(t)] \in Definition
  BY DefIndexFound
<1>4. DefOf(t) = Defs[DefIndex(t)]
  BY <1>1 DEF DefOf, FirstNamed
<1>5. Defs[DefIndex(t)].name = t
  BY <1>2 DEF FirstNamed
<1> QED  BY <1>2, <1>3, <1>4, <1>5 DEF DefinitionOf, TypeNames

LEMMA NamedType ==
  ASSUME NEW t \in TypeNames, t # "byte"
  PROVE  DefIndex(t) # 0 /\ DefinitionOf(t)
<1> DEFINE T == {k \in Nat : k \in DOMAIN Defs /\ Defs[k].name = t}
<1>1. DOMAIN Defs = 1 .. Len(Defs) /\ Len(Defs) \in Nat
  BY VisitorAssumption
<1>2. T # {}
  BY <1>1 DEF TypeNames
<1>3. T \in SUBSET Nat
  OBVIOUS
<1>4. PICK n \in T : \A k \in T : n <= k
  <2> HIDE DEF T
  <2> QED  BY <1>2, <1>3, LeastNumber
<1>5. n \in DOMAIN Defs /\ n \in Nat /\ Defs[n].name = t
  OBVIOUS
<1>6. ASSUME NEW j \in 1 .. n - 1 PROVE Defs[j].name # t
  <2>1. j \in DOMAIN Defs /\ j \in Nat /\ ~(n <= j)
    BY <1>1, <1>5
  <2> QED  BY <1>4, <2>1
<1>7. FirstNamed(n, t)
  <2> HIDE DEF T
  <2> QED  BY <1>5, <1>6 DEF FirstNamed
<1>8. DefIndex(t) \in DOMAIN Defs
  <2> HIDE DEF T
  <2> QED  BY <1>5, <1>7 DEF DefIndex
<1>9. DefIndex(t) # 0
  <2> HIDE DEF T
  <2> QED  BY <1>1, <1>8
<1> QED  BY <1>9, IndexedType

SizeOf(t, g) ==
  IF t = "byte" THEN 1
  ELSE IF DefOf(t).kind = "array" THEN DefOf(t).count * g[DefOf(t).item]
  ELSE Added([k \in DOMAIN DefOf(t).fields |-> g[DefOf(t).fields[k]]])

\* What an array or a struct is made of.
LEMMA InnerSized ==
  ASSUME NEW rank, SizesGrounded(rank), NEW t \in SizedTypes, t # "byte"
  PROVE  /\ DefinitionOf(t)
         /\ DefOf(t).kind \in {"array", "struct"}
         /\ DefOf(t).kind = "array" =>
              /\ DefOf(t).count \in Nat /\ DefOf(t).item \in SizedTypes
              /\ rank[DefOf(t).item] < rank[t]
         /\ DefOf(t).kind = "struct" =>
              /\ DefOf(t).fields \in Seq(SizedTypes)
              /\ \A k \in DOMAIN DefOf(t).fields : rank[DefOf(t).fields[k]] < rank[t]
<1>1. t \in TypeNames /\ DefOf(t).kind \in {"array", "struct"}
  BY DEF SizedTypes
<1>2. DefinitionOf(t)
  BY <1>1, NamedType
<1>3. DefOf(t).count \in Nat /\ DefOf(t).fields \in Seq(STRING)
  BY <1>2 DEF DefinitionOf, Definition
<1>4. \A u \in Inner(t) : u \in SizedTypes /\ rank[u] < rank[t]
  BY DEF SizesGrounded
<1>5. CASE DefOf(t).kind = "array"
  <2>1. DefOf(t).item \in Inner(t)
    BY <1>5 DEF Inner
  <2> QED  BY <1>1, <1>2, <1>3, <1>4, <1>5, <2>1
<1>6. CASE DefOf(t).kind = "struct"
  <2> DEFINE s == DefOf(t).fields
  <2>1. \A k \in DOMAIN s : s[k] \in Inner(t)
    BY <1>6 DEF Inner, Range
  <2>2. \A k \in DOMAIN s : s[k] \in SizedTypes /\ rank[s[k]] < rank[t]
    BY <1>4, <2>1
  <2>3. s \in Seq(SizedTypes)
    <3> HIDE DEF s
    <3>1. s \in Seq(STRING)
      BY <1>3 DEF s
    <3>2. \A k \in 1 .. Len(s) : s[k] \in SizedTypes
      BY <2>2, <3>1
    <3>3. Len(s) \in Nat /\ s = [k \in 1 .. Len(s) |-> s[k]]
      BY <3>1
    <3> QED  BY <3>2, <3>3
  <2> QED  BY <1>1, <1>2, <1>6, <2>2, <2>3
<1> QED  BY <1>1, <1>5, <1>6

\* The sizes of the fields of a struct are numbers.
LEMMA FieldSizes ==
  ASSUME NEW s \in Seq(SizedTypes), NEW g \in [SizedTypes -> Nat]
  PROVE  /\ [k \in DOMAIN s |-> g[s[k]]] \in Seq(Nat)
         /\ Added([k \in DOMAIN s |-> g[s[k]]]) \in Nat
<1>1. [k \in DOMAIN s |-> g[s[k]]] \in Seq(Nat)
  OBVIOUS
<1> QED  BY <1>1, SumIsNat

LEMMA SizeIsNat ==
  ASSUME NEW rank, SizesGrounded(rank), NEW t \in SizedTypes, NEW g \in [SizedTypes -> Nat]
  PROVE  SizeOf(t, g) \in Nat
<1>1. CASE t = "byte"
  BY <1>1 DEF SizeOf
<1>2. CASE t # "byte" /\ DefOf(t).kind = "array"
  <2>1. DefOf(t).count \in Nat /\ g[DefOf(t).item] \in Nat
    BY <1>2, InnerSized
  <2>2. \A m, n \in Nat : m * n \in Nat
    BY SMT
  <2> QED  BY <1>2, <2>1, <2>2 DEF SizeOf
<1>3. CASE t # "byte" /\ DefOf(t).kind # "array"
  <2>1. DefOf(t).fields \in Seq(SizedTypes)
    BY <1>3, InnerSized
  <2> QED  BY <1>3, <2>1, FieldSizes DEF SizeOf
<1> QED  BY <1>1, <1>2, <1>3

LEMMA SizeGrounded ==
  ASSUME NEW rank, SizesGrounded(rank), NEW t \in SizedTypes,
         NEW g, NEW h,
         \A u \in SizedTypes : rank[u] < rank[t] => g[u] = h[u]
  PROVE  SizeOf(t, g) = SizeOf(t, h)
<1>1. CASE t = "byte"
  BY <1>1 DEF SizeOf
<1>2. CASE t # "byte" /\ DefOf(t).kind = "array"
  <2>1. g[DefOf(t).item] = h[DefOf(t).item]
    BY <1>2, InnerSized
  <2> QED  BY <1>2, <2>1 DEF SizeOf
<1>3. CASE t # "byte" /\ DefOf(t).kind # "array"
  <2>1. /\ DefOf(t).fields \in Seq(SizedTypes)
        /\ \A k \in DOMAIN DefOf(t).fields : rank[DefOf(t).fields[k]] < rank[t]
    BY <1>3, InnerSized
  <2> DEFINE s == DefOf(t).fields
  <2>2. \A k \in DOMAIN s : g[s[k]] = h[s[k]]
    BY <2>1
  <2>3. [k \in DOMAIN s |-> g[s[k]]] = [k \in DOMAIN s |-> h[s[k]]]
    <3> HIDE DEF s
    <3> QED  BY <2>2
  <2> QED  BY <1>3, <2>3 DEF SizeOf
<1> QED  BY <1>1, <1>2, <1>3

LEMMA SizesDefined ==
  ASSUME NEW rank, SizesGrounded(rank)
  PROVE  \E f \in [SizedTypes -> Nat] :
           \A t \in SizedTypes : f[t] = SizeOf(t, f) /\ FixedSize(t) = f[t]
<1> DEFINE D == SizedTypes
           F == [t \in D |-> [g \in [D -> Nat] |-> SizeOf(t, g)]]
<1>1. F \in [D -> [[D -> Nat] -> Nat]]
  BY SizeIsNat
<1>2. Len(Defs) \in Nat /\ rank \in [D -> 0 .. Len(Defs)]
  BY VisitorAssumption DEF SizesGrounded
<1>3. ASSUME NEW t \in D, NEW g \in [D -> Nat], NEW h \in [D -> Nat],
             \A u \in D : rank[u] < rank[t] => g[u] = h[u]
      PROVE  F[t][g] = F[t][h]
  <2>1. SizeOf(t, g) = SizeOf(t, h)
    BY <1>3, SizeGrounded
  <2> QED  BY <2>1
<1>4. Grounded(D, Nat, Len(Defs), rank, F)
  <2> HIDE DEF D, F
  <2> QED  BY <1>1, <1>2, <1>3 DEF Grounded
<1>5. Defines(D, Nat, F)
  <2> HIDE DEF D, F
  <2> QED  BY <1>4, RecursionDefined
<1>6. PICK f \in [D -> Nat] : \A t \in D : f[t] = F[t][f]
  <2> HIDE DEF D, F
  <2> QED  BY <1>5 DEF Defines
<1>7. \A t \in D : f[t] = SizeOf(t, f)
  BY <1>6
<1>8. f = [t \in SizedTypes |->
             IF t = "byte" THEN 1
             ELSE IF DefOf(t).kind = "array" THEN DefOf(t).count * f[DefOf(t).item]
             ELSE Added([k \in DOMAIN DefOf(t).fields |-> f[DefOf(t).fields[k]]])]
  BY <1>7, SMTT(30) DEF SizeOf
<1>9. TotalSizes = [t \in SizedTypes |->
             IF t = "byte" THEN 1
             ELSE IF DefOf(t).kind = "array" THEN DefOf(t).count * TotalSizes[DefOf(t).item]
             ELSE Added([k \in DOMAIN DefOf(t).fields |-> TotalSizes[DefOf(t).fields[k]]])]
  BY <1>8 DEF TotalSizes
<1> DEFINE T == {n \in Nat : \A t \in D : rank[t] = n => TotalSizes[t] = f[t]}
<1>10. \A t \in D : TotalSizes[t] = SizeOf(t, TotalSizes)
  BY <1>9 DEF SizeOf
<1>11. ASSUME NEW n \in Nat, \A k \in 0 .. n - 1 : k \in T
       PROVE  n \in T
  <2> SUFFICES ASSUME NEW t \in D, rank[t] = n
               PROVE  TotalSizes[t] = f[t]
    OBVIOUS
  <2>1. ASSUME NEW u \in D, rank[u] < rank[t]
        PROVE  TotalSizes[u] = f[u]
    <3>1. rank[u] \in 0 .. n - 1
      BY <1>2, <2>1
    <3>2. rank[u] \in T
      BY <1>11, <3>1
    <3> QED  BY <3>2
  <2>2. SizeOf(t, TotalSizes) = SizeOf(t, f)
    <3> HIDE DEF T, F
    <3> QED  BY <2>1, SizeGrounded
  <2> QED  BY <1>7, <1>10, <2>2
<1>12. \A n \in Nat : n \in T
  <2> HIDE DEF T
  <2> QED  BY <1>11, StrongInduction
<1>13. \A t \in D : TotalSizes[t] = f[t]
  BY <1>2, <1>12
<1>14. \A t \in D : FixedSize(t) = TotalSizes[t]
  BY DEF FixedSize
<1> HIDE DEF T, F
<1> QED  BY <1>7, <1>13, <1>14

\* The size of a type is made of the sizes of its parts.
LEMMA FixedSizeParts ==
  ASSUME NEW rank, SizesGrounded(rank), NEW t \in SizedTypes
  PROVE  /\ FixedSize(t) \in Nat
         /\ t = "byte" => FixedSize(t) = 1
         /\ t # "byte" /\ DefOf(t).kind = "array" =>
              FixedSize(t) = DefOf(t).count * FixedSize(DefOf(t).item)
         /\ t # "byte" /\ DefOf(t).kind = "struct" =>
              /\ DefOf(t).fields \in Seq(SizedTypes)
              /\ FixedSize(t) = Added([k \in DOMAIN DefOf(t).fields |->
                                        FixedSize(DefOf(t).fields[k])])
<1>1. PICK f \in [SizedTypes -> Nat] :
        \A u \in SizedTypes : f[u] = SizeOf(u, f) /\ FixedSize(u) = f[u]
  BY SizesDefined
<1>2. FixedSize(t) = SizeOf(t, f) /\ FixedSize(t) \in Nat
  BY <1>1
<1>3. CASE t = "byte"
  BY <1>2, <1>3 DEF SizeOf
<1>4. CASE t # "byte" /\ DefOf(t).kind = "array"
  <2>1. FixedSize(t) = DefOf(t).count * f[DefOf(t).item]
    BY <1>2, <1>4 DEF SizeOf
  <2>2. DefOf(t).item \in SizedTypes
    BY <1>4, InnerSized
  <2>3. f[DefOf(t).item] = FixedSize(DefOf(t).item)
    BY <1>1, <2>2
  <2> QED  BY <1>2, <1>4, <2>1, <2>3
<1>5. CASE t # "byte" /\ DefOf(t).kind = "struct"
  <2> DEFINE s == DefOf(t).fields
  <2>1. s \in Seq(SizedTypes)
    BY <1>5, InnerSized
  <2>2. \A k \in DOMAIN s : f[s[k]] = FixedSize(s[k])
    BY <1>1, <2>1
  <2>3. [k \in DOMAIN s |-> f[s[k]]] = [k \in DOMAIN s |-> FixedSize(s[k])]
    <3> HIDE DEF s
    <3> QED  BY <2>2
  <2>4. FixedSize(t) = Added([k \in DOMAIN s |-> f[s[k]]])
    BY <1>2, <1>5 DEF SizeOf
  <2> QED  BY <1>2, <1>5, <2>1, <2>3, <2>4
<1>6. t # "byte" => DefOf(t).kind \in {"array", "struct"}
  BY DEF SizedTypes
<1> QED  BY <1>2, <1>3, <1>4, <1>5, <1>6

\* Where field k + 1 of a struct begins.
FieldsUpTo(s, k) == Added([j \in 1 .. k |-> FixedSize(s[j])])

LEMMA FieldsAdvance ==
  ASSUME NEW rank, SizesGrounded(rank), NEW s \in Seq(SizedTypes)
  PROVE  /\ \A k \in 0 .. Len(s) : FieldsUpTo(s, k) \in Nat
         /\ FieldsUpTo(s, 0) = 0
         /\ \A k \in 0 .. Len(s) - 1 :
              /\ FixedSize(s[k + 1]) \in Nat
              /\ FieldsUpTo(s, k + 1) = FieldsUpTo(s, k) + FixedSize(s[k + 1])
<1> DEFINE pre(k) == [j \in 1 .. k |-> FixedSize(s[j])]
<1>1. \A t \in SizedTypes : FixedSize(t) \in Nat
  BY FixedSizeParts
<1>2. \A k \in 0 .. Len(s) : pre(k) \in Seq(Nat) /\ Len(pre(k)) = k
  BY <1>1
<1>3. \A k \in 0 .. Len(s) : FieldsUpTo(s, k) = Added(pre(k))
  BY DEF FieldsUpTo
<1>4. \A k \in 0 .. Len(s) : FieldsUpTo(s, k) \in Nat
  <2> HIDE DEF pre
  <2> QED  BY <1>2, <1>3, SumIsNat
<1>5. FieldsUpTo(s, 0) = 0
  <2>1. 0 \in 0 .. Len(s)
    OBVIOUS
  <2> HIDE DEF pre
  <2> QED  BY <1>2, <1>3, <2>1, SumEmpty
<1>6. ASSUME NEW k \in 0 .. Len(s) - 1
      PROVE  /\ FixedSize(s[k + 1]) \in Nat
             /\ FieldsUpTo(s, k + 1) = FieldsUpTo(s, k) + FixedSize(s[k + 1])
  <2>1. k \in 0 .. Len(s) /\ k + 1 \in 0 .. Len(s) /\ k + 1 \in 1 .. Len(s)
    OBVIOUS
  <2>2. \A j \in 1 .. k : pre(k + 1)[j] = pre(k)[j]
    BY <2>1
  <2>3. pre(k + 1)[k + 1] = FixedSize(s[k + 1])
    BY <2>1
  <2>4. s[k + 1] \in SizedTypes
    BY <2>1
  <2>5. Added(pre(k + 1)) = Added(pre(k)) + pre(k + 1)[k + 1]
    <3>1. pre(k) \in Seq(Nat) /\ pre(k + 1) \in Seq(Nat) /\ Len(pre(k)) = k /\ Len(pre(k + 1)) = k + 1
      BY <1>2, <2>1
    <3> HIDE DEF pre
    <3> QED  BY <2>2, <3>1, SumLonger
  <2> HIDE DEF pre
  <2> QED  BY <1>1, <1>3, <2>1, <2>3, <2>4, <2>5
<1> QED  BY <1>4, <1>5, <1>6
-----------------------------------------------------------------------------
(* Values: Verify and Legible, one level at a time. *)

\* f tests a value: itself and all its parts.
Tests(D, base, kids, f) ==
  /\ f \in [D -> BOOLEAN]
  /\ \A x \in D : f[x] <=> base[x] /\ \A p \in kids[x] : p \in D /\ f[p]

Testable(D, base, kids) == \E f : Tests(D, base, kids, f)

\* A test of a value and of all its parts is a function, also on a schema that
\* has no end: the largest one that fits.
LEMMA TreesTested ==
  ASSUME NEW D, NEW base \in [D -> BOOLEAN], NEW kids
  PROVE  Testable(D, base, kids)
<1> DEFINE Whole2(S) == \A x \in S : base[x] /\ \A p \in kids[x] : p \in S
           G == {x \in D : \E S \in SUBSET D : x \in S /\ Whole2(S)}
           f == [x \in D |-> x \in G]
<1>1. ASSUME NEW x \in G
      PROVE  base[x] /\ \A p \in kids[x] : p \in G
  <2>1. PICK S \in SUBSET D : x \in S /\ Whole2(S)
    OBVIOUS
  <2>2. base[x] /\ \A p \in kids[x] : p \in S
    BY <2>1
  <2>3. \A p \in S : p \in G
    BY <2>1
  <2> QED  BY <2>2, <2>3
<1>2. ASSUME NEW x \in D, base[x], \A p \in kids[x] : p \in G
      PROVE  x \in G
  <2> DEFINE S == G \cup {x}
  <2>1. S \in SUBSET D
    BY <1>2
  <2>2. Whole2(S)
    <3> HIDE DEF G
    <3> QED  BY <1>1, <1>2
  <2> HIDE DEF S
  <2>3. x \in S
    BY DEF S
  <2> QED  BY <2>1, <2>2, <2>3
<1>3. G \subseteq D
  OBVIOUS
<1> HIDE DEF G, Whole2
<1>4. f \in [D -> BOOLEAN]
  OBVIOUS
<1>5. \A x \in D : f[x] <=> x \in G
  OBVIOUS
<1>6. ASSUME NEW x \in D
      PROVE  f[x] <=> base[x] /\ \A p \in kids[x] : p \in D /\ f[p]
  <2> DEFINE b == base[x] /\ \A p \in kids[x] : p \in D /\ f[p]
  <2>1. x \in G => b
    BY <1>1, <1>3, <1>5
  <2>2. b => x \in G
    BY <1>2, <1>5
  <2> QED  BY <1>5, <2>1, <2>2
<1> HIDE DEF f
<1>7. Tests(D, base, kids, f)
  BY <1>4, <1>6 DEF Tests
<1> QED  BY <1>7 DEF Testable

LegibleItself(mem, w) ==
  /\ w.typ = "String" => Utf8(mem, Content(w.cur, w.cur.size - NumSize))
  /\ w.typ = "Address" => WordAt(mem, w.cur.off) = 0

LEMMA VerifyDefined ==
  ASSUME NEW mem
  PROVE  \E f \in [TypedWindow -> BOOLEAN] :
           /\ \A w \in TypedWindow :
                f[w] <=> /\ WellSized(mem, w.cur, w.typ)
                         /\ \A p \in Kids(mem, w) : p \in TypedWindow /\ f[p]
           /\ \A c, t : Verify(mem, c, t) = f[[cur |-> c, typ |-> t]]
<1> DEFINE D == TypedWindow
           base == [w \in D |-> WellSized(mem, w.cur, w.typ) <=> TRUE]
           kids == [w \in D |-> Kids(mem, w)]
           ok[w \in TypedWindow] ==
             /\ WellSized(mem, w.cur, w.typ)
             /\ \A p \in Kids(mem, w) : p \in TypedWindow /\ ok[p]
<1>1. base \in [D -> BOOLEAN]
  OBVIOUS
<1>2. PICK f : Tests(D, base, kids, f)
  <2> HIDE DEF D, base, kids
  <2> QED  BY <1>1, TreesTested DEF Testable
<1>3. f = [w \in TypedWindow |->
             /\ WellSized(mem, w.cur, w.typ)
             /\ \A p \in Kids(mem, w) : p \in TypedWindow /\ f[p]]
  BY <1>2 DEF Tests
<1>4. ok = [w \in TypedWindow |->
             /\ WellSized(mem, w.cur, w.typ)
             /\ \A p \in Kids(mem, w) : p \in TypedWindow /\ ok[p]]
  BY <1>3
<1>5. \A c, t : Verify(mem, c, t) = ok[[cur |-> c, typ |-> t]]
  BY DEF Verify, ok
<1> HIDE DEF ok, base, kids
<1>6. ok \in [TypedWindow -> BOOLEAN]
  BY <1>4
<1>7. \A w \in TypedWindow :
        ok[w] <=> /\ WellSized(mem, w.cur, w.typ)
                  /\ \A p \in Kids(mem, w) : p \in TypedWindow /\ ok[p]
  BY <1>4
<1> QED  BY <1>5, <1>6, <1>7

LEMMA LegibleDefined ==
  ASSUME NEW mem
  PROVE  \E f \in [TypedWindow -> BOOLEAN] :
           /\ \A w \in TypedWindow :
                f[w] <=> /\ LegibleItself(mem, w)
                         /\ \A p \in Kids(mem, w) : p \in TypedWindow /\ f[p]
           /\ \A c, t : Legible(mem, c, t) = f[[cur |-> c, typ |-> t]]
<1> DEFINE D == TypedWindow
           base == [w \in D |-> LegibleItself(mem, w)]
           kids == [w \in D |-> Kids(mem, w)]
           ok[w \in TypedWindow] ==
             /\ w.typ = "String" => Utf8(mem, Content(w.cur, w.cur.size - NumSize))
             /\ w.typ = "Address" => WordAt(mem, w.cur.off) = 0
             /\ \A p \in Kids(mem, w) : p \in TypedWindow /\ ok[p]
<1>1. base \in [D -> BOOLEAN]
  BY DEF LegibleItself
<1>2. PICK f : Tests(D, base, kids, f)
  <2> HIDE DEF D, base, kids
  <2> QED  BY <1>1, TreesTested DEF Testable
<1>3. f = [w \in TypedWindow |->
             /\ w.typ = "String" => Utf8(mem, Content(w.cur, w.cur.size - NumSize))
             /\ w.typ = "Address" => WordAt(mem, w.cur.off) = 0
             /\ \A p \in Kids(mem, w) : p \in TypedWindow /\ f[p]]
  BY <1>2 DEF LegibleItself, Tests
<1>4. ok = [w \in TypedWindow |->
             /\ w.typ = "String" => Utf8(mem, Content(w.cur, w.cur.size - NumSize))
             /\ w.typ = "Address" => WordAt(mem, w.cur.off) = 0
             /\ \A p \in Kids(mem, w) : p \in TypedWindow /\ ok[p]]
  BY <1>3
<1>5. \A c, t : Legible(mem, c, t) = ok[[cur |-> c, typ |-> t]]
  BY DEF Legible, ok
<1> HIDE DEF ok, base, kids
<1>6. ok \in [TypedWindow -> BOOLEAN]
  BY <1>4
<1>7. \A w \in TypedWindow :
        ok[w] <=> /\ LegibleItself(mem, w)
                  /\ \A p \in Kids(mem, w) : p \in TypedWindow /\ ok[p]
  BY <1>4 DEF LegibleItself
<1> QED  BY <1>5, <1>6, <1>7

\* A value the readers accept and that can be shown.
Good(mem, c, t) ==
  /\ c \in Cursor /\ t \in TypeNames
  /\ Verify(mem, c, t) /\ Legible(mem, c, t)

LEMMA GoodSized ==
  ASSUME NEW mem, NEW c, NEW t, Good(mem, c, t)
  PROVE  WellSized(mem, c, t)
<1> DEFINE w == [cur |-> c, typ |-> t]
<1>1. w \in TypedWindow /\ w.cur = c /\ w.typ = t
  BY DEF Good, TypedWindow
<1>2. PICK f \in [TypedWindow -> BOOLEAN] :
        /\ \A x \in TypedWindow :
             f[x] <=> /\ WellSized(mem, x.cur, x.typ)
                      /\ \A p \in Kids(mem, x) : p \in TypedWindow /\ f[p]
        /\ \A d, u : Verify(mem, d, u) = f[[cur |-> d, typ |-> u]]
  BY VerifyDefined
<1>3. f[w]
  BY <1>2 DEF Good
<1> QED  BY <1>1, <1>2, <1>3

\* A value is good when it is so itself and all its parts are good.
LEMMA GoodWhole ==
  ASSUME NEW mem, NEW c \in Cursor, NEW t \in TypeNames,
         WellSized(mem, c, t), LegibleItself(mem, [cur |-> c, typ |-> t]),
         \A p \in Kids(mem, [cur |-> c, typ |-> t]) :
           p \in TypedWindow /\ Good(mem, p.cur, p.typ)
  PROVE  Good(mem, c, t)
<1> DEFINE w == [cur |-> c, typ |-> t]
<1>1. w \in TypedWindow /\ w.cur = c /\ w.typ = t
  BY DEF TypedWindow
<1>2. \A p \in TypedWindow : p = [cur |-> p.cur, typ |-> p.typ]
  BY DEF TypedWindow
<1>3. Verify(mem, c, t)
  <2>1. PICK f \in [TypedWindow -> BOOLEAN] :
          /\ \A x \in TypedWindow :
               f[x] <=> /\ WellSized(mem, x.cur, x.typ)
                        /\ \A p \in Kids(mem, x) : p \in TypedWindow /\ f[p]
          /\ \A d, u : Verify(mem, d, u) = f[[cur |-> d, typ |-> u]]
    BY VerifyDefined
  <2>2. \A p \in Kids(mem, w) : p \in TypedWindow /\ f[p]
    BY <1>2, <2>1 DEF Good
  <2> HIDE DEF w
  <2>3. f[w]
    BY <1>1, <2>1, <2>2
  <2> QED  BY <2>1, <2>3 DEF w
<1>4. Legible(mem, c, t)
  <2>1. PICK f \in [TypedWindow -> BOOLEAN] :
          /\ \A x \in TypedWindow :
               f[x] <=> /\ LegibleItself(mem, x)
                        /\ \A p \in Kids(mem, x) : p \in TypedWindow /\ f[p]
          /\ \A d, u : Legible(mem, d, u) = f[[cur |-> d, typ |-> u]]
    BY LegibleDefined
  <2>2. \A p \in Kids(mem, w) : p \in TypedWindow /\ f[p]
    BY <1>2, <2>1 DEF Good
  <2>4. LegibleItself(mem, w)
    OBVIOUS
  <2> HIDE DEF w
  <2>3. f[w]
    BY <1>1, <2>1, <2>2, <2>4
  <2> QED  BY <2>1, <2>3 DEF w
<1> QED  BY <1>3, <1>4 DEF Good
-----------------------------------------------------------------------------
(* The kinds of values, each from its parts. *)

LEMMA PartTyped ==
  ASSUME NEW mem, NEW d, NEW u, Good(mem, d, u)
  PROVE  [cur |-> d, typ |-> u] \in TypedWindow
BY DEF Good, TypedWindow

PartsGood(mem, g, n) ==
  /\ DOMAIN g = 1 .. n
  /\ \A k \in 1 .. n : g[k] \in TypedWindow /\ Good(mem, g[k].cur, g[k].typ)

LEMMA GoodFromParts ==
  ASSUME NEW mem, NEW c \in Cursor, NEW t \in TypeNames,
         WellSized(mem, c, t), LegibleItself(mem, [cur |-> c, typ |-> t]),
         NEW n, PartsGood(mem, Parts(mem, c, t), n)
  PROVE  Good(mem, c, t)
<1> DEFINE g == Parts(mem, c, t)
<1>1. \A p \in {g[k] : k \in DOMAIN g} : p \in TypedWindow /\ Good(mem, p.cur, p.typ)
  <2> HIDE DEF g
  <2>1. PartsGood(mem, g, n)
    BY DEF g
  <2> QED  BY <2>1 DEF PartsGood
<1>2. Kids(mem, [cur |-> c, typ |-> t]) = {g[k] : k \in DOMAIN g}
  BY DEF Kids
<1> HIDE DEF g
<1>3. \A p \in Kids(mem, [cur |-> c, typ |-> t]) :
        p \in TypedWindow /\ Good(mem, p.cur, p.typ)
  BY <1>1, <1>2
<1> QED  BY <1>3, GoodWhole

\* Only strings and addresses have something of their own to be legible.
LEMMA LegibleOther ==
  ASSUME NEW mem, NEW c, NEW t, t \notin {"String", "Address"}
  PROVE  LegibleItself(mem, [cur |-> c, typ |-> t])
BY DEF LegibleItself

LEMMA BuiltinDefinition ==
  ASSUME BuiltinsKept, NEW b \in BuiltinMol, DefinitionOf(b.name)
  PROVE  DefOf(b.name) = b
BY DEF BuiltinsKept, DefinitionOf

LEMMA Builtins ==
  ASSUME BuiltinsKept, NEW t, DefinitionOf(t)
  PROVE  /\ t = "String" => DefOf(t).kind = "fixvec" /\ DefOf(t).item = "byte"
         /\ t = "Bytes" => DefOf(t).kind = "fixvec" /\ DefOf(t).item = "byte"
         /\ t \in {"Byte32", "Uint64"} => DefOf(t).kind = "array" /\ DefOf(t).item = "byte"
         /\ t = "Byte32" => DefOf(t).count = Byte32Len
         /\ t = "Script" => /\ DefOf(t).kind = "table"
                            /\ DefOf(t).fields = <<"Byte32", "byte", "Bytes">>
         /\ t = "Address" => /\ DefOf(t).kind = "union"
                             /\ DefOf(t).pairs = <<[typ |-> "Script", id |-> 0]>>
<1>1. CASE t = "String"
  <2> DEFINE b == Fixvec("String", "byte")
  <2>1. b \in BuiltinMol /\ b.name = t /\ b.kind = "fixvec" /\ b.item = "byte"
    BY <1>1 DEF BuiltinMol, Fixvec, Blank
  <2> HIDE DEF b
  <2>2. DefOf(t) = b
    BY <2>1, BuiltinDefinition
  <2> QED  BY <1>1, <2>1, <2>2
<1>2. CASE t = "Bytes"
  <2> DEFINE b == Fixvec("Bytes", "byte")
  <2>1. b \in BuiltinMol /\ b.name = t /\ b.kind = "fixvec" /\ b.item = "byte"
    BY <1>2 DEF BuiltinMol, Fixvec, Blank
  <2> HIDE DEF b
  <2>2. DefOf(t) = b
    BY <2>1, BuiltinDefinition
  <2> QED  BY <1>2, <2>1, <2>2
<1>3. CASE t = "Byte32"
  <2> DEFINE b == Array("Byte32", "byte", Byte32Len)
  <2>1. b \in BuiltinMol /\ b.name = t /\ b.kind = "array" /\ b.item = "byte" /\ b.count = Byte32Len
    BY <1>3 DEF BuiltinMol, Array, Blank
  <2> HIDE DEF b
  <2>2. DefOf(t) = b
    BY <2>1, BuiltinDefinition
  <2> QED  BY <1>3, <2>1, <2>2
<1>4. CASE t = "Uint64"
  <2> DEFINE b == Array("Uint64", "byte", Uint64Len)
  <2>1. b \in BuiltinMol /\ b.name = t /\ b.kind = "array" /\ b.item = "byte"
    BY <1>4 DEF BuiltinMol, Array, Blank
  <2> HIDE DEF b
  <2>2. DefOf(t) = b
    BY <2>1, BuiltinDefinition
  <2> QED  BY <1>4, <2>1, <2>2
<1>5. CASE t = "Script"
  <2> DEFINE b == Table("Script", <<"Byte32", "byte", "Bytes">>)
  <2>1. b \in BuiltinMol /\ b.name = t /\ b.kind = "table" /\ b.fields = <<"Byte32", "byte", "Bytes">>
    BY <1>5 DEF BuiltinMol, ScriptMol, Table, Blank
  <2> HIDE DEF b
  <2>2. DefOf(t) = b
    BY <2>1, BuiltinDefinition
  <2> QED  BY <1>5, <2>1, <2>2
<1>6. CASE t = "Address"
  <2> DEFINE b == AddressMol
  <2>1. Numbered(<<"Script">>) = <<[typ |-> "Script", id |-> 0]>>
    BY DEF Numbered
  <2>2. b \in BuiltinMol /\ b.name = t /\ b.kind = "union" /\ b.pairs = Numbered(<<"Script">>)
    BY <1>6 DEF BuiltinMol, AddressMol, Union, Blank
  <2> HIDE DEF b
  <2>3. DefOf(t) = b
    BY <2>2, BuiltinDefinition
  <2> QED  BY <1>6, <2>1, <2>2, <2>3
<1> QED  BY <1>1, <1>2, <1>3, <1>4, <1>5, <1>6

\* The kind tells that a type is neither String nor Address.
LEMMA LegibleByKind ==
  ASSUME BuiltinsKept, NEW t, DefinitionOf(t), DefOf(t).kind \notin {"fixvec", "union"},
         NEW mem, NEW c
  PROVE  LegibleItself(mem, [cur |-> c, typ |-> t])
<1>1. t \notin {"String", "Address"}
  BY Builtins
<1> QED  BY <1>1, LegibleOther

LEMMA GoodByte ==
  ASSUME NEW mem, NEW c \in Cursor, c.size = 1
  PROVE  Good(mem, c, "byte")
<1>1. "byte" \in TypeNames
  BY DEF TypeNames
<1>2. WellSized(mem, c, "byte")
  BY DEF WellSized
<1>3. PartsGood(mem, Parts(mem, c, "byte"), 0)
  BY DEF Parts, PartsGood
<1>4. LegibleItself(mem, [cur |-> c, typ |-> "byte"])
  BY LegibleOther
<1> QED  BY <1>1, <1>2, <1>3, <1>4, GoodFromParts

At(c, o, n) == [off |-> c.off + o, size |-> n]

LEMMA GoodArray ==
  ASSUME NEW rank, SizesGrounded(rank), BuiltinsKept,
         NEW mem, NEW c \in Cursor, NEW t, t # "byte", DefinitionOf(t),
         DefOf(t).kind = "array",
         c.size = DefOf(t).count * FixedSize(DefOf(t).item),
         \A k \in 0 .. DefOf(t).count - 1 :
           Good(mem, At(c, k * FixedSize(DefOf(t).item), FixedSize(DefOf(t).item)),
                DefOf(t).item)
  PROVE  Good(mem, c, t)
<1> DEFINE n == DefOf(t).count
           step == FixedSize(DefOf(t).item)
           g == [k \in 1 .. n |->
                  [cur |-> At(c, (k - 1) * step, step), typ |-> DefOf(t).item]]
<1>1. t \in TypeNames /\ n \in Nat
  BY DEF DefinitionOf, Definition
<1>2. t \in SizedTypes
  BY <1>1 DEF SizedTypes
<1>3. WellSized(mem, c, t)
  <2>1. c.size = FixedSize(t)
    BY <1>2, FixedSizeParts
  <2> QED  BY <2>1 DEF WellSized
<1>4. Parts(mem, c, t) = g
  BY DEF Parts, At
<1>5. PartsGood(mem, g, n)
  <2>1. DOMAIN g = 1 .. n
    OBVIOUS
  <2>2. ASSUME NEW k \in 1 .. n
        PROVE  g[k] \in TypedWindow /\ Good(mem, g[k].cur, g[k].typ)
    <3>1. k - 1 \in 0 .. n - 1
      BY <1>1
    <3>2. Good(mem, At(c, (k - 1) * step, step), DefOf(t).item)
      BY <3>1
    <3>3. g[k] = [cur |-> At(c, (k - 1) * step, step), typ |-> DefOf(t).item]
      OBVIOUS
    <3> HIDE DEF g, step
    <3> QED  BY <3>2, <3>3, PartTyped
  <2> HIDE DEF g
  <2> QED  BY <2>1, <2>2 DEF PartsGood
<1>6. LegibleItself(mem, [cur |-> c, typ |-> t])
  BY LegibleByKind
<1> HIDE DEF g
<1> QED  BY <1>1, <1>3, <1>4, <1>5, <1>6, GoodFromParts

LEMMA GoodStruct ==
  ASSUME NEW rank, SizesGrounded(rank), BuiltinsKept,
         NEW mem, NEW c \in Cursor, NEW t, t # "byte", DefinitionOf(t),
         DefOf(t).kind = "struct",
         c.size = FieldsUpTo(DefOf(t).fields, Len(DefOf(t).fields)),
         \A k \in 0 .. Len(DefOf(t).fields) - 1 :
           Good(mem, At(c, FieldsUpTo(DefOf(t).fields, k), FixedSize(DefOf(t).fields[k + 1])),
                DefOf(t).fields[k + 1])
  PROVE  Good(mem, c, t)
<1> DEFINE s == DefOf(t).fields
           n == Len(s)
           g == [k \in DOMAIN s |->
                  [cur |-> At(c, FieldsUpTo(s, k - 1), FixedSize(s[k])), typ |-> s[k]]]
<1>1. t \in TypeNames
  BY DEF DefinitionOf
<1>2. t \in SizedTypes
  BY <1>1 DEF SizedTypes
<1>3. s \in Seq(SizedTypes) /\ FixedSize(t) = Added([k \in DOMAIN s |-> FixedSize(s[k])])
  BY <1>2, FixedSizeParts
<1>4. DOMAIN s = 1 .. n /\ n \in Nat
  <2> HIDE DEF s
  <2> QED  BY <1>3
<1>5. WellSized(mem, c, t)
  <2>1. FixedSize(t) = FieldsUpTo(s, n)
    BY <1>3, <1>4 DEF FieldsUpTo
  <2>2. c.size = FixedSize(t)
    BY <2>1
  <2> QED  BY <2>2 DEF WellSized
<1>6. Parts(mem, c, t) = g
  BY DEF Parts, At, FieldsUpTo
<1>7. PartsGood(mem, g, n)
  <2>1. DOMAIN g = 1 .. n
    BY <1>4
  <2>2. ASSUME NEW k \in 1 .. n
        PROVE  g[k] \in TypedWindow /\ Good(mem, g[k].cur, g[k].typ)
    <3>1. k - 1 \in 0 .. n - 1 /\ (k - 1) + 1 = k
      BY <1>4
    <3>2. Good(mem, At(c, FieldsUpTo(s, k - 1), FixedSize(s[k])), s[k])
      BY <3>1
    <3>3. g[k] = [cur |-> At(c, FieldsUpTo(s, k - 1), FixedSize(s[k])), typ |-> s[k]]
      BY <1>4
    <3> HIDE DEF g, s
    <3> QED  BY <3>2, <3>3, PartTyped
  <2> HIDE DEF g
  <2> QED  BY <2>1, <2>2 DEF PartsGood
<1>8. LegibleItself(mem, [cur |-> c, typ |-> t])
  BY LegibleByKind
<1> HIDE DEF g
<1> QED  BY <1>1, <1>5, <1>6, <1>7, <1>8, GoodFromParts

\* The parts of a vector or table, all of them good.
LEMMA PartsFrom ==
  ASSUME NEW mem, NEW n \in Nat, NEW g, DOMAIN g = 1 .. n,
         NEW cur, NEW typ,
         \A k \in 1 .. n : g[k] = [cur |-> cur[k], typ |-> typ[k]],
         \A k \in 1 .. n : Good(mem, cur[k], typ[k])
  PROVE  PartsGood(mem, g, n)
<1>1. ASSUME NEW k \in 1 .. n
      PROVE  g[k] \in TypedWindow /\ Good(mem, g[k].cur, g[k].typ)
  <2>1. g[k] = [cur |-> cur[k], typ |-> typ[k]] /\ Good(mem, cur[k], typ[k])
    OBVIOUS
  <2> QED  BY <2>1, PartTyped
<1> QED  BY <1>1 DEF PartsGood

LEMMA GoodFixvec ==
  ASSUME BuiltinsKept,
         NEW mem, NEW c \in Cursor, NEW t, t # "byte", DefinitionOf(t),
         DefOf(t).kind = "fixvec",
         NEW n \in Nat, WordAt(mem, c.off) = n,
         c.size >= NumSize,
         c.size = NumSize + FixedSize(DefOf(t).item) * n,
         t = "String" => Utf8(mem, Content(c, c.size - NumSize)),
         \A k \in 0 .. n - 1 :
           Good(mem, At(c, NumSize + k * FixedSize(DefOf(t).item), FixedSize(DefOf(t).item)),
                DefOf(t).item)
  PROVE  Good(mem, c, t)
<1> DEFINE step == FixedSize(DefOf(t).item)
           cur == [k \in 1 .. n |-> At(c, NumSize + (k - 1) * step, step)]
           typ == [k \in 1 .. n |-> DefOf(t).item]
           g == [k \in 1 .. n |-> [cur |-> At(c, NumSize + (k - 1) * step, step),
                                   typ |-> DefOf(t).item]]
<1>1. t \in TypeNames
  BY DEF DefinitionOf
<1>2. WellSized(mem, c, t)
  BY DEF WellSized
<1>3. Parts(mem, c, t) = g
  BY DEF Parts, At
<1>4. PartsGood(mem, g, n)
  <2>1. \A k \in 1 .. n : g[k] = [cur |-> cur[k], typ |-> typ[k]]
    OBVIOUS
  <2>2. ASSUME NEW k \in 1 .. n PROVE Good(mem, cur[k], typ[k])
    <3>1. k - 1 \in 0 .. n - 1
      OBVIOUS
    <3>2. Good(mem, At(c, NumSize + (k - 1) * step, step), DefOf(t).item)
      BY <3>1
    <3>3. cur[k] = At(c, NumSize + (k - 1) * step, step) /\ typ[k] = DefOf(t).item
      OBVIOUS
    <3> HIDE DEF cur, typ, step
    <3> QED  BY <3>2, <3>3
  <2>3. DOMAIN g = 1 .. n
    OBVIOUS
  <2> HIDE DEF g, cur, typ
  <2> QED  BY <2>1, <2>2, <2>3, PartsFrom
<1>5. LegibleItself(mem, [cur |-> c, typ |-> t])
  <2>1. t # "Address"
    BY Builtins
  <2> QED  BY <2>1 DEF LegibleItself
<1> HIDE DEF g
<1> QED  BY <1>1, <1>2, <1>3, <1>4, <1>5, GoodFromParts

LEMMA GoodOption ==
  ASSUME BuiltinsKept,
         NEW mem, NEW c \in Cursor, NEW t, t # "byte", DefinitionOf(t),
         DefOf(t).kind = "option",
         c.size # 0 => Good(mem, At(c, 0, c.size), DefOf(t).item)
  PROVE  Good(mem, c, t)
<1>1. t \in TypeNames
  BY DEF DefinitionOf
<1>2. WellSized(mem, c, t)
  BY DEF WellSized
<1>3. LegibleItself(mem, [cur |-> c, typ |-> t])
  BY LegibleByKind
<1>4. CASE c.size = 0
  <2>1. PartsGood(mem, Parts(mem, c, t), 0)
    BY <1>4 DEF Parts, PartsGood
  <2> QED  BY <1>1, <1>2, <1>3, <2>1, GoodFromParts
<1>5. CASE c.size # 0
  <2> DEFINE p == [cur |-> At(c, 0, c.size), typ |-> DefOf(t).item]
  <2>1. Parts(mem, c, t) = <<p>>
    BY <1>5 DEF Parts, At
  <2>2. p \in TypedWindow /\ Good(mem, p.cur, p.typ)
    BY <1>5, PartTyped
  <2> HIDE DEF p
  <2>3. PartsGood(mem, <<p>>, 1)
    BY <2>2 DEF PartsGood
  <2> QED  BY <1>1, <1>2, <1>3, <2>1, <2>3, GoodFromParts
<1> QED  BY <1>4, <1>5

LEMMA VariantAgrees ==
  ASSUME NEW pairs, NEW id, VariantIndex(pairs, id) # 0
  PROVE  /\ HasVariant(pairs, id)
         /\ Variant(pairs, id) = pairs[VariantIndex(pairs, id)].typ
BY DEF VariantIndex, FirstVariant, HasVariant, Variant

LEMMA GoodUnion ==
  ASSUME BuiltinsKept,
         NEW mem, NEW c \in Cursor, NEW t, t # "byte", DefinitionOf(t),
         DefOf(t).kind = "union", c.size >= NumSize,
         VariantIndex(DefOf(t).pairs, WordAt(mem, c.off)) # 0,
         t = "Address" => WordAt(mem, c.off) = 0,
         Good(mem, At(c, NumSize, c.size - NumSize),
              DefOf(t).pairs[VariantIndex(DefOf(t).pairs, WordAt(mem, c.off))].typ)
  PROVE  Good(mem, c, t)
<1> DEFINE id == WordAt(mem, c.off)
           u == Variant(DefOf(t).pairs, id)
           p == [cur |-> At(c, NumSize, c.size - NumSize), typ |-> u]
<1>0. HasVariant(DefOf(t).pairs, id) /\ u = DefOf(t).pairs[VariantIndex(DefOf(t).pairs, id)].typ
  BY VariantAgrees
<1>1. t \in TypeNames
  BY DEF DefinitionOf
<1>2. WellSized(mem, c, t)
  BY <1>0 DEF WellSized
<1>3. LegibleItself(mem, [cur |-> c, typ |-> t])
  <2>1. t # "String"
    BY Builtins
  <2> QED  BY <2>1 DEF LegibleItself
<1>4. Parts(mem, c, t) = <<p>>
  BY DEF Parts, At
<1>5. Good(mem, At(c, NumSize, c.size - NumSize), u)
  BY <1>0
<1>6. p \in TypedWindow /\ Good(mem, p.cur, p.typ)
  BY <1>5, PartTyped
<1> HIDE DEF p
<1>7. PartsGood(mem, <<p>>, 1)
  BY <1>6 DEF PartsGood
<1> QED  BY <1>1, <1>2, <1>3, <1>4, <1>7, GoodFromParts

LEMMA GoodEmptyDynvec ==
  ASSUME BuiltinsKept,
         NEW mem, NEW c \in Cursor, NEW t, t # "byte", DefinitionOf(t),
         DefOf(t).kind = "dynvec", c.size = NumSize, WordAt(mem, c.off) = NumSize
  PROVE  Good(mem, c, t)
<1>1. t \in TypeNames
  BY DEF DefinitionOf
<1>2. WellSized(mem, c, t)
  BY DEF WellSized
<1>3. LegibleItself(mem, [cur |-> c, typ |-> t])
  BY LegibleByKind
<1>4. PartsGood(mem, Parts(mem, c, t), 0)
  BY DEF Parts, PartsGood
<1> QED  BY <1>1, <1>2, <1>3, <1>4, GoodFromParts

\* Slice k of a dynvec or table with n items.
Slice(mem, c, k, n) ==
  At(c, OffsetAt(mem, c, k, n), OffsetAt(mem, c, k + 1, n) - OffsetAt(mem, c, k, n))

LEMMA GoodDynvec ==
  ASSUME BuiltinsKept,
         NEW mem, NEW c \in Cursor, NEW t, t # "byte", DefinitionOf(t),
         DefOf(t).kind = "dynvec", Framed(mem, c), NEW n \in Nat, n = Items(mem, c),
         \A k \in 0 .. n - 1 : Good(mem, Slice(mem, c, k, n), DefOf(t).item)
  PROVE  Good(mem, c, t)
<1> DEFINE cur == [k \in 1 .. n |->
                     At(c, OffsetAt(mem, c, k - 1, n),
                        OffsetAt(mem, c, k, n) - OffsetAt(mem, c, k - 1, n))]
           typ == [k \in 1 .. n |-> DefOf(t).item]
           g == [k \in 1 .. n |-> [cur |-> At(c, OffsetAt(mem, c, k - 1, n),
                        OffsetAt(mem, c, k, n) - OffsetAt(mem, c, k - 1, n)),
                                   typ |-> DefOf(t).item]]
<1>1. t \in TypeNames
  BY DEF DefinitionOf
<1>2. WellSized(mem, c, t)
  BY DEF WellSized
<1>3. Parts(mem, c, t) = g
  <2>1. c.size # NumSize
    BY DEF Framed, Cursor, NumSize
  <2> QED  BY <2>1 DEF Parts, At
<1>4. PartsGood(mem, g, n)
  <2>1. \A k \in 1 .. n : g[k] = [cur |-> cur[k], typ |-> typ[k]]
    OBVIOUS
  <2>2. ASSUME NEW k \in 1 .. n PROVE Good(mem, cur[k], typ[k])
    <3>1. k - 1 \in 0 .. n - 1 /\ (k - 1) + 1 = k
      OBVIOUS
    <3>2. Good(mem, Slice(mem, c, k - 1, n), DefOf(t).item)
      BY <3>1
    <3>3. cur[k] = Slice(mem, c, k - 1, n) /\ typ[k] = DefOf(t).item
      BY <3>1 DEF Slice
    <3> HIDE DEF cur, typ
    <3> QED  BY <3>2, <3>3
  <2>3. DOMAIN g = 1 .. n
    OBVIOUS
  <2> HIDE DEF g, cur, typ
  <2> QED  BY <2>1, <2>2, <2>3, PartsFrom
<1>5. LegibleItself(mem, [cur |-> c, typ |-> t])
  BY LegibleByKind
<1> HIDE DEF g
<1> QED  BY <1>1, <1>2, <1>3, <1>4, <1>5, GoodFromParts

LEMMA GoodTable ==
  ASSUME BuiltinsKept,
         NEW mem, NEW c \in Cursor, NEW t, t # "byte", DefinitionOf(t),
         DefOf(t).kind = "table", Framed(mem, c), NEW n \in Nat, n = Items(mem, c),
         n = Len(DefOf(t).fields),
         \A k \in 0 .. n - 1 : Good(mem, Slice(mem, c, k, n), DefOf(t).fields[k + 1])
  PROVE  Good(mem, c, t)
<1> DEFINE cur == [k \in 1 .. n |->
                     At(c, OffsetAt(mem, c, k - 1, n),
                        OffsetAt(mem, c, k, n) - OffsetAt(mem, c, k - 1, n))]
           typ == DefOf(t).fields
           g == [k \in DOMAIN typ |-> [cur |-> At(c, OffsetAt(mem, c, k - 1, n),
                        OffsetAt(mem, c, k, n) - OffsetAt(mem, c, k - 1, n)),
                                   typ |-> typ[k]]]
<1>1. t \in TypeNames /\ typ \in Seq(STRING)
  BY DEF DefinitionOf, Definition
<1>2. WellSized(mem, c, t)
  BY DEF WellSized
<1>3. Parts(mem, c, t) = g
  BY DEF Parts, At
<1>4. PartsGood(mem, g, n)
  <2>0. DOMAIN typ = 1 .. n
    BY <1>1
  <2>1. \A k \in 1 .. n : g[k] = [cur |-> cur[k], typ |-> typ[k]]
    <3> HIDE DEF typ
    <3> QED  BY <2>0
  <2>2. ASSUME NEW k \in 1 .. n PROVE Good(mem, cur[k], typ[k])
    <3>1. k - 1 \in 0 .. n - 1 /\ (k - 1) + 1 = k
      OBVIOUS
    <3>2. Good(mem, Slice(mem, c, k - 1, n), typ[k])
      BY <3>1
    <3>3. cur[k] = Slice(mem, c, k - 1, n)
      BY <3>1 DEF Slice
    <3> HIDE DEF cur, typ
    <3> QED  BY <3>2, <3>3
  <2>3. DOMAIN g = 1 .. n
    BY <2>0
  <2> HIDE DEF g, cur, typ
  <2> QED  BY <2>1, <2>2, <2>3, PartsFrom
<1>5. LegibleItself(mem, [cur |-> c, typ |-> t])
  BY LegibleByKind
<1> HIDE DEF g
<1> QED  BY <1>1, <1>2, <1>3, <1>4, <1>5, GoodFromParts
-----------------------------------------------------------------------------
(* Strings: what utf8_check lets pass is UTF-8. *)

\* c is UTF-8 from its byte p on.
Utf8From(mem, c, p) ==
  LET from[x \in 0 .. c.size] ==
        \/ x = c.size
        \/ /\ Complete(mem, c, x, c.size) /\ ~Malformed(mem, c, x, c.size)
           /\ from[x + SeqLen(ByteAt(mem, c.off + x))]
  IN  from[p]

LEMMA Utf8Step ==
  ASSUME NEW mem \in Seq(Byte), NEW c \in Cursor, Validates(mem, c), NEW p \in 0 .. c.size
  PROVE  Utf8From(mem, c, p) <=>
           p = c.size \/ (~Stops(mem, c, p, c.size) /\ Utf8From(mem, c, Behind(mem, c, p)))
<1> DEFINE D == 0 .. c.size
           base == [x \in D |-> x = c.size \/ ~Stops(mem, c, x, c.size)]
           kids == [x \in D |-> IF x = c.size THEN {} ELSE {Behind(mem, c, x)}]
           from[x \in 0 .. c.size] ==
             \/ x = c.size
             \/ /\ Complete(mem, c, x, c.size) /\ ~Malformed(mem, c, x, c.size)
                /\ from[x + SeqLen(ByteAt(mem, c.off + x))]
<1>0. c.size \in Nat /\ c.off \in Nat /\ c.off + c.size <= Len(mem)
  BY DEF Cursor, Validates, TotalSize
<1>1. base \in [D -> BOOLEAN]
  OBVIOUS
<1>2. PICK f : Tests(D, base, kids, f)
  <2> HIDE DEF D, base, kids
  <2> QED  BY <1>1, TreesTested DEF Testable
<1>3. ASSUME NEW x \in D, ~Stops(mem, c, x, c.size)
      PROVE  Behind(mem, c, x) \in D
  BY <1>0, <1>3, WalkClimbs
<1>4. ASSUME NEW x \in D
      PROVE  f[x] <=> x = c.size \/ (~Stops(mem, c, x, c.size) /\ f[Behind(mem, c, x)])
  <2>1. f[x] <=> base[x] /\ \A p2 \in kids[x] : p2 \in D /\ f[p2]
    BY <1>2 DEF Tests
  <2>2. base[x] = (x = c.size \/ ~Stops(mem, c, x, c.size))
    OBVIOUS
  <2>3. kids[x] = IF x = c.size THEN {} ELSE {Behind(mem, c, x)}
    OBVIOUS
  <2> HIDE DEF base, kids, D
  <2>4. CASE x = c.size
    BY <2>1, <2>2, <2>3, <2>4
  <2>5. CASE x # c.size
    BY <2>1, <2>2, <2>3, <2>5, <1>3
  <2> QED  BY <2>4, <2>5
<1>5. f \in [D -> BOOLEAN]
  BY <1>2 DEF Tests
<1>6. f = [x \in 0 .. c.size |->
             \/ x = c.size
             \/ /\ Complete(mem, c, x, c.size) /\ ~Malformed(mem, c, x, c.size)
                /\ f[x + SeqLen(ByteAt(mem, c.off + x))]]
  <2> HIDE DEF base, kids
  <2> QED  BY <1>4, <1>5 DEF Stops, Behind
<1>7. from = [x \in 0 .. c.size |->
             \/ x = c.size
             \/ /\ Complete(mem, c, x, c.size) /\ ~Malformed(mem, c, x, c.size)
                /\ from[x + SeqLen(ByteAt(mem, c.off + x))]]
  BY <1>6
<1>8. \A x : Utf8From(mem, c, x) = from[x]
  BY DEF Utf8From
<1> HIDE DEF from, base, kids
<1>9. from[p] = (\/ p = c.size
                 \/ /\ Complete(mem, c, p, c.size) /\ ~Malformed(mem, c, p, c.size)
                    /\ from[p + SeqLen(ByteAt(mem, c.off + p))])
  BY <1>7
<1> QED  BY <1>8, <1>9 DEF Stops, Behind

\* What a round walks over is UTF-8 if the rest is.
LEMMA Utf8Walked ==
  ASSUME NEW mem \in Seq(Byte), NEW c \in Cursor, Validates(mem, c),
         NEW w \in 0 .. c.size, NEW p \in 0 .. w,
         Utf8From(mem, c, Processed(mem, c, p, w))
  PROVE  Utf8From(mem, c, p)
<1> DEFINE T == {d \in Nat : \A q \in 0 .. w : w - q = d =>
                   (Utf8From(mem, c, Processed(mem, c, q, w)) => Utf8From(mem, c, q))}
<1>0. c.size \in Nat /\ c.off \in Nat /\ c.off + c.size <= Len(mem) /\ Len(mem) \in Nat
  BY DEF Cursor, Validates, TotalSize
<1>1. c.off + w <= Len(mem) /\ w \in Nat
  BY <1>0
<1>2. ASSUME NEW d \in Nat, \A e \in 0 .. d - 1 : e \in T
      PROVE  d \in T
  <2> SUFFICES ASSUME NEW q \in 0 .. w, w - q = d,
                      Utf8From(mem, c, Processed(mem, c, q, w))
               PROVE  Utf8From(mem, c, q)
    OBVIOUS
  <2>1. CASE Stops(mem, c, q, w)
    BY <1>1, <2>1, ProcessedStep
  <2>2. CASE ~Stops(mem, c, q, w)
    <3> DEFINE n == Behind(mem, c, q)
    <3>1. n \in q + 1 .. w
      BY <1>1, <2>2, WalkClimbs
    <3>2. Processed(mem, c, q, w) = Processed(mem, c, n, w)
      BY <1>1, <2>2, ProcessedStep
    <3>3. ~Stops(mem, c, q, c.size)
      <4>1. q < w /\ w <= c.size
        BY <1>0, <2>2 DEF Stops, Complete
      <4>2. SeqLen(ByteAt(mem, c.off + q)) \in 0 .. Utf8BufLen
        <5>1. c.off + q \in Nat /\ c.off + q < Len(mem)
          BY <1>0, <4>1
        <5> QED  BY <5>1, Announces
      <4> DEFINE l == SeqLen(ByteAt(mem, c.off + q))
      <4>3. l \in Nat /\ q + l <= w /\ l # 0
        BY <2>2, <4>2, Utf8Assumption DEF Stops, Complete
      <4>4. q + l <= c.size /\ q < c.size
        BY <1>0, <4>1, <4>3
      <4> QED  BY <2>2, <4>1, <4>3, <4>4 DEF Stops, Complete, Malformed
    <3>4. q \in 0 .. c.size
      BY <1>0
    <3>5. Utf8From(mem, c, n) => Utf8From(mem, c, q)
      BY <3>3, <3>4, Utf8Step
    <3> HIDE DEF n
    <3>6. n \in 0 .. w /\ w - n \in 0 .. d - 1
      BY <1>1, <3>1
    <3>7. Utf8From(mem, c, Processed(mem, c, n, w)) => Utf8From(mem, c, n)
      BY <1>2, <3>6
    <3> QED  BY <3>2, <3>5, <3>7
  <2> QED  BY <2>1, <2>2
<1>3. \A d \in Nat : d \in T
  <2> HIDE DEF T
  <2> QED  BY <1>2, StrongInduction
<1>4. w - p \in Nat
  BY <1>1
<1> QED  BY <1>3, <1>4

\* A check that succeeds has read all of its window.
LEMMA CheckedInside ==
  ASSUME NEW mem \in Seq(Byte), NEW c \in Cursor, c.off <= Len(mem),
         Utf8Result(mem, c) = "ok"
  PROVE  Validates(mem, c)
<1> DEFINE T == {d \in Nat : \A p \in 0 .. c.size : c.size - p = d =>
                   (ResultFrom(mem, c, p) = "ok" => p = c.size \/ Validates(mem, c))}
<1>0. c.size \in Nat /\ c.off \in Nat /\ Len(mem) \in Nat
  BY DEF Cursor
<1>1. ASSUME NEW d \in Nat, \A e \in 0 .. d - 1 : e \in T
      PROVE  d \in T
  <2> SUFFICES ASSUME NEW p \in 0 .. c.size, c.size - p = d,
                      ResultFrom(mem, c, p) = "ok", p # c.size
               PROVE  Validates(mem, c)
    OBVIOUS
  <2> DEFINE q == BufferWalk(mem, c, p)
             w == BufferEnd(c, p)
  <2>1. ~ReadsPast(mem, c, p) /\ ~Rejects(mem, c, p) /\ ResultFrom(mem, c, q) = "ok"
    BY ResultStep
  <2>2. q \in p .. w /\ q \in 0 .. c.size /\ q > p
    BY <2>1, RoundClimbs
  <2>3. w \in p .. c.size
    BY BufferEndType
  <2>4. c.off + w <= Len(mem)
    BY <1>0, <2>1, <2>3 DEF ReadsPast, TotalSize
  <2> HIDE DEF q, w
  <2>5. c.size - q \in 0 .. d - 1
    BY <1>0, <2>2
  <2>6. q = c.size \/ Validates(mem, c)
    BY <1>1, <2>1, <2>2, <2>5
  <2>7. q = c.size => w = c.size
    BY <1>0, <2>2, <2>3
  <2> QED  BY <2>4, <2>6, <2>7 DEF Validates, TotalSize
<1>2. \A d \in Nat : d \in T
  <2> HIDE DEF T
  <2> QED  BY <1>1, StrongInduction
<1>3. 0 \in 0 .. c.size /\ c.size - 0 \in Nat
  BY <1>0
<1>4. ResultFrom(mem, c, 0) = "ok"
  BY DEF ResultFrom, Utf8Result
<1>5. 0 = c.size \/ Validates(mem, c)
  BY <1>2, <1>3, <1>4
<1> QED  BY <1>0, <1>5 DEF Validates, TotalSize

LEMMA CheckedIsUtf8 ==
  ASSUME NEW mem \in Seq(Byte), NEW c \in Cursor, c.off <= Len(mem),
         Utf8Result(mem, c) = "ok"
  PROVE  Validates(mem, c) /\ Utf8(mem, c)
<1> DEFINE T == {d \in Nat : \A p \in 0 .. c.size : c.size - p = d =>
                   (ResultFrom(mem, c, p) = "ok" => Utf8From(mem, c, p))}
<1>0. c.size \in Nat /\ Validates(mem, c)
  BY CheckedInside DEF Cursor
<1>1. ASSUME NEW d \in Nat, \A e \in 0 .. d - 1 : e \in T
      PROVE  d \in T
  <2> SUFFICES ASSUME NEW p \in 0 .. c.size, c.size - p = d,
                      ResultFrom(mem, c, p) = "ok"
               PROVE  Utf8From(mem, c, p)
    OBVIOUS
  <2>1. CASE p = c.size
    BY <1>0, <2>1, Utf8Step
  <2>2. CASE p # c.size
    <3> DEFINE q == BufferWalk(mem, c, p)
               w == BufferEnd(c, p)
    <3>1. ~ReadsPast(mem, c, p) /\ ~Rejects(mem, c, p) /\ ResultFrom(mem, c, q) = "ok"
      BY <2>2, ResultStep
    <3>2. q \in 0 .. c.size /\ q > p
      BY <3>1, RoundClimbs
    <3>3. w \in p .. c.size
      BY BufferEndType
    <3>4. q = Processed(mem, c, p, w)
      BY DEF BufferWalk
    <3> HIDE DEF q, w
    <3>5. c.size - q \in 0 .. d - 1
      BY <1>0, <3>2
    <3>6. Utf8From(mem, c, q)
      BY <1>1, <3>1, <3>2, <3>5
    <3>7. w \in 0 .. c.size /\ p \in 0 .. w
      BY <1>0, <3>3
    <3> QED  BY <1>0, <3>4, <3>6, <3>7, Utf8Walked
  <2> QED  BY <2>1, <2>2
<1>2. \A d \in Nat : d \in T
  <2> HIDE DEF T
  <2> QED  BY <1>1, StrongInduction
<1>3. 0 \in 0 .. c.size /\ c.size - 0 \in Nat
  BY <1>0
<1>4. ResultFrom(mem, c, 0) = "ok"
  BY DEF ResultFrom, Utf8Result
<1>5. Utf8From(mem, c, 0)
  BY <1>2, <1>3, <1>4
<1> QED  BY <1>0, <1>5 DEF Utf8From, Utf8
-----------------------------------------------------------------------------
(* Addresses: the script behind an accepted address. *)

LEMMA DigitBound ==
  ASSUME NEW K \in Nat, K > 0, NEW P, P = Base * K,
         NEW x \in 0 .. Base - 1, NEW y \in 0 .. K - 1
  PROVE  x + Base * y \in 0 .. P - 1
<1> DEFINE d == K - 1 - y
<1>1. d \in Nat /\ y \in Nat /\ K = y + d + 1 /\ Base \in Nat
  BY BaseAssumption
<1> HIDE DEF d
<1>2. \A a, b, e \in Nat : a * (b + e + 1) = a * b + a * e + a
  BY SMT
<1>3. Base * K = Base * y + Base * d + Base
  BY <1>1, <1>2
<1>4. \A a, b \in Nat : a * b \in Nat
  BY SMT
<1>5. Base * y \in Nat /\ Base * d \in Nat
  BY <1>1, <1>4
<1> DEFINE p == Base * y
           q == Base * d
<1>6. P = p + q + Base /\ p \in Nat /\ q \in Nat
  BY <1>3, <1>5
<1> HIDE DEF p, q
<1>7. x + p \in 0 .. P - 1
  BY <1>1, <1>6
<1> QED  BY <1>7 DEF p

\* A word is less than 2^32.
LEMMA WordBound ==
  ASSUME NEW mem \in Seq(Byte), NEW o \in Nat, HasWord(mem, o)
  PROVE  WordAt(mem, o) \in 0 .. WordMod - 1
<1> DEFINE B(k) == ByteAt(mem, o + k)
           P2 == Base * Base
           P3 == Base * P2
           P4 == Base * P3
<1>1. \A k \in 0 .. 3 : B(k) \in 0 .. Base - 1
  BY BaseAssumption DEF HasWord, ByteAt, TotalSize, NumSize, Byte
<1>2. ByteAt(mem, o) = B(0)
  <2>1. o + 0 = o
    OBVIOUS
  <2> QED  BY <2>1
<1>3. Base \in Nat /\ Base > 0 /\ P2 \in Nat /\ P2 > 0 /\ P3 \in Nat /\ P3 > 0
  <2>1. \A a, b \in Nat : a > 0 /\ b > 0 => a * b \in Nat /\ a * b > 0
    BY SMT
  <2>2. Base \in Nat /\ Base > 0
    BY BaseAssumption
  <2>3. P2 \in Nat /\ P2 > 0
    BY <2>1, <2>2
  <2> HIDE DEF P2
  <2> QED  BY <2>1, <2>2, <2>3
<1>4. WordMod = P4
  <2>1. \A a \in Nat : a * a * a * a = a * (a * (a * a))
    BY SMT
  <2> QED  BY <1>3, <2>1 DEF WordMod
<1> DEFINE Y2 == B(2) + Base * B(3)
           Y1 == B(1) + Base * Y2
           Y0 == B(0) + Base * Y1
<1> HIDE DEF B
<1>5. Y2 \in 0 .. P2 - 1
  <2>1. B(2) \in 0 .. Base - 1 /\ B(3) \in 0 .. Base - 1 /\ P2 = Base * Base
    BY <1>1
  <2> HIDE DEF P2
  <2> QED  BY <1>3, <2>1, DigitBound
<1> HIDE DEF Y2
<1>6. Y1 \in 0 .. P3 - 1
  <2>1. B(1) \in 0 .. Base - 1 /\ P3 = Base * P2
    BY <1>1
  <2> HIDE DEF P3, P2
  <2> QED  BY <1>3, <1>5, <2>1, DigitBound
<1> HIDE DEF Y1
<1>7. Y0 \in 0 .. P4 - 1
  <2>1. B(0) \in 0 .. Base - 1 /\ P4 = Base * P3
    BY <1>1
  <2> HIDE DEF P4, P3
  <2> QED  BY <1>3, <1>6, <2>1, DigitBound
<1> HIDE DEF P4
<1>8. WordAt(mem, o) = Y0
  BY <1>2 DEF WordAt, B, Y0, Y1, Y2
<1> QED  BY <1>4, <1>7, <1>8

LEMMA NoWrap ==
  ASSUME NEW M \in Nat, NEW a \in 0 .. M - 1
  PROVE  a % M = a
BY SMT

LEMMA OneWrap ==
  ASSUME NEW M \in Nat, M > 0, NEW a \in M .. 2 * M - 1
  PROVE  a % M = a - M
BY SMT

\* mol2_dynvec_slice_by_index by cases: the item, or the cursor itself.
Item(mem, s, i, c) ==
  LET n == Items(mem, s)
      end == IF i + 1 = n THEN WordAt(mem, s.off) ELSE WordAt(mem, s.off + NumSize * (i + 2))
      start == WordAt(mem, s.off + NumSize * (i + 1))
  IN  /\ i < n /\ HasWord(mem, s.off + NumSize * (i + 1))
      /\ i + 1 < n => HasWord(mem, s.off + NumSize * (i + 2))
      /\ start <= end /\ c = [off |-> s.off + start, size |-> end - start]
      /\ Validates(mem, c)

LEMMA SliceCases ==
  ASSUME NEW mem \in Seq(Byte), NEW s \in Cursor, NEW i \in Nat,
         NEW c \in TableSlice(mem, s, i)
  PROVE  /\ s.size >= NumSize /\ HasWord(mem, s.off)
         /\ \/ WordAt(mem, s.off) = NumSize /\ c = s
            \/ /\ WordAt(mem, s.off) # NumSize
               /\ HasWord(mem, s.off + NumSize) /\ Items(mem, s) >= 0
               /\ (Items(mem, s) <= i /\ c = s) \/ Item(mem, s, i, c)
<1> DEFINE total == WordAt(mem, s.off)
           count == WordAt(mem, s.off + NumSize) \div NumSize - 1
           slot(k) == s.off + NumSize * (k + 1)
           start == WordAt(mem, slot(i))
           end   == IF i + 1 = count THEN total ELSE WordAt(mem, slot(i + 1))
<1>1. PICK r \in DynvecSlice(mem, s, i) : c = r.cur
  BY DEF TableSlice
<1>2. Unpacks(mem, s)
  BY <1>1 DEF DynvecSlice
<1>3. s.size >= NumSize /\ HasWord(mem, s.off)
  BY <1>2 DEF Unpacks
<1>4. CASE total = NumSize
  <2>1. r.cur = s
    BY <1>1, <1>2, <1>4 DEF DynvecSlice
  <2> QED  BY <1>1, <1>3, <1>4, <2>1
<1>5. CASE total # NumSize
  <2>1. HasWord(mem, s.off + NumSize) /\ ~(count < 0)
    BY <1>1, <1>2, <1>5 DEF DynvecSlice
  <2>0. count \in Int /\ Items(mem, s) = count
    <3>1. s.off \in Nat /\ s.off + NumSize \in Nat
      BY DEF Cursor, NumSize
    <3>2. WordAt(mem, s.off + NumSize) \in Nat
      BY <2>1, <3>1, WordIsNat
    <3> QED  BY <3>2 DEF Items, NumSize
  <2> HIDE DEF count
  <2>2. CASE i >= count
    <3>1. r.cur = s
      BY <1>1, <1>2, <1>5, <2>1, <2>2 DEF DynvecSlice, count
    <3>2. Items(mem, s) <= i /\ Items(mem, s) >= 0
      BY <2>0, <2>1, <2>2
    <3> QED  BY <1>1, <1>3, <1>5, <2>1, <3>1, <3>2
  <2>3. CASE ~(i >= count)
    <3>1. HasWord(mem, slot(i)) /\ (i + 1 < count => HasWord(mem, slot(i + 1)))
      BY <1>1, <1>2, <1>5, <2>1, <2>3 DEF DynvecSlice, count
    <3>2. /\ start <= end /\ c = [off |-> s.off + start, size |-> end - start]
          /\ Validates(mem, c)
      BY <1>1, <1>2, <1>5, <2>1, <2>3, <3>1 DEF DynvecSlice, count
    <3>3. (i + 1) + 1 = i + 2
      OBVIOUS
    <3>4. i < count /\ count >= 0
      BY <2>0, <2>1, <2>3
    <3>5. Item(mem, s, i, c)
      BY <2>0, <3>1, <3>2, <3>3, <3>4 DEF Item
    <3> QED  BY <1>3, <1>5, <2>0, <2>1, <3>4, <3>5
  <2> QED  BY <2>2, <2>3
<1> QED  BY <1>4, <1>5

\* What the Address branch checks of a script, its three fields read.
ScriptRead(mem, s, code, hash, c) ==
  /\ code \in TableSlice(mem, s, 0) /\ hash \in TableSlice(mem, s, 1)
  /\ c \in TableSlice(mem, s, 2)
  /\ code.size = Byte32Len /\ hash.size = 1
  /\ c.size >= NumSize /\ c.size = (WordAt(mem, c.off) + NumSize) % WordMod
  /\ (code.size + hash.size + c.size + 4 * NumSize) % WordMod = WordAt(mem, s.off)

\* A table of the three fields of a script, args to its end.
ScriptShaped(mem, s) ==
  LET total == WordAt(mem, s.off)
      args == 4 * NumSize + Byte32Len + 1
  IN  /\ Items(mem, s) = 3 /\ total \in Nat
      /\ WordAt(mem, s.off + 4) = 16
      /\ WordAt(mem, s.off + 8) = 16 + Byte32Len
      /\ WordAt(mem, s.off + 12) = args
      /\ s.off + total <= Len(mem)
      /\ total >= args + NumSize
      /\ total - args = WordAt(mem, s.off + args) + NumSize

\* With two fields the table's own cursor is taken for args: its size fits not.
LEMMA TwoFieldsFail ==
  ASSUME NEW M \in Nat, NEW L \in Nat, L < M, NEW o \in Nat, o >= 4,
         NEW b \in Nat, NEW S \in Nat, o + S <= L,
         NEW T \in Nat, NEW F \in 12 .. 15, o + T <= L,
         T = F + b + 1, S = (T + 4) % M, (b + 1 + S + 16) % M = T
  PROVE  FALSE
<1>1. T + 4 \in 0 .. M - 1
  OBVIOUS
<1>2. S = T + 4
  BY <1>1, NoWrap
<1> DEFINE x == b + 1 + S + 16
<1>3. x \in 0 .. 2 * M - 1 /\ x > T /\ x < T + M
  BY <1>2
<1>4. x % M = T
  OBVIOUS
<1> HIDE DEF x
<1>5. CASE x < M
  BY <1>3, <1>4, <1>5, NoWrap
<1>6. CASE x >= M
  <2>1. x \in M .. 2 * M - 1 /\ M > 0
    BY <1>3, <1>6
  <2>2. x % M = x - M
    BY <2>1, OneWrap
  <2> QED  BY <1>3, <1>4, <2>2
<1> QED  BY <1>3, <1>5, <1>6

LEMMA ThreeFieldsFit ==
  ASSUME NEW M \in Nat, NEW L \in Nat, L < M, NEW o \in Nat,
         NEW b \in Nat, NEW S \in Nat, NEW T \in Nat, NEW F \in 16 .. 19, o + T <= L,
         F + b + 1 <= T, S = T - (F + b + 1), (b + 1 + S + 16) % M = T
  PROVE  F = 16
<1> DEFINE x == b + 1 + S + 16
<1>1. x \in 0 .. M - 1 /\ x = T - F + 16
  OBVIOUS
<1>2. x % M = x
  <2> HIDE DEF x
  <2> QED  BY <1>1, NoWrap
<1> QED  BY <1>1, <1>2

LEMMA ContentFits ==
  ASSUME NEW M \in Nat, M > 4, NEW n \in 0 .. M - 1, NEW S \in Nat, S >= 4, S = (n + 4) % M
  PROVE  S = n + 4
<1> DEFINE x == n + 4
<1>1. x \in 0 .. 2 * M - 1 /\ x - M < 4 /\ x \in Nat
  OBVIOUS
<1>2. x % M = S
  OBVIOUS
<1> HIDE DEF x
<1>3. CASE x < M
  <2>1. x \in 0 .. M - 1
    BY <1>1, <1>3
  <2> QED  BY <1>2, <2>1, NoWrap DEF x
<1>4. CASE x >= M
  <2>1. x \in M .. 2 * M - 1
    BY <1>1, <1>4
  <2>2. x % M = x - M
    BY <2>1, OneWrap
  <2> QED  BY <1>1, <1>2, <2>2
<1> QED  BY <1>1, <1>3, <1>4

LEMMA WordModBig == WordMod \in Nat /\ WordMod > 4
<1>1. \A a, b \in Nat : a >= 1 /\ b >= 3 => a * b >= 3 * a /\ a * b \in Nat
  BY SMT
<1> DEFINE P2 == Base * Base
           P3 == P2 * Base
           P4 == P3 * Base
<1>2. Base \in Nat /\ Base >= 3
  BY BaseAssumption
<1>3. P2 \in Nat /\ P2 >= 3 * Base
  BY <1>1, <1>2
<1> HIDE DEF P2
<1>4. P3 \in Nat /\ P3 >= 3 * P2
  BY <1>1, <1>2, <1>3
<1> HIDE DEF P3
<1>5. P4 \in Nat /\ P4 >= 3 * P3
  BY <1>1, <1>2, <1>3, <1>4
<1>6. P4 > 4
  <2> HIDE DEF P4
  <2> QED  BY <1>2, <1>3, <1>4, <1>5
<1> QED  BY <1>5, <1>6 DEF WordMod, P2, P3

LEMMA ScriptShape ==
  ASSUME NEW mem \in Seq(Byte), Len(mem) < WordMod, ~Overlong(mem),
         NEW s \in Cursor, s.off >= NumSize, s.off + s.size <= Len(mem),
         NEW code, NEW hash, NEW c, ScriptRead(mem, s, code, hash, c)
  PROVE  ScriptShaped(mem, s)
<1> DEFINE L == Len(mem)
           M == WordMod
           T == WordAt(mem, s.off)
           N == Items(mem, s)
           F == WordAt(mem, s.off + 4)
           A1 == WordAt(mem, s.off + 8)
           A2 == WordAt(mem, s.off + 12)
           A3 == WordAt(mem, s.off + 16)
<1>0. /\ s.off \in Nat /\ s.size \in Nat /\ L \in Nat /\ M \in Nat /\ M > 4 /\ NumSize = 4
      /\ Byte32Len \in Nat /\ L < M /\ s.off >= 4 /\ s.off + s.size <= L
  BY WordModBig, VisitorAssumption DEF Cursor, NumSize
<1>1. code.size = Byte32Len /\ hash.size = 1 /\ c.size >= 4
  BY DEF ScriptRead, NumSize
<1> DEFINE Sizes == /\ c.size = (WordAt(mem, c.off) + 4) % M
                    /\ (Byte32Len + 1 + c.size + 16) % M = T
<1>16. Sizes
  BY DEF ScriptRead, NumSize
<1> HIDE DEF Sizes
<1>2. /\ s.size >= 4 /\ HasWord(mem, s.off)
      /\ \/ T = 4 /\ hash = s
         \/ /\ T # 4 /\ HasWord(mem, s.off + 4) /\ N >= 0
            /\ (N <= 1 /\ hash = s) \/ Item(mem, s, 1, hash)
  <2>1. hash \in TableSlice(mem, s, 1) /\ 1 \in Nat
    BY DEF ScriptRead
  <2> QED  BY <2>1, SliceCases DEF NumSize
<1>3. T # 4 /\ HasWord(mem, s.off + 4) /\ Item(mem, s, 1, hash)
  <2>1. hash # s
    BY <1>0, <1>1, <1>2
  <2> QED  BY <1>2, <2>1
<1>4. T \in 0 .. M - 1 /\ F \in 0 .. M - 1
  <2>1. s.off + 4 \in Nat
    BY <1>0
  <2> QED  BY <1>0, <1>2, <1>3, <2>1, WordBound
<1>5. N = F \div 4 - 1
  BY DEF Items, NumSize
<1>6. 1 < N /\ N \in Int
  <2>1. 1 < N
    BY <1>3 DEF Item
  <2> HIDE DEF F
  <2> QED  BY <1>4, <1>5, <2>1
<1>7. Item(mem, s, 0, code)
  <2>1. code \in TableSlice(mem, s, 0) /\ 0 \in Nat
    BY DEF ScriptRead
  <2>2. ~(N <= 0)
    <3> HIDE DEF N
    <3> QED  BY <1>6
  <2>3. \/ T = NumSize /\ code = s
        \/ T # NumSize /\ ((N <= 0 /\ code = s) \/ Item(mem, s, 0, code))
    BY <2>1, SliceCases
  <2> QED  BY <1>0, <1>3, <2>2, <2>3
<1>8. \/ N <= 2 /\ c = s
      \/ Item(mem, s, 2, c)
  <2>1. c \in TableSlice(mem, s, 2) /\ 2 \in Nat
    BY DEF ScriptRead
  <2>2. \/ T = NumSize /\ c = s
        \/ T # NumSize /\ ((N <= 2 /\ c = s) \/ Item(mem, s, 2, c))
    BY <2>1, SliceCases
  <2> QED  BY <1>0, <1>3, <2>2
<1>9. /\ NumSize * (0 + 1) = 4 /\ NumSize * (0 + 2) = 8
      /\ NumSize * (1 + 1) = 8 /\ NumSize * (1 + 2) = 12
      /\ NumSize * (2 + 1) = 12 /\ NumSize * (2 + 2) = 16
      /\ 0 + 1 = 1 /\ 1 + 1 = 2 /\ 2 + 1 = 3
  BY DEF NumSize
<1>10. HasWord(mem, s.off + 8) /\ F <= A1 /\ code.size = A1 - F
  BY <1>6, <1>7, <1>9 DEF Item
<1>11. A1 \in 0 .. M - 1
  <2>1. s.off + 8 \in Nat
    BY <1>0
  <2> QED  BY <1>10, <2>1, WordBound
<1>12. N = 2 => /\ hash.size = T - A1 /\ hash.off = s.off + A1 /\ hash.off + hash.size <= L
  BY <1>3, <1>9 DEF Item, Validates, TotalSize
<1>13. N # 2 => /\ hash.size = A2 - A1 /\ HasWord(mem, s.off + 12)
                /\ A2 \in 0 .. M - 1
  <2>1. N # 2 => hash.size = A2 - A1 /\ (2 < N => HasWord(mem, s.off + 12))
    BY <1>3, <1>9 DEF Item
  <2>2. s.off + 12 \in Nat
    BY <1>0
  <2>3. N # 2 => 2 < N
    <3> HIDE DEF N
    <3> QED  BY <1>6
  <2> QED  BY <2>1, <2>2, <2>3, WordBound
<1>14. CASE N = 2
  <2>1. c = s
    <3>1. ~Item(mem, s, 2, c)
      BY <1>14 DEF Item
    <3> QED  BY <1>8, <3>1
  <2>2. s.size = (T + 4) % M /\ (Byte32Len + 1 + s.size + 16) % M = T
    BY <1>16, <2>1 DEF Sizes
  <2> HIDE DEF T, F, A1, M, L, N
  <2>3. F \in 12 .. 15 /\ T = F + Byte32Len + 1 /\ s.off + T <= L /\ T \in Nat
    BY <1>0, <1>1, <1>4, <1>5, <1>10, <1>11, <1>12, <1>14, SMTT(30)
  <2>4. s.size \in Nat /\ s.off \in Nat /\ s.off >= 4 /\ s.off + s.size <= L
        /\ M \in Nat /\ L \in Nat /\ L < M /\ Byte32Len \in Nat
    BY <1>0
  <2> QED  BY <2>2, <2>3, <2>4, TwoFieldsFail
<1>15. CASE N # 2
  <2>1. Item(mem, s, 2, c) /\ N >= 3
    <3> HIDE DEF N
    <3> QED  BY <1>6, <1>8, <1>15
  <2>2. A1 = F + Byte32Len /\ A2 = A1 + 1
    <3> HIDE DEF A1, A2, F, M
    <3> QED  BY <1>0, <1>1, <1>4, <1>10, <1>11, <1>13, <1>15
  <2>3. CASE N = 3
    <3>1. c = [off |-> s.off + A2, size |-> T - A2] /\ A2 <= T /\ Validates(mem, c)
      BY <1>9, <2>1, <2>3 DEF Item
    <3>2. c.size = T - A2 /\ c.off = s.off + A2
      BY <3>1
    <3> DEFINE W == WordAt(mem, c.off)
    <3>3. c.off + c.size <= L
      BY <3>1 DEF Validates, TotalSize
    <3>4. s.off + T <= L /\ T >= A2 + 4 /\ c.off \in Nat
      <4> DEFINE S == c.size
                 o == c.off
                 O == s.off
      <4> HIDE DEF T, A2, L, M, N
      <4>1. T \in Nat /\ A2 \in Nat /\ O \in Nat /\ L \in Nat
        BY <1>0, <1>4, <1>13, <1>15
      <4>2. S = T - A2 /\ S >= 4 /\ o = O + A2 /\ o + S <= L
        BY <1>1, <3>2, <3>3
      <4> HIDE DEF S, o, O
      <4>3. O + T <= L /\ T >= A2 + 4 /\ o \in Nat
        BY <4>1, <4>2
      <4> QED  BY <4>3 DEF o, O
    <3>5. W \in 0 .. M - 1
      <4>1. HasWord(mem, c.off)
        <5> DEFINE S == c.size
                   o == c.off
        <5>1. S >= 4 /\ o + S <= L /\ o \in Nat /\ L \in Nat /\ S \in Int /\ NumSize = 4
          <6> HIDE DEF T, A2, L, M, N
          <6> QED  BY <1>0, <1>1, <1>4, <1>13, <1>15, <3>2, <3>3, <3>4
        <5> HIDE DEF S, o, L
        <5>2. o + NumSize <= L
          BY <5>1
        <5> QED  BY <5>2 DEF HasWord, TotalSize, o, L
      <4> QED  BY <3>4, <4>1, WordBound
    <3>6. c.size = W + 4
      <4>1. c.size \in Nat
        <5> HIDE DEF T, A2, L, M
        <5> QED  BY <1>4, <1>13, <1>15, <3>2, <3>4
      <4> DEFINE S == c.size
      <4>2. S \in Nat /\ S >= 4 /\ S = (W + 4) % M
        BY <1>1, <1>16, <4>1 DEF Sizes
      <4>3. M \in Nat /\ M > 4
        BY <1>0
      <4> HIDE DEF W, M, S
      <4>4. S = W + 4
        BY <3>5, <4>2, <4>3, ContentFits
      <4> QED  BY <4>4 DEF S
    <3>7. F = 16
      <4> HIDE DEF T, A1, A2, L, M, N, F
      <4>1. F \in 16 .. 19
        BY <1>4, <1>5, <2>3
      <4>2. F + Byte32Len + 1 <= T /\ c.size = T - (F + Byte32Len + 1) /\ c.size \in Nat
        BY <1>0, <1>4, <2>2, <3>2, <3>4
      <4>3. T \in Nat
        BY <1>4
      <4>4. (Byte32Len + 1 + c.size + 16) % M = T
        BY <1>16 DEF Sizes
      <4>5. /\ M \in Nat /\ L \in Nat /\ L < M /\ s.off \in Nat /\ Byte32Len \in Nat
            /\ s.off + T <= L
        BY <1>0, <3>4
      <4> QED  BY <4>1, <4>2, <4>3, <4>4, <4>5, ThreeFieldsFit
    <3>8. 4 * NumSize + Byte32Len + 1 = A2 /\ A1 = 16 + Byte32Len
      <4> HIDE DEF T, A1, A2, L, M, N, F
      <4> QED  BY <1>0, <2>2, <3>7
    <3>9. T - A2 = WordAt(mem, s.off + A2) + 4
      BY <3>2, <3>6
    <3>10. T \in Nat
      <4> HIDE DEF T
      <4> QED  BY <1>4
    <3> HIDE DEF T, A1, A2, L, M, N, F, W
    <3>11. /\ N = 3 /\ T \in Nat /\ F = 16 /\ A1 = 16 + Byte32Len
           /\ A2 = 4 * NumSize + Byte32Len + 1
           /\ s.off + T <= L /\ T >= A2 + NumSize
           /\ T - A2 = WordAt(mem, s.off + A2) + NumSize
      BY <1>0, <2>3, <3>4, <3>7, <3>8, <3>9, <3>10
    <3> QED  BY <3>11 DEF ScriptShaped, T, A1, A2, L, N, F
  <2>4. CASE N # 3
    <3>0. 3 < N /\ 2 + 1 # N
      <4> HIDE DEF N
      <4> QED  BY <1>6, <2>1, <2>4
    <3>1. /\ c = [off |-> s.off + A2, size |-> A3 - A2] /\ A2 <= A3 /\ Validates(mem, c)
          /\ HasWord(mem, s.off + 16)
      BY <1>9, <2>1, <3>0 DEF Item
    <3>2. c.size = A3 - A2 /\ c.off + c.size <= L /\ c.off = s.off + A2
      BY <3>1 DEF Validates, TotalSize
    <3>3. A3 \in 0 .. M - 1
      <4>1. s.off + 16 \in Nat
        BY <1>0
      <4> QED  BY <3>1, <4>1, WordBound
    <3>4. F >= 20 /\ A3 - F + 16 \in 0 .. M - 1 /\ Byte32Len + 1 + c.size + 16 = A3 - F + 16
      <4> HIDE DEF T, A1, A2, A3, L, M, N, F
      <4>1. F >= 20
        BY <1>4, <1>5, <3>0
      <4>2. s.off + A3 <= L
        BY <1>0, <3>2, <3>3, <1>13, <1>15
      <4>3. A2 \in Nat /\ A3 \in Nat /\ F \in Nat /\ A2 = F + Byte32Len + 1 /\ A2 <= A3
        BY <1>0, <1>4, <1>13, <1>15, <2>2, <3>1, <3>3
      <4> QED  BY <1>0, <3>2, <4>1, <4>2, <4>3
    <3>5. A3 - F + 16 = T
      <4> DEFINE x == A3 - F + 16
      <4>1. x \in 0 .. M - 1 /\ x % M = T
        BY <1>16, <3>4 DEF Sizes
      <4> HIDE DEF x, M
      <4> QED  BY <1>0, <4>1, NoWrap DEF x
    <3>6. OverlongScript(mem, s.off)
      <4>1. /\ NumSize * (0 + 1) = 4 /\ NumSize * (1 + 1) = 8
            /\ NumSize * (2 + 1) = 12 /\ NumSize * (3 + 1) = 16
            /\ 4 * NumSize = 16 /\ 5 * NumSize = 20
        BY DEF NumSize
      <4> QED  BY <2>2, <3>1, <3>4, <3>5, <4>1 DEF OverlongScript
    <3>7. s.off \in 0 .. Len(mem)
      <4> HIDE DEF M
      <4> QED  BY <1>0
    <3> QED  BY <3>6, <3>7 DEF Overlong
  <2> QED  BY <2>3, <2>4
<1> QED  BY <1>14, <1>15

LEMMA ByteSize ==
  ASSUME NEW rank, SizesGrounded(rank)
  PROVE  FixedSize("byte") = 1
<1>1. "byte" \in SizedTypes
  BY DEF SizedTypes, TypeNames
<1> QED  BY <1>1, FixedSizeParts

LEMMA GoodByteArray ==
  ASSUME NEW rank, SizesGrounded(rank), BuiltinsKept,
         NEW mem, NEW c \in Cursor, NEW t, t # "byte", DefinitionOf(t),
         DefOf(t).kind = "array", DefOf(t).item = "byte", c.size = DefOf(t).count
  PROVE  Good(mem, c, t)
<1> DEFINE n == DefOf(t).count
<1>1. FixedSize("byte") = 1 /\ n \in Nat /\ c.off \in Nat
  BY ByteSize DEF DefinitionOf, Definition, Cursor
<1>2. ASSUME NEW k \in 0 .. n - 1
      PROVE  Good(mem, At(c, k * FixedSize("byte"), FixedSize("byte")), "byte")
  <2>1. k * 1 = k /\ k \in Nat
    BY <1>1
  <2>2. At(c, k, 1) \in Cursor /\ At(c, k, 1).size = 1
    BY <1>1, <2>1 DEF At, Cursor
  <2> QED  BY <1>1, <2>1, <2>2, GoodByte
<1>3. c.size = n * FixedSize("byte")
  BY <1>1
<1> QED  BY <1>2, <1>3, GoodArray

LEMMA GoodByteVector ==
  ASSUME NEW rank, SizesGrounded(rank), BuiltinsKept,
         NEW mem, NEW c \in Cursor, NEW t, t # "byte", DefinitionOf(t),
         DefOf(t).kind = "fixvec", DefOf(t).item = "byte",
         NEW n \in Nat, WordAt(mem, c.off) = n, c.size = NumSize + n,
         t = "String" => Utf8(mem, Content(c, n))
  PROVE  Good(mem, c, t)
<1>1. FixedSize("byte") = 1 /\ c.off \in Nat /\ NumSize \in Nat
  BY ByteSize DEF Cursor, NumSize
<1>2. ASSUME NEW k \in 0 .. n - 1
      PROVE  Good(mem, At(c, NumSize + k * FixedSize("byte"), FixedSize("byte")), "byte")
  <2>1. k * 1 = k /\ NumSize + k \in Nat
    BY <1>1
  <2>2. At(c, NumSize + k, 1) \in Cursor /\ At(c, NumSize + k, 1).size = 1
    BY <1>1, <2>1 DEF At, Cursor
  <2> QED  BY <1>1, <2>1, <2>2, GoodByte
<1>3. c.size = NumSize + FixedSize("byte") * n
  BY <1>1
<1>4. c.size >= NumSize /\ c.size - NumSize = n
  BY <1>1
<1> QED  BY <1>2, <1>3, <1>4, GoodFixvec

\* The script of an accepted address is one.
LEMMA GoodScript ==
  ASSUME NEW rank, SizesGrounded(rank), BuiltinsKept, "Address" \in TypeNames,
         NEW mem \in Seq(Byte), NEW s \in Cursor, ScriptShaped(mem, s)
  PROVE  Good(mem, [off |-> s.off, size |-> WordAt(mem, s.off)], "Script")
<1> DEFINE T == WordAt(mem, s.off)
           w == [off |-> s.off, size |-> T]
           B == Byte32Len
           args == 4 * NumSize + B + 1
           n == WordAt(mem, s.off + args)
<1>0. B \in Nat /\ s.off \in Nat /\ NumSize = 4
  BY VisitorAssumption DEF Cursor, NumSize
<1>1. /\ Items(mem, s) = 3 /\ T \in Nat
      /\ WordAt(mem, s.off + 4) = 16 /\ WordAt(mem, s.off + 8) = 16 + B
      /\ WordAt(mem, s.off + 12) = args /\ args = 17 + B
      /\ T >= args + 4 /\ T - args = n + 4
  BY <1>0 DEF ScriptShaped
<1>2. {"Script", "Byte32", "Bytes"} \subseteq TypeNames
  BY DEF BuiltinsKept
<1>3. DefinitionOf("Script") /\ DefinitionOf("Byte32") /\ DefinitionOf("Bytes")
  BY <1>2, NamedType
<1>4. /\ DefOf("Script").kind = "table"
      /\ DefOf("Script").fields = <<"Byte32", "byte", "Bytes">>
      /\ DefOf("Byte32").kind = "array" /\ DefOf("Byte32").item = "byte"
      /\ DefOf("Byte32").count = B
      /\ DefOf("Bytes").kind = "fixvec" /\ DefOf("Bytes").item = "byte"
  BY <1>3, Builtins
<1>5. w \in Cursor /\ w.off = s.off /\ w.size = T
  BY <1>0, <1>1 DEF Cursor
<1>6. Items(mem, w) = 3
  BY <1>1, <1>5 DEF Items
<1> HIDE DEF w, T, n
<1>7. /\ OffsetAt(mem, w, 0, 3) = 16 /\ OffsetAt(mem, w, 1, 3) = 16 + B
      /\ OffsetAt(mem, w, 2, 3) = 17 + B /\ OffsetAt(mem, w, 3, 3) = T
  <2>1. /\ NumSize * (0 + 1) = 4 /\ NumSize * (1 + 1) = 8 /\ NumSize * (2 + 1) = 12
        /\ s.off + 0 = s.off
    BY <1>0
  <2> QED  BY <1>1, <1>5, <2>1 DEF OffsetAt, T
<1>8. Framed(mem, w)
  <2>1. WordAt(mem, w.off + NumSize) = 16
    BY <1>0, <1>1, <1>5
  <2>2. ASSUME NEW k \in 0 .. 3 - 1
        PROVE  OffsetAt(mem, w, k, 3) <= OffsetAt(mem, w, k + 1, 3)
    <3>1. k \in {0, 1, 2} /\ 0 + 1 = 1 /\ 1 + 1 = 2 /\ 2 + 1 = 3
      OBVIOUS
    <3>2. 16 <= 16 + B /\ 16 + B <= 17 + B /\ 17 + B <= T
      BY <1>0, <1>1
    <3> QED  BY <1>7, <3>1, <3>2
  <2>3. w.size >= 2 * NumSize /\ 16 % NumSize = 0 /\ 16 \in 2 * NumSize .. w.size
    BY <1>0, <1>1, <1>5
  <2>4. WordAt(mem, w.off) = w.size
    BY <1>5 DEF T
  <2> QED  BY <1>6, <2>1, <2>2, <2>3, <2>4 DEF Framed
<1>9. Good(mem, At(w, 16, B), "Byte32")
  <2> DEFINE d == At(w, 16, B)
  <2>1. d \in Cursor /\ d.size = B
    BY <1>0, <1>5 DEF At, Cursor
  <2>2. /\ DefOf("Byte32").kind = "array" /\ DefOf("Byte32").item = "byte"
        /\ d.size = DefOf("Byte32").count
    BY <1>4, <2>1
  <2> HIDE DEF d
  <2>3. Good(mem, d, "Byte32")
    BY <1>3, <2>1, <2>2, GoodByteArray
  <2> QED  BY <2>3 DEF d
<1>10. Good(mem, At(w, 16 + B, 1), "byte")
  <2> DEFINE d == At(w, 16 + B, 1)
  <2>1. d \in Cursor /\ d.size = 1
    BY <1>0, <1>5 DEF At, Cursor
  <2> HIDE DEF d
  <2>2. Good(mem, d, "byte")
    BY <2>1, GoodByte
  <2> QED  BY <2>2 DEF d
<1>11. Good(mem, At(w, 17 + B, T - (17 + B)), "Bytes")
  <2> DEFINE d == At(w, 17 + B, T - (17 + B))
  <2>0. n \in Nat /\ T - (17 + B) = n + 4
    <3>1. n = T - args - 4 /\ T - args - 4 \in Nat
      <4>1. n \in Nat
        <5>1. HasWord(mem, s.off + args) /\ s.off + args \in Nat
          <6>1. s.off + T <= Len(mem) /\ Len(mem) \in Nat
            BY DEF ScriptShaped, T
          <6>2. args \in Nat /\ T \in Nat /\ T >= args + 4
            BY <1>0, <1>1
          <6> HIDE DEF args
          <6> QED  BY <1>0, <6>1, <6>2 DEF HasWord, TotalSize
        <5> QED  BY <5>1, WordIsNat DEF n
      <4> QED  BY <1>0, <1>1, <4>1
    <3> QED  BY <1>0, <1>1, <3>1
  <2>1. d \in Cursor /\ d.size = NumSize + n /\ d.off = s.off + args
    BY <1>0, <1>1, <1>5, <2>0 DEF At, Cursor
  <2>2. WordAt(mem, d.off) = n
    BY <2>1 DEF n
  <2>3. DefOf("Bytes").kind = "fixvec" /\ DefOf("Bytes").item = "byte"
    BY <1>4
  <2> HIDE DEF d, args
  <2>4. Good(mem, d, "Bytes")
    BY <1>3, <2>0, <2>1, <2>2, <2>3, GoodByteVector
  <2> QED  BY <2>4 DEF d
<1>12. ASSUME NEW k \in 0 .. 3 - 1
       PROVE  Good(mem, Slice(mem, w, k, 3), DefOf("Script").fields[k + 1])
  <2>1. k \in {0, 1, 2} /\ 0 + 1 = 1 /\ 1 + 1 = 2 /\ 2 + 1 = 3
    OBVIOUS
  <2>2. (16 + B) - 16 = B /\ (17 + B) - (16 + B) = 1
    BY <1>0
  <2>3. Slice(mem, w, 0, 3) = At(w, 16, B) /\ Slice(mem, w, 1, 3) = At(w, 16 + B, 1)
        /\ Slice(mem, w, 2, 3) = At(w, 17 + B, T - (17 + B))
    BY <1>7, <2>1, <2>2 DEF Slice
  <2>4. /\ DefOf("Script").fields[1] = "Byte32" /\ DefOf("Script").fields[2] = "byte"
        /\ DefOf("Script").fields[3] = "Bytes"
    BY <1>4
  <2> QED  BY <1>9, <1>10, <1>11, <2>1, <2>3, <2>4
<1>13. Len(DefOf("Script").fields) = 3
  <2>1. Len(<<"Byte32", "byte", "Bytes">>) = 3
    OBVIOUS
  <2> QED  BY <1>4, <2>1
<1>14. 3 \in Nat /\ 3 = Items(mem, w)
  BY <1>6
<1>15. Good(mem, w, "Script")
  BY <1>3, <1>4, <1>5, <1>8, <1>12, <1>13, <1>14, GoodTable
<1> QED  BY <1>15 DEF w, T

\* What the Address branch accepts is an address.
LEMMA GoodAddress ==
  ASSUME NEW rank, SizesGrounded(rank), BuiltinsKept, "Address" \in TypeNames,
         NEW mem \in Seq(Byte), NEW c \in Cursor, NEW s \in Cursor,
         s.off = c.off + NumSize, ScriptShaped(mem, s), WordAt(mem, c.off) = 0,
         c.size = WordAt(mem, s.off) + NumSize
  PROVE  Good(mem, c, "Address")
<1> DEFINE T == WordAt(mem, s.off)
<1>1. DefinitionOf("Address")
  BY NamedType
<1>2. DefOf("Address").kind = "union" /\ DefOf("Address").pairs = <<[typ |-> "Script", id |-> 0]>>
  BY <1>1, Builtins
<1> DEFINE ps == <<[typ |-> "Script", id |-> 0]>>
<1>3. VariantIndex(ps, 0) = 1 /\ ps[VariantIndex(ps, 0)].typ = "Script"
  <2>1. DOMAIN ps = {1} /\ ps[1].id = 0 /\ ps[1].typ = "Script"
    OBVIOUS
  <2> HIDE DEF ps
  <2>2. FirstVariant(1, ps, 0)
    BY <2>1 DEF FirstVariant
  <2>3. VariantIndex(ps, 0) = 1
    BY <2>1, <2>2 DEF VariantIndex
  <2> QED  BY <2>1, <2>3
<1> HIDE DEF ps
<1>4. DefOf("Address").pairs = ps
  BY <1>2 DEF ps
<1>5. T \in Nat /\ c.off \in Nat /\ c.size = T + NumSize
  BY DEF ScriptShaped, Cursor
<1>6. At(c, NumSize, c.size - NumSize) = [off |-> s.off, size |-> T]
  <2> HIDE DEF T
  <2>1. c.size - NumSize = T
    BY <1>5 DEF NumSize
  <2> QED  BY <2>1 DEF At
<1>7. Good(mem, [off |-> s.off, size |-> T], "Script")
  BY GoodScript
<1>8. c.size >= NumSize
  <2> HIDE DEF T
  <2> QED  BY <1>5 DEF NumSize
<1> HIDE DEF T
<1> QED  BY <1>1, <1>2, <1>3, <1>4, <1>6, <1>7, <1>8, GoodUnion
-----------------------------------------------------------------------------
(* The walk.  What a suspended visitor has read, and the values its items   *)
(* turned out to be.                                                        *)

TypeOf(f) == Defs[f.def].name
Simple(f) == Kind(f) \in {"option", "union"}

\* The type of item k, and where it begins in the value.
TypeAt(f, k) ==
  IF Kind(f) \in FieldKinds THEN Defs[f.def].fields[k + 1] ELSE Defs[f.def].item

Begin(mem, f, k) ==
  IF Kind(f) = "array" THEN k * FixedSize(Defs[f.def].item)
  ELSE IF Kind(f) = "fixvec" THEN NumSize + k * FixedSize(Defs[f.def].item)
  ELSE IF Kind(f) = "struct" THEN FieldsUpTo(Defs[f.def].fields, k)
  ELSE IF k = 0 THEN WordAt(mem, f.value.off + NumSize)
  ELSE OffsetAt(mem, f.value, k, f.count)

Piece(mem, f, k) == At(f.value, Begin(mem, f, k), Begin(mem, f, k + 1) - Begin(mem, f, k))

\* What the visitor read before it entered its loop.
HeaderRead(mem, f) ==
  LET total == WordAt(mem, f.value.off)
      first == WordAt(mem, f.value.off + NumSize)
  IN  /\ Kind(f) = "array" => f.count = Defs[f.def].count
      /\ Kind(f) \in FieldKinds => f.count = Len(Defs[f.def].fields)
      /\ Kind(f) = "fixvec" => f.count = total /\ TypeOf(f) # "String"
                               /\ f.value.size >= NumSize
      /\ Kind(f) \in OffsetKinds =>
           /\ f.full = total /\ total >= 2 * NumSize
           /\ first % NumSize = 0 /\ first \in 2 * NumSize .. f.value.size
           /\ f.count = first \div NumSize - 1

\* The items before item i are good, one behind the other.
ItemsGood(mem, f, i) ==
  /\ i <= f.count /\ f.used = Begin(mem, f, i) /\ Begin(mem, f, 0) <= f.used
  /\ \A k \in 0 .. i - 1 :
       Begin(mem, f, k) <= Begin(mem, f, k + 1) /\ Good(mem, Piece(mem, f, k), TypeAt(f, k))

\* The definition of the frame is the one that bears its name.
Named(f) == f.def = DefIndex(TypeOf(f)) /\ TypeOf(f) # "byte"

FrameGood(mem, f) ==
  /\ Named(f)
  /\ Kind(f) = "option" => f.used = 0
  /\ Kind(f) = "union" =>
       /\ f.used = NumSize /\ TypeOf(f) # "Address"
       /\ VariantIndex(Defs[f.def].pairs, WordAt(mem, f.value.off)) # 0
  /\ ~Simple(f) => HeaderRead(mem, f) /\ ItemsGood(mem, f, f.i)

\* The frame is in a call on its item i, which its header gives f.sub bytes.
Waiting(mem, f) ==
  /\ ~Simple(f) => f.i < f.count
  /\ Kind(f) \in OffsetKinds => Begin(mem, f, f.i + 1) = f.used + f.sub

\* The type a suspended visitor asked for, and mdp_visit when none is.
AskedType(mem, f) ==
  IF Kind(f) = "option" THEN Defs[f.def].item
  ELSE IF Kind(f) = "union"
       THEN Defs[f.def].pairs[VariantIndex(Defs[f.def].pairs, WordAt(mem, f.value.off))].typ
  ELSE TypeAt(f, f.i)

Asked(in, s) == IF s = <<>> THEN in.top ELSE AskedType(in.data, Head(s))
AskedOff(s) == IF s = <<>> THEN 0 ELSE Head(s).value.off + Head(s).used

\* Every frame but the innermost waits, for the frame before it.
CalledFor(in, f, g) == TypeOf(f) = AskedType(in.data, g) /\ f.value.off = g.value.off + g.used

Walked(in, s) ==
  \A k \in 1 .. Len(s) :
    /\ FrameGood(in.data, s[k])
    /\ k > 1 => Waiting(in.data, s[k])
    /\ k < Len(s) => CalledFor(in, s[k], s[k + 1])
    /\ k = Len(s) => TypeOf(s[k]) = in.top /\ s[k].value.off = 0

\* While no error is known: a visitor runs on what was asked for, and what it
\* consumed when it returns is a value of that type.
Walking ==
  /\ pc # "start" => input.version = 1
  /\ Walked(input, stack)
  /\ pc \in {"start", "call"} =>
       arg.typ = Asked(input, stack) /\ arg.value.off = AskedOff(stack)
  /\ pc \in {"start", "call", "ret"} /\ stack # <<>> => Waiting(input.data, Top)
  /\ pc = "ret" =>
       /\ AskedOff(stack) + consumed <= Len(input.data)
       /\ Good(input.data, [off |-> AskedOff(stack), size |-> consumed],
               Asked(input, stack))
  /\ pc = "done" => Good(input.data, Block(input), input.top)

WalkInv == last_error = "OK" /\ pc # "panic" => Walking

\* What a frame is called for, in terms of the stack below it.
Calling(in, f, s) ==
  /\ TypeOf(f) = Asked(in, s) /\ f.value.off = AskedOff(s)
  /\ s # <<>> => Waiting(in.data, Head(s))

LEMMA WalkedPush ==
  ASSUME NEW in, NEW s \in Seq(Frame), Walked(in, s), NEW f \in Frame,
         FrameGood(in.data, f), Calling(in, f, s)
  PROVE  Walked(in, <<f>> \o s)
<1> DEFINE t == <<f>> \o s
<1>1. /\ Len(s) \in Nat /\ Len(t) = Len(s) + 1 /\ t[1] = f
      /\ \A k \in 2 .. Len(s) + 1 : t[k] = s[k - 1]
  BY PushFrame
<1>2. s # <<>> => Head(s) = s[1] /\ Len(s) > 0
  BY PopFrame
<1>3. s = <<>> => Len(s) = 0
  OBVIOUS
<1> HIDE DEF t
<1> SUFFICES ASSUME NEW k \in 1 .. Len(t)
             PROVE  /\ FrameGood(in.data, t[k])
                    /\ k > 1 => Waiting(in.data, t[k])
                    /\ k < Len(t) => CalledFor(in, t[k], t[k + 1])
                    /\ k = Len(t) => TypeOf(t[k]) = in.top /\ t[k].value.off = 0
  BY DEF t, Walked
<1>4. CASE k = 1
  <2>1. CASE s = <<>>
    BY <1>1, <1>3, <1>4, <2>1 DEF Calling, Asked, AskedOff
  <2>2. CASE s # <<>>
    <3>1. t[2] = s[1] /\ k # Len(t)
      BY <1>1, <1>2, <1>4, <2>2
    <3>2. CalledFor(in, f, s[1])
      BY <1>2, <2>2 DEF Calling, Asked, AskedOff, CalledFor
    <3> QED  BY <1>1, <1>4, <3>1, <3>2
  <2> QED  BY <2>1, <2>2
<1>5. CASE k # 1
  <2>1. k \in 2 .. Len(s) + 1 /\ k - 1 \in 1 .. Len(s) /\ t[k] = s[k - 1]
    BY <1>1, <1>5
  <2> DEFINE j == k - 1
  <2>2. /\ FrameGood(in.data, s[j]) /\ (j > 1 => Waiting(in.data, s[j]))
        /\ j < Len(s) => CalledFor(in, s[j], s[j + 1])
        /\ j = Len(s) => TypeOf(s[j]) = in.top /\ s[j].value.off = 0
    BY <2>1 DEF Walked
  <2>3. j = 1 => Waiting(in.data, s[j])
    <3>1. j = 1 => s # <<>>
      BY <2>1, <1>3
    <3> QED  BY <3>1, <1>2 DEF Calling
  <2>4. j < Len(s) => t[k + 1] = s[j + 1]
    BY <1>1, <2>1
  <2> QED  BY <1>1, <2>1, <2>2, <2>3, <2>4
<1> QED  BY <1>4, <1>5

LEMMA WalkedPop ==
  ASSUME NEW in, NEW s \in Seq(Frame), Walked(in, s), s # <<>>
  PROVE  /\ Walked(in, Tail(s)) /\ FrameGood(in.data, Head(s))
         /\ Calling(in, Head(s), Tail(s))
<1> DEFINE t == Tail(s)
<1>1. /\ Len(s) \in Nat /\ Len(s) > 0 /\ Len(t) = Len(s) - 1 /\ Head(s) = s[1]
      /\ t \in Seq(Frame) /\ \A k \in 1 .. Len(t) : t[k] = s[k + 1]
  BY PopFrame
<1>2. t # <<>> => Head(t) = t[1] /\ Len(t) > 0
  <2> HIDE DEF t
  <2> QED  BY <1>1, PopFrame
<1> HIDE DEF t
<1>3. t = <<>> => Len(t) = 0
  OBVIOUS
<1>4. /\ FrameGood(in.data, s[1])
      /\ 1 < Len(s) => CalledFor(in, s[1], s[2])
      /\ 1 = Len(s) => TypeOf(s[1]) = in.top /\ s[1].value.off = 0
  <2>1. 1 \in 1 .. Len(s)
    BY <1>1
  <2> QED  BY <2>1 DEF Walked
<1>5. \A k \in 1 .. Len(t) :
        /\ FrameGood(in.data, t[k]) /\ Waiting(in.data, t[k])
        /\ k < Len(t) => CalledFor(in, t[k], t[k + 1])
        /\ k = Len(t) => TypeOf(t[k]) = in.top /\ t[k].value.off = 0
  <2> TAKE k \in 1 .. Len(t)
  <2>1. k + 1 \in 1 .. Len(s) /\ k + 1 > 1 /\ t[k] = s[k + 1]
    BY <1>1
  <2> DEFINE j == k + 1
  <2>2. /\ FrameGood(in.data, s[j]) /\ (j > 1 => Waiting(in.data, s[j]))
        /\ j < Len(s) => CalledFor(in, s[j], s[j + 1])
        /\ j = Len(s) => TypeOf(s[j]) = in.top /\ s[j].value.off = 0
    BY <2>1 DEF Walked
  <2>3. k < Len(t) => t[k + 1] = s[j + 1]
    BY <1>1
  <2> QED  BY <1>1, <2>1, <2>2, <2>3
<1>6. Walked(in, t)
  BY <1>5 DEF Walked
<1>7. Calling(in, s[1], t)
  <2>1. CASE t = <<>>
    BY <1>1, <1>3, <1>4, <2>1 DEF Calling, Asked, AskedOff
  <2>2. CASE t # <<>>
    <3>1. t[1] = s[2] /\ 1 < Len(s) /\ 1 \in 1 .. Len(t) /\ Head(t) = t[1]
      BY <1>1, <1>2, <2>2
    <3>2. CalledFor(in, s[1], Head(t)) /\ Waiting(in.data, Head(t))
      BY <1>4, <1>5, <3>1
    <3> QED  BY <2>2, <3>2 DEF Calling, Asked, AskedOff, CalledFor
  <2> QED  BY <2>1, <2>2
<1> QED  BY <1>1, <1>4, <1>6, <1>7 DEF t

\* The definition of a frame is the one its type names.
LEMMA FrameType ==
  ASSUME NEW f \in Frame, Named(f)
  PROVE  /\ TypeOf(f) # "byte" /\ DefinitionOf(TypeOf(f))
         /\ DefOf(TypeOf(f)) = Defs[f.def] /\ Kind(f) = DefOf(TypeOf(f)).kind
<1>1. f.def \in DOMAIN Defs
  BY DEF Frame
<1>2. DOMAIN Defs = 1 .. Len(Defs)
  BY VisitorAssumption
<1>3. f.def # 0 /\ f.def = DefIndex(TypeOf(f)) /\ TypeOf(f) # "byte"
  BY <1>1, <1>2 DEF Named
<1>4. DefinitionOf(TypeOf(f))
  BY <1>3, IndexedType
<1>5. DefOf(TypeOf(f)) = Defs[f.def]
  BY <1>3, <1>4 DEF DefinitionOf
<1> QED  BY <1>3, <1>4, <1>5 DEF Kind

\* The four ways a walk goes on.
LEMMA AcceptWalks ==
  ASSUME Walking, pc = "call", pc' = "ret", stack' = stack, input' = input,
         NEW n, consumed' = n,
         arg.value.off + n <= Len(input.data),
         Good(input.data, [off |-> arg.value.off, size |-> n], arg.typ)
  PROVE  Walking'
<1>1. /\ input.version = 1 /\ Walked(input, stack)
      /\ arg.typ = Asked(input, stack) /\ arg.value.off = AskedOff(stack)
      /\ stack # <<>> => Waiting(input.data, Top)
  BY DEF Walking
<1>2. Walked(input, stack)' /\ AskedOff(stack)' = AskedOff(stack)
      /\ Asked(input, stack)' = Asked(input, stack)
  BY <1>1
<1>3. (stack # <<>> => Waiting(input.data, Top))'
  BY <1>1 DEF Top
<1> QED  BY <1>1, <1>2, <1>3 DEF Walking

LEMMA EnterWalks ==
  ASSUME Inv, Walking, pc = "call", NEW f \in Frame,
         TypeOf(f) = arg.typ, f.value = arg.value, FrameGood(input.data, f),
         stack' = <<f>> \o stack, input' = input, pc' = "loop"
  PROVE  Walking'
<1>1. /\ input.version = 1 /\ Walked(input, stack)
      /\ arg.typ = Asked(input, stack) /\ arg.value.off = AskedOff(stack)
      /\ stack # <<>> => Waiting(input.data, Top)
  BY DEF Walking
<1>2. stack \in Seq(Frame)
  BY DEF Inv, TypeOK
<1>3. Calling(input, f, stack)
  BY <1>1 DEF Calling, Top
<1>4. Walked(input, <<f>> \o stack)
  BY <1>1, <1>2, <1>3, WalkedPush
<1>5. Walked(input, stack)'
  BY <1>4
<1> QED  BY <1>1, <1>5 DEF Walking

LEMMA DescendWalks ==
  ASSUME Inv, Walking, pc = "call", NEW f \in Frame, Simple(f),
         TypeOf(f) = arg.typ, f.value = arg.value, FrameGood(input.data, f),
         stack' = <<f>> \o stack, input' = input, pc' = "call",
         arg'.typ = AskedType(input.data, f), arg'.value.off = arg.value.off + f.used
  PROVE  Walking'
<1>1. /\ input.version = 1 /\ Walked(input, stack)
      /\ arg.typ = Asked(input, stack) /\ arg.value.off = AskedOff(stack)
      /\ stack # <<>> => Waiting(input.data, Top)
  BY DEF Walking
<1>2. stack \in Seq(Frame)
  BY DEF Inv, TypeOK
<1>3. Calling(input, f, stack)
  BY <1>1 DEF Calling, Top
<1>4. Walked(input, <<f>> \o stack)
  BY <1>1, <1>2, <1>3, WalkedPush
<1>5. Walked(input, stack)'
  BY <1>4
<1>6. stack' # <<>> /\ Top' = f
  BY <1>2, PushedTop
<1>7. Kind(f) \notin OffsetKinds
  BY DEF Simple, OffsetKinds
<1>8. Waiting(input.data, Top)'
  <2>1. Waiting(input.data, f)
    BY <1>7 DEF Waiting
  <2> QED  BY <1>6, <2>1
<1>9. arg'.typ = Asked(input, stack)' /\ arg'.value.off = AskedOff(stack)'
  <2>1. Head(stack') = f
    BY <1>6 DEF Top
  <2> QED  BY <1>6, <2>1 DEF Asked, AskedOff
<1> QED  BY <1>1, <1>5, <1>8, <1>9 DEF Walking

LEMMA ReturnWalks ==
  ASSUME Inv, Walking, pc # "start", stack # <<>>,
         pc' = "ret", stack' = Tail(stack), input' = input,
         NEW n, consumed' = n,
         Top.value.off + n <= Len(input.data),
         Good(input.data, [off |-> Top.value.off, size |-> n], TypeOf(Top))
  PROVE  Walking'
<1>1. input.version = 1 /\ Walked(input, stack) /\ stack \in Seq(Frame)
  BY DEF Walking, Inv, TypeOK
<1>2. Walked(input, Tail(stack)) /\ Calling(input, Top, Tail(stack))
  BY <1>1, WalkedPop DEF Top
<1>3. Walked(input, stack)'
  BY <1>2
<1>4. /\ TypeOf(Top) = Asked(input, stack)' /\ Top.value.off = AskedOff(stack)'
      /\ (stack # <<>> => Waiting(input.data, Top))'
  BY <1>2 DEF Calling, Top
<1>5. Good(input.data', [off |-> AskedOff(stack)', size |-> consumed'], Asked(input, stack)')
  BY <1>4
<1>6. AskedOff(stack)' + consumed' <= Len(input.data')
  BY <1>4
<1> QED  BY <1>1, <1>3, <1>4, <1>5, <1>6 DEF Walking

\* The items of an array, a struct or a fixvec lie one behind the other.
LEMMA SequentialItems ==
  ASSUME NEW rank, SizesGrounded(rank), NEW mem, NEW f \in Frame, Named(f),
         Kind(f) \in {"array", "struct", "fixvec"}, HeaderRead(mem, f)
  PROVE  /\ Begin(mem, f, 0) = IF Kind(f) = "fixvec" THEN NumSize ELSE 0
         /\ \A k \in 0 .. f.count - 1 :
              /\ TypeAt(f, k) \in SizedTypes /\ FixedSize(TypeAt(f, k)) \in Nat
              /\ Begin(mem, f, k) \in Nat
              /\ Begin(mem, f, k + 1) = Begin(mem, f, k) + FixedSize(TypeAt(f, k))
<1> DEFINE d == Defs[f.def]
<1>1. /\ DefinitionOf(TypeOf(f)) /\ DefOf(TypeOf(f)) = d /\ Kind(f) = d.kind
      /\ TypeOf(f) # "byte" /\ d \in Definition /\ f.def \in DOMAIN Defs
      /\ f.count \in Nat /\ TypeOf(f) \in TypeNames
  BY FrameType, FrameKind DEF DefinitionOf, Frame
<1> DEFINE size == FixedSize(d.item)
<1>2. CASE Kind(f) = "array" \/ Kind(f) = "fixvec"
  <2>1. d.item \in SizedTypes
    <3>1. CASE Kind(f) = "array"
      <4>1. TypeOf(f) \in SizedTypes
        BY <1>1, <3>1 DEF SizedTypes
      <4> QED  BY <1>1, <3>1, <4>1, InnerSized
    <3>2. CASE Kind(f) = "fixvec"
      BY <1>1, <3>2 DEF SizesGrounded
    <3> QED  BY <1>2, <3>1, <3>2
  <2>2. size \in Nat
    BY <2>1, FixedSizeParts
  <2>3. \A k \in Nat : TypeAt(f, k) = d.item
    BY <1>2 DEF TypeAt, FieldKinds
  <2> HIDE DEF size
  <2> DEFINE base == IF Kind(f) = "fixvec" THEN NumSize ELSE 0
  <2>4. base \in Nat
    BY DEF NumSize
  <2>5. \A k \in Nat : k * size \in Nat /\ (k + 1) * size = k * size + size
    BY <2>2
  <2>6. \A k \in Nat : Begin(mem, f, k) = base + k * size
    <3>1. CASE Kind(f) = "array"
      <4>1. \A k \in Nat : Begin(mem, f, k) = k * size
        BY <3>1 DEF Begin, size
      <4>2. base = 0
        BY <3>1
      <4> HIDE DEF base
      <4> QED  BY <4>1, <4>2, <2>5
    <3>2. CASE Kind(f) = "fixvec"
      <4>1. \A k \in Nat : Begin(mem, f, k) = NumSize + k * size
        BY <3>2 DEF Begin, size
      <4> QED  BY <4>1, <3>2
    <3> QED  BY <1>2, <3>1, <3>2
  <2>7. 0 * size = 0
    BY <2>2
  <2>8. Begin(mem, f, 0) = base
    <3> HIDE DEF base
    <3> QED  BY <2>4, <2>6, <2>7
  <2>9. \A k \in 0 .. f.count - 1 :
          /\ TypeAt(f, k) \in SizedTypes /\ FixedSize(TypeAt(f, k)) \in Nat
          /\ Begin(mem, f, k) \in Nat
          /\ Begin(mem, f, k + 1) = Begin(mem, f, k) + FixedSize(TypeAt(f, k))
    <3> HIDE DEF base
    <3> TAKE k \in 0 .. f.count - 1
    <3>1. k \in Nat /\ k + 1 \in Nat
      BY <1>1
    <3>2. TypeAt(f, k) = d.item /\ FixedSize(TypeAt(f, k)) = size
      BY <3>1, <2>3 DEF size
    <3>3. /\ Begin(mem, f, k) = base + k * size
          /\ Begin(mem, f, k + 1) = base + (k + 1) * size
          /\ k * size \in Nat /\ (k + 1) * size = k * size + size
      BY <3>1, <2>5, <2>6
    <3> QED  BY <3>2, <3>3, <2>1, <2>2, <2>4
  <2> QED  BY <2>8, <2>9
<1>3. CASE Kind(f) = "struct"
  <2>1. d.fields \in Seq(SizedTypes)
    <3>1. TypeOf(f) \in SizedTypes
      BY <1>1, <1>3 DEF SizedTypes
    <3> QED  BY <1>1, <1>3, <3>1, InnerSized
  <2>2. /\ \A k \in 0 .. Len(d.fields) : FieldsUpTo(d.fields, k) \in Nat
        /\ FieldsUpTo(d.fields, 0) = 0
        /\ \A k \in 0 .. Len(d.fields) - 1 :
             /\ FixedSize(d.fields[k + 1]) \in Nat
             /\ FieldsUpTo(d.fields, k + 1) = FieldsUpTo(d.fields, k) + FixedSize(d.fields[k + 1])
    BY <2>1, FieldsAdvance
  <2>3. \A k : Begin(mem, f, k) = FieldsUpTo(d.fields, k) /\ TypeAt(f, k) = d.fields[k + 1]
    BY <1>3 DEF Begin, TypeAt, FieldKinds
  <2>4. f.count = Len(d.fields)
    BY <1>3 DEF HeaderRead, FieldKinds
  <2>5. \A k \in 0 .. Len(d.fields) - 1 : d.fields[k + 1] \in SizedTypes
    BY <2>1
  <2>6. Begin(mem, f, 0) = 0
    BY <2>2, <2>3
  <2>7. Len(d.fields) \in Nat
    BY <2>1
  <2> HIDE DEF d
  <2>8. \A k \in 0 .. f.count - 1 :
          /\ TypeAt(f, k) \in SizedTypes /\ FixedSize(TypeAt(f, k)) \in Nat
          /\ Begin(mem, f, k) \in Nat
          /\ Begin(mem, f, k + 1) = Begin(mem, f, k) + FixedSize(TypeAt(f, k))
    <3> TAKE k \in 0 .. f.count - 1
    <3>1. k \in 0 .. Len(d.fields) - 1 /\ k \in 0 .. Len(d.fields)
      BY <2>4, <2>7
    <3> QED  BY <3>1, <2>2, <2>3, <2>5
  <2> QED  BY <1>3, <2>6, <2>8
<1> QED  BY <1>2, <1>3

\* The running visitor is the one of the type that was asked for.
LEMMA CalleeNamed ==
  ASSUME NEW kind, Visiting(kind)
  PROVE  /\ DefinitionOf(arg.typ) /\ Callee = DefOf(arg.typ) /\ Callee.name = arg.typ
         /\ arg.typ # "byte" /\ arg.typ \in TypeNames /\ Callee.kind = kind
         /\ pc = "call" /\ last_error = "OK" /\ DefIndex(arg.typ) # 0
BY IndexedType DEF Visiting, DefinitionOf, Callee

\* What the visitor that enters its loop has read.
Entered(count, used, full) ==
  /\ Callee.kind = "array" => count = Callee.count
  /\ Callee.kind \in FieldKinds => count = Len(Callee.fields)
  /\ Callee.kind \in {"array", "struct"} => used = 0
  /\ Callee.kind = "fixvec" =>
       /\ count = WordAt(input.data, arg.value.off) /\ arg.typ # "String"
       /\ arg.value.size >= NumSize /\ used = NumSize
  /\ Callee.kind \in OffsetKinds =>
       /\ HeaderFits(arg.value) /\ count = ItemCount(arg.value)
       /\ used = FirstOffset(arg.value) /\ full = FullSize(arg.value)

LEMMA EntersWalks ==
  ASSUME NEW rank, SizesGrounded(rank), Inv, Walking,
         NEW kind, Visiting(kind), kind \notin {"option", "union"},
         NEW fail, NEW count \in Nat, NEW used \in Nat, NEW full \in Nat,
         used <= arg.value.size, Enter(fail, count, used, full),
         Entered(count, used, full)
  PROVE  Walking'
<1> DEFINE f == [def |-> DefIndex(arg.typ), value |-> arg.value, i |-> 0,
                 count |-> count, used |-> used, full |-> full, sub |-> 0,
                 entry |-> indent]
           mem == input.data
<1>1. pc' = "loop" /\ stack' = <<f>> \o stack /\ input' = input
  BY DEF Enter
<1>2. /\ DefinitionOf(arg.typ) /\ Callee = DefOf(arg.typ) /\ Callee.name = arg.typ
      /\ arg.typ # "byte" /\ Callee.kind = kind
      /\ pc = "call" /\ last_error = "OK" /\ DefIndex(arg.typ) # 0
  BY CalleeNamed
<1>3. /\ Callee.kind \in OffsetKinds => full <= arg.value.size /\ NumSize * (count + 1) <= arg.value.size
      /\ Callee.kind \in FieldKinds => count = Len(Callee.fields)
  BY <1>2, HeaderNumbers DEF Entered
<1>4. f \in Frame /\ Kind(f) = Callee.kind /\ Chain(<<f>> \o stack, BlockLen)
  <2>1. pc = "call" /\ last_error = "OK" /\ DefIndex(arg.typ) # 0
    BY <1>2
  <2> QED  BY <1>3, <2>1, NewFrame
<1>5. /\ f.def = DefIndex(arg.typ) /\ f.value = arg.value /\ f.i = 0 /\ f.count = count
      /\ f.used = used /\ f.full = full
  OBVIOUS
<1> HIDE DEF f
<1>6. Defs[f.def] = Callee /\ TypeOf(f) = arg.typ
  BY <1>2, <1>5 DEF TypeOf, Callee
<1>7. Named(f)
  BY <1>2, <1>5, <1>6 DEF Named
<1>8. HeaderRead(mem, f)
  <2>1. Kind(f) = "array" => f.count = Defs[f.def].count
    BY <1>4, <1>5, <1>6 DEF Entered
  <2>2. Kind(f) \in FieldKinds => f.count = Len(Defs[f.def].fields)
    BY <1>4, <1>5, <1>6 DEF Entered
  <2>3. Kind(f) = "fixvec" => /\ f.count = WordAt(mem, f.value.off) /\ TypeOf(f) # "String"
                              /\ f.value.size >= NumSize
    BY <1>4, <1>5, <1>6 DEF Entered
  <2>4. Kind(f) \in OffsetKinds =>
          /\ f.full = WordAt(mem, f.value.off) /\ WordAt(mem, f.value.off) >= 2 * NumSize
          /\ WordAt(mem, f.value.off + NumSize) % NumSize = 0
          /\ WordAt(mem, f.value.off + NumSize) \in 2 * NumSize .. f.value.size
          /\ f.count = WordAt(mem, f.value.off + NumSize) \div NumSize - 1
    <3> SUFFICES ASSUME Kind(f) \in OffsetKinds
                 PROVE  /\ f.full = FullSize(arg.value) /\ FullSize(arg.value) >= 2 * NumSize
                        /\ FirstOffset(arg.value) % NumSize = 0
                        /\ FirstOffset(arg.value) \in 2 * NumSize .. arg.value.size
                        /\ f.count = FirstOffset(arg.value) \div NumSize - 1
      BY <1>5 DEF FullSize, FirstOffset
    <3>1. HeaderFits(arg.value) /\ f.count = ItemCount(arg.value) /\ f.full = FullSize(arg.value)
      BY <1>4, <1>5 DEF Entered
    <3>2. FirstOffset(arg.value) \in Nat /\ FirstOffset(arg.value) <= arg.value.size
      BY <1>2, <3>1, HeaderNumbers
    <3>3. arg.value.size \in Nat
      BY <1>2, Running
    <3>4. FirstOffset(arg.value) \in 2 * NumSize .. arg.value.size
      BY <3>1, <3>2, <3>3 DEF HeaderFits, NumSize
    <3> QED  BY <3>1, <3>4 DEF HeaderFits, ItemCount
  <2> QED  BY <2>1, <2>2, <2>3, <2>4 DEF HeaderRead
<1>9. f.used = Begin(mem, f, 0)
  <2>1. CASE Kind(f) \in {"array", "struct", "fixvec"}
    BY <1>4, <1>5, <1>7, <1>8, <2>1, SequentialItems DEF Entered
  <2>2. CASE Kind(f) \in OffsetKinds
    <3>1. Begin(mem, f, 0) = WordAt(mem, f.value.off + NumSize)
      BY <2>2 DEF Begin, OffsetKinds
    <3> QED  BY <3>1, <2>2, <1>4, <1>5 DEF Entered, FirstOffset
  <2>3. Kind(f) \in Kinds
    BY <1>4, FrameKind
  <2> QED  BY <1>2, <1>4, <2>1, <2>2, <2>3 DEF Kinds, OffsetKinds
<1>10. ItemsGood(mem, f, f.i)
  <2>1. f.i <= f.count /\ f.i - 1 = -1
    BY <1>5
  <2>2. f.used >= Begin(mem, f, 0)
    BY <1>9, <1>5
  <2>3. f.used = Begin(mem, f, f.i)
    BY <1>9, <1>5
  <2> QED  BY <2>1, <2>2, <2>3 DEF ItemsGood
<1>11. FrameGood(mem, f)
  BY <1>2, <1>4, <1>7, <1>8, <1>10 DEF FrameGood
<1> QED  BY <1>1, <1>2, <1>4, <1>5, <1>6, <1>11, EnterWalks

LEMMA DescendsWalks ==
  ASSUME Inv, Walking, NEW kind, Visiting(kind), kind \in {"option", "union"},
         NEW fail, NEW used \in Nat, used <= arg.value.size, NEW typ,
         Descend(fail, used, typ),
         kind = "option" => used = 0 /\ typ = Callee.item,
         kind = "union" =>
           /\ used = NumSize /\ arg.typ # "Address"
           /\ VariantIndex(Callee.pairs, UnionId(arg.value)) # 0
           /\ typ = Callee.pairs[VariantIndex(Callee.pairs, UnionId(arg.value))].typ
  PROVE  Walking'
<1> DEFINE f == [def |-> DefIndex(arg.typ), value |-> arg.value, i |-> 0,
                 count |-> 1, used |-> used, full |-> 0,
                 sub |-> arg.value.size - used, entry |-> indent]
           mem == input.data
<1>1. /\ pc' = "call" /\ stack' = <<f>> \o stack /\ input' = input
      /\ arg' = [value |-> Advance(arg.value, used), typ |-> typ]
  BY DEF Descend
<1>2. /\ DefinitionOf(arg.typ) /\ Callee = DefOf(arg.typ) /\ Callee.name = arg.typ
      /\ arg.typ # "byte" /\ Callee.kind = kind
      /\ pc = "call" /\ last_error = "OK" /\ DefIndex(arg.typ) # 0
  BY CalleeNamed
<1>3. f \in Frame /\ Kind(f) = Callee.kind /\ Chain(<<f>> \o stack, BlockLen)
  <2>1. arg.value.size - used \in Nat
    BY <1>2, Running
  <2>2. Callee.kind \notin OffsetKinds /\ Callee.kind \notin FieldKinds
    BY <1>2 DEF OffsetKinds, FieldKinds
  <2>3. pc = "call" /\ last_error = "OK" /\ DefIndex(arg.typ) # 0
    BY <1>2
  <2>4. 0 \in Nat /\ 1 \in Nat
    OBVIOUS
  <2> QED  BY <2>1, <2>2, <2>3, <2>4, NewFrame
<1>4. /\ f.def = DefIndex(arg.typ) /\ f.value = arg.value /\ f.used = used
  OBVIOUS
<1> HIDE DEF f
<1>5. Defs[f.def] = Callee /\ TypeOf(f) = arg.typ
  BY <1>2, <1>4 DEF TypeOf, Callee
<1>6. Named(f) /\ Simple(f)
  BY <1>2, <1>3, <1>4, <1>5 DEF Named, Simple
<1>7. FrameGood(mem, f)
  BY <1>2, <1>3, <1>4, <1>5, <1>6 DEF FrameGood, UnionId
<1>8. typ = AskedType(mem, f)
  BY <1>2, <1>3, <1>4, <1>5 DEF AskedType, UnionId
<1>9. arg'.typ = typ /\ arg'.value.off = arg.value.off + f.used
  BY <1>1, <1>4 DEF Advance
<1> QED  BY <1>1, <1>2, <1>3, <1>4, <1>5, <1>6, <1>7, <1>8, <1>9, DescendWalks
-----------------------------------------------------------------------------
(* The steps of the walk that leave no error. *)

LEMMA NeverRejects ==
  ASSUME NEW e, NEW up, Reject(e, up), last_error' = "OK"
  PROVE  e = "OK"
BY DEF Reject

\* A visitor that accepts n bytes of its value.
LEMMA AcceptsGood ==
  ASSUME Inv, Walking, pc = "call", NEW fail, NEW n \in Nat, NEW offsets,
         Accept(fail, n, offsets), arg.value.off + n <= Len(input.data),
         [off |-> arg.value.off, size |-> n] \in Cursor =>
           Good(input.data, [off |-> arg.value.off, size |-> n], arg.typ)
  PROVE  Walking'
<1>1. pc' = "ret" /\ stack' = stack /\ input' = input /\ consumed' = n
  BY DEF Accept
<1>2. [off |-> arg.value.off, size |-> n] \in Cursor
  BY Running DEF Cursor
<1> QED  BY <1>1, <1>2, AcceptWalks

LEMMA StartWalks == ASSUME Inv, Walking, Start, last_error' = "OK" PROVE Walking'
<1>1. /\ pc = "start" /\ pc' = "call" /\ input.version = 1
      /\ input' = input /\ arg' = arg /\ stack' = stack
  BY DEF Start
<1>2. /\ Walked(input, stack) /\ arg.typ = Asked(input, stack)
      /\ arg.value.off = AskedOff(stack)
      /\ stack # <<>> => Waiting(input.data, Top)
  BY <1>1 DEF Walking
<1>3. /\ Walked(input, stack)' /\ arg'.typ = Asked(input, stack)'
      /\ arg'.value.off = AskedOff(stack)'
      /\ (stack # <<>> => Waiting(input.data, Top))'
  BY <1>1, <1>2 DEF Top
<1> QED  BY <1>1, <1>3 DEF Walking

LEMMA VisitByteWalks ==
  ASSUME Inv, Walking, VisitByte, last_error' = "OK" PROVE Walking'
<1>1. pc = "call" /\ arg.typ = "byte"
  BY DEF VisitByte
<1>2. PICK fail : arg.value.size > 0 /\ Accept(fail, 1, <<arg.value.off>>)
  BY DEF VisitByte, Reject
<1>3. arg.value.off + 1 <= Len(input.data)
  BY <1>1, <1>2, Running DEF TotalSize
<1>4. [off |-> arg.value.off, size |-> 1] \in Cursor =>
        Good(input.data, [off |-> arg.value.off, size |-> 1], arg.typ)
  BY <1>1, GoodByte
<1>5. 1 \in Nat
  OBVIOUS
<1> QED  BY <1>1, <1>2, <1>3, <1>4, <1>5, AcceptsGood

LEMMA VisitOptionWalks ==
  ASSUME BuiltinsKept, Inv, Walking, VisitOption, last_error' = "OK" PROVE Walking'
<1>1. Visiting("option")
  BY DEF VisitOption
<1>2. /\ DefinitionOf(arg.typ) /\ Callee = DefOf(arg.typ) /\ arg.typ # "byte"
      /\ Callee.kind = "option" /\ pc = "call"
  BY <1>1, CalleeNamed
<1>3. arg.value.off \in Nat /\ arg.value.size \in Nat
      /\ arg.value.off + arg.value.size <= Len(input.data)
  BY <1>2, Running DEF TotalSize
<1>4. PICK fail : \/ arg.value.size > 0 /\ Descend(fail, 0, Callee.item)
                  \/ arg.value.size = 0 /\ Accept(fail, 0, <<>>)
  BY DEF VisitOption
<1>5. 0 \in Nat
  OBVIOUS
<1>6. CASE Descend(fail, 0, Callee.item)
  <2>1. 0 <= arg.value.size
    BY <1>3
  <2>2. "option" \in {"option", "union"} /\ "option" # "union"
    OBVIOUS
  <2> QED  BY <1>1, <1>5, <1>6, <2>1, <2>2, DescendsWalks
<1>7. CASE arg.value.size = 0 /\ Accept(fail, 0, <<>>)
  <2>1. arg.value.off + 0 <= Len(input.data)
    BY <1>3, <1>7
  <2> DEFINE c == [off |-> arg.value.off, size |-> 0]
  <2>2. c.size = 0
    OBVIOUS
  <2> HIDE DEF c
  <2>3. c \in Cursor => Good(input.data, c, arg.typ)
    BY <1>2, <2>2, GoodOption
  <2>4. pc = "call" /\ Accept(fail, 0, <<>>)
    BY <1>2, <1>7
  <2> QED  BY <1>5, <2>1, <2>3, <2>4, AcceptsGood DEF c
<1> QED  BY <1>4, <1>6, <1>7

LEMMA VisitUnionWalks ==
  ASSUME Inv, Walking, VisitUnion, last_error' = "OK" PROVE Walking'
<1>1. Visiting("union")
  BY DEF VisitUnion
<1>2. Callee.name = arg.typ /\ pc = "call"
  BY <1>1, CalleeNamed
<1> DEFINE k == VariantIndex(Callee.pairs, UnionId(arg.value))
<1>3. /\ UnionKnown(arg.value) /\ Callee.name # "Address"
      /\ \E fail : Descend(fail, NumSize, Callee.pairs[k].typ)
  BY DEF VisitUnion, Reject
<1>4. PICK fail : Descend(fail, NumSize, Callee.pairs[k].typ)
  BY <1>3
<1>5. NumSize \in Nat /\ NumSize <= arg.value.size /\ k # 0
  BY <1>2, <1>3, Running DEF UnionKnown, NumSize
<1>6. "union" \in {"option", "union"} /\ "union" # "option"
  OBVIOUS
<1> QED  BY <1>1, <1>2, <1>3, <1>4, <1>5, <1>6, DescendsWalks

LEMMA VisitArrayWalks ==
  ASSUME NEW rank, SizesGrounded(rank), BuiltinsKept, Inv, Walking, VisitArray,
         last_error' = "OK", pc' # "panic"
  PROVE  Walking'
<1> DEFINE n == Callee.count
           bytes == Offsets([off |-> arg.value.off, size |-> n])
           builtin == Callee.name \in {"Byte32", "Uint64"}
<1>1. Visiting("array")
  BY DEF VisitArray
<1>2. /\ DefinitionOf(arg.typ) /\ Callee = DefOf(arg.typ) /\ arg.typ # "byte"
      /\ Callee.kind = "array" /\ pc = "call" /\ Callee.name = arg.typ
  BY <1>1, CalleeNamed
<1>3. n \in Nat
  BY <1>2 DEF DefinitionOf, Definition
<1>4. arg.value.off \in Nat /\ arg.value.size \in Nat
      /\ arg.value.off + arg.value.size <= Len(input.data)
  BY <1>2, Running DEF TotalSize
<1>5. PICK fail :
        \/ (builtin \/ Callee.item = "byte") /\ arg.value.size >= n /\ Accept(fail, n, bytes)
        \/ Enter(fail, n, 0, 0)
  <2>1. \/ ~ArrayAdmits(arg.value) /\ Reject("SCHEMA_ENCODING", 0)
        \/ n = 0 /\ Panic(FALSE)
        \/ \E fail \in BOOLEAN :
             \/ BuiltinMismatch(n) /\ Reject("SCHEMA_ENCODING", 0)
             \/ builtin /\ arg.value.size < n /\ Reject("MOLECULE_ENCODING", 0)
             \/ builtin /\ arg.value.size >= n /\ Accept(fail, n, bytes)
             \/ Callee.item = "byte" /\ arg.value.size < n /\ Reject("MOLECULE_ENCODING", 1)
             \/ Callee.item = "byte" /\ arg.value.size >= n /\ Accept(fail, n, bytes)
             \/ Enter(fail, n, 0, 0)
    BY Zenon DEF VisitArray
  <2>2. ~Reject("SCHEMA_ENCODING", 0) /\ ~Reject("MOLECULE_ENCODING", 0)
        /\ ~Reject("MOLECULE_ENCODING", 1)
    BY NeverRejects
  <2>3. ~Panic(FALSE)
    BY DEF Panic
  <2> HIDE DEF n, bytes, builtin
  <2> QED  BY <2>1, <2>2, <2>3, Zenon
<1>6. CASE (builtin \/ Callee.item = "byte") /\ arg.value.size >= n /\ Accept(fail, n, bytes)
  <2>1. DefOf(arg.typ).item = "byte" /\ DefOf(arg.typ).kind = "array"
    BY <1>2, <1>6, Builtins
  <2> DEFINE c == [off |-> arg.value.off, size |-> n]
  <2>2. c.size = DefOf(arg.typ).count
    BY <1>2
  <2> HIDE DEF c
  <2>3. c \in Cursor => Good(input.data, c, arg.typ)
    BY <1>2, <2>1, <2>2, GoodByteArray
  <2>4. arg.value.off + n <= Len(input.data)
    BY <1>3, <1>4, <1>6
  <2> HIDE DEF n, bytes, builtin
  <2> QED  BY <1>2, <1>3, <1>6, <2>3, <2>4, AcceptsGood DEF c
<1>7. CASE Enter(fail, n, 0, 0)
  <2>1. Entered(n, 0, 0)
    BY <1>2 DEF Entered, FieldKinds, OffsetKinds
  <2>2. 0 \in Nat /\ 0 <= arg.value.size
    BY <1>4
  <2>3. "array" \notin {"option", "union"}
    OBVIOUS
  <2> HIDE DEF n
  <2> QED  BY <1>1, <1>3, <1>7, <2>1, <2>2, <2>3, EntersWalks
<1> QED  BY <1>5, <1>6, <1>7

LEMMA VisitStructWalks ==
  ASSUME NEW rank, SizesGrounded(rank), Inv, Walking, VisitStruct
  PROVE  Walking'
<1> DEFINE n == Len(Callee.fields)
<1>1. Visiting("struct")
  BY DEF VisitStruct
<1>2. /\ DefinitionOf(arg.typ) /\ Callee = DefOf(arg.typ)
      /\ Callee.kind = "struct" /\ pc = "call"
  BY <1>1, CalleeNamed
<1>3. n \in Nat
  BY <1>2 DEF DefinitionOf, Definition
<1>4. 0 <= arg.value.size /\ 0 \in Nat
  BY <1>2, Running
<1>5. PICK fail : Enter(fail, n, 0, 0)
  BY DEF VisitStruct
<1>6. Entered(n, 0, 0)
  BY <1>2 DEF Entered, FieldKinds, OffsetKinds
<1>7. "struct" \notin {"option", "union"}
  OBVIOUS
<1> HIDE DEF n
<1> QED  BY <1>1, <1>3, <1>4, <1>5, <1>6, <1>7, EntersWalks

LEMMA VisitDynvecWalks ==
  ASSUME NEW rank, SizesGrounded(rank), BuiltinsKept, Inv, Walking, VisitDynvec,
         last_error' = "OK"
  PROVE  Walking'
<1>1. Visiting("dynvec")
  BY DEF VisitDynvec
<1>2. /\ DefinitionOf(arg.typ) /\ Callee = DefOf(arg.typ) /\ arg.typ # "byte"
      /\ Callee.kind = "dynvec" /\ pc = "call"
  BY <1>1, CalleeNamed
<1>3. arg.value.off \in Nat /\ arg.value.size \in Nat
      /\ arg.value.off + arg.value.size <= Len(input.data)
  BY <1>2, Running DEF TotalSize
<1>4. PICK fail :
        \/ EmptyDynvec(arg.value) /\ Accept(fail, NumSize, <<>>)
        \/ HeaderFits(arg.value)
           /\ Enter(fail, ItemCount(arg.value), FirstOffset(arg.value), FullSize(arg.value))
  <2>1. ~Reject("MOLECULE_ENCODING", 0)
    BY NeverRejects
  <2> QED  BY <2>1, Zenon DEF VisitDynvec
<1>5. CASE EmptyDynvec(arg.value) /\ Accept(fail, NumSize, <<>>)
  <2> DEFINE c == [off |-> arg.value.off, size |-> NumSize]
  <2>1. c.size = NumSize /\ WordAt(input.data, c.off) = NumSize /\ NumSize <= arg.value.size
    BY <1>3, <1>5 DEF EmptyDynvec, FullSize, NumSize
  <2> HIDE DEF c
  <2>2. c \in Cursor => Good(input.data, c, arg.typ)
    BY <1>2, <2>1, GoodEmptyDynvec
  <2>3. arg.value.off + NumSize <= Len(input.data) /\ NumSize \in Nat
    BY <1>3, <2>1 DEF NumSize
  <2> QED  BY <1>2, <1>5, <2>2, <2>3, AcceptsGood DEF c
<1>6. CASE HeaderFits(arg.value)
           /\ Enter(fail, ItemCount(arg.value), FirstOffset(arg.value), FullSize(arg.value))
  <2>1. /\ ItemCount(arg.value) \in Nat /\ FirstOffset(arg.value) \in Nat
        /\ FullSize(arg.value) \in Nat /\ FirstOffset(arg.value) <= arg.value.size
    BY <1>2, <1>6, HeaderNumbers
  <2>2. Entered(ItemCount(arg.value), FirstOffset(arg.value), FullSize(arg.value))
    BY <1>2, <1>6 DEF Entered, FieldKinds
  <2>3. "dynvec" \notin {"option", "union"}
    OBVIOUS
  <2> QED  BY <1>1, <1>6, <2>1, <2>2, <2>3, EntersWalks
<1> QED  BY <1>4, <1>5, <1>6

LEMMA VisitTableWalks ==
  ASSUME NEW rank, SizesGrounded(rank), Inv, Walking, VisitTable, last_error' = "OK"
  PROVE  Walking'
<1>1. Visiting("table")
  BY DEF VisitTable
<1>2. Callee.kind = "table" /\ pc = "call"
  BY <1>1, CalleeNamed
<1>3. TableFits(arg.value) /\ HeaderFits(arg.value)
  <2>1. ~Reject("MOLECULE_ENCODING", 0)
    BY NeverRejects
  <2> QED  BY <2>1 DEF VisitTable, TableFits
<1>4. PICK fail : Enter(fail, ItemCount(arg.value), FirstOffset(arg.value), FullSize(arg.value))
  BY <1>3 DEF VisitTable
<1>5. /\ ItemCount(arg.value) \in Nat /\ FirstOffset(arg.value) \in Nat
      /\ FullSize(arg.value) \in Nat /\ FirstOffset(arg.value) <= arg.value.size
  BY <1>2, <1>3, HeaderNumbers
<1>6. Entered(ItemCount(arg.value), FirstOffset(arg.value), FullSize(arg.value))
  BY <1>2, <1>3 DEF Entered, TableFits
<1>7. "table" \notin {"option", "union"}
  OBVIOUS
<1> QED  BY <1>1, <1>4, <1>5, <1>6, <1>7, EntersWalks

\* A vector of bytes whose content lies inside the block: item_count + 4 did
\* not wrap.
LEMMA ContentGood ==
  ASSUME NEW rank, SizesGrounded(rank), BuiltinsKept, Inv, pc = "call",
         DefinitionOf(arg.typ), arg.typ # "byte", DefOf(arg.typ).kind = "fixvec",
         DefOf(arg.typ).item = "byte", arg.value.size >= NumSize,
         NEW n, n = WordAt(input.data, arg.value.off),
         Validates(input.data, Content(arg.value, n)),
         arg.typ = "String" => Utf8(input.data, Content(arg.value, n)),
         NEW c \in Cursor, c = [off |-> arg.value.off, size |-> VectorSize(n)]
  PROVE  /\ VectorSize(n) \in Nat /\ arg.value.off + VectorSize(n) <= Len(input.data)
         /\ Good(input.data, c, arg.typ)
<1>1. /\ arg.value.off \in Nat /\ arg.value.size \in Nat
      /\ arg.value.off + arg.value.size <= Len(input.data)
  BY Running DEF TotalSize
<1>2. n \in Nat
  BY FirstWord
<1>3. arg.value.off + NumSize + n <= Len(input.data)
  BY DEF Validates, Content, TotalSize
<1>4. Len(input.data) < WordMod /\ Len(input.data) \in Nat /\ WordMod \in Nat
  BY WordModBig DEF Inv, TypeOK, Input
<1>5. n + NumSize \in 0 .. WordMod - 1
  BY <1>1, <1>2, <1>3, <1>4 DEF NumSize
<1>6. VectorSize(n) = n + NumSize
  BY <1>4, <1>5, NoWrap DEF VectorSize
<1>7. c.off = arg.value.off /\ c.size = VectorSize(n)
  OBVIOUS
<1>8. c.size = NumSize + n /\ WordAt(input.data, c.off) = n
  BY <1>2, <1>6, <1>7 DEF NumSize
<1>9. Content(c, n) = Content(arg.value, n)
  BY <1>7 DEF Content
<1>10. arg.typ = "String" => Utf8(input.data, Content(c, n))
  BY <1>9
<1>11. Good(input.data, c, arg.typ)
  BY <1>2, <1>8, <1>10, GoodByteVector
<1> QED  BY <1>1, <1>2, <1>3, <1>6, <1>11 DEF NumSize

LEMMA VisitFixvecWalks ==
  ASSUME NEW rank, SizesGrounded(rank), BuiltinsKept, Inv, Walking, VisitFixvec,
         last_error' = "OK", pc' # "panic"
  PROVE  Walking'
<1> DEFINE n == WordAt(input.data, arg.value.off)
           text == Content(arg.value, n)
           checked == /\ Callee.name = "String" /\ Callee.item = "byte"
                      /\ Utf8Result(input.data, text) = "ok"
           plain == /\ Callee.name # "String" /\ Callee.item = "byte"
                    /\ Validates(input.data, text)
<1>1. Visiting("fixvec")
  BY DEF VisitFixvec
<1>2. /\ DefinitionOf(arg.typ) /\ Callee = DefOf(arg.typ) /\ arg.typ # "byte"
      /\ Callee.kind = "fixvec" /\ pc = "call" /\ Callee.name = arg.typ
  BY <1>1, CalleeNamed
<1>3. /\ arg.value.off \in Nat /\ arg.value.size \in Nat
      /\ arg.value.off + arg.value.size <= Len(input.data) /\ input.data \in Seq(Byte)
  BY <1>2, Running DEF TotalSize
<1>4. /\ arg.value.size >= NumSize
      /\ \E fail, offsets :
           \/ checked /\ Accept(fail, VectorSize(n), offsets)
           \/ plain /\ Accept(fail, VectorSize(n), offsets)
           \/ Callee.name # "String" /\ Enter(fail, n, NumSize, 0)
  <2>1. /\ ~Reject("SCHEMA_ENCODING", 0) /\ ~Reject("MOLECULE_ENCODING", 0)
        /\ ~Reject("MOLECULE_ENCODING", 1)
    BY NeverRejects
  <2>2. \A fail : ~Panic(fail)
    BY DEF Panic
  <2>3. \A fail : CheckString(fail, arg.value, n) =>
          /\ Utf8Result(input.data, text) = "ok"
          /\ Accept(fail, VectorSize(n), Utf8Echo(input.data, text))
    <3> HIDE DEF n
    <3> QED  BY <2>1, <2>2, Zenon DEF CheckString
  <2>4. /\ arg.value.size >= NumSize
        /\ \E fail :
             \/ Callee.name = "String" /\ Callee.item = "byte" /\ CheckString(fail, arg.value, n)
             \/ plain /\ Accept(fail, VectorSize(n), Offsets(text))
             \/ Callee.name # "String" /\ Enter(fail, n, NumSize, 0)
    <3>1. \A fail \in BOOLEAN : fail => ~Accept(fail, VectorSize(n), <<>>)
      BY DEF Accept, After
    <3> QED  BY <2>1, <2>2, <3>1, Zenon DEF VisitFixvec
  <2> HIDE DEF n, plain, text
  <2> QED  BY <2>3, <2>4
<1>5. PICK fail, offsets :
           \/ checked /\ Accept(fail, VectorSize(n), offsets)
           \/ plain /\ Accept(fail, VectorSize(n), offsets)
           \/ Callee.name # "String" /\ Enter(fail, n, NumSize, 0)
  BY <1>4
<1>6. n \in Nat
  BY <1>2, <1>4, FirstWord
<1>7. text \in Cursor /\ text.off <= Len(input.data)
  <2> HIDE DEF n
  <2> QED  BY <1>3, <1>4, <1>6 DEF Content, Cursor, NumSize
<1>8. CASE (checked \/ plain) /\ Accept(fail, VectorSize(n), offsets)
  <2>1. Validates(input.data, text) /\ (arg.typ = "String" => Utf8(input.data, text))
    <3>1. CASE checked
      <4> HIDE DEF text
      <4> QED  BY <3>1, <1>3, <1>7, CheckedIsUtf8
    <3>2. CASE plain
      BY <3>2, <1>2
    <3> QED  BY <1>8, <3>1, <3>2
  <2>2. DefOf(arg.typ).kind = "fixvec" /\ DefOf(arg.typ).item = "byte"
    BY <1>2, <1>8
  <2>3. VectorSize(n) \in Nat
    BY <1>6, VectorSizeIsNat
  <2> DEFINE c == [off |-> arg.value.off, size |-> VectorSize(n)]
  <2>4. c \in Cursor
    <3> HIDE DEF n
    <3> QED  BY <1>3, <2>3 DEF Cursor
  <2>5. arg.value.off + VectorSize(n) <= Len(input.data) /\ Good(input.data, c, arg.typ)
    <3>1. n = WordAt(input.data, arg.value.off) /\ c = [off |-> arg.value.off, size |-> VectorSize(n)]
      OBVIOUS
    <3>2. Validates(input.data, Content(arg.value, n))
          /\ (arg.typ = "String" => Utf8(input.data, Content(arg.value, n)))
      BY <2>1
    <3> HIDE DEF n, c
    <3> QED  BY <1>2, <1>4, <2>2, <2>4, <3>1, <3>2, ContentGood
  <2> HIDE DEF n
  <2> QED  BY <1>2, <1>8, <2>3, <2>5, AcceptsGood
<1>9. CASE Callee.name # "String" /\ Enter(fail, n, NumSize, 0)
  <2>1. Entered(n, NumSize, 0)
    BY <1>2, <1>4, <1>9 DEF Entered, FieldKinds, OffsetKinds
  <2>2. 0 \in Nat /\ NumSize \in Nat /\ NumSize <= arg.value.size
    BY <1>3, <1>4 DEF NumSize
  <2>3. "fixvec" \notin {"option", "union"}
    OBVIOUS
  <2> HIDE DEF n
  <2> QED  BY <1>1, <1>6, <1>9, <2>1, <2>2, <2>3, EntersWalks
<1> QED  BY <1>5, <1>8, <1>9

LEMMA VisitAddressWalks ==
  ASSUME NEW rank, SizesGrounded(rank), BuiltinsKept, ~Overlong(input.data),
         Inv, Walking, VisitAddress, last_error' = "OK", pc' # "panic"
  PROVE  Walking'
<1> DEFINE mem == input.data
           total == WordAt(input.data, Script.off)
           size == (WordAt(input.data, Script.off) + NumSize) % WordMod
<1>1. Visiting("union") /\ UnionKnown(arg.value) /\ Callee.name = "Address"
  BY DEF VisitAddress
<1>2. pc = "call" /\ arg.typ = "Address" /\ "Address" \in TypeNames
  BY <1>1, CalleeNamed
<1>3. /\ arg.value.off \in Nat /\ arg.value.size \in Nat
      /\ arg.value.off + arg.value.size <= Len(mem) /\ mem \in Seq(Byte)
      /\ NumSize <= arg.value.size
  BY <1>1, <1>2, Running DEF TotalSize, UnionKnown, NumSize
<1>4. Script \in Cursor /\ Script.off = arg.value.off + NumSize
      /\ Script.off >= NumSize /\ Script.off + Script.size <= Len(mem)
  <2>1. Script.off = arg.value.off + NumSize /\ Script.size = arg.value.size - NumSize
        /\ Script = [off |-> arg.value.off + NumSize, size |-> arg.value.size - NumSize]
    BY DEF Script, Advance
  <2>2. arg.value.off + NumSize \in Nat /\ arg.value.size - NumSize \in Nat
    BY <1>3 DEF NumSize
  <2>3. Script \in Cursor
    BY <2>1, <2>2 DEF Cursor
  <2>4. Script.off >= NumSize /\ Script.off + Script.size <= Len(mem)
    BY <1>3, <2>1 DEF NumSize
  <2> QED  BY <2>1, <2>3, <2>4
<1>5. /\ UnionId(arg.value) = 0
      /\ \E fail, offsets, code, hash, c :
           /\ code \in ScriptField(0) /\ hash \in ScriptField(1) /\ c \in ScriptField(2)
           /\ IsCodeHash(code) /\ IsHashType(hash) /\ IsArgs(code, hash, c)
           /\ Accept(fail, size, offsets)
  <2>1. ~Reject("MOLECULE_ENCODING", 0) /\ ~Reject("BECH32M", 0)
    BY NeverRejects
  <2>2. \A fail : ~Panic(fail)
    BY DEF Panic
  <2>3. \A fail, offsets : EncodeAddress(fail, offsets) =>
          \E shownOffsets : Accept(fail, size, shownOffsets)
    BY <2>1, Zenon DEF EncodeAddress
  <2>4. /\ UnionId(arg.value) = 0
        /\ \E fail \in BOOLEAN :
             \E code \in ScriptField(0), hash \in ScriptField(1), c \in ScriptField(2) :
               /\ IsCodeHash(code) /\ IsHashType(hash) /\ IsArgs(code, hash, c)
               /\ EncodeAddress(fail, Offsets(code) \o Offsets(hash) \o Offsets(c))
    BY <2>1, <2>2, Zenon DEF VisitAddress
  <2>5. PICK fail \in BOOLEAN, code \in ScriptField(0), hash \in ScriptField(1), c \in ScriptField(2) :
               /\ IsCodeHash(code) /\ IsHashType(hash) /\ IsArgs(code, hash, c)
               /\ EncodeAddress(fail, Offsets(code) \o Offsets(hash) \o Offsets(c))
    BY <2>4
  <2> HIDE DEF size
  <2>6. PICK offsets : Accept(fail, size, offsets)
    BY <2>3, <2>5
  <2> QED  BY <2>4, <2>5, <2>6, Zenon
<1>6. PICK fail, offsets, code, hash, c :
           /\ code \in ScriptField(0) /\ hash \in ScriptField(1) /\ c \in ScriptField(2)
           /\ IsCodeHash(code) /\ IsHashType(hash) /\ IsArgs(code, hash, c)
           /\ Accept(fail, size, offsets)
  BY <1>5
<1>7. ScriptRead(mem, Script, code, hash, c)
  BY <1>6 DEF ScriptRead, ScriptField, IsCodeHash, IsHashType, IsArgs
<1>8. Len(mem) < WordMod /\ Len(mem) \in Nat /\ WordMod \in Nat
  BY <1>3, WordModBig DEF Inv, TypeOK
<1>9. ScriptShaped(mem, Script)
  <2>1. Script \in Cursor /\ Script.off >= NumSize /\ Script.off + Script.size <= Len(mem)
    BY <1>4
  <2> QED  BY <1>3, <1>7, <1>8, <2>1, ScriptShape
<1>10. total \in Nat /\ Script.off + total <= Len(mem)
  BY <1>9 DEF ScriptShaped
<1>11. size = total + NumSize
  <2>1. total + NumSize \in 0 .. WordMod - 1
    <3> HIDE DEF total
    <3> QED  BY <1>3, <1>4, <1>8, <1>10 DEF NumSize
  <2> QED  BY <1>8, <2>1, NoWrap
<1> DEFINE w == [off |-> arg.value.off, size |-> size]
<1>12. w.off = arg.value.off /\ w.size = total + NumSize /\ w.size = size
  BY <1>11
<1>13. size \in Nat /\ arg.value.off + size <= Len(mem)
  <2> HIDE DEF total, size
  <2> QED  BY <1>3, <1>4, <1>10, <1>11 DEF NumSize
<1>14. w \in Cursor
  <2> HIDE DEF size
  <2> QED  BY <1>3, <1>13 DEF Cursor
<1>15. WordAt(mem, w.off) = 0
  BY <1>5 DEF UnionId
<1>16. Good(mem, w, "Address")
  <2>1. Script.off = w.off + NumSize /\ Script \in Cursor
    BY <1>4
  <2>2. w.size = WordAt(mem, Script.off) + NumSize
    BY <1>12
  <2> HIDE DEF w
  <2> QED  BY <1>2, <1>3, <1>9, <1>14, <1>15, <2>1, <2>2, GoodAddress
<1> HIDE DEF size
<1> QED  BY <1>2, <1>6, <1>13, <1>16, AcceptsGood

\* The frame on top is replaced by one of the same visitor.
LEMMA WalkedReplace ==
  ASSUME NEW in, NEW s \in Seq(Frame), Walked(in, s), s # <<>>,
         NEW f \in Frame, f.def = Head(s).def, f.value = Head(s).value,
         FrameGood(in.data, f)
  PROVE  Walked(in, <<f>> \o Tail(s))
<1>1. Tail(s) \in Seq(Frame)
  BY PopFrame
<1>2. Walked(in, Tail(s)) /\ Calling(in, Head(s), Tail(s))
  BY WalkedPop
<1>3. Calling(in, f, Tail(s))
  BY <1>2 DEF Calling, TypeOf
<1> QED  BY <1>1, <1>2, <1>3, WalkedPush

\* A frame as far as its header goes.
SameHeader(f, g) ==
  f.def = g.def /\ f.value = g.value /\ f.count = g.count /\ f.full = g.full

LEMMA HeaderKept ==
  ASSUME NEW mem, NEW f \in Frame, NEW g \in Frame, SameHeader(f, g)
  PROVE  /\ TypeOf(f) = TypeOf(g) /\ Kind(f) = Kind(g) /\ Simple(f) = Simple(g)
         /\ Named(f) = Named(g) /\ (HeaderRead(mem, f) <=> HeaderRead(mem, g))
         /\ \A k : /\ Begin(mem, f, k) = Begin(mem, g, k)
                   /\ TypeAt(f, k) = TypeAt(g, k)
                   /\ Piece(mem, f, k) = Piece(mem, g, k)
<1>1. TypeOf(f) = TypeOf(g) /\ Kind(f) = Kind(g) /\ f.def = g.def
      /\ f.value = g.value /\ f.count = g.count /\ f.full = g.full
  BY DEF SameHeader, TypeOf, Kind
<1>2. Simple(f) = Simple(g) /\ Named(f) = Named(g)
  BY <1>1 DEF Simple, Named
<1>3. HeaderRead(mem, f) <=> HeaderRead(mem, g)
  BY <1>1 DEF HeaderRead
<1>4. \A k : Begin(mem, f, k) = Begin(mem, g, k) /\ TypeAt(f, k) = TypeAt(g, k)
  BY <1>1, Zenon DEF Begin, TypeAt
<1>5. \A k : Piece(mem, f, k) = Piece(mem, g, k)
  BY <1>1, <1>4 DEF Piece
<1> QED  BY <1>1, <1>2, <1>3, <1>4, <1>5

\* The items before item i are those of the frame with the same header.
LEMMA ItemsKept ==
  ASSUME NEW mem, NEW f \in Frame, NEW g \in Frame, SameHeader(f, g),
         f.i = g.i, f.used = g.used, FrameGood(mem, g)
  PROVE  FrameGood(mem, f)
<1>1. /\ TypeOf(f) = TypeOf(g) /\ Kind(f) = Kind(g) /\ Simple(f) = Simple(g)
      /\ Named(f) = Named(g) /\ (HeaderRead(mem, f) <=> HeaderRead(mem, g))
      /\ \A k : /\ Begin(mem, f, k) = Begin(mem, g, k)
                /\ TypeAt(f, k) = TypeAt(g, k)
                /\ Piece(mem, f, k) = Piece(mem, g, k)
  BY HeaderKept
<1>2. f.value = g.value /\ f.count = g.count /\ f.def = g.def
  BY DEF SameHeader
<1>3. ItemsGood(mem, f, f.i) <=> ItemsGood(mem, g, g.i)
  BY <1>1, <1>2 DEF ItemsGood
<1> QED  BY <1>1, <1>2, <1>3, Zenon DEF FrameGood

LEMMA NextItemWalks == ASSUME Inv, Walking, NextItem PROVE Walking'
<1> DEFINE f == [Top EXCEPT !.sub = ItemSize(Top)]
           mem == input.data
<1>1. /\ pc = "loop" /\ Top.i < Top.count /\ ItemFits(Top)
      /\ pc' = "call" /\ stack' = <<f>> \o Tail(stack) /\ input' = input
      /\ arg'.value.off = Top.value.off + Top.used /\ arg'.typ = ItemType(Top)
  BY DEF NextItem
<1>2. stack # <<>> /\ ~Simple(Top) /\ stack \in Seq(Frame)
  BY <1>1 DEF Inv, LoopHasFrame, Simple, TypeOK
<1>3. Top \in Frame /\ Tail(stack) \in Seq(Frame)
  BY <1>2, TopFrame, PopFrame
<1>4. ItemSize(Top) \in Nat
  BY <1>1, <1>2, ItemInside
<1>5. f \in Frame
  BY <1>3, <1>4 DEF Frame
<1>6. /\ SameHeader(f, Top) /\ f.i = Top.i /\ f.used = Top.used /\ f.sub = ItemSize(Top)
      /\ f.def = Top.def /\ f.value = Top.value /\ f.count = Top.count /\ f.full = Top.full
  BY <1>3 DEF SameHeader, Frame
<1> HIDE DEF f
<1>7. Walked(input, stack) /\ input.version = 1
  BY <1>1 DEF Walking
<1>8. FrameGood(mem, Top)
  BY <1>2, <1>7, WalkedPop DEF Top
<1>9. FrameGood(mem, f)
  BY <1>3, <1>5, <1>6, <1>8, ItemsKept
<1>10. Walked(input, <<f>> \o Tail(stack))
  <2>1. f.def = Head(stack).def /\ f.value = Head(stack).value
    BY <1>6 DEF Top
  <2> QED  BY <1>2, <1>5, <1>7, <1>9, <2>1, WalkedReplace
<1>11. stack' # <<>> /\ Top' = f
  BY <1>1, <1>3, <1>5, PushFrame DEF Top
<1>12. Kind(f) = Kind(Top) /\ TypeOf(f) = TypeOf(Top)
  BY <1>6 DEF Kind, TypeOf
<1>13. Waiting(mem, f)
  <2>1. Kind(f) \in OffsetKinds => Begin(mem, f, f.i + 1) = f.used + f.sub
    <3> SUFFICES ASSUME Kind(f) \in OffsetKinds
                 PROVE  Begin(mem, f, f.i + 1) = f.used + f.sub
      OBVIOUS
    <3>1. ItemEnd(Top) \in Nat /\ f.sub = ItemEnd(Top) - Top.used /\ Top.used \in Nat
      BY <1>2, <1>3, <1>6, <1>12, ItemEndIsNat, FrameKind DEF ItemSize
    <3>2. f.used + f.sub = ItemEnd(Top)
      BY <3>1, <1>6
    <3>3. f.full = WordAt(mem, f.value.off)
      BY <1>2, <1>9, <1>12 DEF FrameGood, HeaderRead, Simple
    <3>4. /\ f.i \in Nat /\ f.count \in Nat /\ f.i < f.count /\ f.value.off \in Nat
      BY <1>1, <1>5, <1>6, FrameKind
    <3>5. Begin(mem, f, f.i + 1) = OffsetAt(mem, f.value, f.i + 1, f.count)
      BY <3>4 DEF Begin, OffsetKinds
    <3>6. CASE f.i + 1 < f.count
      <4>1. ItemEnd(Top) = WordAt(mem, f.value.off + NumSize + NumSize * (f.i + 1))
        BY <1>6, <3>6 DEF ItemEnd
      <4>2. OffsetAt(mem, f.value, f.i + 1, f.count)
              = WordAt(mem, f.value.off + NumSize * (f.i + 1 + 1))
        BY <3>6 DEF OffsetAt
      <4>3. f.value.off + NumSize + NumSize * (f.i + 1) = f.value.off + NumSize * (f.i + 1 + 1)
        BY <3>4 DEF NumSize
      <4> QED  BY <3>2, <3>5, <4>1, <4>2, <4>3
    <3>7. CASE ~(f.i + 1 < f.count)
      <4>1. ItemEnd(Top) = f.full
        BY <1>6, <3>7 DEF ItemEnd
      <4>2. OffsetAt(mem, f.value, f.i + 1, f.count) = WordAt(mem, f.value.off + 0)
        BY <3>7 DEF OffsetAt
      <4>3. f.value.off + 0 = f.value.off
        BY <3>4
      <4> QED  BY <3>2, <3>3, <3>5, <4>1, <4>2, <4>3
    <3> QED  BY <3>6, <3>7
  <2>2. f.i < f.count
    BY <1>1, <1>6
  <2> QED  BY <2>1, <2>2 DEF Waiting
<1>14. arg'.typ = AskedType(mem, f)
  <2>1. Kind(f) # "option" /\ Kind(f) # "union"
    BY <1>2, <1>12 DEF Simple
  <2>2. AskedType(mem, f) = TypeAt(f, f.i)
    BY <2>1 DEF AskedType
  <2>3. ItemType(Top) = TypeAt(f, f.i)
    BY <1>6, <1>12 DEF ItemType, TypeAt
  <2> QED  BY <1>1, <2>2, <2>3
<1>15. arg'.value.off = f.value.off + f.used
  BY <1>1, <1>6
<1>16. arg'.typ = Asked(input, stack)' /\ arg'.value.off = AskedOff(stack)'
  <2>1. Head(stack') = f
    BY <1>11 DEF Top
  <2> QED  BY <1>1, <1>11, <1>14, <1>15, <2>1 DEF Asked, AskedOff
<1>17. Walked(input, stack)'
  BY <1>1, <1>10
<1>18. Waiting(input.data, Top)'
  BY <1>1, <1>11, <1>13
<1> QED  BY <1>1, <1>7, <1>16, <1>17, <1>18 DEF Walking

\* A value of a sized type has the size of the type.
LEMMA GoodFixed ==
  ASSUME NEW rank, SizesGrounded(rank), NEW mem, NEW c, NEW t \in SizedTypes, Good(mem, c, t)
  PROVE  c.size = FixedSize(t)
<1>1. WellSized(mem, c, t)
  BY GoodSized
<1>2. CASE t = "byte"
  BY <1>1, <1>2, ByteSize DEF WellSized
<1>3. CASE t # "byte"
  <2>1. DefOf(t).kind \in {"array", "struct"}
    BY <1>3, InnerSized
  <2> QED  BY <1>1, <1>3, <2>1 DEF WellSized
<1> QED  BY <1>2, <1>3

LEMMA BeginIsNat ==
  ASSUME NEW rank, SizesGrounded(rank), NEW mem,
         NEW f \in Frame, Named(f), ~Simple(f), HeaderRead(mem, f)
  PROVE  Begin(mem, f, 0) \in Nat
<1>1. Kind(f) \in Kinds /\ f.value.size \in Nat
  BY FrameKind
<1>2. CASE Kind(f) \in {"array", "struct", "fixvec"}
  BY <1>2, SequentialItems DEF NumSize
<1>3. CASE Kind(f) \in OffsetKinds
  <2>1. Begin(mem, f, 0) = WordAt(mem, f.value.off + NumSize)
    BY <1>3 DEF Begin, OffsetKinds
  <2>2. WordAt(mem, f.value.off + NumSize) \in 2 * NumSize .. f.value.size
    BY <1>3 DEF HeaderRead
  <2> QED  BY <1>1, <2>1, <2>2 DEF NumSize
<1> QED  BY <1>1, <1>2, <1>3 DEF Kinds, Simple, OffsetKinds

\* total_consumed += current_consumed; i++: one more item is good.
LEMMA ItemCounted ==
  ASSUME NEW rank, SizesGrounded(rank), NEW mem,
         NEW g \in Frame, FrameGood(mem, g), ~Simple(g), Waiting(mem, g),
         NEW n \in Nat, Kind(g) \in OffsetKinds => n = g.sub,
         Good(mem, [off |-> g.value.off + g.used, size |-> n], TypeAt(g, g.i)),
         NEW f \in Frame, SameHeader(f, g), f.i = g.i + 1, f.used = g.used + n
  PROVE  FrameGood(mem, f)
<1>1. /\ TypeOf(f) = TypeOf(g) /\ Kind(f) = Kind(g) /\ Simple(f) = Simple(g)
      /\ Named(f) = Named(g) /\ (HeaderRead(mem, f) <=> HeaderRead(mem, g))
      /\ \A k : /\ Begin(mem, f, k) = Begin(mem, g, k)
                /\ TypeAt(f, k) = TypeAt(g, k)
                /\ Piece(mem, f, k) = Piece(mem, g, k)
  BY HeaderKept
<1>2. f.value = g.value /\ f.count = g.count /\ f.def = g.def
  BY DEF SameHeader
<1>3. Named(g) /\ HeaderRead(mem, g) /\ ItemsGood(mem, g, g.i) /\ g.i < g.count
  BY DEF FrameGood, Waiting
<1>4. /\ g.i \in Nat /\ g.count \in Nat /\ g.used \in Nat /\ g.sub \in Nat /\ Kind(g) \in Kinds
      /\ g.value.off \in Nat
  BY FrameKind
<1>5. /\ g.used = Begin(mem, g, g.i) /\ Begin(mem, g, 0) <= g.used
      /\ \A k \in 0 .. g.i - 1 :
           /\ Begin(mem, g, k) <= Begin(mem, g, k + 1)
           /\ Good(mem, Piece(mem, g, k), TypeAt(g, k))
  BY <1>3 DEF ItemsGood
<1>6. Begin(mem, g, g.i + 1) = g.used + n
  <2>1. CASE Kind(g) \in OffsetKinds
    BY <2>1 DEF Waiting
  <2>2. CASE Kind(g) \notin OffsetKinds
    <3>1. Kind(g) \in {"array", "struct", "fixvec"}
      BY <1>4, <2>2 DEF Kinds, OffsetKinds, Simple
    <3>2. g.i \in 0 .. g.count - 1
      BY <1>3, <1>4
    <3>3. /\ TypeAt(g, g.i) \in SizedTypes
          /\ Begin(mem, g, g.i + 1) = Begin(mem, g, g.i) + FixedSize(TypeAt(g, g.i))
      BY <1>3, <3>1, <3>2, SequentialItems
    <3>4. n = FixedSize(TypeAt(g, g.i))
      <4> DEFINE c == [off |-> g.value.off + g.used, size |-> n]
      <4>1. Good(mem, c, TypeAt(g, g.i)) /\ c.size = n
        OBVIOUS
      <4> HIDE DEF c
      <4> QED  BY <3>3, <4>1, GoodFixed
    <3> QED  BY <1>5, <3>3, <3>4
  <2> QED  BY <2>1, <2>2
<1>7. Piece(mem, g, g.i) = [off |-> g.value.off + g.used, size |-> n]
  <2>1. Begin(mem, g, g.i + 1) - Begin(mem, g, g.i) = n
    BY <1>4, <1>5, <1>6
  <2> QED  BY <1>5, <2>1 DEF Piece, At
<1>8. Begin(mem, g, g.i) <= Begin(mem, g, g.i + 1) /\ g.used <= g.used + n
  BY <1>4, <1>5, <1>6
<1>9. \A k \in 0 .. f.i - 1 :
        /\ Begin(mem, f, k) <= Begin(mem, f, k + 1)
        /\ Good(mem, Piece(mem, f, k), TypeAt(f, k))
  <2> TAKE k \in 0 .. f.i - 1
  <2>1. k \in 0 .. g.i - 1 \/ k = g.i
    BY <1>4
  <2> QED  BY <1>1, <1>5, <1>7, <1>8, <2>1
<1>10. Begin(mem, f, 0) <= f.used
  <2>1. Begin(mem, f, 0) = Begin(mem, g, 0)
    BY <1>1
  <2>2. Begin(mem, g, 0) \in Nat
    BY <1>3, BeginIsNat
  <2> QED  BY <1>4, <1>5, <2>1, <2>2
<1>11. ItemsGood(mem, f, f.i)
  <2>1. f.i <= f.count
    BY <1>2, <1>3, <1>4
  <2>2. f.used = Begin(mem, f, f.i)
    BY <1>1, <1>6
  <2> QED  BY <1>9, <1>10, <2>1, <2>2 DEF ItemsGood
<1> QED  BY <1>1, <1>3, <1>11 DEF FrameGood, Simple

\* The loop is over: the bytes it went through are a value of its type.
LEMMA SequenceGood ==
  ASSUME NEW rank, SizesGrounded(rank), BuiltinsKept, NEW mem,
         NEW f \in Frame, FrameGood(mem, f), Kind(f) \in {"array", "struct", "fixvec"},
         f.i = f.count
  PROVE  Good(mem, [off |-> f.value.off, size |-> f.used], TypeOf(f))
<1> DEFINE t == TypeOf(f)
           d == DefOf(TypeOf(f))
           c == [off |-> f.value.off, size |-> f.used]
<1>1. Named(f) /\ HeaderRead(mem, f) /\ ItemsGood(mem, f, f.count)
  BY DEF FrameGood, Simple
<1>2. /\ t # "byte" /\ DefinitionOf(t) /\ d = Defs[f.def] /\ Kind(f) = d.kind
      /\ d \in Definition
  BY <1>1, FrameType DEF DefinitionOf
<1>3. /\ f.count \in Nat /\ f.used \in Nat /\ f.value.off \in Nat
  BY FrameKind
<1>4. c \in Cursor /\ c.off = f.value.off /\ c.size = f.used
  BY <1>3 DEF Cursor
<1>5. f.used = Begin(mem, f, f.count)
  BY <1>1 DEF ItemsGood
<1>6. \A k \in 0 .. f.count - 1 :
        /\ Good(mem, At(f.value, Begin(mem, f, k), FixedSize(TypeAt(f, k))), TypeAt(f, k))
  <2> TAKE k \in 0 .. f.count - 1
  <2>1. Good(mem, At(f.value, Begin(mem, f, k), Begin(mem, f, k + 1) - Begin(mem, f, k)),
             TypeAt(f, k))
    BY <1>1 DEF ItemsGood, Piece
  <2>2. /\ FixedSize(TypeAt(f, k)) \in Nat /\ Begin(mem, f, k) \in Nat
        /\ Begin(mem, f, k + 1) = Begin(mem, f, k) + FixedSize(TypeAt(f, k))
    BY <1>1, SequentialItems
  <2>3. Begin(mem, f, k + 1) - Begin(mem, f, k) = FixedSize(TypeAt(f, k))
    BY <2>2
  <2> QED  BY <2>1, <2>3
<1>7. \A o, n : At(f.value, o, n) = At(c, o, n)
  BY <1>4 DEF At
<1> HIDE DEF c
<1>8. CASE Kind(f) = "array"
  <2>1. f.count = d.count
    BY <1>1, <1>2, <1>8 DEF HeaderRead
  <2>2. \A k : Begin(mem, f, k) = k * FixedSize(d.item) /\ TypeAt(f, k) = d.item
    BY <1>2, <1>8 DEF Begin, TypeAt, FieldKinds
  <2>3. c.size = d.count * FixedSize(d.item)
    BY <1>4, <1>5, <2>1, <2>2
  <2>4. \A k \in 0 .. d.count - 1 :
          Good(mem, At(c, k * FixedSize(d.item), FixedSize(d.item)), d.item)
    BY <1>6, <1>7, <2>1, <2>2
  <2> HIDE DEF t
  <2>5. Good(mem, c, t)
    BY <1>2, <1>4, <1>8, <2>3, <2>4, GoodArray DEF t
  <2> QED  BY <2>5 DEF c, t
<1>9. CASE Kind(f) = "struct"
  <2>1. f.count = Len(d.fields)
    BY <1>1, <1>2, <1>9 DEF HeaderRead, FieldKinds
  <2>2. \A k : Begin(mem, f, k) = FieldsUpTo(d.fields, k) /\ TypeAt(f, k) = d.fields[k + 1]
    BY <1>2, <1>9 DEF Begin, TypeAt, FieldKinds
  <2>3. c.size = FieldsUpTo(d.fields, Len(d.fields))
    BY <1>4, <1>5, <2>1, <2>2
  <2>4. \A k \in 0 .. Len(d.fields) - 1 :
          Good(mem, At(c, FieldsUpTo(d.fields, k), FixedSize(d.fields[k + 1])), d.fields[k + 1])
    BY <1>6, <1>7, <2>1, <2>2
  <2>5. Good(mem, c, t)
    BY <1>2, <1>4, <1>9, <2>3, <2>4, GoodStruct
  <2> QED  BY <2>5 DEF c
<1>10. CASE Kind(f) = "fixvec"
  <2>1. f.count = WordAt(mem, c.off) /\ t # "String"
    BY <1>1, <1>4, <1>10 DEF HeaderRead
  <2>2. \A k : Begin(mem, f, k) = NumSize + k * FixedSize(d.item) /\ TypeAt(f, k) = d.item
    BY <1>2, <1>10 DEF Begin, TypeAt, FieldKinds
  <2>3. d.item \in SizedTypes
    BY <1>2, <1>10 DEF SizesGrounded, Frame
  <2>4. FixedSize(d.item) \in Nat
    BY <2>3, FixedSizeParts
  <2>5. c.size = NumSize + FixedSize(d.item) * f.count /\ c.size >= NumSize
    <3>1. c.size = NumSize + f.count * FixedSize(d.item)
      BY <1>4, <1>5, <2>2
    <3> DEFINE z == FixedSize(d.item)
    <3> HIDE DEF z, d
    <3>2. z \in Nat /\ c.size = NumSize + f.count * z
      BY <2>4, <3>1 DEF z
    <3>3. c.size = NumSize + z * f.count /\ c.size >= NumSize
      <4>1. f.count * z = z * f.count /\ z * f.count \in Nat
        BY <1>3, <3>2
      <4> QED  BY <3>2, <4>1 DEF NumSize
    <3> QED  BY <3>3 DEF z
  <2>6. \A k \in 0 .. f.count - 1 :
          Good(mem, At(c, NumSize + k * FixedSize(d.item), FixedSize(d.item)), d.item)
    BY <1>6, <1>7, <2>2
  <2>7. Good(mem, c, t)
    BY <1>2, <1>3, <1>4, <1>10, <2>1, <2>5, <2>6, GoodFixvec
  <2> QED  BY <2>7 DEF c
<1> QED  BY <1>8, <1>9, <1>10

LEMMA OffsetsGood ==
  ASSUME BuiltinsKept, NEW mem,
         NEW f \in Frame, FrameGood(mem, f), Kind(f) \in OffsetKinds,
         f.i = f.count, f.used = f.full
  PROVE  Good(mem, [off |-> f.value.off, size |-> f.used], TypeOf(f))
<1> DEFINE t == TypeOf(f)
           d == DefOf(TypeOf(f))
           c == [off |-> f.value.off, size |-> f.used]
           n == f.count
           first == WordAt(mem, f.value.off + NumSize)
           whole == first % NumSize = 0
<1>1. Named(f) /\ HeaderRead(mem, f) /\ ItemsGood(mem, f, n)
  BY DEF FrameGood, Simple, OffsetKinds
<1>2. /\ t # "byte" /\ DefinitionOf(t) /\ d = Defs[f.def] /\ Kind(f) = d.kind
  BY <1>1, FrameType
<1>3. /\ n \in Nat /\ f.used \in Nat /\ f.full \in Nat
      /\ f.value.off \in Nat /\ f.value.size \in Nat
  BY FrameKind
<1>4. c \in Cursor /\ c.off = f.value.off /\ c.size = f.used
  BY <1>3 DEF Cursor
<1>5. /\ f.full = WordAt(mem, f.value.off) /\ WordAt(mem, f.value.off) >= 2 * NumSize
      /\ whole /\ first \in 2 * NumSize .. f.value.size
      /\ n = first \div NumSize - 1
  BY <1>1 DEF HeaderRead
<1>6. Begin(mem, f, 0) = first
      /\ \A k : k # 0 => Begin(mem, f, k) = OffsetAt(mem, f.value, k, n)
  BY DEF Begin, OffsetKinds
<1>7. first <= f.used
  BY <1>1, <1>6 DEF ItemsGood
<1>8. \A k : OffsetAt(mem, f.value, k, n) = OffsetAt(mem, c, k, n)
  BY <1>4 DEF OffsetAt
<1>9. n # 0 => Begin(mem, f, 0) = OffsetAt(mem, c, 0, n)
  <2> SUFFICES ASSUME n # 0 PROVE first = OffsetAt(mem, c, 0, n)
    BY <1>6
  <2>1. OffsetAt(mem, c, 0, n) = WordAt(mem, c.off + NumSize * (0 + 1))
    BY <1>3 DEF OffsetAt
  <2>2. NumSize * (0 + 1) = NumSize
    BY DEF NumSize
  <2> QED  BY <1>4, <2>1, <2>2
<1>10. \A k \in 0 .. n : n # 0 => Begin(mem, f, k) = OffsetAt(mem, c, k, n)
  BY <1>6, <1>8, <1>9
<1>11. \A k \in 0 .. n - 1 :
         /\ OffsetAt(mem, c, k, n) <= OffsetAt(mem, c, k + 1, n)
         /\ Good(mem, Slice(mem, c, k, n), TypeAt(f, k))
  <2> TAKE k \in 0 .. n - 1
  <2>1. k \in 0 .. n /\ k + 1 \in 0 .. n /\ n # 0
    BY <1>3
  <2>2. /\ Begin(mem, f, k) = OffsetAt(mem, c, k, n)
        /\ Begin(mem, f, k + 1) = OffsetAt(mem, c, k + 1, n)
    BY <1>10, <2>1
  <2>3. /\ Begin(mem, f, k) <= Begin(mem, f, k + 1)
        /\ Good(mem, Piece(mem, f, k), TypeAt(f, k))
    BY <1>1 DEF ItemsGood
  <2>4. Piece(mem, f, k) = Slice(mem, c, k, n)
    BY <1>4, <2>2 DEF Piece, Slice, At
  <2> QED  BY <2>2, <2>3, <2>4
<1>12. WordAt(mem, c.off) = c.size /\ c.size >= 2 * NumSize
  BY <1>4, <1>5
<1>13. WordAt(mem, c.off + NumSize) = first
  BY <1>4
<1>14. first \in 2 * NumSize .. c.size
  <2> HIDE DEF first
  <2> QED  BY <1>3, <1>4, <1>5, <1>7 DEF NumSize
<1>15. n = Items(mem, c)
  BY <1>5, <1>13 DEF Items
<1>16. Framed(mem, c)
  <2>1. WordAt(mem, c.off + NumSize) % NumSize = 0
    BY <1>5, <1>13
  <2> HIDE DEF c, n, first
  <2> QED  BY <1>11, <1>12, <1>13, <1>14, <1>15, <2>1 DEF Framed
<1> HIDE DEF c, n
<1>17. CASE Kind(f) = "dynvec"
  <2>1. \A k : TypeAt(f, k) = d.item
    BY <1>2, <1>17 DEF TypeAt, FieldKinds
  <2>2. \A k \in 0 .. n - 1 : Good(mem, Slice(mem, c, k, n), d.item)
    BY <1>11, <2>1
  <2>3. n \in Nat /\ c \in Cursor /\ d.kind = "dynvec"
    BY <1>2, <1>3, <1>4, <1>17
  <2>4. Good(mem, c, t)
    BY <1>2, <1>15, <1>16, <2>2, <2>3, GoodDynvec
  <2> QED  BY <2>4 DEF c
<1>18. CASE Kind(f) = "table"
  <2>1. \A k : TypeAt(f, k) = d.fields[k + 1]
    BY <1>2, <1>18 DEF TypeAt, FieldKinds
  <2>2. n = Len(d.fields)
    BY <1>1, <1>2, <1>18 DEF HeaderRead, FieldKinds, n
  <2>3. \A k \in 0 .. n - 1 : Good(mem, Slice(mem, c, k, n), d.fields[k + 1])
    BY <1>11, <2>1
  <2>4. n \in Nat /\ c \in Cursor /\ d.kind = "table"
    BY <1>2, <1>3, <1>4, <1>18
  <2>5. Good(mem, c, t)
    BY <1>2, <1>15, <1>16, <2>2, <2>3, <2>4, GoodTable
  <2> QED  BY <2>5 DEF c
<1> QED  BY <1>17, <1>18 DEF OffsetKinds

\* The frame on top while no error is known.
LEMMA TopGood ==
  ASSUME Inv, Walking, pc # "start", stack # <<>>
  PROVE  /\ Top \in Frame /\ FrameGood(input.data, Top)
         /\ Top.value.off + Top.value.size <= Len(input.data)
         /\ Top.used <= Top.value.size
         /\ Top.value.off \in Nat /\ Top.value.size \in Nat /\ Top.used \in Nat
         /\ Top.i \in Nat /\ Top.count \in Nat
<1>1. Top \in Frame /\ FrameOK(Top, BlockLen)
  BY TopFrame
<1>2. stack \in Seq(Frame) /\ Walked(input, stack)
  BY DEF Inv, TypeOK, Walking
<1>3. FrameGood(input.data, Top)
  BY <1>2, WalkedPop DEF Top
<1>4. /\ Top.value.off + Top.value.size <= Len(input.data) /\ Top.used <= Top.value.size
  BY <1>1 DEF FrameOK, BlockLen
<1> QED  BY <1>1, <1>3, <1>4, FrameKind

LEMMA FinishItemWalks ==
  ASSUME NEW rank, SizesGrounded(rank), Inv, Walking, FinishItem,
         last_error = "OK", last_error' = "OK"
  PROVE  Walking'
<1> DEFINE f == Counted(Top)
           mem == input.data
<1>1. /\ pc = "ret" /\ stack # <<>> /\ ~Simple(Top)
      /\ ItemConsumed(Top)
      /\ pc' = "loop" /\ stack' = <<f>> \o Tail(stack) /\ input' = input
  BY DEF FinishItem, Looping, Abandon, Simple
<1>2. stack \in Seq(Frame) /\ consumed \in Nat
  BY DEF Inv, TypeOK
<1>3. Top \in Frame /\ FrameGood(mem, Top) /\ Top.i \in Nat /\ Top.used \in Nat
  BY <1>1, TopGood
<1>4. f = [Top EXCEPT !.i = Top.i + 1, !.used = Top.used + consumed]
  BY DEF Counted
<1> HIDE DEF f
<1>5. f \in Frame
  <2>1. Top.i + 1 \in Nat /\ Top.used + consumed \in Nat
    BY <1>2, <1>3
  <2>2. Top \in Frame
    BY <1>3
  <2> QED  BY <1>4, <2>1, <2>2 DEF Frame
<1>6. /\ f.i = Top.i + 1 /\ f.used = Top.used + consumed /\ SameHeader(f, Top)
      /\ f.def = Top.def /\ f.value = Top.value
  BY <1>3, <1>4 DEF SameHeader, Frame
<1>7. Waiting(mem, Top) /\ input.version = 1 /\ Walked(input, stack)
  BY <1>1 DEF Walking
<1>8. Good(mem, [off |-> Top.value.off + Top.used, size |-> consumed], TypeAt(Top, Top.i))
  <2>1. Good(mem, [off |-> AskedOff(stack), size |-> consumed], Asked(input, stack))
    BY <1>1 DEF Walking
  <2>2. AskedOff(stack) = Top.value.off + Top.used
    BY <1>1 DEF AskedOff, Top
  <2>3. Asked(input, stack) = AskedType(mem, Top)
    BY <1>1 DEF Asked, Top
  <2>4. AskedType(mem, Top) = TypeAt(Top, Top.i)
    BY <1>1 DEF AskedType, Simple
  <2> QED  BY <2>1, <2>2, <2>3, <2>4
<1>9. Kind(Top) \in OffsetKinds => consumed = Top.sub
  BY <1>1 DEF ItemConsumed
<1>10. FrameGood(mem, f)
  BY <1>1, <1>2, <1>3, <1>5, <1>6, <1>7, <1>8, <1>9, ItemCounted
<1>11. Walked(input, <<f>> \o Tail(stack))
  <2>1. f.def = Head(stack).def /\ f.value = Head(stack).value
    BY <1>6 DEF Top
  <2> QED  BY <1>1, <1>2, <1>5, <1>7, <1>10, <2>1, WalkedReplace
<1>12. Walked(input, stack)'
  BY <1>1, <1>11
<1> QED  BY <1>1, <1>7, <1>12 DEF Walking

LEMMA FinishLoopWalks ==
  ASSUME NEW rank, SizesGrounded(rank), BuiltinsKept, Inv, Walking, FinishLoop,
         last_error' = "OK"
  PROVE  Walking'
<1>1. /\ pc = "loop" /\ Top.i >= Top.count
      /\ Kind(Top) \in OffsetKinds => Top.used = Top.full
      /\ pc' = "ret" /\ stack' = Tail(stack) /\ consumed' = Top.used /\ input' = input
  BY DEF FinishLoop, Abandon
<1>2. stack # <<>> /\ ~Simple(Top)
  BY <1>1 DEF Inv, LoopHasFrame, Simple
<1>3. /\ Top \in Frame /\ FrameGood(input.data, Top)
      /\ Top.value.off + Top.value.size <= Len(input.data)
      /\ Top.used <= Top.value.size
      /\ Top.value.off \in Nat /\ Top.value.size \in Nat /\ Top.used \in Nat
      /\ Top.i \in Nat /\ Top.count \in Nat
  BY <1>1, <1>2, TopGood
<1>4. Top.i = Top.count
  <2>1. Top.i <= Top.count
    BY <1>2, <1>3 DEF FrameGood, ItemsGood
  <2> QED  BY <1>1, <1>3, <2>1
<1>5. Kind(Top) \in Kinds
  BY <1>3, FrameKind
<1>6. Good(input.data, [off |-> Top.value.off, size |-> Top.used], TypeOf(Top))
  <2>1. CASE Kind(Top) \in OffsetKinds
    BY <1>1, <1>3, <1>4, <2>1, OffsetsGood
  <2>2. CASE Kind(Top) \in {"array", "struct", "fixvec"}
    BY <1>3, <1>4, <2>2, SequenceGood
  <2> QED  BY <1>2, <1>5, <2>1, <2>2 DEF Kinds, Simple, OffsetKinds
<1>7. Top.value.off + Top.used <= Len(input.data)
  <2>1. Len(input.data) \in Nat
    BY DEF Inv, TypeOK, Input
  <2> QED  BY <1>3, <2>1
<1>8. pc # "start"
  BY <1>1
<1> QED  BY <1>1, <1>2, <1>6, <1>7, <1>8, ReturnWalks

LEMMA ReturnOptionWalks ==
  ASSUME BuiltinsKept, Inv, Walking, ReturnOption PROVE Walking'
<1> DEFINE mem == input.data
           c == [off |-> Top.value.off, size |-> consumed]
           t == TypeOf(Top)
<1>1. /\ pc = "ret" /\ stack # <<>> /\ Kind(Top) = "option"
      /\ stack' = Tail(stack) /\ pc' = pc /\ consumed' = consumed /\ input' = input
  BY DEF ReturnOption
<1>2. pc # "start"
  BY <1>1
<1>3. /\ Top \in Frame /\ FrameGood(mem, Top) /\ Top.value.off \in Nat
      /\ consumed \in Nat
  BY <1>1, <1>2, TopGood DEF Inv, TypeOK
<1>4. Top.used = 0 /\ Named(Top)
  BY <1>1, <1>3 DEF FrameGood
<1>5. AskedOff(stack) = Top.value.off
  <2>1. AskedOff(stack) = Top.value.off + Top.used
    BY <1>1 DEF AskedOff, Top
  <2> QED  BY <1>3, <1>4, <2>1
<1>6. Asked(input, stack) = Defs[Top.def].item
  BY <1>1 DEF Asked, AskedType, Top
<1>7. /\ AskedOff(stack) + consumed <= Len(mem)
      /\ Good(mem, [off |-> AskedOff(stack), size |-> consumed], Asked(input, stack))
  BY <1>1 DEF Walking
<1>8. /\ t # "byte" /\ DefinitionOf(t) /\ DefOf(t) = Defs[Top.def] /\ DefOf(t).kind = "option"
  BY <1>1, <1>3, <1>4, FrameType
<1>9. Good(mem, c, t)
  <2>1. c \in Cursor /\ c.off = Top.value.off /\ c.size = consumed
    BY <1>3 DEF Cursor
  <2>2. Good(mem, c, DefOf(t).item)
    BY <1>5, <1>6, <1>7, <1>8
  <2>3. At(c, 0, c.size) = c
    BY <1>3, <2>1 DEF At
  <2>4. c.size # 0 => Good(mem, At(c, 0, c.size), DefOf(t).item)
    BY <2>2, <2>3
  <2> HIDE DEF c, t
  <2> QED  BY <1>8, <2>1, <2>4, GoodOption
<1>10. Top.value.off + consumed <= Len(mem)
  BY <1>5, <1>7
<1>11. pc' = "ret"
  BY <1>1
<1> QED  BY <1>1, <1>2, <1>9, <1>10, <1>11, ReturnWalks

LEMMA ReturnUnionWalks ==
  ASSUME BuiltinsKept, Inv, Walking, ReturnUnion, last_error' = "OK" PROVE Walking'
<1> DEFINE mem == input.data
           n == consumed + NumSize
           c == [off |-> Top.value.off, size |-> consumed + NumSize]
           t == TypeOf(Top)
           k == VariantIndex(Defs[Top.def].pairs, WordAt(mem, Top.value.off))
<1>1. /\ pc = "ret" /\ stack # <<>> /\ Kind(Top) = "union"
      /\ stack' = Tail(stack) /\ pc' = pc /\ consumed' = n % WordMod /\ input' = input
  BY DEF ReturnUnion, Abandon
<1>2. pc # "start"
  BY <1>1
<1>3. /\ Top \in Frame /\ FrameGood(mem, Top) /\ Top.value.off \in Nat
      /\ consumed \in Nat
  BY <1>1, <1>2, TopGood DEF Inv, TypeOK
<1>4. Top.used = NumSize /\ Named(Top) /\ k # 0 /\ t # "Address"
  BY <1>1, <1>3 DEF FrameGood
<1>5. AskedOff(stack) = Top.value.off + NumSize
  BY <1>1, <1>4 DEF AskedOff, Top
<1>6. Asked(input, stack) = Defs[Top.def].pairs[k].typ
  BY <1>1 DEF Asked, AskedType, Top
<1>7. /\ AskedOff(stack) + consumed <= Len(mem)
      /\ Good(mem, [off |-> AskedOff(stack), size |-> consumed], Asked(input, stack))
  BY <1>1 DEF Walking
<1>8. /\ t # "byte" /\ DefinitionOf(t) /\ DefOf(t) = Defs[Top.def] /\ DefOf(t).kind = "union"
  BY <1>1, <1>3, <1>4, FrameType
<1>9. Len(mem) < WordMod /\ Len(mem) \in Nat /\ WordMod \in Nat
  BY WordModBig DEF Inv, TypeOK, Input
<1>10. /\ n \in 0 .. WordMod - 1 /\ Top.value.off + n <= Len(mem)
       /\ n >= NumSize /\ n - NumSize = consumed /\ n \in Nat
  <2>1. Top.value.off + NumSize + consumed <= Len(mem)
    BY <1>5, <1>7
  <2> QED  BY <1>3, <1>9, <2>1 DEF NumSize
<1>11. consumed' = n
  <2>1. n % WordMod = n
    <3> HIDE DEF n
    <3> QED  BY <1>9, <1>10, NoWrap
  <2> QED  BY <1>1, <2>1
<1>12. c \in Cursor /\ c.off = Top.value.off /\ c.size = n
  <2> HIDE DEF n
  <2>1. c = [off |-> Top.value.off, size |-> n]
    BY DEF n
  <2> QED  BY <1>3, <1>10, <2>1 DEF Cursor
<1> HIDE DEF n, c
<1>13. Good(mem, c, t)
  <2>1. At(c, NumSize, c.size - NumSize) = [off |-> AskedOff(stack), size |-> consumed]
    BY <1>5, <1>10, <1>12 DEF At
  <2>2. VariantIndex(DefOf(t).pairs, WordAt(mem, c.off)) = k
    BY <1>8, <1>12
  <2>3. Good(mem, At(c, NumSize, c.size - NumSize), DefOf(t).pairs[k].typ)
    BY <1>6, <1>7, <1>8, <2>1
  <2>4. c.size >= NumSize
    BY <1>10, <1>12
  <2>5. /\ VariantIndex(DefOf(t).pairs, WordAt(mem, c.off)) # 0
        /\ Good(mem, At(c, NumSize, c.size - NumSize),
                DefOf(t).pairs[VariantIndex(DefOf(t).pairs, WordAt(mem, c.off))].typ)
    BY <1>4, <2>2, <2>3
  <2> HIDE DEF t, k
  <2> QED  BY <1>4, <1>8, <1>12, <2>4, <2>5, GoodUnion
<1>14. [off |-> Top.value.off, size |-> n] = c
  BY DEF c, n
<1>15. Good(mem, [off |-> Top.value.off, size |-> n], t)
  BY <1>13, <1>14
<1>16. pc' = "ret"
  BY <1>1
<1> QED  BY <1>1, <1>2, <1>10, <1>11, <1>15, <1>16, ReturnWalks

LEMMA FinishWalks ==
  ASSUME Inv, Walking, Finish, last_error = "OK", last_error' = "OK" PROVE Walking'
<1>1. /\ pc = "ret" /\ stack = <<>> /\ pc' = "done" /\ consumed = Len(input.data)
      /\ input' = input /\ stack' = stack
  BY DEF Finish
<1>2. Good(input.data, [off |-> AskedOff(stack), size |-> consumed], Asked(input, stack))
      /\ input.version = 1 /\ Walked(input, stack)
  BY <1>1 DEF Walking
<1>3. AskedOff(stack) = 0 /\ Asked(input, stack) = input.top
  BY <1>1 DEF AskedOff, Asked
<1>4. Good(input.data, Block(input), input.top)
  BY <1>1, <1>2, <1>3 DEF Block
<1>5. Good(input.data, Block(input), input.top)' /\ Walked(input, stack)'
  BY <1>1, <1>2, <1>4 DEF Block
<1> QED  BY <1>1, <1>2, <1>5 DEF Walking

\* The mdp_context is the one mdp_visit was called with.
LEMMA InputKept == ASSUME [Next]_vars PROVE input' = input
<1>1. CASE UNCHANGED vars
  BY <1>1 DEF vars
<1>2. \A e, up : Reject(e, up) => input' = input
  BY DEF Reject
<1>3. \A fail, n, offsets : Accept(fail, n, offsets) => input' = input
  BY DEF Accept
<1>4. \A fail : Panic(fail) => input' = input
  BY DEF Panic
<1>5. \A fail, count, used, full : Enter(fail, count, used, full) => input' = input
  BY DEF Enter
<1>6. \A fail, used, typ : Descend(fail, used, typ) => input' = input
  BY DEF Descend
<1>7. \A e : Abandon(e) => input' = input
  BY DEF Abandon
<1>8. CASE Start \/ VisitAfterError \/ VisitUnknownType \/ VisitByte \/ VisitOption \/ VisitUnion
  BY <1>2, <1>3, <1>6, <1>8, Zenon
     DEF Start, VisitAfterError, VisitUnknownType, VisitByte, VisitOption, VisitUnion
<1>9. CASE VisitAddress
  <2>1. \A fail, offsets : EncodeAddress(fail, offsets) => input' = input
    BY <1>2, <1>3, Zenon DEF EncodeAddress
  <2> QED  BY <1>2, <1>4, <1>9, <2>1, Zenon DEF VisitAddress
<1>10. CASE VisitArray \/ VisitStruct
  BY <1>2, <1>3, <1>4, <1>5, <1>10, Zenon DEF VisitArray, VisitStruct
<1>11. CASE VisitFixvec
  <2>1. \A fail, value, n : CheckString(fail, value, n) => input' = input
    BY <1>2, <1>3, <1>4, Zenon DEF CheckString
  <2> QED  BY <1>2, <1>3, <1>4, <1>5, <1>11, <2>1, Zenon DEF VisitFixvec
<1>12. CASE VisitDynvec \/ VisitTable
  BY <1>2, <1>3, <1>5, <1>12, Zenon DEF VisitDynvec, VisitTable
<1>13. CASE NextItem \/ NextItemRefused \/ FinishItem \/ FinishLoop
  BY <1>7, <1>13, Zenon DEF NextItem, NextItemRefused, FinishItem, FinishLoop
<1>14. CASE ReturnOption \/ ReturnUnion \/ Finish
  BY <1>7, <1>14, Zenon DEF ReturnOption, ReturnUnion, Finish
<1> QED  BY <1>1, <1>8, <1>9, <1>10, <1>11, <1>12, <1>13, <1>14 DEF Next, Step, Terminated

LEMMA WalkStarts == ASSUME Init PROVE WalkInv
<1>1. /\ pc = "start" /\ stack = <<>> /\ arg.typ = input.top /\ arg.value.off = 0
  BY DEF Init
<1>2. Walked(input, stack)
  BY <1>1 DEF Walked
<1>3. Asked(input, stack) = input.top /\ AskedOff(stack) = 0
  BY <1>1 DEF Asked, AskedOff
<1> QED  BY <1>1, <1>2, <1>3 DEF WalkInv, Walking

LEMMA WalkKeeps ==
  ASSUME NEW rank, SizesGrounded(rank), BuiltinsKept, ~Overlong(input.data),
         Inv, WalkInv, [Next]_vars
  PROVE  WalkInv'
<1> SUFFICES ASSUME last_error' = "OK", pc' # "panic"
             PROVE  Walking'
  BY DEF WalkInv
<1>1. last_error = "OK"
  BY StepEnds DEF Ended
<1>2. CASE UNCHANGED vars
  <2>1. input' = input /\ pc' = pc /\ arg' = arg /\ stack' = stack /\ consumed' = consumed
    BY <1>2 DEF vars
  <2>2. Walking
    BY <1>1, <2>1 DEF WalkInv
  <2>3. (stack # <<>> => Waiting(input.data, Top))' = (stack # <<>> => Waiting(input.data, Top))
    BY <2>1 DEF Top
  <2>4. Good(input.data, Block(input), input.top)' = Good(input.data, Block(input), input.top)
    BY <2>1
  <2>5. /\ Walked(input, stack)' = Walked(input, stack)
        /\ AskedOff(stack)' = AskedOff(stack) /\ Asked(input, stack)' = Asked(input, stack)
    BY <2>1
  <2> QED  BY <2>1, <2>2, <2>3, <2>4, <2>5 DEF Walking
<1>3. CASE Step
  <2>1. pc # "panic"
    BY <1>3 DEF Step, Start, VisitAfterError, VisitUnknownType, VisitByte, VisitOption,
       VisitUnion, VisitAddress, VisitArray, VisitStruct, VisitFixvec, VisitDynvec,
       VisitTable, Visiting, NextItem, NextItemRefused, FinishItem, FinishLoop,
       ReturnOption, ReturnUnion, Finish
  <2>2. Walking
    BY <1>1, <2>1 DEF WalkInv
  <2>3. CASE VisitAfterError \/ VisitUnknownType \/ NextItemRefused
    BY <1>1, <2>3 DEF VisitAfterError, VisitUnknownType, NextItemRefused, Reject, Abandon
  <2>4. CASE Start \/ VisitByte \/ VisitOption \/ VisitUnion
    BY <2>2, <2>4, StartWalks, VisitByteWalks, VisitOptionWalks, VisitUnionWalks
  <2>5. CASE VisitAddress
    BY <2>2, <2>5, VisitAddressWalks
  <2>6. CASE VisitArray
    BY <2>2, <2>6, VisitArrayWalks
  <2>7. CASE VisitStruct
    BY <2>2, <2>7, VisitStructWalks
  <2>8. CASE VisitFixvec
    BY <2>2, <2>8, VisitFixvecWalks
  <2>9. CASE VisitDynvec
    BY <2>2, <2>9, VisitDynvecWalks
  <2>10. CASE VisitTable
    BY <2>2, <2>10, VisitTableWalks
  <2>11. CASE NextItem
    BY <2>2, <2>11, NextItemWalks
  <2>12. CASE FinishItem
    BY <1>1, <2>2, <2>12, FinishItemWalks
  <2>13. CASE FinishLoop
    BY <2>2, <2>13, FinishLoopWalks
  <2>14. CASE ReturnOption
    BY <2>2, <2>14, ReturnOptionWalks
  <2>15. CASE ReturnUnion
    BY <2>2, <2>15, ReturnUnionWalks
  <2>16. CASE Finish
    BY <1>1, <2>2, <2>16, FinishWalks
  <2> QED  BY <1>3, <2>3, <2>4, <2>5, <2>6, <2>7, <2>8, <2>9, <2>10, <2>11, <2>12,
              <2>13, <2>14, <2>15, <2>16 DEF Step
<1> QED  BY <1>2, <1>3 DEF Next, Terminated

LEMMA WalkedIsSound == ASSUME WalkInv PROVE Sound
<1> SUFFICES ASSUME pc = "done", last_error = "OK" PROVE Displayable
  BY DEF Sound
<1>1. Good(input.data, Block(input), input.top) /\ input.version = 1
  BY DEF WalkInv, Walking
<1> QED  BY <1>1 DEF Good, Displayable, Valid

\* mdp_visit returns MDP_OK for nothing but a value of the schema's top-level
\* type: for every schema whose sized types are grounded and whose builtins are
\* those of builtins.mol, every call whose data holds no overlong script, every
\* depth of nesting and every answer of the feeder.
THEOREM OnlyValidIsShown ==
  ASSUME NEW rank, SizesGrounded(rank), BuiltinsKept,
         \A in \in Inputs : ~Overlong(in.data)
  PROVE  Spec => []Sound
<1> DEFINE Known == input \in Inputs
<1>1. Init => Inv /\ WalkInv /\ Known
  BY InitHolds, WalkStarts DEF Init
<1>2. Inv /\ WalkInv /\ Known /\ [Next]_vars => Inv' /\ WalkInv' /\ Known'
  BY StepKeeps, WalkKeeps, InputKept
<1>3. WalkInv => Sound
  BY WalkedIsSound
<1> HIDE DEF Known
<1> QED  BY <1>1, <1>2, <1>3, PTL DEF Spec
=============================================================================
