---------------------------- MODULE MoleculePack ----------------------------
(***************************************************************************)
(* How molecule values are put together: the write functions of the        *)
(* generated builders, for parts that are encoded already.                 *)
(***************************************************************************)
LOCAL INSTANCE Integers
LOCAL INSTANCE SequencesExt

CONSTANT Base  \* radix of one byte

LOCAL NumSize == 4

Added(s) ==
  LET upto[k \in 0 .. Len(s)] == IF k = 0 THEN 0 ELSE upto[k - 1] + s[k]
  IN  upto[Len(s)]

PackNumberLow(n) == <<n, 0, 0, 0>>

PackNumber(n) ==
  <<n % Base, (n \div Base) % Base, (n \div (Base * Base)) % Base,
    (n \div (Base * Base * Base)) % Base>>

\* write of a table, and of a dynvec with at least one item.
PackTable(items) ==
  LET header == NumSize * (Len(items) + 1)
      upto(k) == header + Added([j \in 1 .. k |-> Len(items[j])])
  IN  PackNumber(upto(Len(items)))
      \o FlattenSeq([k \in DOMAIN items |-> PackNumber(upto(k - 1))])
      \o FlattenSeq(items)

PackDynvec(items) == IF items = <<>> THEN PackNumber(NumSize) ELSE PackTable(items)

PackFixvec(items) == PackNumber(Len(items)) \o FlattenSeq(items)

PackUnion(id, value) == PackNumber(id) \o value
=============================================================================
