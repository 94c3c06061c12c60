----------------------------- MODULE Mol2Cursor -----------------------------
(***************************************************************************)
(* The read primitives of clib/molecule2_reader.h: a cursor is a window    *)
(* [off, off + size) over one memory block, and every multi-byte number    *)
(* found through it is a little-endian word of NumSize bytes.              *)
(*                                                                         *)
(* A C function that may end the process through MOL2_PANIC is an operator *)
(* that returns a set: empty when the code panics, a singleton otherwise.  *)
(* Reading behind the block is the exception: mol2_source_memory does not  *)
(* panic there but copies from outside, and SlicesAstray says when.        *)
(*                                                                         *)
(* A byte is a digit of radix Base (256 in the program).  A small Base     *)
(* keeps the 32-bit arithmetic within the reach of TLC: WordMod is 2^32    *)
(* when Base is 256, and every wrap-around of the code is a wrap-around    *)
(* modulo WordMod here.                                                    *)
(***************************************************************************)
EXTENDS Integers, Sequences

CONSTANT Base  \* radix of one byte

ASSUME BaseAssumption == Base \in Nat /\ Base >= 3

Byte == 0 .. Base - 1

NumSize == 4                              \* MOL2_NUM_T_SIZE
WordMod == Base * Base * Base * Base      \* range of mol2_num_t
Cursor == [off : Nat, size : Nat]

\* Length of the block a cursor reads: data_source->total_size.
TotalSize(mem) == Len(mem)

ByteAt(mem, o) == mem[o + 1]

\* The number mol2_unpack_number builds from the four bytes at offset o.
WordAt(mem, o) ==
  ByteAt(mem, o) + Base * (ByteAt(mem, o + 1)
                 + Base * (ByteAt(mem, o + 2) + Base * ByteAt(mem, o + 3)))

\* mol2_read_at finds a whole word at offset o; if not, unpacking panics.
HasWord(mem, o) == o + NumSize <= TotalSize(mem)

\* mol2_unpack_number returns for this cursor, without a panic.
Unpacks(mem, c) == c.size >= NumSize /\ HasWord(mem, c.off)

\* mol2_add_offset and mol2_sub_size by the same n <= c.size: no overflow.
Advance(c, n) == [off |-> c.off + n, size |-> c.size - n]

\* mol2_validate: the window ends inside the block.
Validates(mem, c) == c.off + c.size <= TotalSize(mem)

(***************************************************************************)
(* mol2_dynvec_slice_by_index: item i of a dynvec or table.  The header is *)
(* the total size followed by one offset per item; the number of items is  *)
(* the first offset / 4 - 1.  The size of c bounds only the read of the    *)
(* total size; later header words are bounded by the block alone.  Empty   *)
(* also when SlicesAstray: no result is defined then.                      *)
(***************************************************************************)
DynvecSlice(mem, c, i) ==
  LET total == WordAt(mem, c.off)
      count == WordAt(mem, c.off + NumSize) \div NumSize - 1
      slot(k) == c.off + NumSize * (k + 1)
      start == WordAt(mem, slot(i))
      end   == IF i + 1 = count THEN total ELSE WordAt(mem, slot(i + 1))
      missing == {[found |-> FALSE, cur |-> c]}
  IN  IF ~Unpacks(mem, c) THEN {}
      ELSE IF total = NumSize THEN missing
      ELSE IF ~HasWord(mem, c.off + NumSize) \/ count < 0 THEN {}
      ELSE IF i >= count THEN missing
      ELSE IF ~HasWord(mem, slot(i)) THEN {}
      ELSE IF i + 1 < count /\ ~HasWord(mem, slot(i + 1)) THEN {}
      ELSE {r \in {[found |-> TRUE,
                    cur |-> [off |-> c.off + start, size |-> end - start]]} :
              start <= end /\ Validates(mem, r.cur)}

\* The total size or the slot of item i starts behind the block: mem_len -
\* offset wraps in mol2_source_memory, and the word is copied from outside.
\* (The slots next to these two then follow a word that is in the block.)
SlicesAstray(mem, c, i) ==
  \/ c.off > TotalSize(mem)
  \/ /\ Unpacks(mem, c) /\ WordAt(mem, c.off) # NumSize
     /\ HasWord(mem, c.off + NumSize)
     /\ i < WordAt(mem, c.off + NumSize) \div NumSize - 1
     /\ c.off + NumSize * (i + 1) > TotalSize(mem)

\* mol2_table_slice_by_index: ASSERT is compiled out, so an index the table
\* does not have yields the table's own cursor.
TableSlice(mem, c, i) == {r.cur : r \in DynvecSlice(mem, c, i)}
=============================================================================
