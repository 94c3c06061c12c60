# Verification of the molecule dynamic visitor

The repository turns molecule-encoded data into human readable text without
code generated for its schema: a schema is packed by `molecule-schema-compacter`
(Rust) into a `Definitions` value, and `mdp_visit` (C, one header) walks a piece
of data under the guidance of that packed schema, handing the text to a feeder
supplied by its caller. The intended place is a smart contract that hashes the
text a user signs. What matters most is therefore that a text reported as
complete shows the value, the whole value and nothing but the value.

## Inventory

| Part | State | Operations | Talks to |
|---|---|---|---|
| Dynamic visitor, `clib/molecule-dynamic-visitor.h` | C stack of visitors (value cursor, item index, total consumed), `last_error`, `indent_levels` | `mdp_visit`, `_mdp_visit_subtype`, one visitor for each of option, union, array, struct, fixvec, dynvec, table; builtins byte, Byte32, Uint64, String, Address | reader (calls), schema accessors (calls), UTF-8 and bech32m encoders (calls), feeder (callback) |
| Molecule reader, `clib/molecule2_reader.h` | cursors; data sources with a 64-byte cache; one static data source | `mol2_read_at`, `mol2_unpack_number`, `mol2_add_offset`, `mol2_sub_size`, `mol2_validate`, slicing | the memory source; `MOL2_PANIC` ends the process |
| UTF-8 checker, `clib/utf8.h` | a 32-byte buffer with a carried tail | `utf8_check` | inputter and outputter callbacks |
| Bech32m encoder, `clib/bech32m.h` | checksum, 8-to-5-bit regrouping state | `bech32m_encode`, `bech32m_raw_to_5bits_inputter` | inputter and outputter callbacks |
| Cursors inputter, in the visitor's header | current cursor and offset | `cursors_inputter` | reader |
| Schema accessors, `clib/mol2_definitions.h` (generated) | none | `name`, `item`, `fields`, ... over the packed schema | reader |
| Schema compacter, `crates/molecule-schema-compacter/src/main.rs`, `schemas/mod.rs` | map of declarations, call stack and set of used types of the search | read and check files, merge, search, retain, sort, pack | files; generated code |
| Generated code, `crates/*/src/schemas/*.rs`: 45 types in three crates | the bytes of an entity; what a builder holds | `verify` strict and compatible, accessors, `default`, `as_builder`, setters, `push`, `build` | its own parts |
| Schema files, `schemas/*.mol` | none | the declarations the generated code and the sample data follow | |
| Data generators, `crates/*-data-generator` | none | random sample values, `to_address` | generated code, files |
| Callers, `test_main.c` | a growing text, or a hash | read files, call `mdp_visit` | visitor |

Everything runs in one thread. What is hard is not concurrency but the following.

* **Trust in lengths.** Every length, count and offset comes from the data. A
  visitor checks its own window only; that no window leaves its parent is a
  property of the whole recursion.
* **Partial failure.** The feeder may refuse any piece of text. The send helpers
  remember it in `last_error`; the two encoders call the feeder themselves; some
  callers look at return values and some do not; error returns jump over the code
  that undoes an indentation.
* **Streaming.** Text goes out before it is known to be valid, through fixed
  buffers with a tail that is carried from one round to the next.
* **32-bit arithmetic** on counts that the data chooses.
* **Stale state** in the reader: one static source, one cache for all cursors.
* **One thing said many times.** The generated code of a type says what the type
  is in its entity, its reader, its builder and its default value, once more in
  C, and the schema file says it first; only agreement of all makes them correct.
* **Search without a visited test** in the compacter, over files that may
  contradict each other: it ends because the stack does.

What makes each part correct: the *visitor* returns `MDP_OK` exactly for valid
data, shows every payload byte once, keeps windows nested, loses no error,
returns for every input; the *UTF-8 checker* accepts exactly UTF-8 and echoes it;
the *reader* returns the bytes of the block whatever was read before; the
*encoder* encodes exactly its input, however it is cut; the *compacter* packs
exactly the declarations reachable from the top-level type and the *accessors*
read what was packed; the *generated code* accepts what the schema says, never
panics on what it accepted, and writes the one encoding of a value.

## Modules

```
Schema              the definitions a packed schema holds
Mol2Cursor          cursors and words over one block        (clib/molecule2_reader.h)
  Utf8Check         utf8_check as a function                (clib/utf8.h)
    Visitor         the state machine of mdp_visit          (clib/molecule-dynamic-visitor.h)
      MoleculeFormat  what valid data is and shows; implements Delivery
        MCVisitor     schemas and data for TLC
        VisitorProofs theorems about Visitor and what it accepts
    Utf8Proofs      lemmas and a theorem about Utf8Check

BlockReads          what users of the reader may rely on
  Mol2Source        data sources, caches, comparisons       (clib/molecule2_reader.h)
    MCMol2Source    blocks and cursors for TLC
    Mol2SourceProofs  theorems about Mol2Source

Delivery            what an encoder of text promises
Utf8Shape           the bit tests on one code sequence      (clib/utf8.h)
Callbacks           cursors_inputter and the feeder         (clib/molecule-dynamic-visitor.h)
  Utf8Stream        utf8_check over its callbacks           (clib/utf8.h)
  Bech32mStream     bech32m_encode and its regrouper        (clib/bech32m.h)
    Streams         both, shown to implement Delivery
      MCStreams     texts and addresses for TLC
      StreamsProofs   theorems about Streams
        DeliveryProofs  the proof that Streams implements Delivery
          ReaderProofs    what a reader makes of the texts

RecursionLemmas     induction and recursive functions, for the proofs

MoleculeRules       which bytes are a value of a schema     (crates/*/src/schemas)
MoleculePack        how a value is put together
MolFiles            the declarations of schemas/*.mol
GeneratedTypes      how the code of a type is written down
  DefinitionsCode, MiscCode, SporeCode   what it says       (crates/*/src/schemas)
  GeneratedCode     what the code does with it
    MoleculeCode    entities in use
      DataGenerators  mains of the generators               (crates/*-data-generator)
        MCMoleculeCode  values, newer schemas, damage for TLC

Declarations        files and the meaning of their declarations
  Compaction        what the compacter is for
  Compacter         main and the search for used types      (molecule-schema-compacter)
    CompactSchema   with the bytes written
      MCCompacter   files for TLC
    CompacterProofs theorems about Compacter
GeneratedCode
  PackedSchema      From implementations and C accessors    (schemas/mod.rs, mol2_definitions.h)
```

`MoleculeFormat` and `MoleculeCode` take the same `MoleculeRules`; `CompactSchema`
joins `Compacter` with `PackedSchema`; `Streams` compares `Utf8Stream` with
`Utf8Check`, on which `Visitor` rests.

Visitor and reader meet at the block. `Visitor` reads blocks directly, as
`BlockReads` promises; `Mol2Source` implements that promise with caches and
buffers. `Visitor` keeps all its cursors inside the block (`NestedWindows`) and
off the static source, which is what the promise asks of its user. The reader alone
would not keep it there: the visitor moves cursors with `mol2_add_offset`, which
validates nothing, and its own header checks do the rest.

`Mol2Cursor` is the arithmetic of the reader. A C function that may panic is an
operator whose value is a set, empty when it panics. A slice that reads its header
behind the block does not panic but copies from outside; no value is defined then, and
`SlicesAstray` says when that is. The radix of a byte is the
constant `Base`; 32-bit numbers are four digits and wrap at `WordMod = Base^4`,
which is 2^32 for the program and 256 for TLC.

`Utf8Check` is `utf8_check` as a function: buffer by buffer, what it answers
(`Utf8Result`) and which bytes it outputs (`Utf8Echo`). The shape of UTF-8
(`SeqLen`, `Legal`) and the buffer's length are constants, since what can go wrong
in a visit is the buffering; `Streams` puts in the tests of the code (`Utf8Shape`).

`Visitor` is the visitor. The C recursion is a stack of frames. There is one
action per visitor function up to its first recursive call or its return
(`VisitByte`, `VisitOption`, `VisitUnion`, `VisitAddress`, `VisitArray`,
`VisitStruct`, `VisitFixvec`, `VisitDynvec`, `VisitTable`), the loop body before
a recursive call (`NextItem`, `NextItemRefused`), the loop body after it
(`FinishItem`), the code behind a loop (`FinishLoop`), the code behind the call
of an option or union (`ReturnOption`, `ReturnUnion`), and both halves of
`mdp_visit` (`Start`, `Finish`). The four item loops are one pair of actions
because the code repeats itself; where the loops differ, a named operator says
how (`ItemFits`, `ItemSize`, `ItemConsumed`, `FieldIndent`, `OffsetKinds`,
`FieldKinds`).

| Model | Code |
|---|---|
| `stack`, `arg` | the C stack: `value`, `i`, `item_count`, `total_consumed` (`used`), `full_size` (`full`), `value2.size` (`sub`); parameters of `_mdp_visit_subtype` |
| `last_error` | `inner->last_error`; also every visitor's return value |
| `consumed` | `*consumed_size` of the visitor that returned last |
| `indent` | `inner->indent_levels` |
| `refused` | some call of the feeder returned non-zero (history) |
| `shown` | offsets of the data bytes rendered so far (history) |
| `input` | the `mdp_context`, the version and top-level type of the schema |
| `Defs` | the schema's definitions as the accessors return them |

A step contains several calls of the feeder; the choice `fail` says whether one
of them is refused. Names, punctuation, number formats and the checksum of an
address are not part of the model: `shown` records which data bytes were
rendered. Which bytes are rendered before a refusal within a step is not told
apart; of the text of a failed visit
the properties say only that it is no more than a beginning of the payload.

`MoleculeFormat` is the reference the visitor is compared with. `Legible` adds to
the rules of `MoleculeRules` that a String is UTF-8 and an Address a Script;
`Payload` is the sequence of bytes a text has to show. No generated reader in the
repository is for an option; the rule for it is the one all molecule code shares,
empty or a value of the item's type. With `Payload` for its text and what
`mdp_visit` answers for its result (`Outcome`), the visitor implements `Delivery`
like the encoders it calls (`DeliversPayload`): whatever the feeder refuses and
however the walk ends, valid data is shown from its beginning on.

`BlockReads` is the reader as its users see it: sources cover blocks, handles
hold cursors, a read returns the bytes under its cursor, a comparison compares
two whole windows. It says what happens at the edges too (`Outcomes`): a read of
more than there is ends the process if it fits the cache and is short if it does
not; a read that starts behind the memory is "stray". It promises nothing of the
comparison of cursors that leave their blocks (`Verdicts`) and of an item whose
header words are not all in the block (`ItemEnds`). `Slice` validates its result;
`Move`, `Resize` and `Shrink`, the uses of `mol2_add_offset`, of an assignment to
`size` and of `mol2_sub_size`, do not. Blocks are counted in numbers
(`NumSize = 1`): one element is a byte for the reads, a header word for the items.

`Mol2Source` extends it with what the code does. `cache` is `start_point`,
`cache_size` and the valid part of `cache[]` of each source; `pair` is a running
`_mdp_cursor_cmp`, whose loop is one `CompareChunk` per round, with both reads
and the caches they leave in order. `SrcMake` is
`mol2_make_cursor_from_memory`, which redirects the one static source;
`StartLiteral` is `_mdp_cursor_s_cmp`, which does so for every name the visitor
looks at. `SrcSliceItem` is `mol2_dynvec_slice_by_index`: up to four numbers are read
through copies of the cursor that are moved to them without a validation, each over
the cache that the one before it left, and only the item that comes out is validated
(`ItemAt`). `SrcMove` and `SrcShrink` are the steps of the visitor's loops from item to
item, `SrcMove` and `SrcResize` the window of a byte vector. `SrcRead` is
`mol2_read_at` and `SrcConsume` a round of the loop in `_mdp_send_cursor_to_feeder`.

| Model | Code |
|---|---|
| `block[s]` | the memory in `args` of source `s`; `Static` is `s_data_source` |
| `cursor[h]` | a `mol2_cursor_t`; `checked` is a history bit: whole or validated, and since then only advanced over what was read and not redirected |
| `answer` | the last return value; `"bounds"`, `"data"` are `MOL2_PANIC`, `"io"` is `MDP_ERROR_MOL2_IO` |
| `cache[s]` | `start_point`, `cache_size`, `cache[]` |
| `pair` | parameters and progress of `_mdp_cursor_cmp` |

### Encoders

A job is one call of `utf8_check` or `bech32m_encode`. `Callbacks` holds what the
two share: the cursors and `cursors_inputter` (one `CopyBytes` per `mol2_read_at`,
one `NextCursor` per switch), and the feeder, which takes a piece or refuses it.
`Utf8Stream` has one action per piece of input, per code sequence and per output;
`Bech32mStream` one per byte regrouped and per character fed, with the checksum as
a set of bits. `Streams` joins them and says what they are compared with.

| Model | Code |
|---|---|
| `current_cursor`, `current_offset` | `cursors_inputter_context` |
| `asked`, `got` | `*length` and what was written of a running call of it |
| `fed` | all bytes the feeder was given (history) |
| `buf`, `processed`, `end` | the locals of `utf8_check`; `Len(buf)` is `filled` |
| `chk`, `k`, `data` | `chk`, `i`, `data` of `bech32m_encode` |
| `buffer`, `buffer_bits`, `c_end`, `i` | `bech32m_raw_to_5bits_inputter_context` and its loop counter |
| `result` | what the job returned; `"overflow"` is return 3 or 4 of the regrouper |

`Delivery` is the promise: what was fed is a beginning of the text and grows,
success comes with all of it, a rejection only for what the input is. `Streams`
implements it with, for a String, `Text` and `Verdict` taken from `Utf8Check`, so
that the run shows that the step `CheckString` of `Visitor` is what the code does;
and with, for an address, the text built from the whole byte string at once.

### Generated code

The files `schemas/*.rs` repeat a few patterns for 45 types. `GeneratedCode` is
the patterns (`Verify` with its checks in order, `Parts`, `Build`, `AsBuilder`,
`ExpectedLength`), and `DefinitionsCode`, `MiscCode` and `SporeCode` are what each
copy of a type says: `FIELD_COUNT`, `ITEM_SIZE`, the ranges and types of fields,
variants and their ids, default values; entity, reader and builder separately, as
they are separate text. Code that may panic is a set, empty when it does.
`MoleculeCode` takes bytes from outside or a default, verifies them in one of the
two modes, reads any part and goes on with it, and edits by `as_builder`, a change
and `build`. `DataGenerators` is each `main` with the random draws as arguments.

### Compacter

| Model | Code |
|---|---|
| `args` | input files and top-level type from the command line |
| `at` | the file and declaration that come next in the loops of `main` |
| `combined` | `combined_top_decls` |
| `stack`, `used` | the recursion of `rec_decl_child_types`, and its set |
| `packed` | the declarations in the order written |
| `pc = "panic"` | any failed `assert`, `expect` or `unwrap`, or a stack overflow |

A declaration is its name, the names it refers to and the rest (`more`).
`Compaction` states the purpose in two actions: deliver the sorted declarations
reachable from the top-level type, each with its last meaning, or refuse for a
reason. `PackedSchema` is the way of a schema from the declarations through the
`From` implementations into bytes, and from the bytes through the C accessors to
the definitions `Visitor` starts from.

The comment at `main.rs:87-88` ("Molecule already ensures that the same definition
name cannot be used across files, we don't need to detect for duplication here")
is about each run of the external compiler; nothing ensures it across the files
given here, so the model admits them: the last one wins.

### Assumptions of the model

* The schema is one the compacter packed: the accessors answer without an error
  (`PackedReadsBack`, `PackedClosed`) and names fit the print buffer. So `MDP_ERROR_SNPRINTF`, failing comparisons of
  names and entries that cannot be found do not occur.
* The visitor's data cursor covers a memory source of its own, as in
  `test_main.c`. The source never returns short reads inside the block.
* In `Mol2Source` a block and a cache behind it are shorter than 2^32
  (`BlockAssumption`). A cursor is not: moved close enough to 2^32, the end of its read
  wraps and looks like a hit, and the panics behind a cache hit follow (`BadHit`).
  A stray read ends the model: what the copy from outside the memory finds is
  undefined.
* `ASSERT` is compiled out, as in the build of the repository.
* A division by zero traps on some targets and leaves the dividend on RISC-V
  (`Remainder`); both outcomes are steps.
* The depth of the C stack is not bounded. The Rust stack of the compacter is
  (`MaxDepth`).
* `File.version` 0 stands for a file that cannot be read or parsed, since both
  panic. The JSON parser, `molecule_codegen` and the command line are external.

## Properties and runs

| Property | Says |
|---|---|
| `TypeOK` | types; `indent_levels` is never negative |
| `NestedWindows` | every window lies in what its caller has left, and in the block; the header of an address's script is not read behind the block either |
| `IndentBalanced` | `indent_levels` is the nesting depth while there is no error, and never less |
| `SuccessMeansFed` | no refusal of the feeder is lost |
| `ErrorEndsText` | after an error nothing is fed or entered, and the error stays one |
| `Sound` | `MDP_OK` only for data the generated readers accept |
| `AcceptsValid` | valid data, a willing feeder and a proper hrp end in `MDP_OK` |
| `ShowsPayload` | a complete text shows every payload byte once, in order (part of `DeliversPayload`; the claim two of the violations refute) |
| `DeliversPayload` | the visitor implements `Delivery`: the text of valid data is a beginning of its payload at every moment, and `MDP_OK` comes at its end only |
| `PanicSites` | the three places where data can end the process |
| `Terminates` | `mdp_visit` returns |
| `ContentInBlock` | the reader's comment on cursors, for the content of a vector |
| `Coherent` | every cache holds bytes its block has now, at their place |
| `CheckedStaysInside` | a cursor that is whole or validated and was only advanced never makes the source copy from outside its memory: not in a read, a comparison, or the header of a vector whose items are taken in order |
| `Transparent` | the reader implements `BlockReads`: caches, buffers and chunks cannot be observed |
| `ComparisonsEnd` | `_mdp_cursor_cmp` returns |
| `ShortReadsReturn` | the comment on `mol2_read_at`: too little data gives a short count |
| `SrcTypeOK` | types; no cursor is advanced beyond its size |
| `Delivers` | the encoders implement `Delivery`, for every cut of the input, every buffer end, every refusal |
| `ChecksUnicode` | `utf8_check` accepts exactly the sequences of characters, each in its one encoding |
| `AddressReadsBack` | a complete address decodes: hrp, checksum, and the bytes of the four cursors |
| `NeverOverflows` | the regrouper has space for all groups of a call, and each has five bits |
| `Returns` | both encoders return |
| `NeverPanics` | no bytes make generated code panic, at any depth of reading and rebuilding |
| `HeldVerifies` | what accessors return and edits leave passes the verification of its origin |
| `FollowsSchema` | `from_slice` accepts exactly the values of the `.mol` file |
| `OneEncoding` | accepted bytes are what the builders write for their parts |
| `DefaultsAgree`, `LengthsExpected` | a new builder writes `DEFAULT_VALUE`; `build` reserves what `write` appends |
| `EditsAreLocal` | a setter changes its part only; a rebuild drops nothing but fields of newer schemas |
| `GeneratorsAgree` | sample files are valid and their addresses print as drawn |
| `Implements` | the compacter implements `Compaction` |
| `PackedClosed` | a packed schema declares every type it names |
| `BuiltinsKept` | builtins mean what `builtins.json` says |
| `GoodFilesMerge` | files that are fine alone never make the search panic together |
| `PackedReadsBack` | the visitor's accessors read the schema that was packed |
| `Finishes` | the compacter ends |
| `StreamsTypeOK`, `CodeTypeOK`, `CompacterTypeOK` | types |

The runs of `MCVisitor` use `Base = 4`, a UTF-8 buffer of 4 bytes, a `Byte32` of 2 bytes and a
`Uint64` of 3. Words are then 0..255, so header words, the wrap at `WordMod` and
every byte value are within reach, and a text of five bytes already needs a
carried tail.

| Run | Inputs | Result |
|---|---|---|
| `values` | a value of the Misc sample schema, every one-byte change, every truncation, one byte more; an Address alone in the block, the same damage and header words off by 1 and 4: here a script field may reach the end of the block; texts of up to two buffers whose sequences end with the buffer; item counts of a String up to the last before the wrap; every kind inside every other, empty and filled, the same damage; the feeder may refuse every step | holds |
| `odd` | redeclared builtins, undefined types, arrays of 0 and of 2^32 items, nested options, three kinds of hrp, another syntax version; blocks of up to 8 bytes | holds |
| `straddling` | a sequence across the end of a buffer | `ShowsPayload` fails |
| `upper` | an upper-case hrp | `ShowsPayload` fails |
| `mixed` | a struct of an array and a byte | `AcceptsValid` fails |
| `wrap` | counts around the wrap | `ContentInBlock` fails |
| `overlong` | a Misc value whose address has a script of four offsets, followed by a field | `Sound` fails |
| `reads` | one cursor, two sources of 0, 2 and 4 numbers that serve as texts and as headers, a cache of 2, buffers of 1 to 3, moves, sizes and item numbers up to 3, offsets below 7 | holds |
| `shortread` | as `reads` | `ShortReadsReturn` fails |
| `streams` | buffers of 4 bytes (UTF-8) and 6 groups (bech32m, 2 bytes a call); texts of up to 6 bytes, texts with buffer ends at every place of a character, the neighbours of every limit of Unicode, counts beyond the block; code hashes of 0, 2 and 3 and args of 0 to 5 bytes, hrps with a "1", at the ends of the range and outside; every piece may be refused | holds |
| `code` | bytes of 8 bits; for each of the 45 types its default, a filled value, values of newer schemas at every table, each of them with header words off, cut short or too long; everything reachable by reading and by one edit (`MaxEdits`) | holds |
| `compact` | bytes of radix 8; up to three types in one file or two, with all ways to use each other, cycles included, redeclared builtins, repeated names, wrong versions; a stack of 4 (`MaxDepth`), just enough for all acyclic ones | holds |

Why the bounds are enough: the visitors treat a value by its kind and its window,
and `values` has each kind as the first, the last and the only child of
every kind that may hold it; header checks compare words with each other, and a
one-byte or one-word change puts each of them on both sides of equality.
`values` and `straddling` split the texts: payloads are delivered as long as no
sequence crosses a buffer end (`DeliversPayload`) and repeated as soon as one does
(`ShowsPayload`); that such texts are
accepted when they are UTF-8 is what `streams` adds. `values` avoids a struct with
an array before a smaller rest for the same reason (`mixed`).

For the reader, what matters is how offset, length, cache and block end compare:
a block of two caches, reads of less than, exactly and more than a cache, and a
comparison buffer larger than the cache put each comparison on both sides. With one
cursor every sequence of windows still goes through each cache, and a comparison
with a literal may evict what the cursor's reads loaded. Any number of cursors, of
sources and of sizes is left to the theorems below, which have no bounds. Moves of 3
take a cursor behind every block and up to the end of the numbers, where it overflows;
the longest block is a vector of two items, and from its second number on one whose
offsets go down; the other one is a header that announces four items and has two words.

`CheckedStaysInside` takes items from the first one on, as the accessors of a schema and
the visitor do. That condition is needed: with a first offset of 20 in a block of 8
bytes (`<<4, 5>>` in `reads`), `mol2_dynvec_slice_by_index(c, 2)` reads at offset 12
through a cursor that was just made. Item 1 before it would have ended the process, since its end is not there.
The property says nothing of cursors that were moved by hand: the visitor moves its
own only as far as its header checks allow, which is what `NestedWindows` is about.

For the encoders, the lengths that matter are those modulo 5 bits and modulo a
buffer: addresses of 2 to 10 bytes at 2 a call meet every state of the register and
every place where a cursor, a call or the text may end. For generated code one
edit is taken: its result is again verified bytes (`HeldVerifies`), and the values
it may put in are those the rest of the run reads and rebuilds. For the compacter three types and two files
suffice for a cycle, a diamond, a child searched twice and a name with two
meanings.

**Fairness.** `FairSpec` adds weak fairness of `Step`: the walk is one thread
that nothing blocks. It is used by `odd` for `Terminates`. `SrcFairSpec` adds weak fairness of
`CompareStep` for the same reason: the loop of `_mdp_cursor_cmp` runs on. The
`FairSpec` of `Streams` and of `Compacter` adds weak fairness of `Next`: each is
one thread without a lock or a wait, and the callbacks return; a file that cannot
be read ends the compacter.

### What the violations show

1. `utf8.h:130` outputs the whole buffer and keeps the unprocessed tail, which
   goes out again in the next round. A character of two to four bytes that
   crosses byte 32 of a String has its head shown twice.
2. `bech32m.h:55` returns 0, success, for an upper-case hrp. The address is
   missing from a text that ends in `MDP_OK`.
3. `visit_array` (`:535`) divides what is left of the enclosing value, not the
   array; a struct `{[byte; 2], byte}` is refused as a schema error. Structs
   whose fields after an array happen to add up to a multiple are accepted.
4. `item_count + 4` (`:753`, `:791`) wraps; the cursor over the content leaves
   the block. Reading it then ends the process (`PanicSites`); nothing outside
   the block is shown (`Sound`).
5. The Address branch (`:439-471`) takes "a table of 3 items" for granted. It
   slices three fields and compares the sum of their sizes, with the 16 bytes of a
   header of three offsets, with the announced size, but it does not look at how
   many fields the first offset announces. With a first offset of 20 the args end at
   the fourth offset, and a fourth offset four bytes behind the script makes the sum
   come out. If something follows the address, `mol2_validate` has nothing against
   it: `MDP_OK`, with args that end in four bytes of the next field, for data that no
   generated reader accepts. The theorem about `Sound` could not be proved
   without excluding this case, which is how it was found.
6. `mol2_read_at` (`molecule2_reader.h:645`) ends the process when the source has
   less than a cached read asks for, while its comment speaks of a smaller
   return number. Only reads larger than the cache are short.

## Proofs

### The visitor

`VisitorProofs` proves, for every schema, every set of inputs, every radix of at
least 3 and every buffer length: `TypeCorrect`, `WindowsNest`,
`IndentationBalanced`, `NoRefusalIsLost`, `PanicsOnlyThere` (invariants) and
`FirstErrorEndsText` (an action property). They use the assumptions named in
`Mol2Cursor`, `Utf8Check` and `Visitor` and no other.

None of the invariants is inductive alone. `Inv` joins

* `TypeOK`;
* `Chain(stack, BlockLen)`: each frame's window is where its caller's `used` and
  `sub` put it, the innermost bound following from the block's length. This is
  `NestedWindows` over the whole stack, stated so that pushing and popping a
  frame keeps it;
* `CallInside`: a running call's window is the one its caller set up;
* `TopSuspended`, `LoopHasFrame`: which frames exist in which phase, so that
  `Top` is meaningful when a step uses it;
* `IndentFollows`: the bound of `IndentBalanced` with the frames' `entry`,
  including the difference by which error returns leave the count too high;
* `SuccessMeansFed`.

There is one lemma per action and conjunct it can disturb. Loop steps need that
`consumed <= sub` before `used` grows (`ItemConsumed`), which is where the
`current_consumed > value2.size` checks of the code carry the proof; the
header steps need `first_offset <= value.size`. That the script of an address is not
read behind the block needs the order of the slices (`ScriptStaysInside`): the slot of a
field is next to words that the slice before it found, since otherwise that one would
have ended the process.

**Valid data.** `OnlyValidIsShown` proves `Sound`: what `mdp_visit` answers with
`MDP_OK` is a value of the top-level type by the rules of molecule, all its Strings
are UTF-8 and all its Addresses Scripts. It has three hypotheses.

* `SizesGrounded`: arrays, structs and fixvecs hold sized types, and there is a rank
  that goes down from a type to its parts. Molecule's compiler refuses other schemas;
  without it `FixedSize` says nothing.
* `BuiltinsKept`: the types the visitor knows by name are declared as in
  `schemas/builtins.mol`, and none is missing where an Address refers to it. The
  compacter sees to both (`BuiltinsStay`, `PackedStandsAlone`).
* No input is `Overlong`: nowhere in the data is there a script of more than three
  offsets whose first three fields have the sizes of a script's. This is the case in
  which the claim is false (`overlong`).

`MCVisitor` assumes the three of the inputs of `values` (`ValuesAssumption`), so the run and
the theorem speak of the same walks, and `values` has damaged headers, wrapping counts
and scripts of four fields among them.

The invariant is `Inv` and `WalkInv`: while there is no error, every frame is
`FrameGood`, that is, its header passed the checks of its visitor, the items
before `i` are good values of their types and fill exactly the bytes
`used`; every frame, and the running call, is what the frame before it asked for
(`Waiting`, `CalledFor`); and a call that returned without an error leaves a `Good`
value of `consumed` bytes behind.
`Good` is the rules together with the legibility of texts. One lemma per
kind closes its loop: what the loop has counted is what the rules ask for. The children
of a dynvec or a table are where the offsets put them, so the windows of the walk are the
`Parts` of the value; those of an array, a struct or a fixvec are laid end to end,
which agrees with the rules since a good value of a sized type has its `FixedSize`
(by induction on the rank). `CheckedIsUtf8` takes what `utf8_check` accepted buffer
by buffer for UTF-8 as a whole; `ScriptShape` shows that a script that passed the
checks of the Address branch is the table of three fields, or `Overlong`.
A count that wraps passes the length check of a vector, but not what comes after it
(`ContentGood`): its content is outside the block, and reading it ends the process.
The rules are functions defined by themselves on the windows inside. A schema may
nest an option in itself and make such a definition circular; that there still is a
function that fits is `TreesTested`, which takes the largest one.

`PanicsOnlyThere` needs nothing of the state but `Inv`: a visitor reads inside its
window once its size checks have passed, and `WindowsNest` puts the window into
the block. What it needs is a fact about `utf8_check`, which the visitor calls on
the content of a String. `Utf8Proofs` has it as `CheckReturns`: on a content inside
its block the answer is "ok" or "malformed". `Utf8Check` is written with functions
that recurse over the offset; that they are what they recurse to is proved by
induction on the bytes that are left (`WalkDefined`, `RoundDefined`, `EchoDefined`),
because a code sequence has at least one byte and a full buffer at least one
whole sequence (`WalkClimbs`, `RoundClimbs`). Where the count of a String wrapped,
the content does not lie in its block; that is one of the three places.

### The reader

`Mol2SourceProofs` proves, for all blocks, sources, cursors, cache and buffer
sizes: `SrcTypeCorrect`, `CacheCoherent`, `CheckedStayInside` (invariants) and
`ReaderIsTransparent`, that `SrcSpec` implements `BlockReads`. They use
`BlockAssumption` and `CmpAssumption` only.

The argument has one centre, `ReadIsTransparent`: over a coherent cache,
`ReadAt` returns one of `Outcomes` and leaves a coherent cache, by cases on where the
read starts, whether it exceeds the cache, and whether it hits. `ItemIsTransparent`
follows the four reads of a header from one to the next (`NumberFacts`), each over the
cache of the one before. `SrcInv` joins types and coherence with

* `CheckedInside`: a checked cursor starts inside its block. Validation makes it so,
  advancing over what was read keeps it, and whatever else moves or resizes a cursor,
  or redirects its source, takes the mark away;
* `PairProgress`: what a running comparison has compared is equal, was read from
  inside both blocks, and the process runs. A comparison that ends then has the
  verdict of the whole windows: by `WindowJoin` when all chunks were equal, by
  `WindowPart` when one was not.

One lemma per action shows that `SrcInv` is kept and that the step is one of
`BlockReads`, or a stutter for the start and the equal chunks of a comparison.

`CheckedStaysInside` follows from `SrcInv`. A read (`ReadStays`) starts inside. So does
each chunk of a comparison (`ChunkStays`), whose cursors have advanced over what both
had. For an item (`ItemStays`) the numbers that come first were read when the item
before it was cut out; its end was the last of them, so the slot of this item's start
is in the block, and the slot of its end begins no later than the block ends: reading
that one may end the process, but does not stray.

### The encoders

`StreamsProofs` proves `RegrouperFits`: for every input and every buffer of at
least four groups, the groups of one call fit the buffer of `bech32m_encode` and
have five bits each. `IInv` adds to the property that the register is zero behind
its first `buffer_bits` bits (`Register`), that `got` is no longer than what the
regrouper asked for (`Given`), and that a byte makes at most two groups
(`Regrouped`), from which `2 * ((n - 2) / 2) <= n` does the rest. Shifts are
multiplications with `Power`; three lemmas settle their arithmetic by cases on the
number of bits.

`StreamsTypes` proves `StreamsTypeOK` from the same invariant and the types of the
rest (`TInv`). It rests on the length of `got` against `asked`, for the buffer of
`utf8_check`, and on `StepWord` and `SymbolType`: the step of the
checksum stays in 30 bits, and each of its six parts is an index of the charset.

`DeliveryProofs` proves `StreamsDeliver`: if all jobs are `Deliverable`, `Spec`
implements `Delivery`. `Deliverable` is what the visitor asks for: a String has one
cursor (`visit_fixvec` passes one); the cursors of an Address lie in
their memories, since three of them come from `mol2_table_slice_by_index`, which
validates what it returns, and the fourth is a source of one byte; and the hrp is
not in capitals.
For capitals the claim would be false: `upper` shows that the code then succeeds
without a text. A String may leave its block: the count that wrapped is included,
with a panic for its outcome. `MCStreams` assumes `InputsDeliverable`, so the run
and the theorem are about the same jobs.

A job has one encoder, so the invariant is `StringInv` or `AddressInv`, with `TInv`.

* `StringInv`. `Start` is the offset of the window at which `buf` begins: what the
  inputter has passed (`ReadTo`) less what is held in `buf` and `got`. `Window1` says
  that both hold the bytes of the window from there on; `Scanned`, that the scan of
  the buffer ends where the walk of `Utf8Check` from `Start` does; `Shows`, that what
  is fed and what `Utf8Check` echoes from `Start` on are together the text. Output
  then moves `Start` by `processed`, which is one round of `EchoFrom` (`RestShown`).
  `Text` is defined on a block with zeros behind its end; that these bytes make no
  difference as long as nothing is read there is `ProcessedSame`.
* `AddressInv`. `Used` counts bytes regrouped, `Made` groups made, `Sent` groups fed.
  While bytes come, `5 * Made + buffer_bits = 8 * Used` and the register is what the
  last byte has left (`Going`); behind the end nothing is left (`Done`). `ReadPart`
  puts the bytes on their way at their place in the payload, `GroupPart` the
  groups in `data`, `TextPart` says how much of the text is fed. `SumPart`
  says that `chk` is the checksum of the values summed so far, the hrp twice, the groups, the
  zeros. A byte adds one group or two, which `GroupTaken`
  and `ByteMakes` compare with `Group`, the five bits at their place in the payload;
  `LastGroup` is the flush, with zeros behind the last byte.

One lemma per action keeps the invariant and shows the step to be one of
`Delivery` or a stutter. `StreamsProofs` has what is said of all lengths: the
checksum of a text is that of its beginning and one step more (`PolymodTakes`), and
a payload cut in pieces has the bytes of each at its place (`FlattenIs`).

`ReaderProofs` uses that: with `Delivery`, an answer is right (`Answered`), so what
remains is about the texts and not about the steps.

* `StreamsCheckUnicode` proves `ChecksUnicode`, if `SeqLen` and `Legal` are the bit
  tests of `Utf8Shape` (`Utf8Tests`), for buffers of every length. `CharacterIs` is
  about one sequence: the tests on its bytes hold just when it is the one form of a
  code point that is neither a surrogate nor U+FFFE or U+FFFF nor beyond
  U+10FFFF, which is arithmetic by cases on its length. A sequence has the length its
  first byte announces, so a text has one decomposition; along it a scan keeps what
  is a text (`ScanKeeps`), whichever ends the buffer has, and where a round is
  rejected no character begins (`RejectedNoText`): not because of its bytes, nor
  because the window ends there.
* `AddressesReadBack` proves `AddressReadsBack`. The step of the checksum is linear
  (`StepSum`) and shifts what has none of the upper five bits (`StepShifts`). The six
  symbols, read from the sum with zeros in their place, shift themselves through the
  register until they are the sum they were read from (`LowPartGrows`), and what is
  left of the two is the constant (`ChecksumCancels`). The characters of the charset
  differ (`CharsetDiffers`), so the reader gets the symbols, and all but the last
  six are the groups of the payload.

### The compacter

`CompacterProofs` proves, for all files, names, orders and stack depths:
`CompacterTypeCorrect`, `PackedStandsAlone`, `BuiltinsStay` (invariants) and
`CompacterImplements`, that `Spec` implements `Compaction`. They use the
assumptions in `Declarations` and `Compacter` only.

`IInv` follows the phases. `MergedSoFar`: `combined` holds the last declaration of
every name among those seen. `FilesChecked`: what was merged passed the checks.
`Searched`: all that is used is reachable; the frames are a chain from the
top-level type (`StackIsChain`), which is the reason given when the stack
overflows; and a used type is explored or has a frame whose passed children are
used (`UsedExplored`). With an empty stack the used set is closed and hence
contains all that is reachable (`ReachableLeast`). `Selected` and `Written` carry
that over `Retain` and `Pack`. The step simulation (`Simulates`) is then one case
per action.

`MergingKeepsGood` proves `GoodFilesMerge` if the names are finitely many, as those
of the files of one run are. That
every type is declared follows from `MergedSoFar`. That the search ends needs a
measure: in a good file a type is higher than what it refers to (`Heights`), but
the merged declarations mix files and their heights. A child is declared in the
file that has the last declaration of its parent (`ChildDeclared`), so its own last
declaration is in that file or a later one; the pair of last file and descending
height grows along the stack (`Below`). Hence the frames are of distinct types
(`ChainDistinct`), and the stack is no deeper than there are names besides `byte`;
a stack that has no room for that many is exempt in the property.

### Induction

The library states induction with an operator for a parameter, which the provers
cannot instantiate. `RecursionLemmas` states it about sets instead: a non-empty set
of numbers has a least one (`LeastNumber`), hence `Induction` and
`StrongInduction`; and a function whose definition asks only for itself at smaller
measures is what it is defined to be (`RecursionDefined`, over
`WellFoundedInduction`). Folds are such functions. So what the models
compute by recursive functions and folds can be proved about for all inputs.
RECURSIVE operators cannot; where the models have one, in the generated code, TLC
has the last word.

**Only model-checked:**

* `AcceptsValid` and `DeliversPayload`: the converse of `Sound` and the
  order in which bytes are shown, which need the walk compared with the value
  step by step and not only on return;
* what `MoleculeCode` and `DataGenerators` say of the generated code, and
  `PackedReadsBack`, which rests on it: `GeneratedCode` recurses over the types with
  RECURSIVE operators, which tlapm does not take;
* `Terminates`, `ComparisonsEnd`, `Returns` and `Finishes` (liveness).

## Plan

What could be added, in this order:

1. `DeliversPayload` as a theorem: `FrameGood` with the payload of the children that
   were passed, for data without a sequence across the end of a buffer.
2. `AcceptsValid`: that no check of a visitor fails on a window that `Verify` accepts,
   for schemas whose arrays fill what they are given.
3. `GeneratedCode` with recursive functions over the types, as `MoleculeRules` has
   them, and then `OneEncoding` for one type at a time.
4. Larger instances of `compact` (four types in three files) once the check's
   time allows.

## Not modelled

* The wording of the text: names, punctuation, number formats, hex digits.
* Display and hex output of generated entities, their conversions to and from
  Rust arrays and slices, iterators and size hints: pure functions of the bytes
  that are modelled.
* The fixed-width `convert_to_*` readers of `molecule2_reader.h` except
  `convert_to_Uint64`, and `make_*` and vtables of `mol2_definitions.h`: they wrap
  a cursor or read a number.
* Data sources other than memory; the repository has none.
* The random numbers of the generators: arguments of the model.
* The callers `test_main.c` and `test_rv64.c`, the command line, file handling,
  the JSON parser, CI.
