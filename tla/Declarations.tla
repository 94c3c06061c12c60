---------------------------- MODULE Declarations ----------------------------
(***************************************************************************)
(* Input files of the schema compacter and what their declarations mean    *)
(* together.  A file is a molecule schema in JSON form: a syntax version   *)
(* and a list of declarations (ir::Ir of the external molecule_codegen).   *)
(***************************************************************************)
EXTENDS Integers, Sequences

CONSTANTS
  Names,     \* names of types, "byte" among them
  More,      \* what a declaration says besides the types it names
  Builtins   \* the declarations in schemas/builtins.json

EXPECTED_SYNTAX_VERSION == 1

\* ir::TopDecl: its name and the types of its item, items or fields.
TopDecl == [name : Names, refs : Seq(Names), more : More]

\* A file that cannot be read or parsed has the version 0.
File == [version : Nat, decls : Seq(TopDecl)]
Arguments == [files : Seq(File), top : Names]

ASSUME NamesAssumption == "byte" \in Names
ASSUME BuiltinsAssumption == Builtins \subseteq TopDecl
-----------------------------------------------------------------------------
\* The places of declarations, in the order in which the files are merged.
Places(files) == UNION {{i} \X DOMAIN files[i].decls : i \in DOMAIN files}
DeclAt(files, p) == files[p[1]].decls[p[2]]
Upto(p, q) == p[1] < q[1] \/ (p[1] = q[1] /\ p[2] <= q[2])

\* d is the last declaration of its name.
Latest(files, d) ==
  \E p \in Places(files) :
    /\ DeclAt(files, p) = d
    /\ \A q \in Places(files) : DeclAt(files, q).name = d.name => Upto(q, p)

Merged(files) == {d \in {DeclAt(files, p) : p \in Places(files)} : Latest(files, d)}

Declared(files, n) == \E d \in Merged(files) : d.name = n

\* The types a type is made of.  byte is never looked up.
Children(files, n) ==
  {m \in Names : n # "byte"
                  /\ \E d \in Merged(files) : d.name = n /\ \E k \in DOMAIN d.refs : d.refs[k] = m}

Closed(files, S) == \A n \in S : Children(files, n) \subseteq S

\* The types reachable from the top-level type.
Reachable(files, top) ==
  {n \in Names : \A S \in SUBSET Names : top \in S /\ Closed(files, S) => n \in S}
-----------------------------------------------------------------------------
(* Reasons for which arguments cannot be compacted. *)

WrongVersion(file) == file.version # EXPECTED_SYNTAX_VERSION

RedeclaresBuiltinFirst(file) ==
  \E b \in Builtins : file.decls # <<>> /\ b.name = file.decls[1].name /\ b # file.decls[1]

RedeclaresBuiltin(file) ==
  \E k \in DOMAIN file.decls :
    \E b \in Builtins : b.name = file.decls[k].name /\ b # file.decls[k]

BadFile(args) ==
  \E k \in DOMAIN args.files :
    WrongVersion(args.files[k]) \/ RedeclaresBuiltin(args.files[k])

Undeclared(args) ==
  \E n \in Reachable(args.files, args.top) :
    ~Declared(args.files, n) /\ (n = args.top \/ n # "byte")

\* A chain of types from the top-level type on, each made of the next.
Chain(args, length) ==
  \E names \in [1 .. length -> Names] :
    /\ names[1] = args.top
    /\ \A k \in 1 .. length - 1 : names[k + 1] \in Children(args.files, names[k])
=============================================================================
