------------------------------ MODULE Compacter ------------------------------
(***************************************************************************)
(* crates/molecule-schema-compacter: main, and the search for used types   *)
(* in schemas/mod.rs.  The recursion of rec_decl_child_types is a stack of *)
(* the declarations it is in and the child each comes to next.  Every      *)
(* failure is a panic: nothing is written then.                            *)
(***************************************************************************)
EXTENDS Declarations, FiniteSets

CONSTANTS
  Inputs,    \* arguments of a run
  Rank,      \* Rank[n]: the place of name n in the order of strings
  MaxDepth   \* nested calls that fit the program's stack

ASSUME InputsAssumption == Inputs \subseteq Arguments
ASSUME MaxDepthAssumption == MaxDepth \in Nat \ {0}

VARIABLES
  args,      \* input files and top-level type
  pc,        \* "check" and "insert" a file, "search", "retain", "pack", ...
  at,        \* place of the next declaration, <<file, index>>
  combined,  \* combined_top_decls
  stack,     \* frames of rec_decl_child_types
  used,      \* its result
  packed     \* the declarations of the written schema

vars == <<args, pc, at, combined, stack, used, packed>>

Frame == [name : Names, i : Nat \ {0}]
Phases == {"check", "insert", "search", "retain", "pack", "done", "panic"}

CurrentFile == args.files[at[1]]
AllMerged == at[1] > Len(args.files)
-----------------------------------------------------------------------------
Init ==
  /\ args \in Inputs
  /\ pc = "check" /\ at = <<1, 1>>
  /\ combined = [n \in {} |-> 0]
  /\ stack = <<>> /\ used = {} /\ packed = <<>>

\* Read a file: its version and its declarations of builtins.
CheckFile ==
  /\ pc = "check" /\ ~AllMerged
  /\ pc' = IF WrongVersion(CurrentFile) \/ RedeclaresBuiltin(CurrentFile)
           THEN "panic" ELSE "insert"
  /\ UNCHANGED <<args, at, combined, stack, used, packed>>

InsertedOnce(map, d) ==
  [n \in DOMAIN map \cup {d.name} |-> IF n \in DOMAIN map THEN map[n] ELSE d]

Inserted(map, d) ==
  [n \in DOMAIN map \cup {d.name} |-> IF n = d.name THEN d ELSE map[n]]

\* combined_top_decls.extend, one declaration.
InsertDecl ==
  /\ pc = "insert" /\ at[2] <= Len(CurrentFile.decls)
  /\ combined' = Inserted(combined, CurrentFile.decls[at[2]])
  /\ at' = <<at[1], at[2] + 1>>
  /\ UNCHANGED <<args, pc, stack, used, packed>>

NextFileFromZero ==
  /\ pc = "insert" /\ at[2] > Len(CurrentFile.decls)
  /\ pc' = "check" /\ at' = <<at[1] + 1, 0>>
  /\ UNCHANGED <<args, combined, stack, used, packed>>

NextFile ==
  /\ pc = "insert" /\ at[2] > Len(CurrentFile.decls)
  /\ pc' = "check" /\ at' = <<at[1] + 1, 1>>
  /\ UNCHANGED <<args, combined, stack, used, packed>>

EnterByte(n, frames) ==
  /\ used' = used \cup {n}
  /\ IF n \notin DOMAIN combined \/ Len(frames) = MaxDepth
     THEN stack' = frames /\ pc' = "panic"
     ELSE stack' = Append(frames, [name |-> n, i |-> 1]) /\ pc' = "search"

\* A call of rec_decl_child_types for n, up to its loop or its return.
Enter(n, frames) ==
  /\ used' = used \cup {n}
  /\ IF n = "byte" THEN stack' = frames /\ pc' = "search"
     ELSE IF n \notin DOMAIN combined \/ Len(frames) = MaxDepth
          THEN stack' = frames /\ pc' = "panic"
          ELSE stack' = Append(frames, [name |-> n, i |-> 1]) /\ pc' = "search"

\* The top-level type exists: decl_child_types.
StartSearch ==
  /\ pc = "check" /\ AllMerged
  /\ IF args.top \notin DOMAIN combined THEN pc' = "panic" /\ UNCHANGED <<stack, used>>
     ELSE Enter(args.top, <<>>)
  /\ UNCHANGED <<args, at, combined, packed>>

Top == stack[Len(stack)]
RefsButLast(frame) ==
  SubSeq(combined[frame.name].refs, 1, Len(combined[frame.name].refs) - 1)
Refs(frame) == combined[frame.name].refs

AdvancedNot == stack
Advanced == [stack EXCEPT ![Len(stack)].i = @ + 1]

\* The next child of the declaration on top, whether seen before or not.
Descend ==
  /\ pc = "search" /\ stack # <<>> /\ Top.i <= Len(Refs(Top))
  /\ Enter(Refs(Top)[Top.i], Advanced)
  /\ UNCHANGED <<args, at, combined, packed>>

Return ==
  /\ pc = "search" /\ stack # <<>> /\ Top.i > Len(Refs(Top))
  /\ stack' = SubSeq(stack, 1, Len(stack) - 1)
  /\ UNCHANGED <<args, pc, at, combined, used, packed>>

EndSearch ==
  /\ pc = "search" /\ stack = <<>> /\ pc' = "retain"
  /\ UNCHANGED <<args, at, combined, stack, used, packed>>

Retain ==
  /\ pc = "retain" /\ pc' = "pack"
  /\ combined' = [n \in DOMAIN combined \cap used |-> combined[n]]
  /\ UNCHANGED <<args, at, stack, used, packed>>

\* sorted_top_decls: all names, each before the greater ones.
Orders(S) ==
  {names \in [1 .. Cardinality(S) -> S] :
     /\ \A n \in S : \E k \in DOMAIN names : names[k] = n
     /\ \A j, k \in DOMAIN names : j < k => Rank[names[j]] < Rank[names[k]]}

Pack ==
  /\ pc = "pack" /\ pc' = "done"
  /\ \E names \in Orders(DOMAIN combined) :
       packed' = [k \in DOMAIN names |-> combined[names[k]]]
  /\ UNCHANGED <<args, at, combined, stack, used>>

Next ==
  \/ CheckFile \/ InsertDecl \/ NextFile \/ StartSearch
  \/ Descend \/ Return \/ EndSearch \/ Retain \/ Pack

Spec == Init /\ [][Next]_vars

\* One thread that waits for nothing.
FairSpec == Spec /\ WF_vars(Next)
-----------------------------------------------------------------------------
CompacterTypeOK ==
  /\ args \in Arguments
  /\ pc \in Phases
  /\ at \in (Nat \ {0}) \X (Nat \ {0})
  /\ combined \in [DOMAIN combined -> TopDecl] /\ DOMAIN combined \subseteq Names
  /\ \A n \in DOMAIN combined : combined[n].name = n
  /\ stack \in Seq(Frame) /\ Len(stack) <= MaxDepth
  /\ used \subseteq Names
  /\ packed \in Seq(TopDecl)

Verdict == CASE pc = "done" -> "packed" [] pc = "panic" -> "refused" [] OTHER -> "pending"

Abs == INSTANCE Compaction WITH verdict <- Verdict, schema <- packed

(***************************************************************************)
(* The program implements Compaction: what it writes is exactly the        *)
(* declarations reachable from the top-level type, each once, sorted, and  *)
(* it panics only for a reason.  The search through partly merged,         *)
(* repeatedly visited declarations cannot be observed.                     *)
(***************************************************************************)
Implements == Abs!Spec

(***************************************************************************)
(* A packed schema stands alone: it declares its top-level type and every  *)
(* type that one of its declarations names, which is what keeps mdp_visit  *)
(* from looking up a name that is not there.                               *)
(***************************************************************************)
PackedClosed ==
  pc = "done" =>
    /\ \E k \in DOMAIN packed : packed[k].name = args.top
    /\ \A k \in DOMAIN packed : packed[k].name # "byte" =>
         \A r \in DOMAIN packed[k].refs :
           \/ packed[k].refs[r] = "byte"
           \/ \E j \in DOMAIN packed : packed[j].name = packed[k].refs[r]

(***************************************************************************)
(* A type that the visitor treats as built in means in the packed schema   *)
(* what schemas/builtins.json says, whatever the files declare.            *)
(***************************************************************************)
BuiltinsKept ==
  \A k \in DOMAIN packed : \A b \in Builtins : b.name = packed[k].name => b = packed[k]

\* Declarations of one file that use only each other, in ranks that descend.
SelfContained(file) ==
  \E height \in [Names -> 0 .. MaxDepth - 1] :
    \A k \in DOMAIN file.decls : \A r \in DOMAIN file.decls[k].refs :
      \/ file.decls[k].refs[r] = "byte"
      \/ /\ height[file.decls[k].refs[r]] < height[file.decls[k].name]
         /\ \E j \in DOMAIN file.decls : file.decls[j].name = file.decls[k].refs[r]

(***************************************************************************)
(* Files that are fine one by one are fine together, in any order and      *)
(* even if they disagree about a name: merging never leaves a type         *)
(* undeclared and never closes a cycle for the search to run into.         *)
(***************************************************************************)
GoodFilesMerge ==
  pc = "panic" =>
    \/ BadFile(args)
    \/ Cardinality(Names) - 1 > MaxDepth
    \/ \A k \in DOMAIN args.files : \A j \in DOMAIN args.files[k].decls :
         args.files[k].decls[j].name # args.top
    \/ \E k \in DOMAIN args.files : ~SelfContained(args.files[k])

(***************************************************************************)
(* The search has no visited test; it ends all the same, on cyclic schemas *)
(* by exhausting the stack.                                                *)
(***************************************************************************)
Finishes == <>(pc \in {"done", "panic"})
=============================================================================
