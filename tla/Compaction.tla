----------------------------- MODULE Compaction -----------------------------
(***************************************************************************)
(* What molecule-schema-compacter is for: it takes schema files and the    *)
(* name of a top-level type and delivers, in one step, the declarations    *)
(* this type needs, each once, in the order of their names.  A name        *)
(* declared more than once has its last meaning.                           *)
(***************************************************************************)
EXTENDS Declarations

CONSTANTS
  Inputs,    \* arguments of a run
  Rank,      \* Rank[n]: the place of name n in the order of strings
  MaxDepth   \* nested calls that fit the program's stack

VARIABLES args, verdict, schema

Needed(a) ==
  {d \in Merged(a.files) : d.name \in Reachable(a.files, a.top)}

\* list has the members of S, in the order of their names.
Lists(list, S) ==
  /\ {list[k] : k \in DOMAIN list} = S
  /\ \A j, k \in DOMAIN list : j < k => Rank[list[j].name] < Rank[list[k].name]

Init == args \in Inputs /\ verdict = "pending" /\ schema = <<>>

Deliver ==
  /\ verdict = "pending" /\ verdict' = "packed"
  /\ ~BadFile(args) /\ ~Undeclared(args)
  /\ Lists(schema', Needed(args))
  /\ UNCHANGED args

\* Types that nest too deep, cyclic ones above all, end the search as well.
Refuse ==
  /\ verdict = "pending" /\ verdict' = "refused"
  /\ BadFile(args) \/ Undeclared(args) \/ Chain(args, MaxDepth + 1)
  /\ UNCHANGED <<args, schema>>

Next == Deliver \/ Refuse

Spec == Init /\ [][Next]_<<args, verdict, schema>>
=============================================================================
