----------------------------- MODULE MCCompacter -----------------------------
(***************************************************************************)
(* Small schema files for the compacter: every way in which up to three    *)
(* types may use each other, in one file or in two that may disagree, and  *)
(* files that redeclare a builtin, declare a name twice or cannot be read. *)
(* Declarations come in every kind.  What is written goes through the      *)
(* builders, in bytes of radix 8, and the accessors of the visitor.        *)
(***************************************************************************)
EXTENDS CompactSchema, TLC

DefinitionsRs == INSTANCE DefinitionsCode
CheckedInCode == [definitions |-> DefinitionsRs!Types]

MCNames == {"byte", "A", "B", "C", "Byte32"}
MCRank == [n \in MCNames |->
             CASE n = "A" -> 1 [] n = "B" -> 2 [] n = "Byte32" -> 3
               [] n = "C" -> 4 [] n = "byte" -> 5]
MCText == [A |-> <<1>>, B |-> <<2>>, C |-> <<1, 3>>, Byte32 |-> <<2, 3, 2>>, byte |-> <<4>>,
           first |-> <<5>>, second |-> <<>>, third |-> <<5, 6>>]

\* A declaration of some kind that can name these types.
KindOf(name, refs) ==
  IF Len(refs) = 1
  THEN CASE name = "A" -> "dynvec" [] name = "B" -> "option"
         [] name = "C" -> "fixvec" [] OTHER -> "array"
  ELSE CASE name = "B" -> "union" [] name = "C" -> "struct" [] OTHER -> "table"

MoreOf(kind, refs) ==
  LET upto(s) == SubSeq(s, 1, Len(refs))
  IN  [kind |-> kind,
       fields |-> IF kind \in {"struct", "table"} THEN upto(<<"first", "second", "third">>) ELSE <<>>,
       ids |-> IF kind = "union" THEN upto(<<600, 0, 7>>) ELSE <<>>,
       count |-> IF kind = "array" THEN 32 ELSE 0]

Decl(name, refs) == [name |-> name, refs |-> refs, more |-> MoreOf(KindOf(name, refs), refs)]
Byte32 == Decl("Byte32", <<"byte">>)
MCBuiltins == {Byte32}

Schema(decls) == [version |-> 1, decls |-> decls]

Uses == {<<>>, <<"A">>, <<"B">>, <<"C", "B">>, <<"byte", "C">>}

\* Each name is declared in some way or not at all.
Maybe(name, uses) == {<<>>} \cup {<<Decl(name, refs)>> : refs \in uses}
FilesOf(first, second, third, uses) ==
  {Schema(a \o b \o c) :
     a \in Maybe(first, uses), b \in Maybe(second, uses), c \in IF third = "" THEN {<<>>} ELSE Maybe(third, uses)}
Few == {<<"A">>, <<"B", "C">>, <<"C">>}

Wide == {Decl("A", refs) : refs \in {<<"Byte32", "B">>, <<"B", "Byte32">>}}
OddFiles ==
  {Schema(<<d, Decl("B", <<"byte">>), b>>) : d \in Wide,
     b \in {Byte32, [Byte32 EXCEPT !.more.count = 33], Decl("Byte32", <<"B">>)}} \cup
  {Schema(<<Decl("B", <<"A">>), Decl("B", <<"byte">>), d, Byte32>>) : d \in Wide} \cup
  {[version |-> v, decls |-> <<Decl("A", <<"byte">>)>>] : v \in {0, 2}} \cup
  {Schema(<<>>)}

MCInputs ==
  {[files |-> files, top |-> "A"] :
     files \in {<<f>> : f \in FilesOf("A", "B", "C", Uses)} \cup
               {<<f, g>> : f \in FilesOf("A", "B", "", Few), g \in FilesOf("C", "B", "", Few)} \cup
               {<<f, g>> : f \in OddFiles, g \in OddFiles} \cup
               {<<f>> : f \in OddFiles}}

MCMore ==
  {d.more : d \in UNION {ToSet(f.decls) : f \in UNION {ToSet(a.files) : a \in MCInputs}}}
=============================================================================
