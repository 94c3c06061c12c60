--------------------------- MODULE CompacterProofs ---------------------------
(***************************************************************************)
(* Theorems about Compacter, for all files, names and stack sizes.         *)
(***************************************************************************)
EXTENDS Compacter, FiniteSetTheorems, RecursionLemmas, TLAPS

(* The declarations that have been inserted so far. *)
Seen ==
  {p \in Places(args.files) : p[1] < at[1] \/ (p[1] = at[1] /\ p[2] < at[2])}

CombinesSeen ==
  /\ \A p \in Seen : DeclAt(args.files, p).name \in DOMAIN combined
  /\ \A n \in DOMAIN combined :
       \E p \in Seen :
         /\ DeclAt(args.files, p) = combined[n]
         /\ \A q \in Seen : DeclAt(args.files, q).name = n => Upto(q, p)

Position ==
  /\ pc = "check" => at[1] <= Len(args.files) + 1 /\ at[2] = 1
  /\ pc = "insert" => at[1] <= Len(args.files) /\ at[2] <= Len(CurrentFile.decls) + 1
  /\ pc \in {"search", "retain", "pack", "done"} => AllMerged

MergedSoFar == pc \in {"check", "insert", "search", "retain"} => CombinesSeen

FilesChecked ==
  \A k \in DOMAIN args.files :
    k < at[1] \/ (k = at[1] /\ pc = "insert") =>
      ~WrongVersion(args.files[k]) /\ ~RedeclaresBuiltin(args.files[k])

\* The children of n that its frame has passed are used.
Passed(frame, n) ==
  frame.name = n /\ \A r \in 1 .. frame.i - 1 : combined[n].refs[r] \in used

FramesFit ==
  \A k \in DOMAIN stack :
    /\ stack[k].name \in used \ {"byte"}
    /\ stack[k].i <= Len(Refs(stack[k])) + 1

StackIsChain ==
  /\ stack # <<>> => stack[1].name = args.top
  /\ \A k \in 1 .. Len(stack) - 1 :
       stack[k + 1].name \in Children(args.files, stack[k].name)

UsedExplored ==
  \A n \in used \ {"byte"} :
    \/ Children(args.files, n) \subseteq used
    \/ \E k \in DOMAIN stack : Passed(stack[k], n)

\* The search starts from nothing.
Fresh == pc \in {"check", "insert"} => used = {} /\ stack = <<>>

Searched ==
  pc \in {"search", "retain"} =>
    /\ args.top \in used /\ args.top \in DOMAIN combined
    /\ used \subseteq Reachable(args.files, args.top)
    /\ used \ {"byte"} \subseteq DOMAIN combined
    /\ FramesFit /\ StackIsChain /\ UsedExplored
    /\ pc = "retain" => stack = <<>>

Needed == {d \in Merged(args.files) : d.name \in Reachable(args.files, args.top)}

Selected ==
  pc = "pack" =>
    /\ Needed = {combined[n] : n \in DOMAIN combined}
    /\ ~Undeclared(args)

Written ==
  pc = "done" =>
    /\ {packed[k] : k \in DOMAIN packed} = Needed
    /\ ~Undeclared(args)

Unwritten == pc # "done" => packed = <<>>

FinitelyMany == IsFiniteSet(DOMAIN combined)

IInv ==
  /\ FinitelyMany /\ CompacterTypeOK /\ Position /\ MergedSoFar /\ FilesChecked
  /\ Fresh /\ Searched /\ Selected /\ Written /\ Unwritten
-----------------------------------------------------------------------------
(* Files and the meaning of their declarations. *)

\* Declarations of well-formed files are well-formed.
LEMMA DeclaredType ==
  ASSUME NEW files \in Seq(File), NEW p \in Places(files)
  PROVE  /\ p[1] \in DOMAIN files /\ p[2] \in DOMAIN files[p[1]].decls
         /\ p \in (Nat \ {0}) \X (Nat \ {0})
         /\ DeclAt(files, p) \in TopDecl
<1>1. PICK i \in DOMAIN files : p \in {i} \X DOMAIN files[i].decls
  BY DEF Places
<1>2. files[i] \in File
  OBVIOUS
<1>3. files[i].decls \in Seq(TopDecl)
  BY <1>2 DEF File
<1>4. p[1] = i /\ p[2] \in DOMAIN files[i].decls /\ p = <<p[1], p[2]>>
  BY <1>1
<1> QED
  BY <1>3, <1>4 DEF DeclAt

LEMMA PlaceOf ==
  ASSUME NEW files, NEW i \in DOMAIN files, NEW k \in DOMAIN files[i].decls
  PROVE  <<i, k>> \in Places(files)
  BY DEF Places

\* Places are totally ordered.
LEMMA UptoTotal ==
  ASSUME NEW p \in (Nat \ {0}) \X (Nat \ {0}), NEW q \in (Nat \ {0}) \X (Nat \ {0})
  PROVE  /\ Upto(p, q) \/ Upto(q, p)
         /\ Upto(p, q) /\ Upto(q, p) => p = q
  BY DEF Upto

\* A name has at most one meaning in the merged files.
LEMMA LatestUnique ==
  ASSUME NEW files \in Seq(File), NEW d \in Merged(files), NEW e \in Merged(files),
         d.name = e.name
  PROVE  d = e
<1>1. PICK p \in Places(files) :
        /\ DeclAt(files, p) = d
        /\ \A r \in Places(files) : DeclAt(files, r).name = d.name => Upto(r, p)
  BY DEF Merged, Latest
<1>2. PICK q \in Places(files) :
        /\ DeclAt(files, q) = e
        /\ \A r \in Places(files) : DeclAt(files, r).name = e.name => Upto(r, q)
  BY DEF Merged, Latest
<1>3. Upto(p, q) /\ Upto(q, p)
  BY <1>1, <1>2
<1>4. p = q
  BY <1>3, DeclaredType, UptoTotal
<1> QED
  BY <1>1, <1>2, <1>4

\* Reachable types: the top-level type, and the children of each.
LEMMA ReachableTop ==
  ASSUME NEW files, NEW top \in Names
  PROVE  top \in Reachable(files, top)
  BY DEF Reachable

LEMMA ReachableStep ==
  ASSUME NEW files, NEW top, NEW n \in Reachable(files, top)
  PROVE  Children(files, n) \subseteq Reachable(files, top)
<1> SUFFICES ASSUME NEW m \in Children(files, n) PROVE m \in Reachable(files, top)
  OBVIOUS
<1>1. m \in Names
  BY DEF Children
<1>2. ASSUME NEW S \in SUBSET Names, top \in S, Closed(files, S) PROVE m \in S
  <2>1. n \in S
    BY <1>2 DEF Reachable
  <2> QED
    BY <2>1, <1>2 DEF Closed
<1> QED
  BY <1>1, <1>2 DEF Reachable

LEMMA ReachableLeast ==
  ASSUME NEW files, NEW top, NEW S \in SUBSET Names, top \in S, Closed(files, S)
  PROVE  Reachable(files, top) \subseteq S
  BY DEF Reachable
-----------------------------------------------------------------------------
(* What combined is once all files are merged. *)

LEMMA AllSeen ==
  ASSUME CompacterTypeOK, AllMerged
  PROVE  Seen = Places(args.files)
<1>1. args.files \in Seq(File) /\ at[1] \in Nat
  BY DEF CompacterTypeOK, Arguments
<1>2. \A p \in Places(args.files) : p[1] \in 1 .. Len(args.files)
  BY <1>1, DeclaredType
<1> QED
  BY <1>1, <1>2 DEF Seen, AllMerged

LEMMA WholeMerged ==
  ASSUME CompacterTypeOK, AllMerged, CombinesSeen
  PROVE  Merged(args.files) = {combined[n] : n \in DOMAIN combined}
<1>1. args.files \in Seq(File) /\ Seen = Places(args.files)
  BY AllSeen DEF CompacterTypeOK, Arguments
<1>2. \A n \in DOMAIN combined : combined[n].name = n
  BY DEF CompacterTypeOK
<1>3. ASSUME NEW n \in DOMAIN combined PROVE combined[n] \in Merged(args.files)
  <2>1. PICK p \in Places(args.files) :
          /\ DeclAt(args.files, p) = combined[n]
          /\ \A q \in Places(args.files) : DeclAt(args.files, q).name = n => Upto(q, p)
    BY <1>1 DEF CombinesSeen
  <2> QED
    BY <2>1, <1>2 DEF Merged, Latest
<1>4. ASSUME NEW d \in Merged(args.files) PROVE \E n \in DOMAIN combined : d = combined[n]
  <2>1. PICK p \in Places(args.files) : DeclAt(args.files, p) = d
    BY <1>4 DEF Merged
  <2>2. d.name \in DOMAIN combined
    BY <2>1, <1>1 DEF CombinesSeen
  <2>3. combined[d.name] \in Merged(args.files) /\ combined[d.name].name = d.name
    BY <2>2, <1>2, <1>3
  <2> QED
    BY <2>2, <2>3, <1>1, LatestUnique
<1> QED
  BY <1>3, <1>4

LEMMA WholeDeclared ==
  ASSUME CompacterTypeOK, AllMerged, CombinesSeen, NEW n
  PROVE  Declared(args.files, n) <=> n \in DOMAIN combined
  BY WholeMerged DEF Declared, CompacterTypeOK

LEMMA WholeChildren ==
  ASSUME CompacterTypeOK, AllMerged, CombinesSeen, NEW n \in DOMAIN combined, n # "byte"
  PROVE  Children(args.files, n) = {combined[n].refs[k] : k \in DOMAIN combined[n].refs}
<1>1. combined[n] \in TopDecl /\ combined[n].name = n
  BY DEF CompacterTypeOK
<1>2. \A d \in Merged(args.files) : d.name = n => d = combined[n]
  BY WholeMerged DEF CompacterTypeOK
<1>3. combined[n] \in Merged(args.files)
  BY WholeMerged
<1>4. combined[n].refs \in Seq(Names)
  BY <1>1 DEF TopDecl
<1> QED
  BY <1>1, <1>2, <1>3, <1>4 DEF Children
-----------------------------------------------------------------------------
(* The initial states, and type correctness. *)

LEMMA InitInv == Init => IInv
<1> SUFFICES ASSUME Init PROVE IInv
  OBVIOUS
<1>1. args \in Arguments
  BY InputsAssumption DEF Init
<1>2. args.files \in Seq(File) /\ args.top \in Names
  BY <1>1 DEF Arguments
<1>3. CompacterTypeOK
  BY <1>1, MaxDepthAssumption DEF Init, CompacterTypeOK, Phases
<1>4. Seen = {}
  BY <1>2, DeclaredType DEF Init, Seen
<1>5. MergedSoFar
  BY <1>4 DEF MergedSoFar, CombinesSeen, Init
<1>6. Position /\ FilesChecked /\ FinitelyMany
  BY <1>2, FS_EmptySet DEF Init, Position, FilesChecked, FinitelyMany
<1>7. Fresh /\ Searched /\ Selected /\ Written /\ Unwritten
  BY DEF Init, Fresh, Searched, Selected, Written, Unwritten
<1> QED
  BY <1>3, <1>5, <1>6, <1>7 DEF IInv

\* Entering a type keeps the types of what it changes.
LEMMA EnterType ==
  ASSUME NEW n \in Names, NEW frames \in Seq(Frame), Len(frames) <= MaxDepth,
         used \subseteq Names, Enter(n, frames)
  PROVE  /\ used' \subseteq Names
         /\ pc' \in Phases
         /\ stack' \in Seq(Frame) /\ Len(stack') <= MaxDepth
<1>1. [name |-> n, i |-> 1] \in Frame
  BY DEF Frame
<1>2. MaxDepth \in Nat /\ Len(frames) \in Nat
  BY MaxDepthAssumption
<1>3. CASE Len(frames) # MaxDepth /\ stack' = Append(frames, [name |-> n, i |-> 1])
  <2>1. stack' \in Seq(Frame) /\ Len(stack') = Len(frames) + 1
    BY <1>1, <1>3
  <2>2. Len(frames) + 1 <= MaxDepth
    BY <1>2, <1>3
  <2> QED
    BY <2>1, <2>2 DEF Enter, Phases
<1>4. CASE stack' = frames
  BY <1>4 DEF Enter, Phases
<1> QED
  BY <1>3, <1>4 DEF Enter

LEMMA CurrentDecl ==
  ASSUME CompacterTypeOK, Position, pc = "insert", at[2] <= Len(CurrentFile.decls)
  PROVE  /\ at[1] \in DOMAIN args.files /\ at[2] \in DOMAIN CurrentFile.decls
         /\ CurrentFile.decls[at[2]] \in TopDecl
         /\ at \in Places(args.files)
         /\ DeclAt(args.files, at) = CurrentFile.decls[at[2]]
<1>1. args.files \in Seq(File) /\ at[1] \in Nat \ {0} /\ at[2] \in Nat \ {0} /\ at = <<at[1], at[2]>>
  BY DEF CompacterTypeOK, Arguments
<1>2. at[1] \in DOMAIN args.files
  BY <1>1 DEF Position
<1>3. CurrentFile.decls \in Seq(TopDecl)
  <2>1. args.files[at[1]] \in File
    BY <1>1, <1>2
  <2> QED
    BY <2>1 DEF CurrentFile, File
<1>4. at[2] \in DOMAIN CurrentFile.decls
  BY <1>1, <1>3
<1> QED
  BY <1>1, <1>2, <1>3, <1>4, PlaceOf DEF DeclAt, CurrentFile

LEMMA TopFrame ==
  ASSUME CompacterTypeOK, Searched, pc = "search", stack # <<>>
  PROVE  /\ Len(stack) \in 1 .. MaxDepth /\ Top \in Frame
         /\ Top.name \in used \ {"byte"} /\ Top.name \in DOMAIN combined
         /\ combined[Top.name].refs \in Seq(Names)
         /\ Advanced \in Seq(Frame) /\ Len(Advanced) = Len(stack)
<1>1. stack \in Seq(Frame) /\ Len(stack) \in 1 .. MaxDepth
  BY MaxDepthAssumption DEF CompacterTypeOK
<1>2. Top \in Frame
  BY <1>1 DEF Top
<1>3. Top.name \in used \ {"byte"} /\ Top.name \in DOMAIN combined
  BY <1>1 DEF Searched, FramesFit, Top
<1>4. combined[Top.name].refs \in Seq(Names)
  BY <1>3 DEF CompacterTypeOK, TopDecl
<1>5. Advanced \in Seq(Frame) /\ Len(Advanced) = Len(stack)
  BY <1>1, <1>2 DEF Advanced, Frame, Top
<1> QED
  BY <1>1, <1>2, <1>3, <1>4, <1>5

LEMMA TypeStep ==
  ASSUME IInv, [Next]_vars
  PROVE  CompacterTypeOK'
<1> USE DEF IInv
<1>0. /\ args \in Arguments /\ at \in (Nat \ {0}) \X (Nat \ {0})
      /\ args.files \in Seq(File) /\ args.top \in Names
  BY DEF CompacterTypeOK, Arguments
<1>1. CASE CheckFile
  BY <1>1 DEF CheckFile, CompacterTypeOK, Phases
<1>2. CASE InsertDecl
  <2>1. CurrentFile.decls[at[2]] \in TopDecl
    BY <1>2, CurrentDecl DEF InsertDecl
  <2>2. /\ combined' \in [DOMAIN combined' -> TopDecl] /\ DOMAIN combined' \subseteq Names
        /\ \A n \in DOMAIN combined' : combined'[n].name = n
    BY <2>1, <1>2 DEF InsertDecl, Inserted, CompacterTypeOK, TopDecl
  <2> QED
    BY <2>2, <1>0, <1>2 DEF InsertDecl, CompacterTypeOK
<1>3. CASE NextFile
  BY <1>0, <1>3 DEF NextFile, CompacterTypeOK, Phases
<1>4. CASE StartSearch
  <2>1. used' \subseteq Names /\ pc' \in Phases /\ stack' \in Seq(Frame) /\ Len(stack') <= MaxDepth
    <3>1. CASE args.top \notin DOMAIN combined
      BY <3>1, <1>4 DEF StartSearch, CompacterTypeOK, Phases
    <3>2. CASE args.top \in DOMAIN combined
      <4>1. <<>> \in Seq(Frame) /\ Len(<<>>) <= MaxDepth
        BY MaxDepthAssumption
      <4> HIDE DEF IInv
      <4>2. Enter(args.top, <<>>) /\ used \subseteq Names
        BY <3>2, <1>4 DEF StartSearch, IInv, CompacterTypeOK
      <4> QED
        BY <4>1, <4>2, <1>0, EnterType
    <3> QED
      BY <3>1, <3>2
  <2> QED
    BY <2>1, <1>4 DEF StartSearch, CompacterTypeOK
<1>5. CASE Descend
  <2>1. Refs(Top)[Top.i] \in Names
    BY <1>5, TopFrame DEF Descend, Refs, Frame
  <2>2. Advanced \in Seq(Frame) /\ Len(Advanced) <= MaxDepth /\ used \subseteq Names
    BY <1>5, TopFrame, MaxDepthAssumption DEF Descend, CompacterTypeOK
  <2>3. Enter(Refs(Top)[Top.i], Advanced)
    BY <1>5 DEF Descend
  <2>4. used' \subseteq Names /\ pc' \in Phases /\ stack' \in Seq(Frame) /\ Len(stack') <= MaxDepth
    BY <2>1, <2>2, <2>3, EnterType
  <2> QED
    BY <2>4, <1>5 DEF Descend, CompacterTypeOK
<1>6. CASE Return
  <2>1. stack' \in Seq(Frame) /\ Len(stack') <= MaxDepth
    BY <1>6, MaxDepthAssumption DEF Return, CompacterTypeOK
  <2> QED
    BY <2>1, <1>6 DEF Return, CompacterTypeOK
<1>7. CASE EndSearch
  BY <1>7 DEF EndSearch, CompacterTypeOK, Phases
<1>8. CASE Retain
  BY <1>8 DEF Retain, CompacterTypeOK, Phases
<1>9. CASE Pack
  <2>1. PICK names \in Orders(DOMAIN combined) : packed' = [k \in DOMAIN names |-> combined[names[k]]]
    BY <1>9 DEF Pack
  <2>2. names \in [1 .. Cardinality(DOMAIN combined) -> DOMAIN combined]
    BY DEF Orders
  <2>3. packed' \in Seq(TopDecl)
    <3>1. Cardinality(DOMAIN combined) \in Nat
      BY FS_CardinalityType DEF FinitelyMany
    <3>2. packed' \in [1 .. Cardinality(DOMAIN combined) -> TopDecl]
      BY <2>1, <2>2 DEF CompacterTypeOK
    <3> QED
      BY <3>1, <3>2
  <2> QED
    BY <2>3, <1>9 DEF Pack, CompacterTypeOK, Phases
<1>10. CASE UNCHANGED vars
  BY <1>10 DEF vars, CompacterTypeOK
<1> QED
  BY <1>1, <1>2, <1>3, <1>4, <1>5, <1>6, <1>7, <1>8, <1>9, <1>10 DEF Next

LEMMA FiniteStep ==
  ASSUME IInv, [Next]_vars
  PROVE  FinitelyMany'
<1>1. CASE InsertDecl
  <2>1. DOMAIN combined' = DOMAIN combined \cup {CurrentFile.decls[at[2]].name}
    BY <1>1 DEF InsertDecl, Inserted
  <2> QED
    BY <2>1, FS_AddElement DEF IInv, FinitelyMany
<1>2. CASE Retain
  <2>1. DOMAIN combined' \subseteq DOMAIN combined
    BY <1>2 DEF Retain
  <2> QED
    BY <2>1, FS_Subset DEF IInv, FinitelyMany
<1>3. CASE UNCHANGED combined
  BY <1>3 DEF IInv, FinitelyMany
<1> QED
  BY <1>1, <1>2, <1>3
  DEF Next, CheckFile, NextFile, StartSearch, Descend, Return, EndSearch, Pack, vars
-----------------------------------------------------------------------------
(* Merging. *)

LEMMA PositionStep ==
  ASSUME IInv, [Next]_vars
  PROVE  Position'
<1>0. args.files \in Seq(File) /\ at \in (Nat \ {0}) \X (Nat \ {0})
  BY DEF IInv, CompacterTypeOK, Arguments
<1>1. CASE CheckFile
  <2>1. at[1] \in DOMAIN args.files /\ at[1] <= Len(args.files)
    BY <1>0, <1>1 DEF CheckFile, AllMerged
  <2>2. CurrentFile.decls \in Seq(TopDecl)
    <3>1. args.files[at[1]] \in File
      BY <1>0, <2>1
    <3> QED
      BY <3>1 DEF CurrentFile, File
  <2> QED
    BY <1>0, <1>1, <2>1, <2>2 DEF CheckFile, AllMerged, Position, IInv, CurrentFile
<1>2. CASE InsertDecl
  <2>1. CurrentFile.decls \in Seq(TopDecl)
    <3>1. at[1] \in DOMAIN args.files
      BY <1>0, <1>2 DEF InsertDecl, IInv, Position
    <3>2. args.files[at[1]] \in File
      BY <1>0, <3>1
    <3> QED
      BY <3>2 DEF CurrentFile, File
  <2> QED
    BY <1>0, <1>2, <2>1 DEF InsertDecl, Position, IInv, CurrentFile
<1>3. CASE NextFile
  BY <1>0, <1>3 DEF NextFile, Position, IInv
<1>4. CASE StartSearch
  BY <1>0, <1>4 DEF StartSearch, Enter, Position, IInv, AllMerged
<1>5. CASE Descend
  BY <1>5 DEF Descend, Enter, Position, IInv, AllMerged
<1>6. CASE Return \/ EndSearch \/ Retain \/ Pack
  BY <1>6 DEF Return, EndSearch, Retain, Pack, Position, IInv, AllMerged
<1>7. CASE UNCHANGED vars
  BY <1>7 DEF vars, Position, IInv, AllMerged, CurrentFile
<1> QED
  BY <1>1, <1>2, <1>3, <1>4, <1>5, <1>6, <1>7 DEF Next

\* The next declaration becomes the last one seen.
LEMMA SeenGrows ==
  ASSUME IInv, InsertDecl
  PROVE  Seen' = Seen \cup {at} /\ \A q \in Seen : Upto(q, at)
<1>0. args.files \in Seq(File) /\ at \in (Nat \ {0}) \X (Nat \ {0})
  BY DEF IInv, CompacterTypeOK, Arguments
<1>1. at \in Places(args.files)
  BY CurrentDecl DEF InsertDecl, IInv
<1>2. \A p \in Places(args.files) : p \in (Nat \ {0}) \X (Nat \ {0})
  BY <1>0, DeclaredType
<1>3. args' = args /\ at' = <<at[1], at[2] + 1>>
  BY DEF InsertDecl
<1>4. ASSUME NEW p \in Places(args.files)
      PROVE  (p[1] < at'[1] \/ (p[1] = at'[1] /\ p[2] < at'[2]))
               <=> (p[1] < at[1] \/ (p[1] = at[1] /\ p[2] < at[2])) \/ p = at
  BY <1>0, <1>2, <1>3
<1>5. Seen' = Seen \cup {at}
  BY <1>1, <1>3, <1>4 DEF Seen
<1>6. \A q \in Seen : Upto(q, at)
  BY <1>0, <1>2 DEF Seen, Upto
<1> QED
  BY <1>5, <1>6

LEMMA InsertMerges ==
  ASSUME IInv, InsertDecl
  PROVE  CombinesSeen'
<1> DEFINE d == CurrentFile.decls[at[2]]
<1>1. Seen' = Seen \cup {at} /\ \A q \in Seen : Upto(q, at)
  BY SeenGrows
<1>2. d \in TopDecl /\ DeclAt(args.files, at) = d /\ at \in (Nat \ {0}) \X (Nat \ {0})
  BY CurrentDecl DEF InsertDecl, IInv, CompacterTypeOK
<1>3. args' = args /\ combined' = Inserted(combined, d) /\ CombinesSeen
  BY DEF InsertDecl, IInv, MergedSoFar
<1>4. /\ DOMAIN combined' = DOMAIN combined \cup {d.name}
      /\ \A n \in DOMAIN combined' : combined'[n] = IF n = d.name THEN d ELSE combined[n]
  BY <1>3 DEF Inserted
<1>5. \A p \in Seen' : DeclAt(args.files, p).name \in DOMAIN combined'
  BY <1>1, <1>2, <1>3, <1>4 DEF CombinesSeen
<1>6. ASSUME NEW n \in DOMAIN combined'
      PROVE  \E p \in Seen' :
               /\ DeclAt(args.files, p) = combined'[n]
               /\ \A q \in Seen' : DeclAt(args.files, q).name = n => Upto(q, p)
  <2>1. CASE n = d.name
    <3>1. Upto(at, at)
      BY <1>2 DEF Upto
    <3> QED
      BY <2>1, <3>1, <1>1, <1>2, <1>4
  <2>2. CASE n # d.name
    <3>1. PICK p \in Seen :
            /\ DeclAt(args.files, p) = combined[n]
            /\ \A q \in Seen : DeclAt(args.files, q).name = n => Upto(q, p)
      BY <2>2, <1>3, <1>4 DEF CombinesSeen
    <3> QED
      BY <2>2, <3>1, <1>1, <1>2, <1>4
  <2> QED
    BY <2>1, <2>2
<1> QED
  BY <1>3, <1>5, <1>6 DEF CombinesSeen

\* Moving on to the next file passes no declaration.
LEMMA NextFileSeen ==
  ASSUME IInv, NextFile
  PROVE  Seen' = Seen
<1>0. args.files \in Seq(File) /\ at \in (Nat \ {0}) \X (Nat \ {0})
  BY DEF IInv, CompacterTypeOK, Arguments
<1>1. args' = args /\ at' = <<at[1] + 1, 1>> /\ at[2] > Len(CurrentFile.decls)
  BY DEF NextFile
<1>2. ASSUME NEW p \in Places(args.files), p[1] = at[1] PROVE p[2] < at[2]
  <2>1. p[2] \in DOMAIN CurrentFile.decls /\ p[1] \in DOMAIN args.files
    BY <1>0, <1>2, DeclaredType DEF CurrentFile
  <2>2. args.files[p[1]] \in File
    BY <1>0, <2>1
  <2>3. CurrentFile.decls \in Seq(TopDecl)
    BY <1>2, <2>2 DEF CurrentFile, File
  <2> QED
    BY <1>0, <1>1, <2>1, <2>3
<1>3. \A p \in Places(args.files) : p[1] \in Nat /\ p[2] \in Nat \ {0}
  BY <1>0, DeclaredType
<1> QED
  BY <1>0, <1>1, <1>2, <1>3 DEF Seen

LEMMA MergeStep ==
  ASSUME IInv, [Next]_vars
  PROVE  MergedSoFar'
<1>1. CASE InsertDecl
  BY <1>1, InsertMerges DEF MergedSoFar
<1>2. CASE NextFile
  BY <1>2, NextFileSeen DEF NextFile, MergedSoFar, CombinesSeen, IInv
<1>3. CASE CheckFile \/ StartSearch \/ Descend \/ Return \/ EndSearch \/ UNCHANGED vars
  <2>1. UNCHANGED <<args, at, combined>> /\ (pc' \in {"check", "insert", "search", "retain"} =>
                                           pc \in {"check", "insert", "search", "retain"})
    BY <1>3 DEF CheckFile, StartSearch, Descend, Return, EndSearch, vars
  <2> QED
    BY <2>1 DEF MergedSoFar, CombinesSeen, Seen, IInv
<1>4. CASE Retain \/ Pack
  BY <1>4 DEF Retain, Pack, MergedSoFar
<1> QED
  BY <1>1, <1>2, <1>3, <1>4 DEF Next

LEMMA CheckedStep ==
  ASSUME IInv, [Next]_vars
  PROVE  FilesChecked'
<1>0. args.files \in Seq(File) /\ at \in (Nat \ {0}) \X (Nat \ {0}) /\ args' = args
  BY DEF IInv, CompacterTypeOK, Arguments, Next, vars, CheckFile, InsertDecl, NextFile,
         StartSearch, Descend, Return, EndSearch, Retain, Pack
<1>1. CASE CheckFile
  <2>1. FilesChecked /\ at' = at
    BY <1>1 DEF IInv, CheckFile
  <2>2. pc' = "insert" => ~WrongVersion(args.files[at[1]]) /\ ~RedeclaresBuiltin(args.files[at[1]])
    BY <1>1 DEF CheckFile, CurrentFile
  <2> QED
    BY <1>0, <2>1, <2>2 DEF FilesChecked
<1>2. CASE InsertDecl
  BY <1>0, <1>2 DEF InsertDecl, FilesChecked, IInv
<1>3. CASE NextFile
  BY <1>0, <1>3 DEF NextFile, FilesChecked, IInv
<1>4. CASE StartSearch \/ Descend \/ Return \/ EndSearch \/ Retain \/ Pack \/ UNCHANGED vars
  <2>1. at' = at /\ (pc' = "insert" => pc = "insert")
    BY <1>4 DEF StartSearch, Descend, Enter, Return, EndSearch, Retain, Pack, vars
  <2> QED
    BY <1>0, <2>1 DEF FilesChecked, IInv
<1> QED
  BY <1>1, <1>2, <1>3, <1>4 DEF Next
-----------------------------------------------------------------------------
(* The search. *)

\* While the search runs, combined is what the files mean.
LEMMA WholeWhileSearching ==
  ASSUME IInv, pc \in {"search", "retain"}
  PROVE  CompacterTypeOK /\ AllMerged /\ CombinesSeen
  BY DEF IInv, Position, MergedSoFar

\* Advancing changes a count of the frame on top and nothing else.
LEMMA AdvancedFrames ==
  ASSUME CompacterTypeOK, stack # <<>>
  PROVE  /\ Advanced \in Seq(Frame) /\ Len(Advanced) = Len(stack) /\ Len(stack) \in Nat \ {0}
         /\ \A k \in 1 .. Len(stack) :
              /\ stack[k] \in Frame /\ Advanced[k].name = stack[k].name
              /\ Advanced[k].i = IF k = Len(stack) THEN stack[k].i + 1 ELSE stack[k].i
<1>1. stack \in Seq(Frame) /\ Len(stack) \in Nat \ {0}
  BY DEF CompacterTypeOK
<1>2. \A k \in 1 .. Len(stack) :
        /\ stack[k] \in Frame
        /\ Advanced[k] = IF k = Len(stack) THEN [stack[k] EXCEPT !.i = @ + 1] ELSE stack[k]
  BY <1>1 DEF Advanced
<1>3. Len(Advanced) = Len(stack) /\ DOMAIN Advanced = 1 .. Len(stack)
  BY <1>1 DEF Advanced
<1>4. \A f \in Frame : /\ [f EXCEPT !.i = @ + 1] \in Frame
                       /\ [f EXCEPT !.i = @ + 1].name = f.name
                       /\ [f EXCEPT !.i = @ + 1].i = f.i + 1
  BY DEF Frame
<1>5. \A k \in 1 .. Len(stack) :
        /\ Advanced[k] \in Frame /\ Advanced[k].name = stack[k].name
        /\ Advanced[k].i = IF k = Len(stack) THEN stack[k].i + 1 ELSE stack[k].i
  BY <1>2, <1>4
<1>6. Advanced = [k \in 1 .. Len(stack) |-> Advanced[k]]
  BY <1>1 DEF Advanced
<1>7. Advanced \in Seq(Frame)
  BY <1>1, <1>5, <1>6
<1> QED
  BY <1>1, <1>2, <1>3, <1>5, <1>7

\* A step of the search from a declaration to the type it names next.
LEMMA NextChild ==
  ASSUME IInv, pc = "search", stack # <<>>, Top.i <= Len(Refs(Top))
  PROVE  LET child == Refs(Top)[Top.i] IN
         /\ child \in Names
         /\ child \in Children(args.files, Top.name)
         /\ child \in Reachable(args.files, args.top)
<1> DEFINE child == Refs(Top)[Top.i]
<1>1. Top.name \in used \ {"byte"} /\ Top.name \in DOMAIN combined /\ Top \in Frame
      /\ combined[Top.name].refs \in Seq(Names)
  BY TopFrame DEF IInv
<1>2. Top.i \in DOMAIN combined[Top.name].refs /\ child = combined[Top.name].refs[Top.i]
  BY <1>1 DEF Refs, Frame
<1>3. child \in Children(args.files, Top.name)
  BY <1>1, <1>2, WholeWhileSearching, WholeChildren
<1>4. Top.name \in Reachable(args.files, args.top)
  BY <1>1 DEF IInv, Searched
<1> QED
  BY <1>1, <1>2, <1>3, <1>4, ReachableStep

LEMMA StartSearches ==
  ASSUME IInv, StartSearch
  PROVE  Searched'
<1> SUFFICES ASSUME pc' \in {"search", "retain"} PROVE Searched'
  BY DEF Searched
<1>1. /\ args' = args /\ combined' = combined /\ args.top \in Names
      /\ args.top \in DOMAIN combined /\ Enter(args.top, <<>>)
  BY DEF StartSearch, IInv, CompacterTypeOK, Arguments
<1>2. CompacterTypeOK /\ AllMerged /\ used = {} /\ stack = <<>>
  BY DEF IInv, StartSearch, Fresh
<1>3. used' = {args.top} /\ pc' = "search"
  BY <1>1, <1>2 DEF Enter
<1>4. args.top \in Reachable(args.files, args.top)
  BY <1>1, ReachableTop
<1>5. combined[args.top].refs \in Seq(Names)
  BY <1>1, <1>2 DEF CompacterTypeOK, TopDecl
<1>6. CASE args.top = "byte"
  <2>1. stack' = <<>>
    BY <1>1, <1>6 DEF Enter
  <2> QED
    BY <1>1, <1>3, <1>4, <1>6, <2>1 DEF Searched, FramesFit, StackIsChain, UsedExplored
<1>7. CASE args.top # "byte"
  <2>1. stack' = <<[name |-> args.top, i |-> 1]>>
    BY <1>1, <1>3, <1>7 DEF Enter
  <2>2. FramesFit' /\ StackIsChain' /\ UsedExplored'
    BY <1>1, <1>3, <1>5, <1>7, <2>1 DEF FramesFit, StackIsChain, UsedExplored, Passed, Refs
  <2> QED
    BY <1>1, <1>3, <1>4, <2>2 DEF Searched
<1> QED
  BY <1>6, <1>7

LEMMA Descends ==
  ASSUME IInv, Descend
  PROVE  Searched'
<1> SUFFICES ASSUME pc' \in {"search", "retain"} PROVE Searched'
  BY DEF Searched
<1> DEFINE child == Refs(Top)[Top.i]
<1> PICK L : L = Len(stack)
  OBVIOUS
<1> PICK H : H = Len(stack')
  OBVIOUS
<1>0. Searched /\ CompacterTypeOK
  BY DEF IInv
<1>1. /\ args' = args /\ combined' = combined /\ pc = "search" /\ stack # <<>>
      /\ Top.i <= Len(Refs(Top)) /\ Enter(child, Advanced)
  BY DEF Descend
<1>2. /\ child \in Names /\ child \in Children(args.files, Top.name)
      /\ child \in Reachable(args.files, args.top)
  BY <1>1, NextChild
<1>3. /\ Top \in Frame /\ Top.name \in used \ {"byte"} /\ Top.name \in DOMAIN combined
      /\ combined[Top.name].refs \in Seq(Names)
  BY <1>0, <1>1, TopFrame
<1>4. /\ Advanced \in Seq(Frame) /\ Len(Advanced) = L /\ L \in Nat \ {0}
      /\ \A k \in 1 .. L :
           /\ stack[k] \in Frame /\ Advanced[k].name = stack[k].name
           /\ Advanced[k].i = IF k = L THEN stack[k].i + 1 ELSE stack[k].i
  BY <1>0, <1>1, AdvancedFrames
<1> HIDE DEF child
<1>5. /\ used' = used \cup {child} /\ pc' = "search"
      /\ \/ child = "byte" /\ stack' = Advanced
         \/ child # "byte" /\ child \in DOMAIN combined
            /\ stack' = Append(Advanced, [name |-> child, i |-> 1])
  BY <1>1 DEF Enter
<1>6. /\ H \in {L, L + 1} /\ DOMAIN stack' = 1 .. H
      /\ H = L + 1 =>
           stack'[L + 1] = [name |-> child, i |-> 1] /\ child # "byte" /\ child \in DOMAIN combined
      /\ H = L => child = "byte" \/ child \in used
      /\ \A k \in 1 .. L :
           /\ k \in DOMAIN stack' /\ stack'[k].name = stack[k].name
           /\ stack'[k].i = IF k = L THEN stack[k].i + 1 ELSE stack[k].i
  <2>1. CASE child = "byte"
    BY <1>4, <1>5, <2>1
  <2>2. CASE child # "byte"
    <3>1. child \in DOMAIN combined /\ stack' = Append(Advanced, [name |-> child, i |-> 1])
      BY <1>5, <2>2
    <3>2. /\ Len(stack') = L + 1 /\ DOMAIN stack' = 1 .. L + 1
          /\ stack'[L + 1] = [name |-> child, i |-> 1]
          /\ \A k \in 1 .. L : stack'[k] = Advanced[k]
      BY <1>4, <3>1
    <3> QED
      BY <1>4, <2>2, <3>1, <3>2
  <2> QED
    BY <2>1, <2>2
<1>7. Top = stack[L] /\ DOMAIN stack = 1 .. L /\ child = combined[Top.name].refs[Top.i]
  BY <1>0, <1>1 DEF Top, child, Refs, CompacterTypeOK
<1>8. FramesFit'
  <2> SUFFICES ASSUME NEW k \in DOMAIN stack'
               PROVE  /\ stack'[k].name \in used' \ {"byte"}
                      /\ stack'[k].i <= Len(combined[stack'[k].name].refs) + 1
    BY <1>1 DEF FramesFit, Refs
  <2>1. CASE k = L + 1
    <3>1. stack'[k].name = child /\ stack'[k].i = 1 /\ child # "byte" /\ child \in DOMAIN combined
      BY <2>1, <1>4, <1>6
    <3>2. combined[child].refs \in Seq(Names)
      BY <1>0, <3>1 DEF CompacterTypeOK, TopDecl
    <3> QED
      BY <3>1, <3>2, <1>5
  <2>2. CASE k \in 1 .. L
    <3>1. stack[k].name \in used \ {"byte"} /\ stack[k].i <= Len(combined[stack[k].name].refs) + 1
      BY <2>2, <1>0, <1>1, <1>7 DEF Searched, FramesFit, Refs
    <3>2. k = L => stack[k].i + 1 <= Len(combined[stack[k].name].refs) + 1
      BY <1>1, <1>3, <1>7 DEF Refs, Frame
    <3> QED
      BY <2>2, <3>1, <3>2, <1>4, <1>5, <1>6
  <2> QED
    BY <2>1, <2>2, <1>4, <1>6
<1>9. StackIsChain'
  <2>1. stack'[1].name = args.top
    BY <1>0, <1>1, <1>4, <1>6 DEF Searched, StackIsChain
  <2>2. ASSUME NEW k \in 1 .. H - 1
        PROVE  stack'[k + 1].name \in Children(args.files, stack'[k].name)
    <3>1. CASE k = L
      BY <2>2, <3>1, <1>2, <1>4, <1>6, <1>7
    <3>2. CASE k # L
      <4>1. k \in 1 .. L - 1 /\ k + 1 \in 1 .. L /\ k \in 1 .. L
        BY <2>2, <3>2, <1>4, <1>6
      <4>2. stack[k + 1].name \in Children(args.files, stack[k].name)
        BY <4>1, <1>0, <1>1 DEF Searched, StackIsChain
      <4> QED
        BY <4>1, <4>2, <1>6
    <3> QED
      BY <3>1, <3>2, SMTT(30)
  <2> QED
    BY <2>1, <2>2, <1>1 DEF StackIsChain
<1>10. UsedExplored'
  <2> SUFFICES ASSUME NEW n \in used' \ {"byte"}
               PROVE  \/ Children(args.files, n) \subseteq used'
                      \/ \E k \in DOMAIN stack' : Passed(stack[k], n)'
    BY <1>1 DEF UsedExplored
  <2>1. CASE n \in used /\ Children(args.files, n) \subseteq used
    BY <2>1, <1>5
  <2>2. CASE n \in used /\ \E k \in DOMAIN stack : Passed(stack[k], n)
    <3>1. PICK k \in 1 .. L : Passed(stack[k], n)
      BY <2>2, <1>7
    <3>2. stack[k].i \in Nat \ {0} /\ k \in DOMAIN stack' /\ stack'[k].name = n
      BY <3>1, <1>4, <1>6 DEF Passed, Frame
    <3>3. \A r \in 1 .. stack'[k].i - 1 : combined[n].refs[r] \in used'
      <4>1. CASE k # L
        BY <4>1, <3>1, <1>5, <1>6 DEF Passed
      <4>2. CASE k = L
        <5>1. combined[n].refs[stack[k].i] = child
          BY <4>2, <3>1, <1>7 DEF Passed
        <5>2. stack'[k].i = stack[k].i + 1
          BY <4>2, <1>6
        <5> QED
          BY <3>1, <3>2, <5>1, <5>2, <1>5 DEF Passed
      <4> QED
        BY <4>1, <4>2
    <3> QED
      BY <3>2, <3>3, <1>1 DEF Passed
  <2>3. CASE n \notin used
    <3>1. n = child /\ H = L + 1
      BY <2>3, <1>5, <1>6
    <3>2. L + 1 \in DOMAIN stack' /\ stack'[L + 1] = [name |-> n, i |-> 1]
      BY <3>1, <1>4, <1>6
    <3>3. Passed(stack[L + 1], n)'
      BY <3>2, <1>4 DEF Passed
    <3> QED
      BY <3>2, <3>3
  <2> QED
    BY <2>1, <2>2, <2>3, <1>0, <1>1 DEF Searched, UsedExplored
<1> QED
  BY <1>0, <1>1, <1>2, <1>5, <1>8, <1>9, <1>10 DEF Searched
LEMMA Returns ==
  ASSUME IInv, Return
  PROVE  Searched'
<1> PICK L : L = Len(stack)
  OBVIOUS
<1>0. Searched /\ CompacterTypeOK
  BY DEF IInv
<1>1. /\ UNCHANGED <<args, pc, combined, used>> /\ pc = "search" /\ stack # <<>>
      /\ Top.i > Len(Refs(Top)) /\ stack' = SubSeq(stack, 1, L - 1)
  BY DEF Return
<1>2. /\ Top \in Frame /\ Top.name \in used \ {"byte"} /\ Top.name \in DOMAIN combined
      /\ combined[Top.name].refs \in Seq(Names)
  BY <1>0, <1>1, TopFrame
<1>3. /\ stack \in Seq(Frame) /\ L \in Nat \ {0} /\ DOMAIN stack = 1 .. L /\ Top = stack[L]
  BY <1>0, <1>1 DEF CompacterTypeOK, Top
<1>4. /\ Len(stack') = L - 1 /\ DOMAIN stack' = 1 .. L - 1
      /\ \A k \in 1 .. L - 1 : stack'[k] = stack[k]
  BY <1>1, <1>3
<1>5. FramesFit'
  BY <1>0, <1>1, <1>3, <1>4 DEF Searched, FramesFit, Refs
<1>6. StackIsChain'
  <2>1. stack' # <<>> => stack'[1] = stack[1]
    BY <1>3, <1>4
  <2>2. \A k \in 1 .. (L - 1) - 1 : /\ k \in 1 .. L - 1 /\ k + 1 \in 1 .. L - 1
    BY <1>3
  <2> QED
    BY <2>1, <2>2, <1>0, <1>1, <1>4 DEF Searched, StackIsChain
<1>7. UsedExplored'
  <2> SUFFICES ASSUME NEW n \in used \ {"byte"}
               PROVE  \/ Children(args.files, n) \subseteq used
                      \/ \E k \in DOMAIN stack' : Passed(stack[k], n)'
    BY <1>1 DEF UsedExplored
  <2>1. CASE \E k \in DOMAIN stack : Passed(stack[k], n)
    <3>1. PICK k \in 1 .. L : Passed(stack[k], n)
      BY <2>1, <1>3
    <3>2. CASE k = L
      <4>1. n = Top.name /\ \A r \in 1 .. Top.i - 1 : combined[n].refs[r] \in used
        BY <3>1, <3>2, <1>3 DEF Passed
      <4>2. \A r \in DOMAIN combined[n].refs : r \in 1 .. Top.i - 1
        BY <4>1, <1>1, <1>2 DEF Refs, Frame
      <4>3. Children(args.files, n) = {combined[n].refs[r] : r \in DOMAIN combined[n].refs}
        BY <4>1, <1>1, <1>2, WholeWhileSearching, WholeChildren
      <4> QED
        BY <4>1, <4>2, <4>3
    <3>3. CASE k # L
      <4>1. k \in DOMAIN stack' /\ stack'[k] = stack[k]
        BY <3>3, <1>3, <1>4
      <4> QED
        BY <4>1, <3>1, <1>1 DEF Passed
    <3> QED
      BY <3>2, <3>3
  <2> QED
    BY <2>1, <1>0, <1>1 DEF Searched, UsedExplored
<1> QED
  BY <1>0, <1>1, <1>5, <1>6, <1>7 DEF Searched

LEMMA SearchedStep ==
  ASSUME IInv, [Next]_vars
  PROVE  Searched'
<1>1. CASE EndSearch
  BY <1>1 DEF EndSearch, IInv, Searched, FramesFit, Refs, StackIsChain, UsedExplored, Passed
<1>2. CASE CheckFile \/ InsertDecl \/ NextFile \/ Retain \/ Pack
  BY <1>2 DEF CheckFile, InsertDecl, NextFile, Retain, Pack, Searched
<1>3. CASE UNCHANGED vars
  BY <1>3 DEF vars, IInv, Searched, FramesFit, Refs, StackIsChain, UsedExplored, Passed
<1> QED
  BY <1>1, <1>2, <1>3, StartSearches, Descends, Returns DEF Next

LEMMA FreshStep ==
  ASSUME IInv, [Next]_vars
  PROVE  Fresh'
  BY DEF IInv, Fresh, Next, vars, CheckFile, InsertDecl, NextFile, StartSearch, Enter,
         Descend, Return, EndSearch, Retain, Pack
-----------------------------------------------------------------------------
(* What is kept and written. *)

\* The search ends with exactly the reachable types.
LEMMA UsedIsReachable ==
  ASSUME IInv, pc = "retain"
  PROVE  /\ used = Reachable(args.files, args.top)
         /\ used \ {"byte"} \subseteq DOMAIN combined /\ args.top \in DOMAIN combined
<1>1. /\ args.top \in used /\ used \subseteq Reachable(args.files, args.top)
      /\ used \ {"byte"} \subseteq DOMAIN combined /\ args.top \in DOMAIN combined
      /\ used \in SUBSET Names /\ UsedExplored /\ stack = <<>>
  BY DEF IInv, Searched, CompacterTypeOK
<1>2. Closed(args.files, used)
  BY <1>1 DEF Closed, UsedExplored, Children
<1> QED
  BY <1>1, <1>2, ReachableLeast

LEMMA SelectedStep ==
  ASSUME IInv, [Next]_vars
  PROVE  Selected'
<1>1. CASE Retain
  <2>1. args' = args /\ pc = "retain" /\ pc' = "pack"
        /\ combined' = [n \in DOMAIN combined \cap used |-> combined[n]]
    BY <1>1 DEF Retain
  <2>2. CompacterTypeOK /\ AllMerged /\ CombinesSeen
    BY <2>1, WholeWhileSearching
  <2>3. /\ used = Reachable(args.files, args.top)
        /\ used \ {"byte"} \subseteq DOMAIN combined /\ args.top \in DOMAIN combined
    BY <2>1, UsedIsReachable
  <2>4. Merged(args.files) = {combined[n] : n \in DOMAIN combined}
        /\ \A n \in DOMAIN combined : combined[n].name = n
    BY <2>2, WholeMerged DEF CompacterTypeOK
  <2>5. Needed = {combined[n] : n \in DOMAIN combined \cap used}
    BY <2>3, <2>4 DEF Needed
  <2>6. {combined'[n] : n \in DOMAIN combined'} = {combined[n] : n \in DOMAIN combined \cap used}
    BY <2>1
  <2>7. ~Undeclared(args)
    BY <2>2, <2>3, WholeDeclared DEF Undeclared
  <2> QED
    BY <2>1, <2>5, <2>6, <2>7 DEF Selected, Needed
<1>2. CASE UNCHANGED vars
  BY <1>2 DEF vars, Selected, Needed, IInv
<1>3. CASE CheckFile \/ InsertDecl \/ NextFile \/ StartSearch \/ Descend \/ Return \/ EndSearch \/ Pack
  BY <1>3 DEF CheckFile, InsertDecl, NextFile, StartSearch, Descend, Enter, Return, EndSearch,
              Pack, Selected
<1> QED
  BY <1>1, <1>2, <1>3 DEF Next

\* What Pack writes lists the declarations in combined.
LEMMA PackLists ==
  ASSUME IInv, Pack
  PROVE  /\ {packed'[k] : k \in DOMAIN packed'} = {combined[n] : n \in DOMAIN combined}
         /\ \A j, k \in DOMAIN packed' : j < k => Rank[packed'[j].name] < Rank[packed'[k].name]
<1>1. PICK names \in Orders(DOMAIN combined) : packed' = [k \in DOMAIN names |-> combined[names[k]]]
  BY DEF Pack
<1>2. /\ \A k \in DOMAIN names : names[k] \in DOMAIN combined
      /\ \A n \in DOMAIN combined : \E k \in DOMAIN names : names[k] = n
      /\ \A j, k \in DOMAIN names : j < k => Rank[names[j]] < Rank[names[k]]
  BY DEF Orders
<1>3. DOMAIN packed' = DOMAIN names /\ \A k \in DOMAIN names : packed'[k] = combined[names[k]]
  BY <1>1
<1>4. \A n \in DOMAIN combined : combined[n].name = n
  BY DEF IInv, CompacterTypeOK
<1>5. \A k \in DOMAIN names : packed'[k].name = names[k]
  BY <1>2, <1>3, <1>4
<1>6. \A j, k \in DOMAIN packed' : j < k => Rank[packed'[j].name] < Rank[packed'[k].name]
  BY <1>2, <1>3, <1>5
<1>7. {packed'[k] : k \in DOMAIN packed'} = {combined[n] : n \in DOMAIN combined}
  BY <1>2, <1>3
<1> QED
  BY <1>6, <1>7

LEMMA WrittenStep ==
  ASSUME IInv, [Next]_vars
  PROVE  Written'
<1>1. CASE Pack
  BY <1>1, PackLists DEF Pack, IInv, Selected, Written, Needed
<1>2. CASE UNCHANGED vars
  BY <1>2 DEF vars, Written, Needed, IInv
<1>3. CASE CheckFile \/ InsertDecl \/ NextFile \/ StartSearch \/ Descend \/ Return \/ EndSearch \/ Retain
  BY <1>3 DEF CheckFile, InsertDecl, NextFile, StartSearch, Descend, Enter, Return, EndSearch,
              Retain, Written
<1> QED
  BY <1>1, <1>2, <1>3 DEF Next

LEMMA UnwrittenStep ==
  ASSUME IInv, [Next]_vars
  PROVE  Unwritten'
  BY DEF IInv, Unwritten, Next, vars, CheckFile, InsertDecl, NextFile, StartSearch, Enter,
         Descend, Return, EndSearch, Retain, Pack

LEMMA StepInv == IInv /\ [Next]_vars => IInv'
<1> SUFFICES ASSUME IInv, [Next]_vars PROVE IInv'
  OBVIOUS
<1> QED
  BY TypeStep, FiniteStep, PositionStep, MergeStep, CheckedStep, FreshStep, SearchedStep,
     SelectedStep, WrittenStep, UnwrittenStep DEF IInv

LEMMA Invariance == Spec => []IInv
  BY InitInv, StepInv, PTL DEF Spec

(***************************************************************************)
(* Every state of the compacter has its variables in their types, and the  *)
(* search never nests deeper than the stack allows.                        *)
(***************************************************************************)
THEOREM CompacterTypeCorrect == Spec => []CompacterTypeOK
<1>1. IInv => CompacterTypeOK
  BY DEF IInv
<1> QED
  BY <1>1, Invariance, PTL

(***************************************************************************)
(* A schema that is written declares its top-level type and every type it  *)
(* names, for all files that main can be given.                            *)
(***************************************************************************)
THEOREM PackedStandsAlone == Spec => []PackedClosed
<1>1. ASSUME IInv PROVE PackedClosed
  <2> SUFFICES ASSUME pc = "done"
               PROVE  /\ \E k \in DOMAIN packed : packed[k].name = args.top
                      /\ \A k \in DOMAIN packed : packed[k].name # "byte" =>
                           \A r \in DOMAIN packed[k].refs :
                             \/ packed[k].refs[r] = "byte"
                             \/ \E j \in DOMAIN packed : packed[j].name = packed[k].refs[r]
    BY DEF PackedClosed
  <2>1. {packed[k] : k \in DOMAIN packed} = Needed /\ ~Undeclared(args)
    BY <1>1 DEF IInv, Written
  <2>2. args.top \in Names /\ packed \in Seq(TopDecl)
    BY <1>1 DEF IInv, CompacterTypeOK, Arguments
  <2>3. ASSUME NEW n \in Reachable(args.files, args.top), n = args.top \/ n # "byte"
        PROVE  \E j \in DOMAIN packed : packed[j].name = n
    <3>1. PICK d \in Merged(args.files) : d.name = n
      BY <2>1, <2>3 DEF Undeclared, Declared
    <3>2. d \in Needed
      BY <2>3, <3>1 DEF Needed
    <3> QED
      BY <2>1, <3>1, <3>2
  <2>4. \E k \in DOMAIN packed : packed[k].name = args.top
    BY <2>2, <2>3, ReachableTop
  <2>5. ASSUME NEW k \in DOMAIN packed, packed[k].name # "byte", NEW r \in DOMAIN packed[k].refs,
               packed[k].refs[r] # "byte"
        PROVE  \E j \in DOMAIN packed : packed[j].name = packed[k].refs[r]
    <3>1. packed[k] \in Needed /\ packed[k] \in TopDecl
      BY <2>1, <2>2
    <3>2. packed[k].refs[r] \in Children(args.files, packed[k].name)
      BY <2>5, <3>1 DEF Children, Needed, TopDecl
    <3>3. packed[k].refs[r] \in Reachable(args.files, args.top)
      BY <3>1, <3>2, ReachableStep DEF Needed
    <3> QED
      BY <2>3, <2>5, <3>3
  <2> QED
    BY <2>4, <2>5
<1> QED
  BY <1>1, Invariance, PTL

(***************************************************************************)
(* No schema that is written redefines a builtin, for all builtins.        *)
(***************************************************************************)
THEOREM BuiltinsStay == Spec => []BuiltinsKept
<1>1. ASSUME IInv PROVE BuiltinsKept
  <2> SUFFICES ASSUME NEW k \in DOMAIN packed, NEW b \in Builtins, b.name = packed[k].name
               PROVE  b = packed[k]
    BY DEF BuiltinsKept
  <2>1. pc = "done" /\ AllMerged
    BY <1>1 DEF IInv, Unwritten, Position
  <2>2. packed[k] \in Merged(args.files)
    BY <1>1, <2>1 DEF IInv, Written, Needed
  <2>3. PICK p \in Places(args.files) : DeclAt(args.files, p) = packed[k]
    BY <2>2 DEF Merged
  <2>4. args.files \in Seq(File) /\ at[1] \in Nat
    BY <1>1 DEF IInv, CompacterTypeOK, Arguments
  <2>5. p[1] \in DOMAIN args.files /\ p[2] \in DOMAIN args.files[p[1]].decls
    BY <2>4, DeclaredType
  <2>6. p[1] < at[1]
    BY <2>1, <2>4, <2>5 DEF AllMerged
  <2>7. ~RedeclaresBuiltin(args.files[p[1]])
    BY <1>1, <2>5, <2>6 DEF IInv, FilesChecked
  <2> QED
    BY <2>3, <2>5, <2>7 DEF RedeclaresBuiltin, DeclAt
<1> QED
  BY <1>1, Invariance, PTL
-----------------------------------------------------------------------------
(* The program implements Compaction. *)

\* The instance means by its definitions what Declarations means by them.
LEMMA SameMeaning ==
  /\ \A f : Abs!Merged(f) = Merged(f)
  /\ \A f, n : Abs!Children(f, n) = Children(f, n)
  /\ \A f, n : Abs!Reachable(f, n) = Reachable(f, n)
  /\ \A a : Abs!BadFile(a) <=> BadFile(a)
  /\ \A a : Abs!Undeclared(a) <=> Undeclared(a)
<1>1. \A f : Abs!Places(f) = Places(f)
  BY DEF Abs!Places, Places
<1>2. \A f, p : Abs!DeclAt(f, p) = DeclAt(f, p)
  BY DEF Abs!DeclAt, DeclAt
<1>3. \A p, q : Abs!Upto(p, q) <=> Upto(p, q)
  BY DEF Abs!Upto, Upto
<1>4. \A f, d : Abs!Latest(f, d) <=> Latest(f, d)
  BY <1>1, <1>2, <1>3 DEF Abs!Latest, Latest
<1>5. \A f : Abs!Merged(f) = Merged(f)
  BY <1>1, <1>2, <1>4 DEF Abs!Merged, Merged
<1>6. \A f, n : Abs!Children(f, n) = Children(f, n)
  BY <1>5 DEF Abs!Children, Children
<1>7. \A f, S : Abs!Closed(f, S) <=> Closed(f, S)
  BY <1>6 DEF Abs!Closed, Closed
<1>8. \A f, n : Abs!Reachable(f, n) = Reachable(f, n)
  BY <1>7 DEF Abs!Reachable, Reachable
<1>9. \A f, n : Abs!Declared(f, n) <=> Declared(f, n)
  BY <1>5 DEF Abs!Declared, Declared
<1>10. \A a : Abs!Undeclared(a) <=> Undeclared(a)
  BY <1>8, <1>9 DEF Abs!Undeclared, Undeclared
<1>11. \A a : Abs!BadFile(a) <=> BadFile(a)
  BY DEF Abs!BadFile, BadFile, Abs!WrongVersion, WrongVersion, Abs!RedeclaresBuiltin,
         RedeclaresBuiltin, Abs!EXPECTED_SYNTAX_VERSION, EXPECTED_SYNTAX_VERSION
<1> QED
  BY <1>5, <1>6, <1>8, <1>10, <1>11

\* Once all files are merged, each has been found good.
LEMMA AllGood ==
  ASSUME IInv, AllMerged
  PROVE  ~BadFile(args)
<1>1. args.files \in Seq(File) /\ at[1] \in Nat
  BY DEF IInv, CompacterTypeOK, Arguments
<1>2. \A k \in DOMAIN args.files : k < at[1]
  BY <1>1 DEF AllMerged
<1> QED
  BY <1>2 DEF IInv, FilesChecked, BadFile

\* The search panics on a type that is not declared, or on a chain.
LEMMA DescendRefuses ==
  ASSUME IInv, Descend, pc' = "panic"
  PROVE  Undeclared(args) \/ Abs!Chain(args, MaxDepth + 1)
<1> DEFINE child == Refs(Top)[Top.i]
           Way == [k \in 1 .. MaxDepth + 1 |-> IF k = MaxDepth + 1 THEN child ELSE stack[k].name]
<1>1. /\ pc = "search" /\ stack # <<>> /\ Top.i <= Len(Refs(Top))
      /\ Enter(child, Advanced)
  BY DEF Descend
<1>2. /\ child \in Names /\ child \in Children(args.files, Top.name)
      /\ child \in Reachable(args.files, args.top)
  BY <1>1, NextChild
<1>3. CompacterTypeOK /\ AllMerged /\ CombinesSeen
  BY <1>1, WholeWhileSearching
<1>4. /\ stack \in Seq(Frame) /\ Len(Advanced) = Len(stack) /\ Top = stack[Len(stack)]
      /\ \A k \in 1 .. Len(stack) : stack[k].name \in Names
  <2>1. /\ Len(Advanced) = Len(stack)
        /\ \A k \in 1 .. Len(stack) : stack[k] \in Frame
    BY <1>1, <1>3, AdvancedFrames
  <2>2. \A f \in Frame : f.name \in Names
    BY DEF Frame
  <2> QED
    BY <1>3, <2>1, <2>2 DEF Top, CompacterTypeOK
<1>5. StackIsChain
  BY <1>1 DEF IInv, Searched
<1> HIDE DEF child
<1>6. child # "byte" /\ (child \notin DOMAIN combined \/ Len(stack) = MaxDepth)
  BY <1>1, <1>4 DEF Enter
<1>7. CASE child \notin DOMAIN combined
  BY <1>2, <1>3, <1>6, <1>7, WholeDeclared DEF Undeclared
<1>8. CASE Len(stack) = MaxDepth
  <2>1. MaxDepth \in Nat \ {0} /\ Way \in [1 .. MaxDepth + 1 -> Names]
    BY <1>2, <1>4, <1>8, MaxDepthAssumption
  <2>2. Way[1] = args.top
    BY <2>1, <1>1, <1>5, <1>8 DEF StackIsChain
  <2>3. ASSUME NEW k \in 1 .. (MaxDepth + 1) - 1
        PROVE  Way[k + 1] \in Children(args.files, Way[k])
    <3>1. CASE k = MaxDepth
      BY <3>1, <2>1, <1>2, <1>4, <1>8
    <3>2. CASE k # MaxDepth
      <4>1. k \in 1 .. MaxDepth - 1 /\ Way[k + 1] = stack[k + 1].name /\ Way[k] = stack[k].name
        BY <3>2, <2>1, <2>3
      <4> QED
        BY <4>1, <1>5, <1>8 DEF StackIsChain
    <3> QED
      BY <3>1, <3>2
  <2> HIDE DEF Way
  <2>4. /\ Way[1] = args.top
        /\ \A k \in 1 .. (MaxDepth + 1) - 1 : Way[k + 1] \in Abs!Children(args.files, Way[k])
    BY <2>2, <2>3, SameMeaning
  <2> QED
    BY <2>1, <2>4 DEF Abs!Chain
<1> QED
  BY <1>6, <1>7, <1>8

\* Each step of the program is a step of Compaction or changes nothing of it.
LEMMA Simulates ==
  ASSUME IInv, [Next]_vars
  PROVE  [Abs!Next]_<<args, Verdict, packed>>
<1>1. CASE CheckFile
  <2>1. pc = "check" /\ UNCHANGED <<args, packed>> /\ at[1] \in DOMAIN args.files
    BY <1>1 DEF CheckFile, AllMerged, IInv, CompacterTypeOK, Arguments
  <2>2. CASE pc' = "panic"
    <3>1. BadFile(args)
      BY <1>1, <2>1, <2>2 DEF CheckFile, CurrentFile, BadFile
    <3> QED
      BY <2>1, <2>2, <3>1, SameMeaning DEF Abs!Next, Abs!Refuse, Verdict
  <2> QED
    BY <1>1, <2>1, <2>2 DEF CheckFile, Verdict
<1>2. CASE StartSearch
  <2>1. pc = "check" /\ UNCHANGED <<args, packed>> /\ args.top \in Names
    BY <1>2 DEF StartSearch, IInv, CompacterTypeOK, Arguments
  <2>2. CASE args.top \notin DOMAIN combined
    <3>1. CompacterTypeOK /\ AllMerged /\ CombinesSeen
      BY <1>2 DEF StartSearch, IInv, MergedSoFar
    <3>2. Undeclared(args)
      BY <2>1, <2>2, <3>1, WholeDeclared, ReachableTop DEF Undeclared
    <3> QED
      BY <1>2, <2>1, <2>2, <3>2, SameMeaning DEF StartSearch, Abs!Next, Abs!Refuse, Verdict
  <2>3. CASE args.top \in DOMAIN combined
    <3>1. pc' = "search"
      BY <1>2, <2>3, MaxDepthAssumption DEF StartSearch, Enter
    <3> QED
      BY <2>1, <3>1 DEF Verdict
  <2> QED
    BY <2>2, <2>3
<1>3. CASE Descend
  <2>1. pc = "search" /\ UNCHANGED <<args, packed>> /\ pc' \in {"search", "panic"}
    BY <1>3 DEF Descend, Enter
  <2>2. CASE pc' = "panic"
    BY <1>3, <2>1, <2>2, DescendRefuses, SameMeaning DEF Abs!Next, Abs!Refuse, Verdict
  <2> QED
    BY <2>1, <2>2 DEF Verdict
<1>4. CASE Pack
  <2>1. /\ pc = "pack" /\ pc' = "done" /\ args' = args
        /\ {packed'[k] : k \in DOMAIN packed'} = Needed /\ ~Undeclared(args)
        /\ \A j, k \in DOMAIN packed' : j < k => Rank[packed'[j].name] < Rank[packed'[k].name]
    BY <1>4, PackLists DEF Pack, IInv, Selected
  <2>2. ~BadFile(args)
    BY <2>1, AllGood DEF IInv, Position
  <2>3. Abs!Needed(args) = Needed
    BY SameMeaning DEF Abs!Needed, Needed
  <2>4. Abs!Lists(packed', Abs!Needed(args))
    BY <2>1, <2>3 DEF Abs!Lists
  <2> QED
    BY <2>1, <2>2, <2>4, SameMeaning DEF Abs!Next, Abs!Deliver, Verdict
<1>5. CASE InsertDecl \/ NextFile \/ Return \/ EndSearch \/ Retain
  BY <1>5 DEF InsertDecl, NextFile, Return, EndSearch, Retain, Verdict
<1>6. CASE UNCHANGED vars
  BY <1>6 DEF vars, Verdict
<1> QED
  BY <1>1, <1>2, <1>3, <1>4, <1>5, <1>6 DEF Next

(***************************************************************************)
(* The program refines Compaction: merging, the search and the panics in   *)
(* between show nothing but one delivery or one justified refusal.         *)
(***************************************************************************)
THEOREM CompacterImplements == Spec => Implements
<1>1. Init => Abs!Init
  BY DEF Init, Abs!Init, Verdict
<1>2. IInv /\ [Next]_vars => [Abs!Next]_<<args, Verdict, packed>>
  BY Simulates
<1> QED
  BY <1>1, <1>2, Invariance, PTL DEF Spec, Implements, Abs!Spec
-----------------------------------------------------------------------------
(* Files that are good one by one. *)

\* height ranks what the declarations of a file use below what uses it.
HeightsFall(file, height) ==
  \A k \in DOMAIN file.decls : \A r \in DOMAIN file.decls[k].refs :
    \/ file.decls[k].refs[r] = "byte"
    \/ /\ height[file.decls[k].refs[r]] < height[file.decls[k].name]
       /\ \E j \in DOMAIN file.decls : file.decls[j].name = file.decls[k].refs[r]

\* p is the place of the last declaration of n.
LastPlace(files, n, p) ==
  /\ p \in Places(files) /\ DeclAt(files, p).name = n
  /\ \A q \in Places(files) : DeclAt(files, q).name = n => Upto(q, p)

\* What is made of a type comes from a later file or ranks lower in the same.
Below(a, b) == a[1] < b[1] \/ (a[1] = b[1] /\ b[2] < a[2])

AllSelfContained == \A k \in DOMAIN args.files : SelfContained(args.files[k])

LEMMA Heights ==
  ASSUME AllSelfContained
  PROVE  \E H : \A k \in DOMAIN args.files :
           H[k] \in [Names -> 0 .. MaxDepth - 1] /\ HeightsFall(args.files[k], H[k])
<1> DEFINE Is(k, height) ==
             height \in [Names -> 0 .. MaxDepth - 1] /\ HeightsFall(args.files[k], height)
           H == [k \in DOMAIN args.files |-> CHOOSE height : Is(k, height)]
<1>1. \A k \in DOMAIN args.files : \E height : Is(k, height)
  BY DEF AllSelfContained, SelfContained, HeightsFall
<1>2. \A k \in DOMAIN args.files : Is(k, H[k])
  <2> HIDE DEF Is
  <2> QED  BY <1>1
<1> QED  BY <1>2

\* A declared type has a last place, which is where its meaning comes from.
LEMMA LastPlaceExists ==
  ASSUME CompacterTypeOK, AllMerged, CombinesSeen, NEW n \in DOMAIN combined
  PROVE  \E p : LastPlace(args.files, n, p) /\ DeclAt(args.files, p) = combined[n]
<1>1. Seen = Places(args.files) /\ combined[n].name = n
  BY AllSeen DEF CompacterTypeOK
<1> QED  BY <1>1 DEF CombinesSeen, LastPlace

\* In a good file the types that a declaration names are declared.
LEMMA ChildDeclared ==
  ASSUME CompacterTypeOK, AllMerged, CombinesSeen, AllSelfContained,
         NEW n \in DOMAIN combined, n # "byte",
         NEW m \in Children(args.files, n), m # "byte",
         NEW p, LastPlace(args.files, n, p), DeclAt(args.files, p) = combined[n],
         NEW height, HeightsFall(args.files[p[1]], height)
  PROVE  /\ height[m] < height[n]
         /\ \E j \in DOMAIN args.files[p[1]].decls : args.files[p[1]].decls[j].name = m
         /\ m \in DOMAIN combined
<1>1. PICK r \in DOMAIN combined[n].refs : m = combined[n].refs[r]
  BY WholeChildren
<1>2. args.files \in Seq(File)
  BY DEF CompacterTypeOK, Arguments
<1>3. p[1] \in DOMAIN args.files /\ p[2] \in DOMAIN args.files[p[1]].decls
  BY <1>2, DeclaredType DEF LastPlace
<1>4. args.files[p[1]].decls[p[2]] = combined[n] /\ combined[n].name = n
  BY SMTT(30) DEF DeclAt, CompacterTypeOK
<1>5. /\ height[m] < height[n]
      /\ \E j \in DOMAIN args.files[p[1]].decls : args.files[p[1]].decls[j].name = m
  BY <1>1, <1>3, <1>4 DEF HeightsFall
<1>6. m \in DOMAIN combined
  <2>1. PICK j \in DOMAIN args.files[p[1]].decls : args.files[p[1]].decls[j].name = m
    BY <1>5
  <2>2. <<p[1], j>> \in Seen
    BY <1>3, PlaceOf, AllSeen
  <2>3. DeclAt(args.files, <<p[1], j>>).name = m
    BY <2>1 DEF DeclAt
  <2> QED  BY <2>2, <2>3 DEF CombinesSeen
<1> QED  BY <1>5, <1>6

\* A chain of declared types in good files has no type twice.
LEMMA ChainDistinct ==
  ASSUME CompacterTypeOK, AllMerged, CombinesSeen, AllSelfContained,
         NEW L \in Nat, NEW names \in [1 .. L -> DOMAIN combined \ {"byte"}],
         \A k \in 1 .. L - 1 : names[k + 1] \in Children(args.files, names[k])
  PROVE  \A j, k \in 1 .. L : j < k => names[j] # names[k]
<1>0. args.files \in Seq(File) /\ DOMAIN combined \subseteq Names
  BY DEF CompacterTypeOK, Arguments
<1>1. PICK H : \A k \in DOMAIN args.files :
           H[k] \in [Names -> 0 .. MaxDepth - 1] /\ HeightsFall(args.files[k], H[k])
  BY Heights
<1> DEFINE Is(n, p) == LastPlace(args.files, n, p) /\ DeclAt(args.files, p) = combined[n]
           last == [n \in DOMAIN combined |-> CHOOSE p : Is(n, p)]
           key(n) == <<last[n][1], H[last[n][1]][n]>>
<1>2. \A n \in DOMAIN combined : Is(n, last[n])
  <2>1. \A n \in DOMAIN combined : \E p : Is(n, p)
    BY LastPlaceExists
  <2> HIDE DEF Is
  <2> QED  BY <2>1
<1> HIDE DEF last
<1>3. \A n \in DOMAIN combined :
        /\ last[n][1] \in DOMAIN args.files /\ last[n][1] \in Nat
        /\ last[n] \in (Nat \ {0}) \X (Nat \ {0}) /\ last[n] \in Places(args.files)
        /\ H[last[n][1]][n] \in Nat
  <2> SUFFICES ASSUME NEW n \in DOMAIN combined
               PROVE  /\ last[n][1] \in DOMAIN args.files /\ last[n][1] \in Nat
                      /\ last[n] \in (Nat \ {0}) \X (Nat \ {0}) /\ last[n] \in Places(args.files)
                      /\ H[last[n][1]][n] \in Nat
    OBVIOUS
  <2>1. last[n] \in Places(args.files)
    BY <1>2 DEF LastPlace
  <2>2. last[n][1] \in DOMAIN args.files /\ last[n] \in (Nat \ {0}) \X (Nat \ {0})
    BY <1>0, <2>1, DeclaredType
  <2>3. last[n][1] \in Nat
    BY <1>0, <2>2
  <2>4. H[last[n][1]][n] \in 0 .. MaxDepth - 1
    BY <1>0, <1>1, <2>2
  <2> QED  BY <2>1, <2>2, <2>3, <2>4
<1>4. ASSUME NEW n \in DOMAIN combined \ {"byte"}, NEW m \in DOMAIN combined \ {"byte"},
             m \in Children(args.files, n)
      PROVE  Below(key(n), key(m))
  <2>1. /\ H[last[n][1]][m] < H[last[n][1]][n]
        /\ \E j \in DOMAIN args.files[last[n][1]].decls :
             args.files[last[n][1]].decls[j].name = m
    <3>1. Is(n, last[n]) /\ HeightsFall(args.files[last[n][1]], H[last[n][1]])
      BY <1>1, <1>2, <1>3
    <3> QED  BY <1>4, <3>1, ChildDeclared
  <2>2. PICK j \in DOMAIN args.files[last[n][1]].decls :
          args.files[last[n][1]].decls[j].name = m
    BY <2>1
  <2>3. Upto(<<last[n][1], j>>, last[m])
    <3>1. <<last[n][1], j>> \in Places(args.files)
      BY <1>3, <2>2, PlaceOf
    <3>2. DeclAt(args.files, <<last[n][1], j>>).name = m
      BY <2>2 DEF DeclAt
    <3> QED  BY <1>2, <3>1, <3>2 DEF LastPlace
  <2>4. last[n][1] <= last[m][1]
    BY <1>3, <2>3 DEF Upto
  <2> QED  BY <1>3, <2>1, <2>4 DEF Below
<1>5. ASSUME NEW a \in DOMAIN combined, NEW b \in DOMAIN combined, NEW c \in DOMAIN combined,
             Below(key(a), key(b)), Below(key(b), key(c))
      PROVE  Below(key(a), key(c))
  BY <1>3, <1>5, SMTT(30) DEF Below
<1>6. \A a \in DOMAIN combined : ~Below(key(a), key(a))
  BY <1>3 DEF Below
<1> HIDE DEF key
<1> SUFFICES ASSUME NEW j \in 1 .. L PROVE \A k \in 1 .. L : j < k => names[j] # names[k]
  OBVIOUS
<1> DEFINE T == {d \in Nat : j + d + 1 \in 1 .. L => Below(key(names[j]), key(names[j + d + 1]))}
<1>7. 0 \in T
  <2> SUFFICES ASSUME j + 0 + 1 \in 1 .. L PROVE Below(key(names[j]), key(names[j + 0 + 1]))
    OBVIOUS
  <2>1. j \in 1 .. L - 1 /\ j + 0 + 1 = j + 1
    OBVIOUS
  <2>2. names[j + 1] \in Children(args.files, names[j])
    BY <2>1
  <2> QED  BY <1>4, <2>1, <2>2
<1>8. ASSUME NEW d \in Nat, d \in T PROVE d + 1 \in T
  <2> SUFFICES ASSUME j + (d + 1) + 1 \in 1 .. L
               PROVE Below(key(names[j]), key(names[j + (d + 1) + 1]))
    OBVIOUS
  <2> DEFINE x == j + d + 1
  <2>1. x \in 1 .. L /\ x \in 1 .. L - 1 /\ j + (d + 1) + 1 = x + 1 /\ x + 1 \in 1 .. L
    OBVIOUS
  <2>2. Below(key(names[j]), key(names[x]))
    BY <1>8, <2>1
  <2> HIDE DEF x
  <2>3. names[x + 1] \in Children(args.files, names[x])
    BY <2>1
  <2>4. Below(key(names[x]), key(names[x + 1]))
    BY <1>4, <2>1, <2>3
  <2> QED  BY <1>5, <2>1, <2>2, <2>4
<1>9. \A d \in Nat : d \in T
  <2> HIDE DEF T
  <2> QED  BY <1>7, <1>8, Induction
<1> SUFFICES ASSUME NEW k \in 1 .. L, j < k PROVE names[j] # names[k]
  OBVIOUS
<1>10. k - j - 1 \in Nat /\ j + (k - j - 1) + 1 = k
  OBVIOUS
<1>11. Below(key(names[j]), key(names[k]))
  BY <1>9, <1>10
<1> QED  BY <1>6, <1>11

\* A panic that the property does not allow for.
MergeFails ==
  /\ AllSelfContained /\ ~BadFile(args) /\ ~(Cardinality(Names) - 1 > MaxDepth)
  /\ \E k \in DOMAIN args.files : \E j \in DOMAIN args.files[k].decls :
       args.files[k].decls[j].name = args.top

LEMMA CheckFileRefuses ==
  ASSUME IInv, CheckFile, pc' = "panic"
  PROVE  BadFile(args)
<1>1. args.files \in Seq(File) /\ at[1] \in Nat \ {0}
  BY DEF IInv, CompacterTypeOK, Arguments
<1>2. at[1] \in DOMAIN args.files
  BY <1>1 DEF CheckFile, AllMerged
<1> QED  BY <1>2 DEF CheckFile, BadFile, CurrentFile

LEMMA StartRefuses ==
  ASSUME IInv, StartSearch, pc' = "panic"
  PROVE  ~MergeFails
<1>1. CompacterTypeOK /\ AllMerged /\ CombinesSeen
  BY DEF IInv, StartSearch, MergedSoFar
<1>2. args.top \notin DOMAIN combined
  <2>1. Len(<<>>) # MaxDepth
    BY MaxDepthAssumption
  <2> QED  BY <2>1 DEF StartSearch, Enter
<1>3. ASSUME NEW k \in DOMAIN args.files, NEW j \in DOMAIN args.files[k].decls
      PROVE  args.files[k].decls[j].name # args.top
  <2>1. <<k, j>> \in Seen
    BY <1>1, PlaceOf, AllSeen
  <2>2. DeclAt(args.files, <<k, j>>).name \in DOMAIN combined
    BY <1>1, <2>1 DEF CombinesSeen
  <2> QED  BY <1>2, <2>2 DEF DeclAt
<1> QED  BY <1>3 DEF MergeFails

\* The frames of the search and the child it comes to are a chain.
LEMMA DescendChain ==
  ASSUME IInv, Descend, pc' = "panic", AllSelfContained, IsFiniteSet(Names)
  PROVE  Cardinality(Names) - 1 > MaxDepth
<1> DEFINE child == Refs(Top)[Top.i]
           S == Names \ {"byte"}
<1>1. /\ pc = "search" /\ stack # <<>> /\ Top.i <= Len(Refs(Top))
      /\ Enter(child, Advanced)
  BY DEF Descend
<1>2. child \in Names /\ child \in Children(args.files, Top.name)
  BY <1>1, NextChild
<1>3. CompacterTypeOK /\ AllMerged /\ CombinesSeen /\ StackIsChain
  BY <1>1, WholeWhileSearching DEF IInv, Searched
<1>4. /\ stack \in Seq(Frame) /\ Len(Advanced) = Len(stack) /\ Top = stack[Len(stack)]
      /\ DOMAIN combined \subseteq Names
      /\ \A k \in 1 .. Len(stack) : stack[k].name \in DOMAIN combined \ {"byte"}
  <2>1. Len(Advanced) = Len(stack)
    BY <1>1, <1>3, AdvancedFrames
  <2>2. FramesFit /\ used \ {"byte"} \subseteq DOMAIN combined
    BY <1>1 DEF IInv, Searched
  <2> QED  BY <1>3, <2>1, <2>2 DEF Top, CompacterTypeOK, FramesFit
<1> HIDE DEF child
<1>5. child # "byte" /\ (child \notin DOMAIN combined \/ Len(stack) = MaxDepth)
  BY <1>1, <1>4 DEF Enter
<1>6. child \in DOMAIN combined
  <2>1. Top.name \in DOMAIN combined /\ Top.name # "byte"
    BY <1>1, <1>4
  <2>2. PICK p : LastPlace(args.files, Top.name, p) /\ DeclAt(args.files, p) = combined[Top.name]
    BY <1>3, <2>1, LastPlaceExists
  <2>3. p[1] \in DOMAIN args.files
    BY <1>3, <2>2, DeclaredType DEF LastPlace, CompacterTypeOK, Arguments
  <2>4. PICK H : \A k \in DOMAIN args.files :
          H[k] \in [Names -> 0 .. MaxDepth - 1] /\ HeightsFall(args.files[k], H[k])
    BY Heights
  <2>5. HeightsFall(args.files[p[1]], H[p[1]])
    BY <2>3, <2>4
  <2> QED  BY <1>2, <1>3, <1>5, <2>1, <2>2, <2>5, ChildDeclared
<1>7. Len(stack) = MaxDepth
  BY <1>5, <1>6
<1> DEFINE L == MaxDepth + 1
           Way == [k \in 1 .. L |-> IF k = L THEN child ELSE stack[k].name]
<1>8. MaxDepth \in Nat \ {0} /\ L \in Nat
  BY MaxDepthAssumption
<1>9. Way \in [1 .. L -> DOMAIN combined \ {"byte"}]
  BY <1>4, <1>5, <1>6, <1>7, <1>8
<1>10. ASSUME NEW k \in 1 .. L - 1
       PROVE  Way[k + 1] \in Children(args.files, Way[k])
  <2>1. CASE k = MaxDepth
    BY <2>1, <1>2, <1>4, <1>7, <1>8
  <2>2. CASE k # MaxDepth
    <3>1. k \in 1 .. MaxDepth - 1 /\ Way[k + 1] = stack[k + 1].name /\ Way[k] = stack[k].name
      BY <2>2, <1>8
    <3> QED  BY <3>1, <1>3, <1>7 DEF StackIsChain
  <2> QED  BY <2>1, <2>2
<1> HIDE DEF Way
<1>11. \A j, k \in 1 .. L : j < k => Way[j] # Way[k]
  <2> HIDE DEF L
  <2> QED  BY <1>3, <1>8, <1>9, <1>10, ChainDistinct
<1>12. \A j, k \in 1 .. L : j # k => Way[j] # Way[k]
  <2> SUFFICES ASSUME NEW j \in 1 .. L, NEW k \in 1 .. L, j # k PROVE Way[j] # Way[k]
    OBVIOUS
  <2>1. j < k \/ k < j
    BY <1>8
  <2> QED  BY <1>11, <2>1
<1>13. /\ IsFiniteSet(S) /\ Cardinality(S) = Cardinality(Names) - 1
       /\ Cardinality(S) \in Nat /\ Cardinality(Names) \in Nat
  BY NamesAssumption, FS_RemoveElement, FS_CardinalityType
<1>14. IsFiniteSet(1 .. L) /\ Cardinality(1 .. L) = L
  <2>1. 1 \in Int /\ L \in Int /\ ~(1 > L) /\ L - 1 + 1 = L
    BY <1>8
  <2> QED  BY <2>1, FS_Interval
<1>15. Way \in [1 .. L -> S]
  BY <1>4, <1>9
<1>16. ~(Cardinality(S) < Cardinality(1 .. L))
  <2> HIDE DEF L, S
  <2> QED  BY <1>12, <1>13, <1>14, <1>15, FS_PigeonHole
<1> QED  BY <1>8, <1>13, <1>14, <1>16

LEMMA MergeKept ==
  ASSUME IInv, IsFiniteSet(Names), pc = "panic" => ~MergeFails, [Next]_vars
  PROVE  (pc = "panic" => ~MergeFails)'
<1> SUFFICES ASSUME pc' = "panic" PROVE ~MergeFails'
  OBVIOUS
<1>1. args' = args
  BY DEF Next, CheckFile, InsertDecl, NextFile, StartSearch, Descend, Return, EndSearch,
         Retain, Pack, vars
<1>2. ~MergeFails
  <2>1. CASE CheckFile
    BY <2>1, CheckFileRefuses DEF MergeFails
  <2>2. CASE StartSearch
    BY <2>2, StartRefuses
  <2>3. CASE Descend
    BY <2>3, DescendChain DEF MergeFails
  <2>4. CASE InsertDecl \/ NextFile \/ Return \/ EndSearch \/ Retain \/ Pack \/ UNCHANGED vars
    BY <2>4 DEF InsertDecl, NextFile, Return, EndSearch, Retain, Pack, vars
  <2> QED  BY <2>1, <2>2, <2>3, <2>4 DEF Next
<1> QED  BY <1>1, <1>2 DEF MergeFails, AllSelfContained

\* Files that are good one by one and declare the top-level type never end the
\* program when merged, in any order and whatever they disagree about: no type
\* is missing, and no cycle makes the search exhaust its stack.  The names of
\* the files of one run are finitely many.
THEOREM MergingKeepsGood ==
  ASSUME IsFiniteSet(Names)
  PROVE  Spec => []GoodFilesMerge
<1> DEFINE Allowed == pc = "panic" => ~MergeFails
<1>1. Init => Allowed
  BY DEF Init
<1>2. IInv /\ Allowed /\ [Next]_vars => Allowed'
  BY MergeKept
<1>3. Allowed => GoodFilesMerge
  BY DEF MergeFails, GoodFilesMerge, AllSelfContained
<1> HIDE DEF Allowed
<1> QED  BY <1>1, <1>2, <1>3, Invariance, PTL DEF Spec
=============================================================================
