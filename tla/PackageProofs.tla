--------------------------- MODULE PackageProofs ---------------------------
(***************************************************************************)
(* Theorems about PackageProof: its types, what read-only trees keep of      *)
(* their files, what the accepted package is made of and which modes a run   *)
(* gives back.                                                               *)
(***************************************************************************)
EXTENDS PackageProof, FileTreeProofs

-----------------------------------------------------------------------------
(* Trees. *)

(* Two trees that differ in modes only.                                      *)
SameShape(one, other) ==
  /\ DOMAIN one = DOMAIN other
  /\ \A p \in DOMAIN one : one[p].kind = other[p].kind /\ one[p].data = other[p].data

(* A path is Root or has a first name, which is that of its parent if the    *)
(* parent is not Root.                                                       *)
LEMMA PathFacts ==
  ASSUME NEW p \in Paths
  PROVE  /\ p \in Seq(Names) /\ p # Root /\ Len(p) \in Nat \ {0}
         /\ Parent(p) \in {Root} \cup Paths
         /\ Parent(p) # Root => Parent(p)[1] = p[1]
<1>1. p \in Seq(Names) /\ p # Root BY TreeAssumption DEF Paths, Root
<1>2. Len(p) \in Nat \ {0} BY <1>1 DEF Root
<1>3. Len(p) - 1 \in 0..(Len(p) - 1) BY <1>2
<1>4. Parent(p) \in Above(p) BY <1>3 DEF Parent, Above
<1>5. Parent(p) \in {Root} \cup Paths BY <1>4, TreeAssumption
<1>6. ASSUME Parent(p) # Root PROVE Parent(p)[1] = p[1]
  <2>1. ASSUME Len(p) = 1 PROVE FALSE
    <3>1. SubSeq(p, 1, 1 - 1) = <<>> BY <1>1
    <3> QED BY <2>1, <3>1, <1>6 DEF Parent, Root
  <2>2. Len(p) >= 2 BY <2>1, <1>2
  <2>3. 1 \in 1..(Len(p) - 1) /\ Len(p) - 1 <= Len(p) BY <2>2, <1>2
  <2> QED BY <1>1, <1>2, <2>3 DEF Parent
<1> QED BY <1>1, <1>2, <1>5, <1>6

LEMMA NodeFacts ==
  ASSUME NEW p, NEW n \in NodesAt(p)
  PROVE  /\ n.mode \in Modes /\ n.kind \in {"dir", "file", "link"}
         /\ n.kind = "file" => p # Root /\ n.data \in Contents[p]
         /\ n.kind = "link" => p # Root /\ n.data \in Paths
         /\ n.kind # "link" => \A m \in Modes :
              LET new == [n EXCEPT !.mode = m]
              IN new \in NodesAt(p) /\ new.mode = m /\ new.kind = n.kind /\ new.data = n.data
<1>1. CASE \E m \in Modes : n = Dir(m)
  <2>1. PICK m \in Modes : n = Dir(m) BY <1>1
  <2>2. \A k \in Modes : [n EXCEPT !.mode = k] = Dir(k) BY <2>1 DEF Dir
  <2> QED BY <2>1, <2>2 DEF NodesAt, Dir
<1>2. CASE p # Root /\ \E q \in Paths : n = Link(q)
  BY <1>2 DEF Link, Modes
<1>3. CASE p # Root /\ \E m \in Modes, c \in Contents[p] : n = File(m, c)
  <2>1. PICK m \in Modes, c \in Contents[p] : n = File(m, c) BY <1>3
  <2>2. \A k \in Modes : [n EXCEPT !.mode = k] = File(k, c) BY <2>1 DEF File
  <2>3. \A k \in Modes : File(k, c) \in NodesAt(p) BY <1>3 DEF NodesAt
  <2> QED BY <1>3, <2>1, <2>2, <2>3 DEF File
<1> QED BY <1>1, <1>2, <1>3 DEF NodesAt

LEMMA ChmodFacts ==
  ASSUME NEW tree, NEW modes, IsTree(tree),
         \A p \in DOMAIN modes \cap DOMAIN tree : tree[p].kind # "link" /\ modes[p] \in Modes
  PROVE  /\ IsTree(Chmod(tree, modes)) /\ SameShape(tree, Chmod(tree, modes))
         /\ \A p \in DOMAIN tree :
              Chmod(tree, modes)[p].mode = IF p \in DOMAIN modes THEN modes[p] ELSE tree[p].mode
<1> DEFINE new == Chmod(tree, modes)
<1>1. DOMAIN new = DOMAIN tree /\ new = [p \in DOMAIN new |-> new[p]] BY DEF Chmod
<1>2. ASSUME NEW p \in DOMAIN tree
      PROVE  /\ new[p] \in NodesAt(p) /\ new[p].kind = tree[p].kind /\ new[p].data = tree[p].data
             /\ new[p].mode = IF p \in DOMAIN modes THEN modes[p] ELSE tree[p].mode
  <2>1. tree[p] \in NodesAt(p) BY DEF IsTree
  <2>2. CASE p \in DOMAIN modes
    <3>1. new[p] = [tree[p] EXCEPT !.mode = modes[p]] BY <2>2 DEF Chmod
    <3>2. tree[p].kind # "link" /\ modes[p] \in Modes BY <2>2
    <3> QED BY <2>1, <2>2, <3>1, <3>2, NodeFacts
  <2>3. CASE p \notin DOMAIN modes BY <2>1, <2>3 DEF Chmod
  <2> QED BY <2>2, <2>3
<1>3. DOMAIN new \subseteq {Root} \cup Paths BY <1>1 DEF IsTree
<1> HIDE DEF new
<1>4. IsTree(new) BY <1>1, <1>2, <1>3 DEF IsTree
<1>5. SameShape(tree, new) BY <1>1, <1>2 DEF SameShape
<1> QED BY <1>2, <1>4, <1>5 DEF new

LEMMA ShapeKeepsFiles ==
  ASSUME NEW one, NEW other, NEW excluded, SameShape(one, other)
  PROVE  /\ \A p : IsFile(one, p) <=> IsFile(other, p)
         /\ \A p : IsFile(one, p) => Bytes(one, p) = Bytes(other, p)
         /\ FilesIn(one, excluded) = FilesIn(other, excluded)
         /\ \A p \in FilesIn(one, excluded) : Bytes(one, p) = Bytes(other, p)
<1>1. \A p \in DOMAIN one : Follow(one, p) = Follow(other, p) BY DEF SameShape, Follow
<1>2. \A p : IsFile(one, p) <=> IsFile(other, p) BY <1>1 DEF SameShape, IsFile
<1>3. \A p : IsFile(one, p) => Bytes(one, p) = Bytes(other, p) BY <1>1 DEF SameShape, IsFile, Bytes
<1>4. Below(one, excluded) = Below(other, excluded) BY DEF SameShape, Below
<1>5. FilesIn(one, excluded) = FilesIn(other, excluded) BY <1>2, <1>4 DEF FilesIn
<1> QED BY <1>2, <1>3, <1>5 DEF FilesIn

LEMMA ShapeKeepsAlike ==
  ASSUME NEW first, NEW one, NEW other, NEW excluded,
         SameFiles(first, one, excluded), SameShape(one, other)
  PROVE  SameFiles(first, other, excluded)
<1>1. /\ FilesIn(one, excluded) = FilesIn(other, excluded)
      /\ \A p \in FilesIn(one, excluded) : Bytes(one, p) = Bytes(other, p)
  BY ShapeKeepsFiles
<1> QED BY <1>1 DEF SameFiles

LEMMA SameFilesReflexive == ASSUME NEW tree, NEW excluded PROVE SameFiles(tree, tree, excluded)
BY DEF SameFiles

-----------------------------------------------------------------------------
(* What tools do. *)

(* A path that a tool may change is no link and has its parent.              *)
LEMMA WithFacts ==
  ASSUME NEW tree, IsTree(tree), NEW p \in Paths, NEW data \in Contents[p],
         p \in DOMAIN tree => tree[p].kind = "file"
  PROVE  /\ IsTree(With(tree, p, data)) /\ DOMAIN With(tree, p, data) = DOMAIN tree \cup {p}
         /\ \A q \in DOMAIN tree \ {p} : With(tree, p, data)[q] = tree[q]
         /\ With(tree, p, data)[p].kind = "file"
         /\ p \in DOMAIN tree => With(tree, p, data)[p].mode = tree[p].mode
<1> DEFINE new == With(tree, p, data)
           mode == IF p \in DOMAIN tree THEN tree[p].mode ELSE {"w"}
<1>1. DOMAIN new = DOMAIN tree \cup {p} /\ new = [q \in DOMAIN new |-> new[q]] BY DEF With
<1>2. \A q \in DOMAIN tree \ {p} : new[q] = tree[q] BY DEF With
<1>3. new[p] = File(mode, data) BY DEF With
<1>4. mode \in Modes BY NodeFacts DEF IsTree, Modes
<1>5. p # Root BY PathFacts
<1>6. File(mode, data) \in NodesAt(p) BY <1>4, <1>5 DEF NodesAt
<1> HIDE DEF new
<1>7. IsTree(new) BY <1>1, <1>2, <1>3, <1>6 DEF IsTree
<1>8. new[p].kind = "file" /\ new[p].mode = mode BY <1>3 DEF File
<1> QED BY <1>1, <1>2, <1>7, <1>8 DEF new

LEMMA WithoutFacts ==
  ASSUME NEW tree, IsTree(tree), NEW p
  PROVE  /\ IsTree(Without(tree, p)) /\ DOMAIN Without(tree, p) = DOMAIN tree \ {p}
         /\ \A q \in DOMAIN tree \ {p} : Without(tree, p)[q] = tree[q]
BY DEF IsTree, Without

(* No link of a tree leads to what is excluded.                              *)
LinksStay(tree, excluded) ==
  \A p \in DOMAIN tree : tree[p].kind = "link" => tree[p].data[1] \notin excluded

(* What changes below excluded names only has the same files.                *)
LEMMA HiddenChange ==
  ASSUME NEW tree, NEW new, NEW p \in Paths, NEW excluded, IsTree(tree),
         LinksStay(tree, excluded), p[1] \in excluded,
         DOMAIN tree \ {p} = DOMAIN new \ {p},
         \A q \in DOMAIN tree \ {p} : new[q] = tree[q]
  PROVE  SameFiles(tree, new, excluded)
<1>1. Below(tree, excluded) = Below(new, excluded) BY DEF Below
<1>2. ASSUME NEW q \in Below(tree, excluded)
      PROVE  /\ q \in DOMAIN tree \ {p} /\ q \in DOMAIN new /\ new[q] = tree[q]
             /\ Follow(tree, q) # p /\ Follow(new, q) = Follow(tree, q)
  BY DEF Below, LinksStay, Follow
<1>3. \A q \in Below(tree, excluded) : IsFile(tree, q) <=> IsFile(new, q) BY <1>2 DEF IsFile
<1>4. FilesIn(tree, excluded) = FilesIn(new, excluded) BY <1>1, <1>3 DEF FilesIn
<1>5. \A q \in FilesIn(tree, excluded) : Bytes(tree, q) = Bytes(new, q)
  BY <1>2 DEF FilesIn, IsFile, Bytes
<1> QED BY <1>4, <1>5 DEF SameFiles

(* Nothing but what is excluded may be written.                              *)
Closed(tree, excluded) ==
  \A p \in DOMAIN tree :
    /\ p = Root => "w" \notin tree[p].mode
    /\ p # Root /\ p[1] \notin excluded /\ tree[p].kind # "link" => "w" \notin tree[p].mode

LEMMA ClosedProtects ==
  ASSUME NEW tree, NEW excluded, IsTree(tree), Closed(tree, excluded), NEW p \in Changeable(tree, TRUE)
  PROVE  p \in Paths /\ p[1] \in excluded
<1>1. /\ p \in Paths /\ Parent(p) \in DOMAIN tree /\ tree[Parent(p)].kind = "dir"
      /\ p \in DOMAIN tree => tree[p].kind = "file"
      /\ "w" \in tree[Parent(p)].mode \/ (p \in DOMAIN tree /\ "w" \in tree[p].mode)
  BY DEF Changeable, MayWrite
<1>2. CASE p \in DOMAIN tree /\ "w" \in tree[p].mode BY <1>1, <1>2, PathFacts DEF Closed
<1>3. CASE "w" \in tree[Parent(p)].mode BY <1>1, <1>3, PathFacts DEF Closed
<1> QED BY <1>1, <1>2, <1>3

-----------------------------------------------------------------------------
(* The invariant. *)

Guarding == {"freeze", "restore"} \cup Consuming
Early == {"idle", "export", "write", "download", "build", "inspect", "measure"}

(* Links lead to nothing hidden, a module cache has none, and while a tree   *)
(* is guarded no path becomes one.                                           *)
Linked ==
  /\ \A name \in TreeNames : LinksStay(trees[name], Hidden(name))
  /\ \A p \in DOMAIN trees["cache"] : trees["cache"][p].kind # "link"
  /\ pc \in Guarding => \A name \in Guarded(kind) : \A p \in DOMAIN trees[name] :
       trees[name][p].kind = "link" => p \in DOMAIN before[name] /\ before[name][p].kind = "link"

(* Measured before the freeze, closed from then on.                          *)
Measured ==
  /\ pc \in Early => before = NoTrees
  /\ pc = "freeze" => \A name \in Guarded(kind) : trees[name] = before[name]
  /\ bound /\ pc \in Consuming \cup {"restore"} =>
       \A name \in Guarded(kind) : Closed(trees[name], Hidden(name))

(* The header of the Go module, from the export to the consumer.             *)
InHand == pc \in {"use", "compare", "check", "accepted"} \/ (pc = "restore" /\ ~failed)
GoHeader ==
  kind = "go" =>
    LET h == Header("go") IN
    /\ pc = "measure" => /\ h \in DOMAIN trees["cache"] /\ trees["cache"][h].kind = "file"
                         /\ Bytes(trees["cache"], h) = Bytes(trees["export"], h)
    /\ pc \in {"freeze", "install", "installed"} => Bytes(trees["export"], h) = checked
    /\ InHand => product.file = checked

(* The AAR, from the inspection to the APK.                                  *)
Fit(aar) == \A abi \in Abis : Machine[Unpacked[aar].jni[abi]] = abi
IsAar(repository) == IsFile(repository, Aar) /\ Bytes(repository, Aar) = checked
AndroidAar ==
  kind = "android" =>
    /\ pc \in {"measure", "check"} \cup Guarding => Fit(checked)
    /\ pc = "measure" => IsAar(trees["repository"])
    /\ pc \in {"check"} \cup Guarding => IsAar(before["repository"])
    /\ bound /\ pc = "accepted" =>
         product.file = checked /\ \A abi \in Abis : Machine[product.libraries[abi]] = abi

Flow ==
  /\ pc \in {"download", "install", "installed", "use"} => kind = "go"
  /\ pc \in {"build", "inspect", "resolve", "assemble"} => kind = "android"
IInv == TypeOK /\ Flow /\ Linked /\ Measured /\ GoHeader /\ AndroidAar /\ ModesProtect /\ ModesComeBack

(* What a step leaves that touches no tree and does not measure.             *)
Quiet == UNCHANGED <<kind, bound, trees, before>>
LEMMA QuietKeepsTrees ==
  ASSUME IInv, Quiet, pc' \in Guarding => pc \in Guarding, pc' # "freeze",
         pc' \in Early => pc \in Early,
         pc' \in Consuming \cup {"restore"} => pc \in Consuming \cup {"restore"},
         pc' \in {"check", "accepted"} => pc \in Consuming \cup {"restore", "check", "accepted"},
         pc' \in {"check", "accepted", "rejected"} =>
           pc \in {"check", "accepted", "rejected"} \cup Early
  PROVE  Linked' /\ Measured' /\ ModesProtect' /\ ModesComeBack'
<1>1. Linked' BY DEF IInv, Quiet, Linked
<1>2. Measured' BY DEF IInv, Quiet, Measured, Early
<1>3. ModesProtect'
  BY DEF IInv, Quiet, ModesProtect, Alike
<1>4. ModesComeBack'
  <2>1. CASE pc \in Early
    BY <2>1 DEF IInv, Quiet, Measured, Early, ModesComeBack
  <2>2. CASE pc \notin Early
    BY <2>2 DEF IInv, Quiet, ModesComeBack, NoneGone, Saved
  <2> QED BY <2>1, <2>2
<1> QED BY <1>1, <1>2, <1>3, <1>4

LEMMA InspectStep == ASSUME IInv, Inspect PROVE IInv'
<1>1. Linked' /\ Measured' /\ ModesProtect' /\ ModesComeBack'
  BY QuietKeepsTrees DEF Inspect, Goto, Stays, Kept, Quiet, Early, Guarding, Consuming
<1>2. IsTree(trees["repository"]) BY DEF IInv, TypeOK, TreeNames
<1>3. TypeOK' BY <1>2, BytesTyped DEF IInv, TypeOK, Inspect, Goto, Stays, Kept, PCs
<1>4. Flow' /\ GoHeader' BY DEF IInv, Flow, GoHeader, Inspect, Goto, Stays, Kept
<1>5. AndroidAar'
  BY DEF IInv, Flow, AndroidAar, Inspect, Goto, Stays, Kept, Guarding, Consuming, IsAar, Fit, IsSound
<1> QED BY <1>1, <1>3, <1>4, <1>5 DEF IInv

LEMMA InstallStep == ASSUME IInv, Install PROVE IInv'
<1>1. Linked' /\ Measured' /\ ModesProtect' /\ ModesComeBack'
  BY QuietKeepsTrees DEF Install, Goto, Stays, Kept, Quiet, Early, Guarding, Consuming
<1>2. Flow' /\ GoHeader' BY DEF IInv, Flow, GoHeader, InHand, Install, Goto, Stays, Kept
<1>3. AndroidAar' BY DEF IInv, Flow, AndroidAar, Install, Goto, Stays, Kept
<1>4. TypeOK'
  <2>1. PICK header \in Contents[Header(kind)] : product' = [NoProduct EXCEPT !.file = header] BY DEF Install
  <2>2. Header(kind) \in Paths
    BY PackageAssumption DEF IInv, Flow, Install, Goto
  <2>3. product'.file = header /\ product'.libraries = Nothing BY <2>1 DEF NoProduct
  <2> QED BY <2>2, <2>3 DEF IInv, TypeOK, Install, Goto, Stays, Kept, PCs, Consuming
<1> QED BY <1>1, <1>2, <1>3, <1>4 DEF IInv

LEMMA InstalledStep == ASSUME IInv, Installed PROVE IInv'
<1>1. Linked' /\ Measured' /\ ModesProtect' /\ ModesComeBack'
  BY QuietKeepsTrees DEF Installed, Goto, Stays, Kept, Quiet, Early, Guarding, Consuming
<1>2. TypeOK' BY DEF IInv, TypeOK, Installed, Goto, Stays, Kept, PCs, Consuming
<1>3. Flow' /\ GoHeader' BY DEF IInv, Flow, GoHeader, InHand, Installed, Goto, Stays, Kept
<1>4. AndroidAar' BY DEF IInv, Flow, AndroidAar, Installed, Goto, Stays, Kept
<1> QED BY <1>1, <1>2, <1>3, <1>4 DEF IInv

LEMMA PassStep == ASSUME IInv, Use \/ Resolve \/ Compare PROVE IInv'
<1> USE DEF Use, Resolve, Compare, Goto, Stays, Kept
<1>1. Linked' /\ Measured' /\ ModesProtect' /\ ModesComeBack'
  BY QuietKeepsTrees DEF Quiet, Early, Guarding, Consuming
<1>2. TypeOK' BY DEF IInv, TypeOK, PCs, Consuming
<1>3. Flow' /\ GoHeader' BY DEF IInv, Flow, GoHeader, InHand
<1>4. AndroidAar' BY DEF IInv, Flow, AndroidAar, Guarding, Consuming, IsAar, Fit
<1> QED BY <1>1, <1>2, <1>3, <1>4 DEF IInv

LEMMA AssembleStep == ASSUME IInv, Assemble PROVE IInv'
<1>1. Linked' /\ Measured' /\ ModesProtect' /\ ModesComeBack'
  BY QuietKeepsTrees DEF Assemble, Goto, Stays, Kept, Quiet, Early, Guarding, Consuming
<1>2. Flow' /\ GoHeader' BY DEF IInv, Flow, GoHeader, Assemble, Goto, Stays, Kept
<1>3. AndroidAar'
  BY DEF IInv, Flow, AndroidAar, Assemble, Goto, Stays, Kept, Guarding, Consuming, IsAar, Fit
<1>4. TypeOK'
  <2>1. PICK aar \in Contents[Aar], libraries \in [Abis -> Slices] :
          product' = [file |-> aar, libraries |-> libraries] BY DEF Assemble
  <2>2. Aar \in Paths BY PackageAssumption
  <2> QED BY <2>1, <2>2 DEF IInv, TypeOK, Assemble, Goto, Stays, Kept, PCs, Consuming
<1> QED BY <1>1, <1>2, <1>3, <1>4 DEF IInv

LEMMA CheckStep == ASSUME IInv, Check PROVE IInv'
<1>1. Linked' /\ Measured' /\ ModesProtect' /\ ModesComeBack'
  BY QuietKeepsTrees DEF Check, Goto, Stays, Kept, Quiet, Early, Guarding, Consuming
<1>2. TypeOK' BY DEF IInv, TypeOK, Check, Goto, Stays, Kept, PCs, Ended
<1>3. Flow' /\ GoHeader' BY DEF IInv, Flow, GoHeader, InHand, Check, Goto, Stays, Kept
<1>4. AndroidAar'
  <2>1. SUFFICES ASSUME kind = "android", bound
                 PROVE  product.file = checked /\ \A abi \in Abis : Machine[product.libraries[abi]] = abi
    BY DEF AndroidAar, Check, Goto, Stays, Kept, Guarding, Consuming
  <2>2. Alike("repository")
    BY <2>1 DEF IInv, ModesProtect, Check, Goto, Guarded
  <2>3. IsFile(before["repository"], Aar) /\ Bytes(before["repository"], Aar) = checked /\ Fit(checked)
    BY <2>1 DEF IInv, AndroidAar, IsAar, Check, Goto
  <2>4. Aar \in FilesIn(before["repository"], Hidden("repository"))
    BY <2>3 DEF FilesIn, Below, IsFile, Hidden, Aar, Root
  <2>5. Bytes(trees["repository"], Aar) = checked BY <2>2, <2>3, <2>4 DEF Alike, SameFiles
  <2>6. product.file = checked /\ product.libraries = Unpacked[checked].jni
    BY <2>1, <2>5 DEF Check
  <2> QED BY <2>3, <2>6 DEF Fit
<1> QED BY <1>1, <1>2, <1>3, <1>4 DEF IInv

LEMMA NoTreesTyped == DOMAIN NoTrees = TreeNames /\ \A name \in TreeNames : IsTree(NoTrees[name])
<1>1. IsTree(NoTree) BY DEF IsTree, NoTree
<1> QED BY <1>1 DEF NoTrees

LEMMA StopStep == ASSUME IInv, Fails \/ Kill \/ Refuse PROVE IInv'
<1>1. CASE Fails
  <2>1. /\ Quiet
        /\ \/ pc \in Consuming /\ pc' = "restore"
           \/ pc \in Early \cup {"check"} /\ pc' = "rejected"
    BY <1>1 DEF Fails, InTry, Stays, Kept, Quiet, Early, Consuming, Tools
  <2>2. ASSUME pc \in Consuming, pc' = "restore"
        PROVE  Linked' /\ Measured' /\ ModesProtect' /\ ModesComeBack'
    <3>1. /\ pc \in Guarding /\ pc \in Consuming \cup {"restore"} /\ pc' # "freeze"
          /\ pc' \notin Early /\ pc' \notin {"check", "accepted"} /\ pc' \notin {"check", "accepted", "rejected"}
      BY <2>2 DEF Guarding, Early
    <3> QED BY <2>1, <3>1, QuietKeepsTrees
  <2>3. ASSUME pc \in Early \cup {"check"}, pc' = "rejected"
        PROVE  Linked' /\ Measured' /\ ModesProtect' /\ ModesComeBack'
    BY <2>1, <2>3, QuietKeepsTrees DEF Early, Guarding, Consuming
  <2>4. Linked' /\ Measured' /\ ModesProtect' /\ ModesComeBack' BY <2>1, <2>2, <2>3
  <2> USE <1>1 DEF Fails, InTry, Stays, Kept
  <2>5. TypeOK' BY DEF IInv, TypeOK, PCs, Ended
  <2>6. Flow' /\ GoHeader' BY DEF IInv, Flow, GoHeader, InHand
  <2>7. AndroidAar' BY DEF IInv, Flow, AndroidAar, Guarding, Consuming, IsAar, Fit
  <2> QED BY <2>4, <2>5, <2>6, <2>7 DEF IInv
<1>2. CASE Kill
  <2> USE <1>2 DEF Kill, Stays, Kept
  <2>1. Linked' /\ Measured' /\ ModesProtect' /\ ModesComeBack'
    BY QuietKeepsTrees DEF Quiet, Early, Guarding, Consuming
  <2>2. TypeOK' BY DEF IInv, TypeOK, PCs, Ended
  <2>3. Flow' /\ GoHeader' /\ AndroidAar' BY DEF Flow, GoHeader, InHand, AndroidAar, Guarding, Consuming
  <2> QED BY <2>1, <2>2, <2>3 DEF IInv
<1>3. CASE Refuse
  <2> USE <1>3 DEF Refuse
  <2>1. Linked' /\ Measured' BY DEF IInv, Linked, Measured, Early, Guarding, Consuming
  <2>2. TypeOK'
    <3>1. TypeOK /\ runs' \in 0..MaxRuns BY PackageAssumption DEF IInv, TypeOK
    <3>2. product'.file = Nothing /\ product'.libraries = Nothing BY DEF NoProduct
    <3>3. DOMAIN before' = TreeNames /\ \A name \in TreeNames : IsTree(before'[name]) BY NoTreesTyped
    <3> QED BY <3>1, <3>2, <3>3 DEF TypeOK, PCs, Ended
  <2>4. ModesProtect' /\ ModesComeBack' BY DEF ModesProtect, ModesComeBack, Consuming
  <2>3. Flow' /\ GoHeader' /\ AndroidAar' BY DEF Flow, GoHeader, InHand, AndroidAar, Guarding, Consuming
  <2> QED BY <2>1, <2>2, <2>3, <2>4 DEF IInv
<1> QED BY <1>1, <1>2, <1>3

-----------------------------------------------------------------------------
(* Steps that make trees. *)

LEMMA PlainTree ==
  ASSUME NEW e, DOMAIN e \subseteq Paths,
         \A p \in DOMAIN e : e[p].mode = "100644" /\ e[p].data \in Contents[p]
  PROVE  /\ IsTree(OnDisk(e)) /\ DOMAIN e \subseteq DOMAIN OnDisk(e)
         /\ \A p \in DOMAIN OnDisk(e) : OnDisk(e)[p].kind # "link"
         /\ \A p \in DOMAIN e : OnDisk(e)[p] = File({"w"}, e[p].data)
<1> DEFINE tree == OnDisk(e)
<1>1. DOMAIN tree = {Root} \cup DOMAIN e \cup UNION {Above(q) : q \in DOMAIN e} /\ tree = [p \in DOMAIN tree |-> tree[p]]
  BY DEF OnDisk
<1>2. \A p \in DOMAIN e : tree[p] = File({"w"}, e[p].data) BY DEF OnDisk, Put
<1>3. \A p \in DOMAIN tree \ DOMAIN e : tree[p] = Dir({"w", "x"}) BY DEF OnDisk
<1>4. DOMAIN tree \subseteq {Root} \cup Paths BY <1>1, TreeAssumption
<1> HIDE DEF tree
<1>5. ASSUME NEW p \in DOMAIN e PROVE File({"w"}, e[p].data) \in NodesAt(p)
  BY PathFacts DEF NodesAt, Modes
<1>6. \A p : Dir({"w", "x"}) \in NodesAt(p) BY DEF NodesAt, Modes
<1>7. IsTree(tree) BY <1>1, <1>2, <1>3, <1>4, <1>5, <1>6 DEF IsTree
<1>8. ASSUME NEW p \in DOMAIN tree PROVE tree[p].kind # "link"
  <2>1. CASE p \in DOMAIN e
    <3>1. tree[p] = File({"w"}, e[p].data) BY <1>2, <2>1
    <3> QED BY <3>1 DEF File
  <2>2. CASE p \notin DOMAIN e
    <3>1. tree[p] = Dir({"w", "x"}) BY <1>3, <2>2
    <3> QED BY <3>1 DEF Dir
  <2> QED BY <2>1, <2>2
<1> QED BY <1>1, <1>2, <1>7, <1>8 DEF tree

LEMMA ModuleFacts ==
  ASSUME NEW tree, IsTree(tree), NEW names, NEW files \in ModuleFiles(tree, names), Required \subseteq files,
         NEW e, e = [p \in files |-> [mode |-> "100644", data |-> tree[p].data]],
         NEW cache, cache = ChmodAll(OnDisk(e), {"x"}, {})
  PROVE  LET h == Header("go") IN
         /\ IsTree(cache) /\ \A p \in DOMAIN cache : cache[p].kind # "link"
         /\ h \in DOMAIN cache /\ cache[h].kind = "file" /\ Bytes(cache, h) = Bytes(tree, h)
<1> DEFINE h == Header("go")
<1>1. files \subseteq DOMAIN tree /\ \A p \in files : tree[p].kind = "file"
  BY DEF ModuleFiles
<1>2. \A p \in files : p \in Paths /\ tree[p].data \in Contents[p]
  BY <1>1, NodeFacts DEF IsTree
<1>3. /\ IsTree(OnDisk(e)) /\ DOMAIN e \subseteq DOMAIN OnDisk(e)
      /\ \A p \in DOMAIN OnDisk(e) : OnDisk(e)[p].kind # "link"
      /\ \A p \in DOMAIN e : OnDisk(e)[p] = File({"w"}, e[p].data)
  BY <1>2, PlainTree
<1>4. IsTree(cache) /\ SameShape(OnDisk(e), cache)
  BY <1>3, ChmodFacts DEF ChmodAll, Modes
<1>5. h \in files BY PackageAssumption
<1>6. h \in DOMAIN cache /\ cache[h].kind = "file" /\ cache[h].data = tree[h].data
  <2>1. h \in DOMAIN e /\ e[h].data = tree[h].data BY <1>5
  <2>2. OnDisk(e)[h] = File({"w"}, tree[h].data) BY <1>3, <2>1
  <2>3. OnDisk(e)[h].kind = "file" /\ OnDisk(e)[h].data = tree[h].data BY <2>2 DEF File
  <2> QED BY <1>3, <1>4, <2>1, <2>3 DEF SameShape
<1>7. Bytes(cache, h) = Bytes(tree, h) BY <1>1, <1>5, <1>6 DEF Bytes, Follow
<1> QED BY <1>3, <1>4, <1>6, <1>7 DEF SameShape

LEMMA ExportLinks ==
  ASSUME NEW k \in Kinds, NEW e \in Exports[k]
  PROVE  IsTree(OnDisk(e)) /\ LinksStay(OnDisk(e), BuildNames)
<1>1. \A p \in DOMAIN OnDisk(e) : OnDisk(e)[p].kind = "link" =>
        p \in DOMAIN e /\ e[p].mode = "120000" /\ OnDisk(e)[p].data = e[p].data
  BY DEF OnDisk, Put, Dir, File, Link
<1> QED BY <1>1, PackageAssumption DEF LinksStay

(* What is written of an export is a tree, too, and grows file by file.      *)
Part(e, S) == [p \in S |-> e[p]]
LEMMA PartFacts ==
  ASSUME NEW k \in Kinds, NEW e \in Exports[k], NEW S \in SUBSET DOMAIN e
  PROVE  IsTree(OnDisk(Part(e, S))) /\ LinksStay(OnDisk(Part(e, S)), BuildNames)
<1> DEFINE whole == OnDisk(e)
           part == OnDisk(Part(e, S))
<1>1. IsTree(whole) /\ LinksStay(whole, BuildNames) BY ExportLinks
<1>2. DOMAIN part \subseteq DOMAIN whole /\ S \subseteq DOMAIN whole BY DEF OnDisk, Part
<1>3. part = [p \in DOMAIN part |-> part[p]] BY DEF OnDisk
<1>4. \A p \in S : part[p] = whole[p] BY DEF OnDisk, Part
<1>5. \A p \in DOMAIN part \ S : part[p] = Dir({"w", "x"}) BY DEF OnDisk, Part
<1> HIDE DEF whole, part
<1>6. \A p : Dir({"w", "x"}) \in NodesAt(p) BY DEF NodesAt, Modes
<1>7. IsTree(part) BY <1>1, <1>2, <1>3, <1>4, <1>5, <1>6 DEF IsTree
<1>8. Dir({"w", "x"}).kind # "link" BY DEF Dir
<1>9. LinksStay(part, BuildNames) BY <1>1, <1>2, <1>4, <1>5, <1>8 DEF LinksStay
<1> QED BY <1>7, <1>9 DEF part

LEMMA PartGrows ==
  ASSUME NEW e, NEW S, NEW q
  PROVE  Adding(OnDisk(Part(e, S)), q, e[q]) = OnDisk(Part(e, S \cup {q}))
<1> DEFINE part == OnDisk(Part(e, S))
           more == OnDisk(Part(e, S \cup {q}))
           grown == Adding(part, q, e[q])
<1>1. DOMAIN part = {Root} \cup S \cup UNION {Above(p) : p \in S} BY DEF OnDisk, Part
<1>2. DOMAIN more = {Root} \cup (S \cup {q}) \cup UNION {Above(p) : p \in S \cup {q}} BY DEF OnDisk, Part
<1>3. DOMAIN grown = DOMAIN part \cup Above(q) \cup {q} BY DEF Adding
<1>4. DOMAIN grown = DOMAIN more BY <1>1, <1>2, <1>3
<1>5. ASSUME NEW p \in DOMAIN more PROVE grown[p] = more[p]
  <2>1. more[p] = IF p \in S \cup {q} THEN Put(e[p]) ELSE Dir({"w", "x"}) BY DEF OnDisk, Part
  <2>2. p \in DOMAIN part => part[p] = IF p \in S THEN Put(e[p]) ELSE Dir({"w", "x"}) BY DEF OnDisk, Part
  <2>3. grown[p] = IF p = q THEN Put(e[q]) ELSE IF p \in DOMAIN part THEN part[p] ELSE Dir({"w", "x"})
    BY <1>4 DEF Adding
  <2> QED BY <1>1, <2>1, <2>2, <2>3
<1>6. grown = [p \in DOMAIN grown |-> grown[p]] /\ more = [p \in DOMAIN more |-> more[p]] BY DEF Adding, OnDisk
<1> QED BY <1>4, <1>5, <1>6

LEMMA NoPart == ASSUME NEW e PROVE NewDir = OnDisk(Part(e, {}))
BY DEF NewDir, OnDisk, Part

LEMMA WholePart == ASSUME NEW e PROVE OnDisk(Part(e, DOMAIN e)) = OnDisk(e)
BY DEF OnDisk, Part

(* write_export has written just what is not left.                           *)
Exporting ==
  pc = "write" =>
    \E e \in Exports[kind] :
      /\ DOMAIN left \subseteq DOMAIN e /\ \A p \in DOMAIN left : left[p] = e[p]
      /\ trees["export"] = OnDisk(Part(e, DOMAIN e \ DOMAIN left))

LEMMA ExportPaths ==
  ASSUME NEW k \in Kinds, NEW e \in Exports[k]
  PROVE  DOMAIN e \subseteq {Root} \cup Paths
<1>1. DOMAIN e \subseteq DOMAIN OnDisk(e) BY DEF OnDisk
<1> QED BY <1>1, ExportLinks DEF IsTree

(* A step of write_export leaves everything but the export as it is.         *)
LEMMA ExportedStep ==
  ASSUME IInv, pc \in {"export", "write"}, pc' = "write", Kept,
         UNCHANGED <<before, failed, checked, product>>,
         DOMAIN left' \subseteq {Root} \cup Paths,
         NEW tree, trees' = [trees EXCEPT !["export"] = tree],
         IsTree(tree), LinksStay(tree, BuildNames)
  PROVE  IInv'
<1> USE DEF Kept
<1>1. /\ DOMAIN trees' = TreeNames /\ trees'["export"] = tree
      /\ \A name \in TreeNames \ {"export"} : trees'[name] = trees[name]
  BY DEF IInv, TypeOK, TreeNames
<1>2. TypeOK'
  <2>1. TypeOK BY DEF IInv
  <2>2. \A name \in TreeNames : IsTree(trees'[name]) BY <1>1, <2>1 DEF TypeOK
  <2> QED BY <1>1, <2>1, <2>2 DEF TypeOK, PCs
<1>3. Linked' BY <1>1 DEF IInv, Linked, Hidden, TreeNames, Guarding, Consuming
<1>4. Flow' /\ Measured' /\ ModesProtect' /\ ModesComeBack'
  BY DEF IInv, Flow, Measured, Early, ModesProtect, ModesComeBack, Consuming
<1>5. GoHeader' /\ AndroidAar' BY DEF GoHeader, InHand, AndroidAar, Guarding, Consuming
<1> QED BY <1>2, <1>3, <1>4, <1>5 DEF IInv

LEMMA OpenExportStep == ASSUME IInv, OpenExport PROVE IInv' /\ Exporting'
<1>1. /\ pc = "export" /\ pc' = "write" /\ trees' = [trees EXCEPT !["export"] = NewDir]
      /\ UNCHANGED <<before, failed, checked, product>> /\ Kept
  BY DEF OpenExport, Goto
<1>2. PICK e \in Exports[kind] : left' = e BY DEF OpenExport
<1>3. kind \in Kinds /\ DOMAIN trees = TreeNames BY DEF IInv, TypeOK
<1>4. NewDir = OnDisk(Part(e, {})) BY NoPart
<1>5. IsTree(NewDir) /\ LinksStay(NewDir, BuildNames)
  <2>1. {} \in SUBSET DOMAIN e OBVIOUS
  <2> QED BY <1>3, <1>4, <2>1, PartFacts
<1>6. IInv' BY <1>1, <1>2, <1>3, <1>5, ExportPaths, ExportedStep
<1>7. Exporting'
  <2>1. kind' = kind /\ trees'["export"] = NewDir BY <1>1, <1>3 DEF Kept, TreeNames
  <2>2. DOMAIN e \ DOMAIN left' = {} BY <1>2
  <2>3. trees'["export"] = OnDisk(Part(e, DOMAIN e \ DOMAIN left')) BY <1>4, <2>1, <2>2
  <2> QED BY <1>2, <2>1, <2>3 DEF Exporting
<1> QED BY <1>6, <1>7

LEMMA WriteFileStep == ASSUME IInv, Exporting, WriteFile PROVE IInv' /\ Exporting'
<1>1. PICK p \in DOMAIN left :
        /\ trees' = [trees EXCEPT !["export"] = Adding(trees["export"], p, left[p])]
        /\ left' = [q \in DOMAIN left \ {p} |-> left[q]]
  BY DEF WriteFile
<1>2. /\ pc = "write" /\ pc' = "write" /\ Kept
      /\ UNCHANGED <<before, failed, checked, product>>
  BY DEF WriteFile
<1>3. PICK e \in Exports[kind] :
        /\ DOMAIN left \subseteq DOMAIN e /\ \A q \in DOMAIN left : left[q] = e[q]
        /\ trees["export"] = OnDisk(Part(e, DOMAIN e \ DOMAIN left))
  BY <1>2 DEF Exporting
<1>4. kind \in Kinds /\ DOMAIN trees = TreeNames BY DEF IInv, TypeOK
<1> DEFINE S == DOMAIN e \ DOMAIN left
           tree == OnDisk(Part(e, S \cup {p}))
<1>5. Adding(trees["export"], p, left[p]) = tree BY <1>3, PartGrows
<1>6. S \cup {p} \in SUBSET DOMAIN e /\ DOMAIN e \ DOMAIN left' = S \cup {p} BY <1>1, <1>3
<1>7. IsTree(tree) /\ LinksStay(tree, BuildNames) BY <1>4, <1>6, PartFacts
<1>8. DOMAIN left' \subseteq {Root} \cup Paths BY <1>1 DEF IInv, TypeOK
<1>9. trees' = [trees EXCEPT !["export"] = tree] BY <1>1, <1>5
<1> HIDE DEF tree
<1>10. IInv' BY <1>2, <1>7, <1>8, <1>9, ExportedStep
<1>11. Exporting'
  <2>1. kind' = kind /\ trees'["export"] = tree BY <1>2, <1>4, <1>9 DEF Kept, TreeNames
  <2>2. trees'["export"] = OnDisk(Part(e, DOMAIN e \ DOMAIN left')) BY <1>6, <2>1 DEF tree
  <2>3. DOMAIN left' \subseteq DOMAIN e /\ \A q \in DOMAIN left' : left'[q] = e[q] BY <1>1, <1>3
  <2> QED BY <2>1, <2>2, <2>3 DEF Exporting
<1> QED BY <1>10, <1>11

LEMMA EndExportStep == ASSUME IInv, Exporting, EndExport PROVE IInv'
<1> USE DEF EndExport, Goto, First, Stays, Kept
<1>1. Linked' /\ Measured' /\ ModesProtect' /\ ModesComeBack'
  BY QuietKeepsTrees DEF Quiet, Early, Guarding, Consuming
<1>2. TypeOK' BY DEF IInv, TypeOK, PCs, Tools
<1>3. Flow' /\ GoHeader' /\ AndroidAar'
  BY DEF IInv, TypeOK, Kinds, Flow, GoHeader, InHand, AndroidAar, Guarding, Consuming
<1> QED BY <1>1, <1>2, <1>3 DEF IInv

LEMMA BeginStep == ASSUME IInv, Begin PROVE IInv'
<1> USE DEF Begin, First
<1>2. TypeOK'
  <2>1. TypeOK /\ runs' \in 0..MaxRuns BY PackageAssumption DEF IInv, TypeOK
  <2>2. product'.file = Nothing /\ product'.libraries = Nothing BY DEF NoProduct
  <2>3. DOMAIN before' = TreeNames /\ \A name \in TreeNames : IsTree(before'[name]) BY NoTreesTyped
  <2>4. DOMAIN trees' = TreeNames /\ \A name \in TreeNames : IsTree(trees'[name]) BY <2>1 DEF TypeOK
  <2>5. pc' \in PCs BY DEF PCs, First, Tools
  <2> QED BY <2>1, <2>2, <2>3, <2>4, <2>5 DEF TypeOK
<1>3. Linked' BY DEF IInv, Linked, Guarding, Consuming
<1>4. Measured' BY DEF Measured, Early, Consuming
<1>5. Flow' /\ GoHeader' /\ AndroidAar'
  BY DEF IInv, TypeOK, Kinds, Flow, GoHeader, InHand, AndroidAar, Guarding, Consuming
<1>6. ModesProtect' /\ ModesComeBack' BY DEF ModesProtect, ModesComeBack, Consuming
<1> QED BY <1>2, <1>3, <1>4, <1>5, <1>6 DEF IInv

LEMMA DownloadStep == ASSUME IInv, Download PROVE IInv'
<1> DEFINE h == Header("go")
<1>1. PICK files \in ModuleFiles(trees["export"], MetadataNames) :
        /\ Required \subseteq files
        /\ trees' = [trees EXCEPT !["cache"] =
             ChmodAll(OnDisk([p \in files |-> [mode |-> "100644", data |-> trees["export"][p].data]]), {"x"}, {})]
  BY DEF Download, Zipped
<1>2. DOMAIN trees = TreeNames /\ \A name \in TreeNames : IsTree(trees[name]) BY DEF IInv, TypeOK
<1>3. DOMAIN trees' = TreeNames /\ \A name \in TreeNames \ {"cache"} : trees'[name] = trees[name]
  BY <1>1, <1>2
<1>4. /\ IsTree(trees'["cache"]) /\ \A p \in DOMAIN trees'["cache"] : trees'["cache"][p].kind # "link"
      /\ h \in DOMAIN trees'["cache"] /\ trees'["cache"][h].kind = "file"
      /\ Bytes(trees'["cache"], h) = Bytes(trees["export"], h)
  BY <1>1, <1>2, ModuleFacts DEF TreeNames
<1>5. TypeOK' BY <1>2, <1>3, <1>4 DEF IInv, TypeOK, Download, Goto, Stays, Kept, PCs
<1>6. Linked' BY <1>3, <1>4 DEF IInv, Linked, LinksStay, TreeNames, Download, Goto, Guarding, Consuming
<1>7. Flow' /\ Measured' /\ ModesProtect' /\ ModesComeBack' /\ AndroidAar'
  BY DEF IInv, Flow, Measured, Early, ModesProtect, ModesComeBack, AndroidAar, Download, Goto, Stays, Kept, Consuming
<1>8. GoHeader' BY <1>3, <1>4 DEF GoHeader, InHand, Download, Goto, TreeNames
<1> QED BY <1>5, <1>6, <1>7, <1>8 DEF IInv

LEMMA BuildStep == ASSUME IInv, Build PROVE IInv'
<1>1. PICK aar \in Contents[Aar], sums \in Contents[Sums] :
        trees' = [trees EXCEPT !["repository"] =
          OnDisk([p \in {Aar, Sums} |-> [mode |-> "100644", data |-> IF p = Aar THEN aar ELSE sums]])]
  BY DEF Build
<1>2. DOMAIN trees = TreeNames /\ \A name \in TreeNames : IsTree(trees[name]) BY DEF IInv, TypeOK
<1>3. DOMAIN trees' = TreeNames /\ \A name \in TreeNames \ {"repository"} : trees'[name] = trees[name]
  BY <1>1, <1>2
<1>4. IsTree(trees'["repository"]) /\ \A p \in DOMAIN trees'["repository"] : trees'["repository"][p].kind # "link"
  <2> DEFINE e == [p \in {Aar, Sums} |-> [mode |-> "100644", data |-> IF p = Aar THEN aar ELSE sums]]
  <2>1. DOMAIN e \subseteq Paths /\ \A p \in DOMAIN e : e[p].mode = "100644" /\ e[p].data \in Contents[p]
    BY PackageAssumption
  <2> HIDE DEF e
  <2>2. IsTree(OnDisk(e)) /\ \A p \in DOMAIN OnDisk(e) : OnDisk(e)[p].kind # "link" BY <2>1, PlainTree
  <2>3. trees'["repository"] = OnDisk(e) BY <1>1, <1>2 DEF e, TreeNames
  <2> QED BY <2>2, <2>3
<1>5. TypeOK' BY <1>2, <1>3, <1>4 DEF IInv, TypeOK, Build, Goto, Stays, Kept, PCs
<1>6. Linked'
  <2>1. \A excluded : LinksStay(trees'["repository"], excluded) BY <1>4 DEF LinksStay
  <2>2. \A name \in TreeNames : LinksStay(trees'[name], Hidden(name)) BY <1>3, <2>1 DEF IInv, Linked
  <2>3. trees'["cache"] = trees["cache"] BY <1>3 DEF TreeNames
  <2> QED BY <2>2, <2>3 DEF IInv, Linked, Build, Goto, Guarding, Consuming
<1>7. Flow' /\ Measured' /\ ModesProtect' /\ ModesComeBack' /\ AndroidAar' /\ GoHeader'
  BY DEF IInv, Flow, Measured, Early, ModesProtect, ModesComeBack, AndroidAar, GoHeader, Build, Goto, Stays, Kept, Consuming, Guarding
<1> QED BY <1>5, <1>6, <1>7 DEF IInv

LEMMA CleanUpStep == ASSUME IInv, CleanUp PROVE IInv'
<1> USE DEF CleanUp
<1>1. /\ DOMAIN trees' = TreeNames
      /\ \A name \in TreeNames : trees'[name] = trees[name] \/ trees'[name] = NoTree
  BY DEF NoTrees
<1>2. IsTree(NoTree) /\ \A excluded : LinksStay(NoTree, excluded) BY DEF IsTree, NoTree, LinksStay
<1>3. TypeOK' BY <1>1, <1>2, NoTreesTyped DEF IInv, TypeOK, PCs
<1>4. Linked'
  <2>1. trees'["cache"] = NoTree BY DEF NoTrees, TreeNames
  <2> QED BY <1>1, <1>2, <2>1 DEF IInv, Linked, Guarding, Consuming, NoTree
<1>5. Flow' /\ Measured' /\ ModesProtect' /\ ModesComeBack' /\ AndroidAar' /\ GoHeader'
  BY DEF Flow, Measured, Early, ModesProtect, ModesComeBack, AndroidAar, GoHeader, InHand, Consuming, Guarding
<1> QED BY <1>3, <1>4, <1>5 DEF IInv

-----------------------------------------------------------------------------
(* Steps that guard trees. *)

LEMMA GuardedTrees ==
  ASSUME IInv
  PROVE  /\ kind \in Kinds /\ Guarded(kind) \subseteq TreeNames
         /\ kind = "go" <=> "cache" \in Guarded(kind)
         /\ kind = "android" <=> "repository" \in Guarded(kind)
         /\ kind = "android" <=> "export" \in Guarded(kind)
BY DEF IInv, TypeOK, Kinds, Guarded, TreeNames

LEMMA MeasureStep == ASSUME IInv, Measure PROVE IInv'
<1> USE DEF Measure, Goto, Stays, Kept
<1>1. /\ DOMAIN before' = TreeNames /\ \A name \in TreeNames : IsTree(before'[name])
      /\ \A name \in Guarded(kind) : before'[name] = trees[name]
  BY GuardedTrees, NoTreesTyped DEF IInv, TypeOK, NoTrees
<1>2. checked' \in {Nothing} \cup UNION {Contents[p] : p \in Paths}
  <2>1. CASE kind = "go"
    <3>1. IsFile(trees["cache"], Header("go")) BY <2>1 DEF IInv, GoHeader, IsFile, Follow
    <3>2. IsTree(trees["cache"]) BY DEF IInv, TypeOK, TreeNames
    <3> QED BY <2>1, <3>1, <3>2, BytesTyped
  <2>2. CASE kind # "go" BY <2>2 DEF IInv, TypeOK
  <2> QED BY <2>1, <2>2
<1>3. TypeOK' BY <1>1, <1>2 DEF IInv, TypeOK, PCs
<1>4. Linked' BY <1>1 DEF IInv, Linked
<1>5. Measured' BY <1>1 DEF IInv, Measured, Early, Consuming
<1>6. Flow' /\ GoHeader' BY DEF IInv, Flow, GoHeader, InHand
<1>7. AndroidAar'
  BY <1>1, GuardedTrees DEF IInv, AndroidAar, IsAar, Fit, Guarding, Consuming
<1>8. ModesProtect' /\ ModesComeBack' BY DEF ModesProtect, ModesComeBack, Consuming
<1> QED BY <1>3, <1>4, <1>5, <1>6, <1>7, <1>8 DEF IInv

(* The saved modes are modes, and none is that of a link.                    *)
LEMMA SavedFacts ==
  ASSUME IInv, pc \in Guarding, NEW name \in Guarded(kind)
  PROVE  \A p \in DOMAIN Saved(name) :
           /\ p \in DOMAIN before[name] /\ Saved(name)[p] \in Modes
           /\ p \in DOMAIN trees[name] => trees[name][p].kind # "link"
<1> SUFFICES ASSUME NEW p \in DOMAIN Saved(name)
             PROVE  /\ p \in DOMAIN before[name] /\ Saved(name)[p] \in Modes
                    /\ p \in DOMAIN trees[name] => trees[name][p].kind # "link"
  OBVIOUS
<1>1. IsTree(before[name]) /\ p \in DOMAIN before[name] /\ Saved(name)[p] = before[name][p].mode
  BY GuardedTrees DEF IInv, TypeOK, Saved, ModesOf, Unlinked, Below
<1>2. before[name][p] \in NodesAt(p) BY <1>1 DEF IsTree
<1>3. before[name][p].kind # "link"
  <2>1. p = Root \/ p \in Unlinked(before[name], Hidden(name)) BY DEF Saved, ModesOf
  <2> QED BY <1>2, <2>1, NodeFacts DEF Unlinked
<1> QED BY <1>1, <1>2, <1>3, NodeFacts DEF IInv, Linked

LEMMA FrozenFacts ==
  ASSUME IInv, pc = "freeze", NEW name \in Guarded(kind)
  PROVE  /\ IsTree(Frozen(name)) /\ SameShape(trees[name], Frozen(name))
         /\ Closed(Frozen(name), Hidden(name))
<1>1. IsTree(trees[name]) /\ trees[name] = before[name]
  BY GuardedTrees DEF IInv, TypeOK, Measured, Early
<1>2. CASE kind = "go"
  <2>1. name = "cache" BY <1>2 DEF Guarded
  <2> DEFINE modes == [p \in DOMAIN trees[name] |-> IF trees[name][p].kind = "dir" THEN {"x"} ELSE {}]
  <2>2. \A p \in DOMAIN modes \cap DOMAIN trees[name] : trees[name][p].kind # "link" /\ modes[p] \in Modes
    BY <2>1 DEF IInv, Linked, Modes
  <2>3. Frozen(name) = Chmod(trees[name], modes) BY <1>2 DEF Frozen, ChmodAll
  <2> HIDE DEF modes
  <2>4. /\ IsTree(Frozen(name)) /\ SameShape(trees[name], Frozen(name))
        /\ \A p \in DOMAIN trees[name] :
             Frozen(name)[p].mode = IF p \in DOMAIN modes THEN modes[p] ELSE trees[name][p].mode
    BY <1>1, <2>2, <2>3, ChmodFacts
  <2>5. \A p \in DOMAIN trees[name] : p \in DOMAIN modes /\ "w" \notin modes[p] BY DEF modes
  <2> QED BY <2>4, <2>5 DEF SameShape, Closed
<1>3. CASE kind = "android"
  <2> DEFINE saved == Saved(name)
             modes == [p \in DOMAIN saved |-> IF trees[name][p].kind = "dir" THEN {"x"} ELSE {}]
  <2>1. \A p \in DOMAIN modes \cap DOMAIN trees[name] : trees[name][p].kind # "link" /\ modes[p] \in Modes
    BY SavedFacts DEF Modes, Guarding
  <2>2. Frozen(name) = Chmod(trees[name], modes) BY <1>3 DEF Frozen, ReadOnly
  <2>3. \A p \in DOMAIN modes : "w" \notin modes[p] OBVIOUS
  <2>4. \A p \in DOMAIN trees[name] : p \notin DOMAIN modes =>
          p # Root /\ (p[1] \in Hidden(name) \/ trees[name][p].kind = "link")
    BY <1>1 DEF Saved, ModesOf, Unlinked, Below
  <2> HIDE DEF modes
  <2>5. /\ IsTree(Frozen(name)) /\ SameShape(trees[name], Frozen(name))
        /\ \A p \in DOMAIN trees[name] :
             Frozen(name)[p].mode = IF p \in DOMAIN modes THEN modes[p] ELSE trees[name][p].mode
    BY <1>1, <2>1, <2>2, ChmodFacts
  <2> QED BY <2>3, <2>4, <2>5 DEF SameShape, Closed
<1> QED BY <1>2, <1>3, GuardedTrees DEF Kinds

LEMMA ShapeKeepsLinks ==
  ASSUME NEW one, NEW other, SameShape(one, other), NEW excluded, LinksStay(one, excluded)
  PROVE  LinksStay(other, excluded)
BY DEF SameShape, LinksStay

LEMMA FreezeStep == ASSUME IInv, Freeze PROVE IInv'
<1> USE DEF Freeze, Goto, Stays, Kept
<1>1. DOMAIN trees' = TreeNames /\ \A name \in TreeNames : name \notin Guarded(kind) => trees'[name] = trees[name]
  OBVIOUS
<1>2. \A name \in Guarded(kind) : trees'[name] = Frozen(name) BY GuardedTrees
<1>3. \A name \in Guarded(kind) :
        /\ IsTree(trees'[name]) /\ SameShape(trees[name], trees'[name])
        /\ Closed(trees'[name], Hidden(name))
  BY <1>2, FrozenFacts
<1>4. TypeOK'
  <2>1. TypeOK BY DEF IInv
  <2>2. \A name \in TreeNames : IsTree(trees'[name]) BY <1>1, <1>3, <2>1 DEF TypeOK
  <2>3. pc' \in PCs BY DEF PCs, Consuming
  <2> QED BY <1>1, <2>1, <2>2, <2>3 DEF TypeOK
<1>5. Linked'
  <2>1. \A name \in TreeNames : LinksStay(trees'[name], Hidden(name))
    BY <1>1, <1>3, ShapeKeepsLinks DEF IInv, Linked
  <2>2. \A p \in DOMAIN trees'["cache"] : trees'["cache"][p].kind # "link"
    BY <1>1, <1>3 DEF IInv, Linked, SameShape, TreeNames
  <2>3. \A name \in Guarded(kind) : \A p \in DOMAIN trees'[name] :
          trees'[name][p].kind = "link" => p \in DOMAIN before[name] /\ before[name][p].kind = "link"
    BY <1>3 DEF IInv, Linked, SameShape, Guarding
  <2> QED BY <2>1, <2>2, <2>3 DEF Linked
<1>6. Measured' BY <1>3 DEF Measured, Early
<1>7. Flow' BY GuardedTrees DEF Flow, Kinds
<1>8. GoHeader'
  <2>1. CASE kind = "go"
    <3>1. trees'["export"] = trees["export"] BY <1>1, <2>1, GuardedTrees DEF TreeNames
    <3> QED BY <2>1, <3>1 DEF IInv, GoHeader, InHand
  <2>2. CASE kind # "go" BY <2>2 DEF GoHeader
  <2> QED BY <2>1, <2>2
<1>9. AndroidAar' BY DEF IInv, AndroidAar, Guarding, Consuming, IsAar, Fit
<1>10. ModesProtect'
  <2>1. \A name \in Guarded(kind) : SameFiles(before[name], trees'[name], Hidden(name))
    <3>1. \A name \in Guarded(kind) : trees[name] = before[name] BY DEF IInv, Measured, Early
    <3> QED BY <1>3, <3>1, ShapeKeepsAlike, SameFilesReflexive
  <2> QED BY <2>1 DEF ModesProtect, Alike
<1>11. ModesComeBack' BY DEF ModesComeBack
<1> QED BY <1>4, <1>5, <1>6, <1>7, <1>8, <1>9, <1>10, <1>11 DEF IInv

(* What chmod gives back of a guarded tree.                                  *)
LEMMA RestoredFacts ==
  ASSUME IInv, pc \in Guarding, NEW name \in Guarded(kind), NEW new \in Restored(trees[name], Saved(name))
  PROVE  /\ IsTree(new) /\ SameShape(trees[name], new)
         /\ Gone(trees[name], Saved(name)) = {} => \A p \in DOMAIN Saved(name) : new[p].mode = Saved(name)[p]
<1>1. IsTree(trees[name]) BY GuardedTrees DEF IInv, TypeOK
<1>2. CASE Gone(trees[name], Saved(name)) = {}
  <2>1. new = Chmod(trees[name], Saved(name)) BY <1>2 DEF Restored
  <2>2. DOMAIN Saved(name) \subseteq DOMAIN trees[name] BY <1>2 DEF Gone
  <2> QED BY <1>1, <2>1, <2>2, SavedFacts, ChmodFacts
<1>3. CASE Gone(trees[name], Saved(name)) # {}
  <2>1. PICK P \in SUBSET DOMAIN Saved(name) : new = Chmod(trees[name], [p \in P |-> Saved(name)[p]])
    BY <1>3 DEF Restored
  <2> DEFINE modes == [p \in P |-> Saved(name)[p]]
  <2>2. \A p \in DOMAIN modes \cap DOMAIN trees[name] : trees[name][p].kind # "link" /\ modes[p] \in Modes
    BY SavedFacts
  <2>3. new = Chmod(trees[name], modes) BY <2>1
  <2> HIDE DEF modes
  <2> QED BY <1>1, <1>3, <2>2, <2>3, ChmodFacts
<1> QED BY <1>2, <1>3

RestoredAlike == \A name \in Guarded(kind) : SameShape(trees[name], trees'[name])

LEMMA RestoreGo == ASSUME IInv, Restore, kind = "go" PROVE IInv' /\ RestoredAlike
<1> DEFINE modes == [p \in DOMAIN trees["cache"] |->
                       IF trees["cache"][p].kind = "dir" THEN {"w", "x"} ELSE {"w"}]
           new == Chmod(trees["cache"], modes)
<1>1. /\ pc = "restore" /\ trees' = [trees EXCEPT !["cache"] = new]
      /\ pc' = IF failed THEN "rejected" ELSE "check"
      /\ UNCHANGED <<before, failed, checked, product>> /\ Stays
  BY DEF Restore, ChmodAll
<1>2. IsTree(trees["cache"]) BY DEF IInv, TypeOK, TreeNames
<1>3. \A p \in DOMAIN modes \cap DOMAIN trees["cache"] :
        trees["cache"][p].kind # "link" /\ modes[p] \in Modes
  BY DEF IInv, Linked, Modes
<1>4. DOMAIN modes = DOMAIN trees["cache"] /\ \A p \in DOMAIN modes : "w" \in modes[p] OBVIOUS
<1> HIDE DEF modes
<1>5. /\ IsTree(new) /\ SameShape(trees["cache"], new)
      /\ \A p \in DOMAIN trees["cache"] : "w" \in new[p].mode
  BY <1>2, <1>3, <1>4, ChmodFacts
<1> HIDE DEF new
<1>6. /\ DOMAIN trees' = TreeNames /\ trees'["cache"] = new
      /\ \A name \in TreeNames \ {"cache"} : trees'[name] = trees[name]
  BY <1>1 DEF IInv, TypeOK, TreeNames
<1>7. TypeOK' BY <1>1, <1>5, <1>6 DEF IInv, TypeOK, Stays, Kept, PCs, Ended
<1>8. Linked'
  <2>1. LinksStay(new, Hidden("cache")) BY <1>5, ShapeKeepsLinks DEF IInv, Linked, TreeNames
  <2>2. \A p \in DOMAIN new : new[p].kind # "link" BY <1>5 DEF IInv, Linked, SameShape
  <2> QED BY <1>1, <1>6, <2>1, <2>2 DEF IInv, Linked, Guarding, Consuming
<1>9. Flow' /\ Measured' BY <1>1 DEF Flow, Measured, Early, Consuming
<1>10. GoHeader' /\ AndroidAar'
  BY <1>1 DEF IInv, GoHeader, AndroidAar, InHand, Stays, Kept
<1>11. ModesProtect'
  <2>1. bound => SameFiles(before["cache"], new, {})
    BY <1>1, <1>5, ShapeKeepsAlike DEF IInv, ModesProtect, Alike, Guarded, Hidden
  <2> QED BY <1>1, <1>6, <2>1 DEF ModesProtect, Alike, Guarded, Hidden, Stays, Kept
<1>12. ModesComeBack' BY <1>1, <1>5, <1>6 DEF ModesComeBack, Stays, Kept, SameShape
<1>13. RestoredAlike BY <1>5, <1>6 DEF RestoredAlike, Guarded
<1> QED BY <1>7, <1>8, <1>9, <1>10, <1>11, <1>12, <1>13 DEF IInv

LEMMA RestoreAndroid == ASSUME IInv, Restore, kind = "android" PROVE IInv' /\ RestoredAlike
<1> DEFINE gone(name) == Gone(trees[name], Saved(name)) # {}
<1>1. PICK repository \in Restored(trees["repository"], Saved("repository")),
           export \in IF gone("repository") THEN {trees["export"]} ELSE Restored(trees["export"], Saved("export")) :
        /\ trees' = [trees EXCEPT !["repository"] = repository, !["export"] = export]
        /\ pc' = IF failed \/ gone("repository") \/ gone("export") THEN "rejected" ELSE "check"
  BY DEF Restore
<1>2. pc = "restore" /\ UNCHANGED <<before, failed, checked, product>> /\ Stays BY DEF Restore
<1>3. DOMAIN trees = TreeNames BY DEF IInv, TypeOK
<1>4. /\ DOMAIN trees' = TreeNames /\ trees'["repository"] = repository /\ trees'["export"] = export
      /\ trees'["cache"] = trees["cache"]
  BY <1>1, <1>3 DEF TreeNames
<1>5. /\ IsTree(repository) /\ SameShape(trees["repository"], repository)
      /\ ~gone("repository") => \A p \in DOMAIN Saved("repository") : repository[p].mode = Saved("repository")[p]
  BY <1>2, RestoredFacts DEF Guarding, Guarded
<1>6. /\ IsTree(export) /\ SameShape(trees["export"], export)
      /\ ~gone("repository") /\ ~gone("export") =>
           \A p \in DOMAIN Saved("export") : export[p].mode = Saved("export")[p]
  <2>1. CASE gone("repository")
    <3>1. export = trees["export"] BY <1>1, <2>1
    <3> QED BY <2>1, <3>1 DEF IInv, TypeOK, TreeNames, SameShape
  <2>2. CASE ~gone("repository")
    <3>1. export \in Restored(trees["export"], Saved("export")) BY <1>1, <2>2
    <3>2. "export" \in Guarded(kind) /\ pc \in Guarding BY <1>2 DEF Guarded, Guarding
    <3> QED BY <3>1, <3>2, RestoredFacts
  <2> QED BY <2>1, <2>2
<1>7. TypeOK' BY <1>1, <1>2, <1>4, <1>5, <1>6 DEF IInv, TypeOK, TreeNames, Stays, Kept, PCs, Ended
<1>8. Linked'
  <2>1. LinksStay(repository, Hidden("repository")) /\ LinksStay(export, Hidden("export"))
    BY <1>5, <1>6, ShapeKeepsLinks DEF IInv, Linked, TreeNames
  <2>2. pc' \notin Guarding BY <1>1 DEF Guarding, Consuming
  <2> QED BY <1>4, <2>1, <2>2 DEF IInv, Linked, TreeNames
<1>9. Flow' /\ Measured' BY <1>1 DEF Flow, Measured, Early, Consuming
<1>10. GoHeader' BY <1>2 DEF GoHeader, Stays, Kept
<1>11. AndroidAar' BY <1>1, <1>2 DEF IInv, AndroidAar, IsAar, Fit, Guarding, Consuming, Stays, Kept
<1>12. ModesProtect'
  <2>1. bound => Alike("repository") /\ Alike("export")
    BY <1>2 DEF IInv, ModesProtect, Guarded
  <2>2. bound => /\ SameFiles(before["repository"], repository, Hidden("repository"))
                 /\ SameFiles(before["export"], export, Hidden("export"))
    BY <1>5, <1>6, <2>1, ShapeKeepsAlike DEF Alike
  <2> QED BY <1>2, <1>4, <2>2 DEF ModesProtect, Alike, Guarded, Stays, Kept
<1>13. ModesComeBack'
  <2> SUFFICES ASSUME NoneGone'
               PROVE  /\ \A p \in DOMAIN Saved("repository") : repository[p].mode = Saved("repository")[p]
                      /\ \A p \in DOMAIN Saved("export") : export[p].mode = Saved("export")[p]
    BY <1>2, <1>4 DEF ModesComeBack, Guarded, Saved, Stays, Kept
  <2>1. ~gone("repository") /\ ~gone("export")
    BY <1>2, <1>4, <1>5, <1>6 DEF NoneGone, Gone, SameShape, Guarded, Saved, Stays, Kept
  <2> QED BY <1>5, <1>6, <2>1
<1>14. RestoredAlike BY <1>4, <1>5, <1>6 DEF RestoredAlike, Guarded
<1> QED BY <1>7, <1>8, <1>9, <1>10, <1>11, <1>12, <1>13, <1>14 DEF IInv

LEMMA RestoreStep == ASSUME IInv, Restore PROVE IInv' /\ RestoredAlike
BY RestoreGo, RestoreAndroid DEF Restore

-----------------------------------------------------------------------------
(* A tool's step. *)

LEMMA SameFilesTransitive ==
  ASSUME NEW first, NEW one, NEW other, NEW excluded,
         SameFiles(first, one, excluded), SameFiles(one, other, excluded)
  PROVE  SameFiles(first, other, excluded)
BY DEF SameFiles

LEMMA WriteStep == ASSUME IInv, Write PROVE IInv'
<1> USE DEF Write
<1>0. PICK name \in Reach(pc) : \E p \in Changeable(trees[name], bound) :
        \/ \E data \in Contents[p] : trees' = [trees EXCEPT ![name] = With(trees[name], p, data)]
        \/ p \in DOMAIN trees[name] /\ trees' = [trees EXCEPT ![name] = Without(trees[name], p)]
  BY DEF Removable
<1>1. PICK p \in Changeable(trees[name], bound) :
        \/ \E data \in Contents[p] : trees' = [trees EXCEPT ![name] = With(trees[name], p, data)]
        \/ p \in DOMAIN trees[name] /\ trees' = [trees EXCEPT ![name] = Without(trees[name], p)]
  BY <1>0
<1>2. name \in TreeNames /\ pc \in Tools /\ pc # "download"
  BY <1>0 DEF Reach, TreeNames, Tools
<1>3. p \in Paths /\ (p \in DOMAIN trees[name] => trees[name][p].kind = "file") BY DEF Changeable
<1>4. IsTree(trees[name]) /\ DOMAIN trees = TreeNames BY <1>2 DEF IInv, TypeOK
<1>5. /\ DOMAIN trees' = TreeNames
      /\ \A other \in TreeNames \ {name} : trees'[other] = trees[other]
  BY <1>1, <1>4
<1>6. /\ IsTree(trees'[name]) /\ DOMAIN trees'[name] \ {p} = DOMAIN trees[name] \ {p}
      /\ \A q \in DOMAIN trees[name] \ {p} : trees'[name][q] = trees[name][q]
      /\ p \in DOMAIN trees'[name] => trees'[name][p].kind = "file"
  <2>1. CASE \E data \in Contents[p] : trees' = [trees EXCEPT ![name] = With(trees[name], p, data)]
    <3>1. PICK data \in Contents[p] : trees' = [trees EXCEPT ![name] = With(trees[name], p, data)] BY <2>1
    <3>2. trees'[name] = With(trees[name], p, data) BY <1>2, <1>4, <3>1
    <3>3. /\ IsTree(trees'[name]) /\ DOMAIN trees'[name] = DOMAIN trees[name] \cup {p}
          /\ \A q \in DOMAIN trees[name] \ {p} : trees'[name][q] = trees[name][q]
          /\ trees'[name][p].kind = "file"
      <4> DEFINE new == With(trees[name], p, data)
      <4>1. /\ IsTree(new) /\ DOMAIN new = DOMAIN trees[name] \cup {p}
            /\ \A q \in DOMAIN trees[name] \ {p} : new[q] = trees[name][q]
            /\ new[p].kind = "file"
        <5>1. IsTree(trees[name]) /\ p \in Paths /\ data \in Contents[p] BY <1>3, <1>4
        <5>2. p \in DOMAIN trees[name] => trees[name][p].kind = "file" BY <1>3
        <5>3. IsTree(new) BY <5>1, <5>2, WithFacts
        <5>4. DOMAIN new = DOMAIN trees[name] \cup {p} BY <5>1, <5>2, WithFacts
        <5>5. \A q \in DOMAIN trees[name] \ {p} : new[q] = trees[name][q] BY <5>1, <5>2, WithFacts
        <5>6. new[p].kind = "file" BY DEF With, File
        <5> QED BY <5>3, <5>4, <5>5, <5>6
      <4> HIDE DEF new
      <4>2. trees'[name] = new BY <3>2 DEF new
      <4> QED BY <4>1, <4>2
    <3> QED BY <3>3
  <2>2. CASE trees' = [trees EXCEPT ![name] = Without(trees[name], p)]
    <3>1. trees'[name] = Without(trees[name], p) BY <1>2, <1>4, <2>2
    <3>2. /\ IsTree(trees'[name]) /\ DOMAIN trees'[name] = DOMAIN trees[name] \ {p}
          /\ \A q \in DOMAIN trees[name] \ {p} : trees'[name][q] = trees[name][q]
      <4> DEFINE new == Without(trees[name], p)
      <4>1. /\ IsTree(new) /\ DOMAIN new = DOMAIN trees[name] \ {p}
            /\ \A q \in DOMAIN trees[name] \ {p} : new[q] = trees[name][q]
        BY <1>4, WithoutFacts
      <4> HIDE DEF new
      <4>2. trees'[name] = new BY <3>1 DEF new
      <4> QED BY <4>1, <4>2
    <3> QED BY <3>2
  <2> QED BY <1>1, <2>1, <2>2
<1>7. TypeOK'
  <2>1. TypeOK /\ writes' \in 0..MaxWrites BY PackageAssumption DEF IInv, TypeOK
  <2>2. \A other \in TreeNames : IsTree(trees'[other]) BY <1>5, <1>6, <2>1 DEF TypeOK
  <2> QED BY <1>5, <2>1, <2>2 DEF TypeOK
<1>8. Linked'
  <2>1. LinksStay(trees'[name], Hidden(name)) BY <1>2, <1>6 DEF IInv, Linked, LinksStay
  <2>2. name = "cache" => \A q \in DOMAIN trees'[name] : trees'[name][q].kind # "link"
    BY <1>6 DEF IInv, Linked
  <2>3. pc \in Guarding /\ name \in Guarded(kind) => \A q \in DOMAIN trees'[name] :
          trees'[name][q].kind = "link" => q \in DOMAIN before[name] /\ before[name][q].kind = "link"
    BY <1>6 DEF IInv, Linked
  <2>4. \A other \in TreeNames : LinksStay(trees'[other], Hidden(other)) BY <1>5, <2>1 DEF IInv, Linked
  <2>5. \A q \in DOMAIN trees'["cache"] : trees'["cache"][q].kind # "link"
    BY <1>5, <2>2 DEF IInv, Linked, TreeNames
  <2>6. pc \in Guarding => \A other \in Guarded(kind) : \A q \in DOMAIN trees'[other] :
          trees'[other][q].kind = "link" => q \in DOMAIN before[other] /\ before[other][q].kind = "link"
    BY <1>5, <2>3, GuardedTrees DEF IInv, Linked
  <2> QED BY <2>4, <2>5, <2>6 DEF Linked
<1>9. ASSUME bound, pc \in Consuming, name \in Guarded(kind)
      PROVE  Closed(trees'[name], Hidden(name)) /\ SameFiles(trees[name], trees'[name], Hidden(name))
  <2>1. Closed(trees[name], Hidden(name)) BY <1>9 DEF IInv, Measured, Early
  <2>2. p[1] \in Hidden(name)
    <3>1. p \in Changeable(trees[name], TRUE) BY <1>1, <1>9 DEF Changeable, MayWrite
    <3> QED BY <1>4, <2>1, <3>1, ClosedProtects
  <2>3. p # Root BY <1>3, PathFacts
  <2>4. Closed(trees'[name], Hidden(name)) BY <1>6, <2>1, <2>2, <2>3 DEF Closed
  <2>5. LinksStay(trees[name], Hidden(name)) BY <1>2 DEF IInv, Linked
  <2> QED BY <1>3, <1>4, <1>6, <2>2, <2>4, <2>5, HiddenChange
<1>10. Measured'
  <2>1. bound /\ pc \in Consuming => \A other \in Guarded(kind) : Closed(trees'[other], Hidden(other))
    BY <1>5, <1>9, GuardedTrees DEF IInv, Measured, Early
  <2> QED BY <1>2, <2>1 DEF IInv, Measured, Early, Tools
<1>11. ModesProtect'
  <2>1. ASSUME bound, pc \in Consuming, NEW other \in Guarded(kind)
        PROVE  SameFiles(before[other], trees'[other], Hidden(other))
    <3>1. SameFiles(before[other], trees[other], Hidden(other)) BY <2>1 DEF IInv, ModesProtect, Alike
    <3>2. CASE other = name BY <1>9, <2>1, <3>1, <3>2, SameFilesTransitive
    <3>3. CASE other # name BY <1>5, <2>1, <3>1, <3>3, GuardedTrees
    <3> QED BY <3>2, <3>3
  <2> QED BY <1>2, <2>1 DEF ModesProtect, Alike, Tools
<1>12. Flow' /\ ModesComeBack' BY <1>2 DEF IInv, Flow, ModesComeBack, Tools
<1>13. GoHeader'
  <2>1. CASE pc = "install"
    <3>1. name = "cache" BY <1>0, <2>1 DEF Reach
    <3>2. trees'["export"] = trees["export"] BY <1>5, <3>1 DEF TreeNames
    <3> QED BY <2>1, <3>2 DEF IInv, GoHeader, InHand
  <2>2. CASE pc # "install" BY <1>2, <2>2 DEF IInv, GoHeader, InHand, Tools
  <2> QED BY <2>1, <2>2
<1>14. AndroidAar' BY <1>2 DEF IInv, AndroidAar, IsAar, Fit, Tools
<1> QED BY <1>7, <1>8, <1>10, <1>11, <1>12, <1>13, <1>14 DEF IInv

-----------------------------------------------------------------------------
(* The inductive invariant. *)

LEMMA Start == Init => IInv
<1> SUFFICES ASSUME Init PROVE IInv OBVIOUS
<1> USE DEF Init
<1>1. /\ DOMAIN trees = TreeNames /\ IsTree(trees["export"]) /\ LinksStay(trees["export"], BuildNames)
      /\ \A name \in TreeNames \ {"export"} : trees[name] = NoTree
  <2>1. CASE trees = NoTrees BY <2>1 DEF NoTrees, TreeNames, IsTree, NoTree, LinksStay
  <2>2. CASE \E e \in Exports[kind] : trees = [NoTrees EXCEPT !["export"] = OnDisk(e)]
    BY <2>2, ExportLinks DEF NoTrees, TreeNames
  <2> QED BY <2>1, <2>2
<1>2. IsTree(NoTree) /\ \A excluded : LinksStay(NoTree, excluded) BY DEF IsTree, NoTree, LinksStay
<1>3. TypeOK
  <2>1. \A name \in TreeNames : IsTree(trees[name]) BY <1>1, <1>2
  <2>2. product.file = Nothing /\ product.libraries = Nothing BY DEF NoProduct
  <2>3. writes \in 0..MaxWrites /\ runs \in 0..MaxRuns BY PackageAssumption
  <2>4. DOMAIN before = TreeNames /\ \A name \in TreeNames : IsTree(before[name]) BY NoTreesTyped
  <2>5. DOMAIN left = {} BY DEF Nothing
  <2> QED BY <1>1, <2>1, <2>2, <2>3, <2>4, <2>5 DEF TypeOK, PCs
<1>4. Linked BY <1>1, <1>2 DEF Linked, Hidden, TreeNames, Guarding, Consuming, NoTree
<1>5. Flow /\ Measured /\ GoHeader /\ AndroidAar /\ ModesProtect /\ ModesComeBack
  BY DEF Flow, Measured, Early, GoHeader, AndroidAar, InHand, ModesProtect, ModesComeBack, Guarding, Consuming
<1> QED BY <1>3, <1>4, <1>5 DEF IInv

LEMMA Inductive == IInv /\ Exporting /\ [Next]_vars => IInv'
<1> SUFFICES ASSUME IInv, Exporting, [Next]_vars PROVE IInv' OBVIOUS
<1>1. CASE UNCHANGED vars
  <2> USE <1>1 DEF vars
  <2>1. TypeOK' /\ Flow' /\ Linked' /\ Measured' BY DEF IInv, TypeOK, Flow, Linked, Measured, Early
  <2>2. GoHeader' /\ AndroidAar' BY DEF IInv, GoHeader, InHand, AndroidAar, IsAar, Fit
  <2>3. ModesProtect' /\ ModesComeBack'
    BY DEF IInv, ModesProtect, Alike, ModesComeBack, NoneGone, Saved
  <2> QED BY <2>1, <2>2, <2>3 DEF IInv
<1>2. CASE Begin BY <1>2, BeginStep
<1>3. CASE Download \/ Build \/ CleanUp BY <1>3, DownloadStep, BuildStep, CleanUpStep
<1>4. CASE Inspect \/ Install \/ Installed BY <1>4, InspectStep, InstallStep, InstalledStep
<1>5. CASE Measure \/ Freeze \/ Restore BY <1>5, MeasureStep, FreezeStep, RestoreStep
<1>6. CASE Use \/ Resolve \/ Compare BY <1>6, PassStep
<1>7. CASE Assemble \/ Check BY <1>7, AssembleStep, CheckStep
<1>8. CASE Fails \/ Kill \/ Refuse BY <1>8, StopStep
<1>9. CASE Write BY <1>9, WriteStep
<1>10. CASE OpenExport \/ WriteFile \/ EndExport BY <1>10, OpenExportStep, WriteFileStep, EndExportStep
<1> QED BY <1>1, <1>2, <1>3, <1>4, <1>5, <1>6, <1>7, <1>8, <1>9, <1>10 DEF Next

LEMMA ExportingStep == IInv /\ Exporting /\ [Next]_vars => Exporting'
<1> SUFFICES ASSUME IInv, Exporting, [Next]_vars PROVE Exporting' OBVIOUS
<1>1. CASE OpenExport \/ WriteFile BY <1>1, OpenExportStep, WriteFileStep
<1>2. CASE UNCHANGED vars BY <1>2 DEF vars, Exporting
<1>3. CASE Begin \/ Refuse \/ EndExport \/ Download \/ Build \/ Inspect \/ Measure \/ Freeze
  <2>1. pc' # "write"
    BY <1>3 DEF Begin, First, Refuse, EndExport, Download, Build, Inspect, Measure, Freeze, Goto
  <2> QED BY <2>1 DEF Exporting
<1>4. CASE Install \/ Installed \/ Use \/ Resolve \/ Assemble \/ Compare \/ Restore \/ Check
  <2>1. pc' # "write" BY <1>4 DEF Install, Installed, Use, Resolve, Assemble, Compare, Restore, Check, Goto
  <2> QED BY <2>1 DEF Exporting
<1>5. CASE Write \/ Fails \/ Kill \/ CleanUp
  <2>1. pc' # "write" BY <1>5 DEF Write, Reach, Fails, Kill, CleanUp
  <2> QED BY <2>1 DEF Exporting
<1> QED BY <1>1, <1>2, <1>3, <1>4, <1>5 DEF Next

LEMMA Invariance == Spec => []IInv /\ []Exporting
<1>1. Init => Exporting BY DEF Init, Exporting
<1> QED BY <1>1, Start, Inductive, ExportingStep, PTL DEF Spec

-----------------------------------------------------------------------------
(* What the comparison of fingerprints tells. *)

LEMMA ShapeKeepsAmbiguous ==
  ASSUME NEW first, NEW one, NEW other, NEW excluded,
         Ambiguous(first, one, excluded), SameShape(one, other)
  PROVE  Ambiguous(first, other, excluded)
<1>1. /\ FilesIn(one, excluded) = FilesIn(other, excluded)
      /\ \A p \in FilesIn(one, excluded) : Bytes(one, p) = Bytes(other, p)
  BY ShapeKeepsFiles
<1> QED BY <1>1 DEF Ambiguous

(* From the comparison on, the guarded trees are what was measured, or can   *)
(* be confused with it.                                                      *)
Passed == pc \in {"check", "accepted"} \/ (pc = "restore" /\ ~failed)
Told == \A name \in Guarded(kind) : Alike(name) \/ Confusable(name)
SoundProduct == product.file = checked /\ \A abi \in Abis : Machine[product.libraries[abi]] = abi
Compared ==
  /\ Passed => Told
  /\ kind = "android" /\ pc = "accepted" /\ ~Confusable("repository") => SoundProduct

LEMMA CompareTells == ASSUME IInv, Compare PROVE Told
<1> SUFFICES ASSUME NEW name \in Guarded(kind) PROVE Alike(name) \/ Confusable(name) BY DEF Told
<1>1. Fingerprint(before[name], Hidden(name)) = Fingerprint(trees[name], Hidden(name))
  BY DEF Compare, GuardsUnchanged, Unchanged
<1>2. IsTree(before[name]) /\ IsTree(trees[name]) BY GuardedTrees DEF IInv, TypeOK
<1> QED BY <1>1, <1>2, FingerprintTells DEF Alike, Confusable

LEMMA CheckTells == ASSUME IInv, Compared, Check, kind = "android", ~Confusable("repository") PROVE SoundProduct'
<1>1. Alike("repository") BY DEF Compared, Passed, Told, Check, Goto, Guarded
<1>2. IsFile(before["repository"], Aar) /\ Bytes(before["repository"], Aar) = checked /\ Fit(checked)
  BY DEF IInv, AndroidAar, IsAar, Check, Goto
<1>3. Aar \in FilesIn(before["repository"], Hidden("repository"))
  BY <1>2 DEF FilesIn, Below, IsFile, Hidden, Aar, Root
<1>4. Bytes(trees["repository"], Aar) = checked BY <1>1, <1>2, <1>3 DEF Alike, SameFiles
<1>5. product.file = checked /\ product.libraries = Unpacked[checked].jni BY <1>4 DEF Check
<1> QED BY <1>2, <1>5 DEF Fit, SoundProduct, Check

LEMMA ComparedStep == IInv /\ Compared /\ [Next]_vars => Compared'
<1> SUFFICES ASSUME IInv, Compared, [Next]_vars PROVE Compared' OBVIOUS
<1>1. CASE UNCHANGED vars
  BY <1>1 DEF vars, Compared, Passed, Told, SoundProduct, Alike, Confusable
<1>2. CASE Compare
  <2>1. Told /\ pc' = "restore" /\ UNCHANGED <<kind, trees, before>>
    BY <1>2, CompareTells DEF Compare, Goto, Stays, Kept
  <2>2. Told' BY <2>1 DEF Told, Alike, Confusable
  <2> QED BY <2>1, <2>2 DEF Compared
<1>3. CASE Restore
  <2>1. pc = "restore" /\ UNCHANGED <<kind, before, failed>> /\ pc' # "accepted" /\ (Passed' => ~failed)
    BY <1>3 DEF Restore, Stays, Kept, Passed
  <2>2. RestoredAlike BY <1>3, RestoreStep
  <2>3. ASSUME Told, NEW name \in Guarded(kind)
        PROVE  \/ SameFiles(before[name], trees'[name], Hidden(name))
               \/ Ambiguous(before[name], trees'[name], Hidden(name))
    BY <2>2, <2>3, ShapeKeepsAlike, ShapeKeepsAmbiguous DEF Told, Alike, Confusable, RestoredAlike
  <2>4. Passed' => Told' BY <2>1, <2>3 DEF Compared, Passed, Told, Alike, Confusable
  <2> QED BY <2>1, <2>4 DEF Compared
<1>4. CASE Check
  <2>1. Passed /\ UNCHANGED <<kind, trees, before>> BY <1>4 DEF Check, Goto, Stays, Kept, Passed
  <2>2. Told' BY <2>1 DEF Compared, Told, Alike, Confusable
  <2>3. Confusable("repository")' <=> Confusable("repository") BY <2>1 DEF Confusable
  <2> QED BY <1>4, <2>1, <2>2, <2>3, CheckTells DEF Compared
<1>5. CASE Begin \/ Refuse \/ Download \/ Build \/ Inspect \/ Measure \/ Freeze \/ Install \/ Installed
  <2>1. pc' \notin {"check", "accepted", "restore"}
    BY <1>5 DEF Begin, First, Refuse, Download, Build, Inspect, Measure, Freeze, Install, Installed, Goto
  <2> QED BY <2>1 DEF Compared, Passed
<1>6. CASE Use \/ Resolve \/ Assemble \/ Kill \/ CleanUp
  <2>1. pc' \notin {"check", "accepted", "restore"}
    BY <1>6 DEF Use, Resolve, Assemble, Kill, CleanUp, Goto
  <2> QED BY <2>1 DEF Compared, Passed
<1>7. CASE Write \/ Fails
  <2>1. ~Passed' /\ pc' # "accepted"
    BY <1>7 DEF Write, Fails, Reach, InTry, Passed
  <2> QED BY <2>1 DEF Compared
<1>8. CASE OpenExport \/ WriteFile \/ EndExport
  <2>1. pc' \notin {"check", "accepted", "restore"}
    BY <1>8 DEF OpenExport, WriteFile, EndExport, First, Goto
  <2> QED BY <2>1 DEF Compared, Passed
<1> QED BY <1>1, <1>2, <1>3, <1>4, <1>5, <1>6, <1>7, <1>8 DEF Next

LEMMA Comparing == Spec => []Compared
<1>1. Init => Compared BY DEF Init, Compared, Passed
<1> QED BY <1>1, Invariance, ComparedStep, PTL DEF Spec

-----------------------------------------------------------------------------
(* Theorems. *)

(* The validation keeps its types: what chmod, the tools and the downloads   *)
(* make of a tree is a tree again, in which no link has a mode of its own.   *)
THEOREM TypeCorrect == Spec => []TypeOK
<1>1. IInv => TypeOK BY DEF IInv
<1> QED BY <1>1, Invariance, PTL

(* For every set of paths and contents: tools that modes bind change no      *)
(* guarded file, because a file that is not excluded can be reached neither  *)
(* through its own mode nor through that of its directory.                   *)
THEOREM ReadOnlyTreesKeepTheirFiles == Spec => []ModesProtect
<1>1. IInv => ModesProtect BY DEF IInv
<1> QED BY <1>1, Invariance, PTL

(* Whatever fails in the try, the modes are given back if no guarded path    *)
(* was removed.                                                              *)
THEOREM ModesAreRestored == Spec => []ModesComeBack
<1>1. IInv => ModesComeBack BY DEF IInv
<1> QED BY <1>1, Invariance, PTL

(* Whatever tools do, even those that modes do not bind: an accepted package *)
(* was inspected, and the trees that it was tested with are those that were  *)
(* measured, unless their fingerprints confuse them.                         *)
THEOREM WhatIsAcceptedWasChecked == Spec => []AcceptedIsChecked
<1>1. IInv /\ Compared => AcceptedIsChecked
  <2> SUFFICES ASSUME IInv, Compared, pc = "accepted" PROVE AcceptedIsChecked
    BY DEF AcceptedIsChecked
  <2>1. Told BY DEF Compared, Passed
  <2>2. kind = "go" => product.file = checked BY DEF IInv, GoHeader, InHand
  <2>3. kind = "android" /\ ~Confusable("repository") => SoundProduct BY DEF Compared
  <2> QED BY <2>1, <2>2, <2>3, GuardedTrees DEF AcceptedIsChecked, Told, SoundProduct, Kinds
<1> QED BY <1>1, Invariance, Comparing, PTL

(* With tools that modes bind nothing hangs on the fingerprints: the trees   *)
(* are those that were measured and the consumer has run what was inspected. *)
THEOREM BoundToolsAcceptWhatIsChecked ==
  Spec => [](bound /\ pc = "accepted" =>
               /\ \A name \in Guarded(kind) : Alike(name)
               /\ product.file = checked
               /\ kind = "android" => SoundProduct)
<1>1. IInv => (bound /\ pc = "accepted" =>
               /\ \A name \in Guarded(kind) : Alike(name)
               /\ product.file = checked
               /\ kind = "android" => SoundProduct)
  <2> SUFFICES ASSUME IInv, bound, pc = "accepted"
               PROVE  /\ \A name \in Guarded(kind) : Alike(name)
                      /\ product.file = checked
                      /\ kind = "android" => SoundProduct
    OBVIOUS
  <2>1. \A name \in Guarded(kind) : Alike(name) BY DEF IInv, ModesProtect
  <2>2. kind = "go" => product.file = checked BY DEF IInv, GoHeader, InHand
  <2>3. kind = "android" => SoundProduct BY DEF IInv, AndroidAar, SoundProduct
  <2> QED BY <2>1, <2>2, <2>3, GuardedTrees DEF SoundProduct, Kinds
<1> QED BY <1>1, Invariance, PTL

(* Without a validation directory nothing runs, and no tree of a run is left *)
(* then, nor while an export is written.                                     *)
Cleared ==
  /\ ~made => pc \in {"idle"} \cup Ended
  /\ ~made \/ pc \in {"export", "write"} => trees["cache"] = NoTree /\ trees["repository"] = NoTree
LEMMA Clearing == Spec => []Cleared
<1>1. Init => Cleared BY DEF Init, Cleared, NoTrees, TreeNames
<1>2. IInv /\ Cleared /\ [Next]_vars => Cleared'
  <2> SUFFICES ASSUME IInv, Cleared, [Next]_vars PROVE Cleared' OBVIOUS
  <2>1. CASE UNCHANGED vars BY <2>1 DEF vars, Cleared
  <2>2. CASE CleanUp BY <2>2 DEF CleanUp, Cleared, NoTrees, TreeNames
  <2>3. CASE Begin BY <2>3 DEF Begin, MayStart, Cleared
  <2>4. CASE Refuse BY <2>4 DEF Refuse, Cleared, Ended
  <2>5. CASE Kill BY <2>5 DEF Kill, Stays, Kept, Cleared, Ended
  <2>6. CASE OpenExport \/ WriteFile
    <3>1. /\ pc \in {"export", "write"} /\ UNCHANGED made
          /\ UNCHANGED trees["cache"] /\ UNCHANGED trees["repository"]
      BY <2>6 DEF OpenExport, WriteFile, Goto, Kept, IInv, TypeOK, TreeNames
    <3> QED BY <3>1 DEF Cleared, Ended
  <2>7. ASSUME pc \notin {"idle"} \cup Ended, UNCHANGED made, pc' \notin {"export", "write"} PROVE Cleared'
    BY <2>7 DEF Cleared
  <2>8. CASE EndExport \/ Download \/ Build \/ Inspect \/ Measure \/ Freeze
    BY <2>7, <2>8 DEF EndExport, First, Download, Build, Inspect, Measure, Freeze, Goto, Stays, Kept, Ended
  <2>9. CASE Install \/ Installed \/ Use \/ Resolve \/ Assemble \/ Compare \/ Restore \/ Check
    BY <2>7, <2>9 DEF Install, Installed, Use, Resolve, Assemble, Compare, Restore, Check, Goto, Stays, Kept, Ended
  <2>10. CASE Write
    <3>1. pc \in Tools BY <2>10 DEF Write, Reach, Tools
    <3> QED BY <2>7, <2>10, <3>1 DEF Write, Tools, Ended
  <2>11. CASE Fails BY <2>7, <2>11 DEF Fails, Tools, Consuming, Stays, Kept, Ended
  <2> QED BY <2>1, <2>2, <2>3, <2>4, <2>5, <2>6, <2>8, <2>9, <2>10, <2>11 DEF Next
<1> QED BY <1>1, <1>2, Invariance, PTL DEF Spec

(* The tools of a run begin with a whole export, or a checkout as it is, and *)
(* with no cache and no repository of an earlier run.                        *)
Fresh ==
  /\ trees["cache"] = NoTree /\ trees["repository"] = NoTree
  /\ ~existing => \E e \in Exports[kind] : trees["export"] = OnDisk(e)
THEOREM RunsStartFresh == Spec => FreshStart
<1>1. ASSUME IInv, Exporting, Cleared, Next, pc' \in {"download", "build"}, pc # pc' PROVE Fresh'
  <2>1. Begin \/ EndExport
    BY <1>1 DEF Next, Refuse, OpenExport, WriteFile, Download, Build, Inspect, Measure, Freeze, Install, Installed,
           Use, Resolve, Assemble, Compare, Restore, Check, Write, Fails, Kill, CleanUp, Goto, Consuming
  <2>2. CASE Begin
    <3>1. existing /\ ~made /\ UNCHANGED <<trees, existing>> BY <1>1, <2>2 DEF Begin, MayStart
    <3> QED BY <1>1, <3>1 DEF Cleared, Fresh
  <2>3. CASE EndExport
    <3>1. pc = "write" /\ DOMAIN left = {} /\ UNCHANGED <<trees, kind>>
      BY <2>3 DEF EndExport, Goto, Stays, Kept
    <3>2. PICK e \in Exports[kind] : trees["export"] = OnDisk(Part(e, DOMAIN e \ DOMAIN left))
      BY <1>1, <3>1 DEF Exporting
    <3>3. DOMAIN e \ DOMAIN left = DOMAIN e BY <3>1
    <3>4. trees["export"] = OnDisk(e) BY <3>2, <3>3, WholePart
    <3> QED BY <1>1, <3>1, <3>4 DEF Cleared, Fresh
  <2> QED BY <2>1, <2>2, <2>3
<1>2. IInv /\ Exporting /\ Cleared /\ [Next]_vars =>
        [pc' \in {"download", "build"} /\ pc # pc' =>
           /\ trees'["cache"] = NoTree /\ trees'["repository"] = NoTree
           /\ ~existing => \E e \in Exports[kind] : trees'["export"] = OnDisk(e)]_vars
  <2> SUFFICES ASSUME IInv, Exporting, Cleared, Next, pc' \in {"download", "build"}, pc # pc'
               PROVE  /\ trees'["cache"] = NoTree /\ trees'["repository"] = NoTree
                      /\ ~existing => \E e \in Exports[kind] : trees'["export"] = OnDisk(e)
    OBVIOUS
  <2>1. Fresh' BY <1>1
  <2>2. UNCHANGED <<kind, existing>>
    BY DEF Next, Begin, Refuse, OpenExport, WriteFile, EndExport, Download, Build, Inspect, Measure, Freeze,
           Install, Installed, Use, Resolve, Assemble, Compare, Restore, Check, Write, Fails, Kill, CleanUp, Stays, Kept
  <2> QED BY <2>1, <2>2 DEF Fresh
<1> QED BY <1>2, Invariance, Clearing, PTL DEF Spec, FreshStart
=============================================================================
