------------------------------ MODULE FileTree ------------------------------
(***************************************************************************)
(* Directory trees as .github/package-export-smoke.py writes them, takes     *)
(* their fingerprint, makes them read-only and restores them.  A tree is a   *)
(* function from paths to nodes; a path is a sequence of names, and a mode   *)
(* the set of the owner's permissions to write ("w") and to execute ("x").   *)
(***************************************************************************)
EXTENDS Naturals, Sequences, FiniteSets, SequencesExt

CONSTANTS
  Names,     (* Names of files and directories.                              *)
  Sorted,    (* Every path that can exist, in the order of sorted().         *)
  Contents,  (* What the file at a path can hold: sequences of tokens.       *)
  Sep        (* The NUL after a path in a fingerprint.                       *)

Root == <<>>
Paths == {Sorted[i] : i \in DOMAIN Sorted}
Above(p) == {SubSeq(p, 1, i) : i \in 0..(Len(p) - 1)}
Parent(p) == SubSeq(p, 1, Len(p) - 1)
ASSUME TreeAssumption ==
  /\ Sorted \in Seq(Seq(Names) \ {Root}) /\ Sep \notin Names
  /\ \A i, j \in DOMAIN Sorted : Sorted[i] = Sorted[j] => i = j
  /\ \A p \in Paths : Above(p) \subseteq {Root} \cup Paths
  /\ DOMAIN Contents = Paths
  /\ \A p \in Paths : \A c \in Contents[p] : c \in Seq(ToSet(c))

Modes == SUBSET {"w", "x"}
Dir(mode) == [kind |-> "dir", mode |-> mode, data |-> <<>>]
File(mode, data) == [kind |-> "file", mode |-> mode, data |-> data]
Link(target) == [kind |-> "link", mode |-> {"w", "x"}, data |-> target]
NodesAt(p) ==
  {Dir(m) : m \in Modes}
    \cup (IF p = Root THEN {} ELSE {Link(q) : q \in Paths} \cup {File(m, c) : m \in Modes, c \in Contents[p]})
IsTree(tree) ==
  /\ tree = [p \in DOMAIN tree |-> tree[p]] /\ DOMAIN tree \subseteq {Root} \cup Paths
  /\ \A p \in DOMAIN tree : tree[p] \in NodesAt(p)
NoTree == [p \in {} |-> Dir({})]

Follow(tree, p) == IF tree[p].kind = "link" THEN tree[p].data ELSE p
IsFile(tree, p) ==
  p \in DOMAIN tree /\ Follow(tree, p) \in DOMAIN tree /\ tree[Follow(tree, p)].kind = "file"
Bytes(tree, p) == tree[Follow(tree, p)].data
(* What is below the root, but not below one of the excluded names.          *)
Below(tree, excluded) == {p \in DOMAIN tree \ {Root} : p[1] \notin excluded}
FilesIn(tree, excluded) == {p \in Below(tree, excluded) : IsFile(tree, p)}

-----------------------------------------------------------------------------
(* write_export: an export maps paths to what git knows of a file.  A file   *)
(* is put below the directories that lead to it, which are made if need be;  *)
(* in the end the tree is OnDisk(export).                                    *)
Put(entry) ==
  CASE entry.mode = "120000" -> Link(entry.data)
    [] entry.mode = "100755" -> File({"w", "x"}, entry.data)
    [] OTHER -> File({"w"}, entry.data)
NewDir == [p \in {Root} |-> Dir({"w", "x"})]
Adding(tree, p, entry) ==
  [q \in DOMAIN tree \cup Above(p) \cup {p} |->
     IF q = p THEN Put(entry) ELSE IF q \in DOMAIN tree THEN tree[q] ELSE Dir({"w", "x"})]
OnDisk(export) ==
  [p \in {Root} \cup DOMAIN export \cup UNION {Above(q) : q \in DOMAIN export} |->
     IF p \in DOMAIN export THEN Put(export[p]) ELSE Dir({"w", "x"})]

(* go_module_files leaves out what has one of these names on its path, and   *)
(* the prebuilt libraries; it raises at a file that is not a regular one.    *)
IsMetadata(p, names) == (ToSet(p) \cap names # {}) \/ IsPrefix(<<"native", "lib">>, p)
ModuleFiles(tree, names) ==
  LET all == {p \in DOMAIN tree : ~IsMetadata(p, names) /\ tree[p].kind # "dir"}
      linked == {p \in all : tree[p].kind = "link" /\ Follow(tree, p) \in DOMAIN tree
                               /\ tree[Follow(tree, p)].kind = "dir"}
  IN IF \A p \in all \ linked : tree[p].kind = "file" THEN {all \ linked} ELSE {}

-----------------------------------------------------------------------------
(* tree_fingerprint: what is hashed, and the same without the paths.         *)
ContentsOnly(tree, excluded) ==                                   (* mutant *)
  FlattenSeq([i \in DOMAIN Sorted |->
    IF Sorted[i] \in FilesIn(tree, excluded) THEN Bytes(tree, Sorted[i]) ELSE <<>>])
Fingerprint(tree, excluded) ==
  FlattenSeq([i \in DOMAIN Sorted |->
    IF Sorted[i] \in FilesIn(tree, excluded)
    THEN Sorted[i] \o <<Sep>> \o Bytes(tree, Sorted[i]) ELSE <<>>])

(* Nothing marks where a file ends, so the fingerprint may confuse two trees *)
(* if a file holds the path of one and a NUL, or if a path ends like another. *)
Holds(data, p) == \E i \in 1..(Len(data) - Len(p)) : SubSeq(data, i, i + Len(p)) = Append(p, Sep)
Ambiguous(one, other, excluded) ==
  LET O == FilesIn(one, excluded)  R == FilesIn(other, excluded) IN
  \/ \E p, q \in O \cup R : \/ (p \in O /\ Holds(Bytes(one, p), q))
                             \/ (p \in R /\ Holds(Bytes(other, p), q))
  \/ (O # R /\ \E p, q \in O \cup R : IsStrictSuffix(p, q))
SameFiles(one, other, excluded) ==
  /\ FilesIn(one, excluded) = FilesIn(other, excluded)
  /\ \A p \in FilesIn(one, excluded) : Bytes(one, p) = Bytes(other, p)

-----------------------------------------------------------------------------
(* Modes.  Permissions are kept as a function on some of the paths.          *)

(* tree_modes *)
WithLinks(tree, excluded) == Below(tree, excluded)                (* mutant *)
Unlinked(tree, excluded) == {p \in Below(tree, excluded) : tree[p].kind # "link"}
ModesOf(tree, excluded) ==
  [p \in ({Root} \cap DOMAIN tree) \cup Unlinked(tree, excluded) |-> tree[p].mode]
Chmod(tree, modes) ==
  [p \in DOMAIN tree |-> IF p \in DOMAIN modes THEN [tree[p] EXCEPT !.mode = modes[p]] ELSE tree[p]]

FilesReadOnly(tree, modes) ==                                     (* mutant *)
  Chmod(tree, [p \in DOMAIN modes |-> IF tree[p].kind = "dir" THEN modes[p] ELSE {}])
(* make_tree_read_only *)
ReadOnly(tree, modes) ==
  Chmod(tree, [p \in DOMAIN modes |-> IF tree[p].kind = "dir" THEN {"x"} ELSE {}])
(* chmod_tree, of a tree without links *)
ChmodAll(tree, dirMode, fileMode) ==
  Chmod(tree, [p \in DOMAIN tree |-> IF tree[p].kind = "dir" THEN dirMode ELSE fileMode])

(* restore_tree_modes goes from the root down and raises at a path that is   *)
(* gone: what is higher has its modes back, what is as deep may have.        *)
Gone(tree, modes) == DOMAIN modes \ DOMAIN tree
Restored(tree, modes) ==
  IF Gone(tree, modes) = {} THEN {Chmod(tree, modes)}
  ELSE LET higher == {p \in DOMAIN modes : \A q \in Gone(tree, modes) : Len(p) < Len(q)}
           level == {p \in DOMAIN modes \ higher : \A q \in Gone(tree, modes) : Len(p) <= Len(q)}
       IN {Chmod(tree, [p \in higher \cup S |-> modes[p]]) : S \in SUBSET level}

-----------------------------------------------------------------------------
(* What a program may do to a file of a tree: write it if it may be written, *)
(* or else if its directory may be, which is also where it may add or remove *)
(* one.  Modes do not bind root, nor an owner who changes them first.        *)
MayWrite(tree, p, bound) == bound => "w" \in tree[p].mode
Changeable(tree, bound) ==
  {p \in Paths :
     /\ Parent(p) \in DOMAIN tree /\ tree[Parent(p)].kind = "dir"
     /\ p \in DOMAIN tree => tree[p].kind = "file"
     /\ \/ MayWrite(tree, Parent(p), bound)
        \/ (p \in DOMAIN tree /\ MayWrite(tree, p, bound))}
Removable(tree, bound) ==
  {p \in Changeable(tree, bound) \cap DOMAIN tree : MayWrite(tree, Parent(p), bound)}
With(tree, p, data) ==
  [q \in DOMAIN tree \cup {p} |->
     IF q # p THEN tree[q] ELSE File(IF p \in DOMAIN tree THEN tree[p].mode ELSE {"w"}, data)]
Without(tree, p) == [q \in DOMAIN tree \ {p} |-> tree[q]]
=============================================================================
