----------------------------- MODULE ExportTree -----------------------------
(***************************************************************************)
(* The tree that the canonical repository exports to the mirror of one       *)
(* component (.github/package-export-smoke.py) and its comparison with the   *)
(* tree of a mirror commit (.github/release-provenance.py).  A source is a   *)
(* function from <<directory, name>> to files, a tree one from paths to      *)
(* files; a file is [mode, text], a text a sequence of tokens.  What raises   *)
(* an error is an empty set, what returns a value a set of that value.        *)
(***************************************************************************)
EXTENDS Naturals, Sequences, FiniteSets

CONSTANTS
  Copied,      (* The files copied from elsewhere: their destination.       *)
  Excluded,    (* Names at the root of the component that are not exported. *)
  FixedEdits,  (* Edits that the component always gets.                     *)
  Tables,      (* The component's [prefix, renames] in a text that is a map. *)
  TableFrom, TableAt  (* Where the map is in a source and in a tree.        *)

(* The component map is copied as it is.                                    *)
ASSUME ExportAssumption ==
  /\ TableFrom \in DOMAIN Copied /\ Copied[TableFrom] = TableAt
  /\ \A s, t \in DOMAIN Copied : Copied[s] = Copied[t] => s = t
  /\ \A text \in DOMAIN Tables :
       \A e \in FixedEdits \cup Tables[text].renames : e.path # TableAt

IsFcn(f) == f = [x \in DOMAIN f |-> f[x]]
Edits(entry) == FixedEdits \cup entry.renames
(* Of the component's entry the mirror's map and the canonical one may differ. *)
Entry(map) == {Tables[text] : text \in {map.text} \cap DOMAIN Tables}

Owned(source, entry) == {s \in DOMAIN source : s[1] = entry.prefix}
Kept(source, entry) == {s[2] : s \in Owned(source, entry)} \ Excluded
Copies == {Copied[s] : s \in DOMAIN Copied}

(* What add_tree and add_file put at a path.                                *)
Put(source, entry, path) ==
  IF path \in Copies THEN source[CHOOSE s \in DOMAIN Copied : Copied[s] = path]
  ELSE source[<<entry.prefix, path>>]

Anchors(text, token) == {i \in DOMAIN text : text[i] = token}
EditedToken(token, edits) ==
  IF \E e \in edits : e.before = token
  THEN (CHOOSE e \in edits : e.before = token).after ELSE token
Edited(file, edits) ==
  [mode |-> file.mode, text |-> [i \in DOMAIN file.text |-> EditedToken(file.text[i], edits)]]
EditsAt(entry, path) == {e \in Edits(entry) : e.path = path}

(* Nothing is missing or put twice, and every edit finds its one anchor.     *)
Exportable(source, entry) ==
  /\ Owned(source, entry) # {} /\ DOMAIN Copied \subseteq DOMAIN source
  /\ Kept(source, entry) \cap Copies = {}
  /\ \A e \in Edits(entry) :
       /\ e.path \in Kept(source, entry) \cup Copies
       /\ Cardinality(Anchors(Put(source, entry, e.path).text, e.before)) = 1
Export(source, entry) ==
  IF Exportable(source, entry)
  THEN {[p \in Kept(source, entry) \cup Copies |->
           Edited(Put(source, entry, p), EditsAt(entry, p))]}
  ELSE {}

-----------------------------------------------------------------------------
(* compare_trees *)

Missing(expected, actual) == DOMAIN expected \ DOMAIN actual
Extra(expected, actual) == DOMAIN actual \ DOMAIN expected
NoneDiffer(expected, actual) == {}                                (* mutant *)
Mismatched(expected, actual) ==
  {p \in DOMAIN expected \cap DOMAIN actual : expected[p] # actual[p]}
Same(expected, actual) ==
  Missing(expected, actual) \cup Extra(expected, actual) \cup Mismatched(expected, actual) = {}

(* What verify compares the mirror's tree with: the export of the source by  *)
(* the map that is in the mirror.                                           *)
Matches(source, tree) ==
  /\ TableAt \in DOMAIN tree
  /\ \E entry \in Entry(tree[TableAt]) : \E expected \in Export(source, entry) : Same(expected, tree)

(* What it should be: the export by the canonical map.                      *)
IsExport(source, tree) ==
  /\ TableFrom \in DOMAIN source
  /\ \E entry \in Entry(source[TableFrom]) : tree \in Export(source, entry)
=============================================================================
