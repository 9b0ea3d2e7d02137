---------------------------- MODULE PackageProof ----------------------------
(***************************************************************************)
(* The validation of the Go and Android packages by                          *)
(* .github/package-export-smoke.py (validate, validate-go-export and         *)
(* validate-android-export): the script runs foreign tools one at a time on  *)
(* trees that no tool may change, and between them looks at what they left.  *)
(* It makes those trees read-only for the tools that consume the package,    *)
(* compares them with their fingerprints and gives them their modes back.    *)
(***************************************************************************)
EXTENDS FileTree

CONSTANTS
  Exports,        (* What the repository exports, for "go" and "android".    *)
  Required,       (* Files that a Go module must have.                       *)
  MetadataNames,  (* GO_MODULE_METADATA_DIRECTORIES                          *)
  BuildNames,     (* source_excludes                                         *)
  Abis,           (* ANDROID_ABIS                                            *)
  Slices,         (* Native libraries.                                       *)
  Machine,        (* The ABI that a library is for, by its ELF header.       *)
  Unpacked,       (* What an archive holds, for the contents of an AAR.      *)
  MaxWrites,      (* Bound: changes made by tools.                           *)
  MaxRuns         (* Bound: runs of the script.                              *)

Kinds == {"go", "android"}
Header(k) == IF k = "go" THEN <<"hop.h">> ELSE <<"include", "hop.h">>
Marker(k) == IF k = "go" THEN <<"go.mod">> ELSE <<"build-aar.sh">>
Aar == <<"hop.aar">>
Sums == <<"hop.aar.sha256">>
Library == <<"libhop.so">>
TreeNames == {"export", "repository", "cache"}
Guarded(k) == IF k = "go" THEN {"cache"} ELSE {"export", "repository"}
Hidden(name) == IF name = "export" THEN BuildNames ELSE {}

(* A link of an export names nothing that the fingerprint leaves out.        *)
ASSUME PackageAssumption ==
  /\ {Aar, Sums} \subseteq Paths /\ Header("go") \in Required /\ Required \subseteq Paths
  /\ DOMAIN Exports = Kinds
  /\ \A k \in Kinds : \A e \in Exports[k] :
       /\ IsTree(OnDisk(e))
       /\ \A p \in DOMAIN e : e[p].mode = "120000" => e[p].data[1] \notin BuildNames
  /\ DOMAIN Unpacked = Contents[Aar]
  /\ \A c \in Contents[Aar] : Unpacked[c] \in [header : Contents[Header("android")], jni : [Abis -> Slices], prefab : [Abis -> Slices]]
  /\ DOMAIN Machine = Slices
  /\ MaxWrites \in Nat /\ MaxRuns \in Nat

VARIABLES
  kind,      (* What is validated: a Go or an Android package.               *)
  existing,  (* Whether the export is somebody's checkout.                   *)
  bound,     (* Whether modes bind the tools.                                *)
  pc,
  made,      (* Whether the validation directory exists.                     *)
  left,      (* The files of an export that are still to be written.         *)
  trees,     (* The export, the Maven repository and the Go module cache.    *)
  before,    (* The guarded trees as measured: the code has their modes and  *)
             (* their fingerprints.                                          *)
  failed,    (* Whether a step of the try has raised.                        *)
  checked,   (* What was inspected: the published AAR, the module's header.  *)
  product,   (* What the consumer was given: the AAR that it resolved and    *)
             (* the libraries of its APK, or the installed header.           *)
  writes, runs
vars == <<kind, existing, bound, pc, made, left, trees, before, failed, checked, product, writes, runs>>

Nothing == <<>>
NoProduct == [file |-> Nothing, libraries |-> Nothing]
NoTrees == [name \in TreeNames |-> NoTree]
Tools == {"download", "build", "install", "use", "resolve", "assemble"}
Consuming == {"install", "installed", "use", "resolve", "assemble", "compare"}
Ended == {"accepted", "rejected", "killed"}
PCs == {"idle", "export", "write", "inspect", "measure", "freeze", "restore", "check"} \cup Tools \cup Consuming \cup Ended

Init ==
  /\ kind \in Kinds /\ existing \in BOOLEAN /\ bound \in BOOLEAN
  /\ pc = "idle" /\ made = FALSE /\ left = Nothing
  /\ \/ ~existing /\ trees = NoTrees
     \/ existing /\ \E e \in Exports[kind] : trees = [NoTrees EXCEPT !["export"] = OnDisk(e)]
  /\ before = NoTrees /\ failed = FALSE /\ checked = Nothing /\ product = NoProduct
  /\ writes = 0 /\ runs = 0

Goto(from, to) == pc = from /\ pc' = to
Kept == UNCHANGED <<kind, existing, bound, made, writes, runs>>
Stays == Kept /\ UNCHANGED left

-----------------------------------------------------------------------------
(* A run of the script. *)

(* Only a new validation directory will do, and a checkout of that package.  *)
IgnoreLeftovers == existing => IsFile(trees["export"], Marker(kind))   (* mutant *)
MayStart == ~made /\ (existing => IsFile(trees["export"], Marker(kind)))
First == IF kind = "go" THEN "download" ELSE "build"
Begin ==
  /\ pc \in {"idle"} \cup Ended /\ runs < MaxRuns /\ runs' = runs + 1
  /\ MayStart
  /\ made' = TRUE /\ pc' = IF existing THEN First ELSE "export"
  /\ before' = NoTrees /\ failed' = FALSE /\ checked' = Nothing /\ product' = NoProduct
  /\ UNCHANGED <<kind, existing, bound, left, trees, writes>>

Refuse ==
  /\ pc \in {"idle"} \cup Ended /\ runs < MaxRuns /\ runs' = runs + 1
  /\ ~MayStart
  /\ pc' = "rejected"
  /\ before' = NoTrees /\ failed' = FALSE /\ checked' = Nothing /\ product' = NoProduct
  /\ UNCHANGED <<kind, existing, bound, made, left, trees, writes>>

(* write_export makes a new directory and writes one file after another; in  *)
(* which order is left open.                                                 *)
OpenExport ==
  /\ Goto("export", "write") /\ trees["export"] = NoTree
  /\ left' \in Exports[kind] /\ trees' = [trees EXCEPT !["export"] = NewDir]
  /\ UNCHANGED <<before, failed, checked, product>> /\ Kept
WriteFile ==
  /\ pc = "write" /\ UNCHANGED pc
  /\ \E p \in DOMAIN left :
       /\ trees' = [trees EXCEPT !["export"] = Adding(@, p, left[p])]
       /\ left' = [q \in DOMAIN left \ {p} |-> left[q]]
  /\ UNCHANGED <<before, failed, checked, product>> /\ Kept
EndExport ==
  /\ Goto("write", First) /\ DOMAIN left = {}
  /\ UNCHANGED <<trees, before, failed, checked, product>> /\ Stays

(* build_go_proxy: the zip of the module that a proxy offers to Go.          *)
Zipped(files) == OnDisk([p \in files |-> [mode |-> "100644", data |-> trees["export"][p].data]])
(* go mod download: Go unpacks the zip and leaves its cache read-only.       *)
IsForbidden(p) ==
  \/ \E i \in 1..(Len(p) - 2) : p[i] = "native" /\ p[i + 1] = "lib"
  \/ p[Len(p)] = "install-libhop.py"
Download ==
  /\ Goto("download", "measure")
  /\ \E files \in ModuleFiles(trees["export"], MetadataNames) :
       /\ Required \subseteq files /\ \A p \in files : ~IsForbidden(p)
       /\ trees' = [trees EXCEPT !["cache"] = ChmodAll(Zipped(files), {"x"}, {})]
  /\ UNCHANGED <<before, failed, checked, product>> /\ Stays

(* build-aar.sh publishes some AAR with some sums.                           *)
Build ==
  /\ Goto("build", "inspect")
  /\ \E aar \in Contents[Aar], sums \in Contents[Sums] :
       trees' = [trees EXCEPT !["repository"] =
                   OnDisk([p \in {Aar, Sums} |-> [mode |-> "100644", data |-> IF p = Aar THEN aar ELSE sums]])]
  /\ UNCHANGED <<before, failed, checked, product>> /\ Stays

IsSound(aar, header) ==
  /\ Unpacked[aar].header = header
  /\ \A abi \in Abis : /\ Machine[Unpacked[aar].jni[abi]] = abi
                       /\ Unpacked[aar].jni[abi] = Unpacked[aar].prefab[abi]
Inspect ==
  /\ Goto("inspect", "measure")
  /\ IsFile(trees["repository"], Aar) /\ IsFile(trees["repository"], Sums) /\ IsFile(trees["export"], Header(kind))
  /\ LET aar == Bytes(trees["repository"], Aar) IN
     /\ IsSound(aar, Bytes(trees["export"], Header(kind)))
     /\ Bytes(trees["repository"], Sums) = aar
     /\ checked' = aar
  /\ UNCHANGED <<trees, before, failed, product>> /\ Stays

(* What is measured are the fingerprints and the modes of the guarded trees. *)
Measure ==
  /\ Goto("measure", "freeze")
  /\ before' = [name \in TreeNames |-> IF name \in Guarded(kind) THEN trees[name] ELSE NoTree]
  /\ checked' = IF kind = "go" THEN Bytes(trees["cache"], Header(kind)) ELSE checked
  /\ UNCHANGED <<trees, failed, product>> /\ Stays

Saved(name) == ModesOf(before[name], Hidden(name))
Frozen(name) ==
  IF kind = "go" THEN ChmodAll(trees[name], {"x"}, {}) ELSE ReadOnly(trees[name], Saved(name))
Freeze ==
  /\ Goto("freeze", IF kind = "go" THEN "install" ELSE "resolve")
  /\ trees' = [name \in TreeNames |-> IF name \in Guarded(kind) THEN Frozen(name) ELSE trees[name]]
  /\ UNCHANGED <<before, failed, checked, product>> /\ Stays

Unchanged(name) == Fingerprint(trees[name], Hidden(name)) = Fingerprint(before[name], Hidden(name))
GuardsUnchanged == \A name \in Guarded(kind) : Unchanged(name)

(* hop-install puts a header and the library below the prefix.               *)
Install ==
  /\ Goto("install", "installed")
  /\ \E header \in Contents[Header(kind)] : product' = [NoProduct EXCEPT !.file = header]
  /\ UNCHANGED <<trees, before, failed, checked>> /\ Stays
Installed ==
  /\ Goto("installed", "use")
  /\ GuardsUnchanged
  /\ IsFile(trees["export"], Header(kind)) /\ product.file = Bytes(trees["export"], Header(kind))
  /\ UNCHANGED <<trees, before, failed, checked, product>> /\ Stays

Use == Goto("use", "compare") /\ UNCHANGED <<trees, before, failed, checked, product>> /\ Stays
Resolve == Goto("resolve", "assemble") /\ UNCHANGED <<trees, before, failed, checked, product>> /\ Stays
Assemble ==
  /\ Goto("assemble", "compare")
  /\ \E aar \in Contents[Aar], libraries \in [Abis -> Slices] :
       product' = [file |-> aar, libraries |-> libraries]
  /\ UNCHANGED <<trees, before, failed, checked>> /\ Stays

Compare ==
  /\ Goto("compare", "restore") /\ GuardsUnchanged
  /\ UNCHANGED <<trees, before, failed, checked, product>> /\ Stays

(* The finally of the try: the repository goes first, and if a path of it is *)
(* gone the export is not restored.                                          *)
Restore ==
  /\ pc = "restore"
  /\ \/ /\ kind = "go"
        /\ trees' = [trees EXCEPT !["cache"] = ChmodAll(@, {"w", "x"}, {"w"})]
        /\ pc' = IF failed THEN "rejected" ELSE "check"
     \/ /\ kind = "android"
        /\ LET gone(name) == Gone(trees[name], Saved(name)) # {} IN
           \E repository \in Restored(trees["repository"], Saved("repository")) :
             \E export \in IF gone("repository") THEN {trees["export"]} ELSE Restored(trees["export"], Saved("export")) :
               /\ trees' = [trees EXCEPT !["repository"] = repository, !["export"] = export]
               /\ pc' = IF failed \/ gone("repository") \/ gone("export") THEN "rejected" ELSE "check"
  /\ UNCHANGED <<before, failed, checked, product>> /\ Stays

Check ==
  /\ Goto("check", "accepted")
  /\ kind = "go" => IsFile(trees["cache"], Header(kind)) /\ \A p \in DOMAIN trees["cache"] : Library[1] \notin ToSet(p)
  /\ kind = "android" =>
       /\ IsFile(trees["repository"], Aar) /\ product.file = Bytes(trees["repository"], Aar)
       /\ product.libraries = Unpacked[Bytes(trees["repository"], Aar)].jni
  /\ UNCHANGED <<trees, before, failed, checked, product>> /\ Stays

-----------------------------------------------------------------------------
(* Tools, failures and the user. *)

(* The trees that a tool works on: those of its working directory and        *)
(* arguments, and those it may reach by mistake, which the script guards.    *)
Reach(step) ==
  CASE step = "build" -> {"export", "repository"}
    [] step = "install" -> {"cache"}
    [] step = "use" -> {"cache", "export"}
    [] step \in {"resolve", "assemble"} -> {"export", "repository"}
    [] OTHER -> {}
Write ==
  /\ writes < MaxWrites /\ writes' = writes + 1
  /\ \E name \in Reach(pc) :
       \/ \E p \in Changeable(trees[name], bound) : \E data \in Contents[p] :
            trees' = [trees EXCEPT ![name] = With(@, p, data)]
       \/ \E p \in Removable(trees[name], bound) :
            trees' = [trees EXCEPT ![name] = Without(@, p)]
  /\ UNCHANGED <<kind, existing, bound, pc, made, left, before, failed, checked, product, runs>>

(* A tool fails or a condition does not hold: main reports it.               *)
NoFinally(step) == FALSE                                          (* mutant *)
InTry(step) == step \in Consuming
Fails ==
  /\ pc \in Tools \cup Consuming \cup {"export", "write", "inspect", "check"}
  /\ IF InTry(pc) THEN pc' = "restore" /\ failed' = TRUE ELSE pc' = "rejected" /\ UNCHANGED failed
  /\ UNCHANGED <<trees, before, checked, product>> /\ Stays

(* The job is cancelled: no finally is run.                                  *)
Kill ==
  /\ pc \notin {"idle"} \cup Ended /\ pc' = "killed"
  /\ UNCHANGED <<trees, before, failed, checked, product>> /\ Stays

(* Somebody removes the validation directory.                                *)
CleanUp ==
  /\ pc \in Ended /\ made /\ made' = FALSE
  /\ trees' = [NoTrees EXCEPT !["export"] = IF existing THEN trees["export"] ELSE NoTree]
  /\ before' = NoTrees /\ pc' = "idle"
  /\ UNCHANGED <<kind, existing, bound, left, failed, checked, product, writes, runs>>

Next ==
  \/ Begin \/ Refuse \/ OpenExport \/ WriteFile \/ EndExport \/ Download \/ Build \/ Inspect \/ Measure \/ Freeze \/ Install \/ Installed
  \/ Use \/ Resolve \/ Assemble \/ Compare \/ Restore \/ Check
  \/ Write \/ Fails \/ Kill \/ CleanUp
Spec == Init /\ [][Next]_vars

-----------------------------------------------------------------------------
(* Properties. *)

(* Every variable keeps its type.                                            *)
TypeOK ==
  /\ kind \in Kinds /\ {existing, bound, made, failed} \subseteq BOOLEAN /\ pc \in PCs
  /\ DOMAIN left \subseteq {Root} \cup Paths
  /\ DOMAIN trees = TreeNames /\ \A name \in TreeNames : IsTree(trees[name])
  /\ DOMAIN before = TreeNames /\ \A name \in TreeNames : IsTree(before[name])
  /\ checked \in {Nothing} \cup UNION {Contents[p] : p \in Paths}
  /\ product.file \in {Nothing} \cup UNION {Contents[p] : p \in Paths}
  /\ product.libraries \in {Nothing} \cup [Abis -> Slices]
  /\ writes \in 0..MaxWrites /\ runs \in 0..MaxRuns

Alike(name) == SameFiles(before[name], trees[name], Hidden(name))
Confusable(name) == Ambiguous(before[name], trees[name], Hidden(name))

(* tree_fingerprint, resolved_aar, apk_source: when a package is accepted,   *)
(* no tool has changed the trees that it was tested with, and the consumer   *)
(* has run what was inspected: the AAR with sound libraries in its APK, or   *)
(* the header of the Go module.  It takes the fingerprint for the trees,     *)
(* which is wrong only of trees that it may confuse.                         *)
AcceptedIsChecked ==
  pc = "accepted" =>
    /\ \A name \in Guarded(kind) : Alike(name) \/ Confusable(name)
    /\ \/ product.file = checked
       \/ kind = "android" /\ Confusable("repository")
    /\ kind = "android" /\ ~Confusable("repository") =>
         \A abi \in Abis : Machine[product.libraries[abi]] = abi

(* make_tree_read_only, chmod_tree: from the measurement to the comparison   *)
(* no tool that modes bind can change, add or remove a guarded file, so the  *)
(* comparison is there for those that modes do not bind.                     *)
ModesProtect ==
  bound /\ pc \in Consuming \cup {"restore", "check", "accepted"} =>
    \A name \in Guarded(kind) : Alike(name)

(* restore_tree_modes, chmod_tree(module_cache, 0o755, 0o644): a run that    *)
(* got to the try and was not killed leaves the checkout and the repository  *)
(* as they were, and a cache that can be removed, however it ended, unless   *)
(* a tool has removed a guarded path.                                        *)
NoneGone == \A name \in Guarded(kind) : Gone(trees[name], Saved(name)) = {}
ModesComeBack ==
  pc \in {"check", "accepted", "rejected"} /\ before # NoTrees =>
    IF kind = "go"
    THEN \A p \in DOMAIN trees["cache"] : trees["cache"][p].kind = "dir" => "w" \in trees["cache"][p].mode
    ELSE NoneGone => \A name \in Guarded(kind) : \A p \in DOMAIN Saved(name) : trees[name][p].mode = Saved(name)[p]

(* require(not work.exists()), require(not destination.exists()): the tools  *)
(* of a run find no cache and no repository of an earlier one, and an export *)
(* that is whole: none that a killed run has left half-written, changed or   *)
(* read-only.  A checkout is taken as it is: what an earlier run has changed *)
(* in it, or left read-only, is tested, and this says nothing about it.      *)
FreshStart ==
  [][pc' \in {"download", "build"} /\ pc # pc' =>
       /\ trees'["cache"] = NoTree /\ trees'["repository"] = NoTree
       /\ ~existing => \E e \in Exports[kind] : trees'["export"] = OnDisk(e)]_vars
=============================================================================
