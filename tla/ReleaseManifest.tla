-------------------------- MODULE ReleaseManifest --------------------------
(***************************************************************************)
(* The artifact manifest of .github/release-artifact.py: create lists what   *)
(* is in a directory, verify compares a directory with such a list.         *)
(* An artifact is [files, manifest]: the nodes of a directory by path, and   *)
(* the manifest in it, a set with one manifest or none.                      *)
(***************************************************************************)
CONSTANTS
  Paths,   (* Relative paths of a release directory, not the manifest's.     *)
  Data,    (* What a regular file can hold.                                  *)
  Digest   (* Its SHA-256 and size, as a function on Data.                   *)

(* No two contents share both digest and size.                              *)
ASSUME ManifestAssumption ==
  /\ DOMAIN Digest = Data
  /\ \A x, y \in Data : Digest[x] = Digest[y] => x = y

Node == [kind : {"file"}, data : Data] \cup [kind : {"directory", "symlink", "special"}]
Directories == UNION {[P -> Node] : P \in SUBSET Paths}
Regular(x) == [kind |-> "file", data |-> x]
Files(dir) == {p \in DOMAIN dir : dir[p].kind = "file"}

(* artifact_files rejects all but regular files and directories ...          *)
Listable(dir) == \A p \in DOMAIN dir : dir[p].kind \in {"file", "directory"}
(* ... and lists the regular files.                                         *)
ArtifactFiles(dir) == {[path |-> p, sum |-> Digest[dir[p].data]] : p \in Files(dir)}

Manifest(dir, context) == [context |-> context, files |-> ArtifactFiles(dir)]

(* create: the directory with the manifest of what is in it.                *)
Create(dir, context) == [files |-> dir, manifest |-> {Manifest(dir, context)}]

Inventory(m, dir) == {e.path : e \in m.files} = Files(dir)
Unchanged(m, dir) == \A e \in m.files : e \in ArtifactFiles(dir)
Single(m) == \A d, e \in m.files : d.path = e.path => d = e

(* verify: the manifest is there and is of this context, and the directory   *)
(* holds exactly the files that it declares.                                *)
Accepts(artifact, context) ==
  \E m \in artifact.manifest :
    /\ m.context = context
    /\ Single(m) /\ Listable(artifact.files)
    /\ Inventory(m, artifact.files) /\ Unchanged(m, artifact.files)

(* The files of an accepted directory are those the manifest was created of. *)
SameFiles(a, b) == Files(a) = Files(b) /\ \A p \in Files(a) : a[p] = b[p]
=============================================================================
