---------------------------- MODULE ReleaseProofs ----------------------------
(***************************************************************************)
(* Proofs about ReleaseManifest and Release, for any number of commits,     *)
(* runs, attempts, checks and faults: what a manifest binds, and what is    *)
(* true of every published gem.                                             *)
(***************************************************************************)
EXTENDS Release, FiniteSetTheorems, TLAPS

-----------------------------------------------------------------------------
(* The manifest *)

(* The paths that a list of files declares are those of the files.          *)
LEMMA DeclaredPaths ==
  ASSUME NEW dir PROVE {e.path : e \in ArtifactFiles(dir)} = Files(dir)
<1>1. ASSUME NEW p \in Files(dir) PROVE p \in {e.path : e \in ArtifactFiles(dir)}
  <2>1. [path |-> p, sum |-> Digest[dir[p].data]] \in ArtifactFiles(dir)
      BY DEF ArtifactFiles
  <2>2. [path |-> p, sum |-> Digest[dir[p].data]].path = p OBVIOUS
  <2>. QED BY <2>1, <2>2
<1>2. ASSUME NEW e \in ArtifactFiles(dir) PROVE e.path \in Files(dir)
  BY DEF ArtifactFiles
<1>. QED BY <1>1, <1>2

(* An artifact that verify accepts has the context of the manifest's        *)
(* creation and exactly its regular files, with their contents              *)
(* (release-artifact.py:73-115, 150-196).                                   *)
THEOREM ManifestBinds ==
  ASSUME NEW made \in Directories, NEW got, NEW context, NEW other,
         got.files \in Directories,
         \A m \in got.manifest : m = Manifest(made, other),
         Accepts(got, context)
  PROVE  context = other /\ SameFiles(got.files, made)
<1> DEFINE m == Manifest(made, other)
           dir == got.files
<1>1. /\ m.context = context /\ Inventory(m, dir) /\ Unchanged(m, dir)
  BY DEF Accepts
<1>2. context = other BY <1>1 DEF Manifest
<1>3. m.files = ArtifactFiles(made) BY DEF Manifest
<1>4. Files(dir) = Files(made) BY <1>1, <1>3, DeclaredPaths DEF Inventory
<1>5. ASSUME NEW p \in Files(made) PROVE dir[p] = made[p]
  <2>1. [path |-> p, sum |-> Digest[made[p].data]] \in ArtifactFiles(dir)
    BY <1>1, <1>3 DEF Unchanged, ArtifactFiles
  <2>2. Digest[dir[p].data] = Digest[made[p].data]
    BY <2>1, <1>4 DEF ArtifactFiles
  <2>3. dir[p] \in [kind : {"file"}, data : Data] /\ made[p] \in [kind : {"file"},
      data : Data]
    BY <1>4 DEF Files, Directories, Node
  <2>4. dir[p].data = made[p].data BY <2>2, <2>3, ManifestAssumption
  <2>. QED BY <2>3, <2>4
<1>. QED BY <1>2, <1>4, <1>5 DEF SameFiles

-----------------------------------------------------------------------------
(* The invariant *)

(* A job runs for the commit and the version of a pushed tag.               *)
Begun ==
  \A r \in Runs :
    /\ build[r] # "none" =>
         Commit(r) \in Commits /\ Version(r) \in Versions /\ attempt[r] \in Attempts
    /\ build[r] = "none" => builtIn[r] = 0
    /\ build[r] = "built" => VersionOf[Commit(r)] = Version(r) /\ Traced(Commit(r))

(* What the steps of the publish job have established, and nothing undoes.  *)
Last  == {"download", "artifact", "push"}
Third == {"ci", "checks"} \cup Last
Judged ==
  /\ main \in wasMain
  /\ \A rev \in Revs : Good(rev, check[rev]) => rev \in passed
  /\ \A r \in Runs :
       /\ publish[r] \in {"origin",
           "tree"} \cup Third => event[r].new /\ Commit(r) \in wasMain
       /\ publish[r] \in {"tree"} \cup Third => Origin(Commit(r)) \in merged
       /\ publish[r] \in Third => Commit(r) \in Exported
       /\ publish[r] \in Last => Origin(Commit(r)) \in passed

(* The directory and the context of attempt a of run r, started by e.       *)
Made(c, r, a) == [p \in {Gem} |-> Regular(Built(c, r, a))]
Label(e, r, a) == [run |-> r, attempt |-> a, ref |-> e.version, source |-> e.commit,
                   canonical |-> Origin(e.commit)]
Stored ==
  /\ DOMAIN store = Runs /\ DOMAIN local = Runs
  /\ \A r \in Runs : DOMAIN store[r] = Attempts
Uploaded ==
  \A r \in Runs, a \in Attempts : \A art \in store[r][a] :
    /\ build[r] # "none" /\ a <= builtIn[r]
    /\ art = Create(Made(Commit(r), r, a), Label(event[r], r, a))
Fetched ==
  \A r \in Runs :
    publish[r] \in {"artifact", "push"} =>
      /\ local[r].files \in Directories
      /\ \A m \in local[r].manifest :
           m = Manifest(Made(Commit(r), r, attempt[r]), Label(event[r], r, attempt[r]))
Sealed ==
  \A r \in Runs : publish[r] = "push" =>
    local[r].files[Gem] = Regular(Built(Commit(r), r, attempt[r]))

(* What only ever grows; what starts a run is fixed.                        *)
Grows ==
  /\ wasMain \subseteq wasMain' /\ merged \subseteq merged' /\ passed \subseteq passed'
  /\ \A q \in Runs : Commit(q) # None => event'[q] = event[q]

-----------------------------------------------------------------------------
(* The one origin of a traced commit.                                       *)
LEMMA OriginOf ==
  ASSUME NEW c \in Commits, Traced(c)
      PROVE Origin(c) \in Trailers[c] /\ Origin(c) \in Revs
<1>1. Trailers[c] # {} BY FS_EmptySet DEF Traced
<1>2. Trailers[c] \in SUBSET Revs BY ReleaseAssumption
<1>. QED BY <1>1, <1>2 DEF Origin

(* The map of the mirror is not checked before it is used, and need not be:   *)
(* a tree that is its export by its own map holds the canonical map, and is   *)
(* the export by that one (release-provenance.py:351-352, 388-390).          *)
THEOREM MirrorMapIsCanonical ==
  ASSUME NEW source, \A s \in DOMAIN source : IsFcn(source[s].text),
         NEW tree, IsFcn(tree), Matches(source, tree)
  PROVE  IsExport(source, tree)
<1>1. PICK entry \in Entry(tree[TableAt]) : \E x \in Export(source, entry) : Same(x, tree)
  BY DEF Matches
<1>2. PICK x \in Export(source, entry) : Same(x, tree) BY <1>1
<1> DEFINE at == Kept(source, entry) \cup Copies
           made == [p \in at |-> Edited(Put(source, entry, p), EditsAt(entry, p))]
<1>3. Exportable(source, entry) /\ x = made BY <1>2 DEF Export
<1>4. tree = made
  <2>1. DOMAIN x = DOMAIN tree BY <1>2 DEF Same, Missing, Extra
  <2>2. \A p \in DOMAIN x : x[p] = tree[p] BY <1>2, <2>1 DEF Same, Mismatched
  <2>3. x = [p \in DOMAIN x |-> x[p]] BY <1>3
  <2>. QED BY <1>3, <2>1, <2>2, <2>3 DEF IsFcn
<1>5. TableFrom \in DOMAIN source /\ Put(source, entry, TableAt) = source[TableFrom]
  <2>1. TableAt \in Copies BY ExportAssumption DEF Copies
  <2>2. TableFrom = CHOOSE s \in DOMAIN Copied : Copied[s] = TableAt
    BY ExportAssumption
  <2>3. TableFrom \in DOMAIN source BY <1>3, ExportAssumption DEF Exportable
  <2>. QED BY <2>1, <2>2, <2>3 DEF Put
<1>6. EditsAt(entry, TableAt) = {}
  <2>1. PICK text \in DOMAIN Tables : entry = Tables[text] BY <1>1 DEF Entry
  <2>. QED BY <2>1, ExportAssumption DEF EditsAt, Edits
<1>7. tree[TableAt].text = source[TableFrom].text
  <2>1. TableAt \in at BY <1>5, ExportAssumption DEF Copies
  <2>2. tree[TableAt] = Edited(source[TableFrom], {}) BY <1>4, <1>5, <1>6, <2>1
  <2>3. IsFcn(source[TableFrom].text) BY <1>5
  <2>4. \A token : EditedToken(token, {}) = token BY DEF EditedToken
  <2>. QED BY <2>2, <2>3, <2>4 DEF Edited, IsFcn
<1>8. Entry(tree[TableAt]) = Entry(source[TableFrom]) BY <1>7 DEF Entry
<1>9. tree \in Export(source, entry) BY <1>3, <1>4 DEF Export
<1>. QED BY <1>1, <1>5, <1>8, <1>9 DEF IsExport

(* What the publish job accepts as the tree of a commit is the export.       *)
LEMMA MatchedIsExported ==
  ASSUME NEW c \in Commits, Traced(c), Matches(Source[Origin(c)], Tree[c])
  PROVE  c \in Exported
<1>1. Origin(c) \in Revs BY OriginOf
<1>2. IsFcn(Tree[c]) BY ReleaseAssumption
<1>3. \A s \in DOMAIN Source[Origin(c)] : IsFcn(Source[Origin(c)][s].text)
  BY <1>1, ReleaseAssumption
<1>4. IsExport(Source[Origin(c)], Tree[c]) BY <1>2, <1>3, MirrorMapIsCanonical
<1>. QED BY <1>4 DEF Exported

(* What the assumptions say of None and of the attempts.                    *)
LEMMA Nothing ==
  /\ None \notin Commits /\ None \notin Versions /\ None \notin Data
  /\ Attempts \subseteq 0..MaxAttempt /\ 1 \in Attempts 
  /\ MaxAttempt \in Nat /\ MaxFaults \in Nat
BY ReleaseAssumption DEF Attempts

(* A verified gem is one that some attempt built.                           *)
LEMMA SealedGem ==
  ASSUME Begun, Sealed, TypeOK, NEW r \in Runs, publish[r] = "push"
  PROVE  /\ local[r].files[Gem].data = Built(Commit(r), r, attempt[r])
         /\ local[r].files[Gem].data \in Data
<1>1. local[r].files[Gem].data = Built(Commit(r), r, attempt[r])
  <2>1. local[r].files[Gem] = Regular(Built(Commit(r), r, attempt[r])) BY DEF Sealed
  <2>2. Regular(Built(Commit(r), r, attempt[r])).data = Built(Commit(r), r, attempt[r])
      BY DEF Regular
  <2>. QED BY <2>1, <2>2
<1>2. Commit(r) \in Commits /\ attempt[r] \in Attempts BY DEF Begun, TypeOK
<1>3. Built(Commit(r), r, attempt[r]) \in Gems BY <1>2 DEF Gems
<1>. QED BY <1>1, <1>3, ReleaseAssumption

(* What a build puts into its directory.                                    *)
LEMMA MadeIn ==
  ASSUME NEW c \in Commits, NEW r \in Runs, NEW a \in Attempts
  PROVE  /\ Made(c, r, a) \in Directories /\ Files(Made(c, r, a)) = {Gem}
         /\ Made(c, r, a)[Gem] = Regular(Built(c, r, a))
<1>1. Regular(Built(c, r, a)) \in Node
  <2>1. Built(c, r, a) \in Data BY ReleaseAssumption DEF Gems
  <2>. QED BY <2>1 DEF Regular, Node
<1>2. Made(c, r, a) \in [{Gem} -> Node] BY <1>1 DEF Made
<1>3. {Gem} \in SUBSET Paths BY ReleaseAssumption
<1>4. Made(c, r, a) \in Directories BY <1>2, <1>3 DEF Directories
<1>5. Regular(Built(c, r, a)).kind = "file" BY DEF Regular
<1>. QED BY <1>4, <1>5 DEF Made, Files

(* A damaged artifact is still a directory, with its manifest or none.      *)
LEMMA DamagedIn ==
  ASSUME NEW d \in Directories, NEW e, NEW bad \in Damages(Create(d, e)) \cup {Create(d,
      e)}
  PROVE  bad.files \in Directories /\ bad.manifest \subseteq {Manifest(d, e)}
<1> DEFINE art == Create(d, e)
<1>1. art.files = d /\ art.manifest = {Manifest(d, e)} BY DEF Create
<1>2. PICK P \in SUBSET Paths : d \in [P -> Node] BY DEF Directories
<1>3. Regular(Junk) \in Node BY ReleaseAssumption DEF Regular, Node
<1>4. CASE bad = art BY <1>1, <1>4
<1>5. ASSUME NEW q \in P, bad = [art EXCEPT !.files = [p \in P \ {q} |-> d[p]]] PROVE
        bad.files \in Directories /\ bad.manifest \subseteq {Manifest(d, e)}
  <2>1. [p \in P \ {q} |-> d[p]] \in [P \ {q} -> Node] BY <1>2
  <2>2. [p \in P \ {q} |-> d[p]] \in Directories BY <2>1 DEF Directories
  <2>3. bad.files = [p \in P \ {q} |-> d[p]] /\ bad.manifest = art.manifest
    BY <1>5 DEF Create
  <2>. QED BY <1>1, <2>2, <2>3
<1>6. ASSUME NEW q \in Paths,
             bad = [art EXCEPT !.files =
               [p \in P \cup {q} |-> IF p = q THEN Regular(Junk) ELSE d[p]]]
      PROVE bad.files \in Directories /\ bad.manifest \subseteq {Manifest(d, e)}
  <2> DEFINE f == [p \in P \cup {q} |-> IF p = q THEN Regular(Junk) ELSE d[p]]
  <2>1. f \in [P \cup {q} -> Node] BY <1>2, <1>3
  <2>2. f \in Directories
    <3>1. P \cup {q} \in SUBSET Paths BY <1>2
    <3>. QED BY <2>1, <3>1 DEF Directories
  <2>3. bad.files = f /\ bad.manifest = art.manifest BY <1>6 DEF Create
  <2>. QED BY <1>1, <2>2, <2>3
<1>7. CASE bad = [art EXCEPT !.manifest = {}]
  <2>1. bad.files = d /\ bad.manifest = {} BY <1>7 DEF Create
  <2>. QED BY <2>1
<1>8. DOMAIN art.files = P BY <1>1, <1>2
<1>9. bad \in Damages(art) \cup {art} OBVIOUS
<1> HIDE DEF art
<1>10. \/ bad = art
       \/ \E q \in P : bad = [art EXCEPT !.files = [p \in P \ {q} |-> art.files[p]]]
       \/ \E q \in Paths : bad = [art EXCEPT !.files =
            [p \in P \cup {q} |-> IF p = q THEN Regular(Junk) ELSE art.files[p]]]
       \/ bad = [art EXCEPT !.manifest = {}]
  <2>1. bad \in Damages(art) => bad \in
           {[art EXCEPT !.files = [p \in P \ {q} |-> art.files[p]]] : q \in P}
           \cup {[art EXCEPT !.files = [p \in P \cup {q} |->
                    IF p = q THEN Regular(Junk) ELSE art.files[p]]] : q \in Paths}
           \cup {[art EXCEPT !.manifest = {}]}
    BY <1>8, Zenon DEF Damages
  <2>. QED BY <1>9, <2>1
<1>. QED BY <1>1, <1>4, <1>5, <1>6, <1>7, <1>10

(* Every step preserves the types.                                           *)
LEMMA TypeStep ==
  ASSUME TypeOK, Begun, Sealed, [Next]_vars
  PROVE  TypeOK'
<1> USE Nothing DEF Set, Goto, Commit, Version, mirrorVars, canonVars, startVars,
    workVars, TypeOK, Results
<1>1. ASSUME NEW c \in Commits, MoveMain(c) PROVE TypeOK' BY <1>1 DEF MoveMain
<1>2. ASSUME NEW v \in Versions, DeleteTag(v) PROVE TypeOK' BY <1>2 DEF DeleteTag
<1>3. ASSUME NEW r \in Runs, NEW v \in Versions, NEW c \in Commits, PushTag(r, v, c)
      PROVE TypeOK'
  <2> DEFINE e == [version |-> v, commit |-> c, new |-> tag[v] = None]
  <2>1. e \in Events BY DEF Events
  <2>6. event' = [event EXCEPT ![r] = e] BY <1>3, Zenon DEF PushTag
  <2> HIDE DEF e
  <2>2. event' \in [Runs -> Events]
    BY <2>1, <2>6
  <2>3. attempt' \in [Runs -> 0..MaxAttempt] /\ build' \in [Runs -> {"none", "running",
      "built", "failed"}]
    BY <1>3 DEF PushTag
  <2>4. /\ build[r] = "none" /\ builtIn[r] = 0 /\ publish[r] = "none"
        /\ attempt' = [attempt EXCEPT ![r] = 1] /\ build' = [build EXCEPT ![r] = "running"]
        /\ UNCHANGED <<builtIn, publish>>
    BY <1>3 DEF PushTag, Begun
  <2>5. \A q \in Runs : /\ builtIn'[q] <= attempt'[q]
                       /\ (publish'[q] # "none" => build'[q] = "built")
    BY <2>4
  <2>7. tag' \in [Versions -> Commits \cup {None}] BY <1>3 DEF PushTag
  <2>8. UNCHANGED <<main, wasMain, merged, ci, check, passed, builtIn, publish, clone,
      registry, faults>>
    BY <1>3 DEF PushTag
  <2>. QED BY <2>2, <2>3, <2>5, <2>7, <2>8
<1>4. ASSUME NEW rev \in Revs, Merge(rev) PROVE TypeOK' BY <1>4 DEF Merge
<1>5. ASSUME NEW rev \in Revs, NEW again \in SUBSET Checks, RunCI(rev, again)
      PROVE TypeOK'
     BY <1>5 DEF RunCI
<1>6. ASSUME NEW rev \in Revs, NEW k \in Checks, NEW result \in Results, EndCheck(rev, k,
    result)
      PROVE TypeOK'
     BY <1>6 DEF EndCheck
<1>7. ASSUME NEW rev \in Revs, EndCI(rev) PROVE TypeOK' BY <1>7 DEF EndCI
<1>8. ASSUME NEW r \in Runs, Build(r) PROVE TypeOK'
  <2>1. UNCHANGED <<tag, main, wasMain, merged, ci, check, passed, event, attempt, clone,
      registry, faults>>
    BY <1>8 DEF Build
  <2>2. publish[r] = "none" BY <1>8 DEF Build
  <2>3. /\ build' \in [Runs -> {"none", "running", "built", "failed"}]
        /\ builtIn' = builtIn \/ builtIn' = [builtIn EXCEPT ![r] = attempt[r]]
        /\ publish' = publish \/ publish' = [publish EXCEPT ![r] = "waiting"]
    BY <1>8 DEF Build, NotStarted
  <2>4. \A q \in Runs : /\ builtIn'[q] <= attempt'[q]
                       /\ (publish'[q] # "none" => build'[q] = "built")
    BY <1>8, <2>2 DEF Build, NotStarted
  <2>5. builtIn' \in [Runs -> 0..MaxAttempt] BY <2>3
  <2>. QED BY <2>1, <2>3, <2>4, <2>5
<1>9. ASSUME NEW r \in Runs, Checkout(r) PROVE TypeOK'
  <2>1. Version(r) \in Versions BY <1>9 DEF Checkout, Begun
  <2>2. clone' \in [Runs -> Commits \cup {None}] BY <1>9, <2>1 DEF Checkout
  <2>. QED BY <1>9, <2>2 DEF Checkout
<1>10. ASSUME NEW r \in Runs, VerifyTag(r) PROVE TypeOK'
     BY <1>10 DEF VerifyTag, Require
<1>11. ASSUME NEW r \in Runs, VerifyOrigin(r) PROVE TypeOK'
     BY <1>11 DEF VerifyOrigin, Require
<1>12. ASSUME NEW r \in Runs, VerifyTree(r) PROVE TypeOK'
     BY <1>12 DEF VerifyTree, Require
<1>13. ASSUME NEW r \in Runs, SelectRun(r) PROVE TypeOK'
     BY <1>13 DEF SelectRun, Require
<1>14. ASSUME NEW r \in Runs, VerifyChecks(r) PROVE TypeOK'
     BY <1>14 DEF VerifyChecks, Require
<1>15. ASSUME NEW r \in Runs, Download(r) PROVE TypeOK'
     BY <1>15 DEF Download, DownloadName
<1>16. ASSUME NEW r \in Runs, NoArtifact(r) PROVE TypeOK'
     BY <1>16 DEF NoArtifact, Require
<1>17. ASSUME NEW r \in Runs, VerifyArtifact(r) PROVE TypeOK'
     BY <1>17 DEF VerifyArtifact, Require
<1>18. ASSUME NEW r \in Runs, Push(r) PROVE TypeOK'
  <2>1. Version(r) \in Versions BY <1>18 DEF Push, Begun
  <2>2. local[r].files[Gem].data \in Data BY <1>18, SealedGem DEF Push
  <2>5. \/ registry' = registry
        \/ registry' = [registry EXCEPT ![Version(r)] = local[r].files[Gem].data]
    BY <1>18 DEF Push
  <2>3. registry' \in [Versions -> Data \cup {None}]
    <3> DEFINE x == local[r].files[Gem].data
               v == Version(r)
    <3>1. x \in Data /\ v \in Versions BY <2>1, <2>2
    <3>2. registry' = registry \/ registry' = [registry EXCEPT ![v] = x] BY <2>5
    <3> HIDE DEF x, v
    <3>. QED BY <3>1, <3>2
  <2>4. \/ publish' = [publish EXCEPT ![r] = "done"]
        \/ publish' = [publish EXCEPT ![r] = "failed"]
    BY <1>18 DEF Push
  <2>. QED BY <1>18, <2>3, <2>4 DEF Push
<1>19. ASSUME NEW r \in Runs, Fault(r) PROVE TypeOK' BY <1>19 DEF Fault
<1>20. ASSUME NEW r \in Runs, RerunAll(r) PROVE TypeOK' BY <1>20 DEF RerunAll
<1>21. ASSUME NEW r \in Runs, RerunFailed(r) PROVE TypeOK' BY <1>21 DEF RerunFailed
<1>22. CASE UNCHANGED vars BY <1>22 DEF vars
<1> HIDE DEF TypeOK
<1>. QED
  BY <1>1, <1>2, <1>3, <1>4, <1>5, <1>6, <1>7, <1>8, <1>9, <1>10, <1>11, <1>12,
     <1>13, <1>14, <1>15, <1>16, <1>17, <1>18, <1>19, <1>20, <1>21, <1>22
  DEF Next, World, JobStep

(* Every step preserves what started a job.                                  *)
LEMMA BegunStep ==
  ASSUME TypeOK, Begun, [Next]_vars
  PROVE  Begun'
<1> USE Nothing DEF Set, Goto, Commit, Version, mirrorVars, canonVars, startVars,
    workVars, TypeOK, Begun, Attempts
<1>1. ASSUME NEW c \in Commits, MoveMain(c) PROVE Begun' BY <1>1 DEF MoveMain
<1>2. ASSUME NEW v \in Versions, DeleteTag(v) PROVE Begun' BY <1>2 DEF DeleteTag
<1>3. ASSUME NEW r \in Runs, NEW v \in Versions, NEW c \in Commits, PushTag(r, v, c)
      PROVE Begun'
     BY <1>3 DEF PushTag
<1>4. ASSUME NEW rev \in Revs, Merge(rev) PROVE Begun' BY <1>4 DEF Merge
<1>5. ASSUME NEW rev \in Revs, NEW again \in SUBSET Checks, RunCI(rev, again)
      PROVE Begun'
     BY <1>5 DEF RunCI
<1>6. ASSUME NEW rev \in Revs, NEW k \in Checks, NEW result \in Results, EndCheck(rev, k,
    result)
      PROVE Begun'
     BY <1>6 DEF EndCheck
<1>7. ASSUME NEW rev \in Revs, EndCI(rev) PROVE Begun' BY <1>7 DEF EndCI
<1>8. ASSUME NEW r \in Runs, Build(r) PROVE Begun' BY <1>8 DEF Build, NotStarted
<1>9. ASSUME NEW r \in Runs, Checkout(r) PROVE Begun' BY <1>9 DEF Checkout
<1>10. ASSUME NEW r \in Runs, VerifyTag(r) PROVE Begun'
     BY <1>10 DEF VerifyTag, Require
<1>11. ASSUME NEW r \in Runs, VerifyOrigin(r) PROVE Begun'
     BY <1>11 DEF VerifyOrigin, Require
<1>12. ASSUME NEW r \in Runs, VerifyTree(r) PROVE Begun'
     BY <1>12 DEF VerifyTree, Require
<1>13. ASSUME NEW r \in Runs, SelectRun(r) PROVE Begun'
     BY <1>13 DEF SelectRun, Require
<1>14. ASSUME NEW r \in Runs, VerifyChecks(r) PROVE Begun'
     BY <1>14 DEF VerifyChecks, Require
<1>15. ASSUME NEW r \in Runs, Download(r) PROVE Begun'
     BY <1>15 DEF Download, DownloadName
<1>16. ASSUME NEW r \in Runs, NoArtifact(r) PROVE Begun'
     BY <1>16 DEF NoArtifact, Require
<1>17. ASSUME NEW r \in Runs, VerifyArtifact(r) PROVE Begun'
     BY <1>17 DEF VerifyArtifact, Require
<1>18. ASSUME NEW r \in Runs, Push(r) PROVE Begun' BY <1>18 DEF Push
<1>19. ASSUME NEW r \in Runs, Fault(r) PROVE Begun' BY <1>19 DEF Fault
<1>20. ASSUME NEW r \in Runs, RerunAll(r) PROVE Begun' BY <1>20 DEF RerunAll
<1>21. ASSUME NEW r \in Runs, RerunFailed(r) PROVE Begun' BY <1>21 DEF RerunFailed
<1>22. CASE UNCHANGED vars BY <1>22 DEF vars
<1> HIDE DEF TypeOK, Begun
<1>. QED
  BY <1>1, <1>2, <1>3, <1>4, <1>5, <1>6, <1>7, <1>8, <1>9, <1>10, <1>11, <1>12,
     <1>13, <1>14, <1>15, <1>16, <1>17, <1>18, <1>19, <1>20, <1>21, <1>22
  DEF Next, World, JobStep

(* Every step preserves what the job has established.                        *)
LEMMA JudgedStep ==
  ASSUME TypeOK, Begun, Judged, [Next]_vars
  PROVE  Judged'
<1> USE Nothing DEF Set, Goto, Commit, Version, mirrorVars, canonVars, startVars,
    workVars, TypeOK, Begun, Judged, Last, Third
<1>1. ASSUME NEW c \in Commits, MoveMain(c) PROVE Judged' BY <1>1 DEF MoveMain
<1>2. ASSUME NEW v \in Versions, DeleteTag(v) PROVE Judged' BY <1>2 DEF DeleteTag
<1>3. ASSUME NEW r \in Runs, NEW v \in Versions, NEW c \in Commits, PushTag(r, v, c)
      PROVE Judged'
     BY <1>3 DEF PushTag
<1>4. ASSUME NEW rev \in Revs, Merge(rev) PROVE Judged' BY <1>4 DEF Merge
<1>5. ASSUME NEW rev \in Revs, NEW again \in SUBSET Checks, RunCI(rev, again)
      PROVE Judged'
  <2>1. check'[rev] = [k \in Checks |-> IF k \in again THEN "queued" ELSE check[rev][k]]
        /\ \A q \in Revs : q # rev => check'[q] = check[q]
    BY <1>5 DEF RunCI
  <2>2. Good(rev, check'[rev]) => Good(rev, check[rev])
    BY <2>1, ReleaseAssumption DEF Good
  <2>3. \A q \in Revs : Good(q, check'[q]) => Good(q, check[q])
    BY <2>1, <2>2 DEF Good
  <2>. QED BY <1>5, <2>3 DEF RunCI
<1>6. ASSUME NEW rev \in Revs, NEW k \in Checks, NEW result \in Results, EndCheck(rev, k,
    result)
      PROVE Judged'
     BY <1>6 DEF EndCheck
<1>7. ASSUME NEW rev \in Revs, EndCI(rev) PROVE Judged' BY <1>7 DEF EndCI
<1>8. ASSUME NEW r \in Runs, Build(r) PROVE Judged' BY <1>8 DEF Build, NotStarted
<1>9. ASSUME NEW r \in Runs, Checkout(r) PROVE Judged' BY <1>9 DEF Checkout
<1>10. ASSUME NEW r \in Runs, VerifyTag(r) PROVE Judged'
     BY <1>10 DEF VerifyTag, Require, TagState
<1>11. ASSUME NEW r \in Runs, VerifyOrigin(r) PROVE Judged'
     BY <1>11 DEF VerifyOrigin, Require
<1>12. ASSUME NEW r \in Runs, VerifyTree(r) PROVE Judged'
  <2>1. publish[r] = "tree" => Commit(r) \in Commits /\ Traced(Commit(r)) BY DEF Commit
  <2>2. publish[r] = "tree" /\ publish'[r] = "ci" => Commit(r) \in Exported
    BY <1>12, <2>1, MatchedIsExported DEF VerifyTree, Require
  <2>. QED BY <1>12, <2>2 DEF VerifyTree, Require
<1>13. ASSUME NEW r \in Runs, SelectRun(r) PROVE Judged'
     BY <1>13 DEF SelectRun, Require
<1>14. ASSUME NEW r \in Runs, VerifyChecks(r) PROVE Judged'
  <2>1. publish[r] = "checks" => Commit(r) \in Commits /\ Traced(Commit(r)) BY DEF Commit
  <2>2. publish[r] = "checks" => Origin(Commit(r)) \in Revs BY <2>1, OriginOf
  <2>3. publish'[r] = "download" => Good(Origin(Commit(r)), check[Origin(Commit(r))])
    BY <1>14 DEF VerifyChecks, Require, Good, Allowed
  <2>4. publish[r] = "checks" /\ publish'[r] = "download" => Origin(Commit(r)) \in passed
    BY <2>2, <2>3
  <2>. QED BY <1>14, <2>4 DEF VerifyChecks, Require
<1>15. ASSUME NEW r \in Runs, Download(r) PROVE Judged'
     BY <1>15 DEF Download, DownloadName
<1>16. ASSUME NEW r \in Runs, NoArtifact(r) PROVE Judged'
     BY <1>16 DEF NoArtifact, Require
<1>17. ASSUME NEW r \in Runs, VerifyArtifact(r) PROVE Judged'
     BY <1>17 DEF VerifyArtifact, Require
<1>18. ASSUME NEW r \in Runs, Push(r) PROVE Judged' BY <1>18 DEF Push
<1>19. ASSUME NEW r \in Runs, Fault(r) PROVE Judged' BY <1>19 DEF Fault
<1>20. ASSUME NEW r \in Runs, RerunAll(r) PROVE Judged' BY <1>20 DEF RerunAll
<1>21. ASSUME NEW r \in Runs, RerunFailed(r) PROVE Judged' BY <1>21 DEF RerunFailed
<1>22. CASE UNCHANGED vars BY <1>22 DEF vars
<1> HIDE DEF TypeOK, Begun, Judged
<1>. QED
  BY <1>1, <1>2, <1>3, <1>4, <1>5, <1>6, <1>7, <1>8, <1>9, <1>10, <1>11, <1>12,
     <1>13, <1>14, <1>15, <1>16, <1>17, <1>18, <1>19, <1>20, <1>21, <1>22
  DEF Next, World, JobStep

(* Every step preserves what is in the store.                                *)
LEMMA UploadedStep ==
  ASSUME TypeOK, Begun, Uploaded, Stored, [Next]_vars
  PROVE  Uploaded'
<1> USE Nothing DEF Set, Goto, Commit, Version, mirrorVars, canonVars, startVars,
    workVars, TypeOK, Begun, Uploaded, Stored
<1>1. ASSUME NEW c \in Commits, MoveMain(c) PROVE Uploaded' BY <1>1 DEF MoveMain
<1>2. ASSUME NEW v \in Versions, DeleteTag(v) PROVE Uploaded' BY <1>2 DEF DeleteTag
<1>3. ASSUME NEW r \in Runs, NEW v \in Versions, NEW c \in Commits, PushTag(r, v, c)
      PROVE Uploaded'
     BY <1>3 DEF PushTag
<1>4. ASSUME NEW rev \in Revs, Merge(rev) PROVE Uploaded' BY <1>4 DEF Merge
<1>5. ASSUME NEW rev \in Revs, NEW again \in SUBSET Checks, RunCI(rev, again)
      PROVE Uploaded'
     BY <1>5 DEF RunCI
<1>6. ASSUME NEW rev \in Revs, NEW k \in Checks, NEW result \in Results, EndCheck(rev, k,
    result)
      PROVE Uploaded'
     BY <1>6 DEF EndCheck
<1>7. ASSUME NEW rev \in Revs, EndCI(rev) PROVE Uploaded' BY <1>7 DEF EndCI
<1>8. ASSUME NEW r \in Runs, Build(r) PROVE Uploaded'
  <2>1. CASE UNCHANGED <<store, builtIn>> /\ build' = [build EXCEPT ![r] = "failed"]
    BY <1>8, <2>1 DEF Build
  <2>2. CASE /\ Upload(r)
             /\ builtIn' = [builtIn EXCEPT ![r] = attempt[r]]
             /\ build' = [build EXCEPT ![r] = "built"]
    <3>1. attempt[r] \in Attempts BY <1>8 DEF Build
    <3>2. store'[r][attempt[r]] = {Create(Made(Commit(r), r, attempt[r]), Label(event[r],
        r, attempt[r]))}
      BY <2>2, <3>1 DEF Upload, UploadName, Made, Label, Context
    <3>3. \A q \in Runs, a \in Attempts :
            q # r \/ a # attempt[r] => store'[q][a] = store[q][a]
      BY <2>2, <3>1 DEF Upload, UploadName
    <3>4. event' = event BY <1>8 DEF Build
    <3>5. \A q \in Runs : /\ builtIn'[q] >= builtIn[q]
                         /\ (build[q] # "none" => build'[q] # "none")
      BY <2>2
    <3>6. builtIn'[r] = attempt[r] /\ build'[r] # "none" BY <2>2
    <3>7. ASSUME NEW q \in Runs, NEW a \in Attempts, NEW art \in store'[q][a]
          PROVE  /\ build'[q] # "none" /\ a <= builtIn'[q]
                 /\ art = Create(Made(Commit(q), q, a), Label(event[q], q, a))
      <4>1. CASE q = r /\ a = attempt[r] BY <3>1, <3>2, <3>6, <4>1
      <4>2. CASE q # r \/ a # attempt[r]
        <5>1. art \in store[q][a] BY <3>3, <3>7, <4>2
        <5>2. /\ build[q] # "none" /\ a <= builtIn[q]
              /\ art = Create(Made(Commit(q), q, a), Label(event[q], q, a))
          BY <5>1 DEF Uploaded
        <5>3. a \in Nat /\ builtIn[q] \in Nat /\ builtIn'[q] \in Nat BY <2>2, <3>1
        <5>. QED BY <3>5, <5>2, <5>3
      <4>. QED BY <4>1, <4>2
    <3>. QED BY <3>4, <3>7 DEF Uploaded
  <2>. QED BY <1>8, <2>1, <2>2, Zenon DEF Build, NotStarted
<1>9. ASSUME NEW r \in Runs, Checkout(r) PROVE Uploaded' BY <1>9 DEF Checkout
<1>10. ASSUME NEW r \in Runs, VerifyTag(r) PROVE Uploaded'
     BY <1>10 DEF VerifyTag, Require
<1>11. ASSUME NEW r \in Runs, VerifyOrigin(r) PROVE Uploaded'
     BY <1>11 DEF VerifyOrigin, Require
<1>12. ASSUME NEW r \in Runs, VerifyTree(r) PROVE Uploaded'
     BY <1>12 DEF VerifyTree, Require
<1>13. ASSUME NEW r \in Runs, SelectRun(r) PROVE Uploaded'
     BY <1>13 DEF SelectRun, Require
<1>14. ASSUME NEW r \in Runs, VerifyChecks(r) PROVE Uploaded'
     BY <1>14 DEF VerifyChecks, Require
<1>15. ASSUME NEW r \in Runs, Download(r) PROVE Uploaded'
     BY <1>15 DEF Download, DownloadName
<1>16. ASSUME NEW r \in Runs, NoArtifact(r) PROVE Uploaded'
     BY <1>16 DEF NoArtifact, Require
<1>17. ASSUME NEW r \in Runs, VerifyArtifact(r) PROVE Uploaded'
     BY <1>17 DEF VerifyArtifact, Require
<1>18. ASSUME NEW r \in Runs, Push(r) PROVE Uploaded' BY <1>18 DEF Push
<1>19. ASSUME NEW r \in Runs, Fault(r) PROVE Uploaded' BY <1>19 DEF Fault
<1>20. ASSUME NEW r \in Runs, RerunAll(r) PROVE Uploaded' BY <1>20 DEF RerunAll
<1>21. ASSUME NEW r \in Runs, RerunFailed(r) PROVE Uploaded' BY <1>21 DEF RerunFailed
<1>22. CASE UNCHANGED vars BY <1>22 DEF vars
<1> HIDE DEF TypeOK, Begun, Uploaded, Stored
<1>. QED
  BY <1>1, <1>2, <1>3, <1>4, <1>5, <1>6, <1>7, <1>8, <1>9, <1>10, <1>11, <1>12,
     <1>13, <1>14, <1>15, <1>16, <1>17, <1>18, <1>19, <1>20, <1>21, <1>22
  DEF Next, World, JobStep

(* The store keeps its shape.                                                *)
LEMMA StoredStep ==
  ASSUME TypeOK, Begun, Stored, [Next]_vars
  PROVE  Stored'
<1> USE DEF Set, Goto, Commit, Version, mirrorVars, canonVars, startVars, workVars,
    Stored
<1>1. ASSUME NEW c \in Commits, MoveMain(c) PROVE Stored' BY <1>1 DEF MoveMain
<1>2. ASSUME NEW v \in Versions, DeleteTag(v) PROVE Stored' BY <1>2 DEF DeleteTag
<1>3. ASSUME NEW r \in Runs, NEW v \in Versions, NEW c \in Commits, PushTag(r, v, c)
      PROVE Stored'
     BY <1>3 DEF PushTag
<1>4. ASSUME NEW rev \in Revs, Merge(rev) PROVE Stored' BY <1>4 DEF Merge
<1>5. ASSUME NEW rev \in Revs, NEW again \in SUBSET Checks, RunCI(rev, again)
      PROVE Stored'
     BY <1>5 DEF RunCI
<1>6. ASSUME NEW rev \in Revs, NEW k \in Checks, NEW result \in Results, EndCheck(rev, k,
    result)
      PROVE Stored'
     BY <1>6 DEF EndCheck
<1>7. ASSUME NEW rev \in Revs, EndCI(rev) PROVE Stored' BY <1>7 DEF EndCI
<1>8. ASSUME NEW r \in Runs, Build(r) PROVE Stored'
     BY <1>8 DEF Build, NotStarted, Upload
<1>9. ASSUME NEW r \in Runs, Checkout(r) PROVE Stored' BY <1>9 DEF Checkout
<1>10. ASSUME NEW r \in Runs, VerifyTag(r) PROVE Stored'
     BY <1>10 DEF VerifyTag, Require
<1>11. ASSUME NEW r \in Runs, VerifyOrigin(r) PROVE Stored'
     BY <1>11 DEF VerifyOrigin, Require
<1>12. ASSUME NEW r \in Runs, VerifyTree(r) PROVE Stored'
     BY <1>12 DEF VerifyTree, Require
<1>13. ASSUME NEW r \in Runs, SelectRun(r) PROVE Stored'
     BY <1>13 DEF SelectRun, Require
<1>14. ASSUME NEW r \in Runs, VerifyChecks(r) PROVE Stored'
     BY <1>14 DEF VerifyChecks, Require
<1>15. ASSUME NEW r \in Runs, Download(r) PROVE Stored'
     BY <1>15 DEF Download, DownloadName
<1>16. ASSUME NEW r \in Runs, NoArtifact(r) PROVE Stored'
     BY <1>16 DEF NoArtifact, Require
<1>17. ASSUME NEW r \in Runs, VerifyArtifact(r) PROVE Stored'
     BY <1>17 DEF VerifyArtifact, Require
<1>18. ASSUME NEW r \in Runs, Push(r) PROVE Stored' BY <1>18 DEF Push
<1>19. ASSUME NEW r \in Runs, Fault(r) PROVE Stored' BY <1>19 DEF Fault
<1>20. ASSUME NEW r \in Runs, RerunAll(r) PROVE Stored' BY <1>20 DEF RerunAll
<1>21. ASSUME NEW r \in Runs, RerunFailed(r) PROVE Stored' BY <1>21 DEF RerunFailed
<1>22. CASE UNCHANGED vars BY <1>22 DEF vars
<1> HIDE DEF Stored
<1>. QED
  BY <1>1, <1>2, <1>3, <1>4, <1>5, <1>6, <1>7, <1>8, <1>9, <1>10, <1>11, <1>12,
     <1>13, <1>14, <1>15, <1>16, <1>17, <1>18, <1>19, <1>20, <1>21, <1>22
  DEF Next, World, JobStep

(* Every step preserves what was downloaded.                                 *)
LEMMA FetchedStep ==
  ASSUME TypeOK, Begun, Uploaded, Stored, Fetched, [Next]_vars
  PROVE  Fetched'
<1> USE Nothing DEF Set, Goto, Commit, Version, mirrorVars, canonVars, startVars,
    workVars, TypeOK, Begun, Fetched, Stored
<1>1. ASSUME NEW c \in Commits, MoveMain(c) PROVE Fetched' BY <1>1 DEF MoveMain
<1>2. ASSUME NEW v \in Versions, DeleteTag(v) PROVE Fetched' BY <1>2 DEF DeleteTag
<1>3. ASSUME NEW r \in Runs, NEW v \in Versions, NEW c \in Commits, PushTag(r, v, c)
      PROVE Fetched'
     BY <1>3 DEF PushTag
<1>4. ASSUME NEW rev \in Revs, Merge(rev) PROVE Fetched' BY <1>4 DEF Merge
<1>5. ASSUME NEW rev \in Revs, NEW again \in SUBSET Checks, RunCI(rev, again)
      PROVE Fetched'
     BY <1>5 DEF RunCI
<1>6. ASSUME NEW rev \in Revs, NEW k \in Checks, NEW result \in Results, EndCheck(rev, k,
    result)
      PROVE Fetched'
     BY <1>6 DEF EndCheck
<1>7. ASSUME NEW rev \in Revs, EndCI(rev) PROVE Fetched' BY <1>7 DEF EndCI
<1>8. ASSUME NEW r \in Runs, Build(r) PROVE Fetched' BY <1>8 DEF Build, NotStarted
<1>9. ASSUME NEW r \in Runs, Checkout(r) PROVE Fetched' BY <1>9 DEF Checkout
<1>10. ASSUME NEW r \in Runs, VerifyTag(r) PROVE Fetched'
     BY <1>10 DEF VerifyTag, Require
<1>11. ASSUME NEW r \in Runs, VerifyOrigin(r) PROVE Fetched'
     BY <1>11 DEF VerifyOrigin, Require
<1>12. ASSUME NEW r \in Runs, VerifyTree(r) PROVE Fetched'
     BY <1>12 DEF VerifyTree, Require
<1>13. ASSUME NEW r \in Runs, SelectRun(r) PROVE Fetched'
     BY <1>13 DEF SelectRun, Require
<1>14. ASSUME NEW r \in Runs, VerifyChecks(r) PROVE Fetched'
     BY <1>14 DEF VerifyChecks, Require
<1>15. ASSUME NEW r \in Runs, Download(r) PROVE Fetched'
  <2>1. PICK art \in store[r][attempt[r]] : (local' = [local EXCEPT ![r] = art]) \/
                 (\E bad \in Damages(art) : local' = [local EXCEPT ![r] = bad])
    BY <1>15 DEF Download, DownloadName
  <2>2. /\ publish[r] = "download" /\ UNCHANGED <<attempt, event>>
        /\ \A q \in Runs : q # r => local'[q] = local[q] /\ publish'[q] = publish[q]
    BY <1>15 DEF Download
  <2>3. Commit(r) \in Commits /\ attempt[r] \in Attempts BY <2>2
  <2>4. art = Create(Made(Commit(r), r, attempt[r]), Label(event[r], r, attempt[r]))
    BY <2>3 DEF Uploaded
  <2>5. /\ local'[r].files \in Directories
        /\ \A m \in local'[r].manifest :
             m = Manifest(Made(Commit(r), r, attempt[r]), Label(event[r], r, attempt[r]))
    <3>1. Made(Commit(r), r, attempt[r]) \in Directories BY <2>3, MadeIn
    <3>2. \A bad \in Damages(art) \cup {art} : /\ bad.files \in Directories
            /\ bad.manifest \subseteq {Manifest(Made(Commit(r), r, attempt[r]),
                Label(event[r], r, attempt[r]))}
      BY <2>4, <3>1, DamagedIn
    <3>. QED BY <2>1, <3>2
  <2>. QED BY <2>2, <2>5
<1>16. ASSUME NEW r \in Runs, NoArtifact(r) PROVE Fetched'
     BY <1>16 DEF NoArtifact, Require
<1>17. ASSUME NEW r \in Runs, VerifyArtifact(r) PROVE Fetched'
     BY <1>17 DEF VerifyArtifact, Require
<1>18. ASSUME NEW r \in Runs, Push(r) PROVE Fetched' BY <1>18 DEF Push
<1>19. ASSUME NEW r \in Runs, Fault(r) PROVE Fetched' BY <1>19 DEF Fault
<1>20. ASSUME NEW r \in Runs, RerunAll(r) PROVE Fetched' BY <1>20 DEF RerunAll
<1>21. ASSUME NEW r \in Runs, RerunFailed(r) PROVE Fetched' BY <1>21 DEF RerunFailed
<1>22. CASE UNCHANGED vars BY <1>22 DEF vars
<1> HIDE DEF TypeOK, Begun, Fetched, Stored
<1>. QED
  BY <1>1, <1>2, <1>3, <1>4, <1>5, <1>6, <1>7, <1>8, <1>9, <1>10, <1>11, <1>12,
     <1>13, <1>14, <1>15, <1>16, <1>17, <1>18, <1>19, <1>20, <1>21, <1>22
  DEF Next, World, JobStep

(* Every step preserves what was verified.                                   *)
LEMMA SealedStep ==
  ASSUME TypeOK, Begun, Stored, Fetched, Sealed, [Next]_vars
  PROVE  Sealed'
<1> USE Nothing DEF Set, Goto, Commit, Version, mirrorVars, canonVars, startVars,
    workVars, TypeOK, Begun, Sealed
<1>1. ASSUME NEW c \in Commits, MoveMain(c) PROVE Sealed' BY <1>1 DEF MoveMain
<1>2. ASSUME NEW v \in Versions, DeleteTag(v) PROVE Sealed' BY <1>2 DEF DeleteTag
<1>3. ASSUME NEW r \in Runs, NEW v \in Versions, NEW c \in Commits, PushTag(r, v, c)
      PROVE Sealed'
     BY <1>3 DEF PushTag
<1>4. ASSUME NEW rev \in Revs, Merge(rev) PROVE Sealed' BY <1>4 DEF Merge
<1>5. ASSUME NEW rev \in Revs, NEW again \in SUBSET Checks, RunCI(rev, again)
      PROVE Sealed'
     BY <1>5 DEF RunCI
<1>6. ASSUME NEW rev \in Revs, NEW k \in Checks, NEW result \in Results, EndCheck(rev, k,
    result)
      PROVE Sealed'
     BY <1>6 DEF EndCheck
<1>7. ASSUME NEW rev \in Revs, EndCI(rev) PROVE Sealed' BY <1>7 DEF EndCI
<1>8. ASSUME NEW r \in Runs, Build(r) PROVE Sealed' BY <1>8 DEF Build, NotStarted
<1>9. ASSUME NEW r \in Runs, Checkout(r) PROVE Sealed' BY <1>9 DEF Checkout
<1>10. ASSUME NEW r \in Runs, VerifyTag(r) PROVE Sealed'
     BY <1>10 DEF VerifyTag, Require
<1>11. ASSUME NEW r \in Runs, VerifyOrigin(r) PROVE Sealed'
     BY <1>11 DEF VerifyOrigin, Require
<1>12. ASSUME NEW r \in Runs, VerifyTree(r) PROVE Sealed'
     BY <1>12 DEF VerifyTree, Require
<1>13. ASSUME NEW r \in Runs, SelectRun(r) PROVE Sealed'
     BY <1>13 DEF SelectRun, Require
<1>14. ASSUME NEW r \in Runs, VerifyChecks(r) PROVE Sealed'
     BY <1>14 DEF VerifyChecks, Require
<1>15. ASSUME NEW r \in Runs, Download(r) PROVE Sealed'
  <2>1. /\ publish'[r] = "artifact" /\ UNCHANGED <<attempt, event>>
        /\ \A q \in Runs : q # r => local'[q] = local[q] /\ publish'[q] = publish[q]
    BY <1>15 DEF Download, Stored
  <2>. QED BY <2>1
<1>16. ASSUME NEW r \in Runs, NoArtifact(r) PROVE Sealed'
     BY <1>16 DEF NoArtifact, Require
<1>17. ASSUME NEW r \in Runs, VerifyArtifact(r) PROVE Sealed'
  <2>1. CASE publish'[r] = "push"
    <3>1. publish[r] = "artifact" /\ Accepts(local[r], Context(r))
      BY <1>17, <2>1 DEF VerifyArtifact, Require
    <3>2. Commit(r) \in Commits /\ attempt[r] \in Attempts BY <3>1
    <3>3. /\ Made(Commit(r), r, attempt[r]) \in Directories
          /\ Files(Made(Commit(r), r, attempt[r])) = {Gem}
          /\ Made(Commit(r), r, attempt[r])[Gem] = Regular(Built(Commit(r), r,
              attempt[r]))
      BY <3>2, MadeIn
    <3>4. SameFiles(local[r].files, Made(Commit(r), r, attempt[r]))
      <4> DEFINE d == Made(Commit(r), r, attempt[r])
      <4>1. local[r].files \in Directories /\ \A m \in local[r].manifest :
              m = Manifest(d, Label(event[r], r, attempt[r]))
        BY <3>1 DEF Fetched
      <4>. HIDE DEF d
      <4>. QED BY <3>1, <3>3, <4>1, ManifestBinds DEF d
    <3>5. local[r].files[Gem] = Regular(Built(Commit(r), r, attempt[r]))
      BY <3>3, <3>4 DEF SameFiles
    <3>. QED BY <1>17, <3>5 DEF VerifyArtifact, Require
  <2>2. CASE publish'[r] # "push" BY <1>17, <2>2 DEF VerifyArtifact, Require
  <2>. QED BY <2>1, <2>2
<1>18. ASSUME NEW r \in Runs, Push(r) PROVE Sealed' BY <1>18 DEF Push
<1>19. ASSUME NEW r \in Runs, Fault(r) PROVE Sealed' BY <1>19 DEF Fault
<1>20. ASSUME NEW r \in Runs, RerunAll(r) PROVE Sealed' BY <1>20 DEF RerunAll
<1>21. ASSUME NEW r \in Runs, RerunFailed(r) PROVE Sealed' BY <1>21 DEF RerunFailed
<1>22. CASE UNCHANGED vars BY <1>22 DEF vars
<1> HIDE DEF TypeOK, Begun, Sealed
<1>. QED
  BY <1>1, <1>2, <1>3, <1>4, <1>5, <1>6, <1>7, <1>8, <1>9, <1>10, <1>11, <1>12,
     <1>13, <1>14, <1>15, <1>16, <1>17, <1>18, <1>19, <1>20, <1>21, <1>22
  DEF Next, World, JobStep

(* A download needs a build of its attempt.                                  *)
LEMMA BuiltStep ==
  ASSUME TypeOK, Begun, Uploaded, BuiltInAttempt, [Next]_vars
  PROVE  BuiltInAttempt'
<1> USE Nothing DEF Set, Goto, Commit, Version, mirrorVars, canonVars, startVars,
    workVars, TypeOK, Begun, BuiltInAttempt
<1>1. ASSUME NEW c \in Commits, MoveMain(c) PROVE BuiltInAttempt' BY <1>1 DEF MoveMain
<1>2. ASSUME NEW v \in Versions, DeleteTag(v) PROVE BuiltInAttempt'
     BY <1>2 DEF DeleteTag
<1>3. ASSUME NEW r \in Runs, NEW v \in Versions, NEW c \in Commits, PushTag(r, v, c)
      PROVE BuiltInAttempt'
     BY <1>3 DEF PushTag
<1>4. ASSUME NEW rev \in Revs, Merge(rev) PROVE BuiltInAttempt' BY <1>4 DEF Merge
<1>5. ASSUME NEW rev \in Revs, NEW again \in SUBSET Checks, RunCI(rev, again)
      PROVE BuiltInAttempt'
     BY <1>5 DEF RunCI
<1>6. ASSUME NEW rev \in Revs, NEW k \in Checks, NEW result \in Results, EndCheck(rev, k,
    result)
      PROVE BuiltInAttempt'
     BY <1>6 DEF EndCheck
<1>7. ASSUME NEW rev \in Revs, EndCI(rev) PROVE BuiltInAttempt' BY <1>7 DEF EndCI
<1>8. ASSUME NEW r \in Runs, Build(r) PROVE BuiltInAttempt'
     BY <1>8 DEF Build, NotStarted
<1>9. ASSUME NEW r \in Runs, Checkout(r) PROVE BuiltInAttempt' BY <1>9 DEF Checkout
<1>10. ASSUME NEW r \in Runs, VerifyTag(r) PROVE BuiltInAttempt'
     BY <1>10 DEF VerifyTag, Require
<1>11. ASSUME NEW r \in Runs, VerifyOrigin(r) PROVE BuiltInAttempt'
     BY <1>11 DEF VerifyOrigin, Require
<1>12. ASSUME NEW r \in Runs, VerifyTree(r) PROVE BuiltInAttempt'
     BY <1>12 DEF VerifyTree, Require
<1>13. ASSUME NEW r \in Runs, SelectRun(r) PROVE BuiltInAttempt'
     BY <1>13 DEF SelectRun, Require
<1>14. ASSUME NEW r \in Runs, VerifyChecks(r) PROVE BuiltInAttempt'
     BY <1>14 DEF VerifyChecks, Require
<1>15. ASSUME NEW r \in Runs, Download(r) PROVE BuiltInAttempt'
  <2>1. publish[r] = "download" /\ store[r][attempt[r]] # {}
                                    BY <1>15 DEF Download, DownloadName
  <2>2. attempt[r] \in Attempts /\ attempt[r] \in Nat /\ builtIn[r] \in Nat BY <2>1
  <2>3. attempt[r] <= builtIn[r] BY <2>1, <2>2 DEF Uploaded
  <2>5. builtIn[r] <= attempt[r] BY DEF TypeOK
  <2> HIDE DEF TypeOK, Begun, BuiltInAttempt
  <2>4. builtIn[r] = attempt[r] BY <2>2, <2>3, <2>5
  <2> USE DEF TypeOK, Begun, BuiltInAttempt
  <2>. QED BY <1>15, <2>4 DEF Download
<1>16. ASSUME NEW r \in Runs, NoArtifact(r) PROVE BuiltInAttempt'
     BY <1>16 DEF NoArtifact, Require
<1>17. ASSUME NEW r \in Runs, VerifyArtifact(r) PROVE BuiltInAttempt'
     BY <1>17 DEF VerifyArtifact, Require
<1>18. ASSUME NEW r \in Runs, Push(r) PROVE BuiltInAttempt' BY <1>18 DEF Push
<1>19. ASSUME NEW r \in Runs, Fault(r) PROVE BuiltInAttempt' BY <1>19 DEF Fault
<1>20. ASSUME NEW r \in Runs, RerunAll(r) PROVE BuiltInAttempt' BY <1>20 DEF RerunAll
<1>21. ASSUME NEW r \in Runs, RerunFailed(r) PROVE BuiltInAttempt'
     BY <1>21 DEF RerunFailed
<1>22. CASE UNCHANGED vars BY <1>22 DEF vars
<1> HIDE DEF TypeOK, Begun, BuiltInAttempt
<1>. QED
  BY <1>1, <1>2, <1>3, <1>4, <1>5, <1>6, <1>7, <1>8, <1>9, <1>10, <1>11, <1>12,
     <1>13, <1>14, <1>15, <1>16, <1>17, <1>18, <1>19, <1>20, <1>21, <1>22
  DEF Next, World, JobStep

(* History is never undone.                                                  *)
LEMMA Growth ==
  ASSUME TypeOK, [Next]_vars
  PROVE  Grows
<1> USE DEF Set, Goto, Commit, Version, mirrorVars, canonVars, startVars, workVars,
    Grows, TypeOK
<1>1. ASSUME NEW c \in Commits, MoveMain(c) PROVE Grows BY <1>1 DEF MoveMain
<1>2. ASSUME NEW v \in Versions, DeleteTag(v) PROVE Grows BY <1>2 DEF DeleteTag
<1>3. ASSUME NEW r \in Runs, NEW v \in Versions, NEW c \in Commits, PushTag(r, v, c)
      PROVE Grows
     BY <1>3 DEF PushTag
<1>4. ASSUME NEW rev \in Revs, Merge(rev) PROVE Grows BY <1>4 DEF Merge
<1>5. ASSUME NEW rev \in Revs, NEW again \in SUBSET Checks, RunCI(rev, again)
      PROVE Grows
     BY <1>5 DEF RunCI
<1>6. ASSUME NEW rev \in Revs, NEW k \in Checks, NEW result \in Results, EndCheck(rev, k,
    result)
      PROVE Grows
     BY <1>6 DEF EndCheck
<1>7. ASSUME NEW rev \in Revs, EndCI(rev) PROVE Grows BY <1>7 DEF EndCI
<1>8. ASSUME NEW r \in Runs, Build(r) PROVE Grows BY <1>8 DEF Build, NotStarted
<1>9. ASSUME NEW r \in Runs, Checkout(r) PROVE Grows BY <1>9 DEF Checkout
<1>10. ASSUME NEW r \in Runs, VerifyTag(r) PROVE Grows BY <1>10 DEF VerifyTag, Require
<1>11. ASSUME NEW r \in Runs, VerifyOrigin(r) PROVE Grows
     BY <1>11 DEF VerifyOrigin, Require
<1>12. ASSUME NEW r \in Runs, VerifyTree(r) PROVE Grows
     BY <1>12 DEF VerifyTree, Require
<1>13. ASSUME NEW r \in Runs, SelectRun(r) PROVE Grows BY <1>13 DEF SelectRun, Require
<1>14. ASSUME NEW r \in Runs, VerifyChecks(r) PROVE Grows
     BY <1>14 DEF VerifyChecks, Require
<1>15. ASSUME NEW r \in Runs, Download(r) PROVE Grows
     BY <1>15 DEF Download, DownloadName
<1>16. ASSUME NEW r \in Runs, NoArtifact(r) PROVE Grows
     BY <1>16 DEF NoArtifact, Require
<1>17. ASSUME NEW r \in Runs, VerifyArtifact(r) PROVE Grows
     BY <1>17 DEF VerifyArtifact, Require
<1>18. ASSUME NEW r \in Runs, Push(r) PROVE Grows BY <1>18 DEF Push
<1>19. ASSUME NEW r \in Runs, Fault(r) PROVE Grows BY <1>19 DEF Fault
<1>20. ASSUME NEW r \in Runs, RerunAll(r) PROVE Grows BY <1>20 DEF RerunAll
<1>21. ASSUME NEW r \in Runs, RerunFailed(r) PROVE Grows BY <1>21 DEF RerunFailed
<1>22. CASE UNCHANGED vars BY <1>22 DEF vars
<1> HIDE DEF TypeOK, Grows
<1>. QED
  BY <1>1, <1>2, <1>3, <1>4, <1>5, <1>6, <1>7, <1>8, <1>9, <1>10, <1>11, <1>12,
     <1>13, <1>14, <1>15, <1>16, <1>17, <1>18, <1>19, <1>20, <1>21, <1>22
  DEF Next, World, JobStep

(* Only Push changes the registry.                                          *)
LEMMA OnlyPush ==
  ASSUME [Next]_vars PROVE UNCHANGED registry \/ \E r \in Runs : Push(r)
BY DEF Next, vars, World, JobStep, MoveMain, DeleteTag, PushTag, Merge, RunCI, EndCheck,
    EndCI,
       Build, Checkout, Require, VerifyTag, VerifyOrigin, VerifyTree, SelectRun,
           VerifyChecks,
       Download, NoArtifact, VerifyArtifact, Fault, RerunAll, RerunFailed

(* What makes one published gem a good one.                                 *)
From(v, c, r, a) ==
  /\ registry[v] = Built(c, r, a)
  /\ event[r] = [version |-> v, commit |-> c, new |-> TRUE] /\ VersionOf[c] = v
  /\ c \in wasMain /\ c \in Exported
  /\ \E rev \in Trailers[c] : rev \in merged /\ rev \in passed

(* Every step preserves what is true of published gems.                     *)
LEMMA ProvenanceStep ==
  ASSUME TypeOK, Begun, Judged, Sealed, PublishedProvenance, [Next]_vars
  PROVE  PublishedProvenance'
<1>1. Grows BY Growth
<1>2. ASSUME NEW v \in Versions, registry[v] # None, registry'[v] = registry[v]
      PROVE  \E c \in Commits, r \in Runs, a \in Attempts : From(v, c, r, a)'
  <2>1. PICK c \in Commits, r \in Runs, a \in Attempts : From(v, c, r, a)
    BY <1>2 DEF PublishedProvenance, From
  <2>2. Commit(r) = c /\ c # None BY <2>1, Nothing DEF From, Commit
  <2>3. event'[r] = event[r] BY <1>1, <2>2 DEF Grows
  <2>4. From(v, c, r, a)' BY <1>1, <1>2, <2>1, <2>3 DEF From, Grows
  <2>. QED BY <2>4
<1>3. ASSUME NEW r \in Runs, Push(r), NEW v \in Versions, registry'[v] # registry[v]
      PROVE  \E c \in Commits, q \in Runs, a \in Attempts : From(v, c, q, a)'
  <2>1. publish[r] = "push" /\ UNCHANGED <<event, wasMain, merged, passed>>
    BY <1>3 DEF Push, mirrorVars, canonVars, startVars
  <2>2. build[r] = "built" BY <2>1 DEF TypeOK, Results
  <2>3. /\ Commit(r) \in Commits /\ Version(r) \in Versions /\ attempt[r] \in Attempts
        /\ VersionOf[Commit(r)] = Version(r) /\ Traced(Commit(r))
    BY <2>2 DEF Begun
  <2>4. v = Version(r) /\ registry'[v] = local[r].files[Gem].data
    BY <1>3, <2>3 DEF Push, Set, TypeOK
  <2>5. registry'[v] = Built(Commit(r), r, attempt[r]) BY <2>1, <2>4, SealedGem
  <2>6. /\ event[r].new /\ Commit(r) \in wasMain /\ Commit(r) \in Exported
        /\ Origin(Commit(r)) \in merged /\ Origin(Commit(r)) \in passed
    BY <2>1 DEF Judged, Last, Third
  <2>7. event[r] = [version |-> v, commit |-> Commit(r), new |-> TRUE]
    <3>1. event[r] \in Events BY DEF TypeOK
    <3>2. event[r].new = TRUE BY <2>6, <3>1 DEF Events
    <3>3. event[r].version = v /\ event[r].commit = Commit(r) BY <2>4 DEF Version, Commit
    <3>. QED BY <3>1, <3>2, <3>3 DEF Events
  <2>8. Origin(Commit(r)) \in Trailers[Commit(r)] BY <2>3, OriginOf
  <2>9. From(v, Commit(r), r, attempt[r])'
    <3> DEFINE c == Commit(r)
               a == attempt[r]
    <3>1. /\ registry'[v] = Built(c, r, a) /\ event'[r] = [version |-> v, commit |-> c,
              new |-> TRUE]
          /\ VersionOf[c] = v /\ c \in wasMain' /\ c \in Exported
          /\ \E rev \in Trailers[c] : rev \in merged' /\ rev \in passed'
      BY <2>1, <2>3, <2>4, <2>5, <2>6, <2>7, <2>8
    <3>2. UNCHANGED attempt BY <1>3 DEF Push, startVars
    <3>3. c' = c BY <2>1 DEF Commit
    <3>. QED BY <3>1, <3>2, <3>3 DEF From
  <2>10. Commit(r)' = Commit(r) /\ attempt'[r] = attempt[r]
    BY <1>3 DEF Push, startVars, Commit
  <2>. QED BY <2>3, <2>9, <2>10
<1>4. ASSUME NEW v \in Versions, registry'[v] # None
      PROVE  \E c \in Commits, r \in Runs, a \in Attempts : From(v, c, r, a)'
  <2>1. CASE registry'[v] = registry[v] BY <1>2, <1>4, <2>1
  <2>2. CASE registry'[v] # registry[v] BY <1>3, <2>2, OnlyPush
  <2>. QED BY <2>1, <2>2
<1>. QED BY <1>4 DEF PublishedProvenance, From

-----------------------------------------------------------------------------
IInv ==
  /\ TypeOK /\ Begun /\ Judged /\ Stored /\ Uploaded /\ Fetched /\ Sealed
  /\ BuiltInAttempt /\ PublishedProvenance

(* No check has passed before it ran, since there is one at least.          *)
LEMMA InitialInv == ASSUME Init PROVE IInv
<1> USE Nothing, ReleaseAssumption DEF Init, Commit, Version
<1>1. TypeOK
  <2>1. event \in [Runs -> Events] BY DEF Events
  <2>2. check \in [Revs -> [Checks -> Results \cup {"queued"}]] OBVIOUS
  <2>3. /\ tag \in [Versions -> Commits \cup {None}] /\ main \in Commits
        /\ wasMain \subseteq Commits /\ merged \subseteq Revs /\ passed \subseteq Revs
        /\ ci \in [Revs -> {"none", "running", "success", "failure"}]
        /\ clone \in [Runs -> Commits \cup {None}]
        /\ registry \in [Versions -> Data \cup {None}]
    OBVIOUS
  <2>4. /\ attempt \in [Runs -> 0..MaxAttempt] /\ builtIn \in [Runs -> 0..MaxAttempt]
        /\ faults \in 0..MaxFaults
        /\ \A r \in Runs : builtIn[r] <= attempt[r]
    OBVIOUS
  <2>5. /\ build \in [Runs -> {"none", "running", "built", "failed"}]
        /\ \A r \in Runs : publish[r] = "none"
    OBVIOUS
  <2>6. publish \in [Runs -> {"none", "waiting", "tag", "origin", "tree", "ci", "checks",
                              "download", "artifact", "push", "done", "failed"}]
    OBVIOUS
  <2>. QED BY <2>1, <2>2, <2>3, <2>4, <2>5, <2>6 DEF TypeOK
<1>2. Begun BY DEF Begun
<1>3. Judged
  <2>1. \A rev \in Revs : ~Good(rev, check[rev]) BY DEF Good
  <2>. QED BY <2>1 DEF Judged, Last, Third
<1>4. Stored BY DEF Stored
<1>5. Uploaded BY DEF Uploaded
<1>6. Fetched /\ Sealed BY DEF Fetched, Sealed
<1>7. BuiltInAttempt /\ PublishedProvenance BY DEF BuiltInAttempt, PublishedProvenance
<1>. QED BY <1>1, <1>2, <1>3, <1>4, <1>5, <1>6, <1>7 DEF IInv

(* The conjunction is an inductive invariant.                               *)
LEMMA Inductive == Spec => []IInv
<1>1. Init => IInv BY InitialInv
<1>2. ASSUME IInv, [Next]_vars PROVE IInv'
  <2>1. TypeOK' /\ Begun' BY <1>2, TypeStep, BegunStep DEF IInv
  <2>2. Judged' /\ Stored' BY <1>2, JudgedStep, StoredStep DEF IInv
  <2>3. Uploaded' /\ Fetched' BY <1>2, UploadedStep, FetchedStep DEF IInv
  <2>4. Sealed' /\ BuiltInAttempt' BY <1>2, SealedStep, BuiltStep DEF IInv
  <2>5. PublishedProvenance' BY <1>2, ProvenanceStep DEF IInv
  <2>. QED BY <2>1, <2>2, <2>3, <2>4, <2>5 DEF IInv
<1>. QED BY <1>1, <1>2, PTL DEF Spec

(* The state of a release keeps its types.                                  *)
THEOREM TypeCorrect == Spec => []TypeOK
BY Inductive, PTL DEF IInv

(* Every published gem has the provenance that the publish job demands.     *)
THEOREM ReleasesAreProven == Spec => []PublishedProvenance
BY Inductive, PTL DEF IInv

(* The publish job gets past its download only in an attempt that built.    *)
THEOREM RetriesRebuild == Spec => []BuiltInAttempt
BY Inductive, PTL DEF IInv
=============================================================================
