------------------------------- MODULE Release -------------------------------
(***************************************************************************)
(* The release of the gem (.github/workflows/release.yml with               *)
(* release-provenance.py and release-artifact.py): a pushed tag starts a    *)
(* run whose build job uploads an artifact and whose publish job verifies   *)
(* the provenance of the commit, downloads the artifact, verifies it and    *)
(* pushes the gem.  Meanwhile tags and main move, the CI of the canonical   *)
(* repository runs and is re-run, jobs fail and are re-run.                 *)
(***************************************************************************)
EXTENDS ReleaseManifest, ExportTree

CONSTANTS
  Commits, Versions, Revs, (* Of the mirror; of the gem; canonical commits. *)
  VersionOf,   (* The version in each commit's gemspec.                     *)
  Trailers,    (* The canonical commits that each commit's message names.   *)
  Source, Tree, (* The tree of each canonical commit and of each commit.    *)
  Checks,      (* The required CI checks ...                                *)
  MustSucceed, (* ... and those that may not be skipped.                    *)
  Runs, MaxAttempt, MaxFaults,
  Gem, Junk,   (* The path of the gem; the content of a damaged file.       *)
  None

Attempts == 1..MaxAttempt
Built(c, r, a) == <<c, r, a>>                 (* A gem, and where it is of. *)
Gems == {Built(c, r, a) : c \in Commits, r \in Runs, a \in Attempts}
ASSUME ReleaseAssumption ==
  /\ Data = Gems \cup {Junk} /\ Gem \in Paths /\ Junk \notin Gems
  /\ VersionOf \in [Commits -> Versions] /\ Trailers \in [Commits -> SUBSET Revs]
  /\ \A c \in Commits : IsFcn(Tree[c])
  /\ \A rev \in Revs : \A s \in DOMAIN Source[rev] : IsFcn(Source[rev][s].text)
  /\ MustSucceed \subseteq Checks /\ Checks # {}
  /\ MaxAttempt \in Nat \ {0} /\ MaxFaults \in Nat
  /\ None \notin Commits \cup Versions \cup Data

Events == [version : Versions \cup {None}, commit : Commits \cup {None}, new : BOOLEAN]
Results == {"success", "skipped", "failure"}

VARIABLES
  tag, main, wasMain,  (* The mirror's tags and main; all that was main.    *)
  merged, ci, check,   (* Canonical: on main, the CI runs, their checks.    *)
  passed,              (* The commits whose checks passed at some time.     *)
  event,               (* What started a run: version, commit, a new ref?   *)
  attempt, builtIn,    (* run_attempt; the attempt of the last build.       *)
  build, publish,      (* The two jobs.                                     *)
  clone,               (* The tag as the publish job cloned it.             *)
  store, local,        (* Uploaded artifacts by attempt; the downloaded.    *)
  registry, faults

mirrorVars == <<tag, main, wasMain>>
canonVars  == <<merged, ci, check, passed>>
startVars  == <<event, attempt, builtIn, build>>
workVars   == <<publish, clone, store, local>>
vars == <<mirrorVars, canonVars, startVars, workVars, registry, faults>>

Set(f, r, v) == f' = [f EXCEPT ![r] = v]
Goto(r, from, to) == publish[r] = from /\ Set(publish, r, to)
Commit(r) == event[r].commit
Version(r) == event[r].version
Traced(c) == Cardinality(Trailers[c]) = 1
Origin(c) == CHOOSE rev \in Trailers[c] : TRUE
Exported == {c \in Commits : Traced(c) /\ IsExport(Source[Origin(c)], Tree[c])}
(* What the manifest says of the run that made it.                          *)
Context(r) == [run |-> r, attempt |-> attempt[r], ref |-> Version(r),
               source |-> Commit(r), canonical |-> Origin(Commit(r))]

-----------------------------------------------------------------------------
(* The mirror and the canonical repository *)

MoveMain(c) ==
  /\ main' = c /\ wasMain' = wasMain \cup {c}
  /\ UNCHANGED <<tag, canonVars, startVars, workVars, registry, faults>>

DeleteTag(v) ==
  /\ Set(tag, v, None)
  /\ UNCHANGED <<main, wasMain, canonVars, startVars, workVars, registry, faults>>

(* The push of a tag, new or forced, starts a run.                          *)
PushTag(r, v, c) ==
  /\ Commit(r) = None /\ Set(tag, v, c)
  /\ Set(event, r, [version |-> v, commit |-> c, new |-> tag[v] = None])
  /\ Set(attempt, r, 1) /\ Set(build, r, "running")
  /\ UNCHANGED <<main, wasMain, canonVars, builtIn, workVars, registry, faults>>

Merge(rev) ==
  /\ merged' = merged \cup {rev}
  /\ UNCHANGED <<mirrorVars, ci, check, passed, startVars, workVars, registry, faults>>

(* ci.yml runs on a merged commit; a re-run queues some checks again.       *)
RunCI(rev, again) ==
  /\ rev \in merged /\ ci[rev] # "running" /\ Set(ci, rev, "running")
  /\ ci[rev] = "none" => again = Checks
  /\ check' = [check EXCEPT ![rev] = [k \in Checks |-> IF k \in again THEN "queued" ELSE @[k]]]
  /\ UNCHANGED <<mirrorVars, merged, passed, startVars, workVars, registry, faults>>

Good(rev, results) ==
  \A k \in Checks : results[k] \in (IF k \in MustSucceed THEN {"success"} ELSE {"success", "skipped"})
EndCheck(rev, k, result) ==
  /\ ci[rev] = "running" /\ check[rev][k] = "queued"
  /\ check' = [check EXCEPT ![rev][k] = result]
  /\ passed' = IF Good(rev, check'[rev]) THEN passed \cup {rev} ELSE passed
  /\ UNCHANGED <<mirrorVars, merged, ci, startVars, workVars, registry, faults>>

EndCI(rev) ==
  /\ ci[rev] = "running" /\ \A k \in Checks : check[rev][k] # "queued"
  /\ Set(ci, rev, IF \E k \in Checks : check[rev][k] = "failure" THEN "failure" ELSE "success")
  /\ UNCHANGED <<mirrorVars, merged, check, passed, startVars, workVars, registry, faults>>

-----------------------------------------------------------------------------
(* The build job *)

OneName(r) == 1                                                   (* mutant *)
UploadName(r) == attempt[r]
Upload(r) ==
  Set(store, r, [store[r] EXCEPT ![UploadName(r)] =
    {Create([p \in {Gem} |-> Regular(Built(Commit(r), r, attempt[r]))], Context(r))}])

Anyway(r) == Set(publish, r, "waiting")                            (* mutant *)
NotStarted(r) == UNCHANGED publish
(* The version of the gemspec is the tag's; publish needs build.            *)
Build(r) ==
  /\ build[r] = "running"
  /\ IF VersionOf[Commit(r)] = Version(r) /\ Traced(Commit(r))
     THEN /\ Upload(r) /\ Set(build, r, "built") /\ Set(builtIn, r, attempt[r])
          /\ Set(publish, r, "waiting")
     ELSE Set(build, r, "failed") /\ NotStarted(r) /\ UNCHANGED <<store, builtIn>>
  /\ UNCHANGED <<mirrorVars, canonVars, event, attempt, clone, local, registry, faults>>

-----------------------------------------------------------------------------
(* The publish job: one action per step of release-provenance.py verify     *)

(* Once the environment "release" lets it, the job clones the mirror.       *)
Checkout(r) ==
  /\ Goto(r, "waiting", "tag") /\ Set(clone, r, tag[Version(r)])
  /\ UNCHANGED <<mirrorVars, canonVars, startVars, store, local, registry, faults>>

Require(r, from, condition, to) ==
  /\ Goto(r, from, IF condition THEN to ELSE "failed")
  /\ UNCHANGED <<mirrorVars, canonVars, startVars, clone, store, local, registry, faults>>

(* main is fetched again; the tag is the clone's.                           *)
TagState(r) == event[r].new /\ clone[r] = Commit(r) /\ main = Commit(r)
VerifyTag(r) == Require(r, "tag", TagState(r), "origin")

VerifyOrigin(r) ==
  Require(r, "origin", Traced(Commit(r)) /\ Origin(Commit(r)) \in merged, "tree")
VerifyTree(r) ==
  Require(r, "tree", Matches(Source[Origin(Commit(r))], Tree[Commit(r)]), "ci")
SelectRun(r) == Require(r, "ci", ci[Origin(Commit(r))] = "success", "checks")

SkippedToo(k) == {"success", "skipped"}                           (* mutant *)
Allowed(k) == IF k \in MustSucceed THEN {"success"} ELSE {"success", "skipped"}
VerifyChecks(r) ==
  Require(r, "checks", \A k \in Checks : check[Origin(Commit(r))][k] \in Allowed(k), "download")

AnyName(r) == builtIn[r]                                          (* mutant *)
DownloadName(r) == attempt[r]
(* What arrives of an artifact; a fault loses a file or the manifest,       *)
(* or leaves junk in the gem or in another file.                            *)
Damages(art) ==
  LET dir == art.files IN
  {[art EXCEPT !.files = [p \in DOMAIN dir \ {q} |-> dir[p]]] : q \in DOMAIN dir}
    \cup {[art EXCEPT !.files = [p \in DOMAIN dir \cup {q} |->
              IF p = q THEN Regular(Junk) ELSE dir[p]]] : q \in Paths}
    \cup {[art EXCEPT !.manifest = {}]}
Download(r) ==
  /\ Goto(r, "download", "artifact")
  /\ \E art \in store[r][DownloadName(r)] :
       \/ Set(local, r, art) /\ UNCHANGED faults
       \/ /\ faults < MaxFaults /\ faults' = faults + 1
          /\ \E bad \in Damages(art) : Set(local, r, bad)
  /\ UNCHANGED <<mirrorVars, canonVars, startVars, clone, store, registry>>
NoArtifact(r) ==
  /\ Require(r, "download", FALSE, "artifact")
  /\ store[r][DownloadName(r)] = {}

VerifyArtifact(r) == Require(r, "artifact", Accepts(local[r], Context(r)), "push")

(* RubyGems takes a version once; the job may still fail after that.        *)
Push(r) ==
  /\ publish[r] = "push"
  /\ IF registry[Version(r)] = None
     THEN Set(registry, Version(r), local[r].files[Gem].data) /\ Set(publish, r, "done")
     ELSE Set(publish, r, "failed") /\ UNCHANGED registry
  /\ UNCHANGED <<mirrorVars, canonVars, startVars, clone, store, local, faults>>

-----------------------------------------------------------------------------
(* Failures of the runner or of an API, and re-runs *)

Fault(r) ==
  /\ faults < MaxFaults /\ faults' = faults + 1
  /\ publish[r] \notin {"none", "failed"} /\ Set(publish, r, "failed")
  /\ UNCHANGED <<mirrorVars, canonVars, startVars, clone, store, local, registry>>

RerunAll(r) ==
  /\ attempt[r] < MaxAttempt
  /\ build[r] = "failed" \/ publish[r] \in {"failed", "done"}
  /\ Set(attempt, r, attempt[r] + 1) /\ Set(build, r, "running") /\ Set(publish, r, "none")
  /\ UNCHANGED <<mirrorVars, canonVars, event, builtIn, clone, store, local, registry, faults>>

(* Only the publish job failed, and only it runs again.                     *)
RerunFailed(r) ==
  /\ attempt[r] < MaxAttempt /\ Goto(r, "failed", "waiting")
  /\ Set(attempt, r, attempt[r] + 1)
  /\ UNCHANGED <<mirrorVars, canonVars, event, builtIn, build, clone, store, local, registry, faults>>
-----------------------------------------------------------------------------
Init ==
  /\ tag = [v \in Versions |-> None] /\ main \in Commits /\ wasMain = {main}
  /\ merged = {} /\ ci = [rev \in Revs |-> "none"] /\ passed = {}
  /\ check = [rev \in Revs |-> [k \in Checks |-> "queued"]]
  /\ event = [r \in Runs |-> [version |-> None, commit |-> None, new |-> FALSE]]
  /\ attempt = [r \in Runs |-> 0] /\ builtIn = [r \in Runs |-> 0]
  /\ build = [r \in Runs |-> "none"] /\ publish = [r \in Runs |-> "none"]
  /\ clone = [r \in Runs |-> None]
  /\ store = [r \in Runs |-> [a \in Attempts |-> {}]]
  /\ local = [r \in Runs |-> [files |-> [p \in {} |-> 0], manifest |-> {}]]
  /\ registry = [v \in Versions |-> None] /\ faults = 0

JobStep(r) ==
  \/ Build(r) \/ Checkout(r) \/ VerifyTag(r) \/ VerifyOrigin(r) \/ VerifyTree(r)
  \/ SelectRun(r) \/ VerifyChecks(r) \/ Download(r) \/ NoArtifact(r)
  \/ VerifyArtifact(r) \/ Push(r)
World ==
  \/ \E c \in Commits : MoveMain(c)
  \/ \E v \in Versions : DeleteTag(v)
  \/ \E r \in Runs, v \in Versions, c \in Commits : PushTag(r, v, c)
  \/ \E rev \in Revs :
       \/ Merge(rev) \/ EndCI(rev)
       \/ \E again \in SUBSET Checks : RunCI(rev, again)
       \/ \E k \in Checks, result \in Results : EndCheck(rev, k, result)
Next == World \/ \E r \in Runs : JobStep(r) \/ Fault(r) \/ RerunAll(r) \/ RerunFailed(r)

Spec == Init /\ [][Next]_vars
(* Jobs that can run do run; nobody has to push, merge or re-run.           *)
FairSpec == Spec /\ \A r \in Runs : WF_vars(JobStep(r))

-----------------------------------------------------------------------------
(* Properties *)

(* Types; the publish job needs the build job.                              *)
TypeOK ==
  /\ tag \in [Versions -> Commits \cup {None}] /\ main \in Commits /\ wasMain \subseteq Commits
  /\ merged \subseteq Revs /\ passed \subseteq Revs
  /\ ci \in [Revs -> {"none", "running", "success", "failure"}]
  /\ check \in [Revs -> [Checks -> Results \cup {"queued"}]]
  /\ event \in [Runs -> Events]
  /\ attempt \in [Runs -> 0..MaxAttempt] /\ builtIn \in [Runs -> 0..MaxAttempt]
  /\ build \in [Runs -> {"none", "running", "built", "failed"}]
  /\ publish \in [Runs -> {"none", "waiting", "tag", "origin", "tree", "ci", "checks",
                            "download", "artifact", "push", "done", "failed"}]
  /\ clone \in [Runs -> Commits \cup {None}]
  /\ \A r \in Runs : builtIn[r] <= attempt[r] /\ (publish[r] # "none" => build[r] = "built")
  /\ registry \in [Versions -> Data \cup {None}] /\ faults \in 0..MaxFaults

(* A published gem was built of a commit of its version that the run's tag  *)
(* named when it was new, that was main of the mirror, is the export of a   *)
(* commit on canonical main and passed its checks there, whatever moved,    *)
(* ran again or got damaged meanwhile (release-provenance.py:349-423).      *)
PublishedProvenance ==
  \A v \in Versions : registry[v] # None =>
    \E c \in Commits, r \in Runs, a \in Attempts :
      /\ registry[v] = Built(c, r, a)
      /\ event[r] = [version |-> v, commit |-> c, new |-> TRUE] /\ VersionOf[c] = v
      /\ c \in wasMain /\ c \in Exported
      /\ \E rev \in Trailers[c] : rev \in merged /\ rev \in passed

(* The publish job gets past the download only in an attempt that also      *)
(* built: re-running the failed job alone finds no artifact of its name     *)
(* (release.yml:34, 71), and what it verified was built just before.        *)
BuiltInAttempt ==
  \A r \in Runs : publish[r] \in {"artifact", "push", "done"} => builtIn[r] = attempt[r]

(* An attempt that runs all jobs on a good tag, undisturbed from the        *)
(* approval on, publishes, whatever earlier attempts left behind.           *)
Undisturbed(r) ==
  LET c == Commit(r) IN
  /\ c # None /\ event[r].new /\ tag[Version(r)] = c /\ main = c /\ c \in Exported
  /\ builtIn[r] = attempt[r] /\ faults = MaxFaults
  /\ Origin(c) \in merged /\ ci[Origin(c)] = "success" /\ Good(Origin(c), check[Origin(c)])
Landed(r) == Commit(r) # None /\ registry[Version(r)] # None
FullRunLands ==
  \A r \in Runs : [](publish[r] = "waiting" /\ []Undisturbed(r) => <>Landed(r))
=============================================================================
