------------------------------ MODULE MCRelease ------------------------------
(* Instances of Release for TLC.  Digests are equal for equal contents only. *)
EXTENDS Release, TLC

CONSTANTS v1, c1, c2, c3, r1, gate, lint, gem, notes, junk

MCData == (Commits \X Runs \X Attempts) \cup {junk}
MCDigest == [x \in MCData |-> <<"sha256", x>>]
OneVersion == [c \in Commits |-> v1]
(* c3 is of no canonical commit.                                            *)
OneTrailer == [c \in Commits |-> IF c = c3 THEN {} ELSE {r1}]

(* The canonical tree: the component, another one, and the map.  The export  *)
(* renames the package; the note to developers stays behind.                 *)
File(text) == [mode |-> "100644", text |-> text]
Entries(prefix) ==
  [prefix |-> prefix, renames |-> {[path |-> "spec", before |-> "hop", after |-> "hop-endpoint"]}]
RubyMap == <<"the ruby map">>
NodeMap == <<"the node map">>
MCTables == RubyMap :> Entries("ruby") @@ NodeMap :> Entries("node")
MapFrom == <<"tools", "map">>
MCCopied == MapFrom :> "map"
MCSource ==
  [rev \in Revs |->
     <<"ruby", "spec">> :> File(<<"name", "hop">>) @@ <<"ruby", "notes">> :> File(<<"secret">>)
       @@ <<"node", "spec">> :> File(<<"module", "hop">>) @@ MapFrom :> File(RubyMap)]
(* c1 is the export; in c2 somebody pointed the map to the other component.   *)
MCTree ==
  [c \in Commits |->
     IF c = c2 THEN "spec" :> File(<<"module", "hop-endpoint">>) @@ "map" :> File(NodeMap)
     ELSE "spec" :> File(<<"name", "hop-endpoint">>) @@ "map" :> File(RubyMap)]
=============================================================================
