--------------------------- MODULE MCPackageProof ---------------------------
(* A small instance of PackageProof for TLC. *)
EXTENDS PackageProof

MCSorted ==
  << <<"build">>, <<"build", "out">>, <<"build-aar.sh">>, <<"go.mod">>, Aar, Sums, <<"hop.go">>, <<"hop.h">>,
     <<"include">>, <<"include", "hop.h">>, Library, <<"linked.h">>, <<"native">>, <<"native", "lib">> >>
MCNames == UNION {ToSet(MCSorted[i]) : i \in DOMAIN MCSorted}

Sound == <<"h", "a", "a">>
Foreign == <<"h", "b", "b">>
Split == <<"h", "a", "b">>
(* A go.mod that goes on like the fingerprint of a Go module. *)
Long == <<"x", "hop.go", "NUL", "x">>
MCContents ==
  [p \in {MCSorted[i] : i \in DOMAIN MCSorted} |->
     CASE p = Aar -> {Sound, Foreign, Split}
       [] p = Sums -> {Sound}
       [] p \in {<<"hop.h">>, <<"include", "hop.h">>} -> {<<"h">>, <<"g">>}
       [] p = <<"go.mod">> -> {<<"x">>, Long}
       [] p \in {<<"build", "out">>, <<"build-aar.sh">>, <<"hop.go">>, Library} -> {<<"x">>}
       [] OTHER -> {}]
MCUnpacked ==
  [c \in MCContents[Aar] |-> [header |-> <<c[1]>>, jni |-> [abi \in {"arm"} |-> c[2]], prefab |-> [abi \in {"arm"} |-> c[3]]]]
MCMachine == [slice \in {"a", "b"} |-> IF slice = "a" THEN "arm" ELSE "x86"]

Plain(data) == [mode |-> "100644", data |-> data]
LinkTo(p) == [mode |-> "120000", data |-> p]
Go == [p \in {<<"go.mod">>, <<"hop.go">>, <<"hop.h">>} |-> Plain(IF p = <<"hop.h">> THEN <<"h">> ELSE <<"x">>)]
Android ==
  [p \in {<<"build-aar.sh">>, <<"build", "out">>, <<"include", "hop.h">>, <<"linked.h">>} |->
     CASE p = <<"build-aar.sh">> -> [mode |-> "100755", data |-> <<"x">>]
       [] p = <<"build", "out">> -> Plain(<<"x">>)
       [] p = <<"include", "hop.h">> -> Plain(<<"h">>)
       [] OTHER -> LinkTo(<<"include", "hop.h">>)]
MCExports ==
  [k \in {"go", "android"} |->
     IF k = "go"
     THEN {Go, [p \in DOMAIN Go \cup {<<"linked.h">>} |-> IF p \in DOMAIN Go THEN Go[p] ELSE LinkTo(<<"hop.h">>)],
           [p \in DOMAIN Go \cup {Library, <<"build", "out">>} |-> IF p \in DOMAIN Go THEN Go[p] ELSE Plain(<<"x">>)],
           [p \in {<<"hop.h">>} |-> Go[p]]}
     ELSE {Android, [p \in DOMAIN Android \ {<<"build-aar.sh">>} |-> Android[p]]}]
MCRequired == {<<"go.mod">>, <<"hop.h">>}
=============================================================================
