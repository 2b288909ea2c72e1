------------------------- MODULE MCReleasePipeline -------------------------
(***************************************************************************)
(* ReleasePipeline for a canonical source of the files that the export     *)
(* rules name, one legitimate push, and pushes that each differ from it in *)
(* one respect.                                                            *)
(***************************************************************************)
EXTENDS ReleasePipeline

MCJobs == {"CI gate", "test"}
MCAlways == {"CI gate"}

File(text) == [mode |-> "100644", body |-> <<text>>]
Map(prefix) == [mode |-> "100644",
                body |-> <<[name |-> "hop-sdk-go", prefix |-> prefix, rename |-> <<>>]>>]

Without(tree, p) == [q \in DOMAIN tree \ {p} |-> tree[q]] @@ <<>>

Source ==
  [p \in {m[1] : m \in SHARED_EXPORTS \cup NATIVE_EXPORTS} |->
     IF p = <<"tools", "copybara", "components.json">> THEN Map(<<"sdk", "go">>) ELSE File("tool")]
  @@ [p \in {<<"sdk", "go", "go.mod">>, <<"sdk", "go", "CLAUDE.md">>, <<"sdk", "hop.h">>,
             <<"sdk", "go", "cmd", "hop-install", "main.go">>,
             <<"sdk", "go", "cmd", "hop-install", "native-artifacts-public.pem">>}
        |-> File("text")]
  @@ <<"sdk", "go", "hop.go">> :> [mode |-> "100644", body |-> <<"package", "cgo-monorepo", "code">>]
  @@ <<"sdk", "other", "hop.go">> :> [mode |-> "100644", body |-> <<"cgo-monorepo">>]
  @@ <<"sdk", "go", "latest">> :> [mode |-> "120000", body |-> <<"..", "hop.h">>]
  @@ RequiredChecks :> [mode |-> "100644", body |-> <<"CI gate", "test">>]

\* The module must not hold a link, so the source that can be released has none.
Plain == Without(Source, <<"sdk", "go", "latest">>)

WithLibrary == Plain @@ <<"sdk", "go", "native", "lib", "libhop.so">> :> File("library")

\* The export under a component map (@@ makes TLC enumerate it once).
ExportUnder(source, components) == ExpectedExportTree(source, "hop-sdk-go", components) @@ <<>>
Export(source) == ExportUnder(source, CanonicalMap(source))
Mirror == Export(Plain)

Good == [created |-> TRUE, trailers |-> 1, reachable |-> TRUE, mirror |-> Mirror, source |-> Plain]

HopGo == <<"sdk", "go", "hop.go">>
OtherMap == Map(<<"sdk", "other">>)

MCPush ==
  <<Good,
   [Good EXCEPT !.created = FALSE], [Good EXCEPT !.trailers = 0], [Good EXCEPT !.trailers = 2],
   [Good EXCEPT !.reachable = FALSE],
   \* the mirror lacks a file, has another, has one with another mode or content
   [Good EXCEPT !.mirror = Without(@, <<"hop.h">>)],
   [Good EXCEPT !.mirror = @ @@ <<"CLAUDE.md">> :> File("text")],
   [Good EXCEPT !.mirror[<<"hop.h">>].mode = "100755"],
   [Good EXCEPT !.mirror[<<"hop.go">>].body = Plain[HopGo].body],
   \* the mirror is the export under a map of its own, with or without that map
   [Good EXCEPT !.mirror = ExportUnder(Plain, OtherMap.body)],
   [Good EXCEPT !.mirror = ComponentMap :> OtherMap @@ ExportUnder(Plain, OtherMap.body)],
   [Good EXCEPT !.mirror = Without(@, ComponentMap)],
   \* the source cannot be exported, or not be extracted, or asks for other checks
   [Good EXCEPT !.source[HopGo].body = <<"cgo-monorepo", "cgo-monorepo">>],
   [Good EXCEPT !.source = Without(@, <<"THIRD-PARTY-NOTICES.md">>)],
   [Good EXCEPT !.source = @ @@ <<"docs", "link">> :> [mode |-> "120000", body |-> <<"..", "..", "x">>]],
   [Good EXCEPT !.source[RequiredChecks].body = <<"CI gate", "test", "test">>],
   [Good EXCEPT !.source[RequiredChecks].body = <<"CI gate">>],
   \* the module holds a link, the tree a native library
   [Good EXCEPT !.source = Source, !.mirror = Export(Source)],
   [Good EXCEPT !.source = WithLibrary, !.mirror = Export(WithLibrary)]>>

MCOutputs ==
  [target \in Targets, attempt \in Attempts |->
     [p \in LIBRARY |->
        [kind |-> "file", mode |-> IF p = Header THEN "0644" ELSE "0755",
         body |-> IF p = Header THEN Plain[<<"sdk", "hop.h">>].body ELSE <<target, attempt>>]]]
=============================================================================
