--------------------------- MODULE PackageExport ---------------------------
(***************************************************************************)
(* The tree a mirror is made of, computed from the canonical source by     *)
(* .github/package-export-smoke.py and compared with the mirror's own tree *)
(* by .github/release-provenance.py.  A tree maps a path, a sequence of    *)
(* names, to [mode, body]; a body is a sequence of pieces of text (of a    *)
(* symbolic link: of the parts of its target).  The component map is a     *)
(* file like any other: its body is a sequence of [name, prefix, rename].  *)
(* Only the components that the allowlist of this commit can hold          *)
(* (hop-sdk-go, hop-sdk-apple, hop-sdk-crystal) are described.             *)
(***************************************************************************)
EXTENDS Naturals, FiniteSets, Sequences, SequencesExt

CONSTANT NoTree     \* what is returned when the transformation is rejected

Link == "120000"

SHARED_EXPORTS ==
  {<<<<"tools", "release-provenance.py">>, <<".github", "release-provenance.py">>>>,
   <<<<"tools", "release-artifact.py">>, <<".github", "release-artifact.py">>>>,
   <<<<"tools", "copybara", "components.json">>, <<".github", "components.json">>>>,
   <<<<"tools", "package-export-smoke.py">>, <<".github", "package-export-smoke.py">>>>,
   <<<<"THIRD-PARTY-NOTICES.md">>, <<"THIRD-PARTY-NOTICES.md">>>>}

NATIVE_EXPORTS ==
  {<<<<"tools", "native-artifacts.py">>, <<"native", "native-artifacts.py">>>>,
   <<<<"tools", "native-artifacts.schema.json">>, <<"native", "native-artifacts.schema.json">>>>,
   <<<<"tools", "native-artifacts-public.pem">>, <<"native", "native-artifacts-public.pem">>>>}

NATIVE_COMPONENTS == {"hop-sdk-go", "hop-sdk-apple"}

\* extract_archive: a link that is absolute or leads out of the archive's
\* root, once its path has been normalized, is refused.
Escapes(path, target) ==
  LET parts == Front(path) \o target
      up(k) == Cardinality({i \in 1..k : parts[i] = ".."})
      down(k) == Cardinality({i \in 1..k : parts[i] \notin {"..", "."}})
  IN  target # <<>> /\ (target[1] = "/" \/ \E k \in DOMAIN parts : up(k) > down(k))
Extractable(source) ==
  \A p \in DOMAIN source : source[p].mode = Link => ~Escapes(p, source[p].body)

\* The paths below a prefix, and what is left of them.
Below(prefix, paths) == {p \in paths : IsStrictPrefix(prefix, p)}
Under(prefix, p) == SubSeq(p, Len(prefix) + 1, Len(p))

\* add_tree and add_file: which source file goes to which destination.
Moves(paths, component, prefix) ==
  {<<p, Under(prefix, p)>> : p \in {q \in Below(prefix, paths) : Under(prefix, q) # <<"CLAUDE.md">>}}
    \cup SHARED_EXPORTS
    \cup (IF component \in NATIVE_COMPONENTS THEN NATIVE_EXPORTS ELSE {})
    \cup (IF component = "hop-sdk-go" THEN {<<<<"sdk", "hop.h">>, <<"hop.h">>>>} ELSE {})

\* replace_text: the anchor must be there exactly once.
Replaceable(tree, r) ==
  /\ r.path \in DOMAIN tree
  /\ Cardinality({i \in DOMAIN tree[r.path].body : tree[r.path].body[i] = r.before}) = 1
Replaced(tree, r) ==
  [tree EXCEPT ![r.path].body =
     [i \in DOMAIN @ |-> IF @[i] = r.before THEN r.after ELSE @[i]]]

\* The text a component's export changes: the cgo flags of the Go module,
\* and the package name where the component map renames it.
Replacements(component, entry) ==
  (IF component = "hop-sdk-go"
     THEN {[path |-> <<"hop.go">>, before |-> "cgo-monorepo", after |-> "cgo-pkg-config"]} ELSE {})
    \cup (IF entry.rename = <<>> THEN {}
          ELSE {[path |-> <<"Cargo.toml">>, before |-> entry.rename[1], after |-> entry.rename[2]]})

\* expected_export_tree, under the component map it is given.
ExpectedExportTree(source, component, components) ==
  IF ~\E i \in DOMAIN components : components[i].name = component THEN NoTree
  ELSE
    LET entry == CHOOSE e \in ToSet(components) : e.name = component
        moves == Moves(DOMAIN source, component, entry.prefix)
        from(d) == CHOOSE p \in DOMAIN source : <<p, d>> \in moves
        export == [d \in {m[2] : m \in moves} |-> source[from(d)]]
        changes == Replacements(component, entry)
    IN  IF \/ Below(entry.prefix, DOMAIN source) = {}
           \/ \E m \in moves : m[1] \notin DOMAIN source
           \/ \E m, n \in moves : m # n /\ m[2] = n[2]
           \/ \E r \in changes : ~Replaceable(export, r)
        THEN NoTree
        ELSE [d \in DOMAIN export |->
                IF \E r \in changes : r.path = d
                THEN Replaced(export, CHOOSE r \in changes : r.path = d)[d]
                ELSE export[d]]

\* Mutant: only the paths are compared.
MutSameTree(expected, actual) == DOMAIN expected = DOMAIN actual

\* compare_trees: same paths, and same mode and bytes at each of them.
SameTree(expected, actual) ==
  LET missing == DOMAIN expected \ DOMAIN actual
      extra == DOMAIN actual \ DOMAIN expected
      mismatched == {p \in DOMAIN expected \cap DOMAIN actual : expected[p] # actual[p]}
  IN  missing = {} /\ extra = {} /\ mismatched = {}

\* go_module_files: what goes into the module's zip.  A link to a file is
\* refused (the trees here have no link to a directory, which os.walk would
\* leave out); build directories and native/lib are left out.
GO_MODULE_METADATA_DIRECTORIES ==
  {".build", ".bzr", ".git", ".gradle", ".hg", ".idea", ".svn", "__pycache__",
   "build", "dist", "node_modules", "target"}
Metadata(path) ==
  \/ ToSet(path) \cap GO_MODULE_METADATA_DIRECTORIES # {}
  \/ IsPrefix(<<"native", "lib">>, path)
ModuleFiles(export) == {p \in DOMAIN export : ~Metadata(p)}

\* What a zip of the module must hold, and a native library, which it must not.
RequiredZip ==
  {<<"go.mod">>, <<"hop.h">>, <<"cmd", "hop-install", "main.go">>,
   <<"cmd", "hop-install", "native-artifacts-public.pem">>}
NativeLib(path) == \E i \in 1..Len(path) - 2 : path[i] = "native" /\ path[i + 1] = "lib"

\* The zip that validate_go builds for its module proxy must hold the module,
\* its header and its installer, and no other installer.
ModuleZipComplete(export) ==
  /\ \A p \in ModuleFiles(export) : export[p].mode # Link
  /\ RequiredZip \subseteq ModuleFiles(export)
  /\ \A p \in ModuleFiles(export) : Last(p) # "install-libhop.py" /\ ~NativeLib(p)

\* The zip of the sources that is released holds everything in the tree: what
\* the module's zip leaves out is refused here.
SourceZipClean(tree) ==
  /\ RequiredZip \subseteq DOMAIN tree
  /\ \A p \in DOMAIN tree : ~NativeLib(p)
=============================================================================
