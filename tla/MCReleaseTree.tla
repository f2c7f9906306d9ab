----------------------------- MODULE MCReleaseTree -----------------------------
\* The packager's release, its manifest wrong in at most one entry, and its tree wrong
\* in at most two places, of which one is Binary or Odd.
EXTENDS ReleaseTree, TLC

Web    == <<"web">>
Index  == <<"web", "index">>
Script == <<"web", "js">>
Binary == <<"binary">>
Odd    == <<"web", "a b">>

MCPaths == {Web, Index, Script, Binary, Odd}
MCPortable == MCPaths \ {Odd}
MCRequiredDirectories == {Web}
MCRequiredFiles == {Index}
MCExecutables == {Binary}
MCScripts == {Script}
MCContents == {"a", "b"}
MCSize == [c \in MCContents |-> IF c = "a" THEN 1 ELSE 2]

File(mode, n, c) == [kind |-> "file", mode |-> mode, size |-> n, sha256 |-> c]
Node(mode, n, c) == [kind |-> "file", mode |-> mode, links |-> n, contents |-> c]
Directory(mode) == [kind |-> "directory", mode |-> mode]

Packaged ==
    Web :> Directory("0555") @@ Index :> File("0444", 2, "b") @@ Odd :> Unlisted
        @@ Script :> File("0444", 1, "a") @@ Binary :> File("0555", 1, "a")

EntryChoices ==
    {Unlisted, Directory("0555"), Directory("0644"), File("0444", 1, "a"),
     File("0444", 2, "b"), File("0444", 1, "b"), File("0444", 3, "a"),
     File("0644", 2, "b"), File("0555", 1, "a")}

NodeChoices ==
    {Absent, [kind |-> "symlink"], Directory("0555"), Directory("0644"),
     Node("0444", 1, "a"), Node("0444", 1, "b"), Node("0444", 2, "b"), Node("0555", 1, "a")}

Manifests == {[Packaged EXCEPT ![p] = e] : p \in MCPaths, e \in EntryChoices}

Image(m) ==
    [p \in MCPaths |-> IF m[p].kind = "file" THEN Node(m[p].mode, 1, m[p].sha256) ELSE m[p]]

Trees(m) ==
    LET image == Image(m) IN
    {t \in {[image EXCEPT ![p] = n, ![q] = o] :
              p \in MCPaths \ {Binary}, q \in {Binary, Odd}, n, o \in NodeChoices} : IsTree(t)}

MCReleases ==
    UNION {{[header |-> "right", manifest |-> m, tree |-> t] : t \in Trees(m)} : m \in Manifests}
        \cup {[header |-> h, manifest |-> Packaged, tree |-> Image(Packaged)] : h \in Headers}
==============================================================================
