------------------------------ MODULE ReleaseTree ------------------------------
(***************************************************************************)
(* verify-release (src/src/release_bundle.rs): whether the files of an     *)
(* installed release are exactly those that its manifest lists.  The       *)
(* manifest is checked by itself, then the tree is walked depth first.     *)
(* What is in a directory is visited in any order: the code's sorting only *)
(* decides which of several defects it reports.  Nobody changes the tree   *)
(* meanwhile (it is installed read-only), so that the comparisons of       *)
(* device and inode numbers, which guard against that, never fail.         *)
(***************************************************************************)
EXTENDS Naturals, Sequences, FiniteSets

CONSTANTS
    Paths,          \* relative paths: sequences of names
    Portable,       \* the paths whose names are made of portable characters
    Contents,       \* what can be in a file; stands for its SHA-256 too
    Size,           \* the length of each contents
    RequiredDirectories, RequiredFiles, Executables,
    Scripts,        \* the paths of JavaScript files in web/assets
    MaxEntries, MaxFileBytes, MaxReleaseBytes,
    Releases        \* bound: the manifests and trees that are verified

Root == <<>>

\* The directory that p is in after k steps from the root, and the last one.
Up(p, k) == SubSeq(p, 1, k)
Parent(p) == Up(p, Len(p) - 1)

Modes == {"0444", "0555", "0644"}       \* 0644 stands for those with a write bit
ReadOnly == {"0444", "0555"}

\* What a manifest says of a path.
Unlisted == [kind |-> "none"]
Entries ==
    {Unlisted}
        \cup [kind : {"directory"}, mode : Modes]
        \cup [kind : {"file"}, mode : Modes, size : Nat, sha256 : Contents]

\* What is found at a path.
Absent == [kind |-> "none"]
Nodes ==
    {Absent}
        \cup [kind : {"symlink", "special"}]
        \cup [kind : {"directory"}, mode : Modes]
        \cup [kind : {"file"}, mode : Modes, links : Nat, contents : Contents]

\* What exists is in directories that exist.
IsTree(t) ==
    \A p \in Paths : \A k \in 1 .. Len(p) - 1 :
        t[p] # Absent => t[Up(p, k)].kind = "directory"

ASSUME PathAssumption ==
    /\ Paths \subseteq Seq(STRING) \ {Root}
    /\ \A p \in Paths : \A k \in 1 .. Len(p) : Up(p, k) \in Paths
    /\ IsFiniteSet(Paths)
    /\ Size \in [Contents -> Nat]
    /\ {MaxEntries, MaxFileBytes, MaxReleaseBytes} \subseteq Nat

\* The header of a manifest is right, or what is wrong with it: the root or the
\* manifest's file is not as it must be, its identity is another program's, it lists
\* paths out of order (or twice), or another binary than the release's own verifies.
Headers == {"right", "root", "file", "identity", "order", "binary"}

ASSUME ReleaseAssumption ==
    \A r \in Releases :
        /\ r.header \in Headers
        /\ r.manifest \in [Paths -> Entries]
        /\ r.tree \in [Paths -> Nodes]
        /\ IsTree(r.tree)

VARIABLES
    header, manifest, tree,     \* the release; never changes
    verdict,
    stack,          \* the directories being walked: the entries left of each
    seen,           \* the paths found as listed
    entries,        \* counters.entries
    bytes           \* counters.bytes

release == <<header, manifest, tree>>
walk == <<stack, seen, entries, bytes>>
vars == <<release, verdict, walk>>

Init ==
    /\ \E r \in Releases :
          header = r.header /\ manifest = r.manifest /\ tree = r.tree
    /\ verdict = "none"
    /\ stack = <<>>
    /\ seen = {}
    /\ entries = 0
    /\ bytes = 0

------------------------------------------------------------------------------
\* The paths that the manifest lists.
Expected == {p \in Paths : manifest[p] # Unlisted}

\* parse_entries, for one entry.
ValidEntry(p) ==
    /\ p \in Portable
    /\ manifest[p].mode \in ReadOnly
    /\ manifest[p].kind = "directory" => manifest[p].mode = "0555"
    /\ manifest[p].kind = "file" => manifest[p].size <= MaxFileBytes

\* validate_required_layout.
RequiredLayout ==
    /\ \A p \in RequiredDirectories :
          manifest[p].kind = "directory" /\ manifest[p].mode = "0555"
    /\ \A p \in Executables : manifest[p].kind = "file" /\ manifest[p].mode = "0555"
    /\ \A p \in RequiredFiles : manifest[p].kind = "file" /\ manifest[p].mode = "0444"
    /\ \E p \in Scripts : manifest[p].kind = "file" /\ manifest[p].mode = "0444"

ValidManifest ==
    /\ header = "right"
    /\ Expected # {}
    /\ Cardinality(Expected) <= MaxEntries
    /\ \A p \in Expected : ValidEntry(p)
    /\ RequiredLayout

ChildrenOf(d) == {p \in Paths : tree[p] # Absent /\ Parent(p) = d}

\* Everything up to the walk.
CheckManifest ==
    /\ verdict = "none"
    /\ IF ValidManifest
       THEN verdict' = "walking" /\ stack' = <<ChildrenOf(Root)>>
       ELSE verdict' = "refused" /\ UNCHANGED stack
    /\ UNCHANGED <<release, seen, entries, bytes>>

\* The node is as the manifest has it.
DirectoryMatches(p) ==
    manifest[p].kind = "directory" /\ tree[p].mode = manifest[p].mode

FileMatches(p) ==
    /\ manifest[p].kind = "file"
    /\ tree[p].links = 1
    /\ tree[p].mode = manifest[p].mode
    /\ Size[tree[p].contents] = manifest[p].size
    /\ Size[tree[p].contents] <= MaxFileBytes
    /\ tree[p].contents = manifest[p].sha256

Walking == verdict = "walking" /\ stack # <<>>

\* Mutant: the limit leaves no room for the last entry.
Countable_Short(p) == p \in Portable /\ entries + 1 < MaxEntries

\* The name is portable and the entry is not one too many.
Countable(p) == p \in Portable /\ entries + 1 <= MaxEntries

\* validate_directory, for its child p: a directory is walked before the next child.
EnterDirectory(p) ==
    /\ Walking
    /\ p \in Head(stack)
    /\ Countable(p)
    /\ tree[p].kind = "directory"
    /\ DirectoryMatches(p)
    /\ stack' = <<ChildrenOf(p), Head(stack) \ {p}>> \o Tail(stack)
    /\ seen' = seen \cup {p}
    /\ entries' = entries + 1
    /\ UNCHANGED <<release, verdict, bytes>>

AcceptFile(p) ==
    /\ Walking
    /\ p \in Head(stack)
    /\ Countable(p)
    /\ tree[p].kind = "file"
    /\ FileMatches(p)
    /\ bytes + manifest[p].size <= MaxReleaseBytes
    /\ stack' = <<Head(stack) \ {p}>> \o Tail(stack)
    /\ seen' = seen \cup {p}
    /\ entries' = entries + 1
    /\ bytes' = bytes + manifest[p].size
    /\ UNCHANGED <<release, verdict>>

\* Any of the checks of validate_directory fails for p.
Refuse(p) ==
    /\ Walking
    /\ p \in Head(stack)
    /\ \/ ~Countable(p)
       \/ tree[p].kind \in {"symlink", "special"}
       \/ tree[p].kind = "directory" /\ ~DirectoryMatches(p)
       \/ /\ tree[p].kind = "file"
          /\ \/ ~FileMatches(p)
             \/ FileMatches(p) /\ bytes + manifest[p].size > MaxReleaseBytes
    /\ verdict' = "refused"
    /\ UNCHANGED <<release, walk>>

Leave ==
    /\ Walking
    /\ Head(stack) = {}
    /\ stack' = Tail(stack)
    /\ UNCHANGED <<release, verdict, seen, entries, bytes>>

\* Mutant: what was not found is not missed.
Conclude_NotCounting ==
    /\ verdict = "walking"
    /\ stack = <<>>
    /\ verdict' = "accepted"
    /\ UNCHANGED <<release, walk>>

\* Nothing may be missing.
Conclude ==
    /\ verdict = "walking"
    /\ stack = <<>>
    /\ verdict' = IF Cardinality(seen) = Cardinality(Expected) THEN "accepted"
                  ELSE "refused"
    /\ UNCHANGED <<release, walk>>

Next ==
    \/ CheckManifest
    \/ \E p \in Paths : EnterDirectory(p) \/ AcceptFile(p) \/ Refuse(p)
    \/ Leave
    \/ Conclude

Spec == Init /\ [][Next]_vars

------------------------------------------------------------------------------
(* Properties.                                                              *)

\* Every variable is of its type, and what is still to be visited exists and was not
\* visited before.
TypeOK ==
    /\ header \in Headers
    /\ manifest \in [Paths -> Entries]
    /\ tree \in [Paths -> Nodes]
    /\ verdict \in {"none", "walking", "accepted", "refused"}
    /\ stack \in Seq(SUBSET Paths)
    /\ \A i \in DOMAIN stack : \A p \in stack[i] : tree[p] # Absent /\ p \notin seen
    /\ seen \subseteq Paths
    /\ entries = Cardinality(seen)
    /\ bytes \in Nat

\* The release is what its manifest says: nothing is missing, nothing is there that is
\* not listed, each thing is of its kind and mode, each file has its contents and no
\* second name.  Stated of the whole tree, without the walk.
Exact ==
    /\ header = "right"
    /\ \A p \in Paths :
          \/ manifest[p] = Unlisted /\ tree[p] = Absent
          \/ tree[p] = manifest[p] /\ tree[p].kind = "directory"
          \/ /\ manifest[p].kind = "file"
             /\ tree[p] = [kind |-> "file", mode |-> manifest[p].mode, links |-> 1,
                           contents |-> manifest[p].sha256]
             /\ manifest[p].size = Size[tree[p].contents]

\* docs/feature-inventory-and-tradeoffs.md, SUN-095: a release that is accepted consists
\* of exactly what its manifest lists, read-only throughout and with everything that the
\* Manager needs.
AcceptedIsExact ==
    verdict = "accepted" =>
        Exact /\ RequiredLayout /\ \A p \in Expected : tree[p].mode \in ReadOnly

\* The bytes that the manifest has of some paths, one by one (a file of more than
\* MaxFileBytes is not valid), and how many it has of all.
BytesOf(files) ==
    {b \in files \X (1 .. MaxFileBytes) :
        manifest[b[1]].kind = "file" /\ b[2] <= manifest[b[1]].size}

ListedBytes == Cardinality(BytesOf(Expected))

\* An exact tree of a manifest that is valid by itself is refused for its size alone.
RefusedHasCause ==
    verdict = "refused" /\ ValidManifest /\ Exact => ListedBytes > MaxReleaseBytes
==============================================================================
