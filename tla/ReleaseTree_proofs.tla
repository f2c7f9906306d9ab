--------------------------- MODULE ReleaseTree_proofs ---------------------------
(***************************************************************************)
(* An accepted release is exact, for any paths, manifests, trees and       *)
(* limits.  The walk loses nothing: what exists and was not seen is below  *)
(* something still to be visited (Covered), so that when nothing is left   *)
(* everything was seen; and everything seen is as listed (SeenMatches), so  *)
(* that equal numbers mean that nothing is missing.  And an exact tree is   *)
(* refused for its size only: what is counted are the bytes that the        *)
(* manifest has of what was seen (CauseInv), which is part of what it has.  *)
(***************************************************************************)
EXTENDS ReleaseTree, FiniteSetTheorems, TLAPS

\* Frame i holds paths of one depth, one more than the frame under it.
Depths == \A i \in DOMAIN stack : \A p \in stack[i] : Len(p) = Len(stack) + 1 - i

\* What is in a directory is seen after it.
Downwards == \A p \in seen : Parent(p) # Root => Parent(p) \in seen

Matches(p) ==
    \/ tree[p].kind = "directory" /\ DirectoryMatches(p)
    \/ tree[p].kind = "file" /\ FileMatches(p)

\* What is to be visited is in the root or in a directory that was seen.
FromSeen ==
    \A i \in DOMAIN stack : \A p \in stack[i] : Parent(p) # Root => Parent(p) \in seen

SeenMatches == \A p \in seen : Matches(p)

\* p is still to be visited, or something above it is.
Ahead(p) == \E k \in 1 .. Len(p) : \E i \in DOMAIN stack : Up(p, k) \in stack[i]

Covered ==
    verdict = "walking" =>
        \A p \in Paths : tree[p] # Absent /\ p \notin seen => Ahead(p)

WalkInv ==
    /\ TypeOK
    /\ IsTree(tree)
    /\ Depths
    /\ Downwards
    /\ FromSeen
    /\ SeenMatches
    /\ Covered
    /\ verdict = "none" => stack = <<>> /\ seen = {}
    /\ verdict \in {"walking", "accepted"} => ValidManifest
    /\ verdict = "accepted" => Exact

LEMMA PathsOfSeq ==
    ASSUME NEW p \in Paths
    PROVE  /\ p \in Seq(STRING) /\ Len(p) \in Nat /\ Len(p) >= 1 /\ Up(p, Len(p)) = p
           /\ \A k \in 1 .. Len(p) : Up(p, k) \in Paths /\ Len(Up(p, k)) = k
<1>1. p \in Seq(STRING) /\ p # <<>>
  BY PathAssumption DEF Root
<1>2. Len(p) \in Nat /\ Len(p) >= 1
  BY <1>1
<1>3. Up(p, Len(p)) = p
  BY <1>1, <1>2 DEF Up
<1>4. ASSUME NEW k \in 1 .. Len(p)  PROVE Up(p, k) \in Paths /\ Len(Up(p, k)) = k
  <2>1. Up(p, k) \in Paths
    BY PathAssumption
  <2>2. Len(SubSeq(p, 1, k)) = k
    BY <1>1, <1>2
  <2>. QED  BY <2>1, <2>2 DEF Up
<1>. QED  BY <1>1, <1>2, <1>3, <1>4

\* The path one step below a directory.
LEMMA NextUp ==
    ASSUME NEW q \in Paths, NEW k \in 1 .. Len(q) - 1
    PROVE  /\ k + 1 \in 1 .. Len(q) /\ k \in 1 .. Len(q)
           /\ Parent(Up(q, k + 1)) = Up(q, k)
<1>1. q \in Seq(STRING) /\ Len(q) \in Nat /\ Len(q) >= 1
  BY PathsOfSeq
<1>2. k + 1 \in 1 .. Len(q) /\ k \in 1 .. Len(q) /\ k \in Nat
  BY <1>1
<1>3. Len(Up(q, k + 1)) = k + 1
  BY <1>2, PathsOfSeq
<1>4. SubSeq(SubSeq(q, 1, k + 1), 1, k) = SubSeq(q, 1, k)
  BY <1>1, <1>2
<1>. QED  BY <1>2, <1>3, <1>4 DEF Parent, Up

LEMMA ParentBelowRoot ==
    ASSUME NEW p \in Paths
    PROVE  /\ Len(p) = 1 <=> Parent(p) = Root
           /\ Len(p) > 1 => Parent(p) \in Paths /\ Len(Parent(p)) = Len(p) - 1
                            /\ Len(p) - 1 \in 1 .. Len(p) - 1
<1>1. p \in Seq(STRING) /\ Len(p) \in Nat /\ Len(p) >= 1
  BY PathsOfSeq
<1>2. CASE Len(p) = 1
  <2>1. SubSeq(p, 1, 0) = <<>>
    BY <1>1
  <2>. QED  BY <1>2, <2>1 DEF Parent, Up, Root
<1>3. CASE Len(p) > 1
  <2>1. Len(p) - 1 \in 1 .. Len(p) /\ Len(p) - 1 \in 1 .. Len(p) - 1
    BY <1>1, <1>3
  <2>2. Parent(p) \in Paths /\ Len(Parent(p)) = Len(p) - 1
    BY <2>1, PathsOfSeq DEF Parent
  <2>3. Parent(p) # Root
    BY <1>1, <1>3, <2>2 DEF Root
  <2>. QED  BY <1>1, <1>3, <2>1, <2>2, <2>3
<1>4. ASSUME NEW n \in Nat, n >= 1  PROVE n = 1 \/ n > 1
  BY <1>4
<1>5. ASSUME NEW n \in Nat  PROVE ~(n = 1 /\ n > 1)
  BY <1>5
<1>6. (Len(p) = 1 \/ Len(p) > 1) /\ ~(Len(p) = 1 /\ Len(p) > 1)
  BY <1>1, <1>4, <1>5, Zenon
<1>. QED  BY <1>2, <1>3, <1>6

LEMMA InitWalk == Init => WalkInv
<1>. SUFFICES ASSUME Init PROVE WalkInv
  OBVIOUS
<1>1. header \in Headers /\ manifest \in [Paths -> Entries] /\ tree \in [Paths -> Nodes]
      /\ IsTree(tree)
  BY ReleaseAssumption DEF Init
<1>2. verdict = "none" /\ stack = <<>> /\ seen = {} /\ entries = 0 /\ bytes = 0
  BY DEF Init
<1>3. TypeOK
  <2>1. Cardinality(seen) = 0
    BY <1>2, FS_EmptySet
  <2>2. stack \in Seq(SUBSET Paths) /\ DOMAIN stack = {}
    BY <1>2
  <2>. QED  BY <1>1, <1>2, <2>1, <2>2 DEF TypeOK
<1>4. DOMAIN stack = {}
  BY <1>2
<1>. QED  BY <1>1, <1>2, <1>3, <1>4 DEF WalkInv, Depths, Downwards, FromSeen, SeenMatches, Covered

\* What is above something that exists is a directory.
LEMMA PresentAbove ==
    ASSUME IsTree(tree), NEW p \in Paths, tree[p] # Absent, NEW k \in 1 .. Len(p)
    PROVE  tree[Up(p, k)] # Absent
<1>1. CASE k = Len(p)
  BY <1>1, PathsOfSeq
<1>2. CASE k # Len(p)
  <2>1. k \in 1 .. Len(p) - 1
    BY <1>2, PathsOfSeq
  <2>2. tree[Up(p, k)].kind = "directory"
    BY <2>1 DEF IsTree
  <2>. QED  BY <2>2 DEF Absent
<1>. QED  BY <1>1, <1>2

\* Refusing keeps everything else.
LEMMA OnlyVerdict ==
    ASSUME WalkInv, UNCHANGED <<header, manifest, tree, stack, seen, entries, bytes>>,
           verdict' = "refused"
    PROVE  WalkInv'
<1>1. TypeOK'
  BY DEF WalkInv, TypeOK
<1>2. IsTree(tree)' /\ Depths' /\ Downwards' /\ FromSeen' /\ SeenMatches'
  BY DEF WalkInv, IsTree, Depths, Downwards, FromSeen, SeenMatches, Matches, DirectoryMatches, FileMatches
<1>. QED  BY <1>1, <1>2 DEF WalkInv, Covered

LEMMA SeenFinite == ASSUME TypeOK PROVE IsFiniteSet(seen)
BY PathAssumption, FS_Subset DEF TypeOK

LEMMA CheckKeeps == WalkInv /\ CheckManifest => WalkInv'
<1>. SUFFICES ASSUME WalkInv, CheckManifest PROVE WalkInv'
  OBVIOUS
<1>. USE DEF release
<1>1. UNCHANGED <<header, manifest, tree, seen, entries, bytes>> /\ verdict = "none"
  BY DEF CheckManifest
<1>2. CASE ValidManifest
  <2>1. verdict' = "walking" /\ stack' = <<ChildrenOf(Root)>>
    BY <1>2 DEF CheckManifest
  <2>. DEFINE top == ChildrenOf(Root)
  <2>2. \A p \in top : p \in Paths /\ tree[p] # Absent /\ Parent(p) = Root
    BY DEF ChildrenOf
  <2>3. \A p \in top : Len(p) = 1
    BY <2>2, ParentBelowRoot
  <2>4. top \in SUBSET Paths
    BY <2>2
  <2>. HIDE DEF top
  <2>5. /\ stack' \in Seq(SUBSET Paths) /\ Len(stack') = 1
        /\ DOMAIN stack' = {1} /\ stack'[1] = top
    BY <2>1, <2>4 DEF top
  <2>6. seen = {} /\ seen' = {}
    BY <1>1 DEF WalkInv
  <2>7. TypeOK'
    BY <1>1, <2>1, <2>2, <2>5, <2>6 DEF WalkInv, TypeOK
  <2>8. Depths' /\ FromSeen'
    BY <2>2, <2>3, <2>5 DEF Depths, FromSeen
  <2>9. Covered'
    <3>. SUFFICES ASSUME NEW p \in Paths, tree[p] # Absent  PROVE Ahead(p)'
      BY <1>1 DEF Covered
    <3>0. Len(p) \in Nat /\ Len(p) >= 1
      BY PathsOfSeq
    <3>1. 1 \in 1 .. Len(p) /\ Up(p, 1) \in Paths /\ Len(Up(p, 1)) = 1
      <4>1. 1 \in 1 .. Len(p)
        BY <3>0
      <4>. QED  BY <4>1, PathsOfSeq
    <3>2. tree[Up(p, 1)] # Absent
      BY <3>1, PathsOfSeq, PresentAbove DEF WalkInv
    <3>3. Up(p, 1) \in top
      BY <3>1, <3>2, ParentBelowRoot DEF top, ChildrenOf
    <3>. QED  BY <2>5, <3>1, <3>3 DEF Ahead
  <2>10. Downwards' /\ SeenMatches' /\ IsTree(tree)' /\ ValidManifest'
    BY <1>1, <1>2, <2>6 DEF Downwards, SeenMatches, WalkInv, IsTree, ValidManifest, Expected,
                            ValidEntry, RequiredLayout
  <2>. QED  BY <2>1, <2>7, <2>8, <2>9, <2>10 DEF WalkInv
<1>2a. CASE ~ValidManifest
  <2>1. verdict' = "refused" /\ stack' = stack
    BY <1>2a DEF CheckManifest
  <2>. QED  BY <1>1, <2>1, OnlyVerdict
<1>. QED  BY <1>2, <1>2a

LEMMA DirectoryKeeps ==
    ASSUME WalkInv, NEW p \in Paths, EnterDirectory(p)
    PROVE  WalkInv'
<1>. USE DEF release
<1>. DEFINE top == Head(stack)
            below == ChildrenOf(p)
<1>1. /\ UNCHANGED <<header, manifest, tree, verdict, bytes>>
      /\ verdict = "walking" /\ stack # <<>> /\ p \in top
      /\ tree[p].kind = "directory" /\ DirectoryMatches(p)
      /\ stack' = <<below, top \ {p}>> \o Tail(stack)
      /\ seen' = seen \cup {p} /\ entries' = entries + 1
  BY DEF EnterDirectory, Walking
<1>2. below \in SUBSET Paths /\ \A q \in below : tree[q] # Absent /\ Parent(q) = p
  BY DEF ChildrenOf
<1>3. stack \in Seq(SUBSET Paths) /\ seen \subseteq Paths
  BY DEF WalkInv, TypeOK
<1>4. top = stack[1] /\ top \in SUBSET Paths /\ 1 \in DOMAIN stack
  BY <1>1, <1>3
<1>5. Len(p) = Len(stack) /\ p \notin seen
  BY <1>1, <1>3, <1>4 DEF WalkInv, Depths, TypeOK
<1>. HIDE DEF top, below
<1>6. /\ stack' \in Seq(SUBSET Paths) /\ Len(stack') = Len(stack) + 1
      /\ stack'[1] = below /\ stack'[2] = top \ {p}
      /\ \A i \in DOMAIN stack' : i # 1 /\ i # 2 =>
            i - 1 \in DOMAIN stack /\ i - 1 # 1 /\ stack'[i] = stack[i - 1]
      /\ \A i \in DOMAIN stack : i # 1 => i + 1 \in DOMAIN stack' /\ stack'[i + 1] = stack[i]
      /\ 1 \in DOMAIN stack' /\ 2 \in DOMAIN stack'
  BY <1>1, <1>2, <1>3, <1>4
<1>7. \A q \in below : Len(q) = Len(p) + 1
  <2>. SUFFICES ASSUME NEW q \in below PROVE Len(q) = Len(p) + 1
    OBVIOUS
  <2>1. q \in Paths /\ Parent(q) = p /\ p # Root
    BY <1>2, PathAssumption
  <2>2. Len(q) \in Nat /\ Len(q) >= 1 /\ Len(q) # 1
    BY <2>1, ParentBelowRoot, PathsOfSeq, Zenon
  <2>3. Len(q) > 1
    <3>1. ASSUME NEW n \in Nat, n >= 1, n # 1  PROVE n > 1
      BY <3>1
    <3>. QED  BY <2>2, <3>1, Zenon
  <2>4. Len(p) = Len(q) - 1
    BY <2>1, <2>3, ParentBelowRoot
  <2>. QED  BY <2>2, <2>4
<1>8. Depths'
  <2>. SUFFICES ASSUME NEW i \in DOMAIN stack', NEW q \in stack'[i]
                PROVE  Len(q) = Len(stack') + 1 - i
    BY DEF Depths
  <2>1. CASE i = 1
    BY <1>5, <1>6, <1>7, <2>1, <1>3
  <2>2. CASE i = 2
    BY <1>3, <1>4, <1>6, <2>2 DEF WalkInv, Depths
  <2>3. CASE i # 1 /\ i # 2
    <3>1. Len(q) = Len(stack) + 1 - (i - 1)
      BY <1>6, <2>3 DEF WalkInv, Depths
    <3>. QED  BY <1>3, <1>6, <3>1
  <2>. QED  BY <2>1, <2>2, <2>3
<1>9. Downwards'
  <2>1. Parent(p) # Root => Parent(p) \in seen
    BY <1>4, <1>1, <1>3 DEF WalkInv, FromSeen
  <2>. QED  BY <1>1, <2>1 DEF WalkInv, Downwards
<1>10. FromSeen'
  <2>. SUFFICES ASSUME NEW i \in DOMAIN stack', NEW q \in stack'[i], Parent(q) # Root
                PROVE  Parent(q) \in seen'
    BY DEF FromSeen
  <2>1. CASE i = 1
    BY <1>1, <1>2, <1>6, <2>1
  <2>2. CASE i # 1
    <3>1. \E j \in DOMAIN stack : q \in stack[j]
      BY <1>4, <1>6, <2>2
    <3>. QED  BY <1>1, <3>1 DEF WalkInv, FromSeen
  <2>. QED  BY <2>1, <2>2
<1>11. p \notin top \ {p} /\ \A i \in DOMAIN stack' : \A q \in stack'[i] :
          tree'[q] # Absent /\ q \notin seen'
  <2>. SUFFICES ASSUME NEW i \in DOMAIN stack', NEW q \in stack'[i]
                PROVE  tree[q] # Absent /\ q \notin seen /\ q # p
    BY <1>1
  <2>1. CASE i = 1
    <3>1. tree[q] # Absent /\ Parent(q) = p /\ Len(q) = Len(p) + 1
      BY <1>2, <1>6, <1>7, <2>1
    <3>2. q # p
      BY <1>3, <1>5, <3>1
    <3>3. q \notin seen
      BY <1>5, <3>1, PathAssumption DEF WalkInv, Downwards
    <3>. QED  BY <3>1, <3>2, <3>3
  <2>2. CASE i = 2
    BY <1>4, <1>6, <2>2 DEF WalkInv, TypeOK
  <2>3. CASE i # 1 /\ i # 2
    <3>1. i - 1 \in DOMAIN stack /\ q \in stack[i - 1] /\ i - 1 # 1
      BY <1>6, <2>3
    <3>2. Len(q) = Len(stack) + 1 - (i - 1)
      BY <3>1 DEF WalkInv, Depths
    <3>3. q # p
      BY <1>3, <1>5, <3>1, <3>2
    <3>. QED  BY <3>1, <3>3 DEF WalkInv, TypeOK
  <2>. QED  BY <2>1, <2>2, <2>3
<1>12. TypeOK'
  <2>1. entries' = Cardinality(seen')
    BY <1>1, <1>3, <1>5, SeenFinite, FS_AddElement DEF WalkInv, TypeOK
  <2>. QED  BY <1>1, <1>3, <1>6, <1>11, <2>1 DEF WalkInv, TypeOK
<1>13. SeenMatches'
  BY <1>1 DEF WalkInv, SeenMatches, Matches, DirectoryMatches, FileMatches
<1>14. Covered'
  <2>. SUFFICES ASSUME NEW q \in Paths, tree[q] # Absent, q \notin seen, q # p
                PROVE  Ahead(q)'
    BY <1>1 DEF Covered
  <2>1. PICK k \in 1 .. Len(q), i \in DOMAIN stack : Up(q, k) \in stack[i]
    BY <1>1 DEF WalkInv, Covered, Ahead
  <2>2. CASE Up(q, k) # p
    <3>1. \E j \in DOMAIN stack' : Up(q, k) \in stack'[j]
      BY <1>4, <1>6, <2>1, <2>2
    <3>. QED  BY <3>1 DEF Ahead
  <2>3. CASE Up(q, k) = p
    <3>1. k \in 1 .. Len(q) - 1
      BY <2>3, PathsOfSeq
    <3>2. k + 1 \in 1 .. Len(q) /\ Parent(Up(q, k + 1)) = p
      BY <2>3, <3>1, NextUp
    <3>3. Up(q, k + 1) \in Paths /\ tree[Up(q, k + 1)] # Absent
      BY <3>2, PathsOfSeq, PresentAbove DEF WalkInv
    <3>4. Up(q, k + 1) \in below
      BY <3>2, <3>3 DEF below, ChildrenOf
    <3>. QED  BY <1>6, <3>2, <3>4 DEF Ahead
  <2>. QED  BY <2>2, <2>3
<1>15. IsTree(tree)' /\ ValidManifest'
  BY <1>1 DEF WalkInv, IsTree, ValidManifest, Expected, ValidEntry, RequiredLayout
<1>. QED  BY <1>1, <1>8, <1>9, <1>10, <1>12, <1>13, <1>14, <1>15 DEF WalkInv

LEMMA FileKeeps ==
    ASSUME WalkInv, NEW p \in Paths, AcceptFile(p)
    PROVE  WalkInv'
<1>. USE DEF release
<1>. DEFINE top == Head(stack)
<1>1. /\ UNCHANGED <<header, manifest, tree, verdict>>
      /\ verdict = "walking" /\ stack # <<>> /\ p \in top
      /\ tree[p].kind = "file" /\ FileMatches(p)
      /\ stack' = <<top \ {p}>> \o Tail(stack)
      /\ seen' = seen \cup {p} /\ entries' = entries + 1 /\ bytes' = bytes + manifest[p].size
  BY DEF AcceptFile, Walking
<1>2. stack \in Seq(SUBSET Paths) /\ seen \subseteq Paths
  BY DEF WalkInv, TypeOK
<1>3. top = stack[1] /\ top \in SUBSET Paths /\ 1 \in DOMAIN stack
  BY <1>1, <1>2
<1>4. Len(p) = Len(stack) /\ p \notin seen
  BY <1>1, <1>2, <1>3 DEF WalkInv, Depths, TypeOK
<1>. HIDE DEF top
<1>5. /\ stack' \in Seq(SUBSET Paths) /\ Len(stack') = Len(stack) /\ DOMAIN stack' = DOMAIN stack
      /\ stack'[1] = top \ {p}
      /\ \A i \in DOMAIN stack : i # 1 => stack'[i] = stack[i]
  BY <1>1, <1>2, <1>3
<1>6. \A i \in DOMAIN stack' : i \in DOMAIN stack /\ stack'[i] \subseteq stack[i]
  BY <1>3, <1>5
<1>7. Depths' /\ FromSeen'
  BY <1>1, <1>5, <1>6 DEF WalkInv, Depths, FromSeen
<1>8. Downwards'
  <2>1. Parent(p) # Root => Parent(p) \in seen
    BY <1>3, <1>1 DEF WalkInv, FromSeen
  <2>. QED  BY <1>1, <2>1 DEF WalkInv, Downwards
<1>9. TypeOK'
  <2>1. entries' = Cardinality(seen')
    BY <1>1, <1>2, <1>4, SeenFinite, FS_AddElement DEF WalkInv, TypeOK
  <2>2. bytes' \in Nat
    <3>1. manifest[p] \in Entries /\ manifest[p].kind = "file"
      BY <1>1 DEF WalkInv, TypeOK, FileMatches
    <3>2. manifest[p].size \in Nat
      BY <3>1 DEF Entries, Unlisted
    <3>. QED  BY <1>1, <3>2 DEF WalkInv, TypeOK
  <2>3. ASSUME NEW i \in DOMAIN stack', NEW q \in stack'[i]
        PROVE  tree'[q] # Absent /\ q \notin seen'
    <3>1. tree[q] # Absent /\ q \notin seen
      BY <1>6 DEF WalkInv, TypeOK
    <3>2. q # p
      <4>1. CASE i = 1
        BY <1>5, <4>1
      <4>2. CASE i # 1
        <5>1. Len(q) = Len(stack) + 1 - i
          BY <1>6 DEF WalkInv, Depths
        <5>. QED  BY <1>2, <1>4, <1>6, <4>2, <5>1
      <4>. QED  BY <4>1, <4>2
    <3>. QED  BY <1>1, <3>1, <3>2
  <2>. QED  BY <1>1, <1>2, <1>5, <2>1, <2>2, <2>3 DEF WalkInv, TypeOK
<1>10. SeenMatches'
  BY <1>1 DEF WalkInv, SeenMatches, Matches, DirectoryMatches, FileMatches
<1>11. Covered'
  <2>. SUFFICES ASSUME NEW q \in Paths, tree[q] # Absent, q \notin seen, q # p
                PROVE  Ahead(q)'
    BY <1>1 DEF Covered
  <2>1. PICK k \in 1 .. Len(q), i \in DOMAIN stack : Up(q, k) \in stack[i]
    BY <1>1 DEF WalkInv, Covered, Ahead
  \* Nothing exists below a file.
  <2>2. Up(q, k) # p
    <3>. SUFFICES ASSUME Up(q, k) = p PROVE FALSE
      OBVIOUS
    <3>1. k \in 1 .. Len(q) - 1
      BY PathsOfSeq
    <3>2. tree[p].kind = "directory"
      BY <3>1 DEF WalkInv, IsTree
    <3>. QED  BY <1>1, <3>2
  <2>3. \E j \in DOMAIN stack' : Up(q, k) \in stack'[j]
    BY <1>3, <1>5, <2>1, <2>2
  <2>. QED  BY <2>3 DEF Ahead
<1>12. IsTree(tree)' /\ ValidManifest'
  BY <1>1 DEF WalkInv, IsTree, ValidManifest, Expected, ValidEntry, RequiredLayout
<1>. QED  BY <1>1, <1>7, <1>8, <1>9, <1>10, <1>11, <1>12 DEF WalkInv

LEMMA LeaveKeeps == WalkInv /\ Leave => WalkInv'
<1>. SUFFICES ASSUME WalkInv, Leave PROVE WalkInv'
  OBVIOUS
<1>1. /\ UNCHANGED <<header, manifest, tree, verdict, seen, entries, bytes>>
      /\ stack # <<>> /\ stack[1] = {} /\ stack' = Tail(stack) /\ verdict = "walking"
  BY DEF Leave, Walking, release, WalkInv, TypeOK
<1>2. stack \in Seq(SUBSET Paths)
  BY DEF WalkInv, TypeOK
<1>3. /\ stack' \in Seq(SUBSET Paths) /\ Len(stack') = Len(stack) - 1 /\ Len(stack) \in Nat
      /\ \A i \in DOMAIN stack' : i + 1 \in DOMAIN stack /\ stack'[i] = stack[i + 1] /\ i \in Nat
      /\ \A i \in DOMAIN stack : i # 1 => i - 1 \in DOMAIN stack' /\ stack'[i - 1] = stack[i]
  BY <1>1, <1>2
<1>4. Depths'
  <2>. SUFFICES ASSUME NEW i \in DOMAIN stack', NEW q \in stack'[i]
                PROVE  Len(q) = Len(stack') + 1 - i
    BY DEF Depths
  <2>1. Len(q) = Len(stack) + 1 - (i + 1)
    BY <1>3 DEF WalkInv, Depths
  <2>. QED  BY <1>3, <2>1
<1>5. FromSeen'
  BY <1>1, <1>3 DEF WalkInv, FromSeen
<1>6. TypeOK'
  BY <1>1, <1>3 DEF WalkInv, TypeOK
<1>7. Covered'
  <2>. SUFFICES ASSUME NEW q \in Paths, tree[q] # Absent, q \notin seen  PROVE Ahead(q)'
    BY <1>1 DEF Covered
  <2>1. PICK k \in 1 .. Len(q), i \in DOMAIN stack : Up(q, k) \in stack[i]
    BY <1>1 DEF WalkInv, Covered, Ahead
  <2>2. i # 1
    BY <1>1, <2>1
  <2>. QED  BY <1>3, <2>1, <2>2 DEF Ahead
<1>8. Downwards' /\ SeenMatches' /\ IsTree(tree)' /\ ValidManifest'
  BY <1>1 DEF WalkInv, Downwards, SeenMatches, Matches, DirectoryMatches, FileMatches, IsTree,
              ValidManifest, Expected, ValidEntry, RequiredLayout
<1>. QED  BY <1>1, <1>4, <1>5, <1>6, <1>7, <1>8 DEF WalkInv

\* With nothing left to visit and as many paths seen as listed, the release is exact.
LEMMA NothingMissing ==
    ASSUME WalkInv, verdict = "walking", stack = <<>>,
           Cardinality(seen) = Cardinality(Expected)
    PROVE  Exact
<1>1. manifest \in [Paths -> Entries] /\ tree \in [Paths -> Nodes] /\ header = "right"
  BY DEF WalkInv, TypeOK, ValidManifest
<1>2. \A p \in seen : p \in Paths /\ Matches(p)
  BY DEF WalkInv, TypeOK, SeenMatches
<1>3. seen \subseteq Expected
  <2>. SUFFICES ASSUME NEW p \in seen PROVE manifest[p] # Unlisted
    BY <1>2 DEF Expected
  <2>. QED  BY <1>2 DEF Matches, DirectoryMatches, FileMatches, Unlisted
<1>4. seen = Expected
  <2>1. IsFiniteSet(Expected)
    BY PathAssumption, FS_Subset DEF Expected
  <2>. QED  BY <1>3, <2>1, FS_Subset
<1>5. ASSUME NEW p \in Paths, p \notin seen  PROVE manifest[p] = Unlisted /\ tree[p] = Absent
  <2>1. manifest[p] = Unlisted
    BY <1>4, <1>5 DEF Expected
  <2>2. ~Ahead(p)
    BY DEF Ahead
  <2>. QED  BY <1>5, <2>1, <2>2 DEF WalkInv, Covered
<1>6. ASSUME NEW p \in Paths, p \in seen, tree[p].kind = "directory"
      PROVE  tree[p] = manifest[p]
  <2>1. manifest[p].kind = "directory" /\ tree[p].mode = manifest[p].mode
    BY <1>2, <1>6 DEF Matches, DirectoryMatches
  <2>2. tree[p] \in [kind : {"directory"}, mode : Modes]
    BY <1>1, <1>6 DEF Nodes, Absent
  <2>3. manifest[p] \in [kind : {"directory"}, mode : Modes]
    BY <1>1, <2>1 DEF Entries, Unlisted
  <2>. QED  BY <2>1, <2>2, <2>3
<1>7. ASSUME NEW p \in Paths, p \in seen, tree[p].kind # "directory"
      PROVE  /\ manifest[p].kind = "file"
             /\ tree[p] = [kind |-> "file", mode |-> manifest[p].mode, links |-> 1,
                           contents |-> manifest[p].sha256]
             /\ manifest[p].size = Size[tree[p].contents]
  <2>1. tree[p].kind = "file" /\ FileMatches(p)
    BY <1>2, <1>7 DEF Matches
  <2>2. tree[p] \in [kind : {"file"}, mode : Modes, links : Nat, contents : Contents]
    BY <1>1, <2>1 DEF Nodes, Absent
  <2>. QED  BY <2>1, <2>2 DEF FileMatches
<1>. QED  BY <1>1, <1>5, <1>6, <1>7 DEF Exact

LEMMA ConcludeKeeps == WalkInv /\ Conclude => WalkInv'
<1>. SUFFICES ASSUME WalkInv, Conclude PROVE WalkInv'
  OBVIOUS
<1>1. UNCHANGED <<header, manifest, tree, stack, seen, entries, bytes>>
  BY DEF Conclude, release, walk
<1>2. CASE verdict' = "refused"
  BY <1>1, <1>2, OnlyVerdict
<1>3. CASE verdict' # "refused"
  <2>1. /\ verdict = "walking" /\ stack = <<>> /\ verdict' = "accepted"
        /\ Cardinality(seen) = Cardinality(Expected)
    BY <1>3 DEF Conclude
  <2>2. Exact /\ ValidManifest
    BY <2>1, NothingMissing DEF WalkInv
  <2>3. Exact' /\ ValidManifest'
    BY <1>1, <2>2 DEF Exact, ValidManifest, Expected, ValidEntry, RequiredLayout
  <2>4. TypeOK' /\ IsTree(tree)' /\ Depths' /\ Downwards' /\ FromSeen' /\ SeenMatches'
    BY <1>1, <2>1 DEF WalkInv, TypeOK, IsTree, Depths, Downwards, FromSeen, SeenMatches, Matches,
                      DirectoryMatches, FileMatches
  <2>. QED  BY <2>1, <2>3, <2>4 DEF WalkInv, Covered
<1>. QED  BY <1>2, <1>3

LEMMA NextKeeps == WalkInv /\ [Next]_vars => WalkInv'
<1>. SUFFICES ASSUME WalkInv, [Next]_vars PROVE WalkInv'
  OBVIOUS
<1>1. ASSUME NEW p \in Paths, Refuse(p)  PROVE WalkInv'
  <2>1. UNCHANGED <<header, manifest, tree, stack, seen, entries, bytes>> /\ verdict' = "refused"
    BY <1>1 DEF Refuse, release, walk
  <2>. QED  BY <2>1, OnlyVerdict
<1>2. CASE UNCHANGED vars
  <2>1. UNCHANGED <<header, manifest, tree, verdict, stack, seen, entries, bytes>>
    BY <1>2 DEF vars, release, walk
  <2>. QED  BY <2>1 DEF WalkInv, TypeOK, IsTree, Depths, Downwards, FromSeen, SeenMatches,
                 Matches, DirectoryMatches, FileMatches, Covered, Ahead, ValidManifest, Expected,
                 ValidEntry, RequiredLayout, Exact
<1>. QED  BY <1>1, <1>2, CheckKeeps, DirectoryKeeps, FileKeeps, LeaveKeeps, ConcludeKeeps DEF Next

THEOREM WalkInvariant == Spec => []WalkInv
<1>. QED  BY InitWalk, NextKeeps, PTL DEF Spec

\* Every variable keeps its type; nothing is visited twice and every visit is counted.
THEOREM TypeCorrect == Spec => []TypeOK
<1>1. WalkInv => TypeOK
  BY DEF WalkInv
<1>. QED  BY <1>1, WalkInvariant, PTL

\* A release that verify-release accepts is exactly what its manifest lists.
THEOREM AcceptedReleaseIsExact == Spec => []AcceptedIsExact
<1>1. ASSUME WalkInv, verdict = "accepted"
      PROVE  Exact /\ RequiredLayout /\ \A p \in Expected : tree[p].mode \in ReadOnly
  <2>1. Exact /\ ValidManifest
    BY <1>1 DEF WalkInv
  <2>2. ASSUME NEW p \in Expected  PROVE tree[p].mode = manifest[p].mode
    <3>1. p \in Paths /\ manifest[p] # Unlisted
      BY DEF Expected
    <3>2. CASE manifest[p].kind = "file"
      <4>1. tree[p] = [kind |-> "file", mode |-> manifest[p].mode, links |-> 1,
                       contents |-> manifest[p].sha256] \/ tree[p] = manifest[p]
        BY <2>1, <3>1 DEF Exact
      <4>. QED  BY <4>1
    <3>3. CASE manifest[p].kind # "file"
      BY <2>1, <3>1, <3>3 DEF Exact
    <3>. QED  BY <3>2, <3>3
  <2>. QED  BY <2>1, <2>2 DEF ValidManifest, ValidEntry
<1>. QED  BY <1>1, WalkInvariant, PTL DEF AcceptedIsExact

------------------------------------------------------------------------------
(* Why an exact tree is refused.                                            *)

LEMMA BytesFinite ==
    ASSUME NEW S \in SUBSET Paths
    PROVE  IsFiniteSet(BytesOf(S)) /\ Cardinality(BytesOf(S)) \in Nat
<1>1. IsFiniteSet(S)
  BY PathAssumption, FS_Subset
<1>2. IsFiniteSet(1 .. MaxFileBytes)
  BY PathAssumption, FS_Interval
<1>3. IsFiniteSet(S \X (1 .. MaxFileBytes))
  BY <1>1, <1>2, FS_Product
<1>4. BytesOf(S) \in SUBSET (S \X (1 .. MaxFileBytes))
  BY DEF BytesOf
<1>. QED  BY <1>3, <1>4, FS_Subset, FS_CardinalityType

\* A path's bytes come on top of those of other paths.
LEMMA BytesAdd ==
    ASSUME NEW S \in SUBSET Paths, NEW p \in Paths, p \notin S
    PROVE  /\ manifest[p].kind # "file" => BytesOf(S \cup {p}) = BytesOf(S)
           /\ manifest[p].kind = "file" /\ manifest[p].size \in 0 .. MaxFileBytes =>
                 Cardinality(BytesOf(S \cup {p})) = Cardinality(BytesOf(S)) + manifest[p].size
<1>1. ASSUME manifest[p].kind # "file"
      PROVE  BytesOf(S \cup {p}) = BytesOf(S)
  BY <1>1 DEF BytesOf
<1>2. ASSUME manifest[p].kind = "file", manifest[p].size \in 0 .. MaxFileBytes
      PROVE  Cardinality(BytesOf(S \cup {p})) = Cardinality(BytesOf(S)) + manifest[p].size
  <2>. DEFINE n == manifest[p].size
              own == {p} \X (1 .. n)
  <2>0. n \in Nat /\ n <= MaxFileBytes /\ MaxFileBytes \in Nat
    BY <1>2, PathAssumption
  <2>1. BytesOf(S \cup {p}) = BytesOf(S) \cup own
    BY <1>2, <2>0 DEF BytesOf
  <2>2. BytesOf(S) \cap own = {}
    BY DEF BytesOf
  <2>3. IsFiniteSet(own) /\ Cardinality(own) = n
    <3>. HIDE DEF n
    <3>1. IsFiniteSet(1 .. n) /\ Cardinality(1 .. n) = n
      BY <2>0, FS_Interval
    <3>2. IsFiniteSet({p}) /\ Cardinality({p}) = 1
      BY FS_Singleton
    <3>3. IsFiniteSet({p} \X (1 .. n)) /\ Cardinality({p} \X (1 .. n)) = 1 * n
      BY <3>1, <3>2, FS_Product
    <3>. QED  BY <2>0, <3>3
  <2>4. Cardinality({}) = 0
    BY FS_EmptySet
  <2>5. IsFiniteSet(BytesOf(S)) /\ Cardinality(BytesOf(S)) \in Nat
    BY BytesFinite
  <2>. HIDE DEF own
  <2>6. Cardinality(BytesOf(S) \cup own)
            = Cardinality(BytesOf(S)) + Cardinality(own) - Cardinality(BytesOf(S) \cap own)
    BY <2>3, <2>5, FS_Union
  <2>7. Cardinality(BytesOf(S) \cap own) = 0
    BY <2>2, <2>4, Zenon
  <2>8. Cardinality(BytesOf(S \cup {p})) = Cardinality(BytesOf(S) \cup own)
    BY <2>1, Zenon
  <2>. QED  BY <2>0, <2>3, <2>5, <2>6, <2>7, <2>8
<1>. QED  BY <1>1, <1>2

CauseInv ==
    /\ WalkInv
    /\ bytes = Cardinality(BytesOf(seen))
    /\ RefusedHasCause

LEMMA InitCause == Init => CauseInv
<1>. SUFFICES ASSUME Init PROVE CauseInv
  OBVIOUS
<1>1. seen = {} /\ bytes = 0 /\ verdict = "none"
  BY DEF Init
<1>2. BytesOf(seen) = {}
  BY <1>1 DEF BytesOf
<1>. QED  BY <1>1, <1>2, InitWalk, FS_EmptySet DEF CauseInv, RefusedHasCause

LEMMA SeenExpected ==
    ASSUME WalkInv
    PROVE  seen \subseteq Expected /\ IsFiniteSet(Expected) /\ Expected \subseteq Paths
<1>1. \A p \in seen : p \in Paths /\ Matches(p)
  BY DEF WalkInv, TypeOK, SeenMatches
<1>2. seen \subseteq Expected
  <2>. SUFFICES ASSUME NEW p \in seen PROVE manifest[p] # Unlisted
    BY <1>1 DEF Expected
  <2>. QED  BY <1>1 DEF Matches, DirectoryMatches, FileMatches, Unlisted
<1>. QED  BY <1>2, PathAssumption, FS_Subset DEF Expected

\* What is to be visited in an exact tree is listed, and found as listed.
LEMMA ExactMatches ==
    ASSUME WalkInv, ValidManifest, Exact, Walking, NEW p \in Head(stack)
    PROVE  p \in Paths /\ p \notin seen /\ p \in Expected /\ Countable(p) /\ Matches(p)
<1>1. stack \in Seq(SUBSET Paths) /\ stack # <<>>
  BY DEF WalkInv, TypeOK, Walking
<1>2. 1 \in DOMAIN stack /\ Head(stack) = stack[1] /\ Head(stack) \in SUBSET Paths
  BY <1>1
<1>3. p \in Paths /\ p \notin seen /\ tree[p] # Absent
  BY <1>2 DEF WalkInv, TypeOK
<1>4. p \in Expected
  <2>. SUFFICES ASSUME manifest[p] = Unlisted PROVE FALSE
    BY <1>3 DEF Expected
  <2>1. manifest[p].kind = "none"
    BY DEF Unlisted
  <2>2. tree[p] = manifest[p] /\ tree[p].kind = "directory"
    BY <1>3, <2>1 DEF Exact
  <2>. QED  BY <2>1, <2>2
<1>5. ValidEntry(p) /\ manifest[p] \in Entries
  BY <1>3, <1>4 DEF ValidManifest, WalkInv, TypeOK
<1>6. Countable(p)
  <2>1. IsFiniteSet(seen) /\ IsFiniteSet(Expected) /\ seen \cup {p} \in SUBSET Expected
    BY <1>4, SeenExpected, SeenFinite DEF WalkInv
  <2>2. Cardinality(seen \cup {p}) = Cardinality(seen) + 1
    BY <1>3, <2>1, FS_AddElement
  <2>3. Cardinality(seen \cup {p}) <= Cardinality(Expected)
    BY <2>1, FS_Subset
  <2>4. Cardinality(seen) \in Nat /\ Cardinality(Expected) \in Nat /\ MaxEntries \in Nat
    BY <2>1, FS_CardinalityType, PathAssumption
  <2>5. entries = Cardinality(seen) /\ Cardinality(Expected) <= MaxEntries
    BY DEF WalkInv, TypeOK, ValidManifest
  <2>. QED  BY <1>5, <2>2, <2>3, <2>4, <2>5 DEF Countable, ValidEntry
<1>7. CASE tree[p] = manifest[p] /\ tree[p].kind = "directory"
  BY <1>3, <1>4, <1>6, <1>7 DEF Matches, DirectoryMatches
<1>8. CASE /\ manifest[p].kind = "file"
           /\ tree[p] = [kind |-> "file", mode |-> manifest[p].mode, links |-> 1,
                         contents |-> manifest[p].sha256]
           /\ manifest[p].size = Size[tree[p].contents]
  <2>1. manifest[p].size <= MaxFileBytes
    BY <1>5, <1>8 DEF ValidEntry
  <2>2. /\ tree[p].kind = "file" /\ tree[p].links = 1 /\ tree[p].mode = manifest[p].mode
        /\ tree[p].contents = manifest[p].sha256
    BY <1>8
  <2>. QED  BY <1>3, <1>4, <1>6, <1>8, <2>1, <2>2 DEF Matches, FileMatches
<1>. QED  BY <1>3, <1>7, <1>8 DEF Exact

\* With nothing left to visit, all that an exact tree's manifest lists was seen.
LEMMA ExactSeen ==
    ASSUME WalkInv, Exact, verdict = "walking", stack = <<>>
    PROVE  seen = Expected
<1>. SUFFICES ASSUME NEW p \in Expected, p \notin seen PROVE FALSE
  BY SeenExpected
<1>1. p \in Paths /\ manifest[p] # Unlisted
  BY DEF Expected
<1>2. tree[p] # Absent
  <2>1. CASE tree[p].kind \in {"directory", "file"}
    BY <2>1 DEF Absent
  <2>2. CASE tree[p] = [kind |-> "file", mode |-> manifest[p].mode, links |-> 1,
                        contents |-> manifest[p].sha256]
    BY <2>1, <2>2
  <2>. QED  BY <1>1, <2>1, <2>2 DEF Exact
<1>3. ~Ahead(p)
  BY DEF Ahead
<1>. QED  BY <1>1, <1>2, <1>3 DEF WalkInv, Covered

\* What is only looked at for its manifest and its tree.
LEMMA SameRelease ==
    ASSUME UNCHANGED release
    PROVE  /\ Exact' = Exact /\ ValidManifest' = ValidManifest /\ ListedBytes' = ListedBytes
           /\ BytesOf(seen)' = BytesOf(seen')
<1>. USE DEF release
<1>1. Expected' = Expected
  BY DEF Expected
<1>2. ValidManifest' = ValidManifest
  BY <1>1 DEF ValidManifest, ValidEntry, RequiredLayout
<1>3. Exact' = Exact
  BY DEF Exact
<1>. QED  BY <1>1, <1>2, <1>3 DEF ListedBytes, BytesOf

LEMMA RefuseHasCause ==
    ASSUME CauseInv, ValidManifest, Exact, NEW p \in Paths, Refuse(p)
    PROVE  ListedBytes > MaxReleaseBytes
<1>1. WalkInv /\ Walking /\ p \in Head(stack) /\ bytes = Cardinality(BytesOf(seen))
  BY DEF CauseInv, Refuse
<1>2. p \notin seen /\ p \in Expected /\ Countable(p) /\ Matches(p)
  BY <1>1, ExactMatches
<1>3. tree[p].kind = "file" /\ FileMatches(p) /\ bytes + manifest[p].size > MaxReleaseBytes
  BY <1>2 DEF Matches, Refuse
<1>4. manifest[p].kind = "file" /\ manifest[p].size \in 0 .. MaxFileBytes
  <2>1. manifest[p].kind = "file" /\ manifest[p].size <= MaxFileBytes
    BY <1>3 DEF FileMatches
  <2>2. manifest[p].size \in Nat
    BY <1>1, <2>1 DEF WalkInv, TypeOK, Entries, Unlisted
  <2>. QED  BY <2>1, <2>2, PathAssumption
<1>5. seen \in SUBSET Paths /\ Expected \in SUBSET Paths /\ seen \cup {p} \subseteq Expected
  BY <1>1, <1>2, SeenExpected DEF WalkInv, TypeOK
<1>6. Cardinality(BytesOf(seen \cup {p})) = bytes + manifest[p].size
  BY <1>1, <1>2, <1>4, <1>5, BytesAdd
<1>7. BytesOf(seen \cup {p}) \in SUBSET BytesOf(Expected)
  BY <1>5 DEF BytesOf
<1>8. Cardinality(BytesOf(seen \cup {p})) <= ListedBytes /\ ListedBytes \in Nat
  BY <1>5, <1>7, BytesFinite, FS_Subset DEF ListedBytes
<1>9. bytes \in Nat /\ manifest[p].size \in Nat /\ MaxReleaseBytes \in Nat
  BY <1>1, <1>4, PathAssumption DEF WalkInv, TypeOK
<1>. QED  BY <1>3, <1>6, <1>8, <1>9

LEMMA CauseKeeps == CauseInv /\ [Next]_vars => CauseInv'
<1>. SUFFICES ASSUME CauseInv, [Next]_vars PROVE CauseInv'
  OBVIOUS
<1>0. WalkInv /\ WalkInv' /\ bytes = Cardinality(BytesOf(seen)) /\ seen \in SUBSET Paths
  BY NextKeeps DEF CauseInv, WalkInv, TypeOK
<1>1. UNCHANGED release
  BY DEF Next, CheckManifest, EnterDirectory, AcceptFile, Refuse, Leave, Conclude, vars, release
<1>2. bytes' = Cardinality(BytesOf(seen'))
  <2>1. CASE UNCHANGED <<seen, bytes>>
    BY <1>0, <2>1
  <2>2. ASSUME NEW p \in Paths, EnterDirectory(p) \/ AcceptFile(p)
        PROVE  bytes' = Cardinality(BytesOf(seen'))
    <3>1. p \notin seen
      <4>1. stack \in Seq(SUBSET Paths) /\ stack # <<>> /\ p \in Head(stack)
        BY <1>0, <2>2 DEF WalkInv, TypeOK, EnterDirectory, AcceptFile, Walking
      <4>2. 1 \in DOMAIN stack /\ p \in stack[1]
        BY <4>1
      <4>. QED  BY <1>0, <4>2 DEF WalkInv, TypeOK
    <3>2. seen' = seen \cup {p}
      BY <2>2 DEF EnterDirectory, AcceptFile
    <3>3. CASE EnterDirectory(p)
      <4>1. manifest[p].kind # "file" /\ bytes' = bytes
        BY <3>3 DEF EnterDirectory, DirectoryMatches
      <4>. QED  BY <1>0, <3>1, <3>2, <4>1, BytesAdd
    <3>4. CASE AcceptFile(p)
      <4>1. /\ manifest[p].kind = "file" /\ bytes' = bytes + manifest[p].size
            /\ manifest[p].size <= MaxFileBytes
        BY <3>4 DEF AcceptFile, FileMatches
      <4>2. manifest[p].size \in Nat
        BY <1>0, <4>1 DEF WalkInv, TypeOK, Entries, Unlisted
      <4>. QED  BY <1>0, <3>1, <3>2, <4>1, <4>2, BytesAdd, PathAssumption
    <3>. QED  BY <2>2, <3>3, <3>4
  <2>. QED  BY <2>1, <2>2 DEF Next, CheckManifest, Refuse, Leave, Conclude, walk, vars
<1>3. ASSUME verdict' = "refused", ValidManifest, Exact
      PROVE  ListedBytes > MaxReleaseBytes
  <2>1. CASE verdict = "refused"
    BY <1>3, <2>1 DEF CauseInv, RefusedHasCause
  <2>2. ASSUME NEW p \in Paths, Refuse(p)
        PROVE  ListedBytes > MaxReleaseBytes
    BY <1>3, <2>2, RefuseHasCause
  <2>3. CASE Conclude
    BY <1>0, <1>3, <2>3, ExactSeen DEF Conclude
  <2>4. CASE CheckManifest
    BY <1>3, <2>4 DEF CheckManifest
  <2>. QED  BY <1>3, <2>1, <2>2, <2>3, <2>4
            DEF Next, EnterDirectory, AcceptFile, Leave, vars
<1>. QED  BY <1>0, <1>1, <1>2, <1>3, SameRelease DEF CauseInv, RefusedHasCause

\* verify-release refuses a tree that is as its manifest lists, and a manifest that is
\* valid, for the total size alone.
THEOREM ExactRefusedForSize == Spec => []RefusedHasCause
<1>1. CauseInv => RefusedHasCause
  BY DEF CauseInv
<1>. QED  BY <1>1, InitCause, CauseKeeps, PTL DEF Spec
=============================================================================
