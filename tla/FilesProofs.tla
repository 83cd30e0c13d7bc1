------------------------------ MODULE FilesProofs ------------------------------
(***************************************************************************)
(* What Files keeps for every number of drives, descriptors, processes and *)
(* addresses, whatever is on the volumes and whenever drives are unmounted *)
(* or lose their root.                                                     *)
(***************************************************************************)
EXTENDS Files, WellFoundedInduction, TLAPS

-----------------------------------------------------------------------------
(* The inductive invariant.                                                *)

Table == [Fd -> FileRecord \cup {NULL}]

TypeOK ==
  /\ mnt \in [Drive -> FileSystem \cup {NULL}]
  /\ fs \in [FileSystem -> SystemRecord \cup {NULL}]
  /\ node \in [Node -> NodeRecord \cup {NULL}]
  /\ procs \in Seq(Table) /\ procs # <<>>
  /\ dirs \in [Dd -> DirRecord \cup {NULL}]

\* Each drive has a file system of its own.
DrivesApart ==
  /\ \A d \in Drive : mnt[d] # NULL => fs[mnt[d]] # NULL
  /\ \A d, e \in Drive : mnt[d] # NULL /\ mnt[d] = mnt[e] => d = e

\* The root of a file system, unless it was freed, is as its mount operation made it.
RootsRight ==
  \A f \in FileSystem : fs[f] # NULL /\ fs[f].root # Dangling =>
    node[fs[f].root] = NewNode(f, fs[f].vol, Image[fs[f].vol].root)

\* Node n is allocated and, while its drive is mounted, stands for what was opened,
\* the pair of.
StandsFor(n, of) ==
  IsLive(n) /\ (node[n].fs # Dangling => <<VolumeOf(n), node[n].ino>> = of)

FileRight(x) ==
  /\ x.node # Dangling => StandsFor(x.node, x.of)
  /\ x.size = Image[x.of[1]].inode[x.of[2]].length
  /\ x.offset <= x.size

FilesRight ==
  \A k \in 1 .. Len(procs), fd \in Fd : procs[k][fd] # NULL => FileRight(procs[k][fd])

\* Two files share a node only if it is a root.
FilesApart ==
  \A k, l \in 1 .. Len(procs), fd, e \in Fd :
    /\ procs[k][fd] # NULL /\ procs[l][e] # NULL
    /\ procs[k][fd].node = procs[l][e].node /\ procs[k][fd].node # Dangling
    => (k = l /\ fd = e) \/ IsRoot(procs[k][fd].node)

DirRight(x) ==
  LET entries == Image[x.of[1]].inode[x.of[2]].entries
  IN /\ StandsFor(x.node, x.of)
     /\ ~IsRoot(x.node)
     /\ Image[x.of[1]].inode[x.of[2]] \in InodeRecord
     /\ x.index = Len(x.seen)
     /\ x.index <= Len(entries)
     /\ \A k \in 1 .. x.index : x.seen[k] = entries[k].name

DirsRight == \A dd \in Dd : dirs[dd] # NULL => DirRight(dirs[dd])

\* Directories share a node with nothing.
DirsApart ==
  /\ \A dd, e \in Dd : dirs[dd] # NULL /\ dirs[e] # NULL /\ dirs[dd].node = dirs[e].node => dd = e
  /\ \A dd \in Dd, k \in 1 .. Len(procs), fd \in Fd :
       dirs[dd] # NULL /\ procs[k][fd] # NULL => procs[k][fd].node # dirs[dd].node

IInv ==
  /\ TypeOK /\ DrivesApart /\ RootsRight
  /\ FilesRight /\ FilesApart /\ DirsRight /\ DirsApart

-----------------------------------------------------------------------------
(* The path walk.                                                          *)

\* Every set of natural numbers but the empty one has a least element.
LEMMA LeastNatural ==
  ASSUME NEW T \in SUBSET Nat, T # {}
  PROVE  \E m \in T : \A k \in T : m <= k
<1> DEFINE R == OpToRel(<, Nat)
<1>1. IsWellFoundedOn(R, Nat)
  BY NatLessThanWellFounded
<1>2. \A i, j \in Nat : <<i, j>> \in R <=> i < j
  BY DEF OpToRel
<1> HIDE DEF R
<1>3. PICK x \in T : \A y \in T : ~(<<y, x>> \in R)
  BY <1>1, WFMin
<1>4. ASSUME NEW k \in T PROVE x <= k
  <2>1. ~(k < x)
    BY <1>2, <1>3
  <2>2. QED
    BY <2>1
<1>5. QED
  BY <1>4

\* The walk as a function of how many parts of the path were followed.
IsWalk(w, v, names, n) ==
  w = [k \in 0 .. n |->
         IF k = 0 THEN Image[v].root
         ELSE IF w[k - 1] = NULL THEN NULL
         ELSE FindDir(v, w[k - 1], names[k])]

\* There is such a function, so that the recursive definition in FindPath means
\* what it says.
LEMMA WalkExists ==
  ASSUME NEW v, NEW names, NEW n \in Nat
  PROVE  \E w : IsWalk(w, v, names, n)
<1> DEFINE T == {m \in Nat : ~ \E w : IsWalk(w, v, names, m)}
<1>1. SUFFICES ASSUME T # {} PROVE FALSE
  OBVIOUS
<1>2. PICK m \in T : \A k \in T : m <= k
  <2>1. T \in SUBSET Nat
    OBVIOUS
  <2> HIDE DEF T
  <2>2. QED
    BY <1>1, <2>1, LeastNatural
<1>3. CASE m = 0
  <2> DEFINE w == [k \in 0 .. 0 |-> Image[v].root]
  <2>1. w = [k \in 0 .. 0 |->
               IF k = 0 THEN Image[v].root
               ELSE IF w[k - 1] = NULL THEN NULL
               ELSE FindDir(v, w[k - 1], names[k])]
    OBVIOUS
  <2>2. IsWalk(w, v, names, 0)
    BY <2>1 DEF IsWalk
  <2>3. QED
    BY <2>2, <1>3
<1>4. CASE m # 0
  <2>1. m - 1 \in Nat /\ m \in Nat
    BY <1>4
  <2>2. PICK w : IsWalk(w, v, names, m - 1)
    BY <2>1, <1>2
  <2> DEFINE u == [k \in 0 .. m |-> IF k = m
                     THEN IF w[m - 1] = NULL THEN NULL ELSE FindDir(v, w[m - 1], names[m])
                     ELSE w[k]]
  <2>3. \A k \in 0 .. m - 1 : u[k] = w[k]
    BY <2>1
  <2>4. ASSUME NEW k \in 0 .. m
        PROVE  u[k] = IF k = 0 THEN Image[v].root
                      ELSE IF u[k - 1] = NULL THEN NULL
                      ELSE FindDir(v, u[k - 1], names[k])
    <3>1. CASE k = m
      BY <3>1, <2>1, <2>3, <1>4
    <3>2. CASE k # m
      <4>1. k \in 0 .. m - 1 /\ (k # 0 => k - 1 \in 0 .. m - 1)
        BY <3>2, <2>1
      <4>2. w[k] = IF k = 0 THEN Image[v].root
                   ELSE IF w[k - 1] = NULL THEN NULL
                   ELSE FindDir(v, w[k - 1], names[k])
        BY <2>2, <4>1 DEF IsWalk
      <4> HIDE DEF u
      <4>3. QED
        BY <4>1, <4>2, <2>3
    <3>3. QED
      BY <3>1, <3>2
  <2>5. IsWalk(u, v, names, m)
    <3>1. u = [k \in 0 .. m |-> u[k]]
      OBVIOUS
    <3> HIDE DEF u
    <3>2. QED
      BY <3>1, <2>4 DEF IsWalk
  <2>6. QED
    BY <2>5
<1>5. QED
  BY <1>3, <1>4

\* What vfs_findpath finds is an inode of the volume: the root for a path without
\* parts, otherwise one that some directory has an entry for.
LEMMA FindPathFacts ==
  ASSUME NEW v \in Volume, NEW names \in Seq(STRING)
  PROVE  LET i == FindPath(v, names)
         IN /\ names = <<>> => i = Image[v].root
            /\ i # NULL => i \in DOMAIN Image[v].inode
            /\ names # <<>> /\ i # NULL /\ Image[v].kind = "initfs" =>
                 Image[v].inode[i].type = "file"
<1> DEFINE walk == CHOOSE w : IsWalk(w, v, names, Len(names))
           n == Len(names)
           W(k) == IF k = 0 THEN Image[v].root
                   ELSE IF walk[k - 1] = NULL THEN NULL
                   ELSE FindDir(v, walk[k - 1], names[k])
<1>1. n \in Nat
  OBVIOUS
<1>2. FindPath(v, names) = walk[n]
  BY DEF FindPath, IsWalk
<1>3. IsWalk(walk, v, names, n)
  BY <1>1, WalkExists
<1>4. \A k \in 0 .. n : walk[k] = W(k)
  BY <1>3 DEF IsWalk
<1> HIDE DEF walk
<1>5. names = <<>> <=> n = 0
  OBVIOUS
<1>6. ASSUME NEW k \in 1 .. n, walk[k] # NULL
      PROVE  /\ walk[k - 1] # NULL
             /\ walk[k] = FirstEntry(v, walk[k - 1], names[k])
             /\ walk[k] \in DOMAIN Image[v].inode
  <2>1. walk[k] = W(k)
    BY <1>4
  <2>2. QED
    BY <2>1, <1>6 DEF FindDir
<1>7. Image[v].root \in DOMAIN Image[v].inode
  BY ImageAssumption
<1>8. walk[0] = Image[v].root
  BY <1>1, <1>4
<1>9. ASSUME NEW k \in 0 .. n, walk[k] # NULL
      PROVE  walk[k] \in DOMAIN Image[v].inode
  BY <1>6, <1>7, <1>8, <1>9
<1>10. ASSUME n # 0, walk[n] # NULL, Image[v].kind = "initfs"
       PROVE  Image[v].inode[walk[n]].type = "file"
  <2> DEFINE j == walk[n - 1]
             entries == Image[v].inode[j].entries
             hits == {k \in DOMAIN entries : entries[k].name = names[n]}
  <2>1. n \in 1 .. n /\ n - 1 \in 0 .. n
    BY <1>1, <1>10
  <2>2. j # NULL /\ walk[n] = FirstEntry(v, j, names[n]) /\ walk[n] \in DOMAIN Image[v].inode
    BY <2>1, <1>6, <1>10
  <2>3. j \in DOMAIN Image[v].inode
    BY <2>1, <2>2, <1>9
  <2>4. PICK m \in hits : walk[n] = entries[m].ino
    <3>1. hits # {} /\ walk[n] = entries[CHOOSE k \in hits : \A l \in hits : k <= l].ino
      BY <2>2, <1>10 DEF FirstEntry
    <3>2. Image[v].inode[j] \in InodeRecord
      BY <2>3, ImageAssumption
    <3>3. entries \in Seq([name : STRING, ino : Nat])
      BY <3>2 DEF InodeRecord
    <3> HIDE DEF entries
    <3>4. hits \in SUBSET Nat
      BY <3>3
    <3>5. \E k \in hits : \A l \in hits : k <= l
      BY <3>1, <3>4, LeastNatural
    <3>6. QED
      BY <3>1, <3>5
  <2>5. \A k \in DOMAIN entries :
          entries[k].ino \in DOMAIN Image[v].inode => Image[v].inode[entries[k].ino].type = "file"
    BY <2>3, <1>10, ImageAssumption
  <2> HIDE DEF entries
  <2>6. QED
    BY <2>2, <2>4, <2>5
<1>11. QED
  BY <1>1, <1>2, <1>5, <1>8, <1>9, <1>10

\* What a path finds on a mounted drive.
LEMMA FoundFacts ==
  ASSUME IInv, NEW path \in Paths, Found(path) # NULL
  PROVE  LET f == Mounted(path.letter)
             v == fs[f].vol
             i == Found(path)
         IN /\ f \in FileSystem /\ fs[f] \in SystemRecord /\ fs[f] # NULL
            /\ v \in Volume /\ fs[f].root \in Node /\ fs[f].root # Dangling
            /\ i \in Nat /\ Image[v].inode[i] \in InodeRecord
            /\ IsRootPath(path) => i = Image[v].root /\ Image[v].inode[i].type = "dir"
            /\ ~IsRootPath(path) /\ InitfsProbe(v) => Image[v].inode[i].type = "file"
<1> DEFINE f == Mounted(path.letter)
           v == fs[f].vol
           i == Found(path)
<1>1. f # NULL /\ fs[f].root # Dangling /\ i = FindPath(v, path.names)
  BY DEF Found, Rootless
<1>2. PICK d \in Drive : f = mnt[d]
  BY <1>1 DEF Mounted
<1>3. f \in FileSystem /\ fs[f] # NULL
  BY <1>1, <1>2 DEF IInv, TypeOK, DrivesApart
<1>4. fs[f] \in SystemRecord
  BY <1>3 DEF IInv, TypeOK
<1>5. v \in Volume /\ fs[f].root \in Node /\ fs[f].root # Dangling
  BY <1>1, <1>4 DEF SystemRecord
<1>6. path.names \in Seq(STRING)
  BY FilesAssumption
<1> HIDE DEF f, v, i
<1>7. /\ path.names = <<>> => i = Image[v].root
      /\ i \in DOMAIN Image[v].inode
      /\ path.names # <<>> /\ Image[v].kind = "initfs" => Image[v].inode[i].type = "file"
  <2>1. i # NULL
    BY DEF i
  <2>2. QED
    BY <2>1, <1>1, <1>5, <1>6, FindPathFacts
<1>8. i \in Nat /\ Image[v].inode[i] \in InodeRecord /\ Image[v].inode[Image[v].root].type = "dir"
  BY <1>5, <1>7, ImageAssumption
<1>9. QED
  BY <1>3, <1>4, <1>5, <1>7, <1>8 DEF f, v, i, IsRootPath, InitfsProbe

\* A structure made for an inode.
LEMMA NewNodeType ==
  ASSUME NEW f \in FileSystem, NEW v \in Volume, NEW i \in Nat, Image[v].inode[i] \in InodeRecord
  PROVE  LET n == NewNode(f, v, i)
         IN /\ n \in NodeRecord /\ Loaded(n) \in NodeRecord
            /\ n # NULL /\ Loaded(n) # NULL
            /\ n.fs = f /\ n.ino = i /\ n.type = Image[v].inode[i].type
            /\ Loaded(n).fs = f /\ Loaded(n).ino = i
<1> DEFINE n == NewNode(f, v, i)
<1>1. Image[v].inode[i].type \in STRING
  BY DEF InodeRecord
<1>2. /\ n = [fs |-> f, ino |-> i, type |-> Image[v].inode[i].type,
              data |-> IF InitfsProbe(v) THEN "garbage" ELSE "null"]
  BY DEF NewNode, InitfsNode, BuildNode
<1>3. Loaded(n) = IF n.type = "dir" THEN n
                  ELSE [fs |-> f, ino |-> i, type |-> Image[v].inode[i].type, data |-> "loaded"]
  BY <1>2 DEF Loaded
<1>4. n \in NodeRecord /\ Loaded(n) \in NodeRecord
  BY <1>1, <1>2, <1>3 DEF NodeRecord
<1>5. n # NULL /\ Loaded(n) # NULL
  BY <1>4, NullAssumption
<1>6. QED
  BY <1>2, <1>3, <1>4, <1>5

\* The fields of structures.
LEMMA Fields ==
  ASSUME TypeOK
  PROVE  /\ \A f \in FileSystem : fs[f] # NULL =>
              fs[f] \in SystemRecord /\ fs[f].vol \in Volume /\ fs[f].root \in Node \cup {Dangling}
         /\ \A n \in Node : node[n] # NULL =>
              /\ node[n] \in NodeRecord
              /\ node[n].fs \in FileSystem \cup {Dangling} /\ node[n].ino \in Nat
         /\ \A k \in 1 .. Len(procs) : procs[k] \in Table
         /\ \A k \in 1 .. Len(procs), fd \in Fd : procs[k][fd] # NULL =>
              procs[k][fd] \in FileRecord /\ procs[k][fd].node \in Node \cup {Dangling}
         /\ \A dd \in Dd : dirs[dd] # NULL => dirs[dd] \in DirRecord /\ dirs[dd].node \in Node
         /\ Len(procs) \in Nat /\ Top \in 1 .. Len(procs)
         /\ DOMAIN procs = 1 .. Len(procs)
<1>1. \A f \in FileSystem : fs[f] # NULL =>
        fs[f] \in SystemRecord /\ fs[f].vol \in Volume /\ fs[f].root \in Node \cup {Dangling}
  BY DEF TypeOK, SystemRecord
<1>2. \A n \in Node : node[n] # NULL =>
        /\ node[n] \in NodeRecord
        /\ node[n].fs \in FileSystem \cup {Dangling} /\ node[n].ino \in Nat
  BY DEF TypeOK, NodeRecord
<1>3. \A k \in 1 .. Len(procs) : procs[k] \in Table
  BY DEF TypeOK
<1>4. ASSUME NEW k \in 1 .. Len(procs), NEW fd \in Fd, procs[k][fd] # NULL
      PROVE  procs[k][fd] \in FileRecord /\ procs[k][fd].node \in Node \cup {Dangling}
  <2>1. procs[k][fd] \in FileRecord
    BY <1>3, <1>4 DEF Table
  <2>2. QED
    BY <2>1 DEF FileRecord
<1>5. \A dd \in Dd : dirs[dd] # NULL => dirs[dd] \in DirRecord /\ dirs[dd].node \in Node
  BY DEF TypeOK, DirRecord
<1>6. Len(procs) \in Nat /\ Top \in 1 .. Len(procs) /\ DOMAIN procs = 1 .. Len(procs)
  BY DEF TypeOK, Top
<1>7. QED
  BY <1>1, <1>2, <1>3, <1>4, <1>5, <1>6

-----------------------------------------------------------------------------
(* What steps keep.                                                        *)

\* A file or directory whose node and file system a step leaves alone.
LEMMA FileRightKept ==
  ASSUME NEW x, FileRight(x),
         x.node # Dangling =>
           /\ node'[x.node] = node[x.node]
           /\ node[x.node].fs # Dangling => fs'[node[x.node].fs] = fs[node[x.node].fs]
  PROVE  FileRight(x)'
BY DEF FileRight, StandsFor, IsLive, VolumeOf

\* A directory descriptor stays right when its node and its file system are left alone.
LEMMA DirRightKept ==
  ASSUME NEW x, DirRight(x), node'[x.node] = node[x.node],
         node[x.node].fs # Dangling => fs'[node[x.node].fs] = fs[node[x.node].fs],
         ~IsRoot(x.node)'
  PROVE  DirRight(x)'
BY DEF DirRight, StandsFor, IsLive, VolumeOf

\* A descriptor of the running process is replaced.
LEMMA SetFile ==
  ASSUME TypeOK, NEW fd \in Fd, NEW x \in FileRecord \cup {NULL},
         procs' = [procs EXCEPT ![Top][fd] = x]
  PROVE  /\ procs' \in Seq(Table) /\ procs' # <<>> /\ Len(procs') = Len(procs)
         /\ \A k \in 1 .. Len(procs), e \in Fd :
              procs'[k][e] = IF k = Top /\ e = fd THEN x ELSE procs[k][e]
<1>1. Top \in 1 .. Len(procs) /\ Len(procs) \in Nat /\ DOMAIN procs = 1 .. Len(procs)
  BY Fields
<1>2. \A k \in 1 .. Len(procs) : procs[k] \in Table
  BY Fields
<1>3. [procs[Top] EXCEPT ![fd] = x] \in Table
  BY <1>1, <1>2 DEF Table
<1>4. procs' = [procs EXCEPT ![Top] = [procs[Top] EXCEPT ![fd] = x]]
  BY <1>1
<1>5. procs' \in Seq(Table) /\ Len(procs') = Len(procs)
  BY <1>1, <1>3, <1>4 DEF TypeOK
<1>6. procs' # <<>>
  BY <1>1, <1>5
<1>7. \A k \in 1 .. Len(procs), e \in Fd :
        procs'[k][e] = IF k = Top /\ e = fd THEN x ELSE procs[k][e]
  BY <1>1, <1>2, <1>4 DEF Table
<1>8. QED
  BY <1>5, <1>6, <1>7

\* The root of a file system is allocated and its own.
LEMMA RootFacts ==
  ASSUME IInv, NEW f \in FileSystem, fs[f] # NULL, fs[f].root # Dangling
  PROVE  LET r == node[fs[f].root]
         IN /\ fs[f].root \in Node /\ fs[f].vol \in Volume
            /\ r # NULL /\ r.fs = f /\ r.ino = Image[fs[f].vol].root
<1>1. fs[f].vol \in Volume /\ fs[f].root \in Node
  BY Fields DEF IInv
<1> DEFINE v == fs[f].vol
           i == Image[v].root
<1>2. i \in Nat /\ Image[v].inode[i] \in InodeRecord
  BY <1>1, ImageAssumption
<1>3. node[fs[f].root] = NewNode(f, v, i)
  BY DEF IInv, RootsRight
<1> HIDE DEF v, i
<1>4. /\ NewNode(f, v, i) # NULL /\ NewNode(f, v, i).fs = f /\ NewNode(f, v, i).ino = i
  BY <1>1, <1>2, NewNodeType DEF v
<1>5. QED
  BY <1>1, <1>3, <1>4 DEF v, i

\* A node in use is allocated, and its file system too if it is still mounted.
InUse(n) ==
  /\ n \in Node /\ n \in UsedNodes /\ node[n] # NULL
  /\ node[n].fs # Dangling => node[n].fs \in FileSystem /\ fs[node[n].fs] # NULL

\* So are the nodes that descriptors point at.
LEMMA UsedFacts ==
  ASSUME IInv
  PROVE  /\ \A k \in 1 .. Len(procs), fd \in Fd :
              procs[k][fd] # NULL /\ procs[k][fd].node # Dangling => InUse(procs[k][fd].node)
         /\ \A dd \in Dd : dirs[dd] # NULL => InUse(dirs[dd].node)
<1>1. ASSUME NEW k \in 1 .. Len(procs), NEW fd \in Fd, procs[k][fd] # NULL,
             procs[k][fd].node # Dangling
      PROVE  InUse(procs[k][fd].node)
  <2> DEFINE n == procs[k][fd].node
  <2>1. n \in Node
    BY <1>1, Fields DEF IInv
  <2>2. IsLive(n)
    BY <1>1 DEF IInv, FilesRight, FileRight, StandsFor
  <2>3. node[n].fs \in FileSystem \cup {Dangling}
    BY <2>1, <2>2, Fields DEF IInv, IsLive
  <2>4. <<k, fd>> \in OpenFiles
    BY <1>1, Fields DEF IInv, OpenFiles
  <2>5. n \in UsedNodes
    BY <1>1, <2>4 DEF UsedNodes
  <2>6. QED
    BY <2>1, <2>2, <2>3, <2>5 DEF InUse, IsLive
<1>2. ASSUME NEW dd \in Dd, dirs[dd] # NULL
      PROVE  InUse(dirs[dd].node)
  <2> DEFINE n == dirs[dd].node
  <2>1. n \in Node
    BY <1>2, Fields DEF IInv
  <2>2. IsLive(n)
    BY <1>2 DEF IInv, DirsRight, DirRight, StandsFor
  <2>3. node[n].fs \in FileSystem \cup {Dangling}
    BY <2>1, <2>2, Fields DEF IInv, IsLive
  <2>4. n \in UsedNodes
    BY <1>2, <2>1, FilesAssumption DEF UsedNodes, OpenDirs
  <2>5. QED
    BY <2>1, <2>2, <2>3, <2>4 DEF InUse, IsLive
<1>3. QED
  BY <1>1, <1>2

-----------------------------------------------------------------------------
(* Mounting.                                                               *)

\* Mounting keeps the invariant: the new root is a node of its own.
LEMMA MountStep ==
  ASSUME IInv, NEW letter, NEW v \in Volume, Mount(letter, v)
  PROVE  IInv'
<1> DEFINE d == DriveIndex(letter)
           root == Image[v].root
<1>1. d \in Drive /\ mnt[d] = NULL /\ UNCHANGED <<procs, dirs>>
  BY DEF Mount, Mounted
<1>2. PICK f \in FreeSystems, n \in FreeNodes :
        /\ mnt' = [mnt EXCEPT ![d] = f]
        /\ \/ InitfsProbe(v) /\ InitfsMount(f, v, n)
           \/ Ext2Probe(v) /\ Ext2Mount(f, v, n)
  BY DEF Mount, VolumeMount
<1>3. f \in FileSystem /\ fs[f] = NULL /\ n \in Node /\ node[n] = NULL
  BY DEF FreeSystems, FreeNodes
<1>4. fs' = [fs EXCEPT ![f] = [vol |-> v, root |-> n]]
  BY <1>2 DEF InitfsMount, Ext2Mount, NewSystem
<1>5. node' = [node EXCEPT ![n] = NewNode(f, v, root)]
  BY <1>2 DEF InitfsMount, Ext2Mount, NewNode, InitfsProbe, Ext2Probe
<1> HIDE DEF d
<1>6. root \in Nat /\ Image[v].inode[root] \in InodeRecord
  BY ImageAssumption
<1> HIDE DEF root
<1>7. /\ NewNode(f, v, root) \in NodeRecord /\ NewNode(f, v, root) # NULL
  BY <1>3, <1>6, NewNodeType
<1>8. [vol |-> v, root |-> n] \in SystemRecord /\ [vol |-> v, root |-> n] # NULL
  BY <1>3, NullAssumption DEF SystemRecord
<1>9. TypeOK'
  BY <1>1, <1>2, <1>3, <1>4, <1>5, <1>7, <1>8 DEF IInv, TypeOK
<1>10. /\ \A g \in FileSystem \ {f} : fs'[g] = fs[g]
       /\ \A m \in Node \ {n} : node'[m] = node[m]
       /\ fs'[f] = [vol |-> v, root |-> n] /\ node'[n] = NewNode(f, v, root)
  BY <1>3, <1>4, <1>5 DEF IInv, TypeOK
<1>11. DrivesApart'
  <2>1. \A e \in Drive \ {d} : mnt'[e] = mnt[e] /\ (mnt[e] # NULL => mnt[e] # f)
    BY <1>1, <1>2, <1>3 DEF IInv, TypeOK, DrivesApart
  <2>2. mnt'[d] = f
    BY <1>1, <1>2 DEF IInv, TypeOK
  <2>3. \A e \in Drive : mnt'[e] # NULL => mnt'[e] \in FileSystem
    BY <1>9 DEF TypeOK
  <2>4. QED
    BY <2>1, <2>2, <2>3, <1>1, <1>3, <1>8, <1>10 DEF IInv, DrivesApart
<1>12. \A g \in FileSystem : g # f /\ fs[g] # NULL /\ fs[g].root # Dangling =>
         fs[g].root # n /\ fs[g].root \in Node
  BY <1>3, RootFacts
<1>13. RootsRight'
  <2>1. ASSUME NEW g \in FileSystem, fs'[g] # NULL, fs'[g].root # Dangling
        PROVE  node'[fs'[g].root] = NewNode(g, fs'[g].vol, Image[fs'[g].vol].root)
    <3>1. CASE g = f
      BY <3>1, <1>10 DEF root
    <3>2. CASE g # f
      BY <3>2, <2>1, <1>10, <1>12 DEF IInv, RootsRight
    <3>3. QED
      BY <3>1, <3>2
  <2>2. QED
    BY <2>1 DEF RootsRight, NewNode, InitfsNode, BuildNode, InitfsProbe
<1>14. \A m \in Node : m # n => (IsRoot(m)' <=> IsRoot(m))
  BY <1>3, <1>8, <1>10 DEF IsRoot
<1>15. FilesRight'
  <2>1. ASSUME NEW k \in 1 .. Len(procs), NEW fd \in Fd, NEW x, x = procs[k][fd], x # NULL
        PROVE  FileRight(x)'
    <3>1. FileRight(x)
      BY <2>1 DEF IInv, FilesRight
    <3>2. x.node # Dangling => InUse(x.node)
      BY <2>1, UsedFacts
    <3>3. QED
      BY <3>1, <3>2, <1>3, <1>10, FileRightKept DEF InUse
  <2>2. QED
    BY <2>1, <1>1 DEF FilesRight
<1>16. FilesApart'
  BY <1>1, <1>3, <1>14, UsedFacts DEF IInv, FilesApart, InUse
<1>17. DirsRight'
  <2>1. ASSUME NEW dd \in Dd, dirs[dd] # NULL
        PROVE  DirRight(dirs[dd])'
    <3>1. DirRight(dirs[dd]) /\ ~IsRoot(dirs[dd].node)
      BY <2>1 DEF IInv, DirsRight, DirRight
    <3>2. dirs[dd].node \in Node /\ dirs[dd].node # n
      BY <2>1, <1>3, UsedFacts DEF InUse
    <3>3. /\ node'[dirs[dd].node] = node[dirs[dd].node]
          /\ node[dirs[dd].node].fs # Dangling =>
               /\ fs'[node[dirs[dd].node].fs] = fs[node[dirs[dd].node].fs]
               /\ fs[node[dirs[dd].node].fs] # NULL
      BY <2>1, <1>3, <1>10, UsedFacts DEF InUse
    <3>4. DirRight(dirs[dd]) => (~IsRoot(dirs[dd].node))'
      BY <3>1, <3>2, <1>1, <1>14
    <3>5. QED
      BY <3>1, <3>3, <3>4, <1>1, DirRightKept
  <2>2. QED
    BY <2>1, <1>1 DEF DirsRight
<1>18. DirsApart'
  BY <1>1 DEF IInv, DirsApart
<1>19. QED
  BY <1>9, <1>11, <1>13, <1>15, <1>16, <1>17, <1>18 DEF IInv

\* The root r of file system f is freed, and with it perhaps f.  Files that shared r
\* lose their node.  The other nodes keep theirs, but learn that f is gone if it is.
LosesRoot(f, r) ==
  /\ node'[r] = NULL
  /\ fs'[f] # NULL => fs'[f].root = Dangling /\ fs'[f].vol = fs[f].vol
  /\ \A g \in FileSystem \ {f} : fs'[g] = fs[g]
  /\ \A m \in Node \ {r} :
       \/ node'[m] = node[m] /\ (fs'[f] = NULL => node[m] = NULL \/ node[m].fs # f)
       \/ node[m] # NULL /\ node[m].fs = f /\ node'[m] = [node[m] EXCEPT !.fs = Dangling]
  /\ procs' = Bereft(r) /\ dirs' = dirs

\* The tables of open files after that.
LEMMA BereftFacts ==
  ASSUME IInv, NEW r \in Node, procs' = Bereft(r)
  PROVE  /\ procs' \in Seq(Table) /\ procs' # <<>> /\ Len(procs') = Len(procs)
         /\ \A k \in 1 .. Len(procs), fd \in Fd :
              /\ procs'[k][fd] # NULL <=> procs[k][fd] # NULL
              /\ procs[k][fd] # NULL =>
                   /\ procs[k][fd].node # r => procs'[k][fd] = procs[k][fd]
                   /\ procs[k][fd].node = r => procs'[k][fd] = [procs[k][fd] EXCEPT !.node = Dangling]
<1> DEFINE new(x) == IF x # NULL /\ x.node = r THEN [x EXCEPT !.node = Dangling] ELSE x
           n == Len(procs)
<1>1. n \in Nat /\ n # 0 /\ DOMAIN procs = 1 .. n
  BY Fields DEF IInv, TypeOK
<1>2. procs' = [k \in 1 .. n |-> [fd \in Fd |-> new(procs[k][fd])]]
  BY <1>1 DEF Bereft
<1>3. ASSUME NEW x \in FileRecord PROVE [x EXCEPT !.node = Dangling] \in FileRecord
  BY DEF FileRecord
<1>4. ASSUME NEW k \in 1 .. n, NEW fd \in Fd
      PROVE  new(procs[k][fd]) \in FileRecord \cup {NULL}
  <2>1. procs[k][fd] # NULL => procs[k][fd] \in FileRecord
    BY Fields DEF IInv
  <2>2. QED
    BY <1>3, <2>1
<1>5. \A k \in 1 .. n, fd \in Fd : new(procs[k][fd]) # NULL <=> procs[k][fd] # NULL
  <2>1. \A k \in 1 .. n, fd \in Fd : procs[k][fd] # NULL =>
          [procs[k][fd] EXCEPT !.node = Dangling] # NULL
    BY <1>3, Fields, NullAssumption DEF IInv
  <2>2. QED
    BY <2>1
<1> HIDE DEF new, n
<1>6. \A k \in 1 .. n : [fd \in Fd |-> new(procs[k][fd])] \in Table
  BY <1>4 DEF Table
<1>7. procs' \in [1 .. n -> Table] /\ \A k \in 1 .. n, fd \in Fd : procs'[k][fd] = new(procs[k][fd])
  BY <1>2, <1>6
<1>8. procs' \in Seq(Table) /\ Len(procs') = n /\ procs' # <<>>
  BY <1>1, <1>7
<1>9. QED
  BY <1>5, <1>7, <1>8 DEF new, n

\* The invariant survives the loss of a root: of the node that is freed nobody keeps
\* a pointer, and nobody one to a file system that is gone.
LEMMA RootLost ==
  ASSUME IInv, NEW f \in FileSystem, fs[f] # NULL, fs[f].root # Dangling,
         LosesRoot(f, fs[f].root), TypeOK', DrivesApart'
  PROVE  IInv'
<1> DEFINE r == fs[f].root
<1>1. r \in Node /\ node[r] # NULL /\ node[r].fs = f
  BY RootFacts
<1>2. \A g \in FileSystem : g # f /\ fs[g] # NULL => fs[g].root # r
  BY <1>1, RootFacts, FilesAssumption
<1>3. IsRoot(r)
  BY DEF IsRoot
<1>4. /\ Len(procs') = Len(procs)
      /\ \A k \in 1 .. Len(procs), fd \in Fd :
           /\ procs'[k][fd] # NULL <=> procs[k][fd] # NULL
           /\ procs[k][fd] # NULL =>
                /\ procs[k][fd].node # r => procs'[k][fd] = procs[k][fd]
                /\ procs[k][fd].node = r => procs'[k][fd] = [procs[k][fd] EXCEPT !.node = Dangling]
  BY <1>1, BereftFacts DEF LosesRoot
<1>5. ASSUME NEW k \in 1 .. Len(procs), NEW fd \in Fd, procs[k][fd] # NULL, procs[k][fd].node = r
      PROVE  /\ procs'[k][fd].node = Dangling /\ procs'[k][fd].of = procs[k][fd].of
             /\ procs'[k][fd].size = procs[k][fd].size /\ procs'[k][fd].offset = procs[k][fd].offset
  <2>1. procs[k][fd] \in FileRecord /\ procs'[k][fd] = [procs[k][fd] EXCEPT !.node = Dangling]
    BY <1>4, <1>5, Fields DEF IInv
  <2>2. QED
    BY <2>1 DEF FileRecord
<1> HIDE DEF r
<1>6. /\ node'[r] = NULL
      /\ fs'[f] # NULL => fs'[f].root = Dangling /\ fs'[f].vol = fs[f].vol
      /\ \A g \in FileSystem \ {f} : fs'[g] = fs[g]
      /\ dirs' = dirs
  BY DEF LosesRoot, r
<1>7. ASSUME NEW m \in Node, m # r, node[m] # NULL
      PROVE  /\ node'[m] # NULL
             /\ node'[m].fs # Dangling =>
                  node'[m] = node[m] /\ (node[m].fs = f => fs'[f] # NULL)
  <2>1. CASE node'[m] = node[m] /\ (fs'[f] = NULL => node[m] = NULL \/ node[m].fs # f)
    BY <2>1, <1>7
  <2>2. CASE node'[m] = [node[m] EXCEPT !.fs = Dangling]
    <3>1. node[m] \in NodeRecord
      BY <1>7, Fields DEF IInv
    <3>2. node'[m] \in NodeRecord /\ node'[m].fs = Dangling
      BY <2>2, <3>1 DEF NodeRecord
    <3>3. QED
      BY <3>2, NullAssumption
  <2>3. QED
    BY <1>7, <2>1, <2>2 DEF LosesRoot, r
<1>8. ASSUME NEW m \in Node, m # r, NEW of, StandsFor(m, of)
      PROVE  StandsFor(m, of)'
  <2>1. IsLive(m) /\ (node[m].fs # Dangling => <<VolumeOf(m), node[m].ino>> = of) /\ node[m] # NULL
    BY <1>8 DEF StandsFor, IsLive
  <2>2. node[m].fs \in FileSystem \cup {Dangling}
    BY <1>8, <2>1, Fields DEF IInv
  <2>3. ASSUME node'[m].fs # Dangling
        PROVE  /\ node'[m] = node[m] /\ node[m].fs \in FileSystem /\ node[m].fs # Dangling
               /\ fs'[node[m].fs] # NULL /\ fs'[node[m].fs].vol = fs[node[m].fs].vol
    <3>1. node'[m] = node[m] /\ (node[m].fs = f => fs'[f] # NULL)
      BY <1>7, <1>8, <2>1, <2>3
    <3>2. CASE node[m].fs = f
      BY <2>2, <2>3, <3>1, <3>2, <1>6
    <3>3. CASE node[m].fs # f
      BY <2>1, <2>2, <2>3, <3>1, <3>3, <1>6 DEF IsLive
    <3>4. QED
      BY <3>2, <3>3
  <2>4. IsLive(m)'
    BY <1>7, <1>8, <2>1, <2>3 DEF IsLive
  <2>5. (node[m].fs # Dangling => <<VolumeOf(m), node[m].ino>> = of)'
    BY <2>1, <2>3 DEF VolumeOf
  <2>6. QED
    BY <2>4, <2>5 DEF StandsFor
<1>9. \A m \in Node : m # r => (IsRoot(m)' <=> IsRoot(m))
  <2>1. ASSUME NEW m \in Node, m # r, NEW g \in FileSystem
        PROVE  fs'[g] # NULL /\ fs'[g].root = m <=> fs[g] # NULL /\ fs[g].root = m
    <3>1. m # Dangling
      BY FilesAssumption
    <3>2. QED
      BY <2>1, <3>1, <1>6 DEF r
  <2>2. QED
    BY <2>1 DEF IsRoot
<1>10. RootsRight'
  <2>1. ASSUME NEW g \in FileSystem, fs'[g] # NULL, fs'[g].root # Dangling
        PROVE  node'[fs'[g].root] = NewNode(g, fs'[g].vol, Image[fs'[g].vol].root)
    <3>1. g # f /\ fs'[g] = fs[g]
      BY <2>1, <1>6
    <3>2. fs[g].root \in Node /\ fs[g].root # r /\ node[fs[g].root] # NULL /\ node[fs[g].root].fs = g
      BY <2>1, <3>1, <1>2, RootFacts
    <3>3. node'[fs[g].root] = node[fs[g].root]
      BY <3>1, <3>2 DEF LosesRoot, r
    <3>4. QED
      BY <2>1, <3>1, <3>3 DEF IInv, RootsRight
  <2>2. QED
    BY <2>1 DEF RootsRight, NewNode, InitfsNode, BuildNode, InitfsProbe
<1>11. ASSUME NEW k \in 1 .. Len(procs), NEW fd \in Fd, NEW y, y = procs'[k][fd], y # NULL
       PROVE  FileRight(y)'
  <2>1. PICK x : x = procs[k][fd]
    OBVIOUS
  <2>2. x # NULL /\ FileRight(x) /\ (x.node # Dangling => x.node \in Node)
    BY <2>1, <1>4, <1>11, Fields DEF IInv, FilesRight
  <2>3. x.size = Image[x.of[1]].inode[x.of[2]].length /\ x.offset <= x.size
    BY <2>2 DEF FileRight
  <2>4. CASE x.node = r
    <3>1. y.node = Dangling /\ y.of = x.of /\ y.size = x.size /\ y.offset = x.offset
      BY <2>1, <2>2, <2>4, <1>5, <1>11
    <3>2. QED
      BY <3>1, <2>3 DEF FileRight
  <2>5. CASE x.node # r
    <3>1. y = x
      BY <2>1, <2>2, <2>5, <1>4, <1>11
    <3>2. x.node # Dangling => StandsFor(x.node, x.of)'
      <4>1. PICK m : m = x.node
        OBVIOUS
      <4>2. PICK of : of = x.of
        OBVIOUS
      <4>3. m # Dangling => StandsFor(m, of)'
        BY <4>1, <4>2, <2>2, <2>5, <1>8 DEF FileRight
      <4>4. QED
        BY <4>1, <4>2, <4>3
    <3>3. QED
      BY <3>1, <3>2, <2>3 DEF FileRight
  <2>6. QED
    BY <2>4, <2>5
<1>12. FilesRight'
  BY <1>4, <1>11 DEF FilesRight
<1>13. FilesApart'
  <2>1. ASSUME NEW k \in 1 .. Len(procs), NEW l \in 1 .. Len(procs), NEW fd \in Fd, NEW e \in Fd,
               procs'[k][fd] # NULL, procs'[l][e] # NULL,
               procs'[k][fd].node = procs'[l][e].node, procs'[k][fd].node # Dangling,
               ~(k = l /\ fd = e), NEW m, m = procs'[k][fd].node
        PROVE  IsRoot(m)'
    <3>1. procs[k][fd] # NULL /\ procs[l][e] # NULL
      BY <2>1, <1>4
    <3>2. procs[k][fd].node # r /\ procs[l][e].node # r
      BY <2>1, <3>1, <1>5
    <3>3. procs'[k][fd] = procs[k][fd] /\ procs'[l][e] = procs[l][e]
      BY <3>1, <3>2, <1>4
    <3>4. IsRoot(m)
      BY <2>1, <3>1, <3>3 DEF IInv, FilesApart
    <3>5. \E g \in FileSystem : fs[g] # NULL /\ fs[g].root = m
      BY <3>4 DEF IsRoot
    <3>6. \E g \in FileSystem : fs'[g] # NULL /\ fs'[g].root = m
      BY <2>1, <3>2, <3>3, <3>5, <1>6 DEF r
    <3>7. QED
      BY <3>6 DEF IsRoot
  <2>2. QED
    BY <2>1, <1>4 DEF FilesApart
<1>14. ASSUME NEW dd \in Dd, NEW x, x = dirs[dd], x # NULL
       PROVE  DirRight(x)' /\ x.node # r
  <2>1. DirRight(x) /\ x.node \in Node /\ ~IsRoot(x.node)
    BY <1>14, Fields DEF IInv, DirsRight, DirRight
  <2>2. x.node # r
    BY <2>1, <1>3
  <2>3. StandsFor(x.node, x.of)' /\ ~IsRoot(x.node)'
    BY <2>1, <2>2, <1>8, <1>9 DEF DirRight
  <2>4. QED
    BY <2>1, <2>2, <2>3 DEF DirRight
<1>15. DirsRight'
  BY <1>6, <1>14 DEF DirsRight
<1>16. DirsApart'
  <2>1. ASSUME NEW dd \in Dd, NEW k \in 1 .. Len(procs), NEW fd \in Fd,
               dirs[dd] # NULL, procs'[k][fd] # NULL
        PROVE  procs'[k][fd].node # dirs[dd].node
    <3>1. procs[k][fd] # NULL /\ procs[k][fd].node # dirs[dd].node
      BY <2>1, <1>4 DEF IInv, DirsApart
    <3>2. dirs[dd].node # Dangling
      BY <2>1, Fields, FilesAssumption DEF IInv
    <3>3. QED
      BY <3>1, <3>2, <1>4, <1>5
  <2>2. QED
    BY <2>1, <1>4, <1>6 DEF IInv, DirsApart
<1>17. QED
  BY <1>10, <1>12, <1>13, <1>15, <1>16 DEF IInv

\* Unmounting frees the root of the drive and its file system.
LEMMA UnmountStep ==
  ASSUME IInv, NEW letter \in Letters, Unmount(letter)
  PROVE  IInv'
<1> DEFINE d == DriveIndex(letter)
           f == mnt[d]
           r == fs[f].root
<1>1. /\ d \in Drive /\ f # NULL /\ Mounted(letter) = f /\ ~Rootless(letter)
      /\ FsUnmount(f) /\ mnt' = [mnt EXCEPT ![d] = NULL] /\ dirs' = dirs
  BY DEF Unmount, Mounted, VolumeUnmount
<1>2. f \in FileSystem /\ fs[f] # NULL /\ r # Dangling
  BY <1>1 DEF IInv, TypeOK, DrivesApart, Rootless
<1> HIDE DEF d, f
<1>3. r \in Node /\ node[r] # NULL /\ node[r].fs = f
  BY <1>2, RootFacts
<1>4. /\ node' = [n \in Node |->
                  IF n = r THEN NULL
                  ELSE IF node[n] # NULL /\ node[n].fs = f THEN [node[n] EXCEPT !.fs = Dangling]
                  ELSE node[n]]
      /\ procs' = Bereft(r) /\ fs' = [fs EXCEPT ![f] = NULL]
  BY <1>1 DEF FsUnmount
<1> HIDE DEF r
<1>5. fs'[f] = NULL /\ \A g \in FileSystem \ {f} : fs'[g] = fs[g]
  BY <1>2, <1>4 DEF IInv, TypeOK
<1>6. LosesRoot(f, r)
  BY <1>1, <1>3, <1>4, <1>5 DEF LosesRoot
<1>7. TypeOK'
  <2>1. ASSUME NEW n \in Node PROVE node'[n] \in NodeRecord \cup {NULL}
    <3>1. node[n] \in NodeRecord => [node[n] EXCEPT !.fs = Dangling] \in NodeRecord
      BY DEF NodeRecord
    <3>2. node[n] \in NodeRecord \cup {NULL}
      BY DEF IInv, TypeOK
    <3>3. QED
      BY <1>4, <3>1, <3>2
  <2>2. node' \in [Node -> NodeRecord \cup {NULL}]
    BY <1>4, <2>1
  <2>3. mnt' \in [Drive -> FileSystem \cup {NULL}]
    BY <1>1 DEF IInv, TypeOK
  <2>4. fs' \in [FileSystem -> SystemRecord \cup {NULL}]
    BY <1>4 DEF IInv, TypeOK
  <2>5. procs' \in Seq(Table) /\ procs' # <<>>
    BY <1>3, <1>4, BereftFacts
  <2>6. QED
    BY <2>2, <2>3, <2>4, <2>5, <1>1 DEF IInv, TypeOK
<1>8. DrivesApart'
  <2>1. \A e \in Drive : mnt'[e] = IF e = d THEN NULL ELSE mnt[e]
    BY <1>1 DEF IInv, TypeOK
  <2>2. \A e \in Drive : e # d /\ mnt[e] # NULL => mnt[e] \in FileSystem \ {f}
    BY <1>1 DEF IInv, TypeOK, DrivesApart, f
  <2>3. QED
    BY <2>1, <2>2, <1>5 DEF IInv, DrivesApart
<1>9. QED
  BY <1>2, <1>6, <1>7, <1>8, RootLost DEF r

\* A path walk that has found the root itself, which is then freed.
LEMMA FreeRootStep ==
  ASSUME IInv, NEW f \in FileSystem, fs[f] # NULL, fs[f].root # Dangling,
         FreeRoot(f), UNCHANGED <<mnt, dirs>>
  PROVE  IInv'
<1> DEFINE r == fs[f].root
<1>1. r \in Node /\ fs[f] \in SystemRecord
  BY RootFacts, Fields DEF IInv
<1>2. /\ node' = [node EXCEPT ![r] = NULL] /\ procs' = Bereft(r)
      /\ fs' = [fs EXCEPT ![f] = [fs[f] EXCEPT !.root = Dangling]]
  BY DEF FreeRoot
<1>3. /\ [fs[f] EXCEPT !.root = Dangling] \in SystemRecord
      /\ [fs[f] EXCEPT !.root = Dangling].root = Dangling
      /\ [fs[f] EXCEPT !.root = Dangling].vol = fs[f].vol
  BY <1>1 DEF SystemRecord
<1> HIDE DEF r
<1>4. /\ fs'[f] # NULL /\ fs'[f].root = Dangling /\ fs'[f].vol = fs[f].vol
      /\ \A g \in FileSystem \ {f} : fs'[g] = fs[g]
      /\ fs' \in [FileSystem -> SystemRecord \cup {NULL}]
  BY <1>2, <1>3, NullAssumption DEF IInv, TypeOK
<1>5. /\ node'[r] = NULL /\ \A m \in Node \ {r} : node'[m] = node[m]
      /\ node' \in [Node -> NodeRecord \cup {NULL}]
  BY <1>1, <1>2 DEF IInv, TypeOK
<1>6. LosesRoot(f, r)
  BY <1>2, <1>4, <1>5 DEF LosesRoot
<1>7. TypeOK'
  BY <1>1, <1>2, <1>4, <1>5, BereftFacts DEF IInv, TypeOK
<1>8. DrivesApart'
  BY <1>4 DEF IInv, DrivesApart, TypeOK
<1>9. QED
  BY <1>6, <1>7, <1>8, RootLost DEF r

-----------------------------------------------------------------------------
(* Files.                                                                  *)

\* The first free descriptor of a table is a descriptor and free.
LEMMA FreeFd ==
  ASSUME NEW files, FirstFreeFd(files) # -1
  PROVE  FirstFreeFd(files) \in Fd /\ files[FirstFreeFd(files)] = NULL
<1> DEFINE free == {fd \in Fd : files[fd] = NULL}
<1>1. free # {} /\ FirstFreeFd(files) = CHOOSE fd \in free : \A e \in free : fd <= e
  BY DEF FirstFreeFd
<1>2. free \in SUBSET Nat
  BY DEF Fd
<1>3. \E fd \in free : \A e \in free : fd <= e
  BY <1>1, <1>2, LeastNatural
<1>4. FirstFreeFd(files) \in free
  BY <1>1, <1>3
<1>5. QED
  BY <1>4

\* The roots that drives have are as they were.
RootsStay ==
  \A f \in FileSystem : fs[f] # NULL /\ fs[f].root # Dangling =>
    node'[fs[f].root] = node[fs[f].root]

\* The parts of the invariant that a step which leaves mounts, file systems and
\* their roots alone cannot break.
LEMMA SystemsKept ==
  ASSUME IInv, UNCHANGED <<mnt, fs>>, RootsStay
  PROVE  DrivesApart' /\ RootsRight' /\ \A m : IsRoot(m)' <=> IsRoot(m)
<1>1. DrivesApart'
  BY DEF IInv, DrivesApart
<1>2. RootsRight'
  BY DEF IInv, RootsRight, RootsStay, NewNode, InitfsNode, BuildNode, InitfsProbe
<1>3. \A m : IsRoot(m)' <=> IsRoot(m)
  BY DEF IsRoot
<1>4. QED
  BY <1>1, <1>2, <1>3

\* A step that replaces one descriptor of the running process and leaves the nodes
\* of all others, of directories and of mounts as they are.
LEMMA FileStep ==
  ASSUME IInv, UNCHANGED <<mnt, fs, dirs>>, NEW fd \in Fd, NEW y \in FileRecord \cup {NULL},
         procs' = [procs EXCEPT ![Top][fd] = y],
         node' \in [Node -> NodeRecord \cup {NULL}],
         RootsStay,
         \A dd \in Dd : dirs[dd] # NULL => node'[dirs[dd].node] = node[dirs[dd].node],
         \A k \in 1 .. Len(procs), e \in Fd :
           procs[k][e] # NULL /\ ~(k = Top /\ e = fd) /\ procs[k][e].node # Dangling =>
             node'[procs[k][e].node] = node[procs[k][e].node],
         y # NULL =>
           /\ FileRight(y)'
           /\ \A dd \in Dd : dirs[dd] # NULL => dirs[dd].node # y.node
           /\ \/ IsRoot(y.node) \/ y.node = Dangling
              \/ \A k \in 1 .. Len(procs), e \in Fd :
                   procs[k][e] # NULL /\ ~(k = Top /\ e = fd) => procs[k][e].node # y.node
  PROVE  IInv'
<1>1. /\ procs' \in Seq(Table) /\ procs' # <<>> /\ Len(procs') = Len(procs)
      /\ \A k \in 1 .. Len(procs), e \in Fd :
           procs'[k][e] = IF k = Top /\ e = fd THEN y ELSE procs[k][e]
  BY SetFile DEF IInv
<1>2. TypeOK'
  BY <1>1 DEF IInv, TypeOK
<1>3. DrivesApart' /\ RootsRight' /\ \A m : IsRoot(m)' <=> IsRoot(m)
  BY SystemsKept
<1>4. FilesRight'
  <2>1. ASSUME NEW k \in 1 .. Len(procs), NEW e \in Fd, procs'[k][e] # NULL,
               NEW x, x = procs'[k][e]
        PROVE  FileRight(x)'
    <3>1. CASE k = Top /\ e = fd
      BY <2>1, <3>1, <1>1
    <3>2. CASE ~(k = Top /\ e = fd)
      <4>1. x = procs[k][e] /\ x # NULL
        BY <2>1, <3>2, <1>1
      <4>2. FileRight(x)
        BY <4>1 DEF IInv, FilesRight
      <4>3. QED
        BY <4>1, <4>2, <3>2, FileRightKept
    <3>3. QED
      BY <3>1, <3>2
  <2>2. QED
    BY <2>1, <1>1 DEF FilesRight
<1>5. FilesApart'
  <2>1. SUFFICES ASSUME NEW k \in 1 .. Len(procs), NEW l \in 1 .. Len(procs),
                        NEW e \in Fd, NEW g \in Fd,
                        procs'[k][e] # NULL, procs'[l][g] # NULL,
                        procs'[k][e].node = procs'[l][g].node,
                        procs'[k][e].node # Dangling,
                        ~(k = l /\ e = g)
                 PROVE  IsRoot(procs'[k][e].node)
    BY <1>1, <1>3 DEF FilesApart
  <2>2. CASE k = Top /\ e = fd
    BY <2>1, <2>2, <1>1
  <2>3. CASE l = Top /\ g = fd
    BY <2>1, <2>3, <1>1
  <2>4. CASE ~(k = Top /\ e = fd) /\ ~(l = Top /\ g = fd)
    BY <2>1, <2>4, <1>1 DEF IInv, FilesApart
  <2>5. QED
    BY <2>2, <2>3, <2>4
<1>6. DirsRight'
  <2>1. ASSUME NEW dd \in Dd, NEW x, x = dirs[dd], x # NULL
        PROVE  DirRight(x)'
    <3>1. DirRight(x) /\ ~IsRoot(x.node)
      BY <2>1 DEF IInv, DirsRight, DirRight
    <3>2. QED
      BY <2>1, <3>1, <1>3, DirRightKept
  <2>2. QED
    BY <2>1 DEF DirsRight
<1>7. DirsApart'
  BY <1>1 DEF IInv, DirsApart
<1>8. QED
  BY <1>2, <1>3, <1>4, <1>5, <1>6, <1>7 DEF IInv

\* The same for one directory descriptor.
LEMMA DirStep ==
  ASSUME IInv, UNCHANGED <<mnt, fs, procs>>, NEW dd \in Dd, NEW y \in DirRecord \cup {NULL},
         dirs' = [dirs EXCEPT ![dd] = y],
         node' \in [Node -> NodeRecord \cup {NULL}],
         RootsStay,
         \A e \in Dd \ {dd} : dirs[e] # NULL => node'[dirs[e].node] = node[dirs[e].node],
         \A k \in 1 .. Len(procs), e \in Fd :
           procs[k][e] # NULL /\ procs[k][e].node # Dangling =>
             node'[procs[k][e].node] = node[procs[k][e].node],
         y # NULL =>
           /\ DirRight(y)'
           /\ \A e \in Dd \ {dd} : dirs[e] # NULL => dirs[e].node # y.node
           /\ \A k \in 1 .. Len(procs), e \in Fd : procs[k][e] # NULL => procs[k][e].node # y.node
  PROVE  IInv'
<1>1. dirs' \in [Dd -> DirRecord \cup {NULL}] /\ \A e \in Dd : dirs'[e] = IF e = dd THEN y ELSE dirs[e]
  BY DEF IInv, TypeOK
<1>2. TypeOK'
  BY <1>1 DEF IInv, TypeOK
<1>3. DrivesApart' /\ RootsRight' /\ \A m : IsRoot(m)' <=> IsRoot(m)
  BY SystemsKept
<1>4. FilesRight'
  <2>1. ASSUME NEW k \in 1 .. Len(procs), NEW e \in Fd, NEW x, x = procs[k][e], x # NULL
        PROVE  FileRight(x)'
    <3>1. FileRight(x)
      BY <2>1 DEF IInv, FilesRight
    <3>2. QED
      BY <2>1, <3>1, FileRightKept
  <2>2. QED
    BY <2>1 DEF FilesRight
<1>5. FilesApart'
  BY <1>3 DEF IInv, FilesApart
<1>6. DirsRight'
  <2>1. ASSUME NEW e \in Dd, NEW x, x = dirs'[e], x # NULL
        PROVE  DirRight(x)'
    <3>1. CASE e = dd
      BY <2>1, <3>1, <1>1
    <3>2. CASE e # dd
      <4>1. x = dirs[e]
        BY <2>1, <3>2, <1>1
      <4>2. DirRight(x)
        BY <2>1, <4>1 DEF IInv, DirsRight
      <4>3. ~IsRoot(x.node)
        BY <4>2 DEF DirRight
      <4>4. QED
        BY <2>1, <3>2, <4>1, <4>2, <4>3, <1>3, DirRightKept
    <3>3. QED
      BY <3>1, <3>2
  <2>2. QED
    BY <2>1 DEF DirsRight
<1>7. DirsApart'
  BY <1>1 DEF IInv, DirsApart
<1>8. QED
  BY <1>2, <1>3, <1>4, <1>5, <1>6, <1>7 DEF IInv

\* A free node is nobody's.
LEMMA FreeNode ==
  ASSUME IInv, NEW n \in FreeNodes
  PROVE  /\ n \in Node /\ n # Dangling /\ node[n] = NULL /\ ~IsRoot(n)
         /\ \A k \in 1 .. Len(procs), fd \in Fd : procs[k][fd] # NULL => procs[k][fd].node # n
         /\ \A dd \in Dd : dirs[dd] # NULL => dirs[dd].node # n
<1>1. n \in Node /\ n # Dangling /\ node[n] = NULL
  BY FilesAssumption DEF FreeNodes
<1>2. ~IsRoot(n)
  BY <1>1, RootFacts DEF IsRoot
<1>3. QED
  BY <1>1, <1>2, UsedFacts DEF InUse

\* What is allocated and in use stays when only free nodes are touched.
LEMMA OthersStay ==
  ASSUME IInv, \A m \in Node : node[m] # NULL => node'[m] = node[m]
  PROVE  /\ RootsStay
         /\ \A dd \in Dd : dirs[dd] # NULL => node'[dirs[dd].node] = node[dirs[dd].node]
         /\ \A k \in 1 .. Len(procs), e \in Fd :
              procs[k][e] # NULL /\ procs[k][e].node # Dangling =>
                node'[procs[k][e].node] = node[procs[k][e].node]
<1>1. RootsStay
  BY RootFacts DEF RootsStay
<1>2. QED
  BY <1>1, UsedFacts DEF InUse

\* The invariant is about these variables.
LEMMA Unchanged ==
  ASSUME IInv, UNCHANGED <<mnt, fs, node, procs, dirs>>
  PROVE  IInv'
<1>1. RootsStay
  BY DEF RootsStay
<1>2. TypeOK'
  BY DEF IInv, TypeOK
<1>3. DrivesApart' /\ RootsRight' /\ \A m : IsRoot(m)' <=> IsRoot(m)
  BY <1>1, SystemsKept
<1>4. FilesRight'
  BY DEF IInv, FilesRight, FileRight, StandsFor, IsLive, VolumeOf
<1>5. FilesApart'
  BY <1>1, <1>3 DEF IInv, FilesApart
<1>6. DirsRight'
  BY <1>1, <1>3 DEF IInv, DirsRight, DirRight, StandsFor, IsLive, VolumeOf
<1>7. DirsApart'
  BY DEF IInv, DirsApart
<1>8. QED
  BY <1>2, <1>3, <1>4, <1>5, <1>6, <1>7 DEF IInv

\* Files are opened with a node of their own, or with the root of their drive.
LEMMA OpenStep ==
  ASSUME IInv, NEW path \in Paths, NEW flags \in Modes, Open(path, flags)
  PROVE  IInv'
<1> DEFINE fd == FirstFreeFd(procs[Top])
           f == Mounted(path.letter)
           v == fs[f].vol
           i == Found(path)
<1>1. fd \in Fd /\ procs[Top][fd] = NULL
  BY FreeFd DEF Open
<1>2. i # NULL /\ UNCHANGED <<mnt, fs, dirs>>
  BY DEF Open, FileOpen
<1>3. PICK n \in (IF IsRootPath(path) THEN {fs[f].root} ELSE FreeNodes) :
        /\ node' = IF IsRootPath(path) THEN node
                   ELSE [node EXCEPT ![n] = Loaded(NewNode(f, v, i))]
        /\ procs' = [procs EXCEPT ![Top][fd] = Descriptor(n, v, i, flags)]
  BY DEF Open, FileOpen
<1>4. /\ f \in FileSystem /\ fs[f] # NULL /\ v \in Volume
      /\ fs[f].root \in Node /\ fs[f].root # Dangling
      /\ i \in Nat /\ Image[v].inode[i] \in InodeRecord
      /\ IsRootPath(path) => i = Image[v].root
  BY <1>2, FoundFacts
<1> HIDE DEF fd, f, i
<1>6. /\ Loaded(NewNode(f, v, i)) \in NodeRecord /\ Loaded(NewNode(f, v, i)) # NULL
      /\ Loaded(NewNode(f, v, i)).fs = f /\ Loaded(NewNode(f, v, i)).ino = i
  BY <1>4, NewNodeType
<1>7. n \in Node
  BY <1>3, <1>4 DEF FreeNodes
<1>8. PICK y : y = Descriptor(n, v, i, flags)
  OBVIOUS
<1>9. /\ y \in FileRecord /\ y # NULL /\ y.node = n /\ y.of = <<v, i>>
      /\ y.size = Image[v].inode[i].length /\ y.offset = 0
  <2>1. Image[v].inode[i].length \in 0 .. Word - 1
    BY <1>4 DEF InodeRecord
  <2>2. 0 \in 0 .. Word - 1 /\ <<v, i>> \in Volume \X Nat
    BY <1>4, FilesAssumption
  <2>3. y \in FileRecord
    BY <2>1, <2>2, <1>7, <1>8 DEF Descriptor, FileRecord
  <2>4. QED
    BY <2>3, <1>8, NullAssumption DEF Descriptor
<1> HIDE DEF v
<1>10. /\ ~IsRootPath(path) => node[n] = NULL
       /\ \A m \in Node : node[m] # NULL => node'[m] = node[m]
       /\ node' \in [Node -> NodeRecord \cup {NULL}]
  BY <1>3, <1>6, <1>7 DEF IInv, TypeOK, FreeNodes
<1>11. node'[n] # NULL /\ node'[n].fs = f /\ node'[n].ino = i
  <2>1. CASE IsRootPath(path)
    <3>1. n = fs[f].root /\ node' = node
      BY <2>1, <1>3
    <3>2. node[n] # NULL /\ node[n].fs = f /\ node[n].ino = i
      BY <2>1, <3>1, <1>4, RootFacts DEF v
    <3>3. QED
      BY <3>1, <3>2
  <2>2. CASE ~IsRootPath(path)
    <3>1. node'[n] = Loaded(NewNode(f, v, i))
      BY <2>2, <1>3, <1>7 DEF IInv, TypeOK
    <3>2. QED
      BY <2>2, <3>1, <1>6
  <2>3. QED
    BY <2>1, <2>2
<1>12. FileRight(y)'
  <2>1. IsLive(n)' /\ VolumeOf(n)' = fs[f].vol
    BY <1>2, <1>4, <1>11 DEF IsLive, VolumeOf
  <2>2. y.of[1] = v /\ y.of[2] = i /\ y.node = n /\ y.size = Image[v].inode[i].length
    BY <1>9
  <2>3. y.offset <= y.size
    BY <1>4, <1>9 DEF InodeRecord
  <2>4. <<fs[f].vol, node'[n].ino>> = y.of
    BY <1>9, <1>11 DEF v
  <2>5. QED
    BY <2>1, <2>2, <2>3, <2>4, <1>11, FilesAssumption DEF FileRight, StandsFor
<1>13. IsRootPath(path) => IsRoot(n)
  BY <1>3, <1>4 DEF IsRoot
<1>14. \A dd \in Dd : dirs[dd] # NULL => dirs[dd].node # n
  <2>1. CASE IsRootPath(path)
    BY <2>1, <1>13 DEF IInv, DirsRight, DirRight
  <2>2. CASE ~IsRootPath(path)
    BY <2>2, <1>3, FreeNode
  <2>3. QED
    BY <2>1, <2>2
<1>15. \/ IsRoot(n)
       \/ \A k \in 1 .. Len(procs), e \in Fd : procs[k][e] # NULL => procs[k][e].node # n
  BY <1>3, <1>13, FreeNode
<1>16. /\ RootsStay
       /\ \A dd \in Dd : dirs[dd] # NULL => node'[dirs[dd].node] = node[dirs[dd].node]
       /\ \A k \in 1 .. Len(procs), e \in Fd :
            procs[k][e] # NULL /\ procs[k][e].node # Dangling =>
              node'[procs[k][e].node] = node[procs[k][e].node]
  BY <1>10, OthersStay
<1>17. procs' = [procs EXCEPT ![Top][fd] = y]
  BY <1>3, <1>8 DEF v
<1>18. /\ \A dd \in Dd : dirs[dd] # NULL => dirs[dd].node # y.node
       /\ \/ IsRoot(y.node) \/ y.node = Dangling
          \/ \A k \in 1 .. Len(procs), e \in Fd :
               procs[k][e] # NULL /\ ~(k = Top /\ e = fd) => procs[k][e].node # y.node
  BY <1>9, <1>14, <1>15
<1>19. y \in FileRecord \cup {NULL} /\ UNCHANGED <<mnt, fs, dirs>>
  BY <1>2, <1>9
<1>20. \A k \in 1 .. Len(procs), e \in Fd :
         procs[k][e] # NULL /\ ~(k = Top /\ e = fd) /\ procs[k][e].node # Dangling =>
           node'[procs[k][e].node] = node[procs[k][e].node]
  BY <1>16
<1>21. QED
  BY <1>1, <1>10, <1>12, <1>16, <1>17, <1>18, <1>19, <1>20, FileStep, Zenon

\* The node of a file that is closed is used by nobody else, or is a root, and
\* nothing but memory of its own is freed with it.
LEMMA CloseStep ==
  ASSUME IInv, NEW fd \in Fd, Close(fd)
  PROVE  IInv'
<1> DEFINE n == procs[Top][fd].node
<1>1. /\ procs[Top][fd] # NULL
      /\ procs' = [procs EXCEPT ![Top][fd] = NULL]
      /\ UNCHANGED <<mnt, fs, dirs>>
  BY DEF Close, File
<1>2. Top \in 1 .. Len(procs)
  BY Fields DEF IInv
<1>5. n # Dangling /\ node' = [m \in Node |-> IF m = n /\ ~IsRoot(m) THEN NULL ELSE node[m]]
  BY DEF Close, FileClose, File, Forget
<1>6. node' \in [Node -> NodeRecord \cup {NULL}]
  BY <1>5 DEF IInv, TypeOK
<1>7. \A m \in Node : m # n \/ IsRoot(m) => node'[m] = node[m]
  BY <1>5
<1>8. RootsStay
  BY <1>7, RootFacts DEF IsRoot, RootsStay
<1>9. \A dd \in Dd : dirs[dd] # NULL => node'[dirs[dd].node] = node[dirs[dd].node]
  BY <1>1, <1>2, <1>7, UsedFacts DEF IInv, DirsApart, InUse
<1>10. ASSUME NEW k \in 1 .. Len(procs), NEW e \in Fd, procs[k][e] # NULL, ~(k = Top /\ e = fd),
              procs[k][e].node # Dangling
       PROVE  node'[procs[k][e].node] = node[procs[k][e].node]
  <2>1. procs[k][e].node # n \/ IsRoot(procs[k][e].node)
    BY <1>1, <1>2, <1>10 DEF IInv, FilesApart
  <2>2. QED
    BY <2>1, <1>7, <1>10, UsedFacts DEF InUse
<1>11. NULL \in FileRecord \cup {NULL}
  OBVIOUS
<1>12. QED
  BY <1>1, <1>6, <1>8, <1>9, <1>10, <1>11, FileStep, Zenon

\* Words.
LEMMA WordSum ==
  ASSUME NEW a \in 0 .. Word - 1, NEW b \in 0 .. Word - 1
  PROVE  /\ Plus(a, b) = IF a + b < Word THEN a + b ELSE a + b - Word
         /\ Plus(a, b) \in 0 .. Word - 1
         /\ b <= a => Minus(a, b) = a - b
<1> USE FilesAssumption
<1>1. ASSUME NEW n \in Nat, n < Word
      PROVE  n % Word = n
  BY <1>1
<1>2. ASSUME NEW n \in Nat, n >= Word, n < 2 * Word
      PROVE  n % Word = n - Word
  BY <1>2
<1>3. a + b \in Nat /\ a + b < 2 * Word /\ Word \in Nat
  OBVIOUS
<1>4. Plus(a, b) = IF a + b < Word THEN a + b ELSE a + b - Word
  BY <1>1, <1>2, <1>3 DEF Plus
<1>5. b <= a => Minus(a, b) = a - b
  <2> DEFINE c == a - b + Word
  <2>1. b <= a => c \in Nat /\ c >= Word /\ c < 2 * Word
    OBVIOUS
  <2> HIDE DEF c
  <2>2. b <= a => c % Word = c - Word
    BY <2>1, <1>2
  <2>3. QED
    BY <2>2 DEF Minus, c
<1>6. QED
  BY <1>4, <1>5

\* Only the offset of a descriptor changes, to one within the file.
LEMMA OffsetStep ==
  ASSUME IInv, UNCHANGED <<mnt, fs, node, dirs>>, NEW fd \in Fd, procs[Top][fd] # NULL,
         NEW o \in Nat, o <= procs[Top][fd].size,
         procs' = [procs EXCEPT ![Top][fd] = [procs[Top][fd] EXCEPT !.offset = o]]
  PROVE  IInv'
<1>1. PICK x : x = procs[Top][fd]
  OBVIOUS
<1>2. PICK y : y = [x EXCEPT !.offset = o]
  OBVIOUS
<1>3. Top \in 1 .. Len(procs)
  BY Fields DEF IInv
<1>4. x \in FileRecord /\ FileRight(x)
  BY <1>1, <1>3, Fields DEF IInv, FilesRight
<1>5. o \in 0 .. Word - 1
  BY <1>1, <1>4, FilesAssumption DEF FileRecord
<1>6. /\ y \in FileRecord /\ y # NULL /\ y.node = x.node /\ y.of = x.of /\ y.size = x.size
      /\ y.offset = o
  <2>1. y \in FileRecord
    BY <1>2, <1>4, <1>5 DEF FileRecord
  <2>2. QED
    BY <2>1, <1>2, <1>4, NullAssumption DEF FileRecord
<1>7. FileRight(y)
  BY <1>1, <1>4, <1>6 DEF FileRight
<1>8. FileRight(y)'
  BY <1>7, FileRightKept
<1>9. \A dd \in Dd : dirs[dd] # NULL => dirs[dd].node # y.node
  BY <1>1, <1>3, <1>6 DEF IInv, DirsApart
<1>10. \/ IsRoot(y.node) \/ y.node = Dangling
       \/ \A k \in 1 .. Len(procs), e \in Fd :
            procs[k][e] # NULL /\ ~(k = Top /\ e = fd) => procs[k][e].node # y.node
  BY <1>1, <1>3, <1>6 DEF IInv, FilesApart
<1>11. /\ y \in FileRecord \cup {NULL} /\ UNCHANGED <<mnt, fs, dirs>>
       /\ procs' = [procs EXCEPT ![Top][fd] = y]
  BY <1>1, <1>2, <1>6
<1>12. node' \in [Node -> NodeRecord \cup {NULL}] /\ node' = node /\ RootsStay
  BY DEF IInv, TypeOK, RootsStay
<1>13. QED
  BY <1>8, <1>9, <1>10, <1>11, <1>12, FileStep, Zenon

\* Where the offset of an open file can go, for every size and distance: the sums
\* that wrap around are within the file, or are clamped to it.
LEMMA ReadOffset ==
  ASSUME NEW x \in FileRecord, FileRight(x), ~ReadsDangling(x), NEW size \in 0 .. Word - 1
  PROVE  \E o \in Nat : o <= x.size /\ FileRead(x, size) = [x EXCEPT !.offset = o]
<1> DEFINE clamped == IF Plus(x.offset, size) > x.size THEN Minus(x.size, x.offset) ELSE size
           bytes == VfsRead(x.node, x.offset, clamped)
<1>1. /\ x.size \in 0 .. Word - 1 /\ x.offset \in 0 .. Word - 1 /\ x.offset <= x.size
      /\ x = [x EXCEPT !.offset = x.offset]
  BY DEF FileRight, FileRecord
<1>2. ASSUME "rd" \in x.flags, Type(x.node) = "file"
      PROVE  Image[VolumeOf(x.node)].inode[node[x.node].ino].length = x.size
  <2>1. x.node # Dangling /\ node[x.node].fs # Dangling
    BY <1>2 DEF ReadsDangling
  <2>2. x.of[1] = VolumeOf(x.node) /\ x.of[2] = node[x.node].ino
    BY <2>1 DEF FileRight, StandsFor
  <2>3. QED
    BY <2>2 DEF FileRight
<1>3. /\ clamped \in 0 .. Word - 1
      /\ Plus(x.offset, clamped) <= x.size
  <2>1. /\ Plus(x.offset, size) \in 0 .. Word - 1
        /\ Minus(x.size, x.offset) = x.size - x.offset
    BY <1>1, WordSum
  <2>2. CASE Plus(x.offset, size) > x.size
    <3>1. clamped = x.size - x.offset /\ clamped \in 0 .. Word - 1
      BY <2>1, <2>2, <1>1, FilesAssumption
    <3>2. Plus(x.offset, clamped) = IF x.offset + clamped < Word THEN x.offset + clamped
                                    ELSE x.offset + clamped - Word
      BY <3>1, <1>1, WordSum
    <3>3. x.offset + clamped = x.size
      BY <3>1, <1>1
    <3>4. QED
      BY <3>1, <3>2, <3>3, <1>1, FilesAssumption
  <2>3. CASE ~(Plus(x.offset, size) > x.size)
    BY <2>1, <2>3, <1>1
  <2>4. QED
    BY <2>2, <2>3
<1>4. Plus(x.offset, clamped) \in 0 .. Word - 1
  BY <1>1, <1>3, WordSum
<1> HIDE DEF clamped
<1>5. "rd" \in x.flags => bytes < 0 \/ bytes = clamped
  <2>0. SUFFICES ASSUME "rd" \in x.flags PROVE bytes < 0 \/ bytes = clamped
    OBVIOUS
  <2>1. ~(x.offset > x.size) /\ ~(Plus(x.offset, clamped) > x.size)
    BY <1>1, <1>3, <1>4
  <2>2. Type(x.node) = "file" => FsRead(x.node, x.offset, clamped) \in {-1, clamped}
    BY <2>0, <2>1, <1>2 DEF FsRead
  <2>3. bytes \in {-1, clamped}
    BY <2>2 DEF VfsRead
  <2> HIDE DEF bytes
  <2>4. QED
    BY <2>3
<1>6. FileRead(x, size) = IF "rd" \notin x.flags \/ bytes < 0 THEN x
                          ELSE [x EXCEPT !.offset = Plus(x.offset, bytes)]
  BY DEF FileRead, clamped
<1> HIDE DEF bytes
<1>7. CASE "rd" \notin x.flags \/ bytes < 0
  <2>1. FileRead(x, size) = [x EXCEPT !.offset = x.offset]
    BY <1>1, <1>6, <1>7
  <2>2. QED
    BY <2>1, <1>1
<1>8. CASE ~("rd" \notin x.flags \/ bytes < 0)
  <2>1. FileRead(x, size) = [x EXCEPT !.offset = Plus(x.offset, clamped)]
    BY <1>5, <1>6, <1>8
  <2>2. QED
    BY <2>1, <1>3, <1>4
<1>9. QED
  BY <1>7, <1>8

\* file_seek clamps: whatever the distance, the new offset is inside the file.
LEMMA SeekOffset ==
  ASSUME NEW x \in FileRecord, FileRight(x), NEW whence, NEW distance \in 0 .. Word - 1
  PROVE  \E o \in Nat : o <= x.size /\ FileSeek(x, whence, distance) = [x EXCEPT !.offset = o]
<1> DEFINE to == CASE whence = "cur" -> Plus(x.offset, distance)
                   [] whence = "begin" -> distance
                   [] OTHER -> Plus(x.size, distance)
           o == IF to > x.size THEN x.size ELSE to
<1>1. x.size \in 0 .. Word - 1 /\ x.offset \in 0 .. Word - 1
  BY DEF FileRecord
<1>2. Plus(x.offset, distance) \in 0 .. Word - 1 /\ Plus(x.size, distance) \in 0 .. Word - 1
  BY <1>1, WordSum
<1>3. to \in 0 .. Word - 1
  BY <1>2
<1>4. FileSeek(x, whence, distance) = [x EXCEPT !.offset = o]
  BY DEF FileSeek
<1> HIDE DEF to
<1>5. o \in Nat /\ o <= x.size
  BY <1>1, <1>3
<1>6. QED
  BY <1>4, <1>5

\* Reading, writing and seeking change the offset of one descriptor only.
LEMMA ReadWriteSeekStep ==
  ASSUME IInv, NEW fd \in Fd,
         \/ \E size \in Sizes : Read(fd, size) \/ Write(fd, size)
         \/ \E whence \in {"cur", "begin", "end"}, distance \in SeekOffsets :
              Seek(fd, whence, distance)
  PROVE  IInv'
<1>1. PICK x : x = procs[Top][fd]
  OBVIOUS
<1>2. x # NULL /\ UNCHANGED <<mnt, fs, node, dirs>>
  BY <1>1 DEF Read, Write, Seek, File
<1>3. Top \in 1 .. Len(procs) /\ procs[Top] \in Table /\ DOMAIN procs = 1 .. Len(procs)
  BY Fields DEF IInv
<1>4. x \in FileRecord /\ FileRight(x)
  BY <1>1, <1>2, <1>3, Fields DEF IInv, FilesRight
<1>5. ASSUME NEW size \in Sizes
      PROVE  size \in 0 .. Word - 1 /\ FileWrite(x, size) = [x EXCEPT !.offset = x.offset]
  BY <1>4, FilesAssumption DEF FileWrite, VfsWrite, FileRecord
<1>6. x.offset \in Nat /\ x.offset <= x.size
  BY <1>4 DEF FileRight, FileRecord
<1>7. \E o \in Nat :
        o <= x.size /\ procs' = [procs EXCEPT ![Top][fd] = [x EXCEPT !.offset = o]]
  <2>1. CASE \E size \in Sizes : Read(fd, size)
    <3>1. PICK size \in Sizes : Read(fd, size)
      BY <2>1
    <3>2. procs' = [procs EXCEPT ![Top][fd] = FileRead(x, size)]
      BY <3>1, <1>1, <1>3 DEF Read, Table
    <3>3. ~ReadsDangling(x)
      BY <3>1, <1>1 DEF Read, File
    <3>4. \E o \in Nat : o <= x.size /\ FileRead(x, size) = [x EXCEPT !.offset = o]
      BY <1>4, <1>5, <3>3, ReadOffset
    <3>5. QED
      BY <3>2, <3>4
  <2>2. CASE \E size \in Sizes : Write(fd, size)
    <3>1. PICK size \in Sizes : Write(fd, size)
      BY <2>2
    <3>2. procs' = [procs EXCEPT ![Top][fd] = FileWrite(x, size)]
      BY <3>1, <1>1, <1>3 DEF Write, Table
    <3>3. QED
      BY <3>2, <1>5, <1>6
  <2>3. CASE \E whence \in {"cur", "begin", "end"}, distance \in SeekOffsets :
               Seek(fd, whence, distance)
    <3>1. PICK whence \in {"cur", "begin", "end"}, distance \in SeekOffsets :
            Seek(fd, whence, distance)
      BY <2>3
    <3>2. procs' = [procs EXCEPT ![Top][fd] = FileSeek(x, whence, distance)]
      BY <3>1, <1>1, <1>3 DEF Seek, Table
    <3>3. distance \in 0 .. Word - 1
      BY <3>1, FilesAssumption
    <3>4. \E o \in Nat : o <= x.size /\ FileSeek(x, whence, distance) = [x EXCEPT !.offset = o]
      BY <3>3, <1>4, SeekOffset
    <3>5. QED
      BY <3>2, <3>4
  <2>4. QED
    BY <2>1, <2>2, <2>3
<1>8. QED
  BY <1>1, <1>2, <1>7, OffsetStep

-----------------------------------------------------------------------------
(* Directories.                                                            *)

\* The first free directory descriptor is one and free.
LEMMA FreeDd ==
  ASSUME FirstFreeDd # -1
  PROVE  FirstFreeDd \in Dd /\ dirs[FirstFreeDd] = NULL
<1> DEFINE free == {dd \in Dd : dirs[dd] = NULL}
<1>1. free # {} /\ FirstFreeDd = CHOOSE dd \in free : \A e \in free : dd <= e
  BY DEF FirstFreeDd
<1>2. free \in SUBSET Nat
  BY DEF Dd
<1>3. \E dd \in free : \A e \in free : dd <= e
  BY <1>1, <1>2, LeastNatural
<1>4. FirstFreeDd \in free
  BY <1>1, <1>3
<1>5. QED
  BY <1>4

\* Directories are opened with a node of their own.
LEMMA OpenDirStep ==
  ASSUME IInv, NEW path \in Paths, OpenDir(path)
  PROVE  IInv'
<1> DEFINE dd == FirstFreeDd
           f == Mounted(path.letter)
           v == fs[f].vol
           i == Found(path)
<1>1. dd \in Dd /\ i # NULL /\ UNCHANGED <<mnt, fs, procs>>
  BY FreeDd DEF OpenDir
<1>2. PICK n \in FreeNodes :
        /\ node' = [node EXCEPT ![n] = NewNode(f, v, i)]
        /\ dirs' = [dirs EXCEPT ![dd] =
                      [node |-> n, index |-> 0, of |-> <<v, i>>, seen |-> <<>>]]
  BY DEF OpenDir
<1>3. /\ f \in FileSystem /\ fs[f] # NULL /\ v \in Volume
      /\ i \in Nat /\ Image[v].inode[i] \in InodeRecord
  BY <1>1, FoundFacts
<1> HIDE DEF dd, f, i
<1>4. /\ NewNode(f, v, i) \in NodeRecord /\ NewNode(f, v, i) # NULL
      /\ NewNode(f, v, i).fs = f /\ NewNode(f, v, i).ino = i
  BY <1>3, NewNodeType
<1>5. n \in Node /\ node[n] = NULL
  BY DEF FreeNodes
<1>6. PICK y : y = [node |-> n, index |-> 0, of |-> <<v, i>>, seen |-> <<>>]
  OBVIOUS
<1>7. /\ y \in DirRecord /\ y # NULL
      /\ y.node = n /\ y.index = 0 /\ y.of = <<v, i>> /\ y.of[1] = v /\ y.of[2] = i
      /\ y.seen = <<>>
  <2>1. y \in DirRecord
    BY <1>3, <1>5, <1>6 DEF DirRecord
  <2>2. QED
    BY <2>1, <1>6, NullAssumption
<1>8. /\ \A m \in Node : node[m] # NULL => node'[m] = node[m]
      /\ node'[n] = NewNode(f, v, i)
      /\ node' \in [Node -> NodeRecord \cup {NULL}]
  BY <1>2, <1>4, <1>5 DEF IInv, TypeOK
<1>9. DirRight(y)'
  <2>1. IsLive(n)' /\ VolumeOf(n)' = fs[f].vol
    BY <1>1, <1>3, <1>4, <1>8 DEF IsLive, VolumeOf
  <2>2. <<fs[f].vol, node'[n].ino>> = y.of
    BY <1>4, <1>7, <1>8
  <2>3. ~IsRoot(n)'
    BY <1>1, FreeNode DEF IsRoot
  <2>4. \A k \in 1 .. y.index : FALSE
    BY <1>7
  <2> DEFINE entries == Image[y.of[1]].inode[y.of[2]].entries
  <2>5. Image[y.of[1]].inode[y.of[2]] \in InodeRecord
    BY <1>3, <1>7
  <2>6. entries \in Seq([name : STRING, ino : Nat])
    BY <2>5 DEF InodeRecord
  <2> HIDE DEF entries
  <2>7. y.index = Len(y.seen) /\ y.index <= Len(entries)
    BY <1>7, <2>6
  <2> HIDE DEF v
  <2>8. QED
    BY <2>1, <2>2, <2>3, <2>4, <2>5, <2>7, <1>7 DEF DirRight, StandsFor, entries
<1>10. /\ \A e \in Dd \ {dd} : dirs[e] # NULL => dirs[e].node # y.node
       /\ \A k \in 1 .. Len(procs), e \in Fd : procs[k][e] # NULL => procs[k][e].node # y.node
  BY <1>7, FreeNode
<1>11. /\ RootsStay
       /\ \A e \in Dd \ {dd} : dirs[e] # NULL => node'[dirs[e].node] = node[dirs[e].node]
       /\ \A k \in 1 .. Len(procs), e \in Fd :
            procs[k][e] # NULL /\ procs[k][e].node # Dangling =>
              node'[procs[k][e].node] = node[procs[k][e].node]
  BY <1>8, OthersStay
<1>12. dirs' = [dirs EXCEPT ![dd] = y] /\ y \in DirRecord \cup {NULL}
  BY <1>2, <1>6, <1>7
<1>13. QED
  BY <1>1, <1>8, <1>9, <1>10, <1>11, <1>12, DirStep, Zenon

\* With every descriptor in use nothing changes, or a root is lost.
LEMMA OpenDirExhaustedStep ==
  ASSUME IInv, NEW path \in Paths, OpenDirExhausted(path)
  PROVE  IInv'
<1> DEFINE f == Mounted(path.letter)
<1>1. f \in FileSystem /\ fs[f] # NULL /\ fs[f].root # Dangling
  BY FoundFacts DEF OpenDirExhausted
<1>2. CASE IsRootPath(path)
  BY <1>1, <1>2, FreeRootStep DEF OpenDirExhausted
<1>3. CASE ~IsRootPath(path)
  <2>1. UNCHANGED <<mnt, fs, node, procs, dirs>>
    BY <1>3 DEF OpenDirExhausted
  <2>2. QED
    BY <2>1, Unchanged
<1>4. QED
  BY <1>2, <1>3

\* An element of a sequence over S is in S.
LEMMA SeqElement ==
  ASSUME NEW S, NEW s \in Seq(S), NEW k \in 1 .. Len(s)
  PROVE  s[k] \in S
OBVIOUS

\* One name more is the next entry's.
LEMMA ReadDirStep ==
  ASSUME IInv, NEW dd \in Dd, ReadDir(dd)
  PROVE  IInv'
<1>1. PICK d : d = dirs[dd]
  OBVIOUS
<1> DEFINE entries == Image[d.of[1]].inode[d.of[2]].entries
<1>2. PICK name : name = VfsReadDir(VolumeOf(d.node), node[d.node].ino, d.index)
  OBVIOUS
<1>3. /\ d # NULL /\ name # NULL /\ node[d.node].fs # Dangling /\ UNCHANGED <<mnt, fs, node, procs>>
      /\ dirs' = [dirs EXCEPT ![dd].index = @ + 1, ![dd].seen = Append(@, name)]
  BY <1>1, <1>2 DEF ReadDir, DirRead
<1>4. d \in DirRecord /\ DirRight(d)
  BY <1>1, <1>3 DEF IInv, TypeOK, DirsRight
<1>5. /\ d.node \in Node /\ d.index \in Nat /\ d.seen \in Seq(STRING) /\ d.of \in Volume \X Nat
  BY <1>4 DEF DirRecord
<1>6. d.of[1] = VolumeOf(d.node) /\ d.of[2] = node[d.node].ino
  <2>1. StandsFor(d.node, d.of)
    BY <1>4 DEF DirRight
  <2>2. <<VolumeOf(d.node), node[d.node].ino>> = d.of
    BY <2>1, <1>3 DEF StandsFor
  <2>3. QED
    BY <2>2
<1>7. entries \in Seq([name : STRING, ino : Nat])
  BY <1>4 DEF DirRight, InodeRecord
<1>8. /\ d.index = Len(d.seen) /\ d.index <= Len(entries)
      /\ \A k \in 1 .. d.index : d.seen[k] = entries[k].name
  BY <1>4 DEF DirRight
<1>9. name = VfsReadDir(d.of[1], d.of[2], d.index)
  BY <1>2, <1>6
<1>10. ~(d.index >= Len(entries)) /\ name = entries[d.index + 1].name
  <2>1. CASE InitfsProbe(d.of[1])
    <3>1. name = InitfsReadDir(d.of[1], d.of[2], d.index)
      BY <2>1, <1>9 DEF VfsReadDir
    <3>2. QED
      BY <3>1, <1>3 DEF InitfsReadDir
  <2>2. CASE ~InitfsProbe(d.of[1])
    <3>1. name = IF d.index < Len(entries) THEN entries[d.index + 1].name ELSE NULL
      BY <2>2, <1>9 DEF VfsReadDir
    <3> HIDE DEF entries
    <3>2. QED
      BY <3>1, <1>3, <1>5, <1>7
  <2>3. QED
    BY <2>1, <2>2
<1> HIDE DEF entries
<1>11. name \in STRING /\ d.index + 1 \in 1 .. Len(entries)
  <2>1. d.index + 1 \in 1 .. Len(entries)
    BY <1>5, <1>7, <1>10
  <2>2. entries[d.index + 1] \in [name : STRING, ino : Nat]
    BY <2>1, <1>7, SeqElement
  <2>3. entries[d.index + 1].name \in STRING
    BY <2>2
  <2>4. QED
    BY <2>1, <2>3, <1>10
<1>12. PICK y : y = [d EXCEPT !.index = d.index + 1, !.seen = Append(d.seen, name)]
  OBVIOUS
<1>13. /\ y \in DirRecord /\ y # NULL
       /\ y.node = d.node /\ y.of = d.of /\ y.index = d.index + 1
       /\ y.seen = Append(d.seen, name)
  <2>1. Append(d.seen, name) \in Seq(STRING)
    BY <1>5, <1>11
  <2>2. y = [node |-> d.node, index |-> d.index + 1, of |-> d.of, seen |-> Append(d.seen, name)]
    BY <1>4, <1>12 DEF DirRecord
  <2>3. y \in DirRecord
    BY <2>1, <2>2, <1>5 DEF DirRecord
  <2>4. QED
    BY <2>2, <2>3, NullAssumption
<1>14. DirRight(y)
  <2>1. y.index = Len(y.seen) /\ y.index <= Len(entries)
    BY <1>5, <1>8, <1>11, <1>13
  <2>2. ASSUME NEW k \in 1 .. y.index PROVE y.seen[k] = entries[k].name
    <3>1. CASE k = d.index + 1
      <4>1. y.seen[k] = name
        BY <3>1, <1>5, <1>8, <1>11, <1>13
      <4>2. QED
        BY <4>1, <3>1, <1>10
    <3>2. CASE k # d.index + 1
      <4>1. k \in 1 .. d.index
        BY <3>2, <1>5, <1>13
      <4>2. y.seen[k] = d.seen[k]
        BY <4>1, <1>5, <1>8, <1>11, <1>13
      <4>3. QED
        BY <4>1, <4>2, <1>8
    <3>3. QED
      BY <3>1, <3>2
  <2>3. entries = Image[y.of[1]].inode[y.of[2]].entries
    BY <1>13 DEF entries
  <2>4. StandsFor(y.node, y.of) /\ ~IsRoot(y.node) /\ Image[y.of[1]].inode[y.of[2]] \in InodeRecord
    BY <1>4, <1>13 DEF DirRight
  <2>5. QED
    BY <2>1, <2>2, <2>3, <2>4 DEF DirRight
<1>15. \A m : IsRoot(m)' <=> IsRoot(m)
  BY <1>3 DEF IsRoot
<1>16. DirRight(y)'
  <2>1. ~IsRoot(y.node)
    BY <1>14 DEF DirRight
  <2>2. QED
    BY <2>1, <1>3, <1>14, <1>15, DirRightKept
<1>17. dirs' = [dirs EXCEPT ![dd] = y] /\ y \in DirRecord \cup {NULL}
  <2>1. dirs \in [Dd -> DirRecord \cup {NULL}]
    BY DEF IInv, TypeOK
  <2>2. QED
    BY <2>1, <1>1, <1>3, <1>12, <1>13
<1>18. /\ \A e \in Dd \ {dd} : dirs[e] # NULL => dirs[e].node # y.node
       /\ \A k \in 1 .. Len(procs), e \in Fd : procs[k][e] # NULL => procs[k][e].node # y.node
  BY <1>1, <1>3, <1>13 DEF IInv, DirsApart
<1>19. /\ node' \in [Node -> NodeRecord \cup {NULL}] /\ node' = node /\ UNCHANGED <<mnt, fs, procs>>
       /\ RootsStay
  BY <1>3 DEF IInv, TypeOK, RootsStay
<1>20. QED
  BY <1>16, <1>17, <1>18, <1>19, DirStep, Zenon

\* The node that is freed with a directory descriptor was its own.
LEMMA CloseDirStep ==
  ASSUME IInv, NEW dd \in Dd, CloseDir(dd)
  PROVE  IInv'
<1> DEFINE n == dirs[dd].node
<1>1. /\ dirs[dd] # NULL /\ node' = [node EXCEPT ![n] = NULL]
      /\ dirs' = [dirs EXCEPT ![dd] = NULL] /\ UNCHANGED <<mnt, fs, procs>>
  BY DEF CloseDir
<1>2. n \in Node
  BY <1>1, UsedFacts DEF InUse
<1>3. node' \in [Node -> NodeRecord \cup {NULL}] /\ \A m \in Node : m # n => node'[m] = node[m]
  BY <1>1, <1>2 DEF IInv, TypeOK
<1>4. RootsStay
  <2>1. ~IsRoot(n)
    BY <1>1 DEF IInv, DirsRight, DirRight
  <2>2. QED
    BY <2>1, <1>3, RootFacts DEF IsRoot, RootsStay
<1>5. /\ \A e \in Dd \ {dd} : dirs[e] # NULL => node'[dirs[e].node] = node[dirs[e].node]
      /\ \A k \in 1 .. Len(procs), e \in Fd :
           procs[k][e] # NULL /\ procs[k][e].node # Dangling =>
             node'[procs[k][e].node] = node[procs[k][e].node]
  BY <1>1, <1>3, UsedFacts DEF IInv, DirsApart, InUse
<1>6. NULL \in DirRecord \cup {NULL}
  OBVIOUS
<1>7. QED
  BY <1>1, <1>3, <1>4, <1>5, <1>6, DirStep, Zenon

-----------------------------------------------------------------------------
(* Processes.                                                              *)

\* A new process has no files, and nothing that was there is freed.
LEMMA SpawnStep ==
  ASSUME IInv, NEW path \in Paths, Spawn(path)
  PROVE  IInv'
<1>2. /\ procs' = Append(procs, [fd \in Fd |-> NULL])
      /\ UNCHANGED <<mnt, fs, node, dirs>>
  BY DEF Spawn
<1>3. [fd \in Fd |-> NULL] \in Table
  BY DEF Table
<1>4. /\ procs' \in Seq(Table) /\ procs' # <<>> /\ Len(procs') = Len(procs) + 1
      /\ \A k \in 1 .. Len(procs) : procs'[k] = procs[k]
      /\ \A fd \in Fd : procs'[Len(procs) + 1][fd] = NULL
      /\ Len(procs) \in Nat
  BY <1>2, <1>3 DEF IInv, TypeOK
<1>5. \A k \in 1 .. Len(procs'), fd \in Fd : procs'[k][fd] # NULL =>
        k \in 1 .. Len(procs) /\ procs'[k][fd] = procs[k][fd]
  BY <1>4
<1>6. TypeOK'
  BY <1>2, <1>4 DEF IInv, TypeOK
<1>7. DrivesApart' /\ RootsRight' /\ \A m : IsRoot(m)' <=> IsRoot(m)
  BY <1>2, SystemsKept DEF RootsStay
<1>8. FilesRight'
  <2>1. ASSUME NEW k \in 1 .. Len(procs'), NEW fd \in Fd, NEW x, x = procs'[k][fd], x # NULL
        PROVE  FileRight(x)'
    <3>1. FileRight(x)
      BY <2>1, <1>5 DEF IInv, FilesRight
    <3>2. QED
      BY <3>1, <1>2, FileRightKept
  <2>2. QED
    BY <2>1 DEF FilesRight
<1>9. FilesApart'
  BY <1>5, <1>7 DEF IInv, FilesApart
<1>10. DirsRight'
  BY <1>2, <1>7 DEF IInv, DirsRight, DirRight, StandsFor, IsLive, VolumeOf
<1>11. DirsApart'
  BY <1>2, <1>5 DEF IInv, DirsApart
<1>12. QED
  BY <1>6, <1>7, <1>8, <1>9, <1>10, <1>11 DEF IInv

\* The files of a process that ends take their nodes with them, but not those of
\* other processes, of directories and of mounts.
LEMMA ExitStep ==
  ASSUME IInv, Exit
  PROVE  IInv'
<1> DEFINE left == {procs[Top][fd].node : fd \in {e \in Fd : File(e) # NULL}}
<1>1. /\ Len(procs) > 1 /\ procs' = SubSeq(procs, 1, Len(procs) - 1)
      /\ node' = [n \in Node |-> IF n \in left /\ ~IsRoot(n) THEN NULL ELSE node[n]]
      /\ UNCHANGED <<mnt, fs, dirs>>
  BY DEF Exit, Forget
<1>2. /\ Top \in 1 .. Len(procs) /\ Top = Len(procs) /\ Len(procs) \in Nat
      /\ \A k \in 1 .. Len(procs) : procs[k] \in Table
  BY Fields DEF IInv, Top
<1>3. /\ procs' \in Seq(Table) /\ procs' # <<>> /\ Len(procs') = Len(procs) - 1
      /\ \A k \in 1 .. Len(procs) - 1 : procs'[k] = procs[k]
  <2>1. procs \in Seq(Table)
    BY DEF IInv, TypeOK
  <2>2. Len(procs') = Len(procs) - 1 /\ \A k \in 1 .. Len(procs) - 1 : procs'[k] = procs[k]
    BY <2>1, <1>1, <1>2
  <2>3. procs' \in Seq(Table)
    BY <2>1, <1>1, <1>2
  <2>4. Len(procs') # 0
    BY <2>2, <1>1, <1>2
  <2>5. QED
    BY <2>2, <2>3, <2>4
<1>4. \A k \in 1 .. Len(procs'), fd \in Fd :
        k \in 1 .. Len(procs) /\ k # Top /\ procs'[k][fd] = procs[k][fd]
  BY <1>2, <1>3
<1>5. node' \in [Node -> NodeRecord \cup {NULL}]
  BY <1>1 DEF IInv, TypeOK
<1>6. TypeOK'
  BY <1>1, <1>3, <1>5 DEF IInv, TypeOK
<1>7. \A m \in Node : m \notin left \/ IsRoot(m) => node'[m] = node[m]
  BY <1>1
<1>8. DrivesApart' /\ RootsRight' /\ \A m : IsRoot(m)' <=> IsRoot(m)
  <2>1. RootsStay
    BY <1>7, RootFacts DEF IsRoot, RootsStay
  <2>2. QED
    BY <2>1, <1>1, SystemsKept
<1>9. FilesRight'
  <2>1. ASSUME NEW k \in 1 .. Len(procs'), NEW fd \in Fd, NEW x, x = procs'[k][fd], x # NULL
        PROVE  FileRight(x)'
    <3>1. FileRight(x) /\ k \in 1 .. Len(procs) /\ k # Top /\ x = procs[k][fd]
      BY <2>1, <1>4 DEF IInv, FilesRight
    <3>2. x.node # Dangling => x.node \notin left \/ IsRoot(x.node)
      BY <2>1, <3>1, <1>2 DEF IInv, FilesApart, File
    <3>3. x.node # Dangling => node'[x.node] = node[x.node]
      BY <2>1, <3>1, <3>2, <1>7, UsedFacts DEF InUse
    <3>4. QED
      BY <3>1, <3>3, <1>1, FileRightKept
  <2>2. QED
    BY <2>1 DEF FilesRight
<1>10. FilesApart'
  BY <1>4, <1>8 DEF IInv, FilesApart
<1>11. DirsRight'
  <2>1. ASSUME NEW dd \in Dd, NEW x, x = dirs[dd], x # NULL
        PROVE  DirRight(x)'
    <3>1. DirRight(x)
      BY <2>1 DEF IInv, DirsRight
    <3>2. ~IsRoot(x.node)
      BY <3>1 DEF DirRight
    <3>3. x.node \notin left
      BY <2>1, <1>2 DEF IInv, DirsApart, File
    <3>4. node'[x.node] = node[x.node]
      BY <2>1, <3>3, <1>7, UsedFacts DEF InUse
    <3>5. QED
      BY <3>1, <3>2, <3>4, <1>1, <1>8, DirRightKept
  <2>2. QED
    BY <2>1, <1>1 DEF DirsRight
<1>12. DirsApart'
  BY <1>1, <1>4 DEF IInv, DirsApart
<1>13. QED
  BY <1>6, <1>8, <1>9, <1>10, <1>11, <1>12 DEF IInv

\* A directory is not a program: nothing changes, or a root is lost.
LEMMA SpawnDirectoryStep ==
  ASSUME IInv, NEW path \in Paths, SpawnDirectory(path)
  PROVE  IInv'
<1> DEFINE f == Mounted(path.letter)
<1>1. f \in FileSystem /\ fs[f] # NULL /\ fs[f].root # Dangling
  BY FoundFacts DEF SpawnDirectory
<1>2. CASE IsRootPath(path)
  BY <1>1, <1>2, FreeRootStep DEF SpawnDirectory
<1>3. CASE ~IsRootPath(path)
  <2>1. UNCHANGED <<mnt, fs, node, procs, dirs>>
    BY <1>3 DEF SpawnDirectory
  <2>2. QED
    BY <2>1, Unchanged
<1>4. QED
  BY <1>2, <1>3

-----------------------------------------------------------------------------
(* The theorems.                                                           *)

\* The invariant holds after boot.
LEMMA InitIInv ==
  ASSUME Init
  PROVE  IInv
<1>1. PICK f \in FileSystem, n \in Node, v \in Volume :
        /\ InitfsProbe(v)
        /\ mnt = [d \in Drive |-> IF d = 0 THEN f ELSE NULL]
        /\ fs = [g \in FileSystem |-> IF g = f THEN [vol |-> v, root |-> n] ELSE NULL]
        /\ node = [m \in Node |-> IF m = n THEN NewNode(f, v, Image[v].root) ELSE NULL]
        /\ procs = <<[fd \in Fd |-> NULL]>>
        /\ dirs = [dd \in Dd |-> NULL]
  BY DEF Init
<1> DEFINE root == Image[v].root
<1>2. root \in Nat /\ Image[v].inode[root] \in InodeRecord
  BY ImageAssumption
<1>3. NewNode(f, v, root) \in NodeRecord
  BY <1>2, NewNodeType
<1>4. [vol |-> v, root |-> n] \in SystemRecord /\ [vol |-> v, root |-> n] # NULL
  BY NullAssumption DEF SystemRecord
<1>5. procs \in Seq(Table) /\ procs # <<>> /\ Len(procs) = 1 /\ \A fd \in Fd : procs[1][fd] = NULL
  <2>1. [fd \in Fd |-> NULL] \in Table
    BY DEF Table
  <2>2. QED
    BY <2>1, <1>1
<1>6. TypeOK
  BY <1>1, <1>3, <1>4, <1>5 DEF TypeOK
<1>7. DrivesApart
  BY <1>1, <1>4, FilesAssumption DEF DrivesApart, Drive
<1>8. RootsRight
  BY <1>1 DEF RootsRight
<1>9. FilesRight /\ FilesApart
  BY <1>5 DEF FilesRight, FilesApart
<1>10. DirsRight /\ DirsApart
  BY <1>1 DEF DirsRight, DirsApart
<1>11. QED
  BY <1>6, <1>7, <1>8, <1>9, <1>10 DEF IInv

\* Every step keeps the invariant.
LEMMA NextIInv ==
  ASSUME IInv, [Next]_vars
  PROVE  IInv'
<1>1. CASE MntIo
  BY <1>1, MountStep, UnmountStep DEF MntIo
<1>2. CASE FsIo
  BY <1>2, OpenStep, CloseStep, ReadWriteSeekStep DEF FsIo
<1>3. CASE DirIo
  BY <1>3, OpenDirStep, OpenDirExhaustedStep, ReadDirStep, CloseDirStep DEF DirIo
<1>4. CASE Proc
  BY <1>4, SpawnStep, SpawnDirectoryStep, ExitStep DEF Proc
<1>5. CASE SeekIo
  BY <1>5, ReadWriteSeekStep DEF SeekIo
<1>6. CASE FollowDangling \/ Lost \/ UNCHANGED vars
  BY <1>6, Unchanged DEF FollowDangling, Lost, vars
<1>7. QED
  BY <1>1, <1>2, <1>3, <1>4, <1>5, <1>6 DEF Next

\* The invariant always holds.
LEMMA FilesInductive == Spec => []IInv
<1>1. Init => IInv
  BY InitIInv
<1>2. IInv /\ [Next]_vars => IInv'
  BY NextIInv
<1>3. QED
  BY <1>1, <1>2, PTL DEF Spec

\* But for what unmounting and the freeing of a root leave dangling, nothing the kernel
\* can still reach has been freed by file_close, dir_close, file_stat, unmounting or
\* the end of a process: not on other drives, and not through other descriptors.
THEOREM FilesNothingDangles == Spec => []NothingDangles
<1>1. ASSUME IInv PROVE NothingDangles
  <2>1. ASSUME NEW d \in Drive, mnt[d] # NULL
        PROVE  fs[mnt[d]] # NULL /\ (fs[mnt[d]].root # Dangling => RootLive(mnt[d]))
    <3>1. mnt[d] \in FileSystem /\ fs[mnt[d]] # NULL
      BY <1>1, <2>1 DEF IInv, TypeOK, DrivesApart
    <3>2. QED
      BY <1>1, <3>1, RootFacts DEF RootLive
  <2>2. ASSUME NEW n \in UsedNodes PROVE IsLive(n)
    <3>1. CASE n \in {procs[o[1]][o[2]].node : o \in OpenFiles}
      <4>1. PICK o \in OpenFiles : n = procs[o[1]][o[2]].node
        BY <3>1
      <4>2. o[1] \in 1 .. Len(procs) /\ o[2] \in Fd /\ procs[o[1]][o[2]] # NULL
        BY <1>1, Fields DEF OpenFiles, IInv
      <4>3. InUse(n)
        BY <1>1, <4>1, <4>2, UsedFacts DEF UsedNodes
      <4>4. QED
        BY <4>3 DEF IsLive, InUse
    <3>2. CASE n \in {dirs[dd].node : dd \in OpenDirs}
      BY <1>1, <3>2, UsedFacts DEF IsLive, InUse, OpenDirs
    <3>3. QED
      BY <3>1, <3>2 DEF UsedNodes
  <2>3. QED
    BY <2>1, <2>2 DEF NothingDangles
<1>2. QED
  BY <1>1, FilesInductive, PTL

\* While its drive is mounted a descriptor stands for the file or directory its opener
\* named as long as it is open, and closing one frees no other's node.
THEOREM FilesKeepTheirFile == Spec => []DescriptorsKeepTheirFile
<1>1. ASSUME IInv PROVE DescriptorsKeepTheirFile
  <2>1. ASSUME NEW o \in OpenFiles, Usable(procs[o[1]][o[2]])
        PROVE  LET f == procs[o[1]][o[2]]
               IN IsLive(f.node) /\ <<VolumeOf(f.node), node[f.node].ino>> = f.of
    <3>1. o[1] \in 1 .. Len(procs) /\ o[2] \in Fd /\ procs[o[1]][o[2]] # NULL
      BY <1>1, Fields DEF OpenFiles, IInv
    <3>2. FileRight(procs[o[1]][o[2]])
      BY <1>1, <3>1 DEF IInv, FilesRight
    <3>3. QED
      BY <2>1, <3>2 DEF FileRight, StandsFor, Usable
  <2>2. ASSUME NEW dd \in OpenDirs
        PROVE  /\ IsLive(dirs[dd].node)
               /\ Usable(dirs[dd]) =>
                    <<VolumeOf(dirs[dd].node), node[dirs[dd].node].ino>> = dirs[dd].of
               /\ ~IsRoot(dirs[dd].node)
               /\ \A e \in OpenDirs \ {dd} : dirs[e].node # dirs[dd].node
    <3>1. DirRight(dirs[dd]) /\ \A e \in OpenDirs \ {dd} : dirs[e].node # dirs[dd].node
      BY <1>1 DEF IInv, DirsRight, DirsApart, OpenDirs
    <3>2. QED
      BY <3>1 DEF DirRight, StandsFor, Usable
  <2>3. QED
    BY <2>1, <2>2 DEF DescriptorsKeepTheirFile
<1>2. QED
  BY <1>1, FilesInductive, PTL

\* For every word size, length, read size and distance, the offset of an open file
\* stays within the file although the sums of file_read and file_seek wrap.
THEOREM FilesOffsetInFile == Spec => []OffsetInFile
<1>1. ASSUME IInv PROVE OffsetInFile
  <2>1. ASSUME NEW o \in OpenFiles
        PROVE  procs[o[1]][o[2]].offset \in 0 .. procs[o[1]][o[2]].size
    <3>1. o[1] \in 1 .. Len(procs) /\ o[2] \in Fd /\ procs[o[1]][o[2]] # NULL
      BY <1>1, Fields DEF OpenFiles, IInv
    <3>2. PICK x : x = procs[o[1]][o[2]]
      OBVIOUS
    <3>3. FileRight(x) /\ x \in FileRecord
      BY <1>1, <3>1, <3>2, Fields DEF IInv, FilesRight
    <3>4. x.offset <= x.size
      BY <3>3 DEF FileRight
    <3>5. x.offset \in 0 .. Word - 1 /\ x.size \in 0 .. Word - 1
      BY <3>3 DEF FileRecord
    <3>6. x.offset \in 0 .. x.size
      BY <3>4, <3>5, FilesAssumption
    <3>7. QED
      BY <3>2, <3>6
  <2>2. QED
    BY <2>1 DEF OffsetInFile
<1>2. QED
  BY <1>1, FilesInductive, PTL

\* What readdir has returned through a descriptor are the first entries of the
\* directory that was opened, in their order, whatever happened in between.
THEOREM FilesListingsInOrder == Spec => []ListingsInOrder
<1>1. ASSUME IInv PROVE ListingsInOrder
  <2>1. ASSUME NEW dd \in OpenDirs
        PROVE  LET entries == Image[dirs[dd].of[1]].inode[dirs[dd].of[2]].entries
                   seen == dirs[dd].seen
               IN /\ Len(seen) <= Len(entries)
                  /\ seen = [k \in 1 .. Len(seen) |-> entries[k].name]
    <3> DEFINE entries == Image[dirs[dd].of[1]].inode[dirs[dd].of[2]].entries
               seen == dirs[dd].seen
    <3>1. dirs[dd] # NULL /\ dirs[dd] \in DirRecord /\ DirRight(dirs[dd])
      BY <1>1 DEF IInv, TypeOK, DirsRight, OpenDirs
    <3>2. seen \in Seq(STRING)
      BY <3>1 DEF DirRecord
    <3>3. /\ Len(seen) <= Len(entries)
          /\ \A k \in 1 .. Len(seen) : seen[k] = entries[k].name
      BY <3>1 DEF DirRight
    <3> HIDE DEF entries, seen
    <3>4. seen = [k \in 1 .. Len(seen) |-> seen[k]]
      BY <3>2
    <3>5. QED
      BY <3>3, <3>4 DEF entries, seen
  <2>2. QED
    BY <2>1 DEF ListingsInOrder
<1>2. QED
  BY <1>1, FilesInductive, PTL
=============================================================================
