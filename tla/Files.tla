-------------------------------- MODULE Files --------------------------------
(***************************************************************************)
(* Mounted volumes, open files and open directories: the mount table       *)
(* (fs/mount.c), the path walk and the dispatch to a file system           *)
(* (fs/vfs.c), the part of initfs.c and ext2.c that creates and destroys   *)
(* file systems and nodes, file descriptors (io/file.c), directory         *)
(* descriptors (io/dir.c), and the system calls on them.                   *)
(*                                                                         *)
(* What the model keeps is who points at what: descriptors and mounts      *)
(* point at vfs_node_t structures, nodes at file systems, and kfree makes  *)
(* a structure's address available to the next kmalloc.  Node and          *)
(* FileSystem are the addresses such structures can have.  A structure     *)
(* nobody points at any more but that was never freed (the node of a       *)
(* closed file, the nodes along a path) is dropped from the model, whose   *)
(* addresses are those of interest and not all the memory there is.        *)
(*                                                                         *)
(* Nothing in the kernel keeps a program from unmounting a drive on which  *)
(* files are open, and two calls free the root of a drive.  The pointers   *)
(* that are left behind are Dangling.  What the kernel does when it        *)
(* follows one of them is not modelled: the model ends there.              *)
(*                                                                         *)
(* What is on the volumes does not change (both file systems are           *)
(* read-only) and is a constant; how ext2 finds it on the disk is the      *)
(* subject of the module Ext2.                                             *)
(***************************************************************************)
EXTENDS Integers, Sequences, FiniteSets

CONSTANTS
  Node, FileSystem,   \* addresses of vfs_node_t and vfs_filesystem_t
  Volume, Image,      \* Image[v]: the contents of volume v, see below
  NDrives,            \* FS_VOLUME_MAX_MOUNTPOINTS
  MaxFd,              \* PROCESS_MAX_FILE_DESCRIPTORS
  NDirs,              \* MAX_DIR_DESCRIPTORS
  Word,               \* 2^32: size_t and uint32_t wrap here
  MaxProcesses,       \* bound: programs that wait for one another
  Letters, Paths,     \* the drive letters and paths programs use
  Modes,              \* the access programs ask for, subsets of {"rd", "wr"}
  Sizes, SeekOffsets, \* the sizes read and the distances sought, as words
  Dangling,           \* a pointer to a node or file system that was freed
  NULL

ASSUME FilesAssumption ==
  /\ NULL \notin Node \cup FileSystem \cup Volume
  /\ Dangling \notin Node \cup FileSystem \cup {NULL}
  /\ NDrives \in Nat /\ MaxFd \in Nat /\ NDirs \in Nat
  /\ Word \in Nat \ {0}
  /\ MaxProcesses \in Nat \ {0}
  /\ Paths \subseteq [abs : BOOLEAN, letter : STRING, names : Seq(STRING)]
  /\ Sizes \subseteq 0 .. Word - 1 /\ SeekOffsets \subseteq 0 .. Word - 1

Drive == 0 .. NDrives - 1
Fd == 3 .. MaxFd - 1     \* the descriptors behind stdin, stdout and stderr
Dd == 0 .. NDirs - 1

(* Image[v] is [kind, root, inode, ok]: kind is "initfs", "ext2" or, for a *)
(* volume no driver recognises, "none"; inode maps inode numbers to        *)
(* [type, length, entries, opens] with entries a sequence of [name, ino];  *)
(* opens says that the file's own header is sound (INITFS_FILE_HEADER_     *)
(* MAGIC), ok that the root inode can be read.                             *)

InodeRecord ==
  [type : STRING, length : 0 .. Word - 1, entries : Seq([name : STRING, ino : Nat]),
   opens : BOOLEAN]

\* A volume has the directory its root inode stands for.  The initial ramdisk has
\* no other one: initfs_finddir makes every entry a file.
ASSUME ImageAssumption ==
  \A v \in Volume :
    /\ Image[v].root \in DOMAIN Image[v].inode
    /\ Image[v].inode[Image[v].root].type = "dir"
    /\ \A i \in DOMAIN Image[v].inode : i \in Nat /\ Image[v].inode[i] \in InodeRecord
    /\ Image[v].kind = "initfs" =>
         \A i \in DOMAIN Image[v].inode :
           \A k \in DOMAIN Image[v].inode[i].entries :
             LET e == Image[v].inode[i].entries[k].ino
             IN e \in DOMAIN Image[v].inode => Image[v].inode[e].type = "file"

(* The structures: vfs_filesystem_t, vfs_node_t, file_descriptor_t and     *)
(* dir_descriptor_t.                                                       *)
SystemRecord == [vol : Volume, root : Node \cup {Dangling}]
NodeRecord ==
  [fs : FileSystem \cup {Dangling}, ino : Nat, type : STRING,
   data : {"null", "garbage", "loaded"}]
FileRecord ==
  [node : Node \cup {Dangling}, size : 0 .. Word - 1, offset : 0 .. Word - 1, flags : Modes,
   of : Volume \X Nat]
DirRecord == [node : Node, index : Nat, of : Volume \X Nat, seen : Seq(STRING)]

ASSUME NullAssumption ==
  /\ NULL \notin SystemRecord /\ NULL \notin NodeRecord
  /\ NULL \notin FileRecord /\ NULL \notin DirRecord

VARIABLES
  mnt,    \* mnt_mountpoints: drive -> file system or NULL
  fs,     \* address -> [vol, root], NULL when the address is free
  node,   \* address -> [fs, ino, type, data], NULL when it is free
  procs,  \* the running process and, before it, those that wait for it:
          \* their files[], each NULL or [node, size, offset, flags, of]
  dirs,   \* dir_descriptors: NULL or [node, index, of, seen]
  lost    \* the kernel has followed a dangling pointer

\* In a descriptor, of is the <<volume, inode>> its opener named and seen are
\* the names readdir has returned: what a caller of the interface knows.

vars == <<mnt, fs, node, procs, dirs, lost>>

-----------------------------------------------------------------------------
(* Drive letters, paths and nodes.                                         *)

\* mnt_get_drive_index: letters of both cases name a drive, nothing else does.
DriveIndex(letter) ==
  CASE letter \in {"A", "a"} -> 0
    [] letter \in {"B", "b"} -> 1
    [] OTHER -> -1

\* mnt_get_drive and mnt_get_mountpoint
Mounted(letter) ==
  IF DriveIndex(letter) \in Drive THEN mnt[DriveIndex(letter)] ELSE NULL

\* vfs_is_abs_path; a path is [abs, letter, names], names the parts between
\* its slashes.
IsAbsPath(path) == path.abs /\ DriveIndex(path.letter) # -1

\* initfs_probe and ext2_probe: each file system has its magic number.
InitfsProbe(v) == Image[v].kind = "initfs"
Ext2Probe(v) == Image[v].kind = "ext2"

\* ext2_build_node: the structure for inode i of file system f.
BuildNode(f, v, i) ==
  [fs |-> f, ino |-> i, type |-> Image[v].inode[i].type, data |-> "null"]

\* The structure that initfs_finddir and initfs_mount fill leaves inode_data as
\* kmalloc returned it.
InitfsNode(f, v, i) == [BuildNode(f, v, i) EXCEPT !.data = "garbage"]

NewNode(f, v, i) == IF InitfsProbe(v) THEN InitfsNode(f, v, i) ELSE BuildNode(f, v, i)

\* initfs_finddir: the index of the first file of that name.  ext2_finddir walks
\* the directory's entries.
FirstEntry(v, i, name) ==
  LET entries == Image[v].inode[i].entries
      hits == {k \in DOMAIN entries : entries[k].name = name}
  IN IF hits = {} THEN NULL
     ELSE entries[CHOOSE k \in hits : \A l \in hits : k <= l].ino

\* vfs_finddir: only directories are searched.  ext2 reads the inode it has found
\* at once and finds nothing when it cannot.
FindDir(v, i, name) ==
  LET first == FirstEntry(v, i, name)
  IN IF Image[v].inode[i].type # "dir" \/ first \notin DOMAIN Image[v].inode
     THEN NULL ELSE first

\* vfs_findpath from the root of volume v: the inode the path names, NULL if
\* there is none.  A part that is not a directory has no entries to find.
FindPath(v, names) ==
  LET walk[k \in 0 .. Len(names)] ==
        IF k = 0 THEN Image[v].root
        ELSE IF walk[k - 1] = NULL THEN NULL
        ELSE FindDir(v, walk[k - 1], names[k])
  IN walk[Len(names)]

\* A drive whose root was freed: nothing can be looked up on it, see FollowDangling.
Rootless(letter) == Mounted(letter) # NULL /\ fs[Mounted(letter)].root = Dangling

\* What the walk from a mounted root finds.  With no part in the path it is
\* the mount's own root node, otherwise a new structure.
Found(path) ==
  IF ~IsAbsPath(path) \/ Mounted(path.letter) = NULL \/ Rootless(path.letter) THEN NULL
  ELSE FindPath(fs[Mounted(path.letter)].vol, path.names)

IsRootPath(path) == path.names = <<>>

Type(n) == IF node[n] = NULL THEN "freed" ELSE node[n].type
VolumeOf(n) == fs[node[n].fs].vol

FreeNodes == {n \in Node : node[n] = NULL}
FreeSystems == {f \in FileSystem : fs[f] = NULL}

-----------------------------------------------------------------------------
(* Mounting.                                                               *)

\* kmain mounts the initial ramdisk on drive A before the first process.
Init ==
  \E f \in FileSystem, n \in Node, v \in Volume :
    /\ InitfsProbe(v)
    /\ mnt = [d \in Drive |-> IF d = 0 THEN f ELSE NULL]
    /\ fs = [g \in FileSystem |-> IF g = f THEN [vol |-> v, root |-> n] ELSE NULL]
    /\ node = [m \in Node |-> IF m = n THEN NewNode(f, v, Image[v].root) ELSE NULL]
    /\ procs = <<[fd \in Fd |-> NULL]>>
    /\ dirs = [dd \in Dd |-> NULL]
    /\ lost = FALSE

\* initfs_init and ext2_init: the structure of a file system whose root is made
\* by its mount operation.
NewSystem(v) == [vol |-> v, root |-> NULL]

\* initfs_mount: the root directory, which is not stored.
InitfsMount(f, v, n) ==
  /\ fs' = [fs EXCEPT ![f] = [NewSystem(v) EXCEPT !.root = n]]
  /\ node' = [node EXCEPT ![n] = InitfsNode(f, v, Image[v].root)]

\* ext2_mount: fails when the root inode cannot be read, after which everything
\* that ext2_init allocated is freed again.
Ext2Mount(f, v, n) ==
  /\ Image[v].ok
  /\ fs' = [fs EXCEPT ![f] = [NewSystem(v) EXCEPT !.root = n]]
  /\ node' = [node EXCEPT ![n] = BuildNode(f, v, Image[v].root)]

\* mnt_volume_mount: initfs is tried first, a volume of neither kind is refused.
VolumeMount(d, v) ==
  \E f \in FreeSystems, n \in FreeNodes :
    /\ mnt' = [mnt EXCEPT ![d] = f]
    /\ \/ InitfsProbe(v) /\ InitfsMount(f, v, n)
       \/ Ext2Probe(v) /\ Ext2Mount(f, v, n)

\* syscall_mount
Mount(letter, v) ==
  /\ DriveIndex(letter) \in Drive
  /\ Mounted(letter) = NULL
  /\ VolumeMount(DriveIndex(letter), v)
  /\ UNCHANGED <<procs, dirs>>

\* The addresses that descriptors point at.
OpenFiles == {o \in (DOMAIN procs) \X Fd : procs[o[1]][o[2]] # NULL}
OpenDirs == {dd \in Dd : dirs[dd] # NULL}
UsedNodes ==
  ({procs[o[1]][o[2]].node : o \in OpenFiles} \cup {dirs[dd].node : dd \in OpenDirs}) \ {Dangling}

\* The tables of open files when node r, a mount's root, is freed: a file that was
\* opened as the root itself loses its node.
Bereft(r) ==
  [k \in DOMAIN procs |-> [fd \in Fd |->
     IF procs[k][fd] # NULL /\ procs[k][fd].node = r
     THEN [procs[k][fd] EXCEPT !.node = Dangling] ELSE procs[k][fd]]]

\* initfs_unmount and ext2_unmount: the root node and the file system are freed,
\* whether or not files and directories on it are open.  Their nodes stay.
FsUnmount(f) ==
  /\ node' = [n \in Node |->
                IF n = fs[f].root THEN NULL
                ELSE IF node[n] # NULL /\ node[n].fs = f THEN [node[n] EXCEPT !.fs = Dangling]
                ELSE node[n]]
  /\ procs' = Bereft(fs[f].root)
  /\ fs' = [fs EXCEPT ![f] = NULL]

\* mnt_volume_unmount
VolumeUnmount(d) ==
  /\ FsUnmount(mnt[d])
  /\ mnt' = [mnt EXCEPT ![d] = NULL]

\* syscall_unmount
Unmount(letter) ==
  /\ Mounted(letter) # NULL /\ ~Rootless(letter)
  /\ VolumeUnmount(DriveIndex(letter))
  /\ UNCHANGED dirs

\* kfree of the node that a path walk has found, when that is the root of f itself.
FreeRoot(f) ==
  /\ node' = [node EXCEPT ![fs[f].root] = NULL]
  /\ procs' = Bereft(fs[f].root)
  /\ fs' = [fs EXCEPT ![f].root = Dangling]

-----------------------------------------------------------------------------
(* Files.  The running process is the last one.                            *)

Top == Len(procs)
File(fd) == procs[Top][fd]

\* A node that is leaked is forgotten, unless it is a mount's root.
IsRoot(n) == \E f \in FileSystem : fs[f] # NULL /\ fs[f].root = n
Forget(nodes) == [n \in Node |-> IF n \in nodes /\ ~IsRoot(n) THEN NULL ELSE node[n]]

\* initfs_open: the header of a file is loaded and checked.  Directories need
\* nothing.
OpensOk(v, i) == Image[v].inode[i].type = "dir" \/ Image[v].inode[i].opens

\* ext2_open: the same with the inode.
Loaded(n) == IF n.type = "dir" THEN n ELSE [n EXCEPT !.data = "loaded"]

FirstFreeFd(files) ==
  LET free == {fd \in Fd : files[fd] = NULL}
  IN IF free = {} THEN -1 ELSE CHOOSE fd \in free : \A e \in free : fd <= e

Descriptor(n, v, i, flags) ==
  [node |-> n, size |-> Image[v].inode[i].length, offset |-> 0, flags |-> flags,
   of |-> <<v, i>>]

\* file_open into the slot fd.  When vfs_open fails, descriptor and node are freed
\* again and nothing changes.
FileOpen(fd, path, flags) ==
  LET f == Mounted(path.letter)
      i == Found(path)
  IN /\ i # NULL
     /\ OpensOk(fs[f].vol, i)
     /\ \E n \in (IF IsRootPath(path) THEN {fs[f].root} ELSE FreeNodes) :
          /\ node' = IF IsRootPath(path) THEN node
                     ELSE [node EXCEPT ![n] = Loaded(NewNode(f, fs[f].vol, i))]
          /\ procs' = [procs EXCEPT ![Top][fd] = Descriptor(n, fs[f].vol, i, flags)]

\* syscall_open without FILE_CREAT, which it refuses.
Open(path, flags) ==
  /\ FirstFreeFd(procs[Top]) # -1
  /\ FileOpen(FirstFreeFd(procs[Top]), path, flags)
  /\ UNCHANGED <<mnt, fs, dirs>>

\* initfs_close frees inode_data whatever is in it.  Nothing was loaded for the root
\* of the initial ramdisk, which open opens like a file: the pointer is what kmalloc
\* left there.  ext2_close knows that a directory has none.
ClosesGarbage(n) == node[n].data = "garbage"

\* file_close: inode_data and the descriptor are freed, the node is leaked.
FileClose(fd) ==
  LET n == File(fd).node
  IN /\ n # Dangling /\ ~ClosesGarbage(n)
     /\ node' = Forget({n})

\* syscall_close
Close(fd) ==
  /\ File(fd) # NULL
  /\ FileClose(fd)
  /\ procs' = [procs EXCEPT ![Top][fd] = NULL]
  /\ UNCHANGED <<mnt, fs, dirs>>

\* size_t arithmetic, and the sign of a word read as int32_t.
Plus(a, b) == (a + b) % Word
Minus(a, b) == (a - b + Word) % Word
IsNegative(a) == 2 * a >= Word

\* initfs_read and ext2_read: how many bytes they deliver, or -1.  Both clamp
\* the size to what the loaded inode says the file has.
FsRead(n, offset, size) ==
  LET length == Image[VolumeOf(n)].inode[node[n].ino].length
      bytes == IF offset > length THEN 0
               ELSE IF Plus(offset, size) > length THEN Minus(length, offset)
               ELSE size
  IN IF node[n].data # "loaded" \/ IsNegative(bytes) THEN -1 ELSE bytes

\* vfs_read: only files are read.
VfsRead(n, offset, size) == IF Type(n) = "file" THEN FsRead(n, offset, size) ELSE -1

\* vfs_write: initfs_write and ext2_write refuse.
VfsWrite(n, offset, size) == -1

\* Mutant: the size is not clamped and the file system's clamp is trusted to
\* see the whole range.
FileReadForgetsOffset(f, size) ==
  LET bytes == IF size > f.size THEN f.size ELSE size
  IN IF "rd" \notin f.flags \/ VfsRead(f.node, f.offset, bytes) < 0 THEN f
     ELSE [f EXCEPT !.offset = Plus(@, bytes)]

\* file_read: the descriptor it leaves.
FileRead(f, size) ==
  LET clamped == IF Plus(f.offset, size) > f.size THEN Minus(f.size, f.offset) ELSE size
      bytes == VfsRead(f.node, f.offset, clamped)
  IN IF "rd" \notin f.flags \/ bytes < 0 THEN f ELSE [f EXCEPT !.offset = Plus(@, bytes)]

\* file_write
FileWrite(f, size) ==
  LET clamped == IF Plus(f.offset, size) > f.size THEN Minus(f.size, f.offset) ELSE size
      bytes == VfsWrite(f.node, f.offset, clamped)
  IN IF "wr" \notin f.flags \/ bytes < 0 THEN f ELSE [f EXCEPT !.offset = Plus(@, bytes)]

\* file_seek.  The offset is unsigned: a seek to before the beginning wraps and
\* is clamped to the end of the file like any other that is too large.
FileSeek(f, whence, distance) ==
  LET to == CASE whence = "cur" -> Plus(f.offset, distance)
              [] whence = "begin" -> distance
              [] OTHER -> Plus(f.size, distance)
  IN [f EXCEPT !.offset = IF to > f.size THEN f.size ELSE to]

\* A read looks at the node, and if that is a file's at the volume of its file system.
ReadsDangling(f) ==
  /\ "rd" \in f.flags
  /\ f.node # Dangling => Type(f.node) = "file" /\ node[f.node].fs = Dangling
WritesDangling(f) == "wr" \in f.flags /\ f.node = Dangling

\* syscall_read, syscall_write on a file, and file_seek, which the kernel offers
\* but no system call reaches yet.
Read(fd, size) ==
  /\ File(fd) # NULL /\ ~ReadsDangling(File(fd))
  /\ procs' = [procs EXCEPT ![Top][fd] = FileRead(@, size)]
  /\ UNCHANGED <<mnt, fs, node, dirs>>

Write(fd, size) ==
  /\ File(fd) # NULL /\ ~WritesDangling(File(fd))
  /\ procs' = [procs EXCEPT ![Top][fd] = FileWrite(@, size)]
  /\ UNCHANGED <<mnt, fs, node, dirs>>

Seek(fd, whence, distance) ==
  /\ File(fd) # NULL
  /\ procs' = [procs EXCEPT ![Top][fd] = FileSeek(@, whence, distance)]
  /\ UNCHANGED <<mnt, fs, node, dirs>>

-----------------------------------------------------------------------------
(* Directories.  The table is the kernel's, not a process's: a descriptor  *)
(* stays open when the process that opened it ends, and any process may    *)
(* use it.                                                                 *)

FirstFreeDd ==
  LET free == {dd \in Dd : dirs[dd] = NULL}
  IN IF free = {} THEN -1 ELSE CHOOSE dd \in free : \A e \in free : dd <= e

\* Mutant: the mount's root itself is handed out.
OpenDirSharesRoot(path) ==
  LET f == Mounted(path.letter)
      i == Found(path)
  IN /\ i # NULL
     /\ Image[fs[f].vol].inode[i].type = "dir"
     /\ FirstFreeDd # -1
     /\ \E n \in (IF IsRootPath(path) THEN {fs[f].root} ELSE FreeNodes) :
          /\ node' = [node EXCEPT ![n] = NewNode(f, fs[f].vol, i)]
          /\ dirs' = [dirs EXCEPT ![FirstFreeDd] =
                        [node |-> n, index |-> 0, of |-> <<fs[f].vol, i>>, seen |-> <<>>]]
     /\ UNCHANGED <<mnt, fs, procs>>

\* syscall_opendir and dir_open.  The root node is copied.
OpenDir(path) ==
  LET f == Mounted(path.letter)
      i == Found(path)
  IN /\ i # NULL
     /\ Image[fs[f].vol].inode[i].type = "dir"
     /\ FirstFreeDd # -1
     /\ \E n \in FreeNodes :
          /\ node' = [node EXCEPT ![n] = NewNode(f, fs[f].vol, i)]
          /\ dirs' = [dirs EXCEPT ![FirstFreeDd] =
                        [node |-> n, index |-> 0, of |-> <<fs[f].vol, i>>, seen |-> <<>>]]
     /\ UNCHANGED <<mnt, fs, procs>>

\* dir_open with every descriptor in use frees the node it has found, and for
\* the path of a root that is the mount's own.
OpenDirExhausted(path) ==
  LET f == Mounted(path.letter)
  IN /\ Found(path) # NULL
     /\ Image[fs[f].vol].inode[Found(path)].type = "dir"
     /\ FirstFreeDd = -1
     /\ IF IsRootPath(path) THEN FreeRoot(f) ELSE UNCHANGED <<fs, node, procs>>
     /\ UNCHANGED <<mnt, dirs>>

\* initfs_readdir: the index-th file, NULL past the last and for a file whose
\* header is not sound, which therefore ends the listing.
InitfsReadDir(v, i, index) ==
  LET entries == Image[v].inode[i].entries
  IN IF index >= Len(entries) \/ ~Image[v].inode[entries[index + 1].ino].opens THEN NULL
     ELSE entries[index + 1].name

\* vfs_readdir; ext2_readdir gives the index-th entry (Ext2!ReadDir).
VfsReadDir(v, i, index) ==
  LET entries == Image[v].inode[i].entries
  IN IF InitfsProbe(v) THEN InitfsReadDir(v, i, index)
     ELSE IF index < Len(entries) THEN entries[index + 1].name ELSE NULL

\* Mutant: the position moves although nothing was read to the end.
ReadDirSkips(dd) ==
  LET d == dirs[dd]
      name == VfsReadDir(VolumeOf(d.node), node[d.node].ino, d.index)
  IN /\ d # NULL /\ node[d.node].fs # Dangling
     /\ Type(d.node) = "dir"
     /\ name # NULL
     /\ dirs' = [dirs EXCEPT ![dd].index = @ + 2, ![dd].seen = Append(@, name)]
     /\ UNCHANGED <<mnt, fs, node, procs>>

\* dir_read, when there is an entry left.
DirRead(dd) ==
  LET d == dirs[dd]
      name == VfsReadDir(VolumeOf(d.node), node[d.node].ino, d.index)
  IN /\ Type(d.node) = "dir"
     /\ name # NULL
     /\ dirs' = [dirs EXCEPT ![dd].index = @ + 1, ![dd].seen = Append(@, name)]

\* syscall_readdir: the entry is copied to the caller and freed.
ReadDir(dd) ==
  /\ dirs[dd] # NULL /\ node[dirs[dd].node].fs # Dangling
  /\ DirRead(dd)
  /\ UNCHANGED <<mnt, fs, node, procs>>

\* Mutant: the descriptor keeps pointing at the node that was freed.
CloseDirKeepsNode(dd) ==
  /\ dirs[dd] # NULL
  /\ node' = [node EXCEPT ![dirs[dd].node] = NULL]
  /\ UNCHANGED <<mnt, fs, procs, dirs>>

\* syscall_closedir and dir_close.  The name is the node's first member: the
\* two kfree free one address (KernelHeap!DoubleFreeHarmless).
CloseDir(dd) ==
  /\ dirs[dd] # NULL
  /\ node' = [node EXCEPT ![dirs[dd].node] = NULL]
  /\ dirs' = [dirs EXCEPT ![dd] = NULL]
  /\ UNCHANGED <<mnt, fs, procs>>

-----------------------------------------------------------------------------
(* Processes, as far as they have to do with files.                        *)

\* file_stat: finds out whether a path is a file's, and frees the node it has
\* found.  For the path of a root that is the mount's own.
StatIsFile(path) ==
  /\ Found(path) # NULL
  /\ Image[fs[Mounted(path.letter)].vol].inode[Found(path)].type = "file"

\* process_create finds an executable: file_stat finds a file with bytes in it
\* (no memory can be allocated for an empty one, and the kernel panics) and
\* file_open, file_read and file_close work.  The nodes they used are gone.
Spawn(path) ==
  LET v == fs[Mounted(path.letter)].vol
  IN /\ Len(procs) < MaxProcesses
     /\ StatIsFile(path)
     /\ Image[v].inode[Found(path)].length > 0
     /\ OpensOk(v, Found(path))
     /\ procs' = Append(procs, [fd \in Fd |-> NULL])
     /\ UNCHANGED <<mnt, fs, node, dirs>>

\* process_create refuses what is not a file, for which file_stat has freed the root
\* of a drive if the path was that one's.
SpawnDirectory(path) ==
  /\ Found(path) # NULL /\ ~StatIsFile(path)
  /\ IF IsRootPath(path) THEN FreeRoot(Mounted(path.letter)) ELSE UNCHANGED <<fs, node, procs>>
  /\ UNCHANGED <<mnt, dirs>>

\* process_terminate and process_destroy: the descriptors of the process are
\* neither closed nor freed, its files are leaked, its directories stay open.
Exit ==
  LET left == {procs[Top][fd].node : fd \in {e \in Fd : File(e) # NULL}}
  IN /\ Len(procs) > 1
     /\ procs' = SubSeq(procs, 1, Len(procs) - 1)
     /\ node' = Forget(left)
     /\ UNCHANGED <<mnt, fs, dirs>>

-----------------------------------------------------------------------------
(* What a program can ask for, one system call at a time: the wrappers of  *)
(* libsys put the call's number and arguments into registers.              *)

MntIo ==
  \/ \E l \in Letters, v \in Volume : Mount(l, v)
  \/ \E l \in Letters : Unmount(l)

FsIo ==
  \/ \E p \in Paths, flags \in Modes : Open(p, flags)
  \/ \E fd \in Fd : Close(fd)
  \/ \E fd \in Fd, size \in Sizes : Read(fd, size) \/ Write(fd, size)

DirIo ==
  \/ \E p \in Paths : OpenDir(p) \/ OpenDirExhausted(p)
  \/ \E dd \in Dd : ReadDir(dd) \/ CloseDir(dd)

Proc ==
  \/ \E p \in Paths : Spawn(p) \/ SpawnDirectory(p)
  \/ Exit

SeekIo ==
  \E fd \in Fd, whence \in {"cur", "begin", "end"}, distance \in SeekOffsets :
    Seek(fd, whence, distance)

\* The calls that follow a pointer to freed memory, or free one that was never set: a
\* path on a drive without a root, unmounting it, a file or directory whose node or
\* file system is gone.
FollowDangling ==
  /\ \/ \E p \in Paths : IsAbsPath(p) /\ Rootless(p.letter)
     \/ \E l \in Letters : Rootless(l)
     \/ \E fd \in Fd : /\ File(fd) # NULL
                      /\ \/ ReadsDangling(File(fd)) \/ WritesDangling(File(fd))
                         \/ File(fd).node # Dangling => ClosesGarbage(File(fd).node)
     \/ \E dd \in Dd : dirs[dd] # NULL /\ node[dirs[dd].node].fs = Dangling
  /\ lost' = TRUE
  /\ UNCHANGED <<mnt, fs, node, procs, dirs>>

Lost == lost /\ UNCHANGED vars

Next ==
  \/ ~lost /\ (MntIo \/ FsIo \/ DirIo \/ Proc \/ SeekIo) /\ UNCHANGED lost
  \/ ~lost /\ FollowDangling
  \/ Lost

Spec == Init /\ [][Next]_vars
-----------------------------------------------------------------------------
(* Properties.                                                             *)

IsLive(n) == node[n] # NULL /\ (node[n].fs # Dangling => fs[node[n].fs] # NULL)

\* The root of file system f is allocated and belongs to it.
RootLive(f) ==
  fs[f].root \in Node /\ node[fs[f].root] # NULL /\ node[fs[f].root].fs = f

\* The root of every mounted drive is allocated and belongs to that drive's file
\* system: every later path walk on the drive begins there.  file_stat and dir_open
\* free the node that a walk has found, and it may have found the mount's own root.
RootsKept == \A d \in Drive : mnt[d] # NULL => fs[mnt[d]] # NULL /\ RootLive(mnt[d])

\* Nothing that the kernel can still reach has been freed, but for what unmounting
\* and the freeing of a root leave dangling: neither the root of another drive nor
\* the node or file system of a file or directory that is open elsewhere, whichever
\* of file_close, dir_close, file_stat, unmounting and the end of a process freed
\* nodes in between and whichever addresses were used again.
NothingDangles ==
  /\ \A d \in Drive : mnt[d] # NULL =>
       fs[mnt[d]] # NULL /\ (fs[mnt[d]].root # Dangling => RootLive(mnt[d]))
  /\ \A n \in UsedNodes : IsLive(n)

\* The descriptor x can be used: its node is there and its drive still mounted.
Usable(x) == x.node # Dangling /\ node[x.node].fs # Dangling

\* As long as a descriptor is open and its drive mounted it stands for the file its
\* opener named, on the volume that was mounted then, although other drives are
\* unmounted, nodes and file systems are freed and their addresses used again in
\* between.  No two open directories or mounts share a node that closing one of them
\* would free, whatever has become of their drive.
DescriptorsKeepTheirFile ==
  /\ \A o \in OpenFiles :
       LET f == procs[o[1]][o[2]]
       IN Usable(f) => IsLive(f.node) /\ <<VolumeOf(f.node), node[f.node].ino>> = f.of
  /\ \A dd \in OpenDirs :
       /\ IsLive(dirs[dd].node)
       /\ Usable(dirs[dd]) => <<VolumeOf(dirs[dd].node), node[dirs[dd].node].ino>> = dirs[dd].of
       /\ ~IsRoot(dirs[dd].node)
       /\ \A e \in OpenDirs \ {dd} : dirs[e].node # dirs[dd].node

\* No sequence of reads and seeks, with sizes and distances for which the word
\* arithmetic of file_read, initfs_read and file_seek wraps, moves an offset
\* beyond the end of the file.
OffsetInFile ==
  \A o \in OpenFiles :
    LET f == procs[o[1]][o[2]] IN f.offset \in 0 .. f.size

\* What readdir has returned through a descriptor since it was opened are the
\* first entries of the directory that was opened, none missing and none
\* twice, whatever else was opened, closed or mounted meanwhile.
ListingsInOrder ==
  \A dd \in OpenDirs :
    LET entries == Image[dirs[dd].of[1]].inode[dirs[dd].of[2]].entries
        seen == dirs[dd].seen
    IN /\ Len(seen) <= Len(entries)
       /\ seen = [k \in 1 .. Len(seen) |-> entries[k].name]

================================================================================
