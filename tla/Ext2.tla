--------------------------------- MODULE Ext2 ---------------------------------
(***************************************************************************)
(* The ext2 driver (fs/ext2.c) on the volumes of the module Volumes: how a *)
(* file's blocks and a directory's entries are found on the disk.  The     *)
(* life of file systems, nodes and descriptors is the subject of the       *)
(* module Files; here one file system is mounted and one node looked at.   *)
(*                                                                         *)
(* Sizes and offsets are in cells.  An inode, a block group descriptor and *)
(* a block pointer fill one cell, a directory entry rec_len of them.  The  *)
(* superblock takes two sectors, as 1024 bytes do, behind the first two.   *)
(***************************************************************************)
EXTENDS Volumes

CONSTANTS
  NDirect,       \* direct block pointers in an inode, 12 in ext2
  Names,         \* names that are looked up
  ReadSizes      \* how much is read at once

VARIABLES
  fs,            \* the mounted file system's parameters, NoFs if none is
  node,          \* the node the path walk has reached
  inode_data,    \* the inode that ext2_open has loaded, or NoInode
  got,           \* the cells read so far, from the beginning of the file
  eof,           \* the last read delivered nothing
  listing        \* the entries that readdir has delivered so far

\* Programs ask for something when they read, and take an empty answer for the end.
ASSUME Ext2Assumption == ReadSizes \subseteq Nat \ {0}

ext2Vars == <<fs, node, inode_data, got, eof, listing>>
vars == <<deviceVars, storageVars, ext2Vars>>

SuperblockOffset == 2 * SectorSize       \* EXT2_SUPERBLOCK_OFFSET
SuperblockSize == 2 * SectorSize
RootInode == 2                           \* EXT2_ROOT_INODE

NoFs == [volume |-> 0]
NoInode == [mode |-> "none"]
NoNode == [inode |-> 0, type |-> "none"]
NoEntry == [name |-> "none", inode |-> 0]

-----------------------------------------------------------------------------
(* The layout.                                                             *)

\* ext2_probe
Probe(i) == "magic" \in DOMAIN VolumeRead(i, SuperblockOffset, SuperblockSize)[1]

\* initfs_probe and ext2_probe do not look at how much was read: on a volume of which
\* the driver does not read what they ask for they judge what is on the stack.  Such a
\* volume is not mounted here.
HoldsSuperblock(i) ==
  /\ VolumeRead(i, 0, 1) # <<>>
  /\ Len(VolumeRead(i, SuperblockOffset, SuperblockSize)) = SuperblockSize

\* What ext2_mount derives from the superblock.  The inode size is only stored in
\* dynamic revisions.
Derived(i) ==
  LET super == VolumeRead(i, SuperblockOffset, SuperblockSize)[1]
  IN [volume |-> i,
      block_size |-> SuperblockSize * 2 ^ super.log_block_size,
      inodes_per_group |-> super.inodes_per_group,
      inode_size |-> IF super.rev_level >= 1 THEN super.inode_size ELSE 1,
      bgd_table_block |-> super.first_data_block + 1,
      num_block_groups |-> (super.blocks_count + super.blocks_per_group - 1)
                             \div super.blocks_per_group]

\* ext2_read_block
ReadBlock(f, block) == VolumeRead(f.volume, Wrap(block * f.block_size), f.block_size)

\* ext2_read_bgd
ReadBgd(f, group) ==
  ReadBlock(f, f.bgd_table_block + (group \div f.block_size))[(group % f.block_size) + 1]

\* Whether ext2_read_inode finds the inode, and what it reads.
Readable(f, ino) ==
  ino # 0 /\ (ino - 1) \div f.inodes_per_group < f.num_block_groups
ReadInode(f, ino) ==
  LET bgd == ReadBgd(f, (ino - 1) \div f.inodes_per_group)
      offset == ((ino - 1) % f.inodes_per_group) * f.inode_size
  IN ReadBlock(f, bgd.inode_table + (offset \div f.block_size))[(offset % f.block_size) + 1]

\* The entry of an indirect block, 0 when there is no such block.
Pointer(f, block, index) == IF block = 0 THEN 0 ELSE ReadBlock(f, block)[index + 1].v

\* Mutant: the double indirect blocks are counted from the first indirect one.
InodeBlockOffByP(f, inode, index) ==
  LET p == f.block_size
      single == index - NDirect
      triple == single - p - p * p
  IN IF index < NDirect THEN inode.block[index + 1]
     ELSE IF single < p THEN Pointer(f, inode.block[NDirect + 1], single)
     ELSE IF single < p * p
     THEN Pointer(f, Pointer(f, inode.block[NDirect + 2], single \div p), single % p)
     ELSE Pointer(f, Pointer(f, Pointer(f, inode.block[NDirect + 3], triple \div (p * p)),
                                (triple % (p * p)) \div p),
                     triple % p)

\* ext2_inode_block: the block with the index-th part of a file, 0 for a hole.
InodeBlock(f, inode, index) ==
  LET p == f.block_size              \* pointers per block
      single == index - NDirect
      double == single - p
      triple == double - p * p
  IN IF index < NDirect THEN inode.block[index + 1]
     ELSE IF single < p THEN Pointer(f, inode.block[NDirect + 1], single)
     ELSE IF double < p * p
     THEN Pointer(f, Pointer(f, inode.block[NDirect + 2], double \div p), double % p)
     ELSE Pointer(f, Pointer(f, Pointer(f, inode.block[NDirect + 3], triple \div (p * p)),
                                (triple % (p * p)) \div p),
                     triple % p)

-----------------------------------------------------------------------------
(* Files.                                                                  *)

\* The loop of ext2_read: block by block, zeros for a hole.
Chunks(f, inode, offset, size) ==
  LET from[left \in 0 .. size] ==
        LET at == offset + size - left
            inBlock == at % f.block_size
            chunk == IF f.block_size - inBlock > left THEN left ELSE f.block_size - inBlock
            physical == InodeBlock(f, inode, at \div f.block_size)
            cells == IF physical = 0 THEN [k \in 1 .. chunk |-> Zero]
                     ELSE Slice(ReadBlock(f, physical), inBlock, chunk)
        IN IF left = 0 THEN <<>> ELSE cells \o from[left - chunk]
  IN from[size]

\* ext2_read: cut where the file ends.
ReadFile(f, inode, offset, size) ==
  IF offset > inode.size THEN <<>>
  ELSE Chunks(f, inode, offset, IF offset + size > inode.size THEN inode.size - offset ELSE size)

-----------------------------------------------------------------------------
(* Directories.                                                            *)

\* The entries of one block from a position on.  Entries without an inode are
\* deleted; a record length of 0 ends the block.
EntriesFrom(f, block, position) ==
  LET from[at \in Nat] ==
        IF at >= f.block_size \/ block[at + 1].rec_len = 0 THEN <<>>
        ELSE LET entry == block[at + 1]
                 live == IF entry.inode # 0 THEN <<[name |-> entry.name, inode |-> entry.inode]>>
                         ELSE <<>>
             IN live \o from[at + entry.rec_len]
  IN from[position]

\* Mutant: the block behind a hole is taken for part of the hole.
LiveEntriesStops(f, inode) ==
  LET total == (inode.size + f.block_size - 1) \div f.block_size
  IN FlattenSeq([b \in 1 .. total |->
       LET physical == InodeBlock(f, inode, b - 1)
       IN IF physical = 0 \/ (b > 1 /\ InodeBlock(f, inode, b - 2) = 0) THEN <<>>
          ELSE EntriesFrom(f, ReadBlock(f, physical), 0)])

\* The walk that ext2_readdir and ext2_finddir share: all blocks of the directory,
\* without its holes.
LiveEntries(f, inode) ==
  LET total == (inode.size + f.block_size - 1) \div f.block_size
  IN FlattenSeq([b \in 1 .. total |->
       LET physical == InodeBlock(f, inode, b - 1)
       IN IF physical = 0 THEN <<>> ELSE EntriesFrom(f, ReadBlock(f, physical), 0)])

\* ext2_readdir
ReadDir(f, ino, index) ==
  LET live == LiveEntries(f, ReadInode(f, ino))
  IN IF Readable(f, ino) /\ index < Len(live) THEN live[index + 1] ELSE NoEntry

\* ext2_build_node
BuildNode(f, ino) == [inode |-> ino, type |-> ReadInode(f, ino).mode]

\* ext2_finddir: the first live entry of that name, if its inode can be read.
FindDir(f, ino, name) ==
  LET live == LiveEntries(f, ReadInode(f, ino))
      k == SelectInSeq(live, LAMBDA e : e.name = name)
  IN IF ~Readable(f, ino) \/ k = 0 THEN NoNode
     ELSE IF Readable(f, live[k].inode) THEN BuildNode(f, live[k].inode)
     ELSE NoNode

-----------------------------------------------------------------------------
(* Using it.                                                               *)

Fresh ==
  /\ inode_data' = NoInode
  /\ got' = <<>>
  /\ eof' = FALSE
  /\ listing' = <<>>

Init ==
  /\ StorageInit
  /\ fs = NoFs /\ node = NoNode /\ inode_data = NoInode
  /\ got = <<>> /\ eof = FALSE /\ listing = <<>>

Boot == BootNext /\ UNCHANGED ext2Vars

\* syscall_mount by id, with ext2_init and ext2_mount.  mnt_volume_mount tries
\* initfs first.
Mount(id) ==
  LET i == VolumeFindById(id)
  IN /\ stage = "up" /\ fs = NoFs
     /\ i # 0 /\ HoldsSuperblock(i)
     /\ ~InitfsProbe(i) /\ Probe(i)
     /\ Readable(Derived(i), RootInode)
     /\ fs' = Derived(i)
     /\ node' = BuildNode(Derived(i), RootInode)
     /\ Fresh
     /\ UNCHANGED <<deviceVars, storageVars>>

\* ext2_unmount
Unmount ==
  /\ fs # NoFs
  /\ fs' = NoFs /\ node' = NoNode
  /\ Fresh
  /\ UNCHANGED <<deviceVars, storageVars>>

\* One step of vfs_findpath: only directories are searched.  When nothing is found
\* the walk is over and the next one begins at the root.
Walk(name) ==
  /\ fs # NoFs /\ inode_data = NoInode
  /\ node.type = "dir"
  /\ LET found == FindDir(fs, node.inode, name)
     IN node' = IF found = NoNode THEN BuildNode(fs, RootInode) ELSE found
  /\ Fresh
  /\ UNCHANGED <<deviceVars, storageVars, fs>>

\* ext2_open: the inode is loaded for everything that is not a directory.
Open ==
  /\ fs # NoFs /\ inode_data = NoInode
  /\ node.type # "dir"
  /\ inode_data' = ReadInode(fs, node.inode)
  /\ UNCHANGED <<deviceVars, storageVars, fs, node, got, eof, listing>>

\* file_read on top of ext2_read, from where the last read ended.
Read(size) ==
  /\ inode_data # NoInode /\ ~eof
  /\ LET cells == ReadFile(fs, inode_data, Len(got), size)
     IN got' = got \o cells /\ eof' = (cells = <<>>)
  /\ UNCHANGED <<deviceVars, storageVars, fs, node, inode_data, listing>>

\* ext2_close; the next path is walked from the root.
Close ==
  /\ inode_data # NoInode
  /\ node' = BuildNode(fs, RootInode)
  /\ Fresh
  /\ UNCHANGED <<deviceVars, storageVars, fs>>

\* dir_read on top of ext2_readdir; the entry at the end is NoEntry.
List ==
  /\ fs # NoFs /\ node.type = "dir"
  /\ listing # <<>> => Last(listing) # NoEntry
  /\ listing' = Append(listing, ReadDir(fs, node.inode, Len(listing)))
  /\ UNCHANGED <<deviceVars, storageVars, fs, node, inode_data, got, eof>>

\* A write to a volume that no file system is mounted from.
WriteElsewhere ==
  /\ \E i \in DOMAIN volumes, offset \in WriteOffsets, cells \in Writes :
       /\ i # fs.volume
       /\ i = machine.scratch
       /\ offset <= volumes[i].size
       /\ Write(i, offset, cells)
  /\ UNCHANGED ext2Vars

\* kpanic does not return, and after an overrun nothing is certain.
Halt == stage \in {"panic", "overrun"} /\ UNCHANGED vars

Use ==
  \/ \E id \in ShortId : Mount(id)
  \/ Unmount
  \/ \E name \in Names : Walk(name)
  \/ Open
  \/ \E size \in ReadSizes : Read(size)
  \/ Close
  \/ List
  \/ WriteElsewhere

Next ==
  \/ Boot
  \/ Halt
  \/ stage = "up" /\ Use

Spec == Init /\ [][Next]_vars

-----------------------------------------------------------------------------
(* Properties.  machine.files[ino] is what the program that made the file  *)
(* system put into a file, machine.entries[ino] what it put into a         *)
(* directory.                                                              *)

\* Safety: reading a file from the beginning in pieces of any size delivers its
\* cells in order, zeros where it has holes, and nothing more only when there is
\* nothing more: through the direct and the three kinds of indirect blocks
\* (ext2_inode_block), block groups and inode sizes, the partition's offset and
\* the sectors of the drive, whatever is written to other volumes.
FileReadsBack ==
  inode_data # NoInode =>
    LET file == machine.files[node.inode]
    IN /\ got = Slice(file, 0, Len(got))
       /\ eof => got = file

\* Safety: listing a directory by index delivers each entry once, in order, without
\* the deleted ones, then the end; and a name that is listed is found, with the
\* inode that was listed (ext2_readdir and ext2_finddir walk separately).
ListingComplete ==
  listing # <<>> =>
    LET entries == machine.entries[node.inode]
        n == Len(listing)
    IN \/ Last(listing) # NoEntry /\ listing = Slice(entries, 0, n)
       \/ /\ Last(listing) = NoEntry /\ Front(listing) = entries
          /\ \A k \in DOMAIN entries :
               Readable(fs, entries[k].inode) =>
                 FindDir(fs, node.inode, entries[k].name).inode = entries[k].inode
=============================================================================
