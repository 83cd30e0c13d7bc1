------------------------------ MODULE MCStorage ------------------------------
(* Computers that boot, with an ext2 file system on a partition or on a whole   *)
(* disk, with a slave, and with a disk too large for the driver; and two that   *)
(* do not boot.                                                                 *)
EXTENDS Ext2, TLC

W(n) == [v |-> n]
Z(n) == [k \in 1 .. n |-> Zero]
Pad(cells, n) == cells \o Z(n - Len(cells))
Words(numbers, n) == Pad([k \in DOMAIN numbers |-> W(numbers[k])], n)

Inode(mode, size, block) == [mode |-> mode, size |-> size, block |-> block]
NotUsed == Inode("free", 0, <<0, 0, 0, 0>>)
Bgd(table) == [inode_table |-> table]
Entry(inode, name, rec_len) == [inode |-> inode, name |-> name, rec_len |-> rec_len]
Live(inode, name) == [name |-> name, inode |-> inode]

-----------------------------------------------------------------------------
(* Blocks of 4 cells, 26 of them in three groups of up to 4 inodes.  The root   *)
(* directory has a hole, "big" has blocks of every kind, most of it is holes.   *)
Super1 == [magic |-> TRUE, log_block_size |-> 0, inodes_per_group |-> 4, rev_level |-> 0,
           inode_size |-> 0, first_data_block |-> 1, blocks_count |-> 26, blocks_per_group |-> 12]

Big(k) == <<10 * k + 1, 10 * k + 2, 10 * k + 3, 10 * k + 4>>

Image1 == FlattenSeq(<<
  Z(4),                                                            \* 0
  Pad(<<Super1>>, 4),
  Pad(<<Bgd(3), Bgd(4), Bgd(5)>>, 4),
  <<NotUsed, Inode("dir", 12, <<7, 8, 0, 0>>), Inode("file", 0, <<0, 0, 0, 0>>),
    Inode("file", 5, <<10, 11, 0, 0>>)>>,
  <<Inode("dir", 4, <<6, 0, 0, 0>>), Inode("file", 86, <<13, 14, 15, 16>>), NotUsed, NotUsed>>,
  <<Inode("link", 2, <<9, 0, 0, 0>>), NotUsed, NotUsed, NotUsed>>,  \* 5
  <<Entry(6, "big", 2), Zero, Entry(9, "l", 2), Zero>>,
  <<Entry(2, ".", 1), Entry(0, "old", 1), Entry(5, "d", 2), Zero>>,
  Words(<<0, 18>>, 4),
  Words(<<8, 9>>, 4),
  Words(<<1, 2, 3, 4>>, 4),                                        \* 10
  Words(<<12>>, 4),
  Words(<<5>>, 4),
  Words(Big(1), 4),
  Words(<<0, 17, 0, 0>>, 4),
  Words(<<19, 0, 0, 20>>, 4),                                      \* 15
  Words(<<23, 0, 0, 0>>, 4),
  Words(Big(2), 4),
  <<Entry(4, "f", 1), Entry(99, "gone", 1), Entry(3, "e", 1), Entry(7, "never", 0)>>,
  Words(<<21, 0, 0, 0>>, 4),
  Words(<<0, 0, 0, 22>>, 4),                                       \* 20
  Words(Big(3), 4),
  Words(Big(4), 4),
  Words(<<24, 0, 0, 0>>, 4),
  Words(<<25, 0, 0, 0>>, 4),
  Words(Big(5), 4)>>)                                              \* 25

BigFile ==
  [k \in 1 .. 86 |->
     LET block == (k - 1) \div 4
         part == (0 :> 1 @@ 2 :> 2 @@ 5 :> 3 @@ 20 :> 4 @@ 21 :> 5)
     IN IF block \in DOMAIN part THEN W(Big(part[block])[((k - 1) % 4) + 1]) ELSE Zero]

Files1 == 3 :> <<>> @@ 4 :> Words(<<1, 2, 3, 4, 5>>, 5) @@ 6 :> BigFile
          @@ 9 :> Words(<<8, 9>>, 2)
Entries1 == 2 :> <<Live(2, "."), Live(5, "d"), Live(4, "f"), Live(99, "gone"), Live(3, "e")>>
            @@ 5 :> <<Live(6, "big"), Live(9, "l")>>

Partition(type, lba_start, sectors) ==
  [attributes |-> 0, type |-> type, lba_start |-> lba_start, sectors |-> sectors]

\* One partition with the file system, one to be written to, one behind it.
Disk1 == <<[partitions |-> <<Partition(131, 1, 52), Partition(0, 0, 0), Partition(131, 53, 2),
                             [Partition(7, 55, 1) EXCEPT !.attributes = 128]>>], Zero>>
         \o Image1 \o Z(6)

-----------------------------------------------------------------------------
(* Blocks of 8 cells and inodes of 2, on a disk without a partition table whose *)
(* first sector looks like one.                                                 *)
Super2 == [magic |-> TRUE, log_block_size |-> 1, inodes_per_group |-> 8, rev_level |-> 1,
           inode_size |-> 2, first_data_block |-> 0, blocks_count |-> 7, blocks_per_group |-> 8]

Boot2 == [partitions |-> <<[Partition(131, 1, 5) EXCEPT !.attributes = 17], Partition(0, 0, 0),
                           Partition(0, 0, 0), Partition(0, 0, 0)>>]

Disk2 == FlattenSeq(<<
  <<Boot2, Zero, Zero, Zero, Super2, Zero, Zero, Zero>>,
  Pad(<<Bgd(2)>>, 8),
  <<NotUsed, Zero, Inode("dir", 8, <<4, 0, 0, 0>>), Zero, NotUsed, Zero, NotUsed, Zero>>,
  <<Inode("file", 11, <<5, 0, 0, 0>>), Zero, Inode("file", 14, <<0, 6, 0, 0>>), Zero>> \o Z(4),
  <<Entry(2, ".", 1), Entry(5, "f", 3), Zero, Zero, Entry(6, "e", 4), Zero, Zero, Zero>>,
  Words(<<1, 2, 3, 4, 5, 6, 7, 8>>, 8),
  Words(<<5>>, 8)>>)

Files2 == 5 :> Words(<<1, 2, 3, 4, 5, 6, 7, 8>>, 11)
          @@ 6 :> Z(8) \o Words(<<1, 2, 3, 4, 5, 6>>, 6)
Entries2 == 2 :> <<Live(2, "."), Live(5, "f"), Live(6, "e")>>

-----------------------------------------------------------------------------
RamdiskImage == <<[initfs |-> TRUE]>> \o Z(3)

Absent == [present |-> FALSE, multi |-> FALSE, sata |-> FALSE, header |-> 0, bar5 |-> "io"]
Card == [Absent EXCEPT !.present = TRUE]
Multi == [Card EXCEPT !.multi = TRUE]
Sata == [Card EXCEPT !.sata = TRUE, !.bar5 = "memory32"]

None == [kind |-> "none", lba |-> FALSE]
Lba == [kind |-> "disk", lba |-> TRUE]

Machine1 ==
  [vga |-> TRUE, keyboard |-> TRUE, initrd |-> TRUE, scratch |-> 3,
   pci |-> <<<<Multi, Sata, Card, Absent, Card>>, <<Absent, Card>>, <<Card, Card>>>>,
   drives |-> <<Lba, None, [None EXCEPT !.kind = "atapi"], [None EXCEPT !.kind = "faulty"]>>,
   disk |-> <<Disk1, <<>>, <<>>, <<>>, RamdiskImage>>,
   files |-> Files1, entries |-> Entries1]

Machine2 ==
  [Machine1 EXCEPT
     !.pci = <<<<Card>>, <<[Sata EXCEPT !.header = 1]>>>>, !.scratch = 0,
     !.drives = <<None, None, Lba, None>>,
     !.disk = <<<<>>, <<>>, Disk2, <<>>, RamdiskImage>>,
     !.files = Files2, !.entries = Entries2]

\* Without a keyboard; with a module that is not a ramdisk.
Machine3 == [Machine2 EXCEPT !.keyboard = FALSE]
Machine4 == [Machine2 EXCEPT !.initrd = FALSE, !.vga = FALSE]

\* A master and a slave without partitions: what is written to the slave.
Machine5 ==
  [Machine2 EXCEPT
     !.scratch = 3, !.drives = <<Lba, Lba, None, None>>,
     !.disk = <<Z(8), Words(<<9, 9>>, 6), <<>>, <<>>, RamdiskImage>>]

\* A disk of more than Word cells, and a partition that begins behind them; a master
\* without LBA, of which the driver reads nothing.
Machine6 ==
  [Machine2 EXCEPT
     !.scratch = 2, !.drives = <<Lba, None, [Lba EXCEPT !.lba = FALSE], None>>,
     !.disk = <<<<[partitions |-> <<Partition(131, 66, 2), Partition(131, 62, 2),
                                    Partition(0, 0, 0), Partition(0, 0, 0)>>]>> \o Z(139),
                <<>>, Z(4), <<>>, RamdiskImage>>]

\* Drives and what is on them are numbered from 0.
FromZero(m) == [m EXCEPT !.drives = [d \in 0 .. 3 |-> @[d + 1]], !.disk = [d \in 0 .. 4 |-> @[d + 1]]]

MCMachines == {FromZero(m) : m \in {Machine1, Machine2, Machine3, Machine4, Machine5, Machine6}}
MCWrites == {<<>>, <<W(7), W(8), W(9)>>}
Symmetry == Permutations(ShortId)
=============================================================================
