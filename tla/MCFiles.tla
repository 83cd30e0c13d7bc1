------------------------------ MODULE MCFiles ------------------------------
(* An initial ramdisk with a program and a damaged file, an ext2 volume with a  *)
(* directory, an ext2 volume without a readable root and a volume of no known   *)
(* file system.                                                                 *)
EXTENDS Files, TLC

Entry(name, ino) == [name |-> name, ino |-> ino]
Plain(length, opens) ==
  [type |-> "file", length |-> length, entries |-> <<>>, opens |-> opens]
Directory(entries) ==
  [type |-> "dir", length |-> 0, entries |-> entries, opens |-> TRUE]

MCVolume == {"rd", "hd", "bad", "raw"}
\* The root of the ramdisk has inode number 0, as its first file has: the model
\* calls it 9.
MCImage ==
  "rd" :> [kind |-> "initfs", root |-> 9, ok |-> TRUE,
           inode |-> 9 :> Directory(<<Entry("f", 0), Entry("x", 1)>>)
                  @@ 0 :> Plain(2, TRUE) @@ 1 :> Plain(1, FALSE)] @@
  "hd" :> [kind |-> "ext2", root |-> 2, ok |-> TRUE,
           inode |-> 2 :> Directory(<<Entry("d", 11), Entry("gone", 13), Entry("h", 12)>>)
                  @@ 11 :> Directory(<<Entry("g", 12)>>) @@ 12 :> Plain(1, TRUE)] @@
  "bad" :> [kind |-> "ext2", root |-> 2, ok |-> FALSE, inode |-> 2 :> Directory(<<>>)] @@
  "raw" :> [kind |-> "none", root |-> 0, ok |-> FALSE, inode |-> 0 :> Directory(<<>>)]

Path(letter, names) == [abs |-> TRUE, letter |-> letter, names |-> names]
MCPaths ==
  {Path("A", <<>>), Path("a", <<"f">>), Path("A", <<"x">>), Path("A", <<"f", "">>),
   Path("B", <<>>), Path("b", <<"d">>), Path("B", <<"d", "g">>),
   Path("B", <<"gone">>), Path("1", <<>>), [Path("A", <<"f">>) EXCEPT !.abs = FALSE]}

MCModes == {{"rd", "wr"}}

Symmetry == Permutations(Node) \cup Permutations(FileSystem)
=============================================================================
