------------------------------- MODULE MCFiles -------------------------------
(* Vfs on a disk of 15 sectors of two units, with clusters of two sectors. *)
(* The root directory and the longer file have two clusters each; the      *)
(* file's are in reverse order.                                            *)
EXTENDS Vfs

Hello == <<"hello", "elf">>
Text == <<"text", "txt">>
MCContents == [n \in {Hello, Text} |-> IF n = Hello THEN <<11, 12, 13, 14, 15>>
                                       ELSE <<21, 22, 23>>]

Entry(kind, name, first, size) ==
  [kind |-> kind, name |-> name, first |-> first, size |-> size]
End == Entry("end", <<"none", "none">>, 0, 0)
Bpb(reserved) == [tag |-> "bpb", reserved |-> reserved, fats |-> 1, fat_size |-> 3,
                  sectors_per_cluster |-> 2, root_cluster |-> 2]
Pad == Zero
Partition(type, start) == [tag |-> "entry", type |-> type, start |-> start]

(* FAT in sectors 2 to 4, clusters 2 to 5 from sector 5 on. *)
FromFat ==
  (2 :> <<0, 0>>) @@ (3 :> <<5, 23>>) @@ (4 :> <<3, 23>>) @@
  (5 :> <<Entry("label", Hello, 0, 0), Entry("deleted", Text, 3, 1)>>) @@
  (6 :> <<Entry("file", Hello, 4, 5), Entry("dir", Text, 3, 0)>>) @@
  (7 :> <<15, 0>>) @@ (8 :> <<0, 0>>) @@ (9 :> <<11, 12>>) @@ (10 :> <<13, 14>>) @@
  (11 :> <<Entry("file", Text, 6, 3), End>>) @@ (12 :> <<End, End>>) @@
  (13 :> <<21, 22>>) @@ (14 :> <<23, 0>>)
Partitioned ==
  (0 :> <<Partition("other", 0), Partition("fat32", 1)>>) @@
  (1 :> <<Bpb(1), Pad>>) @@ FromFat
(* No partitions, and an empty directory. *)
Unpartitioned ==
  (0 :> <<Bpb(2), Pad>>) @@ (1 :> <<Pad, Pad>>) @@ (2 :> <<0, 0>>) @@
  (3 :> <<23, 0>>) @@ (4 :> <<0, 0>>) @@ (5 :> <<End, End>>) @@ (6 :> <<End, End>>)
NotFat == (0 :> <<Pad, Pad>>) @@ (1 :> <<Pad, Pad>>)
MCImages == {Partitioned, Unpartitioned, NotFat, <<>>}

FatPath(n) == [type |-> "fat", base |-> n[1], ext |-> n[2], upper |-> FALSE]
MCPaths == {FatPath(Hello), FatPath(Text), FatPath(<<"no", "txt">>),
            [type |-> "hda", base |-> "hda", ext |-> "", upper |-> FALSE],
            [type |-> "plain", base |-> "tty", ext |-> "", upper |-> FALSE]}
MCValues == {[tag |-> "byte"]}
MCBadSets == {{}, {1, 4, 10}}
=============================================================================
