------------------------------- MODULE Fat32 -------------------------------
(***************************************************************************)
(* The read side of fs/fat32/fat32.c, as operators on a disk.              *)
(*                                                                         *)
(* A sector is a sequence of SectorSize units.  A unit is what the code    *)
(* reads at once: a partition entry, a boot parameter block, a FAT entry,  *)
(* a directory entry, or a byte of a file.  bad is the set of sectors that *)
(* cannot be read during the call; the code asks for a sector before every *)
(* use of it, so its sector buffer is never stale and is left out.         *)
(***************************************************************************)
EXTENDS Integers, Sequences, FiniteSetsExt

CONSTANTS
  SectorSize,  \* units in a sector (512 bytes)
  MaxCluster,  \* FAT32_MAX_CLUSTER; the end mark is above it
  MaxChain     \* bound: no chain has more clusters

Readable(disk, bad) == DOMAIN disk \ bad

Unmounted == [mounted |-> FALSE, fat_lba |-> 0, data_lba |-> 0,
              sectors_per_cluster |-> 1, root_cluster |-> 0]

valid_cluster(c) == c >= 2 /\ c <= MaxCluster
ClusterSize(v) == v.sectors_per_cluster * SectorSize
cluster_lba(v, c) == v.data_lba + (c - 2) * v.sectors_per_cluster
(* 0, which is no valid cluster, when the FAT cannot be read. *)
next_cluster(v, disk, bad, c) ==
  LET l == v.fat_lba + c \div SectorSize
  IN  IF l \in Readable(disk, bad) THEN disk[l][(c % SectorSize) + 1] ELSE 0

(* The clusters of the chain that begins at first. *)
Chain(v, disk, bad, first) ==
  LET c[i \in 0 .. MaxChain] ==
        IF i = 0 THEN first
        ELSE LET last == c[i - 1]
             IN  IF valid_cluster(last) THEN next_cluster(v, disk, bad, last) ELSE last
  IN  [i \in 0 .. MaxChain |-> c[i]]

(* Mutant: the sector within the cluster is not computed from k. *)
SectorOfFirst(v, c, k) == cluster_lba(v, c)
SectorOf(v, c, k) ==
  cluster_lba(v, c) + ((k \div SectorSize) % v.sectors_per_cluster)

(* Unit k of a chain: the chain may be over, the sector unreadable. *)
UnitAt(v, disk, bad, chain, k) ==
  LET c == chain[k \div ClusterSize(v)]
      l == SectorOf(v, c, k)
  IN  IF ~valid_cluster(c) THEN [tag |-> "over"]
      ELSE IF l \notin Readable(disk, bad) THEN [tag |-> "error"]
      ELSE [tag |-> "unit", unit |-> disk[l][(k % SectorSize) + 1]]

-----------------------------------------------------------------------------
(* fat32_mount: an MBR whose first entry is in use is searched for a FAT32 *)
(* partition, the first sector of which must hold a sane parameter block.  *)
PartitionLba(s) ==
  LET fat == {p \in 1 .. SectorSize : s[p].tag = "entry" /\ s[p].type = "fat32"}
  IN  IF s[1].tag = "entry" /\ s[1].type # "empty" /\ fat # {}
      THEN s[Min(fat)].start ELSE 0
Geometry(b, lba) ==
  IF b.tag # "bpb" \/ b.sectors_per_cluster = 0 \/ b.fats = 0 \/ b.fat_size = 0
     \/ ~valid_cluster(b.root_cluster)
  THEN Unmounted
  ELSE [mounted |-> TRUE, fat_lba |-> lba + b.reserved,
        data_lba |-> lba + b.reserved + b.fats * b.fat_size,
        sectors_per_cluster |-> b.sectors_per_cluster,
        root_cluster |-> b.root_cluster]
fat32_mount(disk, bad) ==
  IF 0 \notin Readable(disk, bad) THEN Unmounted
  ELSE LET lba == PartitionLba(disk[0])
       IN  IF lba \notin Readable(disk, bad) THEN Unmounted
           ELSE Geometry(disk[lba][1], lba)

(* make_83 forgets the case of the path. *)
make_83(path) == <<path.base, path.ext>>

(* fat32_open and scan_root: the first file of that name before the end    *)
(* mark; deleted entries, labels and directories never match.  entry is    *)
(* not in the code: it tells the properties which file was opened.         *)
NoFile == [first |-> 0, size |-> 0, position |-> 0, entry |-> <<"none", "none">>]
Matches(e, wanted) == e.kind = "file" /\ e.name = wanted
ScanStops(u, wanted) ==
  u.tag # "unit" \/ u.unit.kind = "end" \/ Matches(u.unit, wanted)
scan_root(v, disk, bad, wanted) ==
  LET root == Chain(v, disk, bad, v.root_cluster)
      At(k) == UnitAt(v, disk, bad, root, k)
      u == At(Min({k \in 0 .. MaxChain * ClusterSize(v) : ScanStops(At(k), wanted)}))
  IN  IF u.tag = "unit" /\ Matches(u.unit, wanted)
      THEN [first |-> u.unit.first, size |-> u.unit.size, position |-> 0,
            entry |-> wanted]
      ELSE NoFile
fat32_open(v, disk, bad, path) ==
  IF v.mounted THEN scan_root(v, disk, bad, make_83(path)) ELSE NoFile

ReadEnd(f, length) == Min({f.size, f.position + length})

(* fat32_read_file: the bytes up to the end of the file, of the request or *)
(* of what can be read; -1 only if the very first sector fails.            *)
fat32_read_file(v, disk, bad, f, length) ==
  LET chain == Chain(v, disk, bad, f.first)
      At(k) == UnitAt(v, disk, bad, chain, k)
      end   == ReadEnd(f, length)
      stops == {k \in f.position .. end - 1 : At(k).tag # "unit"}
      to    == Min(stops \cup {end})
      data  == [i \in 1 .. to - f.position |-> At(f.position + i - 1).unit]
  IN  IF ~v.mounted \/ f.position >= f.size
      THEN [ret |-> 0, data |-> <<>>, position |-> f.position]
      ELSE [ret |-> IF to = f.position /\ to # end /\ At(to).tag = "error"
                    THEN -1 ELSE Len(data),
            data |-> data, position |-> to]
=============================================================================
