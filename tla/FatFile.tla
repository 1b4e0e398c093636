------------------------------ MODULE FatFile ------------------------------
(* The FAT16 file system as open(), read() and readdir() use it: path      *)
(* lookup, directories, cluster chains, the one-sector buffer of every     *)
(* file and of the allocation table, and the real-mode buffer all disk     *)
(* transfers share.  A sector has SectorCells cells; a cell is a byte of a *)
(* file, an entry of the allocation table or an entry of a directory.      *)
(* The volume is never written, so a buffer is modelled by the sector      *)
(* whose contents it has.                                                  *)
(* System calls run one after the other here; a sector of file data may    *)
(* fail to be read, which nobody notices (File.cpp ignores readSector's    *)
(* result).                                                                *)
EXTENDS Integers, Sequences, FiniteSets, SequencesExt

CONSTANTS SectorCells,        \* bytes_per_sector, in cells
          SectorsPerCluster,  \* info.pbr.sectors_per_cluster
          FatNum,             \* info.pbr.fat_num
          FatSize,            \* info.pbr.sectors_per_fat
          Hidden,             \* info.pbr.hidden_sectors
          RootSectors,        \* info.root_dir_sectors
          Volumes,            \* [disk: [sector -> cells], nodes: the tree]
          Paths,              \* the paths programs open
          Handles,            \* open files at one time
          MaxRead,            \* longest read()
          MaxFaults           \* failed transfers: bound

CLUSTER_END == 65528
NoFile == [open |-> FALSE]
NoPath == <<"?">>
NoResult == [list |-> <<>>, num |-> -1]

VARIABLES vol,      \* the volume, chosen at the start
          fat,      \* buffer of fat_file: its sector, and whose contents it has
          bounce,   \* real_mode_buffer: the last transfer
          file,     \* the open files
          path,     \* the path each was opened by
          got,      \* what each has returned since: <<position, cell, bad>>
          listing,  \* the last result of readdir()
          faults

vars == <<vol, fat, bounce, file, path, got, listing, faults>>

first_fat_sector == Hidden
first_data_sector == Hidden + FatNum * FatSize + RootSectors

Init ==
  /\ vol \in Volumes
  /\ fat = [pos |-> -1, has |-> 0]
  /\ bounce = 0
  /\ file = [h \in Handles |-> NoFile]
  /\ path = [h \in Handles |-> NoPath]
  /\ got = [h \in Handles |-> <<>>]
  /\ listing = NoResult
  /\ faults = 0

-----------------------------------------------------------------------------
(* The buffers, as a value the operations pass along.                      *)
Buffers == [fat |-> fat, bounce |-> bounce]
Cell(sector, i) == vol.disk[sector][i % SectorCells]

(* PhysicalDisk::readSector: the caller gets what is in the real-mode      *)
(* buffer, which a transfer that fails has not changed.                    *)
readSector(b, s, bad) == IF s \in bad THEN b.bounce ELSE s

fat_seek(b, c) ==
  LET s == c \div SectorCells
      has == readSector(b, first_fat_sector + s, {})
  IN  IF s = b.fat.pos THEN b
      ELSE [b EXCEPT !.fat = [pos |-> s, has |-> has], !.bounce = has]

(* fat_file->seek(c * 2); fat_file->read(&c, 2), until the chain ends.     *)
RECURSIVE Walk(_, _, _)
Walk(b, c, clusters) ==
  IF c >= CLUSTER_END THEN [b |-> b, clusters |-> clusters]
  ELSE LET n == fat_seek(b, c)
       IN  Walk(n, Cell(n.fat.has, c).next, Append(clusters, c))

(* The size a ClusterFile works with: whole clusters.                      *)
RoundedUp(size, len) ==
  IF len * SectorsPerCluster * SectorCells > size
  THEN len * SectorsPerCluster * SectorCells ELSE size

(* The constructor of ClusterFile walks the chain twice, to count and to   *)
(* record it.                                                              *)
ClusterFile(b, start, size, dir) ==
  LET w == Walk(b, start, <<>>)
      v == Walk(w.b, start, <<>>)
  IN  [b |-> v.b,
       f |-> [open |-> TRUE, dir |-> dir, seq |-> FALSE, clusters |-> v.clusters,
              size |-> RoundedUp(IF dir THEN 0 ELSE size, Len(v.clusters)),
              cursor |-> 0, pos |-> -1, has |-> 0, bad |-> FALSE]]

(* The root directory: a SequentialFile in front of the data area.         *)
RootFile ==
  [open |-> TRUE, dir |-> TRUE, seq |-> TRUE, clusters |-> <<>>,
   size |-> RootSectors * SectorCells,
   cursor |-> 0, pos |-> -1, has |-> 0, bad |-> FALSE]

SectorAtFirst(f) ==   \* mutant: the sector within the cluster is forgotten
  LET s == f.cursor \div SectorCells
  IN  IF f.seq THEN first_data_sector - RootSectors + s
      ELSE (f.clusters[s \div SectorsPerCluster + 1] - 2) * SectorsPerCluster
             + first_data_sector

SectorAt(f) ==
  LET s == f.cursor \div SectorCells
  IN  IF f.seq THEN first_data_sector - RootSectors + s
      ELSE (f.clusters[s \div SectorsPerCluster + 1] - 2) * SectorsPerCluster
             + (s % SectorsPerCluster) + first_data_sector

Hit(f, s) == f.pos = s

ensureCursorInBuffer(b, f, bad) ==
  LET s == SectorAt(f)
      has == readSector(b, s, bad)
  IN  IF Hit(f, s) THEN [b |-> b, f |-> f]
      ELSE [b |-> [b EXCEPT !.bounce = has],
            f |-> [f EXCEPT !.pos = s, !.has = has, !.bad = s \in bad]]

(* read(): getc() until the request is filled or the file ends. Each cell  *)
(* is recorded with its position and whether its sector had failed.        *)
RECURSIVE ReadCells(_, _, _, _, _)
ReadCells(b, f, n, bad, out) ==
  IF n = 0 \/ f.cursor >= f.size THEN [b |-> b, f |-> f, out |-> out]
  ELSE LET e == ensureCursorInBuffer(b, f, bad)
           cell == Cell(e.f.has, f.cursor)
       IN  ReadCells(e.b, [e.f EXCEPT !.cursor = @ + 1], n - 1, bad,
                     Append(out, <<f.cursor, cell, e.f.bad>>))

-----------------------------------------------------------------------------

Skipped(e) == e.volume \/ e.hidden \/ e.deleted

(* Fixed-width name fields to a name: each field ends at its first blank.  *)
UpTo(s) == IF \E i \in DOMAIN s : s[i] = " "
           THEN SubSeq(s, 1, (CHOOSE i \in DOMAIN s :
                  s[i] = " " /\ \A j \in 1..i - 1 : s[j] # " ") - 1)
           ELSE s

EntryName(e) ==
  UpTo(e.base) \o (IF e.ext[1] = " " THEN <<>> ELSE <<".">> \o UpTo(e.ext))

Info(e) ==
  [name |-> EntryName(e), dir |-> e.dir, size |-> e.size, cluster |-> e.cluster]

(* One pass of Directory::init(): entries up to the first empty one.       *)
RECURSIVE Scan(_, _, _)
Scan(b, f, infos) ==
  LET r == ReadCells(b, f, 1, {}, <<>>)
  IN  IF r.out = <<>> THEN [b |-> r.b, f |-> r.f, infos |-> infos]
      ELSE LET e == r.out[1][2]
           IN  IF e.last THEN [b |-> r.b, f |-> r.f, infos |-> infos]
               ELSE Scan(r.b, r.f, IF Skipped(e) THEN infos
                                   ELSE Append(infos, Info(e)))

(* Directory::init(): one pass to count the entries, one to take them.     *)
Directory(b, f) ==
  LET one == Scan(b, [f EXCEPT !.cursor = 0], <<>>)
  IN  Scan(one.b, [one.f EXCEPT !.cursor = 0], <<>>)

Upper(c) == CASE c = "a" -> "A" [] c = "b" -> "B" [] c = "d" -> "D"
              [] c = "x" -> "X" [] OTHER -> c

strcasecmp0(s, t) == [i \in DOMAIN s |-> Upper(s[i])] = [i \in DOMAIN t |-> Upper(t[i])]

(* Directory::openFile: the first entry of that name.                      *)
OpenIn(d, name) ==
  LET S == {i \in DOMAIN d.infos : strcasecmp0(d.infos[i].name, name)}
      i == CHOOSE i \in S : \A j \in S : i <= j
  IN  IF S = {} THEN [b |-> d.b, f |-> NoFile]
      ELSE ClusterFile(d.b, d.infos[i].cluster, d.infos[i].size, d.infos[i].dir)

RECURSIVE SkipSlashes(_)
SkipSlashes(p) == IF p # <<>> /\ p[1] = "/" THEN SkipSlashes(Tail(p)) ELSE p

NameEnd(p) == IF \E i \in DOMAIN p : p[i] = "/"
              THEN (CHOOSE i \in DOMAIN p :
                      p[i] = "/" /\ \A j \in 1..i - 1 : p[j] # "/") - 1
              ELSE Len(p)

(* The loop of Fat16FileSystem::openFile: d is the directory reached, f    *)
(* the file.  A directory made from a file reads through that file, so     *)
(* it leaves the file's cursor and buffer behind its last entry.           *)
RECURSIVE Lookup(_, _, _)
Lookup(d, f, p) ==
  IF p = <<>> THEN [b |-> d.b, f |-> f]
  ELSE LET n == NameEnd(p)
           o == OpenIn(d, SubSeq(p, 1, n))
           rest == SubSeq(p, n + 1, Len(p))
       IN  IF ~o.f.open \/ rest = <<>> THEN o
           ELSE IF ~o.f.dir THEN [b |-> o.b, f |-> NoFile]
                ELSE LET sub == Directory(o.b, o.f)
                     IN  Lookup(sub, sub.f, SkipSlashes(rest))

openFile(b, p) ==
  LET root == Directory(b, RootFile)
  IN  Lookup(root, root.f, SkipSlashes(p))

-----------------------------------------------------------------------------
Keep(b) == /\ fat' = b.fat
           /\ bounce' = b.bounce

Open(h, p) ==
  /\ ~file[h].open
  /\ LET o == openFile(Buffers, p)
     IN  /\ file' = [file EXCEPT ![h] = o.f]
         /\ Keep(o.b)
  /\ path' = [path EXCEPT ![h] = p]
  /\ got' = [got EXCEPT ![h] = <<>>]
  /\ listing' = NoResult
  /\ UNCHANGED <<vol, faults>>

(* read(); any data sector may fail to be transferred.                     *)
Read(h, n, bad) ==
  /\ file[h].open
  /\ ~file[h].dir
  /\ faults + Cardinality(bad) <= MaxFaults
  /\ LET r == ReadCells(Buffers, file[h], n, bad, <<>>)
     IN  /\ file' = [file EXCEPT ![h] = r.f]
         /\ Keep(r.b)
         /\ got' = [got EXCEPT ![h] = r.out]
  /\ listing' = NoResult
  /\ faults' = faults + Cardinality(bad)
  /\ UNCHANGED <<vol, path>>

(* readdir() for at most n entries: fills the caller's array and stores    *)
(* the number of entries there are.                                        *)
Readdir(h, n) ==
  /\ file[h].open
  /\ file[h].dir
  /\ LET d == Directory(Buffers, file[h])
     IN  /\ file' = [file EXCEPT ![h] = d.f]
         /\ Keep(d.b)
         /\ listing' = [list |-> SubSeq(d.infos, 1, IF n < Len(d.infos)
                                                    THEN n ELSE Len(d.infos)),
                        num |-> Len(d.infos), of |-> h]
  /\ UNCHANGED <<vol, path, got, faults>>

Close(h) ==
  /\ file[h].open
  /\ file' = [file EXCEPT ![h] = NoFile]
  /\ path' = [path EXCEPT ![h] = NoPath]
  /\ got' = [got EXCEPT ![h] = <<>>]
  /\ listing' = NoResult
  /\ UNCHANGED <<vol, fat, bounce, faults>>

DataSectors(f) ==
  {first_data_sector + (c - 2) * SectorsPerCluster + i :
     c \in Range(f.clusters) \ {0}, i \in 0..SectorsPerCluster - 1}

Next ==
  \E h \in Handles :
    \/ \E p \in Paths : Open(h, p)
    \/ /\ file[h].open
       /\ \E n \in 1..MaxRead, bad \in {{}} \cup {{s} : s \in DataSectors(file[h])} : Read(h, n, bad)
    \/ \E n \in 1..MaxRead : Readdir(h, n)
    \/ Close(h)

Spec == Init /\ [][Next]_vars
-----------------------------------------------------------------------------
(* What the volume means, from the tree it was made of: the components of  *)
(* a path are its maximal runs without "/".                                *)
Starts(p) == {i \in DOMAIN p : p[i] # "/" /\ (i = 1 \/ p[i - 1] = "/")}
Ends(p) == {i \in DOMAIN p : p[i] # "/" /\ (i = Len(p) \/ p[i + 1] = "/")}
Components(p) ==
  LET from == SetToSortSeq(Starts(p), <)
      to == SetToSortSeq(Ends(p), <)
  IN  [k \in DOMAIN from |->
         [i \in 1..to[k] - from[k] + 1 |-> Upper(p[from[k] + i - 1])]]

Named(p) ==
  {n \in vol.nodes :
     /\ n.names = Components(p)
     /\ p # <<>> /\ p[Len(p)] = "/" => n.dir}

(* FileSystem.cpp openFile, Directory.cpp: a path opens the file that its  *)
(* components name in the tree, ignoring case and repeated slashes, with a *)
(* final slash for directories only, and with exactly the clusters of its  *)
(* chain; nothing else is opened.                                          *)
OpensTheNamedFile ==
  \A h \in Handles :
    IF file[h].open
    THEN \E n \in Named(path[h]) :
           /\ file[h].dir = n.dir
           /\ file[h].clusters = n.clusters
    ELSE Named(path[h]) = {}

ClusterCells == SectorsPerCluster * SectorCells

(* File.cpp read: the bytes of a file come out in the order of its chain,  *)
(* none skipped or repeated across sector and cluster boundaries and over  *)
(* any split into reads, while another file is read in between; only bytes *)
(* of a sector whose transfer failed, and not those read after the buffer  *)
(* moved on, may be wrong.                                                 *)
ReadsMatchFile ==
  \A h \in Handles : got[h] # <<>> =>
    \E n \in Named(path[h]) :
      /\ \A i \in DOMAIN got[h] : got[h][i][1] = file[h].cursor - Len(got[h]) + i - 1
      /\ n.clusters[1] # 0 =>
           \A i \in DOMAIN got[h] :
             LET pos == got[h][i][1]
             IN  \/ got[h][i][3]
                 \/ got[h][i][2].byte =
                      <<n.clusters[pos \div ClusterCells + 1], pos % ClusterCells>>
      /\ file[h].cursor <= Len(n.clusters) * ClusterCells

(* readdir.cpp, Directory.cpp init: a listing has the directory's visible  *)
(* entries in order, however often the descriptor was listed before, and   *)
(* reports how many there are when the array is too short.                 *)
ListsTheDirectory ==
  listing # NoResult =>
    \E n \in Named(path[listing.of]) :
      /\ listing.num = Len(n.kids)
      /\ [i \in DOMAIN listing.list |-> listing.list[i].name]
           = SubSeq(n.kids, 1, Len(listing.list))

(* open(), read() and readdir() agree with the volume.                     *)
FilesMatchVolume == OpensTheNamedFile /\ ReadsMatchFile /\ ListsTheDirectory
=============================================================================
