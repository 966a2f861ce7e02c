--------------------------- MODULE PartitionTable ---------------------------
(***************************************************************************)
(* Finding the partitions of a disk (devices/partition.c).  Each frame of  *)
(* the recursion in read_partition_table() is a record on a stack, and a   *)
(* step handles one table entry.                                           *)
(***************************************************************************)
EXTENDS Integers, Sequences, SequencesExt, FiniteSets

CONSTANTS Disks,           \* disks: [size, tables], the latter from sectors to tables
          SECTOR_MOD,      \* 2 to the bits of block_sector_t
          MaxFrames        \* bound: frames on the kernel stack

VARIABLES disk,            \* the disk scanned
          frames,          \* [sector, primary, pt, i], the innermost last
          part_nr,         \* partitions encountered
          registered,      \* the block devices registered
          scan_state       \* "idle", "scanning", "done", "overflow"

ptvars == <<disk, frames, part_nr, registered, scan_state>>

\* A table is a sequence of entries [type, offset, size].  Types are "empty",
\* "ext" (the four extended types), and the ones of block devices.
no_table == <<>>           \* a sector without the signature
table_at(d, sector) == IF sector \in DOMAIN d.tables THEN d.tables[sector] ELSE no_table

\* The sector that read_partition_table (block, SECTOR, ...) reads: always 0.
sector_read(sector) == 0

PartitionInit ==
  /\ disk = [size |-> 0, tables |-> <<>>]
  /\ frames = <<>> /\ part_nr = 0 /\ registered = {} /\ scan_state = "idle"

----------------------------------------------------------------------------
\* A call of read_partition_table(), which returns at once if the sector is
\* past the end of the device or has no signature.
entered(d, sector, primary) ==
  IF sector >= d.size \/ table_at(d, sector_read(sector)) = no_table THEN <<>>
  ELSE <<[sector |-> sector, primary |-> primary, pt |-> table_at(d, sector_read(sector)), i |-> 1]>>

partition_scan(d) ==
  /\ scan_state = "idle"
  /\ disk' = d
  /\ scan_state' = "scanning" /\ frames' = entered(d, 0, 0)
  /\ UNCHANGED <<part_nr, registered>>

top_frame == Last(frames)
entry == top_frame.pt[top_frame.i]
advanced == [frames EXCEPT ![Len(frames)].i = @ + 1]
in_entries == scan_state = "scanning" /\ frames # <<>> /\ top_frame.i <= Len(top_frame.pt)
ignored(e) == e.size = 0 \/ e.type = "empty"

empty_entry ==
  /\ in_entries /\ ignored(entry)
  /\ frames' = advanced
  /\ UNCHANGED <<disk, part_nr, registered, scan_state>>

\* The offset of an extended entry in the MBR is absolute, and elsewhere
\* relative to the extended partition of the MBR.
extended_entry ==
  LET primary == IF top_frame.sector = 0 THEN entry.offset ELSE top_frame.primary
      sector == IF top_frame.sector = 0 THEN entry.offset
                ELSE (entry.offset + top_frame.primary) % SECTOR_MOD
  IN /\ in_entries /\ ~ignored(entry) /\ entry.type = "ext"
     /\ scan_state' = IF Len(frames) = MaxFrames /\ entered(disk, sector, primary) # <<>> THEN "overflow" ELSE scan_state
     /\ frames' = advanced \o entered(disk, sector, primary)
     /\ UNCHANGED <<disk, part_nr, registered>>

\* Mutation: the end of the partition may wrap around.
fits_disk_wrapped(start, size) == start < disk.size /\ (start + size) % SECTOR_MOD <= disk.size

\* The checks of found_partition().
fits_disk(start, size) ==
  LET end == (start + size) % SECTOR_MOD
  IN start < disk.size /\ ~(end < start \/ end > disk.size)

\* ++*part_nr
numbered(start, size) == part_nr + 1

found_partition ==
  LET start == (entry.offset + top_frame.sector) % SECTOR_MOD
  IN /\ in_entries /\ ~ignored(entry) /\ entry.type # "ext"
     /\ part_nr' = numbered(start, entry.size)
     /\ registered' = IF fits_disk(start, entry.size)
                      THEN registered \cup {[nr |-> numbered(start, entry.size), start |-> start,
                                             size |-> entry.size, type |-> entry.type]}
                      ELSE registered
     /\ frames' = advanced
     /\ UNCHANGED <<disk, scan_state>>

table_end ==
  /\ scan_state = "scanning" /\ frames # <<>> /\ top_frame.i > Len(top_frame.pt)
  /\ frames' = Front(frames)
  /\ UNCHANGED <<disk, part_nr, registered, scan_state>>

scan_end ==
  /\ scan_state = "scanning" /\ frames = <<>>
  /\ scan_state' = "done"
  /\ UNCHANGED <<disk, frames, part_nr, registered>>

PartitionNext ==
  \/ \E d \in Disks : partition_scan(d)
  \/ empty_entry \/ extended_entry \/ found_partition \/ table_end \/ scan_end

PartitionSpec == PartitionInit /\ [][PartitionNext]_ptvars

----------------------------------------------------------------------------
(* Properties *)

\* The entries of the MBR that are primary partitions, and their numbers on a
\* disk without an extended partition.
primary_entries(pt) == {i \in DOMAIN pt : ~ignored(pt[i]) /\ pt[i].type # "ext"}
has_extended(pt) == \E i \in DOMAIN pt : ~ignored(pt[i]) /\ pt[i].type = "ext"

\* On a disk without extended partitions, exactly the primary partitions inside
\* the device are registered, each at its place and with the number it has among
\* all the entries that are not empty.
PrimariesFound ==
  scan_state = "done" /\ ~has_extended(table_at(disk, 0)) =>
    LET pt == table_at(disk, 0)
        nr(i) == Cardinality({k \in primary_entries(pt) : k <= i})
    IN registered = {[nr |-> nr(i), start |-> pt[i].offset, size |-> pt[i].size, type |-> pt[i].type] :
                       i \in {k \in primary_entries(pt) : pt[k].offset + pt[k].size <= disk.size}}

\* What is registered lies inside the device, also where the sum of an offset
\* and a size wraps around, and no two block devices have the same number.
RegisteredInside ==
  \A p, q \in registered : /\ p.start + p.size <= disk.size
                           /\ p.nr = q.nr => p = q

\* "Reads the partition table in the given SECTOR of BLOCK and scans it for
\* partitions of interest to Pintos" (partition.c:34): the logical partitions
\* of an extended partition are found, each at its offset from its own table.
LogicalFound ==
  scan_state = "done" =>
    \A sector \in DOMAIN disk.tables : \A i \in DOMAIN disk.tables[sector] :
      LET e == disk.tables[sector][i]
      IN ~ignored(e) /\ e.type # "ext" /\ sector + e.offset + e.size <= disk.size =>
           \E p \in registered : p.start = sector + e.offset /\ p.size = e.size /\ p.type = e.type

\* The scan registers the primary partitions, each once and inside the disk.
PartitionsRight == PrimariesFound /\ RegisteredInside
=============================================================================
