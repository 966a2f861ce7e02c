------------------------------- MODULE Loader -------------------------------
(***************************************************************************)
(* The boot loader (threads/loader.S): the search of the hard disks for a  *)
(* bootable kernel partition, and the loop that reads the kernel.          *)
(***************************************************************************)
EXTENDS Integers, Sequences

CONSTANTS Machines,        \* machines: sequences of drives
          MAX_SECTORS,     \* sectors of the largest kernel, 1024
          WORD             \* 2 to the bits of BX and CX, 65536

SIGNATURE == 43605         \* 0xaa55

VARIABLES drives,          \* the drives: [signature, table]
          drive, part,     \* DL and SI: the drive and the entry looked at
          bad_drive,       \* the drive whose sector 0 could not be read, or 0
          reg_cx, ebx,     \* sectors to go, and the next one
          loaded,          \* the sectors read into memory
          lstate           \* "off", "mbr", "table", "load", "run", "not found", "read failed"

loadervars == <<drives, drive, part, bad_drive, reg_cx, ebx, loaded, lstate>>

LoaderInit ==
  /\ drives = <<>> /\ drive = 1 /\ part = 1 /\ bad_drive = 0
  /\ reg_cx = 0 /\ ebx = 0 /\ loaded = <<>> /\ lstate = "off"

power_on(m) ==
  /\ lstate = "off"
  /\ drives' = m /\ lstate' = "mbr"
  /\ UNCHANGED <<drive, part, bad_drive, reg_cx, ebx, loaded>>

\* next_drive: INC leaves the carry flag alone, so JNC tests the carry of the
\* comparison that came before.
next_drive(carry) ==
  /\ drive' = drive + 1
  /\ lstate' = IF carry THEN "not found" ELSE "mbr"

\* read_mbr: read_sector() fails for a drive that is not there, and may fail for
\* one that is; either ends the search.
read_mbr ==
  /\ lstate = "mbr"
  /\ \/ drive > Len(drives) /\ lstate' = "not found" /\ UNCHANGED <<drive, part, bad_drive>>
     \/ drive <= Len(drives) /\ lstate' = "not found" /\ bad_drive' = drive /\ UNCHANGED <<drive, part>>
     \/ /\ drive <= Len(drives) /\ drives[drive].signature # SIGNATURE
        /\ next_drive(drives[drive].signature < SIGNATURE) /\ UNCHANGED <<part, bad_drive>>
     \/ /\ drive <= Len(drives) /\ drives[drive].signature = SIGNATURE
        /\ lstate' = "table" /\ part' = 1 /\ UNCHANGED <<drive, bad_drive>>
  /\ UNCHANGED <<drives, reg_cx, ebx, loaded>>

\* An entry in use, of type 0x20, and bootable.
is_kernel(e) == e.used /\ e.type = 32 /\ e.bootable

sector_cnt(e) == IF e.size <= MAX_SECTORS THEN e.size ELSE MAX_SECTORS

\* check_partition, and next_partition after the last entry of four.
check_partition ==
  LET e == drives[drive].table[part]
  IN /\ lstate = "table"
     /\ IF is_kernel(e)
        THEN lstate' = "load" /\ reg_cx' = sector_cnt(e) /\ ebx' = e.start /\ UNCHANGED <<drive, part>>
        ELSE /\ UNCHANGED <<reg_cx, ebx>>
             /\ IF part < Len(drives[drive].table) THEN part' = part + 1 /\ UNCHANGED <<drive, lstate>>
                ELSE next_drive(FALSE) /\ UNCHANGED part
     /\ UNCHANGED <<drives, bad_drive, loaded>>

\* next_sector: INC BX wraps, and so does LOOP, which decrements CX first: for a
\* partition of no sectors it goes round WORD times.
next_sector ==
  /\ lstate = "load"
  /\ loaded' = Append(loaded, ebx)
  /\ ebx' = (ebx \div WORD) * WORD + ((ebx + 1) % WORD)
  /\ reg_cx' = (reg_cx - 1) % WORD
  /\ lstate' = IF reg_cx' = 0 THEN "run" ELSE "load"
  /\ UNCHANGED <<drives, drive, part, bad_drive>>

\* BIOS reports an error.
read_failed ==
  /\ lstate = "load"
  /\ lstate' = "read failed"
  /\ UNCHANGED <<drives, drive, part, bad_drive, reg_cx, ebx, loaded>>

LoaderNext ==
  \/ lstate = "off" /\ \E m \in Machines : power_on(m)
  \/ read_mbr \/ check_partition \/ next_sector \/ read_failed

----------------------------------------------------------------------------
(* Properties *)

kernel_entries == {p \in (DOMAIN drives) \X (1 .. 4) :
                     /\ p[2] \in DOMAIN drives[p[1]].table /\ drives[p[1]].signature = SIGNATURE
                     /\ LET e == drives[p[1]].table[p[2]] IN e.used /\ e.type = 32 /\ e.bootable}

\* A drive at which the search ends: one without a partition table, if the word
\* in the signature's place is below it, or one that could not be read.
ends_search(d) == d = bad_drive \/ drives[d].signature < SIGNATURE

\* What the loader starts is the first bootable kernel partition of the drives,
\* its sectors read once each, in order and as many as a kernel may have, for a
\* partition that has any and does not straddle a multiple of WORD sectors.
LoadsKernel ==
  lstate = "run" =>
    /\ <<drive, part>> \in kernel_entries
    /\ \A p \in kernel_entries : drive < p[1] \/ (drive = p[1] /\ part <= p[2])
    /\ LET e == drives[drive].table[part]
       IN (e.size > 0 /\ e.start \div WORD = (e.start + Len(loaded) - 1) \div WORD) =>
            /\ Len(loaded) = IF e.size <= MAX_SECTORS THEN e.size ELSE MAX_SECTORS
            /\ loaded = [i \in 1 .. Len(loaded) |-> e.start + i - 1]

\* The loader looks at the drives in order up to the first that ends the search,
\* and gives up only if none up to there has a kernel.  That a drive without a
\* partition table can end it is the carry flag's doing: the comment there
\* (loader.S:96) is "No match on this drive, go on to the next one".
GivesUpLate ==
  /\ \A d \in 1 .. drive - 1 : lstate # "not found" => ~ends_search(d)
  /\ lstate = "not found" =>
       \A p \in kernel_entries : \E d \in 1 .. p[1] : ends_search(d) /\ \A k \in 1 .. d - 1 : ~ends_search(k)
=============================================================================
