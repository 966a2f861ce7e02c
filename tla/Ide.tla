-------------------------------- MODULE Ide --------------------------------
(***************************************************************************)
(* One channel of the IDE driver (devices/ide.c), its two disks and the    *)
(* block layer above (devices/block.c and the operations of                *)
(* devices/partition.c).  ide_init() probes the disks, without the lock,   *)
(* and reads the first sector of each for partition_scan() before any      *)
(* other thread does I/O; afterwards threads read and write sectors        *)
(* through partitions.                                                     *)
(*                                                                         *)
(* The disk is external: it answers a command after a while, successfully  *)
(* or not, also after it has taken the data of a write, and the channel    *)
(* may raise interrupts that no command caused.                            *)
(***************************************************************************)
EXTENDS Integers, FiniteSets

CONSTANTS IThread,         \* the threads; Boot runs ide_init()
          Boot,
          Partition,       \* table entries: [disk, start, size, type]
          Capacity,        \* sectors of a disk
          SECTOR_T,        \* values of block_sector_t, 2^32
          MaxSector,       \* bound: sectors that threads ask for are below it
          MaxIo,           \* bound: calls of block_read() and block_write()
          MaxStray         \* bound: interrupts that no command caused

ASSUME IdeAssumption ==
  /\ Boot \in IThread /\ "none" \notin IThread
  /\ Capacity \in Nat \ {0} /\ MaxSector \in Nat
  /\ Partition \subseteq [disk : {0, 1}, start : Nat, size : Nat, type : STRING]

VARIABLES probe,           \* ide_init(): 0, 1: disks to check; 2, 3: to identify; 4: done
          is_ata,
          ilock,           \* the holder of the channel's lock
          expecting,       \* expecting_interrupt
          completion_wait, \* the semaphore's value
          ipc,             \* where each thread is in the driver
          req,             \* what it asks for: [op, disk, sec, val]
          got,             \* the sector that input_sector() read
          dev,             \* the selected disk: [state, op, disk, sec, val]
          irq,             \* the channel asks for an interrupt
          content,         \* the sectors' contents, per disk
          written,         \* what the sectors should hold: the last output_sector()
          failed,          \* the sectors whose last output_sector() ended in an error
          io_cnt,          \* read_cnt + write_cnt of the partitions
          stray,           \* the interrupts so far that no command caused
          gave_up,         \* wait_until_idle() has given up on a disk
          ipanic           \* the kernel has panicked

idevars == <<probe, is_ata, ilock, expecting, completion_wait, ipc, req, got, dev, irq,
             content, written, failed, io_cnt, stray, gave_up, ipanic>>

NoThread == "none"
Disk == {0, 1}
Value == {"v0", "v1"}
idle == [state |-> "idle", op |-> "none", disk |-> 0, sec |-> 0, val |-> "v0"]

IdeInit ==
  /\ probe = 0 /\ is_ata = [d \in Disk |-> FALSE]
  /\ ilock = NoThread /\ expecting = FALSE /\ completion_wait = 0
  /\ ipc = [t \in IThread |-> "none"]
  /\ req = [t \in IThread |-> [op |-> "none", disk |-> 0, sec |-> 0, val |-> "v0"]]
  /\ got = [t \in IThread |-> "v0"]
  /\ dev = idle /\ irq = FALSE
  /\ content = [d \in Disk |-> [s \in 0 .. Capacity - 1 |-> "v0"]]
  /\ written = content /\ failed = {}
  /\ io_cnt = 0 /\ stray = 0 /\ gave_up = FALSE /\ ipanic = FALSE

goto(t, from, to) == ipc[t] = from /\ ipc' = [ipc EXCEPT ![t] = to] /\ ~ipanic

\* PANIC() in thread t.
panic(t) == ipc' = [ipc EXCEPT ![t] = "panic"] /\ ipanic' = TRUE

----------------------------------------------------------------------------
(* The block layer *)

\* The table entry becomes a block device; the end is computed modulo 2^32.
found_partition(e) ==
  LET end == (e.start + e.size) % SECTOR_T
  IN e.start < Capacity /\ end >= e.start /\ end <= Capacity

blocks == {e \in Partition : found_partition(e) /\ is_ata[e.disk]}

\* check_sector() of the partition, and in block_read() of the disk, passes.
in_block(b, s) == s < b.size
check_sector(b, s) == in_block(b, s) /\ b.start + s < Capacity

\* block_read() or block_write() of sector s of partition b: partition_read()
\* or partition_write() passes it to the disk.
block_io(t, op, b, s, v) ==
  /\ probe = 4 /\ ipc[t] = "none" /\ ~ipanic
  /\ io_cnt + Cardinality({u \in IThread : ipc[u] # "none"}) < MaxIo
  /\ IF ~check_sector(b, s) \/ (op = "write" /\ b.type = "foreign")
     THEN panic(t) /\ UNCHANGED req
     ELSE /\ ipc' = [ipc EXCEPT ![t] = "acquire"]
          /\ req' = [req EXCEPT ![t] = [op |-> op, disk |-> b.disk, sec |-> b.start + s, val |-> v]]
          /\ UNCHANGED ipanic
  /\ UNCHANGED <<probe, is_ata, ilock, expecting, completion_wait, got, dev, irq,
                 content, written, failed, io_cnt, stray, gave_up>>

----------------------------------------------------------------------------
(* The driver *)

\* reset_channel() and check_device_type() of disk probe; if device 0 excludes a
\* device 1, that is not checked.
check_device_type(ata, slave_possible) ==
  /\ probe < 2 /\ ~ipanic /\ (ata => slave_possible)
  /\ is_ata' = [is_ata EXCEPT ![probe] = ata]
  /\ probe' = IF slave_possible THEN probe + 1 ELSE 2
  /\ UNCHANGED <<ilock, expecting, completion_wait, ipc, req, got, dev, irq, content, written,
                 failed, io_cnt, stray, gave_up, ipanic>>

\* ide_init() asks the ATA disks to identify themselves.
identify_ata_device ==
  /\ probe \in {2, 3} /\ ipc[Boot] = "none" /\ ~ipanic
  /\ IF is_ata[probe - 2]
     THEN /\ ipc' = [ipc EXCEPT ![Boot] = "select"]
          /\ req' = [req EXCEPT ![Boot].op = "identify", ![Boot].disk = probe - 2, ![Boot].sec = 0]
          /\ UNCHANGED probe
     ELSE probe' = probe + 1 /\ UNCHANGED <<ipc, req>>
  /\ UNCHANGED <<is_ata, ilock, expecting, completion_wait, got, dev, irq, content, written,
                 failed, io_cnt, stray, gave_up, ipanic>>

ide_lock(t) ==
  /\ ilock = NoThread
  /\ goto(t, "acquire", "select")
  /\ ilock' = t
  /\ UNCHANGED <<probe, is_ata, expecting, completion_wait, req, got, dev, irq, content,
                 written, failed, io_cnt, stray, gave_up, ipanic>>

\* Reading the status clears a pending interrupt; after 1000 rounds the driver
\* goes on regardless.
wait_until_idle ==
  /\ \/ dev.state = "idle" /\ UNCHANGED gave_up
     \/ dev.state # "idle" /\ gave_up' = TRUE
  /\ irq' = FALSE

\* Between two waits of select_device_wait() nothing gives the disks a command.
select_device_wait == wait_until_idle

select_sector(t) ==
  /\ goto(t, "select", "issue")
  /\ select_device_wait
  /\ UNCHANGED <<probe, is_ata, ilock, expecting, completion_wait, req, got, dev, content,
                 written, failed, io_cnt, stray, ipanic>>

\* The step after the command: a read waits for the interrupt first.
after_issue(t) == IF req[t].op = "write" THEN "busy" ELSE "wait"

\* A disk that is busy takes no command.
issue_pio_command(t) ==
  /\ goto(t, "issue", after_issue(t))
  /\ expecting' = TRUE
  /\ dev' = IF dev.state = "idle"
            THEN [state |-> "working", op |-> req[t].op, disk |-> req[t].disk, sec |-> req[t].sec, val |-> "v0"]
            ELSE dev
  /\ UNCHANGED <<probe, is_ata, ilock, completion_wait, req, got, irq, content, written,
                 failed, io_cnt, stray, gave_up, ipanic>>

\* sema_down(&c->completion_wait)
wait_completion(t) ==
  /\ completion_wait > 0
  /\ goto(t, "wait", IF req[t].op = "write" THEN "done" ELSE "busy")
  /\ completion_wait' = completion_wait - 1
  /\ UNCHANGED <<probe, is_ata, ilock, expecting, req, got, dev, irq, content, written,
                 failed, io_cnt, stray, gave_up, ipanic>>

BSY == dev.state = "working"
DRQ == dev.state \in {"data_in", "data_out"}

\* Mutation: the data register is read without looking at the status.
wait_while_busy_not == TRUE

\* wait_while_busy() returns, true.
wait_while_busy == ~BSY /\ DRQ

\* The step after the transfer: a write waits for the interrupt now.
after_transfer(t) == IF req[t].op = "write" THEN "wait" ELSE "done"

\* Then input_sector() or output_sector().
transfer(t) ==
  /\ wait_while_busy
  /\ goto(t, "busy", after_transfer(t))
  /\ IF req[t].op = "write"
     THEN /\ dev' = [dev EXCEPT !.state = "working", !.val = req[t].val]
          /\ written' = [written EXCEPT ![req[t].disk][req[t].sec] = req[t].val]
          /\ failed' = failed \ {<<req[t].disk, req[t].sec>>}
          /\ UNCHANGED got
     ELSE /\ got' = [got EXCEPT ![t] = IF dev.state = "data_in" THEN content[dev.disk][dev.sec] ELSE "garbage"]
          /\ dev' = IF dev.state = "data_in" THEN idle ELSE dev
          /\ UNCHANGED <<written, failed>>
  /\ UNCHANGED <<probe, is_ata, ilock, expecting, completion_wait, req, irq, content,
                 io_cnt, stray, gave_up, ipanic>>

\* wait_while_busy() returns false: the disk reports an error, or 30 seconds
\* have passed.  A disk that does not identify itself is left alone.
transfer_fails(t) ==
  /\ ipc[t] = "busy" /\ ~ipanic /\ ~DRQ
  /\ IF req[t].op = "identify"
     THEN /\ ipc' = [ipc EXCEPT ![t] = "none"]
          /\ is_ata' = [is_ata EXCEPT ![probe - 2] = FALSE]
          /\ probe' = probe + 1
          /\ UNCHANGED ipanic
     ELSE panic(t) /\ UNCHANGED <<is_ata, probe>>
  /\ UNCHANGED <<ilock, expecting, completion_wait, req, got, dev, irq, content, written,
                 failed, io_cnt, stray, gave_up>>

\* The end of identify_ata_device(): a disk of 1 GB or more is ignored, another is
\* registered and partition_scan() reads its first sector.
identified(t, large) ==
  /\ goto(t, "done", IF large THEN "none" ELSE "acquire") /\ req[t].op = "identify"
  /\ is_ata' = [is_ata EXCEPT ![probe - 2] = ~large]
  /\ probe' = IF large THEN probe + 1 ELSE probe
  /\ req' = IF large THEN req ELSE [req EXCEPT ![t].op = "read"]
  /\ UNCHANGED <<ilock, expecting, completion_wait, got, dev, irq, content, written,
                 failed, io_cnt, stray, gave_up, ipanic>>

\* ide_read() or ide_write() returns: the block layer counts the access, or
\* partition_scan() has its sector and ide_init() goes on.
ide_return(t) ==
  /\ goto(t, "done", "none") /\ req[t].op # "identify"
  /\ ilock' = NoThread
  /\ IF probe = 4 THEN io_cnt' = io_cnt + 1 /\ UNCHANGED probe
                  ELSE probe' = probe + 1 /\ UNCHANGED io_cnt
  /\ UNCHANGED <<is_ata, expecting, completion_wait, req, got, dev, irq, content,
                 written, failed, stray, gave_up, ipanic>>

\* Mutation: an interrupt wakes the waiter only after the command's transfer.
counted_idle == expecting /\ dev.state = "idle"

\* The handler takes the interrupt for a command's.
counted == expecting

interrupt_handler ==
  /\ irq /\ ~ipanic
  /\ irq' = FALSE
  /\ completion_wait' = IF counted THEN completion_wait + 1 ELSE completion_wait
  /\ UNCHANGED <<probe, is_ata, ilock, expecting, ipc, req, got, dev, content, written,
                 failed, io_cnt, stray, gave_up, ipanic>>

----------------------------------------------------------------------------
(* The disk *)

\* The selected disk finishes its work: it has the sector for a read, wants the
\* one to write, has written it, or reports an error.  Nobody looks for an error
\* of the last kind of work: ide_write() only waits for its interrupt.
dev_works(fails) ==
  /\ BSY /\ ~ipanic
  /\ LET storing == dev.op = "storing"
         wants == dev.op = "write" /\ ~fails
     IN /\ dev' = IF fails \/ storing THEN idle
                  ELSE [dev EXCEPT !.state = IF wants THEN "data_out" ELSE "data_in",
                                   !.op = IF wants THEN "storing" ELSE dev.op]
        /\ irq' = (irq \/ ~wants)
        /\ content' = IF storing /\ ~fails THEN [content EXCEPT ![dev.disk][dev.sec] = dev.val] ELSE content
        /\ failed' = IF storing /\ fails THEN failed \cup {<<dev.disk, dev.sec>>} ELSE failed
  /\ UNCHANGED <<probe, is_ata, ilock, expecting, completion_wait, ipc, req, got, written,
                 io_cnt, stray, gave_up, ipanic>>

dev_strays ==
  /\ stray < MaxStray /\ ~irq /\ ~ipanic
  /\ irq' = TRUE /\ stray' = stray + 1
  /\ UNCHANGED <<probe, is_ata, ilock, expecting, completion_wait, ipc, req, got, dev,
                 content, written, failed, io_cnt, gave_up, ipanic>>

ide_step(t) == ide_lock(t) \/ select_sector(t) \/ issue_pio_command(t) \/ wait_completion(t)
               \/ transfer(t) \/ transfer_fails(t) \/ ide_return(t)
               \/ \E large \in BOOLEAN : identified(t, large)

IdeNext ==
  \/ \E t \in IThread, b \in blocks, s \in 0 .. MaxSector - 1 :
       block_io(t, "read", b, s, "v0") \/ \E v \in Value : block_io(t, "write", b, s, v)
  \/ \E ata, slave_possible \in BOOLEAN : check_device_type(ata, slave_possible)
  \/ identify_ata_device
  \/ \E t \in IThread : ide_step(t)
  \/ interrupt_handler
  \/ \E fails \in BOOLEAN : dev_works(fails)
  \/ dev_strays

IdeSpec == IdeInit /\ [][IdeNext]_idevars

----------------------------------------------------------------------------
(* Properties *)

\* The disk had an error after it took the data of the sector's last write.
\* ide_write() looks at no status after that, and returned as if all were well.
WriteFailed(r) == <<r.disk, r.sec>> \in failed

\* ide_read() returns what the last ide_write() of the sector stored, although
\* completions of earlier commands and stray interrupts can wake it too early
\* and expecting_interrupt is never cleared: it looks at BSY and DRQ as well.
\* It does not when that write failed, or after wait_until_idle() gave up.
ReadsLastWrite ==
  \A t \in IThread :
    (ipc[t] = "done" /\ req[t].op = "read" /\ ~gave_up /\ ~WriteFailed(req[t]))
      => got[t] = written[req[t].disk][req[t].sec]

\* ide_write() returns after the disk has the sector or has failed to store it,
\* unless an interrupt that no command caused has been counted or
\* wait_until_idle() gave up on the disk.
WriteAcknowledged ==
  \A t \in IThread :
    (ipc[t] = "done" /\ req[t].op = "write" /\ stray = 0 /\ ~gave_up)
      => content[req[t].disk][req[t].sec] = req[t].val \/ WriteFailed(req[t])

\* Between two accesses no more completions are counted or on their way than
\* there were stray interrupts: they do not add up over the commands.
CompletionsBounded ==
  (ilock = NoThread /\ probe = 4 /\ ~gave_up /\ ~ipanic)
    => completion_wait + (IF irq THEN 1 ELSE 0) <= stray

\* After ide_init() a thread reaches only sectors of a partition of a disk that
\* was identified, and no foreign one to write.
PartitionConfined ==
  \A t \in IThread :
    (ipc[t] \notin {"none", "panic"} /\ probe = 4) =>
      \E b \in blocks :
        /\ b.disk = req[t].disk /\ req[t].sec \in b.start .. b.start + b.size - 1
        /\ req[t].sec < Capacity
        /\ req[t].op = "write" => b.type # "foreign"

\* A thread sleeps on completion_wait and the disk has nothing left to report.
NoAnswer == \E t \in IThread : ipc[t] = "wait" /\ completion_wait = 0 /\ ~irq /\ ~BSY

\* A call of the driver returns or the kernel panics: no completion is lost to
\* the status reads of wait_until_idle() or to the handler.  Only when
\* wait_until_idle() has given up can a command reach a disk that is not ready
\* for it: then its thread, and whoever wants the lock, may wait for ever.
IoReturns ==
  \A t \in IThread :
    (ipc[t] # "none") ~> (ipc[t] = "none" \/ ipanic \/ (gave_up /\ NoAnswer))

\* The sectors of a partition behave as memory that only the partition's users
\* reach: a read returns the last write, a write returns when it is done or has
\* failed, and left-over completions cannot add up until one of them breaks
\* this.  Nothing is said once wait_until_idle() has given up on the disk.
DiskOK == ReadsLastWrite /\ WriteAcknowledged /\ CompletionsBounded /\ PartitionConfined
=============================================================================
