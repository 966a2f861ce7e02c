# A TLA+ model of the Pintos kernel in this repository

The repository is a Pintos kernel (x86, one CPU, kernel threads only) whose page
allocator has been extended by next fit, best fit and the beginnings of a buddy
system. The specification here covers the kernel from the boot loader to the
library functions: the scheduler and synchronisation, both allocators, interrupt
dispatch, the drivers, the algorithms of `lib/`, and the relay of the simulator's
terminal. TLC checks small instances. TLAPS proves the central safety properties
for every value of the constants.

Paths below are relative to `src/`. `PROJECT.json` maps every definition to the
lines it models and lists runs, mutants, findings, hazards and theorems.

## The system

| Part | Source | Modules | What runs concurrently with it |
|---|---|---|---|
| Scheduler | `threads/thread.c`, `switch.S` | `Threads`, `AllList` | timer interrupt, every thread |
| Synchronisation | `threads/synch.c` | `Semaphores`, `Synch` | threads; handlers (`sema_up`) |
| Thread life | `thread_create`, `thread_exit`, `thread_schedule_tail` | `ThreadLife` | any thread, at any point of it |
| Page allocator | `threads/palloc.c` | `Palloc` | threads; the mode changes without a lock |
| Block allocator | `threads/malloc.c` | `Malloc` | threads |
| Interrupt dispatch | `threads/interrupt.c`, `intr-stubs.S` | `Intr` | hardware, thread switches |
| Interrupt queues | `devices/intq.c` | `Intq`, `Fifo` | threads and handlers |
| Serial port, input buffer | `devices/serial.c`, `input.c` | `Serial` | threads and handlers |
| Console, panics | `lib/kernel/console.c`, `debug.c` | `Console` | threads, handlers, panics |
| Disks, block layer | `devices/ide.c`, `block.c`, `partition.c` | `Ide`, `PartitionTable` | threads, handler, the disk |
| Timer, real-time clock | `devices/timer.c`, `rtc.c` | `Timer`, `Clock` | timer interrupt; the clock chip |
| Keyboard, screen | `devices/kbd.c`, `vga.c`, `speaker.c` | `Kbd`, `Vga` | handlers |
| Boot and shutdown | `threads/loader.S`, `init.c`, `devices/shutdown.c` | `Loader`, `Boot` | interrupts from `thread_start` on |
| Containers | `lib/kernel/list.c`, `hash.c`, `bitmap.c` | `ListOps`, `Lists`, `Sequence`, `Hash`, `Bitmap` | their callers |
| Algorithms | `lib/string.c`, `stdio.c`, `stdlib.c`, `arithmetic.c`, `random.c`, `ustar.c` | `Strings`, `Printf`, `Stdlib`, `Arith`, `Ustar` | none |
| Terminal relay | `utils/squish-pty.c`, `squish-unix.c` | `Relay` | the simulator and the user |

The hard behaviours are those of one preemptive CPU: code is atomic while
interrupts are off and may be preempted between any two instructions while they
are on; handlers run on top of any thread; a switch ends on the stack of another
thread. Nothing is persisted, so there is no crash recovery.

## Modules

### Threads and memory

`Semaphores` extends `Threads` with the semaphore and lock primitives as steps of
threads; `Synch`, `ThreadLife` and `Intq` extend that with one kind of client each.
The other modules stand on what these show: where `Palloc`, `Malloc` or `Ide` takes
a lock in one step, `Synch` is the reason; where `Serial` uses a bounded sequence for
a queue, `Intq` is.

**Threads**. A thread is the page that holds its `struct thread` and stack. `status`,
`ready_list`, `idle_thread`, `thread_ticks` are the code's; `cur` is what `running_thread()` finds; `intr` is the CPU's flag. `reap[t]` is the work left for the
`thread_schedule_tail()` frames on `t`'s stack, which free dead threads. Each stretch
with interrupts off is one action, which ends at `schedule()`. Whether a thread
blocks, yields, creates, unblocks or exits is left open. `all_list`, which the scheduler
never reads, is a model of its own: **AllList** has its pointers and the preemption
points inside `init_thread()`'s `list_push_back()`.

**Semaphores** and **Synch**. `pc[t]` is where a thread is. Labels are the points with
interrupts on, where the timer may preempt, and `down`, the test of the loop in
`sema_down()`. `lock_acquire()` is two steps, `sema_down()` and the assignment of
`holder`; `lock_release()` is two in the other order. A thread's `semaphore_elem` in
`cond_wait()` is the semaphore named after the thread. Callers do everything the
assertions allow, and handlers call `sema_up()`.

**ThreadLife**. `thread_create()` step by step (`kernel_pool.lock`, the page,
`init_thread()`, `tid_lock`, `next_tid++` as a read and a write, `thread_unblock()`), and
`thread_exit()`, after which the next thread frees the page inside the switch under
`kernel_pool.lock` (`tail_free`, `tail_release`). A failed assertion or an endless loop
sets `halted`.

**Palloc**. Pools have absolute page numbers laid out as `palloc_init()` and
`init_pool()` do. `find_best_fit()` is modelled loop iteration by loop iteration. The
mode is read inside the lock and may be set at any time.

**Malloc**. Descriptors, arenas and free lists; `malloc()`, `calloc()`, `realloc()` and
`free()` in steps around a descriptor's lock, so that another thread allocates or
frees between `free()`'s look at the arena and its lock, or while `realloc()` copies.
Sizes are numbers modulo `SIZE_T`. `MallocAssumption` excludes sizes near it, for which
`malloc()` has no overflow check, and with them the products that `calloc()` refuses.

### Interrupts and devices

**Intr**. Each thread has a stack of interrupt frames with the flag each saved. The
controllers hold an IRQ back while interrupts are off or another is in service.
`intr_handler()` is split where it may switch threads; spurious and unhandled vectors
are included. Internal interrupts have no registered handler here and are left out.

**Intq** and **Fifo**. The functions run with interrupts off and give up the CPU in two
places: asleep for `q->lock` and in `wait()`. Handlers put a byte if the queue is not
full and get one if it is not empty, as `kbd.c` and `serial.c` test before they call.
`Fifo` is the abstract queue.

**Serial**. The port in all its modes, polling, flushing and the handler, with the
interrupt enable register that both the transmit queue and the input buffer govern.

**Console**. A message is the lock, then for each character a step into the serial port
and one into the display, then the lock, whose semaphore and holder change in two steps.
A thread may print again at any point of a call it is in, as the backtrace in
`console.c` shows it doing inside `serial_putc()`; `console_lock_depth` counts such calls.
Handlers print without the lock, and any context may panic, also during a panic. `serial_out` and
`vga_out` have the characters of threads; those of handlers come between them anywhere,
as the code intends, and are not recorded.

**Ide**. Probing and I/O on one channel with two disks, below partitions and the block
layer, with the read of the partition table that ends the identification of a disk. The
disk is external: it answers late, fails, also after it has taken the data of a write,
stays busy or interrupts without cause. This kernel's `main()` does not call `ide_init()`; the driver is modelled as
the code stands. **PartitionTable** is the scan of partition tables, one frame of the
recursion per record.

**Timer** reads the 64-bit `ticks` in two halves, as a 32-bit machine does, and sleeps.
**Clock** has the calibration loop against an unknown speed, and `rtc_get_time()`'s loop
over six registers against a clock that advances at any point and updates its registers
one by one. A pass of the loop takes less than a minute. **Kbd** follows keys that go down and up in any order, over a keymap
with a key of each kind. **Vga** has the framebuffer, and lets a handler print during a bell.

### Boot, library, relay

**Loader** searches drives and reads the kernel; BIOS calls are outcomes, errors included,
and registers wrap. **Boot** is the order of `main()` with interrupts arriving from
`thread_start()` on, `paging_init()`, the command line and `shutdown()`, which a panic calls
too. The call `random_init (rtc_get_time ())` that ends
`parse_options()` is left to `Arith` and `Clock`.

**ListOps** is `list.c` pointer by pointer, as operators on a memory; **Lists** has clients
that call it in every legal order, with removed elements keeping old pointers, and
**Sequence** is what `list.h` promises: the value of every call as an operator on
sequences. **Hash** has rehashing whose allocation may fail.
**Bitmap**, **Strings**, **Printf**, **Stdlib**, **Arith** and **Ustar** write each loop as the code
does, over scaled-down words, and compare it with a definition that has no loop. `Printf`
has every type modifier, over widths of 2 to 5 bits.
**Relay** is the select loop of both `squish` programs, with partial reads and writes,
end of input, failing output, the death of the child and new connections.

## Runs

`MC*` modules give values to constants. In `devices` and `library` a behaviour belongs
to the part that `Init` picks with `component`, and the other parts stay as they start;
in `intq` `Init` picks a use of the queue (`use`).

| Run | Question | Bounds |
|---|---|---|
| `threads` | Are lists, states and the destruction of threads consistent under any use of the scheduler? Does every ready thread run? | main, idle, two pages that are used again and again; slice of 3 ticks |
| `synch` | Do locks exclude; are wait lists right; is no wakeup or signal lost or doubled? | 3 threads, a handler, a semaphore, a lock, a condition; 2 calls per thread |
| `synch_live` | Does a thread that asks for a lock get it, and a signalled thread return? | 3 threads, a lock, a condition; 2 calls per thread |
| `thread_life` | Are pages, tids and wait lists right when dead threads are freed inside a switch? | main, idle, three pages; 5 calls of `thread_create()` |
| `palloc` | Is no page handed out twice, lost, or freed into the wrong pool, with the mode changing? Does each search find the block its name promises? | a kernel pool of 6 pages and a user pool of 1, requests of 1 to 3; one client fills them, or two share them and keep 2 pages between them |
| `intq` | Is the ring buffer a queue; can the threads asleep in `wait()` be woken; does a thread return? | one reader and a handler that puts; one writer and a handler that gets; two readers, a writer and both handlers; buffer of 3 |
| `devices` | Does each driver keep its data in order while handlers, threads and hardware interleave, and does every call end? | queues of 2, 4 bytes out, 2 in; 2 messages of 2 characters, nested twice; 2 disks of 3 sectors, 2 accesses, a stray interrupt; 4 ticks, halves of 2 values; 5 IRQs, 2 threads; relay buffer of 2 |
| `library` | Does each algorithm give what its comment promises, for every input up to a size? | the constants of `MCLibrary.cfg`, each named after what it bounds |

The composite properties are conjunctions of named parts, each commented where it is
defined:

* `LifeOK`: types, exclusion of both locks, wait lists (`SleepersOK`), and pages that are
  free, being made, alive or waiting to be freed, and only one of these (`PagesOK`).
* `PagesExact`: blocks disjoint, `used_map` exact, a free finds its pages in use. `FitsRight`,
  `NextFit`: what best fit and next fit return, and that NULL means that no hole fits.
* `WaiterOK`: types, the threads asleep are the ones that `signal()` wakes, and the
  assertion in `wait()` as long as one thread uses the queue.
* `SerialOK`: bytes go out once and in order, and the interrupt enable register fits
  both queues. `ConsoleOK`: who prints has the lock, messages do not mix, both devices show
  the same characters. `DiskOK`: a read returns the last write, a write returns when it is
  done or has failed, left-over completions do not add up, partitions confine. `InterruptsOK`: handlers never
  nest, are acknowledged before a switch, yield only for themselves and restore the flag.
  `RelayOK`: nothing lost, doubled or reordered, to the simulator's last byte.
* `CallsReturn`, `DataDelivered`: the liveness of the drivers (printing and panics, disk I/O,
  sleeping; bytes both ways, pending interrupts, relayed output). `CallsReturn` names the two
  cases in which the code waits for ever, `WaitsForItself` and `NoAnswer` below.
* `IsSequence`: every step of `list.c` is one of `Sequence`, and in every state reached each
  call with each argument gives exactly the value that `Sequence` names: an element goes
  where the call says, after its equals when the insertion is ordered, and no other list
  changes (`CallsExact`).
* `IsMap`: a hash table is a map, with `HashOK` and `IterationComplete` for what a failed
  rehash and an iteration leave.
* `HeapOK`, `StringsRight`, ..., `StartUpRight`, `TerminalRight`, `ClockRight`: one per part of
  `library`.

Each property has a mutant in `PROJECT.json`, a plausible bug in a mapped definition
under which TLC finds the property violated.

### Disagreements

Four runs expect a violation:

* `thread_life_held`: a thread preempted in `palloc_get_multiple()` with the pool
  lock, and switched to by a thread that exits, asks for the lock it holds. `thread_life`
  shows the quieter form: preempted in `lock_acquire()` before `holder` is set, the thread
  passes the assertion and sleeps on its own lock (`SelfWait`, which `IdleFindsPoolFree`
  has to except).
* `palloc_buddy`: in mode `PAL_BUDDY` blocks are not placed as the repository's README
  describes, because the code calls first fit.
* `all_list`: `init_thread()` inserts into `all_list` with interrupts on, and of two
  insertions that overlap one is undone: a thread that lives is not on the list.
* `partition`: `read_partition_table()` always reads sector 0, so logical partitions are
  not found; the recursion ends only if twice the extended partition's start is past the
  end of the disk.

Smaller ones, which the models translate and the properties step around:

* `memmove()` returns the end of the destination instead of its start (`string.c:22`) when it
  copies upwards, and `strlcat()` writes nothing, not even a terminator (`string.c:333-335`),
  when the destination has no room for one. `WriteRight` states both.
* In `%'.5d` the separators count towards the precision (`stdio.c:485`), so that the zeros
  "to match precision" (`stdio.c:479`) are too few; `IntegerReads` states the sum that holds.
* `rtc_get_time()`'s loop is there for a read in the middle of an update (`rtc.c:53-55`), but
  it reads only the seconds twice, and these have changed first: a pass that begins in an
  update can combine registers from before and after it. `TimeNotTorn` is exact otherwise.
* A `printf()` nested in `lock_acquire()` or `lock_release()` of the console lock, between the
  semaphore and the holder, sleeps on its own thread's lock (`WaitsForItself`): the depth
  counter looks at the holder. One nested between `serial_putc()` and `vga_putc()` overtakes a
  character on the display only; `DevicesAgree` says what is left.
* `bitmap_scan_and_flip()` with `cnt` 0 returns `start`, where its comment says 0.
* `timer_calibrate()` tests each bit against the high bit alone, so the accepted bits
  together may exceed a tick; `CalibratedWithinTwo` states the bound that holds.
* `umod64()` and `smod64()` return 32 bits; exact remainders are claimed for divisors that fit.
* `ide.c` never clears `expecting_interrupt`, so a late or stray interrupt is counted as a
  completion; `WriteAcknowledged` excepts behaviours with a stray interrupt, or with a
  disk so slow that `wait_until_idle()` gave up on it. After a give-up a command may reach a
  disk that is not ready and never answers it (`NoAnswer`). `ide_write()` looks at no status
  after it has sent the data, although it "Returns after the disk has acknowledged
  receiving the data" (`ide.c:340-341`): a write that fails then goes unnoticed, and `DiskOK` excepts
  sectors whose last write failed.
* `%0*d` with a negative width pads on both sides; `FieldRight` excepts it.
* In the loader the comparison with the signature 0xaa55 leaves the carry flag that the
  `jnc` after `inc` tests, so a drive with a smaller value there ends the search, against
  "go on to the next one" (`loader.S:96`); the low half of the sector number wraps while sectors
  are read, and so does the count of a partition of no sectors. `GivesUpLate` and
  `LoadsKernel` name these cases.
* `intq_getc()` does not test the queue again once it has the lock, so with two readers
  `wait()`'s assertion can fail. This kernel does not do that: `input_getc()` has no caller,
  and the console lock serialises the writers of the transmit queue.
* `squish-unix` drops buffered output when its socket closes, so `LastWordsRelayed` is
  claimed for `squish-pty`.

### Why the bounds are enough

Scheduler and locks: three client threads give a holder, a woken thread and one that
overtakes it, and two calls let each thread take the lock and wait or signal. With
`TIME_SLICE` 1 in the synchronisation runs every tick preempts, which includes every
preemption a longer slice allows; `threads` uses 3 so that counting matters. In
`thread_life` three pages and five calls let a page be used again, the pool run empty,
and several threads wait for the pool lock while another dies; with four calls nobody
waits when the freeing thread releases the lock. In `palloc` 6 pages with requests up to
3 give several holes of different and equal sizes, and the user pool of one page starts
after its own bitmap page, so both pools and the gap between them occur. Two clients
change the bitmap and the mode between each other's steps, with few pages kept; the full
patterns of holes are one client's. The theorems have neither bound. Byte values are two,
enough to tell orders apart. `palloc` uses symmetry in the clients and `thread_life` in the
pages; neither run has a liveness property.

Devices: with queues of 2 both fill up and wrap, and the two conditions on the interrupt
enable register cross. Two threads, a handler and a panic at the console give a holder, a
waiter and an intruder at each step of a message. The relay's buffer of 2 fills up in both
directions. Four ticks with halves of two values carry into
the high half while a thread is between the two reads. Five IRQs on two threads let an
interrupt arrive on a thread that is switched to inside another thread's handler.

Library: words are scaled down so that every digit count, every wrap and every partial
element occurs: integers of 2 to 5 bits in `Printf`, 2-bit elements in a bitmap of 5 bits, halves of
4 bits in division (all 65280 pairs), a generator of 5 entries, a memory of 5 bytes with 3
values for strings. Hash values share buckets until a rehash. The sizes asked
of `Malloc` are zero, one for each of two descriptors, and one that takes two pages.

`CHECK_DEADLOCK FALSE` stands where the model may stop: after a failed assertion or a hang
(`thread_life*`, `intq`), after a panic or when a bounded amount of work is done (`devices`),
and when a function has returned (`library`, `all_list`, `partition`).

### Fairness

* `SF(timer_interrupt)`: an IRQ raised while interrupts are off stays pending in the
  PIC and is served when they are on. The same holds for `SF(intr_entry)` in `Intr` and
  `SF(serial_interrupt)` in `Serial`.
* `WF(intr_enable)`, `WF(free_prev)`, `WF(Resumes)`, and `intr_handler()`'s own steps: code with
  interrupts off is short and ends.
* `SF(Inner \/ lock_release)` in `Synch`, `SF(InQueue)` in `Intq`, `SF(sleeps)` in `Timer`, `WF` of a
  thread's steps in `Console` and `Ide`: a thread that gets the CPU again and again makes
  progress, as `StarvationFree` shows for the scheduler; a slice is far longer than a path
  through these functions. That a thread which holds a lock releases it is an assumption
  about callers.
* `SF(ide_lock)`: a waiter for the channel's lock is served, as `AcquireReturns` shows.
* External parts: the UART sends what it is given and becomes ready again and again
  (`uart_sent`, `handler_get`), a disk answers sooner or later (`dev_works`), and `select()`
  returns when a descriptor is ready (`RelayStep`). Someone reads keys (`input_getc`); nobody
  need press one.

## Proofs

Eight modules prove, for every value of the constants, what the runs check on an
instance. Each theorem follows from an inductive invariant that TLC checked first, with
one step per action. With them every safety property of the runs `threads`, `synch`,
`thread_life`, `palloc`, `intq` and `devices` is a theorem.

Most leaves are first-order reasoning, which Zenon does steadily, and some arithmetic,
which Z3 does; a `USE` at the head of a proof module puts them in this order.

| Theorem | For every | Statement |
|---|---|---|
| `Spec_OneRunning`, `Spec_ReadyListOK`, `Spec_ReapOK` (`ThreadsProofs`) | set of threads, time slice | the scheduler's safety properties |
| `Spec_MutualExclusion` (`SynchProofs`) | number of threads, locks, semaphores, conditions | locks exclude, through `cond_wait()` and `sema_up()` by handlers |
| `Spec_WaitersOK`, `Spec_NoLostWakeup`, `Spec_SignalOnce` (`SynchProofs`) | finite number of threads, locks, semaphores, conditions | waiters lists are right, no wakeup and no signal is lost |
| `Spec_Scheduler` (`SynchProofs`) | the same | `synch.c` takes no scheduler step but those of `Threads`, whose invariants hold under it |
| `Spec_LifeOK`, `Spec_TidsUnique`, `Spec_IdleFindsPoolFree` (`LifeInvariants`) | finite number of threads, number of creations | pages, locks, wait lists and tids are right while dead threads are freed inside the switch |
| `Spec_PagesExact` (`PallocProofs`) | number of clients, pool sizes, request sizes | no page is in two blocks, lost, or freed into the wrong pool, in any mode |
| `Spec_FitsRight` (`PallocProofs`) | the same | best fit takes the first of the smallest holes that fit; NULL means that none does |
| `Spec_NextFit` (`PallocProofs`) | the same | next fit takes the first free group after the last block, around the pool |
| `Spec_IsFifo` (`IntqProofs`) | buffer size above 1, threads, uses | the ring buffer implements `Fifo` |
| `Spec_WaiterOK` (`IntqProofs`) | the same | the threads asleep in `wait()` are those the queue names, and wait for what is not so; one thread alone passes the assertion |
| `Spec_InterruptsOK` (`DeviceProofs`) | set of threads and vectors | handlers never nest, are acknowledged before a switch, restore the flag |
| `Spec_SleepNotShort` (`DeviceProofs`) | set of threads, width of a half, tick rate | no sleep is short |
| `Spec_DiskOK` (`DeviceProofs`) | set of threads, capacity, partitions, number of errors and stray interrupts | a read returns the last write, a write is done or has failed when it returns, left-over completions are strays, partitions confine |
| `Spec_SerialOK` (`DeviceProofs`) | queue sizes | bytes in order, interrupt enable register right |
| `Spec_ConsoleOK` (`TerminalProofs`) | set of threads, depth of nesting, length and number of messages | who prints has the lock, messages do not mix, the devices agree |
| `Spec_RelayOK` (`TerminalProofs`) | buffer size, number of bytes and connections | nothing lost, doubled or reordered; last words arrive unless standard output was closed |

The assumptions are the named `ASSUME`s of the modules that declare the constants
(`ThreadAssumption`, `SemaAssumption`, `SynchAssumption`, `LifeAssumption`,
`PallocAssumption`, `IntqAssumption`, `SerialAssumption`, `ConsoleAssumption`,
`IdeAssumption`, `IntrAssumption`, `TimerAssumption`, `RelayAssumption`); TLC evaluates
them in the runs. They say that numbers are numbers, that a buffer has room, and that the
values which stand for NULL, the idle thread or a handler are not other threads.
`SynchAssumption` and `LifeAssumption` also ask for finitely many threads, to count them.

**Scheduler.** `IInv` is the type invariant, the three properties, `TailBeforeIntr` (a dead
thread is freed before interrupts are on again) and `IdleOK`, the part that carries the
argument. `idle_thread` is NULL until `idle()` has run, and
`next_thread_to_run()` returns it when the ready list is empty; `IdleOK` says that until
then the idle thread is running or ready, so that the ready list is not empty when
another thread leaves the CPU. `Schedule_IInv` shows once that `schedule()` keeps the
invariant whoever calls it, provided the caller left the ready list as `Leaves` says.

**Locks.** `MutexInv` has for each lock its three states (`LockOK`): free, held, or changing
hands, when the semaphore is down and `holder` is still or again NULL because one thread
is between the two halves of `lock_acquire()` or `lock_release()`. `ThreadOK` ties where a
thread is to the semaphore it has in hand, so that no step meant for a semaphore or a
condition touches a lock. It does not mention the scheduler: exclusion does not depend on
who runs next.

**Waiting.** `WaitInv` is `MutexInv`, the scheduler's `IInv` and `Order`. `SignalOK` has the
four states of a thread as a waiter: not in `cond_wait()`; on the condition's list; off the
list with one thread about to up its semaphore; its semaphore at 1. `PlaceOK` says that a
thread downs no other thread's semaphore and that only signals up one. With these each
action takes at most one thread from one state to the next. `NoLostWakeup` is inductive
only beside `WaitersOK`: `up(s)` adds one to the value and, because the thread that it
takes off the list was asleep in `sema_down(s)`, one to the awake threads there
(`Up_Sleep`). The scheduler enters in `Switch_Sleep`: a switch puts only its caller to
sleep, because the next thread is idle or was ready. `Frame_Next` shows that every step is
a step of `Threads`, so that `IInv` is kept by the proof of `ThreadsProofs`.

**Thread life.** `LifeInv` (in `LifeProofs`, with the steps that leave the pages alone;
`LifeInvariants` has the others) is the scheduler's `IInv` and, for each thread, what its
label says of the locks it holds (`Labels`) and of the page it is making a thread of
(`PageOK`). The pool lock has an owner that is no thread's label: `ExclPool` counts the
tail of a switch, which takes the lock in the name of whoever runs. `Listed` allows a
thread on the pool's wait list to be anywhere in its own code, as long as it has a page
to free. `IdleTail` needs the escape `Stuck` that `IdleFindsPoolFree` has: once a tail
waits for the lock its own thread holds, the idle thread may wait too. `Counted` bounds the
tids by the calls that have yet to be given one, which the type invariant needs.

**Page allocator.** `PallocInv` adds to the statement what is true in the middle of a call
(`CallOK`): the thread holds the lock of the pool it works on, a block that it is about to
return or to clear is not among its own, and best fit's candidate is still free while the
search goes on. `Claims` is the exactness of `used_map` over blocks handed out and pending.
`Step_Of` shows that a step of one client leaves the calls of the others alone; lemmas
about scanning (`Scan`, `Found`) and about adding and dropping a block (`New_Claim`,
`Dropped_Claim`) carry the actions. For the searches `SearchInv` says where the loop of
`find_best_fit()` stands: at the end of a hole, with the best of the holes behind it
(`Picked`, `Seen`). A hole is a maximal run of clear bits; `Hole_Around` finds the one
around a clear bit, and `Picks` shows that an iteration takes the next hole into account
and no other. `NextFit` is an action property and follows from `PallocInv` alone.

**Interrupt queue.** A refinement: the contents are the bytes from `tail` to `head` around
the ring, and `Ring_Take` and `Ring_Put` show that `next()` modulo the size moves a byte out
or in at the ends, also where the indices wrap. `RingInv` keeps the indices inside the
buffer. For `WaiterOK`, `IntqInv` adds the queue's lock, the scheduler's `IInv`, and that a
thread inside the queue has interrupts off while it runs (`Masked`): nothing comes between
the test of the queue and the sleep. `Unraced` is the case of one thread, which never sleeps
for the lock, so that what it tested still holds in `wait()`.

**Disks.** `IdeInv` has whose turn it is in the driver (`Turns`), that the disk works on the
command of that thread or has finished it (`CommandOK`), that the sectors hold what was
written except the one being stored and those whose storing failed (`Stored`), and that completions counted, raised or to
come are strays or the one awaited (`Completions`). All but the first hold until
`wait_until_idle()` gives up on a busy disk, because after that the next command overlaps
the last; `DiskOK` claims no more of reads and writes then.

**Interrupts.** `IntrInv` adds where the flag is off (`FlagExact`), that with
`in_external_intr` set the running thread is in the handler of the only vector in service,
and otherwise none is in service (`ExternalExact`), and what a frame tells of the state it
was entered in (`FramesKnown`).

**Timer.** `TimerInv` adds that a thread between the two reads has interrupts off, so that
the halves are of one count (`ReadsWhole`), and that the start it read is no earlier than
its call (`StartsLate`).

**Serial port.** `SerialInv` adds `QueueMode`: bytes are in the transmit queue only in mode
`QUEUE`, which is set before `serial_init_queue()` ends.

**Console.** `ConsoleInv` has two regimes. Until a panic, `LockCounts` ties the holder, the
semaphore and `console_lock_depth` to the calls on each thread's stack: all that print are
the holder's, and at most one is between semaphore and holder. Messages are numbered in the
order they begin, and one that has not got the lock has printed nothing (`Unprinted`).
`Ahead` and `Behind` count and name the characters that the serial port has and the display
has not: those of the calls between the two devices, all of one thread. After a panic the
lock means nothing, and `Whole` carries the claim across: behind a character of a call that
can still print there is nothing of another thread, and only who panicked can still print.

**Relay.** `RelayInv` is that what each pipe has read is what it has relayed and what its
buffer holds, in order, and that the simulator's end closes only when all it wrote has been
read (`Ends`).

Model-checked only:

* Everything about liveness and fairness (`StarvationFree`, `AcquireReturns`,
  `SignalledReturns`, `IntqReturns`, `CallsReturn`, `DataDelivered`): out of the provers'
  reach.
* The properties of `library`. Strings, formatting, sorting, bitmaps, division, archive
  headers and the loader are recursive definitions compared with a reference, which would
  need induction over data. `HeapOK` adds up block sizes with a recursive operator,
  `IsSequence` follows pointers along a list of any length, and `IsMap` moves the elements
  of a table of any size when it grows, which is the same induction.

## Not modelled

* `setitimer-helper.c`, the user library, the examples and the tests. There is no
  `userprog` directory, so user programs do not run on this kernel.
* `start.S`, the programming of the PIC, the PIT and the UART's divisor, and the building of
  the IDT: port and register output without a decision in it.
* Backtraces, statistics, block roles and names, the table of partition types,
  `print_human_readable_size()`, VGA attributes and tones: text and layout.
* `thread_foreach()` and priorities, which the scheduler never reads; `buddy_system_free()`,
  which has no caller.
* The conversion of the clock's registers to seconds since 1970.
* The busy waits of `real_time_delay()`, and `wait_until_idle()`'s length of time: they take
  time and change nothing.
* `bitmap_read()`, `bitmap_write()` and the other code under `FILESYS` and `USERPROG`, which this
  kernel does not compile.
