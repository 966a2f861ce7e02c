----------------------------- MODULE MCDevices ------------------------------
(***************************************************************************)
(* The drivers that threads wait for, interrupt dispatch and the terminal  *)
(* relay for TLC.  A behaviour is one of the part named by component; the  *)
(* others stay as they start.  The fairness of a part is assumed of its    *)
(* own behaviours only.                                                    *)
(***************************************************************************)
EXTENDS Serial, Console, Ide, Timer, Intr, Relay

VARIABLE component

Part == {"serial", "console", "ide", "timer", "intr", "squish"}

DevicesInit ==
  /\ component \in Part
  /\ SerialInit /\ ConsoleInit /\ IdeInit /\ TimerInit /\ IntrInit /\ RelayInit

DevicesNext ==
  /\ UNCHANGED component
  /\ IF component = "serial" THEN SerialNext ELSE UNCHANGED serialvars
  /\ IF component = "console" THEN ConsoleNext ELSE UNCHANGED consolevars
  /\ IF component = "ide" THEN IdeNext ELSE UNCHANGED idevars
  /\ IF component = "timer" THEN TimerNext ELSE UNCHANGED timervars
  /\ IF component = "intr" THEN IntrNext ELSE UNCHANGED intrvars
  /\ IF component = "squish" THEN RelayNext ELSE UNCHANGED relayvars

\* The UART sends what it is given, an interrupt that it asks for again and
\* again is taken (keys do not come so fast that the buffer is full each time),
\* a thread goes on after mode = QUEUE, and one keeps reading keys.
SerialFairness ==
  /\ WF_serialvars(uart_sent)
  /\ SF_serialvars(serial_interrupt)
  /\ WF_serialvars(serial_init_end)
  /\ WF_serialvars(input_getc)

\* A thread that can run does, and so does a panic.
ConsoleFairness ==
  /\ \A c \in Context : WF_consolevars(Prints(c))
  /\ WF_consolevars(panic_end)

\* Threads run, the lock's waiters are served in turn, interrupts are on and a
\* disk answers sooner or later.
IdeFairness ==
  /\ \A t \in IThread : WF_idevars(ide_step(t)) /\ SF_idevars(ide_lock(t))
  /\ WF_idevars(interrupt_handler)
  /\ WF_idevars(\E fails \in BOOLEAN : dev_works(fails))

\* A tick is taken when interrupts are on again, and a thread that sleeps is
\* scheduled again and again.
TimerFairness ==
  /\ SF_timervars(timer_interrupt)
  /\ \A t \in TThread : SF_timervars(sleeps(t))

\* The CPU goes on, and takes a pending interrupt when interrupts are on.
IntrFairness ==
  /\ WF_intrvars(\E ask \in BOOLEAN : handler_runs(ask))
  /\ WF_intrvars(intr_end) /\ WF_intrvars(switched_to) /\ WF_intrvars(intr_exit)
  /\ WF_intrvars(at_frame("yield") /\ \E t \in RThread : switch_to(t))
  /\ \A v \in Vec : SF_intrvars(intr_entry(v))

\* select() returns when something can be read or written, which the reader and
\* the writer at the other ends see to.
RelayFairness == WF_relayvars(RelayStep)

DevicesFairness ==
  \/ component = "serial" /\ SerialFairness
  \/ component = "console" /\ ConsoleFairness
  \/ component = "ide" /\ IdeFairness
  \/ component = "timer" /\ TimerFairness
  \/ component = "intr" /\ IntrFairness
  \/ component = "squish" /\ RelayFairness

DevicesSpec ==
  /\ DevicesInit
  /\ [][DevicesNext]_<<component, serialvars, consolevars, idevars, timervars,
                       intrvars, relayvars>>
  /\ DevicesFairness

----------------------------------------------------------------------------
(* Values of the constants *)

\* Partitions on two disks: one of a foreign type, and one beyond whose end the
\* sector number wraps around.
Partitions == {[disk |-> 0, start |-> 1, size |-> 1, type |-> "filesys"],
               [disk |-> 0, start |-> 2, size |-> 1, type |-> "foreign"],
               [disk |-> 0, start |-> 2, size |-> 15, type |-> "swap"],
               [disk |-> 1, start |-> 1, size |-> 1, type |-> "scratch"]}

----------------------------------------------------------------------------
(* Properties of several drivers *)

\* Every call returns: printf() and a panic, ide_read() and ide_write(), and
\* timer_sleep().  Two cases are left out, in which the code waits for ever: a
\* printf() nested in one of its thread that has the console lock's semaphore
\* and is not its holder yet, or is no longer (WaitsForItself), and a disk that
\* got a command before it was ready, after wait_until_idle() gave up
\* (NoAnswer).
CallsReturn == PrintReturns /\ IoReturns /\ SleepEnds

\* What is sent arrives: bytes on the serial line in both directions, interrupts
\* that a controller holds back, and the output of a simulator.
DataDelivered == AllSent /\ AllReceived /\ IrqDelivered /\ OutputDelivered
=============================================================================
