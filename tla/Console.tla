------------------------------- MODULE Console -------------------------------
(***************************************************************************)
(* Console output (lib/kernel/console.c) by threads, interrupt handlers    *)
(* and a panicking kernel (lib/kernel/debug.c).  A message is a call of    *)
(* vprintf(), puts(), putbuf() or putchar(): the lock, for each character  *)
(* a step into the serial port and one into the display, the lock again.   *)
(* While a thread prints, wherever interrupts are on, a call may come from *)
(* the same thread (the lock counts its depth), and any thread or handler  *)
(* may panic.                                                              *)
(***************************************************************************)
EXTENDS Integers, Sequences, FiniteSets

CONSTANTS CThread,        \* threads that print
          Intr,           \* an interrupt handler
          NoOne,          \* NULL
          MSG_LEN,        \* bound: characters in a thread's message; others have one
          MaxMsgs,        \* bound: messages in all, those of a panic apart
          MaxNest         \* bound: calls inside each other

\* A handler is no thread, NULL is neither.
ASSUME ConsoleAssumption ==
  /\ Intr \notin CThread /\ NoOne \notin CThread /\ Intr # NoOne
  /\ MSG_LEN \in Nat

Context == CThread \cup {Intr}

VARIABLES use_console_lock,
          lock_holder,    \* console_lock.holder
          lock_sema,      \* the value of console_lock.semaphore
          console_lock_depth,
          calls,          \* of each context, the printing calls it is inside of
          msgs,           \* messages begun
          serial_out, vga_out,  \* what threads gave the two devices
          panicker,       \* who is in debug_panic()
          level,          \* debug_panic()'s level
          stopped         \* the loop at the end of debug_panic()

consolevars == <<use_console_lock, lock_holder, lock_sema, console_lock_depth, calls, msgs,
                 serial_out, vga_out, panicker, level, stopped>>

ConsoleInit ==
  /\ use_console_lock = TRUE /\ lock_holder = NoOne /\ lock_sema = 1 /\ console_lock_depth = 0
  /\ calls = [c \in Context |-> <<>>]
  /\ msgs = 0
  /\ serial_out = <<>> /\ vga_out = <<>>
  /\ panicker = NoOne /\ level = 0 /\ stopped = FALSE

\* C executes: a handler runs to its end first, a panic ends everything else.
runs(c) ==
  /\ ~stopped
  /\ panicker \in {NoOne, c}
  /\ c # Intr => calls[Intr] = <<>>

top(c) == calls[c][Len(calls[c])]
inside(c, where) == calls[c] # <<>> /\ top(c).at = where
goto_call(c, where) == calls' = [calls EXCEPT ![c][Len(calls[c])].at = where]

\* What C prints next: which message, and how much of it is left.
message(c, where) == [msg |-> <<c, msgs + 1>>, left |-> IF c = Intr THEN 1 ELSE MSG_LEN, at |-> where]

\* A thread calls printf(), perhaps at any point of a call it is in, as when the
\* thread is switched away from or to; a handler calls it only while interrupts
\* are on, that is, while there is no panic.
begin(c) ==
  /\ runs(c) /\ msgs < MaxMsgs
  /\ IF c = Intr THEN calls[c] = <<>> /\ panicker = NoOne ELSE panicker = NoOne /\ Len(calls[c]) < MaxNest
  /\ calls' = [calls EXCEPT ![c] = Append(@, message(c, "acquire"))]
  /\ msgs' = msgs + 1
  /\ UNCHANGED <<use_console_lock, lock_holder, lock_sema, console_lock_depth, serial_out, vga_out, panicker, level, stopped>>

\* Mutation: a lock that anyone holds counts as the thread's own.
recursive_any(c) == lock_holder # NoOne

\* lock_held_by_current_thread (&console_lock)
recursive(c) == lock_holder = c

acquire_console(c) ==
  /\ runs(c) /\ inside(c, "acquire")
  /\ \/ /\ c = Intr \/ ~use_console_lock
        /\ goto_call(c, "putchar") /\ UNCHANGED <<lock_sema, console_lock_depth>>
     \/ /\ c # Intr /\ use_console_lock /\ recursive(c)
        /\ console_lock_depth' = console_lock_depth + 1
        /\ goto_call(c, "putchar") /\ UNCHANGED lock_sema
     \/ /\ c # Intr /\ use_console_lock /\ ~recursive(c)
        /\ lock_sema > 0 /\ lock_sema' = lock_sema - 1
        /\ goto_call(c, "holder") /\ UNCHANGED console_lock_depth
  /\ UNCHANGED <<use_console_lock, lock_holder, msgs, serial_out, vga_out, panicker, level, stopped>>

\* lock_acquire() after its sema_down().
lock_acquired(c) ==
  /\ runs(c) /\ inside(c, "holder")
  /\ lock_holder' = c
  /\ goto_call(c, "putchar")
  /\ UNCHANGED <<use_console_lock, lock_sema, console_lock_depth, msgs, serial_out, vga_out, panicker, level, stopped>>

\* The next character of a call.
char(call) == [msg |-> call.msg, left |-> call.left]

\* A device's output with C's next character: a handler's may come anywhere
\* between those of threads, and is not told apart.
with_char(out, c) == IF c = Intr THEN out ELSE Append(out, char(top(c)))

\* putchar_have_lock(): serial_putc (c), then vga_putc (c).
serial_putc(c) ==
  /\ runs(c) /\ inside(c, "putchar") /\ top(c).left > 0
  /\ serial_out' = with_char(serial_out, c)
  /\ goto_call(c, "vga_putc")
  /\ UNCHANGED <<use_console_lock, lock_holder, lock_sema, console_lock_depth, msgs, vga_out, panicker, level, stopped>>

vga_putc(c) ==
  /\ runs(c) /\ inside(c, "vga_putc")
  /\ vga_out' = with_char(vga_out, c)
  /\ calls' = [calls EXCEPT ![c][Len(calls[c])].at = "putchar", ![c][Len(calls[c])].left = @ - 1]
  /\ UNCHANGED <<use_console_lock, lock_holder, lock_sema, console_lock_depth, msgs, serial_out, panicker, level, stopped>>

nested == console_lock_depth > 0

\* The innermost call of C returns.
return_call(c) == calls' = [calls EXCEPT ![c] = SubSeq(@, 1, Len(@) - 1)]

release_console(c) ==
  /\ runs(c) /\ inside(c, "putchar") /\ top(c).left = 0
  /\ \/ /\ c = Intr \/ ~use_console_lock
        /\ return_call(c) /\ UNCHANGED <<lock_holder, console_lock_depth>>
     \/ /\ c # Intr /\ use_console_lock /\ nested
        /\ console_lock_depth' = console_lock_depth - 1
        /\ return_call(c) /\ UNCHANGED lock_holder
     \/ /\ c # Intr /\ use_console_lock /\ ~nested
        /\ lock_holder' = NoOne
        /\ goto_call(c, "sema_up") /\ UNCHANGED console_lock_depth
  /\ UNCHANGED <<use_console_lock, lock_sema, msgs, serial_out, vga_out, panicker, level, stopped>>

\* The sema_up() of lock_release().
lock_released(c) ==
  /\ runs(c) /\ inside(c, "sema_up")
  /\ lock_sema' = lock_sema + 1
  /\ return_call(c)
  /\ UNCHANGED <<use_console_lock, lock_holder, console_lock_depth, msgs, serial_out, vga_out, panicker, level, stopped>>

console_panic == use_console_lock' = FALSE

\* debug_panic() up to its first printf(): anywhere, and again while a panic is
\* printing.  The panic's message is the last call C is inside of.
debug_panic(c) ==
  /\ runs(c) /\ level < 3
  /\ panicker = c \/ c = Intr => calls[c] # <<>>
  /\ panicker' = c
  /\ level' = level + 1
  /\ console_panic
  /\ calls' = [calls EXCEPT ![c] = Append(@, [msg |-> <<c, 0>>, left |-> 1,
                                              at |-> IF level < 2 THEN "acquire" ELSE "end"])]
  /\ UNCHANGED <<lock_holder, lock_sema, console_lock_depth, msgs, serial_out, vga_out, stopped>>

\* serial_flush(), shutdown() and the endless loop, once the panic is printed.
\* What C was doing before it panicked is never resumed.
panic_end ==
  /\ panicker # NoOne /\ ~stopped
  /\ top(panicker).at = "end" \/ (top(panicker).at = "putchar" /\ top(panicker).left = 0)
  /\ stopped' = TRUE
  /\ UNCHANGED <<use_console_lock, lock_holder, lock_sema, console_lock_depth, calls, msgs, serial_out, vga_out, panicker, level>>

Prints(c) ==
  \/ acquire_console(c) \/ lock_acquired(c) \/ serial_putc(c) \/ vga_putc(c)
  \/ panicker = NoOne /\ (release_console(c) \/ lock_released(c))

ConsoleNext ==
  \/ \E c \in Context : begin(c) \/ Prints(c) \/ debug_panic(c)
  \/ panic_end

ConsoleSpec == ConsoleInit /\ [][ConsoleNext]_consolevars

----------------------------------------------------------------------------
(* Properties *)

\* Outside a panic, the assertion of putchar_have_lock(): a thread that puts a
\* character has the lock, also after a call nested in its own has returned.
PrintsLocked ==
  \A c \in CThread :
    (use_console_lock /\ calls[c] # <<>> /\ top(c).at \in {"putchar", "vga_putc"}) => lock_holder = c

\* Threads' messages do not mix: between two characters of a message there are
\* only characters of the same thread, on both devices, also when a thread or a
\* handler panics in the middle.
MessagesWhole ==
  \A out \in {serial_out, vga_out} : \A i, j \in DOMAIN out :
    (i < j /\ out[i].msg = out[j].msg) => \A k \in i .. j : out[k].msg[1] = out[i].msg[1]

\* The calls whose next character the serial port has, and those characters.
halfway(c) == {j \in 1 .. Len(calls[c]) : calls[c][j].at = "vga_putc"}
Halfway == UNION {{char(calls[c][j]) : j \in halfway(c)} : c \in CThread}

\* Until a panic, the display shows what threads send to the serial port: every
\* character but those between serial_putc() and vga_putc(), and the n-th of
\* either is the same thread's.  (A call nested between the two overtakes a
\* character of its own thread on the display.)
DevicesAgree ==
  level = 0 => /\ {serial_out[i] : i \in DOMAIN serial_out} = {vga_out[i] : i \in DOMAIN vga_out} \cup Halfway
               /\ \A i \in DOMAIN vga_out : i <= Len(serial_out) /\ vga_out[i].msg[1] = serial_out[i].msg[1]

\* A call is nested in one of its thread where lock_acquire() has done its
\* sema_down() and not set the holder, or lock_release() has reset it and not
\* done its sema_up(): it will wait for the lock of its own thread.
WaitsForItself == \E c \in CThread : \E j \in 1 .. Len(calls[c]) - 1 : calls[c][j].at \in {"holder", "sema_up"}

\* Every printf() returns, and a panic gets its message out and stops, whoever
\* holds the console lock and however often the panic panics.  The depth counter
\* does not help a thread that prints, as it is switched to or away from, while
\* it is between the lock's semaphore and its holder.
PrintReturns == \A c \in Context : (calls[c] # <<>>) ~> (calls[c] = <<>> \/ stopped \/ WaitsForItself)

\* Nested calls, handlers and panics leave the console whole: who prints has the
\* lock, messages do not mix, and both devices show the same characters.
ConsoleOK == PrintsLocked /\ MessagesWhole /\ DevicesAgree
=============================================================================
