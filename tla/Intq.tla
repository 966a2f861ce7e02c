-------------------------------- MODULE Intq --------------------------------
(***************************************************************************)
(* Interrupt queues (devices/intq.c): a ring buffer between threads and    *)
(* interrupt handlers.  Its functions run with interrupts off and sleep in *)
(* two places, for the lock and in wait(); in between other threads and    *)
(* handlers run and change the queue.                                      *)
(*                                                                         *)
(* input_getc() and serial_putc() are the callers from threads, the        *)
(* keyboard and serial handlers the callers from interrupts.               *)
(***************************************************************************)
EXTENDS Semaphores

CONSTANTS Use,                 \* the ways a queue is used
          Byte,
          INTQ_BUFSIZE,
          qlock                \* q->lock

\* Who calls intq_getc() and intq_putc(), and what handlers do.
ASSUME IntqAssumption ==
  /\ Use \subseteq [reader : SUBSET Client, writer : SUBSET Client, handler : SUBSET {"put", "get"}]
  /\ \A u \in Use : u.reader \cap u.writer = {}
  /\ INTQ_BUFSIZE \in Nat /\ INTQ_BUFSIZE > 1 /\ Byte # {}
  /\ Sema = Lock /\ Lock = {qlock}

VARIABLES use,                  \* how this queue is used
          buf, head, tail,
          not_full, not_empty,  \* the thread waiting for the condition
          arg,                  \* the byte a writer is to put
          last,                 \* the byte that came out last
          halted                \* an ASSERT has failed

qvars == <<use, buf, head, tail, not_full, not_empty, arg, last, halted>>
vars == <<tvars, mvars, qvars>>

Reader == use.reader
Writer == use.writer
Handler == use.handler

Index == 0 .. INTQ_BUFSIZE - 1

Zero == CHOOSE b \in Byte : TRUE

IntqInit ==
  /\ cur = initial_thread
  /\ \E n \in 0 .. Cardinality(Client) : ready_list \in [1 .. n -> Client \ {cur}]
  /\ Distinct(ready_list) /\ \A t \in Client \ {cur} : On(t, ready_list)
  /\ status = [t \in Thread |-> IF t = cur THEN "RUNNING"
                                ELSE IF t = Idle THEN "BLOCKED" ELSE "READY"]
  /\ idle_thread = Idle
  /\ intr = "on"
  /\ thread_ticks = 0
  /\ reap = [t \in Thread |-> <<>>]
  /\ value = [s \in Sema |-> 1]
  /\ waiters = [s \in Sema |-> <<>>]
  /\ holder = [l \in Lock |-> None]
  /\ pc = [t \in Thread |-> IF t = Idle THEN "blocked" ELSE "run"]
  /\ sem = [t \in Thread |-> None]
  /\ ret = [t \in Thread |-> "run"]
  /\ use \in Use
  /\ buf = [i \in Index |-> Zero] /\ head = 0 /\ tail = 0
  /\ not_full = None /\ not_empty = None
  /\ arg = [t \in Thread |-> Zero]
  /\ last = Zero
  /\ halted = FALSE

next(pos) == (pos + 1) % INTQ_BUFSIZE

intq_empty == head = tail

\* Mutation: the queue takes any number of bytes.
intq_full_never == FALSE

intq_full == next(head) = tail

\* Mutation: the waiting thread is not told.
signal_never(w) == UNCHANGED tvars

\* signal(): wake the thread that waits for the condition, if any; the caller
\* sets the waiter to NULL.
signal(w) == IF w = None THEN UNCHANGED tvars ELSE thread_unblock(w)

\* The end of intq_getc(), once the queue is not empty.
take ==
  /\ last' = buf[tail]
  /\ tail' = next(tail)
  /\ signal(not_full)
  /\ not_full' = None
  /\ UNCHANGED <<use, buf, head, not_empty, arg>>

\* The end of intq_putc(), once the queue is not full.
store(b) ==
  /\ buf' = [buf EXCEPT ![head] = b]
  /\ head' = next(head)
  /\ signal(not_empty)
  /\ not_empty' = None
  /\ UNCHANGED <<use, tail, not_full, arg, last>>

----------------------------------------------------------------------------
(* A thread *)

\* The condition a caller waits to end: empty for a reader, full for a writer.
must_wait(t) == IF t \in Reader THEN intq_empty ELSE intq_full

\* while (intq_empty (q)), while (intq_full (q))
loops(t) == must_wait(t)

\* input_getc() or serial_putc(): intr_disable (), then the call.
call(t) ==
  /\ ~halted /\ t \in Reader \cup Writer
  /\ At(t, "run")
  /\ intr_disable
  /\ goto(t, "while")
  /\ \E b \in Byte : arg' = IF t \in Writer THEN [arg EXCEPT ![t] = b] ELSE arg
  /\ UNCHANGED <<value, waiters, holder, sem, ret, use, buf, head, tail, not_full, not_empty, last, halted>>

\* The while condition of intq_getc() or intq_putc(), and what follows the loop.
while(t) ==
  /\ ~halted /\ cur = t /\ pc[t] = "while"
  /\ \/ loops(t) /\ goto(t, "lock") /\ UNCHANGED <<tvars, qvars>>
     \/ /\ ~loops(t)
        /\ IF t \in Reader THEN take ELSE store(arg[t])
        /\ goto(t, "done")
        /\ UNCHANGED halted
  /\ UNCHANGED <<value, waiters, holder, sem, ret>>

\* intr_set_level (old_level)
done(t) ==
  /\ ~halted /\ cur = t /\ pc[t] = "done"
  /\ intr_enable
  /\ goto(t, "run")
  /\ UNCHANGED <<value, waiters, holder, sem, ret, qvars>>

\* lock_acquire (&q->lock) with interrupts off
lock_acquire(t) ==
  /\ ~halted /\ cur = t /\ pc[t] = "lock"
  /\ \/ /\ value[qlock] = 0
        /\ waiters' = [waiters EXCEPT ![qlock] = Append(@, t)]
        /\ thread_block
        /\ UNCHANGED <<value, holder, pc>>
     \/ /\ value[qlock] > 0
        /\ value' = [value EXCEPT ![qlock] = @ - 1]
        /\ holder' = [holder EXCEPT ![qlock] = t]
        /\ goto(t, "wait")
        /\ UNCHANGED <<tvars, waiters>>
  /\ UNCHANGED <<sem, ret, qvars>>

\* Mutation: the thread goes to sleep without leaving its name.
registers_not(t) == UNCHANGED <<not_empty, not_full>>

\* *waiter = thread_current ()
registers(t) ==
  /\ not_empty' = IF t \in Reader THEN t ELSE not_empty
  /\ not_full' = IF t \in Reader THEN not_full ELSE t

\* wait(): its ASSERT, or sleep.
wait(t) ==
  /\ ~halted /\ cur = t /\ pc[t] = "wait"
  /\ \/ /\ must_wait(t)
        /\ registers(t)
        /\ thread_block
        /\ goto(t, "unlock")
        /\ UNCHANGED halted
     \/ /\ ~must_wait(t)
        /\ halted' = TRUE
        /\ UNCHANGED <<tvars, pc, not_empty, not_full>>
  /\ UNCHANGED <<value, waiters, holder, sem, ret, use, buf, head, tail, arg, last>>

\* lock_release (&q->lock), and round the loop
lock_release(t) ==
  /\ ~halted /\ cur = t /\ pc[t] = "unlock"
  /\ holder' = [holder EXCEPT ![qlock] = None]
  /\ up(qlock)
  /\ goto(t, "while")
  /\ UNCHANGED <<sem, ret, qvars>>

----------------------------------------------------------------------------
(* Handlers.  The keyboard and serial handlers test for room, or for a byte, *)
(* before they call; interrupts are off throughout.                          *)

handler_put(b) ==
  /\ "put" \in Handler
  /\ ~halted /\ intr = "on" /\ ~intq_full
  /\ store(b)
  /\ wake_hlt
  /\ UNCHANGED <<value, waiters, holder, sem, ret, halted>>

handler_get ==
  /\ "get" \in Handler
  /\ ~halted /\ intr = "on" /\ ~intq_empty
  /\ take
  /\ wake_hlt
  /\ UNCHANGED <<value, waiters, holder, sem, ret, halted>>

----------------------------------------------------------------------------
InQueue(t) == while(t) \/ done(t) \/ lock_acquire(t) \/ wait(t) \/ lock_release(t)

Ticks == ~halted /\ tick /\ UNCHANGED qvars
Resumes(t) == ~halted /\ pc[t] \in {"run", "hlt", "loop"} /\ resume(t) /\ UNCHANGED qvars
Idles == ~halted /\ idle_loop /\ UNCHANGED qvars

IntqNext ==
  \/ \E t \in Client : call(t) \/ InQueue(t)
  \/ \E t \in Thread : Resumes(t)
  \/ Ticks
  \/ Idles
  \/ \E b \in Byte : handler_put(b)
  \/ handler_get

\* The CPU does not stop, and a thread inside the queue goes on when it runs.
\* The UART is ready for another byte again and again; no key need be pressed.
IntqFairness ==
  /\ SF_vars(Ticks)
  /\ WF_vars(Idles)
  /\ \A t \in Thread : WF_vars(Resumes(t))
  /\ \A t \in Client : SF_vars(InQueue(t))
  /\ SF_vars(handler_get)

IntqSpec == IntqInit /\ [][IntqNext]_vars /\ IntqFairness

----------------------------------------------------------------------------
(* Properties *)

\* Every variable keeps its type: head and tail stay inside the buffer.
IntqTypeOK ==
  /\ buf \in [Index -> Byte] /\ head \in Index /\ tail \in Index
  /\ not_full \in Client \cup {None} /\ not_empty \in Client \cup {None}
  /\ arg \in [Thread -> Byte] /\ last \in Byte
  /\ value \in [Sema -> 0 .. 1] /\ waiters \in [Sema -> Seq(Client)]

\* The bytes between tail and head.
Contents == [i \in 1 .. (head + INTQ_BUFSIZE - tail) % INTQ_BUFSIZE |->
               buf[(tail + i - 1) % INTQ_BUFSIZE]]

Queue == INSTANCE Fifo WITH queue <- Contents, got <- last, Capacity <- INTQ_BUFSIZE - 1

\* The ring buffer is a queue: what threads and handlers put in comes out once
\* and in order, and at most INTQ_BUFSIZE - 1 bytes are inside.
IsFifo == Queue!FifoSpec

\* One thread uses the queue, as in this kernel: the console lock lets one
\* thread at a time into serial_putc().
OneThread == \E t \in Client : Reader \cup Writer = {t}

\* A thread that sleeps in wait() is named in the queue, so that signal() finds
\* it, and the condition it waits for is indeed false.  The assertion of wait()
\* to that effect holds as long as one thread uses the queue: the test before
\* lock_acquire() is stale if the thread had to sleep for the lock.
WaiterOK ==
  /\ IntqTypeOK
  /\ not_empty # None => intq_empty
  /\ not_full # None => intq_full
  /\ \A t \in Client : (pc[t] = "unlock" /\ status[t] = "BLOCKED") <=> t \in {not_empty, not_full}
  /\ OneThread => ~halted

\* A thread in input_getc() returns once there is a byte for it.
ReaderReturns ==
  \A t \in Client : (OneThread /\ t \in Reader /\ pc[t] # "run" /\ ~intq_empty) ~> (pc[t] = "run")

\* A thread in serial_putc() returns, since the UART takes bytes off the queue.
WriterReturns ==
  \A t \in Client : (OneThread /\ t \in Writer /\ pc[t] # "run") ~> (pc[t] = "run")

\* Both ends of the queue make progress.
IntqReturns == ReaderReturns /\ WriterReturns
=============================================================================
