------------------------------ MODULE Threads ------------------------------
(***************************************************************************)
(* The thread scheduler of threads/thread.c on its one CPU.                *)
(*                                                                         *)
(* A thread is identified with the page that holds its struct thread and   *)
(* its stack.  `cur' is what running_thread() finds from the stack         *)
(* pointer, `intr' the CPU's interrupt flag.  With interrupts off a        *)
(* stretch of code cannot be preempted, so it is one action up to the      *)
(* point where it calls schedule(); with interrupts on the timer may       *)
(* preempt the running thread between any two actions.                     *)
(*                                                                         *)
(* What threads and interrupt handlers do with the scheduler is left open: *)
(* any of them may block, yield, exit, create and unblock at any time the  *)
(* asserts allow.  Synch, ThreadLife and Intq fill this in: their threads  *)
(* take no scheduler step but the actions of this module.  all_list, which *)
(* the scheduler never reads, is left to AllList.                          *)
(***************************************************************************)
EXTENDS Naturals, Sequences

CONSTANTS Thread,          \* the pages that can hold a thread
          initial_thread,  \* the thread main() runs on; its page is not from palloc
          Idle,            \* the page of the thread that runs idle()
          None,            \* NULL
          TIME_SLICE       \* timer ticks given to a thread

ASSUME ThreadAssumption ==
  /\ initial_thread \in Thread
  /\ Idle \in Thread
  /\ Idle # initial_thread
  /\ None \notin Thread
  /\ TIME_SLICE \in Nat \ {0}

VARIABLES status,        \* t->status; "NONE" while the page holds no thread
          ready_list,    \* threads that are ready to run, in order
          cur,           \* the running thread
          idle_thread,   \* NULL until idle() has run
          intr,          \* interrupt level of the CPU
          thread_ticks,  \* ticks since the last switch
          reap           \* reap[t]: the dying threads that the thread_schedule_tail()
                         \* frames on t's stack still have to free, innermost first

tvars == <<status, ready_list, cur, idle_thread, intr, thread_ticks, reap>>

Status == {"NONE", "RUNNING", "READY", "BLOCKED", "DYING"}

----------------------------------------------------------------------------
(* schedule() and what it calls *)

next_thread_to_run(rl) == IF rl = <<>> THEN idle_thread ELSE Head(rl)

\* Mutation: a thread that merely blocked is freed as well.
prev_to_free_blocked(prev, s) == s \in {"DYING", "BLOCKED"} /\ prev # initial_thread

\* Does thread_schedule_tail (prev) destroy PREV, which left the CPU in status S?
prev_to_free(prev, s) == s = "DYING" /\ prev # initial_thread

\* Mutation: thread_schedule_tail() does not mark the new thread.
switched_unmarked(s, next) == [status EXCEPT ![cur] = s]

\* The thread states after the switch: cur->status = THREAD_RUNNING comes last.
switched(s, next) == [status EXCEPT ![cur] = s, ![next] = "RUNNING"]

\* schedule(), called by the running thread once it has set its own status to
\* S and the ready list is RL.  The switch and the part of
\* thread_schedule_tail() before the call of palloc_free_page() run with
\* interrupts off.
schedule(s, rl) ==
  LET next == next_thread_to_run(rl) IN
  /\ cur' = next
  /\ ready_list' = IF rl = <<>> THEN rl ELSE Tail(rl)
  /\ status' = switched(s, next)
  /\ thread_ticks' = 0
  /\ reap' = IF next # cur /\ prev_to_free(cur, s)
             THEN [reap EXCEPT ![next] = <<cur>> \o @] ELSE reap

----------------------------------------------------------------------------
(* The operations *)

Init ==
  /\ status = [t \in Thread |-> IF t = initial_thread THEN "RUNNING" ELSE "NONE"]
  /\ ready_list = <<>>
  /\ cur = initial_thread
  /\ idle_thread = None
  /\ intr = "off"
  /\ thread_ticks = 0
  /\ reap = [t \in Thread |-> <<>>]

started == status[Idle] # "NONE"

\* thread_start() up to intr_enable(): creates the idle thread and opens the
\* CPU for interrupts, which have been off since boot.
thread_start ==
  /\ ~started
  /\ status' = [status EXCEPT ![Idle] = "READY"]
  /\ ready_list' = Append(ready_list, Idle)
  /\ intr' = "on"
  /\ UNCHANGED <<cur, idle_thread, thread_ticks, reap>>

\* The first statement of idle().
idle ==
  /\ cur = Idle /\ idle_thread = None /\ intr = "on"
  /\ idle_thread' = cur
  /\ UNCHANGED <<status, ready_list, cur, intr, thread_ticks, reap>>

intr_disable ==
  /\ intr = "on"
  /\ intr' = "off"
  /\ UNCHANGED <<status, ready_list, cur, idle_thread, thread_ticks, reap>>

\* thread_schedule_tail() has freed the thread it is to free.
switch_complete == reap[cur] = <<>>

\* Interrupts come back on when the code that turned them off is done; after a
\* switch this is past thread_schedule_tail().
intr_enable ==
  /\ started /\ intr = "off" /\ switch_complete
  /\ intr' = "on"
  /\ UNCHANGED <<status, ready_list, cur, idle_thread, thread_ticks, reap>>

\* thread_create(): the new page becomes a blocked thread that is on no list.
\* thread_create() ends with thread_unblock().
thread_create(t) ==
  /\ started /\ cur # Idle /\ intr = "on"
  /\ status[t] = "NONE"
  /\ status' = [status EXCEPT ![t] = "BLOCKED"]
  /\ UNCHANGED <<ready_list, cur, idle_thread, intr, thread_ticks, reap>>

\* Mutation: a thread that is already ready is put on the list again.
can_unblock_ready(t) == status[t] \in {"BLOCKED", "READY"}

\* ASSERT (t->status == THREAD_BLOCKED)
can_unblock(t) == status[t] = "BLOCKED"

\* Nobody unblocks idle_thread: it is on no waiters list.
thread_unblock(t) ==
  /\ started
  /\ can_unblock(t) /\ t # idle_thread
  /\ ready_list' = Append(ready_list, t)
  /\ status' = [status EXCEPT ![t] = "READY"]
  /\ UNCHANGED <<cur, idle_thread, intr, thread_ticks, reap>>

\* Called with interrupts off.  idle() blocks only after it has set idle_thread.
thread_block ==
  /\ started /\ intr = "off"
  /\ cur = Idle => idle_thread = Idle
  /\ schedule("BLOCKED", ready_list)
  /\ UNCHANGED <<idle_thread, intr>>

\* Mutation: the yielding thread stays in front.
yielded_front == IF cur # idle_thread THEN <<cur>> \o ready_list ELSE ready_list

\* The ready list once the yielding thread is on it.
yielded == IF cur # idle_thread THEN Append(ready_list, cur) ELSE ready_list

thread_yield ==
  /\ started /\ intr = "on"
  /\ intr' = "off"
  /\ schedule("READY", yielded)
  /\ UNCHANGED idle_thread

thread_exit ==
  /\ started /\ cur # Idle /\ intr = "on"
  /\ intr' = "off"
  /\ schedule("DYING", ready_list)
  /\ UNCHANGED idle_thread

\* palloc_free_page (prev) in thread_schedule_tail(), run by the thread that
\* was switched to.  ThreadLife shows the pool lock this takes.
free_prev ==
  /\ intr = "off" /\ reap[cur] # <<>>
  /\ status' = [status EXCEPT ![Head(reap[cur])] = "NONE"]
  /\ reap' = [reap EXCEPT ![cur] = Tail(@)]
  /\ UNCHANGED <<ready_list, cur, idle_thread, intr, thread_ticks>>

\* ++thread_ticks >= TIME_SLICE
slice_over == thread_ticks + 1 >= TIME_SLICE

\* timer_interrupt(): thread_tick(), and on the way out of intr_handler() the
\* yield that it asked for.  The timer IRQ is held off while interrupts are off.
timer_interrupt ==
  \/ /\ started /\ intr = "on"
     /\ ~slice_over
     /\ thread_ticks' = thread_ticks + 1
     /\ UNCHANGED <<status, ready_list, cur, idle_thread, intr, reap>>
  \/ slice_over /\ thread_yield

Next ==
  \/ thread_start
  \/ idle
  \/ intr_disable
  \/ intr_enable
  \/ \E t \in Thread : thread_create(t) \/ thread_unblock(t)
  \/ thread_block
  \/ thread_yield
  \/ thread_exit
  \/ free_prev
  \/ timer_interrupt

\* Code that turns interrupts off, and the end of a switch, finishes; a timer
\* IRQ raised while interrupts are off is kept by the PIC until they are on.
Fairness == WF_tvars(intr_enable) /\ WF_tvars(free_prev) /\ SF_tvars(timer_interrupt)

Spec == Init /\ [][Next]_tvars /\ Fairness

----------------------------------------------------------------------------
(* Properties *)

\* t is on the list q; q has no thread twice.
On(t, q) == \E i \in 1 .. Len(q) : q[i] = t
Distinct(q) == \A i, j \in 1 .. Len(q) : q[i] = q[j] => i = j

\* Every variable keeps its type; in particular schedule() never switches to a
\* NULL thread, although idle_thread is NULL until idle() has first run
\* (ASSERT (is_thread (next)) in schedule()).
TypeOK ==
  /\ status \in [Thread -> Status]
  /\ ready_list \in Seq(Thread)
  /\ cur \in Thread
  /\ idle_thread \in {None, Idle}
  /\ intr \in {"on", "off"}
  /\ thread_ticks \in 0 .. TIME_SLICE - 1
  /\ reap \in [Thread -> Seq(Thread)]

\* The thread on the CPU, and only it, is in state THREAD_RUNNING: the
\* assertion of thread_current() never fails.
OneRunning == \A t \in Thread : status[t] = "RUNNING" <=> t = cur

\* thread.h on `elem': "only a thread in the ready state is on the run queue".
\* Conversely every ready thread but the idle thread is on it, exactly once.
ReadyListOK ==
  /\ Distinct(ready_list)
  /\ \A t \in Thread : On(t, ready_list) <=> (status[t] = "READY" /\ t # idle_thread)

\* A thread that exits is destroyed once: until then exactly one pending
\* thread_schedule_tail() is to free it, on the stack of a live thread.
\* Nothing but dying threads is freed, and never the running one.
ReapOK ==
  /\ \A r \in Thread : reap[r] # <<>> => status[r] \notin {"NONE", "DYING"}
  /\ \A r \in Thread : Distinct(reap[r])
  /\ \A t \in Thread :
       (\E r \in Thread : On(t, reap[r])) <=> (status[t] = "DYING" /\ t # initial_thread)
  /\ \A t, r1, r2 \in Thread : On(t, reap[r1]) /\ On(t, reap[r2]) => r1 = r2

\* A switch is complete, its dead thread freed, before interrupts are on again.
TailBeforeIntr == intr = "on" => reap[cur] = <<>>

\* Round robin: a thread that is ready gets the CPU.
StarvationFree ==
  \A t \in Thread : (status[t] = "READY" /\ t # idle_thread) ~> (status[t] = "RUNNING")
=============================================================================
