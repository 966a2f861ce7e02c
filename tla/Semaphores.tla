----------------------------- MODULE Semaphores -----------------------------
(***************************************************************************)
(* The semaphore and lock primitives of threads/synch.c as steps of a      *)
(* thread on the scheduler of Threads.  Synch and ThreadLife build their   *)
(* threads from these steps.                                               *)
(*                                                                         *)
(* pc[t] is the label thread t is at.  At "down" interrupts are off: t is  *)
(* about to evaluate the while condition of sema_down(), coming from its   *)
(* entry or back from thread_block().  Other labels are points with        *)
(* interrupts on, where the timer may preempt t.                           *)
(***************************************************************************)
EXTENDS Threads, FiniteSets

CONSTANTS Sema,  \* the semaphores
          Lock   \* the locks, each identified with the semaphore in it

ASSUME SemaAssumption == Lock \subseteq Sema /\ None \notin Sema

VARIABLES value,    \* sema->value
          waiters,  \* sema->waiters
          holder,   \* lock->holder
          pc,       \* where a thread is
          sem,      \* the semaphore of the sema_down() or sema_up() it is in
          ret       \* the label that call returns to

mvars == <<value, waiters, holder, pc, sem, ret>>

Client == Thread \ {Idle}

\* Thread t is on the CPU at label p, interrupts on.
At(t, p) == cur = t /\ intr = "on" /\ pc[t] = p

goto(t, p) == pc' = [pc EXCEPT ![t] = p]

\* t enters sema_down (s), which returns to label r: intr_disable ().
enter_down(t, s, r) ==
  /\ intr_disable
  /\ goto(t, "down")
  /\ sem' = [sem EXCEPT ![t] = s]
  /\ ret' = [ret EXCEPT ![t] = r]
  /\ UNCHANGED <<value, waiters, holder>>

\* The rest of sema_down() up to its next thread_block() or its return.
sema_down(t) ==
  /\ cur = t /\ pc[t] = "down"
  /\ \/ /\ value[sem[t]] = 0
        /\ waiters' = [waiters EXCEPT ![sem[t]] = Append(@, t)]
        /\ thread_block
        /\ UNCHANGED <<value, pc>>
     \/ /\ value[sem[t]] > 0
        /\ value' = [value EXCEPT ![sem[t]] = @ - 1]
        /\ intr_enable
        /\ goto(t, ret[t])
        /\ UNCHANGED waiters
  /\ UNCHANGED <<holder, sem, ret>>

\* Mutation: sema_up() leaves the thread it wakes on the waiters list.
popped_not(q) == q

\* The waiters list after list_pop_front().
popped(q) == Tail(q)

\* Mutation: the value goes up but nobody is woken.
up_unnoticed(s) ==
  /\ value' = [value EXCEPT ![s] = @ + 1]
  /\ UNCHANGED <<tvars, waiters>>

\* sema_up (s): interrupts are off from its first statement to its last.
up(s) ==
  /\ IF waiters[s] = <<>>
     THEN UNCHANGED <<tvars, waiters>>
     ELSE /\ thread_unblock(Head(waiters[s]))
          /\ waiters' = [waiters EXCEPT ![s] = popped(@)]
  /\ value' = [value EXCEPT ![s] = @ + 1]

\* t is about to call sema_up (s), which returns to label r.
enter_up(t, s, r) ==
  /\ goto(t, "up")
  /\ sem' = [sem EXCEPT ![t] = s]
  /\ ret' = [ret EXCEPT ![t] = r]
  /\ UNCHANGED <<tvars, value, waiters>>

sema_up(t) ==
  /\ At(t, "up")
  /\ up(sem[t])
  /\ goto(t, ret[t])
  /\ UNCHANGED <<holder, sem, ret>>

\* lock_held_by_current_thread (l), for the running thread t
held(t, l) == holder[l] = t

\* lock->holder = thread_current (), the last statement of lock_acquire() and
\* lock_try_acquire(); t goes on at label q.
set_holder(t, q) ==
  /\ At(t, "own")
  /\ holder' = [holder EXCEPT ![sem[t]] = t]
  /\ goto(t, q)
  /\ UNCHANGED <<tvars, value, waiters, sem, ret>>

\* lock_release (l) up to its call of sema_up(), which returns to label r.
release(t, l, r) ==
  /\ held(t, l)
  /\ holder' = [holder EXCEPT ![l] = None]
  /\ enter_up(t, l, r)

----------------------------------------------------------------------------
(* Interrupts and the idle thread *)

\* An interrupt that finds idle() in hlt lets it go on.
wake_hlt == pc' = IF cur = Idle /\ pc[Idle] = "hlt" THEN [pc EXCEPT ![Idle] = "loop"] ELSE pc

tick ==
  /\ timer_interrupt
  /\ wake_hlt
  /\ UNCHANGED <<value, waiters, holder, sem, ret>>

\* Thread t goes on after the thread_yield() that preempted it at a label with
\* interrupts on; a new thread starts.
resume(t) ==
  /\ cur = t /\ pc[t] \notin {"down", "block", "blocked"}
  /\ intr_enable
  /\ UNCHANGED mvars

\* One step of the for loop of idle(): sti; hlt, intr_disable (), thread_block ().
idle_loop ==
  /\ cur = Idle
  /\ \/ pc[Idle] = "blocked" /\ intr_enable /\ goto(Idle, "hlt")
     \/ pc[Idle] = "loop" /\ intr_disable /\ goto(Idle, "block")
     \/ pc[Idle] = "block" /\ thread_block /\ goto(Idle, "blocked")
  /\ UNCHANGED <<value, waiters, holder, sem, ret>>

----------------------------------------------------------------------------
(* Properties *)

\* Thread t has downed l's semaphore and has not upped it: it holds the lock,
\* or is in lock_acquire() or lock_release() where holder is not set.
Inside(t, l) ==
  \/ holder[l] = t
  \/ pc[t] = "own" /\ sem[t] = l
  \/ pc[t] = "up" /\ sem[t] = l

\* "A lock can be held by at most a single thread at any given time"
\* (lock_init()), also while holder is not yet, or no longer, set; the
\* semaphore is free exactly when nobody is inside.
MutualExclusion ==
  \A l \in Lock :
    \/ value[l] = 1 /\ \A t \in Client : ~Inside(t, l)
    \/ value[l] = 0 /\ \E t \in Client : Inside(t, l) /\ \A u \in Client : Inside(u, l) => u = t

\* No wakeup is lost: while threads sleep on a semaphore, every unit of its value
\* has an awake thread in sema_down() that is on its way to take it.
NoLostWakeup ==
  \A s \in Sema : waiters[s] # <<>> =>
    value[s] <= Cardinality({t \in Client : pc[t] = "down" /\ sem[t] = s /\ status[t] # "BLOCKED"})
=============================================================================
