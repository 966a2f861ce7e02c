----------------------------- MODULE ThreadLife -----------------------------
(***************************************************************************)
(* The life of a thread (threads/thread.c with threads/palloc.c):          *)
(* thread_create() takes a page from the kernel pool under kernel_pool.lock*)
(* and a tid under tid_lock; thread_exit() leaves the page to the thread   *)
(* that runs next, which returns it to the pool, again under               *)
(* kernel_pool.lock, inside thread_schedule_tail() with interrupts off.    *)
(* That thread may have been preempted anywhere, inside lock_acquire() and *)
(* palloc_get_page() included.                                             *)
(***************************************************************************)
EXTENDS Semaphores, TLC

CONSTANTS pool_lock,  \* kernel_pool.lock
          tid_lock,
          MaxCreate   \* bound: number of thread_create() calls

ASSUME LifeAssumption ==
  /\ pool_lock # tid_lock /\ Sema = Lock /\ Lock = {pool_lock, tid_lock}
  /\ MaxCreate \in Nat /\ IsFiniteSet(Thread)

VARIABLES used,      \* pages of the kernel pool whose used_map bit is set
          page,      \* the page thread_create() is making a thread of
          next_tid,
          tid,       \* t->tid
          tmp,       \* next_tid as read in allocate_tid()
          created,   \* number of thread_create() calls
          tail_up,   \* the running thread is at the sema_up() in palloc_free_page()
                     \* called by thread_schedule_tail()
          halted     \* "panic" after a failed ASSERT, "hang" in an endless loop

lvars == <<used, page, next_tid, tid, tmp, created>>
life_vars == <<tvars, mvars, lvars, tail_up, halted>>

Pool == Thread \ {initial_thread}

\* For TLC: the pages other than idle's can be exchanged.
Pages == Permutations(Pool \ {Idle})

\* thread_start() has returned: main and idle() have tids 1 and 2.
LifeInit ==
  /\ cur = initial_thread
  /\ ready_list = <<>>
  /\ status = [t \in Thread |-> IF t = cur THEN "RUNNING"
                                ELSE IF t = Idle THEN "BLOCKED" ELSE "NONE"]
  /\ idle_thread = Idle
  /\ intr = "on"
  /\ thread_ticks = 0
  /\ reap = [t \in Thread |-> <<>>]
  /\ value = [s \in Sema |-> 1]
  /\ waiters = [s \in Sema |-> <<>>]
  /\ holder = [l \in Lock |-> None]
  /\ pc = [t \in Thread |-> IF t = Idle THEN "blocked" ELSE "run"]
  /\ sem = [t \in Thread |-> None]
  /\ ret = [t \in Thread |-> "run"]
  /\ used = {Idle}
  /\ page = [t \in Thread |-> None]
  /\ next_tid = 3
  /\ tid = [t \in Thread |-> IF t = initial_thread THEN 1 ELSE IF t = Idle THEN 2 ELSE 0]
  /\ tmp = [t \in Thread |-> 0]
  /\ created = 0
  /\ tail_up = FALSE
  /\ halted = "no"

----------------------------------------------------------------------------
(* thread_create() *)

\* palloc_get_page() enters lock_acquire (&pool->lock).
create_get(t) ==
  /\ At(t, "run") /\ created < MaxCreate
  /\ created' = created + 1
  /\ enter_down(t, pool_lock, "own")
  /\ UNCHANGED <<used, page, next_tid, tid, tmp>>

\* A free page of the pool, any of them: the choice is Palloc's.
create_scan(t) ==
  /\ At(t, "scan")
  /\ \/ \E p \in Pool \ used : used' = used \cup {p} /\ page' = [page EXCEPT ![t] = p]
     \/ Pool \subseteq used /\ UNCHANGED <<used, page>>
  /\ goto(t, "unlock")
  /\ UNCHANGED <<tvars, value, waiters, holder, sem, ret, next_tid, tid, tmp, created>>

create_unlock(t) ==
  /\ At(t, "unlock")
  /\ release(t, pool_lock, "init")
  /\ UNCHANGED lvars

\* init_thread(), which zeroes the page, or return TID_ERROR when there was none.
create_init(t) ==
  /\ At(t, "init")
  /\ \/ /\ page[t] = None
        /\ goto(t, "run")
        /\ UNCHANGED <<tvars, tid>>
     \/ /\ page[t] # None
        /\ thread_create(page[t])
        /\ tid' = [tid EXCEPT ![page[t]] = 0]
        /\ pc' = [pc EXCEPT ![t] = "tid", ![page[t]] = "run"]
  /\ UNCHANGED <<value, waiters, holder, sem, ret, used, page, next_tid, tmp, created>>

\* Mutation: lock_acquire (&tid_lock) goes on without its sema_down().
create_tid_barging(t) ==
  /\ At(t, "tid")
  /\ goto(t, "own")
  /\ sem' = [sem EXCEPT ![t] = tid_lock]
  /\ UNCHANGED <<tvars, value, waiters, holder, ret, lvars>>

\* allocate_tid() enters lock_acquire (&tid_lock).
create_tid(t) ==
  /\ At(t, "tid")
  /\ enter_down(t, tid_lock, "own")
  /\ UNCHANGED lvars

\* tid = next_tid++, the read
read_tid(t) ==
  /\ At(t, "tid_read")
  /\ tmp' = [tmp EXCEPT ![t] = next_tid]
  /\ goto(t, "tid_write")
  /\ UNCHANGED <<tvars, value, waiters, holder, sem, ret, used, page, next_tid, tid, created>>

\* tid = next_tid++, the write, and t->tid = tid
write_tid(t) ==
  /\ At(t, "tid_write")
  /\ next_tid' = tmp[t] + 1
  /\ tid' = [tid EXCEPT ![page[t]] = tmp[t]]
  /\ goto(t, "tid_unlock")
  /\ UNCHANGED <<tvars, value, waiters, holder, sem, ret, used, page, tmp, created>>

create_tid_unlock(t) ==
  /\ At(t, "tid_unlock")
  /\ release(t, tid_lock, "unblock")
  /\ UNCHANGED lvars

create_unblock(t) ==
  /\ At(t, "unblock")
  /\ thread_unblock(page[t])
  /\ page' = [page EXCEPT ![t] = None]
  /\ goto(t, "run")
  /\ UNCHANGED <<value, waiters, holder, sem, ret, used, next_tid, tid, tmp, created>>

\* The kernel has not stopped; what the steps above leave alone.
Elsewhere == halted = "no" /\ UNCHANGED <<tail_up, halted>>

\* A step of thread_create(), or of the primitives it calls.
Create(t) ==
  /\ \/ create_get(t) \/ create_scan(t) \/ create_unlock(t) \/ create_init(t)
     \/ create_tid(t) \/ read_tid(t) \/ write_tid(t) \/ create_tid_unlock(t)
     \/ create_unblock(t)
     \/ /\ \/ reap[t] = <<>> /\ ~tail_up /\ sema_down(t)
           \/ sema_up(t)
           \/ set_holder(t, IF sem[t] = pool_lock THEN "scan" ELSE "tid_read")
        /\ UNCHANGED lvars
  /\ Elsewhere

----------------------------------------------------------------------------
(* thread_exit() and thread_schedule_tail() *)

Exit(t) ==
  /\ At(t, "run")
  /\ thread_exit
  /\ UNCHANGED <<mvars, lvars>>
  /\ Elsewhere

\* while (sema->value == 0) in the sema_down() on pool_lock
pool_available == value[pool_lock] > 0

\* t is on the waiters list of the pool lock.
OnPool(t) == On(t, waiters[pool_lock])

\* Mutation: the page stays marked as used.
freed_never(t) == used

\* used_map after bitmap_set_multiple (..., false) for PREV's page
freed(t) == used \ {Head(reap[t])}

\* t, just switched to, calls palloc_free_page (prev).
tail_free(t) ==
  /\ halted = "no"
  /\ cur = t /\ intr = "off" /\ reap[t] # <<>> /\ ~tail_up
  /\ \/ \* ASSERT (!lock_held_by_current_thread (lock)) in lock_acquire()
        /\ held(t, pool_lock)
        /\ halted' = "panic"
        /\ UNCHANGED <<tvars, mvars, lvars, tail_up>>
     \/ \* the lock is free: clear the bit and come to sema_up()
        /\ ~held(t, pool_lock) /\ pool_available
        /\ value' = [value EXCEPT ![pool_lock] = 0]
        /\ used' = freed(t)
        /\ free_prev
        /\ tail_up' = TRUE
        /\ UNCHANGED <<waiters, holder, pc, sem, ret, page, next_tid, tid, tmp, created, halted>>
     \/ \* the lock is taken: sleep inside the switch
        /\ ~held(t, pool_lock) /\ ~pool_available
        /\ ~OnPool(t)
        /\ waiters' = [waiters EXCEPT ![pool_lock] = Append(@, t)]
        /\ thread_block
        /\ UNCHANGED <<value, holder, pc, sem, ret, lvars, tail_up, halted>>
     \/ \* only idle comes back without having been woken: sema_down() spins
        /\ ~held(t, pool_lock) /\ ~pool_available
        /\ OnPool(t)
        /\ halted' = "hang"
        /\ UNCHANGED <<tvars, mvars, lvars, tail_up>>

\* Mutation: palloc_free_page() returns without lock_release().
tail_release_never ==
  /\ tail_up
  /\ tail_up' = FALSE
  /\ UNCHANGED <<tvars, mvars, lvars, halted>>

\* sema_up (&pool->lock.semaphore) in palloc_free_page (prev)
tail_release ==
  /\ halted = "no" /\ tail_up
  /\ up(pool_lock)
  /\ tail_up' = FALSE
  /\ UNCHANGED <<holder, pc, sem, ret, lvars, halted>>

----------------------------------------------------------------------------
Ticks == tick /\ UNCHANGED lvars /\ Elsewhere
Resumes(t) == ~tail_up /\ resume(t) /\ UNCHANGED lvars /\ Elsewhere
Idles == reap[Idle] = <<>> /\ ~tail_up /\ idle_loop /\ UNCHANGED lvars /\ Elsewhere

LifeNext ==
  \/ \E t \in Client : Create(t) \/ Exit(t)
  \/ \E t \in Thread : tail_free(t) \/ Resumes(t)
  \/ tail_release
  \/ Idles
  \/ Ticks

LifeSpec == LifeInit /\ [][LifeNext]_life_vars

----------------------------------------------------------------------------
(* Properties *)

\* Every variable keeps its type: no page is cleared in used_map that has no
\* bit there, and no semaphore is upped beyond 1 or downed below 0.
LifeTypeOK ==
  /\ value \in [Sema -> 0 .. 1]
  /\ waiters \in [Sema -> Seq(Thread)]
  /\ holder \in [Lock -> Client \cup {None}]
  /\ sem \in [Thread -> Sema \cup {None}]
  /\ used \subseteq Pool
  /\ page \in [Thread -> Pool \cup {None}]
  /\ next_tid \in 3 .. MaxCreate + 3 /\ tmp \in [Thread -> 0 .. MaxCreate + 2]
  /\ tid \in [Thread -> 0 .. MaxCreate + 2]
  /\ created \in 0 .. MaxCreate
  /\ tail_up \in BOOLEAN /\ halted \in {"no", "panic", "hang"}

\* A thread on a lock's waiters list is blocked, and on no list twice, also if
\* it went to sleep inside a switch: sema_up() never meets the assertion of
\* thread_unblock().
SleepersOK ==
  \A s1, s2 \in Sema : \A i \in 1 .. Len(waiters[s1]), j \in 1 .. Len(waiters[s2]) :
    /\ waiters[s1][i] # Idle => status[waiters[s1][i]] = "BLOCKED"
    /\ waiters[s1][i] = waiters[s2][j] => s1 = s2 /\ i = j

\* The pool lock and the tid lock exclude each other's holders also when one of
\* them is taken inside thread_schedule_tail().
LifeMutualExclusion ==
  IF tail_up THEN value[pool_lock] = 0 /\ \A t \in Client : ~Inside(t, pool_lock)
             ELSE MutualExclusion

\* t is inside thread_create() with a page that is not a thread yet.
Making(t) == page[t] # None /\ status[page[t]] = "NONE"

\* used_map knows exactly the pages in use, each used for one thing: a page is
\* not handed out while its dead thread may still run on it, not handed out
\* twice, and not lost (ASSERT (bitmap_all (...)) in palloc_free_multiple()).
PagesOK ==
  /\ used = {p \in Pool : status[p] # "NONE"} \cup {page[t] : t \in {u \in Client : Making(u)}}
  /\ \A t, u \in Client : page[t] # None /\ page[t] = page[u] => t = u

\* allocate_tid() gives no tid twice: threads that have been given one, also those
\* that have exited and whose page still holds it, have different ones.
TidsUnique ==
  \A t, u \in Thread : tid[t] # 0 /\ tid[t] = tid[u] => t = u

\* t sleeps on the pool lock that it has taken itself.
SelfWait(t) == Inside(t, pool_lock) /\ OnPool(t)

\* The idle thread, which frees dead threads like any other, finds the pool lock
\* free: it sleeps on it, and then spins, only if a thread sleeps on its own lock.
IdleFindsPoolFree ==
  OnPool(Idle) => \E t \in Client : SelfWait(t)

\* lock_acquire(): "The lock must not already be held by the current thread."
NeverHeldTwice == halted # "panic"

\* Creating and destroying threads keeps the kernel in order between any two
\* steps: the pool lock and the tid lock exclude, the threads asleep are on the
\* wait list of the lock they want, and each page is free or one thread's.
LifeOK == LifeTypeOK /\ LifeMutualExclusion /\ SleepersOK /\ PagesOK
=============================================================================
