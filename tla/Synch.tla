------------------------------- MODULE Synch -------------------------------
(***************************************************************************)
(* Semaphores, locks and condition variables (threads/synch.c).  The       *)
(* threads, all created, call the operations in any order that the asserts *)
(* allow, and an external interrupt handler may up a semaphore at any time *)
(* that interrupts are on.                                                 *)
(***************************************************************************)
EXTENDS Semaphores

CONSTANTS Semaphore,  \* the counting semaphores of the client code
          Cond,       \* the condition variables
          LockOf,     \* the one lock each of them is used with
          InitValue,  \* the value semaphores are initialised with
          MaxValue,   \* bound: the client code ups no semaphore beyond this
          MaxCalls    \* bound: number of calls a thread makes

ASSUME SynchAssumption ==
  /\ IsFiniteSet(Thread)
  /\ Semaphore \cap Lock = {} /\ Semaphore \cap Thread = {} /\ Lock \cap Thread = {}
  \* semaphore t is the semaphore_elem of thread t's cond_wait()
  /\ Sema = Semaphore \cup Lock \cup Thread
  /\ LockOf \in [Cond -> Lock]
  /\ None \notin Cond
  /\ InitValue \in Nat /\ MaxValue \in Nat /\ MaxCalls \in Nat

VARIABLES cwaiters,  \* cond->waiters, each semaphore_elem named by its thread
          cnd,       \* the condition variable of the cond_* call a thread is in
          calls      \* number of calls made

svars == <<mvars, cwaiters, cnd, calls>>
vars == <<tvars, svars>>

Label == {"run", "down", "own", "up", "cw_release", "cw_down", "cw_acquire", "broadcast",
          "hlt", "loop", "block", "blocked"}

SynchInit ==
  \* thread_start() has returned, the client threads are created, idle() sleeps.
  /\ cur = initial_thread
  /\ \E rl \in [1 .. Cardinality(Client) - 1 -> Client \ {cur}] :
       /\ Distinct(rl) /\ \A t \in Client \ {cur} : On(t, rl)
       /\ ready_list = rl
  /\ status = [t \in Thread |-> IF t = cur THEN "RUNNING"
                                ELSE IF t = Idle THEN "BLOCKED" ELSE "READY"]
  /\ idle_thread = Idle
  /\ intr = "on"
  /\ thread_ticks = 0
  /\ reap = [t \in Thread |-> <<>>]
  /\ value = [s \in Sema |-> IF s \in Semaphore THEN InitValue
                             ELSE IF s \in Lock THEN 1 ELSE 0]
  /\ waiters = [s \in Sema |-> <<>>]
  /\ holder = [l \in Lock |-> None]
  /\ cwaiters = [c \in Cond |-> <<>>]
  /\ pc = [t \in Thread |-> IF t = Idle THEN "blocked" ELSE "run"]
  /\ sem = [t \in Thread |-> None]
  /\ ret = [t \in Thread |-> "run"]
  /\ cnd = [t \in Thread |-> None]
  /\ calls = [t \in Thread |-> 0]

----------------------------------------------------------------------------
(* Steps of a thread inside synch.c *)

\* lock_release() inside cond_wait()
cond_wait_release(t) ==
  /\ At(t, "cw_release")
  /\ release(t, LockOf[cnd[t]], "cw_down")
  /\ UNCHANGED <<cwaiters, cnd, calls>>

\* sema_down (&waiter.semaphore) in cond_wait()
cond_wait_down(t) ==
  /\ At(t, "cw_down")
  /\ enter_down(t, t, "cw_acquire")
  /\ UNCHANGED <<cwaiters, cnd, calls>>

\* lock_acquire() at the end of cond_wait()
cond_wait_acquire(t) ==
  /\ At(t, "cw_acquire")
  /\ enter_down(t, LockOf[cnd[t]], "own")
  /\ UNCHANGED <<cwaiters, cnd, calls>>

\* Mutation: cond_broadcast() empties the list after its first signal.
unsignalled_none(q) == <<>>

\* cond->waiters after cond_signal() has popped one waiter.
unsignalled(q) == Tail(q)

\* The body of cond_signal() when a thread waits, up to its call of sema_up().
signal(t, c, r) ==
  /\ cwaiters[c] # <<>>
  /\ cwaiters' = [cwaiters EXCEPT ![c] = unsignalled(@)]
  /\ enter_up(t, Head(cwaiters[c]), r)
  /\ UNCHANGED holder

\* The loop of cond_broadcast()
broadcast_loop(t) ==
  /\ At(t, "broadcast")
  /\ \/ signal(t, cnd[t], "broadcast")
     \/ /\ cwaiters[cnd[t]] = <<>>
        /\ goto(t, "run")
        /\ UNCHANGED <<tvars, value, waiters, holder, sem, ret, cwaiters>>
  /\ UNCHANGED <<cnd, calls>>

----------------------------------------------------------------------------
(* Calls by the client code.  A sema_try_down() or lock_try_acquire() that  *)
(* returns false, and a cond_signal() without a waiter, change nothing.     *)

\* t, outside synch.c, makes another call.
Call(t) ==
  /\ At(t, "run") /\ calls[t] < MaxCalls
  /\ calls' = [calls EXCEPT ![t] = @ + 1]

call_sema_down(t, s) ==
  /\ Call(t)
  /\ enter_down(t, s, "run")
  /\ UNCHANGED <<cwaiters, cnd>>

\* Mutation: sema_try_down() succeeds whatever the value.
can_try_always(s) == TRUE

\* sema->value > 0 in sema_try_down()
can_try(s) == value[s] > 0

try_down(s) == can_try(s) /\ value' = [value EXCEPT ![s] = @ - 1]

call_sema_try_down(t, s) ==
  /\ Call(t)
  /\ try_down(s)
  /\ UNCHANGED <<tvars, waiters, holder, pc, sem, ret, cwaiters, cnd>>

call_sema_up(t, s) ==
  /\ Call(t) /\ value[s] < MaxValue
  /\ up(s)
  /\ UNCHANGED <<holder, pc, sem, ret, cwaiters, cnd>>

lock_acquire(t, l) ==
  /\ Call(t) /\ ~held(t, l)
  /\ enter_down(t, l, "own")
  /\ UNCHANGED <<cwaiters, cnd>>

lock_try_acquire(t, l) ==
  /\ Call(t) /\ ~held(t, l)
  /\ try_down(l)
  /\ goto(t, "own")
  /\ sem' = [sem EXCEPT ![t] = l]
  /\ UNCHANGED <<tvars, waiters, holder, ret, cwaiters, cnd>>

\* Releasing is not counted as a call: a thread that acquires also releases.
lock_release(t, l) ==
  /\ At(t, "run")
  /\ release(t, l, "run")
  /\ UNCHANGED <<cwaiters, cnd, calls>>

\* cond_wait() up to lock_release(); cond->waiters is protected by the lock.
cond_wait(t, c) ==
  /\ Call(t) /\ held(t, LockOf[c])
  /\ value' = [value EXCEPT ![t] = 0]
  /\ waiters' = [waiters EXCEPT ![t] = <<>>]
  /\ cwaiters' = [cwaiters EXCEPT ![c] = Append(@, t)]
  /\ cnd' = [cnd EXCEPT ![t] = c]
  /\ goto(t, "cw_release")
  /\ UNCHANGED <<tvars, holder, sem, ret>>

cond_signal(t, c) ==
  /\ Call(t) /\ held(t, LockOf[c])
  /\ signal(t, c, "run")
  /\ UNCHANGED cnd

cond_broadcast(t, c) ==
  /\ Call(t) /\ held(t, LockOf[c])
  /\ cnd' = [cnd EXCEPT ![t] = c]
  /\ goto(t, "broadcast")
  /\ UNCHANGED <<tvars, value, waiters, holder, sem, ret, cwaiters>>

\* sema_up() by the handler of an external interrupt
handler_sema_up(s) ==
  /\ intr = "on" /\ value[s] < MaxValue
  /\ up(s)
  /\ wake_hlt
  /\ UNCHANGED <<holder, sem, ret, cwaiters, cnd, calls>>

----------------------------------------------------------------------------
\* What a thread does once it is in synch.c.
Inner(t) ==
  \/ (sema_down(t) \/ sema_up(t) \/ set_holder(t, "run")) /\ UNCHANGED <<cwaiters, cnd, calls>>
  \/ cond_wait_release(t) \/ cond_wait_down(t) \/ cond_wait_acquire(t)
  \/ broadcast_loop(t)

ClientCall(t) ==
  \/ \E s \in Semaphore : call_sema_down(t, s) \/ call_sema_try_down(t, s) \/ call_sema_up(t, s)
  \/ \E l \in Lock : lock_acquire(t, l) \/ lock_try_acquire(t, l)
  \/ \E c \in Cond : cond_wait(t, c) \/ cond_signal(t, c) \/ cond_broadcast(t, c)

Ticks == tick /\ UNCHANGED <<cwaiters, cnd, calls>>
Resumes(t) == resume(t) /\ UNCHANGED <<cwaiters, cnd, calls>>
Idles == idle_loop /\ UNCHANGED <<cwaiters, cnd, calls>>

SynchNext ==
  \/ \E t \in Client : Inner(t) \/ ClientCall(t) \/ \E l \in Lock : lock_release(t, l)
  \/ \E t \in Thread : Resumes(t)
  \/ Idles
  \/ Ticks
  \/ \E s \in Semaphore : handler_sema_up(s)

\* A thread that gets the CPU again and again makes progress (a time slice is
\* far longer than a path through synch.c) and releases what it holds.
SynchFairness ==
  /\ SF_vars(Ticks)
  /\ WF_vars(Idles)
  /\ \A t \in Thread : WF_vars(Resumes(t))
  /\ \A t \in Client : SF_vars(Inner(t) \/ \E l \in Lock : lock_release(t, l))

SynchSpec == SynchInit /\ [][SynchNext]_vars /\ SynchFairness

----------------------------------------------------------------------------
(* Properties *)

\* Every variable of synch.c keeps its type; no semaphore's value wraps below 0.
SynchTypeOK ==
  /\ value \in [Sema -> Nat]
  /\ waiters \in [Sema -> Seq(Client)]
  /\ holder \in [Lock -> Client \cup {None}]
  /\ cwaiters \in [Cond -> Seq(Client)]
  /\ pc \in [Thread -> Label]
  /\ sem \in [Thread -> Sema \cup {None}]
  /\ ret \in [Thread -> {"run", "own", "cw_down", "cw_acquire", "broadcast"}]
  /\ cnd \in [Thread -> Cond \cup {None}]
  /\ calls \in [Thread -> 0 .. MaxCalls]

\* thread.h on `elem': "only a thread in the blocked state is on a semaphore
\* wait list".  Every blocked thread but idle is on exactly one, once: that of
\* the semaphore it is downing.
WaitersOK ==
  /\ SynchTypeOK
  /\ \A s \in Sema : Distinct(waiters[s])
  /\ \A t \in Client :
       /\ status[t] = "BLOCKED" => pc[t] = "down"
       /\ \A s \in Sema : On(t, waiters[s]) <=> (status[t] = "BLOCKED" /\ sem[t] = s)

\* t is in cond_wait() and its semaphore has not let it through.
Waiting(t) ==
  \/ pc[t] \in {"cw_release", "cw_down"}
  \/ pc[t] = "up" /\ ret[t] = "cw_down"
  \/ pc[t] = "down" /\ sem[t] = t

\* No signal is lost or sent twice: a thread waiting for a condition is on the
\* condition's list unsignalled, or its semaphore has been, or is about to be,
\* upped by the thread that took it off the list.  In particular a signal
\* between lock_release() and sema_down() in cond_wait() is kept.
SignalOnce ==
  \A t \in Client :
    LET listed == \E c \in Cond : On(t, cwaiters[c])
        upping == {u \in Client : pc[u] = "up" /\ sem[u] = t}
    IN /\ Waiting(t) => value[t] + Cardinality(upping) = IF listed THEN 0 ELSE 1
       /\ ~Waiting(t) => value[t] = 0 /\ upping = {} /\ ~listed

\* A lock that threads keep releasing, and acquire finitely often, is obtained
\* by every thread that asks for it, although a released lock may be taken by
\* another thread before the thread that was woken for it runs.
AcquireReturns ==
  \A t \in Client, l \in Lock : (pc[t] = "down" /\ sem[t] = l) ~> held(t, l)

\* A thread that has been signalled returns from cond_wait() holding the lock.
SignalledReturns ==
  \A t \in Client, c \in Cond :
    (Waiting(t) /\ cnd[t] = c /\ value[t] = 1) ~> (pc[t] = "run" /\ held(t, LockOf[c]))
=============================================================================
