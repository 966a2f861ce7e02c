----------------------------- MODULE LifeProofs -----------------------------
(***************************************************************************)
(* The inductive invariant of thread creation and death, and the steps of  *)
(* thread_create() that keep it, but for those that make, wake or free a   *)
(* thread's page, which are in LifeInvariants.                             *)
(*                                                                         *)
(* A thread's label tells which of the two locks it has downed, whether it *)
(* has a page and whether the page is a thread already; the two semaphores *)
(* count exactly those labels.  The tail of a switch upsets all of this,   *)
(* because it frees a page, and so takes pool_lock, in the name of a       *)
(* thread that may be anywhere: Stuck is the state in which it waits for a *)
(* lock that the same thread holds.                                        *)
(***************************************************************************)
EXTENDS ThreadLife, ThreadsProofs

\* Most leaves are first-order and Zenon's; arithmetic and the rest are Z3's.
USE ZenonT(30), SMTT(60)

\* Where the threads are, and where the idle thread is.
LifeLabel == {"run", "down", "own", "scan", "unlock", "up", "init", "tid", "tid_read", "tid_write", "tid_unlock",
              "unblock"}
IdleLabel == {"blocked", "hlt", "loop", "block"}

\* Interrupts stay off in a tail that waits for free()'s lock to be released.
LifeTypes ==
  /\ value \in [Sema -> 0 .. 1]
  /\ waiters \in [Sema -> Seq(Thread)]
  /\ holder \in [Lock -> Client \cup {None}]
  /\ pc \in [Thread -> LifeLabel \cup IdleLabel] /\ ret \in [Thread -> LifeLabel]
  /\ sem \in [Thread -> Sema \cup {None}]
  /\ used \subseteq Pool
  /\ page \in [Thread -> Pool \cup {None}]
  /\ next_tid \in Nat /\ tmp \in [Thread -> Nat] /\ tid \in [Thread -> Nat]
  /\ created \in 0 .. MaxCreate
  /\ tail_up \in BOOLEAN /\ halted \in {"no", "panic", "hang"}
  /\ tail_up => intr = "off"
  /\ pc[Idle] \in IdleLabel

\* The lock a thread has downed and not yet upped, by its label.
HasPool(t) == pc[t] \in {"scan", "unlock"} \/ (pc[t] \in {"own", "up"} /\ sem[t] = pool_lock)
HasTid(t) == pc[t] \in {"tid_read", "tid_write", "tid_unlock"} \/ (pc[t] \in {"own", "up"} /\ sem[t] = tid_lock)

\* What t's label says of its return address, its semaphore and the locks it
\* holds; a thread that is not one, or no more, has none of them.
LabelOK(t) ==
  /\ pc[t] \in LifeLabel
  /\ pc[t] = "down" => ret[t] = "own"
  /\ pc[t] \in {"down", "own", "up"} => sem[t] \in Lock
  /\ pc[t] = "up" => ret[t] = IF sem[t] = pool_lock THEN "init" ELSE "unblock"
  /\ holder[pool_lock] = t <=> pc[t] \in {"scan", "unlock"}
  /\ holder[tid_lock] = t <=> pc[t] \in {"tid_read", "tid_write", "tid_unlock"}
  /\ status[t] \in {"NONE", "DYING"} => pc[t] = "run"

Labels == \A t \in Client : LabelOK(t)

\* Thread t, in thread_create(), has no page yet; has made a thread of it.
Before(t) == pc[t] \in {"run", "scan"} \/ (pc[t] \in {"down", "own"} /\ sem[t] = pool_lock)
After(t) == \/ pc[t] \in {"tid", "tid_read", "tid_write", "tid_unlock", "unblock"}
            \/ pc[t] \in {"down", "own", "up"} /\ sem[t] = tid_lock

\* The page that t got is unused until init_thread(), then a blocked thread
\* that has not run.
PageOK(t) ==
  /\ Before(t) => page[t] = None
  /\ After(t) => page[t] # None /\ status[page[t]] = "BLOCKED" /\ pc[page[t]] = "run" /\ reap[page[t]] = <<>>
  /\ ~Before(t) /\ ~After(t) => page[t] = None \/ status[page[t]] = "NONE"

PageInv == (\A t \in Client : PageOK(t)) /\ PagesOK

\* pool_lock is free, or one thread has it, or it is taken by a tail.
ExclPool ==
  IF tail_up THEN value[pool_lock] = 0 /\ \A t \in Client : ~HasPool(t)
  ELSE \/ value[pool_lock] = 1 /\ \A t \in Client : ~HasPool(t)
       \/ value[pool_lock] = 0 /\ \E t \in Client : HasPool(t) /\ \A u \in Client : HasPool(u) => u = t

\* tid_lock is free, or one thread has it.
ExclTid ==
  \/ value[tid_lock] = 1 /\ \A t \in Client : ~HasTid(t)
  \/ value[tid_lock] = 0 /\ \E t \in Client : HasTid(t) /\ \A u \in Client : HasTid(u) => u = t

OnTid(t) == On(t, waiters[tid_lock])

\* A waiter is on one list, once, and blocked, in its own down or in the free
\* of a tail; who is blocked waits there or is not yet started.
Listed ==
  /\ Distinct(waiters[pool_lock]) /\ Distinct(waiters[tid_lock])
  /\ \A t \in Thread : ~(OnPool(t) /\ OnTid(t))
  /\ ~OnTid(Idle)
  /\ \A t \in Client : OnTid(t) => status[t] = "BLOCKED" /\ pc[t] = "down"
  /\ \A t \in Client : OnPool(t) => status[t] = "BLOCKED" /\ (pc[t] = "down" \/ reap[t] # <<>>)
  /\ \A t \in Client : status[t] = "BLOCKED" => OnPool(t) \/ pc[t] \in {"down", "run"}

\* Tids given are below next_tid, and one that is being given is next_tid.
TidInv ==
  /\ \A t \in Thread : tid[t] < next_tid
  /\ TidsUnique
  /\ \A t \in Client : pc[t] = "tid_write" => tmp[t] = next_tid

\* A tail waits for the lock that its thread holds.
Stuck == \E t \in Client : HasPool(t) /\ OnPool(t)

\* Unless a tail is stuck, the idle thread does not wait for pool_lock: it frees
\* at most one page, when no thread is ready and the lock is free.
IdleTail ==
  ~Stuck => /\ ~OnPool(Idle)
            /\ reap[Idle] # <<>> => /\ cur = Idle /\ intr = "off" /\ ready_list = <<>> /\ ~tail_up
                                    /\ Tail(reap[Idle]) = <<>>

LifeInv == /\ IInv /\ idle_thread = Idle
           /\ LifeTypes /\ Labels /\ PageInv /\ ExclPool /\ ExclTid /\ Listed /\ TidInv /\ IdleTail

\* What the assumptions on the constants say of the locks and the threads.
LEMMA Life_Constants ==
  /\ Idle \in Thread /\ initial_thread \in Thread /\ Idle # initial_thread /\ None \notin Thread
  /\ Sema = Lock /\ Lock = {pool_lock, tid_lock} /\ pool_lock # tid_lock /\ MaxCreate \in Nat
  /\ pool_lock \in Sema /\ tid_lock \in Sema /\ None \notin Sema
  /\ Pool \subseteq Thread /\ Client \subseteq Thread /\ \A t : t \in Client <=> t \in Thread /\ t # Idle
BY ThreadAssumption, LifeAssumption, SemaAssumption DEF Client, Pool

\* The types of all the variables, and what ThreadsProofs knows of the scheduler.
LEMMA Life_Types ==
  ASSUME LifeInv
  PROVE  /\ value \in [Sema -> 0 .. 1] /\ waiters \in [Sema -> Seq(Thread)]
         /\ holder \in [Lock -> Client \cup {None}]
         /\ pc \in [Thread -> LifeLabel \cup IdleLabel] /\ ret \in [Thread -> LifeLabel]
         /\ sem \in [Thread -> Sema \cup {None}]
         /\ used \subseteq Pool /\ page \in [Thread -> Pool \cup {None}]
         /\ next_tid \in Nat /\ tmp \in [Thread -> Nat] /\ tid \in [Thread -> Nat]
         /\ created \in 0 .. MaxCreate /\ tail_up \in BOOLEAN /\ halted \in {"no", "panic", "hang"}
         /\ (tail_up => intr = "off") /\ pc[Idle] \in IdleLabel
         /\ status \in [Thread -> Status] /\ reap \in [Thread -> Seq(Thread)] /\ ready_list \in Seq(Thread)
         /\ cur \in Thread /\ status[cur] = "RUNNING"
         /\ \A t \in Thread : status[t] = "RUNNING" => t = cur
         /\ idle_thread = Idle /\ started /\ intr \in {"on", "off"}
         /\ (intr = "on" => reap[cur] = <<>>)
         /\ status[Idle] \notin {"NONE", "DYING"}
<1>1. IInv /\ idle_thread = Idle /\ LifeTypes
  BY DEF LifeInv
<1>2. TypeOK /\ OneRunning /\ TailBeforeIntr /\ IdleOK
  BY <1>1 DEF IInv
<1>3. started
  BY <1>1, <1>2, Life_Constants DEF IdleOK
<1> QED
  BY <1>1, <1>2, <1>3 DEF LifeTypes, TypeOK, OneRunning, TailBeforeIntr, IdleOK, started

\* The idle thread runs none of thread_create(): labels tell threads apart.
LEMMA Life_Runs ==
  ASSUME LifeInv
  PROVE  /\ pc[Idle] \notin LifeLabel
         /\ \A t \in Client : pc[t] \in LifeLabel
         /\ \A t \in Client : held(t, pool_lock) <=> pc[t] \in {"scan", "unlock"}
         /\ \A t \in Client : held(t, tid_lock) <=> pc[t] \in {"tid_read", "tid_write", "tid_unlock"}
         /\ ~held(Idle, pool_lock)
         /\ cur \in Client => ~OnPool(cur) /\ ~OnTid(cur)
         /\ \A t \in Client : page[t] # None => page[t] \in Client /\ page[t] # cur
                              /\ status[page[t]] \in {"NONE", "BLOCKED"}
<1>1. Labels /\ Listed /\ PageInv
  BY DEF LifeInv
<1>2. pc[Idle] \notin LifeLabel
  BY Life_Types DEF LifeLabel, IdleLabel
<1>3. ~held(Idle, pool_lock)
  BY Life_Types, Life_Constants DEF held
<1>4. cur \in Client => ~OnPool(cur) /\ ~OnTid(cur)
  BY <1>1, Life_Types DEF Listed
<1>5. ASSUME NEW t \in Client, page[t] # None
      PROVE  page[t] \in Client /\ page[t] # cur /\ status[page[t]] \in {"NONE", "BLOCKED"}
  <2>1. PageOK(t) /\ page[t] \in Pool /\ page[t] \in Thread
    BY <1>1, <1>5, Life_Types, Life_Constants DEF PageInv
  <2>2. status[page[t]] \in {"NONE", "BLOCKED"}
    BY <1>5, <2>1 DEF PageOK
  <2>3. page[t] # cur
    BY <2>2, Life_Types
  <2>4. page[t] # Idle
    <3>1. CASE After(t)
      BY <1>2, <2>1, <3>1 DEF PageOK, LifeLabel
    <3>2. CASE ~After(t)
      BY <1>5, <2>1, <3>2, Life_Types DEF PageOK
    <3> QED
      BY <3>1, <3>2
  <2> QED
    BY <2>1, <2>2, <2>3, <2>4, Life_Constants
<1> QED
  BY <1>1, <1>2, <1>3, <1>4, <1>5 DEF Labels, LabelOK, held

\* What a switch does: the new thread was ready, or it is idle and nobody is.
LEMMA Switch ==
  ASSUME LifeInv, NEW s, NEW rl, Leaves(s, rl)
  PROVE  /\ cur' \in Thread /\ idle_thread' = Idle /\ intr' = "off"
         /\ \A t \in Thread : status'[t] = IF t = cur' THEN "RUNNING" ELSE IF t = cur THEN s ELSE status[t]
         /\ cur' = Idle \/ IF cur' = cur THEN s = "READY" ELSE status[cur'] = "READY"
         /\ cur' = Idle => ready_list' = <<>>
         /\ \A t \in Thread : reap'[t] = IF t = cur' /\ cur' # cur /\ s = "DYING" /\ cur # initial_thread
                                         THEN <<cur>> \o reap[t] ELSE reap[t]
<1>1. IInv /\ idle_thread = Idle
  BY DEF LifeInv
<1>2. cur' \in Thread
  BY <1>1, Next_Thread
<1>3. PICK n : n = next_thread_to_run(rl)
  OBVIOUS
<1>4. /\ cur' = n /\ status' = [status EXCEPT ![cur] = s, ![n] = "RUNNING"]
      /\ ready_list' = (IF rl = <<>> THEN rl ELSE Tail(rl))
      /\ reap' = (IF n # cur /\ s = "DYING" /\ cur # initial_thread
                  THEN [reap EXCEPT ![n] = <<cur>> \o @] ELSE reap)
      /\ idle_thread' = idle_thread /\ intr' = "off"
  BY <1>3 DEF Leaves, schedule, switched, prev_to_free
<1>5. CASE rl = <<>>
  <2>1. n = Idle /\ ready_list' = <<>>
    BY <1>1, <1>3, <1>4, <1>5 DEF next_thread_to_run
  <2> QED
    BY <1>1, <1>2, <1>4, <2>1, Life_Types
<1>6. CASE rl # <<>>
  <2>1. n = Head(rl) /\ On(n, rl)
    BY <1>3, <1>6, Tail_On DEF next_thread_to_run, Leaves
  <2>2. n # Idle /\ IF n = cur THEN s = "READY" ELSE status[n] = "READY"
    BY <1>1, <1>2, <1>4, <2>1 DEF Leaves
  <2> QED
    BY <1>1, <1>2, <1>4, <2>2, Life_Types
<1> QED
  BY <1>5, <1>6

\* A step that only schedules.
LEMMA Sched_Keeps ==
  ASSUME LifeInv, IInv', idle_thread' = Idle,
         UNCHANGED <<value, waiters, holder, sem, ret, lvars, tail_up>>,
         halted' \in {"no", "panic", "hang"},
         pc' \in [Thread -> LifeLabel \cup IdleLabel], pc'[Idle] \in IdleLabel,
         \A t \in Client : pc'[t] = pc[t],
         tail_up => intr' = "off",
         \A t \in Client : /\ status'[t] = "BLOCKED" <=> status[t] = "BLOCKED"
                           /\ status'[t] = "NONE" <=> status[t] = "NONE"
                           /\ status'[t] = "DYING" => status[t] = "DYING" \/ pc[t] = "run"
                           /\ status[t] = "BLOCKED" => reap'[t] = reap[t],
         ~Stuck /\ reap'[Idle] # <<>> =>
           /\ cur' = Idle /\ intr' = "off" /\ ready_list' = <<>> /\ ~tail_up
           /\ Tail(reap'[Idle]) = <<>>
  PROVE  LifeInv'
<1>0. /\ LifeTypes /\ Labels /\ PageInv /\ ExclPool /\ ExclTid /\ Listed /\ TidInv /\ IdleTail
  BY DEF LifeInv
<1>1. LifeTypes'
  BY <1>0 DEF LifeTypes, lvars
<1>2. Labels'
  BY <1>0, SMTT(60) DEF Labels, LabelOK
<1>3. \A t \in Client : HasPool(t)' = HasPool(t) /\ HasTid(t)' = HasTid(t)
  BY DEF HasPool, HasTid
<1>4. ExclPool' /\ ExclTid'
  <2>1. ExclPool'
    BY <1>0, <1>3 DEF ExclPool
  <2> QED
    BY <1>0, <1>3, <2>1 DEF ExclTid
<1>5. \A t : (OnPool(t)' <=> OnPool(t)) /\ (OnTid(t)' <=> OnTid(t))
  BY DEF OnPool, OnTid
<1>6. Listed'
  BY <1>0, <1>5 DEF Listed
<1>7. status'[Idle] # "NONE" /\ status[Idle] # "NONE"
  BY Life_Types, Life_Constants DEF IInv, IdleOK, started
<1>8. \A t \in Client : page[t] # None =>
          /\ page[t] \in Client
          /\ status'[page[t]] = "NONE" <=> status[page[t]] = "NONE"
          /\ status'[page[t]] = "BLOCKED" <=> status[page[t]] = "BLOCKED"
  BY Life_Runs
<1>9. PageInv'
  <2>1. ASSUME NEW t \in Client PROVE PageOK(t)'
    <3>1. PageOK(t) /\ (Before(t)' <=> Before(t)) /\ (After(t)' <=> After(t)) /\ page'[t] = page[t]
      BY <1>0 DEF PageInv, Before, After, lvars
    <3> QED
      BY <3>1, <1>8, SMTT(60) DEF PageOK
  <2>2. PagesOK'
    <3>1. \A p \in Pool : status'[p] # "NONE" <=> status[p] # "NONE"
      BY <1>7, Life_Constants
    <3>2. \A t \in Client : Making(t)' <=> Making(t)
      BY <1>8 DEF Making, lvars
    <3> QED
      BY <1>0, <3>1, <3>2, SMTT(60) DEF PagesOK, PageInv, lvars
  <2> QED
    BY <2>1, <2>2 DEF PageInv
<1>10. TidInv'
  <2>1. TidsUnique'
    BY <1>0 DEF TidInv, TidsUnique, lvars
  <2> QED
    BY <1>0, <2>1 DEF TidInv, lvars
<1>11. IdleTail'
  <2>1. Stuck' <=> Stuck
    BY <1>3, <1>5 DEF Stuck
  <2> QED
    BY <1>0, <1>5, <2>1 DEF IdleTail
<1> QED
  BY <1>1, <1>2, <1>4, <1>6, <1>9, <1>10, <1>11 DEF LifeInv

\* thread_exit()
LEMMA Exit_Keeps ==
  ASSUME LifeInv, IInv', NEW t \in Client, Exit(t)
  PROVE  LifeInv'
<1>0. cur = t /\ intr = "on" /\ pc[t] = "run" /\ UNCHANGED <<mvars, lvars, tail_up, halted>>
  BY DEF Exit, At, Elsewhere
<1>1. /\ cur' \in Thread /\ idle_thread' = Idle /\ intr' = "off"
      /\ \A u \in Thread : status'[u] = IF u = cur' THEN "RUNNING" ELSE IF u = cur THEN "DYING" ELSE status[u]
      /\ cur' = Idle \/ IF cur' = cur THEN "DYING" = "READY" ELSE status[cur'] = "READY"
      /\ cur' = Idle => ready_list' = <<>>
      /\ \A u \in Thread : reap'[u] = IF u = cur' /\ cur' # cur /\ "DYING" = "DYING" /\ cur # initial_thread
                                      THEN <<cur>> \o reap[u] ELSE reap[u]
  BY Exit_Leaves, Switch DEF Exit, LifeInv
<1>2. \A u \in Client : /\ status'[u] = "BLOCKED" <=> status[u] = "BLOCKED"
                        /\ status'[u] = "NONE" <=> status[u] = "NONE"
                        /\ status'[u] = "DYING" => status[u] = "DYING" \/ pc[u] = "run"
                        /\ status[u] = "BLOCKED" => reap'[u] = reap[u]
  BY <1>0, <1>1, Life_Types, Life_Constants
<1>3. ASSUME ~Stuck, reap'[Idle] # <<>>
      PROVE  /\ cur' = Idle /\ intr' = "off" /\ ready_list' = <<>> /\ ~tail_up
             /\ Tail(reap'[Idle]) = <<>>
  <2>1. reap[Idle] = <<>>
    BY <1>0, <1>3, Life_Constants DEF LifeInv, IdleTail
  <2>2. cur' = Idle /\ reap'[Idle] = <<cur>> \o <<>>
    BY <1>1, <1>3, <2>1, Life_Constants
  <2>3. Tail(<<cur>> \o <<>>) = <<>>
    OBVIOUS
  <2> QED
    BY <1>0, <1>1, <2>2, <2>3, Life_Types
<1>4. /\ pc' \in [Thread -> LifeLabel \cup IdleLabel] /\ pc'[Idle] \in IdleLabel
      /\ halted' \in {"no", "panic", "hang"} /\ (tail_up => intr' = "off")
      /\ UNCHANGED <<value, waiters, holder, sem, ret, lvars, tail_up>>
      /\ \A u \in Client : pc'[u] = pc[u]
  BY <1>0, <1>1, Life_Types DEF mvars
<1> QED
  BY <1>1, <1>2, <1>3, <1>4, Sched_Keeps

\* The timer interrupt, with the yield it may ask for
LEMMA Ticks_Keeps ==
  ASSUME LifeInv, IInv', Ticks
  PROVE  LifeInv'
<1>0. intr = "on" /\ UNCHANGED <<value, waiters, holder, sem, ret, lvars, tail_up, halted>>
  BY DEF Ticks, tick, Elsewhere, timer_interrupt, thread_yield
<1>1. /\ pc' \in [Thread -> LifeLabel \cup IdleLabel] /\ pc'[Idle] \in IdleLabel
      /\ \A u \in Client : pc'[u] = pc[u]
  <2>1. pc' = IF cur = Idle /\ pc[Idle] = "hlt" THEN [pc EXCEPT ![Idle] = "loop"] ELSE pc
    BY DEF Ticks, tick, wake_hlt
  <2> QED
    BY <2>1, Life_Types, Life_Constants DEF IdleLabel
<1>2. ~tail_up /\ (~Stuck => reap[Idle] = <<>>)
  BY <1>0, Life_Types DEF LifeInv, IdleTail
<1>3. CASE thread_yield
  <2>1. /\ cur' \in Thread /\ idle_thread' = Idle /\ intr' = "off"
        /\ \A u \in Thread : status'[u] = IF u = cur' THEN "RUNNING" ELSE IF u = cur THEN "READY" ELSE status[u]
        /\ cur' = Idle \/ IF cur' = cur THEN "READY" = "READY" ELSE status[cur'] = "READY"
        /\ cur' = Idle => ready_list' = <<>>
        /\ \A u \in Thread : reap'[u] = IF u = cur' /\ cur' # cur /\ "READY" = "DYING" /\ cur # initial_thread
                                        THEN <<cur>> \o reap[u] ELSE reap[u]
    BY <1>3, Yield_Leaves, Switch DEF LifeInv
  <2>2. \A u \in Client : /\ status'[u] = "BLOCKED" <=> status[u] = "BLOCKED"
                          /\ status'[u] = "NONE" <=> status[u] = "NONE"
                          /\ status'[u] = "DYING" => status[u] = "DYING" \/ pc[u] = "run"
                          /\ status[u] = "BLOCKED" => reap'[u] = reap[u]
    BY <2>1, Life_Types, Life_Constants
  <2>3. reap'[Idle] = reap[Idle]
    BY <2>1, Life_Constants
  <2>4. halted' \in {"no", "panic", "hang"}
    BY <1>0, Life_Types
  <2> QED
    BY <1>0, <1>1, <1>2, <2>1, <2>2, <2>3, <2>4, Sched_Keeps
<1>4. CASE UNCHANGED <<status, ready_list, cur, idle_thread, intr, reap>>
  <2>1. halted' \in {"no", "panic", "hang"} /\ idle_thread' = Idle
    BY <1>0, <1>4, Life_Types
  <2> QED
    BY <1>0, <1>1, <1>2, <1>4, <2>1, Sched_Keeps
<1> QED
  BY <1>3, <1>4 DEF Ticks, tick, timer_interrupt

\* Interrupts go on after a switch; the loop of idle(); the steps that stop the kernel.
LEMMA Quiet_Keeps ==
  ASSUME LifeInv, IInv', UNCHANGED <<status, ready_list, cur, idle_thread, reap>>,
         UNCHANGED <<value, waiters, holder, sem, ret, lvars, tail_up>>,
         halted' \in {"no", "panic", "hang"},
         pc' \in [Thread -> LifeLabel \cup IdleLabel], pc'[Idle] \in IdleLabel,
         \A t \in Client : pc'[t] = pc[t],
         intr' = intr \/ (~tail_up /\ (intr' = "off" \/ reap[cur] = <<>>))
  PROVE  LifeInv'
<1>1. (tail_up => intr' = "off") /\ idle_thread' = Idle
  BY Life_Types
<1>2. ASSUME ~Stuck, reap'[Idle] # <<>>
      PROVE  /\ cur' = Idle /\ intr' = "off" /\ ready_list' = <<>> /\ ~tail_up
             /\ Tail(reap'[Idle]) = <<>>
  BY <1>2 DEF LifeInv, IdleTail
<1> QED
  BY <1>1, <1>2, Sched_Keeps

\* A thread goes on with interrupts on, once its tail is done.
LEMMA Resumes_Keeps ==
  ASSUME LifeInv, IInv', NEW t \in Thread, Resumes(t)
  PROVE  LifeInv'
<1>1. /\ ~tail_up /\ reap[cur] = <<>> /\ UNCHANGED <<status, ready_list, cur, idle_thread, reap>>
      /\ UNCHANGED <<value, waiters, holder, sem, ret, lvars, tail_up>> /\ pc' = pc /\ halted' = halted
  BY DEF Resumes, resume, mvars, intr_enable, switch_complete, Elsewhere
<1> QED
  BY <1>1, Life_Types, Quiet_Keeps

\* The loop of idle().
LEMMA Idles_Keeps ==
  ASSUME LifeInv, IInv', Idles
  PROVE  LifeInv'
<1>0. /\ cur = Idle /\ reap[Idle] = <<>> /\ ~tail_up
      /\ UNCHANGED <<value, waiters, holder, sem, ret, lvars, tail_up>> /\ halted' \in {"no", "panic", "hang"}
  BY Life_Types DEF Idles, idle_loop, Elsewhere
<1>1. CASE \/ intr_enable /\ goto(Idle, "hlt")
           \/ intr_disable /\ goto(Idle, "block")
  <2>1. /\ UNCHANGED <<status, ready_list, cur, idle_thread, reap>>
        /\ \/ pc' = [pc EXCEPT ![Idle] = "hlt"]
           \/ pc' = [pc EXCEPT ![Idle] = "block"]
    BY <1>1 DEF intr_enable, intr_disable, goto
  <2>2. /\ pc' \in [Thread -> LifeLabel \cup IdleLabel] /\ pc'[Idle] \in IdleLabel
        /\ \A u \in Client : pc'[u] = pc[u]
    BY <2>1, Life_Types, Life_Constants DEF IdleLabel
  <2>3. reap[cur] = <<>>
    BY <1>0
  <2> QED
    BY <1>0, <2>1, <2>2, <2>3, Quiet_Keeps
<1>2. CASE thread_block /\ goto(Idle, "blocked")
  <2>1. /\ cur' \in Thread /\ idle_thread' = Idle /\ intr' = "off"
        /\ \A u \in Thread : status'[u] = IF u = cur' THEN "RUNNING" ELSE IF u = cur THEN "BLOCKED" ELSE status[u]
        /\ cur' = Idle \/ IF cur' = cur THEN "BLOCKED" = "READY" ELSE status[cur'] = "READY"
        /\ cur' = Idle => ready_list' = <<>>
        /\ \A u \in Thread : reap'[u] = IF u = cur' /\ cur' # cur /\ "BLOCKED" = "DYING" /\ cur # initial_thread
                                        THEN <<cur>> \o reap[u] ELSE reap[u]
    BY <1>2, Block_Leaves, Switch DEF LifeInv
  <2>2. /\ pc' \in [Thread -> LifeLabel \cup IdleLabel] /\ pc'[Idle] \in IdleLabel
        /\ \A u \in Client : pc'[u] = pc[u]
    BY <1>2, Life_Types, Life_Constants DEF IdleLabel, goto
  <2>3. \A u \in Client : /\ status'[u] = "BLOCKED" <=> status[u] = "BLOCKED"
                          /\ status'[u] = "NONE" <=> status[u] = "NONE"
                          /\ status'[u] = "DYING" => status[u] = "DYING" \/ pc[u] = "run"
                          /\ status[u] = "BLOCKED" => reap'[u] = reap[u]
    BY <1>0, <2>1, Life_Types, Life_Constants
  <2>4. reap'[Idle] = <<>>
    BY <1>0, <2>1, Life_Constants
  <2> QED
    BY <1>0, <2>1, <2>2, <2>3, <2>4, Sched_Keeps
<1> QED
  BY <1>1, <1>2 DEF Idles, idle_loop

\* The running thread t goes to another label, and no thread changes its state.
Moves(t) ==
  /\ cur = t /\ ~tail_up
  /\ UNCHANGED <<status, ready_list, cur, idle_thread, reap, waiters, tail_up>>
  /\ \A u \in Client : u # t => pc'[u] = pc[u] /\ sem'[u] = sem[u] /\ ret'[u] = ret[u] /\ page'[u] = page[u]
                                /\ \A l \in Lock : holder'[l] = u <=> holder[l] = u

\* A step of t that takes no lock leaves the others' labels and lists alone.
LEMMA Moves_Others ==
  ASSUME LifeInv, NEW t \in Client, Moves(t)
  PROVE  /\ \A u \in Client : u # t => LabelOK(u)' /\ PageOK(u)'
         /\ Listed' /\ IdleTail'
         /\ \A u \in Client : u # t => (HasPool(u)' <=> HasPool(u)) /\ (HasTid(u)' <=> HasTid(u))
<1>0. Labels /\ PageInv /\ Listed /\ IdleTail
  BY DEF LifeInv
<1>1. \A u \in Client : u # t => (HasPool(u)' <=> HasPool(u)) /\ (HasTid(u)' <=> HasTid(u))
  BY DEF Moves, HasPool, HasTid
<1>2. \A u : (OnPool(u)' <=> OnPool(u)) /\ (OnTid(u)' <=> OnTid(u))
  BY DEF OnPool, OnTid, Moves
<1>3. status[t] = "RUNNING" /\ status' = status /\ reap' = reap /\ waiters' = waiters
      /\ ~OnPool(t) /\ ~OnTid(t)
  BY Life_Types, Life_Runs DEF Moves
<1>4. Listed'
  BY <1>0, <1>2, <1>3, SMTT(60) DEF Listed, Moves
<1>5. ASSUME NEW u \in Client, u # t PROVE LabelOK(u)' /\ PageOK(u)'
  <2>1. LabelOK(u) /\ PageOK(u)
    BY <1>0 DEF Labels, PageInv
  <2>2. /\ pc'[u] = pc[u] /\ sem'[u] = sem[u] /\ ret'[u] = ret[u] /\ page'[u] = page[u]
        /\ holder'[pool_lock] = u <=> holder[pool_lock] = u
        /\ holder'[tid_lock] = u <=> holder[tid_lock] = u
    BY <1>5, Life_Constants DEF Moves
  <2>3. LabelOK(u)'
    BY <1>3, <2>1, <2>2 DEF LabelOK
  <2>4. page[u] # None => pc'[page[u]] = pc[page[u]]
    BY Life_Runs DEF Moves
  <2>5. (Before(u)' <=> Before(u)) /\ (After(u)' <=> After(u))
    BY <2>2 DEF Before, After
  <2> QED
    BY <1>3, <2>1, <2>2, <2>3, <2>4, <2>5 DEF PageOK
<1>6. IdleTail'
  <2>1. Stuck => Stuck'
    BY <1>1, <1>2, <1>3 DEF Stuck
  <2>2. ~Stuck => reap[Idle] = <<>>
    BY <1>0, Life_Constants DEF IdleTail, Moves
  <2> QED
    BY <1>0, <1>2, <1>3, <2>1, <2>2 DEF IdleTail
<1> QED
  BY <1>1, <1>4, <1>5, <1>6

\* A step that takes and gives back no lock.
LEMMA Moves_Keeps ==
  ASSUME LifeInv, IInv', NEW t \in Client, Moves(t), value' = value,
         HasPool(t)' <=> HasPool(t), HasTid(t)' <=> HasTid(t),
         LifeTypes', LabelOK(t)', PageOK(t)', PagesOK', TidInv'
  PROVE  LifeInv'
<1>0. ExclPool /\ ExclTid /\ idle_thread' = Idle /\ tail_up' = tail_up
  BY Life_Types DEF LifeInv, Moves
<1>1. /\ \A u \in Client : u # t => LabelOK(u)' /\ PageOK(u)'
      /\ Listed' /\ IdleTail'
      /\ \A u \in Client : u # t => (HasPool(u)' <=> HasPool(u)) /\ (HasTid(u)' <=> HasTid(u))
  BY Moves_Others
<1>2. \A u \in Client : (HasPool(u)' <=> HasPool(u)) /\ (HasTid(u)' <=> HasTid(u))
  BY <1>1
<1>3. ExclPool'
  BY <1>0, <1>2 DEF ExclPool
<1>4. ExclTid'
  BY <1>0, <1>2 DEF ExclTid
<1>5. Labels' /\ PageInv'
  BY <1>1 DEF Labels, PageInv
<1> QED
  BY <1>0, <1>1, <1>3, <1>4, <1>5 DEF LifeInv

\* The pages stay as they are; so do the tids.
LEMMA Pages_Same ==
  ASSUME LifeInv, UNCHANGED <<used, page, status>>
  PROVE  PagesOK'
  BY DEF LifeInv, PageInv, PagesOK, Making

\* The tids stay as they are.
LEMMA Tids_Same ==
  ASSUME LifeInv, NEW t \in Client, UNCHANGED <<tid, next_tid, tmp>>,
         \A u \in Client : u # t => pc'[u] = pc[u], pc'[t] # "tid_write"
  PROVE  TidInv'
  BY DEF LifeInv, TidInv, TidsUnique

\* lock_acquire() up to its sema_down()
LEMMA Get_Keeps ==
  ASSUME LifeInv, IInv', NEW t \in Client, create_get(t), Elsewhere
  PROVE  LifeInv'
<1>0. /\ cur = t /\ intr = "on" /\ pc[t] = "run" /\ created < MaxCreate /\ created' = created + 1
      /\ UNCHANGED <<status, ready_list, cur, idle_thread, reap>> /\ intr' = "off"
      /\ pc' = [pc EXCEPT ![t] = "down"] /\ sem' = [sem EXCEPT ![t] = pool_lock]
      /\ ret' = [ret EXCEPT ![t] = "own"]
      /\ UNCHANGED <<value, waiters, holder, used, page, next_tid, tid, tmp, tail_up, halted>>
  BY DEF create_get, At, enter_down, intr_disable, goto, Elsewhere
<1>1. pc'[t] = "down" /\ sem'[t] = pool_lock /\ ret'[t] = "own" /\ ~tail_up
      /\ \A u \in Client : u # t => pc'[u] = pc[u] /\ sem'[u] = sem[u] /\ ret'[u] = ret[u]
  BY <1>0, Life_Types, Life_Constants
<1>2. Moves(t)
  BY <1>0, <1>1 DEF Moves
<1>3. LifeTypes'
  <2>1. pc' \in [Thread -> LifeLabel \cup IdleLabel] /\ pc'[Idle] \in IdleLabel
    BY <1>0, Life_Types, Life_Constants DEF LifeLabel
  <2>2. sem' \in [Thread -> Sema \cup {None}] /\ ret' \in [Thread -> LifeLabel]
    BY <1>0, Life_Types, Life_Constants DEF LifeLabel
  <2>3. created' \in 0 .. MaxCreate
    <3>1. created < MaxCreate /\ created' = created + 1
      BY <1>0
    <3>2. created \in 0 .. MaxCreate /\ MaxCreate \in Nat
      BY Life_Types, Life_Constants
    <3> QED
      BY <3>1, <3>2
  <2> QED
    BY <1>0, <2>1, <2>2, <2>3, Life_Types DEF LifeTypes
<1>4. LabelOK(t) /\ PageOK(t)
  BY DEF LifeInv, Labels, PageInv
<1>5. LabelOK(t)'
  BY <1>0, <1>1, <1>4, Life_Types, Life_Constants DEF LabelOK, LifeLabel
<1>6. PageOK(t)'
  BY <1>0, <1>1, <1>4, Life_Constants DEF PageOK, Before, After
<1>7. (HasPool(t)' <=> HasPool(t)) /\ (HasTid(t)' <=> HasTid(t))
  BY <1>0, <1>1 DEF HasPool, HasTid
<1>8. PagesOK' /\ TidInv'
  BY <1>0, <1>1, Pages_Same, Tids_Same
<1> QED
  BY <1>0, <1>2, <1>3, <1>5, <1>6, <1>7, <1>8, Moves_Keeps

\* allocate_tid() up to its sema_down().
LEMMA Tid_Keeps ==
  ASSUME LifeInv, IInv', NEW t \in Client, create_tid(t), Elsewhere
  PROVE  LifeInv'
<1>0. /\ cur = t /\ intr = "on" /\ pc[t] = "tid"
      /\ UNCHANGED <<status, ready_list, cur, idle_thread, reap>> /\ intr' = "off"
      /\ pc' = [pc EXCEPT ![t] = "down"] /\ sem' = [sem EXCEPT ![t] = tid_lock]
      /\ ret' = [ret EXCEPT ![t] = "own"]
      /\ UNCHANGED <<value, waiters, holder, used, page, next_tid, tid, tmp, created, tail_up, halted>>
  BY DEF create_tid, At, enter_down, intr_disable, goto, Elsewhere, lvars
<1>1. pc'[t] = "down" /\ sem'[t] = tid_lock /\ ret'[t] = "own" /\ ~tail_up
      /\ \A u \in Client : u # t => pc'[u] = pc[u] /\ sem'[u] = sem[u] /\ ret'[u] = ret[u]
  BY <1>0, Life_Types, Life_Constants
<1>2. Moves(t)
  BY <1>0, <1>1 DEF Moves
<1>3. LifeTypes'
  <2>1. pc' \in [Thread -> LifeLabel \cup IdleLabel] /\ pc'[Idle] \in IdleLabel
    BY <1>0, Life_Types, Life_Constants DEF LifeLabel
  <2>2. sem' \in [Thread -> Sema \cup {None}] /\ ret' \in [Thread -> LifeLabel]
    BY <1>0, Life_Types, Life_Constants DEF LifeLabel
  <2> QED
    BY <1>0, <2>1, <2>2, Life_Types DEF LifeTypes
<1>4. LabelOK(t) /\ PageOK(t)
  BY DEF LifeInv, Labels, PageInv
<1>5. LabelOK(t)'
  BY <1>0, <1>1, <1>4, Life_Types, Life_Constants DEF LabelOK, LifeLabel
<1>6. PageOK(t)'
  <2>1. page[t] # None => page[t] # t /\ page[t] \in Client
    BY <1>0, Life_Runs
  <2> QED
    BY <1>0, <1>1, <1>4, <2>1, Life_Constants DEF PageOK, Before, After
<1>7. (HasPool(t)' <=> HasPool(t)) /\ (HasTid(t)' <=> HasTid(t))
  BY <1>0, <1>1 DEF HasPool, HasTid
<1>8. PagesOK' /\ TidInv'
  BY <1>0, <1>1, Pages_Same, Tids_Same
<1> QED
  BY <1>0, <1>2, <1>3, <1>5, <1>6, <1>7, <1>8, Moves_Keeps

\* lock_release() up to its sema_up(); R is where that returns to.
LEMMA Release_Keeps ==
  ASSUME LifeInv, IInv', NEW t \in Client, create_unlock(t) \/ create_tid_unlock(t), Elsewhere
  PROVE  LifeInv'
<1>0. PICK l \in Lock, r \in {"init", "unblock"} :
         /\ cur = t /\ intr = "on" /\ pc[t] = IF l = pool_lock THEN "unlock" ELSE "tid_unlock"
         /\ r = IF l = pool_lock THEN "init" ELSE "unblock"
         /\ holder[l] = t /\ holder' = [holder EXCEPT ![l] = None]
         /\ UNCHANGED tvars
         /\ pc' = [pc EXCEPT ![t] = "up"] /\ sem' = [sem EXCEPT ![t] = l]
         /\ ret' = [ret EXCEPT ![t] = r]
         /\ UNCHANGED <<value, waiters, used, page, next_tid, tid, tmp, created, tail_up, halted>>
  <2>1. CASE create_unlock(t)
    <3>1. /\ cur = t /\ intr = "on" /\ pc[t] = "unlock" /\ UNCHANGED tvars
          /\ holder[pool_lock] = t /\ holder' = [holder EXCEPT ![pool_lock] = None]
          /\ pc' = [pc EXCEPT ![t] = "up"] /\ sem' = [sem EXCEPT ![t] = pool_lock]
          /\ ret' = [ret EXCEPT ![t] = "init"]
          /\ UNCHANGED <<value, waiters, used, page, next_tid, tid, tmp, created, tail_up, halted>>
      BY <2>1 DEF create_unlock, At, release, held, enter_up, goto, Elsewhere, lvars
    <3> QED
      BY <3>1, Life_Constants
  <2>2. CASE create_tid_unlock(t)
    <3>1. /\ cur = t /\ intr = "on" /\ pc[t] = "tid_unlock" /\ UNCHANGED tvars
          /\ holder[tid_lock] = t /\ holder' = [holder EXCEPT ![tid_lock] = None]
          /\ pc' = [pc EXCEPT ![t] = "up"] /\ sem' = [sem EXCEPT ![t] = tid_lock]
          /\ ret' = [ret EXCEPT ![t] = "unblock"]
          /\ UNCHANGED <<value, waiters, used, page, next_tid, tid, tmp, created, tail_up, halted>>
      BY <2>2 DEF create_tid_unlock, At, release, held, enter_up, goto, Elsewhere, lvars
    <3> QED
      BY <3>1, Life_Constants
  <2> QED
    BY <2>1, <2>2
<1>1. /\ pc'[t] = "up" /\ sem'[t] = l /\ ret'[t] = r /\ ~tail_up /\ t # None
      /\ \A u \in Client : u # t => pc'[u] = pc[u] /\ sem'[u] = sem[u] /\ ret'[u] = ret[u]
      /\ holder'[l] = None /\ \A k \in Lock : k # l => holder'[k] = holder[k]
  BY <1>0, Life_Types, Life_Constants
<1>2. Moves(t)
  <2>1. \A u \in Client : u # t => u # None /\ \A k \in Lock : holder'[k] = u <=> holder[k] = u
    BY <1>0, <1>1, Life_Constants, SMTT(60)
  <2> QED
    BY <1>0, <1>1, <2>1 DEF Moves, tvars
<1>3. LifeTypes'
  <2>1. pc' \in [Thread -> LifeLabel \cup IdleLabel] /\ pc'[Idle] \in IdleLabel
    BY <1>0, Life_Types, Life_Constants, SMTT(60) DEF LifeLabel
  <2>2. sem' \in [Thread -> Sema \cup {None}] /\ ret' \in [Thread -> LifeLabel]
    BY <1>0, Life_Types, Life_Constants DEF LifeLabel
  <2>3. holder' \in [Lock -> Client \cup {None}]
    BY <1>0, Life_Types
  <2> QED
    BY <1>0, <2>1, <2>2, <2>3, Life_Types DEF LifeTypes, tvars
<1>4. LabelOK(t) /\ PageOK(t)
  BY DEF LifeInv, Labels, PageInv
<1>5. LabelOK(t)'
  <2>1. holder'[pool_lock] # t /\ holder'[tid_lock] # t
    BY <1>0, <1>1, <1>4, Life_Constants DEF LabelOK
  <2> QED
    BY <1>0, <1>1, <1>4, <2>1, Life_Types, Life_Constants DEF LabelOK, LifeLabel, tvars
<1>6. PageOK(t)'
  <2>1. page[t] # None => page[t] # t /\ page[t] \in Client
    BY <1>0, Life_Runs
  <2> QED
    BY <1>0, <1>1, <1>4, <2>1, Life_Constants DEF PageOK, Before, After, tvars
<1>7. (HasPool(t)' <=> HasPool(t)) /\ (HasTid(t)' <=> HasTid(t))
  BY <1>0, <1>1, Life_Constants DEF HasPool, HasTid
<1>8. PagesOK' /\ TidInv'
  BY <1>0, <1>1, Pages_Same, Tids_Same DEF tvars
<1> QED
  BY <1>0, <1>2, <1>3, <1>5, <1>6, <1>7, <1>8, Moves_Keeps

\* Nobody else has a lock that t has; nobody at all has one that is free.
LEMMA Alone ==
  ASSUME LifeInv, NEW t \in Client, NEW u \in Client
  PROVE  /\ HasPool(t) /\ HasPool(u) => u = t
         /\ HasTid(t) /\ HasTid(u) => u = t
         /\ HasPool(t) => value[pool_lock] = 0 /\ ~tail_up
         /\ HasTid(t) => value[tid_lock] = 0
  BY Life_Types DEF LifeInv, ExclPool, ExclTid

\* palloc_get_page() with the lock: a page nobody uses, or none
LEMMA Scan_Keeps ==
  ASSUME LifeInv, IInv', NEW t \in Client, create_scan(t), Elsewhere
  PROVE  LifeInv'
<1>0. /\ cur = t /\ intr = "on" /\ pc[t] = "scan"
      /\ UNCHANGED tvars /\ pc' = [pc EXCEPT ![t] = "unlock"]
      /\ UNCHANGED <<value, waiters, holder, sem, ret, next_tid, tid, tmp, created, tail_up, halted>>
      /\ \/ \E p \in Pool \ used : used' = used \cup {p} /\ page' = [page EXCEPT ![t] = p]
         \/ used' = used /\ page' = page
  BY DEF create_scan, At, goto, Elsewhere
<1>1. /\ pc'[t] = "unlock" /\ ~tail_up
      /\ \A u \in Client : u # t => pc'[u] = pc[u]
  BY <1>0, Life_Types, Life_Constants
<1>2. LabelOK(t) /\ PageOK(t) /\ page[t] = None /\ PagesOK
  BY <1>0 DEF LifeInv, Labels, PageInv, PageOK, Before
<1>3. (HasPool(t)' <=> HasPool(t)) /\ (HasTid(t)' <=> HasTid(t))
  BY <1>0, <1>1 DEF HasPool, HasTid
<1>4. LabelOK(t)'
  BY <1>0, <1>1, <1>2, Life_Types, Life_Constants DEF LabelOK, LifeLabel, tvars
<1>5. /\ Moves(t) /\ used' \subseteq Pool /\ page' \in [Thread -> Pool \cup {None}]
      /\ PageOK(t)' /\ PagesOK'
  <2>1. ASSUME NEW p \in Pool \ used, used' = used \cup {p}, page' = [page EXCEPT ![t] = p]
        PROVE  /\ Moves(t) /\ used' \subseteq Pool /\ page' \in [Thread -> Pool \cup {None}]
               /\ PageOK(t)' /\ PagesOK'
    <3>1. /\ \A u \in Client : u # t => page'[u] = page[u]
          /\ page'[t] = p /\ page' \in [Thread -> Pool \cup {None}] /\ used' \subseteq Pool
          /\ p # None /\ p \in Pool /\ p \notin used
      BY <2>1, Life_Types, Life_Constants
    <3>2. status[p] = "NONE" /\ status' = status
      BY <1>0, <1>2, <3>1 DEF PagesOK, tvars
    <3>3. \A u \in Client : page[u] # p
      BY <1>2, <3>1, <3>2 DEF PagesOK, Making
    <3>4. Moves(t)
      BY <1>0, <1>1, <3>1 DEF Moves, tvars
    <3>5. PageOK(t)'
      BY <1>1, <3>1, <3>2 DEF PageOK, Before, After
    <3>6. \A u \in Client : Making(u)' <=> u = t \/ Making(u)
      BY <3>1, <3>2, <1>2 DEF Making
    <3>7. ~Making(t)
      BY <1>2 DEF Making
    <3>8. {page[u] : u \in {v \in Client : Making(v)}}' = {page[u] : u \in {v \in Client : Making(v)}} \cup {p}
      BY <3>1, <3>6, <3>7
    <3>9. used' = {q \in Pool : status'[q] # "NONE"} \cup {page[u] : u \in {v \in Client : Making(v)}}'
      BY <1>2, <2>1, <3>2, <3>8 DEF PagesOK
    <3>10. \A u, v \in Client : page'[u] # None /\ page'[u] = page'[v] => u = v
      BY <1>2, <3>1, <3>3, SMTT(60) DEF PagesOK
    <3> QED
      BY <3>1, <3>4, <3>5, <3>9, <3>10 DEF PagesOK
  <2>2. CASE used' = used /\ page' = page
    <3>1. Moves(t)
      BY <1>0, <1>1, <2>2 DEF Moves, tvars
    <3>2. PageOK(t)'
      BY <1>1, <1>2, <2>2 DEF PageOK, Before, After
    <3> QED
      BY <1>0, <2>2, <3>1, <3>2, Pages_Same, Life_Types DEF tvars
  <2> QED
    BY <1>0, <2>1, <2>2
<1>6. LifeTypes'
  <2>1. pc' \in [Thread -> LifeLabel \cup IdleLabel] /\ pc'[Idle] \in IdleLabel
    BY <1>0, Life_Types, Life_Constants DEF LifeLabel
  <2> QED
    BY <1>0, <1>5, <2>1, Life_Types DEF LifeTypes, tvars
<1>7. TidInv'
  BY <1>0, <1>1, Tids_Same DEF tvars
<1> QED
  BY <1>0, <1>3, <1>4, <1>5, <1>6, <1>7, Moves_Keeps

\* tid = next_tid++
LEMMA Count_Keeps ==
  ASSUME LifeInv, IInv', NEW t \in Client, read_tid(t) \/ write_tid(t), Elsewhere
  PROVE  LifeInv'
<1>0. /\ cur = t /\ intr = "on" /\ pc[t] \in {"tid_read", "tid_write"}
      /\ UNCHANGED tvars
      /\ UNCHANGED <<value, waiters, holder, sem, ret, used, page, created, tail_up, halted>>
      /\ \/ pc[t] = "tid_read" /\ pc' = [pc EXCEPT ![t] = "tid_write"] /\ tmp' = [tmp EXCEPT ![t] = next_tid]
            /\ UNCHANGED <<tid, next_tid>>
         \/ pc[t] = "tid_write" /\ pc' = [pc EXCEPT ![t] = "tid_unlock"] /\ tmp' = tmp
            /\ next_tid' = tmp[t] + 1 /\ tid' = [tid EXCEPT ![page[t]] = tmp[t]]
  BY DEF read_tid, write_tid, At, goto, Elsewhere
<1>1. /\ pc'[t] \in {"tid_write", "tid_unlock"} /\ ~tail_up
      /\ \A u \in Client : u # t => pc'[u] = pc[u]
  BY <1>0, Life_Types, Life_Constants
<1>2. LabelOK(t) /\ PageOK(t) /\ TidInv /\ HasTid(t) /\ page[t] # None /\ page[t] \in Thread /\ page[t] # t
  <2>1. LabelOK(t) /\ PageOK(t) /\ TidInv /\ HasTid(t) /\ page[t] # None
    BY <1>0 DEF LifeInv, Labels, PageInv, PageOK, After, HasTid
  <2> QED
    BY <1>0, <2>1, Life_Runs, Life_Constants
<1>3. (HasPool(t)' <=> HasPool(t)) /\ (HasTid(t)' <=> HasTid(t))
  BY <1>0, <1>1 DEF HasPool, HasTid
<1>4. LabelOK(t)'
  BY <1>0, <1>1, <1>2, Life_Types, Life_Constants DEF LabelOK, LifeLabel, tvars
<1>5. PageOK(t)'
  <2>1. page[t] \in Client
    BY <1>2, Life_Runs
  <2> QED
    BY <1>0, <1>1, <1>2, <2>1, Life_Constants DEF PageOK, Before, After, tvars
<1>6. Moves(t)
  BY <1>0, <1>1 DEF Moves, tvars
<1>7. TidInv' /\ next_tid' \in Nat /\ tmp' \in [Thread -> Nat] /\ tid' \in [Thread -> Nat]
  <2>0. \A u \in Client : u # t => pc[u] # "tid_write"
    BY <1>2, Alone DEF HasTid
  <2>1. CASE pc[t] = "tid_read"
    <3>1. /\ tmp' = [tmp EXCEPT ![t] = next_tid] /\ UNCHANGED <<tid, next_tid>>
      BY <1>0, <2>1 DEF tvars
    <3>2. tmp'[t] = next_tid' /\ tmp' \in [Thread -> Nat]
      BY <3>1, Life_Types, Life_Constants
    <3>3. \A u \in Client : pc'[u] = "tid_write" => tmp'[u] = next_tid'
      BY <1>1, <2>0, <3>2
    <3>4. TidsUnique' /\ \A u \in Thread : tid'[u] < next_tid'
      BY <1>2, <3>1 DEF TidInv, TidsUnique
    <3> QED
      BY <3>1, <3>2, <3>3, <3>4, Life_Types DEF TidInv
  <2>2. CASE pc[t] = "tid_write"
    <3>1. /\ next_tid' = next_tid + 1 /\ tid' = [tid EXCEPT ![page[t]] = next_tid] /\ tmp' = tmp
          /\ pc'[t] = "tid_unlock"
      BY <1>0, <1>2, <2>2, Life_Types, Life_Constants DEF TidInv, tvars
    <3>a. next_tid \in Nat /\ tid \in [Thread -> Nat]
      BY Life_Types
    <3>b. next_tid' = next_tid + 1 /\ tid' = [tid EXCEPT ![page[t]] = next_tid]
      BY <3>1
    <3>c. tid' \in [Thread -> Nat]
      BY <3>a, <3>b
    <3>d. next_tid' \in Nat
      BY <3>a, <3>b
    <3>2. tid' \in [Thread -> Nat] /\ next_tid' \in Nat
      BY <3>c, <3>d
    <3>3. \A u \in Thread : tid'[u] = IF u = page[t] THEN next_tid ELSE tid[u]
      BY <1>2, <3>1, Life_Types
    <3>4. \A u \in Thread : tid[u] < next_tid /\ tid[u] \in Nat
      BY <1>2, Life_Types DEF TidInv
    <3>5. \A u \in Thread : tid'[u] < next_tid'
      BY <3>a, <3>b, <3>3, <3>4, SMTT(60)
    <3>6. TidsUnique'
      <4>1. \A u \in Thread : tid[u] # next_tid
        BY <3>4, Life_Types, SMTT(60)
      <4>2. ASSUME NEW u \in Thread, NEW v \in Thread, tid'[u] # 0, tid'[u] = tid'[v] PROVE u = v
        <5>1. u \in Thread /\ v \in Thread
          BY Life_Types
        <5>2. CASE u = page[t] \/ v = page[t]
          BY <3>3, <4>1, <4>2, <5>1, <5>2
        <5>3. CASE u # page[t] /\ v # page[t]
          <6>1. tid[u] # 0 /\ tid[u] = tid[v]
            BY <3>3, <4>2, <5>1, <5>3
          <6> QED
            BY <1>2, <6>1 DEF TidInv, TidsUnique
        <5> QED
          BY <5>2, <5>3
      <4> QED
        BY <3>1, <4>2 DEF TidsUnique
    <3>7. \A u \in Client : pc'[u] # "tid_write"
      BY <1>1, <2>0, <3>1
    <3> QED
      BY <3>1, <3>2, <3>5, <3>6, <3>7, Life_Types DEF TidInv
  <2> QED
    BY <1>0, <2>1, <2>2
<1>8. LifeTypes'
  <2>1. PICK r \in LifeLabel : pc' = [pc EXCEPT ![t] = r]
    BY <1>0 DEF LifeLabel
  <2>2. pc' \in [Thread -> LifeLabel \cup IdleLabel] /\ pc'[Idle] \in IdleLabel
    BY <2>1, Life_Types, Life_Constants
  <2> QED
    BY <1>0, <1>7, <2>2, Life_Types DEF LifeTypes, tvars
<1>9. PagesOK'
  BY <1>0, Pages_Same DEF tvars
<1> QED
  BY <1>0, <1>3, <1>4, <1>5, <1>6, <1>7, <1>8, <1>9, Moves_Keeps

\* The last statement of lock_acquire()
LEMMA Holder_Keeps ==
  ASSUME LifeInv, IInv', NEW t \in Client, set_holder(t, IF sem[t] = pool_lock THEN "scan" ELSE "tid_read"),
         UNCHANGED lvars, Elsewhere
  PROVE  LifeInv'
<1>0. /\ cur = t /\ intr = "on" /\ pc[t] = "own"
      /\ UNCHANGED tvars /\ pc' = [pc EXCEPT ![t] = IF sem[t] = pool_lock THEN "scan" ELSE "tid_read"]
      /\ holder' = [holder EXCEPT ![sem[t]] = t]
      /\ UNCHANGED <<value, waiters, sem, ret, used, page, next_tid, tid, tmp, created, tail_up, halted>>
  BY DEF set_holder, At, goto, Elsewhere, lvars
<1>1. LabelOK(t) /\ PageOK(t) /\ Labels
  BY DEF LifeInv, Labels, PageInv
<1>2. PICK l \in Lock : l = sem[t]
  BY <1>0, <1>1 DEF LabelOK
<1>3. /\ pc'[t] = IF l = pool_lock THEN "scan" ELSE "tid_read"
      /\ ~tail_up /\ \A u \in Client : u # t => pc'[u] = pc[u]
      /\ holder'[l] = t /\ \A k \in Lock : k # l => holder'[k] = holder[k]
      /\ l = pool_lock \/ l = tid_lock
  BY <1>0, <1>2, Life_Types, Life_Constants
<1>4. (HasPool(t) <=> l = pool_lock) /\ (HasTid(t) <=> l = tid_lock)
  BY <1>0, <1>2 DEF HasPool, HasTid
<1>5. (HasPool(t)' <=> HasPool(t)) /\ (HasTid(t)' <=> HasTid(t))
  BY <1>3, <1>4, Life_Constants DEF HasPool, HasTid
<1>6. \A u \in Client : u # t => holder[l] # u
  <2> SUFFICES ASSUME NEW u \in Client, u # t, holder[l] = u PROVE FALSE
    OBVIOUS
  <2>1. LabelOK(u)
    BY <1>1 DEF Labels
  <2>2. (l = pool_lock => HasPool(u)) /\ (l = tid_lock => HasTid(u))
    BY <2>1 DEF LabelOK, HasPool, HasTid
  <2> QED
    BY <1>3, <1>4, <2>2, Alone
<1>7. Moves(t)
  BY <1>0, <1>3, <1>6 DEF Moves, tvars
<1>8. LabelOK(t)'
  <2>1. \A k \in Lock : holder[k] # t
    BY <1>0, <1>1, Life_Constants DEF LabelOK
  <2>2. (holder'[pool_lock] = t <=> l = pool_lock) /\ (holder'[tid_lock] = t <=> l = tid_lock)
    BY <1>3, <2>1, Life_Constants
  <2> QED
    BY <1>0, <1>1, <1>3, <2>2, Life_Types, Life_Constants DEF LabelOK, LifeLabel, tvars
<1>9. PageOK(t)'
  <2>1. /\ page[t] # None => page[t] # t /\ page[t] \in Client
        /\ UNCHANGED <<status, reap, sem, page>>
    BY <1>0, Life_Runs DEF tvars
  <2>2. CASE l = pool_lock
    <3>1. Before(t) /\ Before(t)' /\ ~After(t)'
      BY <1>0, <1>2, <1>3, <2>1, <2>2, Life_Constants, SMTT(60) DEF After, Before
    <3>2. page[t] = None
      BY <1>1, <3>1 DEF PageOK
    <3> QED
      BY <2>1, <3>1, <3>2 DEF PageOK
  <2>3. CASE l = tid_lock
    <3>1. After(t) /\ After(t)' /\ ~Before(t)'
      BY <1>0, <1>2, <1>3, <2>1, <2>3, Life_Constants, SMTT(60) DEF After, Before
    <3>2. page[t] # None /\ pc'[page[t]] = pc[page[t]]
      BY <1>1, <1>3, <2>1, <3>1 DEF PageOK
    <3> QED
      BY <1>1, <2>1, <3>1, <3>2 DEF PageOK
  <2> QED
    BY <1>3, <2>2, <2>3
<1>10. LifeTypes'
  <2>1. pc' \in [Thread -> LifeLabel \cup IdleLabel] /\ pc'[Idle] \in IdleLabel
    BY <1>0, Life_Types, Life_Constants DEF LifeLabel
  <2>2. holder' \in [Lock -> Client \cup {None}]
    BY <1>0, <1>2, Life_Types
  <2> QED
    BY <1>0, <2>1, <2>2, Life_Types DEF LifeTypes, tvars
<1>11. PagesOK' /\ TidInv'
  BY <1>0, <1>3, Pages_Same, Tids_Same, SMTT(60) DEF tvars
<1> QED
  BY <1>0, <1>5, <1>7, <1>8, <1>9, <1>10, <1>11, Moves_Keeps

\* sema_down() gets the semaphore.
LEMMA Take_Keeps ==
  ASSUME LifeInv, IInv', NEW t \in Client, ~tail_up, sema_down(t), ~thread_block,
         UNCHANGED lvars, Elsewhere
  PROVE  LifeInv'
<1>1. LabelOK(t) /\ PageOK(t) /\ ExclPool /\ ExclTid
  BY DEF LifeInv, Labels, PageInv
<1>2. pc[t] = "down" /\ sem[t] \in Lock /\ ret[t] = "own"
  BY <1>1 DEF sema_down, LabelOK
<1>3. PICK l \in Lock : l = sem[t]
  BY <1>2
<1>0. /\ cur = t /\ value[l] > 0 /\ value' = [value EXCEPT ![l] = @ - 1]
      /\ UNCHANGED <<status, ready_list, cur, idle_thread, reap>> /\ intr' = "on"
      /\ pc' = [pc EXCEPT ![t] = "own"]
      /\ UNCHANGED <<waiters, holder, sem, ret, used, page, next_tid, tid, tmp, created, tail_up, halted>>
  BY <1>2, <1>3 DEF sema_down, intr_enable, goto, Elsewhere, lvars
<1>4. /\ pc'[t] = "own" /\ \A u \in Client : u # t => pc'[u] = pc[u]
      /\ value[l] = 1 /\ value'[l] = 0 /\ \A k \in Lock : k # l => value'[k] = value[k]
      /\ l = pool_lock \/ l = tid_lock
  <2>1. value \in [Sema -> 0 .. 1] /\ l \in Sema /\ Lock = Sema
    BY Life_Types, Life_Constants
  <2>2. value[l] > 0 /\ value' = [value EXCEPT ![l] = value[l] - 1]
    BY <1>0
  <2>3. value[l] = 1 /\ value'[l] = 0 /\ \A k \in Lock : k # l => value'[k] = value[k]
    BY <2>1, <2>2
  <2> QED
    BY <1>0, <2>3, Life_Types, Life_Constants
<1>5. Moves(t)
  BY <1>0, <1>4 DEF Moves
<1>6. /\ \A u \in Client : u # t => LabelOK(u)' /\ PageOK(u)'
      /\ Listed' /\ IdleTail'
      /\ \A u \in Client : u # t => (HasPool(u)' <=> HasPool(u)) /\ (HasTid(u)' <=> HasTid(u))
  BY <1>5, Moves_Others
<1>7. /\ ~HasPool(t) /\ ~HasTid(t)
      /\ (HasPool(t)' <=> l = pool_lock) /\ (HasTid(t)' <=> l = tid_lock)
  BY <1>0, <1>2, <1>3, <1>4 DEF HasPool, HasTid
<1>8. ExclPool'
  <2>1. CASE l = pool_lock
    BY <1>0, <1>1, <1>4, <1>6, <1>7, <2>1, SMTT(60) DEF ExclPool
  <2>2. CASE l # pool_lock
    <3>1. value'[pool_lock] = value[pool_lock] /\ \A u \in Client : HasPool(u)' <=> HasPool(u)
      BY <1>4, <1>6, <1>7, <2>2, Life_Constants
    <3> QED
      BY <1>0, <1>1, <3>1 DEF ExclPool
  <2> QED
    BY <2>1, <2>2
<1>9. ExclTid'
  <2>1. CASE l = tid_lock
    BY <1>0, <1>1, <1>4, <1>6, <1>7, <2>1, SMTT(60) DEF ExclTid
  <2>2. CASE l # tid_lock
    <3>1. value'[tid_lock] = value[tid_lock] /\ \A u \in Client : HasTid(u)' <=> HasTid(u)
      BY <1>4, <1>6, <1>7, <2>2, Life_Constants
    <3> QED
      BY <1>0, <1>1, <3>1 DEF ExclTid
  <2> QED
    BY <2>1, <2>2
<1>10. LabelOK(t)'
  BY <1>0, <1>1, <1>2, <1>4, Life_Types, Life_Constants DEF LabelOK, LifeLabel
<1>11. PageOK(t)'
  <2>1. page[t] # None => page[t] # t /\ page[t] \in Client
    BY <1>0, Life_Runs
  <2> QED
    BY <1>0, <1>1, <1>2, <1>3, <1>4, <2>1, Life_Constants DEF PageOK, Before, After
<1>12. LifeTypes'
  <2>1. pc' \in [Thread -> LifeLabel \cup IdleLabel] /\ pc'[Idle] \in IdleLabel
    BY <1>0, Life_Types, Life_Constants DEF LifeLabel
  <2>2. value' \in [Sema -> 0 .. 1]
    <3>1. value \in [Sema -> 0 .. 1] /\ value[l] = 1 /\ value' = [value EXCEPT ![l] = value[l] - 1]
      BY <1>0, <1>4, Life_Types
    <3>2. value' = [value EXCEPT ![l] = 0] /\ 0 \in 0 .. 1
      BY <3>1
    <3> QED
      BY <3>1, <3>2
  <2> QED
    BY <1>0, <2>1, <2>2, Life_Types DEF LifeTypes
<1>13. PagesOK' /\ TidInv'
  BY <1>0, <1>4, Pages_Same, Tids_Same
<1>14. Labels' /\ PageInv' /\ idle_thread' = Idle
  BY <1>0, <1>6, <1>10, <1>11, <1>13, Life_Types DEF Labels, PageInv
<1> QED
  BY <1>6, <1>8, <1>9, <1>12, <1>13, <1>14 DEF LifeInv

\* A thread that thread_create() is making is on no waiters list.
LEMMA Fresh ==
  ASSUME LifeInv, NEW t \in Client, page[t] # None
  PROVE  ~OnPool(page[t]) /\ ~OnTid(page[t])
<1>1. PageOK(t) /\ Listed /\ page[t] \in Client /\ status[page[t]] \in {"NONE", "BLOCKED"}
  BY Life_Runs DEF LifeInv, PageInv
<1>2. CASE After(t)
  BY <1>1, <1>2 DEF PageOK, Listed
<1>3. CASE ~After(t)
  BY <1>1, <1>3 DEF PageOK, Listed
<1> QED
  BY <1>2, <1>3

\* When idle() finds the pool lock taken, a thread sleeps on its own lock: every
\* other thread with the lock would be ready, and idle would not run.
LEMMA Idle_Stuck ==
  ASSUME LifeInv, cur = Idle, reap[Idle] # <<>>, ~tail_up, value[pool_lock] = 0
  PROVE  Stuck
<1> SUFFICES ASSUME ~Stuck PROVE FALSE
  OBVIOUS
<1>1. ready_list = <<>> /\ Listed /\ Labels /\ ExclPool
  BY DEF LifeInv, IdleTail
<1>2. PICK t \in Client : HasPool(t)
  BY <1>1 DEF ExclPool
<1>3. ReadyListOK /\ ~On(t, ready_list)
  BY <1>1, Empty_On DEF LifeInv, IInv
<1>4. status[t] # "READY"
  BY <1>3, Life_Types, Life_Constants DEF ReadyListOK
<1>5. status[t] # "RUNNING"
  BY Life_Types, Life_Constants
<1>6. pc[t] \notin {"run", "down"}
  BY <1>2 DEF HasPool
<1>7. status[t] \notin {"NONE", "DYING"}
  BY <1>1, <1>6 DEF Labels, LabelOK
<1>8. status[t] = "BLOCKED"
  BY <1>4, <1>5, <1>7, Life_Types, Life_Constants DEF Status
<1> QED
  BY <1>1, <1>2, <1>6, <1>8 DEF Listed, Stuck

\* The running thread joins the waiters of a semaphore and blocks.
LEMMA Wait_Keeps ==
  ASSUME LifeInv, IInv', NEW t \in Thread, cur = t, NEW s \in Sema, thread_block,
         waiters' = [waiters EXCEPT ![s] = Append(@, t)],
         UNCHANGED <<value, holder, pc, sem, ret, lvars, tail_up, halted>>,
         ~OnPool(t), ~OnTid(t),
         (t # Idle /\ pc[t] = "down") \/ (s = pool_lock /\ reap[t] # <<>>),
         t = Idle => Stuck
  PROVE  LifeInv'
<1>0. /\ LifeTypes /\ Labels /\ PageInv /\ ExclPool /\ ExclTid /\ Listed /\ TidInv /\ IdleTail
  BY DEF LifeInv
<1>1. /\ cur' \in Thread /\ idle_thread' = Idle /\ intr' = "off"
      /\ \A u \in Thread : status'[u] = IF u = cur' THEN "RUNNING" ELSE IF u = cur THEN "BLOCKED" ELSE status[u]
      /\ cur' = Idle \/ IF cur' = cur THEN "BLOCKED" = "READY" ELSE status[cur'] = "READY"
      /\ cur' = Idle => ready_list' = <<>>
      /\ \A u \in Thread : reap'[u] = IF u = cur' /\ cur' # cur /\ "BLOCKED" = "DYING" /\ cur # initial_thread
                                      THEN <<cur>> \o reap[u] ELSE reap[u]
  BY Block_Leaves, Switch DEF LifeInv
<1>2. /\ \A u \in Client : status'[u] = "BLOCKED" <=> u = t \/ status[u] = "BLOCKED"
      /\ \A u \in Thread : status'[u] = "NONE" <=> status[u] = "NONE"
      /\ \A u \in Client : status'[u] = "DYING" <=> status[u] = "DYING"
      /\ \A u \in Thread : reap'[u] = reap[u]
  BY <1>1, Life_Types, Life_Constants
<1>3. /\ \A u : OnPool(u)' <=> OnPool(u) \/ (s = pool_lock /\ u = t)
      /\ \A u : OnTid(u)' <=> OnTid(u) \/ (s = tid_lock /\ u = t)
      /\ Distinct(waiters[pool_lock])' /\ Distinct(waiters[tid_lock])'
      /\ waiters' \in [Sema -> Seq(Thread)]
  <2>1. s = pool_lock \/ s = tid_lock
    BY Life_Constants
  <2>2. waiters[s] \in Seq(Thread) /\ Distinct(waiters[s]) /\ ~On(t, waiters[s])
    BY <1>0, <2>1, Life_Types DEF Listed, OnPool, OnTid
  <2>3. /\ Append(waiters[s], t) \in Seq(Thread) /\ Distinct(Append(waiters[s], t))
        /\ \A u : On(u, Append(waiters[s], t)) <=> On(u, waiters[s]) \/ u = t
    BY <2>2, Append_On
  <2>4. waiters'[s] = Append(waiters[s], t) /\ \A k \in Sema : k # s => waiters'[k] = waiters[k]
    BY Life_Types
  <2>5. waiters' \in [Sema -> Seq(Thread)]
    BY <2>3, Life_Types
  <2> QED
    BY <1>0, <2>1, <2>3, <2>4, <2>5, Life_Constants DEF OnPool, OnTid, Listed
<1>4. LifeTypes'
  BY <1>0, <1>1, <1>3 DEF LifeTypes, lvars
<1>5. Labels'
  BY <1>0, <1>2, Life_Constants DEF Labels, LabelOK
<1>6. \A u \in Client : (HasPool(u)' <=> HasPool(u)) /\ (HasTid(u)' <=> HasTid(u))
  BY DEF HasPool, HasTid
<1>7. ExclPool' /\ ExclTid'
  <2>1. ExclPool'
    BY <1>0, <1>6 DEF ExclPool
  <2>2. ExclTid'
    BY <1>0, <1>6 DEF ExclTid
  <2> QED
    BY <2>1, <2>2
<1>8. Listed'
  <2>1. \A u \in Thread : ~(OnPool(u)' /\ OnTid(u)')
    BY <1>0, <1>3, Life_Constants DEF Listed
  <2>2. ~OnTid(Idle)'
    BY <1>0, <1>3, Life_Constants DEF Listed
  <2>3. \A u \in Client : OnTid(u)' => status'[u] = "BLOCKED" /\ pc'[u] = "down"
    BY <1>0, <1>2, <1>3, Life_Constants DEF Listed
  <2>4. \A u \in Client : OnPool(u)' => status'[u] = "BLOCKED" /\ (pc'[u] = "down" \/ reap'[u] # <<>>)
    BY <1>0, <1>2, <1>3, Life_Constants DEF Listed
  <2>5. \A u \in Client : status'[u] = "BLOCKED" => OnPool(u)' \/ pc'[u] \in {"down", "run"}
    BY <1>0, <1>2, <1>3, Life_Constants DEF Listed
  <2> QED
    BY <1>3, <2>1, <2>2, <2>3, <2>4, <2>5 DEF Listed
<1>9. PageInv'
  <2>1. ASSUME NEW u \in Client PROVE PageOK(u)'
    <3>1. PageOK(u) /\ (Before(u)' <=> Before(u)) /\ (After(u)' <=> After(u)) /\ page'[u] = page[u] /\ pc' = pc
      BY <1>0 DEF PageInv, Before, After, lvars
    <3>2. page[u] # None => page[u] \in Client /\ page[u] # t
      BY Life_Runs
    <3> QED
      BY <1>2, <3>1, <3>2, Life_Constants DEF PageOK
  <2>2. \A u \in Client : Making(u)' <=> Making(u)
    BY <1>2, Life_Runs, Life_Constants DEF Making, lvars
  <2>3. \A p \in Pool : status'[p] # "NONE" <=> status[p] # "NONE"
    BY <1>2, Life_Constants
  <2>4. PagesOK'
    BY <1>0, <2>2, <2>3 DEF PagesOK, PageInv, lvars
  <2> QED
    BY <2>1, <2>4 DEF PageInv
<1>10. TidInv'
  <2>1. TidsUnique'
    BY <1>0, <1>1 DEF TidInv, TidsUnique, lvars
  <2> QED
    BY <1>0, <2>1 DEF TidInv, lvars
<1>11. IdleTail'
  <2>1. Stuck => Stuck'
    BY <1>3, <1>6 DEF Stuck
  <2>2. CASE t = Idle
    BY <2>1, <2>2 DEF IdleTail
  <2>3. CASE t # Idle
    <3>1. ~Stuck => reap[Idle] = <<>> /\ ~OnPool(Idle)
      BY <1>0, <2>3 DEF IdleTail
    <3>2. reap'[Idle] = reap[Idle] /\ (OnPool(Idle)' <=> OnPool(Idle))
      BY <1>2, <1>3, <2>3, Life_Constants
    <3> QED
      BY <2>1, <3>1, <3>2 DEF IdleTail
  <2> QED
    BY <2>2, <2>3
<1> QED
  BY <1>1, <1>4, <1>5, <1>7, <1>8, <1>9, <1>10, <1>11 DEF LifeInv

\* sema_up(): what it does to the lists and the threads.
LEMMA Up_Wakes ==
  ASSUME LifeInv, NEW s \in Sema, up(s), value[s] = 0,
         \A u \in Client : u # cur => pc'[u] = pc[u]
  PROVE  /\ UNCHANGED <<cur, idle_thread, intr, reap>>
         /\ \A u \in Thread : status'[u] = status[u] \/ (status[u] = "BLOCKED" /\ status'[u] = "READY")
         /\ \A u \in Client : page[u] # None => status'[page[u]] = status[page[u]]
         /\ waiters' \in [Sema -> Seq(Thread)]
         /\ \A u : OnPool(u)' => OnPool(u)
         /\ s = tid_lock => \A u : OnPool(u)' <=> OnPool(u)
         /\ Listed'
         /\ value' \in [Sema -> 0 .. 1] /\ value'[s] = 1 /\ \A k \in Sema : k # s => value'[k] = value[k]
<1>0. Listed /\ (s = pool_lock \/ s = tid_lock) /\ status[cur] = "RUNNING"
  BY Life_Types, Life_Constants DEF LifeInv
<1>1. value' \in [Sema -> 0 .. 1] /\ value'[s] = 1 /\ \A k \in Sema : k # s => value'[k] = value[k]
  <2>1. value' = [value EXCEPT ![s] = 1] /\ 1 \in 0 .. 1
    BY SMTT(60) DEF up
  <2> QED
    BY <2>1, Life_Types
<1>2. CASE waiters[s] = <<>>
  <2>1. UNCHANGED <<status, cur, idle_thread, intr, reap, waiters>>
    BY <1>2 DEF up, tvars
  <2>2. \A u : (OnPool(u)' <=> OnPool(u)) /\ (OnTid(u)' <=> OnTid(u))
    BY <2>1 DEF OnPool, OnTid
  <2>3. cur \in Client => status[cur] # "BLOCKED" /\ ~OnPool(cur) /\ ~OnTid(cur)
    BY <1>0, Life_Runs
  <2>4. Listed'
    BY <1>0, <2>1, <2>2, <2>3 DEF Listed
  <2> QED
    BY <1>1, <2>1, <2>2, <2>4, Life_Types
<1>3. CASE waiters[s] # <<>>
  <2>1. PICK w : w = Head(waiters[s])
    OBVIOUS
  <2>2. /\ w \in Thread /\ Tail(waiters[s]) \in Seq(Thread) /\ On(w, waiters[s])
        /\ \A u : On(u, waiters[s]) <=> u = w \/ On(u, Tail(waiters[s]))
        /\ Distinct(Tail(waiters[s])) /\ ~On(w, Tail(waiters[s]))
    BY <1>0, <1>3, <2>1, Tail_On, Life_Types, Life_Constants DEF Listed
  <2>3. /\ status[w] = "BLOCKED" /\ w # idle_thread /\ status' = [status EXCEPT ![w] = "READY"]
        /\ waiters' = [waiters EXCEPT ![s] = Tail(waiters[s])]
        /\ UNCHANGED <<cur, idle_thread, intr, reap>>
    BY <1>3, <2>1 DEF up, thread_unblock, can_unblock, popped
  <2>4. /\ w \in Client /\ w # cur
        /\ \A u \in Thread : status'[u] = IF u = w THEN "READY" ELSE status[u]
    BY <1>0, <2>2, <2>3, Life_Types, Life_Constants
  <2>5. /\ waiters' \in [Sema -> Seq(Thread)]
        /\ waiters'[s] = Tail(waiters[s]) /\ \A k \in Sema : k # s => waiters'[k] = waiters[k]
    BY <2>2, <2>3, Life_Types
  <2>6. /\ \A u : OnPool(u)' <=> OnPool(u) /\ ~(s = pool_lock /\ u = w)
        /\ \A u : OnTid(u)' <=> OnTid(u) /\ ~(s = tid_lock /\ u = w)
        /\ Distinct(waiters[pool_lock])' /\ Distinct(waiters[tid_lock])'
        /\ (s = pool_lock => OnPool(w)) /\ (s = tid_lock => OnTid(w))
    BY <1>0, <2>2, <2>5, Life_Constants DEF OnPool, OnTid, Listed
  <2>7. \A u \in Client : page[u] # None => page[u] # w
    BY <1>0, <2>6, Fresh
  <2>8. cur \in Client => status[cur] # "BLOCKED" /\ ~OnPool(cur) /\ ~OnTid(cur)
    BY <1>0, Life_Runs
  <2>9. ~OnPool(w)' /\ ~OnTid(w)'
    BY <1>0, <2>4, <2>6, Life_Constants DEF Listed
  <2>10. Listed'
    <3>1. \A u \in Client : OnTid(u)' => status'[u] = "BLOCKED" /\ pc'[u] = "down"
      BY <1>0, <2>4, <2>6, <2>8, <2>9, Life_Constants DEF Listed
    <3>2. \A u \in Client : OnPool(u)' => status'[u] = "BLOCKED" /\ (pc'[u] = "down" \/ reap'[u] # <<>>)
      BY <1>0, <2>3, <2>4, <2>6, <2>8, <2>9, Life_Constants DEF Listed
    <3>3. \A u \in Client : status'[u] = "BLOCKED" => OnPool(u)' \/ pc'[u] \in {"down", "run"}
      BY <1>0, <2>4, <2>6, <2>8, Life_Constants DEF Listed
    <3> QED
      BY <1>0, <2>6, <3>1, <3>2, <3>3 DEF Listed
  <2>11. \A u \in Client : page[u] # None => status'[page[u]] = status[page[u]]
    BY <2>4, <2>7, Life_Runs, Life_Constants
  <2> QED
    BY <1>1, <2>3, <2>4, <2>5, <2>6, <2>10, <2>11, Life_Constants
<1> QED
  BY <1>2, <1>3
=============================================================================
