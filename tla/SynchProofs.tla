---------------------------- MODULE SynchProofs ----------------------------
(***************************************************************************)
(* synch.c, for any finite number of threads and any locks, semaphores and *)
(* condition variables.  First, locks exclude: LockOK names the three      *)
(* states of a lock, and every step either leaves a lock alone or goes     *)
(* from one to the next.  Then, sleeping and waking: the waiters lists are *)
(* right, no wakeup is lost and every signal reaches one thread.  SignalOK *)
(* names the four states of a thread's cond_wait(); a step either leaves a *)
(* thread in its state or takes it to the next.  The scheduler's invariant *)
(* IInv is part of the argument: only a blocked thread may be unblocked,   *)
(* and the thread that schedule() switches to was ready, not asleep.       *)
(***************************************************************************)
EXTENDS Synch, ThreadsProofs

\* Most leaves are first-order and Zenon's; arithmetic and the rest are Z3's.
USE ZenonT(30), SMTT(60)

\* t is in lock_acquire() or lock_release() between sema_down() or sema_up()
\* and the assignment to holder.
Between(t, l) == pc[t] \in {"own", "up"} /\ sem[t] = l

\* Free, held, or changing hands.
LockOK(l) ==
  \/ value[l] = 1 /\ holder[l] = None /\ \A t \in Client : ~Between(t, l)
  \/ value[l] = 0 /\ holder[l] \in Client /\ \A t \in Client : ~Between(t, l)
  \/ /\ value[l] = 0 /\ holder[l] = None
     /\ \E t \in Client : Between(t, l) /\ \A u \in Client : Between(u, l) => u = t

CondLabel == {"cw_release", "cw_down", "cw_acquire", "broadcast"}

\* Where a thread is in synch.c and what it has in hand there: after downing a lock's
\* semaphore it goes on to set holder, and in cond_*() it has a condition variable.
ThreadOK(t) ==
  /\ pc[t] = "down" => sem[t] \in Sema /\ (sem[t] \in Lock <=> ret[t] = "own")
  /\ pc[t] = "own" => sem[t] \in Lock
  /\ pc[t] = "up" => sem[t] \in Sema /\ ret[t] # "own"
  /\ pc[t] \in CondLabel \/ (pc[t] \in {"up", "down"} /\ ret[t] \in CondLabel) => cnd[t] \in Cond

MutexType ==
  /\ value \in [Sema -> Nat] /\ holder \in [Lock -> Client \cup {None}]
  /\ cwaiters \in [Cond -> Seq(Client)]
  /\ pc \in [Thread -> Label] /\ sem \in [Thread -> Sema \cup {None}]
  /\ ret \in [Thread -> {"run", "own", "cw_down", "cw_acquire", "broadcast"}]
  /\ cnd \in [Thread -> Cond \cup {None}]

MutexInv == MutexType /\ (\A t \in Client : ThreadOK(t)) /\ (\A l \in Lock : LockOK(l))

-----------------------------------------------------------------------------
(* Frames *)

LEMMA Kinds ==
  /\ Lock \subseteq Sema /\ Semaphore \subseteq Sema /\ Client \subseteq Sema
  /\ Client \subseteq Thread /\ Idle \notin Client /\ None \notin Client /\ None \notin Sema
  /\ Lock \cap Client = {} /\ Lock \cap Semaphore = {}
  BY SynchAssumption, SemaAssumption, ThreadAssumption DEF Client

\* What a step of t leaves to the other threads.
Others(t) ==
  \A u \in Client \ {t} : pc'[u] = pc[u] /\ sem'[u] = sem[u] /\ ret'[u] = ret[u] /\ cnd'[u] = cnd[u]

\* The step leaves lock l alone.
Left(l) == value'[l] = value[l] /\ holder'[l] = holder[l] /\ \A u \in Client : Between(u, l)' <=> Between(u, l)

LEMMA Lock_Left ==
  ASSUME NEW l \in Lock, LockOK(l), Left(l)
  PROVE  LockOK(l)'
  BY DEF LockOK, Left

LEMMA Others_OK ==
  ASSUME MutexInv, NEW t, Others(t), NEW u \in Client \ {t}
  PROVE  ThreadOK(u)' /\ \A l : Between(u, l)' <=> Between(u, l)
<1>1. ThreadOK(u)
  BY DEF MutexInv
<1>2. pc'[u] = pc[u] /\ sem'[u] = sem[u] /\ ret'[u] = ret[u] /\ cnd'[u] = cnd[u]
  BY DEF Others
<1>3. ThreadOK(u)'
  BY <1>1, <1>2 DEF ThreadOK
<1>4. \A l : Between(u, l)' <=> Between(u, l)
  BY <1>2 DEF Between
<1> QED
  BY <1>3, <1>4

\* A step of t that changes at most lock m.
LEMMA Step_On ==
  ASSUME MutexInv, NEW t \in Client, Others(t), MutexType', ThreadOK(t)',
         NEW m, m \in Lock => LockOK(m)',
         \A l \in Lock \ {m} : value'[l] = value[l] /\ holder'[l] = holder[l] /\ (Between(t, l)' <=> Between(t, l))
  PROVE  MutexInv'
<1>1. \A u \in Client : ThreadOK(u)'
  BY Others_OK
<1>2. ASSUME NEW l \in Lock, l # m PROVE LockOK(l)'
  <2>1. LockOK(l)
    BY DEF MutexInv
  <2>2. Left(l)
    <3>1. \A u \in Client \ {t} : Between(u, l)' <=> Between(u, l)
      BY Others_OK
    <3> QED
      BY <1>2, <3>1 DEF Left
  <2> QED
    BY <2>1, <2>2, Lock_Left
<1>3. \A l \in Lock : LockOK(l)'
  BY <1>2
<1> QED
  BY <1>1, <1>3 DEF MutexInv

\* A step of t outside of any lock, before and after.
LEMMA Step_Off ==
  ASSUME MutexInv, NEW t \in Client, Others(t), MutexType', ThreadOK(t)',
         \A l \in Lock : value'[l] = value[l], UNCHANGED holder,
         \A l \in Lock : ~Between(t, l) /\ ~Between(t, l)'
  PROVE  MutexInv'
  BY Step_On, Kinds

\* A step that no client takes.
LEMMA Step_None ==
  ASSUME MutexInv, Others(Idle), MutexType', UNCHANGED holder, \A l \in Lock : value'[l] = value[l]
  PROVE  MutexInv'
<1>1. \A u \in Client : u \in Client \ {Idle}
  BY Kinds
<1>2. \A u \in Client : ThreadOK(u)' /\ \A l : Between(u, l)' <=> Between(u, l)
  BY <1>1, Others_OK
<1>3. ASSUME NEW l \in Lock PROVE LockOK(l)'
  <2>1. LockOK(l) /\ Left(l)
    BY <1>2 DEF MutexInv, Left
  <2> QED
    BY <2>1, Lock_Left
<1> QED
  BY <1>2, <1>3 DEF MutexInv

-----------------------------------------------------------------------------
(* Steps that no lock notices *)

LEMMA Goto ==
  ASSUME MutexInv, NEW t \in Client, NEW p \in Label, goto(t, p)
  PROVE  pc' \in [Thread -> Label] /\ pc'[t] = p /\ \A u \in Client \ {t} : pc'[u] = pc[u]
  BY Kinds DEF goto, MutexInv, MutexType

LEMMA Enter_Down ==
  ASSUME MutexInv, NEW t \in Client, pc[t] \notin {"own", "up"}, NEW s \in Sema,
         NEW r \in {"run", "own", "cw_acquire"}, s \in Lock <=> r = "own", r \in CondLabel => cnd[t] \in Cond,
         enter_down(t, s, r), UNCHANGED <<cwaiters, cnd>>
  PROVE  MutexInv'
<1>1. MutexType
  BY DEF MutexInv
<1>2. "down" \in Label
  BY DEF Label
<1>3. pc' \in [Thread -> Label] /\ pc'[t] = "down" /\ \A u \in Client \ {t} : pc'[u] = pc[u]
  BY <1>2, Goto DEF enter_down
<1>4. /\ sem' = [sem EXCEPT ![t] = s] /\ ret' = [ret EXCEPT ![t] = r] /\ UNCHANGED <<value, waiters, holder>>
  BY DEF enter_down
<1>5. sem'[t] = s /\ ret'[t] = r /\ \A u \in Client \ {t} : sem'[u] = sem[u] /\ ret'[u] = ret[u]
  BY <1>1, <1>4, Kinds DEF MutexType
<1>6. MutexType'
  BY <1>1, <1>3, <1>4, Kinds DEF MutexType
<1>7. Others(t)
  BY <1>3, <1>5 DEF Others
<1>8. ThreadOK(t)'
  BY <1>3, <1>5 DEF ThreadOK, CondLabel
<1>9. \A l \in Lock : ~Between(t, l) /\ ~Between(t, l)'
  BY <1>3 DEF Between
<1> QED
  BY <1>4, <1>6, <1>7, <1>8, <1>9, Step_Off

\* cond_signal() is about to up a waiter's semaphore, which is no lock's.
LEMMA Signal ==
  ASSUME MutexInv, NEW t \in Client, pc[t] \notin {"own", "up"}, NEW c \in Cond,
         NEW r \in {"run", "broadcast"}, r = "broadcast" => cnd[t] \in Cond,
         signal(t, c, r), UNCHANGED cnd
  PROVE  MutexInv'
<1> DEFINE w == Head(cwaiters[c])
<1>1. MutexType
  BY DEF MutexInv
<1>2. "up" \in Label
  BY DEF Label
<1>3. /\ cwaiters[c] # <<>> /\ cwaiters' = [cwaiters EXCEPT ![c] = Tail(@)] /\ UNCHANGED <<value, holder>>
      /\ sem' = [sem EXCEPT ![t] = w] /\ ret' = [ret EXCEPT ![t] = r]
  BY DEF signal, enter_up, unsignalled
<1>4. pc' \in [Thread -> Label] /\ pc'[t] = "up" /\ \A u \in Client \ {t} : pc'[u] = pc[u]
  BY <1>2, Goto DEF signal, enter_up
<1>5. cwaiters[c] \in Seq(Client)
  BY <1>1 DEF MutexType
<1>6. w \in Client /\ Tail(cwaiters[c]) \in Seq(Client)
  BY <1>3, <1>5, Tail_On
<1>7. w \in Sema /\ w \notin Lock
  BY <1>6, Kinds
<1> HIDE DEF w
<1>8. sem'[t] = w /\ ret'[t] = r /\ \A u \in Client \ {t} : sem'[u] = sem[u] /\ ret'[u] = ret[u]
  BY <1>1, <1>3, Kinds DEF MutexType
<1>9. MutexType'
  BY <1>1, <1>3, <1>4, <1>6, <1>7, Kinds DEF MutexType
<1>10. Others(t)
  BY <1>4, <1>8 DEF Others
<1>11. ThreadOK(t)'
  BY <1>4, <1>7, <1>8 DEF ThreadOK, CondLabel
<1>12. \A l \in Lock : ~Between(t, l) /\ ~Between(t, l)'
  BY <1>4, <1>7, <1>8 DEF Between
<1> QED
  BY <1>3, <1>9, <1>10, <1>11, <1>12, Step_Off

\* A semaphore that is no lock's changes its value, and t may go on.
LEMMA Counted ==
  ASSUME MutexInv, NEW t \in Client, NEW s \in Sema \ Lock, NEW n \in Nat, value' = [value EXCEPT ![s] = n],
         \A l \in Lock : ~Between(t, l), NEW p \in Label, goto(t, p), p \notin {"own", "up", "down"},
         p \in CondLabel => cnd'[t] \in Cond, cnd' \in [Thread -> Cond \cup {None}],
         \A u \in Client \ {t} : cnd'[u] = cnd[u], cwaiters' \in [Cond -> Seq(Client)], UNCHANGED <<holder, sem, ret>>
  PROVE  MutexInv'
<1>1. MutexType
  BY DEF MutexInv
<1>2. pc' \in [Thread -> Label] /\ pc'[t] = p /\ \A u \in Client \ {t} : pc'[u] = pc[u]
  BY Goto
<1>3. value' \in [Sema -> Nat] /\ \A l \in Lock : value'[l] = value[l]
  BY <1>1, Kinds DEF MutexType
<1>4. MutexType'
  BY <1>1, <1>2, <1>3 DEF MutexType
<1>5. Others(t)
  BY <1>2 DEF Others
<1>6. ThreadOK(t)'
  BY <1>2 DEF ThreadOK
<1>7. \A l \in Lock : ~Between(t, l)'
  BY <1>2 DEF Between
<1> QED
  BY <1>3, <1>4, <1>5, <1>6, <1>7, Step_Off

\* t stays where it is, or only the idle thread moves.
LEMMA Still ==
  ASSUME MutexInv, pc' \in [Thread -> Label], \A u \in Client : pc'[u] = pc[u],
         value' \in [Sema -> Nat], \A l \in Lock : value'[l] = value[l], UNCHANGED <<holder, sem, ret, cwaiters, cnd>>
  PROVE  MutexInv'
<1>1. Others(Idle)
  BY DEF Others
<1>2. MutexType'
  BY DEF MutexInv, MutexType
<1> QED
  BY <1>1, <1>2, Step_None

-----------------------------------------------------------------------------
(* The life of a lock *)

\* Its semaphore is downed: free to changing hands.
LEMMA Downed ==
  ASSUME MutexInv, NEW t \in Client, NEW l \in Lock, value[l] > 0, value' = [value EXCEPT ![l] = @ - 1],
         goto(t, "own"), sem' \in [Thread -> Sema \cup {None}], sem'[t] = l, pc[t] \notin {"own", "up"},
         \A u \in Client \ {t} : sem'[u] = sem[u], UNCHANGED <<holder, ret, cwaiters, cnd>>
  PROVE  MutexInv'
<1>1. MutexType /\ LockOK(l)
  BY DEF MutexInv
<1>2. l \in Sema /\ value[l] \in Nat
  BY <1>1, Kinds DEF MutexType
<1>3. value[l] = 1 /\ holder[l] = None /\ \A u \in Client : ~Between(u, l)
  BY <1>1, SMTT(60) DEF LockOK
<1>4. pc' \in [Thread -> Label] /\ pc'[t] = "own" /\ \A u \in Client \ {t} : pc'[u] = pc[u]
  BY Goto DEF Label
<1>5. value' = [value EXCEPT ![l] = 0]
  BY <1>3, SMTT(60)
<1>6. value'[l] = 0 /\ value' \in [Sema -> Nat] /\ \A k \in Lock \ {l} : value'[k] = value[k]
  BY <1>1, <1>2, <1>5, Kinds, SMTT(60) DEF MutexType
<1>7. MutexType'
  BY <1>1, <1>4, <1>6 DEF MutexType
<1>8. Others(t)
  BY <1>4 DEF Others
<1>9. ThreadOK(t)'
  BY <1>4 DEF ThreadOK, CondLabel
<1>10. Between(t, l)' /\ \A u \in Client \ {t} : ~Between(u, l)'
  <2>1. \A u \in Client \ {t} : Between(u, l)' <=> Between(u, l)
    BY <1>8, Others_OK
  <2> QED
    BY <1>3, <1>4, <2>1 DEF Between
<1>11. LockOK(l)'
  BY <1>3, <1>6, <1>10 DEF LockOK
<1>12. \A k \in Lock \ {l} : Between(t, k)' <=> Between(t, k)
  BY <1>4 DEF Between
<1> QED
  BY <1>6, <1>7, <1>8, <1>9, <1>11, <1>12, Step_On

\* lock->holder is set: changing hands to held.
LEMMA Set_Holder ==
  ASSUME MutexInv, NEW t \in Client, set_holder(t, "run"), UNCHANGED <<cwaiters, cnd>>
  PROVE  MutexInv'
<1>1. PICK l \in Lock : l = sem[t]
  BY DEF set_holder, At, MutexInv, ThreadOK
<1>2. /\ pc[t] = "own" /\ goto(t, "run") /\ holder' = [holder EXCEPT ![l] = t]
      /\ UNCHANGED <<value, sem, ret>>
  BY <1>1 DEF set_holder, At
<1>3. MutexType
  BY DEF MutexInv
<1>4. LockOK(l) /\ Between(t, l)
  BY <1>2, <1>1 DEF MutexInv, Between
<1>5. value[l] = 0 /\ \A u \in Client : Between(u, l) => u = t
  BY <1>4 DEF LockOK
<1>6. pc' \in [Thread -> Label] /\ pc'[t] = "run" /\ \A u \in Client \ {t} : pc'[u] = pc[u]
  BY <1>2, Goto DEF Label
<1>7. MutexType' /\ holder'[l] = t /\ \A k \in Lock \ {l} : holder'[k] = holder[k]
  BY <1>2, <1>3, <1>6 DEF MutexType
<1>8. Others(t)
  BY <1>2, <1>6 DEF Others
<1>9. ThreadOK(t)' /\ \A k : ~Between(t, k)'
  BY <1>6 DEF ThreadOK, CondLabel, Between
<1>10. \A u \in Client : ~Between(u, l)'
  <2>1. \A u \in Client \ {t} : Between(u, l)' <=> Between(u, l)
    BY <1>8, Others_OK
  <2> QED
    BY <1>5, <1>9, <2>1
<1>11. LockOK(l)'
  BY <1>2, <1>5, <1>7, <1>10 DEF LockOK
<1>12. \A k \in Lock \ {l} : Between(t, k)' <=> Between(t, k)
  BY <1>9, <1>1 DEF Between
<1> QED
  BY <1>2, <1>7, <1>8, <1>9, <1>11, <1>12, Step_On

\* lock->holder is cleared: held to changing hands.
LEMMA Release ==
  ASSUME MutexInv, NEW t \in Client, NEW l \in Lock, NEW r \in {"run", "cw_down"},
         r = "cw_down" => cnd[t] \in Cond, pc[t] \notin {"own", "up"}, release(t, l, r), UNCHANGED <<cwaiters, cnd>>
  PROVE  MutexInv'
<1>1. /\ holder[l] = t /\ holder' = [holder EXCEPT ![l] = None] /\ goto(t, "up")
      /\ sem' = [sem EXCEPT ![t] = l] /\ ret' = [ret EXCEPT ![t] = r] /\ UNCHANGED value
  BY DEF release, held, enter_up
<1>2. MutexType /\ LockOK(l) /\ l \in Sema
  BY Kinds DEF MutexInv
<1>3. value[l] = 0 /\ \A u \in Client : ~Between(u, l)
  BY <1>1, <1>2, Kinds DEF LockOK
<1>4. pc' \in [Thread -> Label] /\ pc'[t] = "up" /\ \A u \in Client \ {t} : pc'[u] = pc[u]
  BY <1>1, Goto DEF Label
<1>5. sem'[t] = l /\ ret'[t] = r /\ \A u \in Client \ {t} : sem'[u] = sem[u] /\ ret'[u] = ret[u]
  BY <1>1, <1>2, Kinds DEF MutexType
<1>6. MutexType' /\ holder'[l] = None /\ \A k \in Lock \ {l} : holder'[k] = holder[k]
  BY <1>1, <1>2, <1>4, Kinds DEF MutexType
<1>7. Others(t)
  BY <1>4, <1>5 DEF Others
<1>8. ThreadOK(t)'
  BY <1>2, <1>4, <1>5 DEF ThreadOK, CondLabel
<1>9. Between(t, l)' /\ \A u \in Client \ {t} : ~Between(u, l)'
  <2>1. \A u \in Client \ {t} : Between(u, l)' <=> Between(u, l)
    BY <1>7, Others_OK
  <2> QED
    BY <1>3, <1>4, <1>5, <2>1 DEF Between
<1>10. LockOK(l)'
  BY <1>1, <1>3, <1>6, <1>9 DEF LockOK
<1>11. \A k \in Lock \ {l} : Between(t, k)' <=> Between(t, k)
  BY <1>4, <1>5 DEF Between
<1> QED
  BY <1>1, <1>6, <1>7, <1>8, <1>10, <1>11, Step_On

\* sema_up(): of a lock's semaphore, changing hands to free.
LEMMA Sema_Up ==
  ASSUME MutexInv, NEW t \in Client, sema_up(t), UNCHANGED <<cwaiters, cnd>>
  PROVE  MutexInv'
<1>1. PICK s \in Sema : s = sem[t]
  BY DEF sema_up, At, MutexInv, ThreadOK
<1>2. /\ pc[t] = "up" /\ value' = [value EXCEPT ![s] = @ + 1] /\ goto(t, ret[t])
      /\ UNCHANGED <<holder, sem, ret>>
  BY <1>1 DEF sema_up, At, up
<1>3. MutexType /\ ret[t] # "own" /\ (ret[t] \in CondLabel => cnd[t] \in Cond)
  BY <1>2 DEF MutexInv, ThreadOK
<1>4. ret[t] \in {"run", "cw_down", "cw_acquire", "broadcast"} /\ value[s] \in Nat
  BY <1>3, Kinds DEF MutexType
<1>5. ret[t] \in Label /\ ret[t] \notin {"own", "up", "down"}
  BY <1>4 DEF Label
<1>6. CASE s \notin Lock
  <2>1. \A l \in Lock : ~Between(t, l)
    BY <1>6, <1>1 DEF Between
  <2>2. cnd' \in [Thread -> Cond \cup {None}] /\ cwaiters' \in [Cond -> Seq(Client)]
    BY <1>3 DEF MutexType
  <2>3. value[s] + 1 \in Nat
    BY <1>4
  <2> QED
    BY <1>2, <1>3, <1>5, <1>6, <2>1, <2>2, <2>3, Counted
<1>7. CASE s \in Lock
  <2>1. LockOK(s) /\ Between(t, s)
    BY <1>2, <1>7, <1>1 DEF MutexInv, Between
  <2>2. value[s] = 0 /\ holder[s] = None /\ \A u \in Client : Between(u, s) => u = t
    BY <2>1 DEF LockOK
  <2>3. pc' \in [Thread -> Label] /\ pc'[t] = ret[t] /\ \A u \in Client \ {t} : pc'[u] = pc[u]
    BY <1>2, <1>5, Goto
  <2>4. value' = [value EXCEPT ![s] = 1]
    BY <1>2, <2>2
  <2>5. value'[s] = 1 /\ value' \in [Sema -> Nat] /\ \A k \in Lock \ {s} : value'[k] = value[k]
    BY <1>3, <2>4, Kinds DEF MutexType
  <2>6. MutexType'
    BY <1>2, <1>3, <2>3, <2>5 DEF MutexType
  <2>7. Others(t)
    BY <1>2, <2>3 DEF Others
  <2>8. ThreadOK(t)' /\ \A k : ~Between(t, k)'
    BY <1>2, <1>3, <1>5, <2>3 DEF ThreadOK, Between
  <2>9. \A u \in Client : ~Between(u, s)'
    <3>1. \A u \in Client \ {t} : Between(u, s)' <=> Between(u, s)
      BY <2>7, Others_OK
    <3> QED
      BY <2>2, <2>8, <3>1
  <2>10. LockOK(s)'
    BY <1>2, <2>2, <2>5, <2>9 DEF LockOK
  <2>11. \A k \in Lock \ {s} : Between(t, k)' <=> Between(t, k)
    BY <2>8, <1>1 DEF Between
  <2> QED
    BY <1>2, <2>5, <2>6, <2>7, <2>8, <2>10, <2>11, Step_On
<1> QED
  BY <1>6, <1>7

LEMMA Sema_Down ==
  ASSUME MutexInv, NEW t \in Client, sema_down(t), UNCHANGED <<cwaiters, cnd>>
  PROVE  MutexInv'
<1>1. PICK s \in Sema : s = sem[t]
  BY DEF sema_down, MutexInv, ThreadOK
<1>2. pc[t] = "down" /\ UNCHANGED <<holder, sem, ret>>
  BY DEF sema_down
<1>3. /\ MutexType /\ (s \in Lock <=> ret[t] = "own")
      /\ (ret[t] \in CondLabel => cnd[t] \in Cond)
  BY <1>2, <1>1 DEF MutexInv, ThreadOK
<1>4. value[s] \in Nat /\ ret[t] \in {"run", "own", "cw_down", "cw_acquire", "broadcast"}
  BY <1>3, Kinds DEF MutexType
<1>5. CASE UNCHANGED <<value, pc>>
  BY <1>2, <1>3, <1>5, Still DEF MutexType
<1>6. CASE value[s] > 0 /\ value' = [value EXCEPT ![s] = @ - 1] /\ goto(t, ret[t])
  <2>1. CASE s \in Lock
    BY <1>2, <1>3, <1>6, <1>1, <2>1, Downed DEF MutexType
  <2>2. CASE s \notin Lock
    <3>1. value[s] - 1 \in Nat
      BY <1>4, <1>6
    <3>2. ret[t] \in Label /\ ret[t] \notin {"own", "up", "down"}
      BY <1>3, <1>4, <2>2 DEF Label
    <3>3. \A l \in Lock : ~Between(t, l)
      BY <1>2 DEF Between
    <3>4. cnd' \in [Thread -> Cond \cup {None}] /\ cwaiters' \in [Cond -> Seq(Client)]
      BY <1>3 DEF MutexType
    <3> QED
      BY <1>2, <1>3, <1>6, <2>2, <3>1, <3>2, <3>3, <3>4, Counted
  <2> QED
    BY <2>1, <2>2
<1> QED
  BY <1>5, <1>6, <1>1 DEF sema_down

-----------------------------------------------------------------------------
(* All steps *)

LEMMA Inner_OK ==
  ASSUME MutexInv, NEW t \in Client, Inner(t)
  PROVE  MutexInv'
<1>1. \A c \in Cond : LockOf[c] \in Lock /\ LockOf[c] \in Sema
  BY SynchAssumption, SemaAssumption
<1>2. ASSUME pc[t] \in CondLabel PROVE cnd[t] \in Cond
  BY <1>2 DEF MutexInv, ThreadOK
<1>3. t \in Sema /\ t \notin Lock
  BY Kinds
<1>4. CASE (sema_down(t) \/ sema_up(t) \/ set_holder(t, "run")) /\ UNCHANGED <<cwaiters, cnd, calls>>
  BY <1>4, Sema_Down, Sema_Up, Set_Holder
<1>5. CASE cond_wait_release(t)
  <2>1. pc[t] = "cw_release" /\ release(t, LockOf[cnd[t]], "cw_down") /\ UNCHANGED <<cwaiters, cnd>>
    BY <1>5 DEF cond_wait_release, At
  <2>2. cnd[t] \in Cond
    BY <1>2, <2>1 DEF CondLabel
  <2>3. PICK l \in Lock : l = LockOf[cnd[t]]
    BY <1>1, <2>2
  <2>4. release(t, l, "cw_down")
    BY <2>1, <2>3
  <2> QED
    BY <2>1, <2>2, <2>4, Release
<1>6. CASE cond_wait_down(t)
  <2>1. pc[t] = "cw_down" /\ enter_down(t, t, "cw_acquire") /\ UNCHANGED <<cwaiters, cnd>>
    BY <1>6 DEF cond_wait_down, At
  <2>2. cnd[t] \in Cond
    BY <1>2, <2>1 DEF CondLabel
  <2> QED
    BY <1>3, <2>1, <2>2, Enter_Down
<1>7. CASE cond_wait_acquire(t)
  <2>1. pc[t] = "cw_acquire" /\ enter_down(t, LockOf[cnd[t]], "own") /\ UNCHANGED <<cwaiters, cnd>>
    BY <1>7 DEF cond_wait_acquire, At
  <2>2. cnd[t] \in Cond
    BY <1>2, <2>1 DEF CondLabel
  <2>3. PICK l \in Lock : l = LockOf[cnd[t]] /\ l \in Sema
    BY <1>1, <2>2
  <2>4. enter_down(t, l, "own")
    BY <2>1, <2>3
  <2> QED
    BY <2>1, <2>2, <2>3, <2>4, Enter_Down
<1>8. CASE broadcast_loop(t)
  <2>1. pc[t] = "broadcast" /\ UNCHANGED cnd
    BY <1>8 DEF broadcast_loop, At
  <2>2. PICK c \in Cond : c = cnd[t]
    BY <1>2, <2>1 DEF CondLabel
  <2>3. CASE signal(t, cnd[t], "broadcast")
    BY <2>1, <2>2, <2>3, Signal
  <2>4. CASE goto(t, "run") /\ UNCHANGED <<value, holder, sem, ret, cwaiters>>
    <3>1. /\ pc' \in [Thread -> Label] /\ pc'[t] = "run" /\ \A u \in Client \ {t} : pc'[u] = pc[u]
      BY <2>4, Goto DEF Label
    <3>2. MutexType' /\ Others(t)
      BY <2>1, <2>4, <3>1 DEF MutexInv, MutexType, Others
    <3>3. ThreadOK(t)' /\ \A l \in Lock : ~Between(t, l) /\ ~Between(t, l)'
      BY <2>1, <3>1 DEF ThreadOK, CondLabel, Between
    <3> QED
      BY <2>4, <3>2, <3>3, Step_Off
  <2> QED
    BY <1>8, <2>3, <2>4 DEF broadcast_loop
<1> QED
  BY <1>4, <1>5, <1>6, <1>7, <1>8 DEF Inner

LEMMA Cond_Call ==
  ASSUME MutexInv, NEW t \in Client, NEW c \in Cond, cond_wait(t, c) \/ cond_signal(t, c) \/ cond_broadcast(t, c)
  PROVE  MutexInv'
<1>1. MutexType /\ t \in Sema \ Lock /\ t \in Thread
  BY Kinds DEF MutexInv
<1>2. pc[t] = "run"
  BY DEF cond_wait, cond_signal, cond_broadcast, Call, At
<1>3. \A l \in Lock : ~Between(t, l)
  BY <1>2 DEF Between
<1>4. CASE cond_wait(t, c)
  <2>1. /\ value' = [value EXCEPT ![t] = 0] /\ cwaiters' = [cwaiters EXCEPT ![c] = Append(@, t)]
        /\ cnd' = [cnd EXCEPT ![t] = c] /\ goto(t, "cw_release") /\ UNCHANGED <<holder, sem, ret>>
    BY <1>4 DEF cond_wait
  <2>2. /\ cnd' \in [Thread -> Cond \cup {None}] /\ cnd'[t] = c
        /\ \A u \in Client \ {t} : cnd'[u] = cnd[u]
    BY <1>1, <2>1, Kinds DEF MutexType
  <2>3. cwaiters' \in [Cond -> Seq(Client)]
    BY <1>1, <2>1, SMTT(60) DEF MutexType
  <2>4. "cw_release" \in Label
    BY DEF Label
  <2> QED
    BY <1>1, <1>3, <2>1, <2>2, <2>3, <2>4, Counted
<1>5. CASE cond_signal(t, c)
  BY <1>2, <1>5, Signal DEF cond_signal
<1>6. CASE cond_broadcast(t, c)
  <2>1. cnd' = [cnd EXCEPT ![t] = c] /\ goto(t, "broadcast") /\ UNCHANGED <<value, holder, sem, ret, cwaiters>>
    BY <1>6 DEF cond_broadcast
  <2>2. /\ cnd' \in [Thread -> Cond \cup {None}] /\ cnd'[t] = c
        /\ \A u \in Client \ {t} : cnd'[u] = cnd[u]
    BY <1>1, <2>1, Kinds DEF MutexType
  <2>3. /\ pc' \in [Thread -> Label] /\ pc'[t] = "broadcast" /\ \A u \in Client \ {t} : pc'[u] = pc[u]
    BY <2>1, Goto DEF Label
  <2>4. MutexType' /\ Others(t)
    BY <1>1, <2>1, <2>2, <2>3 DEF MutexType, Others
  <2>5. ThreadOK(t)' /\ \A l \in Lock : ~Between(t, l)'
    BY <2>2, <2>3 DEF ThreadOK, CondLabel, Between
  <2> QED
    BY <1>3, <2>1, <2>4, <2>5, Step_Off
<1> QED
  BY <1>4, <1>5, <1>6

LEMMA Sema_Call ==
  ASSUME MutexInv, NEW t \in Client, NEW s \in Semaphore,
         call_sema_down(t, s) \/ call_sema_try_down(t, s) \/ call_sema_up(t, s)
  PROVE  MutexInv'
<1>1. MutexType /\ s \in Sema /\ s \notin Lock
  BY Kinds DEF MutexInv
<1>2. value[s] \in Nat
  BY <1>1 DEF MutexType
<1>3. CASE call_sema_down(t, s)
  <2>1. pc[t] = "run" /\ enter_down(t, s, "run") /\ UNCHANGED <<cwaiters, cnd>>
    BY <1>3 DEF call_sema_down, Call, At
  <2>2. "run" \notin CondLabel
    BY DEF CondLabel
  <2> QED
    BY <1>1, <2>1, <2>2, Enter_Down
<1>4. CASE call_sema_try_down(t, s) \/ call_sema_up(t, s)
  <2>1. UNCHANGED <<holder, pc, sem, ret, cwaiters, cnd>>
    BY <1>4 DEF call_sema_try_down, call_sema_up
  <2>2. PICK n \in Nat : value' = [value EXCEPT ![s] = n]
    <3>1. CASE call_sema_try_down(t, s)
      <4>1. value[s] > 0 /\ value' = [value EXCEPT ![s] = value[s] - 1]
        BY <3>1 DEF call_sema_try_down, try_down, can_try
      <4>2. value[s] - 1 \in Nat
        BY <1>2, <4>1
      <4> QED
        BY <4>1, <4>2
    <3>2. CASE call_sema_up(t, s)
      <4>1. value' = [value EXCEPT ![s] = value[s] + 1]
        BY <3>2 DEF call_sema_up, up
      <4>2. value[s] + 1 \in Nat
        BY <1>2
      <4> QED
        BY <4>1, <4>2
    <3> QED
      BY <1>4, <3>1, <3>2
  <2>3. value' \in [Sema -> Nat] /\ \A l \in Lock : value'[l] = value[l]
    BY <1>1, <2>2, Kinds DEF MutexType
  <2>4. pc' \in [Thread -> Label] /\ \A u \in Client : pc'[u] = pc[u]
    BY <1>1, <2>1 DEF MutexType
  <2> QED
    BY <2>1, <2>3, <2>4, Still
<1> QED
  BY <1>3, <1>4

LEMMA Lock_Call ==
  ASSUME MutexInv, NEW t \in Client, NEW l \in Lock,
         lock_acquire(t, l) \/ lock_try_acquire(t, l) \/ lock_release(t, l)
  PROVE  MutexInv'
<1>1. pc[t] = "run" /\ l \in Sema /\ MutexType
  BY Kinds DEF lock_acquire, lock_try_acquire, lock_release, Call, At, MutexInv
<1>2. CASE lock_acquire(t, l)
  <2>1. "own" \notin CondLabel
    BY DEF CondLabel
  <2> QED
    BY <1>1, <1>2, <2>1, Enter_Down DEF lock_acquire
<1>3. CASE lock_try_acquire(t, l)
  <2>1. /\ value[l] > 0 /\ value' = [value EXCEPT ![l] = @ - 1] /\ goto(t, "own")
        /\ sem' = [sem EXCEPT ![t] = l] /\ UNCHANGED <<holder, ret, cwaiters, cnd>>
    BY <1>3 DEF lock_try_acquire, try_down, can_try
  <2>2. /\ sem' \in [Thread -> Sema \cup {None}] /\ sem'[t] = l
        /\ \A u \in Client \ {t} : sem'[u] = sem[u]
    BY <1>1, <2>1, Kinds DEF MutexType
  <2> QED
    BY <1>1, <2>1, <2>2, Downed
<1>4. CASE lock_release(t, l)
  BY <1>1, <1>4, Release DEF lock_release
<1> QED
  BY <1>2, <1>3, <1>4

\* The idle thread, the timer and the handlers of external interrupts.
LEMMA No_Client ==
  ASSUME MutexInv, (\E t \in Thread : Resumes(t)) \/ Idles \/ Ticks \/ (\E s \in Semaphore : handler_sema_up(s))
                   \/ UNCHANGED vars
  PROVE  MutexInv'
<1>1. MutexType
  BY DEF MutexInv
<1>2. /\ pc \in [Thread -> Label] /\ value \in [Sema -> Nat]
      /\ \A p : goto(Idle, p) /\ p \in Label => pc' \in [Thread -> Label] /\ \A u \in Client : pc'[u] = pc[u]
  BY <1>1, Kinds DEF MutexType, goto
<1>3. pc' = pc \/ (\E p \in Label : goto(Idle, p)) => pc' \in [Thread -> Label] /\ \A u \in Client : pc'[u] = pc[u]
  BY <1>2
<1>4. wake_hlt => pc' = pc \/ \E p \in Label : goto(Idle, p)
  BY DEF wake_hlt, goto, Label
<1>5. ASSUME UNCHANGED <<value, holder, sem, ret, cwaiters, cnd>>, pc' = pc \/ \E p \in Label : goto(Idle, p)
      PROVE  MutexInv'
  <2>1. value' \in [Sema -> Nat] /\ \A l \in Lock : value'[l] = value[l]
    BY <1>2, <1>5
  <2> QED
    BY <1>3, <1>5, <2>1, Still
<1>6. CASE (\E t \in Thread : Resumes(t)) \/ UNCHANGED vars
  <2>1. UNCHANGED <<value, holder, pc, sem, ret, cwaiters, cnd>>
    BY <1>6 DEF Resumes, resume, mvars, vars, svars
  <2> QED
    BY <1>5, <2>1
<1>7. CASE Idles
  <2>1. UNCHANGED <<value, holder, sem, ret, cwaiters, cnd>>
    BY <1>7 DEF Idles, idle_loop
  <2>2. \E p \in Label : goto(Idle, p)
    BY <1>7 DEF Idles, idle_loop, Label
  <2> QED
    BY <1>5, <2>1, <2>2
<1>8. CASE Ticks
  <2>1. UNCHANGED <<value, holder, sem, ret, cwaiters, cnd>> /\ wake_hlt
    BY <1>8 DEF Ticks, tick
  <2> QED
    BY <1>4, <1>5, <2>1
<1>9. ASSUME NEW s \in Semaphore, handler_sema_up(s) PROVE MutexInv'
  <2>1. /\ value' = [value EXCEPT ![s] = value[s] + 1] /\ wake_hlt
        /\ UNCHANGED <<holder, sem, ret, cwaiters, cnd>>
    BY <1>9 DEF handler_sema_up, up
  <2>2. s \in Sema /\ s \notin Lock
    BY Kinds
  <2>3. value[s] + 1 \in Nat
    BY <1>2, <2>2, SMTT(60)
  <2>4. value' \in [Sema -> Nat] /\ \A l \in Lock : value'[l] = value[l]
    BY <1>2, <2>1, <2>2, <2>3, Kinds
  <2> QED
    BY <1>3, <1>4, <2>1, <2>4, Still
<1> QED
  BY <1>6, <1>7, <1>8, <1>9

LEMMA Mutex_Init == SynchInit => MutexInv
<1> SUFFICES ASSUME SynchInit PROVE MutexInv
  OBVIOUS
<1>1. MutexType
  <2>1. value \in [Sema -> Nat]
    BY SynchAssumption DEF SynchInit
  <2>2. cwaiters \in [Cond -> Seq(Client)]
    BY SMTT(60) DEF SynchInit
  <2> QED
    BY <2>1, <2>2 DEF SynchInit, MutexType, Label
<1>2. \A t \in Client : pc[t] = "run"
  BY Kinds DEF SynchInit
<1>3. \A t \in Client : ThreadOK(t) /\ \A l : ~Between(t, l)
  BY <1>2 DEF ThreadOK, CondLabel, Between
<1>4. \A l \in Lock : value[l] = 1 /\ holder[l] = None
  BY Kinds DEF SynchInit
<1> QED
  BY <1>1, <1>3, <1>4 DEF MutexInv, LockOK

LEMMA Mutex_Next == MutexInv /\ [SynchNext]_vars => MutexInv'
  BY Inner_OK, Cond_Call, Sema_Call, Lock_Call, No_Client DEF SynchNext, ClientCall

LEMMA Mutex_Excludes == MutexInv => MutualExclusion
<1> SUFFICES ASSUME MutexInv, NEW l \in Lock
             PROVE  \/ value[l] = 1 /\ \A t \in Client : ~Inside(t, l)
                    \/ /\ value[l] = 0
                       /\ \E t \in Client : Inside(t, l) /\ \A u \in Client : Inside(u, l) => u = t
  BY DEF MutualExclusion
<1>1. LockOK(l) /\ None \notin Client
  BY Kinds DEF MutexInv
<1>2. \A t \in Client : Inside(t, l) <=> holder[l] = t \/ Between(t, l)
  BY DEF Inside, Between
<1> QED
  BY <1>1, <1>2 DEF LockOK

\* Whatever threads and interrupt handlers do with locks, semaphores and
\* condition variables, and however many there are: at most one thread is
\* between the sema_down() of lock_acquire() and the sema_up() of
\* lock_release(), and the semaphore in the lock is 1 exactly if none is.
THEOREM Spec_MutualExclusion == SynchSpec => []MutualExclusion
<1>1. SynchInit => MutexInv
  BY Mutex_Init
<1>2. MutexInv /\ [SynchNext]_vars => MutexInv'
  BY Mutex_Next
<1>3. MutexInv => MutualExclusion
  BY Mutex_Excludes
<1> QED
  BY <1>1, <1>2, <1>3, PTL DEF SynchSpec

-----------------------------------------------------------------------------
(* Sleeping and waking: the invariant *)

Blocked(t) == status[t] = "BLOCKED"

\* What a thread in sema_down() or sema_up() has in hand, and where it goes on: only
\* cond_wait() downs the semaphore of a thread, and only its own.
PlaceOK(t) ==
  /\ pc[t] = "down" => \/ sem[t] \in Semaphore /\ ret[t] = "run"
                       \/ sem[t] \in Lock /\ ret[t] = "own"
                       \/ sem[t] = t /\ ret[t] = "cw_acquire"
  /\ pc[t] = "up" => \/ sem[t] \in Lock /\ ret[t] \in {"run", "cw_down"}
                     \/ sem[t] \in Client /\ ret[t] \in {"run", "broadcast"}

Places == \A t \in Client : PlaceOK(t)

ListType == waiters \in [Sema -> Seq(Client)] /\ calls \in [Thread -> 0 .. MaxCalls] /\ idle_thread = Idle

\* WaitersOK without the types.
Sleepers ==
  /\ \A s \in Sema : Distinct(waiters[s])
  /\ \A t \in Client :
       /\ Blocked(t) => pc[t] = "down"
       /\ \A s \in Sema : On(t, waiters[s]) <=> (Blocked(t) /\ sem[t] = s)

\* u is about to up the semaphore of t's cond_wait().
Ups(u, t) == pc[u] = "up" /\ sem[u] = t

Listed(t) == \E c \in Cond : On(t, cwaiters[c])

\* A thread is not in cond_wait(), or not signalled, or about to be, or signalled.
SignalOK(t) ==
  \/ /\ ~Waiting(t) /\ ~Listed(t) /\ value[t] = 0 /\ \A u \in Client : ~Ups(u, t)
  \/ /\ Waiting(t) /\ Listed(t) /\ value[t] = 0 /\ \A u \in Client : ~Ups(u, t)
  \/ /\ Waiting(t) /\ ~Listed(t) /\ value[t] = 0
     /\ \E u \in Client : Ups(u, t) /\ \A v \in Client : Ups(v, t) => v = u
  \/ /\ Waiting(t) /\ ~Listed(t) /\ value[t] = 1 /\ \A u \in Client : ~Ups(u, t)

Signals ==
  /\ \A c \in Cond : Distinct(cwaiters[c])
  /\ \A t \in Client : SignalOK(t) /\ \A c \in Cond : On(t, cwaiters[c]) => cnd[t] = c

\* Nobody sleeps who should not, and nobody is forgotten.
Order == Places /\ Sleepers /\ NoLostWakeup /\ Signals

\* The finite sets of threads, counted.  It is so from the start and for good
\* (Clients_Countable), and is part of the invariant for the steps to use.
Countable ==
  \A S \in SUBSET Client :
    /\ Cardinality(S) \in Nat
    /\ \A R \in SUBSET S : Cardinality(R) <= Cardinality(S)
    /\ \A t \in Client \ S : Cardinality(S \cup {t}) = Cardinality(S) + 1

WaitInv == Countable /\ MutexInv /\ IInv /\ ListType /\ Order

\* What the steps use of the invariant.
LEMMA Wait_Types ==
  ASSUME WaitInv
  PROVE  /\ MutexType /\ TypeOK /\ OneRunning /\ ReadyListOK /\ idle_thread = Idle
         /\ waiters \in [Sema -> Seq(Client)] /\ Order
         /\ \A t \in Client : ThreadOK(t) /\ PlaceOK(t) /\ SignalOK(t)
         /\ \A t \in Client : cur = t => ~Blocked(t)
<1>1. MutexInv /\ IInv /\ ListType /\ Order
  BY DEF WaitInv
<1>2. \A t \in Client : cur = t => ~Blocked(t)
  BY <1>1, Kinds DEF IInv, OneRunning, Blocked
<1>3. \A t \in Client : ThreadOK(t) /\ PlaceOK(t) /\ SignalOK(t)
  BY <1>1 DEF MutexInv, Order, Places, Signals
<1> QED
  BY <1>1, <1>2, <1>3 DEF MutexInv, IInv, ListType

-----------------------------------------------------------------------------
(* What a step leaves alone *)

\* Only t moves inside synch.c.
LEMMA Place_Keep ==
  ASSUME Places, NEW t, Others(t), t \in Client => PlaceOK(t)'
  PROVE  Places'
<1> SUFFICES ASSUME NEW u \in Client PROVE PlaceOK(u)'
  BY DEF Places
<1>1. CASE u = t
  BY <1>1
<1>2. CASE u # t
  <2>1. pc'[u] = pc[u] /\ sem'[u] = sem[u] /\ ret'[u] = ret[u]
    BY <1>2 DEF Others
  <2>2. PlaceOK(u)
    BY DEF Places
  <2> QED
    BY <2>1, <2>2 DEF PlaceOK
<1> QED
  BY <1>1, <1>2

\* Nobody falls asleep or is woken.
LEMMA Sleep_Keep ==
  ASSUME Sleepers, UNCHANGED waiters,
         \A u \in Client : /\ Blocked(u)' <=> Blocked(u)
                           /\ Blocked(u) => pc'[u] = pc[u] /\ sem'[u] = sem[u]
  PROVE  Sleepers'
<1>1. \A s \in Sema : Distinct(waiters'[s])
  BY DEF Sleepers
<1>2. ASSUME NEW u \in Client
      PROVE  /\ Blocked(u)' => pc'[u] = "down"
             /\ \A s \in Sema : On(u, waiters'[s]) <=> (Blocked(u)' /\ sem'[u] = s)
  BY DEF Sleepers
<1> QED
  BY <1>1, <1>2 DEF Sleepers

\* No condition variable is touched and nobody is signalled.
LEMMA Cond_Keep ==
  ASSUME Signals, UNCHANGED cwaiters,
         \A t \in Client : /\ value'[t] = value[t] /\ (Waiting(t)' <=> Waiting(t))
                           /\ \A u \in Client : Ups(u, t)' <=> Ups(u, t)
                           /\ Listed(t) => cnd'[t] = cnd[t]
  PROVE  Signals'
<1>1. \A t \in Client : Listed(t)' <=> Listed(t)
  BY DEF Listed
<1>2. ASSUME NEW t \in Client PROVE SignalOK(t)'
  <2>1. SignalOK(t)
    BY DEF Signals
  <2> QED
    BY <1>1, <2>1 DEF SignalOK
<1>3. ASSUME NEW t \in Client, NEW c \in Cond, On(t, cwaiters'[c]) PROVE cnd'[t] = c
  <2>1. On(t, cwaiters[c])
    BY <1>3
  <2>2. Listed(t) /\ cnd[t] = c
    BY <2>1 DEF Listed, Signals
  <2> QED
    BY <2>2
<1>4. \A c \in Cond : Distinct(cwaiters'[c])
  BY DEF Signals
<1> QED
  BY <1>2, <1>3, <1>4 DEF Signals

\* A thread that does not move stays where it is in cond_wait() or cond_signal().
LEMMA Others_Wait ==
  ASSUME NEW t, Others(t), NEW u \in Client \ {t}
  PROVE  (Waiting(u)' <=> Waiting(u)) /\ \A w : Ups(u, w)' <=> Ups(u, w)
<1>1. pc'[u] = pc[u] /\ sem'[u] = sem[u] /\ ret'[u] = ret[u]
  BY DEF Others
<1> QED
  BY <1>1 DEF Waiting, Ups

\* What goto() and the assignments to sem and ret leave.
LEMMA Moved ==
  ASSUME WaitInv, NEW t \in Client, NEW p, NEW s, NEW r, goto(t, p),
         sem' = [sem EXCEPT ![t] = s], ret' = [ret EXCEPT ![t] = r], \A u \in Client \ {t} : cnd'[u] = cnd[u]
  PROVE  pc'[t] = p /\ sem'[t] = s /\ ret'[t] = r /\ Others(t)
<1>1. MutexType /\ t \in Thread /\ Client \subseteq Thread
  BY Wait_Types, Kinds
<1>2. pc' = [pc EXCEPT ![t] = p]
  BY DEF goto
<1> QED
  BY <1>1, <1>2 DEF MutexType, Others

\* The same without the assignments.
LEMMA Gone ==
  ASSUME WaitInv, NEW t \in Client, NEW p, goto(t, p), UNCHANGED <<sem, ret>>, \A u \in Client \ {t} : cnd'[u] = cnd[u]
  PROVE  pc'[t] = p /\ Others(t)
<1>1. MutexType /\ t \in Thread /\ Client \subseteq Thread
  BY Wait_Types, Kinds
<1>2. pc' = [pc EXCEPT ![t] = p]
  BY DEF goto
<1> QED
  BY <1>1, <1>2 DEF MutexType, Others

-----------------------------------------------------------------------------
(* The scheduler under synch.c *)

\* The first sleeper, woken by up (s), is a thread in sema_down (s).
LEMMA First_Waiter ==
  ASSUME WaitInv, NEW s \in Sema, waiters[s] # <<>>
  PROVE  LET h == Head(waiters[s])
         IN /\ h \in Client /\ Blocked(h) /\ sem[h] = s /\ pc[h] = "down" /\ cur # h
            /\ Tail(waiters[s]) \in Seq(Client) /\ Distinct(Tail(waiters[s])) /\ ~On(h, Tail(waiters[s]))
            /\ \A u : On(u, waiters[s]) <=> u = h \/ On(u, Tail(waiters[s]))
<1>1. waiters[s] \in Seq(Client) /\ Sleepers /\ Distinct(waiters[s])
  BY Wait_Types DEF Order, Sleepers
<1>2. PICK h : h = Head(waiters[s])
  OBVIOUS
<1>3. /\ h \in Client /\ Tail(waiters[s]) \in Seq(Client) /\ Distinct(Tail(waiters[s])) /\ ~On(h, Tail(waiters[s]))
      /\ \A u : On(u, waiters[s]) <=> u = h \/ On(u, Tail(waiters[s]))
  BY <1>1, <1>2, Tail_On
<1>4. Blocked(h) /\ sem[h] = s /\ pc[h] = "down"
  BY <1>1, <1>3 DEF Sleepers
<1>5. cur # h
  BY <1>3, <1>4, Wait_Types
<1> QED
  BY <1>2, <1>3, <1>4, <1>5

\* schedule() puts only its caller to sleep, and wakes nobody: the next thread was ready.
LEMMA Switch_Sleep ==
  ASSUME WaitInv, NEW s \in {"READY", "BLOCKED"}, NEW rl \in Seq(Thread), schedule(s, rl),
         \A u \in Thread : On(u, rl) => status[u] = "READY" \/ (u = cur /\ s = "READY")
  PROVE  \A u \in Client : Blocked(u)' <=> IF u = cur THEN s = "BLOCKED" ELSE Blocked(u)
<1>1. TypeOK /\ OneRunning /\ idle_thread = Idle /\ Idle \in Thread /\ Client \subseteq Thread /\ Idle \notin Client
  BY Wait_Types, ThreadAssumption, Kinds
<1>2. PICK n : n = next_thread_to_run(rl)
  OBVIOUS
<1>3. status' = [status EXCEPT ![cur] = s, ![n] = "RUNNING"]
  BY <1>2 DEF schedule, switched
<1>4. n \in Thread /\ (n = Idle \/ status[n] = "READY" \/ (n = cur /\ s = "READY"))
  <2>1. CASE rl = <<>>
    BY <1>1, <1>2, <2>1 DEF next_thread_to_run
  <2>2. CASE rl # <<>>
    <3>1. n = Head(rl) /\ n \in Thread /\ On(n, rl)
      BY <1>2, <2>2, Tail_On DEF next_thread_to_run
    <3> QED
      BY <3>1
  <2> QED
    BY <2>1, <2>2
<1>5. status[cur] = "RUNNING" /\ cur \in Thread /\ status \in [Thread -> Status]
  BY <1>1 DEF TypeOK, OneRunning
<1>6. ASSUME NEW u \in Client PROVE Blocked(u)' <=> IF u = cur THEN s = "BLOCKED" ELSE Blocked(u)
  <2>1. u \in Thread /\ u # Idle
    BY <1>1
  <2>2. status'[u] = IF u = n THEN "RUNNING" ELSE IF u = cur THEN s ELSE status[u]
    BY <1>3, <1>4, <1>5, <2>1
  <2>3. CASE u = cur
    <3>1. s = "BLOCKED" => u # n
      BY <1>4, <1>5, <2>1, <2>3
    <3> QED
      BY <2>2, <2>3, <3>1 DEF Blocked
  <2>4. CASE u # cur
    <3>1. u = n => status[u] = "READY"
      BY <1>4, <2>1, <2>4
    <3> QED
      BY <2>2, <2>4, <3>1 DEF Blocked
  <2> QED
    BY <2>3, <2>4
<1> QED
  BY <1>6

\* The lists of waiters and the scheduler's part of a step.
Frame == [Next]_tvars /\ idle_thread' = idle_thread /\ waiters' \in [Sema -> Seq(Client)]

\* A step that is none of the scheduler's.
LEMMA Frame_Still ==
  ASSUME WaitInv, UNCHANGED <<tvars, waiters>>
  PROVE  Frame
<1>1. waiters \in [Sema -> Seq(Client)]
  BY Wait_Types
<1> QED
  BY <1>1 DEF Frame, tvars

\* sema_up() unblocks a thread or none.
LEMMA Frame_Up ==
  ASSUME WaitInv, NEW s \in Sema, up(s)
  PROVE  Frame
<1>1. CASE waiters[s] = <<>>
  BY <1>1, Frame_Still DEF up
<1>2. CASE waiters[s] # <<>>
  <2>1. Head(waiters[s]) \in Thread /\ Tail(waiters[s]) \in Seq(Client)
    BY <1>2, First_Waiter, Kinds
  <2>2. thread_unblock(Head(waiters[s])) /\ waiters' = [waiters EXCEPT ![s] = Tail(waiters[s])]
    BY <1>2 DEF up, popped
  <2>3. Next /\ idle_thread' = idle_thread
    BY <2>1, <2>2 DEF Next, thread_unblock
  <2>4. waiters' \in [Sema -> Seq(Client)]
    BY <2>1, <2>2, Wait_Types
  <2> QED
    BY <2>3, <2>4 DEF Frame
<1> QED
  BY <1>1, <1>2

LEMMA Frame_Inner ==
  ASSUME WaitInv, NEW t \in Client, Inner(t)
  PROVE  Frame
<1>1. waiters \in [Sema -> Seq(Client)] /\ ThreadOK(t)
  BY Wait_Types
<1>2. CASE sema_down(t)
  <2>1. CASE waiters' = [waiters EXCEPT ![sem[t]] = Append(@, t)] /\ thread_block
    <3>1. sem[t] \in Sema
      BY <1>1, <1>2 DEF sema_down, ThreadOK
    <3>2. waiters[sem[t]] \in Seq(Client) /\ Append(waiters[sem[t]], t) \in Seq(Client)
      BY <1>1, <3>1
    <3>3. waiters' \in [Sema -> Seq(Client)]
      BY <1>1, <2>1, <3>1, <3>2
    <3>4. Next /\ idle_thread' = idle_thread
      BY <2>1 DEF Next, thread_block
    <3> QED
      BY <3>3, <3>4 DEF Frame
  <2>2. CASE intr_enable /\ UNCHANGED waiters
    BY <1>1, <2>2 DEF Frame, Next, intr_enable
  <2> QED
    BY <1>2, <2>1, <2>2 DEF sema_down
<1>3. CASE sema_up(t)
  <2>1. sem[t] \in Sema /\ up(sem[t])
    BY <1>1, <1>3 DEF sema_up, At, ThreadOK
  <2> QED
    BY <2>1, Frame_Up
<1>4. CASE set_holder(t, "run") \/ cond_wait_release(t) \/ broadcast_loop(t)
  <2>1. UNCHANGED <<tvars, waiters>>
    BY <1>4 DEF set_holder, cond_wait_release, release, enter_up, broadcast_loop, signal
  <2> QED
    BY <2>1, Frame_Still
<1>5. CASE cond_wait_down(t) \/ cond_wait_acquire(t)
  <2>1. intr_disable /\ UNCHANGED waiters
    BY <1>5 DEF cond_wait_down, cond_wait_acquire, enter_down
  <2> QED
    BY <1>1, <2>1 DEF Frame, Next, intr_disable
<1> QED
  BY <1>2, <1>3, <1>4, <1>5 DEF Inner

LEMMA Frame_Call ==
  ASSUME WaitInv, NEW t \in Client, ClientCall(t)
  PROVE  Frame
<1>1. waiters \in [Sema -> Seq(Client)] /\ t \in Sema
  BY Wait_Types, Kinds
<1>2. CASE \/ \E s \in Semaphore : call_sema_down(t, s)
           \/ \E l \in Lock : lock_acquire(t, l)
  <2>1. intr_disable /\ UNCHANGED waiters
    BY <1>2 DEF call_sema_down, lock_acquire, enter_down
  <2> QED
    BY <1>1, <2>1 DEF Frame, Next, intr_disable
<1>3. CASE \/ \E s \in Semaphore : call_sema_try_down(t, s)
           \/ \E l \in Lock : lock_try_acquire(t, l)
           \/ \E c \in Cond : cond_signal(t, c) \/ cond_broadcast(t, c)
  <2>1. UNCHANGED <<tvars, waiters>>
    BY <1>3 DEF call_sema_try_down, lock_try_acquire, cond_signal, signal, enter_up, cond_broadcast
  <2> QED
    BY <2>1, Frame_Still
<1>4. ASSUME NEW s \in Semaphore, call_sema_up(t, s) PROVE Frame
  BY <1>4, Frame_Up, Kinds DEF call_sema_up
<1>5. ASSUME NEW c \in Cond, cond_wait(t, c) PROVE Frame
  <2>1. UNCHANGED tvars /\ waiters' = [waiters EXCEPT ![t] = <<>>]
    BY <1>5 DEF cond_wait
  <2>2. waiters' \in [Sema -> Seq(Client)]
    BY <1>1, <2>1, SMTT(60)
  <2> QED
    BY <2>1, <2>2 DEF Frame, tvars
<1> QED
  BY <1>2, <1>3, <1>4, <1>5 DEF ClientCall

LEMMA Frame_Next ==
  ASSUME WaitInv, [SynchNext]_vars
  PROVE  Frame
<1>1. waiters \in [Sema -> Seq(Client)]
  BY Wait_Types
<1>2. ASSUME NEW t \in Client, NEW l \in Lock, lock_release(t, l) PROVE Frame
  BY <1>2, Frame_Still DEF lock_release, release, enter_up
<1>3. ASSUME NEW t \in Thread, Resumes(t) PROVE Frame
  BY <1>1, <1>3 DEF Resumes, resume, mvars, intr_enable, Frame, Next
<1>4. CASE Idles
  <2>1. (intr_enable \/ intr_disable \/ thread_block) /\ UNCHANGED waiters
    BY <1>4 DEF Idles, idle_loop
  <2>2. Next /\ idle_thread' = idle_thread
    BY <2>1 DEF Next, intr_enable, intr_disable, thread_block
  <2> QED
    BY <1>1, <2>1, <2>2 DEF Frame
<1>5. CASE Ticks
  <2>1. timer_interrupt /\ UNCHANGED waiters
    BY <1>5 DEF Ticks, tick
  <2>2. Next
    BY <2>1 DEF Next
  <2>3. idle_thread' = idle_thread
    BY <2>1 DEF timer_interrupt, thread_yield
  <2> QED
    BY <1>1, <2>1, <2>2, <2>3 DEF Frame
<1>6. ASSUME NEW s \in Semaphore, handler_sema_up(s) PROVE Frame
  BY <1>6, Frame_Up, Kinds DEF handler_sema_up
<1>7. CASE UNCHANGED vars
  BY <1>7, Frame_Still DEF vars, svars, mvars
<1> QED
  BY <1>2, <1>3, <1>4, <1>5, <1>6, <1>7, Frame_Inner, Frame_Call DEF SynchNext

\* The bound on the calls.
LEMMA Calls_Next ==
  ASSUME calls \in [Thread -> 0 .. MaxCalls], [SynchNext]_vars
  PROVE  calls' \in [Thread -> 0 .. MaxCalls]
<1>1. ASSUME NEW t \in Client, Call(t) PROVE calls' \in [Thread -> 0 .. MaxCalls]
  <2>1. t \in Thread /\ MaxCalls \in Nat
    BY Kinds, SynchAssumption
  <2>2. calls[t] \in 0 .. MaxCalls /\ calls[t] < MaxCalls /\ calls' = [calls EXCEPT ![t] = calls[t] + 1]
    BY <1>1, <2>1 DEF Call
  <2>3. calls[t] + 1 \in 0 .. MaxCalls
    BY <2>1, <2>2
  <2> QED
    BY <2>1, <2>2, <2>3
<1>2. ASSUME NEW t \in Client, ClientCall(t) PROVE Call(t)
  BY <1>2 DEF ClientCall, call_sema_down, call_sema_try_down, call_sema_up, lock_acquire,
              lock_try_acquire, cond_wait, cond_signal, cond_broadcast
<1>3. ASSUME NEW t \in Client, Inner(t) PROVE UNCHANGED calls
  BY <1>3 DEF Inner, cond_wait_release, cond_wait_down, cond_wait_acquire, broadcast_loop
<1>4. CASE \/ \E t \in Client, l \in Lock : lock_release(t, l)
           \/ \E t \in Thread : Resumes(t)
           \/ Idles \/ Ticks
           \/ \E s \in Semaphore : handler_sema_up(s)
           \/ UNCHANGED vars
  <2>1. UNCHANGED calls
    BY <1>4 DEF lock_release, Resumes, Idles, Ticks, handler_sema_up, vars, svars
  <2> QED
    BY <2>1
<1> QED
  BY <1>1, <1>2, <1>3, <1>4 DEF SynchNext

-----------------------------------------------------------------------------
(* Counting the awake *)

LEMMA Count_Type ==
  ASSUME WaitInv, NEW S \in SUBSET Client
  PROVE  Cardinality(S) \in Nat
  BY DEF WaitInv, Countable

LEMMA Count_Part ==
  ASSUME WaitInv, NEW S \in SUBSET Client, NEW R \in SUBSET S
  PROVE  Cardinality(R) <= Cardinality(S)
  BY DEF WaitInv, Countable

LEMMA Count_Add ==
  ASSUME WaitInv, NEW S \in SUBSET Client, NEW t \in Client \ S
  PROVE  Cardinality(S \cup {t}) = Cardinality(S) + 1
  BY DEF WaitInv, Countable

\* The awake threads in sema_down (s).
Downing(s) == {t \in Client : pc[t] = "down" /\ sem[t] = s /\ ~Blocked(t)}

\* NoLostWakeup in terms of Downing.
LEMMA Wake_Def == NoLostWakeup <=> \A s \in Sema : waiters[s] # <<>> => value[s] <= Cardinality(Downing(s))
BY DEF NoLostWakeup, Downing, Blocked

LEMMA Wake_Def_Prime == NoLostWakeup' <=> \A s \in Sema : waiters'[s] # <<>> => value'[s] <= Cardinality(Downing(s)')
BY DEF NoLostWakeup, Downing, Blocked

\* No semaphore with a sleeper gains, and no thread leaves sema_down().
LEMMA Wake_Keep ==
  ASSUME WaitInv, NoLostWakeup, value \in [Sema -> Nat], value' \in [Sema -> Nat],
         NEW s \in Sema, waiters'[s] # <<>>,
         value'[s] = 0 \/ (waiters[s] # <<>> /\ value'[s] <= value[s]),
         \A u \in Client : pc[u] = "down" /\ sem[u] = s /\ ~Blocked(u) => pc'[u] = "down" /\ sem'[u] = s /\ ~Blocked(u)'
  PROVE  value'[s] <= Cardinality(Downing(s)')
<1>1. Downing(s) \in SUBSET Client /\ Downing(s)' \in SUBSET Client /\ Downing(s) \subseteq Downing(s)'
  BY DEF Downing
<1>2. PICK n \in Nat : n = Cardinality(Downing(s))
  BY <1>1, Count_Type
<1>3. PICK m \in Nat : m = Cardinality(Downing(s)')
  BY <1>1, Count_Type
<1>4. n <= m
  BY <1>1, <1>2, <1>3, Count_Part
<1>5. waiters[s] # <<>> => value[s] <= n
  BY <1>2, Wake_Def
<1>6. value[s] \in Nat /\ value'[s] \in Nat
  OBVIOUS
<1> QED
  BY <1>3, <1>4, <1>5, <1>6

-----------------------------------------------------------------------------
(* Steps of the running thread that nobody sleeping notices *)

\* A step of the running thread t outside sema_down() that wakes nobody.
LEMMA Quiet_Sleep ==
  ASSUME WaitInv, NEW t \in Client, cur = t, pc[t] # "down", Others(t), PlaceOK(t)',
         UNCHANGED <<status, waiters>>, value' \in [Sema -> Nat], \A s \in Sema : value'[s] <= value[s]
  PROVE  Places' /\ Sleepers' /\ NoLostWakeup'
<1>1. /\ Places /\ Sleepers /\ NoLostWakeup /\ ~Blocked(t)
      /\ value \in [Sema -> Nat]
  BY Wait_Types DEF Order, MutexType
<1>2. Places'
  BY <1>1, Place_Keep
<1>3. \A u \in Client \ {t} : pc'[u] = pc[u] /\ sem'[u] = sem[u]
  BY DEF Others
<1>4. \A u \in Client : Blocked(u)' <=> Blocked(u)
  BY DEF Blocked
<1>5. Sleepers'
  BY <1>1, <1>3, <1>4, Sleep_Keep
<1>6. ASSUME NEW s \in Sema, waiters'[s] # <<>> PROVE value'[s] <= Cardinality(Downing(s)')
  <2>1. \A u \in Client : pc[u] = "down" /\ sem[u] = s /\ ~Blocked(u) => pc'[u] = "down" /\ sem'[u] = s /\ ~Blocked(u)'
    BY <1>3, <1>4
  <2> QED
    BY <1>1, <1>6, <2>1, Wake_Keep
<1> QED
  BY <1>2, <1>5, <1>6, Wake_Def_Prime

\* Nor does it signal anybody.
LEMMA Quiet ==
  ASSUME WaitInv, NEW t \in Client, cur = t, pc[t] # "down", Others(t), PlaceOK(t)',
         UNCHANGED <<status, waiters, cwaiters>>,
         value' \in [Sema -> Nat], \A s \in Sema : value'[s] <= value[s],
         \A u \in Client : value'[u] = value[u],
         Waiting(t)' <=> Waiting(t), \A u \in Client : Ups(t, u)' <=> Ups(t, u),
         Listed(t) => cnd'[t] = cnd[t]
  PROVE  Order'
<1>1. Places' /\ Sleepers' /\ NoLostWakeup'
  BY Quiet_Sleep
<1>2. \A u \in Client \ {t} : cnd'[u] = cnd[u]
  BY DEF Others
<1>3. ASSUME NEW w \in Client
      PROVE  /\ value'[w] = value[w] /\ (Waiting(w)' <=> Waiting(w))
             /\ \A u \in Client : Ups(u, w)' <=> Ups(u, w)
             /\ Listed(w) => cnd'[w] = cnd[w]
  BY <1>2, Others_Wait
<1>4. Signals
  BY DEF WaitInv, Order
<1>5. Signals'
  BY <1>3, <1>4, Cond_Keep
<1> QED
  BY <1>1, <1>5 DEF Order

\* t enters sema_down(); from cw_down its own.
LEMMA Wait_Enter_Down ==
  ASSUME WaitInv, NEW t \in Client, cur = t, NEW s \in Sema, NEW r,
         \/ pc[t] = "run" /\ ((s \in Semaphore /\ r = "run") \/ (s \in Lock /\ r = "own"))
         \/ pc[t] = "cw_down" /\ s = t /\ r = "cw_acquire"
         \/ pc[t] = "cw_acquire" /\ s \in Lock /\ r = "own",
         enter_down(t, s, r), UNCHANGED <<cwaiters, cnd>>
  PROVE  Order'
<1>1. /\ goto(t, "down") /\ sem' = [sem EXCEPT ![t] = s] /\ ret' = [ret EXCEPT ![t] = r]
      /\ UNCHANGED <<value, waiters, status>>
  BY DEF enter_down, intr_disable
<1>2. pc'[t] = "down" /\ sem'[t] = s /\ ret'[t] = r /\ Others(t)
  BY <1>1, Moved
<1>3. PlaceOK(t)'
  BY <1>2 DEF PlaceOK
<1>4. value \in [Sema -> Nat] /\ \A x \in Sema : value[x] \in Nat
  BY Wait_Types DEF MutexType
<1>5. t \notin Semaphore /\ t \notin Lock
  BY SynchAssumption, Kinds
<1>6. Waiting(t)' <=> Waiting(t)
  BY <1>2, <1>5 DEF Waiting
<1>7. \A u \in Client : Ups(t, u)' <=> Ups(t, u)
  BY <1>2 DEF Ups
<1>8. pc[t] # "down"
  OBVIOUS
<1> QED
  BY <1>1, <1>2, <1>3, <1>4, <1>6, <1>7, <1>8, Quiet, SMTT(60)

\* The last statement of lock_acquire().
LEMMA Wait_Set_Holder ==
  ASSUME WaitInv, NEW t \in Client, set_holder(t, "run"), UNCHANGED <<cwaiters, cnd>>
  PROVE  Order'
<1>1. /\ cur = t /\ pc[t] = "own" /\ goto(t, "run") /\ UNCHANGED <<value, waiters, status, sem, ret>>
  BY DEF set_holder, At, tvars
<1>2. pc'[t] = "run" /\ Others(t)
  BY <1>1, Gone
<1>3. PlaceOK(t)' /\ (Waiting(t)' <=> Waiting(t)) /\ \A u \in Client : Ups(t, u)' <=> Ups(t, u)
  BY <1>1, <1>2 DEF PlaceOK, Waiting, Ups
<1>4. value \in [Sema -> Nat] /\ \A x \in Sema : value[x] \in Nat
  BY Wait_Types DEF MutexType
<1> QED
  BY <1>1, <1>2, <1>3, <1>4, Quiet

\* lock_release() up to its sema_up().
LEMMA Wait_Release ==
  ASSUME WaitInv, NEW t \in Client, cur = t, NEW l \in Lock, NEW r,
         (pc[t] = "run" /\ r = "run") \/ (pc[t] = "cw_release" /\ r = "cw_down"),
         release(t, l, r), UNCHANGED <<cwaiters, cnd>>
  PROVE  Order'
<1>1. /\ goto(t, "up") /\ sem' = [sem EXCEPT ![t] = l] /\ ret' = [ret EXCEPT ![t] = r]
      /\ UNCHANGED <<value, waiters, status>>
  BY DEF release, enter_up, tvars
<1>2. pc'[t] = "up" /\ sem'[t] = l /\ ret'[t] = r /\ Others(t)
  BY <1>1, Moved
<1>3. l \notin Client
  BY Kinds
<1>4. PlaceOK(t)' /\ (Waiting(t)' <=> Waiting(t)) /\ \A u \in Client : Ups(t, u)' <=> Ups(t, u)
  BY <1>2, <1>3 DEF PlaceOK, Waiting, Ups
<1>5. value \in [Sema -> Nat] /\ \A x \in Sema : value[x] \in Nat
  BY Wait_Types DEF MutexType
<1>6. pc[t] # "down"
  OBVIOUS
<1> QED
  BY <1>1, <1>2, <1>4, <1>5, <1>6, Quiet, SMTT(60)

\* cond_broadcast() starts or ends.
LEMMA Wait_Broadcast ==
  ASSUME WaitInv, NEW t \in Client, cur = t, NEW p,
         (pc[t] = "run" /\ p = "broadcast") \/ (pc[t] = "broadcast" /\ p = "run"), goto(t, p),
         \A u \in Client \ {t} : cnd'[u] = cnd[u], UNCHANGED <<status, value, waiters, sem, ret, cwaiters>>
  PROVE  Order'
<1>1. pc'[t] = p /\ Others(t)
  BY Gone
<1>2. /\ PlaceOK(t)' /\ ~Waiting(t) /\ ~Waiting(t)' /\ \A u \in Client : Ups(t, u)' <=> Ups(t, u)
      /\ pc[t] # "down"
  BY <1>1 DEF PlaceOK, Waiting, Ups
<1>3. ~Listed(t)
  BY <1>2, Wait_Types DEF SignalOK
<1>4. value \in [Sema -> Nat] /\ \A x \in Sema : value[x] \in Nat
  BY Wait_Types DEF MutexType
<1> QED
  BY <1>1, <1>2, <1>3, <1>4, Quiet

\* sema_try_down() or lock_try_acquire() that succeeds.
LEMMA Wait_Try ==
  ASSUME WaitInv, NEW t \in Client, cur = t, pc[t] = "run", NEW s \in Semaphore \cup Lock, try_down(s),
         pc'[t] \in {"run", "own"}, Others(t), UNCHANGED <<status, waiters, cwaiters, cnd>>
  PROVE  Order'
<1>1. value \in [Sema -> Nat] /\ s \in Sema /\ s \notin Client
  BY Wait_Types, Kinds, SynchAssumption DEF MutexType
<1>2. value[s] \in Nat /\ value[s] > 0 /\ value' = [value EXCEPT ![s] = value[s] - 1]
  BY <1>1 DEF try_down, can_try
<1>3. value[s] - 1 \in Nat /\ value[s] - 1 <= value[s]
  BY <1>2
<1>4. value' \in [Sema -> Nat] /\ \A u \in Client : value'[u] = value[u]
  BY <1>1, <1>2, <1>3, Kinds
<1>5. \A y \in Sema : value[y] \in Nat /\ value'[y] <= value[y]
  BY <1>1, <1>2, <1>3, SMTT(60)
<1>6. PlaceOK(t)' /\ (Waiting(t)' <=> Waiting(t)) /\ \A u \in Client : Ups(t, u)' <=> Ups(t, u)
  BY DEF PlaceOK, Waiting, Ups
<1> QED
  BY <1>4, <1>5, <1>6, Quiet

\* cond_wait() up to lock_release(): t joins the condition's list, unsignalled.
LEMMA Wait_Cond_Wait ==
  ASSUME WaitInv, NEW t \in Client, NEW c \in Cond, cond_wait(t, c)
  PROVE  Order'
<1>1. /\ cur = t /\ pc[t] = "run" /\ value' = [value EXCEPT ![t] = 0]
      /\ waiters' = [waiters EXCEPT ![t] = <<>>] /\ cwaiters' = [cwaiters EXCEPT ![c] = Append(@, t)]
      /\ cnd' = [cnd EXCEPT ![t] = c] /\ goto(t, "cw_release") /\ UNCHANGED <<status, sem, ret>>
  BY DEF cond_wait, Call, At, tvars
<1>2. /\ MutexType /\ SignalOK(t) /\ Sleepers /\ Signals /\ ~Blocked(t) /\ t \in Sema /\ t \in Thread
      /\ waiters \in [Sema -> Seq(Client)]
  BY <1>1, Wait_Types, Kinds DEF Order
<1>3. ~Waiting(t)
  BY <1>1 DEF Waiting
<1>4. value[t] = 0 /\ ~Listed(t) /\ \A u \in Client : ~Ups(u, t)
  BY <1>2, <1>3 DEF SignalOK
<1>5. value' = value
  BY <1>1, <1>2, <1>4 DEF MutexType
<1>6. waiters' = waiters
  <2>1. ASSUME NEW u \in Client, On(u, waiters[t]) PROVE FALSE
    <3>1. Blocked(u) /\ sem[u] = t /\ pc[u] = "down" /\ PlaceOK(u)
      BY <1>2, <2>1, Wait_Types DEF Sleepers
    <3>2. u = t
      BY <3>1, SynchAssumption, Kinds DEF PlaceOK
    <3> QED
      BY <1>2, <3>1, <3>2
  <2>2. waiters[t] \in Seq(Client)
    BY <1>2
  <2>3. waiters[t] = <<>>
    BY <2>1, <2>2, Tail_On
  <2> QED
    BY <1>1, <1>2, <2>3
<1>7. \A u \in Client \ {t} : cnd'[u] = cnd[u]
  BY <1>1, <1>2, Kinds DEF MutexType
<1>8. pc'[t] = "cw_release" /\ Others(t) /\ cnd'[t] = c
  BY <1>1, <1>2, <1>7, Gone DEF MutexType
<1>9. PlaceOK(t)' /\ Waiting(t)' /\ \A u \in Client : ~Ups(t, u)' /\ ~Ups(t, u)
  BY <1>1, <1>8 DEF PlaceOK, Waiting, Ups
<1>10. value' \in [Sema -> Nat] /\ \A x \in Sema : value'[x] <= value[x]
  BY <1>2, <1>5 DEF MutexType
<1>11. Places' /\ Sleepers' /\ NoLostWakeup'
  <2>1. cur = t /\ pc[t] # "down" /\ UNCHANGED <<status, waiters>>
    BY <1>1, <1>6
  <2> QED
    BY <1>8, <1>9, <1>10, <2>1, Quiet_Sleep
<1>12. /\ cwaiters \in [Cond -> Seq(Client)] /\ cwaiters[c] \in Seq(Client) /\ ~On(t, cwaiters[c])
       /\ Distinct(cwaiters[c])
  BY <1>2, <1>4 DEF MutexType, Listed, Signals
<1>13. /\ cwaiters'[c] = Append(cwaiters[c], t) /\ \A d \in Cond \ {c} : cwaiters'[d] = cwaiters[d]
  BY <1>1, <1>12
<1>14. /\ Distinct(cwaiters'[c]) /\ \A u : On(u, cwaiters'[c]) <=> On(u, cwaiters[c]) \/ u = t
  BY <1>12, <1>13, Append_On, SMTT(60)
<1>15. \A d \in Cond : Distinct(cwaiters'[d])
  BY <1>2, <1>13, <1>14 DEF Signals
<1>16. ASSUME NEW u \in Client PROVE SignalOK(u)' /\ \A d \in Cond : On(u, cwaiters'[d]) => cnd'[u] = d
  <2>1. \A w \in Client : Ups(w, u)' <=> Ups(w, u)
    BY <1>8, <1>9, Others_Wait
  <2>2. CASE u = t
    <3>1. Listed(u)'
      BY <1>14, <2>2 DEF Listed
    <3>2. SignalOK(u)'
      BY <1>4, <1>5, <1>9, <2>1, <2>2, <3>1 DEF SignalOK
    <3>3. \A d \in Cond : On(u, cwaiters'[d]) => d = c
      BY <1>4, <1>13, <2>2 DEF Listed
    <3> QED
      BY <1>8, <2>2, <3>2, <3>3
  <2>3. CASE u # t
    <3>1. \A d \in Cond : On(u, cwaiters'[d]) <=> On(u, cwaiters[d])
      BY <1>13, <1>14, <2>3
    <3>2. (Listed(u)' <=> Listed(u)) /\ (Waiting(u)' <=> Waiting(u)) /\ cnd'[u] = cnd[u]
      BY <1>7, <1>8, <2>3, <3>1, Others_Wait DEF Listed
    <3>3. SignalOK(u) /\ \A d \in Cond : On(u, cwaiters[d]) => cnd[u] = d
      BY <1>2 DEF Signals
    <3>4. SignalOK(u)'
      BY <1>5, <2>1, <3>2, <3>3 DEF SignalOK
    <3> QED
      BY <3>1, <3>2, <3>3, <3>4
  <2> QED
    BY <2>2, <2>3
<1>17. Signals'
  BY <1>15, <1>16 DEF Signals
<1> QED
  BY <1>11, <1>17 DEF Order

-----------------------------------------------------------------------------
(* Signalling and waking *)

\* cond_signal() takes the first waiter off the list and is about to up its semaphore.
LEMMA Wait_Signal ==
  ASSUME WaitInv, NEW t \in Client, cur = t, pc[t] \in {"run", "broadcast"}, NEW c \in Cond,
         NEW r \in {"run", "broadcast"}, signal(t, c, r), UNCHANGED cnd
  PROVE  Order'
<1>1. PICK w : w = Head(cwaiters[c])
  OBVIOUS
<1>2. /\ cwaiters[c] # <<>> /\ cwaiters' = [cwaiters EXCEPT ![c] = Tail(cwaiters[c])]
      /\ goto(t, "up") /\ sem' = [sem EXCEPT ![t] = w] /\ ret' = [ret EXCEPT ![t] = r]
      /\ UNCHANGED <<value, waiters, status>>
  BY <1>1 DEF signal, enter_up, unsignalled, tvars
<1>3. /\ MutexType /\ Signals /\ cwaiters \in [Cond -> Seq(Client)] /\ cwaiters[c] \in Seq(Client)
  BY Wait_Types DEF Order, MutexType
<1>4. /\ w \in Client /\ Distinct(Tail(cwaiters[c])) /\ ~On(w, Tail(cwaiters[c]))
      /\ \A u : On(u, cwaiters[c]) <=> u = w \/ On(u, Tail(cwaiters[c]))
  <2>1. Distinct(cwaiters[c])
    BY <1>3 DEF Signals
  <2> QED
    BY <1>1, <1>2, <1>3, <2>1, Tail_On
<1>5. On(w, cwaiters[c]) /\ cnd[w] = c /\ SignalOK(w) /\ SignalOK(t)
  BY <1>3, <1>4 DEF Signals
<1>6. Listed(w) /\ Waiting(w) /\ value[w] = 0 /\ \A u \in Client : ~Ups(u, w)
  BY <1>5 DEF Listed, SignalOK
<1>7. ~Waiting(t)
  BY DEF Waiting
<1>8. pc'[t] = "up" /\ sem'[t] = w /\ ret'[t] = r /\ Others(t)
  BY <1>2, Moved
<1>9. PlaceOK(t)' /\ ~Waiting(t)'
  BY <1>4, <1>8 DEF PlaceOK, Waiting
<1>10. Places' /\ Sleepers' /\ NoLostWakeup'
  <2>1. value' \in [Sema -> Nat] /\ \A x \in Sema : value'[x] <= value[x]
    BY <1>2, <1>3 DEF MutexType
  <2>2. pc[t] # "down"
    OBVIOUS
  <2> QED
    BY <1>2, <1>8, <1>9, <2>1, <2>2, Quiet_Sleep
<1>11. cwaiters'[c] = Tail(cwaiters[c]) /\ \A d \in Cond \ {c} : cwaiters'[d] = cwaiters[d]
  BY <1>2, <1>3
<1>12. \A d \in Cond : Distinct(cwaiters'[d])
  BY <1>3, <1>4, <1>11 DEF Signals
<1>13. \A u \in Client, d \in Cond : On(u, cwaiters'[d]) => On(u, cwaiters[d]) /\ cnd'[u] = d
  BY <1>3, <1>4, <1>11 DEF Signals
<1>14. ~Listed(w)'
  <2>1. \A d \in Cond : On(w, cwaiters'[d]) => d = c
    BY <1>5, <1>13, <1>4
  <2> QED
    BY <1>4, <1>11, <2>1 DEF Listed
<1>15. \A u \in Client \ {w} : Listed(u)' <=> Listed(u)
  BY <1>4, <1>11 DEF Listed
<1>16. /\ \A u \in Client : Waiting(u)' <=> Waiting(u)
       /\ \A u \in Client \ {t}, v \in Client : Ups(u, v)' <=> Ups(u, v)
  BY <1>7, <1>8, <1>9, Others_Wait
<1>17. \A v \in Client : ~Ups(t, v) /\ (Ups(t, v)' <=> v = w)
  BY <1>8 DEF Ups
<1>18. ASSUME NEW u \in Client PROVE SignalOK(u)'
  <2>1. CASE u = w
    <3>1. \A v \in Client : Ups(v, w)' <=> v = t
      BY <1>4, <1>6, <1>16, <1>17
    <3> QED
      BY <1>2, <1>4, <1>6, <1>14, <1>16, <2>1, <3>1 DEF SignalOK
  <2>2. CASE u # w
    <3>1. \A v \in Client : Ups(v, u)' <=> Ups(v, u)
      BY <1>16, <1>17, <2>2
    <3>2. SignalOK(u) /\ (Listed(u)' <=> Listed(u)) /\ (Waiting(u)' <=> Waiting(u))
      BY <1>3, <1>15, <1>16, <2>2 DEF Signals
    <3> QED
      BY <1>2, <3>1, <3>2 DEF SignalOK
  <2> QED
    BY <2>1, <2>2
<1>19. Signals'
  BY <1>12, <1>13, <1>18 DEF Signals
<1> QED
  BY <1>10, <1>19 DEF Order

\* sema_up (s) by the running thread, or by a handler (t is then no client).
LEMMA Up_Sleep ==
  ASSUME WaitInv, NEW s \in Sema, up(s), NEW t, Others(t),
         t \in Client => cur = t /\ pc[t] # "down"
  PROVE  Sleepers' /\ NoLostWakeup'
<1>1. /\ Sleepers /\ NoLostWakeup /\ value \in [Sema -> Nat] /\ waiters \in [Sema -> Seq(Client)]
      /\ status \in [Thread -> Status] /\ (t \in Client => ~Blocked(t)) /\ Client \subseteq Thread
  BY Wait_Types, Kinds DEF Order, MutexType, TypeOK
<1>2. value[s] \in Nat /\ value' = [value EXCEPT ![s] = value[s] + 1]
  BY <1>1 DEF up
<1>3. value' \in [Sema -> Nat] /\ value'[s] = value[s] + 1 /\ \A x \in Sema \ {s} : value'[x] = value[x]
  BY <1>1, <1>2, SMTT(60)
<1>4. \A u \in Client : u # t => pc'[u] = pc[u] /\ sem'[u] = sem[u]
  BY DEF Others
<1>5. CASE waiters[s] = <<>>
  <2>1. UNCHANGED <<status, waiters>>
    BY <1>5 DEF up, tvars
  <2>2. \A u \in Client : Blocked(u)' <=> Blocked(u)
    BY <2>1 DEF Blocked
  <2>3. Sleepers'
    BY <1>1, <1>4, <2>1, <2>2, Sleep_Keep
  <2>4. ASSUME NEW x \in Sema, waiters'[x] # <<>> PROVE value'[x] <= Cardinality(Downing(x)')
    <3>1. x # s /\ waiters[x] # <<>>
      BY <1>5, <2>1, <2>4
    <3>2. value'[x] <= value[x]
      BY <1>1, <1>3, <3>1
    <3>3. \A u \in Client : pc[u] = "down" /\ sem[u] = x /\ ~Blocked(u) => pc'[u] = "down" /\ sem'[u] = x /\ ~Blocked(u)'
      BY <1>4, <2>2
    <3> QED
      BY <1>1, <1>3, <2>4, <3>1, <3>2, <3>3, Wake_Keep
  <2> QED
    BY <2>3, <2>4, Wake_Def_Prime
<1>6. CASE waiters[s] # <<>>
  <2>1. PICK h : h = Head(waiters[s])
    OBVIOUS
  <2>2. /\ h \in Client /\ Blocked(h) /\ sem[h] = s /\ pc[h] = "down" /\ cur # h
        /\ Distinct(Tail(waiters[s])) /\ ~On(h, Tail(waiters[s]))
        /\ \A u : On(u, waiters[s]) <=> u = h \/ On(u, Tail(waiters[s]))
    BY <1>6, <2>1, First_Waiter
  <2>3. status' = [status EXCEPT ![h] = "READY"] /\ waiters' = [waiters EXCEPT ![s] = Tail(waiters[s])]
    BY <1>6, <2>1 DEF up, popped, thread_unblock
  <2>4. waiters'[s] = Tail(waiters[s]) /\ \A x \in Sema \ {s} : waiters'[x] = waiters[x]
    BY <1>1, <2>3
  <2>5. ~Blocked(h)' /\ \A u \in Client \ {h} : Blocked(u)' <=> Blocked(u)
    BY <1>1, <2>2, <2>3 DEF Blocked
  <2>6. h # t
    BY <2>2
  <2>7. \A x \in Sema : Distinct(waiters'[x])
    BY <1>1, <2>2, <2>4 DEF Sleepers
  <2>8. ASSUME NEW u \in Client
        PROVE  /\ Blocked(u)' => pc'[u] = "down"
               /\ \A x \in Sema : On(u, waiters'[x]) <=> (Blocked(u)' /\ sem'[u] = x)
    <3>1. /\ Blocked(u) => pc[u] = "down"
          /\ \A x \in Sema : On(u, waiters[x]) <=> (Blocked(u) /\ sem[u] = x)
      BY <1>1 DEF Sleepers
    <3>2. CASE u = h
      BY <2>2, <2>4, <2>5, <3>1, <3>2
    <3>3. CASE u # h
      <4>1. \A x \in Sema : On(u, waiters'[x]) <=> On(u, waiters[x])
        BY <2>2, <2>4, <3>3
      <4>2. Blocked(u)' <=> Blocked(u)
        BY <2>5, <3>3
      <4>3. Blocked(u) => pc'[u] = pc[u] /\ sem'[u] = sem[u]
        BY <1>1, <1>4
      <4> QED
        BY <3>1, <4>1, <4>2, <4>3
    <3> QED
      BY <3>2, <3>3
  <2>9. Sleepers'
    BY <2>7, <2>8 DEF Sleepers
  <2>10. \A u \in Client, x \in Sema : u \in Downing(x) => u \in Downing(x)'
    BY <1>4, <2>5, <2>2 DEF Downing
  <2>11. ASSUME NEW x \in Sema, waiters'[x] # <<>> PROVE value'[x] <= Cardinality(Downing(x)')
    <3>1. CASE x # s
      <4>1. waiters[x] # <<>> /\ value'[x] <= value[x]
        BY <1>1, <1>3, <2>4, <2>11, <3>1
      <4>2. \A u \in Client : pc[u] = "down" /\ sem[u] = x /\ ~Blocked(u) => pc'[u] = "down" /\ sem'[u] = x /\ ~Blocked(u)'
        BY <2>10 DEF Downing
      <4> QED
        BY <1>1, <1>3, <2>11, <4>1, <4>2, Wake_Keep
    <3>2. CASE x = s
      <4>1. Downing(s) \in SUBSET Client /\ Downing(s)' \in SUBSET Client /\ h \notin Downing(s) /\ h \in Downing(s)'
        BY <1>4, <2>2, <2>5, <2>6 DEF Downing
      <4>2. PICK D : D = Downing(s) /\ D \in SUBSET Client /\ Cardinality(D) \in Nat
        BY <4>1, Count_Type
      <4>3. PICK E : E = Downing(s)' /\ E \in SUBSET Client /\ Cardinality(E) \in Nat
        BY <4>1, Count_Type
      <4>4. h \notin D /\ D \cup {h} \subseteq E
        BY <2>10, <4>1, <4>2, <4>3
      <4>5. Cardinality(D \cup {h}) = Cardinality(D) + 1
        BY <2>2, <4>2, <4>4, Count_Add
      <4>6. Cardinality(D \cup {h}) <= Cardinality(E)
        BY <4>3, <4>4, Count_Part
      <4>7. value[s] <= Cardinality(D)
        BY <1>1, <1>6, <4>2, Wake_Def
      <4>8. value[s] + 1 <= Cardinality(E)
        BY <1>2, <4>2, <4>3, <4>5, <4>6, <4>7, SMTT(60)
      <4> QED
        BY <1>3, <3>2, <4>3, <4>8
    <3> QED
      BY <3>1, <3>2
  <2> QED
    BY <2>9, <2>11, Wake_Def_Prime
<1> QED
  BY <1>5, <1>6

\* A thread in sema_up(): of a lock, or of a thread that it signals.
LEMMA Wait_Sema_Up ==
  ASSUME WaitInv, NEW t \in Client, sema_up(t), UNCHANGED <<cwaiters, cnd>>
  PROVE  Order'
<1>1. PICK s : s = sem[t]
  OBVIOUS
<1>2. /\ cur = t /\ pc[t] = "up" /\ up(s) /\ goto(t, ret[t]) /\ UNCHANGED <<sem, ret>>
  BY <1>1 DEF sema_up, At
<1>3. /\ MutexType /\ PlaceOK(t) /\ Places /\ Signals /\ s \in Sema
      /\ \/ s \in Lock /\ ret[t] \in {"run", "cw_down"}
         \/ s \in Client /\ ret[t] \in {"run", "broadcast"}
  <2>1. MutexType /\ PlaceOK(t) /\ Places /\ Signals
    BY Wait_Types DEF Order
  <2>2. \/ s \in Lock /\ ret[t] \in {"run", "cw_down"}
        \/ s \in Client /\ ret[t] \in {"run", "broadcast"}
    BY <1>1, <1>2, <2>1 DEF PlaceOK
  <2> QED
    BY <2>1, <2>2, Kinds
<1>4. pc'[t] = ret[t] /\ Others(t)
  BY <1>2, Gone
<1>5. Sleepers' /\ NoLostWakeup'
  <2>1. pc[t] # "down"
    BY <1>2
  <2> QED
    BY <1>2, <1>3, <1>4, <2>1, Up_Sleep
<1>6. Places'
  <2>1. PlaceOK(t)'
    BY <1>3, <1>4 DEF PlaceOK
  <2> QED
    BY <1>3, <1>4, <2>1, Place_Keep
<1>7. value[s] \in Nat /\ value'[s] = value[s] + 1 /\ \A u \in Client : u # s => value'[u] = value[u]
  <2>1. value' = [value EXCEPT ![s] = value[s] + 1] /\ value \in [Sema -> Nat] /\ Client \subseteq Sema
    BY <1>2, <1>3, Kinds DEF up, MutexType
  <2> QED
    BY <1>3, <2>1
<1>8. Waiting(t)' <=> Waiting(t)
  BY <1>2, <1>3, <1>4 DEF Waiting
<1>9. /\ \A u \in Client : Waiting(u)' <=> Waiting(u)
      /\ \A u \in Client \ {t}, v \in Client : Ups(u, v)' <=> Ups(u, v)
  BY <1>4, <1>8, Others_Wait
<1>10. \A v \in Client : (Ups(t, v) <=> v = s) /\ ~Ups(t, v)'
  BY <1>1, <1>2, <1>3, <1>4 DEF Ups
<1>11. \A u \in Client : Listed(u)' <=> Listed(u)
  BY DEF Listed
<1>12. ASSUME NEW u \in Client PROVE SignalOK(u)'
  <2>1. SignalOK(u) /\ (Listed(u)' <=> Listed(u)) /\ (Waiting(u)' <=> Waiting(u))
    BY <1>3, <1>9, <1>11 DEF Signals
  <2>2. CASE u # s
    <3>1. \A v \in Client : Ups(v, u)' <=> Ups(v, u)
      BY <1>9, <1>10, <2>2
    <3>2. value'[u] = value[u]
      BY <1>7, <2>2
    <3> QED
      BY <2>1, <3>1, <3>2 DEF SignalOK
  <2>3. CASE u = s
    <3>1. Ups(t, u)
      BY <1>10, <2>3
    <3>2. Waiting(u) /\ ~Listed(u) /\ value[u] = 0 /\ \A v \in Client : Ups(v, u) => v = t
      BY <2>1, <3>1 DEF SignalOK
    <3>3. \A v \in Client : ~Ups(v, u)'
      BY <1>9, <1>10, <3>2
    <3>4. value'[u] = 1
      BY <1>7, <2>3, <3>2, SMTT(60)
    <3> QED
      BY <2>1, <3>2, <3>3, <3>4 DEF SignalOK
  <2> QED
    BY <2>2, <2>3
<1>13. Signals'
  BY <1>3, <1>12 DEF Signals
<1> QED
  BY <1>5, <1>6, <1>13 DEF Order

\* A client call of sema_up(), or a handler's: no thread moves inside synch.c.
LEMMA Wait_Up ==
  ASSUME WaitInv, NEW s \in Semaphore, up(s), UNCHANGED <<sem, ret, cwaiters, cnd>>,
         \A u \in Client : pc'[u] = pc[u]
  PROVE  Order'
<1>1. Others(Idle) /\ Idle \notin Client /\ s \in Sema /\ s \notin Client
  BY Kinds, SynchAssumption DEF Others
<1>2. Sleepers' /\ NoLostWakeup'
  BY <1>1, Up_Sleep
<1>3. Places /\ Signals /\ MutexType
  BY Wait_Types DEF Order
<1>4. Places'
  BY <1>1, <1>3, Place_Keep
<1>5. \A u \in Client : value'[u] = value[u]
  BY <1>1, <1>3, Kinds DEF up, MutexType
<1>6. \A u \in Client : (Waiting(u)' <=> Waiting(u)) /\ \A v \in Client : Ups(u, v)' <=> Ups(u, v)
  BY <1>1, Others_Wait
<1>7. Signals'
  BY <1>3, <1>5, <1>6, Cond_Keep
<1> QED
  BY <1>2, <1>4, <1>7 DEF Order

\* sema_down() finds the value above 0.
LEMMA Wait_Down ==
  ASSUME WaitInv, NEW t \in Client, cur = t, pc[t] = "down", value[sem[t]] > 0,
         value' = [value EXCEPT ![sem[t]] = @ - 1], intr_enable, goto(t, ret[t]),
         UNCHANGED <<waiters, sem, ret, cwaiters, cnd>>
  PROVE  Order'
<1>1. PICK s : s = sem[t]
  OBVIOUS
<1>2. /\ MutexType /\ Places /\ Sleepers /\ NoLostWakeup /\ Signals /\ s \in Sema /\ ~Blocked(t)
      /\ \/ s \in Semaphore \cup Lock /\ ret[t] \in {"run", "own"}
         \/ s = t /\ ret[t] = "cw_acquire"
  <2>1. MutexType /\ Places /\ Sleepers /\ NoLostWakeup /\ Signals /\ PlaceOK(t) /\ ~Blocked(t)
    BY Wait_Types DEF Order
  <2> QED
    BY <1>1, <2>1, Kinds DEF PlaceOK
<1>3. pc'[t] = ret[t] /\ Others(t)
  BY Gone
<1>4. Places'
  <2>1. PlaceOK(t)'
    BY <1>2, <1>3 DEF PlaceOK
  <2> QED
    BY <1>2, <1>3, <2>1, Place_Keep
<1>5. \A u \in Client : Blocked(u)' <=> Blocked(u)
  BY DEF intr_enable, Blocked
<1>6. \A u \in Client \ {t} : pc'[u] = pc[u] /\ sem'[u] = sem[u]
  BY <1>3 DEF Others
<1>7. Sleepers'
  BY <1>2, <1>5, <1>6, Sleep_Keep
<1>8. value \in [Sema -> Nat] /\ value[s] \in Nat /\ value[s] > 0 /\ value[s] - 1 \in Nat
  BY <1>1, <1>2, SMTT(60) DEF MutexType
<1>9. value' \in [Sema -> Nat] /\ value'[s] = value[s] - 1 /\ \A x \in Sema \ {s} : value'[x] = value[x]
  BY <1>1, <1>2, <1>8
<1>10. ASSUME NEW x \in Sema, waiters'[x] # <<>> PROVE value'[x] <= Cardinality(Downing(x)')
  <2>1. CASE x # s
    <3>1. waiters[x] # <<>> /\ value'[x] <= value[x]
      BY <1>8, <1>9, <1>10, <2>1, SMTT(60)
    <3>2. \A u \in Client : pc[u] = "down" /\ sem[u] = x /\ ~Blocked(u) => pc'[u] = "down" /\ sem'[u] = x /\ ~Blocked(u)'
      BY <1>1, <1>5, <1>6, <2>1
    <3> QED
      BY <1>2, <1>8, <1>9, <1>10, <3>1, <3>2, Wake_Keep
  <2>2. CASE x = s
    <3>1. /\ Downing(s) \in SUBSET Client /\ Downing(s)' \in SUBSET Client
          /\ t \in Downing(s) /\ Downing(s) \ {t} \subseteq Downing(s)'
      BY <1>1, <1>2, <1>5, <1>6 DEF Downing
    <3>2. PICK D : D = Downing(s) /\ D \in SUBSET Client /\ Cardinality(D) \in Nat
      BY <3>1, Count_Type
    <3>3. PICK E : E = Downing(s)' /\ E \in SUBSET Client /\ Cardinality(E) \in Nat
      BY <3>1, Count_Type
    <3>4. t \in D /\ D \ {t} \subseteq E
      BY <3>1, <3>2, <3>3
    <3>5. Cardinality(D \ {t}) = Cardinality(D) - 1
      <4>1. D \ {t} \in SUBSET Client /\ t \in Client \ (D \ {t}) /\ (D \ {t}) \cup {t} = D
        BY <3>2, <3>4
      <4>2. Cardinality(D) = Cardinality(D \ {t}) + 1 /\ Cardinality(D \ {t}) \in Nat
        BY <4>1, Count_Add, Count_Type
      <4> QED
        BY <4>2
    <3>6. Cardinality(D \ {t}) <= Cardinality(E)
      BY <3>3, <3>4, Count_Part
    <3>7. value[s] <= Cardinality(D)
      BY <1>2, <1>10, <2>2, <3>2, Wake_Def
    <3>8. value[s] - 1 <= Cardinality(E)
      BY <1>8, <3>2, <3>3, <3>5, <3>6, <3>7
    <3> QED
      BY <1>9, <2>2, <3>3, <3>8
  <2> QED
    BY <2>1, <2>2
<1>11. NoLostWakeup'
  BY <1>10, Wake_Def_Prime
<1>12. \A u \in Client : \A v \in Client : Ups(v, u)' <=> Ups(v, u)
  <2>1. \A u \in Client : ~Ups(t, u) /\ ~Ups(t, u)'
    BY <1>2, <1>3 DEF Ups
  <2> QED
    BY <1>3, <2>1, Others_Wait
<1>13. \A u \in Client \ {t} : Waiting(u)' <=> Waiting(u)
  BY <1>3, Others_Wait
<1>14. \A u \in Client : Listed(u)' <=> Listed(u)
  BY DEF Listed
<1>15. ASSUME NEW u \in Client PROVE SignalOK(u)'
  <2>1. SignalOK(u) /\ (Listed(u)' <=> Listed(u)) /\ \A v \in Client : Ups(v, u)' <=> Ups(v, u)
    BY <1>2, <1>12, <1>14 DEF Signals
  <2>2. CASE s = t /\ u = t
    <3>1. Waiting(u)
      BY <1>1, <2>2 DEF Waiting
    <3>2. ~Waiting(u)'
      BY <1>2, <1>3, <2>2, SynchAssumption, Kinds DEF Waiting
    <3>3. value[u] # 0
      BY <1>8, <2>2
    <3>4. value[u] = 1 /\ ~Listed(u) /\ \A v \in Client : ~Ups(v, u)
      BY <2>1, <3>1, <3>3 DEF SignalOK
    <3>5. value'[u] = 0
      BY <1>9, <2>2, <3>4, SMTT(60)
    <3> QED
      BY <2>1, <3>2, <3>4, <3>5 DEF SignalOK
  <2>3. CASE ~(s = t /\ u = t)
    <3>1. u # s
      BY <1>2, <2>3, Kinds, SynchAssumption
    <3>2. value'[u] = value[u]
      BY <1>9, <3>1, Kinds
    <3>3. u = t => ret[t] \in {"run", "own"} /\ s # t
      BY <1>2, <2>3
    <3>4. u = t => ~Waiting(u) /\ ~Waiting(u)'
      BY <1>1, <1>3, <3>3 DEF Waiting
    <3>5. Waiting(u)' <=> Waiting(u)
      BY <1>13, <3>4
    <3> QED
      BY <2>1, <3>2, <3>5 DEF SignalOK
  <2> QED
    BY <2>2, <2>3
<1>16. Signals'
  BY <1>2, <1>15 DEF Signals
<1> QED
  BY <1>4, <1>7, <1>11, <1>16 DEF Order

-----------------------------------------------------------------------------
(* Falling asleep *)

\* sema_down() finds the value 0: t joins the waiters and sleeps.
LEMMA Wait_Block ==
  ASSUME WaitInv, NEW t \in Client, cur = t, pc[t] = "down", value[sem[t]] = 0,
         waiters' = [waiters EXCEPT ![sem[t]] = Append(@, t)], thread_block,
         UNCHANGED <<value, pc, sem, ret, cwaiters, cnd>>
  PROVE  Order'
<1>1. PICK s : s = sem[t]
  OBVIOUS
<1>2. /\ MutexType /\ Places /\ Sleepers /\ NoLostWakeup /\ Signals /\ s \in Sema /\ ~Blocked(t)
      /\ waiters \in [Sema -> Seq(Client)] /\ value \in [Sema -> Nat]
  BY <1>1, Wait_Types DEF Order, MutexType, ThreadOK
<1>3. Blocked(t)' /\ \A u \in Client \ {t} : Blocked(u)' <=> Blocked(u)
  <2>1. ready_list \in Seq(Thread) /\ \A u \in Thread : On(u, ready_list) => status[u] = "READY"
    BY Wait_Types DEF TypeOK, ReadyListOK
  <2>2. schedule("BLOCKED", ready_list)
    BY DEF thread_block
  <2> QED
    BY <2>1, <2>2, Switch_Sleep
<1>4. Others(t)
  BY DEF Others
<1>5. Places'
  <2>1. PlaceOK(t)'
    BY <1>2 DEF Places, PlaceOK
  <2> QED
    BY <1>2, <1>4, <2>1, Place_Keep
<1>6. waiters'[s] = Append(waiters[s], t) /\ \A x \in Sema \ {s} : waiters'[x] = waiters[x]
  BY <1>1, <1>2
<1>7. ~On(t, waiters[s]) /\ Distinct(waiters[s]) /\ waiters[s] \in Seq(Client)
  BY <1>2 DEF Sleepers
<1>8. Distinct(waiters'[s]) /\ \A u : On(u, waiters'[s]) <=> On(u, waiters[s]) \/ u = t
  <2>1. PICK q \in Seq(Client) : q = waiters[s] /\ ~On(t, q) /\ Distinct(q)
    BY <1>7
  <2>2. Distinct(Append(q, t)) /\ \A u : On(u, Append(q, t)) <=> On(u, q) \/ u = t
    BY <2>1, Append_On
  <2> QED
    BY <1>6, <2>1, <2>2
<1>9. Sleepers'
  <2>1. \A x \in Sema : Distinct(waiters'[x])
    BY <1>2, <1>6, <1>8 DEF Sleepers
  <2>2. ASSUME NEW u \in Client
        PROVE  /\ Blocked(u)' => pc'[u] = "down"
               /\ \A x \in Sema : On(u, waiters'[x]) <=> (Blocked(u)' /\ sem'[u] = x)
    <3>1. /\ Blocked(u) => pc[u] = "down"
          /\ \A x \in Sema : On(u, waiters[x]) <=> (Blocked(u) /\ sem[u] = x)
      BY <1>2 DEF Sleepers
    <3>2. CASE u = t
      BY <1>1, <1>2, <1>3, <1>6, <1>8, <3>1, <3>2
    <3>3. CASE u # t
      <4>1. \A x \in Sema : On(u, waiters'[x]) <=> On(u, waiters[x])
        BY <1>6, <1>8, <3>3
      <4> QED
        BY <1>3, <3>1, <3>3, <4>1
    <3> QED
      BY <3>2, <3>3
  <2> QED
    BY <2>1, <2>2 DEF Sleepers
<1>10. ASSUME NEW x \in Sema, waiters'[x] # <<>> PROVE value'[x] <= Cardinality(Downing(x)')
  <2>1. CASE x = s
    <3>1. Downing(x)' \in SUBSET Client
      BY DEF Downing
    <3>2. Cardinality(Downing(x)') \in Nat
      BY <3>1, Count_Type
    <3>3. value'[x] = 0
      BY <1>1, <2>1
    <3> QED
      BY <3>2, <3>3
  <2>2. CASE x # s
    <3>1. waiters[x] # <<>> /\ value'[x] <= value[x]
      BY <1>2, <1>6, <1>10, <2>2, SMTT(60)
    <3>2. \A u \in Client : pc[u] = "down" /\ sem[u] = x /\ ~Blocked(u) => pc'[u] = "down" /\ sem'[u] = x /\ ~Blocked(u)'
      BY <1>1, <1>3, <2>2
    <3> QED
      BY <1>2, <1>10, <3>1, <3>2, Wake_Keep
  <2> QED
    BY <2>1, <2>2
<1>11. NoLostWakeup'
  BY <1>10, Wake_Def_Prime
<1>12. Signals'
  <2>1. \A u \in Client : (Waiting(u)' <=> Waiting(u)) /\ \A v \in Client : Ups(u, v)' <=> Ups(u, v)
    BY DEF Waiting, Ups
  <2> QED
    BY <1>2, <2>1, Cond_Keep
<1> QED
  BY <1>5, <1>9, <1>11, <1>12 DEF Order

\* No client thread moves inside synch.c, sleeps or wakes.
LEMMA Wait_Still ==
  ASSUME WaitInv, UNCHANGED <<value, waiters, sem, ret, cwaiters, cnd>>,
         \A u \in Client : pc'[u] = pc[u] /\ (Blocked(u)' <=> Blocked(u))
  PROVE  Order'
<1>1. Others(Idle) /\ Idle \notin Client
  BY Kinds DEF Others
<1>2. Places /\ Sleepers /\ NoLostWakeup /\ Signals /\ value \in [Sema -> Nat]
  BY Wait_Types DEF Order, MutexType
<1>3. Places' /\ Sleepers'
  BY <1>1, <1>2, Place_Keep, Sleep_Keep
<1>4. ASSUME NEW x \in Sema, waiters'[x] # <<>> PROVE value'[x] <= Cardinality(Downing(x)')
  <2>1. waiters[x] # <<>> /\ value'[x] <= value[x]
    BY <1>2, <1>4
  <2> QED
    BY <1>2, <1>4, <2>1, Wake_Keep
<1>5. \A u \in Client : (Waiting(u)' <=> Waiting(u)) /\ \A v \in Client : Ups(u, v)' <=> Ups(u, v)
  BY DEF Waiting, Ups
<1>6. Signals'
  BY <1>2, <1>5, Cond_Keep
<1> QED
  BY <1>3, <1>4, <1>6, Wake_Def_Prime DEF Order

-----------------------------------------------------------------------------
(* Every step *)

\* A thread inside synch.c.
LEMMA Wait_Inner ==
  ASSUME WaitInv, NEW t \in Client, Inner(t)
  PROVE  Order'
<1>1. CASE sema_down(t) /\ UNCHANGED <<cwaiters, cnd>>
  BY <1>1, Wait_Block, Wait_Down DEF sema_down
<1>2. CASE sema_up(t) /\ UNCHANGED <<cwaiters, cnd>>
  BY <1>2, Wait_Sema_Up
<1>3. CASE set_holder(t, "run") /\ UNCHANGED <<cwaiters, cnd>>
  BY <1>3, Wait_Set_Holder
<1>4. cur = t /\ pc[t] \in CondLabel => cnd[t] \in Cond /\ LockOf[cnd[t]] \in Lock
  BY Wait_Types, SynchAssumption DEF ThreadOK
<1>5. CASE cond_wait_release(t)
  <2>1. /\ cur = t /\ pc[t] = "cw_release" /\ release(t, LockOf[cnd[t]], "cw_down")
        /\ LockOf[cnd[t]] \in Lock /\ UNCHANGED <<cwaiters, cnd>>
    BY <1>4, <1>5 DEF cond_wait_release, At, CondLabel
  <2> QED
    BY <2>1, Wait_Release
<1>6. CASE cond_wait_down(t)
  <2>1. cur = t /\ pc[t] = "cw_down" /\ enter_down(t, t, "cw_acquire") /\ UNCHANGED <<cwaiters, cnd>> /\ t \in Sema
    BY <1>6, Kinds DEF cond_wait_down, At
  <2> QED
    BY <2>1, Wait_Enter_Down
<1>7. CASE cond_wait_acquire(t)
  <2>1. /\ cur = t /\ pc[t] = "cw_acquire" /\ enter_down(t, LockOf[cnd[t]], "own")
        /\ LockOf[cnd[t]] \in Lock /\ LockOf[cnd[t]] \in Sema /\ UNCHANGED <<cwaiters, cnd>>
    BY <1>4, <1>7, Kinds DEF cond_wait_acquire, At, CondLabel
  <2> QED
    BY <2>1, Wait_Enter_Down
<1>8. CASE broadcast_loop(t)
  <2>1. cur = t /\ pc[t] = "broadcast" /\ cnd[t] \in Cond /\ UNCHANGED cnd
    BY <1>4, <1>8 DEF broadcast_loop, At, CondLabel
  <2>2. CASE signal(t, cnd[t], "broadcast")
    BY <2>1, <2>2, Wait_Signal
  <2>3. CASE goto(t, "run") /\ UNCHANGED <<tvars, value, waiters, sem, ret, cwaiters>>
    <3>1. UNCHANGED <<status, value, waiters, sem, ret, cwaiters>>
      BY <2>3 DEF tvars
    <3> QED
      BY <2>1, <2>3, <3>1, Wait_Broadcast
  <2> QED
    BY <1>8, <2>2, <2>3 DEF broadcast_loop
<1> QED
  BY <1>1, <1>2, <1>3, <1>5, <1>6, <1>7, <1>8 DEF Inner

\* A call by the client code.
LEMMA Wait_Call ==
  ASSUME WaitInv, NEW t \in Client, ClientCall(t)
  PROVE  Order'
<1>1. ASSUME NEW s \in Semaphore, call_sema_down(t, s) PROVE Order'
  <2>1. cur = t /\ pc[t] = "run" /\ enter_down(t, s, "run") /\ UNCHANGED <<cwaiters, cnd>> /\ s \in Sema
    BY <1>1, Kinds DEF call_sema_down, Call, At
  <2> QED
    BY <2>1, Wait_Enter_Down
<1>2. ASSUME NEW s \in Semaphore, call_sema_try_down(t, s) PROVE Order'
  <2>1. /\ cur = t /\ pc[t] = "run" /\ try_down(s) /\ pc'[t] = "run"
        /\ UNCHANGED <<status, waiters, cwaiters, cnd>> /\ Others(t)
    BY <1>2 DEF call_sema_try_down, Call, At, tvars, Others
  <2> QED
    BY <2>1, Wait_Try
<1>3. ASSUME NEW s \in Semaphore, call_sema_up(t, s) PROVE Order'
  BY <1>3, Wait_Up DEF call_sema_up
<1>4. ASSUME NEW l \in Lock, lock_acquire(t, l) PROVE Order'
  <2>1. cur = t /\ pc[t] = "run" /\ enter_down(t, l, "own") /\ UNCHANGED <<cwaiters, cnd>> /\ l \in Sema
    BY <1>4, Kinds DEF lock_acquire, Call, At
  <2> QED
    BY <2>1, Wait_Enter_Down
<1>5. ASSUME NEW l \in Lock, lock_try_acquire(t, l) PROVE Order'
  <2>1. /\ cur = t /\ pc[t] = "run" /\ try_down(l) /\ goto(t, "own") /\ sem' = [sem EXCEPT ![t] = l]
        /\ UNCHANGED <<status, waiters, ret, cwaiters, cnd>>
    BY <1>5 DEF lock_try_acquire, Call, At, tvars
  <2>2. MutexType /\ t \in Thread /\ Client \subseteq Thread
    BY Wait_Types, Kinds
  <2>3. pc'[t] = "own" /\ Others(t)
    BY <2>1, <2>2 DEF goto, Others, MutexType
  <2> QED
    BY <2>1, <2>3, Wait_Try
<1>6. ASSUME NEW c \in Cond, cond_wait(t, c) PROVE Order'
  BY <1>6, Wait_Cond_Wait
<1>7. ASSUME NEW c \in Cond, cond_signal(t, c) PROVE Order'
  <2>1. cur = t /\ pc[t] = "run" /\ signal(t, c, "run") /\ UNCHANGED cnd
    BY <1>7 DEF cond_signal, Call, At
  <2> QED
    BY <2>1, Wait_Signal
<1>8. ASSUME NEW c \in Cond, cond_broadcast(t, c) PROVE Order'
  <2>1. /\ cur = t /\ pc[t] = "run" /\ goto(t, "broadcast") /\ cnd' = [cnd EXCEPT ![t] = c]
        /\ UNCHANGED <<status, value, waiters, sem, ret, cwaiters>>
    BY <1>8 DEF cond_broadcast, Call, At, tvars
  <2>2. \A u \in Client \ {t} : cnd'[u] = cnd[u]
    BY <2>1, Wait_Types, Kinds DEF MutexType
  <2> QED
    BY <2>1, <2>2, Wait_Broadcast
<1> QED
  BY <1>1, <1>2, <1>3, <1>4, <1>5, <1>6, <1>7, <1>8 DEF ClientCall

\* The idle thread, the timer and a thread that goes on after a preemption.
LEMMA Wait_None ==
  ASSUME WaitInv, (\E t \in Thread : Resumes(t)) \/ Idles \/ Ticks \/ UNCHANGED vars
  PROVE  Order'
<1>1. /\ Idle \notin Client /\ Client \subseteq Thread /\ MutexType
      /\ ready_list \in Seq(Thread) /\ \A u \in Thread : On(u, ready_list) => status[u] = "READY"
  BY Wait_Types, Kinds DEF TypeOK, ReadyListOK
<1>2. ASSUME NEW p, pc' = [pc EXCEPT ![Idle] = p] PROVE \A u \in Client : pc'[u] = pc[u]
  BY <1>1, <1>2 DEF MutexType
<1>3. UNCHANGED status => \A u \in Client : Blocked(u)' <=> Blocked(u)
  BY DEF Blocked
<1>4. CASE \E t \in Thread : Resumes(t)
  <2>1. UNCHANGED <<status, value, waiters, pc, sem, ret, cwaiters, cnd>>
    BY <1>4 DEF Resumes, resume, intr_enable, mvars
  <2> QED
    BY <1>3, <2>1, Wait_Still
<1>5. CASE UNCHANGED vars
  <2>1. UNCHANGED <<status, value, waiters, pc, sem, ret, cwaiters, cnd>>
    BY <1>5 DEF vars, svars, mvars, tvars
  <2> QED
    BY <1>3, <2>1, Wait_Still
<1>6. CASE Idles
  <2>1. cur = Idle /\ UNCHANGED <<value, waiters, sem, ret, cwaiters, cnd>>
    BY <1>6 DEF Idles, idle_loop
  <2>2. \A u \in Client : pc'[u] = pc[u]
    BY <1>2, <1>6 DEF Idles, idle_loop, goto
  <2>3. UNCHANGED status \/ schedule("BLOCKED", ready_list)
    BY <1>6 DEF Idles, idle_loop, intr_enable, intr_disable, thread_block
  <2>4. \A u \in Client : Blocked(u)' <=> Blocked(u)
    <3>1. CASE UNCHANGED status
      BY <1>3, <3>1
    <3>2. CASE schedule("BLOCKED", ready_list)
      <4>1. \A u \in Client : Blocked(u)' <=> IF u = cur THEN "BLOCKED" = "BLOCKED" ELSE Blocked(u)
        BY <1>1, <3>2, Switch_Sleep
      <4> QED
        BY <1>1, <2>1, <4>1
    <3> QED
      BY <2>3, <3>1, <3>2
  <2> QED
    BY <2>1, <2>2, <2>4, Wait_Still
<1>7. CASE Ticks
  <2>1. timer_interrupt /\ wake_hlt /\ UNCHANGED <<value, waiters, sem, ret, cwaiters, cnd>>
    BY <1>7 DEF Ticks, tick
  <2>2. \A u \in Client : pc'[u] = pc[u]
    BY <1>2, <2>1 DEF wake_hlt
  <2>3. UNCHANGED status \/ schedule("READY", yielded)
    BY <2>1 DEF timer_interrupt, thread_yield
  <2>4. \A u \in Client : Blocked(u)' <=> Blocked(u)
    <3>1. CASE UNCHANGED status
      BY <1>3, <3>1
    <3>2. CASE schedule("READY", yielded)
      <4>1. cur \in Thread
        BY Wait_Types DEF TypeOK
      <4>2. yielded \in Seq(Thread) /\ \A u \in Thread : On(u, yielded) => status[u] = "READY" \/ u = cur
        BY <1>1, <4>1, Append_On DEF yielded
      <4>3. \A u \in Client : Blocked(u)' <=> IF u = cur THEN "READY" = "BLOCKED" ELSE Blocked(u)
        BY <3>2, <4>2, Switch_Sleep
      <4>4. \A u \in Client : u = cur => ~Blocked(u)
        BY Wait_Types
      <4> QED
        BY <4>3, <4>4
    <3> QED
      BY <2>3, <3>1, <3>2
  <2> QED
    BY <2>1, <2>2, <2>4, Wait_Still
<1> QED
  BY <1>4, <1>5, <1>6, <1>7

LEMMA Order_Next == WaitInv /\ [SynchNext]_vars => Order'
<1> SUFFICES ASSUME WaitInv, [SynchNext]_vars PROVE Order'
  OBVIOUS
<1>1. ASSUME NEW t \in Client, NEW l \in Lock, lock_release(t, l) PROVE Order'
  <2>1. cur = t /\ pc[t] = "run" /\ release(t, l, "run") /\ UNCHANGED <<cwaiters, cnd>>
    BY <1>1 DEF lock_release, At
  <2> QED
    BY <2>1, Wait_Release
<1>2. ASSUME NEW s \in Semaphore, handler_sema_up(s) PROVE Order'
  <2>1. up(s) /\ wake_hlt /\ UNCHANGED <<sem, ret, cwaiters, cnd>>
    BY <1>2 DEF handler_sema_up
  <2>2. \A u \in Client : pc'[u] = pc[u]
    BY <2>1, Wait_Types, Kinds DEF wake_hlt, MutexType
  <2> QED
    BY <2>1, <2>2, Wait_Up
<1> QED
  BY <1>1, <1>2, Wait_Inner, Wait_Call, Wait_None DEF SynchNext

\* The invariant is inductive.
LEMMA Wait_Next == WaitInv /\ [SynchNext]_vars => WaitInv'
<1> SUFFICES ASSUME WaitInv, [SynchNext]_vars PROVE WaitInv'
  OBVIOUS
<1>1. MutexInv /\ IInv /\ ListType /\ Countable
  BY DEF WaitInv
<1>2. MutexInv'
  BY <1>1, Mutex_Next
<1>3. Frame
  BY Frame_Next
<1>4. IInv'
  BY <1>1, <1>3, Next_IInv DEF Frame
<1>5. ListType'
  BY <1>1, <1>3, Calls_Next DEF Frame, ListType
<1>6. Order'
  BY Order_Next
<1>7. Countable'
  BY <1>1 DEF Countable
<1> QED
  BY <1>2, <1>4, <1>5, <1>6, <1>7 DEF WaitInv

-----------------------------------------------------------------------------
(* The theorems *)

INSTANCE FiniteSetTheorems

\* The threads are finitely many, so they can be counted.
LEMMA Clients_Countable == IsFiniteSet(Client) /\ Countable
<1>1. IsFiniteSet(Client)
  <2>1. IsFiniteSet(Thread) /\ Client \subseteq Thread
    BY SynchAssumption DEF Client
  <2> QED
    BY <2>1, FS_Subset
<1>2. ASSUME NEW S \in SUBSET Client
      PROVE  /\ Cardinality(S) \in Nat
             /\ \A R \in SUBSET S : Cardinality(R) <= Cardinality(S)
             /\ \A t \in Client \ S : Cardinality(S \cup {t}) = Cardinality(S) + 1
  <2>1. IsFiniteSet(S)
    BY <1>1, FS_Subset
  <2>2. Cardinality(S) \in Nat
    BY <2>1, FS_CardinalityType
  <2>3. \A R \in SUBSET S : Cardinality(R) <= Cardinality(S)
    BY <2>1, FS_Subset
  <2>4. \A t \in Client \ S : Cardinality(S \cup {t}) = Cardinality(S) + 1
    BY <2>1, FS_AddElement
  <2> QED
    BY <2>2, <2>3, <2>4
<1> QED
  BY <1>1, <1>2 DEF Countable

\* thread_start() leaves the scheduler's invariants.
LEMMA Start_IInv == SynchInit => IInv
<1> SUFFICES ASSUME SynchInit PROVE IInv
  OBVIOUS
<1>1. /\ cur = initial_thread /\ idle_thread = Idle /\ intr = "on" /\ thread_ticks = 0
      /\ status = [t \in Thread |-> IF t = cur THEN "RUNNING" ELSE IF t = Idle THEN "BLOCKED" ELSE "READY"]
      /\ reap = [t \in Thread |-> <<>>]
  BY DEF SynchInit
<1>2. /\ initial_thread \in Thread /\ Idle \in Thread /\ Idle # initial_thread /\ TIME_SLICE \in Nat \ {0}
      /\ cur \in Client /\ Client \subseteq Thread
  BY <1>1, ThreadAssumption DEF Client
<1>3. PICK n \in Nat : n = Cardinality(Client) - 1
  <2>1. IsFiniteSet(Client) /\ Cardinality(Client) \in Nat
    BY Clients_Countable DEF Countable
  <2>2. Cardinality(Client) # 0
    BY <1>2, <2>1, FS_EmptySet
  <2>3. Cardinality(Client) - 1 \in Nat
    BY <2>1, <2>2
  <2> QED
    BY <2>3
<1>4. /\ ready_list \in [1 .. n -> Client \ {cur}] /\ Distinct(ready_list)
      /\ \A t \in Client \ {cur} : On(t, ready_list)
  BY <1>3 DEF SynchInit
<1>5. ready_list \in Seq(Client \ {cur}) /\ Len(ready_list) = n
  BY <1>3, <1>4
<1>6. ready_list \in Seq(Thread)
  BY <1>2, <1>4, <1>5, SMTT(60)
<1>7. \A t : On(t, ready_list) <=> t \in Client \ {cur}
  <2>1. ASSUME NEW t, On(t, ready_list) PROVE t \in Client \ {cur}
    BY <1>4, <1>5, <2>1 DEF On
  <2> QED
    BY <1>4, <2>1
<1>8. TypeOK
  <2>1. status \in [Thread -> Status]
    BY <1>1 DEF Status
  <2>2. thread_ticks \in 0 .. TIME_SLICE - 1
    BY <1>1, <1>2
  <2>3. reap \in [Thread -> Seq(Thread)]
    BY <1>1
  <2> QED
    BY <1>1, <1>2, <1>6, <2>1, <2>2, <2>3 DEF TypeOK
<1>9. OneRunning
  BY <1>1 DEF OneRunning
<1>10. ReadyListOK
  BY <1>1, <1>4, <1>7 DEF ReadyListOK, Client
<1>11. ReapOK
  BY <1>1, Empty_On DEF ReapOK
<1>12. TailBeforeIntr
  BY <1>1, <1>2 DEF TailBeforeIntr
<1>14. IdleOK
  BY <1>1, <1>2 DEF IdleOK, started
<1> QED
  BY <1>8, <1>9, <1>10, <1>11, <1>12, <1>14 DEF IInv

\* It holds when the client threads have been created.
LEMMA Wait_Init == SynchInit => WaitInv
<1> SUFFICES ASSUME SynchInit PROVE WaitInv
  OBVIOUS
<1>1. MutexInv /\ IInv /\ Countable
  BY Mutex_Init, Start_IInv, Clients_Countable
<1>2. /\ waiters = [s \in Sema |-> <<>>] /\ cwaiters = [c \in Cond |-> <<>>]
      /\ pc = [t \in Thread |-> IF t = Idle THEN "blocked" ELSE "run"]
      /\ calls = [t \in Thread |-> 0] /\ idle_thread = Idle
      /\ value = [s \in Sema |-> IF s \in Semaphore THEN InitValue ELSE IF s \in Lock THEN 1 ELSE 0]
      /\ cur = initial_thread
      /\ status = [t \in Thread |-> IF t = cur THEN "RUNNING" ELSE IF t = Idle THEN "BLOCKED" ELSE "READY"]
  BY DEF SynchInit
<1>3. ListType
  BY <1>2, SynchAssumption, SMTT(60) DEF ListType
<1>4. ASSUME NEW t \in Client PROVE pc[t] = "run" /\ value[t] = 0 /\ ~Blocked(t) /\ ~Waiting(t)
  <2>1. t \in Thread /\ t # Idle /\ t \in Sema /\ t \notin Semaphore /\ t \notin Lock
    BY Kinds, SynchAssumption
  <2>2. pc[t] = "run" /\ value[t] = 0
    BY <1>2, <2>1
  <2>3. ~Blocked(t)
    BY <1>2, <2>1 DEF Blocked
  <2> QED
    BY <2>2, <2>3 DEF Waiting
<1>5. Places
  BY <1>4 DEF Places, PlaceOK
<1>6. Sleepers
  BY <1>2, <1>4, Empty_On DEF Sleepers
<1>7. NoLostWakeup
  BY <1>2 DEF NoLostWakeup
<1>8. Signals
  <2>1. \A t : ~Listed(t)
    BY <1>2, Empty_On DEF Listed
  <2>2. \A t, u \in Client : ~Ups(u, t)
    BY <1>4 DEF Ups
  <2>3. \A t \in Client : SignalOK(t)
    BY <1>4, <2>1, <2>2 DEF SignalOK
  <2> QED
    BY <1>2, <2>3, Empty_On DEF Signals
<1> QED
  BY <1>1, <1>3, <1>5, <1>6, <1>7, <1>8 DEF WaitInv, Order

LEMMA Wait_WaitersOK == WaitInv => WaitersOK
  BY DEF WaitInv, MutexInv, MutexType, ListType, Order, Sleepers, Blocked, WaitersOK, SynchTypeOK

LEMMA Wait_SignalOnce == WaitInv => SignalOnce
<1> SUFFICES ASSUME WaitInv, NEW t \in Client
             PROVE  LET listed == \E c \in Cond : On(t, cwaiters[c])
                        upping == {u \in Client : pc[u] = "up" /\ sem[u] = t}
                    IN /\ Waiting(t) => value[t] + Cardinality(upping) = IF listed THEN 0 ELSE 1
                       /\ ~Waiting(t) => value[t] = 0 /\ upping = {} /\ ~listed
  BY DEF SignalOnce
<1>1. PICK U : U = {u \in Client : Ups(u, t)}
  OBVIOUS
<1>2. SignalOK(t)
  BY Wait_Types
<1>3. \/ U = {} /\ Cardinality(U) = 0
      \/ \E u \in Client : Ups(u, t) /\ U = {u} /\ Cardinality(U) = 1
      \/ \E u, v \in Client : Ups(u, t) /\ Ups(v, t) /\ u # v
  <2>1. CASE \A u \in Client : ~Ups(u, t)
    BY <1>1, <2>1, FS_EmptySet
  <2>2. CASE \E u \in Client : Ups(u, t) /\ \A v \in Client : Ups(v, t) => v = u
    <3>1. PICK u \in Client : Ups(u, t) /\ \A v \in Client : Ups(v, t) => v = u
      BY <2>2
    <3>2. U = {u}
      BY <1>1, <3>1
    <3>3. Cardinality(U) = 1
      BY <3>2, FS_Singleton
    <3> QED
      BY <3>1, <3>2, <3>3
  <2> QED
    BY <2>1, <2>2
<1>4. ~Waiting(t) => value[t] = 0 /\ U = {} /\ ~Listed(t)
  BY <1>1, <1>2 DEF SignalOK
<1>5. ASSUME Waiting(t) PROVE value[t] + Cardinality(U) = IF Listed(t) THEN 0 ELSE 1
  <2>1. CASE Listed(t)
    <3>1. value[t] = 0 /\ \A u \in Client : ~Ups(u, t)
      BY <1>2, <1>5, <2>1 DEF SignalOK
    <3>2. Cardinality(U) = 0
      BY <1>3, <3>1
    <3> QED
      BY <2>1, <3>1, <3>2
  <2>2. CASE ~Listed(t) /\ \A u \in Client : ~Ups(u, t)
    <3>1. value[t] = 1
      BY <1>2, <1>5, <2>2 DEF SignalOK
    <3>2. Cardinality(U) = 0
      BY <1>3, <2>2
    <3> QED
      BY <2>2, <3>1, <3>2
  <2>3. CASE ~Listed(t) /\ \E u \in Client : Ups(u, t)
    <3>1. value[t] = 0 /\ \E u \in Client : Ups(u, t) /\ \A v \in Client : Ups(v, t) => v = u
      BY <1>2, <1>5, <2>3 DEF SignalOK
    <3>2. Cardinality(U) = 1
      BY <1>1, <1>3, <3>1
    <3> QED
      BY <2>3, <3>1, <3>2
  <2> QED
    BY <2>1, <2>2, <2>3
<1> QED
  BY <1>1, <1>4, <1>5 DEF Listed, Ups

\* However many threads there are and whatever they call: a thread that blocks in
\* sema_down() is on the waiters list of that semaphore, once, and on no other, and
\* sema_up() takes from these lists only threads that are blocked.
THEOREM Spec_WaitersOK == SynchSpec => []WaitersOK
<1>1. SynchInit => WaitInv
  BY Wait_Init
<1>2. WaitInv /\ [SynchNext]_vars => WaitInv'
  BY Wait_Next
<1>3. WaitInv => WaitersOK
  BY Wait_WaitersOK
<1> QED
  BY <1>1, <1>2, <1>3, PTL DEF SynchSpec

\* sema_up() increments the value and wakes one thread, and the woken thread may find
\* the value taken by another: still no thread sleeps on a semaphore while a unit of its
\* value has nobody awake in sema_down() to take it.
THEOREM Spec_NoLostWakeup == SynchSpec => []NoLostWakeup
<1>1. SynchInit => WaitInv
  BY Wait_Init
<1>2. WaitInv /\ [SynchNext]_vars => WaitInv'
  BY Wait_Next
<1>3. WaitInv => NoLostWakeup
  BY DEF WaitInv, Order
<1> QED
  BY <1>1, <1>2, <1>3, PTL DEF SynchSpec

\* Every thread in cond_wait() is either still on the condition's list or has been given
\* one, and only one, unit of its semaphore by cond_signal() or cond_broadcast(); outside
\* cond_wait() nothing of it is left.
THEOREM Spec_SignalOnce == SynchSpec => []SignalOnce
<1>1. SynchInit => WaitInv
  BY Wait_Init
<1>2. WaitInv /\ [SynchNext]_vars => WaitInv'
  BY Wait_Next
<1>3. WaitInv => SignalOnce
  BY Wait_SignalOnce
<1> QED
  BY <1>1, <1>2, <1>3, PTL DEF SynchSpec

\* synch.c uses the scheduler as Threads has it: every step of Synch is, on the
\* scheduler's variables, a step of Threads or none, so that the scheduler's invariants
\* hold while threads synchronise.
THEOREM Spec_Scheduler == SynchSpec => [][Next]_tvars /\ [](OneRunning /\ ReadyListOK)
<1>1. SynchInit => WaitInv
  BY Wait_Init
<1>2. WaitInv /\ [SynchNext]_vars => WaitInv'
  BY Wait_Next
<1>3. WaitInv /\ [SynchNext]_vars => [Next]_tvars
  BY Frame_Next DEF Frame
<1>4. WaitInv => OneRunning /\ ReadyListOK
  BY DEF WaitInv, IInv
<1> QED
  BY <1>1, <1>2, <1>3, <1>4, PTL DEF SynchSpec

=============================================================================
