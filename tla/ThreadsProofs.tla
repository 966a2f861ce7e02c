--------------------------- MODULE ThreadsProofs ---------------------------
(***************************************************************************)
(* The scheduler's invariants for any number of threads and any time       *)
(* slice.  The switch is the heart: Schedule_IInv shows once that          *)
(* schedule() keeps the invariant, for every way of calling it.  The last  *)
(* two sections serve the modules built on the scheduler: which steps put  *)
(* a thread to sleep or wake it, and the state after thread_start().       *)
(***************************************************************************)
EXTENDS Threads, TLAPS

\* What the invariants of Threads rest on.  Until thread_start() there is one
\* thread and interrupts are off; from then on the idle thread either has set
\* idle_thread, or has yet to do so and is running or ready, so that the ready
\* list is not empty when another thread leaves the CPU.
IdleOK ==
  /\ ~started => /\ idle_thread = None /\ intr = "off" /\ cur = initial_thread
                 /\ \A t \in Thread : t # cur => status[t] = "NONE"
  /\ started => idle_thread = Idle \/ cur = Idle \/ status[Idle] = "READY"
  /\ status[Idle] # "DYING"

\* The inductive invariant.
IInv == TypeOK /\ OneRunning /\ ReadyListOK /\ ReapOK /\ TailBeforeIntr /\ IdleOK

----------------------------------------------------------------------------
(* Lists *)

\* list_push_back()
LEMMA Append_On ==
  ASSUME NEW S, NEW q \in Seq(S), NEW x \in S
  PROVE  /\ Append(q, x) \in Seq(S) /\ Append(q, x) # <<>>
         /\ \A t : On(t, Append(q, x)) <=> On(t, q) \/ t = x
         /\ Distinct(q) /\ ~On(x, q) => Distinct(Append(q, x))
BY DEF On, Distinct

\* list_pop_front()
LEMMA Tail_On ==
  ASSUME NEW S, NEW q \in Seq(S), q # <<>>
  PROVE  /\ Head(q) \in S /\ Tail(q) \in Seq(S)
         /\ \A t : On(t, q) <=> t = Head(q) \/ On(t, Tail(q))
         /\ Distinct(q) => Distinct(Tail(q)) /\ ~On(Head(q), Tail(q))
BY DEF On, Distinct

\* A new frame on a stack.
LEMMA Push_On ==
  ASSUME NEW S, NEW q \in Seq(S), NEW x \in S
  PROVE  /\ <<x>> \o q \in Seq(S) /\ <<x>> \o q # <<>>
         /\ \A t : On(t, <<x>> \o q) <=> t = x \/ On(t, q)
         /\ Distinct(q) /\ ~On(x, q) => Distinct(<<x>> \o q)
<1> DEFINE p == <<x>> \o q
<1>1. /\ p \in Seq(S) /\ Len(p) = Len(q) + 1 /\ p[1] = x
      /\ \A i \in 2 .. Len(p) : p[i] = q[i - 1]
  OBVIOUS
<1>2. \A i \in 1 .. Len(q) : p[i + 1] = q[i]
  BY <1>1
<1>3. p # <<>>
  BY <1>1
<1> HIDE DEF p
<1>4. ASSUME NEW t PROVE On(t, p) <=> t = x \/ On(t, q)
  <2>1. ASSUME On(t, p) PROVE t = x \/ On(t, q)
    BY <1>1, <2>1 DEF On
  <2>2. ASSUME t = x \/ On(t, q) PROVE On(t, p)
    BY <1>1, <1>2, <2>2 DEF On
  <2> QED
    BY <2>1, <2>2
<1>5. ASSUME Distinct(q), ~On(x, q) PROVE Distinct(p)
  <2> SUFFICES ASSUME NEW i \in 1 .. Len(p), NEW j \in 1 .. Len(p), p[i] = p[j]
               PROVE  i = j
    BY DEF Distinct
  <2>1. \A k \in 2 .. Len(p) : k - 1 \in 1 .. Len(q) /\ p[k] = q[k - 1] /\ p[k] # x
    BY <1>1, <1>5 DEF On
  <2>2. CASE i = 1 \/ j = 1
    <3>1. p[1] = x /\ Len(p) \in Nat
      BY <1>1
    <3>2. i # 1 => i \in 2 .. Len(p)
      BY <3>1
    <3>3. j # 1 => j \in 2 .. Len(p)
      BY <3>1
    <3>4. (i # 1 => p[i] # x) /\ (j # 1 => p[j] # x)
      BY <2>1, <3>2, <3>3
    <3> QED
      BY <2>2, <3>1, <3>4
  <2>3. CASE i # 1 /\ j # 1
    <3>1. q[i - 1] = q[j - 1] /\ i - 1 \in 1 .. Len(q) /\ j - 1 \in 1 .. Len(q)
      BY <2>1, <2>3, <1>1
    <3> QED
      BY <3>1, <1>5 DEF Distinct
  <2> QED
    BY <2>2, <2>3
<1> QED
  BY <1>1, <1>3, <1>4, <1>5 DEF p

LEMMA Empty_On == /\ \A t : ~On(t, <<>>)
                  /\ Distinct(<<>>)
BY DEF On, Distinct
----------------------------------------------------------------------------
(* The switch *)

\* How thread_block(), thread_yield() and thread_exit() call schedule(): S is the
\* caller's new state and RL the ready list.
Leaves(s, rl) ==
  /\ started
  /\ s \in {"READY", "BLOCKED", "DYING"}
  /\ s = "BLOCKED" /\ cur = Idle => idle_thread = Idle
  /\ s = "DYING" => cur # Idle /\ reap[cur] = <<>>
  /\ rl \in Seq(Thread) /\ Distinct(rl)
  /\ \A t \in Thread : On(t, rl) <=> /\ t # idle_thread
                                     /\ IF t = cur THEN s = "READY" ELSE status[t] = "READY"
  /\ schedule(s, rl)
  /\ idle_thread' = idle_thread
  /\ intr' = "off"

\* The thread schedule() switches to exists, is alive and is off the ready list
\* afterwards; it is the caller itself only if that is idle or yields.
LEMMA Next_Thread ==
  ASSUME IInv, NEW s, NEW rl, Leaves(s, rl)
  PROVE  /\ cur' \in Thread
         /\ status[cur'] \notin {"NONE", "DYING"}
         /\ cur' = cur => s # "DYING"
         /\ ready_list' \in Seq(Thread) /\ Distinct(ready_list')
         /\ \A t \in Thread : On(t, ready_list') <=> On(t, rl) /\ t # cur'
<1> USE ThreadAssumption
<1> DEFINE next == next_thread_to_run(rl)
<1>1. cur' = next /\ ready_list' = IF rl = <<>> THEN rl ELSE Tail(rl)
  BY DEF Leaves, schedule
<1>2. CASE rl = <<>>
  <2>1. ~On(cur, rl) /\ ~On(Idle, rl)
    BY <1>2, Empty_On
  <2>2. idle_thread = Idle
    BY <2>1 DEF Leaves, IInv, IdleOK, TypeOK, OneRunning
  <2>3. next = Idle
    BY <1>2, <2>2 DEF next_thread_to_run
  <2>4. status[Idle] \notin {"NONE", "DYING"}
    BY DEF IInv, IdleOK, Leaves, started
  <2> HIDE DEF next
  <2>5. ready_list' = rl /\ \A t \in Thread : ~On(t, rl)
    BY <1>1, <1>2, Empty_On
  <2>6. \A t \in Thread : On(t, ready_list') <=> On(t, rl) /\ t # cur'
    BY <2>5
  <2> QED
    BY <1>1, <2>2, <2>3, <2>4, <2>5, <2>6 DEF Leaves
<1>3. CASE rl # <<>>
  <2>1. next = Head(rl)
    BY <1>3 DEF next_thread_to_run
  <2>2. /\ Head(rl) \in Thread /\ Tail(rl) \in Seq(Thread)
        /\ \A t : On(t, rl) <=> t = Head(rl) \/ On(t, Tail(rl))
        /\ Distinct(Tail(rl)) /\ ~On(Head(rl), Tail(rl))
    BY <1>3, Tail_On DEF Leaves
  <2>3. IF Head(rl) = cur THEN s = "READY" ELSE status[Head(rl)] = "READY"
    BY <2>2 DEF Leaves
  <2>4. status[cur] = "RUNNING"
    BY DEF IInv, OneRunning, TypeOK
  <2> HIDE DEF next
  <2>5. ready_list' = Tail(rl)
    BY <1>1, <1>3
  <2> QED
    BY <1>1, <2>1, <2>2, <2>3, <2>4, <2>5
<1> QED
  BY <1>2, <1>3

\* schedule() keeps the invariant.
LEMMA Schedule_IInv ==
  ASSUME IInv, NEW s, NEW rl, Leaves(s, rl)
  PROVE  IInv'
<1> USE ThreadAssumption
<1>1. /\ cur' \in Thread
      /\ status[cur'] \notin {"NONE", "DYING"}
      /\ cur' = cur => s # "DYING"
      /\ ready_list' \in Seq(Thread) /\ Distinct(ready_list')
      /\ \A t \in Thread : On(t, ready_list') <=> On(t, rl) /\ t # cur'
  BY Next_Thread
<1>2. /\ status' = [status EXCEPT ![cur] = s, ![cur'] = "RUNNING"]
      /\ thread_ticks' = 0
      /\ idle_thread' = idle_thread /\ intr' = "off"
  BY DEF Leaves, schedule, switched
<1>3. /\ status \in [Thread -> Status] /\ cur \in Thread
      /\ reap \in [Thread -> Seq(Thread)] /\ s \in {"READY", "BLOCKED", "DYING"}
      /\ \A t \in Thread : status[t] = "RUNNING" <=> t = cur
  BY DEF IInv, TypeOK, OneRunning, Leaves
<1>4. \A t \in Thread : status'[t] = IF t = cur' THEN "RUNNING" ELSE IF t = cur THEN s ELSE status[t]
  BY <1>1, <1>2, <1>3
<1>5. reap' = IF cur' # cur /\ s = "DYING" /\ cur # initial_thread
              THEN [reap EXCEPT ![cur'] = <<cur>> \o @] ELSE reap
  BY DEF Leaves, schedule, prev_to_free
<1>6. TypeOK'
  <2>1. reap' \in [Thread -> Seq(Thread)]
    BY <1>1, <1>3, <1>5, Push_On
  <2>2. status' \in [Thread -> Status]
    BY <1>1, <1>2, <1>3, Zenon DEF Status
  <2>3. 0 \in 0 .. TIME_SLICE - 1
    BY <1>2, <1>3
  <2> QED
    BY <1>1, <1>2, <2>1, <2>2, <2>3, Zenon DEF IInv, TypeOK
<1>7. OneRunning'
  BY <1>1, <1>3, <1>4, Zenon DEF OneRunning
<1>8. ReadyListOK'
  BY <1>1, <1>2, <1>3, <1>4, Zenon DEF ReadyListOK, Leaves
<1>9. ReapOK'
  <2>1. CASE ~(s = "DYING" /\ cur # initial_thread)
    <3>1. reap' = reap
      BY <1>5, <2>1
    <3>2. s = "DYING" => reap[cur] = <<>> /\ cur' # cur /\ cur = initial_thread
      BY <1>1, <2>1 DEF Leaves
    <3> QED
      BY <1>1, <1>3, <1>4, <3>1, <3>2, Zenon DEF IInv, ReapOK
  <2>2. CASE s = "DYING" /\ cur # initial_thread
    <3>1. cur' # cur /\ reap[cur] = <<>>
      BY <1>1, <2>2 DEF Leaves
    <3>2. reap' = [reap EXCEPT ![cur'] = <<cur>> \o reap[cur']]
      BY <1>5, <2>2, <3>1
    <3>3. \A r \in Thread : ~On(cur, reap[r])
      BY <1>3, Zenon DEF IInv, ReapOK
    <3>4. /\ \A t : On(t, reap'[cur']) <=> t = cur \/ On(t, reap[cur'])
          /\ Distinct(reap'[cur'])
      BY <1>1, <1>3, <3>2, <3>3, Push_On DEF IInv, ReapOK
    <3>5. \A r \in Thread : r # cur' => reap'[r] = reap[r]
      BY <1>1, <1>3, <3>2
    <3>6. \A r \in Thread : reap'[r] # <<>> => status'[r] \notin {"NONE", "DYING"}
      BY <1>1, <1>3, <1>4, <3>1, <3>5, Zenon DEF IInv, ReapOK
    <3>7. \A r \in Thread : Distinct(reap'[r])
      BY <3>4, <3>5 DEF IInv, ReapOK
    <3>8. \A t \in Thread : (\E r \in Thread : On(t, reap'[r])) <=> (status'[t] = "DYING" /\ t # initial_thread)
      <4> SUFFICES ASSUME NEW t \in Thread
                   PROVE  (\E r \in Thread : On(t, reap'[r])) <=> (status'[t] = "DYING" /\ t # initial_thread)
        OBVIOUS
      <4>1. (\E r \in Thread : On(t, reap'[r])) <=> t = cur \/ \E r \in Thread : On(t, reap[r])
        BY <1>1, <3>4, <3>5
      <4> QED
        BY <1>1, <1>3, <1>4, <2>2, <3>1, <4>1, Zenon DEF IInv, ReapOK
    <3>9. \A t, r1, r2 \in Thread : On(t, reap'[r1]) /\ On(t, reap'[r2]) => r1 = r2
      BY <1>1, <3>3, <3>4, <3>5 DEF IInv, ReapOK
    <3> QED
      BY <3>6, <3>7, <3>8, <3>9 DEF ReapOK
  <2> QED
    BY <2>1, <2>2
<1>10. TailBeforeIntr'
  BY <1>2 DEF TailBeforeIntr
<1>12. IdleOK'
  <2>1. started /\ started' /\ status'[Idle] # "DYING"
    BY <1>1, <1>3, <1>4, Zenon DEF IInv, IdleOK, Leaves, started
  <2>2. idle_thread' = Idle \/ cur' = Idle \/ status'[Idle] = "READY"
    BY <1>1, <1>2, <1>3, <1>4, <2>1 DEF IInv, IdleOK, Leaves
  <2> QED
    BY <2>1, <2>2 DEF IdleOK
<1> QED
  BY <1>6, <1>7, <1>8, <1>9, <1>10, <1>12 DEF IInv

----------------------------------------------------------------------------
(* The invariant *)

\* The calls of schedule().
LEMMA Block_Leaves ==
  ASSUME IInv, thread_block
  PROVE  Leaves("BLOCKED", ready_list)
  BY DEF IInv, TypeOK, ReadyListOK, OneRunning, thread_block, Leaves

LEMMA Yield_Leaves ==
  ASSUME IInv, thread_yield
  PROVE  Leaves("READY", yielded)
<1>1. /\ OneRunning /\ ReadyListOK /\ cur \in Thread /\ status[cur] = "RUNNING"
      /\ ready_list \in Seq(Thread) /\ Distinct(ready_list) /\ ~On(cur, ready_list)
  BY DEF IInv, TypeOK, OneRunning, ReadyListOK
<1>2. CASE cur # idle_thread
  <2>1. /\ yielded \in Seq(Thread) /\ Distinct(yielded)
        /\ \A u : On(u, yielded) <=> On(u, ready_list) \/ u = cur
    BY <1>1, <1>2, Append_On DEF yielded
  <2> QED
    BY <1>1, <1>2, <2>1 DEF thread_yield, Leaves, ReadyListOK
<1>3. CASE cur = idle_thread
  <2>1. yielded = ready_list
    BY <1>3 DEF yielded
  <2> QED
    BY <1>1, <1>3, <2>1 DEF thread_yield, Leaves, ReadyListOK
<1> QED
  BY <1>2, <1>3

LEMMA Exit_Leaves ==
  ASSUME IInv, thread_exit
  PROVE  Leaves("DYING", ready_list)
  BY DEF IInv, TypeOK, ReadyListOK, OneRunning, TailBeforeIntr, thread_exit, Leaves

\* At boot there is the initial thread and nothing else.
LEMMA Init_IInv == Init => IInv
<1> USE ThreadAssumption
<1> SUFFICES ASSUME Init PROVE IInv
  OBVIOUS
<1>1. TypeOK
  BY DEF Init, TypeOK, Status
<1>2. OneRunning /\ TailBeforeIntr
  BY DEF Init, OneRunning, TailBeforeIntr
<1>3. ReadyListOK /\ ReapOK
  BY Empty_On DEF Init, ReadyListOK, ReapOK
<1>4. IdleOK
  BY DEF Init, IdleOK, started
<1> QED
  BY <1>1, <1>2, <1>3, <1>4 DEF IInv

\* Every operation keeps the invariant.
LEMMA Next_IInv == IInv /\ [Next]_tvars => IInv'
<1> USE ThreadAssumption
<1> SUFFICES ASSUME IInv, [Next]_tvars PROVE IInv'
  OBVIOUS
<1>0. /\ TypeOK /\ OneRunning /\ ReadyListOK /\ ReapOK /\ TailBeforeIntr /\ IdleOK
      /\ status \in [Thread -> Status] /\ cur \in Thread /\ status[cur] = "RUNNING"
      /\ ready_list \in Seq(Thread) /\ reap \in [Thread -> Seq(Thread)]
  BY DEF IInv, TypeOK, OneRunning
<1>1. CASE thread_start
  <2>1. /\ ready_list' = Append(ready_list, Idle) /\ status' = [status EXCEPT ![Idle] = "READY"]
        /\ idle_thread = None /\ intr' = "on"
        /\ UNCHANGED <<cur, idle_thread, thread_ticks, reap>>
        /\ status[Idle] = "NONE"
    BY <1>0, <1>1 DEF thread_start, IdleOK, started
  <2>2. ready_list' \in Seq(Thread) /\ Distinct(ready_list')
        /\ \A t : On(t, ready_list') <=> On(t, ready_list) \/ t = Idle
    BY <1>0, <2>1, Append_On DEF ReadyListOK
  <2>3. TypeOK'
    BY <1>0, <2>1, <2>2 DEF TypeOK, Status
  <2>4. OneRunning'
    BY <1>0, <2>1 DEF OneRunning
  <2>5. ReadyListOK'
    BY <1>0, <2>1, <2>2 DEF ReadyListOK
  <2>6. ReapOK'
    BY <1>0, <2>1 DEF ReapOK
  <2>7. TailBeforeIntr'
    <3>1. \A t \in Thread : t # cur => status[t] = "NONE"
      BY <1>0, <2>1 DEF IdleOK, started
    <3>2. \A t \in Thread : ~On(t, reap[cur])
      BY <1>0, <3>1, SMTT(60) DEF ReapOK
    <3>3. reap[cur] = <<>>
      BY <1>0, <3>2, Tail_On
    <3> QED
      BY <2>1, <3>3 DEF TailBeforeIntr
  <2>8. IdleOK'
    BY <1>0, <2>1 DEF IdleOK, started
  <2> QED
    BY <2>3, <2>4, <2>5, <2>6, <2>7, <2>8 DEF IInv
<1>2. CASE idle
  <2>1. /\ idle_thread' = Idle /\ cur = Idle /\ status[Idle] = "RUNNING"
        /\ UNCHANGED <<status, ready_list, cur, intr, thread_ticks, reap>>
    BY <1>0, <1>2 DEF idle
  <2>2. TypeOK' /\ OneRunning' /\ ReapOK' /\ TailBeforeIntr' /\ IdleOK'
    BY <1>0, <2>1 DEF TypeOK, OneRunning, ReapOK, TailBeforeIntr, IdleOK, started
  <2>3. ReadyListOK'
    BY <1>0, <1>2, <2>1 DEF ReadyListOK, idle
  <2> QED
    BY <2>2, <2>3 DEF IInv
<1>3. CASE intr_disable \/ intr_enable
  <2>1. /\ UNCHANGED <<status, ready_list, cur, idle_thread, thread_ticks, reap>>
        /\ intr' \in {"on", "off"}
        /\ intr' = "on" => started /\ reap[cur] = <<>>
    BY <1>3 DEF intr_disable, intr_enable, switch_complete
  <2>2. TypeOK' /\ OneRunning' /\ ReadyListOK' /\ ReapOK'
    BY <1>0, <2>1 DEF TypeOK, OneRunning, ReadyListOK, ReapOK
  <2>3. TailBeforeIntr' /\ IdleOK'
    BY <1>0, <2>1 DEF TailBeforeIntr, IdleOK, started
  <2> QED
    BY <2>2, <2>3 DEF IInv
<1>4. ASSUME NEW t \in Thread, thread_create(t) PROVE IInv'
  <2>1. /\ status' = [status EXCEPT ![t] = "BLOCKED"]
        /\ UNCHANGED <<ready_list, cur, idle_thread, intr, thread_ticks, reap>>
        /\ status[t] = "NONE" /\ started
    BY <1>4 DEF thread_create
  <2>2. t # Idle /\ t # cur
    BY <1>0, <2>1 DEF started
  <2>3. TypeOK'
    BY <1>0, <2>1 DEF TypeOK, Status
  <2>4. OneRunning' /\ ReadyListOK' /\ TailBeforeIntr'
    BY <1>0, <2>1, <2>2 DEF OneRunning, ReadyListOK, TailBeforeIntr
  <2>5. ReapOK'
    BY <1>0, <2>1 DEF ReapOK
  <2>6. IdleOK'
    BY <1>0, <2>1, <2>2 DEF IdleOK, started
  <2> QED
    BY <2>3, <2>4, <2>5, <2>6 DEF IInv
<1>5. ASSUME NEW t \in Thread, thread_unblock(t) PROVE IInv'
  <2>1. /\ status' = [status EXCEPT ![t] = "READY"] /\ ready_list' = Append(ready_list, t)
        /\ UNCHANGED <<cur, idle_thread, intr, thread_ticks, reap>>
        /\ status[t] = "BLOCKED" /\ t # idle_thread /\ started /\ t # cur
    BY <1>0, <1>5 DEF thread_unblock, can_unblock
  <2>2. ready_list' \in Seq(Thread) /\ Distinct(ready_list')
        /\ \A u : On(u, ready_list') <=> On(u, ready_list) \/ u = t
    BY <1>0, <2>1, Append_On DEF ReadyListOK
  <2>3. TypeOK'
    BY <1>0, <2>1, <2>2 DEF TypeOK, Status
  <2>4. OneRunning' /\ TailBeforeIntr'
    BY <1>0, <2>1, Zenon DEF OneRunning, TailBeforeIntr
  <2>5. ReadyListOK'
    BY <1>0, <2>1, <2>2 DEF ReadyListOK
  <2>6. ReapOK'
    BY <1>0, <2>1 DEF ReapOK
  <2>7. IdleOK'
    BY <1>0, <2>1 DEF IdleOK, started
  <2> QED
    BY <2>3, <2>4, <2>5, <2>6, <2>7 DEF IInv
<1>6. CASE thread_block
  BY <1>6, Block_Leaves, Schedule_IInv
<1>7. CASE thread_yield
  BY <1>7, Yield_Leaves, Schedule_IInv
<1>8. CASE thread_exit
  BY <1>8, Exit_Leaves, Schedule_IInv
<1>9. CASE free_prev
  <2> DEFINE dead == Head(reap[cur])
  <2>1. /\ status' = [status EXCEPT ![dead] = "NONE"] /\ reap' = [reap EXCEPT ![cur] = Tail(reap[cur])]
        /\ UNCHANGED <<ready_list, cur, idle_thread, intr, thread_ticks>>
        /\ reap[cur] # <<>> /\ intr = "off"
    BY <1>9 DEF free_prev
  <2>2. /\ dead \in Thread /\ Tail(reap[cur]) \in Seq(Thread)
        /\ \A t : On(t, reap[cur]) <=> t = dead \/ On(t, Tail(reap[cur]))
        /\ Distinct(Tail(reap[cur])) /\ ~On(dead, Tail(reap[cur]))
    BY <1>0, <2>1, Tail_On DEF ReapOK
  <2> HIDE DEF dead
  <2>3. status[dead] = "DYING" /\ dead # initial_thread /\ dead # cur /\ dead # Idle
    BY <1>0, <2>2 DEF ReapOK, IdleOK
  <2>4. started
    BY <1>0, <2>2, <2>3 DEF IdleOK
  <2>5. /\ \A r \in Thread : reap'[r] = IF r = cur THEN Tail(reap[cur]) ELSE reap[r]
        /\ \A t \in Thread : status'[t] = IF t = dead THEN "NONE" ELSE status[t]
    BY <1>0, <2>1, <2>2
  <2>6. TypeOK'
    BY <1>0, <2>1, <2>2 DEF TypeOK, Status
  <2>7. OneRunning' /\ ReadyListOK' /\ TailBeforeIntr'
    BY <1>0, <2>1, <2>2, <2>3, <2>5 DEF OneRunning, ReadyListOK, TailBeforeIntr
  <2>8. ReapOK'
    <3>1. reap[dead] = <<>>
      BY <1>0, <2>2, <2>3 DEF ReapOK
    <3>2. ASSUME NEW t \in Thread, NEW r \in Thread
          PROVE  On(t, reap'[r]) <=> On(t, reap[r]) /\ t # dead
      <4>1. CASE r = cur
        <5>1. reap'[r] = Tail(reap[cur])
          BY <2>5, <4>1
        <5> QED
          BY <2>2, <4>1, <5>1
      <4>2. CASE r # cur
        <5>1. reap'[r] = reap[r] /\ On(dead, reap[cur])
          BY <2>2, <2>5, <4>2
        <5>2. ~On(dead, reap[r])
          BY <1>0, <2>2, <4>2, <5>1 DEF ReapOK
        <5> QED
          BY <5>1, <5>2
      <4> QED
        BY <4>1, <4>2
    <3>3. \A r \in Thread : reap'[r] # <<>> => status'[r] \notin {"NONE", "DYING"}
      BY <1>0, <2>1, <2>3, <2>5, <3>1 DEF ReapOK
    <3>4. \A r \in Thread : Distinct(reap'[r])
      BY <1>0, <2>2, <2>5, Zenon DEF ReapOK
    <3>5. \A t \in Thread : (\E r \in Thread : On(t, reap'[r])) <=> (status'[t] = "DYING" /\ t # initial_thread)
      BY <1>0, <2>5, <3>2 DEF ReapOK
    <3>6. \A t, r1, r2 \in Thread : On(t, reap'[r1]) /\ On(t, reap'[r2]) => r1 = r2
      BY <1>0, <3>2 DEF ReapOK
    <3> QED
      BY <3>3, <3>4, <3>5, <3>6 DEF ReapOK
  <2>9. IdleOK'
    BY <1>0, <2>1, <2>3, <2>4, <2>5 DEF IdleOK, started
  <2> QED
    BY <2>6, <2>7, <2>8, <2>9 DEF IInv
<1>10. CASE timer_interrupt
  <2>1. CASE slice_over /\ thread_yield
    BY <1>7, <2>1
  <2>2. CASE ~slice_over /\ thread_ticks' = thread_ticks + 1
             /\ UNCHANGED <<status, ready_list, cur, idle_thread, intr, reap>>
    <3>1. TypeOK'
      BY <1>0, <2>2 DEF TypeOK, slice_over
    <3>2. OneRunning' /\ ReadyListOK' /\ ReapOK' /\ TailBeforeIntr' /\ IdleOK'
      BY <1>0, <2>2 DEF OneRunning, ReadyListOK, ReapOK, TailBeforeIntr, IdleOK, started
    <3> QED
      BY <3>1, <3>2 DEF IInv
  <2> QED
    BY <1>10, <2>1, <2>2 DEF timer_interrupt
<1>11. CASE UNCHANGED tvars
  BY <1>11 DEF tvars, IInv, TypeOK, OneRunning, ReadyListOK, ReapOK, TailBeforeIntr, IdleOK, started
<1> QED
  BY <1>1, <1>2, <1>3, <1>4, <1>5, <1>6, <1>7, <1>8, <1>9, <1>10, <1>11 DEF Next

\* In every execution of the scheduler the invariants hold, for any set of
\* threads and any TIME_SLICE.
THEOREM Spec_IInv == Spec => []IInv
<1>1. Init => IInv
  BY Init_IInv
<1>2. IInv /\ [Next]_tvars => IInv'
  BY Next_IInv
<1> QED
  BY <1>1, <1>2, PTL DEF Spec

\* schedule() always finds a thread to run, and the thread on the CPU is the one
\* in state THREAD_RUNNING.
THEOREM Spec_OneRunning == Spec => [](TypeOK /\ OneRunning)
BY Spec_IInv, PTL DEF IInv

\* The run queue holds exactly the ready threads, each once.
THEOREM Spec_ReadyListOK == Spec => []ReadyListOK
BY Spec_IInv, PTL DEF IInv

\* A thread that exits is destroyed exactly once, by a live thread and with
\* interrupts still off.
THEOREM Spec_ReapOK == Spec => [](ReapOK /\ TailBeforeIntr)
BY Spec_IInv, PTL DEF IInv

-----------------------------------------------------------------------------
(* Who sleeps *)

Asleep(t) == status[t] = "BLOCKED"

\* schedule() puts its caller to sleep or nobody, and wakes nobody but idle: the
\* next thread was ready.
LEMMA Schedule_Asleep ==
  ASSUME IInv, NEW s, NEW rl, Leaves(s, rl)
  PROVE  \A t \in Thread \ {Idle} : Asleep(t)' <=> IF t = cur THEN s = "BLOCKED" ELSE Asleep(t)
<1>1. TypeOK /\ OneRunning /\ status[cur] = "RUNNING" /\ cur \in Thread /\ status \in [Thread -> Status]
  BY DEF IInv, TypeOK, OneRunning
<1>2. PICK n : n = next_thread_to_run(rl)
  OBVIOUS
<1>3. cur' = n /\ status' = [status EXCEPT ![cur] = s, ![n] = "RUNNING"]
  BY <1>2 DEF Leaves, schedule, switched
<1>4. n \in Thread /\ (n = Idle \/ IF n = cur THEN s = "READY" ELSE status[n] = "READY")
  <2>1. cur' \in Thread
    BY Next_Thread
  <2>2. CASE rl = <<>>
    BY <1>1, <1>2, <1>3, <2>1, <2>2, ThreadAssumption DEF next_thread_to_run, TypeOK
  <2>3. CASE rl # <<>>
    <3>1. n = Head(rl) /\ On(n, rl)
      BY <1>2, <2>3, Tail_On DEF next_thread_to_run, Leaves
    <3> QED
      BY <1>3, <2>1, <3>1 DEF Leaves
  <2> QED
    BY <2>2, <2>3
<1>5. ASSUME NEW t \in Thread \ {Idle} PROVE Asleep(t)' <=> IF t = cur THEN s = "BLOCKED" ELSE Asleep(t)
  <2>1. status'[t] = IF t = n THEN "RUNNING" ELSE IF t = cur THEN s ELSE status[t]
    BY <1>1, <1>3, <1>4
  <2>2. CASE t = cur
    <3>1. s = "BLOCKED" => t # n
      BY <1>4, <2>2
    <3> QED
      BY <2>1, <2>2, <3>1 DEF Asleep
  <2>3. CASE t # cur
    <3>1. t = n => status[t] = "READY"
      BY <1>4, <2>3
    <3> QED
      BY <2>1, <2>3, <3>1 DEF Asleep
  <2> QED
    BY <2>2, <2>3
<1> QED
  BY <1>5

\* The running thread does not sleep.
LEMMA Awake ==
  ASSUME IInv
  PROVE  cur \in Thread /\ ~Asleep(cur) /\ status[cur] = "RUNNING"
  BY DEF IInv, TypeOK, OneRunning, Asleep

\* thread_block() puts the caller to sleep, interrupts stay off.
LEMMA Block_Asleep ==
  ASSUME IInv, thread_block
  PROVE  /\ \A t \in Thread \ {Idle} : Asleep(t)' <=> t = cur \/ Asleep(t)
         /\ intr' = "off" /\ UNCHANGED idle_thread
<1>1. Leaves("BLOCKED", ready_list) /\ intr' = "off" /\ UNCHANGED idle_thread
  BY Block_Leaves DEF thread_block
<1> QED
  BY <1>1, Schedule_Asleep

\* A tick, with or without a switch, leaves the sleepers alone.
LEMMA Tick_Asleep ==
  ASSUME IInv, timer_interrupt
  PROVE  /\ \A t \in Thread \ {Idle} : Asleep(t)' <=> Asleep(t)
         /\ intr = "on" /\ (UNCHANGED <<cur, intr>> \/ intr' = "off") /\ UNCHANGED idle_thread
<1>1. CASE thread_yield
  <2>1. Leaves("READY", yielded) /\ intr = "on" /\ intr' = "off" /\ UNCHANGED idle_thread
    BY <1>1, Yield_Leaves DEF thread_yield
  <2>2. \A t \in Thread \ {Idle} : Asleep(t)' <=> IF t = cur THEN "READY" = "BLOCKED" ELSE Asleep(t)
    BY <2>1, Schedule_Asleep
  <2> QED
    BY <2>1, <2>2, Awake
<1>2. CASE intr = "on" /\ UNCHANGED <<status, cur, intr, idle_thread>>
  BY <1>2 DEF Asleep
<1> QED
  BY <1>1, <1>2 DEF timer_interrupt

LEMMA Exit_Asleep ==
  ASSUME IInv, thread_exit
  PROVE  /\ \A t \in Thread \ {Idle} : Asleep(t)' <=> Asleep(t)
         /\ intr' = "off" /\ UNCHANGED idle_thread
<1>1. Leaves("DYING", ready_list) /\ intr' = "off" /\ UNCHANGED idle_thread
  BY Exit_Leaves DEF thread_exit
<1>2. \A t \in Thread \ {Idle} : Asleep(t)' <=> IF t = cur THEN "DYING" = "BLOCKED" ELSE Asleep(t)
  BY <1>1, Schedule_Asleep
<1> QED
  BY <1>1, <1>2, Awake

\* thread_unblock() wakes one thread, which slept.
LEMMA Unblock_Asleep ==
  ASSUME IInv, NEW u \in Thread, thread_unblock(u)
  PROVE  /\ \A t \in Thread : Asleep(t)' <=> Asleep(t) /\ t # u
         /\ Asleep(u) /\ UNCHANGED <<cur, intr, idle_thread>>
  BY DEF IInv, TypeOK, thread_unblock, can_unblock, Asleep

-----------------------------------------------------------------------------
(* After thread_start() *)

\* idle() sleeps, main runs, and the other threads are ready.
LEMMA Started_IInv ==
  ASSUME cur = initial_thread, idle_thread = Idle, intr = "on", thread_ticks = 0,
         status = [t \in Thread |-> IF t = cur THEN "RUNNING" ELSE IF t = Idle THEN "BLOCKED" ELSE "READY"],
         reap = [t \in Thread |-> <<>>],
         ready_list \in Seq(Thread \ {cur, Idle}), Distinct(ready_list),
         \A t \in Thread \ {cur, Idle} : On(t, ready_list)
  PROVE  IInv
<1>1. initial_thread \in Thread /\ Idle \in Thread /\ Idle # initial_thread /\ TIME_SLICE \in Nat \ {0}
  BY ThreadAssumption
<1>2. ready_list \in Seq(Thread)
  OBVIOUS
<1>3. \A t : On(t, ready_list) <=> t \in Thread \ {cur, Idle}
  <2>1. ASSUME NEW t, On(t, ready_list) PROVE t \in Thread \ {cur, Idle}
    <3>1. PICK i \in 1 .. Len(ready_list) : ready_list[i] = t
      BY <2>1 DEF On
    <3>2. ready_list[i] \in Thread \ {cur, Idle}
      OBVIOUS
    <3> QED
      BY <3>1, <3>2
  <2> QED
    BY <2>1, Zenon
<1>4. TypeOK
  <2>1. status \in [Thread -> Status]
    BY DEF Status
  <2>2. thread_ticks \in 0 .. TIME_SLICE - 1
    BY <1>1
  <2>3. reap \in [Thread -> Seq(Thread)]
    OBVIOUS
  <2> QED
    BY <1>1, <1>2, <2>1, <2>2, <2>3 DEF TypeOK
<1>5. OneRunning /\ TailBeforeIntr
  BY <1>1 DEF OneRunning, TailBeforeIntr
<1>6. ReadyListOK
  BY <1>1, <1>3 DEF ReadyListOK
<1>7. ReapOK
  BY Empty_On DEF ReapOK
<1>8. IdleOK
  BY <1>1 DEF IdleOK, started
<1> QED
  BY <1>4, <1>5, <1>6, <1>7, <1>8 DEF IInv
=============================================================================
