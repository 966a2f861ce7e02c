--------------------------- MODULE LifeInvariants ---------------------------
(***************************************************************************)
(* Threads come and go as they should, for any number of pages and of      *)
(* calls of thread_create().  The remaining steps of LifeInv, the bound on *)
(* tids and the theorems.                                                  *)
(***************************************************************************)
EXTENDS LifeProofs

\* Most leaves are first-order and Zenon's; arithmetic and the rest are Z3's.
USE ZenonT(30), SMTT(60)

\* The pages and tids when sema_up() wakes a thread.
LEMMA Up_Pages ==
  ASSUME LifeInv, IInv', UNCHANGED <<lvars, reap>>,
         \A u \in Thread : status'[u] = status[u] \/ (status[u] = "BLOCKED" /\ status'[u] = "READY"),
         \A u \in Client : page[u] # None => status'[page[u]] = status[page[u]]
  PROVE  PagesOK'
<1>1. \A u \in Client : Making(u)' <=> Making(u)
  BY DEF Making, lvars
<1>2. \A p \in Pool : status'[p] # "NONE" <=> status[p] # "NONE"
  BY Life_Constants
<1> QED
  BY <1>1, <1>2, SMTT(60) DEF LifeInv, PagesOK, PageInv, lvars

\* The sema_up() of lock_release() in palloc_get_page() and allocate_tid().
LEMMA SemaUp_Keeps ==
  ASSUME LifeInv, IInv', NEW t \in Client, sema_up(t), UNCHANGED lvars, Elsewhere
  PROVE  LifeInv'
<1>1. LabelOK(t) /\ PageOK(t) /\ ExclPool /\ ExclTid /\ Labels /\ PageInv /\ IdleTail
  BY DEF LifeInv, Labels, PageInv
<1>2. cur = t /\ intr = "on" /\ pc[t] = "up" /\ sem[t] \in Lock /\ ret[t] = IF sem[t] = pool_lock THEN "init" ELSE "unblock"
  BY <1>1 DEF sema_up, At, LabelOK
<1>3. PICK l \in Lock : l = sem[t]
  BY <1>2
<1>4. /\ up(l) /\ pc' = [pc EXCEPT ![t] = IF l = pool_lock THEN "init" ELSE "unblock"]
      /\ UNCHANGED <<holder, sem, ret, used, page, next_tid, tid, tmp, created, tail_up, halted>>
      /\ l \in Sema /\ (l = pool_lock \/ l = tid_lock) /\ ~tail_up
  BY <1>2, <1>3, Life_Types, Life_Constants DEF sema_up, goto, Elsewhere, lvars
<1>5. /\ pc'[t] = IF l = pool_lock THEN "init" ELSE "unblock"
      /\ \A u \in Client : u # t => pc'[u] = pc[u]
  BY <1>4, Life_Types, Life_Constants
<1>6. (HasPool(t) <=> l = pool_lock) /\ (HasTid(t) <=> l = tid_lock)
  BY <1>2, <1>3 DEF HasPool, HasTid
<1>7. value[l] = 0
  BY <1>4, <1>6, Alone
<1>8. /\ UNCHANGED <<cur, idle_thread, intr, reap>>
      /\ \A u \in Thread : status'[u] = status[u] \/ (status[u] = "BLOCKED" /\ status'[u] = "READY")
      /\ \A u \in Client : page[u] # None => status'[page[u]] = status[page[u]]
      /\ waiters' \in [Sema -> Seq(Thread)]
      /\ \A u : OnPool(u)' => OnPool(u)
      /\ l = tid_lock => \A u : OnPool(u)' <=> OnPool(u)
      /\ Listed'
      /\ value' \in [Sema -> 0 .. 1] /\ value'[l] = 1 /\ \A k \in Sema : k # l => value'[k] = value[k]
  BY <1>2, <1>4, <1>5, <1>7, Up_Wakes
<1>9. ~HasPool(t)' /\ ~HasTid(t)' /\ \A u \in Client : u # t => (HasPool(u)' <=> HasPool(u)) /\ (HasTid(u)' <=> HasTid(u))
  BY <1>4, <1>5 DEF HasPool, HasTid
<1>10. ExclPool'
  <2>1. CASE l = pool_lock
    BY <1>4, <1>6, <1>8, <1>9, <2>1, Alone DEF ExclPool
  <2>2. CASE l # pool_lock
    <3>1. value'[pool_lock] = value[pool_lock] /\ \A u \in Client : HasPool(u)' <=> HasPool(u)
      BY <1>6, <1>8, <1>9, <2>2, Life_Constants
    <3> QED
      BY <1>1, <1>4, <3>1 DEF ExclPool
  <2> QED
    BY <2>1, <2>2
<1>11. ExclTid'
  <2>1. CASE l = tid_lock
    BY <1>4, <1>6, <1>8, <1>9, <2>1, Alone DEF ExclTid
  <2>2. CASE l # tid_lock
    <3>1. value'[tid_lock] = value[tid_lock] /\ \A u \in Client : HasTid(u)' <=> HasTid(u)
      BY <1>6, <1>8, <1>9, <2>2, Life_Constants
    <3> QED
      BY <1>1, <1>4, <3>1 DEF ExclTid
  <2> QED
    BY <2>1, <2>2
<1>12. LifeTypes'
  <2>1. pc' \in [Thread -> LifeLabel \cup IdleLabel] /\ pc'[Idle] \in IdleLabel
    BY <1>4, Life_Types, Life_Constants DEF LifeLabel
  <2> QED
    BY <1>4, <1>8, <2>1, Life_Types DEF LifeTypes
<1>13. Labels'
  <2>1. ASSUME NEW u \in Client, u # t PROVE LabelOK(u)'
    BY <1>1, <1>4, <1>5, <1>8, <2>1, Life_Constants, SMTT(60) DEF Labels, LabelOK
  <2>2. LabelOK(t)'
    <3>1. status'[t] = "RUNNING"
      BY <1>2, <1>8, Life_Types, Life_Constants
    <3> QED
      BY <1>1, <1>2, <1>4, <1>5, <3>1, SMTT(60) DEF LabelOK, LifeLabel
  <2> QED
    BY <2>1, <2>2 DEF Labels
<1>14. PageInv'
  <2>1. ASSUME NEW u \in Client PROVE PageOK(u)'
    <3>1. PageOK(u) /\ (page[u] # None => page[u] \in Client /\ page[u] # t) /\ UNCHANGED <<page, reap, sem>>
      BY <1>1, <1>2, <1>4, <1>8, Life_Runs DEF PageInv
    <3>2. (Before(u)' <=> Before(u)) /\ (After(u)' <=> After(u))
      <4>1. CASE u # t
        BY <1>5, <3>1, <4>1 DEF Before, After
      <4>2. CASE u = t
        BY <1>2, <1>3, <1>4, <1>5, <3>1, <4>2, Life_Constants DEF Before, After
      <4> QED
        BY <4>1, <4>2
    <3>3. page[u] # None => status'[page[u]] = status[page[u]] /\ pc'[page[u]] = pc[page[u]]
      BY <1>5, <1>8, <3>1
    <3> QED
      BY <3>1, <3>2, <3>3 DEF PageOK
  <2> QED
    BY <1>8, <2>1, Up_Pages DEF PageInv
<1>15. TidInv'
  BY <1>4, <1>5, <1>8, Tids_Same, SMTT(60)
<1>16. IdleTail'
  <2>1. Stuck => Stuck'
    <3>1. ASSUME NEW u \in Client, HasPool(u), OnPool(u) PROVE HasPool(u)' /\ OnPool(u)'
      <4>1. u # t
        BY <1>2, <3>1, Life_Runs
      <4>2. l = tid_lock
        BY <1>4, <1>6, <3>1, <4>1, Alone
      <4> QED
        BY <1>8, <1>9, <3>1, <4>1, <4>2
    <3> QED
      BY <3>1 DEF Stuck
  <2>2. ~Stuck => reap[Idle] = <<>> /\ ~OnPool(Idle)
    BY <1>1, <1>2, Life_Constants DEF IdleTail
  <2> QED
    BY <1>8, <2>1, <2>2 DEF IdleTail
<1> QED
  BY <1>8, <1>10, <1>11, <1>12, <1>13, <1>14, <1>15, <1>16, Life_Types DEF LifeInv

\* sema_up() in palloc_free_page() inside the switch
LEMMA TailRelease_Keeps ==
  ASSUME LifeInv, IInv', tail_release
  PROVE  LifeInv'
<1>1. ExclPool /\ ExclTid /\ Labels /\ PageInv /\ TidInv /\ IdleTail
  BY DEF LifeInv
<1>2. /\ up(pool_lock) /\ tail_up /\ tail_up' = FALSE
      /\ UNCHANGED <<holder, pc, sem, ret, lvars, halted>>
  BY DEF tail_release
<1>3. value[pool_lock] = 0 /\ \A u \in Client : ~HasPool(u)
  BY <1>1, <1>2 DEF ExclPool
<1>4. /\ UNCHANGED <<cur, idle_thread, intr, reap>>
      /\ \A u \in Thread : status'[u] = status[u] \/ (status[u] = "BLOCKED" /\ status'[u] = "READY")
      /\ \A u \in Client : page[u] # None => status'[page[u]] = status[page[u]]
      /\ waiters' \in [Sema -> Seq(Thread)]
      /\ \A u : OnPool(u)' => OnPool(u)
      /\ Listed'
      /\ value' \in [Sema -> 0 .. 1] /\ value'[pool_lock] = 1
      /\ \A k \in Sema : k # pool_lock => value'[k] = value[k]
  BY <1>2, <1>3, Up_Wakes, Life_Constants
<1>5. \A u \in Client : (HasPool(u)' <=> HasPool(u)) /\ (HasTid(u)' <=> HasTid(u))
  BY <1>2 DEF HasPool, HasTid
<1>6. ExclPool'
  BY <1>2, <1>3, <1>4, <1>5 DEF ExclPool
<1>7. ExclTid'
  <2>1. value'[tid_lock] = value[tid_lock]
    BY <1>4, Life_Constants
  <2> QED
    BY <1>1, <1>5, <2>1 DEF ExclTid
<1>8. LifeTypes'
  BY <1>2, <1>4, Life_Types DEF LifeTypes, lvars
<1>9. Labels'
  BY <1>1, <1>2, <1>4, Life_Constants DEF Labels, LabelOK
<1>10. PageInv'
  <2>1. ASSUME NEW u \in Client PROVE PageOK(u)'
    BY <1>1, <1>2, <1>4 DEF PageInv, PageOK, Before, After, lvars
  <2> QED
    BY <1>2, <1>4, <2>1, Up_Pages DEF PageInv
<1>11. TidInv'
  BY <1>1, <1>2, <1>4 DEF TidInv, TidsUnique, lvars
<1>12. IdleTail'
  <2>1. ~Stuck
    BY <1>3 DEF Stuck
  <2> QED
    BY <1>1, <1>2, <1>4, <2>1 DEF IdleTail
<1> QED
  BY <1>4, <1>6, <1>7, <1>8, <1>9, <1>10, <1>11, <1>12, Life_Types DEF LifeInv

\* init_thread(): the page becomes a blocked thread.
LEMMA Init_Keeps ==
  ASSUME LifeInv, IInv', NEW t \in Client, create_init(t), Elsewhere
  PROVE  LifeInv'
<1>0. /\ cur = t /\ intr = "on" /\ pc[t] = "init"
      /\ UNCHANGED <<value, waiters, holder, sem, ret, used, page, next_tid, tmp, created, tail_up, halted>>
  BY DEF create_init, At, Elsewhere
<1>1. /\ LabelOK(t) /\ PageOK(t) /\ PagesOK /\ ExclPool /\ ExclTid /\ Labels /\ PageInv /\ Listed /\ TidInv
      /\ IdleTail /\ ~tail_up
  BY <1>0, Life_Types DEF LifeInv, Labels, PageInv
<1>2. CASE page[t] = None
  <2>1. pc' = [pc EXCEPT ![t] = "run"] /\ UNCHANGED <<tvars, tid>>
    BY <1>2, <1>0 DEF create_init, goto
  <2>2. pc'[t] = "run" /\ \A u \in Client : u # t => pc'[u] = pc[u]
    BY <2>1, Life_Types, Life_Constants
  <2>3. Moves(t)
    BY <1>0, <1>1, <2>1, <2>2 DEF Moves, tvars
  <2>4. (HasPool(t)' <=> HasPool(t)) /\ (HasTid(t)' <=> HasTid(t))
    BY <1>0, <2>2 DEF HasPool, HasTid
  <2>5. LabelOK(t)'
    BY <1>0, <1>1, <2>2 DEF LabelOK, LifeLabel
  <2>6. PageOK(t)'
    BY <1>0, <1>2, <2>2 DEF PageOK, Before, After
  <2>7. LifeTypes'
    <3>1. pc' \in [Thread -> LifeLabel \cup IdleLabel] /\ pc'[Idle] \in IdleLabel
      BY <2>1, Life_Types, Life_Constants DEF LifeLabel
    <3> QED
      BY <1>0, <2>1, <3>1, Life_Types DEF LifeTypes, tvars
  <2>8. PagesOK' /\ TidInv'
    BY <1>0, <2>1, <2>2, Pages_Same, Tids_Same DEF tvars
  <2> QED
    BY <1>0, <2>3, <2>4, <2>5, <2>6, <2>7, <2>8, Moves_Keeps
<1>3. CASE page[t] # None
  <2>1. PICK p \in Client : p = page[t]
    BY <1>3, Life_Runs
  <2>2. /\ status[p] = "NONE" /\ status' = [status EXCEPT ![p] = "BLOCKED"]
        /\ UNCHANGED <<ready_list, cur, idle_thread, intr, reap>>
        /\ tid' = [tid EXCEPT ![p] = 0] /\ pc' = [pc EXCEPT ![t] = "tid", ![p] = "run"]
    BY <1>0, <1>3, <2>1 DEF create_init, thread_create
  <2>3. p # t /\ p \in Thread /\ t \in Thread /\ p # Idle /\ p \in Pool /\ p # None
    BY <1>0, <1>3, <2>1, <2>2, Life_Types, Life_Constants
  <2>4. pc[p] = "run" /\ reap[p] = <<>>
    <3>1. pc[p] = "run"
      BY <1>1, <2>2 DEF Labels, LabelOK
    <3>2. ReapOK
      BY DEF LifeInv, IInv
    <3> QED
      BY <2>2, <2>3, <3>1, <3>2 DEF ReapOK
  <2>5. /\ pc'[t] = "tid" /\ \A u \in Client : u # t => pc'[u] = pc[u]
        /\ \A u \in Thread : status'[u] = IF u = p THEN "BLOCKED" ELSE status[u]
        /\ \A u \in Thread : tid'[u] = IF u = p THEN 0 ELSE tid[u]
        /\ pc' \in [Thread -> LifeLabel \cup IdleLabel] /\ pc'[Idle] \in IdleLabel
    BY <2>2, <2>3, <2>4, Life_Types, Life_Constants DEF LifeLabel
  <2>6. \A u \in Client : u # t => page[u] # p
    BY <1>1, <2>1, <2>3 DEF PagesOK
  <2>7. \A u \in Client : (HasPool(u)' <=> HasPool(u)) /\ (HasTid(u)' <=> HasTid(u))
    <3>1. \A u \in Client : u # t => (HasPool(u)' <=> HasPool(u)) /\ (HasTid(u)' <=> HasTid(u))
      BY <1>0, <2>5 DEF HasPool, HasTid
    <3>2. (HasPool(t)' <=> HasPool(t)) /\ (HasTid(t)' <=> HasTid(t))
      BY <1>0, <2>5 DEF HasPool, HasTid
    <3> QED
      BY <3>1, <3>2
  <2>8. ExclPool' /\ ExclTid'
    <3>1. ExclPool'
      BY <1>0, <1>1, <2>7 DEF ExclPool
    <3>2. ExclTid'
      BY <1>0, <1>1, <2>7 DEF ExclTid
    <3> QED
      BY <3>1, <3>2
  <2>9. Labels'
    <3>1. LabelOK(t)'
      BY <1>0, <1>1, <2>3, <2>5 DEF LabelOK, LifeLabel
    <3>2. ASSUME NEW u \in Client, u # t PROVE LabelOK(u)'
      <4>1. /\ LabelOK(u) /\ pc'[u] = pc[u] /\ u \in Thread
            /\ status'[u] \in {"NONE", "DYING"} => status[u] \in {"NONE", "DYING"}
        BY <1>1, <2>5, <3>2, Life_Constants DEF Labels
      <4> QED
        BY <1>0, <4>1 DEF LabelOK
    <3> QED
      BY <3>1, <3>2 DEF Labels
  <2>10. PageInv'
    <3>1. PageOK(t)'
      BY <1>0, <2>1, <2>2, <2>3, <2>4, <2>5 DEF PageOK, Before, After
    <3>2. ASSUME NEW u \in Client, u # t PROVE PageOK(u)'
      <4>1. PageOK(u) /\ page'[u] = page[u] /\ (Before(u)' <=> Before(u)) /\ (After(u)' <=> After(u))
        BY <1>0, <1>1, <2>5, <3>2 DEF PageInv, Before, After
      <4>2. page[u] # None => page[u] \in Client /\ page[u] # t /\ page[u] # p
        BY <1>0, <2>6, <3>2, Life_Runs
      <4> QED
        BY <2>2, <2>5, <4>1, <4>2, Life_Constants DEF PageOK
    <3>3. PagesOK'
      <4>1. Making(t) /\ ~Making(t)'
        BY <1>0, <1>3, <2>1, <2>2, <2>3, <2>5, SMTT(60) DEF Making
      <4>2. \A u \in Client : u # t => (Making(u)' <=> Making(u))
        BY <1>0, <2>5, <2>6, Life_Runs, Life_Constants DEF Making
      <4>3. {page[u] : u \in {v \in Client : Making(v)}} = {page[u] : u \in {v \in Client : Making(v)}}' \cup {p}
        BY <1>0, <2>1, <4>1, <4>2
      <4>4. {q \in Pool : status'[q] # "NONE"} = {q \in Pool : status[q] # "NONE"} \cup {p}
        BY <2>3, <2>5, Life_Constants
      <4>5. used' = {q \in Pool : status'[q] # "NONE"} \cup {page[u] : u \in {v \in Client : Making(v)}}'
        BY <1>0, <1>1, <4>3, <4>4 DEF PagesOK
      <4> QED
        BY <1>0, <1>1, <4>5 DEF PagesOK
    <3> QED
      BY <3>1, <3>2, <3>3 DEF PageInv
  <2>11. Listed'
    <3>1. \A u : (OnPool(u)' <=> OnPool(u)) /\ (OnTid(u)' <=> OnTid(u))
      BY <1>0 DEF OnPool, OnTid
    <3>2. ~OnPool(p) /\ ~OnTid(p) /\ ~OnPool(t) /\ ~OnTid(t) /\ status[t] = "RUNNING"
      BY <1>0, <1>3, <2>1, Fresh, Life_Runs, Life_Types
    <3>3. /\ Distinct(waiters[pool_lock])' /\ Distinct(waiters[tid_lock])' /\ reap' = reap
      BY <1>0, <1>1, <2>2 DEF Listed
    <3> QED
      BY <1>1, <2>3, <2>4, <2>5, <3>1, <3>2, <3>3, Life_Constants DEF Listed
  <2>12. TidInv' /\ tid' \in [Thread -> Nat]
    <3>1. tid' \in [Thread -> Nat]
      BY <2>2, Life_Types
    <3>2. 0 < next_tid
      <4>1. tid[p] \in Nat /\ next_tid \in Nat /\ tid[p] < next_tid
        BY <1>1, <2>3, Life_Types DEF TidInv
      <4> QED
        BY <4>1
    <3>3. \A u \in Thread : tid'[u] < next_tid'
      BY <1>0, <1>1, <2>5, <3>2 DEF TidInv
    <3>4. TidsUnique'
      BY <1>1, <2>2, <2>3, <2>5, Life_Types, SMTT(60) DEF TidInv, TidsUnique
    <3>5. \A u \in Client : pc'[u] = "tid_write" => tmp'[u] = next_tid'
      BY <1>0, <1>1, <2>5 DEF TidInv
    <3> QED
      BY <3>1, <3>3, <3>4, <3>5 DEF TidInv
  <2>13. LifeTypes'
    BY <1>0, <2>2, <2>5, <2>12, Life_Types DEF LifeTypes
  <2>14. IdleTail'
    <3>1. Stuck' <=> Stuck
      BY <1>0, <2>7 DEF Stuck, OnPool
    <3> QED
      BY <1>0, <1>1, <2>2, <3>1 DEF IdleTail, OnPool
  <2> QED
    BY <2>2, <2>8, <2>9, <2>10, <2>11, <2>12, <2>13, <2>14, Life_Types DEF LifeInv
<1> QED
  BY <1>2, <1>3

\* The end of thread_create(): the new thread is ready.
LEMMA Unblock_Keeps ==
  ASSUME LifeInv, IInv', NEW t \in Client, create_unblock(t), Elsewhere
  PROVE  LifeInv'
<1>0. /\ cur = t /\ intr = "on" /\ pc[t] = "unblock" /\ pc' = [pc EXCEPT ![t] = "run"]
      /\ page' = [page EXCEPT ![t] = None]
      /\ UNCHANGED <<value, waiters, holder, sem, ret, used, next_tid, tid, tmp, created, tail_up, halted>>
  BY DEF create_unblock, At, goto, Elsewhere
<1>1. /\ LabelOK(t) /\ PageOK(t) /\ PagesOK /\ ExclPool /\ ExclTid /\ Labels /\ PageInv /\ Listed /\ TidInv
      /\ IdleTail /\ ~tail_up
  BY <1>0, Life_Types DEF LifeInv, Labels, PageInv
<1>2. page[t] # None
  BY <1>0, <1>1 DEF PageOK, After
<1>3. PICK p \in Client : p = page[t]
  BY <1>2, Life_Runs
<1>4. /\ status[p] = "BLOCKED" /\ status' = [status EXCEPT ![p] = "READY"]
      /\ UNCHANGED <<cur, idle_thread, intr, reap>>
  BY <1>3 DEF create_unblock, thread_unblock, can_unblock
<1>5. /\ p # t /\ p \in Thread /\ p # None /\ t \in Thread
      /\ pc'[t] = "run" /\ \A u \in Client : u # t => pc'[u] = pc[u]
      /\ page'[t] = None /\ \A u \in Client : u # t => page'[u] = page[u]
      /\ \A u \in Thread : status'[u] = IF u = p THEN "READY" ELSE status[u]
      /\ pc' \in [Thread -> LifeLabel \cup IdleLabel] /\ pc'[Idle] \in IdleLabel
      /\ page' \in [Thread -> Pool \cup {None}]
  BY <1>0, <1>4, Life_Types, Life_Constants DEF LifeLabel
<1>6. \A u \in Client : u # t => page[u] # p
  BY <1>1, <1>3, <1>5 DEF PagesOK
<1>7. \A u \in Client : (HasPool(u)' <=> HasPool(u)) /\ (HasTid(u)' <=> HasTid(u))
  <2>1. \A u \in Client : u # t => (HasPool(u)' <=> HasPool(u)) /\ (HasTid(u)' <=> HasTid(u))
    BY <1>0, <1>5 DEF HasPool, HasTid
  <2>2. (HasPool(t)' <=> HasPool(t)) /\ (HasTid(t)' <=> HasTid(t))
    BY <1>0, <1>5 DEF HasPool, HasTid
  <2> QED
    BY <2>1, <2>2
<1>8. ExclPool' /\ ExclTid'
  <2>1. ExclPool'
    BY <1>0, <1>1, <1>7 DEF ExclPool
  <2>2. ExclTid'
    BY <1>0, <1>1, <1>7 DEF ExclTid
  <2> QED
    BY <2>1, <2>2
<1>9. Labels'
  <2>1. LabelOK(t)'
    BY <1>0, <1>1, <1>5 DEF LabelOK, LifeLabel
  <2>2. ASSUME NEW u \in Client, u # t PROVE LabelOK(u)'
    BY <1>0, <1>1, <1>5, <2>2, Life_Constants DEF Labels, LabelOK
  <2> QED
    BY <2>1, <2>2 DEF Labels
<1>10. PageInv'
  <2>1. PageOK(t)'
    BY <1>5 DEF PageOK, Before, After
  <2>2. ASSUME NEW u \in Client, u # t PROVE PageOK(u)'
    <3>1. PageOK(u) /\ page'[u] = page[u] /\ (Before(u)' <=> Before(u)) /\ (After(u)' <=> After(u))
      BY <1>0, <1>1, <1>5, <2>2 DEF PageInv, Before, After
    <3>2. page[u] # None => page[u] \in Client /\ page[u] # t /\ page[u] # p
      BY <1>0, <1>6, <2>2, Life_Runs
    <3> QED
      BY <1>4, <1>5, <3>1, <3>2, Life_Constants DEF PageOK
  <2>3. PagesOK'
    <3>1. ~Making(t) /\ ~Making(t)'
      BY <1>3, <1>4, <1>5 DEF Making
    <3>2. \A u \in Client : u # t => (Making(u)' <=> Making(u))
      BY <1>5, <1>6, Life_Runs, Life_Constants, SMTT(60) DEF Making
    <3>3. {page[u] : u \in {v \in Client : Making(v)}} = {page[u] : u \in {v \in Client : Making(v)}}'
      BY <1>5, <3>1, <3>2, SMTT(60)
    <3>4. {q \in Pool : status'[q] # "NONE"} = {q \in Pool : status[q] # "NONE"}
      BY <1>4, <1>5, Life_Constants, SMTT(60)
    <3>5. used' = {q \in Pool : status'[q] # "NONE"} \cup {page[u] : u \in {v \in Client : Making(v)}}'
      BY <1>0, <1>1, <3>3, <3>4 DEF PagesOK
    <3>6. \A u, v \in Client : page'[u] # None /\ page'[u] = page'[v] => u = v
      BY <1>1, <1>5 DEF PagesOK
    <3> QED
      BY <3>5, <3>6 DEF PagesOK
  <2> QED
    BY <2>1, <2>2, <2>3 DEF PageInv
<1>11. Listed'
  <2>1. \A u : (OnPool(u)' <=> OnPool(u)) /\ (OnTid(u)' <=> OnTid(u))
    BY <1>0 DEF OnPool, OnTid
  <2>2. ~OnPool(p) /\ ~OnTid(p) /\ ~OnPool(t) /\ ~OnTid(t) /\ status[t] = "RUNNING"
    BY <1>0, <1>2, <1>3, Fresh, Life_Runs, Life_Types
  <2>3. /\ Distinct(waiters[pool_lock])' /\ Distinct(waiters[tid_lock])' /\ reap' = reap
    BY <1>0, <1>1, <1>4 DEF Listed
  <2> QED
    BY <1>1, <1>5, <2>1, <2>2, <2>3, Life_Constants DEF Listed
<1>12. TidInv'
  BY <1>0, <1>4, <1>5, Tids_Same
<1>13. LifeTypes'
  BY <1>0, <1>4, <1>5, Life_Types DEF LifeTypes
<1>14. IdleTail'
  <2>1. Stuck' <=> Stuck
    BY <1>0, <1>7 DEF Stuck, OnPool
  <2>2. ~Stuck => reap[Idle] = <<>> /\ ~OnPool(Idle)
    BY <1>0, <1>1, Life_Constants DEF IdleTail
  <2> QED
    BY <1>0, <1>4, <2>1, <2>2 DEF IdleTail, OnPool
<1> QED
  BY <1>4, <1>8, <1>9, <1>10, <1>11, <1>12, <1>13, <1>14, Life_Types DEF LifeInv

\* palloc_free_page (prev) with the lock free
LEMMA Free_Keeps ==
  ASSUME LifeInv, IInv', NEW t \in Thread, cur = t, intr = "off", reap[t] # <<>>, ~tail_up,
         value[pool_lock] > 0, value' = [value EXCEPT ![pool_lock] = 0],
         used' = freed(t), free_prev, tail_up' = TRUE,
         UNCHANGED <<waiters, holder, pc, sem, ret, page, next_tid, tid, tmp, created, halted>>
  PROVE  LifeInv'
<1>1. /\ PagesOK /\ ExclPool /\ ExclTid /\ Labels /\ PageInv /\ Listed /\ TidInv /\ IdleTail
  BY DEF LifeInv, PageInv
<1>2. PICK d : d = Head(reap[t])
  OBVIOUS
<1>3. /\ status' = [status EXCEPT ![d] = "NONE"] /\ reap' = [reap EXCEPT ![t] = Tail(reap[t])]
      /\ UNCHANGED <<ready_list, cur, idle_thread, intr>> /\ used' = used \ {d}
  BY <1>2 DEF free_prev, freed
<1>4. d \in Thread /\ On(d, reap[t])
  BY <1>2, Tail_On, Life_Types
<1>5. status[d] = "DYING" /\ d # initial_thread
  BY <1>4 DEF LifeInv, IInv, ReapOK
<1>6. d \in Client /\ d \in Pool /\ d # t /\ pc[d] = "run"
  <2>1. d \in Client /\ d \in Pool /\ d # t
    BY <1>4, <1>5, Life_Types, Life_Constants DEF Pool
  <2> QED
    BY <1>1, <1>5, <2>1 DEF Labels, LabelOK
<1>7. /\ \A u \in Thread : status'[u] = IF u = d THEN "NONE" ELSE status[u]
      /\ \A u \in Thread : u # t => reap'[u] = reap[u]
      /\ reap'[t] = Tail(reap[t])
  BY <1>3, <1>4, Life_Types
<1>8. value[pool_lock] = 1 /\ value' \in [Sema -> 0 .. 1] /\ value'[pool_lock] = 0 /\ value'[tid_lock] = value[tid_lock]
  <2>1. value \in [Sema -> 0 .. 1] /\ pool_lock \in Sema /\ tid_lock \in Sema /\ pool_lock # tid_lock
    BY Life_Types, Life_Constants
  <2>2. 0 \in 0 .. 1
    OBVIOUS
  <2> QED
    BY <2>1, <2>2
<1>9. \A u \in Client : (HasPool(u)' <=> HasPool(u)) /\ (HasTid(u)' <=> HasTid(u)) /\ ~HasPool(u)
  BY <1>1, <1>8, SMTT(60) DEF HasPool, HasTid, ExclPool
<1>10. ExclPool'
  BY <1>8, <1>9 DEF ExclPool
<1>11. ExclTid'
  BY <1>1, <1>8, <1>9 DEF ExclTid
<1>12. LifeTypes'
  <2>1. used' \subseteq Pool
    BY <1>3, Life_Types
  <2> QED
    BY <1>3, <1>8, <2>1, Life_Types DEF LifeTypes
<1>13. Labels'
  BY <1>1, <1>6, <1>7, Life_Constants, SMTT(60) DEF Labels, LabelOK
<1>14. \A u \in Client : page[u] # None => page[u] \in Client /\ page[u] # d /\ page[u] # t
  BY <1>5, Life_Runs
<1>15. PageInv'
  <2>1. ASSUME NEW u \in Client PROVE PageOK(u)'
    <3>1. PageOK(u) /\ page'[u] = page[u] /\ (Before(u)' <=> Before(u)) /\ (After(u)' <=> After(u))
      BY <1>1 DEF PageInv, Before, After
    <3> QED
      BY <1>7, <1>14, <3>1, Life_Constants DEF PageOK
  <2>2. \A u \in Client : Making(u)' <=> Making(u)
    BY <1>7, <1>14, Life_Constants DEF Making
  <2>3. {page[u] : u \in {v \in Client : Making(v)}}' = {page[u] : u \in {v \in Client : Making(v)}}
    BY <2>2
  <2>4. d \notin {page[u] : u \in {v \in Client : Making(v)}}
    BY <1>14 DEF Making
  <2>5. {q \in Pool : status'[q] # "NONE"} = {q \in Pool : status[q] # "NONE"} \ {d}
    BY <1>7, Life_Constants
  <2>6. used' = {q \in Pool : status'[q] # "NONE"} \cup {page[u] : u \in {v \in Client : Making(v)}}'
    BY <1>1, <1>3, <2>3, <2>4, <2>5 DEF PagesOK
  <2>7. PagesOK'
    BY <1>1, <2>6 DEF PagesOK
  <2> QED
    BY <2>1, <2>7 DEF PageInv
<1>16. Listed'
  <2>1. \A u : (OnPool(u)' <=> OnPool(u)) /\ (OnTid(u)' <=> OnTid(u))
    BY DEF OnPool, OnTid
  <2>2. \A u \in Client : OnPool(u) => u # t
    BY Life_Runs
  <2>3. ~OnPool(d) /\ ~OnTid(d)
    BY <1>1, <1>5, <1>6 DEF Listed
  <2>4. \A u \in Client : status'[u] = "BLOCKED" <=> status[u] = "BLOCKED"
    BY <1>5, <1>7, Life_Constants
  <2> QED
    BY <1>1, <1>7, <2>1, <2>2, <2>3, <2>4, Life_Constants DEF Listed
<1>17. TidInv'
  BY <1>1, <1>3 DEF TidInv, TidsUnique
<1>18. IdleTail'
  <2>1. ~Stuck
    BY <1>9 DEF Stuck
  <2>2. ~OnPool(Idle)'
    BY <1>1, <2>1 DEF IdleTail, OnPool
  <2>3. reap'[Idle] = <<>>
    BY <1>1, <1>7, <2>1, Life_Constants DEF IdleTail
  <2> QED
    BY <2>2, <2>3 DEF IdleTail
<1> QED
  BY <1>3, <1>10, <1>11, <1>12, <1>13, <1>15, <1>16, <1>17, <1>18, Life_Types DEF LifeInv

\* thread_schedule_tail() with a dead thread: free its page, wait, or stop.
LEMMA TailFree_Keeps ==
  ASSUME LifeInv, IInv', NEW t \in Thread, tail_free(t)
  PROVE  LifeInv'
<1>0. cur = t /\ intr = "off" /\ reap[t] # <<>> /\ ~tail_up
  BY DEF tail_free
<1>1. CASE halted' \in {"panic", "hang"} /\ UNCHANGED <<tvars, mvars, lvars, tail_up>>
  <2>1. /\ UNCHANGED <<status, ready_list, cur, idle_thread, reap>>
        /\ UNCHANGED <<value, waiters, holder, sem, ret, lvars, tail_up>> /\ pc' = pc /\ intr' = intr
    BY <1>1 DEF tvars, mvars
  <2> QED
    BY <1>1, <2>1, Life_Types, Quiet_Keeps
<1>2. CASE /\ pool_available /\ value' = [value EXCEPT ![pool_lock] = 0]
           /\ used' = freed(t) /\ free_prev /\ tail_up' = TRUE
           /\ UNCHANGED <<waiters, holder, pc, sem, ret, page, next_tid, tid, tmp, created, halted>>
  BY <1>0, <1>2, Free_Keeps DEF pool_available
<1>3. CASE /\ ~pool_available /\ ~OnPool(t) /\ thread_block
           /\ waiters' = [waiters EXCEPT ![pool_lock] = Append(@, t)]
           /\ UNCHANGED <<value, holder, pc, sem, ret, lvars, tail_up, halted>>
  <2>1. value[pool_lock] = 0
    <3>1. value[pool_lock] \in 0 .. 1 /\ ~(value[pool_lock] > 0)
      BY <1>3, Life_Types, Life_Constants DEF pool_available
    <3> QED
      BY <3>1
  <2>2. t = Idle => Stuck
    BY <1>0, <2>1, Idle_Stuck
  <2>3. ~OnTid(t)
    BY <1>0, Life_Runs, Life_Constants DEF LifeInv, Listed
  <2> QED
    BY <1>0, <1>3, <2>2, <2>3, Wait_Keeps, Life_Constants
<1> QED
  BY <1>1, <1>2, <1>3 DEF tail_free

\* Every step is one of the scheduler's, or leaves the scheduler alone.
LEMMA Life_Next_Sched ==
  ASSUME LifeInv, LifeNext
  PROVE  [Next]_tvars
<1>1. ASSUME NEW t \in Client, Create(t) PROVE [Next]_tvars
  <2>1. CASE create_get(t) \/ create_tid(t)
    BY <2>1 DEF create_get, create_tid, enter_down, Next
  <2>2. CASE create_scan(t) \/ create_unlock(t) \/ read_tid(t) \/ write_tid(t) \/ create_tid_unlock(t)
    BY <2>2 DEF create_scan, create_unlock, read_tid, write_tid, create_tid_unlock, release, enter_up
  <2>3. CASE create_init(t)
    <3>1. page[t] # None => page[t] \in Thread
      BY Life_Runs, Life_Constants
    <3> QED
      BY <2>3, <3>1 DEF create_init, Next
  <2>4. CASE create_unblock(t)
    <3>1. pc[t] = "unblock" /\ PageOK(t)
      BY <2>4 DEF create_unblock, At, LifeInv, PageInv
    <3>2. page[t] \in Thread
      BY <3>1, Life_Runs, Life_Constants DEF PageOK, After
    <3> QED
      BY <2>4, <3>2 DEF create_unblock, Next
  <2>5. CASE sema_down(t)
    BY <2>5 DEF sema_down, Next
  <2>6. CASE sema_up(t)
    <3>1. sem[t] \in Sema
      BY <2>6, Life_Constants DEF sema_up, At, LifeInv, Labels, LabelOK
    <3>2. waiters[sem[t]] # <<>> => Head(waiters[sem[t]]) \in Thread
      BY <3>1, Tail_On, Life_Types
    <3> QED
      BY <2>6, <3>2 DEF sema_up, up, Next
  <2>7. CASE set_holder(t, IF sem[t] = pool_lock THEN "scan" ELSE "tid_read")
    BY <2>7 DEF set_holder
  <2> QED
    BY <1>1, <2>1, <2>2, <2>3, <2>4, <2>5, <2>6, <2>7 DEF Create
<1>2. ASSUME NEW t \in Client, Exit(t) PROVE [Next]_tvars
  BY <1>2 DEF Exit, Next
<1>3. ASSUME NEW t \in Thread, tail_free(t) PROVE [Next]_tvars
  BY <1>3 DEF tail_free, Next
<1>4. ASSUME NEW t \in Thread, Resumes(t) PROVE [Next]_tvars
  BY <1>4 DEF Resumes, resume, Next
<1>5. CASE tail_release
  <2>1. waiters[pool_lock] # <<>> => Head(waiters[pool_lock]) \in Thread
    BY Tail_On, Life_Types, Life_Constants
  <2> QED
    BY <1>5, <2>1 DEF tail_release, up, Next
<1>6. CASE Idles
  BY <1>6 DEF Idles, idle_loop, Next
<1>7. CASE Ticks
  BY <1>7 DEF Ticks, tick, Next
<1> QED
  BY <1>1, <1>2, <1>3, <1>4, <1>5, <1>6, <1>7 DEF LifeNext

\* The kernel is in order when thread_start() returns.
LEMMA Life_Init == LifeInit => LifeInv
<1> SUFFICES ASSUME LifeInit PROVE LifeInv
  OBVIOUS
<1>1. IInv
  <2>1. TypeOK
    BY ThreadAssumption DEF LifeInit, TypeOK, Status
  <2>2. OneRunning /\ TailBeforeIntr
    BY ThreadAssumption DEF LifeInit, OneRunning, TailBeforeIntr
  <2>3. ReadyListOK
    BY ThreadAssumption, Empty_On DEF LifeInit, ReadyListOK
  <2>4. ReapOK
    BY ThreadAssumption, Empty_On DEF LifeInit, ReapOK
  <2>5. IdleOK
    BY ThreadAssumption DEF LifeInit, IdleOK, started
  <2> QED
    BY <2>1, <2>2, <2>3, <2>4, <2>5 DEF IInv
<1>2. LifeTypes
  <2>1. value \in [Sema -> 0 .. 1] /\ waiters \in [Sema -> Seq(Thread)] /\ holder \in [Lock -> Client \cup {None}]
    BY DEF LifeInit
  <2>2. pc \in [Thread -> LifeLabel \cup IdleLabel] /\ ret \in [Thread -> LifeLabel] /\ pc[Idle] \in IdleLabel
    BY Life_Constants DEF LifeInit, LifeLabel, IdleLabel
  <2>3. used \subseteq Pool /\ page \in [Thread -> Pool \cup {None}] /\ sem \in [Thread -> Sema \cup {None}]
    BY Life_Constants DEF LifeInit, Pool
  <2>4. next_tid \in Nat /\ tmp \in [Thread -> Nat] /\ tid \in [Thread -> Nat]
    BY DEF LifeInit
  <2>5. created \in 0 .. MaxCreate
    BY Life_Constants DEF LifeInit
  <2>6. tail_up \in BOOLEAN /\ halted \in {"no", "panic", "hang"} /\ (tail_up => intr = "off")
    BY DEF LifeInit
  <2> QED
    BY <2>1, <2>2, <2>3, <2>4, <2>5, <2>6 DEF LifeTypes
<1>3. \A t \in Client : /\ pc[t] = "run" /\ page[t] = None /\ reap[t] = <<>>
                        /\ holder[pool_lock] # t /\ holder[tid_lock] # t
                        /\ ~HasPool(t) /\ ~HasTid(t)
                        /\ status[t] # "BLOCKED"
  BY Life_Constants DEF LifeInit, HasPool, HasTid
<1>4. Labels
  BY <1>3 DEF Labels, LabelOK, LifeLabel
<1>5. PageInv
  <2>1. \A t \in Client : PageOK(t) /\ ~Making(t)
    BY <1>3 DEF PageOK, Before, After, Making
  <2>2. {p \in Pool : status[p] # "NONE"} = {Idle}
    BY Life_Constants DEF LifeInit, Pool
  <2> QED
    BY <1>3, <2>1, <2>2 DEF PageInv, PagesOK, LifeInit
<1>6. ExclPool /\ ExclTid
  BY <1>3, Life_Constants DEF ExclPool, ExclTid, LifeInit
<1>7. waiters[pool_lock] = <<>> /\ waiters[tid_lock] = <<>>
  BY Life_Constants DEF LifeInit
<1>8. \A t : ~OnPool(t) /\ ~OnTid(t)
  BY <1>7, Empty_On DEF OnPool, OnTid
<1>9. Listed
  BY <1>3, <1>7, <1>8, Empty_On DEF Listed
<1>10. TidInv
  <2>1. \A t \in Thread : tid[t] < next_tid
    <3>1. \A t \in Thread : tid[t] \in {0, 1, 2}
      BY DEF LifeInit
    <3>2. \A n \in {0, 1, 2} : n < 3
      OBVIOUS
    <3> QED
      BY <3>1, <3>2 DEF LifeInit
  <2>2. TidsUnique
    BY Life_Constants, SMTT(60) DEF LifeInit, TidsUnique
  <2> QED
    BY <1>3, <2>1, <2>2 DEF TidInv
<1>11. IdleTail
  BY <1>8, Life_Constants DEF IdleTail, LifeInit
<1> QED
  BY <1>1, <1>2, <1>4, <1>5, <1>6, <1>9, <1>10, <1>11 DEF LifeInv, LifeInit

\* Every step keeps the invariant.
LEMMA Life_Next == LifeInv /\ [LifeNext]_life_vars => LifeInv'
<1> SUFFICES ASSUME LifeInv, [LifeNext]_life_vars PROVE LifeInv'
  OBVIOUS
<1>0. IInv'
  <2>1. CASE LifeNext
    BY <2>1, Life_Next_Sched, Next_IInv DEF LifeInv
  <2>2. CASE UNCHANGED life_vars
    <3>1. UNCHANGED tvars
      BY <2>2 DEF life_vars
    <3> QED
      BY <3>1, Next_IInv DEF LifeInv
  <2> QED
    BY <2>1, <2>2
<1>1. ASSUME NEW t \in Client, Create(t) PROVE LifeInv'
  <2>0. Elsewhere
    BY <1>1 DEF Create
  <2>1. CASE create_get(t)
    BY <1>0, <2>0, <2>1, Get_Keeps
  <2>2. CASE create_scan(t)
    BY <1>0, <2>0, <2>2, Scan_Keeps
  <2>3. CASE create_unlock(t) \/ create_tid_unlock(t)
    BY <1>0, <2>0, <2>3, Release_Keeps
  <2>4. CASE create_init(t)
    BY <1>0, <2>0, <2>4, Init_Keeps
  <2>5. CASE create_tid(t)
    BY <1>0, <2>0, <2>5, Tid_Keeps
  <2>6. CASE read_tid(t) \/ write_tid(t)
    BY <1>0, <2>0, <2>6, Count_Keeps
  <2>7. CASE create_unblock(t)
    BY <1>0, <2>0, <2>7, Unblock_Keeps
  <2>8. CASE reap[t] = <<>> /\ ~tail_up /\ sema_down(t) /\ UNCHANGED lvars
    <3>1. CASE thread_block
      <4>1. /\ cur = t /\ pc[t] = "down" /\ sem[t] \in Sema
            /\ ~OnPool(t) /\ ~OnTid(t) /\ t # Idle /\ t \in Thread
        BY <2>8, Life_Runs, Life_Constants DEF sema_down, LifeInv, Labels, LabelOK
      <4>2. /\ waiters' = [waiters EXCEPT ![sem[t]] = Append(@, t)]
            /\ UNCHANGED <<value, holder, pc, sem, ret, lvars, tail_up, halted>>
        BY <2>0, <2>8, <3>1 DEF sema_down, thread_block, intr_enable, Elsewhere
      <4> QED
        BY <1>0, <3>1, <4>1, <4>2, Wait_Keeps
    <3>2. CASE ~thread_block
      BY <1>0, <2>0, <2>8, <3>2, Take_Keeps
    <3> QED
      BY <3>1, <3>2
  <2>9. CASE sema_up(t) /\ UNCHANGED lvars
    BY <1>0, <2>0, <2>9, SemaUp_Keeps
  <2>10. CASE set_holder(t, IF sem[t] = pool_lock THEN "scan" ELSE "tid_read") /\ UNCHANGED lvars
    BY <1>0, <2>0, <2>10, Holder_Keeps
  <2> QED
    BY <1>1, <2>1, <2>2, <2>3, <2>4, <2>5, <2>6, <2>7, <2>8, <2>9, <2>10 DEF Create
<1>2. ASSUME NEW t \in Client, Exit(t) PROVE LifeInv'
  BY <1>0, <1>2, Exit_Keeps
<1>3. ASSUME NEW t \in Thread, tail_free(t) PROVE LifeInv'
  BY <1>0, <1>3, TailFree_Keeps
<1>4. ASSUME NEW t \in Thread, Resumes(t) PROVE LifeInv'
  BY <1>0, <1>4, Resumes_Keeps
<1>5. CASE tail_release
  BY <1>0, <1>5, TailRelease_Keeps
<1>6. CASE Idles
  BY <1>0, <1>6, Idles_Keeps
<1>7. CASE Ticks
  BY <1>0, <1>7, Ticks_Keeps
<1>8. CASE UNCHANGED life_vars
  <2>1. /\ UNCHANGED <<status, ready_list, cur, idle_thread, reap>>
        /\ UNCHANGED <<value, waiters, holder, sem, ret, lvars, tail_up>> /\ pc' = pc /\ intr' = intr
        /\ halted' = halted
    BY <1>8 DEF life_vars, tvars, mvars
  <2> QED
    BY <1>0, <2>1, Life_Types, Quiet_Keeps
<1> QED
  BY <1>1, <1>2, <1>3, <1>4, <1>5, <1>6, <1>7, <1>8 DEF LifeNext

\* The three invariants, for any number of threads.
LEMMA Life_Facts ==
  ASSUME LifeInv
  PROVE  LifeMutualExclusion /\ SleepersOK /\ PagesOK /\ TidsUnique /\ IdleFindsPoolFree
<1>1. ExclPool /\ ExclTid /\ Labels /\ PageInv /\ Listed /\ TidInv /\ IdleTail
  BY DEF LifeInv
<1>2. \A t \in Client : (Inside(t, pool_lock) <=> HasPool(t)) /\ (Inside(t, tid_lock) <=> HasTid(t))
  BY <1>1 DEF Inside, HasPool, HasTid, Labels, LabelOK
<1>3. LifeMutualExclusion
  <2>1. CASE tail_up
    BY <1>1, <1>2, <2>1 DEF LifeMutualExclusion, ExclPool
  <2>2. CASE ~tail_up
    <3>1. MutualExclusion
      <4> SUFFICES ASSUME NEW l \in Lock
                   PROVE  \/ value[l] = 1 /\ \A t \in Client : ~Inside(t, l)
                          \/ value[l] = 0 /\ \E t \in Client : Inside(t, l) /\ \A u \in Client : Inside(u, l) => u = t
        BY DEF MutualExclusion
      <4>1. CASE l = pool_lock
        BY <1>1, <1>2, <2>2, <4>1 DEF ExclPool
      <4>2. CASE l = tid_lock
        BY <1>1, <1>2, <4>2 DEF ExclTid
      <4> QED
        BY <4>1, <4>2, Life_Constants
    <3> QED
      BY <2>2, <3>1 DEF LifeMutualExclusion
  <2> QED
    BY <2>1, <2>2
<1>4. SleepersOK
  <2> SUFFICES ASSUME NEW s1 \in Sema, NEW s2 \in Sema,
                      NEW i \in 1 .. Len(waiters[s1]), NEW j \in 1 .. Len(waiters[s2])
               PROVE  /\ waiters[s1][i] # Idle => status[waiters[s1][i]] = "BLOCKED"
                      /\ waiters[s1][i] = waiters[s2][j] => s1 = s2 /\ i = j
    BY DEF SleepersOK
  <2>1. PICK t, u : t = waiters[s1][i] /\ u = waiters[s2][j]
    OBVIOUS
  <2>2. waiters[s1] \in Seq(Thread) /\ waiters[s2] \in Seq(Thread)
    BY Life_Types
  <2>3. t \in Thread /\ u \in Thread /\ On(t, waiters[s1]) /\ On(u, waiters[s2])
    BY <2>1, <2>2 DEF On
  <2>4. s1 \in {pool_lock, tid_lock} /\ s2 \in {pool_lock, tid_lock}
    BY Life_Constants
  <2>5. t # Idle => status[t] = "BLOCKED"
    BY <1>1, <2>3, <2>4, Life_Constants DEF Listed, OnPool, OnTid
  <2>6. t = u => s1 = s2
    BY <1>1, <2>3, <2>4 DEF Listed, OnPool, OnTid
  <2>7. Distinct(waiters[s1])
    BY <1>1, <2>4 DEF Listed
  <2>8. t = u => i = j
    BY <2>1, <2>6, <2>7 DEF Distinct
  <2> QED
    BY <2>1, <2>5, <2>6, <2>8
<1>5. IdleFindsPoolFree
  BY <1>1, <1>2 DEF IdleFindsPoolFree, IdleTail, Stuck, SelfWait
<1> QED
  BY <1>1, <1>3, <1>4, <1>5 DEF PageInv, TidInv

\* Counting comes last: the steps above need none of these facts.
INSTANCE FiniteSetTheorems

\* The threads inside thread_create() that have yet to count up next_tid.
Asking == {t \in Client : \/ pc[t] \in {"down", "own", "scan", "unlock", "init", "tid", "tid_read", "tid_write"}
                          \/ pc[t] = "up" /\ sem[t] = pool_lock}

\* Each call of thread_create() gives one tid, or none.
Counted ==
  /\ next_tid >= 3 /\ next_tid + Cardinality(Asking) <= created + 3
  /\ \A t \in Thread : tmp[t] <= MaxCreate + 2

\* A step begins a call of thread_create(), gives one a tid, or does neither.
LEMMA Asks ==
  ASSUME LifeInv, LifeNext
  PROVE  \/ Asking' \subseteq Asking /\ next_tid' = next_tid /\ created' = created
         \/ \E t : Asking' = Asking \cup {t} /\ next_tid' = next_tid /\ created' = created + 1
         \/ \E t \in Asking : Asking' = Asking \ {t} /\ next_tid' = next_tid + 1 /\ created' = created
<1>1. \A u \in Client : /\ LabelOK(u)
                        /\ (page[u] # None => page[u] \in Client /\ page[u] # cur)
  BY Life_Runs DEF LifeInv, Labels
<1>2. ASSUME \A u \in Client : pc'[u] = pc[u], UNCHANGED <<sem, lvars>>
      PROVE  Asking' \subseteq Asking /\ next_tid' = next_tid /\ created' = created
  BY <1>2 DEF Asking, lvars
<1>3. ASSUME NEW t \in Client, Create(t)
      PROVE  \/ Asking' \subseteq Asking /\ next_tid' = next_tid /\ created' = created
             \/ \E v : Asking' = Asking \cup {v} /\ next_tid' = next_tid /\ created' = created + 1
             \/ \E v \in Asking : Asking' = Asking \ {v} /\ next_tid' = next_tid + 1 /\ created' = created
  <2>0. LabelOK(t) /\ pc \in [Thread -> LifeLabel \cup IdleLabel] /\ sem \in [Thread -> Sema \cup {None}] /\ t \in Thread
    BY <1>1, Life_Types, Life_Constants
  <2>1. CASE create_get(t)
    <3>1. /\ pc' = [pc EXCEPT ![t] = "down"] /\ sem' = [sem EXCEPT ![t] = pool_lock]
          /\ created' = created + 1 /\ next_tid' = next_tid
      BY <2>1 DEF create_get, enter_down, goto
    <3>2. Asking' = Asking \cup {t}
      BY <2>0, <3>1, Life_Constants DEF Asking
    <3> QED
      BY <3>1, <3>2
  <2>2. CASE write_tid(t)
    <3>1. /\ pc[t] = "tid_write" /\ pc' = [pc EXCEPT ![t] = "tid_unlock"] /\ sem' = sem
          /\ next_tid' = next_tid + 1 /\ created' = created
      BY <2>2 DEF write_tid, At, goto, LifeInv, TidInv
    <3>2. Asking' = Asking \ {t} /\ t \in Asking
      BY <2>0, <3>1, Life_Constants DEF Asking
    <3> QED
      BY <3>1, <3>2
  <2>3. ASSUME NEW l, pc' = [pc EXCEPT ![t] = l], \A u \in Client : u # t => sem'[u] = sem[u],
               t \in Asking' => t \in Asking
        PROVE  Asking' \subseteq Asking
    <3>1. \A u \in Client : u # t => pc'[u] = pc[u]
      BY <2>0, <2>3, Life_Constants
    <3> QED
      BY <2>3, <3>1 DEF Asking
  <2>4. CASE create_scan(t)
    <3>1. pc[t] = "scan" /\ pc' = [pc EXCEPT ![t] = "unlock"] /\ UNCHANGED <<sem, next_tid, created>>
      BY <2>4 DEF create_scan, At, goto
    <3> QED
      BY <2>3, <3>1 DEF Asking
  <2>5. CASE create_unlock(t)
    <3>1. /\ pc[t] = "unlock" /\ pc' = [pc EXCEPT ![t] = "up"] /\ sem' = [sem EXCEPT ![t] = pool_lock]
          /\ UNCHANGED <<next_tid, created>>
      BY <2>5 DEF create_unlock, At, goto, release, enter_up, lvars
    <3> QED
      BY <2>0, <2>3, <3>1, Life_Constants DEF Asking
  <2>6. CASE create_init(t)
    <3>1. pc[t] = "init" /\ UNCHANGED <<sem, next_tid, created>>
      BY <2>6 DEF create_init, At
    <3>2. CASE page[t] = None
      BY <2>3, <2>6, <3>1, <3>2 DEF create_init, goto, Asking
    <3>3. CASE page[t] # None
      <4>1. pc' = [pc EXCEPT ![t] = "tid", ![page[t]] = "run"]
        BY <2>6, <3>3 DEF create_init
      <4>2. \A u \in Client : u # t /\ pc'[u] # "run" => pc'[u] = pc[u]
        BY <2>0, <4>1, Life_Constants
      <4> QED
        BY <3>1, <4>2 DEF Asking
    <3> QED
      BY <3>2, <3>3
  <2>7. CASE create_tid(t)
    <3>1. /\ pc[t] = "tid" /\ pc' = [pc EXCEPT ![t] = "down"] /\ sem' = [sem EXCEPT ![t] = tid_lock]
          /\ UNCHANGED <<next_tid, created>>
      BY <2>7 DEF create_tid, At, goto, enter_down, lvars
    <3> QED
      BY <2>0, <2>3, <3>1, Life_Constants DEF Asking
  <2>8. CASE read_tid(t)
    <3>1. pc[t] = "tid_read" /\ pc' = [pc EXCEPT ![t] = "tid_write"] /\ UNCHANGED <<sem, next_tid, created>>
      BY <2>8 DEF read_tid, At, goto
    <3> QED
      BY <2>3, <3>1 DEF Asking
  <2>9. CASE create_tid_unlock(t)
    <3>1. /\ pc' = [pc EXCEPT ![t] = "up"] /\ sem' = [sem EXCEPT ![t] = tid_lock]
          /\ UNCHANGED <<next_tid, created>>
      BY <2>9 DEF create_tid_unlock, goto, release, enter_up, lvars
    <3>2. t \notin Asking'
      BY <2>0, <3>1, Life_Constants DEF Asking
    <3> QED
      BY <2>0, <2>3, <3>1, <3>2, Life_Constants
  <2>10. CASE create_unblock(t)
    <3>1. pc' = [pc EXCEPT ![t] = "run"] /\ UNCHANGED <<sem, next_tid, created>>
      BY <2>10 DEF create_unblock, goto
    <3>2. t \notin Asking'
      BY <2>0, <3>1, Life_Constants DEF Asking
    <3> QED
      BY <2>3, <3>1, <3>2
  <2>11. CASE sema_down(t) /\ UNCHANGED lvars
    <3>1. pc[t] = "down" /\ ret[t] = "own" /\ UNCHANGED <<sem, next_tid, created>>
      BY <2>0, <2>11 DEF sema_down, lvars, LabelOK
    <3>2. CASE pc' = pc
      BY <1>2, <2>11, <3>1, <3>2
    <3>3. CASE pc' = [pc EXCEPT ![t] = "own"]
      BY <2>3, <3>1, <3>3 DEF Asking
    <3> QED
      BY <2>11, <3>1, <3>2, <3>3 DEF sema_down, goto
  <2>12. CASE sema_up(t) /\ UNCHANGED lvars
    <3>1. /\ pc[t] = "up" /\ pc' = [pc EXCEPT ![t] = ret[t]] /\ UNCHANGED <<sem, next_tid, created>>
          /\ ret[t] = IF sem[t] = pool_lock THEN "init" ELSE "unblock"
      BY <2>0, <2>12 DEF sema_up, At, goto, lvars, LabelOK
    <3>2. t \in Asking' => t \in Asking
      BY <2>0, <3>1 DEF Asking
    <3> QED
      BY <2>3, <3>1, <3>2
  <2>13. CASE set_holder(t, IF sem[t] = pool_lock THEN "scan" ELSE "tid_read") /\ UNCHANGED lvars
    <3>1. /\ pc[t] = "own" /\ UNCHANGED <<sem, next_tid, created>>
          /\ pc' = [pc EXCEPT ![t] = IF sem[t] = pool_lock THEN "scan" ELSE "tid_read"]
      BY <2>13 DEF set_holder, At, goto, lvars
    <3>2. t \in Asking' => t \in Asking
      BY <3>1 DEF Asking
    <3> QED
      BY <2>3, <3>1, <3>2
  <2> QED
    BY <1>3, <2>1, <2>2, <2>4, <2>5, <2>6, <2>7, <2>8, <2>9, <2>10, <2>11, <2>12, <2>13 DEF Create
<1>4. ASSUME \/ \E t \in Client : Exit(t)
             \/ \E t \in Thread : tail_free(t) \/ Resumes(t)
             \/ tail_release \/ Idles \/ Ticks
      PROVE  Asking' \subseteq Asking /\ next_tid' = next_tid /\ created' = created
  <2>1. \A u \in Client : pc'[u] = pc[u]
    <3>1. CASE pc' = pc
      BY <3>1
    <3>2. CASE \E l : pc' = [pc EXCEPT ![Idle] = l]
      BY <3>2, Life_Types, Life_Constants
    <3> QED
      BY <1>4, <3>1, <3>2
         DEF Exit, tail_free, Resumes, resume, tail_release, Idles, idle_loop, goto, Ticks, tick, wake_hlt, mvars
  <2>2. UNCHANGED <<sem, next_tid, created>>
    BY <1>4 DEF Exit, tail_free, Resumes, resume, tail_release, Idles, idle_loop, Ticks, tick, mvars, lvars
  <2> QED
    BY <2>1, <2>2 DEF Asking
<1> QED
  BY <1>3, <1>4 DEF LifeNext

\* No call of thread_create() has been made when thread_start() returns.
LEMMA Count_Init == LifeInit => Counted
<1> SUFFICES ASSUME LifeInit PROVE Counted
  OBVIOUS
<1>1. Asking = {} /\ Cardinality({}) = 0
  BY FS_EmptySet, Life_Constants DEF Asking, LifeInit
<1>2. next_tid = 3 /\ created = 0 /\ \A t \in Thread : tmp[t] = 0
  BY DEF LifeInit
<1>3. MaxCreate \in Nat
  BY Life_Constants
<1> QED
  BY <1>1, <1>2, <1>3 DEF Counted

\* A call that counts up next_tid asks no more.
LEMMA Count_Next == LifeInv /\ Counted /\ [LifeNext]_life_vars => Counted'
<1> SUFFICES ASSUME LifeInv, Counted, [LifeNext]_life_vars PROVE Counted'
  OBVIOUS
<1>0. /\ next_tid \in Nat /\ created \in Nat /\ created <= MaxCreate /\ MaxCreate \in Nat
      /\ tmp \in [Thread -> Nat]
  <2>1. next_tid \in Nat /\ created \in 0 .. MaxCreate /\ MaxCreate \in Nat /\ tmp \in [Thread -> Nat]
    BY Life_Types, Life_Constants
  <2> QED
    BY <2>1
<1>1. IsFiniteSet(Asking) /\ Cardinality(Asking) \in Nat
  <2>1. IsFiniteSet(Thread) /\ Asking \subseteq Thread
    BY LifeAssumption, Life_Constants DEF Asking
  <2> QED
    BY <2>1, FS_Subset, FS_CardinalityType
<1>2. CASE UNCHANGED life_vars
  <2>1. Asking' = Asking /\ UNCHANGED <<next_tid, created, tmp>>
    BY <1>2 DEF life_vars, lvars, mvars, Asking
  <2> QED
    BY <2>1 DEF Counted
<1>3. CASE LifeNext
  <2>1. next_tid' >= 3 /\ next_tid' + Cardinality(Asking') <= created' + 3
    <3>0. next_tid >= 3 /\ next_tid + Cardinality(Asking) <= created + 3
      BY DEF Counted
    <3>1. CASE Asking' \subseteq Asking /\ next_tid' = next_tid /\ created' = created
      <4>1. Cardinality(Asking') <= Cardinality(Asking) /\ Cardinality(Asking') \in Nat
        BY <1>1, <3>1, FS_Subset, FS_CardinalityType
      <4> QED
        BY <1>0, <1>1, <3>0, <3>1, <4>1
    <3>2. CASE \E t : Asking' = Asking \cup {t} /\ next_tid' = next_tid /\ created' = created + 1
      <4>1. PICK t : Asking' = Asking \cup {t} /\ next_tid' = next_tid /\ created' = created + 1
        BY <3>2
      <4>2. Cardinality(Asking') = Cardinality(Asking) \/ Cardinality(Asking') = Cardinality(Asking) + 1
        BY <1>1, <4>1, FS_AddElement
      <4> QED
        BY <1>0, <1>1, <3>0, <4>1, <4>2
    <3>3. CASE \E t \in Asking : Asking' = Asking \ {t} /\ next_tid' = next_tid + 1 /\ created' = created
      <4>1. PICK t \in Asking : Asking' = Asking \ {t} /\ next_tid' = next_tid + 1 /\ created' = created
        BY <3>3
      <4>2. Cardinality(Asking') = Cardinality(Asking) - 1
        BY <1>1, <4>1, FS_RemoveElement
      <4> QED
        BY <1>0, <1>1, <3>0, <4>1, <4>2
    <3> QED
      BY <1>3, <3>1, <3>2, <3>3, Asks
  <2>2. \A u \in Thread : tmp'[u] <= MaxCreate + 2
    <3>1. CASE tmp' = tmp
      BY <3>1 DEF Counted
    <3>2. ASSUME NEW t \in Client, read_tid(t) PROVE \A u \in Thread : tmp'[u] <= MaxCreate + 2
      <4>1. t \in Asking /\ tmp' = [tmp EXCEPT ![t] = next_tid]
        BY <3>2 DEF read_tid, At, Asking
      <4>2. Cardinality(Asking) # 0
        BY <1>1, <4>1, FS_EmptySet
      <4>3. next_tid <= MaxCreate + 2
        BY <1>0, <1>1, <4>2 DEF Counted
      <4>4. \A u \in Thread : tmp'[u] = next_tid \/ tmp'[u] = tmp[u]
        BY <1>0, <4>1
      <4> QED
        BY <4>3, <4>4 DEF Counted
    <3>3. ASSUME NEW t \in Client, Create(t), ~read_tid(t) PROVE tmp' = tmp
      BY <3>3 DEF Create, create_get, create_scan, create_unlock, create_init, create_tid, write_tid,
                  create_tid_unlock, create_unblock, lvars
    <3>4. ASSUME \/ \E t \in Client : Exit(t)
                 \/ \E t \in Thread : tail_free(t) \/ Resumes(t)
                 \/ tail_release \/ Idles \/ Ticks
          PROVE  tmp' = tmp
      BY <3>4 DEF Exit, tail_free, Resumes, tail_release, Idles, Ticks, lvars
    <3> QED
      BY <1>3, <3>1, <3>2, <3>3, <3>4 DEF LifeNext
  <2> QED
    BY <2>1, <2>2 DEF Counted
<1> QED
  BY <1>2, <1>3

\* next_tid and the tids stay below the bound that the calls of thread_create() set.
LEMMA Life_TypeOK ==
  ASSUME LifeInv, Counted
  PROVE  LifeTypeOK
<1>1. /\ next_tid \in Nat /\ created \in 0 .. MaxCreate /\ MaxCreate \in Nat
      /\ tmp \in [Thread -> Nat] /\ tid \in [Thread -> Nat]
  BY Life_Types, Life_Constants
<1>2. Cardinality(Asking) \in Nat
  <2>1. IsFiniteSet(Thread) /\ Asking \subseteq Thread
    BY LifeAssumption, Life_Constants DEF Asking
  <2> QED
    BY <2>1, FS_Subset, FS_CardinalityType
<1>3. next_tid \in 3 .. MaxCreate + 3
  BY <1>1, <1>2 DEF Counted
<1>4. \A t \in Thread : tid[t] \in 0 .. MaxCreate + 2
  <2>1. \A n \in Nat : n < next_tid => n \in 0 .. MaxCreate + 2
    BY <1>1, <1>3
  <2>2. \A t \in Thread : tid[t] < next_tid /\ tid[t] \in Nat
    BY <1>1 DEF LifeInv, TidInv
  <2> QED
    BY <2>1, <2>2
<1>5. \A t \in Thread : tmp[t] \in 0 .. MaxCreate + 2
  <2>1. \A n \in Nat : n <= MaxCreate + 2 => n \in 0 .. MaxCreate + 2
    BY <1>1
  <2>2. \A t \in Thread : tmp[t] <= MaxCreate + 2 /\ tmp[t] \in Nat
    BY <1>1 DEF Counted
  <2> QED
    BY <2>1, <2>2
<1>6. tid \in [Thread -> 0 .. MaxCreate + 2] /\ tmp \in [Thread -> 0 .. MaxCreate + 2]
  BY <1>1, <1>4, <1>5
<1> QED
  BY <1>1, <1>3, <1>6, Life_Types DEF LifeTypeOK

\* The invariant holds from thread_start() on.
LEMMA Spec_LifeInv == LifeSpec => [](LifeInv /\ Counted)
<1>1. LifeInit => LifeInv /\ Counted
  BY Life_Init, Count_Init
<1>2. LifeInv /\ Counted /\ [LifeNext]_life_vars => LifeInv' /\ Counted'
  BY Life_Next, Count_Next
<1> QED
  BY <1>1, <1>2, PTL DEF LifeSpec

\* thread_create(), thread_exit() and thread_schedule_tail() keep the kernel in
\* order in every interleaving, for any number of threads and calls: kernel_pool.lock
\* and tid_lock exclude although the tail of a switch takes the former in a thread's
\* name, sema_up() finds only blocked threads on the wait lists, and used_map has
\* exactly the pages of live threads and of those being made.
THEOREM Spec_LifeOK == LifeSpec => []LifeOK
<1>1. LifeInv /\ Counted => LifeOK
  BY Life_TypeOK, Life_Facts DEF LifeOK
<1> QED
  BY <1>1, Spec_LifeInv, PTL

\* allocate_tid() gives no tid twice, although its read and write of next_tid are
\* two steps: tid_lock keeps next_tid still between them.
THEOREM Spec_TidsUnique == LifeSpec => []TidsUnique
<1>1. LifeInv => TidsUnique
  BY Life_Facts
<1> QED
  BY <1>1, Spec_LifeInv, PTL

\* The idle thread never sleeps on kernel_pool.lock when it frees a dead thread's
\* page, unless some thread already sleeps on the lock that it has itself.
THEOREM Spec_IdleFindsPoolFree == LifeSpec => []IdleFindsPoolFree
<1>1. LifeInv => IdleFindsPoolFree
  BY Life_Facts
<1> QED
  BY <1>1, Spec_LifeInv, PTL
=============================================================================
