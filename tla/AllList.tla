------------------------------- MODULE AllList -------------------------------
(***************************************************************************)
(* The list of all threads (threads/thread.c).  init_thread() appends to   *)
(* all_list with interrupts on, so a thread can be preempted between the   *)
(* assignments of list_insert(); thread_exit() removes from all_list with  *)
(* interrupts off.  Elements are the allelem members of the threads.       *)
(***************************************************************************)
EXTENDS ListOps

CONSTANTS all_list,            \* the list
          initial_thread       \* never exits

VARIABLES mem,
          alive,               \* threads created and not exited
          new,                 \* the thread that a thread is creating, or NULL
          step                 \* the next assignment of its list_insert()

avars == <<mem, alive, new, step>>

\* thread_init() has put the initial thread on the list.
AllListInit ==
  LET empty == [next |-> [n \in Node |-> NULL], prev |-> [n \in Node |-> NULL]]
  IN /\ mem = list_push_back(list_init(empty, all_list), all_list, initial_thread)
     /\ alive = {initial_thread}
     /\ new = [t \in Elem |-> NULL]
     /\ step = [t \in Elem |-> 0]

\* thread_create() up to list_push_back(): a page, cleared by memset().
init_thread(t) ==
  /\ t \in alive /\ new[t] = NULL
  /\ \E n \in Elem \ (alive \cup {new[u] : u \in Elem}) :
       /\ new' = [new EXCEPT ![t] = n]
       /\ mem' = set_next(set_prev(mem, n, NULL), n, NULL)
  /\ step' = [step EXCEPT ![t] = 1]
  /\ UNCHANGED alive

\* One assignment of list_insert (list_end (&all_list), n).
list_insert_step(t) ==
  LET n == new[t]
      before == list_end(all_list)
  IN /\ new[t] # NULL
     /\ mem' = CASE step[t] = 1 -> set_prev(mem, n, mem.prev[before])
                 [] step[t] = 2 -> set_next(mem, n, before)
                 [] step[t] = 3 -> set_next(mem, mem.prev[before], n)
                 [] step[t] = 4 -> set_prev(mem, before, n)
     /\ IF step[t] = 4
        THEN /\ alive' = alive \cup {n}
             /\ new' = [new EXCEPT ![t] = NULL]
             /\ step' = [step EXCEPT ![t] = 0]
        ELSE /\ step' = [step EXCEPT ![t] = @ + 1]
             /\ UNCHANGED <<alive, new>>

\* list_remove (&thread_current ()->allelem); its ASSERT has to hold.
thread_exit(t) ==
  /\ t \in alive \ {initial_thread} /\ new[t] = NULL
  /\ is_interior(mem, t)
  /\ mem' = list_remove(mem, t)
  /\ alive' = alive \ {t}
  /\ UNCHANGED <<new, step>>

AllListNext == \E t \in Elem : init_thread(t) \/ list_insert_step(t) \/ thread_exit(t)

AllListSpec == AllListInit /\ [][AllListNext]_avars

\* What the comment on all_list says, of the threads that run: while no thread is
\* being created, a loop over all_list, as in thread_foreach(), meets every thread
\* that has been created and has not exited.
AllListed ==
  (\A t \in Elem : new[t] = NULL) => alive \subseteq Range(Forward(mem, all_list))
=============================================================================
