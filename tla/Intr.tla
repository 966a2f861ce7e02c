-------------------------------- MODULE Intr --------------------------------
(***************************************************************************)
(* Interrupt dispatch: intr_handler() of threads/interrupt.c, entered and  *)
(* left through threads/intr-stubs.S, with the interrupt controllers       *)
(* (PICs) and with threads that switch inside of it.                       *)
(*                                                                         *)
(* Each thread has a stack of interrupt frames.  The gates of external     *)
(* vectors turn interrupts off; iret restores the flag that the frame      *)
(* saved.  A thread that is switched away keeps its frame until it is      *)
(* switched to again.                                                      *)
(***************************************************************************)
EXTENDS Integers, Sequences

CONSTANTS RThread,         \* threads, with the one that runs at first
          FirstThread,
          Vec,             \* external vectors; those in Handled have a handler
          Handled,
          Spurious,        \* vectors 0x27 and 0x2f of the PICs
          MaxIrq           \* bound: interrupts raised

ASSUME IntrAssumption == FirstThread \in RThread

VARIABLES flag_if,         \* the CPU's interrupt flag
          running,         \* the running thread
          frames,          \* of each thread, its frames, innermost last: [vec, at, saved]
          in_external_intr,
          yield_on_return,
          asked,           \* the handler of this interrupt called intr_yield_on_return()
          in_service,      \* vectors that a PIC has delivered and has had no EOI for
          pending,         \* vectors that a PIC holds back
          raised,
          unexpected_cnt,
          switching        \* the running thread has just been switched to

intrvars == <<flag_if, running, frames, in_external_intr, yield_on_return, asked, in_service,
              pending, raised, unexpected_cnt, switching>>

IntrInit ==
  /\ flag_if = TRUE /\ running = FirstThread
  /\ frames = [t \in RThread |-> <<>>]
  /\ in_external_intr = FALSE /\ yield_on_return = FALSE /\ asked = FALSE
  /\ in_service = {} /\ pending = {} /\ raised = 0 /\ unexpected_cnt = 0
  /\ switching = FALSE

inner == frames[running][Len(frames[running])]
at_frame(where) == ~switching /\ frames[running] # <<>> /\ inner.at = where
goto_frame(where) == frames' = [frames EXCEPT ![running][Len(frames[running])].at = where]

\* A device raises its line; the PIC keeps it, once.
irq_raised(v) ==
  /\ raised < MaxIrq /\ v \notin pending
  /\ pending' = pending \cup {v} /\ raised' = raised + 1
  /\ UNCHANGED <<flag_if, running, frames, in_external_intr, yield_on_return, asked, in_service,
                 unexpected_cnt, switching>>

cleared == yield_on_return' = FALSE

\* make_intr_gate(): the handler is entered with interrupts off.
gate_flag == flag_if' = FALSE

\* The stub and intr_handler() up to the call of the handler.  A spurious
\* interrupt is not in service.
intr_entry(v) ==
  /\ flag_if /\ ~switching /\ v \in pending /\ in_service = {}
  /\ gate_flag
  /\ frames' = [frames EXCEPT ![running] = Append(@, [vec |-> v, at |-> "handler", saved |-> flag_if])]
  /\ in_external_intr' = TRUE
  /\ cleared
  /\ asked' = FALSE
  /\ pending' = pending \ {v}
  /\ in_service' = IF v \in Spurious THEN {} ELSE {v}
  /\ UNCHANGED <<running, raised, unexpected_cnt, switching>>

\* The handler, which may ask for a yield; a vector without one is counted,
\* unless it is one of the spurious ones.
handler_runs(ask) ==
  /\ at_frame("handler") /\ (ask => inner.vec \in Handled)
  /\ goto_frame("end")
  /\ yield_on_return' = (yield_on_return \/ ask) /\ asked' = ask
  /\ unexpected_cnt' = IF inner.vec \in Handled \cup Spurious THEN unexpected_cnt ELSE unexpected_cnt + 1
  /\ UNCHANGED <<flag_if, running, in_external_intr, in_service, pending, raised, switching>>

\* Mutation: an interrupt without a handler is not acknowledged.
acknowledged_handled(v) == IF v \in Handled THEN {v} ELSE {}

\* What pic_end_of_interrupt() acknowledges.
acknowledged(v) == {v}

\* The rest of intr_handler() up to thread_yield() or its return.
intr_end ==
  /\ at_frame("end")
  /\ in_external_intr' = FALSE
  /\ in_service' = in_service \ acknowledged(inner.vec)
  /\ goto_frame(IF yield_on_return THEN "yield" ELSE "iret")
  /\ UNCHANGED <<flag_if, running, yield_on_return, asked, pending, raised, unexpected_cnt, switching>>

\* thread_yield() at the end of intr_handler(), or called by a thread.
switch_to(t) ==
  /\ t # running
  /\ \/ at_frame("yield") /\ goto_frame("iret")
     \/ ~switching /\ frames[running] = <<>> /\ flag_if /\ UNCHANGED frames
  /\ running' = t /\ switching' = TRUE /\ flag_if' = FALSE
  /\ UNCHANGED <<in_external_intr, yield_on_return, asked, in_service, pending, raised, unexpected_cnt>>

flag_after_switch == frames[running] = <<>>

\* The thread switched to leaves thread_yield(): inside intr_handler() the flag
\* is still off, elsewhere intr_set_level() turns it on.
switched_to ==
  /\ switching /\ switching' = FALSE
  /\ flag_if' = flag_after_switch
  /\ UNCHANGED <<running, frames, in_external_intr, yield_on_return, asked, in_service, pending,
                 raised, unexpected_cnt>>

intr_exit ==
  /\ at_frame("iret")
  /\ flag_if' = inner.saved
  /\ frames' = [frames EXCEPT ![running] = SubSeq(@, 1, Len(@) - 1)]
  /\ UNCHANGED <<running, in_external_intr, yield_on_return, asked, in_service, pending, raised,
                 unexpected_cnt, switching>>

IntrNext ==
  \/ \E v \in Vec : irq_raised(v) \/ intr_entry(v)
  \/ \E ask \in BOOLEAN : handler_runs(ask)
  \/ intr_end
  \/ \E t \in RThread : switch_to(t)
  \/ switched_to
  \/ intr_exit

IntrSpec == IntrInit /\ [][IntrNext]_intrvars

----------------------------------------------------------------------------
(* Properties *)

\* Frame i of thread t is an external interrupt that is being handled.
handling(t, i) == i \in 1 .. Len(frames[t]) /\ frames[t][i].at \in {"handler", "end"}

\* interrupt.c: "External interrupts run with interrupts turned off, so they
\* never nest, nor are they ever pre-empted": over all threads' stacks one is
\* being handled exactly while in_external_intr is set, by the running thread
\* and with the flag off.
NeverNest ==
  /\ in_external_intr => handling(running, Len(frames[running]))
  /\ \A t \in RThread : \A i \in 1 .. Len(frames[t]) : handling(t, i) =>
       in_external_intr /\ ~flag_if /\ ~switching /\ t = running /\ i = Len(frames[t])

\* A thread is switched away from only after the controller has been told of
\* the end of the interrupt: otherwise the other threads would run without
\* timer, keyboard and disk until that thread's turn comes again.
AcknowledgedBeforeSwitch == ~in_external_intr => in_service = {}

\* intr_handler() yields for what its own handler asked, never for a request
\* that an earlier interrupt, of this or another thread, left behind.
YieldsForItself == at_frame("yield") => asked

\* A thread's code between interrupts runs with interrupts on again, however
\* many switches happened inside intr_handler().
FlagRestored == (frames[running] = <<>> /\ ~switching) => flag_if

\* An interrupt that a controller holds back is delivered.
IrqDelivered == \A v \in Vec : (v \in pending) ~> (v \notin pending)

\* intr_handler() keeps its promises across thread switches: handlers never
\* nest, each interrupt is acknowledged before another thread runs, a yield is
\* for the interrupt that asked, and the flag comes back.
InterruptsOK == NeverNest /\ AcknowledgedBeforeSwitch /\ YieldsForItself /\ FlagRestored
=============================================================================
