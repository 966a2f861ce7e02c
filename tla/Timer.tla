------------------------------- MODULE Timer -------------------------------
(***************************************************************************)
(* Ticks and sleeping in devices/timer.c.  ticks is a 64-bit number that a *)
(* 32-bit machine reads in two halves, of HALF values each here.           *)
(***************************************************************************)
EXTENDS Integers

CONSTANTS TThread,
          HALF,            \* values of half of a tick count, 2^32
          TIMER_FREQ, DENOM, \* ticks per second; a request is for num/DENOM seconds
          MaxNum,          \* bound: the largest request
          MaxTicks         \* bound: timer interrupts

ASSUME TimerAssumption ==
  /\ "none" \notin TThread
  /\ HALF \in Nat \ {0} /\ TIMER_FREQ \in Nat \ {0} /\ DENOM \in Nat \ {0}
  /\ MaxNum \in Nat /\ MaxTicks \in Nat

VARIABLES ticks,
          masked,          \* the thread that has interrupts off, or "none"
          tpc,             \* where each thread is in timer_sleep()
          low,             \* the low half it has read
          start, want,     \* its local variables START and TICKS
          called           \* ticks when it called

timervars == <<ticks, masked, tpc, low, start, want, called>>

TimerInit ==
  /\ ticks = 0 /\ masked = "none"
  /\ tpc = [t \in TThread |-> "none"]
  /\ low = [t \in TThread |-> 0] /\ start = low /\ want = low /\ called = low

timer_interrupt ==
  /\ masked = "none" /\ ticks < MaxTicks
  /\ ticks' = ticks + 1
  /\ UNCHANGED <<masked, tpc, low, start, want, called>>

step(t, from, to) == tpc[t] = from /\ masked \in {"none", t} /\ tpc' = [tpc EXCEPT ![t] = to]

\* real_time_sleep() of num/DENOM seconds, rounded down to ticks; shorter than
\* a tick, it is a busy wait, which is no step of this model.
real_time_sleep(t, num) ==
  LET n == (num * TIMER_FREQ) \div DENOM
  IN /\ n > 0
     /\ step(t, "none", "disable")
     /\ want' = [want EXCEPT ![t] = n]
     /\ called' = [called EXCEPT ![t] = ticks]
     /\ start' = [start EXCEPT ![t] = -1]
     /\ UNCHANGED <<ticks, masked, low>>

\* Mutation: the ticks are read with interrupts on.
intr_off_not(t) == UNCHANGED masked

intr_off(t) == masked' = t

\* timer_ticks(): intr_disable(), the two halves, intr_set_level().
ticks_disable(t) ==
  /\ step(t, "disable", "low")
  /\ intr_off(t)
  /\ UNCHANGED <<ticks, low, start, want, called>>

ticks_low(t) ==
  /\ step(t, "low", "high")
  /\ low' = [low EXCEPT ![t] = ticks % HALF]
  /\ UNCHANGED <<ticks, masked, start, want, called>>

\* timer_elapsed()
elapsed(now, then) == now - then

\* The high half; then the caller: timer_sleep() notes the start, or it yields
\* and looks again, or returns.
ticks_high(t) ==
  LET now == (ticks \div HALF) * HALF + low[t]
      first == start[t] = -1
      awake == ~first /\ elapsed(now, start[t]) >= want[t]
  IN /\ step(t, "high", IF awake THEN "returned" ELSE "disable")
     /\ masked' = "none"
     /\ start' = IF first THEN [start EXCEPT ![t] = now] ELSE start
     /\ low' = [low EXCEPT ![t] = 0]
     /\ UNCHANGED <<ticks, want, called>>

sleeps(t) == ticks_disable(t) \/ ticks_low(t) \/ ticks_high(t)

TimerNext ==
  \/ timer_interrupt
  \/ \E t \in TThread : sleeps(t) \/ \E num \in 1 .. MaxNum : real_time_sleep(t, num)

TimerSpec == TimerInit /\ [][TimerNext]_timervars

----------------------------------------------------------------------------
(* Properties *)

\* timer_sleep() returns no earlier than it was asked to, also when the low
\* half of ticks wraps around while threads read it: a tick between the two
\* halves would make a thread see a time long past or far ahead.
SleepNotShort == \A t \in TThread : tpc[t] = "returned" => ticks - called[t] >= want[t]

\* Every sleeper wakes up, if the machine ticks on for long enough.
SleepEnds ==
  \A t \in TThread : (tpc[t] = "disable") ~> (tpc[t] = "returned" \/ start[t] + want[t] > MaxTicks)
=============================================================================
