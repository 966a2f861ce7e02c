------------------------------- MODULE Clock -------------------------------
(***************************************************************************)
(* Two measurements against a clock that runs on: the calibration of the   *)
(* delay loop in devices/timer.c, and the reading of the real-time clock   *)
(* in devices/rtc.c.  The speed of the machine, loops per tick, and the    *)
(* clock chip are external.                                                *)
(***************************************************************************)
EXTENDS Integers, Sequences

CONSTANTS FirstLoops,      \* where the calibration starts, 2^10
          BITS,            \* bits that the refinement tests, 9
          MaxSpeed,        \* bound: loops in a tick of the fastest machine
          Radix,           \* of the clock's registers: seconds, minutes ... years
          Starts,          \* times, in seconds, at which the clock may be read
          MaxPassed        \* bound: seconds that pass

VARIABLES speed,           \* loops that fit in a tick; 0: not chosen yet
          loops_per_tick,
          high_bit, test_bit,
          clock, began,    \* the clock chip: seconds now, and when rtc_get_time() began
          update,          \* the register that the chip updates next, or 0
          rtc,             \* rtc_get_time(): the register it reads next, or where it is
          regs,            \* sec, min, hour, mday, mon and year
          pass, clean      \* the clock, and whether it was not updating, as this pass began

calibratevars == <<speed, loops_per_tick, high_bit, test_bit>>
rtcvars == <<clock, began, update, rtc, regs, pass, clean>>

ClockInit ==
  /\ speed = 0 /\ loops_per_tick = 0 /\ high_bit = 0 /\ test_bit = 0
  /\ clock = 0 /\ began = 0 /\ update = 0
  /\ rtc = "none" /\ regs = <<>> /\ pass = 0 /\ clean = TRUE

----------------------------------------------------------------------------
(* Calibration *)

\* LOOPS iterations, begun right after a tick, go on beyond the next.
too_many_loops(loops) == loops >= speed

calibrate_start(s) ==
  /\ speed = 0
  /\ speed' = s /\ loops_per_tick' = FirstLoops
  /\ UNCHANGED <<high_bit, test_bit>>

\* The largest power of two less than a tick.
calibrate_double ==
  /\ speed # 0 /\ high_bit = 0
  /\ IF too_many_loops(2 * loops_per_tick)
     THEN high_bit' = loops_per_tick /\ test_bit' = loops_per_tick \div 2 /\ UNCHANGED loops_per_tick
     ELSE loops_per_tick' = 2 * loops_per_tick /\ UNCHANGED <<high_bit, test_bit>>
  /\ UNCHANGED speed

\* Each bit is tested together with the high bit only.
refined == IF ~too_many_loops(high_bit + test_bit) THEN loops_per_tick + test_bit ELSE loops_per_tick

\* The value of test_bit that ends the loop.
last_bit == high_bit \div 2^(BITS + 1)

calibrate_refine ==
  /\ high_bit # 0 /\ test_bit # last_bit
  /\ loops_per_tick' = refined
  /\ test_bit' = test_bit \div 2
  /\ UNCHANGED <<speed, high_bit>>

CalibrateNext ==
  \/ \E s \in FirstLoops + 1 .. MaxSpeed : calibrate_start(s)
  \/ calibrate_double
  \/ calibrate_refine

----------------------------------------------------------------------------
(* The real-time clock *)

\* Register I at TIME.
Register(time, i) ==
  LET weight[k \in 1 .. Len(Radix)] == IF k = 1 THEN 1 ELSE Radix[k - 1] * weight[k - 1]
  IN (time \div weight[i]) % Radix[i]

\* A second begins: the chip updates the seconds, then one register after the
\* other.  A pass of the loop takes less than a minute.
clock_ticks ==
  /\ rtc # "none" /\ update = 0 /\ clock < began + MaxPassed
  /\ clock + 1 < pass + Radix[1]
  /\ clock' = clock + 1 /\ update' = 2
  /\ UNCHANGED <<began, rtc, regs, pass, clean>>

clock_carries ==
  /\ update # 0
  /\ update' = IF update = Len(Radix) THEN 0 ELSE update + 1
  /\ UNCHANGED <<clock, began, rtc, regs, pass, clean>>

cmos_read(i) == Register(IF update # 0 /\ i >= update THEN clock - 1 ELSE clock, i)

rtc_get_time(start) ==
  /\ rtc = "none"
  /\ clock' = start /\ began' = start /\ pass' = start
  /\ rtc' = "read"
  /\ UNCHANGED <<update, regs, clean>>

\* The body of the loop, register by register; the seconds come first.
rtc_read ==
  /\ rtc = "read" /\ Len(regs) < Len(Radix)
  /\ regs' = Append(regs, cmos_read(Len(regs) + 1))
  /\ IF regs = <<>> THEN pass' = clock /\ clean' = (update = 0) ELSE UNCHANGED <<pass, clean>>
  /\ UNCHANGED <<clock, began, update, rtc>>

\* Mutation: the time is taken as it was read.
stable_always == TRUE

stable == regs[1] = cmos_read(1)

\* The loop's condition: the seconds are read again.
rtc_again ==
  /\ rtc = "read" /\ Len(regs) = Len(Radix)
  /\ IF stable THEN rtc' = "returned" /\ UNCHANGED <<regs, pass>>
     ELSE regs' = <<>> /\ pass' = clock /\ UNCHANGED rtc
  /\ UNCHANGED <<clock, began, update, clean>>

RtcNext ==
  \/ \E start \in Starts : rtc_get_time(start)
  \/ clock_ticks \/ clock_carries \/ rtc_read \/ rtc_again

----------------------------------------------------------------------------
(* Properties *)

\* A calibrated delay is short of the asked one by less than one refinement
\* step, and less than twice too long: testing each bit against the high bit
\* only can accept bits that together exceed a tick.
CalibratedWithinTwo ==
  (high_bit # 0 /\ test_bit = last_bit) =>
    /\ loops_per_tick < 2 * speed
    /\ loops_per_tick + (IF last_bit = 0 THEN 1 ELSE 2 * last_bit) >= speed

\* The time returned is one that the clock showed during the call, although the
\* clock may advance and carry between two of the six registers.  If the pass
\* began in the middle of an update, registers of the times before and after it
\* may be mixed, but of no others: only the seconds are read twice, and they have
\* changed already.  (rtc.c:53-55 says that the loop is there "in case we start
\* our initial read in the middle of an update".)
TimeNotTorn ==
  rtc = "returned" =>
    IF clean THEN \E time \in began .. clock : \A i \in DOMAIN Radix : regs[i] = Register(time, i)
    ELSE \A i \in DOMAIN Radix : regs[i] \in {Register(pass - 1, i), Register(pass, i)}
=============================================================================
