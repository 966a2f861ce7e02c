---------------------------- MODULE DeviceProofs ----------------------------
(***************************************************************************)
(* What the drivers promise, for any threads, sizes and requests: no sleep *)
(* is short, interrupt dispatch keeps its rules, the disks keep what is    *)
(* written to them, and the serial port keeps its bytes in order.          *)
(***************************************************************************)
EXTENDS Timer, Intr, Ide, Serial, TLAPS

\* Most leaves are first-order and Zenon's; arithmetic and the rest are Z3's.
USE ZenonT(30), SMTT(60)

-----------------------------------------------------------------------------
(* The timer *)

TimerTypeOK ==
  /\ ticks \in Nat
  /\ masked \in TThread \cup {"none"}
  /\ tpc \in [TThread -> {"none", "disable", "low", "high", "returned"}]
  /\ low \in [TThread -> Nat] /\ start \in [TThread -> Int]
  /\ want \in [TThread -> Nat] /\ called \in [TThread -> Nat]

\* A thread between the two halves keeps the clock still, so the low half that
\* it has read is that of the present time.
ReadsWhole ==
  \A t \in TThread :
    /\ tpc[t] \in {"low", "high"} => masked = t
    /\ tpc[t] = "high" => low[t] = ticks % HALF

\* No thread starts to count before it called.
StartsLate ==
  \A t \in TThread : /\ called[t] <= ticks
                     /\ start[t] = -1 \/ called[t] <= start[t]

TimerInv == TimerTypeOK /\ ReadsWhole /\ StartsLate /\ SleepNotShort

\* The two halves of a count make the count.
LEMMA Halves ==
  ASSUME NEW n \in Nat
  PROVE  /\ n % HALF \in Nat
         /\ (n \div HALF) * HALF + (n % HALF) = n
  BY TimerAssumption

LEMMA Init_TimerInv == TimerInit => TimerInv
  BY TimerAssumption, SMTT(60) DEF TimerInit, TimerInv, TimerTypeOK, ReadsWhole, StartsLate, SleepNotShort

LEMMA Next_TimerInv == TimerInv /\ [TimerNext]_timervars => TimerInv'
<1> SUFFICES ASSUME TimerInv, [TimerNext]_timervars PROVE TimerInv'
  OBVIOUS
<1> USE TimerAssumption DEF TimerInv
<1>1. ASSUME timer_interrupt PROVE TimerInv'
  <2>1. \A t \in TThread : tpc[t] \notin {"low", "high"}
    BY <1>1 DEF timer_interrupt, ReadsWhole
  <2> QED
    BY <1>1, <2>1, SMTT(60) DEF timer_interrupt, TimerTypeOK, ReadsWhole, StartsLate, SleepNotShort
<1>2. ASSUME NEW t \in TThread, NEW num \in 1 .. MaxNum, real_time_sleep(t, num) PROVE TimerInv'
  <2> DEFINE n == (num * TIMER_FREQ) \div DENOM
  <2>1. n \in Int /\ n > 0
    BY <1>2 DEF real_time_sleep
  <2>2. /\ tpc[t] = "none" /\ tpc' = [tpc EXCEPT ![t] = "disable"]
        /\ want' = [want EXCEPT ![t] = n] /\ called' = [called EXCEPT ![t] = ticks]
        /\ start' = [start EXCEPT ![t] = -1] /\ UNCHANGED <<ticks, masked, low>>
    BY <1>2 DEF real_time_sleep, step
  <2> HIDE DEF n
  <2> QED
    BY <2>1, <2>2, SMTT(60) DEF TimerTypeOK, ReadsWhole, StartsLate, SleepNotShort
<1>3. ASSUME NEW t \in TThread, ticks_disable(t) PROVE TimerInv'
  <2>1. \A u \in TThread \ {t} : tpc[u] \notin {"low", "high"}
    BY <1>3 DEF ticks_disable, step, ReadsWhole
  <2> QED
    BY <1>3, <2>1 DEF ticks_disable, step, intr_off, TimerTypeOK, ReadsWhole, StartsLate, SleepNotShort
<1>4. ASSUME NEW t \in TThread, ticks_low(t) PROVE TimerInv'
  <2>1. ticks % HALF \in Nat
    BY Halves DEF TimerTypeOK
  <2> QED
    BY <1>4, <2>1 DEF ticks_low, step, TimerTypeOK, ReadsWhole, StartsLate, SleepNotShort
<1>5. ASSUME NEW t \in TThread, ticks_high(t) PROVE TimerInv'
  <2>1. tpc[t] = "high" /\ masked = t /\ low[t] = ticks % HALF /\ ticks \in Nat
    BY <1>5 DEF ticks_high, step, ReadsWhole, TimerTypeOK
  <2>2. (ticks \div HALF) * HALF + low[t] = ticks
    BY <2>1, Halves
  <2> DEFINE first == start[t] = -1
             awake == ~first /\ ticks - start[t] >= want[t]
  <2>3. /\ tpc' = [tpc EXCEPT ![t] = IF awake THEN "returned" ELSE "disable"]
        /\ masked' = "none"
        /\ start' = IF first THEN [start EXCEPT ![t] = ticks] ELSE start
        /\ low' = [low EXCEPT ![t] = 0]
        /\ UNCHANGED <<ticks, want, called>>
    BY <1>5, <2>2 DEF ticks_high, step, elapsed
  <2>4. \A u \in TThread \ {t} : tpc[u] \notin {"low", "high"}
    BY <2>1 DEF ReadsWhole
  <2>5. TimerTypeOK' /\ ReadsWhole'
    BY <2>1, <2>3, <2>4, SMTT(60) DEF TimerTypeOK, ReadsWhole
  <2>6. StartsLate'
    BY <2>1, <2>3 DEF StartsLate, TimerTypeOK
  <2>7. SleepNotShort'
    <3>1. ASSUME awake PROVE ticks - called[t] >= want[t]
      BY <2>1, <3>1, SMTT(60) DEF StartsLate, TimerTypeOK
    <3>2. ASSUME NEW u \in TThread, tpc'[u] = "returned" PROVE ticks' - called'[u] >= want'[u]
      BY <2>1, <2>3, <3>1, <3>2 DEF SleepNotShort, TimerTypeOK
    <3> QED
      BY <3>2 DEF SleepNotShort
  <2> QED
    BY <2>5, <2>6, <2>7
<1>6. CASE UNCHANGED timervars
  BY <1>6 DEF timervars, TimerTypeOK, ReadsWhole, StartsLate, SleepNotShort
<1> QED
  BY <1>1, <1>2, <1>3, <1>4, <1>5, <1>6 DEF TimerNext, sleeps

\* timer_sleep() never returns early, whatever ticks come between the calls and
\* however the count is split into halves.
THEOREM Spec_SleepNotShort == TimerSpec => []SleepNotShort
<1>1. TimerSpec => []TimerInv
  BY Init_TimerInv, Next_TimerInv, PTL DEF TimerSpec
<1>2. TimerInv => SleepNotShort
  BY DEF TimerInv
<1> QED
  BY <1>1, <1>2, PTL

-----------------------------------------------------------------------------
(* Interrupt dispatch *)

Frame == [vec : Vec, at : {"handler", "end", "yield", "iret"}, saved : {TRUE}]

\* A thread has at most one frame: interrupts stay off until its iret.
Stack == {<<>>} \cup {<<f>> : f \in Frame}

IntrTypeOK ==
  /\ flag_if \in BOOLEAN /\ in_external_intr \in BOOLEAN /\ yield_on_return \in BOOLEAN
  /\ asked \in BOOLEAN /\ switching \in BOOLEAN
  /\ running \in RThread
  /\ frames \in [RThread -> Stack]

\* The flag is on exactly in the code of a thread, outside switches.
FlagExact == flag_if <=> (~switching /\ frames[running] = <<>>)

\* in_external_intr says that the running thread is in a handler, which is the
\* one that the controller waits for.
ExternalExact ==
  IF in_external_intr
  THEN /\ ~switching /\ frames[running] # <<>>
       /\ frames[running][1].at \in {"handler", "end"}
       /\ in_service \subseteq {frames[running][1].vec}
  ELSE in_service = {}

\* What is known of thread t's frame f: all but one that waits for its iret is
\* the running thread's, and a yield is for a request made since entry.
FrameKnown(t, f) ==
  /\ f.at # "iret" => t = running /\ ~switching
  /\ f.at \in {"handler", "end"} => in_external_intr
  /\ f.at = "handler" => ~yield_on_return
  /\ f.at \in {"end", "yield"} => (yield_on_return => asked)
  /\ f.at = "yield" => asked

FramesKnown == \A t \in RThread : frames[t] # <<>> => FrameKnown(t, frames[t][1])

IntrInv == IntrTypeOK /\ FlagExact /\ ExternalExact /\ FramesKnown

-----------------------------------------------------------------------------
(* Stacks of one frame *)

LEMMA Stack_One ==
  ASSUME NEW s \in Stack, s # <<>>
  PROVE  /\ s[1] \in Frame /\ s = <<s[1]>> /\ Len(s) = 1
         /\ SubSeq(s, 1, Len(s) - 1) = <<>>
<1>1. PICK f \in Frame : s = <<f>>
  BY DEF Stack
<1>2. <<f>>[1] = f /\ Len(<<f>>) = 1
  OBVIOUS
<1>3. SubSeq(s, 1, 0) = <<>>
  BY <1>1
<1> QED
  BY <1>1, <1>2, <1>3

LEMMA Stack_Empty ==
  /\ Len(<<>>) = 0 /\ <<>> \in Stack
  /\ \A f \in Frame : Append(<<>>, f) = <<f>> /\ <<f>> \in Stack /\ <<f>> # <<>> /\ <<f>>[1] = f
  BY DEF Stack

\* Moving the innermost frame on changes where it is and nothing else.
LEMMA Goto_Frame ==
  ASSUME IntrTypeOK, frames[running] # <<>>, NEW w \in {"end", "yield", "iret"}, goto_frame(w)
  PROVE  /\ frames' \in [RThread -> Stack]
         /\ frames'[running] # <<>>
         /\ frames'[running][1] = [frames[running][1] EXCEPT !.at = w]
         /\ \A t \in RThread \ {running} : frames'[t] = frames[t]
         /\ inner = frames[running][1] /\ inner \in Frame
<1> DEFINE f == frames[running][1]
           g == [f EXCEPT !.at = w]
<1>1. frames[running] \in Stack /\ running \in RThread
  BY DEF IntrTypeOK
<1>2. f \in Frame /\ frames[running] = <<f>> /\ Len(frames[running]) = 1
  BY <1>1, Stack_One
<1>3. g \in Frame
  BY <1>2 DEF Frame
<1>4. frames' = [frames EXCEPT ![running] = [frames[running] EXCEPT ![1] = g]]
  BY <1>2 DEF goto_frame
<1>5. [<<f>> EXCEPT ![1] = g] = <<g>>
  BY SMTT(60)
<1>6. frames' = [frames EXCEPT ![running] = <<g>>]
  BY <1>2, <1>4, <1>5
<1>7. <<g>> \in Stack /\ <<g>> # <<>> /\ <<g>>[1] = g
  BY <1>3, Stack_Empty
<1>8. frames \in [RThread -> Stack]
  BY DEF IntrTypeOK
<1>9. frames'[running] = <<g>>
  BY <1>1, <1>6, <1>8
<1>10. \A t \in RThread \ {running} : frames'[t] = frames[t]
  BY <1>6, <1>8
<1>11. frames' \in [RThread -> Stack]
  BY <1>1, <1>6, <1>7, <1>8
<1>12. inner = f
  BY <1>2 DEF inner
<1> QED
  BY <1>2, <1>7, <1>9, <1>10, <1>11, <1>12

-----------------------------------------------------------------------------
(* The invariant *)

LEMMA Init_IntrInv == IntrInit => IntrInv
<1> SUFFICES ASSUME IntrInit PROVE IntrInv
  OBVIOUS
<1>1. IntrTypeOK
  BY IntrAssumption, Stack_Empty DEF IntrInit, IntrTypeOK
<1>2. \A t \in RThread : frames[t] = <<>>
  BY DEF IntrInit
<1> QED
  BY <1>1, <1>2, IntrAssumption DEF IntrInit, IntrInv, FlagExact, ExternalExact, FramesKnown

LEMMA Next_IntrInv == IntrInv /\ [IntrNext]_intrvars => IntrInv'
<1> SUFFICES ASSUME IntrInv, [IntrNext]_intrvars PROVE IntrInv'
  OBVIOUS
<1> USE DEF IntrInv
<1>0. /\ running \in RThread /\ frames[running] \in Stack
      /\ frames \in [RThread -> Stack]
  BY DEF IntrTypeOK
<1>1. ASSUME NEW v \in Vec, irq_raised(v) PROVE IntrInv'
  BY <1>1 DEF irq_raised, IntrTypeOK, FlagExact, ExternalExact, FramesKnown, FrameKnown
<1>2. ASSUME NEW v \in Vec, intr_entry(v) PROVE IntrInv'
  <2> DEFINE f == [vec |-> v, at |-> "handler", saved |-> TRUE]
  <2>1. frames[running] = <<>> /\ ~switching /\ flag_if = TRUE
    BY <1>2 DEF intr_entry, FlagExact, IntrTypeOK
  <2>2. f \in Frame
    BY DEF Frame
  <2>3. frames' = [frames EXCEPT ![running] = <<f>>]
    BY <1>2, <2>1, <2>2, Stack_Empty DEF intr_entry
  <2>4. <<f>> \in Stack /\ <<f>> # <<>> /\ <<f>>[1] = f
    BY <2>2, Stack_Empty
  <2>5. /\ frames' \in [RThread -> Stack] /\ frames'[running] = <<f>>
        /\ \A t \in RThread \ {running} : frames'[t] = frames[t]
    BY <1>0, <2>3, <2>4
  <2>6. /\ flag_if' = FALSE /\ in_external_intr' = TRUE /\ yield_on_return' = FALSE /\ asked' = FALSE
        /\ running' = running /\ switching' = FALSE
        /\ in_service' \subseteq {v}
    BY <1>2, <2>1 DEF intr_entry, gate_flag, cleared
  <2>7. IntrTypeOK'
    BY <1>0, <2>5, <2>6 DEF IntrTypeOK
  <2>8. FlagExact' /\ ExternalExact'
    BY <2>4, <2>5, <2>6, SMTT(60) DEF FlagExact, ExternalExact
  <2>9. \A t \in RThread \ {running} : frames[t] # <<>> => frames[t][1].at = "iret"
    <3>1. TAKE t \in RThread \ {running}
    <3>2. HAVE frames[t] # <<>>
    <3> QED
      BY <3>2 DEF FramesKnown, FrameKnown
  <2>10. ASSUME NEW t \in RThread, frames'[t] # <<>> PROVE FrameKnown(t, frames[t][1])'
    <3>1. CASE t = running
      BY <2>4, <2>5, <2>6, <3>1, SMTT(60) DEF FrameKnown
    <3>2. CASE t # running
      BY <2>5, <2>9, <2>10, <3>2 DEF FrameKnown
    <3> QED
      BY <3>1, <3>2
  <2> QED
    BY <2>7, <2>8, <2>10 DEF FramesKnown
<1>3. ASSUME NEW ask \in BOOLEAN, handler_runs(ask) PROVE IntrInv'
  <2>1. /\ frames[running] # <<>> /\ inner.at = "handler" /\ goto_frame("end") /\ ~switching
    BY <1>3 DEF handler_runs, at_frame
  <2>2. /\ frames' \in [RThread -> Stack] /\ frames'[running] # <<>>
        /\ frames'[running][1] = [frames[running][1] EXCEPT !.at = "end"]
        /\ \A t \in RThread \ {running} : frames'[t] = frames[t]
        /\ inner = frames[running][1] /\ inner \in Frame
    BY <2>1, Goto_Frame
  <2>3. frames'[running][1].at = "end" /\ frames'[running][1].vec = frames[running][1].vec
    BY <2>2 DEF Frame
  <2>4. FrameKnown(running, frames[running][1]) /\ frames[running][1].at = "handler"
    BY <1>0, <2>1, <2>2 DEF FramesKnown
  <2>5. in_external_intr /\ ~yield_on_return
    BY <2>4 DEF FrameKnown
  <2>6. /\ flag_if' = flag_if /\ in_external_intr' = in_external_intr /\ running' = running
        /\ switching' = switching /\ in_service' = in_service
        /\ asked' = ask /\ yield_on_return' = (yield_on_return \/ ask)
    BY <1>3 DEF handler_runs
  <2>7. IntrTypeOK'
    BY <1>3, <2>2, <2>5, <2>6 DEF IntrTypeOK
  <2>8. FlagExact' /\ ExternalExact'
    BY <2>1, <2>2, <2>3, <2>5, <2>6 DEF FlagExact, ExternalExact
  <2>9. ASSUME NEW t \in RThread, frames'[t] # <<>> PROVE FrameKnown(t, frames[t][1])'
    <3>1. CASE t = running
      BY <2>1, <2>3, <2>5, <2>6, <3>1 DEF FrameKnown
    <3>2. CASE t # running
      BY <2>2, <2>6, <2>9, <3>2 DEF FrameKnown, FramesKnown
    <3> QED
      BY <3>1, <3>2
  <2> QED
    BY <2>7, <2>8, <2>9 DEF FramesKnown
<1>4. ASSUME intr_end PROVE IntrInv'
  <2> DEFINE w == IF yield_on_return THEN "yield" ELSE "iret"
  <2>1. /\ frames[running] # <<>> /\ inner.at = "end" /\ goto_frame(w) /\ ~switching
    BY <1>4 DEF intr_end, at_frame
  <2>2. /\ frames' \in [RThread -> Stack] /\ frames'[running] # <<>>
        /\ frames'[running][1] = [frames[running][1] EXCEPT !.at = w]
        /\ \A t \in RThread \ {running} : frames'[t] = frames[t]
        /\ inner = frames[running][1] /\ inner \in Frame
    BY <2>1, Goto_Frame
  <2>3. frames'[running][1].at = w
    BY <2>2 DEF Frame
  <2>4. FrameKnown(running, frames[running][1]) /\ frames[running][1].at = "end"
    BY <1>0, <2>1, <2>2 DEF FramesKnown
  <2>5. in_external_intr /\ (yield_on_return => asked)
    BY <2>4 DEF FrameKnown
  <2>6. /\ flag_if' = flag_if /\ in_external_intr' = FALSE /\ running' = running
        /\ switching' = switching /\ asked' = asked /\ yield_on_return' = yield_on_return
    BY <1>4 DEF intr_end
  <2>7. in_service' = {}
    BY <1>4, <2>2, <2>5 DEF intr_end, acknowledged, ExternalExact
  <2>8. IntrTypeOK'
    BY <2>2, <2>6 DEF IntrTypeOK
  <2>9. FlagExact' /\ ExternalExact'
    BY <2>1, <2>2, <2>6, <2>7 DEF FlagExact, ExternalExact
  <2>10. \A t \in RThread \ {running} : frames[t] # <<>> => frames[t][1].at = "iret"
    BY DEF FramesKnown, FrameKnown
  <2>11. ASSUME NEW t \in RThread, frames'[t] # <<>> PROVE FrameKnown(t, frames[t][1])'
    <3>1. CASE t = running
      BY <2>1, <2>3, <2>5, <2>6, <3>1 DEF FrameKnown
    <3>2. CASE t # running
      BY <2>2, <2>6, <2>10, <2>11, <3>2 DEF FrameKnown
    <3> QED
      BY <3>1, <3>2
  <2> QED
    BY <2>8, <2>9, <2>11 DEF FramesKnown


<1>5. ASSUME NEW t \in RThread, switch_to(t) PROVE IntrInv'
  <2>1. /\ running' = t /\ switching' = TRUE /\ flag_if' = FALSE
        /\ in_external_intr' = in_external_intr /\ yield_on_return' = yield_on_return
        /\ asked' = asked /\ in_service' = in_service
    BY <1>5 DEF switch_to
  <2>2. /\ frames' \in [RThread -> Stack] /\ ~in_external_intr
        /\ \A u \in RThread : frames'[u] # <<>> => frames'[u][1].at = "iret"
    <3>1. CASE at_frame("yield") /\ goto_frame("iret")
      <4>1. /\ frames[running] # <<>> /\ inner.at = "yield"
        BY <3>1 DEF at_frame
      <4>2. /\ frames' \in [RThread -> Stack] /\ frames'[running] # <<>>
            /\ frames'[running][1] = [frames[running][1] EXCEPT !.at = "iret"]
            /\ \A u \in RThread \ {running} : frames'[u] = frames[u]
            /\ inner = frames[running][1] /\ inner \in Frame
        BY <3>1, <4>1, Goto_Frame
      <4>3. frames'[running][1].at = "iret"
        BY <4>2 DEF Frame
      <4>4. \A u \in RThread \ {running} : frames[u] # <<>> => frames[u][1].at = "iret"
        BY DEF FramesKnown, FrameKnown
      <4>5. ~in_external_intr
        BY <4>1, <4>2 DEF ExternalExact
      <4> QED
        BY <4>2, <4>3, <4>4, <4>5
    <3>2. CASE ~switching /\ frames[running] = <<>> /\ flag_if /\ UNCHANGED frames
      <4>1. \A u \in RThread : frames[u] # <<>> => frames[u][1].at = "iret"
        BY <3>2 DEF FramesKnown, FrameKnown
      <4> QED
        BY <1>0, <3>2, <4>1 DEF ExternalExact
    <3> QED
      BY <1>5, <3>1, <3>2 DEF switch_to
  <2>3. IntrTypeOK'
    BY <1>5, <2>1, <2>2 DEF IntrTypeOK
  <2>4. FlagExact' /\ ExternalExact'
    BY <2>1, <2>2 DEF FlagExact, ExternalExact
  <2>5. FramesKnown'
    BY <2>2 DEF FramesKnown, FrameKnown
  <2> QED
    BY <2>3, <2>4, <2>5
<1>6. ASSUME switched_to PROVE IntrInv'
  <2>1. /\ switching /\ switching' = FALSE /\ running' = running /\ frames' = frames
        /\ flag_if' = (frames[running] = <<>>)
        /\ in_external_intr' = in_external_intr /\ yield_on_return' = yield_on_return
        /\ asked' = asked /\ in_service' = in_service
    BY <1>6 DEF switched_to, flag_after_switch
  <2>2. ~in_external_intr
    BY <2>1 DEF ExternalExact
  <2>3. IntrTypeOK' /\ FlagExact'
    BY <2>1 DEF IntrTypeOK, FlagExact
  <2>4. ExternalExact'
    BY <2>1, <2>2 DEF ExternalExact
  <2>5. \A t \in RThread : frames[t] # <<>> => frames[t][1].at = "iret"
    BY <2>1 DEF FramesKnown, FrameKnown
  <2>6. FramesKnown'
    BY <2>1, <2>5 DEF FramesKnown, FrameKnown
  <2> QED
    BY <2>3, <2>4, <2>6
<1>7. ASSUME intr_exit PROVE IntrInv'
  <2>1. /\ frames[running] # <<>> /\ ~switching /\ inner.at = "iret"
        /\ flag_if' = inner.saved /\ running' = running /\ switching' = switching
        /\ frames' = [frames EXCEPT ![running] = SubSeq(@, 1, Len(@) - 1)]
        /\ in_external_intr' = in_external_intr /\ yield_on_return' = yield_on_return
        /\ asked' = asked /\ in_service' = in_service
    BY <1>7 DEF intr_exit, at_frame
  <2>2. /\ frames[running][1] \in Frame /\ Len(frames[running]) = 1
        /\ SubSeq(frames[running], 1, Len(frames[running]) - 1) = <<>>
    BY <1>0, <2>1, Stack_One
  <2>3. frames' = [frames EXCEPT ![running] = <<>>]
    BY <2>1, <2>2
  <2>4. /\ frames' \in [RThread -> Stack] /\ frames'[running] = <<>>
        /\ \A t \in RThread \ {running} : frames'[t] = frames[t]
    BY <1>0, <2>3, Stack_Empty
  <2>5. inner = frames[running][1] /\ inner.saved = TRUE
    BY <2>2 DEF inner, Frame
  <2>6. ~in_external_intr
    BY <2>1, <2>5 DEF ExternalExact
  <2>7. IntrTypeOK' /\ FlagExact' /\ ExternalExact'
    BY <2>1, <2>4, <2>5, <2>6 DEF IntrTypeOK, FlagExact, ExternalExact
  <2>8. ASSUME NEW t \in RThread, frames'[t] # <<>> PROVE FrameKnown(t, frames[t][1])'
    BY <2>1, <2>4, <2>8 DEF FramesKnown, FrameKnown
  <2> QED
    BY <2>7, <2>8 DEF FramesKnown
<1>8. CASE UNCHANGED intrvars
  BY <1>8 DEF intrvars, IntrTypeOK, FlagExact, ExternalExact, FramesKnown, FrameKnown
<1> QED
  BY <1>1, <1>2, <1>3, <1>4, <1>5, <1>6, <1>7, <1>8 DEF IntrNext

LEMMA IntrInv_OK == IntrInv => InterruptsOK
<1> SUFFICES ASSUME IntrInv PROVE InterruptsOK
  OBVIOUS
<1> USE DEF IntrInv
<1>1. \A t \in RThread : frames[t] # <<>> => Len(frames[t]) = 1
  <2>1. TAKE t \in RThread
  <2>2. HAVE frames[t] # <<>>
  <2>3. frames[t] \in Stack
    BY DEF IntrTypeOK
  <2> QED
    BY <2>2, <2>3, Stack_One
<1>2. running \in RThread /\ Len(<<>>) = 0
  BY DEF IntrTypeOK
<1>3. in_external_intr => handling(running, Len(frames[running]))
  BY <1>1, <1>2 DEF ExternalExact, handling
<1>4. ASSUME NEW t \in RThread, NEW i \in 1 .. Len(frames[t]), handling(t, i)
      PROVE  in_external_intr /\ ~flag_if /\ ~switching /\ t = running /\ i = Len(frames[t])
  <2>1. frames[t] # <<>>
    BY <1>2
  <2>2. Len(frames[t]) = 1 /\ i = 1
    <3>1. Len(frames[t]) = 1
      BY <1>1, <2>1
    <3> HIDE DEF IntrInv
    <3>2. i \in 1 .. 1
      BY <3>1
    <3> QED
      BY <3>1, <3>2
  <2>3. frames[t][1].at \in {"handler", "end"}
    BY <1>4, <2>2 DEF handling
  <2>4. in_external_intr /\ t = running /\ ~switching
    BY <2>1, <2>3 DEF FramesKnown, FrameKnown
  <2> QED
    BY <2>1, <2>2, <2>4 DEF FlagExact, IntrTypeOK
<1>5. NeverNest
  BY <1>3, <1>4 DEF NeverNest
<1>6. AcknowledgedBeforeSwitch
  BY DEF AcknowledgedBeforeSwitch, ExternalExact
<1>7. YieldsForItself
  <2> SUFFICES ASSUME at_frame("yield") PROVE asked
    BY DEF YieldsForItself
  <2>1. frames[running] # <<>> /\ inner.at = "yield"
    BY DEF at_frame
  <2>2. inner = frames[running][1]
    BY <1>1, <1>2, <2>1 DEF inner
  <2> QED
    BY <1>2, <2>1, <2>2 DEF FramesKnown, FrameKnown
<1>8. FlagRestored
  BY DEF FlagRestored, FlagExact
<1> QED
  BY <1>5, <1>6, <1>7, <1>8 DEF InterruptsOK

\* intr_handler() never nests, acknowledges each interrupt before another thread
\* runs, yields only for the interrupt that asked and restores the flag, for
\* any threads, vectors and number of interrupts.
THEOREM Spec_InterruptsOK == IntrSpec => []InterruptsOK
<1>1. IntrSpec => []IntrInv
  BY Init_IntrInv, Next_IntrInv, PTL DEF IntrSpec
<1> QED
  BY <1>1, IntrInv_OK, PTL

-----------------------------------------------------------------------------
(* The IDE disks *)

\* A thread between ide_read() or ide_write() taking the channel and giving it up.
InDriver == {"select", "issue", "wait", "busy", "done"}

\* The sectors of a disk.
Sector == 0 .. Capacity - 1

\* What the driver, the disks and their ghosts are made of.
IdeTypeOK ==
  /\ probe \in 0 .. 4 /\ is_ata \in [Disk -> BOOLEAN]
  /\ ilock \in IThread \cup {NoThread} /\ expecting \in BOOLEAN /\ completion_wait \in Nat
  /\ ipc \in [IThread -> InDriver \cup {"none", "acquire", "panic"}]
  /\ req \in [IThread -> [op : {"none", "identify", "read", "write"}, disk : Disk, sec : Sector, val : Value]]
  /\ got \in [IThread -> Value \cup {"garbage"}]
  /\ dev \in [state : {"idle", "working", "data_in", "data_out"},
              op : {"none", "identify", "read", "write", "storing"}, disk : Disk, sec : Sector, val : Value]
  /\ irq \in BOOLEAN /\ ipanic \in BOOLEAN
  /\ content \in [Disk -> [Sector -> Value]] /\ written \in [Disk -> [Sector -> Value]]
  /\ stray \in Nat /\ gave_up \in BOOLEAN

\* One thread at a time is in the driver: the lock's holder, or Boot, which
\* identifies the disks without it while nobody else does I/O.
Turns ==
  /\ \A t \in IThread :
      /\ ipc[t] \in InDriver => \/ ilock = t /\ req[t].op \in {"read", "write"}
                                \/ probe # 4 /\ t = Boot /\ ilock = NoThread /\ req[t].op = "identify"
      /\ ipc[t] = "acquire" => req[t].op \in {"read", "write"}
      /\ probe # 4 /\ t # Boot => ipc[t] = "none"
  /\ probe < 2 => ipc[Boot] = "none"
  /\ probe # 4 /\ ipc[Boot] = "none" => ilock = NoThread

\* The disk has taken a sector of data and is putting it away.
Storing == dev.state = "working" /\ dev.op = "storing"

\* Contents c are what the sectors should hold, but for those whose last write failed.
Agrees(c) == \A d \in Disk, s \in Sector : <<d, s>> \in failed \/ written[d][s] = c[d][s]

\* The sectors hold what they should, but for the one that the disk is storing.
Stored ==
  /\ IF Storing THEN Agrees([content EXCEPT ![dev.disk][dev.sec] = dev.val]) ELSE Agrees(content)
  /\ dev.state = "data_out" => dev.op = "storing"
  /\ dev.state = "data_in" => dev.op \notin {"write", "storing"}

\* The disk has the sector that t asked for.
Of(t) == dev.disk = req[t].disk /\ dev.sec = req[t].sec

\* The disk works on the command of the thread in the driver, or is done with it.
CommandOK(t) ==
  /\ ipc[t] = "issue" => dev.state = "idle"
  /\ (ipc[t] \in {"wait", "busy"} /\ req[t].op # "write") =>
       dev.state = "idle" \/ (Of(t) /\ dev.state \in {"working", "data_in"} /\ dev.op = req[t].op)
  /\ (ipc[t] = "done" /\ req[t].op # "write") =>
       /\ dev.state = "idle"
       /\ WriteFailed(req[t]) \/ got[t] = written[req[t].disk][req[t].sec]
  /\ (ipc[t] = "busy" /\ req[t].op = "write") =>
       \/ dev.state = "idle"
       \/ Of(t) /\ ((dev.state = "working" /\ dev.op = "write") \/ dev.state = "data_out")
  /\ (ipc[t] \in {"wait", "done"} /\ req[t].op = "write") =>
       (dev.state = "idle" \/ Storing) /\ written[req[t].disk][req[t].sec] = req[t].val

\* A thread in the driver has yet to down completion_wait for its command.
Waits(t) == ipc[t] = "wait" \/ (ipc[t] = "busy" /\ req[t].op = "write")

\* An interrupt on its way, one that the disk's work will end with, and the
\* completion that the thread in the driver has a right to.
Raised == IF irq THEN 1 ELSE 0
Underway == IF dev.state \in {"working", "data_out"} THEN 1 ELSE 0
Awaited == IF \E t \in IThread : Waits(t) THEN 1 ELSE 0

\* Completions counted, on their way or to come are strays, or the command's.
Completions == completion_wait + Raised + Underway <= stray + Awaited

\* Every thread in the driver and its command.
Commands == \A t \in IThread : CommandOK(t)

\* The inductive invariant: until a wait gives up (gave_up), the disk is in
\* step with the driver, and until the kernel panics, so is the count.
IdeInv ==
  /\ IdeTypeOK /\ Turns /\ PartitionConfined /\ WriteAcknowledged
  /\ ~gave_up => Stored /\ Commands
  /\ ~gave_up /\ ~ipanic => Completions

\* The constants of a driver with two disks.
LEMMA Ide_Constants ==
  /\ Boot \in IThread /\ NoThread \notin IThread /\ Capacity \in Nat \ {0} /\ 0 \in Sector
  /\ Sector \subseteq Nat /\ \A n \in Nat : n < Capacity => n \in Sector
BY IdeAssumption, SMTT(60) DEF NoThread, Sector

\* Nobody else is in the driver.
LEMMA Ide_Alone ==
  ASSUME Turns, NEW t \in IThread, ipc[t] \in InDriver, NEW u \in IThread, u # t
  PROVE  ipc[u] \notin InDriver
BY Ide_Constants DEF Turns

\* Nobody is in the driver between the commands of ide_init() and while the
\* lock is free.
LEMMA Ide_Free ==
  ASSUME IdeTypeOK, Turns, ilock = NoThread, probe # 4 => ipc[Boot] = "none"
  PROVE  /\ \A u \in IThread : ipc[u] \notin InDriver
         /\ probe # 4 => \A u \in IThread : ipc[u] = "none"
BY Ide_Constants DEF Turns, InDriver

\* What a thread outside the driver does to its label is nothing to the disk.
LEMMA Ide_Outside ==
  ASSUME \A u \in IThread : ipc'[u] \notin InDriver
  PROVE  Commands' /\ WriteAcknowledged' /\ ReadsLastWrite' /\ \A u \in IThread : ~Waits(u)'
BY DEF Commands, CommandOK, WriteAcknowledged, ReadsLastWrite, Waits, InDriver

\* The others, while t is in the driver.
LEMMA Ide_Others ==
  ASSUME Turns, NEW t \in IThread, ipc[t] \in InDriver, \A u \in IThread : u # t => ipc'[u] = ipc[u]
  PROVE  \A u \in IThread : u # t => CommandOK(u)' /\ ~Waits(u) /\ ~Waits(u)' /\ ipc'[u] \notin InDriver
<1> SUFFICES ASSUME NEW u \in IThread, u # t
             PROVE  CommandOK(u)' /\ ~Waits(u) /\ ~Waits(u)' /\ ipc'[u] \notin InDriver
  OBVIOUS
<1>1. ipc[u] \notin InDriver /\ ipc'[u] \notin InDriver
  BY Ide_Alone
<1> QED
  BY <1>1 DEF CommandOK, Waits, InDriver

\* The sectors that the threads ask for stay theirs.
LEMMA Ide_Confined ==
  ASSUME PartitionConfined, UNCHANGED <<probe, is_ata>>,
         \A u \in IThread : \/ ipc'[u] \in {"none", "panic"}
                            \/ ipc[u] \notin {"none", "panic"} /\ req'[u] = req[u]
  PROVE  PartitionConfined'
<1> SUFFICES ASSUME NEW u \in IThread, ipc'[u] \notin {"none", "panic"}, probe = 4
             PROVE  \E b \in blocks' : /\ b.disk = req'[u].disk /\ req'[u].sec \in b.start .. b.start + b.size - 1
                                       /\ req'[u].sec < Capacity
                                       /\ req'[u].op = "write" => b.type # "foreign"
  BY DEF PartitionConfined
<1>1. ipc[u] \notin {"none", "panic"} /\ req'[u] = req[u]
  OBVIOUS
<1>2. blocks' = blocks
  BY DEF blocks
<1> QED
  BY <1>1, <1>2 DEF PartitionConfined

\* ide_init() starts with idle disks and nobody in the driver.
LEMMA Init_IdeInv == IdeInit => IdeInv
<1> SUFFICES ASSUME IdeInit PROVE IdeInv
  OBVIOUS
<1>0. content \in [Disk -> [Sector -> Value]] /\ written = content /\ failed = {}
  BY DEF IdeInit, Sector, Value
<1>1. IdeTypeOK
  <2>1. /\ is_ata \in [Disk -> BOOLEAN] /\ expecting \in BOOLEAN /\ irq \in BOOLEAN
        /\ gave_up \in BOOLEAN /\ ipanic \in BOOLEAN
    BY DEF IdeInit
  <2>2. /\ req \in [IThread -> [op : {"none", "identify", "read", "write"}, disk : Disk, sec : Sector, val : Value]]
        /\ dev \in [state : {"idle", "working", "data_in", "data_out"},
                    op : {"none", "identify", "read", "write", "storing"}, disk : Disk, sec : Sector, val : Value]
    BY Ide_Constants DEF IdeInit, idle, Disk, Value
  <2> QED
    BY <1>0, <2>1, <2>2, SMTT(60) DEF IdeInit, IdeTypeOK, Value
<1>2. \A t \in IThread : ipc[t] = "none"
  BY DEF IdeInit
<1>3. Turns /\ PartitionConfined /\ WriteAcknowledged /\ Commands
  BY <1>2, Ide_Constants DEF IdeInit, Turns, PartitionConfined, WriteAcknowledged, Commands, CommandOK, InDriver
<1>4. Stored
  BY DEF IdeInit, Stored, Storing, Agrees, idle
<1>5. Completions
  <2>1. ~(\E t \in IThread : Waits(t)) /\ irq = FALSE /\ completion_wait = 0 /\ stray = 0 /\ dev.state = "idle"
    BY <1>2 DEF Waits, IdeInit, idle
  <2> QED
    BY <2>1 DEF Completions, Raised, Underway, Awaited
<1> QED
  BY <1>1, <1>3, <1>4, <1>5 DEF IdeInv

\* block_read() and block_write() down to the lock: a check fails, or the sector
\* is one of the partition.
LEMMA BlockIo_IdeInv ==
  ASSUME IdeInv, NEW t \in IThread, NEW op \in {"read", "write"}, NEW b \in blocks,
         NEW s \in 0 .. MaxSector - 1, NEW v \in Value, block_io(t, op, b, s, v)
  PROVE  IdeInv'
<1>0. IdeTypeOK /\ Turns /\ PartitionConfined /\ WriteAcknowledged
  BY DEF IdeInv
<1>1. /\ probe = 4 /\ ipc[t] = "none" /\ ~ipanic
      /\ UNCHANGED <<probe, is_ata, ilock, expecting, completion_wait, got, dev, irq, content, written, failed,
                     stray, gave_up>>
  BY DEF block_io
<1>2. CASE panic(t) /\ UNCHANGED req
  <2>1. /\ ipc' = [ipc EXCEPT ![t] = "panic"] /\ ipanic' /\ req' = req /\ ipanic' \in BOOLEAN
    BY <1>2 DEF panic
  <2>2. ipc'[t] = "panic" /\ \A u \in IThread : u # t => ipc'[u] = ipc[u]
    BY <1>0, <2>1 DEF IdeTypeOK
  <2>3. IdeTypeOK'
    BY <1>0, <1>1, <2>1 DEF IdeTypeOK
  <2>4. Turns'
    BY <1>0, <1>1, <2>1, <2>2 DEF Turns, InDriver
  <2>5. PartitionConfined'
    BY <1>0, <1>1, <2>1, <2>2, Ide_Confined
  <2>6. WriteAcknowledged'
    BY <1>0, <1>1, <2>1, <2>2 DEF WriteAcknowledged, WriteFailed
  <2>7. ~gave_up' => Stored' /\ Commands'
    <3> SUFFICES ASSUME ~gave_up PROVE Stored' /\ Commands'
      BY <1>1
    <3>1. Stored /\ Commands
      BY DEF IdeInv
    <3>2. Stored'
      BY <1>1, <3>1 DEF Stored, Storing, Agrees
    <3>3. Commands'
      BY <1>1, <2>1, <2>2, <3>1 DEF Commands, CommandOK, Storing, Of, WriteFailed
    <3> QED
      BY <3>2, <3>3
  <2> QED
    BY <2>1, <2>3, <2>4, <2>5, <2>6, <2>7 DEF IdeInv
<1>3. CASE /\ check_sector(b, s) /\ ~(op = "write" /\ b.type = "foreign")
           /\ ipc' = [ipc EXCEPT ![t] = "acquire"]
           /\ req' = [req EXCEPT ![t] = [op |-> op, disk |-> b.disk, sec |-> b.start + s, val |-> v]]
           /\ UNCHANGED ipanic
  <2>1. /\ b \in Partition /\ b.start \in Nat /\ b.size \in Nat /\ b.disk \in Disk /\ s \in Nat
        /\ s < b.size /\ b.start + s < Capacity
    <3>1. b \in Partition /\ MaxSector \in Nat
      BY IdeAssumption DEF blocks
    <3>2. b \in [disk : {0, 1}, start : Nat, size : Nat, type : STRING]
      BY <3>1, IdeAssumption
    <3> QED
      BY <1>3, <3>1, <3>2, SMTT(60) DEF check_sector, in_block, Disk
  <2>2. /\ b.start + s \in Sector /\ b.start + s \in b.start .. b.start + b.size - 1
    BY <2>1, Ide_Constants
  <2>3. ipc'[t] = "acquire" /\ \A u \in IThread : u # t => ipc'[u] = ipc[u] /\ req'[u] = req[u]
    BY <1>0, <1>3 DEF IdeTypeOK
  <2>4. /\ req'[t].op = op /\ req'[t].disk = b.disk /\ req'[t].sec = b.start + s
        /\ req' \in [IThread -> [op : {"none", "identify", "read", "write"}, disk : Disk, sec : Sector, val : Value]]
    BY <1>0, <1>3, <2>1, <2>2 DEF IdeTypeOK
  <2>5. IdeTypeOK'
    BY <1>0, <1>1, <1>3, <2>4 DEF IdeTypeOK
  <2>6. Turns'
    BY <1>0, <1>1, <1>3, <2>3, <2>4 DEF Turns, InDriver
  <2>7. PartitionConfined'
    <3>1. blocks' = blocks
      BY <1>1 DEF blocks
    <3>2. ASSUME NEW u \in IThread, u # t, ipc'[u] \notin {"none", "panic"}
          PROVE  \E c \in blocks' : /\ c.disk = req'[u].disk /\ req'[u].sec \in c.start .. c.start + c.size - 1
                                    /\ req'[u].sec < Capacity
                                    /\ req'[u].op = "write" => c.type # "foreign"
      BY <1>0, <1>1, <2>3, <3>1, <3>2 DEF PartitionConfined
    <3>3. \E c \in blocks' : /\ c.disk = req'[t].disk /\ req'[t].sec \in c.start .. c.start + c.size - 1
                             /\ req'[t].sec < Capacity
                             /\ req'[t].op = "write" => c.type # "foreign"
      BY <1>3, <2>1, <2>2, <2>4, <3>1
    <3> QED
      BY <3>2, <3>3 DEF PartitionConfined
  <2>8. WriteAcknowledged'
    BY <1>0, <1>1, <2>3 DEF WriteAcknowledged, WriteFailed
  <2>9. ~gave_up' => Stored' /\ Commands'
    <3> SUFFICES ASSUME ~gave_up PROVE Stored' /\ Commands'
      BY <1>1
    <3>1. Stored /\ Commands
      BY DEF IdeInv
    <3>2. Stored'
      BY <1>1, <3>1 DEF Stored, Storing, Agrees
    <3>3. Commands'
      BY <1>1, <2>3, <3>1, SMTT(60) DEF Commands, CommandOK, Storing, Of, WriteFailed
    <3> QED
      BY <3>2, <3>3
  <2>10. ~gave_up' /\ ~ipanic' => Completions'
    <3> SUFFICES ASSUME ~gave_up PROVE Completions'
      BY <1>1
    <3>1. (\E u \in IThread : Waits(u)) => \E u \in IThread : Waits(u)'
      BY <1>1, <2>3 DEF Waits
    <3>2. (\E u \in IThread : Waits(u)') => \E u \in IThread : Waits(u)
      BY <1>1, <2>3 DEF Waits
    <3>3. Completions
      BY <1>1 DEF IdeInv
    <3> QED
      BY <1>1, <3>1, <3>2, <3>3 DEF Completions, Raised, Underway, Awaited
  <2> QED
    BY <2>5, <2>6, <2>7, <2>8, <2>9, <2>10 DEF IdeInv
<1> QED
  BY <1>2, <1>3 DEF block_io

\* reset_channel() and check_device_type(); identify_ata_device() up to the command
LEMMA Probe_IdeInv ==
  ASSUME IdeInv, \/ \E ata, slave_possible \in BOOLEAN : check_device_type(ata, slave_possible)
                 \/ identify_ata_device
  PROVE  IdeInv'
<1>0. IdeTypeOK /\ Turns
  BY DEF IdeInv
<1>1. /\ probe \in 0 .. 3 /\ (probe < 2 \/ ipc[Boot] = "none") /\ ~ipanic
      /\ UNCHANGED <<ilock, expecting, completion_wait, got, dev, irq, content, written, failed, stray,
                     gave_up, ipanic>>
  BY <1>0, SMTT(60) DEF check_device_type, identify_ata_device, IdeTypeOK
<1>2. ilock = NoThread /\ \A u \in IThread : ipc[u] = "none"
  <2>1. probe # 4 /\ ipc[Boot] = "none" /\ ilock = NoThread
    BY <1>0, <1>1 DEF Turns
  <2> QED
    BY <1>0, <1>1, <2>1, Ide_Free
<1>3. /\ \/ probe' \in 0 .. 4 /\ ipc' = ipc /\ req' = req
         \/ /\ probe' = probe /\ probe \in {2, 3}
            /\ ipc' = [ipc EXCEPT ![Boot] = "select"]
            /\ req' = [req EXCEPT ![Boot].op = "identify", ![Boot].disk = probe - 2, ![Boot].sec = 0]
      /\ is_ata' \in [Disk -> BOOLEAN]
  <2>1. ASSUME NEW ata \in BOOLEAN, NEW slave_possible \in BOOLEAN, check_device_type(ata, slave_possible)
        PROVE  probe' \in 0 .. 4 /\ ipc' = ipc /\ req' = req /\ is_ata' \in [Disk -> BOOLEAN]
    <3>1. is_ata' = [is_ata EXCEPT ![probe] = ata] /\ ipc' = ipc /\ req' = req
      BY <2>1 DEF check_device_type
    <3>2. is_ata' \in [Disk -> BOOLEAN]
      BY <1>0, <3>1 DEF IdeTypeOK
    <3>3. probe' \in 0 .. 4
      BY <1>1, <2>1 DEF check_device_type
    <3> QED
      BY <3>1, <3>2, <3>3
  <2>2. CASE identify_ata_device
    <3>1. /\ probe \in {2, 3} /\ is_ata' = is_ata
          /\ \/ probe' = probe + 1 /\ ipc' = ipc /\ req' = req
             \/ /\ probe' = probe /\ ipc' = [ipc EXCEPT ![Boot] = "select"]
                /\ req' = [req EXCEPT ![Boot].op = "identify", ![Boot].disk = probe - 2, ![Boot].sec = 0]
      BY <2>2 DEF identify_ata_device
    <3>2. is_ata' \in [Disk -> BOOLEAN]
      BY <1>0, <3>1 DEF IdeTypeOK
    <3>3. probe + 1 \in 0 .. 4
      BY <1>1
    <3> QED
      BY <3>1, <3>2, <3>3
  <2> QED
    BY <2>1, <2>2
<1>4. /\ \A u \in IThread : ipc'[u] \in {"none", "select"}
      /\ \A u \in IThread : ipc'[u] = "select" => u = Boot /\ probe' \in {2, 3} /\ req'[u].op = "identify"
      /\ ipc' \in [IThread -> InDriver \cup {"none", "acquire", "panic"}]
  BY <1>0, <1>2, <1>3, Ide_Constants, SMTT(60) DEF IdeTypeOK, InDriver
<1>5. req' \in [IThread -> [op : {"none", "identify", "read", "write"}, disk : Disk, sec : Sector, val : Value]]
  BY <1>0, <1>3, Ide_Constants, SMTT(60) DEF IdeTypeOK, Disk
<1>6. IdeTypeOK'
  BY <1>0, <1>1, <1>3, <1>4, <1>5 DEF IdeTypeOK
<1>7. Turns'
  BY <1>1, <1>2, <1>4, Ide_Constants, SMTT(60) DEF Turns, InDriver
<1>8. PartitionConfined'
  BY <1>4, SMTT(60) DEF PartitionConfined
<1>9. WriteAcknowledged' /\ Commands' /\ \A u \in IThread : ~Waits(u) /\ ~Waits(u)'
  BY <1>2, <1>4 DEF WriteAcknowledged, Commands, CommandOK, Waits
<1>10. ~gave_up' => Stored'
  BY <1>1 DEF IdeInv, Stored, Storing, Agrees
<1>11. ~gave_up' /\ ~ipanic' => Completions'
  BY <1>1, <1>9 DEF IdeInv, Completions, Raised, Underway, Awaited
<1> QED
  BY <1>6, <1>7, <1>8, <1>9, <1>10, <1>11 DEF IdeInv

\* A step of the thread in the driver that stays there, with its request.
LEMMA Driver_Keeps ==
  ASSUME IdeInv, NEW t \in IThread, ipc[t] \in InDriver, NEW x \in InDriver, ipc' = [ipc EXCEPT ![t] = x],
         UNCHANGED <<probe, is_ata, ilock, req, ipanic>>
  PROVE  /\ ipc'[t] = x /\ ipc' \in [IThread -> InDriver \cup {"none", "acquire", "panic"}]
         /\ Turns' /\ PartitionConfined'
         /\ \A u \in IThread : u # t => /\ ipc'[u] = ipc[u] /\ CommandOK(u)' /\ ipc'[u] \notin InDriver
                                        /\ ~Waits(u) /\ ~Waits(u)'
<1>0. IdeTypeOK /\ Turns /\ PartitionConfined
  BY DEF IdeInv
<1>1. /\ ipc'[t] = x /\ ipc' \in [IThread -> InDriver \cup {"none", "acquire", "panic"}]
      /\ \A u \in IThread : u # t => ipc'[u] = ipc[u]
  BY <1>0 DEF IdeTypeOK
<1>2. Turns'
  BY <1>0, <1>1, Ide_Constants DEF Turns, InDriver
<1>3. PartitionConfined'
  BY <1>0, <1>1, Ide_Confined DEF InDriver
<1> QED
  BY <1>0, <1>1, <1>2, <1>3, Ide_Others

\* lock_acquire (&c->lock)
LEMMA Lock_IdeInv ==
  ASSUME IdeInv, NEW t \in IThread, ide_lock(t)
  PROVE  IdeInv'
<1>0. IdeTypeOK /\ Turns /\ PartitionConfined
  BY DEF IdeInv
<1>1. /\ ilock = NoThread /\ ipc[t] = "acquire" /\ ipc' = [ipc EXCEPT ![t] = "select"] /\ ~ipanic /\ ilock' = t
      /\ UNCHANGED <<probe, is_ata, expecting, completion_wait, req, got, dev, irq, content, written, failed,
                     stray, gave_up, ipanic>>
  BY DEF ide_lock, goto
<1>2. req[t].op \in {"read", "write"}
  BY <1>0, <1>1 DEF Turns
<1>3. \A u \in IThread : ipc[u] \notin InDriver
  BY <1>0, <1>1, Ide_Constants DEF Turns, InDriver
<1>4. ipc'[t] = "select" /\ \A u \in IThread : u # t => ipc'[u] = ipc[u]
  BY <1>0, <1>1 DEF IdeTypeOK
<1>5. IdeTypeOK'
  BY <1>0, <1>1 DEF IdeTypeOK, InDriver
<1>6. Turns'
  BY <1>0, <1>1, <1>2, <1>3, <1>4, Ide_Constants DEF Turns, InDriver
<1>7. PartitionConfined'
  BY <1>0, <1>1, <1>4, Ide_Confined
<1>8. WriteAcknowledged' /\ Commands' /\ \A u \in IThread : ~Waits(u) /\ ~Waits(u)'
  <2>1. \A u \in IThread : /\ ipc[u] \notin {"issue", "wait", "busy", "done"}
                           /\ ipc'[u] \notin {"issue", "wait", "busy", "done"}
    BY <1>3, <1>4 DEF InDriver
  <2> QED
    BY <2>1 DEF WriteAcknowledged, Commands, CommandOK, Waits
<1>9. ~gave_up' => Stored'
  BY <1>1 DEF IdeInv, Stored, Storing, Agrees
<1>10. ~gave_up' /\ ~ipanic' => Completions'
  BY <1>1, <1>8 DEF IdeInv, Completions, Raised, Underway, Awaited
<1> QED
  BY <1>5, <1>6, <1>7, <1>8, <1>9, <1>10 DEF IdeInv

\* select_sector(): the disk is idle now, or wait_until_idle() has given up.
LEMMA Select_IdeInv ==
  ASSUME IdeInv, NEW t \in IThread, select_sector(t)
  PROVE  IdeInv'
<1>0. IdeTypeOK /\ Turns /\ PartitionConfined
  BY DEF IdeInv
<1>1. /\ ipc[t] = "select" /\ ipc' = [ipc EXCEPT ![t] = "issue"] /\ ~ipanic /\ irq' = FALSE
      /\ UNCHANGED <<probe, is_ata, ilock, expecting, completion_wait, req, got, dev, content, written, failed, stray, ipanic>>
  BY DEF select_sector, goto, select_device_wait, wait_until_idle
<1>2. (dev.state = "idle" /\ gave_up' = gave_up) \/ gave_up' = TRUE
  BY DEF select_sector, select_device_wait, wait_until_idle
<1>3. gave_up' \in BOOLEAN /\ (~gave_up' => ~gave_up /\ dev.state = "idle")
  BY <1>0, <1>2 DEF IdeTypeOK
<1>4. /\ ipc'[t] = "issue" /\ ipc' \in [IThread -> InDriver \cup {"none", "acquire", "panic"}]
      /\ Turns' /\ PartitionConfined'
      /\ \A u \in IThread : u # t => CommandOK(u)' /\ ipc'[u] \notin InDriver /\ ~Waits(u) /\ ~Waits(u)'
  BY <1>1, Driver_Keeps DEF InDriver
<1>5. IdeTypeOK'
  BY <1>0, <1>1, <1>3, <1>4 DEF IdeTypeOK
<1>6. WriteAcknowledged'
  BY <1>4 DEF WriteAcknowledged, InDriver
<1>7. ~gave_up' => Stored' /\ Commands'
  <2> SUFFICES ASSUME ~gave_up' PROVE Stored' /\ Commands'
    OBVIOUS
  <2>1. Stored'
    BY <1>1, <1>3 DEF IdeInv, Stored, Storing, Agrees
  <2>2. CommandOK(t)'
    BY <1>1, <1>3, <1>4 DEF CommandOK
  <2> QED
    BY <1>4, <2>1, <2>2 DEF Commands
<1>8. ~gave_up' /\ ~ipanic' => Completions'
  <2> SUFFICES ASSUME ~gave_up' PROVE Completions'
    OBVIOUS
  <2>1. Completions /\ completion_wait \in Nat /\ stray \in Nat
    BY <1>0, <1>1, <1>3 DEF IdeInv, IdeTypeOK
  <2>2. ~(\E u \in IThread : Waits(u)) /\ ~(\E u \in IThread : Waits(u)')
    BY <1>1, <1>4 DEF Waits
  <2> QED
    BY <1>1, <2>1, <2>2 DEF Completions, Raised, Underway, Awaited
<1> QED
  BY <1>4, <1>5, <1>6, <1>7, <1>8 DEF IdeInv

\* issue_pio_command(): an idle disk works on the request.
LEMMA Issue_IdeInv ==
  ASSUME IdeInv, NEW t \in IThread, issue_pio_command(t)
  PROVE  IdeInv'
<1>0. IdeTypeOK /\ Turns /\ PartitionConfined
  BY DEF IdeInv
<1>1. /\ ipc[t] = "issue" /\ ipc' = [ipc EXCEPT ![t] = after_issue(t)] /\ ~ipanic /\ expecting' = TRUE
      /\ UNCHANGED <<probe, is_ata, ilock, completion_wait, req, got, irq, content, written, failed, stray,
                     gave_up, ipanic>>
  BY DEF issue_pio_command, goto
<1>2. dev' = IF dev.state = "idle" THEN [state |-> "working", op |-> req[t].op, disk |-> req[t].disk,
                                         sec |-> req[t].sec, val |-> "v0"]
             ELSE dev
  BY DEF issue_pio_command
<1>3. after_issue(t) \in {"wait", "busy"} /\ (after_issue(t) = "busy" <=> req[t].op = "write")
  BY DEF after_issue
<1>4. /\ ipc'[t] = after_issue(t) /\ ipc' \in [IThread -> InDriver \cup {"none", "acquire", "panic"}]
      /\ Turns' /\ PartitionConfined'
      /\ \A u \in IThread : u # t => CommandOK(u)' /\ ipc'[u] \notin InDriver /\ ~Waits(u) /\ ~Waits(u)'
  BY <1>1, <1>3, Driver_Keeps DEF InDriver
<1>5. IdeTypeOK'
  <2>1. dev' \in [state : {"idle", "working", "data_in", "data_out"},
                  op : {"none", "identify", "read", "write", "storing"}, disk : Disk, sec : Sector, val : Value]
    BY <1>0, <1>2 DEF IdeTypeOK, Value
  <2> QED
    BY <1>0, <1>1, <1>4, <2>1 DEF IdeTypeOK
<1>6. WriteAcknowledged'
  BY <1>3, <1>4 DEF WriteAcknowledged, InDriver
<1>7. ~gave_up => /\ dev.state = "idle" /\ dev'.state = "working" /\ dev'.op = req[t].op
                           /\ dev'.disk = req[t].disk /\ dev'.sec = req[t].sec
                           /\ req[t].op # "storing"
  <2>1. ~gave_up => dev.state = "idle"
    BY <1>1 DEF IdeInv, Commands, CommandOK
  <2>2. req[t].op # "storing"
    BY <1>0 DEF IdeTypeOK
  <2> QED
    BY <1>2, <2>1, <2>2
<1>8. ~gave_up' => Stored' /\ Commands'
  <2> SUFFICES ASSUME ~gave_up PROVE Stored' /\ Commands'
    BY <1>1
  <2>1. Stored'
    <3>1. Agrees(content)
      BY <1>7 DEF IdeInv, Stored, Storing, Agrees
    <3> QED
      BY <1>1, <1>7, <3>1 DEF Stored, Storing, Agrees
  <2>2. CommandOK(t)'
    BY <1>1, <1>3, <1>4, <1>7 DEF CommandOK, Of
  <2> QED
    BY <1>4, <2>1, <2>2 DEF Commands
<1>9. ~gave_up' /\ ~ipanic' => Completions'
  <2> SUFFICES ASSUME ~gave_up PROVE Completions'
    BY <1>1
  <2>1. Completions /\ completion_wait \in Nat /\ stray \in Nat
    BY <1>0, <1>1 DEF IdeInv, IdeTypeOK
  <2>2. ~(\E u \in IThread : Waits(u)) /\ (\E u \in IThread : Waits(u)')
    BY <1>1, <1>3, <1>4 DEF Waits
  <2>3. Raised \in 0 .. 1 /\ Raised' = Raised /\ completion_wait' = completion_wait /\ stray' = stray
    <3>1. irq' = irq /\ completion_wait' = completion_wait /\ stray' = stray
      BY <1>1
    <3> QED
      BY <3>1 DEF Raised
  <2>4. Underway = 0 /\ Underway' = 1
    BY <1>7 DEF Underway
  <2>5. Awaited = 0 /\ Awaited' = 1
    BY <2>2 DEF Awaited
  <2> QED
    BY <2>1, <2>3, <2>4, <2>5 DEF Completions
<1> QED
  BY <1>4, <1>5, <1>6, <1>8, <1>9 DEF IdeInv

\* When no completion is awaited and there are no strays, the disk is not at work.
LEMMA Nothing_Underway ==
  ASSUME NEW n \in Nat, NEW r \in 0 .. 1, NEW u \in 0 .. 1, NEW s, NEW a, s = 0, a = 0, n + r + u <= s + a
  PROVE  u = 0
OBVIOUS

\* sema_down (&c->completion_wait): a completion is used up.
LEMMA Wait_IdeInv ==
  ASSUME IdeInv, NEW t \in IThread, wait_completion(t)
  PROVE  IdeInv'
<1>0. IdeTypeOK /\ Turns /\ PartitionConfined
  BY DEF IdeInv
<1>1. /\ ipc[t] = "wait" /\ ipc' = [ipc EXCEPT ![t] = IF req[t].op = "write" THEN "done" ELSE "busy"] /\ ~ipanic
      /\ UNCHANGED <<probe, is_ata, ilock, expecting, req, got, dev, irq, content, written, failed, stray,
                     gave_up, ipanic>>
  BY DEF wait_completion, goto
<1>2. /\ completion_wait \in Nat /\ completion_wait > 0
      /\ completion_wait' = completion_wait - 1 /\ completion_wait' \in Nat
      /\ stray \in Nat
  BY <1>0, SMTT(60) DEF wait_completion, IdeTypeOK
<1>3. PICK x : x = (IF req[t].op = "write" THEN "done" ELSE "busy") /\ x \in {"done", "busy"}
  OBVIOUS
<1>4. /\ ipc'[t] = x /\ ipc' \in [IThread -> InDriver \cup {"none", "acquire", "panic"}]
      /\ Turns' /\ PartitionConfined'
      /\ \A u \in IThread : u # t => CommandOK(u)' /\ ipc'[u] \notin InDriver /\ ~Waits(u) /\ ~Waits(u)'
  BY <1>1, <1>3, Driver_Keeps DEF InDriver
<1>5. IdeTypeOK'
  BY <1>0, <1>1, <1>2, <1>4 DEF IdeTypeOK
<1>6. ~gave_up' => Stored' /\ Commands'
  <2> SUFFICES ASSUME ~gave_up PROVE Stored' /\ Commands'
    BY <1>1
  <2>0. Stored /\ CommandOK(t)
    BY DEF IdeInv, Commands
  <2>1. Stored'
    BY <1>1, <2>0 DEF Stored, Storing, Agrees
  <2>2. CommandOK(t)'
    BY <1>1, <1>3, <1>4, <2>0 DEF CommandOK, Of, Storing, WriteFailed
  <2> QED
    BY <1>4, <2>1, <2>2 DEF Commands
<1>7. ~gave_up' => Completions'
  <2> SUFFICES ASSUME ~gave_up PROVE Completions'
    BY <1>1
  <2>1. Completions
    BY <1>0, <1>1 DEF IdeInv
  <2>2. (\E u \in IThread : Waits(u)) /\ ~(\E u \in IThread : Waits(u)')
    BY <1>1, <1>3, <1>4 DEF Waits
  <2>3. irq' = irq /\ dev' = dev /\ stray' = stray
    BY <1>1
  <2>4. Raised \in 0 .. 1 /\ Raised' = Raised /\ Underway \in 0 .. 1 /\ Underway' = Underway
    BY <2>3 DEF Raised, Underway
  <2>5. Awaited = 1 /\ Awaited' = 0
    BY <2>2 DEF Awaited
  <2> QED
    BY <1>2, <2>1, <2>3, <2>4, <2>5 DEF Completions
<1>8. WriteAcknowledged'
  <2> SUFFICES ASSUME x = "done", req[t].op = "write", stray = 0, ~gave_up
               PROVE  content[req[t].disk][req[t].sec] = req[t].val \/ WriteFailed(req[t])
    BY <1>1, <1>4 DEF WriteAcknowledged, InDriver, WriteFailed
  <2>1. Stored /\ CommandOK(t) /\ Completions'
    BY <1>1, <1>7 DEF IdeInv, Commands
  <2>2. ~(\E u \in IThread : Waits(u)')
    BY <1>3, <1>4 DEF Waits
  <2>3. dev.state # "working"
    <3>1. Raised' \in 0 .. 1 /\ Awaited' = 0 /\ Underway' \in 0 .. 1
      BY <2>2 DEF Raised, Awaited, Underway
    <3>2. /\ completion_wait' \in Nat /\ stray' = 0
          /\ completion_wait' + Raised' + Underway' <= stray' + Awaited'
      BY <1>1, <1>2, <2>1 DEF Completions
    <3>3. Underway' = 0
      BY <3>1, <3>2, Nothing_Underway
    <3> QED
      BY <1>1, <3>3 DEF Underway
  <2>4. Agrees(content) /\ written[req[t].disk][req[t].sec] = req[t].val
    BY <1>1, <2>1, <2>3 DEF Stored, Storing, CommandOK
  <2>5. req[t].disk \in Disk /\ req[t].sec \in Sector
    BY <1>0 DEF IdeTypeOK
  <2> QED
    BY <2>4, <2>5 DEF Agrees, WriteFailed
<1> QED
  BY <1>1, <1>4, <1>5, <1>6, <1>7, <1>8 DEF IdeInv

\* input_sector() and output_sector(), once the disk is ready for them.
LEMMA Transfer_IdeInv ==
  ASSUME IdeInv, NEW t \in IThread, transfer(t)
  PROVE  IdeInv'
<1>0. IdeTypeOK /\ Turns /\ PartitionConfined
  BY DEF IdeInv
<1>1. /\ ipc[t] = "busy" /\ ipc' = [ipc EXCEPT ![t] = after_transfer(t)] /\ ~ipanic
      /\ dev.state \in {"data_in", "data_out"}
      /\ UNCHANGED <<probe, is_ata, ilock, expecting, completion_wait, req, irq, content, stray,
                     gave_up, ipanic>>
  BY DEF transfer, goto, wait_while_busy, DRQ
<1>2. after_transfer(t) = IF req[t].op = "write" THEN "wait" ELSE "done"
  BY DEF after_transfer
<1>3. /\ ipc'[t] = after_transfer(t) /\ ipc' \in [IThread -> InDriver \cup {"none", "acquire", "panic"}]
      /\ Turns' /\ PartitionConfined'
      /\ \A u \in IThread : u # t => CommandOK(u)' /\ ipc'[u] \notin InDriver /\ ~Waits(u) /\ ~Waits(u)'
  BY <1>1, <1>2, Driver_Keeps DEF InDriver
<1>4. PICK d \in Disk, s \in Sector, v \in Value : d = req[t].disk /\ s = req[t].sec /\ v = req[t].val
  BY <1>0 DEF IdeTypeOK
<1>5. ~gave_up => Stored /\ CommandOK(t)
  BY DEF IdeInv, Commands
<1>6. CASE req[t].op = "write"
  <2>1. /\ dev' = [dev EXCEPT !.state = "working", !.val = v]
        /\ written' = [written EXCEPT ![d][s] = v] /\ failed' = failed \ {<<d, s>>} /\ got' = got
    BY <1>4, <1>6 DEF transfer
  <2>2. /\ dev'.state = "working" /\ dev'.op = dev.op /\ dev'.disk = dev.disk /\ dev'.sec = dev.sec /\ dev'.val = v
        /\ dev' \in [state : {"idle", "working", "data_in", "data_out"},
                     op : {"none", "identify", "read", "write", "storing"}, disk : Disk, sec : Sector, val : Value]
    BY <1>0, <2>1 DEF IdeTypeOK
  <2>3. written' \in [Disk -> [Sector -> Value]] /\ written'[d][s] = v
    BY <1>0, <2>1 DEF IdeTypeOK
  <2>4. IdeTypeOK'
    BY <1>0, <1>1, <1>3, <2>1, <2>2, <2>3 DEF IdeTypeOK
  <2>5. WriteAcknowledged'
    BY <1>2, <1>3, <1>6 DEF WriteAcknowledged, InDriver
  <2>6. ~gave_up => Stored' /\ Commands'
    <3> SUFFICES ASSUME ~gave_up PROVE Stored' /\ Commands'
      OBVIOUS
    <3>1. dev.state = "data_out" /\ dev.op = "storing" /\ dev.disk = d /\ dev.sec = s
      BY <1>1, <1>4, <1>5, <1>6 DEF CommandOK, Stored, Of
    <3>2. Agrees(content)
      BY <1>5, <3>1 DEF Stored, Storing, Agrees
    <3>3. Stored'
      <4>1. ASSUME NEW e \in Disk, NEW r \in Sector, <<e, r>> \notin failed'
            PROVE  written'[e][r] = [content EXCEPT ![d][s] = v][e][r]
        <5>1. CASE e = d /\ r = s
          BY <1>0, <2>3, <5>1 DEF IdeTypeOK
        <5>2. CASE ~(e = d /\ r = s)
          <6>1. <<e, r>> \notin failed
            BY <2>1, <4>1, <5>2
          <6>2. written[e][r] = content[e][r]
            BY <3>2, <6>1 DEF Agrees
          <6> QED
            BY <1>0, <2>1, <5>2, <6>2 DEF IdeTypeOK
        <5> QED
          BY <5>1, <5>2
      <4>2. Storing' /\ content' = content /\ dev'.disk = d /\ dev'.sec = s /\ dev'.val = v
        BY <1>1, <2>2, <3>1 DEF Storing
      <4>3. Agrees([content EXCEPT ![dev.disk][dev.sec] = dev.val])'
        BY <4>1, <4>2 DEF Agrees
      <4> QED
        BY <2>2, <4>2, <4>3 DEF Stored
    <3>4. CommandOK(t)'
      BY <1>1, <1>2, <1>3, <1>4, <1>6, <2>2, <2>3, <3>1 DEF CommandOK, Storing
    <3> QED
      BY <1>3, <3>3, <3>4 DEF Commands
  <2>7. ~gave_up => Completions'
    <3> SUFFICES ASSUME ~gave_up PROVE Completions'
      OBVIOUS
    <3>1. dev.state = "data_out" /\ Completions
      BY <1>1, <1>5, <1>6 DEF CommandOK, IdeInv
    <3>2. (\E u \in IThread : Waits(u)) /\ (\E u \in IThread : Waits(u)')
      BY <1>1, <1>2, <1>3, <1>6 DEF Waits
    <3> QED
      BY <1>1, <2>2, <3>1, <3>2 DEF Completions, Raised, Underway, Awaited
  <2> QED
    BY <1>1, <1>3, <2>4, <2>5, <2>6, <2>7 DEF IdeInv
<1>7. CASE req[t].op # "write"
  <2>1. /\ got' = [got EXCEPT ![t] = IF dev.state = "data_in" THEN content[dev.disk][dev.sec] ELSE "garbage"]
        /\ dev' = IF dev.state = "data_in" THEN idle ELSE dev
        /\ written' = written /\ failed' = failed
    BY <1>7 DEF transfer
  <2>2. dev' \in [state : {"idle", "working", "data_in", "data_out"},
                  op : {"none", "identify", "read", "write", "storing"}, disk : Disk, sec : Sector, val : Value]
    BY <1>0, <2>1, Ide_Constants DEF IdeTypeOK, idle, Disk, Value
  <2>3. got' \in [IThread -> Value \cup {"garbage"}]
    <3>1. content[dev.disk][dev.sec] \in Value
      BY <1>0 DEF IdeTypeOK
    <3> QED
      BY <1>0, <2>1, <3>1 DEF IdeTypeOK
  <2>4. IdeTypeOK'
    BY <1>0, <1>1, <1>3, <2>1, <2>2, <2>3 DEF IdeTypeOK
  <2>5. WriteAcknowledged'
    BY <1>1, <1>3, <1>7 DEF WriteAcknowledged, InDriver
  <2>6. ~gave_up => /\ dev.state = "data_in" /\ dev'.state = "idle" /\ Agrees(content)
                    /\ <<d, s>> \in failed \/ got'[t] = written[d][s]
    <3> SUFFICES ASSUME ~gave_up
                 PROVE  /\ dev.state = "data_in" /\ dev'.state = "idle" /\ Agrees(content)
                        /\ <<d, s>> \in failed \/ got'[t] = written[d][s]
      OBVIOUS
    <3>1. dev.state = "data_in" /\ dev.disk = d /\ dev.sec = s
      BY <1>1, <1>4, <1>5, <1>7 DEF CommandOK, Of
    <3>2. Agrees(content)
      BY <1>5, <3>1 DEF Stored, Storing, Agrees
    <3> QED
      BY <1>0, <2>1, <3>1, <3>2 DEF IdeTypeOK, idle, Agrees
  <2>7. ~gave_up => Stored' /\ Commands'
    <3> SUFFICES ASSUME ~gave_up PROVE Stored' /\ Commands'
      OBVIOUS
    <3>1. Stored'
      BY <1>1, <2>1, <2>6 DEF Stored, Storing, Agrees
    <3>2. CommandOK(t)'
      BY <1>1, <1>2, <1>3, <1>4, <1>7, <2>1, <2>6 DEF CommandOK, WriteFailed
    <3> QED
      BY <1>3, <3>1, <3>2 DEF Commands
  <2>8. ~gave_up => Completions'
    <3> SUFFICES ASSUME ~gave_up PROVE Completions'
      OBVIOUS
    <3>1. Completions
      BY <1>1 DEF IdeInv
    <3>2. ~(\E u \in IThread : Waits(u)) /\ ~(\E u \in IThread : Waits(u)')
      BY <1>1, <1>2, <1>3, <1>7 DEF Waits
    <3> QED
      BY <1>1, <2>6, <3>1, <3>2 DEF Completions, Raised, Underway, Awaited
  <2> QED
    BY <1>1, <1>3, <2>4, <2>5, <2>7, <2>8 DEF IdeInv
<1> QED
  BY <1>6, <1>7

\* The thread in the driver is out of it, and the disk as it was: an access of a
\* partition or for partition_scan() returns, identify_ata_device() does, on its
\* own or to call partition_scan(), or the kernel panics.
LEMMA Leave_IdeInv ==
  ASSUME IdeInv, NEW t \in IThread, ipc[t] \in InDriver, NEW x \in {"none", "acquire", "panic"},
         ipc' = [ipc EXCEPT ![t] = x], is_ata' \in [Disk -> BOOLEAN], ipanic' \in BOOLEAN,
         UNCHANGED <<expecting, completion_wait, got, dev, irq, content, written, failed, stray, gave_up>>,
         \/ probe = 4 /\ probe' = 4 /\ is_ata' = is_ata /\ x = "none" /\ ilock' = NoThread /\ req' = req
         \/ probe' = probe /\ is_ata' = is_ata /\ x = "panic" /\ ipanic' /\ ilock' = ilock /\ req' = req
         \/ probe # 4 /\ probe' = probe + 1 /\ x = "none" /\ ilock' = NoThread /\ req' = req
         \/ /\ probe # 4 /\ probe' = probe /\ x = "acquire" /\ ilock' = ilock
            /\ req' = [req EXCEPT ![t].op = "read"],
         x # "panic" => ipanic' = ipanic /\ ~Waits(t)
  PROVE  IdeInv'
<1>0. IdeTypeOK /\ Turns /\ PartitionConfined
  BY DEF IdeInv
<1>1. /\ ipc'[t] = x /\ ipc' \in [IThread -> InDriver \cup {"none", "acquire", "panic"}]
      /\ \A u \in IThread : u # t => ipc'[u] = ipc[u] /\ ipc'[u] \notin InDriver
  <2>1. ipc'[t] = x /\ ipc' \in [IThread -> InDriver \cup {"none", "acquire", "panic"}]
        /\ \A u \in IThread : u # t => ipc'[u] = ipc[u]
    BY <1>0 DEF IdeTypeOK
  <2> QED
    BY <1>0, <2>1, Ide_Alone
<1>2. \A u \in IThread : ipc'[u] \notin InDriver
  BY <1>1 DEF InDriver
<1>3. Commands' /\ WriteAcknowledged' /\ \A u \in IThread : ~Waits(u)'
  BY <1>2, Ide_Outside
<1>4. probe # 4 => probe \in {2, 3} /\ t = Boot /\ \A u \in IThread : u # t => ipc[u] = "none"
  <2> SUFFICES ASSUME probe # 4 PROVE probe \in {2, 3} /\ t = Boot /\ \A u \in IThread : u # t => ipc[u] = "none"
    OBVIOUS
  <2>1. t = Boot /\ \A u \in IThread : u # t => ipc[u] = "none"
    BY <1>0 DEF Turns, InDriver
  <2>2. ~(probe < 2) /\ probe \in 0 .. 4
    BY <1>0, <2>1 DEF Turns, InDriver, IdeTypeOK
  <2> QED
    BY <2>1, <2>2
<1>5. /\ req' \in [IThread -> [op : {"none", "identify", "read", "write"}, disk : Disk, sec : Sector, val : Value]]
      /\ \A u \in IThread : u # t => req'[u] = req[u]
      /\ x = "acquire" => req'[t].op = "read"
  <2>1. CASE req' = req /\ x # "acquire"
    BY <1>0, <2>1 DEF IdeTypeOK
  <2>2. CASE req' = [req EXCEPT ![t].op = "read"]
    BY <1>0, <2>2 DEF IdeTypeOK
  <2> QED
    BY <2>1, <2>2
<1>6. IdeTypeOK'
  <2>1. probe' \in 0 .. 4
    BY <1>0, <1>4, SMTT(60) DEF IdeTypeOK
  <2>2. ilock' \in IThread \cup {NoThread}
    BY <1>0 DEF IdeTypeOK
  <2> QED
    BY <1>0, <1>1, <1>5, <2>1, <2>2 DEF IdeTypeOK
<1>7. Turns' /\ PartitionConfined'
  <2>1. CASE probe = 4
    <3>1. probe' = 4 /\ is_ata' = is_ata /\ req' = req /\ x \in {"none", "panic"}
      BY <2>1
    <3>2. Turns'
      BY <1>0, <1>1, <1>2, <2>1, <3>1 DEF Turns
    <3>3. PartitionConfined'
      BY <1>0, <1>1, <2>1, <3>1, Ide_Confined DEF InDriver
    <3> QED
      BY <3>2, <3>3
  <2>2. CASE probe # 4
    <3>1. \/ probe' = probe + 1 /\ x = "none" /\ ilock' = NoThread
          \/ probe' = probe /\ x # "none"
      BY <2>2
    <3>2. ~(probe' < 2) /\ (probe' = 4 => x = "none")
      BY <1>4, <2>2, <3>1
    <3>3. \A u \in IThread : u # t => ipc'[u] = "none"
      BY <1>1, <1>4, <2>2
    <3>4. Turns'
      BY <1>1, <1>2, <1>4, <1>5, <2>2, <3>1, <3>2, <3>3 DEF Turns
    <3>5. PartitionConfined'
      BY <1>1, <3>2, <3>3 DEF PartitionConfined
    <3> QED
      BY <3>4, <3>5
  <2> QED
    BY <2>1, <2>2
<1>8. ~gave_up' => Stored'
  BY DEF IdeInv, Stored, Storing, Agrees
<1>9. ~gave_up' /\ ~ipanic' => Completions'
  <2> SUFFICES ASSUME ~gave_up, ~ipanic' PROVE Completions'
    OBVIOUS
  <2>1. x # "panic" /\ ~ipanic
    OBVIOUS
  <2>2. ~(\E u \in IThread : Waits(u)) /\ ~(\E u \in IThread : Waits(u)')
    BY <1>0, <1>1, <1>3, <2>1, Ide_Others
  <2>3. Completions
    BY <2>1 DEF IdeInv
  <2> QED
    BY <2>2, <2>3 DEF Completions, Raised, Underway, Awaited
<1> QED
  BY <1>3, <1>6, <1>7, <1>8, <1>9 DEF IdeInv

\* wait_while_busy() returns false, identify_ata_device() or an access returns.
LEMMA Returns_IdeInv ==
  ASSUME IdeInv, NEW t \in IThread,
         transfer_fails(t) \/ ide_return(t) \/ \E large \in BOOLEAN : identified(t, large)
  PROVE  IdeInv'
<1>0. IdeTypeOK /\ Turns
  BY DEF IdeInv
<1>1. CASE transfer_fails(t)
  <2>1. ipc[t] = "busy" /\ ipc[t] \in InDriver
    BY <1>1 DEF transfer_fails, InDriver
  <2>2. UNCHANGED <<ilock, expecting, completion_wait, req, got, dev, irq, content, written, failed, stray, gave_up>>
    BY <1>1 DEF transfer_fails
  <2>3. CASE req[t].op = "identify"
    <3>1. /\ ipc' = [ipc EXCEPT ![t] = "none"] /\ is_ata' = [is_ata EXCEPT ![probe - 2] = FALSE]
          /\ probe' = probe + 1 /\ ipanic' = ipanic
      BY <1>1, <2>3 DEF transfer_fails
    <3>2. probe # 4 /\ ilock = NoThread
      BY <1>0, <2>1, <2>3 DEF Turns
    <3>3. is_ata' \in [Disk -> BOOLEAN] /\ ipanic' \in BOOLEAN
      BY <1>0, <3>1 DEF IdeTypeOK
    <3>4. ~Waits(t)
      BY <2>1, <2>3 DEF Waits
    <3> QED
      BY <2>1, <2>2, <3>1, <3>2, <3>3, <3>4, Leave_IdeInv
  <2>4. CASE req[t].op # "identify"
    <3>1. ipc' = [ipc EXCEPT ![t] = "panic"] /\ ipanic' = TRUE /\ is_ata' = is_ata /\ probe' = probe
      BY <1>1, <2>4 DEF transfer_fails, panic
    <3>2. is_ata' \in [Disk -> BOOLEAN] /\ ipanic' \in BOOLEAN
      BY <1>0, <3>1 DEF IdeTypeOK
    <3> QED
      BY <2>1, <2>2, <3>1, <3>2, Leave_IdeInv
  <2> QED
    BY <2>3, <2>4
<1>2. CASE ide_return(t)
  <2>1. ipc[t] = "done" /\ ipc[t] \in InDriver /\ ipc' = [ipc EXCEPT ![t] = "none"] /\ ilock' = NoThread
    BY <1>2 DEF ide_return, goto, InDriver
  <2>2. UNCHANGED <<is_ata, expecting, completion_wait, req, got, dev, irq, content, written, failed, stray,
                    gave_up, ipanic>>
    BY <1>2 DEF ide_return
  <2>3. (probe = 4 /\ probe' = 4) \/ (probe # 4 /\ probe' = probe + 1)
    BY <1>2 DEF ide_return
  <2>4. is_ata' \in [Disk -> BOOLEAN] /\ ipanic' \in BOOLEAN
    BY <1>0, <2>2 DEF IdeTypeOK
  <2>5. ~Waits(t)
    BY <2>1 DEF Waits
  <2> QED
    BY <2>1, <2>2, <2>3, <2>4, <2>5, Leave_IdeInv
<1>3. ASSUME NEW large \in BOOLEAN, identified(t, large)
      PROVE  IdeInv'
  <2>1. ipc[t] = "done" /\ ipc[t] \in InDriver /\ req[t].op = "identify"
    BY <1>3 DEF identified, goto, InDriver
  <2>2. /\ is_ata' = [is_ata EXCEPT ![probe - 2] = ~large]
        /\ UNCHANGED <<ilock, expecting, completion_wait, got, dev, irq, content, written, failed, stray,
                       gave_up, ipanic>>
    BY <1>3 DEF identified
  <2>3. \/ ipc' = [ipc EXCEPT ![t] = "none"] /\ probe' = probe + 1 /\ req' = req
        \/ ipc' = [ipc EXCEPT ![t] = "acquire"] /\ probe' = probe /\ req' = [req EXCEPT ![t].op = "read"]
    BY <1>3 DEF identified, goto
  <2>4. probe # 4 /\ ilock' = NoThread
    BY <1>0, <2>1, <2>2 DEF Turns
  <2>5. is_ata' \in [Disk -> BOOLEAN] /\ ipanic' \in BOOLEAN
    BY <1>0, <2>2 DEF IdeTypeOK
  <2>6. ~Waits(t)
    BY <2>1 DEF Waits
  <2> QED
    BY <2>1, <2>2, <2>3, <2>4, <2>5, <2>6, Leave_IdeInv
<1> QED
  BY <1>1, <1>2, <1>3

\* The threads stay where they are.
LEMMA Still_Keeps ==
  ASSUME IdeInv, UNCHANGED <<probe, is_ata, ilock, ipc, req, got, written, gave_up, ipanic>>
  PROVE  /\ Turns' /\ PartitionConfined' /\ \A t \in IThread : Waits(t)' <=> Waits(t)
<1>1. Turns /\ PartitionConfined /\ IdeTypeOK
  BY DEF IdeInv
<1>2. Turns'
  BY <1>1 DEF Turns
<1>3. PartitionConfined'
  BY <1>1, Ide_Confined
<1> QED
  BY <1>2, <1>3 DEF Waits

\* interrupt_handler(), and an interrupt that no command caused
LEMMA Interrupt_IdeInv ==
  ASSUME IdeInv, interrupt_handler \/ dev_strays
  PROVE  IdeInv'
<1>0. IdeTypeOK
  BY DEF IdeInv
<1>1. UNCHANGED <<probe, is_ata, ilock, expecting, ipc, req, got, dev, content, written, failed, gave_up, ipanic>>
  BY DEF interrupt_handler, dev_strays
<1>2. /\ ~ipanic /\ completion_wait \in Nat /\ stray \in Nat
      /\ \/ /\ irq /\ irq' = FALSE /\ stray' = stray
            /\ completion_wait' = completion_wait \/ completion_wait' = completion_wait + 1
         \/ ~irq /\ irq' = TRUE /\ stray' = stray + 1 /\ completion_wait' = completion_wait
  BY <1>0 DEF interrupt_handler, dev_strays, IdeTypeOK
<1>3. Turns' /\ PartitionConfined' /\ \A t \in IThread : Waits(t)' <=> Waits(t)
  BY <1>1, Still_Keeps
<1>4. IdeTypeOK'
  <2>1. completion_wait' \in Nat /\ stray' \in Nat
    BY <1>2
  <2>2. irq' \in BOOLEAN
    BY <1>2
  <2> QED
    BY <1>0, <1>1, <2>1, <2>2 DEF IdeTypeOK
<1>5. ~gave_up' => Stored' /\ Commands'
  BY <1>1 DEF IdeInv, Stored, Commands, CommandOK, Storing, Of, WriteFailed, Agrees
<1>6. ~gave_up' /\ ~ipanic' => Completions'
  <2> SUFFICES ASSUME ~gave_up PROVE Completions'
    BY <1>1
  <2>1. Completions
    BY <1>2 DEF IdeInv
  <2>2. (\E t \in IThread : Waits(t)') <=> (\E t \in IThread : Waits(t))
    BY <1>3
  <2> QED
    BY <1>1, <1>2, <2>1, <2>2 DEF Completions, Raised, Underway, Awaited
<1>7. WriteAcknowledged'
  <2>1. stray' = 0 => stray = 0
    BY <1>2
  <2> QED
    BY <1>1, <2>1 DEF IdeInv, WriteAcknowledged, WriteFailed
<1> QED
  BY <1>3, <1>4, <1>5, <1>6, <1>7 DEF IdeInv

\* The selected disk finishes what it works on.
LEMMA Works_IdeInv ==
  ASSUME IdeInv, NEW fails \in BOOLEAN, dev_works(fails)
  PROVE  IdeInv'
<1>0. IdeTypeOK
  BY DEF IdeInv
<1>1. /\ dev.state = "working" /\ ~ipanic
      /\ UNCHANGED <<probe, is_ata, ilock, expecting, completion_wait, ipc, req, got, written, stray,
                     gave_up, ipanic>>
  BY DEF dev_works, BSY
<1>2. Turns' /\ PartitionConfined' /\ \A t \in IThread : Waits(t)' <=> Waits(t)
  BY <1>1, Still_Keeps
<1>3. \/ /\ dev.op = "storing" /\ dev' = idle /\ irq' = TRUE /\ failed' = failed
         /\ content' = [content EXCEPT ![dev.disk][dev.sec] = dev.val]
      \/ /\ dev.op = "storing" /\ dev' = idle /\ irq' = TRUE /\ failed' = failed \cup {<<dev.disk, dev.sec>>}
         /\ content' = content
      \/ dev.op # "storing" /\ dev' = idle /\ irq' = TRUE /\ content' = content /\ failed' = failed
      \/ /\ dev.op = "write" /\ dev' = [dev EXCEPT !.state = "data_out", !.op = "storing"]
         /\ irq' = irq /\ content' = content /\ failed' = failed
      \/ /\ dev.op \notin {"storing", "write"} /\ dev' = [dev EXCEPT !.state = "data_in", !.op = dev.op]
         /\ irq' = TRUE /\ content' = content /\ failed' = failed
  <2>1. CASE dev.op = "storing" /\ ~fails
    BY <2>1 DEF dev_works
  <2>2. CASE dev.op = "storing" /\ fails
    BY <2>2 DEF dev_works
  <2>3. CASE dev.op # "storing" /\ fails
    BY <2>3 DEF dev_works
  <2>4. CASE dev.op = "write" /\ ~fails
    <3>1. irq' = irq
      BY <1>0, <2>4 DEF dev_works, IdeTypeOK
    <3> QED
      BY <2>4, <3>1 DEF dev_works
  <2>5. CASE dev.op \notin {"storing", "write"} /\ ~fails
    BY <2>5 DEF dev_works
  <2> QED
    BY <2>1, <2>2, <2>3, <2>4, <2>5
<1>4. /\ \/ dev'.state = "idle" \/ (dev.op = "write" /\ dev'.state = "data_out" /\ dev'.op = "storing")
         \/ (dev.op \notin {"write", "storing"} /\ dev'.state = "data_in" /\ dev'.op = dev.op)
      /\ dev'.state # "idle" => dev'.disk = dev.disk /\ dev'.sec = dev.sec
      /\ dev' \in [state : {"idle", "working", "data_in", "data_out"},
                   op : {"none", "identify", "read", "write", "storing"}, disk : Disk, sec : Sector, val : Value]
  <2>1. CASE dev' = idle
    BY <2>1, Ide_Constants DEF idle, Disk, Value
  <2>2. CASE dev.op = "write" /\ dev' = [dev EXCEPT !.state = "data_out", !.op = "storing"]
    BY <1>0, <2>2 DEF IdeTypeOK
  <2>3. CASE dev.op \notin {"storing", "write"} /\ dev' = [dev EXCEPT !.state = "data_in", !.op = dev.op]
    BY <1>0, <2>3 DEF IdeTypeOK
  <2> QED
    BY <1>3, <2>1, <2>2, <2>3
<1>5. content' \in [Disk -> [Sector -> Value]]
  BY <1>0, <1>3, SMTT(60) DEF IdeTypeOK
<1>6. IdeTypeOK'
  <2>1. irq' \in BOOLEAN
    BY <1>0, <1>3 DEF IdeTypeOK
  <2> QED
    BY <1>0, <1>1, <1>4, <1>5, <2>1 DEF IdeTypeOK
<1>7. ~gave_up => Stored' /\ Agrees(content)'
  <2> SUFFICES ASSUME ~gave_up PROVE Stored' /\ Agrees(content)'
    OBVIOUS
  <2>1. Stored
    BY DEF IdeInv
  <2>2. Agrees(content)'
    <3>1. CASE dev.op # "storing"
      <4>1. content' = content /\ failed' = failed
        BY <1>3, <3>1
      <4> QED
        BY <1>1, <2>1, <3>1, <4>1 DEF Stored, Storing, Agrees
    <3>2. CASE dev.op = "storing"
      <4>1. Agrees([content EXCEPT ![dev.disk][dev.sec] = dev.val])
        BY <1>1, <2>1, <3>2 DEF Stored, Storing
      <4>2. CASE content' = [content EXCEPT ![dev.disk][dev.sec] = dev.val] /\ failed' = failed
        BY <1>1, <4>1, <4>2 DEF Agrees
      <4>3. CASE content' = content /\ failed' = failed \cup {<<dev.disk, dev.sec>>}
        <5>1. ASSUME NEW d \in Disk, NEW s \in Sector, <<d, s>> \notin failed'
              PROVE  written[d][s] = content[d][s]
          <6>1. <<d, s>> \notin failed /\ ~(d = dev.disk /\ s = dev.sec)
            BY <4>3, <5>1
          <6>2. written[d][s] = [content EXCEPT ![dev.disk][dev.sec] = dev.val][d][s]
            BY <4>1, <6>1 DEF Agrees
          <6> QED
            BY <1>0, <6>1, <6>2 DEF IdeTypeOK
        <5> QED
          BY <1>1, <4>3, <5>1 DEF Agrees
      <4> QED
        BY <1>3, <3>2, <4>2, <4>3
    <3> QED
      BY <3>1, <3>2
  <2> QED
    BY <1>1, <1>4, <2>2 DEF Stored, Storing
<1>8. ~gave_up => Commands'
  <2> SUFFICES ASSUME ~gave_up, NEW t \in IThread PROVE CommandOK(t)'
    BY DEF Commands
  <2>1. CommandOK(t) /\ req[t].op # "storing" /\ (WriteFailed(req[t]) => WriteFailed(req[t])')
    <3>1. WriteFailed(req[t]) => WriteFailed(req[t])'
      BY <1>1, <1>3 DEF WriteFailed
    <3> QED
      BY <1>0, <3>1 DEF IdeInv, Commands, IdeTypeOK
  <2>2. CASE dev'.state = "idle"
    BY <1>1, <2>1, <2>2 DEF CommandOK
  <2>3. CASE dev'.state # "idle"
    BY <1>1, <1>4, <2>1, <2>3 DEF CommandOK, Of, Storing
  <2> QED
    BY <2>2, <2>3
<1>9. ~gave_up' /\ ~ipanic' => Completions'
  <2> SUFFICES ASSUME ~gave_up PROVE Completions'
    BY <1>1
  <2>1. Completions /\ completion_wait \in Nat /\ stray \in Nat
    BY <1>0, <1>1 DEF IdeInv, IdeTypeOK
  <2>2. (\E t \in IThread : Waits(t)') <=> (\E t \in IThread : Waits(t))
    BY <1>2
  <2>3. dev'.state \in {"working", "data_out"} => irq' = irq
    BY <1>3, <1>4, SMTT(60) DEF idle
  <2> QED
    BY <1>1, <2>1, <2>2, <2>3 DEF Completions, Raised, Underway, Awaited
<1>10. WriteAcknowledged'
  <2> SUFFICES ASSUME NEW t \in IThread, ipc[t] = "done", req[t].op = "write", stray = 0, ~gave_up
               PROVE  content'[req[t].disk][req[t].sec] = req[t].val \/ WriteFailed(req[t])'
    BY <1>1 DEF WriteAcknowledged
  <2>1. CommandOK(t) /\ Agrees(content)' /\ req[t].disk \in Disk /\ req[t].sec \in Sector
    BY <1>0, <1>7 DEF IdeInv, Commands, IdeTypeOK
  <2> QED
    BY <1>1, <2>1 DEF CommandOK, Agrees, WriteFailed
<1> QED
  BY <1>1, <1>2, <1>6, <1>7, <1>8, <1>9, <1>10 DEF IdeInv

\* Every step of the driver, the block layer and the disk keeps the invariant.
LEMMA Next_IdeInv == IdeInv /\ [IdeNext]_idevars => IdeInv'
<1> SUFFICES ASSUME IdeInv, [IdeNext]_idevars PROVE IdeInv'
  OBVIOUS
<1>1. CASE UNCHANGED idevars
  <2>1. Turns' /\ PartitionConfined' /\ \A t \in IThread : Waits(t)' <=> Waits(t)
    BY <1>1, Still_Keeps DEF idevars
  <2>2. IdeTypeOK' /\ WriteAcknowledged' /\ (~gave_up' => Stored' /\ Commands')
    BY <1>1 DEF idevars, IdeInv, IdeTypeOK, WriteAcknowledged, WriteFailed, Stored, Agrees,
       Commands, CommandOK, Storing, Of
  <2>3. (\E t \in IThread : Waits(t)') <=> (\E t \in IThread : Waits(t))
    BY <2>1
  <2>4. ~gave_up' /\ ~ipanic' => Completions'
    BY <1>1, <2>3 DEF idevars, IdeInv, Completions, Raised, Underway, Awaited
  <2> QED
    BY <2>1, <2>2, <2>4 DEF IdeInv
<1>2. ASSUME NEW t \in IThread, NEW b \in blocks, NEW s \in 0 .. MaxSector - 1,
             block_io(t, "read", b, s, "v0") \/ \E v \in Value : block_io(t, "write", b, s, v)
      PROVE  IdeInv'
  <2>1. PICK op \in {"read", "write"}, v \in Value : block_io(t, op, b, s, v)
    BY <1>2 DEF Value
  <2> QED
    BY <2>1, BlockIo_IdeInv
<1>3. ASSUME NEW t \in IThread, ide_step(t)
      PROVE  IdeInv'
  BY <1>3, Lock_IdeInv, Select_IdeInv, Issue_IdeInv, Wait_IdeInv, Transfer_IdeInv, Returns_IdeInv DEF ide_step
<1> QED
  BY <1>1, <1>2, <1>3, Probe_IdeInv, Interrupt_IdeInv, Works_IdeInv DEF IdeNext

\* For any threads, partitions and disks, an access through block_read() and
\* block_write() gets the sector that it names: ide_read() returns what the last
\* ide_write() put there and ide_write() returns when it is there, whatever
\* interrupts are left over, and the sector is one of the thread's partition.
\* Two things the driver does not notice are excepted: that the disk failed to
\* store a sector it had taken, and that it is not idle after wait_until_idle().
THEOREM Spec_DiskOK == IdeSpec => []DiskOK
<1>1. IdeInv => DiskOK
  <2> SUFFICES ASSUME IdeInv PROVE DiskOK
    OBVIOUS
  <2>1. ReadsLastWrite
    BY DEF IdeInv, Commands, CommandOK, ReadsLastWrite
  <2>2. CompletionsBounded
    <3> SUFFICES ASSUME ilock = NoThread, probe = 4, ~gave_up, ~ipanic
                 PROVE  completion_wait + (IF irq THEN 1 ELSE 0) <= stray
      BY DEF CompletionsBounded
    <3>1. Completions /\ IdeTypeOK /\ Turns /\ completion_wait \in Nat /\ stray \in Nat
      BY DEF IdeInv, IdeTypeOK
    <3>2. \A u \in IThread : ipc[u] \notin InDriver
      BY <3>1, Ide_Free
    <3>3. ~(\E u \in IThread : Waits(u))
      BY <3>2 DEF Waits, InDriver
    <3> QED
      BY <3>1, <3>3 DEF Completions, Raised, Underway, Awaited
  <2> QED
    BY <2>1, <2>2 DEF IdeInv, DiskOK
<1> QED
  BY <1>1, Init_IdeInv, Next_IdeInv, PTL DEF IdeSpec

-----------------------------------------------------------------------------
(* Sequences *)

\* A sequence is a function on the numbers up to its length.
LEMMA Len_Facts ==
  ASSUME NEW S, NEW s \in Seq(S)
  PROVE  Len(s) \in Nat /\ DOMAIN s = 1 .. Len(s) /\ s \in [DOMAIN s -> S]
  OBVIOUS

LEMMA Empty_Facts ==
  ASSUME NEW S
  PROVE  <<>> \in Seq(S) /\ Len(<<>>) = 0 /\ \A s \in Seq(S) : s # <<>> => Len(s) \in Nat \ {0}
  OBVIOUS

LEMMA Append_Facts ==
  ASSUME NEW S, NEW s \in Seq(S), NEW e \in S
  PROVE  /\ Append(s, e) \in Seq(S) /\ Len(Append(s, e)) = Len(s) + 1
         /\ Append(s, e) # <<>> /\ Len(s) \in Nat
  OBVIOUS

LEMMA Tail_Facts ==
  ASSUME NEW S, NEW s \in Seq(S), s # <<>>
  PROVE  /\ Head(s) \in S /\ Tail(s) \in Seq(S) /\ Len(Tail(s)) = Len(s) - 1
         /\ Len(s) \in Nat \ {0} /\ s = <<Head(s)>> \o Tail(s)
  OBVIOUS

\* What the elements of a concatenation are.
LEMMA Concat_Facts ==
  ASSUME NEW S, NEW s \in Seq(S), NEW t \in Seq(S)
  PROVE  /\ s \o t \in Seq(S) /\ Len(s \o t) = Len(s) + Len(t)
         /\ \A k \in 1 .. Len(s) + Len(t) : (s \o t)[k] = IF k <= Len(s) THEN s[k] ELSE t[k - Len(s)]
  OBVIOUS

LEMMA Concat_Empty ==
  ASSUME NEW S, NEW s \in Seq(S)
  PROVE  <<>> \o s = s /\ s \o <<>> = s
  OBVIOUS

LEMMA Concat_Assoc ==
  ASSUME NEW S, NEW s \in Seq(S), NEW t \in Seq(S), NEW u \in Seq(S)
  PROVE  s \o (t \o u) = (s \o t) \o u
  OBVIOUS

LEMMA Append_Is_Concat ==
  ASSUME NEW S, NEW s \in Seq(S), NEW e \in S
  PROVE  s \o <<e>> = Append(s, e)
  OBVIOUS

-----------------------------------------------------------------------------
(* The serial port *)

\* Bytes are queued only in mode QUEUE, and serial_init_queue() ends in it.
QueueMode ==
  /\ smode # "QUEUE" => txq = <<>>
  /\ starting => smode = "QUEUE"

SerialInv == SerialOK /\ QueueMode

Input == {"serial", "key"}

\* Taking the first element of q over to the end of w moves no element.
LEMMA Shift ==
  ASSUME NEW S, NEW w \in Seq(S), NEW q \in Seq(S), q # <<>>
  PROVE  /\ Append(w, Head(q)) \in Seq(S)
         /\ w \o <<Head(q)>> = Append(w, Head(q))
         /\ Append(w, Head(q)) \o Tail(q) = w \o q
<1> DEFINE h == <<Head(q)>>
<1>1. Head(q) \in S /\ Tail(q) \in Seq(S)
  BY Tail_Facts
<1>2. h \in Seq(S)
  BY <1>1
<1>3. w \o h = Append(w, Head(q))
  BY <1>1, Append_Is_Concat
<1>4. q = h \o Tail(q)
  BY Tail_Facts
<1>5. (w \o h) \o Tail(q) = w \o (h \o Tail(q))
  BY <1>1, <1>2, Concat_Assoc, SMTT(60)
<1>6. Append(w, Head(q)) \in Seq(S)
  BY <1>1, Append_Facts
<1> QED
  BY <1>3, <1>4, <1>5, <1>6

LEMMA Append_Concat ==
  ASSUME NEW S, NEW w \in Seq(S), NEW q \in Seq(S), NEW b \in S
  PROVE  w \o Append(q, b) = Append(w \o q, b)
<1>1. <<b>> \in Seq(S) /\ w \o q \in Seq(S)
  BY Concat_Facts, SMTT(60)
<1>2. Append(q, b) = q \o <<b>> /\ Append(w \o q, b) = (w \o q) \o <<b>>
  BY <1>1, Append_Is_Concat
<1> QED
  BY <1>1, <1>2, Concat_Assoc, SMTT(60)

\* What write_ier() writes.
LEMMA Ier ==
  ASSUME NEW q, NEW b, Len(b) \in Nat
  PROVE  /\ write_ier(q, b) \subseteq {IER_XMIT, IER_RECV}
         /\ IER_XMIT \in write_ier(q, b) <=> q # <<>>
         /\ IER_RECV \in write_ier(q, b) <=> ~(Len(b) >= InSize)
  BY SerialAssumption DEF write_ier, IER_XMIT, IER_RECV

-----------------------------------------------------------------------------
(* The invariant *)

LEMMA Init_SerialInv == SerialInit => SerialInv
<1> SUFFICES ASSUME SerialInit PROVE SerialInv
  OBVIOUS
<1>1. <<>> \in Seq(OutByte) /\ <<>> \in Seq({"serial", "key"}) /\ Len(<<>>) = 0
  BY Empty_Facts
<1>2. <<>> \o <<>> = <<>>
  BY Concat_Empty, <1>1
<1>3. SerialTypeOK
  <2>1. 0 <= TxSize /\ 0 <= InSize
    BY SerialAssumption
  <2>2. Len(txq) <= TxSize /\ Len(buffer) <= InSize
    BY <1>1, <2>1 DEF SerialInit
  <2> QED
    BY <1>1, <2>2 DEF SerialInit, SerialTypeOK
<1>4. OutputInOrder /\ IerMatches /\ QueueMode
  BY <1>2 DEF SerialInit, OutputInOrder, IerMatches, QueueMode
<1> QED
  BY <1>3, <1>4 DEF SerialInv, SerialOK

LEMMA Next_SerialInv == SerialInv /\ [SerialNext]_serialvars => SerialInv'
<1> SUFFICES ASSUME SerialInv, [SerialNext]_serialvars PROVE SerialInv'
  OBVIOUS
<1> USE DEF SerialInv, SerialOK
<1>t. /\ txq \in Seq(OutByte) /\ wire \in Seq(OutByte) /\ given \in Seq(OutByte) /\ buffer \in Seq(Input)
      /\ Len(txq) \in Nat /\ Len(buffer) \in Nat
      /\ Len(txq) <= TxSize /\ Len(buffer) <= InSize
      /\ TxSize \in Nat \ {0} /\ InSize \in Nat \ {0}
      /\ wire \o txq = given
  BY Len_Facts, SerialAssumption DEF SerialTypeOK, Input, OutputInOrder
<1>e. \A S : <<>> \in Seq(S) /\ Len(<<>>) = 0
  BY Empty_Facts
<1>1. ASSUME NEW b \in OutByte, serial_putc_poll(b) PROVE SerialInv'
  <2>1. txq = <<>> /\ smode # "QUEUE" /\ ~starting
    BY <1>1 DEF serial_putc_poll, QueueMode, SerialTypeOK
  <2>2. wire = given
    BY <1>t, <2>1, Concat_Empty
  <2>3. /\ wire' = Append(wire, b) /\ given' = Append(given, b)
        /\ txq' = txq /\ buffer' = buffer /\ rbr' = rbr /\ arrived' = arrived /\ starting' = starting
        /\ smode' = "POLL" /\ ier' \in {ier, {}} /\ busy' \in BOOLEAN
    BY <1>1, <1>t, Append_Is_Concat DEF serial_putc_poll, init_poll, putc_poll
  <2>4. Append(wire, b) \in Seq(OutByte)
    BY <1>t, Append_Facts
  <2>5. wire' \o txq' = given'
    BY <2>1, <2>2, <2>3, <2>4, Concat_Empty
  <2> QED
    BY <1>t, <2>1, <2>2, <2>3, <2>4, <2>5 DEF SerialTypeOK, OutputInOrder, IerMatches, QueueMode
<1>2. ASSUME NEW b \in OutByte, serial_putc_queue(b) PROVE SerialInv'
  <2> DEFINE q == Append(txq, b)
  <2>1. /\ smode = "QUEUE" /\ Len(txq) < TxSize
        /\ txq' = q /\ ier' = write_ier(q, buffer) /\ given' = Append(given, b)
        /\ UNCHANGED <<smode, buffer, busy, wire, rbr, arrived, starting>>
    BY <1>2, <1>t DEF serial_putc_queue, queued, tx_full
  <2>2. q \in Seq(OutByte) /\ Len(q) = Len(txq) + 1 /\ Append(given, b) \in Seq(OutByte)
    BY <1>t, Append_Facts
  <2>3. wire \o q = Append(wire \o txq, b)
    BY <1>t, Append_Concat, SMTT(60)
  <2>4. /\ ier' \subseteq {IER_XMIT, IER_RECV} /\ (IER_XMIT \in ier' <=> q # <<>>)
        /\ (IER_RECV \in ier' <=> ~input_full)
    BY <1>t, <2>1, Ier DEF input_full
  <2>5. SerialTypeOK'
    BY <1>t, <2>1, <2>2, <2>4 DEF SerialTypeOK
  <2>6. OutputInOrder' /\ QueueMode'
    BY <1>t, <2>1, <2>3 DEF OutputInOrder, QueueMode
  <2>7. IerMatches'
    BY <2>1, <2>4 DEF IerMatches, input_full
  <2> QED
    BY <2>5, <2>6, <2>7
<1>3. ASSUME NEW b \in OutByte, serial_putc_off(b) PROVE SerialInv'
  <2> DEFINE q == Append(Tail(txq), b)
  <2>1. /\ smode = "QUEUE" /\ Len(txq) >= TxSize
        /\ txq' = q /\ ier' = write_ier(q, buffer) /\ given' = Append(given, b)
        /\ wire' = wire \o <<Head(txq)>> /\ busy' \in BOOLEAN
        /\ UNCHANGED <<smode, buffer, rbr, arrived, starting>>
    BY <1>3, <1>t DEF serial_putc_off, queued, tx_full, putc_poll, sent_by_poll
  <2>2. txq # <<>>
    BY <1>t, <1>e, <2>1
  <2>3. /\ Append(wire, Head(txq)) \in Seq(OutByte) /\ wire' = Append(wire, Head(txq))
        /\ Append(wire, Head(txq)) \o Tail(txq) = wire \o txq
    BY <1>t, <2>1, <2>2, Shift
  <2>4. Tail(txq) \in Seq(OutByte) /\ Len(Tail(txq)) = Len(txq) - 1
    BY <1>t, <2>2, Tail_Facts
  <2>5. q \in Seq(OutByte) /\ Len(q) = Len(Tail(txq)) + 1 /\ Append(given, b) \in Seq(OutByte)
    BY <1>t, <2>4, Append_Facts
  <2>6. wire' \o q = Append(wire' \o Tail(txq), b)
    BY <2>3, <2>4, Append_Concat, SMTT(60)
  <2>7. /\ ier' \subseteq {IER_XMIT, IER_RECV} /\ (IER_XMIT \in ier' <=> q # <<>>)
        /\ (IER_RECV \in ier' <=> ~input_full)
    BY <1>t, <2>1, Ier DEF input_full
  <2>8. SerialTypeOK'
    BY <1>t, <2>1, <2>3, <2>4, <2>5, <2>7 DEF SerialTypeOK
  <2>9. OutputInOrder' /\ QueueMode'
    BY <1>t, <2>1, <2>3, <2>6 DEF OutputInOrder, QueueMode
  <2>10. IerMatches'
    BY <2>1, <2>7 DEF IerMatches, input_full
  <2> QED
    BY <2>8, <2>9, <2>10
<1>4. ASSUME serial_init_queue PROVE SerialInv'
  BY <1>4, <1>t DEF serial_init_queue, SerialTypeOK, OutputInOrder, IerMatches, QueueMode
<1>5. ASSUME serial_init_end PROVE SerialInv'
  <2>1. /\ ier' \subseteq {IER_XMIT, IER_RECV} /\ (IER_XMIT \in ier' <=> txq # <<>>)
        /\ (IER_RECV \in ier' <=> ~input_full)
    BY <1>5, <1>t, Ier DEF serial_init_end, input_full
  <2> QED
    BY <1>5, <1>t, <2>1 DEF serial_init_end, SerialTypeOK, OutputInOrder, IerMatches, QueueMode, input_full
<1>6. ASSUME serial_flush PROVE SerialInv'
  <2>1. /\ wire' = wire \o txq /\ txq' = <<>> /\ busy' \in BOOLEAN
        /\ UNCHANGED <<smode, buffer, ier, given, rbr, arrived, starting>>
    BY <1>6 DEF serial_flush, putc_poll
  <2>2. wire' \o txq' = given'
    BY <1>t, <2>1, Concat_Empty
  <2> QED
    BY <1>t, <1>e, <2>1, <2>2 DEF SerialTypeOK, OutputInOrder, IerMatches, QueueMode, input_full
<1>7. ASSUME serial_interrupt PROVE SerialInv'
  <2> DEFINE receive == rbr /\ ~input_full
             transmit == ~busy /\ txq # <<>>
  <2>1. /\ buffer' = (IF receive THEN Append(buffer, "serial") ELSE buffer)
        /\ txq' = (IF transmit THEN Tail(txq) ELSE txq)
        /\ wire' = (IF transmit THEN Append(wire, Head(txq)) ELSE wire)
        /\ ier' = write_ier(txq', buffer') /\ busy' \in BOOLEAN /\ rbr' \in BOOLEAN
        /\ smode = "QUEUE" /\ UNCHANGED <<smode, given, arrived, starting>>
    BY <1>7 DEF serial_interrupt
  <2>2. buffer' \in Seq(Input) /\ Len(buffer') \in Nat /\ Len(buffer') <= InSize
    <3>1. "serial" \in Input
      BY DEF Input
    <3>2. Append(buffer, "serial") \in Seq(Input) /\ Len(Append(buffer, "serial")) = Len(buffer) + 1
      BY <1>t, <3>1, Append_Facts
    <3> QED
      BY <1>t, <2>1, <3>2 DEF input_full
  <2>3. /\ txq' \in Seq(OutByte) /\ Len(txq') <= TxSize /\ wire' \in Seq(OutByte)
        /\ wire' \o txq' = given
    <3>1. CASE transmit
      <4>1. /\ Append(wire, Head(txq)) \in Seq(OutByte)
            /\ Append(wire, Head(txq)) \o Tail(txq) = wire \o txq
        BY <1>t, <3>1, Shift
      <4>2. Tail(txq) \in Seq(OutByte) /\ Len(Tail(txq)) = Len(txq) - 1
        BY <1>t, <3>1, Tail_Facts
      <4>3. txq' = Tail(txq) /\ wire' = Append(wire, Head(txq))
        BY <2>1, <3>1
      <4> QED
        BY <1>t, <4>1, <4>2, <4>3
    <3>2. CASE ~transmit
      BY <1>t, <2>1, <3>2
    <3> QED
      BY <3>1, <3>2
  <2>4. /\ ier' \subseteq {IER_XMIT, IER_RECV} /\ (IER_XMIT \in ier' <=> txq' # <<>>)
        /\ (IER_RECV \in ier' <=> ~(Len(buffer') >= InSize))
    BY <2>1, <2>2, Ier
  <2>5. SerialTypeOK'
    BY <2>1, <2>2, <2>3, <2>4, <1>t DEF SerialTypeOK, Input
  <2>6. OutputInOrder' /\ QueueMode'
    BY <2>1, <2>3 DEF OutputInOrder, QueueMode
  <2>7. IerMatches'
    BY <2>1, <2>4 DEF IerMatches, input_full
  <2> QED
    BY <2>5, <2>6, <2>7
<1>8. ASSUME serial_notify, buffer' \in Seq(Input), Len(buffer') <= InSize,
             UNCHANGED <<smode, txq, busy, wire, given, rbr, arrived, starting>>
      PROVE  SerialInv'
  <2>1. Len(buffer') \in Nat
    BY <1>8, Len_Facts
  <2>2. smode = "QUEUE" => /\ ier' \subseteq {IER_XMIT, IER_RECV} /\ (IER_XMIT \in ier' <=> txq # <<>>)
                           /\ (IER_RECV \in ier' <=> ~(Len(buffer') >= InSize))
    BY <1>8, <2>1, Ier DEF serial_notify
  <2>3. smode # "QUEUE" => ier' = ier
    BY <1>8 DEF serial_notify
  <2>4. SerialTypeOK'
    BY <1>8, <1>t, <2>2, <2>3 DEF SerialTypeOK, Input
  <2>5. OutputInOrder' /\ QueueMode'
    BY <1>8 DEF OutputInOrder, QueueMode
  <2>6. IerMatches'
    BY <1>8, <2>2 DEF IerMatches, input_full
  <2> QED
    BY <2>4, <2>5, <2>6
<1>9. ASSUME key_pressed PROVE SerialInv'
  <2>1. "key" \in Input
    BY DEF Input
  <2>2. Append(buffer, "key") \in Seq(Input) /\ Len(Append(buffer, "key")) = Len(buffer) + 1
    BY <1>t, <2>1, Append_Facts
  <2>3. buffer' \in Seq(Input) /\ Len(buffer') <= InSize
    BY <1>9, <1>t, <2>2 DEF key_pressed, input_full
  <2> QED
    BY <1>8, <1>9, <2>3 DEF key_pressed
<1>10. ASSUME input_getc PROVE SerialInv'
  <2>1. buffer # <<>> /\ buffer' = Tail(buffer)
    BY <1>10 DEF input_getc
  <2>2. Tail(buffer) \in Seq(Input) /\ Len(Tail(buffer)) = Len(buffer) - 1
    BY <1>t, <2>1, Tail_Facts
  <2>3. buffer' \in Seq(Input) /\ Len(buffer') <= InSize
    BY <1>t, <2>1, <2>2
  <2> QED
    BY <1>8, <1>10, <2>3 DEF input_getc
<1>11. ASSUME uart_sent \/ uart_received PROVE SerialInv'
  <2>1. /\ busy' \in BOOLEAN /\ rbr' \in BOOLEAN /\ arrived' \in Nat
        /\ UNCHANGED <<smode, txq, buffer, ier, wire, given, starting>>
    <3>1. busy \in BOOLEAN /\ rbr \in BOOLEAN /\ arrived \in Nat /\ arrived + 1 \in Nat
      <4>1. busy \in BOOLEAN /\ rbr \in BOOLEAN /\ arrived \in Nat
        BY DEF SerialTypeOK
      <4> HIDE DEF SerialInv, SerialOK
      <4>2. \A n \in Nat : n + 1 \in Nat
        OBVIOUS
      <4> QED
        BY <4>1, <4>2
    <3> QED
      BY <1>11, <3>1 DEF uart_sent, uart_received
  <2>2. SerialTypeOK'
    BY <2>1 DEF SerialTypeOK
  <2>3. OutputInOrder' /\ IerMatches' /\ QueueMode'
    BY <2>1 DEF OutputInOrder, IerMatches, QueueMode, input_full
  <2> QED
    BY <2>2, <2>3
<1>12. CASE UNCHANGED serialvars
  <2>1. SerialTypeOK'
    BY <1>12 DEF serialvars, SerialTypeOK
  <2>2. OutputInOrder' /\ IerMatches' /\ QueueMode'
    BY <1>12 DEF serialvars, OutputInOrder, IerMatches, QueueMode, input_full
  <2> QED
    BY <2>1, <2>2
<1> QED
  BY <1>1, <1>2, <1>3, <1>4, <1>5, <1>6, <1>7, <1>9, <1>10, <1>11, <1>12 DEF SerialNext

\* Bytes leave the port in the order of the serial_putc() calls, none lost and
\* none twice, and IER_REG fits the queues, for queues of any size and any
\* number of bytes, keys, flushes and interrupts in between.
THEOREM Spec_SerialOK == SerialSpec => []SerialOK
<1>1. SerialSpec => []SerialInv
  BY Init_SerialInv, Next_SerialInv, PTL DEF SerialSpec
<1>2. SerialInv => SerialOK
  BY DEF SerialInv
<1> QED
  BY <1>1, <1>2, PTL
=============================================================================
