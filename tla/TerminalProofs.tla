--------------------------- MODULE TerminalProofs ---------------------------
(***************************************************************************)
(* The bytes of a terminal, for any threads and buffers of any size: the   *)
(* console keeps threads' messages apart and its devices alike, and the    *)
(* relay of the simulator's terminal delivers every byte once and in       *)
(* order.                                                                  *)
(***************************************************************************)
EXTENDS Console, Relay, FiniteSetTheorems, TLAPS

\* Most leaves are first-order and Zenon's; arithmetic and the rest are Z3's.
USE ZenonT(30), SMTT(60)

-----------------------------------------------------------------------------
(* The console *)

\* A printing call, and a character of a thread's.
Call == [msg : Context \X Nat, left : Int,
         at : {"acquire", "holder", "putchar", "vga_putc", "sema_up", "end"}]
Char == [msg : CThread \X Nat, left : Int]

Output == Seq(Char)
CallLists == [Context -> Seq(Call)]

\* What the console is made of.
ConsoleTypeOK ==
  /\ lock_holder \in CThread \cup {NoOne} /\ lock_sema \in Nat /\ console_lock_depth \in Nat
  /\ calls \in CallLists /\ msgs \in Nat
  /\ serial_out \in Output /\ vga_out \in Output
  /\ panicker \in Context \cup {NoOne} /\ level \in Nat

\* The lock is in use until a panic.
PanicUnlocks == (level = 0 <=> panicker = NoOne) /\ (use_console_lock <=> panicker = NoOne)

\* A thread prints messages of its own.
Own(cs) == \A c \in CThread : \A j \in 1 .. Len(cs[c]) : cs[c][j].msg[1] = c

\* The calls of threads, each by its thread and its place, that are at W.
At(cs, W) == {p \in CThread \X Nat : p[2] \in 1 .. Len(cs[p[1]]) /\ cs[p[1]][p[2]].at \in W}

\* Those that print, those between the lock's semaphore and its holder, and those
\* between the two devices.
Printing(cs) == At(cs, {"putchar", "vga_putc"})
Between(cs) == At(cs, {"holder", "sema_up"})
Showing(cs) == At(cs, {"vga_putc"})

\* All calls that print are of the lock's holder, and the depth counts them but
\* for the first; at most one call is about to be or was the holder's.
LockCounts ==
  /\ \A p \in Printing(calls) : p[1] = lock_holder
  /\ IsFiniteSet(Printing(calls))
  /\ lock_holder = NoOne => console_lock_depth = 0 /\ Printing(calls) = {}
  /\ lock_holder # NoOne => /\ Cardinality(Printing(calls)) = console_lock_depth + 1
                            /\ lock_sema = 0 /\ Between(calls) = {}
  /\ \A p, q \in Between(calls) : p = q
  /\ Between(calls) # {} => lock_sema = 0
  /\ lock_sema \in {0, 1} /\ At(calls, {"end"}) = {}

\* Until a panic, calls have the numbers of begun messages, no two the same, and
\* printed messages too; a call in acquire_console() has printed nothing yet.
Begun(cs, n) ==
  \A c \in CThread : \A j \in 1 .. Len(cs[c]) :
    /\ cs[c][j].msg[2] \in 1 .. n
    /\ \A k \in 1 .. Len(cs[c]) : j # k => cs[c][j].msg # cs[c][k].msg
Numbered(out, n) == \A i \in 1 .. Len(out) : out[i].msg[2] \in 1 .. n
Unprinted(out, cs) ==
  \A c \in CThread : \A j \in 1 .. Len(cs[c]) :
    cs[c][j].at = "acquire" => \A i \in 1 .. Len(out) : out[i].msg # cs[c][j].msg

\* Nobody else printed after the first character of a call that may print more.
Whole(out, cs, p) ==
  \A c \in CThread : p \in {NoOne, c} => \A j \in 1 .. Len(cs[c]) :
    \A i, k \in 1 .. Len(out) : (i <= k /\ out[i].msg = cs[c][j].msg) => out[k].msg[1] = c

\* Nobody else printed between two characters of a message.
NotMixed(out) ==
  \A i, j \in 1 .. Len(out) : (i < j /\ out[i].msg = out[j].msg) => \A k \in i .. j : out[k].msg[1] = out[i].msg[1]

\* The serial port is ahead by the characters of the calls between the devices,
\* which are all of one thread.
Ahead ==
  /\ IsFiniteSet(Showing(calls))
  /\ Len(serial_out) = Len(vga_out) + Cardinality(Showing(calls))
  /\ \A i \in 1 .. Len(vga_out) : vga_out[i].msg[1] = serial_out[i].msg[1]
  /\ \A i \in Len(vga_out) + 1 .. Len(serial_out) : \A p \in Showing(calls) : serial_out[i].msg[1] = p[1]

\* X is a character of the output; it is one between the devices.
On(out, x) == \E i \in 1 .. Len(out) : out[i] = x
Missing(cs, x) == \E p \in Showing(cs) : x = char(cs[p[1]][p[2]])

Behind == \A x : On(serial_out, x) <=> On(vga_out, x) \/ Missing(calls, x)

\* A panic prints a message of its own, the last call of who panicked.
PanicsLast ==
  panicker \in CThread => Len(calls[panicker]) > 0 /\ calls[panicker][Len(calls[panicker])].msg = <<panicker, 0>>

\* A handler takes no lock.
Lockless(cs) == \A j \in 1 .. Len(cs[Intr]) : cs[Intr][j].at \notin {"holder", "sema_up"}

\* The inductive invariant: until a panic the lock keeps threads apart, after it
\* only who panicked prints.
ConsoleInv ==
  /\ ConsoleTypeOK /\ PanicUnlocks /\ Own(calls) /\ PanicsLast /\ Lockless(calls)
  /\ NotMixed(serial_out) /\ NotMixed(vga_out)
  /\ Whole(serial_out, calls, panicker) /\ Whole(vga_out, calls, panicker)
  /\ panicker = NoOne => /\ LockCounts /\ Ahead /\ Behind /\ Begun(calls, msgs)
                         /\ Numbered(serial_out, msgs) /\ Numbered(vga_out, msgs)
                         /\ Unprinted(serial_out, calls) /\ Unprinted(vga_out, calls)

\* The innermost call is the last.
LEMMA Top_Call ==
  ASSUME NEW s \in Seq(Call), s # <<>>
  PROVE  Len(s) \in Nat /\ Len(s) > 0 /\ Len(s) \in 1 .. Len(s) /\ s[Len(s)] \in Call
  OBVIOUS

\* Calls that print nothing new leave the outputs whole.
LEMMA Whole_Calls ==
  ASSUME NEW out, NEW cs, NEW cs2, NEW p, Whole(out, cs, p),
         \A d \in CThread : \A j \in 1 .. Len(cs2[d]) : \E i \in 1 .. Len(cs[d]) : cs2[d][j].msg = cs[d][i].msg
  PROVE  Whole(out, cs2, p)
  BY SMTT(60) DEF Whole

\* Nor do calls that return print what others are still to print.
LEMMA Unprinted_Calls ==
  ASSUME NEW out, NEW cs, NEW cs2, Unprinted(out, cs),
         \A d \in CThread : \A j \in 1 .. Len(cs2[d]) : j \in 1 .. Len(cs[d]) /\ cs2[d][j] = cs[d][j]
  PROVE  Unprinted(out, cs2)
  BY SMTT(60) DEF Unprinted

\* A new call may have messages that were printed if they are its own.
LEMMA Whole_Push ==
  ASSUME NEW out, NEW cs \in CallLists, NEW p, NEW q, Whole(out, cs, p), NEW c \in CThread, NEW m \in Call,
         p \in {NoOne, q}, q \in {NoOne, c},
         \A i, k \in 1 .. Len(out) : (i <= k /\ out[i].msg = m.msg) => out[k].msg[1] = c
  PROVE  Whole(out, [cs EXCEPT ![c] = Append(@, m)], q)
<1> DEFINE cs2 == [cs EXCEPT ![c] = Append(@, m)]
<1>1. \A d \in CThread : d # c => cs2[d] = cs[d]
  BY DEF CallLists, Context
<1>2. cs[c] \in Seq(Call) /\ cs2[c] = Append(cs[c], m)
  BY DEF CallLists, Context
<1>3. \A j \in 1 .. Len(cs2[c]) : (j \in 1 .. Len(cs[c]) /\ cs2[c][j] = cs[c][j]) \/ cs2[c][j] = m
  BY <1>2
<1> HIDE DEF cs2
<1>4. Whole(out, cs2, q)
  <2> SUFFICES ASSUME NEW d \in CThread, q \in {NoOne, d}, NEW j \in 1 .. Len(cs2[d]),
                      NEW i \in 1 .. Len(out), NEW k \in 1 .. Len(out), i <= k, out[i].msg = cs2[d][j].msg
               PROVE  out[k].msg[1] = d
    BY SMTT(60) DEF Whole
  <2>1. CASE d # c
    BY <1>1, <2>1, SMTT(60) DEF Whole
  <2>2. CASE d = c
    BY <1>3, <2>2, SMTT(60) DEF Whole
  <2> QED
    BY <2>1, <2>2
<1> QED
  BY <1>4 DEF cs2

\* Thread C prints the next character of a call that it is in.
LEMMA Whole_Print ==
  ASSUME NEW out \in Output, NEW cs \in CallLists, NEW p, Own(cs), Whole(out, cs, p), NEW c \in CThread,
         NEW m \in Char, m.msg[1] = c, p \in {NoOne, c},
         p = NoOne => /\ Unprinted(out, cs)
                      /\ \A d \in CThread \ {c} : \A j \in 1 .. Len(cs[d]) : cs[d][j].at = "acquire"
  PROVE  Whole(Append(out, m), cs, p)
<1> DEFINE out2 == Append(out, m)
<1>1. Len(out) \in Nat /\ Len(out2) = Len(out) + 1
  BY DEF Output
<1>2. \A i \in 1 .. Len(out2) : (i \in 1 .. Len(out) /\ out2[i] = out[i]) \/ (i = Len(out2) /\ out2[i] = m)
  BY <1>1 DEF Output
<1> SUFFICES ASSUME NEW d \in CThread, p \in {NoOne, d}, NEW j \in 1 .. Len(cs[d]),
                    NEW i \in 1 .. Len(out2), NEW k \in 1 .. Len(out2), i <= k, out2[i].msg = cs[d][j].msg
             PROVE  out2[k].msg[1] = d
  BY SMTT(60) DEF Whole
<1>3. CASE d = c
  <2>1. CASE k \in 1 .. Len(out) /\ out2[k] = out[k]
    <3>1. i \in 1 .. Len(out) /\ out2[i] = out[i]
      BY <1>1, <1>2, <2>1
    <3> QED
      BY <1>3, <2>1, <3>1, SMTT(60) DEF Whole
  <2>2. CASE out2[k] = m
    BY <1>3, <2>2
  <2> QED
    BY <1>2, <2>1, <2>2
<1>4. CASE d # c
  <2>1. p = NoOne /\ cs[d][j].at = "acquire" /\ cs[d][j].msg[1] = d
    BY <1>4 DEF Own
  <2>2. m.msg # cs[d][j].msg
    BY <1>4, <2>1
  <2>3. \A n \in 1 .. Len(out) : out[n].msg # cs[d][j].msg
    BY <2>1 DEF Unprinted
  <2> QED
    BY <1>2, <2>2, <2>3
<1> QED
  BY <1>3, <1>4

LEMMA NotMixed_Print ==
  ASSUME NEW out \in Output, NEW cs \in CallLists, NEW p, NEW c \in CThread, NEW n \in 1 .. Len(cs[c]),
         NEW m \in Char, m.msg = cs[c][n].msg, m.msg[1] = c,
         p \in {NoOne, c}, NotMixed(out), Whole(out, cs, p)
  PROVE  NotMixed(Append(out, m))
<1> DEFINE out2 == Append(out, m)
<1>1. Len(out) \in Nat /\ Len(out2) = Len(out) + 1
  BY DEF Output
<1>2. \A i \in 1 .. Len(out2) : (i \in 1 .. Len(out) /\ out2[i] = out[i]) \/ (i = Len(out2) /\ out2[i] = m)
  BY <1>1 DEF Output
<1> SUFFICES ASSUME NEW i \in 1 .. Len(out2), NEW j \in 1 .. Len(out2), i < j, out2[i].msg = out2[j].msg,
                    NEW k \in i .. j
             PROVE  out2[k].msg[1] = out2[i].msg[1]
  BY DEF NotMixed
<1>3. i \in 1 .. Len(out) /\ out2[i] = out[i]
  BY <1>1, <1>2, SMTT(60)
<1>4. CASE j \in 1 .. Len(out) /\ out2[j] = out[j]
  <2>1. k \in 1 .. Len(out) /\ out2[k] = out[k]
    BY <1>1, <1>2, <1>4, SMTT(60)
  <2>2. \A x \in i .. j : out[x].msg[1] = out[i].msg[1]
    BY <1>3, <1>4 DEF NotMixed
  <2> QED
    BY <1>3, <2>1, <2>2
<1>5. CASE j = Len(out2) /\ out2[j] = m
  <2>1. \A x \in 1 .. Len(out) : i <= x => out[x].msg[1] = c
    BY SMTT(60), <1>3, <1>5 DEF Whole
  <2>2. k \in 1 .. Len(out2) /\ i <= k
    BY <1>1
  <2> QED
    BY <1>2, <1>3, <1>5, <2>1, <2>2
<1> QED
  BY <1>2, <1>4, <1>5

\* C's innermost call moves on to W, and nothing else of the calls changes.
Moved(c, w) ==
  /\ calls' \in CallLists /\ \A d \in Context : d # c => calls'[d] = calls[d]
  /\ Len(calls'[c]) = Len(calls[c]) /\ Len(calls[c]) \in Nat /\ Len(calls[c]) > 0
  /\ \A j \in 1 .. Len(calls[c]) : j # Len(calls[c]) => calls'[c][j] = calls[c][j]
  /\ calls'[c][Len(calls[c])].msg = calls[c][Len(calls[c])].msg
  /\ calls'[c][Len(calls[c])].at = w

Place == {"acquire", "holder", "putchar", "vga_putc", "sema_up", "end"}

LEMMA Goto_Moved ==
  ASSUME calls \in CallLists, NEW c \in Context, calls[c] # <<>>,
         NEW w \in Place, NEW x \in Int, NEW f \in Call,
         f = [calls[c][Len(calls[c])] EXCEPT !.at = w, !.left = x],
         calls' = [calls EXCEPT ![c] = [calls[c] EXCEPT ![Len(calls[c])] = f]]
  PROVE  Moved(c, w)
<1>1. calls[c] \in Seq(Call) /\ Len(calls[c]) \in Nat /\ Len(calls[c]) > 0 /\ calls[c][Len(calls[c])] \in Call
  BY Top_Call DEF CallLists
<1>2. f.at = w /\ f.msg = calls[c][Len(calls[c])].msg
  BY <1>1 DEF Call
<1>3. PICK s2 : s2 = [calls[c] EXCEPT ![Len(calls[c])] = f]
  OBVIOUS
<1>4. /\ s2 \in Seq(Call) /\ Len(s2) = Len(calls[c]) /\ s2[Len(calls[c])] = f
      /\ \A j \in 1 .. Len(calls[c]) : j # Len(calls[c]) => s2[j] = calls[c][j]
  BY <1>1, <1>3, SMTT(60)
<1>5. calls'[c] = s2 /\ calls' \in CallLists /\ \A d \in Context : d # c => calls'[d] = calls[d]
  BY <1>3, <1>4 DEF CallLists
<1> QED
  BY <1>1, <1>2, <1>4, <1>5 DEF Moved

LEMMA Goto_Call ==
  ASSUME calls \in CallLists, NEW c \in Context, calls[c] # <<>>, NEW w \in Place, goto_call(c, w)
  PROVE  Moved(c, w) /\ calls'[c][Len(calls[c])].left = calls[c][Len(calls[c])].left
<1>1. calls[c][Len(calls[c])] \in Call
  BY Top_Call DEF CallLists
<1>2. PICK f \in Call, x \in Int : /\ f = [calls[c][Len(calls[c])] EXCEPT !.at = w, !.left = x]
                                   /\ f = [calls[c][Len(calls[c])] EXCEPT !.at = w]
                                   /\ x = calls[c][Len(calls[c])].left
  BY <1>1 DEF Call, Place
<1>3. calls' = [calls EXCEPT ![c] = [calls[c] EXCEPT ![Len(calls[c])] = f]]
  BY <1>2 DEF goto_call
<1>4. f.left = calls[c][Len(calls[c])].left
  BY <1>1, <1>2 DEF Call
<1>5. f = [calls[c][Len(calls[c])] EXCEPT !.at = w, !.left = x]
  BY <1>2
<1>6. Moved(c, w)
  BY <1>3, <1>5, Goto_Moved
<1>7. calls'[c][Len(calls[c])] = f
  <2>1. calls[c] \in Seq(Call) /\ Len(calls[c]) \in Nat /\ Len(calls[c]) > 0
    BY Top_Call DEF CallLists
  <2>2. calls'[c] = [calls[c] EXCEPT ![Len(calls[c])] = f]
    BY <1>3 DEF CallLists
  <2> QED
    BY <2>1, <2>2, SMTT(60)
<1> QED
  BY <1>2, <1>4, <1>6, <1>7

\* vga_putc() moves the call on to its next character.
LEMMA Vga_Moved ==
  ASSUME calls \in CallLists, NEW c \in Context, vga_putc(c)
  PROVE  Moved(c, "putchar")
<1>1. calls[c] # <<>> /\ calls[c] \in Seq(Call) /\ calls[c][Len(calls[c])] \in Call
  BY Top_Call DEF CallLists, vga_putc, inside
<1>2. PICK x \in Int : x = calls[c][Len(calls[c])].left - 1
  BY <1>1, SMTT(60) DEF Call
<1>3. PICK f \in Call : f = [calls[c][Len(calls[c])] EXCEPT !.at = "putchar", !.left = x]
  BY <1>1 DEF Call
<1>4. calls' = [calls EXCEPT ![c] = [calls[c] EXCEPT ![Len(calls[c])] = f]]
  BY <1>1, <1>2, <1>3 DEF vga_putc, CallLists
<1> QED
  BY <1>1, <1>3, <1>4, Goto_Moved DEF Place

\* A list of calls without its last.
LEMMA Returned ==
  ASSUME NEW s \in Seq(Call), s # <<>>
  PROVE  /\ SubSeq(s, 1, Len(s) - 1) \in Seq(Call) /\ Len(SubSeq(s, 1, Len(s) - 1)) = Len(s) - 1
         /\ Len(s) \in Nat /\ Len(s) > 0
         /\ \A j \in 1 .. Len(s) - 1 : j \in 1 .. Len(s) /\ SubSeq(s, 1, Len(s) - 1)[j] = s[j]
<1>1. Len(s) \in Nat /\ Len(s) > 0 /\ Len(s) - 1 \in Nat /\ Len(s) - 1 <= Len(s)
  OBVIOUS
<1>2. PICK n \in Nat : n = Len(s) - 1 /\ n <= Len(s)
  BY <1>1
<1>3. SubSeq(s, 1, n) \in Seq(Call) /\ Len(SubSeq(s, 1, n)) = n
  BY <1>2
<1>4. \A j \in 1 .. n : j \in 1 .. Len(s) /\ SubSeq(s, 1, n)[j] = s[j]
  BY <1>2
<1> QED
  BY <1>1, <1>2, <1>3, <1>4

\* C's innermost call returns.
Popped(c) ==
  /\ calls' \in CallLists /\ \A d \in Context : d # c => calls'[d] = calls[d]
  /\ Len(calls'[c]) = Len(calls[c]) - 1 /\ Len(calls[c]) \in Nat /\ Len(calls[c]) > 0
  /\ \A j \in 1 .. Len(calls[c]) - 1 : j \in 1 .. Len(calls[c]) /\ calls'[c][j] = calls[c][j]

LEMMA Return_Popped ==
  ASSUME calls \in CallLists, NEW c \in Context, calls[c] # <<>>, return_call(c)
  PROVE  Popped(c)
<1>1. calls[c] \in Seq(Call)
  BY DEF CallLists
<1>2. PICK s : s = SubSeq(calls[c], 1, Len(calls[c]) - 1)
  OBVIOUS
<1>3. /\ s \in Seq(Call) /\ Len(s) = Len(calls[c]) - 1 /\ Len(calls[c]) \in Nat /\ Len(calls[c]) > 0
      /\ \A j \in 1 .. Len(calls[c]) - 1 : j \in 1 .. Len(calls[c]) /\ s[j] = calls[c][j]
  BY <1>1, <1>2, Returned
<1>4. calls' = [calls EXCEPT ![c] = s]
  BY <1>2 DEF return_call
<1>5. calls' \in CallLists /\ calls'[c] = s /\ \A d \in Context : d # c => calls'[d] = calls[d]
  BY <1>3, <1>4 DEF CallLists
<1> QED
  BY <1>3, <1>5 DEF Popped

\* Where the calls of threads are, after each kind of step.
LEMMA At_Moved ==
  ASSUME NEW c \in CThread, NEW w, Moved(c, w), NEW W, NEW n, n = Len(calls[c])
  PROVE  /\ w \in W => At(calls', W) = At(calls, W) \cup {<<c, n>>}
         /\ w \notin W => At(calls', W) = At(calls, W) \ {<<c, n>>}
         /\ <<c, n>> \in At(calls, W) <=> calls[c][n].at \in W
<1>1. c \in Context /\ n \in Nat /\ n \in 1 .. n
  BY DEF Moved, Context
<1>2. ASSUME NEW p \in CThread \X Nat
      PROVE  p \in At(calls', W) <=> IF p = <<c, n>> THEN w \in W ELSE p \in At(calls, W)
  <2>1. PICK d \in CThread, j \in Nat : p = <<d, j>> /\ d \in Context
    BY DEF Context
  <2>2. p \in At(calls, W) <=> j \in 1 .. Len(calls[d]) /\ calls[d][j].at \in W
    BY <2>1 DEF At
  <2>3. p \in At(calls', W) <=> j \in 1 .. Len(calls'[d]) /\ calls'[d][j].at \in W
    BY <2>1 DEF At
  <2>4. CASE p = <<c, n>>
    BY SMTT(60), <1>1, <2>1, <2>3, <2>4 DEF Moved
  <2>5. CASE p # <<c, n>>
    <3>1. d # c \/ j # n
      BY <2>1, <2>5
    <3>2. CASE d # c
      BY <2>1, <2>2, <2>3, <2>5, <3>2 DEF Moved
    <3>3. CASE d = c /\ j # n
      BY <2>2, <2>3, <2>5, <3>3 DEF Moved
    <3> QED
      BY <3>1, <3>2, <3>3
  <2> QED
    BY <2>4, <2>5
<1>3. At(calls', W) \subseteq CThread \X Nat /\ At(calls, W) \subseteq CThread \X Nat /\ <<c, n>> \in CThread \X Nat
  BY <1>1 DEF At
<1>4. <<c, n>> \in At(calls, W) <=> calls[c][n].at \in W
  BY <1>1 DEF At
<1>5. ASSUME w \in W
      PROVE  At(calls', W) = At(calls, W) \cup {<<c, n>>}
  BY <1>2, <1>3, <1>5
<1>6. ASSUME w \notin W
      PROVE  At(calls', W) = At(calls, W) \ {<<c, n>>}
  BY <1>2, <1>3, <1>6
<1> QED
  BY <1>4, <1>5, <1>6

\* In particular, those that print, those between semaphore and holder, those
\* between the devices, and those that have ended.
LEMMA Printing_Moved ==
  ASSUME NEW c \in CThread, NEW w \in Place, Moved(c, w), NEW p, p = <<c, Len(calls[c])>>
  PROVE  /\ w \in {"putchar", "vga_putc"} => Printing(calls') = Printing(calls) \cup {p}
         /\ w \notin {"putchar", "vga_putc"} => Printing(calls') = Printing(calls) \ {p}
         /\ p \in Printing(calls) <=> calls[c][Len(calls[c])].at \in {"putchar", "vga_putc"}
  BY SMTT(60), At_Moved DEF Printing

LEMMA Between_Moved ==
  ASSUME NEW c \in CThread, NEW w \in Place, Moved(c, w), NEW p, p = <<c, Len(calls[c])>>
  PROVE  /\ w \in {"holder", "sema_up"} => Between(calls') = Between(calls) \cup {p}
         /\ w \notin {"holder", "sema_up"} => Between(calls') = Between(calls) \ {p}
         /\ p \in Between(calls) <=> calls[c][Len(calls[c])].at \in {"holder", "sema_up"}
  BY SMTT(60), At_Moved DEF Between

LEMMA Showing_Moved ==
  ASSUME NEW c \in CThread, NEW w \in Place, Moved(c, w), NEW p, p = <<c, Len(calls[c])>>
  PROVE  /\ w \in {"vga_putc"} => Showing(calls') = Showing(calls) \cup {p}
         /\ w \notin {"vga_putc"} => Showing(calls') = Showing(calls) \ {p}
         /\ p \in Showing(calls) <=> calls[c][Len(calls[c])].at \in {"vga_putc"}
  BY SMTT(60), At_Moved DEF Showing

LEMMA Ended_Moved ==
  ASSUME NEW c \in CThread, NEW w \in Place, Moved(c, w), NEW p, p = <<c, Len(calls[c])>>
  PROVE  /\ w \in {"end"} => At(calls', {"end"}) = At(calls, {"end"}) \cup {p}
         /\ w \notin {"end"} => At(calls', {"end"}) = At(calls, {"end"}) \ {p}
         /\ p \in At(calls, {"end"}) <=> calls[c][Len(calls[c])].at \in {"end"}
  BY SMTT(60), At_Moved

LEMMA At_Popped ==
  ASSUME NEW c \in CThread, Popped(c), NEW W, NEW n, n = Len(calls[c])
  PROVE  /\ At(calls', W) = At(calls, W) \ {<<c, n>>}
         /\ <<c, n>> \in At(calls, W) <=> calls[c][n].at \in W
<1>1. c \in Context /\ n \in Nat /\ n \in 1 .. n /\ Len(calls'[c]) = n - 1
  BY DEF Popped, Context
<1>2. ASSUME NEW p \in CThread \X Nat
      PROVE  p \in At(calls', W) <=> p # <<c, n>> /\ p \in At(calls, W)
  <2>1. PICK d \in CThread, j \in Nat : p = <<d, j>> /\ d \in Context
    BY DEF Context
  <2>2. p \in At(calls, W) <=> j \in 1 .. Len(calls[d]) /\ calls[d][j].at \in W
    BY <2>1 DEF At
  <2>3. p \in At(calls', W) <=> j \in 1 .. Len(calls'[d]) /\ calls'[d][j].at \in W
    BY <2>1 DEF At
  <2>4. CASE d # c
    BY <2>1, <2>2, <2>3, <2>4 DEF Popped
  <2>5. CASE d = c
    <3>1. j \in 1 .. n - 1 <=> j \in 1 .. n /\ j # n
      BY <1>1
    <3>2. p = <<c, n>> <=> j = n
      BY <2>1, <2>5
    <3> QED
      BY <1>1, <2>2, <2>3, <2>5, <3>1, <3>2 DEF Popped
  <2> QED
    BY <2>4, <2>5
<1>3. At(calls', W) \subseteq CThread \X Nat /\ At(calls, W) \subseteq CThread \X Nat
  BY DEF At
<1>4. <<c, n>> \in At(calls, W) <=> calls[c][n].at \in W
  BY <1>1 DEF At
<1> QED
  BY <1>2, <1>3, <1>4

\* Calls that pass no character on leave the devices as they are.
LEMMA Devices_Keep ==
  ASSUME Ahead, Behind, UNCHANGED <<serial_out, vga_out>>, Showing(calls') = Showing(calls),
         \A p \in Showing(calls) : calls'[p[1]][p[2]] = calls[p[1]][p[2]]
  PROVE  Ahead' /\ Behind'
<1>1. Ahead'
  BY DEF Ahead
<1>2. \A x : Missing(calls', x) <=> Missing(calls, x)
  BY DEF Missing, char
<1> QED
  BY <1>1, <1>2 DEF Behind

LEMMA Handler_Keeps ==
  ASSUME ConsoleInv, calls' \in CallLists, \A d \in CThread : calls'[d] = calls[d], msgs' \in Nat, msgs' >= msgs, Lockless(calls'),
         UNCHANGED <<use_console_lock, lock_holder, lock_sema, console_lock_depth, serial_out, vga_out, panicker, level>>
  PROVE  ConsoleInv'
<1>1. ConsoleTypeOK' /\ PanicUnlocks' /\ PanicsLast'
  BY DEF ConsoleInv, ConsoleTypeOK, PanicUnlocks, PanicsLast, CallLists
<1>2. Own(calls')
  BY DEF ConsoleInv, Own
<1>3. Whole(serial_out', calls', panicker') /\ Whole(vga_out', calls', panicker')
  <2>1. Whole(serial_out, calls, panicker) /\ Whole(vga_out, calls, panicker)
    BY DEF ConsoleInv
  <2>2. \A d \in CThread : \A j \in 1 .. Len(calls'[d]) : \E i \in 1 .. Len(calls[d]) :
          calls'[d][j].msg = calls[d][i].msg
    OBVIOUS
  <2> QED
    BY <2>1, <2>2, Whole_Calls
<1>4. NotMixed(serial_out') /\ NotMixed(vga_out')
  BY DEF ConsoleInv
<1>5. ASSUME panicker' = NoOne
      PROVE  /\ LockCounts' /\ Ahead' /\ Behind' /\ Begun(calls', msgs')
             /\ Numbered(serial_out', msgs') /\ Numbered(vga_out', msgs')
             /\ Unprinted(serial_out', calls') /\ Unprinted(vga_out', calls')
  <2>1. /\ LockCounts /\ Ahead /\ Behind /\ Begun(calls, msgs) /\ Numbered(serial_out, msgs) /\ Numbered(vga_out, msgs)
        /\ Unprinted(serial_out, calls) /\ Unprinted(vga_out, calls) /\ msgs \in Nat
    BY <1>5 DEF ConsoleInv, ConsoleTypeOK
  <2>2. \A W : At(calls', W) = At(calls, W)
    BY DEF At
  <2>3. LockCounts'
    BY <2>1, <2>2 DEF LockCounts, Printing, Between
  <2>4. Ahead' /\ Behind'
    <3>1. Showing(calls') = Showing(calls) /\ \A p \in Showing(calls) : p[1] \in CThread
      BY <2>2 DEF Showing, At
    <3>2. \A p \in Showing(calls) : calls'[p[1]][p[2]] = calls[p[1]][p[2]]
      BY <3>1
    <3> QED
      BY <2>1, <3>1, <3>2, Devices_Keep
  <2>5. Numbered(serial_out', msgs') /\ Numbered(vga_out', msgs')
    BY <2>1 DEF Numbered
  <2>6. Unprinted(serial_out', calls') /\ Unprinted(vga_out', calls')
    BY <2>1, SMTT(60) DEF Unprinted
  <2>7. Begun(calls', msgs')
    BY <2>1, SMTT(60) DEF Begun
  <2> QED
    BY <2>3, <2>4, <2>5, <2>6, <2>7
<1> QED
  BY <1>1, <1>2, <1>3, <1>4, <1>5 DEF ConsoleInv

LEMMA Init_ConsoleInv == ConsoleInit => ConsoleInv
<1> SUFFICES ASSUME ConsoleInit PROVE ConsoleInv
  OBVIOUS
<1>1. ConsoleTypeOK /\ PanicUnlocks /\ PanicsLast
  BY ConsoleAssumption DEF ConsoleInit, ConsoleTypeOK, CallLists, Output, PanicUnlocks, PanicsLast, Context
<1>2. Len(serial_out) = 0 /\ Len(vga_out) = 0 /\ \A c \in Context : Len(calls[c]) = 0
  BY DEF ConsoleInit
<1>3. /\ Own(calls) /\ Lockless(calls) /\ NotMixed(serial_out) /\ NotMixed(vga_out)
      /\ Whole(serial_out, calls, panicker) /\ Whole(vga_out, calls, panicker)
  BY <1>2 DEF Own, Lockless, NotMixed, Whole, Context
<1>4. /\ Numbered(serial_out, msgs) /\ Numbered(vga_out, msgs) /\ Begun(calls, msgs)
      /\ Unprinted(serial_out, calls) /\ Unprinted(vga_out, calls)
  BY <1>2 DEF Numbered, Unprinted, Begun, Context
<1>5. \A W : At(calls, W) = {}
  BY <1>2 DEF At, Context
<1>6. Ahead /\ Behind
  BY SMTT(60), <1>2, <1>5, FS_EmptySet DEF Ahead, Behind, Missing, On, Showing
<1>7. LockCounts
  BY <1>5, FS_EmptySet DEF LockCounts, Printing, Between, ConsoleInit
<1> QED
  BY <1>1, <1>3, <1>4, <1>6, <1>7 DEF ConsoleInv

\* A new call is the last, and waits for the lock.
LEMMA Begin_ConsoleInv ==
  ASSUME ConsoleInv, NEW c \in CThread, begin(c)
  PROVE  ConsoleInv'
<1>1. /\ panicker = NoOne /\ level = 0 /\ msgs \in Nat /\ calls \in CallLists /\ c # Intr /\ c \in Context
      /\ LockCounts /\ Ahead /\ Behind /\ Begun(calls, msgs) /\ serial_out \in Output /\ vga_out \in Output
      /\ Numbered(serial_out, msgs) /\ Numbered(vga_out, msgs)
      /\ Unprinted(serial_out, calls) /\ Unprinted(vga_out, calls)
      /\ Whole(serial_out, calls, NoOne) /\ Whole(vga_out, calls, NoOne) /\ Own(calls)
  BY ConsoleAssumption DEF begin, ConsoleInv, ConsoleTypeOK, PanicUnlocks, Context
<1>2. PICK m \in Call : /\ m = message(c, "acquire") /\ m.msg = <<c, msgs + 1>> /\ m.at = "acquire"
                        /\ calls' = [calls EXCEPT ![c] = Append(@, m)]
  <2>1. message(c, "acquire") = [msg |-> <<c, msgs + 1>>, left |-> MSG_LEN, at |-> "acquire"]
    BY <1>1 DEF message
  <2>2. message(c, "acquire") \in Call
    BY <1>1, <2>1, ConsoleAssumption DEF Call
  <2>3. calls' = [calls EXCEPT ![c] = Append(@, message(c, "acquire"))]
    BY DEF begin
  <2> QED
    BY <2>1, <2>2, <2>3
<1>3. /\ UNCHANGED <<use_console_lock, lock_holder, lock_sema, console_lock_depth, serial_out, vga_out, panicker, level>>
      /\ msgs' = msgs + 1
  BY DEF begin
<1>4. /\ calls[c] \in Seq(Call) /\ calls'[c] = Append(calls[c], m) /\ calls' \in CallLists
      /\ \A d \in CThread : d # c => calls'[d] = calls[d]
  BY <1>1, <1>2, SMTT(60) DEF CallLists, Context
<1>5. /\ Len(calls[c]) \in Nat /\ Len(calls'[c]) = Len(calls[c]) + 1 /\ calls'[c][Len(calls[c]) + 1] = m
      /\ \A j \in 1 .. Len(calls[c]) : calls'[c][j] = calls[c][j]
  BY <1>4
<1>6. ConsoleTypeOK' /\ PanicUnlocks' /\ PanicsLast'
  BY <1>1, <1>3, <1>4, ConsoleAssumption, SMTT(60) DEF ConsoleInv, ConsoleTypeOK, PanicUnlocks, PanicsLast
<1>7. \A j \in 1 .. Len(calls'[c]) : \/ j \in 1 .. Len(calls[c]) /\ calls'[c][j] = calls[c][j]
                                     \/ j = Len(calls[c]) + 1 /\ calls'[c][j] = m
  BY <1>5
<1>8. Own(calls')
  BY <1>1, <1>2, <1>4, <1>7, SMTT(60) DEF Own
<1>9. \A out \in {serial_out, vga_out} : \A i \in 1 .. Len(out) : out[i].msg # m.msg
  BY <1>1, <1>2 DEF Numbered
<1>10. Whole(serial_out', calls', panicker') /\ Whole(vga_out', calls', panicker')
  <2>1. Whole(serial_out, [calls EXCEPT ![c] = Append(@, m)], NoOne)
    BY <1>1, <1>9, Whole_Push
  <2>2. Whole(vga_out, [calls EXCEPT ![c] = Append(@, m)], NoOne)
    BY <1>1, <1>9, Whole_Push
  <2> QED
    BY <1>1, <1>2, <1>3, <2>1, <2>2
<1>11. Numbered(serial_out', msgs') /\ Numbered(vga_out', msgs') /\ Begun(calls', msgs')
  <2>1. Numbered(serial_out', msgs') /\ Numbered(vga_out', msgs')
    BY <1>1, <1>3 DEF Numbered
  <2>2. ASSUME NEW d \in CThread, d # c, NEW j \in 1 .. Len(calls'[d])
        PROVE  /\ calls'[d][j].msg[2] \in 1 .. msgs'
               /\ \A k \in 1 .. Len(calls'[d]) : j # k => calls'[d][j].msg # calls'[d][k].msg
    BY SMTT(60), <1>1, <1>3, <1>4, <2>2 DEF Begun
  <2>3. ASSUME NEW j \in 1 .. Len(calls'[c])
        PROVE  /\ calls'[c][j].msg[2] \in 1 .. msgs'
               /\ \A k \in 1 .. Len(calls'[c]) : j # k => calls'[c][j].msg # calls'[c][k].msg
    <3>1. m.msg[2] = msgs + 1 /\ m.msg[2] \in 1 .. msgs'
      BY <1>1, <1>2, <1>3
    <3>2. \A k \in 1 .. Len(calls[c]) : /\ calls[c][k].msg[2] \in 1 .. msgs' /\ calls[c][k].msg # m.msg
                                        /\ \A i \in 1 .. Len(calls[c]) : i # k => calls[c][i].msg # calls[c][k].msg
      BY SMTT(60), <1>1, <1>3, <3>1 DEF Begun
    <3> QED
      BY <1>7, <3>1, <3>2
  <2>4. Begun(calls', msgs')
    BY <2>2, <2>3 DEF Begun
  <2> QED
    BY <2>1, <2>4
<1>12. Unprinted(serial_out', calls') /\ Unprinted(vga_out', calls')
  <2> SUFFICES ASSUME NEW out \in {serial_out, vga_out} PROVE Unprinted(out, calls')
    BY <1>3
  <2>1. Unprinted(out, calls)
    BY <1>1
  <2> SUFFICES ASSUME NEW d \in CThread, NEW j \in 1 .. Len(calls'[d]), calls'[d][j].at = "acquire"
               PROVE  \A i \in 1 .. Len(out) : out[i].msg # calls'[d][j].msg
    BY DEF Unprinted
  <2>2. CASE d # c
    BY <1>4, <2>1, <2>2 DEF Unprinted
  <2>3. CASE d = c
    BY <1>7, <1>9, <2>1, <2>3 DEF Unprinted
  <2> QED
    BY <2>2, <2>3
<1>13. ASSUME NEW W, "acquire" \notin W
       PROVE  At(calls', W) = At(calls, W)
  <2> SUFFICES ASSUME NEW d \in CThread, NEW j \in Nat
               PROVE  j \in 1 .. Len(calls'[d]) /\ calls'[d][j].at \in W <=> j \in 1 .. Len(calls[d]) /\ calls[d][j].at \in W
    BY SMTT(60) DEF At
  <2>1. CASE d # c
    BY <1>4, <2>1
  <2>2. CASE d = c
    <3>1. j \in 1 .. Len(calls[c]) => j \in 1 .. Len(calls'[c]) /\ calls'[c][j] = calls[c][j]
      BY <1>5
    <3> QED
      BY <1>2, <1>7, <1>13, <2>2, <3>1
  <2> QED
    BY <2>1, <2>2
<1>14. Ahead' /\ Behind'
  <2>1. Showing(calls') = Showing(calls)
    BY <1>13 DEF Showing
  <2>2. ASSUME NEW p \in Showing(calls)
        PROVE  calls'[p[1]][p[2]] = calls[p[1]][p[2]]
    <3>1. p[1] \in CThread /\ p[2] \in 1 .. Len(calls[p[1]])
      BY DEF Showing, At
    <3> QED
      BY SMTT(60), <1>4, <1>5, <3>1
  <2> QED
    BY <1>1, <1>3, <2>1, <2>2, Devices_Keep
<1>15. LockCounts'
  <2>1. Printing(calls') = Printing(calls) /\ Between(calls') = Between(calls) /\ At(calls', {"end"}) = At(calls, {"end"})
    BY <1>13 DEF Printing, Between
  <2> QED
    BY <1>1, <1>3, <2>1 DEF LockCounts
<1>16. Lockless(calls')
  BY <1>1, <1>2 DEF ConsoleInv, Lockless, CallLists, Context
<1> QED
  BY <1>1, <1>3, <1>6, <1>8, <1>10, <1>11, <1>12, <1>14, <1>15, <1>16 DEF ConsoleInv

\* A call that moves on is the same call.
LEMMA Moved_Keeps ==
  ASSUME ConsoleInv, NEW c \in CThread, NEW w \in Place, w # "acquire", Moved(c, w),
         UNCHANGED <<use_console_lock, msgs, panicker, level>>
  PROVE  /\ PanicUnlocks' /\ PanicsLast' /\ Own(calls')
         /\ Lockless(calls') /\ (panicker = NoOne => Begun(calls', msgs))
         /\ \A out \in {serial_out, vga_out} :
              /\ Whole(out, calls', panicker)
              /\ panicker = NoOne => Unprinted(out, calls')
<1>1. c \in Context /\ calls \in CallLists /\ \A d \in CThread : d \in Context
  BY DEF Context, ConsoleInv, ConsoleTypeOK
<1>2. /\ \A d \in CThread : d # c => calls'[d] = calls[d]
      /\ Len(calls'[c]) = Len(calls[c]) /\ Len(calls[c]) \in Nat /\ Len(calls[c]) > 0
      /\ \A j \in 1 .. Len(calls[c]) : calls'[c][j].msg = calls[c][j].msg
  BY <1>1 DEF Moved
<1>3. \A j \in 1 .. Len(calls[c]) : calls'[c][j].at = "acquire" => calls[c][j].at = "acquire"
  BY DEF Moved
<1>4. Own(calls') /\ (panicker = NoOne => Begun(calls', msgs))
  <2>1. Own(calls')
    BY <1>2, SMTT(60) DEF ConsoleInv, Own
  <2>2. ASSUME panicker = NoOne
        PROVE  Begun(calls', msgs)
    <3>1. Begun(calls, msgs)
      BY <2>2 DEF ConsoleInv
    <3> QED
      BY <1>2, <3>1, SMTT(60) DEF Begun
  <2> QED
    BY <2>1, <2>2
<1>5. PanicUnlocks'
  BY DEF ConsoleInv, PanicUnlocks
<1>6. PanicsLast'
  <2>1. Len(calls[c]) \in 1 .. Len(calls[c])
    BY <1>2
  <2> QED
    BY <1>2, <2>1 DEF ConsoleInv, PanicsLast
<1>7. ASSUME NEW out \in {serial_out, vga_out}
      PROVE  Whole(out, calls', panicker)
  <2>1. Whole(out, calls, panicker)
    BY DEF ConsoleInv
  <2>2. \A d \in CThread : \A j \in 1 .. Len(calls'[d]) : \E i \in 1 .. Len(calls[d]) :
          calls'[d][j].msg = calls[d][i].msg
    BY <1>2
  <2> QED
    BY <2>1, <2>2, Whole_Calls, SMTT(60)
<1>8. ASSUME NEW out \in {serial_out, vga_out}, panicker = NoOne
      PROVE  Unprinted(out, calls')
  <2>1. Unprinted(out, calls)
    BY <1>8 DEF ConsoleInv
  <2> SUFFICES ASSUME NEW d \in CThread, NEW j \in 1 .. Len(calls'[d]), calls'[d][j].at = "acquire"
               PROVE  \A i \in 1 .. Len(out) : out[i].msg # calls'[d][j].msg
    BY DEF Unprinted
  <2>2. CASE d # c
    BY <1>2, <2>1, <2>2 DEF Unprinted
  <2>3. CASE d = c
    BY <1>2, <1>3, <2>1, <2>3, SMTT(60) DEF Unprinted
  <2> QED
    BY <2>2, <2>3
<1>9. Lockless(calls')
  BY ConsoleAssumption DEF ConsoleInv, Lockless, Moved, Context
<1> QED
  BY <1>4, <1>5, <1>6, <1>7, <1>8, <1>9

\* Nor does it show anything if it is at neither end of vga_putc().
LEMMA Moved_Devices ==
  ASSUME Ahead, Behind, NEW c \in CThread, NEW w \in Place, Moved(c, w),
         w # "vga_putc", calls[c][Len(calls[c])].at # "vga_putc", UNCHANGED <<serial_out, vga_out>>
  PROVE  Ahead' /\ Behind'
<1>1. PICK q : q = <<c, Len(calls[c])>>
  OBVIOUS
<1>2. Showing(calls') = Showing(calls) /\ q \notin Showing(calls)
  <2>1. w \notin {"vga_putc"} /\ calls[c][Len(calls[c])].at \notin {"vga_putc"}
    OBVIOUS
  <2>2. Showing(calls') = Showing(calls) \ {q} /\ q \notin Showing(calls)
    BY <1>1, <2>1, Showing_Moved
  <2> QED
    BY <2>2
<1>3. ASSUME NEW p \in Showing(calls)
      PROVE  calls'[p[1]][p[2]] = calls[p[1]][p[2]]
  <2>1. PICK d \in CThread, j \in Nat : p = <<d, j>> /\ j \in 1 .. Len(calls[d])
    BY SMTT(60) DEF Showing, At
  <2>2. d # c \/ j # Len(calls[c])
    BY <1>1, <1>2, <2>1
  <2> QED
    BY <2>1, <2>2 DEF Moved, Context
<1> QED
  BY <1>2, <1>3, Devices_Keep

\* When a call returns, the others are as they were.
LEMMA Popped_Keeps ==
  ASSUME ConsoleInv, NEW c \in CThread, Popped(c), panicker = NoOne, calls[c][Len(calls[c])].at # "vga_putc",
         UNCHANGED <<use_console_lock, msgs, serial_out, vga_out, panicker, level>>,
         LockCounts', lock_holder' \in CThread \cup {NoOne}, lock_sema' \in Nat, console_lock_depth' \in Nat
  PROVE  ConsoleInv'
<1>1. /\ Ahead /\ Behind /\ Begun(calls, msgs) /\ Numbered(serial_out, msgs) /\ Numbered(vga_out, msgs)
      /\ Unprinted(serial_out, calls) /\ Unprinted(vga_out, calls) /\ c \in Context
  BY DEF ConsoleInv, Context
<1>2. \A d \in CThread : \A j \in 1 .. Len(calls'[d]) : j \in 1 .. Len(calls[d]) /\ calls'[d][j] = calls[d][j]
  BY DEF Popped, Context
<1>3. ConsoleTypeOK' /\ PanicUnlocks' /\ PanicsLast'
  BY ConsoleAssumption DEF ConsoleInv, ConsoleTypeOK, PanicUnlocks, PanicsLast, Popped
<1>4. Own(calls') /\ Begun(calls', msgs) /\ Unprinted(serial_out, calls') /\ Unprinted(vga_out, calls')
  <2>1. Own(calls') /\ Begun(calls', msgs)
    BY <1>1, <1>2, SMTT(60) DEF ConsoleInv, Own, Begun
  <2>2. ASSUME NEW out, Unprinted(out, calls)
        PROVE  Unprinted(out, calls')
    BY SMTT(60), <1>2, <2>2, Unprinted_Calls
  <2>3. Unprinted(serial_out, calls') /\ Unprinted(vga_out, calls')
    BY <1>1, <2>2
  <2> QED
    BY <2>1, <2>3
<1>5. Whole(serial_out, calls', panicker) /\ Whole(vga_out, calls', panicker)
  BY <1>2, Whole_Calls, SMTT(60) DEF ConsoleInv
<1>6. Ahead' /\ Behind'
  <2>1. PICK n : n = Len(calls[c])
    OBVIOUS
  <2>2. Showing(calls') = Showing(calls)
    <3>1. /\ At(calls', {"vga_putc"}) = At(calls, {"vga_putc"}) \ {<<c, n>>}
          /\ <<c, n>> \notin At(calls, {"vga_putc"})
      BY <2>1, At_Popped
    <3> QED
      BY <3>1 DEF Showing
  <2>3. ASSUME NEW p \in Showing(calls)
        PROVE  calls'[p[1]][p[2]] = calls[p[1]][p[2]]
    <3>1. p[1] \in CThread /\ p[2] \in 1 .. Len(calls'[p[1]])
      BY <2>2 DEF Showing, At
    <3> QED
      BY <1>2, <3>1
  <2> QED
    BY <1>1, <2>2, <2>3, Devices_Keep
<1>7. Lockless(calls')
  BY ConsoleAssumption DEF ConsoleInv, Lockless, Popped, Context
<1> QED
  BY <1>1, <1>3, <1>4, <1>5, <1>6, <1>7 DEF ConsoleInv

\* A call that goes on without printing.
LEMMA Step_ConsoleInv ==
  ASSUME ConsoleInv, NEW c \in CThread, NEW w \in Place \ {"acquire", "vga_putc"}, Moved(c, w),
         calls[c][Len(calls[c])].at # "vga_putc",
         UNCHANGED <<use_console_lock, msgs, serial_out, vga_out, panicker, level>>,
         lock_holder' \in CThread \cup {NoOne}, lock_sema' \in Nat, console_lock_depth' \in Nat,
         panicker = NoOne => LockCounts'
  PROVE  ConsoleInv'
<1>1. w \in Place /\ w # "acquire" /\ w # "vga_putc"
  OBVIOUS
<1>2. /\ PanicUnlocks' /\ PanicsLast' /\ Own(calls') /\ Lockless(calls') /\ (panicker = NoOne => Begun(calls', msgs))
      /\ \A out \in {serial_out, vga_out} : /\ Whole(out, calls', panicker)
                                            /\ panicker = NoOne => Unprinted(out, calls')
  BY <1>1, Moved_Keeps
<1>3. ConsoleTypeOK'
  BY DEF ConsoleInv, ConsoleTypeOK, Moved
<1>4. ASSUME panicker = NoOne
      PROVE  Ahead' /\ Behind'
  BY <1>1, <1>4, Moved_Devices DEF ConsoleInv
<1> QED
  BY <1>2, <1>3, <1>4 DEF ConsoleInv

LEMMA Acquire_ConsoleInv ==
  ASSUME ConsoleInv, NEW c \in CThread, acquire_console(c)
  PROVE  ConsoleInv'
<1>1. c # Intr /\ c \in Context /\ calls \in CallLists /\ panicker \in {NoOne, c} /\ calls[c] # <<>>
      /\ calls[c][Len(calls[c])].at = "acquire"
  BY ConsoleAssumption DEF acquire_console, runs, inside, top, ConsoleInv, ConsoleTypeOK, Context
<1>2. UNCHANGED <<use_console_lock, msgs, serial_out, vga_out, panicker, level, lock_holder>>
  BY DEF acquire_console
<1>3. /\ lock_holder' \in CThread \cup {NoOne} /\ lock_sema \in Nat /\ lock_sema' \in Nat
      /\ console_lock_depth \in Nat /\ console_lock_depth' \in Nat
  BY DEF acquire_console, ConsoleInv, ConsoleTypeOK
<1>4. PICK w \in {"holder", "putchar"} : goto_call(c, w)
  BY DEF acquire_console
<1>5. w \in Place /\ w \in Place \ {"acquire", "vga_putc"} /\ Moved(c, w)
  BY <1>1, <1>4, Goto_Call DEF Place
<1>6. ASSUME panicker = NoOne
      PROVE  LockCounts'
  <2>1. LockCounts /\ use_console_lock
    BY <1>6 DEF ConsoleInv, PanicUnlocks
  <2>2. PICK p : p = <<c, Len(calls[c])>>
    OBVIOUS
  <2>3. /\ p \notin Printing(calls) /\ p \notin Between(calls) /\ p[1] = c
        /\ At(calls', {"end"}) = At(calls, {"end"}) \ {p}
    <3>1. p \notin Printing(calls)
      BY <1>1, <1>5, <2>2, Printing_Moved
    <3>2. p \notin Between(calls)
      BY <1>1, <1>5, <2>2, Between_Moved
    <3>3. At(calls', {"end"}) = At(calls, {"end"}) \ {p}
      <4>1. w \notin {"end"}
        BY <1>4
      <4> QED
        BY <1>5, <2>2, <4>1, Ended_Moved
    <3> QED
      BY <2>2, <3>1, <3>2, <3>3
  <2>4. CASE lock_holder = c
    <3>1. console_lock_depth' = console_lock_depth + 1 /\ lock_sema' = lock_sema /\ Moved(c, "putchar")
      BY <1>1, <2>1, <2>4, Goto_Call DEF acquire_console, recursive, Place
    <3>2. Printing(calls') = Printing(calls) \cup {p} /\ Between(calls') = Between(calls) \ {p}
      BY <2>2, <3>1, Printing_Moved, Between_Moved DEF Place
    <3>3. IsFiniteSet(Printing(calls')) /\ Cardinality(Printing(calls')) = Cardinality(Printing(calls)) + 1
      BY SMTT(60), <2>1, <2>3, <3>2, FS_AddElement DEF LockCounts
    <3> QED
      BY <1>2, <1>3, <2>1, <2>3, <2>4, <3>1, <3>2, <3>3, ConsoleAssumption DEF LockCounts
  <2>5. CASE lock_holder # c
    <3>1. console_lock_depth' = console_lock_depth /\ lock_sema' = lock_sema - 1 /\ lock_sema > 0 /\ Moved(c, "holder")
      BY <1>1, <2>1, <2>5, Goto_Call DEF acquire_console, recursive, Place
    <3>2. Printing(calls') = Printing(calls) \ {p} /\ Between(calls') = Between(calls) \cup {p}
      BY <2>2, <3>1, Printing_Moved, Between_Moved DEF Place
    <3>3. lock_holder = NoOne /\ Between(calls) = {} /\ lock_sema' = 0
      BY <1>3, <2>1, <3>1 DEF LockCounts
    <3> QED
      BY <1>2, <2>1, <2>3, <3>1, <3>2, <3>3, FS_EmptySet DEF LockCounts
  <2> QED
    BY <2>4, <2>5
<1> QED
  BY <1>1, <1>2, <1>3, <1>5, <1>6, Step_ConsoleInv

\* The thread that got the semaphore becomes the holder.
LEMMA Acquired_ConsoleInv ==
  ASSUME ConsoleInv, NEW c \in CThread, lock_acquired(c)
  PROVE  ConsoleInv'
<1>1. c \in Context /\ calls \in CallLists /\ calls[c] # <<>> /\ calls[c][Len(calls[c])].at = "holder"
  BY DEF lock_acquired, inside, top, ConsoleInv, ConsoleTypeOK, Context
<1>2. /\ UNCHANGED <<use_console_lock, msgs, serial_out, vga_out, panicker, level, lock_sema, console_lock_depth>>
      /\ lock_holder' = c
  BY DEF lock_acquired
<1>3. lock_holder' \in CThread \cup {NoOne} /\ lock_sema' \in Nat /\ console_lock_depth' \in Nat
  BY <1>2 DEF ConsoleInv, ConsoleTypeOK
<1>4. "putchar" \in Place \ {"acquire", "vga_putc"} /\ Moved(c, "putchar")
  BY <1>1, Goto_Call DEF lock_acquired, Place
<1>5. ASSUME panicker = NoOne
      PROVE  LockCounts'
  <2>1. LockCounts
    BY <1>5 DEF ConsoleInv
  <2>2. PICK p : p = <<c, Len(calls[c])>>
    OBVIOUS
  <2>3. /\ p \in Between(calls) /\ p[1] = c /\ At(calls', {"end"}) = At(calls, {"end"}) \ {p}
        /\ Printing(calls') = Printing(calls) \cup {p} /\ Between(calls') = Between(calls) \ {p}
    <3>1. p \in Between(calls) /\ Between(calls') = Between(calls) \ {p}
      BY <1>1, <1>4, <2>2, Between_Moved
    <3>2. Printing(calls') = Printing(calls) \cup {p}
      BY <1>4, <2>2, Printing_Moved
    <3>3. At(calls', {"end"}) = At(calls, {"end"}) \ {p}
      BY <1>4, <2>2, Ended_Moved
    <3> QED
      BY <2>2, <3>1, <3>2, <3>3
  <2>4. lock_holder = NoOne /\ Between(calls) = {p} /\ lock_sema = 0 /\ Printing(calls) = {} /\ console_lock_depth = 0
    BY <2>1, <2>3 DEF LockCounts
  <2>5. Printing(calls') = {p} /\ Between(calls') = {}
    BY <2>3, <2>4
  <2>6. IsFiniteSet({p}) /\ Cardinality({p}) = 1
    BY FS_Singleton
  <2> QED
    BY SMTT(60), <1>2, <2>1, <2>3, <2>4, <2>5, <2>6, ConsoleAssumption DEF LockCounts
<1> QED
  BY <1>1, <1>2, <1>3, <1>4, <1>5, Step_ConsoleInv

\* Until a panic, a thread that puts characters has the lock, and the others are
\* all in acquire_console().
LEMMA Printer_Locked ==
  ASSUME LockCounts, calls \in CallLists, NEW c \in CThread, Len(calls[c]) \in Nat, Len(calls[c]) > 0,
         calls[c][Len(calls[c])].at \in {"putchar", "vga_putc"}
  PROVE  /\ lock_holder = c /\ Between(calls) = {} /\ lock_holder # NoOne
         /\ \A p \in Showing(calls) : p[1] = c
         /\ \A d \in CThread \ {c} : \A j \in 1 .. Len(calls[d]) : calls[d][j].at = "acquire"
<1>1. lock_holder = c
  <2>1. <<c, Len(calls[c])>> \in Printing(calls)
    BY DEF Printing, At
  <2> QED
    BY <2>1 DEF LockCounts
<1>2. lock_holder # NoOne /\ Between(calls) = {}
  BY <1>1, ConsoleAssumption DEF LockCounts
<1>3. \A p \in Showing(calls) : p \in Printing(calls)
  BY DEF Showing, Printing, At
<1>4. ASSUME NEW d \in CThread \ {c}, NEW j \in 1 .. Len(calls[d])
      PROVE  calls[d][j].at = "acquire"
  <2>1. d \in CThread /\ calls[d] \in Seq(Call)
    BY DEF CallLists, Context
  <2>2. j \in Nat /\ calls[d][j] \in Call
    BY <2>1
  <2>3. PICK q \in CThread \X Nat : q = <<d, j>>
    BY <2>1, <2>2
  <2> q[1] = d /\ q[2] = j
    BY <2>3
  <2>4. q \notin Printing(calls) /\ q \notin Between(calls) /\ q \notin At(calls, {"end"})
    BY <1>1, <1>2, <2>3 DEF LockCounts
  <2>5. calls[d][j].at \notin {"putchar", "vga_putc"} /\ calls[d][j].at \notin {"holder", "sema_up"}
        /\ calls[d][j].at \notin {"end"}
    BY <2>3, <2>4 DEF Printing, Between, At
  <2> QED
    BY <2>2, <2>5 DEF Call
<1> QED
  BY <1>1, <1>2, <1>3, <1>4 DEF LockCounts

\* A character of C's innermost call on a device.
LEMMA Print_Whole ==
  ASSUME ConsoleInv, NEW c \in CThread, NEW w \in Place, w \in {"putchar", "vga_putc"}, Moved(c, w),
         UNCHANGED <<use_console_lock, msgs, panicker, level>>, panicker \in {NoOne, c},
         calls[c][Len(calls[c])].at \in {"putchar", "vga_putc"},
         NEW out \in {serial_out, vga_out}, NEW m, m = char(calls[c][Len(calls[c])])
  PROVE  /\ m \in Char /\ m.msg[1] = c /\ NotMixed(Append(out, m)) /\ Whole(Append(out, m), calls', panicker)
         /\ panicker = NoOne => Numbered(Append(out, m), msgs) /\ Unprinted(Append(out, m), calls')
<1>1. /\ calls \in CallLists /\ calls' \in CallLists /\ out \in Output /\ c \in Context /\ msgs \in Nat
      /\ Own(calls) /\ NotMixed(out) /\ Whole(out, calls, panicker)
  BY DEF Moved, ConsoleInv, ConsoleTypeOK, Context
<1>2. /\ Own(calls') /\ Whole(out, calls', panicker)
      /\ panicker = NoOne => Unprinted(out, calls') /\ Begun(calls', msgs)
  BY Moved_Keeps
<1>3. /\ Len(calls[c]) \in Nat /\ Len(calls[c]) \in 1 .. Len(calls[c]) /\ Len(calls'[c]) = Len(calls[c])
      /\ \A d \in CThread : d # c => calls'[d] = calls[d]
      /\ calls'[c][Len(calls[c])].msg = calls[c][Len(calls[c])].msg
  BY DEF Moved, Context
<1>4. m.msg[1] = c /\ m \in Char /\ m.msg = calls[c][Len(calls[c])].msg
  <2>1. calls[c] \in Seq(Call)
    BY <1>1 DEF CallLists
  <2>2. calls[c][Len(calls[c])] \in Call
    BY <1>3, <2>1
  <2>3. m.msg = calls[c][Len(calls[c])].msg /\ m.msg \in Context \X Nat
    BY <2>2 DEF char, Call
  <2>4. m.msg[1] = c
    BY <1>1, <1>3, <2>3 DEF Own
  <2>5. m.msg \in CThread \X Nat
    BY <2>3, <2>4
  <2> QED
    BY <2>2, <2>3, <2>4, <2>5 DEF char, Call, Char
<1>5. NotMixed(Append(out, m))
  BY <1>1, <1>3, <1>4, NotMixed_Print
<1>6. panicker = NoOne => \A d \in CThread \ {c} : \A j \in 1 .. Len(calls'[d]) : calls'[d][j].at = "acquire"
  BY <1>1, <1>3, Printer_Locked, SMTT(60) DEF ConsoleInv
<1>7. Whole(Append(out, m), calls', panicker)
  BY <1>1, <1>2, <1>4, <1>6, Whole_Print
<1>8. ASSUME panicker = NoOne
      PROVE  Numbered(Append(out, m), msgs)
  <2>1. m.msg[2] \in 1 .. msgs /\ Numbered(out, msgs)
    BY <1>3, <1>4, <1>8 DEF ConsoleInv, Begun
  <2> QED
    BY <1>1, <1>4, <2>1, SMTT(60) DEF Numbered, Output
<1>9. ASSUME panicker = NoOne
      PROVE  Unprinted(Append(out, m), calls')
  <2>1. \A i \in 1 .. Len(Append(out, m)) : Append(out, m)[i] = m \/ (i \in 1 .. Len(out) /\ Append(out, m)[i] = out[i])
    BY <1>1, <1>4 DEF Output
  <2> SUFFICES ASSUME NEW d \in CThread, NEW j \in 1 .. Len(calls'[d]), calls'[d][j].at = "acquire",
                      NEW i \in 1 .. Len(Append(out, m))
               PROVE  Append(out, m)[i].msg # calls'[d][j].msg
    BY DEF Unprinted
  <2>2. \A k \in 1 .. Len(out) : out[k].msg # calls'[d][j].msg
    BY <1>2, <1>9 DEF Unprinted
  <2>3. m.msg # calls'[d][j].msg
    <3>1. CASE d # c
      BY <1>2, <1>4, <3>1 DEF Own
    <3>2. CASE d = c
      <4>1. j # Len(calls[c])
        BY <3>2 DEF Moved
      <4>2. Begun(calls', msgs) /\ Len(calls[c]) \in 1 .. Len(calls'[c])
        BY <1>2, <1>3, <1>9
      <4> QED
        BY SMTT(60), <1>3, <1>4, <3>2, <4>1, <4>2 DEF Begun
    <3> QED
      BY <3>1, <3>2
  <2> QED
    BY <2>1, <2>2, <2>3
<1> QED
  BY <1>4, <1>5, <1>7, <1>8, <1>9

\* Between putting characters, the lock stays as it is.
LEMMA Print_Lock ==
  ASSUME LockCounts, calls \in CallLists, NEW c \in CThread, NEW w \in Place, w \in {"putchar", "vga_putc"}, Moved(c, w),
         calls[c][Len(calls[c])].at \in {"putchar", "vga_putc"},
         UNCHANGED <<lock_holder, lock_sema, console_lock_depth>>
  PROVE  LockCounts'
<1>1. PICK p : p = <<c, Len(calls[c])>>
  OBVIOUS
<1>2. Printing(calls') = Printing(calls)
  <2>1. Printing(calls') = Printing(calls) \cup {p} /\ p \in Printing(calls)
    BY <1>1, Printing_Moved
  <2> QED
    BY <2>1
<1>3. Between(calls') = Between(calls)
  <2>1. w \notin {"holder", "sema_up"} /\ calls[c][Len(calls[c])].at \notin {"holder", "sema_up"}
    OBVIOUS
  <2>2. Between(calls') = Between(calls) \ {p} /\ p \notin Between(calls)
    BY <1>1, <2>1, Between_Moved
  <2> QED
    BY <2>2
<1>4. At(calls', {"end"}) = {}
  <2>1. w \notin {"end"}
    OBVIOUS
  <2>2. At(calls', {"end"}) = At(calls, {"end"}) \ {p}
    BY <1>1, <2>1, Ended_Moved
  <2> QED
    BY <2>2 DEF LockCounts
<1> QED
  BY <1>2, <1>3, <1>4 DEF LockCounts

\* An output with one more character.
LEMMA On_Append ==
  ASSUME NEW out \in Output, NEW m \in Char, NEW x
  PROVE  On(Append(out, m), x) <=> On(out, x) \/ x = m
<1>1. /\ Len(out) \in Nat /\ Len(Append(out, m)) = Len(out) + 1 /\ Append(out, m)[Len(out) + 1] = m
      /\ \A i \in 1 .. Len(out) : Append(out, m)[i] = out[i]
  BY DEF Output
<1> QED
  BY <1>1 DEF On

LEMMA Serial_ConsoleInv ==
  ASSUME ConsoleInv, NEW c \in CThread, serial_putc(c)
  PROVE  ConsoleInv'
<1>1. c # Intr /\ c \in Context /\ calls \in CallLists /\ panicker \in {NoOne, c} /\ calls[c] # <<>>
      /\ calls[c][Len(calls[c])].at = "putchar" /\ serial_out \in Output /\ vga_out \in Output
  BY ConsoleAssumption DEF serial_putc, runs, inside, top, ConsoleInv, ConsoleTypeOK, Context
<1>2. /\ UNCHANGED <<use_console_lock, lock_holder, lock_sema, console_lock_depth, msgs, vga_out, panicker, level>>
      /\ goto_call(c, "vga_putc") /\ "vga_putc" \in Place
  BY DEF serial_putc, Place
<1>3. PICK m : m = char(calls[c][Len(calls[c])]) /\ serial_out' = Append(serial_out, m)
  BY <1>1 DEF serial_putc, with_char, top
<1>4. Moved(c, "vga_putc") /\ calls'[c][Len(calls[c])].left = calls[c][Len(calls[c])].left
  BY <1>1, <1>2, Goto_Call
<1>5. /\ PanicUnlocks' /\ PanicsLast' /\ Own(calls') /\ Lockless(calls') /\ (panicker = NoOne => Begun(calls', msgs))
      /\ Whole(vga_out, calls', panicker) /\ (panicker = NoOne => Unprinted(vga_out, calls'))
  BY <1>2, <1>4, Moved_Keeps
<1>6. /\ m \in Char /\ m.msg[1] = c /\ NotMixed(serial_out') /\ Whole(serial_out', calls', panicker)
      /\ panicker = NoOne => Numbered(serial_out', msgs) /\ Unprinted(serial_out', calls')
  BY <1>1, <1>2, <1>3, <1>4, Print_Whole
<1>7. ConsoleTypeOK'
  <2>1. serial_out' \in Output
    BY <1>1, <1>3, <1>6 DEF Output
  <2> QED
    BY <1>2, <1>4, <2>1 DEF ConsoleInv, ConsoleTypeOK, Moved
<1>8. panicker = NoOne => LockCounts'
  BY <1>1, <1>2, <1>4, Print_Lock DEF ConsoleInv
<1>9. ASSUME panicker = NoOne
      PROVE  Ahead' /\ Behind'
  <2>1. Ahead /\ Behind /\ LockCounts /\ \A p \in Showing(calls) : p[1] = c
    BY <1>1, <1>4, <1>9, Printer_Locked DEF ConsoleInv, Moved
  <2>2. PICK q : q = <<c, Len(calls[c])>>
    OBVIOUS
  <2> q[1] = c /\ q[2] = Len(calls[c])
    BY <2>2
  <2>3. Showing(calls') = Showing(calls) \cup {q} /\ q \notin Showing(calls)
    BY <1>1, <1>2, <1>4, <2>2, Showing_Moved
  <2>4. /\ Len(serial_out) \in Nat /\ Len(vga_out) \in Nat /\ Len(serial_out') = Len(serial_out) + 1
        /\ serial_out'[Len(serial_out) + 1] = m /\ \A i \in 1 .. Len(serial_out) : serial_out'[i] = serial_out[i]
    BY <1>1, <1>3, <1>6 DEF Output
  <2>5. /\ IsFiniteSet(Showing(calls')) /\ Cardinality(Showing(calls')) = Cardinality(Showing(calls)) + 1
        /\ Cardinality(Showing(calls)) \in Nat
    BY SMTT(60), <2>1, <2>3, FS_AddElement, FS_CardinalityType DEF Ahead
  <2>6. ASSUME NEW i \in Len(vga_out) + 1 .. Len(serial_out')
        PROVE  serial_out'[i].msg[1] = c
    <3>1. CASE i = Len(serial_out) + 1
      BY <1>6, <2>4, <3>1
    <3>2. CASE i # Len(serial_out) + 1
      <4>1. i \in Len(vga_out) + 1 .. Len(serial_out) /\ i \in 1 .. Len(serial_out)
        BY SMTT(60), <2>4, <3>2
      <4>2. Cardinality(Showing(calls)) # 0
        BY <2>1, <2>4, <2>5, <4>1 DEF Ahead
      <4>3. PICK p : p \in Showing(calls)
        BY <4>2, FS_EmptySet
      <4> QED
        BY SMTT(60), <2>1, <2>4, <4>1, <4>3 DEF Ahead
    <3> QED
      BY <3>1, <3>2
  <2>7. Ahead'
    <3>1. Len(serial_out') = Len(vga_out) + Cardinality(Showing(calls'))
      BY SMTT(60), <2>1, <2>4, <2>5 DEF Ahead
    <3>2. \A i \in 1 .. Len(vga_out) : i \in 1 .. Len(serial_out)
      BY SMTT(60), <2>1, <2>4, <2>5 DEF Ahead
    <3>3. \A i \in 1 .. Len(vga_out) : vga_out[i].msg[1] = serial_out'[i].msg[1]
      BY SMTT(60), <2>1, <2>4, <3>2 DEF Ahead
    <3>4. \A p \in Showing(calls') : p[1] = c
      BY <2>1, <2>2, <2>3
    <3> QED
      BY <1>2, <2>5, <2>6, <3>1, <3>3, <3>4 DEF Ahead
  <2>8. Behind'
    <3> SUFFICES ASSUME NEW x PROVE On(serial_out', x) <=> On(vga_out, x) \/ Missing(calls', x)
      BY <1>2 DEF Behind
    <3>1. On(serial_out', x) <=> On(serial_out, x) \/ x = m
      BY <1>1, <1>3, <1>6, On_Append
    <3>2. On(serial_out, x) <=> On(vga_out, x) \/ Missing(calls, x)
      BY <2>1 DEF Behind
    <3>3. char(calls'[q[1]][q[2]]) = m
      BY <1>3, <1>4, <2>2 DEF char, Moved
    <3>4. ASSUME NEW p \in Showing(calls)
          PROVE  calls'[p[1]][p[2]] = calls[p[1]][p[2]]
      <4>1. PICK j \in Nat : p = <<c, j>> /\ j \in 1 .. Len(calls[c])
        BY SMTT(60), <2>1 DEF Showing, At
      <4>2. j # Len(calls[c])
        BY <2>2, <2>3, <4>1
      <4> QED
        BY <1>4, <4>1, <4>2 DEF Moved
    <3>5. Missing(calls', x) <=> Missing(calls, x) \/ x = m
      BY <2>3, <3>3, <3>4 DEF Missing
    <3> QED
      BY <3>1, <3>2, <3>5
  <2> QED
    BY <2>7, <2>8
<1> QED
  BY <1>2, <1>5, <1>6, <1>7, <1>8, <1>9 DEF ConsoleInv

LEMMA Vga_ConsoleInv ==
  ASSUME ConsoleInv, NEW c \in CThread, vga_putc(c)
  PROVE  ConsoleInv'
<1>1. c # Intr /\ c \in Context /\ calls \in CallLists /\ panicker \in {NoOne, c} /\ calls[c] # <<>>
      /\ calls[c][Len(calls[c])].at = "vga_putc" /\ serial_out \in Output /\ vga_out \in Output
  BY ConsoleAssumption DEF vga_putc, runs, inside, top, ConsoleInv, ConsoleTypeOK, Context
<1>2. /\ UNCHANGED <<use_console_lock, lock_holder, lock_sema, console_lock_depth, msgs, serial_out, panicker, level>>
      /\ "putchar" \in Place
  BY DEF vga_putc, Place
<1>3. PICK m : m = char(calls[c][Len(calls[c])]) /\ vga_out' = Append(vga_out, m)
  BY <1>1 DEF vga_putc, with_char, top
<1>4. Moved(c, "putchar")
  BY <1>1, Vga_Moved
<1>5. /\ PanicUnlocks' /\ PanicsLast' /\ Own(calls') /\ Lockless(calls') /\ (panicker = NoOne => Begun(calls', msgs))
      /\ Whole(serial_out, calls', panicker) /\ (panicker = NoOne => Unprinted(serial_out, calls'))
  BY <1>2, <1>4, Moved_Keeps
<1>6. /\ m \in Char /\ m.msg[1] = c /\ NotMixed(vga_out') /\ Whole(vga_out', calls', panicker)
      /\ panicker = NoOne => Numbered(vga_out', msgs) /\ Unprinted(vga_out', calls')
  BY <1>1, <1>2, <1>3, <1>4, Print_Whole
<1>7. ConsoleTypeOK'
  <2>1. vga_out' \in Output
    BY <1>1, <1>3, <1>6 DEF Output
  <2> QED
    BY <1>2, <1>4, <2>1 DEF ConsoleInv, ConsoleTypeOK, Moved
<1>8. panicker = NoOne => LockCounts'
  BY <1>1, <1>2, <1>4, Print_Lock DEF ConsoleInv
<1>9. ASSUME panicker = NoOne
      PROVE  Ahead' /\ Behind'
  <2>1. Ahead /\ Behind /\ LockCounts /\ \A p \in Showing(calls) : p[1] = c
    BY <1>1, <1>4, <1>9, Printer_Locked DEF ConsoleInv, Moved
  <2>2. PICK q : q = <<c, Len(calls[c])>>
    OBVIOUS
  <2> q[1] = c /\ q[2] = Len(calls[c])
    BY <2>2
  <2>3. Showing(calls') = Showing(calls) \ {q} /\ q \in Showing(calls)
    <3>1. "putchar" \notin {"vga_putc"} /\ calls[c][Len(calls[c])].at \in {"vga_putc"}
      BY <1>1
    <3> QED
      BY <1>2, <1>4, <2>2, <3>1, Showing_Moved
  <2>4. /\ Len(serial_out) \in Nat /\ Len(vga_out) \in Nat /\ Len(vga_out') = Len(vga_out) + 1
        /\ vga_out'[Len(vga_out) + 1] = m /\ \A i \in 1 .. Len(vga_out) : vga_out'[i] = vga_out[i]
    BY <1>1, <1>3, <1>6 DEF Output
  <2>5. /\ IsFiniteSet(Showing(calls')) /\ Cardinality(Showing(calls')) = Cardinality(Showing(calls)) - 1
        /\ Cardinality(Showing(calls)) \in Nat /\ Cardinality(Showing(calls')) \in Nat
    BY <2>1, <2>3, FS_RemoveElement, FS_CardinalityType DEF Ahead
  <2>6. Len(vga_out) + 1 \in Len(vga_out) + 1 .. Len(serial_out) /\ Len(serial_out) = Len(vga_out') + Cardinality(Showing(calls'))
    BY SMTT(60), <2>1, <2>4, <2>5 DEF Ahead
  <2>7. Ahead'
    <3>1. ASSUME NEW i \in 1 .. Len(vga_out')
          PROVE  vga_out'[i].msg[1] = serial_out[i].msg[1]
      <4>1. CASE i = Len(vga_out) + 1
        BY <1>6, <2>1, <2>3, <2>4, <2>6, <4>1 DEF Ahead
      <4>2. CASE i # Len(vga_out) + 1
        <5>1. i \in 1 .. Len(vga_out)
          BY SMTT(60), <2>4, <4>2
        <5> QED
          BY SMTT(60), <2>1, <2>4, <5>1 DEF Ahead
      <4> QED
        BY <4>1, <4>2
    <3>2. \A i \in Len(vga_out') + 1 .. Len(serial_out) : i \in Len(vga_out) + 1 .. Len(serial_out)
      BY SMTT(60), <2>4
    <3>3. \A p \in Showing(calls') : p \in Showing(calls)
      BY <2>3
    <3>4. \A i \in Len(vga_out') + 1 .. Len(serial_out) : \A p \in Showing(calls') : serial_out[i].msg[1] = p[1]
      BY <2>1, <3>2, <3>3 DEF Ahead
    <3> QED
      BY <1>2, <2>5, <2>6, <3>1, <3>4 DEF Ahead
  <2>8. Behind'
    <3> SUFFICES ASSUME NEW x PROVE On(serial_out, x) <=> On(vga_out', x) \/ Missing(calls', x)
      BY <1>2 DEF Behind
    <3>1. On(vga_out', x) <=> On(vga_out, x) \/ x = m
      BY <1>1, <1>3, <1>6, On_Append
    <3>2. On(serial_out, x) <=> On(vga_out, x) \/ Missing(calls, x)
      BY <2>1 DEF Behind
    <3>3. char(calls[q[1]][q[2]]) = m
      BY <1>3, <2>2
    <3>4. ASSUME NEW p \in Showing(calls), p # q
          PROVE  calls'[p[1]][p[2]] = calls[p[1]][p[2]]
      <4>1. PICK j \in Nat : p = <<c, j>> /\ j \in 1 .. Len(calls[c])
        BY SMTT(60), <2>1 DEF Showing, At
      <4>2. j # Len(calls[c])
        BY <2>2, <3>4, <4>1
      <4> QED
        BY <1>4, <4>1, <4>2 DEF Moved
    <3>5. Missing(calls, x) <=> Missing(calls', x) \/ x = m
      BY <2>3, <3>3, <3>4 DEF Missing
    <3> QED
      BY <3>1, <3>2, <3>5
  <2> QED
    BY <2>7, <2>8
<1> QED
  BY <1>2, <1>5, <1>6, <1>7, <1>8, <1>9 DEF ConsoleInv

\* The call in C that returns prints no more and is between nothing.
LEMMA Sets_Popped ==
  ASSUME NEW c \in CThread, Popped(c), NEW p, p = <<c, Len(calls[c])>>
  PROVE  /\ Printing(calls') = Printing(calls) \ {p} /\ Between(calls') = Between(calls) \ {p}
         /\ At(calls', {"end"}) = At(calls, {"end"}) \ {p}
         /\ p \in Printing(calls) <=> calls[c][Len(calls[c])].at \in {"putchar", "vga_putc"}
         /\ p \in Between(calls) <=> calls[c][Len(calls[c])].at \in {"holder", "sema_up"}
<1>1. ASSUME NEW W
      PROVE  /\ At(calls', W) = At(calls, W) \ {p}
             /\ p \in At(calls, W) <=> calls[c][Len(calls[c])].at \in W
  BY At_Popped
<1> QED
  BY <1>1 DEF Printing, Between

\* Until a panic, the last of the holder's calls gives the lock up.
LEMMA Release_ConsoleInv ==
  ASSUME ConsoleInv, NEW c \in CThread, panicker = NoOne, release_console(c)
  PROVE  ConsoleInv'
<1>1. /\ c # Intr /\ c \in Context /\ calls \in CallLists /\ calls[c] # <<>>
      /\ calls[c][Len(calls[c])].at = "putchar" /\ use_console_lock /\ LockCounts
      /\ Len(calls[c]) \in Nat /\ Len(calls[c]) > 0
      /\ lock_holder \in CThread \cup {NoOne} /\ lock_sema \in Nat /\ console_lock_depth \in Nat
  <2>1. /\ c # Intr /\ c \in Context /\ calls \in CallLists /\ calls[c] # <<>>
        /\ calls[c][Len(calls[c])].at = "putchar" /\ use_console_lock /\ LockCounts
        /\ lock_holder \in CThread \cup {NoOne} /\ lock_sema \in Nat /\ console_lock_depth \in Nat
    BY ConsoleAssumption DEF release_console, inside, top, ConsoleInv, ConsoleTypeOK, PanicUnlocks, Context
  <2> QED
    BY <2>1, Top_Call DEF CallLists
<1>2. UNCHANGED <<use_console_lock, lock_sema, msgs, serial_out, vga_out, panicker, level>>
  BY DEF release_console
<1>3. lock_holder = c /\ Between(calls) = {} /\ lock_holder # NoOne
  BY <1>1, Printer_Locked
<1>4. PICK p : p = <<c, Len(calls[c])>>
  OBVIOUS
<1>5. IsFiniteSet(Printing(calls)) /\ Cardinality(Printing(calls)) = console_lock_depth + 1
  BY <1>1, <1>3 DEF LockCounts
<1>6. CASE console_lock_depth > 0
  <2>1. /\ console_lock_depth' = console_lock_depth - 1 /\ lock_holder' = lock_holder /\ console_lock_depth' \in Nat
        /\ return_call(c)
    BY <1>1, <1>6 DEF release_console, nested
  <2>2. Popped(c)
    BY <1>1, <2>1, Return_Popped
  <2>3. /\ Printing(calls') = Printing(calls) \ {p} /\ Between(calls') = Between(calls) \ {p}
        /\ At(calls', {"end"}) = At(calls, {"end"}) \ {p} /\ p \in Printing(calls)
    BY <1>1, <1>4, <2>2, Sets_Popped
  <2>4. IsFiniteSet(Printing(calls')) /\ Cardinality(Printing(calls')) = Cardinality(Printing(calls)) - 1
    BY <1>5, <2>3, FS_RemoveElement
  <2>5. Cardinality(Printing(calls')) = console_lock_depth' + 1
    BY <1>1, <1>5, <2>1, <2>4
  <2>6. LockCounts'
    BY <1>1, <1>2, <1>3, <2>1, <2>3, <2>4, <2>5 DEF LockCounts
  <2> QED
    BY <1>1, <1>2, <2>1, <2>2, <2>6, Popped_Keeps
<1>7. CASE ~(console_lock_depth > 0)
  <2>1. console_lock_depth' = console_lock_depth /\ lock_holder' = NoOne /\ console_lock_depth = 0 /\ goto_call(c, "sema_up")
    BY <1>1, <1>7 DEF release_console, nested
  <2>2. "sema_up" \in Place \ {"acquire", "vga_putc"} /\ Moved(c, "sema_up")
    BY <1>1, <2>1, Goto_Call DEF Place
  <2>3. /\ Printing(calls') = Printing(calls) \ {p} /\ Between(calls') = Between(calls) \cup {p}
        /\ At(calls', {"end"}) = At(calls, {"end"}) \ {p} /\ p \in Printing(calls)
    <3>1. p \in Printing(calls) /\ Printing(calls') = Printing(calls) \ {p}
      BY <1>1, <1>4, <2>2, Printing_Moved
    <3>2. Between(calls') = Between(calls) \cup {p}
      BY <1>4, <2>2, Between_Moved
    <3>3. At(calls', {"end"}) = At(calls, {"end"}) \ {p}
      BY <1>4, <2>2, Ended_Moved
    <3> QED
      BY <3>1, <3>2, <3>3
  <2>4. Printing(calls') = {}
    <3>1. Cardinality(Printing(calls)) = 1
      BY <1>5, <2>1
    <3>2. PICK x : Printing(calls) = {x}
      BY <1>5, <3>1, FS_Singleton
    <3> QED
      BY <2>3, <3>2
  <2>5. LockCounts'
    BY <1>1, <1>2, <1>3, <2>1, <2>3, <2>4, FS_EmptySet DEF LockCounts
  <2>6. lock_holder' \in CThread \cup {NoOne} /\ lock_sema' \in Nat /\ console_lock_depth' \in Nat
    BY <1>1, <1>2, <2>1
  <2> QED
    BY <1>1, <1>2, <2>2, <2>5, <2>6, Step_ConsoleInv
<1> QED
  BY <1>6, <1>7

\* Whoever has given the lock up lets others have it.
LEMMA Released_ConsoleInv ==
  ASSUME ConsoleInv, NEW c \in CThread, panicker = NoOne, lock_released(c)
  PROVE  ConsoleInv'
<1>1. /\ c \in Context /\ calls \in CallLists /\ calls[c] # <<>> /\ calls[c][Len(calls[c])].at = "sema_up" /\ LockCounts
      /\ lock_holder \in CThread \cup {NoOne} /\ lock_sema \in Nat /\ console_lock_depth \in Nat
  BY DEF lock_released, inside, top, ConsoleInv, ConsoleTypeOK, Context
<1>2. /\ UNCHANGED <<use_console_lock, lock_holder, console_lock_depth, msgs, serial_out, vga_out, panicker, level>>
      /\ lock_sema' = lock_sema + 1 /\ return_call(c)
  BY DEF lock_released
<1>3. Popped(c)
  BY <1>1, <1>2, Return_Popped
<1>4. PICK p : p = <<c, Len(calls[c])>>
  OBVIOUS
<1>5. /\ Printing(calls') = Printing(calls) \ {p} /\ Between(calls') = Between(calls) \ {p}
      /\ At(calls', {"end"}) = At(calls, {"end"}) \ {p} /\ p \in Between(calls)
  BY <1>1, <1>3, <1>4, Sets_Popped
<1>6. Between(calls') = {} /\ lock_sema = 0 /\ lock_holder = NoOne /\ Printing(calls') = {}
  BY <1>1, <1>5 DEF LockCounts
<1>7. LockCounts'
  <2>1. lock_sema' = 1 /\ lock_holder' = NoOne
    BY <1>2, <1>6
  <2>2. At(calls', {"end"}) = {} /\ console_lock_depth' = 0
    BY <1>1, <1>2, <1>5, <1>6 DEF LockCounts
  <2> QED
    BY <1>6, <2>1, <2>2, FS_EmptySet DEF LockCounts
<1>8. lock_holder' \in CThread \cup {NoOne} /\ lock_sema' \in Nat /\ console_lock_depth' \in Nat
  BY <1>1, <1>2
<1> QED
  BY <1>1, <1>2, <1>3, <1>7, <1>8, Popped_Keeps

\* A panic prints a message of its own, and from then on nobody else prints.
LEMMA Panic_ConsoleInv ==
  ASSUME ConsoleInv, NEW c \in Context, debug_panic(c)
  PROVE  ConsoleInv'
<1>1. /\ UNCHANGED <<lock_holder, lock_sema, console_lock_depth, msgs, serial_out, vga_out>>
      /\ panicker' = c /\ level' = level + 1 /\ use_console_lock' = FALSE
      /\ panicker \in {NoOne, c} /\ c # NoOne /\ level \in Nat /\ calls \in CallLists
  BY ConsoleAssumption DEF debug_panic, console_panic, runs, ConsoleInv, ConsoleTypeOK, CallLists, Context
<1>2. PICK m \in Call : m.msg = <<c, 0>> /\ m.at \in {"acquire", "end"} /\ calls' = [calls EXCEPT ![c] = Append(@, m)]
  <2>1. PICK w \in {"acquire", "end"} :
          calls' = [calls EXCEPT ![c] = Append(@, [msg |-> <<c, 0>>, left |-> 1, at |-> w])]
    BY DEF debug_panic
  <2>2. [msg |-> <<c, 0>>, left |-> 1, at |-> w] \in Call
    BY DEF Call
  <2> QED
    BY <2>1, <2>2
<1>3. /\ calls[c] \in Seq(Call) /\ calls'[c] = Append(calls[c], m) /\ calls' \in CallLists
      /\ \A d \in CThread : d # c => calls'[d] = calls[d]
  BY <1>1, <1>2, SMTT(60) DEF CallLists, Context
<1>4. /\ Len(calls[c]) \in Nat /\ Len(calls'[c]) = Len(calls[c]) + 1 /\ calls'[c][Len(calls'[c])] = m
      /\ \A j \in 1 .. Len(calls'[c]) : (j \in 1 .. Len(calls[c]) /\ calls'[c][j] = calls[c][j]) \/ calls'[c][j] = m
  BY <1>3
<1>5. ConsoleTypeOK'
  BY <1>1, <1>3, SMTT(60) DEF ConsoleInv, ConsoleTypeOK, CallLists
<1>6. PanicUnlocks'
  BY <1>1 DEF PanicUnlocks
<1>7. PanicsLast' /\ Own(calls') /\ Lockless(calls')
  <2>1. PanicsLast'
    BY <1>1, <1>2, <1>4 DEF PanicsLast
  <2>2. ASSUME c \in CThread
        PROVE  \A j \in 1 .. Len(calls'[c]) : calls'[c][j].msg[1] = c
    <3>1. m.msg[1] = c
      BY <1>2
    <3>2. \A j \in 1 .. Len(calls[c]) : calls[c][j].msg[1] = c
      BY <2>2 DEF ConsoleInv, Own
    <3> QED
      BY <1>4, <3>1, <3>2
  <2>3. \A d \in CThread : d # c => \A j \in 1 .. Len(calls'[d]) : calls'[d][j].msg[1] = d
    BY <1>3 DEF ConsoleInv, Own
  <2>4. Own(calls')
    BY <2>2, <2>3 DEF Own
  <2>5. Lockless(calls')
    <3>1. Lockless(calls)
      BY DEF ConsoleInv
    <3>2. CASE c = Intr
      BY <1>2, <1>4, <3>1, <3>2, SMTT(60) DEF Lockless
    <3>3. CASE c # Intr
      BY <1>1, <1>2, <3>1, <3>3 DEF Lockless, CallLists, Context
    <3> QED
      BY <3>2, <3>3
  <2> QED
    BY <2>1, <2>4, <2>5
<1>8. ASSUME NEW out \in {serial_out, vga_out}
      PROVE  Whole(out, calls', c)
  <2>1. Whole(out, calls, panicker)
    BY DEF ConsoleInv
  <2>2. CASE c \in CThread
    <3>1. \A i, k \in 1 .. Len(out) : (i <= k /\ out[i].msg = m.msg) => out[k].msg[1] = c
      <4>1. CASE panicker = NoOne
        <5>1. \A i \in 1 .. Len(out) : out[i].msg # m.msg
          BY <1>2, <4>1 DEF ConsoleInv, Numbered
        <5> QED
          BY <5>1
      <4>2. CASE panicker = c
        <5>1. Len(calls[c]) > 0 /\ calls[c][Len(calls[c])].msg = m.msg
          BY <1>2, <2>2, <4>2 DEF ConsoleInv, PanicsLast
        <5>2. Len(calls[c]) \in 1 .. Len(calls[c])
          BY <1>4, <5>1
        <5> QED
          BY SMTT(60), <2>1, <2>2, <4>2, <5>1, <5>2 DEF Whole
      <4> QED
        BY <1>1, <4>1, <4>2
    <3> QED
      BY <1>1, <1>2, <2>1, <2>2, <3>1, Whole_Push
  <2>3. CASE c \notin CThread
    BY <1>1, <2>3 DEF Whole
  <2> QED
    BY <2>2, <2>3
<1> QED
  BY <1>1, <1>5, <1>6, <1>7, <1>8 DEF ConsoleInv

LEMMA Next_ConsoleInv == ConsoleInv /\ [ConsoleNext]_consolevars => ConsoleInv'
<1> SUFFICES ASSUME ConsoleInv, [ConsoleNext]_consolevars PROVE ConsoleInv'
  OBVIOUS
<1>1. calls \in CallLists /\ msgs \in Nat /\ Lockless(calls)
  BY DEF ConsoleInv, ConsoleTypeOK
<1>2. ASSUME NEW c \in CThread, begin(c) \/ Prints(c)
      PROVE  ConsoleInv'
  BY <1>2, Begin_ConsoleInv, Acquire_ConsoleInv, Acquired_ConsoleInv, Serial_ConsoleInv, Vga_ConsoleInv,
     Release_ConsoleInv, Released_ConsoleInv DEF Prints
<1>3. ASSUME begin(Intr) \/ Prints(Intr)
      PROVE  ConsoleInv'
  <2>1. Intr \in Context /\ calls[Intr] \in Seq(Call)
    BY <1>1 DEF Context, CallLists
  <2>2. ~lock_acquired(Intr) /\ ~lock_released(Intr)
    BY <1>1, <2>1, Top_Call DEF lock_acquired, lock_released, inside, top, Lockless
  <2>3. begin(Intr) \/ acquire_console(Intr) \/ serial_putc(Intr) \/ vga_putc(Intr) \/ release_console(Intr)
    BY <1>3, <2>2 DEF Prints
  <2>4. UNCHANGED <<use_console_lock, lock_holder, lock_sema, console_lock_depth, serial_out, vga_out, panicker, level>>
    BY <2>3 DEF begin, acquire_console, serial_putc, vga_putc, release_console, with_char
  <2>5. msgs' \in Nat /\ msgs' >= msgs
    BY <1>1, <2>3 DEF begin, acquire_console, serial_putc, vga_putc, release_console
  <2>6. calls' \in CallLists /\ Lockless(calls') /\ \A d \in CThread : calls'[d] = calls[d]
    <3>1. CASE begin(Intr)
      <4>1. PICK m \in Call : m = message(Intr, "acquire") /\ m.at = "acquire"
        <5>1. message(Intr, "acquire") = [msg |-> <<Intr, msgs + 1>>, left |-> 1, at |-> "acquire"]
          BY DEF message
        <5>2. [msg |-> <<Intr, msgs + 1>>, left |-> 1, at |-> "acquire"] \in Call
          BY <1>1, <2>1 DEF Call
        <5> QED
          BY <5>1, <5>2
      <4>2. calls' = [calls EXCEPT ![Intr] = Append(@, m)]
        BY <3>1, <4>1 DEF begin
      <4>3. calls' \in CallLists /\ calls'[Intr] = Append(calls[Intr], m) /\ \A d \in CThread : calls'[d] = calls[d]
        <5>1. Append(calls[Intr], m) \in Seq(Call)
          BY <2>1
        <5> QED
          BY <1>1, <2>1, <4>2, <5>1, ConsoleAssumption DEF CallLists, Context
      <4>4. \A j \in 1 .. Len(calls'[Intr]) : \/ j \in 1 .. Len(calls[Intr]) /\ calls'[Intr][j] = calls[Intr][j]
                                              \/ calls'[Intr][j] = m
        BY <2>1, <4>3
      <4> QED
        BY <1>1, <4>1, <4>3, <4>4, SMTT(60) DEF Lockless
    <3>2. ASSUME NEW w \in {"putchar", "vga_putc"}, Moved(Intr, w)
          PROVE  calls' \in CallLists /\ Lockless(calls') /\ \A d \in CThread : calls'[d] = calls[d]
      <4>1. \A j \in 1 .. Len(calls'[Intr]) : calls'[Intr][j].at \notin {"holder", "sema_up"}
        BY <1>1, <3>2 DEF Moved, Lockless
      <4> QED
        BY <3>2, <4>1, ConsoleAssumption DEF Moved, Context, Lockless
    <3>3. CASE acquire_console(Intr) \/ serial_putc(Intr)
      <4>1. PICK w \in {"putchar", "vga_putc"} : goto_call(Intr, w) /\ calls[Intr] # <<>>
        BY <3>3 DEF acquire_console, serial_putc, inside
      <4>2. Moved(Intr, w)
        BY <1>1, <2>1, <4>1, Goto_Call DEF Place
      <4> QED
        BY <3>2, <4>2
    <3>4. CASE vga_putc(Intr)
      BY <1>1, <2>1, <3>2, <3>4, Vga_Moved
    <3>5. CASE release_console(Intr)
      <4>1. return_call(Intr) /\ calls[Intr] # <<>>
        BY <3>5 DEF release_console, inside
      <4>2. Popped(Intr)
        BY <1>1, <2>1, <4>1, Return_Popped
      <4>3. \A d \in CThread : calls'[d] = calls[d]
        BY <4>2, ConsoleAssumption DEF Popped, Context
      <4>4. \A j \in 1 .. Len(calls'[Intr]) : j \in 1 .. Len(calls[Intr]) /\ calls'[Intr][j] = calls[Intr][j]
        BY <4>2 DEF Popped
      <4>5. Lockless(calls')
        BY <1>1, <4>4 DEF Lockless
      <4> QED
        BY <4>2, <4>3, <4>5 DEF Popped
    <3> QED
      BY <2>3, <3>1, <3>3, <3>4, <3>5
  <2> QED
    BY <2>4, <2>5, <2>6, Handler_Keeps
<1>4. ASSUME panic_end \/ UNCHANGED consolevars
      PROVE  ConsoleInv'
  <2>1. UNCHANGED <<use_console_lock, lock_holder, lock_sema, console_lock_depth, serial_out, vga_out,
                    panicker, level, calls, msgs>>
    BY <1>4 DEF panic_end, consolevars
  <2>2. calls' \in CallLists /\ msgs' \in Nat /\ msgs' >= msgs /\ Lockless(calls') /\ \A d \in CThread : calls'[d] = calls[d]
    BY <1>1, <2>1
  <2> QED
    BY <2>1, <2>2, Handler_Keeps
<1>5. CASE \E c \in Context : begin(c) \/ Prints(c) \/ debug_panic(c)
  BY <1>2, <1>3, <1>5, Panic_ConsoleInv DEF Context
<1> QED
  BY <1>4, <1>5 DEF ConsoleNext

\* Nested calls, handlers and panics leave the console whole, for any threads,
\* depth of nesting, number and length of messages, wherever a call is nested:
\* putchar_have_lock() is called with the lock held, threads' messages do not mix
\* on either device, and until a panic the display has every character of the
\* serial port but those between the two, the n-th of either by the same thread.
THEOREM Spec_ConsoleOK == ConsoleSpec => []ConsoleOK
<1>1. ConsoleInv => ConsoleOK
  <2> SUFFICES ASSUME ConsoleInv PROVE ConsoleOK
    OBVIOUS
  <2>1. calls \in CallLists /\ serial_out \in Output /\ vga_out \in Output
    BY DEF ConsoleInv, ConsoleTypeOK
  <2>2. \A c \in CThread : calls[c] \in Seq(Call)
    BY <2>1 DEF CallLists, Context
  <2>3. PrintsLocked
    <3> SUFFICES ASSUME NEW c \in CThread, use_console_lock, calls[c] # <<>>,
                        calls[c][Len(calls[c])].at \in {"putchar", "vga_putc"}
                 PROVE  lock_holder = c
      BY DEF PrintsLocked, top
    <3>1. LockCounts
      BY DEF ConsoleInv, PanicUnlocks
    <3> QED
      BY <2>1, <2>2, <3>1, Top_Call, Printer_Locked
  <2>4. DOMAIN serial_out = 1 .. Len(serial_out) /\ DOMAIN vga_out = 1 .. Len(vga_out)
    BY <2>1 DEF Output
  <2>5. MessagesWhole
    BY <2>4, SMTT(60) DEF ConsoleInv, NotMixed, MessagesWhole
  <2>6. DevicesAgree
    <3> SUFFICES ASSUME level = 0
                 PROVE  /\ {serial_out[i] : i \in DOMAIN serial_out} = {vga_out[i] : i \in DOMAIN vga_out} \cup Halfway
                        /\ \A i \in DOMAIN vga_out : i <= Len(serial_out) /\ vga_out[i].msg[1] = serial_out[i].msg[1]
      BY DEF DevicesAgree
    <3>1. Ahead /\ Behind
      BY DEF ConsoleInv, PanicUnlocks
    <3>2. ASSUME NEW x
          PROVE  x \in Halfway <=> Missing(calls, x)
      <4>1. x \in Halfway <=> \E c \in CThread : \E j \in 1 .. Len(calls[c]) : calls[c][j].at = "vga_putc" /\ x = char(calls[c][j])
        BY SMTT(60) DEF Halfway, halfway
      <4>2. Missing(calls, x) <=> \E c \in CThread : \E j \in 1 .. Len(calls[c]) : calls[c][j].at = "vga_putc" /\ x = char(calls[c][j])
        <5>1. ASSUME NEW p \in Showing(calls), x = char(calls[p[1]][p[2]])
              PROVE  \E c \in CThread : \E j \in 1 .. Len(calls[c]) : calls[c][j].at = "vga_putc" /\ x = char(calls[c][j])
          BY <5>1 DEF Showing, At
        <5>2. ASSUME NEW c \in CThread, NEW j \in 1 .. Len(calls[c]), calls[c][j].at = "vga_putc", x = char(calls[c][j])
              PROVE  Missing(calls, x)
          <6>1. PICK p \in CThread \X Nat : p = <<c, j>>
            <7>1. j \in Nat
              BY <2>2
            <7> QED
              BY <7>1
          <6>2. p[1] = c /\ p[2] = j
            BY <6>1
          <6>3. p \in Showing(calls)
            BY <5>2, <6>2 DEF Showing, At
          <6> QED
            BY <5>2, <6>2, <6>3 DEF Missing
        <5> QED
          BY <5>1, <5>2 DEF Missing
      <4> QED
        BY <4>1, <4>2
    <3>3. {serial_out[i] : i \in DOMAIN serial_out} = {vga_out[i] : i \in DOMAIN vga_out} \cup Halfway
      <4>1. \A x : x \in {serial_out[i] : i \in DOMAIN serial_out} <=> On(serial_out, x)
        BY <2>4 DEF On
      <4>2. \A x : x \in {vga_out[i] : i \in DOMAIN vga_out} <=> On(vga_out, x)
        BY <2>4 DEF On
      <4>3. \A x : On(serial_out, x) <=> On(vga_out, x) \/ x \in Halfway
        BY <3>1, <3>2 DEF Behind
      <4> QED
        BY <4>1, <4>2, <4>3
    <3>4. ASSUME NEW i \in 1 .. Len(vga_out)
          PROVE  i <= Len(serial_out) /\ vga_out[i].msg[1] = serial_out[i].msg[1]
      <4>1. Cardinality(Showing(calls)) \in Nat
        BY <3>1, FS_CardinalityType DEF Ahead
      <4>2. Len(vga_out) \in Nat
        BY <2>1 DEF Output
      <4> QED
        BY <3>1, <4>1, <4>2 DEF Ahead
    <3> QED
      BY <2>4, <3>3, <3>4
  <2> QED
    BY <2>3, <2>5, <2>6 DEF ConsoleOK
<1> QED
  BY <1>1, Init_ConsoleInv, Next_ConsoleInv, PTL DEF ConsoleSpec

-----------------------------------------------------------------------------
(* Sequences *)

\* A sequence is a function on the numbers up to its length.
LEMMA Len_Facts ==
  ASSUME NEW S, NEW s \in Seq(S)
  PROVE  Len(s) \in Nat /\ DOMAIN s = 1 .. Len(s) /\ s \in [DOMAIN s -> S]
  OBVIOUS

\* And such a function is a sequence.
LEMMA Function_Seq ==
  ASSUME NEW S, NEW n \in Nat, NEW s \in [1 .. n -> S]
  PROVE  s \in Seq(S) /\ Len(s) = n
  OBVIOUS

LEMMA Empty_Facts ==
  ASSUME NEW S
  PROVE  <<>> \in Seq(S) /\ Len(<<>>) = 0 /\ \A s \in Seq(S) : s # <<>> => Len(s) \in Nat \ {0}
  OBVIOUS

\* What the elements of a concatenation are.
LEMMA Concat_Facts ==
  ASSUME NEW S, NEW s \in Seq(S), NEW t \in Seq(S)
  PROVE  /\ s \o t \in Seq(S) /\ Len(s \o t) = Len(s) + Len(t)
         /\ \A k \in 1 .. Len(s) + Len(t) : (s \o t)[k] = IF k <= Len(s) THEN s[k] ELSE t[k - Len(s)]
  OBVIOUS

-----------------------------------------------------------------------------
(* The relay of the simulator's terminal *)

\* The two pipes of relay().
Pipe == {In, Out}

\* What relay() and its ghosts are made of.
RelayTypeOK ==
  /\ kind \in {"none", "pty", "unix"} /\ rstate \in {"loop", "final", "accept", "exit", "failed"}
  /\ buf \in [Pipe -> [0 .. BUFSIZ - 1 -> Nat]] /\ ofs \in [Pipe -> Nat] /\ size \in [Pipe -> Nat]
  /\ sent \in [Pipe -> Nat] /\ taken \in [Pipe -> Nat] /\ relayed \in [Pipe -> Seq(Nat)]
  /\ in_open \in [Pipe -> BOOLEAN] /\ child \in BOOLEAN

\* What RelayInOrder says of one pipe.
InOrder(i) ==
  /\ \A k \in DOMAIN relayed[i] : relayed[i][k] = k
  /\ \A k \in 0 .. size[i] - 1 : buf[i][ofs[i] + k] = Len(relayed[i]) + 1 + k
  /\ rstate \in {"loop", "final"} => Len(relayed[i]) + size[i] = taken[i]
  /\ ofs[i] + size[i] <= BUFSIZ

\* No more is read than was sent, and the simulator's side is closed only after
\* its last byte has been read.
Ends ==
  /\ \A i \in Pipe : taken[i] <= sent[i]
  /\ ~in_open[Out] => taken[Out] = sent[Out] /\ ~child

\* The inductive invariant.
RelayInv == RelayTypeOK /\ (\A i \in Pipe : InOrder(i)) /\ Ends /\ LastWordsRelayed

\* What is relayed stays in order when the next bytes follow.
LEMMA Bytes_Written ==
  ASSUME NEW r \in Seq(Nat), \A k \in DOMAIN r : r[k] = k,
         NEW a \in Seq(Nat), \A k \in DOMAIN a : a[k] = Len(r) + k
  PROVE  r \o a \in Seq(Nat) /\ Len(r \o a) = Len(r) + Len(a) /\ \A k \in DOMAIN (r \o a) : (r \o a)[k] = k
<1>1. /\ r \o a \in Seq(Nat) /\ Len(r \o a) = Len(r) + Len(a)
      /\ \A k \in 1 .. Len(r) + Len(a) : (r \o a)[k] = IF k <= Len(r) THEN r[k] ELSE a[k - Len(r)]
  BY Concat_Facts
<1>2. /\ Len(r) \in Nat /\ Len(a) \in Nat /\ DOMAIN r = 1 .. Len(r) /\ DOMAIN a = 1 .. Len(a)
      /\ DOMAIN (r \o a) = 1 .. Len(r) + Len(a)
  BY <1>1, Len_Facts
<1>3. ASSUME NEW k \in DOMAIN (r \o a) PROVE (r \o a)[k] = k
  <2>1. CASE k <= Len(r)
    <3>1. k \in DOMAIN r
      BY <1>2, <2>1, SMTT(60)
    <3> QED
      BY <1>1, <1>2, <2>1, <3>1
  <2>2. CASE ~(k <= Len(r))
    <3>1. k - Len(r) \in DOMAIN a /\ Len(r) + (k - Len(r)) = k
      BY <1>2, <2>2, SMTT(60)
    <3>2. (r \o a)[k] = a[k - Len(r)]
      BY <1>1, <1>2, <2>2
    <3> QED
      BY <3>1, <3>2
  <2> QED
    BY <1>2, <2>1, <2>2
<1> QED
  BY <1>1, <1>3

\* The first n bytes of a buffer, when they are the ones that follow.
LEMMA Bytes_Next ==
  ASSUME NEW n \in Nat, NEW L \in Nat, NEW a, DOMAIN a = 1 .. n, a = [k \in 1 .. n |-> a[k]],
         \A k \in 1 .. n : a[k] = L + k
  PROVE  a \in Seq(Nat) /\ Len(a) = n
<1>1. a \in [1 .. n -> Nat]
  BY SMTT(60)
<1>2. a \in Seq(Nat)
  BY <1>1, Function_Seq
<1> QED
  BY <1>2, Len_Facts

\* A pipe that a step does not touch.
LEMMA Pipe_Same ==
  ASSUME NEW i \in Pipe, InOrder(i), relayed'[i] = relayed[i], size'[i] = size[i], ofs'[i] = ofs[i],
         buf'[i] = buf[i], taken'[i] = taken[i], rstate' \in {"loop", "final"} => rstate \in {"loop", "final"}
  PROVE  InOrder(i)'
BY DEF InOrder

\* The pipes and their ends, by name.
LEMMA Relay_Facts ==
  ASSUME RelayInv
  PROVE  /\ RelayTypeOK /\ Ends /\ LastWordsRelayed /\ In \in Pipe /\ Out \in Pipe /\ In # Out
         /\ \A i \in Pipe : InOrder(i)
         /\ BUFSIZ \in Nat \ {0}
BY RelayAssumption DEF RelayInv, Pipe, In, Out

\* Both programs start with empty pipes.
LEMMA Init_RelayInv == RelayInit => RelayInv
<1> SUFFICES ASSUME RelayInit PROVE RelayInv
  OBVIOUS
<1>0. In \in Pipe /\ Out \in Pipe /\ BUFSIZ \in Nat \ {0} /\ <<>> \in Seq(Nat) /\ Len(<<>>) = 0
  BY RelayAssumption, Empty_Facts DEF Pipe
<1>1. \A i \in Pipe : /\ relayed[i] = <<>> /\ size[i] = 0 /\ ofs[i] = 0 /\ taken[i] = 0 /\ sent[i] = 0 /\ in_open[i]
  BY DEF RelayInit, both, Pipe
<1>2. RelayTypeOK
  <2>1. buf \in [Pipe -> [0 .. BUFSIZ - 1 -> Nat]]
    BY <1>0 DEF RelayInit, empty_buf, both, Pipe
  <2>2. in_open \in [Pipe -> BOOLEAN] /\ child \in BOOLEAN
    BY DEF RelayInit, both, Pipe
  <2>3. /\ ofs \in [Pipe -> Nat] /\ size \in [Pipe -> Nat] /\ sent \in [Pipe -> Nat] /\ taken \in [Pipe -> Nat]
        /\ relayed \in [Pipe -> Seq(Nat)]
    BY <1>0 DEF RelayInit, both, Pipe
  <2> QED
    BY <2>1, <2>2, <2>3 DEF RelayInit, RelayTypeOK
<1>3. ASSUME NEW i \in Pipe PROVE InOrder(i)
  <2>1. Len(relayed[i]) + size[i] = taken[i] /\ ofs[i] + size[i] <= BUFSIZ
    BY <1>0, <1>1
  <2>2. \A k \in 0 .. size[i] - 1 : FALSE
    BY <1>1
  <2>3. \A k \in DOMAIN relayed[i] : FALSE
    BY <1>1
  <2> QED
    BY <2>1, <2>2, <2>3 DEF InOrder
<1>4. Ends
  BY <1>0, <1>1 DEF Ends
<1>5. LastWordsRelayed
  BY DEF LastWordsRelayed, RelayInit
<1> QED
  BY <1>2, <1>3, <1>4, <1>5 DEF RelayInv

\* The user types, the simulator writes or ends.
LEMMA Senders_RelayInv ==
  ASSUME RelayInv, (\E i \in Pipe : send(i)) \/ end_of_typing \/ child_exits
  PROVE  RelayInv'
<1>0. /\ RelayTypeOK /\ Ends /\ In \in Pipe /\ Out \in Pipe /\ \A i \in Pipe : InOrder(i)
  BY Relay_Facts
<1>1. /\ rstate # "exit" /\ rstate' = rstate
      /\ UNCHANGED <<kind, buf, ofs, size, active, in_open, out_open, taken, relayed>>
  BY DEF send, end_of_typing, child_exits, pipevars
<1>2. /\ sent' \in [Pipe -> Nat] /\ \A i \in Pipe : sent'[i] = sent[i] \/ sent'[i] = sent[i] + 1
      /\ sent'[Out] # sent[Out] => child
  <2>1. ASSUME NEW i \in Pipe, send(i)
        PROVE  /\ sent' \in [Pipe -> Nat] /\ \A j \in Pipe : sent'[j] = sent[j] \/ sent'[j] = sent[j] + 1
               /\ sent'[Out] # sent[Out] => child
    <3>1. sent' = [sent EXCEPT ![i] = @ + 1] /\ (i # In => child) /\ sent \in [Pipe -> Nat]
      BY <1>0, <2>1 DEF send, RelayTypeOK
    <3> QED
      BY <1>0, <3>1, Relay_Facts, SMTT(60)
  <2>2. CASE end_of_typing \/ child_exits
    <3>1. sent' = sent /\ sent \in [Pipe -> Nat]
      BY <1>0, <2>2 DEF end_of_typing, child_exits, RelayTypeOK
    <3> QED
      BY <3>1
  <2> QED
    BY <2>1, <2>2
<1>3. child' \in BOOLEAN /\ (child' => child)
  <2>1. child' = child \/ child' = FALSE
    BY DEF send, end_of_typing, child_exits
  <2>2. child \in BOOLEAN
    BY <1>0 DEF RelayTypeOK
  <2>3. CASE child' = child
    BY <2>2, <2>3
  <2>4. CASE child' = FALSE
    BY <2>4
  <2> QED
    BY <2>1, <2>3, <2>4
<1>4. RelayTypeOK'
  BY <1>0, <1>1, <1>2, <1>3 DEF RelayTypeOK
<1>5. \A i \in Pipe : InOrder(i)'
  BY <1>0, <1>1, Pipe_Same
<1>6. Ends'
  <2>1. \A i \in Pipe : taken[i] \in Nat /\ sent[i] \in Nat
    BY <1>0 DEF RelayTypeOK
  <2>2. \A i \in Pipe : taken'[i] <= sent'[i]
    BY <1>0, <1>1, <1>2, <2>1 DEF Ends
  <2>3. ~in_open'[Out] => taken'[Out] = sent'[Out] /\ ~child'
    BY <1>0, <1>1, <1>2, <1>3 DEF Ends
  <2> QED
    BY <2>2, <2>3 DEF Ends
<1>7. LastWordsRelayed'
  BY <1>1 DEF LastWordsRelayed
<1> QED
  BY <1>4, <1>5, <1>6, <1>7 DEF RelayInv

\* relay() starts, with empty pipes; or squish-unix ends.
LEMMA Start_RelayInv ==
  ASSUME RelayInv, (\E k \in {"pty", "unix"} : start_relay(k)) \/ accept_ends
  PROVE  RelayInv'
<1>0. /\ RelayTypeOK /\ Ends /\ In \in Pipe /\ Out \in Pipe /\ \A i \in Pipe : InOrder(i) /\ BUFSIZ \in Nat \ {0}
  BY Relay_Facts
<1>1. ASSUME NEW k \in {"pty", "unix"}, start_relay(k)
      PROVE  RelayInv'
  <2>1. /\ kind' = k /\ rstate' = "loop" /\ buf' = empty_buf /\ ofs' = both(0) /\ size' = both(0)
        /\ in_open' = both(TRUE) /\ taken' = both(0) /\ relayed' = both(<<>>) /\ sent' = [sent EXCEPT ![Out] = 0]
        /\ child' = TRUE
    BY <1>1 DEF start_relay
  <2>2. \A i \in Pipe : /\ relayed'[i] = <<>> /\ size'[i] = 0 /\ ofs'[i] = 0 /\ taken'[i] = 0 /\ in_open'[i]
    BY <2>1 DEF both, Pipe
  <2>3. <<>> \in Seq(Nat) /\ Len(<<>>) = 0
    BY Empty_Facts
  <2>4. RelayTypeOK'
    <3>1. buf' \in [Pipe -> [0 .. BUFSIZ - 1 -> Nat]]
      BY <1>0, <2>1 DEF empty_buf, both, Pipe
    <3>2. in_open' \in [Pipe -> BOOLEAN] /\ child' \in BOOLEAN
      BY <2>1 DEF both, Pipe
    <3>3. /\ ofs' \in [Pipe -> Nat] /\ size' \in [Pipe -> Nat] /\ taken' \in [Pipe -> Nat]
          /\ relayed' \in [Pipe -> Seq(Nat)]
      BY <2>1, <2>3 DEF both, Pipe
    <3>4. sent' \in [Pipe -> Nat]
      BY <1>0, <2>1 DEF RelayTypeOK
    <3> QED
      BY <2>1, <3>1, <3>2, <3>3, <3>4 DEF RelayTypeOK
  <2>5. ASSUME NEW i \in Pipe PROVE InOrder(i)'
    <3>1. Len(relayed'[i]) + size'[i] = taken'[i] /\ ofs'[i] + size'[i] <= BUFSIZ
      BY <1>0, <2>2, <2>3
    <3>2. \A n \in 0 .. size'[i] - 1 : FALSE
      BY <2>2
    <3>3. \A n \in DOMAIN relayed'[i] : FALSE
      BY <2>2
    <3> QED
      BY <3>1, <3>2, <3>3 DEF InOrder
  <2>6. Ends'
    <3>1. \A i \in Pipe : sent'[i] \in Nat
      BY <2>4 DEF RelayTypeOK
    <3>2. \A i \in Pipe : taken'[i] <= sent'[i]
      BY <2>2, <3>1
    <3> QED
      BY <1>0, <2>2, <3>2 DEF Ends
  <2>7. LastWordsRelayed'
    BY <2>1 DEF LastWordsRelayed
  <2> QED
    BY <2>4, <2>5, <2>6, <2>7 DEF RelayInv
<1>2. CASE accept_ends
  <2>1. /\ kind' = "unix" /\ rstate' = "exit" /\ child' = FALSE
        /\ UNCHANGED <<buf, ofs, size, active, in_open, out_open, sent, taken, relayed>>
    BY <1>2 DEF accept_ends, pipevars
  <2>2. RelayTypeOK'
    BY <1>0, <2>1 DEF RelayTypeOK
  <2>3. \A i \in Pipe : InOrder(i)'
    BY <1>0, <2>1, Pipe_Same
  <2>4. Ends' /\ LastWordsRelayed'
    BY <1>0, <2>1 DEF Ends, LastWordsRelayed
  <2> QED
    BY <2>2, <2>3, <2>4 DEF RelayInv
<1> QED
  BY <1>1, <1>2

\* read() of n bytes into a pipe's buffer
LEMMA Read_RelayInv ==
  ASSUME RelayInv, NEW i \in Pipe, NEW n \in 1 .. BUFSIZ, read_some(i, n)
  PROVE  RelayInv'
<1>0. /\ RelayTypeOK /\ Ends /\ In \in Pipe /\ Out \in Pipe /\ \A j \in Pipe : InOrder(j) /\ BUFSIZ \in Nat \ {0}
  BY Relay_Facts
<1>1. PICK o \in Nat, z \in Nat, T \in Nat, S \in Nat :
        o = ofs[i] /\ z = size[i] /\ T = taken[i] /\ S = sent[i]
  BY <1>0 DEF RelayTypeOK
<1>2. PICK r \in Seq(Nat), b \in [0 .. BUFSIZ - 1 -> Nat] : r = relayed[i] /\ b = buf[i]
  BY <1>0 DEF RelayTypeOK
<1>3. Len(r) \in Nat /\ n \in Nat
  BY <1>0, Len_Facts, SMTT(60)
<1>4. /\ rstate = "loop" /\ in_open[i] /\ n <= S - T /\ n <= BUFSIZ - o - z
      /\ size' = [size EXCEPT ![i] = @ + n] /\ taken' = [taken EXCEPT ![i] = @ + n]
      /\ UNCHANGED <<kind, rstate, ofs, in_open, sent, relayed, child>>
  BY <1>1 DEF read_some, can_read, selected
<1>5. buf' = [buf EXCEPT ![i] = [k \in 0 .. BUFSIZ - 1 |->
                IF k \in o + z .. o + z + n - 1 THEN T + 1 + k - (o + z) ELSE b[k]]]
  BY <1>0, <1>1, <1>2 DEF read_some, put_at, RelayTypeOK
<1>6. /\ \A k \in DOMAIN r : r[k] = k
      /\ \A k \in 0 .. z - 1 : b[o + k] = Len(r) + 1 + k
      /\ Len(r) + z = T /\ o + z <= BUFSIZ /\ T <= S
  BY <1>0, <1>1, <1>2, <1>4 DEF InOrder, Ends
<1>7. PICK c : c = [k \in 0 .. BUFSIZ - 1 |-> IF k \in o + z .. o + z + n - 1 THEN T + 1 + k - (o + z) ELSE b[k]]
  OBVIOUS
<1>8. c \in [0 .. BUFSIZ - 1 -> Nat] /\ \A k \in 0 .. z + n - 1 : c[o + k] = Len(r) + 1 + k
  <2>0. o + z + n <= BUFSIZ
    BY <1>0, <1>3, <1>4
  <2>1. ASSUME NEW k \in 0 .. BUFSIZ - 1 PROVE c[k] \in Nat
    <3>1. CASE k \in o + z .. o + z + n - 1
      <4>1. c[k] = T + 1 + k - (o + z)
        BY <1>7, <3>1
      <4> QED
        BY <1>3, <3>1, <4>1
    <3>2. CASE k \notin o + z .. o + z + n - 1
      BY <1>7, <3>2
    <3> QED
      BY <3>1, <3>2
  <2>2. ASSUME NEW k \in 0 .. z + n - 1 PROVE c[o + k] = Len(r) + 1 + k
    <3>1. o + k \in 0 .. BUFSIZ - 1 /\ k \in Nat
      BY <1>0, <1>3, <2>0, SMTT(60)
    <3>2. CASE k < z
      <4>1. k \in 0 .. z - 1 /\ o + k \notin o + z .. o + z + n - 1
        BY <3>1, <3>2
      <4> QED
        BY <1>6, <1>7, <3>1, <4>1
    <3>3. CASE k >= z
      <4>1. o + k \in o + z .. o + z + n - 1
        BY <1>3, <3>1, <3>3
      <4>2. c[o + k] = T + 1 + (o + k) - (o + z)
        BY <1>7, <3>1, <4>1
      <4>3. T + 1 + (o + k) - (o + z) = Len(r) + 1 + k
        BY <1>3, <1>6, <3>1, SMTT(60)
      <4> QED
        BY <4>2, <4>3
    <3> QED
      BY <3>1, <3>2, <3>3
  <2> QED
    BY <1>7, <2>1, <2>2
<1>9. /\ buf'[i] = c /\ size'[i] = z + n /\ taken'[i] = T + n /\ ofs'[i] = o /\ relayed'[i] = r /\ sent'[i] = S
      /\ \A j \in Pipe : j # i => buf'[j] = buf[j] /\ size'[j] = size[j] /\ taken'[j] = taken[j]
      /\ buf' \in [Pipe -> [0 .. BUFSIZ - 1 -> Nat]]
  BY <1>0, <1>1, <1>2, <1>4, <1>5, <1>7, <1>8 DEF RelayTypeOK
<1>10. RelayTypeOK'
  <2>1. z + n \in Nat /\ T + n \in Nat
    BY <1>3
  <2>2. size' = [size EXCEPT ![i] = z + n] /\ taken' = [taken EXCEPT ![i] = T + n]
    BY <1>1, <1>4
  <2>3. size' \in [Pipe -> Nat] /\ taken' \in [Pipe -> Nat]
    BY <1>0, <2>1, <2>2 DEF RelayTypeOK
  <2> QED
    BY <1>0, <1>4, <1>9, <2>3 DEF RelayTypeOK
<1>11. ASSUME NEW j \in Pipe PROVE InOrder(j)'
  <2>1. CASE j = i
    <3>1. Len(r) + (z + n) = T + n /\ o + (z + n) <= BUFSIZ
      <4>1. PICK L \in Nat : L = Len(r) /\ L + z = T
        BY <1>3, <1>6
      <4>2. L + (z + n) = T + n
        BY <1>3, <4>1
      <4>3. o + (z + n) <= BUFSIZ
        BY <1>0, <1>3, <1>4
      <4> QED
        BY <4>1, <4>2, <4>3
    <3> QED
      <4>1. ASSUME NEW k \in 0 .. size'[i] - 1 PROVE buf'[i][ofs'[i] + k] = Len(relayed'[i]) + 1 + k
        <5>1. k \in 0 .. z + n - 1
          BY <1>9, SMTT(60)
        <5>2. c[o + k] = Len(r) + 1 + k
          BY <1>8, <5>1
        <5> QED
          BY <1>9, <5>2
      <4>2. \A k \in DOMAIN relayed'[i] : relayed'[i][k] = k
        BY <1>6, <1>9
      <4>3. Len(relayed'[i]) + size'[i] = taken'[i] /\ ofs'[i] + size'[i] <= BUFSIZ
        BY <1>9, <3>1
      <4> QED
        BY <2>1, <4>1, <4>2, <4>3 DEF InOrder
  <2>2. CASE j # i
    BY <1>0, <1>4, <1>9, <2>2, Pipe_Same
  <2> QED
    BY <2>1, <2>2
<1>12. Ends'
  <2>1. T + n <= S
    BY <1>3, <1>4
  <2>2. \A j \in Pipe : taken'[j] <= sent'[j]
    BY <1>0, <1>4, <1>9, <2>1, SMTT(60) DEF Ends
  <2>3. ~in_open'[Out] => taken'[Out] = sent'[Out] /\ ~child'
    BY <1>0, <1>4, <1>9 DEF Ends
  <2> QED
    BY <2>2, <2>3 DEF Ends
<1>13. LastWordsRelayed'
  BY <1>4 DEF LastWordsRelayed
<1> QED
  BY <1>10, <1>11, <1>12, <1>13 DEF RelayInv

\* write() of n bytes of a pipe's buffer
LEMMA Write_RelayInv ==
  ASSUME RelayInv, NEW i \in Pipe, NEW n \in 1 .. BUFSIZ, write_some(i, n)
  PROVE  RelayInv'
<1>0. /\ RelayTypeOK /\ Ends /\ In \in Pipe /\ Out \in Pipe /\ \A j \in Pipe : InOrder(j) /\ BUFSIZ \in Nat \ {0}
  BY Relay_Facts
<1>1. PICK o \in Nat, z \in Nat, T \in Nat : o = ofs[i] /\ z = size[i] /\ T = taken[i]
  BY <1>0 DEF RelayTypeOK
<1>2. PICK r \in Seq(Nat), b \in [0 .. BUFSIZ - 1 -> Nat] : r = relayed[i] /\ b = buf[i]
  BY <1>0 DEF RelayTypeOK
<1>3. Len(r) \in Nat /\ n \in Nat
  BY <1>0, Len_Facts, SMTT(60)
<1>4. /\ rstate = "loop" /\ n <= z /\ size' = [size EXCEPT ![i] = @ - n]
      /\ ofs' = [ofs EXCEPT ![i] = IF z = n THEN 0 ELSE o + n]
      /\ relayed' = [relayed EXCEPT ![i] = r \o [k \in 1 .. n |-> b[o + k - 1]]]
      /\ UNCHANGED <<kind, rstate, buf, in_open, sent, taken, child>>
  BY <1>0, <1>1, <1>2 DEF write_some, can_write, selected, drained_ofs, RelayTypeOK
<1>5. /\ \A k \in DOMAIN r : r[k] = k
      /\ \A k \in 0 .. z - 1 : b[o + k] = Len(r) + 1 + k
      /\ Len(r) + z = T /\ o + z <= BUFSIZ
  BY <1>0, <1>1, <1>2, <1>4 DEF InOrder
<1>6. PICK w : w = r \o [k \in 1 .. n |-> b[o + k - 1]]
  OBVIOUS
<1>7. w \in Seq(Nat) /\ Len(w) = Len(r) + n /\ \A k \in DOMAIN w : w[k] = k
  <2>1. PICK a : a = [k \in 1 .. n |-> b[o + k - 1]]
    OBVIOUS
  <2>2. ASSUME NEW k \in 1 .. n PROVE a[k] = Len(r) + k
    <3>1. k - 1 \in 0 .. z - 1 /\ o + k - 1 = o + (k - 1) /\ Len(r) + 1 + (k - 1) = Len(r) + k
      BY <1>3, <1>4
    <3>2. b[o + (k - 1)] = Len(r) + 1 + (k - 1)
      BY <1>5, <3>1
    <3> QED
      BY <2>1, <3>1, <3>2
  <2>3. a \in Seq(Nat) /\ Len(a) = n /\ DOMAIN a = 1 .. n
    BY <1>3, <2>1, <2>2, Bytes_Next
  <2>4. w = r \o a /\ \A k \in DOMAIN a : a[k] = Len(r) + k
    BY <1>6, <2>1, <2>2, <2>3
  <2>5. r \o a \in Seq(Nat) /\ Len(r \o a) = Len(r) + Len(a) /\ \A k \in DOMAIN (r \o a) : (r \o a)[k] = k
    BY <1>5, <2>3, <2>4, Bytes_Written
  <2> QED
    BY <2>3, <2>4, <2>5
<1>8. PICK p \in Nat, y \in Nat : p = (IF z = n THEN 0 ELSE o + n) /\ y = z - n
  BY <1>3, <1>4
<1>9. /\ relayed'[i] = w /\ size'[i] = y /\ ofs'[i] = p /\ buf'[i] = b /\ taken'[i] = T
      /\ \A j \in Pipe : j # i => relayed'[j] = relayed[j] /\ size'[j] = size[j] /\ ofs'[j] = ofs[j]
  BY <1>0, <1>1, <1>2, <1>4, <1>6, <1>8 DEF RelayTypeOK
<1>10. RelayTypeOK'
  <2>1. size' \in [Pipe -> Nat] /\ ofs' \in [Pipe -> Nat]
    BY <1>0, <1>1, <1>4, <1>8 DEF RelayTypeOK
  <2>2. relayed' \in [Pipe -> Seq(Nat)]
    BY <1>0, <1>4, <1>6, <1>7 DEF RelayTypeOK
  <2> QED
    BY <1>0, <1>4, <2>1, <2>2 DEF RelayTypeOK
<1>11. ASSUME NEW j \in Pipe PROVE InOrder(j)'
  <2>1. CASE j = i
    <3>1. Len(w) + y = T /\ p + y <= BUFSIZ
      <4>1. PICK L \in Nat : L = Len(r) /\ Len(w) = L + n /\ L + z = T
        BY <1>3, <1>5, <1>7
      <4>2. L + n + y = T
        BY SMTT(60), <1>3, <1>8, <4>1
      <4>3. p + y <= BUFSIZ
        BY <1>0, <1>3, <1>4, <1>5, <1>8, SMTT(60)
      <4> QED
        BY <4>1, <4>2, <4>3
    <3>2. ASSUME NEW k \in 0 .. y - 1 PROVE b[p + k] = Len(w) + 1 + k
      <4>1. p = o + n /\ n + k \in 0 .. z - 1
        BY <1>3, <1>8, SMTT(60)
      <4>2. b[o + (n + k)] = Len(r) + 1 + (n + k)
        BY <1>5, <4>1
      <4>3. o + (n + k) = p + k /\ Len(r) + 1 + (n + k) = Len(w) + 1 + k
        BY <1>3, <1>7, <4>1, SMTT(60)
      <4> QED
        BY <4>2, <4>3
    <3> QED
      BY <1>4, <1>7, <1>9, <2>1, <3>1, <3>2 DEF InOrder
  <2>2. CASE j # i
    BY <1>0, <1>4, <1>9, <2>2, Pipe_Same
  <2> QED
    BY <2>1, <2>2
<1>12. Ends' /\ LastWordsRelayed'
  BY <1>0, <1>4 DEF Ends, LastWordsRelayed
<1> QED
  BY <1>10, <1>11, <1>12 DEF RelayInv

\* read() finds the end; write() fails; the child dies.
LEMMA Closes_RelayInv ==
  ASSUME RelayInv, (\E i \in Pipe : read_end(i)) \/ write_error \/ child_died
  PROVE  RelayInv'
<1>0. /\ RelayTypeOK /\ Ends /\ In \in Pipe /\ Out \in Pipe /\ \A i \in Pipe : InOrder(i)
  BY Relay_Facts
<1>1. /\ rstate = "loop" /\ rstate' \in {"loop", "final", "accept", "failed", "exit"}
      /\ UNCHANGED <<kind, buf, ofs, size, sent, taken, relayed, child>>
      /\ rstate' = "exit" => ~out_open'[Out]
  BY DEF read_end, write_error, child_died, after_loop, can_read, can_write, selected, pipevars
<1>2. in_open' \in [Pipe -> BOOLEAN] /\ (~in_open'[Out] => ~in_open[Out] \/ (taken[Out] = sent[Out] /\ ~child))
  <2>1. ASSUME NEW i \in Pipe, read_end(i)
        PROVE  in_open' \in [Pipe -> BOOLEAN] /\ (~in_open'[Out] => ~in_open[Out] \/ (taken[Out] = sent[Out] /\ ~child))
    <3>1. in_open' = [in_open EXCEPT ![i] = FALSE] /\ in_open \in [Pipe -> BOOLEAN]
      BY <1>0, <2>1 DEF read_end, RelayTypeOK
    <3>2. i = Out => taken[Out] = sent[Out] /\ ~child
      BY <2>1, Relay_Facts DEF read_end, at_end
    <3>3. in_open' \in [Pipe -> BOOLEAN]
      BY <3>1
    <3> QED
      BY <1>0, <3>1, <3>2, <3>3
  <2>2. CASE write_error \/ child_died
    <3>1. in_open' = in_open
      BY <2>2 DEF write_error, child_died, pipevars
    <3> QED
      BY <1>0, <3>1 DEF RelayTypeOK
  <2> QED
    BY <2>1, <2>2
<1>3. RelayTypeOK'
  BY <1>0, <1>1, <1>2 DEF RelayTypeOK
<1>4. \A i \in Pipe : InOrder(i)'
  BY <1>0, <1>1, Pipe_Same
<1>5. Ends'
  BY <1>0, <1>1, <1>2 DEF Ends
<1>6. LastWordsRelayed'
  BY <1>1 DEF LastWordsRelayed
<1> QED
  BY <1>3, <1>4, <1>5, <1>6 DEF RelayInv

\* A write to standard output fails.
LEMMA Output_RelayInv ==
  ASSUME RelayInv, output_error
  PROVE  RelayInv'
<1>0. /\ RelayTypeOK /\ Ends /\ \A i \in Pipe : InOrder(i)
  BY Relay_Facts
<1>1. /\ rstate' \in {rstate, "failed"} /\ rstate \in {"loop", "final"}
      /\ UNCHANGED <<kind, buf, ofs, size, in_open, sent, taken, relayed, child>>
  BY DEF output_error, can_write, selected, pipevars
<1>2. RelayTypeOK'
  BY <1>0, <1>1 DEF RelayTypeOK
<1>3. \A i \in Pipe : InOrder(i)'
  BY <1>0, <1>1 DEF InOrder
<1>4. Ends' /\ LastWordsRelayed'
  BY <1>0, <1>1 DEF Ends, LastWordsRelayed
<1> QED
  BY <1>2, <1>3, <1>4 DEF RelayInv

\* The final loop: the rest of the buffer is written, and what the simulator has
\* still sent is read, until there is no more.
LEMMA Final_RelayInv ==
  ASSUME RelayInv, final_relay
  PROVE  RelayInv'
<1>0. /\ RelayTypeOK /\ Ends /\ In \in Pipe /\ Out \in Pipe /\ \A j \in Pipe : InOrder(j) /\ BUFSIZ \in Nat \ {0}
  BY Relay_Facts
<1>1. PICK o \in Nat, z \in Nat, T \in Nat, S \in Nat :
        o = ofs[Out] /\ z = size[Out] /\ T = taken[Out] /\ S = sent[Out]
  BY <1>0 DEF RelayTypeOK
<1>2. PICK r \in Seq(Nat), b \in [0 .. BUFSIZ - 1 -> Nat] : r = relayed[Out] /\ b = buf[Out]
  BY <1>0 DEF RelayTypeOK
<1>3. rstate = "final" /\ UNCHANGED <<kind, in_open, sent, child>>
  BY DEF final_relay
<1>4. /\ \A k \in DOMAIN r : r[k] = k
      /\ \A k \in 0 .. z - 1 : b[o + k] = Len(r) + 1 + k
      /\ Len(r) + z = T /\ T <= S /\ Len(r) \in Nat
      /\ ~in_open[Out] => T = S
  BY <1>0, <1>1, <1>2, <1>3, Len_Facts DEF InOrder, Ends
<1>5. PICK n \in Nat : n = IF leftover < BUFSIZ THEN leftover ELSE BUFSIZ
  <2>1. leftover = (IF in_open[Out] THEN S - T ELSE 0)
    BY <1>1 DEF leftover
  <2>2. leftover \in Nat
    BY <1>4, <2>1
  <2> QED
    BY <1>0, <2>2
<1>6. n <= BUFSIZ /\ T + n <= S /\ (n = 0 => T = S)
  <2>1. leftover = (IF in_open[Out] THEN S - T ELSE 0)
    BY <1>1 DEF leftover
  <2>2. CASE in_open[Out]
    BY <1>0, <1>4, <1>5, <2>1, <2>2, SMTT(60)
  <2>3. CASE ~in_open[Out]
    BY <1>0, <1>4, <1>5, <2>1, <2>3, SMTT(60)
  <2> QED
    BY <2>2, <2>3
<1>7. PICK w, c : /\ w = r \o [k \in 1 .. z |-> b[o + k - 1]]
                  /\ c = [k \in 0 .. BUFSIZ - 1 |-> IF k < n THEN T + 1 + k ELSE b[k]]
  OBVIOUS
<1>8. /\ relayed' = [relayed EXCEPT ![Out] = w] /\ buf' = [buf EXCEPT ![Out] = c]
      /\ size' = [size EXCEPT ![Out] = n] /\ ofs' = [ofs EXCEPT ![Out] = 0] /\ taken' = [taken EXCEPT ![Out] = T + n]
      /\ rstate' = IF n = 0 THEN "exit" ELSE "final"
  <2>1. relayed' = [relayed EXCEPT ![Out] = w]
    BY <1>0, <1>1, <1>2, <1>7 DEF final_relay, RelayTypeOK
  <2>2. buf' = [buf EXCEPT ![Out] = c]
    BY <1>0, <1>1, <1>2, <1>5, <1>7 DEF final_relay, RelayTypeOK
  <2>3. /\ size' = [size EXCEPT ![Out] = n] /\ ofs' = [ofs EXCEPT ![Out] = 0]
        /\ rstate' = IF n = 0 THEN "exit" ELSE "final"
    BY <1>5 DEF final_relay
  <2>4. taken' = [taken EXCEPT ![Out] = T + n]
    BY <1>1, <1>5 DEF final_relay
  <2> QED
    BY <2>1, <2>2, <2>3, <2>4
<1>9. w \in Seq(Nat) /\ Len(w) = T /\ \A k \in DOMAIN w : w[k] = k
  <2>1. PICK a : a = [k \in 1 .. z |-> b[o + k - 1]]
    OBVIOUS
  <2>2. ASSUME NEW k \in 1 .. z PROVE a[k] = Len(r) + k
    <3>1. k - 1 \in 0 .. z - 1 /\ o + k - 1 = o + (k - 1) /\ Len(r) + 1 + (k - 1) = Len(r) + k
      BY <1>4
    <3>2. b[o + (k - 1)] = Len(r) + 1 + (k - 1)
      BY <1>4, <3>1
    <3> QED
      BY <2>1, <3>1, <3>2
  <2>3. a \in Seq(Nat) /\ Len(a) = z /\ DOMAIN a = 1 .. z
    <3>1. Len(r) \in Nat
      BY <1>4
    <3> QED
      BY <2>1, <2>2, <3>1, Bytes_Next
  <2>4. w = r \o a /\ \A k \in DOMAIN a : a[k] = Len(r) + k
    BY <1>7, <2>1, <2>2, <2>3
  <2>5. r \o a \in Seq(Nat) /\ Len(r \o a) = Len(r) + Len(a) /\ \A k \in DOMAIN (r \o a) : (r \o a)[k] = k
    BY <1>4, <2>3, <2>4, Bytes_Written
  <2> QED
    BY <1>4, <2>3, <2>4, <2>5
<1>10. c \in [0 .. BUFSIZ - 1 -> Nat] /\ \A k \in 0 .. n - 1 : c[k] = T + 1 + k
  <2>1. ASSUME NEW k \in 0 .. BUFSIZ - 1 PROVE c[k] \in Nat
    <3>1. CASE k < n
      <4>1. c[k] = T + 1 + k
        BY <1>7, <3>1
      <4> QED
        BY <4>1
    <3>2. CASE ~(k < n)
      BY <1>7, <3>2
    <3> QED
      BY <3>1, <3>2
  <2>2. ASSUME NEW k \in 0 .. n - 1 PROVE c[k] = T + 1 + k
    <3>1. k \in 0 .. BUFSIZ - 1 /\ k < n
      BY <1>0, <1>6
    <3> QED
      BY <1>7, <3>1
  <2> QED
    BY <1>7, <2>1, <2>2
<1>11. /\ relayed'[Out] = w /\ buf'[Out] = c /\ size'[Out] = n /\ ofs'[Out] = 0 /\ taken'[Out] = T + n
       /\ \A j \in Pipe : j # Out => /\ relayed'[j] = relayed[j] /\ buf'[j] = buf[j] /\ size'[j] = size[j]
                                     /\ ofs'[j] = ofs[j] /\ taken'[j] = taken[j]
  BY <1>0, <1>8 DEF RelayTypeOK
<1>12. RelayTypeOK'
  <2>1. T + n \in Nat
    OBVIOUS
  <2>2. size' \in [Pipe -> Nat] /\ ofs' \in [Pipe -> Nat] /\ taken' \in [Pipe -> Nat]
    BY <1>0, <1>8, <2>1 DEF RelayTypeOK
  <2>3. relayed' \in [Pipe -> Seq(Nat)]
    BY <1>0, <1>8, <1>9 DEF RelayTypeOK
  <2>4. buf' \in [Pipe -> [0 .. BUFSIZ - 1 -> Nat]]
    BY <1>0, <1>8, <1>10 DEF RelayTypeOK
  <2>5. rstate' \in {"exit", "final"}
    BY <1>8
  <2> QED
    BY <1>0, <1>3, <2>2, <2>3, <2>4, <2>5 DEF RelayTypeOK
<1>13. ASSUME NEW j \in Pipe PROVE InOrder(j)'
  <2>1. CASE j = Out
    <3>1. ASSUME NEW k \in 0 .. size'[Out] - 1 PROVE buf'[Out][ofs'[Out] + k] = Len(relayed'[Out]) + 1 + k
      <4>1. k \in 0 .. n - 1 /\ 0 + k = k
        BY <1>11
      <4> QED
        BY <1>9, <1>10, <1>11, <4>1
    <3>2. \A k \in DOMAIN relayed'[Out] : relayed'[Out][k] = k
      BY <1>9, <1>11
    <3>3. Len(relayed'[Out]) + size'[Out] = taken'[Out] /\ ofs'[Out] + size'[Out] <= BUFSIZ
      <4>1. 0 + n <= BUFSIZ
        BY <1>6
      <4> QED
        BY <1>9, <1>11, <4>1
    <3> QED
      BY <2>1, <3>1, <3>2, <3>3 DEF InOrder
  <2>2. CASE j # Out
    BY <1>0, <1>3, <1>11, <2>2, Pipe_Same
  <2> QED
    BY <2>1, <2>2
<1>14. Ends'
  <2>1. taken'[Out] <= sent'[Out] /\ \A j \in Pipe : j # Out => taken'[j] <= sent'[j]
    BY <1>0, <1>1, <1>3, <1>6, <1>11 DEF Ends
  <2>2. ~in_open'[Out] => taken'[Out] = sent'[Out] /\ ~child'
    <3> SUFFICES ASSUME ~in_open[Out] PROVE taken'[Out] = sent'[Out] /\ ~child'
      BY <1>3
    <3>1. T = S /\ ~child /\ sent'[Out] = S
      BY <1>0, <1>1, <1>3, <1>4 DEF Ends
    <3>2. T + n = S
      BY <1>6, <3>1
    <3> QED
      BY <1>3, <1>11, <3>1, <3>2
  <2> QED
    BY <2>1, <2>2 DEF Ends
<1>15. LastWordsRelayed'
  <2>1. rstate' = "exit" => n = 0
    BY <1>8
  <2> QED
    BY <1>1, <1>3, <1>6, <1>9, <1>11, <2>1 DEF LastWordsRelayed
<1> QED
  BY <1>12, <1>13, <1>14, <1>15 DEF RelayInv

\* Every step of the relay, of the user and of the simulator keeps the invariant.
LEMMA Next_RelayInv == RelayInv /\ [RelayNext]_relayvars => RelayInv'
<1> SUFFICES ASSUME RelayInv, [RelayNext]_relayvars PROVE RelayInv'
  OBVIOUS
<1>1. CASE UNCHANGED relayvars
  <2>1. RelayTypeOK' /\ Ends' /\ LastWordsRelayed' /\ \A i \in Pipe : InOrder(i)'
    BY <1>1 DEF RelayInv, relayvars, RelayTypeOK, Ends, LastWordsRelayed, InOrder
  <2> QED
    BY <2>1 DEF RelayInv
<1>2. CASE RelayStep
  BY <1>2, Read_RelayInv, Write_RelayInv, Closes_RelayInv, Final_RelayInv DEF RelayStep, Pipe
<1>3. CASE RelayNext /\ ~RelayStep
  BY <1>3, Senders_RelayInv, Start_RelayInv, Output_RelayInv DEF RelayNext, Pipe
<1> QED
  BY <1>1, <1>2, <1>3

\* squish-pty and squish-unix relay the bytes of both directions in order, none
\* twice and none left out, whatever the sizes of reads, writes and the buffer;
\* and squish-pty ends with all the output of a simulator that has died, unless
\* standard output did not take it.
THEOREM Spec_RelayOK == RelaySpec => []RelayOK
<1>1. RelayInv => RelayOK
  BY DEF RelayInv, RelayOK, RelayInOrder, InOrder, Pipe
<1> QED
  BY <1>1, Init_RelayInv, Next_RelayInv, PTL DEF RelaySpec
=============================================================================
