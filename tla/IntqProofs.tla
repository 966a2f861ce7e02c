----------------------------- MODULE IntqProofs -----------------------------
(***************************************************************************)
(* The ring buffer of devices/intq.c implements a FIFO queue, for a buffer *)
(* of any size and any use by threads and handlers: every step of the      *)
(* queue's functions is a step of Fifo or leaves the contents alone.       *)
(*                                                                         *)
(* Waiting is right as well: a thread that sleeps in wait() is the one the *)
(* queue names.  That rests on the lock, which lets one thread at a time   *)
(* between the test and the wake-up, and on interrupts being off from the  *)
(* test to the sleep; the scheduler below is the one ThreadsProofs is      *)
(* about.                                                                  *)
(***************************************************************************)
EXTENDS Intq, ThreadsProofs

\* Most leaves are first-order and Zenon's; arithmetic and the rest are Z3's.
USE ZenonT(30), SMTT(60)

-----------------------------------------------------------------------------
(* Positions *)

\* The bytes in ring b between tail position t and head position h.
Ring(b, h, t) == [i \in 1 .. (h + INTQ_BUFSIZE - t) % INTQ_BUFSIZE |->
                    b[(t + i - 1) % INTQ_BUFSIZE]]

\* Their number, and the position of the i-th, without remainders.
used(h, t) == IF h >= t THEN h - t ELSE h + INTQ_BUFSIZE - t
slot(t, i) == IF t + i - 1 < INTQ_BUFSIZE THEN t + i - 1 ELSE t + i - 1 - INTQ_BUFSIZE

LEMMA Seq_Same ==
  ASSUME NEW S, NEW s \in Seq(S), NEW t \in Seq(S), Len(s) = Len(t), \A i \in 1 .. Len(s) : s[i] = t[i]
  PROVE  s = t
  OBVIOUS

LEMMA Wrap ==
  ASSUME NEW x \in 0 .. 2 * INTQ_BUFSIZE - 1
  PROVE  x % INTQ_BUFSIZE = IF x < INTQ_BUFSIZE THEN x ELSE x - INTQ_BUFSIZE
<1>1. INTQ_BUFSIZE \in Nat /\ INTQ_BUFSIZE > 1
  BY IntqAssumption
<1> DEFINE n == INTQ_BUFSIZE
<1>2. CASE x < n
  BY <1>1, <1>2
<1>3. CASE ~(x < n)
  BY <1>1, <1>3
<1> QED
  BY <1>2, <1>3

LEMMA Next_Pos ==
  ASSUME NEW h \in Index
  PROVE  /\ next(h) \in Index /\ next(h) = IF h + 1 = INTQ_BUFSIZE THEN 0 ELSE h + 1
<1>1. INTQ_BUFSIZE \in Nat /\ INTQ_BUFSIZE > 1 /\ h \in Nat
  BY IntqAssumption, SMTT(60) DEF Index
<1>2. h + 1 \in 0 .. 2 * INTQ_BUFSIZE - 1
  BY <1>1 DEF Index
<1>3. next(h) = IF h + 1 < INTQ_BUFSIZE THEN h + 1 ELSE h + 1 - INTQ_BUFSIZE
  <2>1. (h + 1) % INTQ_BUFSIZE = IF h + 1 < INTQ_BUFSIZE THEN h + 1 ELSE h + 1 - INTQ_BUFSIZE
    BY <1>1, <1>2, Wrap, SMTT(60)
  <2> QED
    BY <2>1 DEF next
<1> QED
  BY <1>1, <1>3 DEF Index

LEMMA Ring_Seq ==
  ASSUME NEW b \in [Index -> Byte], NEW h \in Index, NEW t \in Index
  PROVE  /\ used(h, t) \in 0 .. INTQ_BUFSIZE - 1
         /\ Ring(b, h, t) \in Seq(Byte) /\ Len(Ring(b, h, t)) = used(h, t)
         /\ \A i \in 1 .. used(h, t) : slot(t, i) \in Index /\ Ring(b, h, t)[i] = b[slot(t, i)]
<1>1. INTQ_BUFSIZE \in Nat /\ INTQ_BUFSIZE > 1 /\ h \in Nat /\ t \in Nat /\ h < INTQ_BUFSIZE /\ t < INTQ_BUFSIZE
  BY IntqAssumption, SMTT(60) DEF Index
<1>2. used(h, t) \in 0 .. INTQ_BUFSIZE - 1
  BY <1>1 DEF used
<1>3. (h + INTQ_BUFSIZE - t) % INTQ_BUFSIZE = used(h, t)
  <2>1. h + INTQ_BUFSIZE - t \in 0 .. 2 * INTQ_BUFSIZE - 1
    BY <1>1
  <2> QED
    BY <1>1, <2>1, Wrap, SMTT(60) DEF used
<1>4. ASSUME NEW i \in 1 .. used(h, t)
      PROVE  slot(t, i) \in Index /\ (t + i - 1) % INTQ_BUFSIZE = slot(t, i)
  <2>1. t + i - 1 \in 0 .. 2 * INTQ_BUFSIZE - 1
    BY <1>1, <1>2
  <2>2. (t + i - 1) % INTQ_BUFSIZE = slot(t, i)
    BY <1>1, <1>2, <2>1, Wrap, SMTT(60) DEF slot
  <2>3. slot(t, i) \in Index
    BY <1>1, <1>2, <2>1, SMTT(60) DEF slot, Index
  <2> QED
    BY <2>2, <2>3
<1>5. Ring(b, h, t) = [i \in 1 .. used(h, t) |-> b[slot(t, i)]]
  BY <1>3, <1>4 DEF Ring
<1>6. Ring(b, h, t) \in [1 .. used(h, t) -> Byte]
  BY <1>4, <1>5
<1>7. used(h, t) \in Nat
  BY <1>1, <1>2
<1>8. Ring(b, h, t) \in Seq(Byte)
  BY <1>6, <1>7
<1>9. DOMAIN Ring(b, h, t) = 1 .. used(h, t)
  BY <1>5
<1>10. Len(Ring(b, h, t)) = used(h, t)
  <2>1. /\ Len(Ring(b, h, t)) \in Nat /\ DOMAIN Ring(b, h, t) = 1 .. Len(Ring(b, h, t))
    BY <1>8
  <2> QED
    BY <1>7, <1>9, <2>1
<1> QED
  BY <1>2, <1>4, <1>5, <1>8, <1>10

\* intq_getc() takes the first byte off.
LEMMA Ring_Take ==
  ASSUME NEW b \in [Index -> Byte], NEW h \in Index, NEW t \in Index, h # t
  PROVE  /\ Ring(b, h, t) # <<>> /\ Head(Ring(b, h, t)) = b[t]
         /\ Ring(b, h, next(t)) = Tail(Ring(b, h, t))
<1> DEFINE r == Ring(b, h, t)
           s == Ring(b, h, next(t))
<1>1. INTQ_BUFSIZE \in Nat /\ INTQ_BUFSIZE > 1 /\ h \in Nat /\ t \in Nat /\ h < INTQ_BUFSIZE /\ t < INTQ_BUFSIZE
  BY IntqAssumption, SMTT(60) DEF Index
<1>2. /\ next(t) \in Index /\ next(t) = IF t + 1 = INTQ_BUFSIZE THEN 0 ELSE t + 1
  BY Next_Pos
<1>3. /\ r \in Seq(Byte) /\ Len(r) = used(h, t) /\ used(h, t) \in 0 .. INTQ_BUFSIZE - 1
      /\ \A i \in 1 .. used(h, t) : r[i] = b[slot(t, i)]
  BY Ring_Seq
<1>4. /\ s \in Seq(Byte) /\ Len(s) = used(h, next(t)) /\ used(h, next(t)) \in 0 .. INTQ_BUFSIZE - 1
      /\ \A i \in 1 .. used(h, next(t)) : s[i] = b[slot(next(t), i)]
  BY <1>2, Ring_Seq
<1>5. used(h, next(t)) = used(h, t) - 1
  BY <1>1, <1>2 DEF used
<1>6. \A i \in 1 .. used(h, t) - 1 : slot(next(t), i) = slot(t, i + 1) /\ i + 1 \in 1 .. used(h, t)
  BY <1>1, <1>2, <1>3 DEF slot
<1>7. slot(t, 1) = t /\ 1 \in 1 .. used(h, t)
  BY <1>1 DEF slot, used
<1> HIDE DEF r, s
<1>8. r # <<>>
  BY <1>3, <1>7
<1>9. Head(r) = b[t]
  BY <1>3, <1>7, <1>8, SMTT(60)
<1>10. /\ Tail(r) \in Seq(Byte) /\ Len(Tail(r)) = Len(r) - 1
       /\ \A i \in 1 .. Len(Tail(r)) : Tail(r)[i] = r[i + 1]
  BY <1>3, <1>8
<1>11. \A i \in 1 .. Len(s) : s[i] = Tail(r)[i]
  BY <1>3, <1>4, <1>5, <1>6, <1>10, SMTT(60)
<1>12. s = Tail(r)
  BY <1>3, <1>4, <1>5, <1>10, <1>11, Seq_Same
<1> QED
  BY <1>8, <1>9, <1>12 DEF r, s

\* intq_putc() puts a byte behind the others, if there is room for it.
LEMMA Ring_Put ==
  ASSUME NEW b \in [Index -> Byte], NEW h \in Index, NEW t \in Index, next(h) # t, NEW x \in Byte
  PROVE  /\ Len(Ring(b, h, t)) < INTQ_BUFSIZE - 1
         /\ Ring([b EXCEPT ![h] = x], next(h), t) = Append(Ring(b, h, t), x)
<1> DEFINE b2 == [b EXCEPT ![h] = x]
           r == Ring(b, h, t)
           s == Ring(b2, next(h), t)
<1>1. INTQ_BUFSIZE \in Nat /\ INTQ_BUFSIZE > 1 /\ h \in Nat /\ t \in Nat /\ h < INTQ_BUFSIZE /\ t < INTQ_BUFSIZE
  BY IntqAssumption, SMTT(60) DEF Index
<1>2. /\ next(h) \in Index /\ next(h) = IF h + 1 = INTQ_BUFSIZE THEN 0 ELSE h + 1
  BY Next_Pos
<1>3. b2 \in [Index -> Byte] /\ b2[h] = x /\ \A i \in Index \ {h} : b2[i] = b[i]
  OBVIOUS
<1> HIDE DEF b2
<1>4. /\ r \in Seq(Byte) /\ Len(r) = used(h, t) /\ used(h, t) \in 0 .. INTQ_BUFSIZE - 1
      /\ \A i \in 1 .. used(h, t) : slot(t, i) \in Index /\ r[i] = b[slot(t, i)]
  BY Ring_Seq
<1>5. /\ s \in Seq(Byte) /\ Len(s) = used(next(h), t)
      /\ \A i \in 1 .. used(next(h), t) : s[i] = b2[slot(t, i)]
  BY <1>2, <1>3, Ring_Seq
<1>6. used(next(h), t) = used(h, t) + 1 /\ used(h, t) < INTQ_BUFSIZE - 1
  BY <1>1, <1>2 DEF used
<1>7. \A i \in 1 .. used(h, t) : slot(t, i) # h
  BY <1>1, <1>4 DEF slot, used
<1>8. slot(t, used(h, t) + 1) = h
  BY <1>1, <1>4 DEF slot, used
<1> HIDE DEF r, s
<1>9. Len(r) \in Nat /\ Append(r, x) \in Seq(Byte) /\ Len(Append(r, x)) = Len(r) + 1
  BY <1>4
<1>10. ASSUME NEW i \in 1 .. Len(s) PROVE s[i] = Append(r, x)[i]
  <2>1. s[i] = b2[slot(t, i)] /\ i \in 1 .. used(h, t) + 1
    BY <1>4, <1>5, <1>6, <1>9
  <2>2. CASE i \in 1 .. used(h, t)
    <3>1. s[i] = r[i]
      BY <1>3, <1>4, <1>7, <2>1, <2>2
    <3>2. Append(r, x)[i] = r[i]
      BY <1>4, <1>9, <2>2
    <3> QED
      BY <3>1, <3>2
  <2>3. CASE i = used(h, t) + 1
    <3>1. s[i] = x
      BY <1>3, <1>8, <2>1, <2>3
    <3>2. Append(r, x)[i] = x
      BY <1>4, <1>9, <2>3
    <3> QED
      BY <3>1, <3>2
  <2>4. i \in 1 .. used(h, t) \/ i = used(h, t) + 1
    <3>1. used(h, t) \in Nat
      BY <1>4, <1>9
    <3> QED
      BY <2>1, <3>1
  <2> QED
    BY <2>2, <2>3, <2>4
<1>11. s = Append(r, x)
  BY <1>4, <1>5, <1>6, <1>9, <1>10, Seq_Same
<1> QED
  BY <1>4, <1>6, <1>11 DEF r, s, b2

-----------------------------------------------------------------------------
(* The queue's functions *)

\* The buffer keeps its type.
RingInv ==
  /\ buf \in [Index -> Byte] /\ head \in Index /\ tail \in Index
  /\ arg \in [Thread -> Byte] /\ last \in Byte

FifoStep == Queue!FifoNext \/ UNCHANGED <<Contents, last>>

LEMMA Contents_Ring == Contents = Ring(buf, head, tail) /\ Contents' = Ring(buf', head', tail')
  BY DEF Contents, Ring

LEMMA Take_Get ==
  ASSUME RingInv, ~intq_empty, take
  PROVE  RingInv' /\ FifoStep
<1>1. /\ buf \in [Index -> Byte] /\ head \in Index /\ tail \in Index /\ head # tail
  BY DEF RingInv, intq_empty
<1>2. last' = buf[tail] /\ tail' = next(tail) /\ UNCHANGED <<buf, head, arg>>
  BY DEF take
<1>3. RingInv'
  BY <1>1, <1>2, Next_Pos DEF RingInv
<1>4. /\ Ring(buf, head, tail) # <<>> /\ Head(Ring(buf, head, tail)) = buf[tail]
      /\ Ring(buf, head, next(tail)) = Tail(Ring(buf, head, tail))
  BY <1>1, Ring_Take
<1>5. Contents # <<>> /\ last' = Head(Contents) /\ Contents' = Tail(Contents)
  BY <1>2, <1>4, Contents_Ring
<1> QED
  BY <1>3, <1>5 DEF FifoStep, Queue!FifoNext, Queue!Get

LEMMA Store_Put ==
  ASSUME RingInv, ~intq_full, NEW b \in Byte, store(b)
  PROVE  RingInv' /\ FifoStep
<1>1. /\ buf \in [Index -> Byte] /\ head \in Index /\ tail \in Index /\ next(head) # tail
  BY DEF RingInv, intq_full
<1>2. buf' = [buf EXCEPT ![head] = b] /\ head' = next(head) /\ UNCHANGED <<tail, arg, last>>
  BY DEF store
<1>3. RingInv'
  BY <1>1, <1>2, Next_Pos DEF RingInv
<1>4. /\ Len(Ring(buf, head, tail)) < INTQ_BUFSIZE - 1
      /\ Ring([buf EXCEPT ![head] = b], next(head), tail) = Append(Ring(buf, head, tail), b)
  BY <1>1, Ring_Put
<1>5. Len(Contents) < INTQ_BUFSIZE - 1 /\ Contents' = Append(Contents, b)
  BY <1>2, <1>4, Contents_Ring
<1> QED
  BY <1>2, <1>3, <1>5 DEF FifoStep, Queue!FifoNext, Queue!Put

LEMMA Alone ==
  ASSUME RingInv, UNCHANGED <<buf, head, tail, last>>, arg' \in [Thread -> Byte]
  PROVE  RingInv' /\ FifoStep
<1>1. RingInv'
  BY DEF RingInv
<1>2. UNCHANGED <<Contents, last>>
  BY Contents_Ring
<1> QED
  BY <1>1, <1>2 DEF FifoStep

LEMMA Intq_Init == IntqInit => RingInv /\ Queue!FifoInit
<1> SUFFICES ASSUME IntqInit PROVE RingInv /\ Queue!FifoInit
  OBVIOUS
<1>1. INTQ_BUFSIZE \in Nat /\ INTQ_BUFSIZE > 1 /\ Byte # {}
  BY IntqAssumption
<1>2. Zero \in Byte
  BY <1>1 DEF Zero
<1>3. 0 \in Index
  BY <1>1 DEF Index
<1>4. RingInv
  BY <1>2, <1>3 DEF IntqInit, RingInv
<1>5. Contents \in Seq(Byte) /\ Len(Contents) = used(head, tail)
  BY <1>4, Contents_Ring, Ring_Seq DEF RingInv
<1>6. used(head, tail) = 0
  BY SMTT(60) DEF IntqInit, used
<1>7. Contents = <<>>
  BY <1>5, <1>6
<1> QED
  BY <1>2, <1>4, <1>7 DEF IntqInit, Queue!FifoInit

LEMMA Intq_Next == RingInv /\ [IntqNext]_vars => RingInv' /\ FifoStep
<1> SUFFICES ASSUME RingInv, [IntqNext]_vars PROVE RingInv' /\ FifoStep
  OBVIOUS
<1>1. arg \in [Thread -> Byte]
  BY DEF RingInv
<1>2. ASSUME NEW t \in Client, call(t) PROVE RingInv' /\ FifoStep
  <2>1. PICK b \in Byte : arg' = IF t \in Writer THEN [arg EXCEPT ![t] = b] ELSE arg
    BY <1>2 DEF call
  <2>2. arg' \in [Thread -> Byte]
    BY <1>1, <2>1
  <2>3. UNCHANGED <<buf, head, tail, last>>
    BY <1>2 DEF call
  <2> QED
    BY <2>2, <2>3, Alone
<1>3. ASSUME NEW t \in Client, while(t) PROVE RingInv' /\ FifoStep
  <2>1. CASE loops(t) /\ UNCHANGED qvars
    <3>1. UNCHANGED <<buf, head, tail, last, arg>>
      BY <2>1 DEF qvars
    <3> QED
      BY <1>1, <3>1, Alone
  <2>2. CASE ~loops(t) /\ t \in Reader /\ take
    BY <2>2, Take_Get DEF loops, must_wait
  <2>3. CASE ~loops(t) /\ t \notin Reader /\ store(arg[t])
    <3>1. arg[t] \in Byte
      BY <1>1 DEF Client
    <3> QED
      BY <2>3, <3>1, Store_Put DEF loops, must_wait
  <2> QED
    BY <1>3, <2>1, <2>2, <2>3 DEF while
<1>4. ASSUME NEW t \in Client, done(t) \/ lock_acquire(t) \/ wait(t) \/ lock_release(t) PROVE RingInv' /\ FifoStep
  <2>1. UNCHANGED <<buf, head, tail, last, arg>>
    BY <1>4 DEF done, lock_acquire, wait, lock_release, qvars
  <2> QED
    BY <1>1, <2>1, Alone
<1>5. ASSUME Ticks \/ Idles \/ (\E t \in Thread : Resumes(t)) \/ UNCHANGED vars PROVE RingInv' /\ FifoStep
  <2>1. UNCHANGED <<buf, head, tail, last, arg>>
    BY <1>5 DEF Ticks, Idles, Resumes, vars, qvars
  <2> QED
    BY <1>1, <2>1, Alone
<1>6. ASSUME NEW b \in Byte, handler_put(b) PROVE RingInv' /\ FifoStep
  BY <1>6, Store_Put DEF handler_put
<1>7. ASSUME handler_get PROVE RingInv' /\ FifoStep
  BY <1>7, Take_Get DEF handler_get
<1> QED
  BY <1>2, <1>3, <1>4, <1>5, <1>6, <1>7 DEF IntqNext, InQueue

\* The ring buffer implements Fifo, for every INTQ_BUFSIZE above one and every
\* set of readers, writers and handlers: bytes come out once and in the order
\* in which they were put in, and never more than INTQ_BUFSIZE - 1 are inside.
THEOREM Spec_IsFifo == IntqSpec => IsFifo
<1>1. IntqInit => RingInv /\ Queue!FifoInit
  BY Intq_Init
<1>2. RingInv /\ [IntqNext]_vars => RingInv' /\ [Queue!FifoNext]_<<Contents, last>>
  BY Intq_Next DEF FifoStep
<1> QED
  BY <1>1, <1>2, PTL DEF IntqSpec, IsFifo, Queue!FifoSpec

-----------------------------------------------------------------------------
(* Threads that wait *)

QLabel == {"run", "while", "done", "lock", "wait", "unlock", "hlt", "loop", "block", "blocked"}

WaitTypes ==
  /\ use \in Use /\ idle_thread = Idle /\ pc \in [Thread -> QLabel]
  /\ not_full \in Client \cup {None} /\ not_empty \in Client \cup {None}
  /\ value \in [Sema -> 0 .. 1] /\ waiters \in [Sema -> Seq(Client)]

\* t has the queue's lock.
HasLock(t) == pc[t] \in {"wait", "unlock"}

LockInv ==
  \/ value[qlock] = 1 /\ \A t \in Client : ~HasLock(t)
  \/ value[qlock] = 0 /\ \E t \in Client : HasLock(t) /\ \A u \in Client : HasLock(u) => u = t

\* Who is on the lock's list of waiters sleeps in lock_acquire().
Queued ==
  /\ Distinct(waiters[qlock])
  /\ \A t \in Client : On(t, waiters[qlock]) => pc[t] = "lock" /\ Asleep(t)

\* Only callers of the queue are inside, with interrupts off when they run; nobody else
\* runs while one of them is between two steps in which it does not sleep.
Masked ==
  \A t \in Client :
    /\ pc[t] \in {"while", "wait", "done"} => cur = t /\ intr = "off"
    /\ pc[t] \in {"lock", "unlock"} /\ cur = t => intr = "off"
    /\ pc[t] # "run" => t \in Reader \cup Writer

\* Of a name in the queue, the part of WaiterOK.
Named ==
  /\ not_empty # None => intq_empty
  /\ not_full # None => intq_full
  /\ \A t \in Client : (pc[t] = "unlock" /\ Asleep(t)) <=> t \in {not_empty, not_full}

\* One thread alone never sleeps for the lock, so that what it has seen still holds
\* in wait().
Unraced == OneThread => ~halted /\ \A t \in Client : pc[t] \in {"lock", "wait"} => cur = t /\ must_wait(t)

IntqInv == IInv /\ RingInv /\ WaitTypes /\ LockInv /\ Queued /\ Masked /\ Named /\ Unraced

LEMMA Queue_Kinds ==
  /\ Client = Thread \ {Idle} /\ Client \subseteq Thread /\ Idle \notin Client /\ Idle \in Thread
  /\ None \notin Client /\ None # Idle
  /\ qlock \in Sema /\ Sema = {qlock}
  /\ \A u \in Use : u.reader \cap u.writer = {}
  BY IntqAssumption, ThreadAssumption DEF Client

LEMMA One_Caller ==
  ASSUME OneThread, NEW t \in Reader \cup Writer, NEW u \in Reader \cup Writer
  PROVE  t = u
  BY DEF OneThread

-----------------------------------------------------------------------------
(* The scheduler under the queue *)

\* A step leaves alone how the queue is used, and is a step of the scheduler or none.
QFrame == [Next]_tvars /\ UNCHANGED <<use, idle_thread>>

LEMMA Signal_Frame ==
  ASSUME NEW w \in Client \cup {None}, signal(w)
  PROVE  [Next]_tvars /\ UNCHANGED idle_thread
<1>1. CASE w = None
  BY <1>1 DEF signal, tvars
<1>2. CASE w # None
  <2>1. thread_unblock(w) /\ w \in Thread
    BY <1>2, Queue_Kinds DEF signal
  <2> QED
    BY <2>1 DEF Next, thread_unblock
<1> QED
  BY <1>1, <1>2

LEMMA Intq_Frame ==
  ASSUME IntqInv, [IntqNext]_vars
  PROVE  QFrame
<1>1. not_full \in Client \cup {None} /\ not_empty \in Client \cup {None} /\ waiters \in [Sema -> Seq(Client)]
  BY DEF IntqInv, WaitTypes
<1>2. take \/ (\E b : store(b)) => QFrame
  BY <1>1, Signal_Frame DEF take, store, QFrame
<1>3. ASSUME NEW t \in Client, call(t) PROVE QFrame
  BY <1>3 DEF call, intr_disable, QFrame, Next
<1>4. ASSUME NEW t \in Client, while(t) PROVE QFrame
  <2>1. CASE UNCHANGED <<tvars, qvars>>
    BY <2>1 DEF QFrame, tvars, qvars
  <2> QED
    BY <1>2, <1>4, <2>1 DEF while
<1>5. ASSUME NEW t \in Client, done(t) PROVE QFrame
  BY <1>5 DEF done, intr_enable, QFrame, Next, qvars
<1>6. ASSUME NEW t \in Client, lock_acquire(t) PROVE QFrame
  <2>1. UNCHANGED use
    BY <1>6 DEF lock_acquire, qvars
  <2>2. CASE thread_block
    BY <2>1, <2>2 DEF QFrame, Next, thread_block
  <2>3. CASE UNCHANGED tvars
    BY <2>1, <2>3 DEF QFrame, tvars
  <2> QED
    BY <1>6, <2>2, <2>3 DEF lock_acquire
<1>7. ASSUME NEW t \in Client, wait(t) PROVE QFrame
  <2>1. UNCHANGED use
    BY <1>7 DEF wait
  <2>2. CASE thread_block
    BY <2>1, <2>2 DEF QFrame, Next, thread_block
  <2>3. CASE UNCHANGED tvars
    BY <2>1, <2>3 DEF QFrame, tvars
  <2> QED
    BY <1>7, <2>2, <2>3 DEF wait
<1>8. ASSUME NEW t \in Client, lock_release(t) PROVE QFrame
  <2>1. UNCHANGED use /\ up(qlock)
    BY <1>8 DEF lock_release, qvars
  <2>2. CASE UNCHANGED tvars
    BY <2>1, <2>2 DEF QFrame, tvars
  <2>3. CASE waiters[qlock] # <<>> /\ thread_unblock(Head(waiters[qlock]))
    <3>1. Head(waiters[qlock]) \in Thread
      BY <1>1, <2>3, Queue_Kinds, Tail_On
    <3> QED
      BY <2>1, <2>3, <3>1 DEF QFrame, Next, thread_unblock
  <2> QED
    BY <2>1, <2>2, <2>3 DEF up
<1>9. ASSUME NEW t \in Thread, Resumes(t) PROVE QFrame
  BY <1>9 DEF Resumes, resume, intr_enable, QFrame, Next, qvars
<1>10. CASE Ticks
  <2>1. timer_interrupt /\ UNCHANGED use
    BY <1>10 DEF Ticks, tick, qvars
  <2> QED
    BY <2>1 DEF QFrame, Next, timer_interrupt, thread_yield
<1>11. CASE Idles
  <2>1. (intr_enable \/ intr_disable \/ thread_block) /\ UNCHANGED use
    BY <1>11 DEF Idles, idle_loop, qvars
  <2> QED
    BY <2>1 DEF QFrame, Next, intr_enable, intr_disable, thread_block
<1>12. ASSUME NEW b \in Byte, handler_put(b) PROVE QFrame
  BY <1>2, <1>12 DEF handler_put
<1>13. CASE handler_get
  BY <1>2, <1>13 DEF handler_get
<1>14. CASE UNCHANGED vars
  BY <1>14 DEF vars, tvars, qvars, QFrame
<1> QED
  BY <1>3, <1>4, <1>5, <1>6, <1>7, <1>8, <1>9, <1>10, <1>11, <1>12, <1>13, <1>14 DEF IntqNext, InQueue

-----------------------------------------------------------------------------
(* The steps *)

\* What the steps use of the invariant.
LEMMA Intq_Types ==
  ASSUME IntqInv
  PROVE  /\ IInv /\ RingInv /\ WaitTypes /\ LockInv /\ Queued /\ Masked /\ Named /\ Unraced
         /\ pc \in [Thread -> QLabel] /\ idle_thread = Idle /\ waiters \in [Sema -> Seq(Client)]
         /\ not_full \in Client \cup {None} /\ not_empty \in Client \cup {None}
         /\ value[qlock] \in 0 .. 1 /\ waiters[qlock] \in Seq(Client)
         /\ \A t \in Client : cur = t => ~Asleep(t)
<1>1. IInv /\ WaitTypes
  BY DEF IntqInv
<1>2. \A t \in Client : cur = t => ~Asleep(t)
  BY <1>1, Awake
<1> QED
  BY <1>1, <1>2, Queue_Kinds DEF IntqInv, WaitTypes

\* A signal wakes the thread that is named, and nobody is named afterwards.
Signalled ==
  /\ UNCHANGED <<cur, intr>>
  /\ not_empty' = None /\ not_full' = None
  /\ \A t \in Client : Asleep(t)' <=> Asleep(t) /\ pc[t] # "unlock"

LEMMA Signal_Wakes ==
  ASSUME IntqInv, NEW w \in Client \cup {None}, signal(w),
         \A t \in Client : t \in {not_empty, not_full} <=> t = w
  PROVE  UNCHANGED <<cur, intr>> /\ \A t \in Client : Asleep(t)' <=> Asleep(t) /\ pc[t] # "unlock"
<1>1. IInv /\ Named /\ None \notin Client /\ Client \subseteq Thread
  BY Intq_Types, Queue_Kinds
<1>2. \A t \in Client : (pc[t] = "unlock" /\ Asleep(t)) <=> t = w
  BY <1>1 DEF Named
<1>3. CASE w = None
  <2>1. UNCHANGED <<cur, intr, status>>
    BY <1>3 DEF signal, tvars
  <2> QED
    BY <1>1, <1>2, <1>3, <2>1 DEF Asleep
<1>4. CASE w # None
  <2>1. thread_unblock(w) /\ w \in Thread
    BY <1>1, <1>4 DEF signal
  <2>2. (\A t \in Thread : Asleep(t)' <=> Asleep(t) /\ t # w) /\ UNCHANGED <<cur, intr>>
    BY <1>1, <2>1, Unblock_Asleep
  <2> QED
    BY <1>1, <1>2, <2>2
<1> QED
  BY <1>3, <1>4

LEMMA Take_Signals ==
  ASSUME IntqInv, ~intq_empty, take
  PROVE  Signalled
<1>1. Named /\ not_full \in Client \cup {None} /\ None \notin Client
  BY Intq_Types, Queue_Kinds
<1>2. not_empty = None
  BY <1>1 DEF Named
<1>3. signal(not_full) /\ not_full' = None /\ not_empty' = None
  BY <1>2 DEF take
<1>4. \A t \in Client : t \in {not_empty, not_full} <=> t = not_full
  BY <1>1, <1>2
<1>5. UNCHANGED <<cur, intr>> /\ \A t \in Client : Asleep(t)' <=> Asleep(t) /\ pc[t] # "unlock"
  BY <1>1, <1>3, <1>4, Signal_Wakes
<1> QED
  BY <1>3, <1>5 DEF Signalled

LEMMA Store_Signals ==
  ASSUME IntqInv, ~intq_full, NEW b, store(b)
  PROVE  Signalled
<1>1. Named /\ not_empty \in Client \cup {None} /\ None \notin Client
  BY Intq_Types, Queue_Kinds
<1>2. not_full = None
  BY <1>1 DEF Named
<1>3. signal(not_empty) /\ not_full' = None /\ not_empty' = None
  BY <1>2 DEF store
<1>4. \A t \in Client : t \in {not_empty, not_full} <=> t = not_empty
  BY <1>1, <1>2
<1>5. UNCHANGED <<cur, intr>> /\ \A t \in Client : Asleep(t)' <=> Asleep(t) /\ pc[t] # "unlock"
  BY <1>1, <1>3, <1>4, Signal_Wakes
<1> QED
  BY <1>3, <1>5 DEF Signalled

\* The frame of every step.
LEMMA Intq_Framed ==
  ASSUME IntqInv, [IntqNext]_vars
  PROVE  IInv' /\ RingInv' /\ UNCHANGED <<use, Reader, Writer, idle_thread, OneThread>>
<1>1. QFrame
  BY Intq_Frame
<1>2. IInv' /\ RingInv'
  BY <1>1, Next_IInv, Intq_Next, Intq_Types DEF QFrame
<1> QED
  BY <1>1, <1>2 DEF QFrame, Reader, Writer, OneThread

\* A signalling step, by a caller t that goes to "done" or by a handler.
LEMMA Signalled_Keeps ==
  ASSUME IntqInv, [IntqNext]_vars, Signalled, pc' \in [Thread -> QLabel], UNCHANGED <<value, waiters, halted>>,
         \/ intr = "on" /\ \A u \in Client : pc'[u] = pc[u]
         \/ \E t \in Client : cur = t /\ pc[t] = "while" /\ pc'[t] = "done"
                              /\ \A u \in Client \ {t} : pc'[u] = pc[u]
  PROVE  IntqInv'
<1>1. IInv' /\ RingInv' /\ UNCHANGED <<use, Reader, Writer, idle_thread, OneThread>>
  BY Intq_Framed
<1>2. WaitTypes'
  BY <1>1, Intq_Types DEF WaitTypes, Signalled
<1>3. \A u \in Client : pc'[u] = pc[u] \/ (pc[u] = "while" /\ pc'[u] = "done" /\ cur = u)
  OBVIOUS
<1>4. LockInv'
  <2>1. \A u \in Client : HasLock(u)' <=> HasLock(u)
    BY <1>3 DEF HasLock
  <2> QED
    BY <2>1, Intq_Types DEF LockInv
<1>5. Queued'
  <2>1. ASSUME NEW u \in Client, On(u, waiters[qlock]) PROVE pc'[u] = "lock" /\ Asleep(u)'
    BY <1>3, <2>1, Intq_Types DEF Queued, Signalled
  <2> QED
    BY <2>1, Intq_Types DEF Queued
<1>6. Masked'
  <2>1. ASSUME NEW u \in Client
        PROVE  /\ pc'[u] \in {"while", "wait", "done"} => cur' = u /\ intr' = "off"
               /\ pc'[u] \in {"lock", "unlock"} /\ cur' = u => intr' = "off"
               /\ pc'[u] # "run" => u \in Reader' \cup Writer'
    BY <1>1, <1>3, Intq_Types DEF Masked, Signalled
  <2> QED
    BY <2>1 DEF Masked
<1>7. Named'
  <2>1. ASSUME NEW u \in Client PROVE ~(pc'[u] = "unlock" /\ Asleep(u)') /\ u \notin {not_empty', not_full'}
    BY <1>3, Queue_Kinds DEF Signalled
  <2> QED
    BY <2>1 DEF Named, Signalled
<1>8. Unraced'
  <2>1. ASSUME OneThread, NEW u \in Client, pc'[u] \in {"lock", "wait"} PROVE FALSE
    <3>1. pc[u] \in {"lock", "wait"}
      BY <1>3, <2>1
    <3>2. cur = u /\ intr = "off"
      BY <2>1, <3>1, Intq_Types DEF Unraced, Masked
    <3> QED
      BY <1>3, <2>1, <3>1, <3>2
  <2>2. OneThread => ~halted
    BY Intq_Types DEF Unraced
  <2> QED
    BY <1>1, <2>1, <2>2 DEF Unraced
<1> QED
  BY <1>1, <1>2, <1>4, <1>5, <1>6, <1>7, <1>8 DEF IntqInv

\* A step that wakes nobody and puts nobody to sleep, and moves no sleeper.
LEMMA Quiet ==
  ASSUME IntqInv, UNCHANGED <<head, tail, not_empty, not_full, waiters>>,
         \A u \in Client : (Asleep(u)' <=> Asleep(u)) /\ (Asleep(u) => pc'[u] = pc[u])
  PROVE  Queued' /\ Named'
<1>1. Queued /\ Named
  BY Intq_Types
<1>2. Queued'
  BY <1>1 DEF Queued
<1>3. UNCHANGED <<intq_empty, intq_full>>
  BY DEF intq_empty, intq_full, next
<1>4. Named'
  BY <1>1, <1>3 DEF Named
<1> QED
  BY <1>2, <1>4

\* What a caller may still see when a step has left head and tail alone.
LEMMA Same_Wait ==
  ASSUME UNCHANGED <<head, tail, Reader>>
  PROVE  \A t : must_wait(t)' <=> must_wait(t)
  BY DEF must_wait, intq_empty, intq_full, next

\* goto() moves one thread.
LEMMA Goto_One ==
  ASSUME IntqInv, NEW t \in Client, NEW p \in QLabel, goto(t, p)
  PROVE  pc' \in [Thread -> QLabel] /\ pc'[t] = p /\ \A u \in Client \ {t} : pc'[u] = pc[u]
  BY Intq_Types, Queue_Kinds DEF goto

LEMMA Call_Keeps ==
  ASSUME IntqInv, NEW t \in Client, call(t) \/ done(t)
  PROVE  IntqInv'
<1>1. IInv' /\ RingInv' /\ UNCHANGED <<use, Reader, Writer, idle_thread, OneThread>>
  <2>1. [IntqNext]_vars
    BY DEF IntqNext, InQueue
  <2> QED
    BY <2>1, Intq_Framed
<1>2. /\ UNCHANGED <<cur, status, value, waiters, head, tail, not_full, not_empty, halted>> /\ cur = t
      /\ \/ pc[t] = "run" /\ goto(t, "while") /\ intr' = "off" /\ t \in Reader \cup Writer /\ ~halted
         \/ pc[t] = "done" /\ goto(t, "run")
  BY DEF call, done, intr_disable, intr_enable, At, qvars
<1>3. pc[t] \in {"run", "done"} /\ pc' \in [Thread -> QLabel] /\ \A u \in Client \ {t} : pc'[u] = pc[u]
  BY <1>2, Goto_One DEF QLabel
<1>4. \/ pc'[t] = "while" /\ intr' = "off" /\ t \in Reader \cup Writer
      \/ pc'[t] = "run"
  BY <1>2, Goto_One DEF QLabel
<1>5. \A u \in Client : (Asleep(u)' <=> Asleep(u)) /\ (Asleep(u) => pc'[u] = pc[u])
  BY <1>2, <1>3, Intq_Types DEF Asleep
<1>6. Queued' /\ Named'
  BY <1>2, <1>5, Quiet
<1>7. WaitTypes'
  BY <1>1, <1>2, <1>3, Intq_Types DEF WaitTypes
<1>8. LockInv'
  <2>1. \A u \in Client : HasLock(u)' <=> HasLock(u)
    BY <1>3, <1>4 DEF HasLock
  <2> QED
    BY <1>2, <2>1, Intq_Types DEF LockInv
<1>9. Masked'
  <2>1. ASSUME NEW u \in Client
        PROVE  /\ pc'[u] \in {"while", "wait", "done"} => cur' = u /\ intr' = "off"
               /\ pc'[u] \in {"lock", "unlock"} /\ cur' = u => intr' = "off"
               /\ pc'[u] # "run" => u \in Reader' \cup Writer'
    <3>1. CASE u = t
      BY <1>1, <1>2, <1>4, <3>1
    <3>2. CASE u # t
      BY <1>1, <1>2, <1>3, <3>2, Intq_Types DEF Masked
    <3> QED
      BY <3>1, <3>2
  <2> QED
    BY <2>1 DEF Masked
<1>10. Unraced'
  <2>1. ASSUME OneThread, NEW u \in Client, pc'[u] \in {"lock", "wait"} PROVE FALSE
    BY <1>2, <1>3, <1>4, <2>1, Intq_Types DEF Unraced
  <2>2. OneThread => ~halted
    BY Intq_Types DEF Unraced
  <2> QED
    BY <1>1, <1>2, <2>1, <2>2 DEF Unraced
<1> QED
  BY <1>1, <1>6, <1>7, <1>8, <1>9, <1>10 DEF IntqInv

LEMMA While_Keeps ==
  ASSUME IntqInv, NEW t \in Client, while(t)
  PROVE  IntqInv'
<1>1. [IntqNext]_vars /\ cur = t /\ pc[t] = "while" /\ UNCHANGED <<value, waiters>> /\ RingInv
  BY Intq_Types DEF IntqNext, InQueue, while
<1>2. IInv' /\ RingInv' /\ UNCHANGED <<use, Reader, Writer, idle_thread, OneThread>>
  BY <1>1, Intq_Framed
<1>3. CASE loops(t) /\ goto(t, "lock") /\ UNCHANGED <<tvars, qvars>>
  <2>1. UNCHANGED <<cur, intr, status, head, tail, not_full, not_empty, halted>> /\ must_wait(t)
    BY <1>3 DEF tvars, qvars, loops
  <2>2. pc' \in [Thread -> QLabel] /\ pc'[t] = "lock" /\ \A u \in Client \ {t} : pc'[u] = pc[u]
    BY <1>3, Goto_One DEF QLabel
  <2>3. Queued' /\ Named'
    <3>1. \A u \in Client : (Asleep(u)' <=> Asleep(u)) /\ (Asleep(u) => pc'[u] = pc[u])
      BY <1>1, <2>1, <2>2, Intq_Types DEF Asleep
    <3> QED
      BY <1>1, <2>1, <3>1, Quiet
  <2>4. WaitTypes'
    BY <1>1, <1>2, <2>1, <2>2, Intq_Types DEF WaitTypes
  <2>5. LockInv'
    <3>1. \A u \in Client : HasLock(u)' <=> HasLock(u)
      BY <1>1, <2>2 DEF HasLock
    <3> QED
      BY <1>1, <3>1, Intq_Types DEF LockInv
  <2>6. Masked'
    BY <1>1, <1>2, <2>1, <2>2, Intq_Types DEF Masked
  <2>7. Unraced'
    <3>1. \A u \in Client : must_wait(u)' <=> must_wait(u)
      BY <1>2, <2>1, Same_Wait
    <3>2. ASSUME OneThread, NEW u \in Client, pc'[u] \in {"lock", "wait"} PROVE cur' = u /\ must_wait(u)'
      BY <1>1, <2>1, <2>2, <3>1, <3>2, Intq_Types DEF Unraced
    <3>3. OneThread => ~halted
      BY Intq_Types DEF Unraced
    <3> QED
      BY <1>2, <2>1, <3>2, <3>3 DEF Unraced
  <2> QED
    BY <1>2, <2>3, <2>4, <2>5, <2>6, <2>7 DEF IntqInv
<1>4. CASE ~loops(t) /\ (IF t \in Reader THEN take ELSE store(arg[t])) /\ goto(t, "done") /\ UNCHANGED halted
  <2>1. Signalled
    BY <1>4, Take_Signals, Store_Signals DEF loops, must_wait
  <2>2. pc' \in [Thread -> QLabel] /\ pc'[t] = "done" /\ \A u \in Client \ {t} : pc'[u] = pc[u]
    BY <1>4, Goto_One DEF QLabel
  <2> QED
    BY <1>1, <1>4, <2>1, <2>2, Signalled_Keeps
<1> QED
  BY <1>3, <1>4 DEF while

\* The lock is free.
LEMMA Acquire_Keeps ==
  ASSUME IntqInv, NEW t \in Client, [IntqNext]_vars, cur = t, pc[t] = "lock", value[qlock] # 0,
         value' = [value EXCEPT ![qlock] = @ - 1], goto(t, "wait"), UNCHANGED <<tvars, qvars, waiters>>
  PROVE  IntqInv'
<1>1. IInv' /\ RingInv' /\ UNCHANGED <<use, Reader, Writer, idle_thread, OneThread>>
  BY Intq_Framed
<1>2. UNCHANGED <<cur, intr, status, head, tail, not_full, not_empty, halted>>
  BY DEF tvars, qvars
<1>3. pc' \in [Thread -> QLabel] /\ pc'[t] = "wait" /\ \A u \in Client \ {t} : pc'[u] = pc[u]
  BY Goto_One DEF QLabel
<1>4. value[qlock] = 1 /\ value'[qlock] = 0 /\ value' \in [Sema -> 0 .. 1]
  BY Intq_Types, Queue_Kinds, SMTT(60) DEF WaitTypes
<1>5. Queued' /\ Named'
  <2>1. \A u \in Client : (Asleep(u)' <=> Asleep(u)) /\ (Asleep(u) => pc'[u] = pc[u])
    BY <1>2, <1>3, Intq_Types DEF Asleep
  <2> QED
    BY <1>2, <2>1, Quiet
<1>6. WaitTypes'
  BY <1>1, <1>2, <1>3, <1>4, Intq_Types DEF WaitTypes
<1>7. LockInv'
  <2>1. \A u \in Client : ~HasLock(u)
    BY <1>4, Intq_Types DEF LockInv
  <2>2. HasLock(t)' /\ \A u \in Client : HasLock(u)' => u = t
    BY <1>3, <2>1 DEF HasLock
  <2> QED
    BY <1>4, <2>2 DEF LockInv
<1>8. Masked'
  BY <1>1, <1>2, <1>3, Intq_Types DEF Masked
<1>9. Unraced'
  <2>1. \A u \in Client : must_wait(u)' <=> must_wait(u)
    BY <1>1, <1>2, Same_Wait
  <2>2. ASSUME OneThread, NEW u \in Client, pc'[u] \in {"lock", "wait"} PROVE cur' = u /\ must_wait(u)'
    BY <1>2, <1>3, <2>1, <2>2, Intq_Types DEF Unraced
  <2>3. OneThread => ~halted
    BY Intq_Types DEF Unraced
  <2> QED
    BY <1>1, <1>2, <2>2, <2>3 DEF Unraced
<1> QED
  BY <1>1, <1>5, <1>6, <1>7, <1>8, <1>9 DEF IntqInv

\* The lock is taken: one thread alone does not get here.
LEMMA Sleep_Keeps ==
  ASSUME IntqInv, NEW t \in Client, [IntqNext]_vars, cur = t, pc[t] = "lock", value[qlock] = 0,
         waiters' = [waiters EXCEPT ![qlock] = Append(@, t)], thread_block, UNCHANGED <<value, pc, qvars>>
  PROVE  IntqInv'
<1>1. IInv' /\ RingInv' /\ UNCHANGED <<use, Reader, Writer, idle_thread, OneThread>>
  BY Intq_Framed
<1>2. UNCHANGED <<head, tail, not_full, not_empty, halted>>
  BY DEF qvars
<1>3. intr' = "off" /\ \A u \in Client : Asleep(u)' <=> u = t \/ Asleep(u)
  BY Intq_Types, Queue_Kinds, Block_Asleep
<1>4. ~Asleep(t) /\ ~On(t, waiters[qlock])
  BY Intq_Types DEF Queued
<1>5. PICK q : q = Append(waiters[qlock], t)
  OBVIOUS
<1>6. q \in Seq(Client) /\ Distinct(q) /\ \A u : On(u, q) <=> On(u, waiters[qlock]) \/ u = t
  BY <1>4, <1>5, Intq_Types, Append_On DEF Queued
<1>7. waiters' \in [Sema -> Seq(Client)] /\ waiters'[qlock] = q
  BY <1>5, <1>6, Intq_Types, Queue_Kinds
<1>8. WaitTypes'
  BY <1>1, <1>2, <1>7, Intq_Types DEF WaitTypes
<1>9. LockInv'
  BY Intq_Types DEF LockInv, HasLock
<1>10. Queued'
  BY <1>3, <1>6, <1>7, Intq_Types DEF Queued
<1>11. Masked'
  <2>1. \A u \in Client : pc[u] \notin {"while", "wait", "done"}
    BY Intq_Types DEF Masked
  <2> QED
    BY <1>1, <1>3, <2>1, Intq_Types DEF Masked
<1>12. Named'
  <2>1. UNCHANGED <<intq_empty, intq_full>>
    BY <1>2 DEF intq_empty, intq_full, next
  <2> QED
    BY <1>2, <1>3, <2>1, Intq_Types DEF Named
<1>13. ~OneThread
  <2>1. PICK u \in Client : HasLock(u)
    BY Intq_Types DEF LockInv
  <2>2. u # t /\ u \in Reader \cup Writer /\ t \in Reader \cup Writer
    BY <2>1, Intq_Types DEF HasLock, Masked
  <2> QED
    BY <2>2, One_Caller, Intq_Types
<1>14. Unraced'
  BY <1>1, <1>13 DEF Unraced
<1> QED
  BY <1>1, <1>8, <1>9, <1>10, <1>11, <1>12, <1>14 DEF IntqInv

\* wait() leaves its thread's name and sleeps.
LEMMA Registers_Keeps ==
  ASSUME IntqInv, NEW t \in Client, [IntqNext]_vars, cur = t, pc[t] = "wait", must_wait(t), registers(t),
         thread_block, goto(t, "unlock"), UNCHANGED <<value, waiters, head, tail, halted>>
  PROVE  IntqInv'
<1>1. IInv' /\ RingInv' /\ UNCHANGED <<use, Reader, Writer, idle_thread, OneThread>>
  BY Intq_Framed
<1>2. intr' = "off" /\ \A u \in Client : Asleep(u)' <=> u = t \/ Asleep(u)
  BY Intq_Types, Queue_Kinds, Block_Asleep
<1>3. pc' \in [Thread -> QLabel] /\ pc'[t] = "unlock" /\ \A u \in Client \ {t} : pc'[u] = pc[u]
  BY Goto_One DEF QLabel
<1>4. value[qlock] = 0 /\ HasLock(t) /\ \A u \in Client : HasLock(u) => u = t
  BY Intq_Types DEF LockInv, HasLock
<1>5. not_empty = None /\ not_full = None
  <2>1. \A u \in Client : pc[u] # "unlock"
    BY <1>4 DEF HasLock
  <2> QED
    BY <2>1, Intq_Types DEF Named
<1>6. t \in Reader \cup Writer /\ (t \in Reader => intq_empty) /\ (t \notin Reader => intq_full)
  BY Intq_Types DEF Masked, must_wait
<1>7. /\ not_empty' = IF t \in Reader THEN t ELSE None
      /\ not_full' = IF t \in Reader THEN None ELSE t
  BY <1>5 DEF registers
<1>8. WaitTypes'
  BY <1>1, <1>3, <1>7, Intq_Types DEF WaitTypes
<1>9. LockInv'
  <2>1. \A u \in Client : HasLock(u)' <=> HasLock(u)
    BY <1>3 DEF HasLock
  <2> QED
    BY <2>1, Intq_Types DEF LockInv
<1>10. Queued'
  <2>1. ASSUME NEW u \in Client, On(u, waiters[qlock]) PROVE pc'[u] = "lock" /\ Asleep(u)'
    BY <1>2, <1>3, <2>1, Intq_Types DEF Queued
  <2> QED
    BY <2>1, Intq_Types DEF Queued
<1>11. Masked'
  <2>1. \A u \in Client \ {t} : pc[u] \notin {"while", "wait", "done"}
    BY Intq_Types DEF Masked
  <2> QED
    BY <1>1, <1>2, <1>3, <1>6, <2>1, Intq_Types DEF Masked
<1>12. Named'
  <2>1. UNCHANGED <<intq_empty, intq_full>>
    BY DEF intq_empty, intq_full, next
  <2>2. \A u \in Client : u \in {not_empty', not_full'} <=> u = t
    BY <1>7, Queue_Kinds
  <2>3. \A u \in Client : (pc'[u] = "unlock" /\ Asleep(u)') <=> u = t
    BY <1>2, <1>3, <1>4 DEF HasLock
  <2>4. (not_empty' # None => intq_empty') /\ (not_full' # None => intq_full')
    BY <1>6, <1>7, <2>1
  <2> QED
    BY <2>2, <2>3, <2>4 DEF Named
<1>13. Unraced'
  <2>1. ASSUME OneThread, NEW u \in Client, pc'[u] \in {"lock", "wait"} PROVE FALSE
    BY <1>3, <2>1, Intq_Types DEF Unraced
  <2>2. OneThread => ~halted
    BY Intq_Types DEF Unraced
  <2> QED
    BY <1>1, <2>1, <2>2 DEF Unraced
<1> QED
  BY <1>1, <1>8, <1>9, <1>10, <1>11, <1>12, <1>13 DEF IntqInv

\* The assertion of wait() fails: not if one thread is alone.
LEMMA Halt_Keeps ==
  ASSUME IntqInv, NEW t \in Client, [IntqNext]_vars, cur = t, pc[t] = "wait", ~must_wait(t),
         UNCHANGED <<tvars, pc, not_empty, not_full, value, waiters, head, tail>>
  PROVE  IntqInv'
<1>1. IInv' /\ RingInv' /\ UNCHANGED <<use, Reader, Writer, idle_thread, OneThread>>
  BY Intq_Framed
<1>2. UNCHANGED <<cur, intr, status>>
  BY DEF tvars
<1>3. Queued' /\ Named'
  <2>1. \A u \in Client : (Asleep(u)' <=> Asleep(u)) /\ (Asleep(u) => pc'[u] = pc[u])
    BY <1>2 DEF Asleep
  <2> QED
    BY <2>1, Quiet
<1>4. WaitTypes' /\ LockInv' /\ Masked'
  BY <1>1, <1>2, Intq_Types DEF WaitTypes, LockInv, HasLock, Masked
<1>5. Unraced'
  BY <1>1, Intq_Types DEF Unraced
<1> QED
  BY <1>1, <1>3, <1>4, <1>5 DEF IntqInv

LEMMA Release_Keeps ==
  ASSUME IntqInv, NEW t \in Client, lock_release(t)
  PROVE  IntqInv'
<1>1. /\ [IntqNext]_vars /\ cur = t /\ pc[t] = "unlock" /\ goto(t, "while") /\ up(qlock)
      /\ UNCHANGED <<head, tail, not_full, not_empty, halted>>
  BY DEF IntqNext, InQueue, lock_release, qvars
<1>2. IInv' /\ RingInv' /\ UNCHANGED <<use, Reader, Writer, idle_thread, OneThread>>
  BY <1>1, Intq_Framed
<1>3. pc' \in [Thread -> QLabel] /\ pc'[t] = "while" /\ \A u \in Client \ {t} : pc'[u] = pc[u]
  BY <1>1, Goto_One DEF QLabel
<1>4. value[qlock] = 0 /\ \A u \in Client : HasLock(u) => u = t
  BY <1>1, Intq_Types DEF LockInv, HasLock
<1>5. value'[qlock] = 1 /\ value' \in [Sema -> 0 .. 1]
  BY <1>1, <1>4, Intq_Types, Queue_Kinds, SMTT(60) DEF up, WaitTypes
<1>6. /\ UNCHANGED <<cur, intr>> /\ waiters' \in [Sema -> Seq(Client)] /\ Distinct(waiters'[qlock])
      /\ \E w : /\ w \in Client => pc[w] = "lock"
                /\ \A u \in Client : /\ Asleep(u)' <=> Asleep(u) /\ u # w
                                     /\ On(u, waiters'[qlock]) => On(u, waiters[qlock]) /\ u # w
  <2>1. CASE waiters[qlock] = <<>>
    <3>1. UNCHANGED <<cur, intr, status, waiters>>
      BY <1>1, <2>1 DEF up, tvars
    <3>2. \A u \in Client : (Asleep(u)' <=> Asleep(u)) /\ u # None
      BY <3>1, Queue_Kinds DEF Asleep
    <3> QED
      BY <3>1, <3>2, Intq_Types, Queue_Kinds DEF Queued
  <2>2. CASE waiters[qlock] # <<>>
    <3>1. PICK w : w = Head(waiters[qlock])
      OBVIOUS
    <3>2. PICK q : q = Tail(waiters[qlock])
      OBVIOUS
    <3>3. /\ w \in Client /\ q \in Seq(Client) /\ Distinct(q) /\ ~On(w, q)
          /\ \A u : On(u, waiters[qlock]) <=> u = w \/ On(u, q)
      BY <2>2, <3>1, <3>2, Tail_On, Intq_Types DEF Queued
    <3>4. thread_unblock(w) /\ waiters' = [waiters EXCEPT ![qlock] = q]
      BY <1>1, <2>2, <3>1, <3>2 DEF up, popped
    <3>5. (\A u \in Client : Asleep(u)' <=> Asleep(u) /\ u # w) /\ UNCHANGED <<cur, intr>>
      BY <3>3, <3>4, Unblock_Asleep, Intq_Types, Queue_Kinds
    <3>6. waiters' \in [Sema -> Seq(Client)] /\ waiters'[qlock] = q
      BY <3>3, <3>4, Intq_Types, Queue_Kinds
    <3>7. pc[w] = "lock"
      BY <3>3, Intq_Types DEF Queued
    <3> QED
      BY <3>3, <3>5, <3>6, <3>7, SMTT(60)
  <2> QED
    BY <2>1, <2>2
<1>7. PICK w : /\ w \in Client => pc[w] = "lock"
               /\ \A u \in Client : /\ Asleep(u)' <=> Asleep(u) /\ u # w
                                    /\ On(u, waiters'[qlock]) => On(u, waiters[qlock]) /\ u # w
  BY <1>6
<1>8. WaitTypes'
  BY <1>1, <1>2, <1>3, <1>5, <1>6, Intq_Types DEF WaitTypes
<1>9. LockInv'
  <2>1. \A u \in Client : ~HasLock(u)'
    BY <1>3, <1>4 DEF HasLock
  <2> QED
    BY <1>5, <2>1 DEF LockInv
<1>10. Queued'
  <2>1. ASSUME NEW u \in Client, On(u, waiters'[qlock]) PROVE pc'[u] = "lock" /\ Asleep(u)'
    BY <1>1, <1>3, <1>7, <2>1, Intq_Types DEF Queued
  <2> QED
    BY <1>6, <2>1 DEF Queued
<1>11. Masked'
  <2>1. \A u \in Client \ {t} : pc[u] \notin {"while", "wait", "done"} /\ cur # u
    BY <1>1, Intq_Types DEF Masked
  <2>2. intr = "off" /\ t \in Reader \cup Writer
    BY <1>1, Intq_Types DEF Masked
  <2> QED
    BY <1>1, <1>2, <1>3, <1>6, <2>1, <2>2, Intq_Types DEF Masked
<1>12. Named'
  <2>1. UNCHANGED <<intq_empty, intq_full>>
    BY <1>1 DEF intq_empty, intq_full, next
  <2>2. ASSUME NEW u \in Client PROVE (pc'[u] = "unlock" /\ Asleep(u)') <=> (pc[u] = "unlock" /\ Asleep(u))
    BY <1>1, <1>3, <1>7, Intq_Types
  <2> QED
    BY <1>1, <2>1, <2>2, Intq_Types DEF Named
<1>13. Unraced'
  <2>1. ASSUME OneThread, NEW u \in Client, pc'[u] \in {"lock", "wait"} PROVE FALSE
    BY <1>1, <1>3, <2>1, Intq_Types DEF Unraced
  <2>2. OneThread => ~halted
    BY Intq_Types DEF Unraced
  <2> QED
    BY <1>1, <1>2, <2>1, <2>2 DEF Unraced
<1> QED
  BY <1>2, <1>8, <1>9, <1>10, <1>11, <1>12, <1>13 DEF IntqInv

\* Ticks, the idle thread and threads that go on after a preemption.
LEMMA Nobody_Keeps ==
  ASSUME IntqInv, Ticks \/ Idles \/ (\E t \in Thread : Resumes(t)) \/ UNCHANGED vars
  PROVE  IntqInv'
<1>1. /\ [IntqNext]_vars
      /\ UNCHANGED <<value, waiters, head, tail, not_full, not_empty, halted>>
  BY DEF IntqNext, Ticks, Idles, Resumes, tick, idle_loop, resume, vars, mvars, qvars
<1>2. IInv' /\ RingInv' /\ UNCHANGED <<use, Reader, Writer, idle_thread, OneThread>>
  BY <1>1, Intq_Framed
<1>3. pc' \in [Thread -> QLabel] /\ \A u \in Client : pc'[u] = pc[u]
  <2>1. \A p : p \in QLabel /\ goto(Idle, p) => pc' \in [Thread -> QLabel] /\ \A u \in Client : pc'[u] = pc[u]
    BY Intq_Types, Queue_Kinds DEF goto
  <2>2. CASE Ticks
    BY <2>2, Intq_Types, Queue_Kinds DEF Ticks, tick, wake_hlt, QLabel
  <2>3. CASE Idles
    BY <2>1, <2>3 DEF Idles, idle_loop, QLabel
  <2>4. CASE (\E t \in Thread : Resumes(t)) \/ UNCHANGED vars
    BY <2>4, Intq_Types DEF Resumes, resume, vars, mvars
  <2> QED
    BY <2>2, <2>3, <2>4
<1>4. /\ \A u \in Client : Asleep(u)' <=> Asleep(u)
      /\ \/ intr = "on" /\ (UNCHANGED <<cur, intr>> \/ intr' = "off")
         \/ cur \notin Client /\ (UNCHANGED cur \/ intr' = "off")
         \/ UNCHANGED cur /\ pc[cur] \in {"run", "hlt", "loop"}
         \/ UNCHANGED <<cur, intr>>
  <2>1. CASE Ticks
    <3>1. timer_interrupt
      BY <2>1 DEF Ticks, tick
    <3> QED
      BY <3>1, Tick_Asleep, Intq_Types, Queue_Kinds
  <2>2. CASE Idles
    <3>1. CASE thread_block /\ cur = Idle
      BY <3>1, Block_Asleep, Intq_Types, Queue_Kinds
    <3>2. CASE (intr_enable \/ intr_disable) /\ cur = Idle
      BY <3>2, Queue_Kinds DEF intr_enable, intr_disable, Asleep
    <3> QED
      BY <2>2, <3>1, <3>2 DEF Idles, idle_loop
  <2>3. ASSUME NEW t \in Thread, Resumes(t)
        PROVE  (\A u \in Client : Asleep(u)' <=> Asleep(u)) /\ UNCHANGED cur /\ pc[cur] \in {"run", "hlt", "loop"}
    BY <2>3 DEF Resumes, resume, intr_enable, Asleep
  <2>4. CASE UNCHANGED vars
    BY <2>4 DEF vars, tvars, Asleep
  <2> QED
    BY <2>1, <2>2, <2>3, <2>4
<1>5. Queued' /\ Named'
  BY <1>1, <1>3, <1>4, Quiet
<1>6. WaitTypes'
  BY <1>1, <1>2, <1>3, Intq_Types DEF WaitTypes
<1>7. LockInv'
  BY <1>1, <1>3, Intq_Types DEF LockInv, HasLock
<1>8. Masked' /\ \A u \in Client : cur = u /\ pc[u] \in {"lock", "wait"} => UNCHANGED cur
  <2>1. ASSUME NEW u \in Client
        PROVE  /\ pc[u] \in {"while", "wait", "done"} => cur' = u /\ intr' = "off"
               /\ pc[u] \in {"lock", "unlock"} /\ cur' = u => intr' = "off"
               /\ cur = u /\ pc[u] \in {"lock", "wait"} => UNCHANGED cur
    BY <1>4, Intq_Types DEF Masked
  <2> QED
    BY <1>2, <1>3, <2>1, Intq_Types DEF Masked
<1>9. Unraced'
  <2>1. \A u \in Client : must_wait(u)' <=> must_wait(u)
    BY <1>1, <1>2, Same_Wait
  <2>2. ASSUME OneThread, NEW u \in Client, pc'[u] \in {"lock", "wait"} PROVE cur' = u /\ must_wait(u)'
    BY <1>3, <1>8, <2>1, <2>2, Intq_Types DEF Unraced
  <2>3. OneThread => ~halted
    BY Intq_Types DEF Unraced
  <2> QED
    BY <1>1, <1>2, <2>2, <2>3 DEF Unraced
<1> QED
  BY <1>2, <1>5, <1>6, <1>7, <1>8, <1>9 DEF IntqInv
-----------------------------------------------------------------------------
LEMMA Intq_Keeps == IntqInv /\ [IntqNext]_vars => IntqInv'
<1> SUFFICES ASSUME IntqInv, [IntqNext]_vars PROVE IntqInv'
  OBVIOUS
<1>1. ASSUME NEW t \in Client, lock_acquire(t) PROVE IntqInv'
  <2>1. cur = t /\ pc[t] = "lock" /\ UNCHANGED qvars /\ value[qlock] \in 0 .. 1
    BY <1>1, Intq_Types DEF lock_acquire
  <2>2. CASE value[qlock] = 0
    BY <1>1, <2>1, <2>2, Sleep_Keeps, SMTT(60) DEF lock_acquire
  <2>3. CASE value[qlock] # 0
    BY <1>1, <2>1, <2>3, Acquire_Keeps DEF lock_acquire
  <2> QED
    BY <2>2, <2>3
<1>2. ASSUME NEW t \in Client, wait(t) PROVE IntqInv'
  BY <1>2, Registers_Keeps, Halt_Keeps DEF wait
<1>3. ASSUME handler_get \/ \E b \in Byte : handler_put(b) PROVE IntqInv'
  <2>1. /\ intr = "on" /\ wake_hlt /\ UNCHANGED <<value, waiters, halted>>
        /\ (~intq_empty /\ take) \/ (\E b \in Byte : ~intq_full /\ store(b))
    BY <1>3 DEF handler_get, handler_put
  <2>2. pc' \in [Thread -> QLabel] /\ \A u \in Client : pc'[u] = pc[u]
    BY <2>1, Intq_Types, Queue_Kinds DEF wake_hlt, QLabel
  <2>3. Signalled
    BY <2>1, Take_Signals, Store_Signals
  <2> QED
    BY <2>1, <2>2, <2>3, Signalled_Keeps
<1> QED
  BY <1>1, <1>2, <1>3, Call_Keeps, While_Keeps, Release_Keeps, Nobody_Keeps DEF IntqNext, InQueue

LEMMA Intq_Starts == IntqInit => IntqInv
<1> SUFFICES ASSUME IntqInit PROVE IntqInv
  OBVIOUS
<1>1. /\ cur = initial_thread /\ idle_thread = Idle /\ intr = "on" /\ thread_ticks = 0
      /\ status = [t \in Thread |-> IF t = cur THEN "RUNNING" ELSE IF t = Idle THEN "BLOCKED" ELSE "READY"]
      /\ reap = [t \in Thread |-> <<>>] /\ initial_thread \in Client
  BY ThreadAssumption DEF IntqInit, Client
<1>2. PICK n \in 0 .. Cardinality(Client) : ready_list \in [1 .. n -> Client \ {cur}]
  BY DEF IntqInit
<1>3. n \in Nat /\ Distinct(ready_list) /\ \A t \in Client \ {cur} : On(t, ready_list)
  BY <1>2, SMTT(60) DEF IntqInit
<1>4. ready_list \in Seq(Client \ {cur})
  BY <1>2, <1>3
<1>5. Client \ {cur} = Thread \ {cur, Idle}
  BY Queue_Kinds
<1>6. IInv
  BY <1>1, <1>3, <1>4, <1>5, Started_IInv
<1>7. /\ value = [s \in Sema |-> 1] /\ waiters = [s \in Sema |-> <<>>] /\ use \in Use
      /\ pc = [t \in Thread |-> IF t = Idle THEN "blocked" ELSE "run"]
      /\ not_full = None /\ not_empty = None /\ halted = FALSE
  BY DEF IntqInit
<1>8. WaitTypes
  BY <1>1, <1>7 DEF WaitTypes, QLabel
<1>9. \A t \in Client : pc[t] = "run" /\ ~Asleep(t)
  BY <1>1, <1>7, Queue_Kinds DEF Asleep
<1>10. LockInv /\ Queued
  BY <1>7, <1>9, Queue_Kinds, Empty_On DEF LockInv, HasLock, Queued
<1>11. Masked /\ Named /\ Unraced
  BY <1>7, <1>9, Queue_Kinds DEF Masked, Named, Unraced
<1> QED
  BY <1>6, <1>8, <1>10, <1>11, Intq_Init DEF IntqInv

\* A thread asleep in wait() is named in the queue, and rightly so, for any number
\* of threads; the assertion of wait() holds if one thread uses the queue.
THEOREM Spec_WaiterOK == IntqSpec => []WaiterOK
<1>1. IntqInit => IntqInv
  BY Intq_Starts
<1>2. IntqInv /\ [IntqNext]_vars => IntqInv'
  BY Intq_Keeps
<1>3. IntqInv => WaiterOK
  BY DEF IntqInv, RingInv, WaitTypes, Named, Unraced, Asleep, WaiterOK, IntqTypeOK
<1> QED
  BY <1>1, <1>2, <1>3, PTL DEF IntqSpec
=============================================================================
