------------------------------- MODULE Relay --------------------------------
(***************************************************************************)
(* The simulator's terminal: squish-pty and squish-unix (utils/), which    *)
(* run a simulator as a child and relay standard input to it, and what it  *)
(* writes to standard output, through two buffers.                         *)
(*                                                                         *)
(* Bytes are numbered in the order in which their sender sends them.  A    *)
(* turn of the select() loop does some of the reads and writes that are    *)
(* possible; here each is a step.                                          *)
(***************************************************************************)
EXTENDS Integers, Sequences

CONSTANTS BUFSIZ, MaxTyped, MaxShown,   \* bounds: bytes of each sender
          MaxConn                       \* bound: connections to the socket

ASSUME RelayAssumption == BUFSIZ \in Nat \ {0}

In == 0                    \* the pipe from standard input to the simulator
Out == 1                   \* and the one back

VARIABLES kind,            \* "none", "pty" or "unix"
          rstate,          \* "loop", "final", "accept", "exit", "failed"
          buf, ofs, size, active,       \* the pipes
          in_open, out_open,            \* in # -1, out # -1
          sent,            \* bytes sent into each pipe
          taken,           \* bytes read from it
          relayed,         \* the bytes written to its other end
          typing,          \* will there be more standard input?
          child,           \* is the simulator alive, and its end open?
          conns            \* connections so far

relayvars == <<kind, rstate, buf, ofs, size, active, in_open, out_open, sent, taken, relayed, typing, child, conns>>
pipevars == <<buf, ofs, size, active, in_open, out_open>>

both(x) == [i \in {In, Out} |-> x]
empty_buf == both([k \in 0 .. BUFSIZ - 1 |-> 0])

RelayInit ==
  /\ kind = "none" /\ rstate = "accept"
  /\ buf = empty_buf /\ ofs = both(0) /\ size = both(0) /\ active = both(FALSE)
  /\ in_open = both(TRUE) /\ out_open = both(TRUE)
  /\ sent = both(0) /\ taken = both(0) /\ relayed = both(<<>>)
  /\ typing = TRUE /\ child = TRUE /\ conns = 0

----------------------------------------------------------------------------
(* The user and the simulator *)

send(i) ==
  /\ rstate \notin {"exit", "failed", "accept"}
  /\ sent[i] < (IF i = In THEN MaxTyped ELSE MaxShown)
  /\ IF i = In THEN typing ELSE child
  /\ sent' = [sent EXCEPT ![i] = @ + 1]
  /\ UNCHANGED <<kind, rstate, pipevars, taken, relayed, typing, child, conns>>

end_of_typing ==
  /\ typing /\ rstate = "loop"
  /\ typing' = FALSE
  /\ UNCHANGED <<kind, rstate, pipevars, sent, taken, relayed, child, conns>>

child_exits ==
  /\ child /\ rstate = "loop"
  /\ child' = FALSE
  /\ UNCHANGED <<kind, rstate, pipevars, sent, taken, relayed, typing, conns>>

----------------------------------------------------------------------------
(* relay() *)

\* main() up to relay(), or another connection to the socket; standard input is
\* read from the beginning again.
start_relay(k) ==
  /\ rstate = "accept" /\ kind \in {"none", k} /\ conns < MaxConn
  /\ k = "pty" => conns = 0
  /\ kind' = k /\ rstate' = "loop" /\ conns' = conns + 1
  /\ buf' = empty_buf /\ ofs' = both(0) /\ size' = both(0) /\ active' = both(FALSE)
  /\ in_open' = both(TRUE) /\ out_open' = both(TRUE)
  /\ taken' = both(0) /\ relayed' = both(<<>>) /\ sent' = [sent EXCEPT ![Out] = 0]
  /\ child' = TRUE
  /\ UNCHANGED typing

selected(i) == rstate = "loop" /\ (i = In => active[Out])
can_read(i) == selected(i) /\ in_open[i] /\ size[i] + ofs[i] < BUFSIZ
can_write(i) == selected(i) /\ out_open[i] /\ size[i] > 0

\* p->buf + p->ofs + p->size
put_at(i) == ofs[i] + size[i]

\* read() of N bytes into the buffer, and the (dead) attempt to move them down.
read_some(i, n) ==
  LET filled == [buf EXCEPT ![i] = [k \in 0 .. BUFSIZ - 1 |->
                   IF k \in put_at(i) .. put_at(i) + n - 1 THEN taken[i] + 1 + k - put_at(i) ELSE @[k]]]
  IN /\ can_read(i) /\ n <= sent[i] - taken[i] /\ n <= BUFSIZ - ofs[i] - size[i]
     /\ buf' = filled
     /\ size' = [size EXCEPT ![i] = @ + n]
     /\ active' = [active EXCEPT ![i] = TRUE]
     /\ taken' = [taken EXCEPT ![i] = @ + n]
     /\ UNCHANGED <<kind, rstate, ofs, in_open, out_open, sent, relayed, typing, child, conns>>

at_end(i) == taken[i] = sent[i] /\ (IF i = In THEN ~typing ELSE ~child)

\* The end of the loop: nothing is left to do if standard output was closed.
after_loop == IF out_open[Out] THEN "final" ELSE "exit"

\* read() finds the end of standard input, or the other side closed: EIO of the
\* pty, 0 of the socket, which ends relay().
read_end(i) ==
  /\ can_read(i) /\ at_end(i)
  /\ in_open' = [in_open EXCEPT ![i] = FALSE]
  /\ rstate' = CASE i = In -> "loop" [] kind = "pty" -> after_loop [] OTHER -> "accept"
  /\ UNCHANGED <<kind, buf, ofs, size, active, out_open, sent, taken, relayed, typing, child, conns>>

drained_ofs(i, n) == IF size[i] = n THEN 0 ELSE ofs[i] + n

write_some(i, n) ==
  /\ can_write(i) /\ n <= size[i]
  /\ relayed' = [relayed EXCEPT ![i] = @ \o [k \in 1 .. n |-> buf[i][ofs[i] + k - 1]]]
  /\ ofs' = [ofs EXCEPT ![i] = drained_ofs(i, n)]
  /\ size' = [size EXCEPT ![i] = @ - n]
  /\ UNCHANGED <<kind, rstate, buf, active, in_open, out_open, sent, taken, typing, child, conns>>

\* A write to the simulator finds the pty's slave closed; to the socket, it fails.
write_error ==
  /\ can_write(In) /\ ~child
  /\ IF kind = "pty" THEN out_open' = [out_open EXCEPT ![In] = FALSE] /\ UNCHANGED rstate
     ELSE rstate' = "failed" /\ UNCHANGED out_open
  /\ UNCHANGED <<kind, buf, ofs, size, active, in_open, sent, taken, relayed, typing, child, conns>>

\* A write to standard output fails, in the loop or in the final loop: fail_io().
\* In the loop, one that writes nothing closes standard output.
output_error ==
  \/ /\ can_write(Out) \/ (rstate = "final" /\ size[Out] > 0)
     /\ rstate' = "failed"
     /\ UNCHANGED <<kind, pipevars, sent, taken, relayed, typing, child, conns>>
  \/ /\ can_write(Out)
     /\ out_open' = [out_open EXCEPT ![Out] = FALSE]
     /\ UNCHANGED <<kind, rstate, buf, ofs, size, active, in_open, sent, taken, relayed, typing, child, conns>>

\* select() says, or is interrupted because, the child died.
child_died ==
  /\ rstate = "loop" /\ ~child
  /\ rstate' = after_loop
  /\ UNCHANGED <<kind, pipevars, sent, taken, relayed, typing, child, conns>>

\* The simulator dies while squish-unix waits for a connection: it ends.
accept_ends ==
  /\ rstate = "accept" /\ kind \in {"none", "unix"}
  /\ kind' = "unix" /\ rstate' = "exit" /\ child' = FALSE
  /\ UNCHANGED <<pipevars, sent, taken, relayed, typing, conns>>

\* Mutation: after the child's death, what is in the buffer is enough.
leftover_none == 0

\* What the final read() returns, at most a buffer at a time.
leftover == IF in_open[Out] THEN sent[Out] - taken[Out] ELSE 0

\* The final loop: write the buffer, then read and go on, or return.
final_relay ==
  /\ rstate = "final"
  /\ relayed' = [relayed EXCEPT ![Out] = @ \o [k \in 1 .. size[Out] |-> buf[Out][ofs[Out] + k - 1]]]
  /\ LET n == IF leftover < BUFSIZ THEN leftover ELSE BUFSIZ
     IN /\ rstate' = IF n = 0 THEN "exit" ELSE "final"
        /\ buf' = [buf EXCEPT ![Out] = [k \in 0 .. BUFSIZ - 1 |-> IF k < n THEN taken[Out] + 1 + k ELSE @[k]]]
        /\ size' = [size EXCEPT ![Out] = n] /\ ofs' = [ofs EXCEPT ![Out] = 0]
        /\ taken' = [taken EXCEPT ![Out] = @ + n]
  /\ UNCHANGED <<kind, active, in_open, out_open, sent, typing, child, conns>>

RelayStep ==
  \/ \E i \in {In, Out}, n \in 1 .. BUFSIZ : read_some(i, n) \/ write_some(i, n)
  \/ \E i \in {In, Out} : read_end(i)
  \/ write_error \/ child_died \/ final_relay

RelayNext ==
  \/ \E i \in {In, Out} : send(i)
  \/ end_of_typing \/ child_exits \/ output_error
  \/ \E k \in {"pty", "unix"} : start_relay(k)
  \/ accept_ends
  \/ RelayStep

RelaySpec == RelayInit /\ [][RelayNext]_relayvars

----------------------------------------------------------------------------
(* Properties *)

\* Each direction delivers the bytes in the order in which they were sent, none
\* twice and none left out, and the buffer holds the ones that follow.
RelayInOrder ==
  \A i \in {In, Out} :
    /\ \A k \in DOMAIN relayed[i] : relayed[i][k] = k
    /\ \A k \in 0 .. size[i] - 1 : buf[i][ofs[i] + k] = Len(relayed[i]) + 1 + k
    /\ rstate \in {"loop", "final"} => Len(relayed[i]) + size[i] = taken[i]
    /\ ofs[i] + size[i] <= BUFSIZ

\* When squish-pty has relayed a simulator to its end, standard output has all
\* that the simulator wrote, although its last words and the news of its death
\* race each other, unless a write to standard output failed or wrote nothing.
LastWordsRelayed == kind = "pty" /\ rstate = "exit" /\ out_open[Out] => Len(relayed[Out]) = sent[Out]

\* What the simulator shows is relayed, unless the relay ends first: the buffer
\* never gets stuck, although its bytes are never moved down to its start.  A
\* standard output that was closed gets no more.
OutputDelivered ==
  (rstate = "loop" /\ Len(relayed[Out]) < sent[Out]) ~>
    (Len(relayed[Out]) = sent[Out] \/ ~out_open[Out] \/ rstate \in {"exit", "failed", "accept"})

\* The relay loses, doubles and reorders nothing, up to the last byte of a
\* simulator on a pseudo-terminal.
RelayOK == RelayInOrder /\ LastWordsRelayed
=============================================================================
