------------------------------- MODULE MCIntq -------------------------------
\* Intq for TLC.
EXTENDS Intq

CONSTANTS t1, t2, t3

OneLock == {qlock}

\* The input buffer, the transmit queue, and a queue with threads and handlers
\* on both sides.
Uses ==
  {[reader |-> {t1}, writer |-> {}, handler |-> {"put"}],
   [reader |-> {}, writer |-> {t1}, handler |-> {"get"}],
   [reader |-> {t1, t2}, writer |-> {t3}, handler |-> {"put", "get"}]}
=============================================================================
