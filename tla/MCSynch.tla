------------------------------ MODULE MCSynch ------------------------------
\* Synch for TLC: every condition variable is used with the one lock.
EXTENDS Synch

CONSTANTS l1

AllSemas == Semaphore \cup Lock \cup Thread
OneLock == [c \in Cond |-> l1]
=============================================================================
