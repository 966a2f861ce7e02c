----------------------------- MODULE MCAllList -----------------------------
\* AllList for TLC.
EXTENDS AllList

HeadNode(l) == "head"
TailNode(l) == "tail"
NoKeys == [e \in Elem |-> 0]
=============================================================================
