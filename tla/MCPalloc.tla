------------------------------ MODULE MCPalloc ------------------------------
(***************************************************************************)
(* Palloc for TLC.  One client alone may fill the pools, so that holes of  *)
(* every pattern occur; while two are at work, they keep MaxShared pages   *)
(* between them, besides those that a call is about to return or free.     *)
(***************************************************************************)
EXTENDS Palloc, TLC

CONSTANT MaxShared   \* bound: pages that two clients keep

Clients == Permutations(Client)

Active == {c \in Client : pc[c] # "run" \/ own[c] # {}}

Kept == UNION {Pages(b) : b \in UNION {own[c] : c \in Client}}

Room == Cardinality(Active) <= 1 \/ Cardinality(Kept) <= MaxShared

MCNext == Next /\ Room'

MCSpec == Init /\ [][MCNext]_vars
=============================================================================
