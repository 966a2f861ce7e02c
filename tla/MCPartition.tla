---------------------------- MODULE MCPartition -----------------------------
(* A disk with a primary partition and an extended partition of one logical *)
(* partition; the extended partition is in the disk's second half.          *)
EXTENDS PartitionTable, TLC
e(type, offset, size) == [type |-> type, offset |-> offset, size |-> size]
LogicalDisks ==
  {[size |-> 7, tables |-> (0 :> <<e("kernel", 1, 2), e("ext", 4, 3)>>) @@ (4 :> <<e("filesys", 1, 2)>>)]}
=============================================================================
