---------------------------- MODULE MCSliceTable ----------------------------
(* The slice table with two allocations of the hypervisor. *)
EXTENDS SliceTableProps

MCAllocations == {<<11, 21, 12, 22>>, <<13, 23, 14, 24>>}
MCGarbage == {-7}
=============================================================================
