----------------------------- MODULE SliceStore -----------------------------
(***************************************************************************)
(* What the MAC scheduler may assume of the slice table: every field is    *)
(* replaced on its own, at any time, by a value of its direction's set.    *)
(* SliceTable implements this (TableIsStore and OrderlyTable in            *)
(* SliceTableProps); the schedulers are specified on top of it.            *)
(***************************************************************************)
EXTENDS Integers

CONSTANTS
  UplinkBlocks,   \* the values that may be stored
  DownlinkBlocks

ASSUME BlocksAssumption == UplinkBlocks \subseteq Int /\ DownlinkBlocks \subseteq Int

VARIABLES
  uRB,   \* Global_Info.Slice_Info[i].uRB
  dRB    \* Global_Info.Slice_Info[i].dRB

storeVars == <<uRB, dRB>>

StoreSlices == 0..2   \* SLICENUM is 3
Allocated == {0, 1}   \* socket_recv_function stores to two of them

\* The blocks of a UE: those of its slice, 10 for a UE without one.
UE_RNTI_process_function_downlink(ue) == IF ue \in StoreSlices THEN dRB[ue] ELSE 10
UE_RNTI_process_function_uplink(ue) == IF ue \in StoreSlices THEN uRB[ue] ELSE 10

StoreInit == /\ uRB = [s \in StoreSlices |-> 10]
             /\ dRB = [s \in StoreSlices |-> 10]

StoreUplink(s, v) == uRB' = [uRB EXCEPT ![s] = v] /\ UNCHANGED dRB
StoreDownlink(s, v) == dRB' = [dRB EXCEPT ![s] = v] /\ UNCHANGED uRB

StoreNext ==
  \E s \in Allocated :
    \/ \E v \in UplinkBlocks : StoreUplink(s, v)
    \/ \E v \in DownlinkBlocks : StoreDownlink(s, v)

StoreSpec == StoreInit /\ [][StoreNext]_storeVars
=============================================================================
