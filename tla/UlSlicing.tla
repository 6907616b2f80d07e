------------------------------ MODULE UlSlicing ------------------------------
(***************************************************************************)
(* Uplink scheduling of one subframe after another with EdgeSlice's        *)
(* allocation: schedule_ulsch and schedule_ulsch_rnti of                   *)
(* MAC/eNB_scheduler_ulsch.c, assign_max_mcs_min_rb, sort_ue_ul and        *)
(* ulsch_scheduler_pre_processor of MAC/pre_processor.c, and the HARQ      *)
(* processes of the PHY, which it reads and changes.                       *)
(*                                                                         *)
(* A new grant starts at first_rb, which schedule_ulsch sets beyond PUCCH, *)
(* PRACH, Msg3 and every retransmission of the process and which each      *)
(* grant advances.  Retransmissions are non-adaptive: a NACK on the PHICH  *)
(* makes the UE repeat on the blocks of its last grant.  The hypervisor    *)
(* changes the table (SliceStore), and a second RxTx thread receives       *)
(* requests and transport blocks, while the scheduler runs.                *)
(***************************************************************************)
EXTENDS SliceStore, Sequences, FiniteSets

CONSTANTS
  UEs,      \* UE_ids of the connected UEs
  N_RB_UL,  \* resource blocks of the carrier
  NPids,    \* HARQ processes of a UE (8 in the code)
  Mlimit,   \* rounds of a process before its data is dropped (4 in the code)
  Occasions,  \* which of PRACH and Msg3 a subframe may have
  Demands,  \* the indices of rb_table that buffers and power may call for
  MayFail   \* UEs that may lose synchronisation (a bound)

RbTable == <<1,2,3,4,5,6,8,9,10,12,15,16,18,20,24,25,27,30,32,36,40,45,48,50,54,
             60,72,75,80,81,90,96,100>>
rb_table(i) == RbTable[i + 1]
Indices == 0..32
Pids == 0..(NPids - 1)

\* A subframe with neither.
Plain == [prach |-> FALSE, msg3 |-> FALSE]

ASSUME UlSlicingAssumption ==
  /\ UEs \subseteq Nat /\ IsFiniteSet(UEs)
  /\ N_RB_UL \in {6, 25, 50, 100}
  /\ NPids \in Nat \ {0} /\ Mlimit \in Nat \ {0}
  /\ Plain \in Occasions /\ Occasions \subseteq [prach : BOOLEAN, msg3 : BOOLEAN]
  /\ Demands \subseteq 2..32 /\ MayFail \subseteq UEs

\* What the hypervisor stores are counts of blocks: of connections that do not
\* overlap the table holds nothing else (OrderlyTable of SliceTableProps).
ASSUME NaturalBlocks == UplinkBlocks \cup DownlinkBlocks \subseteq Nat

VARIABLES
  phase,     \* "idle", or the pass under way: "assign", "share" or "grant"
  pid,       \* the HARQ process of the subframe
  todo,      \* the UEs the pass has not reached, in its order
  list,      \* the list sort_ue_ul has built
  occasion,  \* whether a PRACH occasion and a Msg3 are in the subframe
  first_rb,
  index,     \* pre_allocated_rb_table_index_ul
  nb,        \* pre_allocated_nb_rb_ul
  share,     \* assigned_uRB, as last read for a UE (history)
  wants,     \* UEs with a buffer report or a scheduling request
  sync,      \* UEs with ul_out_of_sync = 0
  harq       \* harq[ue][p]: first_rb, nb_rb, round, subframe_scheduling_flag

passVars == <<phase, pid, todo, list, occasion>>
preVars == <<index, nb, share>>
ulVars == <<storeVars, passVars, preVars, first_rb, wants, sync, harq>>

\* A process without data.
Idle == [first |-> 0, nb |-> 0, round |-> 0, flag |-> FALSE]

Processes == [first : Nat, nb : Nat, round : 0..(Mlimit - 1), flag : BOOLEAN]

UlTypeOK ==
  /\ uRB \in [StoreSlices -> Nat] /\ dRB \in [StoreSlices -> Nat]
  /\ phase \in {"idle", "assign", "share", "grant"}
  /\ pid \in Pids
  /\ list \in Seq(UEs) /\ todo \in Seq(UEs)
  /\ occasion \in Occasions
  /\ first_rb \in Nat
  /\ index \in [UEs -> -1..32] /\ nb \in [UEs -> Nat] /\ share \in [UEs -> Nat]
  /\ wants \subseteq UEs /\ sync \subseteq UEs
  /\ harq \in [UEs -> [Pids -> Processes]]

\* The UEs of S, one after the other.
Orders(S) == {s \in [1..Cardinality(S) -> S] : \A ue \in S : \E i \in DOMAIN s : s[i] = ue}
IsNext(ue) == todo # <<>> /\ ue = Head(todo)

\* The blocks of a process, and the end of them.
Blocks(ue, p) == harq[ue][p].first..(harq[ue][p].first + harq[ue][p].nb - 1)
End(ue, p) == harq[ue][p].first + harq[ue][p].nb

UlInit ==
  /\ StoreInit
  /\ phase = "idle" /\ pid = 0 /\ todo = <<>> /\ list = <<>>
  /\ occasion = Plain /\ first_rb = 1
  /\ index = [ue \in UEs |-> 0] /\ nb = [ue \in UEs |-> 0]
  /\ share = [ue \in UEs |-> 0]
  /\ wants = {} /\ sync = UEs
  /\ harq = [ue \in UEs |-> [p \in Pids |-> Idle]]

-----------------------------------------------------------------------------
(* schedule_ulsch.                                                         *)

\* One block is left to PUCCH and one, it is meant, to Msg3; a PRACH occasion
\* takes the first eight.
Base(o) == IF o.prach THEN 8 ELSE IF o.msg3 THEN 2 ELSE 1

\* Mutant of Ends: retransmissions are not skipped.
Ends_None(p, base) == {base}

\* What first_rb must not lie before.
Ends(p, base) == {base} \cup {End(ue, p) : ue \in {v \in UEs : harq[v][p].round > 0}}

\* By then the PHY has received what was sent on the process before.
StartUl(o) ==
  LET p == (pid + 1) % NPids
      E == Ends(p, Base(o))
  IN
  /\ phase = "idle"
  /\ \A ue \in UEs : ~harq[ue][p].flag
  /\ pid' = p /\ occasion' = o
  /\ first_rb' \in {f \in E : \A e \in E : e <= f}
  /\ phase' = "assign"
  /\ \E s \in Orders(UEs) :
       todo' = s /\ \A i, j \in DOMAIN s : i < j => s[i] < s[j]
  /\ UNCHANGED <<storeVars, preVars, list, wants, sync, harq>>

-----------------------------------------------------------------------------
(* ulsch_scheduler_pre_processor.                                          *)

\* The end of the carrier is left to PUCCH.
Room(i) == rb_table(i) <= N_RB_UL - first_rb - 1

\* Index i when d is called for: as many blocks as there is room for, but three.
Capped(d, i) ==
  /\ i \in 2..d
  /\ i = 2 \/ Room(i)
  /\ \A k \in (i + 1)..d : ~Room(k)

PreAllocate(ue, i, n) ==
  /\ index' = [index EXCEPT ![ue] = i]
  /\ nb' = [nb EXCEPT ![ue] = n]

\* assign_max_mcs_min_rb for one UE: ul_total_buffer is not 0 (it may be off the
\* buffer reports), or the UE has asked to be scheduled, or neither.  A UE out of
\* sync keeps what it was assigned before.
AssignMinRb(ue) ==
  /\ phase = "assign" /\ IsNext(ue)
  /\ todo' = Tail(todo)
  /\ \/ /\ ue \in sync
        /\ \E d \in Demands, i \in Indices :
             Capped(d, i) /\ PreAllocate(ue, i, rb_table(i))
     \/ ue \in sync \cap wants /\ PreAllocate(ue, 2, 3)
     \/ ue \in sync \ wants /\ PreAllocate(ue, -1, 0)
     \/ ue \notin sync /\ UNCHANGED <<index, nb>>
  /\ UNCHANGED <<storeVars, phase, pid, list, occasion, share, first_rb, wants,
                 sync, harq>>

\* The processes of the highest round come first; among equals, buffers decide.
SortUes ==
  /\ phase = "assign" /\ todo = <<>>
  /\ phase' = "share"
  /\ \E s \in Orders(sync) :
       /\ \A i, j \in DOMAIN s :
            i < j => harq[s[j]][pid].round <= harq[s[i]][pid].round
       /\ list' = s /\ todo' = s
  /\ UNCHANGED <<storeVars, preVars, pid, occasion, first_rb, wants, sync, harq>>

\* What a UE is pre-allocated in the end, n being what its slice has.
Limited(ue, n) ==
  IF harq[ue][pid].round > 0 THEN harq[ue][pid].nb
  ELSE IF nb[ue] < n THEN nb[ue] ELSE n

\* Mutant of ApplyShare: the slice is not looked at.
ApplyShare_Ignored(ue) ==
  /\ phase = "share" /\ IsNext(ue)
  /\ share' = [share EXCEPT ![ue] = UE_RNTI_process_function_uplink(ue)]
  /\ todo' = Tail(todo)
  /\ UNCHANGED <<storeVars, phase, pid, list, occasion, index, nb, first_rb,
                 wants, sync, harq>>

\* Steps 3 and 4 for one UE: the table is read here.
ApplyShare(ue) ==
  LET n == UE_RNTI_process_function_uplink(ue) IN
  /\ phase = "share" /\ IsNext(ue)
  /\ share' = [share EXCEPT ![ue] = n]
  /\ nb' = [nb EXCEPT ![ue] = Limited(ue, n)]
  /\ todo' = Tail(todo)
  /\ UNCHANGED <<storeVars, phase, pid, list, occasion, index, first_rb, wants,
                 sync, harq>>

StartGrants ==
  /\ phase = "share" /\ todo = <<>>
  /\ phase' = "grant" /\ todo' = list
  /\ UNCHANGED <<storeVars, preVars, pid, list, occasion, first_rb, wants, sync,
                 harq>>

-----------------------------------------------------------------------------
(* schedule_ulsch_rnti, one UE at a time.                                  *)

\* Six blocks if the pre-processor did not expect the UE to be scheduled.
From(ue) == IF index[ue] >= 0 THEN index[ue] ELSE 5

\* Mutants of GrantFits: the slice or the end of the carrier is not minded.
GrantFits_NoLimit(ue, i) == Room(i) /\ rb_table(i) <= 45
GrantFits_NoRoom(ue, i) ==
  rb_table(i) <= 45 /\ (index[ue] >= 0 => rb_table(i) <= nb[ue])

GrantFits(ue, i) ==
  /\ Room(i)
  /\ rb_table(i) <= 45
  /\ index[ue] >= 0 => rb_table(i) <= nb[ue]

\* Mutant of Reduced: the index is not lowered.
Reduced_No(ue, i) == i = From(ue) /\ GrantFits(ue, i)

\* Index i is where the search for a fitting one ends; 0 is not tested.
Reduced(ue, i) ==
  /\ i \in 0..From(ue)
  /\ i = 0 \/ GrantFits(ue, i)
  /\ \A k \in (i + 1)..From(ue) : ~GrantFits(ue, k)

\* Every way to pass a UE over: no control channel elements, no blocks left, no
\* data.
SkipUl(ue) ==
  /\ phase = "grant" /\ IsNext(ue)
  /\ todo' = Tail(todo)
  /\ UNCHANGED <<storeVars, preVars, phase, pid, list, occasion, first_rb, wants,
                 sync, harq>>

\* ul_SR is reset; the UE still counts as wanting if its buffer report stands.
Served(ue) == wants' \in {wants, wants \ {ue}}

\* A retransmission needs no grant, but it resets the request all the same.
Retransmit(ue) ==
  /\ phase = "grant" /\ IsNext(ue)
  /\ harq[ue][pid].round > 0 /\ first_rb < N_RB_UL - 1
  /\ Served(ue)
  /\ todo' = Tail(todo)
  /\ UNCHANGED <<storeVars, preVars, phase, pid, list, occasion, first_rb, sync,
                 harq>>

\* A DCI of format 0 for the blocks from first_rb on, and what the PHY makes of it.
GrantNew(ue) ==
  /\ phase = "grant" /\ IsNext(ue)
  /\ harq[ue][pid].round = 0 /\ ue \in wants /\ first_rb < N_RB_UL - 1
  /\ \E i \in Indices :
       /\ Reduced(ue, i)
       /\ first_rb' = first_rb + rb_table(i)
       /\ harq' = [harq EXCEPT ![ue][pid] =
            [first |-> first_rb, nb |-> rb_table(i), round |-> 0, flag |-> TRUE]]
  /\ Served(ue)
  /\ todo' = Tail(todo)
  /\ UNCHANGED <<storeVars, preVars, phase, pid, list, occasion, sync>>

\* generate_phich_top: a NACK without a DCI schedules the retransmission.
Phich(h) == [h EXCEPT !.flag = h.flag \/ h.round > 0]

EndUl ==
  /\ phase = "grant" /\ todo = <<>>
  /\ harq' = [ue \in UEs |-> [harq[ue] EXCEPT ![pid] = Phich(harq[ue][pid])]]
  /\ phase' = "idle" /\ list' = <<>> /\ occasion' = Plain
  /\ first_rb' = 1 /\ share' = [ue \in UEs |-> 0]
  /\ UNCHANGED <<storeVars, pid, todo, index, nb, wants, sync>>

-----------------------------------------------------------------------------
(* The other RxTx thread, and time.                                        *)

\* Mutant of Received: data is never dropped.
Received_NoLimit(h, ok) ==
  IF ok THEN Idle ELSE [h EXCEPT !.flag = FALSE, !.round = h.round + 1]

\* What ulsch_decoding makes of a process.  After the last round the data is
\* dropped; the blocks of a process without data are not looked at again.
Received(h, ok) ==
  IF ok \/ h.round + 1 = Mlimit THEN Idle
  ELSE [h EXCEPT !.flag = FALSE, !.round = h.round + 1]

\* The blocks of a process are received; rx_sdu brings the UE back in sync.
Receive(ue, p, ok) ==
  /\ phase = "idle" \/ p # pid
  /\ harq[ue][p].flag
  /\ harq' = [harq EXCEPT ![ue][p] = Received(harq[ue][p], ok)]
  /\ sync' = IF ok THEN sync \cup {ue} ELSE sync
  /\ UNCHANGED <<storeVars, passVars, preVars, first_rb, wants>>

\* SR_indication, a buffer status report, or the inactivity timer.
Request(ue) ==
  /\ ue \in UEs \ wants
  /\ wants' = wants \cup {ue}
  /\ UNCHANGED <<storeVars, passVars, preVars, first_rb, sync, harq>>

\* ul_out_of_sync, set by the scheduler before it schedules anything.
LoseSync(ue) ==
  /\ phase = "idle" /\ ue \in sync \cap MayFail
  /\ sync' = sync \ {ue}
  /\ UNCHANGED <<storeVars, passVars, preVars, first_rb, wants, harq>>

\* A UE that is ordered to the PRACH comes back with its C-RNTI.
RegainSync(ue) ==
  /\ ue \in UEs \ sync
  /\ sync' = sync \cup {ue}
  /\ UNCHANGED <<storeVars, passVars, preVars, first_rb, wants, harq>>

StoreStep ==
  StoreNext /\ UNCHANGED <<passVars, preVars, first_rb, wants, sync, harq>>

UlSchedule(ue) ==
  AssignMinRb(ue) \/ ApplyShare(ue) \/ SkipUl(ue) \/ Retransmit(ue) \/ GrantNew(ue)

UlNext ==
  \/ StoreStep
  \/ \E o \in Occasions : StartUl(o)
  \/ \E ue \in UEs : UlSchedule(ue)
  \/ SortUes \/ StartGrants \/ EndUl
  \/ \E ue \in UEs, p \in Pids, ok \in BOOLEAN : Receive(ue, p, ok)
  \/ \E ue \in UEs : Request(ue) \/ LoseSync(ue) \/ RegainSync(ue)

UlSpec == UlInit /\ [][UlNext]_ulVars
=============================================================================
