------------------------------ MODULE DlSlicing ------------------------------
(***************************************************************************)
(* Downlink scheduling of one subframe (TTI) with EdgeSlice's allocation:  *)
(* dlsch_scheduler_pre_processor and dlsch_my_scheduler_pre_processor of   *)
(* MAC/pre_processor.c, schedule_ue_spec and fill_DLSCH_dci of             *)
(* MAC/eNB_scheduler_dlsch.c, and the HARQ state of the PHY they depend on *)
(* (process_HARQ_feedback, get_ue_active_harq_pid).                        *)
(*                                                                         *)
(* The pre-processor walks the UEs, those with the most advanced           *)
(* retransmission first, reads the downlink blocks of each UE's slice and  *)
(* gives it free resource block groups (RBG) of a band of that width; the  *)
(* bands lie end to end.  schedule_ue_spec then sends a new transport      *)
(* block or a retransmission of each UE on what it got.  The hypervisor    *)
(* changes the table under the pre-processor's feet: SliceStore.           *)
(***************************************************************************)
EXTENDS SliceStore, FiniteSets

CONSTANTS
  UEs,          \* UE_ids of the connected UEs
  N_RBG,        \* resource block groups of the carrier
  Unit,         \* min_rb_unit: blocks of a group
  LastRBG,      \* blocks of the last group
  NPids,        \* HARQ processes of a UE (8 in the code)
  Mlimit,       \* rounds of a process before its data is dropped (4 in the code)
  Reservations, \* what common channels and SF0_LIMIT may take of a subframe
  Growth        \* by how many units a need may exceed the first TBS tried

N_RBG_MAX == 25
Cells == 0..(N_RBG_MAX - 1)     \* the indices of rballoc_sub
Groups == 0..(N_RBG - 1)        \* those of the carrier
Pids == 0..(NPids - 1)
N_RB == Unit * (N_RBG - 1) + LastRBG

ASSUME DlSlicingAssumption ==
  /\ IsFiniteSet(UEs) /\ UEs \subseteq Nat
  /\ N_RBG \in 1..N_RBG_MAX
  /\ Unit \in 1..4 /\ LastRBG \in 1..Unit
  /\ NPids \in Nat \ {0} /\ Mlimit \in Nat \ {0}
  /\ Reservations \subseteq SUBSET Groups
  /\ Growth \subseteq Nat

\* What the hypervisor stores are counts of blocks: of connections that do not
\* overlap the table holds nothing else (OrderlyTable of SliceTableProps).
ASSUME NaturalBlocks == UplinkBlocks \cup DownlinkBlocks \subseteq Nat

VARIABLES
  phase,     \* what the scheduler is doing: "idle", "thor" or "sched"
  pid,       \* the HARQ process of the subframe: (frame * 10 + subframe) % 8
  todo,      \* UEs of the list the current pass has not reached
  reserved,  \* groups the reset marked as taken
  taken,     \* rballoc_sub[k] # 0
  start,     \* RBG_start_index
  first,     \* blocks of the first TBS tried for a UE
  required,  \* nb_rbs_required
  share,     \* assigned_dRB, as read for each UE
  granted,   \* rballoc_sub_UE
  overrun,   \* an index beyond rballoc_sub was used
  dci,       \* what was sent: blocks claimed and groups of the bitmap
  harq,      \* harq[ue][p]: HARQ process p of a UE
  sync       \* UEs with ul_out_of_sync = 0

ttiVars == <<phase, pid, todo, reserved, taken, start, first, required, share,
             granted, overrun, dci>>
dlVars == <<storeVars, ttiVars, harq, sync>>

\* A process is idle iff its round is 0 and it waits for no feedback.  size is
\* the number of blocks its data was first sent on (history).
Processes == [round : 0..(Mlimit - 1), nb_rb : Nat, waiting : BOOLEAN, size : Nat]
NoDci == [nb_rb |-> 0, groups |-> {}]

DlTypeOK ==
  /\ uRB \in [StoreSlices -> Nat] /\ dRB \in [StoreSlices -> Nat]
  /\ phase \in {"idle", "thor", "sched"}
  /\ pid \in Pids
  /\ todo \subseteq UEs /\ sync \subseteq UEs
  /\ reserved \subseteq Groups /\ taken \subseteq Cells
  /\ start \in Nat
  /\ first \in [UEs -> {4, Unit}]
  /\ required \in [UEs -> Nat] /\ share \in [UEs -> Nat]
  /\ granted \in [UEs -> SUBSET Cells]
  /\ overrun \in BOOLEAN
  /\ dci \in [UEs -> [nb_rb : Nat, groups : SUBSET Groups]]
  /\ harq \in [UEs -> [Pids -> Processes]]

-----------------------------------------------------------------------------
(* Counting blocks.                                                        *)

Before(S, k) == Cardinality({j \in S : j < k})

\* Groups are taken in ascending order while the count of blocks still needed,
\* a uint16_t that loses Unit for each, is not 0: it wraps below.
Take(S, need) ==
  {k \in S : \A n \in 0..Before(S, k) : (need - n * Unit) % 65536 # 0}

\* Mutant of allocate_prbs_sub: the last group of a count is left out.
allocate_prbs_sub_Short(nb_rb, S) == {k \in S : nb_rb > Unit * (Before(S, k) + 1)}

\* allocate_prbs_sub does the same with a signed count.
allocate_prbs_sub(nb_rb, S) == {k \in S : nb_rb > Unit * Before(S, k)}

\* The blocks a bitmap stands for.
Prbs(S) == Unit * Cardinality(S) - (IF N_RBG - 1 \in S THEN Unit - LastRBG ELSE 0)

\* pre_nb_available_rbs, which the pre-processor counts up with rballoc_sub_UE.
PreNb(ue) == Unit * Cardinality(granted[ue])

\* From the first count in steps of Unit until the TBS is large enough, j steps
\* later; a count above the limit becomes the limit.
Grow(from, j, limit) ==
  IF j > 0 /\ from + j * Unit > limit THEN limit ELSE from + j * Unit

-----------------------------------------------------------------------------
DlInit ==
  /\ StoreInit
  /\ phase = "idle" /\ pid = 0 /\ todo = {}
  /\ reserved = {} /\ taken = {} /\ start = 0
  /\ first = [ue \in UEs |-> Unit]
  /\ required = [ue \in UEs |-> 0] /\ share = [ue \in UEs |-> 0]
  /\ granted = [ue \in UEs |-> {}]
  /\ overrun = FALSE
  /\ dci = [ue \in UEs |-> NoDci]
  /\ harq = [ue \in UEs |-> [p \in Pids |->
               [round |-> 0, nb_rb |-> 0, waiting |-> FALSE, size |-> 0]]]
  /\ sync = UEs

\* The reset, assign_rbs_required, sort_UEs and the needs of retransmissions.
\* The cells of rballoc_sub beyond the carrier are uninitialised: junk of them
\* are not 0.  Thor runs only if some UE of the list needs a block.
StartTTI(r, junk, mcs0, grow) ==
  LET p == (pid + 1) % NPids IN
  /\ phase = "idle"
  /\ \A ue \in UEs : ~harq[ue][p].waiting
  /\ pid' = p
  /\ reserved' = r
  /\ taken' = r \cup junk
  /\ start' = 0
  /\ first' = [ue \in UEs |-> IF ue \in mcs0 THEN 4 ELSE Unit]
  /\ required' = [ue \in UEs |->
       IF harq[ue][p].round > 0 THEN harq[ue][p].nb_rb
       ELSE IF grow[ue] = -1 THEN 0 ELSE Grow(first'[ue], grow[ue], N_RB)]
  /\ share' = [ue \in UEs |-> 0]
  /\ granted' = [ue \in UEs |-> {}]
  /\ dci' = [ue \in UEs |-> NoDci]
  /\ todo' = sync
  /\ phase' = IF \E ue \in sync : required'[ue] > 0 THEN "thor" ELSE "sched"
  /\ UNCHANGED <<storeVars, overrun, harq, sync>>

\* sort_UEs puts the most advanced retransmission first.
IsNext(ue) == /\ ue \in todo
              /\ \A v \in todo : harq[v][pid].round <= harq[ue][pid].round

Share(ue) == UE_RNTI_process_function_downlink(ue) \div 3
Band(n) == (start..(start + n - 1)) \cap Cells

\* A UE is given the groups got; the band of the next one is next groups on.
Assign(ue, n, got, next) ==
  /\ phase = "thor" /\ IsNext(ue)
  /\ share' = [share EXCEPT ![ue] = n]
  /\ granted' = [granted EXCEPT ![ue] = got]
  /\ taken' = taken \cup got
  /\ overrun' = (overrun \/ (n > 0 /\ start + n > N_RBG_MAX))
  /\ start' = start + next
  /\ todo' = IF todo = {ue} THEN sync ELSE todo \ {ue}
  /\ phase' = IF todo = {ue} THEN "sched" ELSE "thor"
  /\ UNCHANGED <<storeVars, pid, reserved, first, required, dci, harq, sync>>

\* Mutants of ThorAllocate: whether a group is taken is not looked up; every
\* band begins at the first group.
ThorAllocate_Blind(ue) ==
  Assign(ue, Share(ue), Take(Band(Share(ue)), required[ue]), Share(ue))
ThorAllocate_NoAdvance(ue) ==
  Assign(ue, Share(ue), Take(Band(Share(ue)) \ taken, required[ue]), 0)

\* dlsch_my_scheduler_pre_processor for one UE: the table is read here.
ThorAllocate(ue) ==
  LET n == Share(ue)
  IN  Assign(ue, n, Take(Band(n) \ taken, required[ue]), n)

-----------------------------------------------------------------------------
(* schedule_ue_spec, one UE at a time, and fill_DLSCH_dci.                 *)

\* rballoc_subband: all that was granted, or what nb blocks need of it.
Bitmap(ue, nb) ==
  LET S == granted[ue] \cap Groups
  IN  IF nb = PreNb(ue) THEN S ELSE Take(S, nb)

\* The DCI a UE receives for nb blocks.
DciFor(ue, nb) ==
  [nb_rb |-> nb, groups |-> allocate_prbs_sub(nb, Bitmap(ue, nb))]

\* The UE has no blocks, its DCI finds no control channel elements, it has
\* nothing to send, or its retransmission needs more than it has.
SkipUe(ue) ==
  /\ phase = "sched" /\ ue \in todo
  /\ todo' = todo \ {ue}
  /\ UNCHANGED <<storeVars, phase, pid, reserved, taken, start, first, required,
                 share, granted, overrun, dci, harq, sync>>

\* The UE is sent d on process pid, whose record becomes h.
Transmit(ue, d, h) ==
  /\ phase = "sched" /\ ue \in todo
  /\ PreNb(ue) > 0
  /\ dci' = [dci EXCEPT ![ue] = d]
  /\ harq' = [harq EXCEPT ![ue][pid] = [h EXCEPT !.waiting = TRUE]]
  /\ todo' = todo \ {ue}
  /\ UNCHANGED <<storeVars, phase, pid, reserved, taken, start, first, required,
                 share, granted, overrun, sync>>

\* Mutants of SendRetransmission: whether the blocks suffice is not looked at; a
\* block of the grant must be left over.
SendRetransmission_Unchecked(ue) ==
  LET h == harq[ue][pid] IN
  /\ h.round > 0
  /\ Transmit(ue, DciFor(ue, h.nb_rb), h)
SendRetransmission_Strict(ue) ==
  LET h == harq[ue][pid] IN
  /\ h.round > 0 /\ h.nb_rb < PreNb(ue)
  /\ Transmit(ue, DciFor(ue, h.nb_rb), h)

SendRetransmission(ue) ==
  LET h == harq[ue][pid] IN
  /\ h.round > 0 /\ h.nb_rb <= PreNb(ue)
  /\ Transmit(ue, DciFor(ue, h.nb_rb), h)

\* A new transport block: its data fits j units after the first TBS tried.
SendNew(ue, j) ==
  LET h == harq[ue][pid]
      nb == Grow(first[ue], j, PreNb(ue))
      d == DciFor(ue, nb)
  IN
  /\ h.round = 0
  /\ Transmit(ue, d, [h EXCEPT !.nb_rb = nb, !.size = Prbs(d.groups)])

EndTTI ==
  /\ phase = "sched" /\ todo = {}
  /\ phase' = "idle"
  /\ reserved' = {} /\ taken' = {} /\ start' = 0
  /\ first' = [ue \in UEs |-> Unit]
  /\ required' = [ue \in UEs |-> 0] /\ share' = [ue \in UEs |-> 0]
  /\ granted' = [ue \in UEs |-> {}]
  /\ dci' = [ue \in UEs |-> NoDci]
  /\ UNCHANGED <<storeVars, pid, todo, overrun, harq, sync>>

-----------------------------------------------------------------------------
(* The PHY between two subframes.                                          *)

\* process_HARQ_feedback: a missing answer counts as NACK.
Ack(ue, p) ==
  /\ phase = "idle" /\ harq[ue][p].waiting
  /\ harq' = [harq EXCEPT ![ue][p] = [@ EXCEPT !.round = 0, !.waiting = FALSE]]
  /\ UNCHANGED <<storeVars, ttiVars, sync>>

\* After its last round a process gives its data up.
NextRound(n) == IF n + 1 = Mlimit THEN 0 ELSE n + 1

\* Mutant of Nack: the rounds of a process are not limited.
Nack_NoLimit(ue, p) ==
  /\ phase = "idle" /\ harq[ue][p].waiting
  /\ harq' = [harq EXCEPT ![ue][p] = [@ EXCEPT !.round = @ + 1, !.waiting = FALSE]]
  /\ UNCHANGED <<storeVars, ttiVars, sync>>

Nack(ue, p) ==
  LET n == NextRound(harq[ue][p].round) IN
  /\ phase = "idle" /\ harq[ue][p].waiting
  /\ harq' = [harq EXCEPT ![ue][p] = [@ EXCEPT !.round = n, !.waiting = FALSE]]
  /\ UNCHANGED <<storeVars, ttiVars, sync>>

\* ul_out_of_sync, set when a UE is not heard for long and cleared when it is.
LoseSync(ue) ==
  /\ phase = "idle" /\ ue \in sync
  /\ sync' = sync \ {ue}
  /\ UNCHANGED <<storeVars, ttiVars, harq>>

RegainSync(ue) ==
  /\ phase = "idle" /\ ue \in UEs \ sync
  /\ sync' = sync \cup {ue}
  /\ UNCHANGED <<storeVars, ttiVars, harq>>

StoreStep == StoreNext /\ UNCHANGED <<ttiVars, harq, sync>>

Start(r) ==
  \E junk \in {{}, Cells \ Groups}, mcs0 \in SUBSET UEs,
     grow \in [UEs -> Growth \cup {-1}] : StartTTI(r, junk, mcs0, grow)

Schedule(ue) ==
  \/ SkipUe(ue)
  \/ SendRetransmission(ue)
  \/ \E j \in Growth : SendNew(ue, j)

DlNext ==
  \/ StoreStep
  \/ \E r \in Reservations : Start(r)
  \/ \E ue \in UEs : ThorAllocate(ue) \/ Schedule(ue)
  \/ EndTTI
  \/ \E ue \in UEs, p \in Pids : Ack(ue, p) \/ Nack(ue, p)
  \/ \E ue \in UEs : LoseSync(ue) \/ RegainSync(ue)

DlSpec == DlInit /\ [][DlNext]_dlVars
=============================================================================
