-------------------------- MODULE DlSlicingProofs --------------------------
(***************************************************************************)
(* Proofs for DlSlicing, for every number of UEs, table and sequence of    *)
(* stores to it.  For every carrier: the types, that grants and            *)
(* transmissions of a subframe are disjoint, that slices are isolated and  *)
(* that transmissions cover the groups claimed for them.  For the carrier  *)
(* of 20 MHz, whose groups are all of four blocks: that retransmissions    *)
(* keep their size.                                                        *)
(***************************************************************************)
EXTENDS DlSlicingProps, FiniteSetTheorems, TLAPS

-----------------------------------------------------------------------------
(* Counting.                                                               *)

\* The arithmetic the counts of blocks rest on: products of naturals, and
\* differences of blocks of groups, are naturals.
LEMMA Products ==
  ASSUME NEW a \in Nat, NEW b \in Nat
  PROVE  /\ a * b \in Nat
         /\ b > 0 => a * b >= a
<1>1. a * b \in Nat
  OBVIOUS
<1>2. ASSUME b > 0 PROVE a * b >= a
  <2>1. a * b = a * (b - 1) + a
    OBVIOUS
  <2>2. a * (b - 1) \in Nat
    BY <1>2
  <2>. QED
    BY <2>1, <2>2, <1>1
<1>. QED
  BY <1>1, <1>2

\* A set of groups or cells has a count.
LEMMA CountOfCells ==
  ASSUME NEW S, S \subseteq Cells
  PROVE  /\ IsFiniteSet(S) /\ Cardinality(S) \in Nat
         /\ S # {} => Cardinality(S) > 0
<1>1. IsFiniteSet(Cells)
  <2>1. Cells = 0..24
    BY DEF Cells, N_RBG_MAX
  <2>2. 0 \in Int /\ 24 \in Int
    OBVIOUS
  <2>3. IsFiniteSet(0..24)
    BY <2>2, FS_Interval, Zenon
  <2>. QED
    BY <2>1, <2>3
<1>2. IsFiniteSet(S)
  BY <1>1, FS_Subset
<1>3. Cardinality(S) \in Nat
  BY <1>2, FS_CardinalityType
<1>. QED
  BY <1>2, <1>3, FS_EmptySet

\* The groups of the carrier are cells of rballoc_sub.
LEMMA GroupsAreCells == Groups \subseteq Cells
BY DlSlicingAssumption DEF Groups, Cells, N_RBG_MAX

\* The blocks of a carrier are a natural number.
LEMMA CarrierHasBlocks == N_RB \in Nat
<1>1. Unit \in Nat /\ N_RBG - 1 \in Nat /\ LastRBG \in Nat
  BY DlSlicingAssumption DEF N_RBG_MAX
<1>2. Unit * (N_RBG - 1) \in Nat
  BY <1>1, Products
<1>. QED
  BY <1>1, <1>2 DEF N_RB

\* Prbs, which mirrors the count of the blocks of a bitmap, is natural: the
\* last group is only corrected for when it is there.
LEMMA PrbsIsNat ==
  ASSUME NEW S, S \subseteq Groups
  PROVE  Prbs(S) \in Nat
<1>. DEFINE c == Cardinality(S)
<1>1. c \in Nat /\ (S # {} => c > 0)
  BY GroupsAreCells, CountOfCells
<1>2. Unit \in Nat /\ LastRBG \in Nat /\ LastRBG >= 1 /\ LastRBG <= Unit
  BY DlSlicingAssumption
<1>3. Unit * c \in Nat /\ (c > 0 => Unit * c >= Unit)
  BY <1>1, <1>2, Products
<1>4. Prbs(S) = Unit * c - (IF N_RBG - 1 \in S THEN Unit - LastRBG ELSE 0)
  BY DEF Prbs
<1>. HIDE DEF c
<1>5. CASE N_RBG - 1 \in S
  <2>1. Unit * c >= Unit
    BY <1>1, <1>3, <1>5
  <2>2. Prbs(S) = Unit * c - (Unit - LastRBG)
    BY <1>4, <1>5
  <2>. QED
    BY <2>1, <2>2, <1>2, <1>3
<1>6. CASE N_RBG - 1 \notin S
  BY <1>3, <1>4, <1>6
<1>. QED
  BY <1>5, <1>6

\* The loop that searches for a TBS large enough ends on a natural count.
LEMMA GrowIsNat ==
  ASSUME NEW from \in Nat, NEW j \in Nat, NEW limit \in Nat
  PROVE  Grow(from, j, limit) \in Nat
<1>1. Unit \in Nat
  BY DlSlicingAssumption
<1>2. j * Unit \in Nat
  BY <1>1, Products
<1>. QED
  BY <1>2 DEF Grow

\* Both loops over rballoc only pick groups they are offered.
LEMMA TakenFromOffer ==
  ASSUME NEW S, NEW n
  PROVE  Take(S, n) \subseteq S /\ allocate_prbs_sub(n, S) \subseteq S
BY DEF Take, allocate_prbs_sub

\* What is sent to a UE lies in what it was granted.
LEMMA DciWithinGrant ==
  ASSUME NEW ue, NEW nb
  PROVE  /\ DciFor(ue, nb).groups \subseteq granted[ue]
         /\ DciFor(ue, nb).groups \subseteq Groups
         /\ DciFor(ue, nb).nb_rb = nb
         /\ nb \in Nat => DciFor(ue, nb) \in [nb_rb : Nat, groups : SUBSET Groups]
<1>. DEFINE B == Bitmap(ue, nb)
            G == granted[ue] \cap Groups
<1>1. B \subseteq G
  BY TakenFromOffer DEF Bitmap
<1>2. DciFor(ue, nb) = [nb_rb |-> nb, groups |-> allocate_prbs_sub(nb, B)]
  BY DEF DciFor
<1>3. allocate_prbs_sub(nb, B) \subseteq B
  BY TakenFromOffer
<1>. HIDE DEF B
<1>. QED
  BY <1>1, <1>2, <1>3

\* The table only ever holds naturals, so shares of it are natural.
LEMMA ShareIsNat ==
  ASSUME DlTypeOK, NEW ue
  PROVE  Share(ue) \in Nat
<1>1. UE_RNTI_process_function_downlink(ue) \in Nat
  BY DEF DlTypeOK, UE_RNTI_process_function_downlink
<1>. QED
  BY <1>1 DEF Share
-----------------------------------------------------------------------------
(* Types.                                                                  *)

LEMMA TypesInitially == DlInit => DlTypeOK
<1>. SUFFICES ASSUME DlInit PROVE DlTypeOK
  OBVIOUS
<1>1. uRB \in [StoreSlices -> Nat] /\ dRB \in [StoreSlices -> Nat]
  BY DEF DlInit, StoreInit
<1>2. /\ phase \in {"idle", "thor", "sched"}
      /\ pid \in Pids
      /\ todo \subseteq UEs /\ sync \subseteq UEs
      /\ reserved \subseteq Groups /\ taken \subseteq Cells
      /\ start \in Nat
  BY DlSlicingAssumption DEF DlInit, Pids
<1>3. /\ first \in [UEs -> {4, Unit}]
      /\ required \in [UEs -> Nat] /\ share \in [UEs -> Nat]
      /\ granted \in [UEs -> SUBSET Cells]
  BY DEF DlInit
<1>4. dci \in [UEs -> [nb_rb : Nat, groups : SUBSET Groups]]
  BY DEF DlInit, NoDci
<1>5. harq \in [UEs -> [Pids -> Processes]]
  <2>. DEFINE h == [round |-> 0, nb_rb |-> 0, waiting |-> FALSE, size |-> 0]
  <2>1. h \in Processes
    BY DlSlicingAssumption DEF Processes
  <2>2. harq = [ue \in UEs |-> [p \in Pids |-> h]]
    BY DEF DlInit
  <2>. HIDE DEF h
  <2>. QED
    BY <2>1, <2>2
<1>6. overrun \in BOOLEAN
  BY DEF DlInit
<1>. QED
  BY <1>1, <1>2, <1>3, <1>4, <1>5, <1>6 DEF DlTypeOK

\* The hypervisor only stores naturals.
LEMMA TypesOfStore ==
  ASSUME DlTypeOK, StoreStep
  PROVE  DlTypeOK'
<1>1. uRB' \in [StoreSlices -> Nat] /\ dRB' \in [StoreSlices -> Nat]
  BY NaturalBlocks
     DEF DlTypeOK, StoreStep, StoreNext, StoreUplink, StoreDownlink, StoreSlices,
         Allocated
<1>. QED
  BY <1>1 DEF DlTypeOK, StoreStep, ttiVars, Pids, Cells, Groups, Processes

\* A subframe starts from needs that are counts of blocks.
LEMMA TypesOfStart ==
  ASSUME DlTypeOK, NEW r \in Reservations, Start(r)
  PROVE  DlTypeOK'
<1>1. PICK junk \in {{}, Cells \ Groups}, mcs0 \in SUBSET UEs,
           grow \in [UEs -> Growth \cup {-1}] : StartTTI(r, junk, mcs0, grow)
  BY DEF Start
<1>. DEFINE p == (pid + 1) % NPids
<1>2. p \in Pids
  BY DlSlicingAssumption DEF DlTypeOK, Pids
<1>3. first' \in [UEs -> {4, Unit}] /\ \A ue \in UEs : first'[ue] \in Nat
  BY <1>1, DlSlicingAssumption DEF StartTTI
<1>4. required' \in [UEs -> Nat]
  <2>. DEFINE need(ue) ==
         IF harq[ue][p].round > 0 THEN harq[ue][p].nb_rb
         ELSE IF grow[ue] = -1 THEN 0 ELSE Grow(first'[ue], grow[ue], N_RB)
  <2>1. required' = [ue \in UEs |-> need(ue)]
    BY <1>1 DEF StartTTI
  <2>2. ASSUME NEW ue \in UEs PROVE need(ue) \in Nat
    <3>1. harq[ue][p].nb_rb \in Nat
      BY <1>2 DEF DlTypeOK, Processes
    <3>2. grow[ue] # -1 => Grow(first'[ue], grow[ue], N_RB) \in Nat
      <4>1. SUFFICES ASSUME grow[ue] # -1
                     PROVE  Grow(first'[ue], grow[ue], N_RB) \in Nat
        OBVIOUS
      <4>2. grow[ue] \in Nat
        BY <4>1, DlSlicingAssumption
      <4>. QED
        BY <4>2, <1>3, CarrierHasBlocks, GrowIsNat
    <3>. QED
      BY <3>1, <3>2
  <2>. HIDE DEF need
  <2>. QED
    BY <2>1, <2>2
<1>5. dci' \in [UEs -> [nb_rb : Nat, groups : SUBSET Groups]]
  BY <1>1 DEF StartTTI, NoDci
<1>6. /\ reserved' \subseteq Groups /\ taken' \subseteq Cells
      /\ granted' \in [UEs -> SUBSET Cells] /\ share' \in [UEs -> Nat]
      /\ start' \in Nat
  BY <1>1, GroupsAreCells, DlSlicingAssumption DEF StartTTI
<1>7. /\ phase' \in {"idle", "thor", "sched"} /\ pid' \in Pids
      /\ todo' \subseteq UEs
  BY <1>1, <1>2 DEF StartTTI, DlTypeOK
<1>8. UNCHANGED <<storeVars, overrun, harq, sync>>
  BY <1>1 DEF StartTTI
<1>. HIDE DEF p
<1>. QED
  BY <1>3, <1>4, <1>5, <1>6, <1>7, <1>8
     DEF DlTypeOK, storeVars, Pids, Cells, Groups, Processes

\* The groups of a band are cells, and its width is a natural number.
LEMMA TypesOfThor ==
  ASSUME DlTypeOK, NEW ue \in UEs, ThorAllocate(ue)
  PROVE  DlTypeOK'
<1>. DEFINE n == Share(ue)
            got == Take(Band(n) \ taken, required[ue])
<1>1. n \in Nat
  BY ShareIsNat
<1>2. got \subseteq Cells
  <2>1. Band(n) \subseteq Cells
    BY DEF Band
  <2>. QED
    BY <2>1, TakenFromOffer
<1>3. Assign(ue, n, got, n)
  BY DEF ThorAllocate
<1>. HIDE DEF n, got
<1>4. /\ share' \in [UEs -> Nat] /\ granted' \in [UEs -> SUBSET Cells]
      /\ taken' \subseteq Cells /\ start' \in Nat /\ overrun' \in BOOLEAN
  BY <1>1, <1>2, <1>3 DEF Assign, DlTypeOK
<1>5. phase' \in {"idle", "thor", "sched"} /\ todo' \subseteq UEs
  BY <1>3 DEF Assign, DlTypeOK
<1>6. UNCHANGED <<storeVars, pid, reserved, first, required, dci, harq, sync>>
  BY <1>3 DEF Assign
<1>. QED
  BY <1>4, <1>5, <1>6
     DEF DlTypeOK, storeVars, Pids, Cells, Groups, Processes

\* The process a transmission is recorded in is a process again.
LEMMA TypesOfTransmit ==
  ASSUME DlTypeOK, NEW ue \in UEs,
         NEW d \in [nb_rb : Nat, groups : SUBSET Groups],
         NEW h \in Processes, Transmit(ue, d, h)
  PROVE  DlTypeOK'
<1>1. dci' \in [UEs -> [nb_rb : Nat, groups : SUBSET Groups]]
  BY DEF Transmit, DlTypeOK
<1>2. harq' \in [UEs -> [Pids -> Processes]]
  <2>. DEFINE g == [h EXCEPT !.waiting = TRUE]
  <2>1. g \in Processes
    BY DEF Processes
  <2>2. harq' = [harq EXCEPT ![ue][pid] = g]
    BY DEF Transmit
  <2>. HIDE DEF g
  <2>. QED
    BY <2>1, <2>2 DEF DlTypeOK
<1>3. todo' \subseteq UEs
  BY DEF Transmit, DlTypeOK
<1>4. UNCHANGED <<storeVars, phase, pid, reserved, taken, start, first, required,
                  share, granted, overrun, sync>>
  BY DEF Transmit
<1>. QED
  BY <1>1, <1>2, <1>3, <1>4
     DEF DlTypeOK, storeVars, Pids, Cells, Groups, Processes

\* A UE is skipped, sent its retransmission or sent new data.
LEMMA TypesOfSchedule ==
  ASSUME DlTypeOK, NEW ue \in UEs, Schedule(ue)
  PROVE  DlTypeOK'
<1>1. CASE SkipUe(ue)
  BY <1>1 DEF SkipUe, DlTypeOK, storeVars, Pids, Cells, Groups, Processes
<1>. DEFINE h == harq[ue][pid]
<1>2. h \in Processes
  BY DEF DlTypeOK
<1>3. CASE SendRetransmission(ue)
  <2>. DEFINE d == DciFor(ue, h.nb_rb)
  <2>1. d \in [nb_rb : Nat, groups : SUBSET Groups]
    BY <1>2, DciWithinGrant DEF Processes
  <2>2. Transmit(ue, d, h)
    BY <1>3 DEF SendRetransmission
  <2>. HIDE DEF d, h
  <2>. QED
    BY <1>2, <2>1, <2>2, TypesOfTransmit
<1>4. ASSUME NEW j \in Growth, SendNew(ue, j) PROVE DlTypeOK'
  <2>. DEFINE nb == Grow(first[ue], j, PreNb(ue))
              d == DciFor(ue, nb)
              g == [h EXCEPT !.nb_rb = nb, !.size = Prbs(d.groups)]
  <2>1. nb \in Nat
    <3>1. first[ue] \in Nat /\ j \in Nat /\ Unit \in Nat
      BY <1>4, DlSlicingAssumption DEF DlTypeOK
    <3>2. PreNb(ue) \in Nat
      <4>1. Cardinality(granted[ue]) \in Nat
        BY CountOfCells DEF DlTypeOK
      <4>. QED
        BY <3>1, <4>1, Products DEF PreNb
    <3>. QED
      BY <3>1, <3>2, GrowIsNat
  <2>2. d \in [nb_rb : Nat, groups : SUBSET Groups]
    BY <2>1, DciWithinGrant
  <2>3. Prbs(d.groups) \in Nat
    BY <2>2, PrbsIsNat
  <2>4. Transmit(ue, d, g)
    BY <1>4 DEF SendNew
  <2>. HIDE DEF nb, d, h
  <2>5. g \in Processes
    BY <1>2, <2>1, <2>3 DEF Processes
  <2>. HIDE DEF g
  <2>. QED
    BY <2>2, <2>4, <2>5, TypesOfTransmit
<1>. QED
  BY <1>1, <1>3, <1>4 DEF Schedule

\* The end of a subframe resets what was allocated in it.
LEMMA TypesOfEnd ==
  ASSUME DlTypeOK, EndTTI
  PROVE  DlTypeOK'
<1>1. dci' \in [UEs -> [nb_rb : Nat, groups : SUBSET Groups]]
  BY DEF EndTTI, NoDci
<1>2. /\ first' \in [UEs -> {4, Unit}] /\ required' \in [UEs -> Nat]
      /\ share' \in [UEs -> Nat] /\ granted' \in [UEs -> SUBSET Cells]
      /\ reserved' \subseteq Groups /\ taken' \subseteq Cells /\ start' \in Nat
      /\ phase' \in {"idle", "thor", "sched"}
  BY DEF EndTTI
<1>3. UNCHANGED <<storeVars, pid, todo, overrun, harq, sync>>
  BY DEF EndTTI
<1>. QED
  BY <1>1, <1>2, <1>3 DEF DlTypeOK, storeVars, Pids, Cells, Groups, Processes

\* process_HARQ_feedback leaves a round below the limit.
LEMMA TypesOfFeedback ==
  ASSUME DlTypeOK, NEW ue \in UEs, NEW p \in Pids, Ack(ue, p) \/ Nack(ue, p)
  PROVE  DlTypeOK'
<1>. DEFINE h == harq[ue][p]
<1>1. h \in Processes
  BY DEF DlTypeOK
<1>2. PICK n \in 0..(Mlimit - 1) :
        harq' = [harq EXCEPT ![ue][p] = [h EXCEPT !.round = n, !.waiting = FALSE]]
  <2>1. CASE Ack(ue, p)
    <3>1. 0 \in 0..(Mlimit - 1)
      BY DlSlicingAssumption
    <3>2. harq' = [harq EXCEPT ![ue][p] = [h EXCEPT !.round = 0, !.waiting = FALSE]]
      BY <2>1 DEF Ack
    <3>. QED
      BY <3>1, <3>2
  <2>2. CASE Nack(ue, p)
    <3>. DEFINE n == NextRound(h.round)
    <3>1. n \in 0..(Mlimit - 1)
      BY <1>1, DlSlicingAssumption DEF Processes, NextRound
    <3>2. harq' = [harq EXCEPT ![ue][p] = [h EXCEPT !.round = n, !.waiting = FALSE]]
      BY <2>2 DEF Nack
    <3>. QED
      BY <3>1, <3>2
  <2>. QED
    BY <2>1, <2>2
<1>3. harq' \in [UEs -> [Pids -> Processes]]
  <2>. DEFINE g == [h EXCEPT !.round = n, !.waiting = FALSE]
  <2>1. g \in Processes
    BY <1>1 DEF Processes
  <2>2. harq' = [harq EXCEPT ![ue][p] = g]
    BY <1>2
  <2>. HIDE DEF g
  <2>. QED
    BY <2>1, <2>2 DEF DlTypeOK
<1>4. UNCHANGED <<storeVars, ttiVars, sync>>
  BY DEF Ack, Nack
<1>. QED
  BY <1>3, <1>4 DEF DlTypeOK, storeVars, ttiVars, Pids, Cells, Groups, Processes

\* DlTypeOK is kept by every step of the specification.
LEMMA TypesKept == DlTypeOK /\ [DlNext]_dlVars => DlTypeOK'
<1>. SUFFICES ASSUME DlTypeOK, [DlNext]_dlVars PROVE DlTypeOK'
  OBVIOUS
<1>1. CASE StoreStep
  BY <1>1, TypesOfStore
<1>2. ASSUME NEW r \in Reservations, Start(r) PROVE DlTypeOK'
  BY <1>2, TypesOfStart
<1>3. ASSUME NEW ue \in UEs, ThorAllocate(ue) PROVE DlTypeOK'
  BY <1>3, TypesOfThor
<1>4. ASSUME NEW ue \in UEs, Schedule(ue) PROVE DlTypeOK'
  BY <1>4, TypesOfSchedule
<1>5. CASE EndTTI
  BY <1>5, TypesOfEnd
<1>6. ASSUME NEW ue \in UEs, NEW p \in Pids, Ack(ue, p) \/ Nack(ue, p)
      PROVE  DlTypeOK'
  BY <1>6, TypesOfFeedback
<1>7. ASSUME NEW ue \in UEs, LoseSync(ue) \/ RegainSync(ue) PROVE DlTypeOK'
  BY <1>7 DEF LoseSync, RegainSync, DlTypeOK, storeVars, ttiVars, Pids, Cells,
              Groups, Processes
<1>8. CASE UNCHANGED dlVars
  BY <1>8 DEF dlVars, DlTypeOK, storeVars, ttiVars, Pids, Cells, Groups, Processes
<1>. QED
  BY <1>1, <1>2, <1>3, <1>4, <1>5, <1>6, <1>7, <1>8 DEF DlNext

\* Every variable of the downlink scheduler keeps its type: indices of UEs and
\* HARQ processes are in range and every count of blocks is a natural number,
\* whatever process_HARQ_feedback and the hypervisor do between its steps.
THEOREM DlTypesHold == DlSpec => []DlTypeOK
BY TypesInitially, TypesKept, PTL DEF DlSpec

-----------------------------------------------------------------------------
(* Disjointness.                                                           *)

\* Only the UE whose turn it is gets groups, and only free ones.
LEMMA GrantsOfThor ==
  ASSUME DlTypeOK, GrantsDisjoint, NEW ue \in UEs, ThorAllocate(ue)
  PROVE  GrantsDisjoint'
<1>. DEFINE got == Take(Band(Share(ue)) \ taken, required[ue])
<1>1. got \cap taken = {}
  <2>1. got \subseteq Band(Share(ue)) \ taken
    BY TakenFromOffer
  <2>. QED
    BY <2>1
<1>2. /\ phase = "thor" /\ ue \in todo
      /\ granted' = [granted EXCEPT ![ue] = got]
      /\ taken' = taken \cup got
      /\ UNCHANGED <<reserved, dci>>
      /\ phase' \in {"thor", "sched"}
      /\ phase' = "thor" => todo' = todo \ {ue}
  BY DEF ThorAllocate, Assign, IsNext
<1>. HIDE DEF got
<1>3. \A v \in UEs : granted'[v] = IF v = ue THEN got ELSE granted[v]
  BY <1>2 DEF DlTypeOK
<1>4. granted[ue] = {}
  BY <1>2 DEF GrantsDisjoint
<1>5. reserved' \subseteq taken'
  BY <1>2 DEF GrantsDisjoint
<1>6. ASSUME NEW v \in UEs
      PROVE  /\ granted'[v] \subseteq taken'
             /\ granted'[v] \cap reserved' = {}
             /\ dci'[v].groups \subseteq granted'[v]
  BY <1>1, <1>2, <1>3, <1>4 DEF GrantsDisjoint
<1>7. ASSUME NEW v \in UEs, NEW w \in UEs \ {v}
      PROVE  granted'[v] \cap granted'[w] = {}
  BY <1>1, <1>3 DEF GrantsDisjoint
<1>8. ASSUME NEW v \in UEs
      PROVE  /\ phase' = "idle" => granted'[v] = {}
             /\ phase' = "thor" /\ v \in todo' => granted'[v] = {}
  BY <1>2, <1>3 DEF GrantsDisjoint
<1>. QED
  BY <1>5, <1>6, <1>7, <1>8 DEF GrantsDisjoint

\* A transmission stays within the grant of its UE.
LEMMA GrantsOfTransmit ==
  ASSUME DlTypeOK, GrantsDisjoint, NEW ue \in UEs, NEW nb, NEW h,
         Transmit(ue, DciFor(ue, nb), h)
  PROVE  GrantsDisjoint'
<1>. DEFINE d == DciFor(ue, nb)
<1>1. d.groups \subseteq granted[ue]
  BY DciWithinGrant
<1>2. /\ dci' = [dci EXCEPT ![ue] = d]
      /\ phase = "sched"
      /\ UNCHANGED <<phase, reserved, taken, granted>>
  BY DEF Transmit
<1>. HIDE DEF d
<1>3. \A v \in UEs : dci'[v].groups \subseteq granted[v]
  BY <1>1, <1>2 DEF DlTypeOK, GrantsDisjoint
<1>. QED
  BY <1>2, <1>3 DEF GrantsDisjoint

\* GrantsDisjoint is kept by every step.
LEMMA GrantsKept == DlTypeOK /\ GrantsDisjoint /\ [DlNext]_dlVars => GrantsDisjoint'
<1>. SUFFICES ASSUME DlTypeOK, GrantsDisjoint, [DlNext]_dlVars PROVE GrantsDisjoint'
  OBVIOUS
<1>1. CASE StoreStep
  BY <1>1 DEF StoreStep, ttiVars, GrantsDisjoint
<1>2. ASSUME NEW r \in Reservations, Start(r) PROVE GrantsDisjoint'
  <2>1. PICK junk \in {{}, Cells \ Groups}, mcs0 \in SUBSET UEs,
             grow \in [UEs -> Growth \cup {-1}] : StartTTI(r, junk, mcs0, grow)
    BY <1>2 DEF Start
  <2>2. reserved' \subseteq taken'
    BY <2>1 DEF StartTTI
  <2>3. ASSUME NEW v \in UEs PROVE granted'[v] = {} /\ dci'[v].groups = {}
    BY <2>1 DEF StartTTI, NoDci
  <2>. QED
    BY <2>2, <2>3 DEF GrantsDisjoint
<1>3. ASSUME NEW ue \in UEs, ThorAllocate(ue) PROVE GrantsDisjoint'
  BY <1>3, GrantsOfThor
<1>4. ASSUME NEW ue \in UEs, Schedule(ue) PROVE GrantsDisjoint'
  <2>1. CASE SkipUe(ue)
    BY <2>1 DEF SkipUe, GrantsDisjoint
  <2>2. CASE SendRetransmission(ue)
    <3>1. Transmit(ue, DciFor(ue, harq[ue][pid].nb_rb), harq[ue][pid])
      BY <2>2 DEF SendRetransmission
    <3>. QED
      BY <3>1, GrantsOfTransmit
  <2>3. ASSUME NEW j \in Growth, SendNew(ue, j) PROVE GrantsDisjoint'
    <3>1. PICK nb, h : Transmit(ue, DciFor(ue, nb), h)
      BY <2>3 DEF SendNew
    <3>. QED
      BY <3>1, GrantsOfTransmit
  <2>. QED
    BY <1>4, <2>1, <2>2, <2>3 DEF Schedule
<1>5. CASE EndTTI
  <2>1. reserved' \subseteq taken'
    BY <1>5 DEF EndTTI
  <2>2. ASSUME NEW v \in UEs PROVE granted'[v] = {} /\ dci'[v].groups = {}
    BY <1>5 DEF EndTTI, NoDci
  <2>. QED
    BY <2>1, <2>2 DEF GrantsDisjoint
<1>6. ASSUME NEW ue \in UEs, NEW p \in Pids, Ack(ue, p) \/ Nack(ue, p)
      PROVE  GrantsDisjoint'
  <2>1. UNCHANGED ttiVars
    BY <1>6 DEF Ack, Nack
  <2>. QED
    BY <2>1 DEF ttiVars, GrantsDisjoint
<1>7. ASSUME NEW ue \in UEs, LoseSync(ue) \/ RegainSync(ue) PROVE GrantsDisjoint'
  BY <1>7 DEF LoseSync, RegainSync, ttiVars, GrantsDisjoint
<1>8. CASE UNCHANGED dlVars
  BY <1>8 DEF dlVars, ttiVars, GrantsDisjoint
<1>. QED
  BY <1>1, <1>2, <1>3, <1>4, <1>5, <1>6, <1>7, <1>8 DEF DlNext

\* Grants of dlsch_my_scheduler_pre_processor never overlap each other or the
\* groups of common channels.
THEOREM GrantsAreDisjoint == DlSpec => []GrantsDisjoint
<1>1. DlInit => GrantsDisjoint
  BY DEF DlInit, GrantsDisjoint, NoDci
<1>. QED
  BY <1>1, TypesInitially, TypesKept, GrantsKept, PTL DEF DlSpec

\* No two UEs are sent to on the same blocks of a subframe, nor any on blocks of
\* a common channel, for every carrier, every set of UEs and every sequence of
\* stores to the slice table, those between two reads of one subframe included.
THEOREM TransmissionsAreDisjoint == DlSpec => []TransmissionsDisjoint
<1>1. GrantsDisjoint => TransmissionsDisjoint
  BY DEF GrantsDisjoint, TransmissionsDisjoint
<1>. QED
  BY <1>1, GrantsAreDisjoint, PTL

-----------------------------------------------------------------------------
(* How many groups the loops over rballoc pick.                            *)

\* The elements of S before k.
Earlier(S, k) == {j \in S : j < k}

\* They are fewer than S has, and more for a later element.
LEMMA BeforeIsMonotone ==
  ASSUME NEW S, S \subseteq Cells, NEW k \in S
  PROVE  /\ Before(S, k) \in 0..(Cardinality(S) - 1)
         /\ \A j \in S : j < k => Before(S, j) < Before(S, k)
<1>1. S \subseteq Nat
  BY DEF Cells, N_RBG_MAX
<1>2. IsFiniteSet(S) /\ Cardinality(S) \in Nat
  BY CountOfCells
<1>3. ASSUME NEW x \in S
      PROVE  /\ IsFiniteSet(Earlier(S, x)) /\ Cardinality(Earlier(S, x)) \in Nat
             /\ Before(S, x) = Cardinality(Earlier(S, x))
  <2>1. Earlier(S, x) \subseteq Cells
    BY DEF Earlier
  <2>2. IsFiniteSet(Earlier(S, x)) /\ Cardinality(Earlier(S, x)) \in Nat
    BY <2>1, CountOfCells
  <2>. QED
    BY <2>2 DEF Before, Earlier
<1>4. Cardinality(Earlier(S, k)) <= Cardinality(S) - 1
  <2>1. Earlier(S, k) \subseteq S \ {k}
    BY <1>1 DEF Earlier
  <2>2. IsFiniteSet(S \ {k}) /\ Cardinality(S \ {k}) = Cardinality(S) - 1
    BY <1>2, FS_RemoveElement
  <2>. QED
    BY <2>1, <2>2, FS_Subset
<1>5. ASSUME NEW j \in S, j < k
      PROVE  Cardinality(Earlier(S, j)) < Cardinality(Earlier(S, k))
  <2>1. Earlier(S, j) \cup {j} \subseteq Earlier(S, k)
    <3>1. j \in Nat /\ k \in Nat
      BY <1>1
    <3>2. ASSUME NEW i \in S, i < j PROVE i < k
      <4>1. i \in Nat
        BY <1>1
      <4>. QED
        BY <1>5, <3>1, <3>2, <4>1
    <3>. QED
      BY <1>5, <3>2 DEF Earlier
  <2>2. j \notin Earlier(S, j)
    BY <1>1 DEF Earlier
  <2>3. Cardinality(Earlier(S, j) \cup {j}) = Cardinality(Earlier(S, j)) + 1
    BY <1>3, <2>2, FS_AddElement
  <2>4. Cardinality(Earlier(S, j) \cup {j}) <= Cardinality(Earlier(S, k))
    BY <1>3, <2>1, FS_Subset
  <2>5. Cardinality(Earlier(S, j)) \in Nat /\ Cardinality(Earlier(S, k)) \in Nat
    BY <1>3
  <2>. QED
    BY <2>3, <2>4, <2>5
<1>6. Before(S, k) = Cardinality(Earlier(S, k)) /\ Cardinality(Earlier(S, k)) \in Nat
  BY <1>3
<1>7. Before(S, k) \in 0..(Cardinality(S) - 1)
  BY <1>2, <1>4, <1>6
<1>8. \A j \in S : j < k => Before(S, j) < Before(S, k)
  BY <1>3, <1>5, <1>6
<1>. QED
  BY <1>7, <1>8

\* The elements of S that come after fewer than n.
Firsts(S, n) == {k \in S : Before(S, k) < n}

\* There are n of them.
LEMMA FirstsAreCounted ==
  ASSUME NEW S, S \subseteq Cells, NEW n \in Nat, n <= Cardinality(S)
  PROVE  Cardinality(Firsts(S, n)) = n
<1>. DEFINE c == Cardinality(S)
            f == [k \in S |-> Before(S, k)]
            F == Firsts(S, n)
            g == [k \in F |-> Before(S, k)]
<1>1. IsFiniteSet(S) /\ c \in Nat /\ S \subseteq Nat
  <2>1. S \subseteq Nat
    BY DEF Cells, N_RBG_MAX
  <2>. QED
    BY <2>1, CountOfCells
<1>2. \A k \in S : Before(S, k) \in 0..(c - 1)
  BY BeforeIsMonotone
<1>3. ASSUME NEW j \in S, NEW k \in S, Before(S, j) = Before(S, k) PROVE j = k
  <2>1. j \in Nat /\ k \in Nat /\ Before(S, j) \in Nat
    BY <1>1, <1>2
  <2>2. j < k => Before(S, j) < Before(S, k)
    BY BeforeIsMonotone
  <2>3. k < j => Before(S, k) < Before(S, j)
    BY BeforeIsMonotone
  <2>. QED
    BY <1>3, <2>1, <2>2, <2>3
<1>4. IsFiniteSet(0..(c - 1)) /\ Cardinality(0..(c - 1)) = c
  <2>. HIDE DEF c
  <2>1. 0 \in Int /\ c - 1 \in Int
    BY <1>1
  <2>2. /\ IsFiniteSet(0..(c - 1))
        /\ Cardinality(0..(c - 1)) = IF 0 > c - 1 THEN 0 ELSE (c - 1) - 0 + 1
    BY <2>1, FS_Interval, Zenon
  <2>. QED
    BY <1>1, <2>2
<1>5. f \in Injection(S, 0..(c - 1))
  BY <1>2, <1>3 DEF Injection, IsInjective
<1>6. f \in Surjection(S, 0..(c - 1))
  BY <1>4, <1>5, FS_Injection
<1>7. IsFiniteSet(F)
  BY <1>1, FS_Subset DEF Firsts
<1>8. \A k \in F : k \in S /\ Before(S, k) \in 0..(n - 1)
  BY <1>2 DEF Firsts
<1>9. \A t \in 0..(n - 1) : \E k \in F : Before(S, k) = t
  <2>1. ASSUME NEW t \in 0..(n - 1) PROVE \E k \in F : Before(S, k) = t
    <3>1. t \in 0..(c - 1) /\ t < n
      BY <1>1
    <3>2. PICK k \in S : f[k] = t
      BY <1>6, <3>1 DEF Surjection
    <3>. QED
      BY <3>1, <3>2 DEF Firsts
  <2>. QED
    BY <2>1
<1>. HIDE DEF F
<1>10. g \in Injection(F, 0..(n - 1))
  BY <1>3, <1>8 DEF Injection, IsInjective
<1>11. g \in Surjection(F, 0..(n - 1))
  BY <1>8, <1>9 DEF Surjection
<1>12. ExistsBijection(F, 0..(n - 1))
  BY <1>10, <1>11 DEF ExistsBijection, Bijection
<1>13. Cardinality(0..(n - 1)) = Cardinality(F)
  BY <1>7, <1>12, FS_Bijection
<1>14. Cardinality(0..(n - 1)) = n
  <2>1. 0 \in Int /\ n - 1 \in Int
    OBVIOUS
  <2>2. Cardinality(0..(n - 1)) = IF 0 > n - 1 THEN 0 ELSE (n - 1) - 0 + 1
    BY <2>1, FS_Interval, Zenon
  <2>. QED
    BY <2>2
<1>. QED
  BY <1>13, <1>14 DEF F

\* With b groups before it, a group is reached in a need of n units.
Reached(n, b) == \A i \in 0..b : (n * Unit - i * Unit) % 65536 # 0

\* It is if b is below n, for either loop: the carrier is far from a wrap.
LEMMA ReachedForUnits ==
  \A n \in 0..25, b \in 0..25 :
    /\ Reached(n, b) <=> b < n
    /\ n * Unit > Unit * b <=> b < n
<1>. SUFFICES ASSUME NEW n \in 0..25, NEW b \in 0..25
              PROVE  /\ Reached(n, b) <=> b < n
                     /\ n * Unit > Unit * b <=> b < n
  OBVIOUS
<1>1. Unit = 1 \/ Unit = 2 \/ Unit = 3 \/ Unit = 4
  BY DlSlicingAssumption
<1>2. n * Unit > Unit * b <=> b < n
  BY <1>1
<1>3. ASSUME b < n, NEW i \in 0..b
      PROVE  (n * Unit - i * Unit) % 65536 # 0
  <2>1. n * Unit - i * Unit \in 1..100
    BY <1>1, <1>3
  <2>. QED
    BY <2>1
<1>4. ASSUME ~(b < n) PROVE \E i \in 0..b : (n * Unit - i * Unit) % 65536 = 0
  <2>1. n \in 0..b /\ (n * Unit - n * Unit) % 65536 = 0
    BY <1>1, <1>4
  <2>. QED
    BY <2>1
<1>5. Reached(n, b) <=> b < n
  BY <1>3, <1>4 DEF Reached
<1>. QED
  BY <1>2, <1>5

\* There are at most 25 groups or cells.
LEMMA AtMost25 ==
  ASSUME NEW S, S \subseteq Cells
  PROVE  Cardinality(S) \in 0..25
<1>1. Cells = 0..24
  BY DEF Cells, N_RBG_MAX
<1>2. IsFiniteSet(0..24) /\ Cardinality(0..24) = 25
  <2>1. 0 \in Int /\ 24 \in Int
    OBVIOUS
  <2>2. IsFiniteSet(0..24) /\ Cardinality(0..24) = IF 0 > 24 THEN 0 ELSE 24 - 0 + 1
    BY <2>1, FS_Interval, Zenon
  <2>. QED
    BY <2>2
<1>3. Cardinality(S) <= 25
  BY <1>1, <1>2, FS_Subset
<1>4. Cardinality(S) \in Nat
  BY CountOfCells
<1>. QED
  BY <1>3, <1>4

\* For a need of n whole units that S covers, both loops pick the first n.
LEMMA TakenForUnits ==
  ASSUME NEW S, S \subseteq Cells, NEW n \in Nat, n <= Cardinality(S)
  PROVE  /\ Take(S, n * Unit) = Firsts(S, n)
         /\ allocate_prbs_sub(n * Unit, S) = Firsts(S, n)
<1>1. Cardinality(S) \in 0..25
  BY AtMost25
<1>2. n \in 0..25
  BY <1>1
<1>3. ASSUME NEW k \in S PROVE Before(S, k) \in 0..25
  <2>1. Before(S, k) \in 0..(Cardinality(S) - 1)
    BY BeforeIsMonotone
  <2>. QED
    BY <1>1, <2>1
<1>4. ASSUME NEW k \in S
      PROVE  /\ Reached(n, Before(S, k)) <=> Before(S, k) < n
             /\ n * Unit > Unit * Before(S, k) <=> Before(S, k) < n
  BY <1>2, <1>3, ReachedForUnits
<1>5. Take(S, n * Unit) = {k \in S : Reached(n, Before(S, k))}
  BY DEF Take, Reached
<1>6. allocate_prbs_sub(n * Unit, S) = {k \in S : n * Unit > Unit * Before(S, k)}
  BY DEF allocate_prbs_sub
<1>. QED
  BY <1>4, <1>5, <1>6 DEF Firsts

\* If S has n elements, the first n are all of S.
LEMMA FirstsOfAll ==
  ASSUME NEW S, S \subseteq Cells
  PROVE  Firsts(S, Cardinality(S)) = S
<1>1. Cardinality(S) \in Nat
  BY CountOfCells
<1>2. ASSUME NEW k \in S PROVE Before(S, k) < Cardinality(S)
  <2>1. Before(S, k) \in 0..(Cardinality(S) - 1)
    BY BeforeIsMonotone
  <2>. QED
    BY <1>1, <2>1
<1>. QED
  BY <1>2 DEF Firsts

-----------------------------------------------------------------------------
(* Isolation of the slices.                                                *)

\* Either every group of S is taken or as many as the need asks for: the count
\* of blocks still needed meets 0 before it wraps.
LEMMA TakeServes ==
  ASSUME NEW S, S \subseteq Cells, NEW need \in 1..100
  PROVE  \/ Take(S, need) = S
         \/ Cardinality(Take(S, need)) = GroupsFor(need)
<1>. SUFFICES ASSUME Take(S, need) # S
              PROVE  Cardinality(Take(S, need)) = GroupsFor(need)
  OBVIOUS
<1>1. Unit = 1 \/ Unit = 2 \/ Unit = 3 \/ Unit = 4
  BY DlSlicingAssumption
<1>2. PICK k \in S : \E n \in 0..Before(S, k) : (need - n * Unit) % 65536 = 0
  BY DEF Take
<1>. PICK n \in 0..Before(S, k) : (need - n * Unit) % 65536 = 0
  BY <1>2
<1>3. Cardinality(S) \in 0..25 /\ Before(S, k) \in 0..(Cardinality(S) - 1)
  BY AtMost25, BeforeIsMonotone
<1>4. n \in 0..24 /\ n <= Cardinality(S) /\ n \in Nat
  BY <1>3
<1>5. need = n * Unit
  <2>1. n * Unit \in 0..96
    BY <1>1, <1>4
  <2>2. \A m \in 0..96 : (need - m) % 65536 = 0 => need = m
    OBVIOUS
  <2>. QED
    BY <2>1, <2>2
<1>6. Cardinality(Take(S, need)) = n
  BY <1>4, <1>5, TakenForUnits, FirstsAreCounted
<1>7. GroupsFor(need) = n
  BY <1>1, <1>4, <1>5 DEF GroupsFor
<1>. QED
  BY <1>6, <1>7

\* A band of n groups has as many cells unless it leaves rballoc_sub.
LEMMA CellsOfBand ==
  ASSUME start \in Nat, NEW n \in Nat
  PROVE  /\ Band(n) \subseteq Cells
         /\ Cardinality(Band(n)) <= n
         /\ start + n <= N_RBG => Cardinality(Band(n)) = n
<1>. DEFINE last == start + n - 1
            B == start..last
<1>1. start \in Int /\ last \in Int
  OBVIOUS
<1>. HIDE DEF last
<1>2. IsFiniteSet(B) /\ Cardinality(B) = IF start > last THEN 0 ELSE last - start + 1
  BY <1>1, FS_Interval, Zenon
<1>. USE DEF last
<1>3. Cardinality(B) = n
  BY <1>2
<1>4. Band(n) \subseteq B /\ Band(n) \subseteq Cells
  BY DEF Band
<1>5. Cardinality(Band(n)) <= n
  <2>. HIDE DEF B
  <2>. QED
    BY <1>2, <1>3, <1>4, FS_Subset
<1>6. start + n <= N_RBG => Band(n) = B
  BY DlSlicingAssumption DEF Band, Cells, N_RBG_MAX
<1>. HIDE DEF B
<1>. QED
  BY <1>3, <1>4, <1>5, <1>6

\* No need of a UE is above the blocks of the largest carrier.
BlocksOfNeeds ==
  \A ue \in UEs :
    /\ required[ue] <= 100
    /\ \A p \in Pids : harq[ue][p].nb_rb <= 100

\* While bands are handed out, groups beyond them belong to common channels only.
FreeBeyond ==
  phase = "thor" => \A k \in taken : k \in Groups /\ k >= start => k \in reserved

NotYetServed(ue) == phase = "idle" \/ (phase = "thor" /\ ue \in todo)

\* What SharesAreIsolated says of one UE.
Served(ue) ==
  start <= N_RBG /\ required[ue] > 0 =>
    \/ Cardinality(granted[ue]) >= share[ue] - Cardinality(reserved)
    \/ Cardinality(granted[ue]) >= GroupsFor(required[ue])

Isolation ==
  /\ FreeBeyond
  /\ \A ue \in UEs : Cardinality(granted[ue]) <= share[ue]
  /\ \A ue \in sync : NotYetServed(ue) \/ Served(ue)

\* The groups a UE is given serve it, if its band lies on the carrier.
LEMMA BandServes ==
  ASSUME DlTypeOK, FreeBeyond, phase = "thor",
         NEW n \in Nat, start + n <= N_RBG, NEW need \in 1..100
  PROVE  LET got == Take(Band(n) \ taken, need)
         IN  \/ Cardinality(got) >= n - Cardinality(reserved)
             \/ Cardinality(got) >= GroupsFor(need)
<1>. DEFINE S == Band(n) \ taken
            got == Take(S, need)
<1>1. /\ start \in Nat /\ Band(n) \subseteq Cells /\ Cardinality(Band(n)) = n
  BY CellsOfBand DEF DlTypeOK
<1>2. \A k \in Band(n) : k \in Groups /\ k >= start
  BY <1>1, DlSlicingAssumption DEF Band, Groups
<1>3. Band(n) \cap taken \subseteq reserved
  BY <1>2 DEF FreeBeyond
<1>4. IsFiniteSet(reserved) /\ Cardinality(reserved) \in Nat
  BY GroupsAreCells, CountOfCells DEF DlTypeOK
<1>5. /\ IsFiniteSet(Band(n) \cap taken)
      /\ Cardinality(Band(n) \cap taken) <= Cardinality(reserved)
      /\ Cardinality(Band(n) \cap taken) \in Nat
  BY <1>3, <1>4, FS_Subset, FS_CardinalityType
<1>6. S \subseteq Cells
  BY <1>1
<1>7. Cardinality(S) = n - Cardinality(Band(n) \cap taken)
  BY <1>1, FS_Difference, CountOfCells
<1>8. Cardinality(S) >= n - Cardinality(reserved)
  BY <1>4, <1>5, <1>7
<1>. HIDE DEF S
<1>9. got = S \/ Cardinality(got) = GroupsFor(need)
  BY <1>6, TakeServes
<1>10. Cardinality(S) \in Nat
  BY <1>6, CountOfCells
<1>11. GroupsFor(need) \in Int
  <2>1. Unit = 1 \/ Unit = 2 \/ Unit = 3 \/ Unit = 4
    BY DlSlicingAssumption
  <2>. QED
    BY <2>1 DEF GroupsFor
<1>12. Cardinality(got) >= n - Cardinality(reserved)
       \/ Cardinality(got) >= GroupsFor(need)
  BY <1>8, <1>9, <1>10, <1>11
<1>. QED
  BY <1>12 DEF S

\* A count of blocks that grows up to a limit of at most 100 stays below it.
LEMMA GrowIsBounded ==
  ASSUME NEW from \in {4, Unit}, NEW j \in Nat, NEW limit \in 0..100
  PROVE  Grow(from, j, limit) <= 100
<1>1. Unit = 1 \/ Unit = 2 \/ Unit = 3 \/ Unit = 4
  BY DlSlicingAssumption
<1>2. from \in 1..4
  BY <1>1
<1>3. CASE j = 0
  BY <1>1, <1>2, <1>3 DEF Grow
<1>4. CASE j > 0
  <2>1. j * Unit \in Nat
    BY <1>1
  <2>. QED
    BY <1>2, <1>4, <2>1 DEF Grow
<1>. QED
  BY <1>3, <1>4

\* The carrier and a grant of its groups have at most 100 blocks.
LEMMA BlocksAreBounded ==
  /\ N_RB \in 0..100
  /\ \A ue \in UEs : DlTypeOK => PreNb(ue) \in 0..100
<1>1. Unit = 1 \/ Unit = 2 \/ Unit = 3 \/ Unit = 4
  BY DlSlicingAssumption
<1>2. N_RB \in 0..100
  BY <1>1, DlSlicingAssumption DEF N_RB, N_RBG_MAX
<1>3. ASSUME DlTypeOK, NEW ue \in UEs PROVE PreNb(ue) \in 0..100
  <2>1. Cardinality(granted[ue]) \in 0..25
    BY <1>3, AtMost25 DEF DlTypeOK
  <2>. QED
    BY <1>1, <2>1 DEF PreNb
<1>. QED
  BY <1>2, <1>3

LEMMA BlocksKept ==
  ASSUME DlTypeOK, BlocksOfNeeds, [DlNext]_dlVars
  PROVE  BlocksOfNeeds'
<1>1. ASSUME UNCHANGED <<required, harq>> PROVE BlocksOfNeeds'
  BY <1>1 DEF BlocksOfNeeds
<1>2. ASSUME NEW r \in Reservations, Start(r) PROVE BlocksOfNeeds'
  <2>1. PICK junk \in {{}, Cells \ Groups}, mcs0 \in SUBSET UEs,
             grow \in [UEs -> Growth \cup {-1}] : StartTTI(r, junk, mcs0, grow)
    BY <1>2 DEF Start
  <2>. DEFINE p == (pid + 1) % NPids
  <2>2. p \in Pids
    BY DlSlicingAssumption DEF DlTypeOK, Pids
  <2>3. ASSUME NEW ue \in UEs PROVE required'[ue] <= 100
    <3>1. first'[ue] \in {4, Unit}
      BY <2>1 DEF StartTTI
    <3>2. required'[ue] =
            IF harq[ue][p].round > 0 THEN harq[ue][p].nb_rb
            ELSE IF grow[ue] = -1 THEN 0 ELSE Grow(first'[ue], grow[ue], N_RB)
      BY <2>1 DEF StartTTI
    <3>3. harq[ue][p].nb_rb <= 100
      BY <2>2 DEF BlocksOfNeeds
    <3>4. ASSUME grow[ue] # -1 PROVE Grow(first'[ue], grow[ue], N_RB) <= 100
      <4>1. grow[ue] \in Nat
        BY <3>4, DlSlicingAssumption
      <4>. QED
        BY <3>1, <4>1, BlocksAreBounded, GrowIsBounded
    <3>. QED
      BY <3>2, <3>3, <3>4
  <2>4. harq' = harq
    BY <2>1 DEF StartTTI
  <2>. QED
    BY <2>3, <2>4 DEF BlocksOfNeeds
<1>3. ASSUME NEW ue \in UEs, NEW d, NEW h, Transmit(ue, d, h), h \in Processes,
             h.nb_rb <= 100
      PROVE  BlocksOfNeeds'
  <2>. DEFINE g == [h EXCEPT !.waiting = TRUE]
  <2>1. g.nb_rb <= 100
    BY <1>3 DEF Processes
  <2>2. harq' = [harq EXCEPT ![ue][pid] = g] /\ required' = required
    BY <1>3 DEF Transmit
  <2>. HIDE DEF g
  <2>3. ASSUME NEW v \in UEs, NEW p \in Pids PROVE harq'[v][p].nb_rb <= 100
    <3>1. harq'[v][p] = g \/ harq'[v][p] = harq[v][p]
      BY <2>2 DEF DlTypeOK
    <3>. QED
      BY <2>1, <3>1 DEF BlocksOfNeeds
  <2>. QED
    BY <2>2, <2>3 DEF BlocksOfNeeds
<1>4. ASSUME NEW ue \in UEs, Schedule(ue) PROVE BlocksOfNeeds'
  <2>. DEFINE h == harq[ue][pid]
  <2>1. h \in Processes /\ h.nb_rb <= 100
    BY DEF DlTypeOK, BlocksOfNeeds
  <2>2. CASE SkipUe(ue)
    BY <1>1, <2>2 DEF SkipUe
  <2>3. CASE SendRetransmission(ue)
    <3>1. Transmit(ue, DciFor(ue, h.nb_rb), h)
      BY <2>3 DEF SendRetransmission
    <3>. HIDE DEF h
    <3>. QED
      BY <1>3, <2>1, <3>1
  <2>4. ASSUME NEW j \in Growth, SendNew(ue, j) PROVE BlocksOfNeeds'
    <3>. DEFINE nb == Grow(first[ue], j, PreNb(ue))
                size == Prbs(DciFor(ue, nb).groups)
                g == [h EXCEPT !.nb_rb = nb, !.size = size]
    <3>1. Transmit(ue, DciFor(ue, nb), g)
      BY <2>4 DEF SendNew
    <3>2. j \in Nat /\ first[ue] \in {4, Unit} /\ first[ue] \in Nat /\ PreNb(ue) \in 0..100
      BY BlocksAreBounded, DlSlicingAssumption DEF DlTypeOK
    <3>3. nb <= 100 /\ nb \in Nat
      <4>1. nb <= 100
        BY <3>2, GrowIsBounded
      <4>2. PreNb(ue) \in Nat
        BY <3>2
      <4>3. nb \in Nat
        BY <3>2, <4>2, GrowIsNat
      <4>. QED
        BY <4>1, <4>3
    <3>4. size \in Nat
      BY <3>3, DciWithinGrant, PrbsIsNat
    <3>. HIDE DEF nb, size, h
    <3>5. g \in Processes /\ g.nb_rb <= 100
      BY <2>1, <3>3, <3>4 DEF Processes
    <3>. HIDE DEF g
    <3>. QED
      BY <1>3, <3>1, <3>5
  <2>. QED
    BY <1>4, <2>2, <2>3, <2>4 DEF Schedule
<1>5. ASSUME NEW ue \in UEs, ThorAllocate(ue) PROVE BlocksOfNeeds'
  BY <1>1, <1>5 DEF ThorAllocate, Assign
<1>6. CASE EndTTI
  BY <1>6 DEF EndTTI, BlocksOfNeeds
<1>7. ASSUME NEW ue \in UEs, NEW q \in Pids, Ack(ue, q) \/ Nack(ue, q)
      PROVE  BlocksOfNeeds'
  <2>. DEFINE h == harq[ue][q]
  <2>1. h \in Processes /\ h.nb_rb <= 100
    BY DEF DlTypeOK, BlocksOfNeeds
  <2>. HIDE DEF h
  <2>2. PICK n : harq' = [harq EXCEPT ![ue][q] = [h EXCEPT !.round = n, !.waiting = FALSE]]
    BY <1>7 DEF Ack, Nack, h
  <2>3. [h EXCEPT !.round = n, !.waiting = FALSE].nb_rb <= 100
    BY <2>1 DEF Processes
  <2>4. ASSUME NEW v \in UEs, NEW p \in Pids PROVE harq'[v][p].nb_rb <= 100
    BY <2>2, <2>3 DEF DlTypeOK, BlocksOfNeeds
  <2>5. required' = required
    BY <1>7 DEF Ack, Nack, ttiVars
  <2>. QED
    BY <2>4, <2>5 DEF BlocksOfNeeds
<1>. QED
  BY <1>1, <1>2, <1>4, <1>5, <1>6, <1>7
     DEF DlNext, dlVars, ttiVars, StoreStep, LoseSync, RegainSync

\* The UE whose turn it is, is served, and the UEs before it stay so.
LEMMA IsolationOfThor ==
  ASSUME DlTypeOK, BlocksOfNeeds, Isolation, NEW ue \in UEs, ThorAllocate(ue)
  PROVE  Isolation'
<1>. DEFINE n == Share(ue)
            got == Take(Band(n) \ taken, required[ue])
<1>1. n \in Nat /\ start \in Nat
  BY ShareIsNat DEF DlTypeOK
<1>2. /\ phase = "thor" /\ ue \in todo
      /\ share' = [share EXCEPT ![ue] = n]
      /\ granted' = [granted EXCEPT ![ue] = got]
      /\ taken' = taken \cup got
      /\ start' = start + n
      /\ todo' = IF todo = {ue} THEN sync ELSE todo \ {ue}
      /\ phase' = IF todo = {ue} THEN "sched" ELSE "thor"
      /\ UNCHANGED <<reserved, required, sync>>
  BY DEF ThorAllocate, Assign, IsNext
<1>3. got \subseteq Band(n) /\ Band(n) \subseteq Cells /\ Cardinality(Band(n)) <= n
  BY <1>1, CellsOfBand, TakenFromOffer
<1>4. Cardinality(got) <= n
  <2>1. /\ Cardinality(got) <= Cardinality(Band(n))
        /\ Cardinality(got) \in Nat /\ Cardinality(Band(n)) \in Nat
    BY <1>3, CountOfCells, FS_Subset
  <2>. QED
    BY <1>1, <1>3, <2>1
<1>5. \A k \in got : k < start + n
  BY <1>1, <1>3 DEF Band
<1>6. start + n <= N_RBG /\ required[ue] > 0 =>
        \/ Cardinality(got) >= n - Cardinality(reserved)
        \/ Cardinality(got) >= GroupsFor(required[ue])
  <2>1. required[ue] \in Nat /\ required[ue] <= 100
    BY DEF DlTypeOK, BlocksOfNeeds
  <2>2. required[ue] > 0 => required[ue] \in 1..100
    BY <2>1
  <2>. HIDE DEF n
  <2>. QED
    BY <1>1, <1>2, <2>2, BandServes DEF Isolation
<1>. HIDE DEF n, got
<1>7. FreeBeyond'
  <2>1. SUFFICES ASSUME NEW k \in taken \cup got, k \in Groups, k >= start + n
                 PROVE  k \in reserved
    BY <1>2 DEF FreeBeyond, Groups
  <2>2. k \in Nat /\ k \notin got
    BY <1>1, <1>5, <2>1 DEF Groups
  <2>3. k >= start
    BY <1>1, <2>1, <2>2
  <2>. QED
    BY <1>2, <2>1, <2>2, <2>3 DEF Isolation, FreeBeyond
<1>8. ASSUME NEW v \in UEs PROVE Cardinality(granted'[v]) <= share'[v]
  BY <1>2, <1>4 DEF DlTypeOK, Isolation
<1>9. ASSUME NEW v \in sync PROVE NotYetServed(v)' \/ Served(v)'
  <2>1. CASE v = ue
    <3>1. granted'[v] = got /\ share'[v] = n
      BY <1>2, <2>1 DEF DlTypeOK
    <3>. QED
      BY <1>2, <1>6, <2>1, <3>1 DEF Served, GroupsFor
  <2>2. CASE v # ue /\ v \in todo
    <3>1. todo # {ue}
      BY <2>2
    <3>. QED
      BY <1>2, <2>2, <3>1 DEF NotYetServed
  <2>3. CASE v # ue /\ v \notin todo
    <3>1. Served(v)
      BY <1>2, <2>3 DEF Isolation, NotYetServed
    <3>2. v \in UEs /\ granted'[v] = granted[v] /\ share'[v] = share[v]
      BY <1>2, <2>3 DEF DlTypeOK
    <3>3. start' <= N_RBG => start <= N_RBG
      BY <1>1, <1>2, DlSlicingAssumption DEF N_RBG_MAX
    <3>. QED
      BY <1>2, <3>1, <3>2, <3>3 DEF Served, GroupsFor
  <2>. QED
    BY <2>1, <2>2, <2>3
<1>. QED
  BY <1>2, <1>7, <1>8, <1>9 DEF Isolation

LEMMA IsolationKept ==
  ASSUME DlTypeOK, BlocksOfNeeds, Isolation, [DlNext]_dlVars
  PROVE  Isolation'
<1>1. ASSUME UNCHANGED <<phase, todo, reserved, taken, start, required, share,
                         granted, sync>>
      PROVE  Isolation'
  BY <1>1 DEF Isolation, FreeBeyond, NotYetServed, Served, Groups, GroupsFor
<1>2. CASE UNCHANGED ttiVars /\ phase = "idle"
  BY <1>2 DEF ttiVars, Isolation, FreeBeyond, NotYetServed
<1>3. ASSUME NEW r \in Reservations, Start(r) PROVE Isolation'
  <2>1. PICK junk \in {{}, Cells \ Groups}, mcs0 \in SUBSET UEs,
             grow \in [UEs -> Growth \cup {-1}] : StartTTI(r, junk, mcs0, grow)
    BY <1>3 DEF Start
  <2>2. /\ start' = 0 /\ reserved' = r /\ taken' = r \cup junk
        /\ todo' = sync /\ sync' = sync
        /\ phase' = IF \E ue \in sync : required'[ue] > 0 THEN "thor" ELSE "sched"
    BY <2>1 DEF StartTTI
  <2>3. \A ue \in UEs : granted'[ue] = {} /\ share'[ue] = 0
    BY <2>1 DEF StartTTI
  <2>4. FreeBeyond'
    BY <2>2 DEF FreeBeyond, Groups
  <2>5. \A ue \in sync : NotYetServed(ue)' \/ Served(ue)'
    BY <2>2 DEF NotYetServed, Served
  <2>6. \A ue \in UEs : Cardinality(granted'[ue]) <= share'[ue]
    BY <2>3, FS_EmptySet
  <2>7. \A ue \in sync : (NotYetServed(ue) \/ Served(ue))'
    BY <2>5
  <2>. QED
    BY <2>2, <2>4, <2>6, <2>7 DEF Isolation
<1>4. ASSUME NEW ue \in UEs, Schedule(ue) PROVE Isolation'
  <2>1. /\ phase = "sched"
        /\ UNCHANGED <<phase, reserved, taken, start, required, share, granted, sync>>
    BY <1>4 DEF Schedule, SkipUe, SendRetransmission, SendNew, Transmit
  <2>. QED
    BY <2>1 DEF Isolation, FreeBeyond, NotYetServed, Served, Groups, GroupsFor
<1>5. ASSUME NEW ue \in UEs, ThorAllocate(ue) PROVE Isolation'
  BY <1>5, IsolationOfThor
<1>6. CASE EndTTI
  <2>1. /\ phase' = "idle"
        /\ \A ue \in UEs : granted'[ue] = {} /\ share'[ue] = 0
    BY <1>6 DEF EndTTI
  <2>. QED
    BY <2>1, FS_EmptySet DEF Isolation, FreeBeyond, NotYetServed
<1>7. ASSUME NEW ue \in UEs, NEW q \in Pids, Ack(ue, q) \/ Nack(ue, q)
      PROVE  Isolation'
  BY <1>1, <1>7 DEF Ack, Nack, ttiVars
<1>8. ASSUME NEW ue \in UEs, LoseSync(ue) \/ RegainSync(ue) PROVE Isolation'
  BY <1>2, <1>8 DEF LoseSync, RegainSync
<1>9. CASE StoreStep
  BY <1>1, <1>9 DEF StoreStep, ttiVars
<1>10. CASE UNCHANGED dlVars
  BY <1>1, <1>10 DEF dlVars, ttiVars
<1>. QED
  BY <1>3, <1>4, <1>5, <1>6, <1>7, <1>8, <1>9, <1>10 DEF DlNext

\* dlsch_my_scheduler_pre_processor isolates the slices: when the shares it read
\* fit the carrier, each UE gets the groups of its share, less those of common
\* channels, or what it needs, and never more than its share; for every carrier,
\* set of UEs, need of the others and store to the table in between.
THEOREM SlicesAreIsolated == DlSpec => []SharesAreIsolated
<1>1. DlInit => BlocksOfNeeds /\ Isolation
  <2>1. ASSUME DlInit PROVE BlocksOfNeeds
    BY <2>1 DEF DlInit, BlocksOfNeeds
  <2>2. ASSUME DlInit PROVE Isolation
    BY <2>2, FS_EmptySet DEF DlInit, Isolation, FreeBeyond, NotYetServed
  <2>. QED
    BY <2>1, <2>2
<1>2. DlTypeOK /\ Isolation => SharesAreIsolated
  <2>. SUFFICES ASSUME DlTypeOK, Isolation, phase = "sched", NEW ue \in UEs
                PROVE  /\ Cardinality(granted[ue]) <= share[ue]
                       /\ ue \in sync => Served(ue)
    BY DEF SharesAreIsolated, Served
  <2>. QED
    BY DEF Isolation, NotYetServed
<1>. QED
  BY <1>1, <1>2, TypesInitially, TypesKept, BlocksKept, IsolationKept, PTL DEF DlSpec

-----------------------------------------------------------------------------
(* The blocks claimed for a transmission.                                  *)

\* GroupsFor rounds up, and so does the loop of allocate_prbs_sub.
LEMMA GroupsRoundUp ==
  ASSUME NEW nb \in 1..100
  PROVE  /\ GroupsFor(nb) \in Nat /\ nb <= Unit * GroupsFor(nb)
         /\ \A b \in 0..25 : nb > Unit * b <=> b < GroupsFor(nb)
<1>1. Unit = 1 \/ Unit = 2 \/ Unit = 3 \/ Unit = 4
  BY DlSlicingAssumption
<1>2. CASE Unit = 1
  BY <1>2 DEF GroupsFor
<1>3. CASE Unit = 2
  BY <1>3 DEF GroupsFor
<1>4. CASE Unit = 3
  BY <1>4 DEF GroupsFor
<1>5. CASE Unit = 4
  BY <1>5 DEF GroupsFor
<1>. QED
  BY <1>1, <1>2, <1>3, <1>4, <1>5

\* allocate_prbs_sub picks all it is offered, or enough groups for the count.
LEMMA AllocateServes ==
  ASSUME NEW S, S \subseteq Cells, NEW nb \in 1..100
  PROVE  \/ allocate_prbs_sub(nb, S) = S
         \/ Cardinality(allocate_prbs_sub(nb, S)) = GroupsFor(nb)
<1>. DEFINE m == GroupsFor(nb)
            G == allocate_prbs_sub(nb, S)
<1>1. m \in Nat /\ Cardinality(S) \in 0..25
  BY GroupsRoundUp, AtMost25
<1>2. ASSUME NEW k \in S PROVE /\ nb > Unit * Before(S, k) <=> Before(S, k) < m
                               /\ Before(S, k) \in 0..(Cardinality(S) - 1)
  <2>1. Before(S, k) \in 0..(Cardinality(S) - 1)
    BY BeforeIsMonotone
  <2>2. Before(S, k) \in 0..25
    BY <1>1, <2>1
  <2>. QED
    BY <2>1, <2>2, GroupsRoundUp
<1>. HIDE DEF m
<1>3. G = Firsts(S, m)
  BY <1>2 DEF Firsts, allocate_prbs_sub
<1>4. CASE m <= Cardinality(S)
  <2>1. Cardinality(Firsts(S, m)) = m
    BY <1>1, <1>4, FirstsAreCounted
  <2>. QED
    BY <1>3, <2>1 DEF m
<1>5. CASE ~(m <= Cardinality(S))
  <2>1. \A k \in S : Before(S, k) < m
    BY <1>1, <1>2, <1>5
  <2>. QED
    BY <1>3, <2>1 DEF Firsts
<1>. QED
  BY <1>4, <1>5

\* The blocks of a claim that the grant covers are found, less those of groups
\* beyond the carrier.
LEMMA ClaimIsCovered ==
  ASSUME DlTypeOK, NEW ue \in UEs, NEW nb \in 0..100, nb <= PreNb(ue)
  PROVE  nb <= Unit * (Cardinality(DciFor(ue, nb).groups)
                       + Cardinality(granted[ue] \ Groups))
<1>. DEFINE S == granted[ue] \cap Groups
            beyond == Cardinality(granted[ue] \ Groups)
            m == GroupsFor(nb)
            B == Bitmap(ue, nb)
            G == allocate_prbs_sub(nb, B)
<1>1. Unit = 1 \/ Unit = 2 \/ Unit = 3 \/ Unit = 4
  BY DlSlicingAssumption
<1>2. granted[ue] \subseteq Cells
  BY DEF DlTypeOK
<1>3. S \subseteq Cells /\ Cardinality(S) \in Nat /\ beyond \in Nat
  <2>1. S \subseteq Cells /\ granted[ue] \ Groups \subseteq Cells
    BY <1>2
  <2>. QED
    BY <2>1, CountOfCells
<1>4. Cardinality(granted[ue]) = Cardinality(S) + beyond
  <2>1. IsFiniteSet(granted[ue]) /\ Cardinality(granted[ue]) \in Nat
    BY <1>2, CountOfCells
  <2>2. Cardinality(granted[ue] \ Groups)
          = Cardinality(granted[ue]) - Cardinality(granted[ue] \cap Groups)
    BY <2>1, FS_Difference
  <2>. QED
    BY <1>3, <2>1, <2>2
<1>5. PreNb(ue) = Unit * (Cardinality(S) + beyond)
  BY <1>4 DEF PreNb
<1>6. B = S \/ B = Take(S, nb)
  BY DEF Bitmap
<1>7. B \subseteq S
  BY <1>6, TakenFromOffer
<1>8. G \subseteq B
  BY TakenFromOffer
<1>9. DciFor(ue, nb).groups = G
  BY DEF DciFor
<1>10. Cardinality(G) \in Nat
  <2>1. G \subseteq Cells
    BY <1>3, <1>7, <1>8
  <2>. HIDE DEF G
  <2>. QED
    BY <2>1, CountOfCells
<1>11. CASE nb = 0
  <2>. HIDE DEF G, beyond
  <2>1. Unit * (Cardinality(G) + beyond) \in Nat
    BY <1>1, <1>3, <1>10
  <2>. QED
    BY <1>9, <1>11, <2>1 DEF beyond
<1>12. CASE nb # 0
  <2>1. nb \in 1..100
    BY <1>12
  <2>2. m \in Nat /\ nb <= Unit * m
    BY <2>1, GroupsRoundUp
  <2>3. B \subseteq Cells
    BY <1>3, <1>7
  <2>4. B = S \/ Cardinality(B) = m
    BY <1>3, <1>6, <2>1, TakeServes
  <2>. HIDE DEF B
  <2>5. G = B \/ Cardinality(G) = m
    BY <2>1, <2>3, AllocateServes
  <2>6. Cardinality(G) = Cardinality(S) \/ Cardinality(G) = m
    BY <2>4, <2>5
  <2>. HIDE DEF G, beyond, m, S
  <2>7. CASE Cardinality(G) = Cardinality(S)
    BY <1>5, <1>9, <2>7 DEF beyond
  <2>8. CASE Cardinality(G) = m
    <3>1. Unit * m <= Unit * (m + beyond)
      BY <1>1, <1>3, <2>2
    <3>2. Unit * m \in Nat /\ Unit * (m + beyond) \in Nat
      BY <1>1, <1>3, <2>2
    <3>3. nb <= Unit * (Cardinality(G) + beyond)
      BY <2>2, <2>8, <3>1, <3>2
    <3>. QED
      BY <1>9, <3>3 DEF beyond
  <2>. QED
    BY <2>6, <2>7, <2>8
<1>. QED
  BY <1>11, <1>12

\* What ClaimsCovered says of one UE.
Covered(ue) ==
  \/ dci[ue].nb_rb <= Unit * (Cardinality(dci[ue].groups)
                              + Cardinality(granted[ue] \ Groups))
  \/ dci[ue].nb_rb = 4 /\ PreNb(ue) < 4

\* The inductive invariant: nothing is sent before all grants are made.
Claims ==
  /\ phase = "thor" => \A ue \in UEs : dci[ue] = NoDci
  /\ \A ue \in UEs : Covered(ue)

\* A UE that is sent nothing claims nothing.
LEMMA NothingIsCovered ==
  ASSUME NEW S, S \subseteq Cells
  PROVE  NoDci.nb_rb <= Unit * (Cardinality(NoDci.groups) + Cardinality(S \ Groups))
<1>1. Cardinality(S \ Groups) \in Nat
  BY CountOfCells
<1>2. NoDci.nb_rb = 0 /\ Cardinality(NoDci.groups) = 0
  BY FS_EmptySet DEF NoDci
<1>3. Unit * (0 + Cardinality(S \ Groups)) \in Nat
  BY <1>1, DlSlicingAssumption, Products
<1>. QED
  BY <1>2, <1>3

\* New data claims what was granted or less, but for the 4 blocks of MCS 0.
LEMMA ClaimOfNewData ==
  ASSUME DlTypeOK, NEW ue \in UEs, NEW j \in Nat, PreNb(ue) > 0
  PROVE  LET nb == Grow(first[ue], j, PreNb(ue))
         IN  \/ nb \in 0..100 /\ nb <= PreNb(ue)
             \/ nb = 4 /\ PreNb(ue) < 4
<1>. DEFINE c == Cardinality(granted[ue])
<1>1. Unit = 1 \/ Unit = 2 \/ Unit = 3 \/ Unit = 4
  BY DlSlicingAssumption
<1>2. c \in Nat /\ PreNb(ue) = Unit * c /\ PreNb(ue) \in 0..100
  BY CountOfCells, BlocksAreBounded DEF DlTypeOK, PreNb
<1>3. first[ue] = 4 \/ first[ue] = Unit
  BY DEF DlTypeOK
<1>. HIDE DEF c
<1>4. PreNb(ue) >= Unit
  BY <1>1, <1>2
<1>5. CASE j = 0
  <2>1. Grow(first[ue], j, PreNb(ue)) = first[ue]
    BY <1>1, <1>3, <1>5 DEF Grow
  <2>. QED
    BY <1>1, <1>2, <1>3, <1>4, <2>1
<1>6. CASE j > 0
  <2>1. j * Unit \in Nat
    BY <1>1
  <2>. QED
    BY <1>1, <1>2, <1>3, <1>6, <2>1 DEF Grow
<1>. QED
  BY <1>5, <1>6

\* A transmission keeps the claims of the others.
LEMMA ClaimsOfTransmit ==
  ASSUME DlTypeOK, Claims, NEW ue \in UEs, NEW nb \in Nat, NEW h,
         Transmit(ue, DciFor(ue, nb), h),
         \/ nb \in 0..100 /\ nb <= PreNb(ue)
         \/ nb = 4 /\ PreNb(ue) < 4
  PROVE  Claims'
<1>. DEFINE d == DciFor(ue, nb)
<1>1. /\ dci' = [dci EXCEPT ![ue] = d] /\ phase = "sched"
      /\ UNCHANGED <<phase, granted>>
  BY DEF Transmit
<1>2. \/ nb <= Unit * (Cardinality(d.groups) + Cardinality(granted[ue] \ Groups))
      \/ nb = 4 /\ PreNb(ue) < 4
  BY ClaimIsCovered
<1>3. d.nb_rb = nb
  BY DciWithinGrant
<1>. HIDE DEF d
<1>4. ASSUME NEW v \in UEs PROVE Covered(v)'
  <2>1. CASE v = ue
    <3>1. dci'[v] = d
      BY <1>1, <2>1 DEF DlTypeOK
    <3>. QED
      BY <1>1, <1>2, <1>3, <2>1, <3>1 DEF Covered, PreNb
  <2>2. CASE v # ue
    <3>1. dci'[v] = dci[v]
      BY <1>1, <2>2 DEF DlTypeOK
    <3>2. Covered(v)
      BY DEF Claims
    <3>. QED
      BY <1>1, <3>1, <3>2 DEF Covered, PreNb
  <2>. QED
    BY <2>1, <2>2
<1>. QED
  BY <1>1, <1>4 DEF Claims

\* Every step keeps the claims covered.
LEMMA ClaimsKept ==
  ASSUME DlTypeOK, DlTypeOK', BlocksOfNeeds, Claims, [DlNext]_dlVars
  PROVE  Claims'
<1>1. ASSUME UNCHANGED <<phase, granted, dci>> PROVE Claims'
  BY <1>1 DEF Claims, Covered, PreNb, NoDci
<1>2. ASSUME \A ue \in UEs : dci'[ue] = NoDci PROVE Claims'
  <2>1. ASSUME NEW ue \in UEs PROVE Covered(ue)'
    <3>1. granted'[ue] \subseteq Cells /\ Groups' = Groups
      BY DEF DlTypeOK, Cells, Groups
    <3>2. dci'[ue] = NoDci
      BY <1>2
    <3>. QED
      BY <3>1, <3>2, NothingIsCovered DEF Covered
  <2>. QED
    BY <1>2, <2>1 DEF Claims, NoDci
<1>3. ASSUME NEW r \in Reservations, Start(r) PROVE Claims'
  BY <1>2, <1>3 DEF Start, StartTTI
<1>4. CASE EndTTI
  BY <1>2, <1>4 DEF EndTTI
<1>5. ASSUME NEW ue \in UEs, ThorAllocate(ue) PROVE Claims'
  <2>1. phase = "thor" /\ UNCHANGED dci
    BY <1>5 DEF ThorAllocate, Assign
  <2>. QED
    BY <1>2, <2>1 DEF Claims
<1>6. ASSUME NEW ue \in UEs, Schedule(ue) PROVE Claims'
  <2>. DEFINE h == harq[ue][pid]
  <2>1. h \in Processes /\ h.nb_rb \in Nat
    BY DEF DlTypeOK, Processes
  <2>2. CASE SkipUe(ue)
    BY <1>1, <2>2 DEF SkipUe
  <2>3. CASE SendRetransmission(ue)
    <3>1. Transmit(ue, DciFor(ue, h.nb_rb), h) /\ h.nb_rb <= PreNb(ue)
      BY <2>3 DEF SendRetransmission
    <3>2. h.nb_rb <= 100
      BY DEF BlocksOfNeeds, DlTypeOK
    <3>3. h.nb_rb \in 0..100
      BY <2>1, <3>2
    <3>. HIDE DEF h
    <3>. QED
      BY <2>1, <3>1, <3>3, ClaimsOfTransmit
  <2>4. ASSUME NEW j \in Growth, SendNew(ue, j) PROVE Claims'
    <3>. DEFINE nb == Grow(first[ue], j, PreNb(ue))
                g == [h EXCEPT !.nb_rb = nb, !.size = Prbs(DciFor(ue, nb).groups)]
    <3>1. Transmit(ue, DciFor(ue, nb), g) /\ PreNb(ue) > 0
      BY <2>4 DEF SendNew, Transmit
    <3>2. j \in Nat
      BY DlSlicingAssumption
    <3>3. \/ nb \in 0..100 /\ nb <= PreNb(ue)
          \/ nb = 4 /\ PreNb(ue) < 4
      BY <3>1, <3>2, ClaimOfNewData
    <3>4. nb \in Nat
      BY <3>3
    <3>. HIDE DEF nb, g
    <3>. QED
      BY <3>1, <3>3, <3>4, ClaimsOfTransmit
  <2>. QED
    BY <1>6, <2>2, <2>3, <2>4 DEF Schedule
<1>7. ASSUME NEW ue \in UEs, NEW p \in Pids, Ack(ue, p) \/ Nack(ue, p) PROVE Claims'
  BY <1>1, <1>7 DEF Ack, Nack, ttiVars
<1>8. CASE StoreStep \/ UNCHANGED dlVars
  BY <1>1, <1>8 DEF StoreStep, dlVars, ttiVars
<1>9. ASSUME NEW ue \in UEs, LoseSync(ue) \/ RegainSync(ue) PROVE Claims'
  BY <1>1, <1>9 DEF LoseSync, RegainSync, ttiVars
<1>. QED
  BY <1>3, <1>4, <1>5, <1>6, <1>7, <1>8, <1>9 DEF DlNext

\* On every carrier allocate_prbs_sub finds the groups a transmission claims, but
\* for the 4 blocks of MCS 0 in a grant of fewer and groups beyond the carrier.
THEOREM ClaimsAreCovered == DlSpec => []ClaimsCovered
<1>1. DlInit => BlocksOfNeeds /\ Claims
  <2>1. ASSUME DlInit PROVE BlocksOfNeeds
    BY <2>1 DEF DlInit, BlocksOfNeeds
  <2>2. ASSUME DlInit PROVE Claims
    <3>1. \A ue \in UEs : dci[ue] = NoDci /\ granted[ue] \subseteq Cells
      BY <2>2 DEF DlInit
    <3>. QED
      BY <3>1, NothingIsCovered DEF Claims, Covered
  <2>. QED
    BY <2>1, <2>2
<1>2. Claims => ClaimsCovered
  BY DEF Claims, Covered, ClaimsCovered
<1>. QED
  BY <1>1, <1>2, TypesInitially, TypesKept, BlocksKept, ClaimsKept, PTL DEF DlSpec

-----------------------------------------------------------------------------
(* The size of transmissions on the carrier of 20 MHz.                     *)

\* 100 blocks in 25 groups of 4: the one carrier whose groups are all whole and
\* on which the first block size tried (4 blocks) is a group.
Carrier20MHz == N_RBG = 25 /\ Unit = 4 /\ LastRBG = 4

\* A DCI for n of the groups granted gives n groups, and 4 * n blocks.
LEMMA DciForUnits ==
  ASSUME Carrier20MHz, DlTypeOK, NEW ue \in UEs, NEW n \in Nat,
         n <= Cardinality(granted[ue])
  PROVE  Prbs(DciFor(ue, n * Unit).groups) = n * Unit
<1>. DEFINE S == granted[ue] \cap Groups
            B == Bitmap(ue, n * Unit)
            G == allocate_prbs_sub(n * Unit, B)
<1>1. granted[ue] \subseteq Cells /\ Cells = Groups
  BY DEF Carrier20MHz, DlTypeOK, Cells, Groups, N_RBG_MAX
<1>2. S = granted[ue] /\ Cardinality(S) \in Nat
  BY <1>1, CountOfCells
<1>3. B \subseteq Cells /\ Cardinality(B) \in Nat /\ n <= Cardinality(B)
  <2>1. CASE n * Unit = PreNb(ue)
    <3>1. B = S
      BY <2>1 DEF Bitmap
    <3>. QED
      BY <1>1, <1>2, <3>1
  <2>2. CASE n * Unit # PreNb(ue)
    <3>1. B = Take(S, n * Unit)
      BY <2>2 DEF Bitmap
    <3>2. Take(S, n * Unit) = Firsts(S, n)
      BY <1>1, <1>2, TakenForUnits
    <3>3. Cardinality(Firsts(S, n)) = n
      BY <1>1, <1>2, FirstsAreCounted
    <3>4. Firsts(S, n) \subseteq Cells
      BY <1>1, <1>2 DEF Firsts
    <3>5. B = Firsts(S, n)
      BY <3>1, <3>2
    <3>. HIDE DEF B, S
    <3>. QED
      BY <3>3, <3>4, <3>5
  <2>. QED
    BY <2>1, <2>2
<1>4. DciFor(ue, n * Unit).groups = G
  BY DEF DciFor
<1>. HIDE DEF B, S
<1>5. Cardinality(G) = n
  BY <1>3, TakenForUnits, FirstsAreCounted
<1>. HIDE DEF G
<1>6. Prbs(G) = Unit * n - (IF N_RBG - 1 \in G THEN Unit - LastRBG ELSE 0)
  BY <1>5 DEF Prbs
<1>7. Prbs(G) = n * Unit
  BY <1>6 DEF Carrier20MHz
<1>. QED
  BY <1>4, <1>7

\* A number of whole groups.
Whole(nb) == \E n \in Nat : nb = n * Unit

\* The inductive invariant: the blocks of a process are whole groups, as many as its
\* data was first sent on, and what is sent covers the blocks claimed.
Sizes ==
  /\ \A ue \in UEs, p \in Pids :
       harq[ue][p].size = harq[ue][p].nb_rb /\ Whole(harq[ue][p].nb_rb)
  /\ \A ue \in UEs :
       dci[ue] # NoDci =>
         /\ Prbs(dci[ue].groups) = dci[ue].nb_rb
         /\ dci[ue].nb_rb = harq[ue][pid].nb_rb

\* A transmission of whole groups that the grant covers keeps the sizes.
LEMMA SizesOfTransmit ==
  ASSUME Carrier20MHz, DlTypeOK, Sizes, NEW ue \in UEs, NEW nb \in Nat, Whole(nb),
         nb <= PreNb(ue), NEW h, Transmit(ue, DciFor(ue, nb), h),
         h.nb_rb = nb, h.size = nb, h \in Processes
  PROVE  Sizes'
<1>. DEFINE d == DciFor(ue, nb)
            g == [h EXCEPT !.waiting = TRUE]
<1>1. PICK n \in Nat : nb = n * Unit
  BY DEF Whole
<1>2. n <= Cardinality(granted[ue])
  <2>1. Cardinality(granted[ue]) \in Nat
    BY CountOfCells DEF DlTypeOK
  <2>2. n * 4 <= 4 * Cardinality(granted[ue])
    BY <1>1 DEF PreNb, Carrier20MHz
  <2>. QED
    BY <2>1, <2>2
<1>3. Prbs(d.groups) = nb /\ d.nb_rb = nb
  BY <1>1, <1>2, DciForUnits DEF DciFor
<1>4. g.nb_rb = nb /\ g.size = nb
  BY DEF Processes
<1>5. /\ dci' = [dci EXCEPT ![ue] = d] /\ harq' = [harq EXCEPT ![ue][pid] = g]
      /\ pid' = pid /\ pid \in Pids
  BY DEF Transmit, DlTypeOK
<1>. HIDE DEF d, g
<1>6. ASSUME NEW v \in UEs, NEW p \in Pids
      PROVE  harq'[v][p].size = harq'[v][p].nb_rb /\ Whole(harq'[v][p].nb_rb)
  <2>1. CASE v = ue /\ p = pid
    <3>1. harq'[v][p] = g
      BY <1>5, <2>1 DEF DlTypeOK
    <3>. QED
      BY <1>4, <3>1
  <2>2. CASE v # ue \/ p # pid
    <3>1. harq'[v][p] = harq[v][p]
      BY <1>5, <2>2 DEF DlTypeOK
    <3>. QED
      BY <3>1 DEF Sizes
  <2>. QED
    BY <2>1, <2>2
<1>7. ASSUME NEW v \in UEs, dci'[v] # NoDci
      PROVE  Prbs(dci'[v].groups) = dci'[v].nb_rb /\ dci'[v].nb_rb = harq'[v][pid].nb_rb
  <2>1. CASE v = ue
    <3>1. dci'[v] = d /\ harq'[v][pid] = g
      BY <1>5, <2>1 DEF DlTypeOK
    <3>. QED
      BY <1>3, <1>4, <3>1
  <2>2. CASE v # ue
    <3>1. dci'[v] = dci[v] /\ harq'[v][pid] = harq[v][pid]
      BY <1>5, <2>2 DEF DlTypeOK
    <3>. QED
      BY <1>7, <3>1 DEF Sizes
  <2>. QED
    BY <2>1, <2>2
<1>8. \A v \in UEs, p \in Pids :
        (harq[v][p].size = harq[v][p].nb_rb /\ Whole(harq[v][p].nb_rb))'
  BY <1>6 DEF Whole
<1>9. \A v \in UEs : (dci[v] # NoDci =>
        Prbs(dci[v].groups) = dci[v].nb_rb /\ dci[v].nb_rb = harq[v][pid].nb_rb)'
  BY <1>5, <1>7 DEF Prbs, NoDci
<1>. QED
  BY <1>8, <1>9 DEF Sizes

\* A new transport block takes whole groups of the grant.
LEMMA GrowIsWhole ==
  ASSUME Carrier20MHz, DlTypeOK, NEW ue \in UEs, NEW j \in Nat, PreNb(ue) > 0
  PROVE  LET nb == Grow(first[ue], j, PreNb(ue))
         IN  nb \in Nat /\ Whole(nb) /\ nb <= PreNb(ue)
<1>. DEFINE c == Cardinality(granted[ue])
            nb == Grow(first[ue], j, PreNb(ue))
<1>1. c \in Nat /\ PreNb(ue) = 4 * c
  BY CountOfCells DEF DlTypeOK, PreNb, Carrier20MHz
<1>2. c >= 1
  BY <1>1
<1>3. first[ue] = 4
  BY DEF DlTypeOK, Carrier20MHz
<1>. HIDE DEF c
<1>4. nb = IF j > 0 /\ 4 + j * 4 > 4 * c THEN c * 4 ELSE (j + 1) * 4
  BY <1>1, <1>3 DEF Grow, Carrier20MHz
<1>. HIDE DEF nb
<1>5. CASE j > 0 /\ 4 + j * 4 > 4 * c
  <2>1. nb = c * 4
    BY <1>4, <1>5
  <2>. QED
    BY <1>1, <2>1 DEF Whole, Carrier20MHz, nb
<1>6. CASE ~(j > 0 /\ 4 + j * 4 > 4 * c)
  <2>1. nb = (j + 1) * 4 /\ j + 1 \in Nat
    BY <1>4, <1>6
  <2>2. nb <= 4 * c
    BY <1>1, <1>2, <1>6, <2>1
  <2>3. Whole(nb)
    BY <2>1 DEF Whole, Carrier20MHz
  <2>. QED
    BY <1>1, <2>1, <2>2, <2>3 DEF nb
<1>. QED
  BY <1>5, <1>6

\* Every step keeps the sizes.
LEMMA SizesKept ==
  ASSUME Carrier20MHz, DlTypeOK, Sizes, [DlNext]_dlVars
  PROVE  Sizes'
<1>1. ASSUME UNCHANGED <<pid, dci, harq>> PROVE Sizes'
  BY <1>1 DEF Sizes, Prbs, Whole
<1>2. ASSUME NEW r \in Reservations, Start(r) PROVE Sizes'
  <2>1. harq' = harq /\ dci' = [ue \in UEs |-> NoDci]
    BY <1>2 DEF Start, StartTTI
  <2>. QED
    BY <2>1 DEF Sizes, Whole
<1>3. ASSUME NEW ue \in UEs, Schedule(ue) PROVE Sizes'
  <2>. DEFINE h == harq[ue][pid]
  <2>1. h \in Processes /\ h.nb_rb \in Nat /\ h.size = h.nb_rb /\ Whole(h.nb_rb)
    BY DEF DlTypeOK, Sizes, Processes
  <2>2. CASE SkipUe(ue)
    BY <1>1, <2>2 DEF SkipUe
  <2>3. CASE SendRetransmission(ue)
    <3>1. Transmit(ue, DciFor(ue, h.nb_rb), h) /\ h.nb_rb <= PreNb(ue)
      BY <2>3 DEF SendRetransmission
    <3>. HIDE DEF h
    <3>. QED
      BY <2>1, <3>1, SizesOfTransmit
  <2>4. ASSUME NEW j \in Growth, SendNew(ue, j) PROVE Sizes'
    <3>. DEFINE nb == Grow(first[ue], j, PreNb(ue))
                g == [h EXCEPT !.nb_rb = nb, !.size = Prbs(DciFor(ue, nb).groups)]
    <3>1. Transmit(ue, DciFor(ue, nb), g) /\ PreNb(ue) > 0
      BY <2>4 DEF SendNew, Transmit
    <3>2. nb \in Nat /\ Whole(nb) /\ nb <= PreNb(ue)
      <4>1. j \in Nat
        BY DlSlicingAssumption
      <4>. QED
        BY <3>1, <4>1, GrowIsWhole
    <3>. HIDE DEF nb
    <3>3. Prbs(DciFor(ue, nb).groups) = nb
      <4>1. PICK n \in Nat : nb = n * Unit
        BY <3>2 DEF Whole
      <4>2. Cardinality(granted[ue]) \in Nat
        BY CountOfCells DEF DlTypeOK
      <4>3. n * 4 <= 4 * Cardinality(granted[ue])
        BY <3>2, <4>1 DEF PreNb, Carrier20MHz
      <4>4. n <= Cardinality(granted[ue])
        BY <4>2, <4>3
      <4>. QED
        BY <4>1, <4>4, DciForUnits
    <3>. HIDE DEF h
    <3>4. g \in Processes /\ g.nb_rb = nb /\ g.size = nb
      BY <2>1, <3>2, <3>3 DEF Processes
    <3>. HIDE DEF g
    <3>. QED
      BY <3>1, <3>2, <3>4, SizesOfTransmit
  <2>. QED
    BY <1>3, <2>2, <2>3, <2>4 DEF Schedule
<1>4. CASE EndTTI
  <2>1. harq' = harq /\ dci' = [ue \in UEs |-> NoDci]
    BY <1>4 DEF EndTTI
  <2>. QED
    BY <2>1 DEF Sizes, Whole
<1>5. ASSUME NEW ue \in UEs, NEW p \in Pids, Ack(ue, p) \/ Nack(ue, p) PROVE Sizes'
  <2>1. PICK n : harq' = [harq EXCEPT ![ue][p] = [@ EXCEPT !.round = n, !.waiting = FALSE]]
    BY <1>5 DEF Ack, Nack
  <2>2. UNCHANGED <<pid, dci>> /\ pid \in Pids
    BY <1>5 DEF Ack, Nack, ttiVars, DlTypeOK
  <2>3. ASSUME NEW v \in UEs, NEW q \in Pids
        PROVE  harq'[v][q].nb_rb = harq[v][q].nb_rb /\ harq'[v][q].size = harq[v][q].size
    BY <2>1 DEF DlTypeOK, Processes
  <2>. QED
    BY <2>2, <2>3 DEF Sizes, Prbs, Whole
<1>6. CASE StoreStep \/ UNCHANGED dlVars
  BY <1>1, <1>6 DEF StoreStep, dlVars, ttiVars
<1>7. ASSUME NEW ue \in UEs, ThorAllocate(ue) \/ LoseSync(ue) \/ RegainSync(ue)
      PROVE  Sizes'
  BY <1>1, <1>7 DEF ThorAllocate, Assign, LoseSync, RegainSync, ttiVars
<1>. QED
  BY <1>2, <1>3, <1>4, <1>5, <1>6, <1>7 DEF DlNext

\* On the carrier of 20 MHz the sizes are kept in every state.
LEMMA SizesAlways == ASSUME Carrier20MHz PROVE DlSpec => []Sizes
<1>1. DlInit => Sizes
  <2>1. 0 = 0 * Unit
    BY DlSlicingAssumption
  <2>. QED
    BY <2>1 DEF DlInit, Sizes, Whole
<1>2. DlTypeOK /\ Sizes /\ [DlNext]_dlVars => Sizes'
  BY SizesKept
<1>. QED
  BY <1>1, <1>2, TypesInitially, TypesKept, PTL DEF DlSpec

\* On the carrier of 20 MHz a retransmission has the size of the first transmission
\* of its data, although the grant, and the table, may have changed since.
THEOREM RetransmissionsKeepSize ==
  ASSUME Carrier20MHz PROVE DlSpec => []RetransmissionKeepsSize
<1>1. DlTypeOK /\ Sizes => RetransmissionKeepsSize
  BY DEF Sizes, RetransmissionKeepsSize, DlTypeOK
<1>. QED
  BY <1>1, DlTypesHold, SizesAlways, PTL
=============================================================================
