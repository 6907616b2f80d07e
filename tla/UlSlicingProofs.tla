-------------------------- MODULE UlSlicingProofs --------------------------
(***************************************************************************)
(* Proofs for UlSlicing: the types, and that whatever is on the air of a   *)
(* subframe lies on blocks of its own, off PUCCH and, if granted for the   *)
(* subframe, off PRACH, and within the share of its slice - for every      *)
(* carrier, number of UEs, of processes and of rounds, table and sequence  *)
(* of stores to it.                                                        *)
(***************************************************************************)
EXTENDS UlSlicingProps, FiniteSetTheorems, WellFoundedInduction, TLAPS

-----------------------------------------------------------------------------
(* Data.                                                                   *)

\* The constants are numbers.
LEMMA Numbers ==
  /\ N_RB_UL \in Nat /\ N_RB_UL >= 6
  /\ NPids \in Nat /\ NPids >= 1 /\ Mlimit \in Nat /\ Mlimit >= 1
BY UlSlicingAssumption

\* rb_table holds numbers of blocks, the first of which is 1.
LEMMA RbTableIsPositive ==
  /\ \A i \in Indices : rb_table(i) \in Nat /\ rb_table(i) >= 1
  /\ rb_table(0) = 1
BY DEF rb_table, RbTable, Indices

\* An order of UEs is a sequence of UEs.
LEMMA OrdersAreSequences ==
  ASSUME NEW S, S \subseteq UEs
  PROVE  Orders(S) \subseteq Seq(UEs)
<1>1. IsFiniteSet(S)
  BY UlSlicingAssumption, FS_Subset
<1>2. Cardinality(S) \in Nat
  BY <1>1, FS_CardinalityType
<1>3. ASSUME NEW s \in Orders(S) PROVE s \in Seq(UEs)
  <2>1. s \in [1..Cardinality(S) -> UEs]
    BY <1>3 DEF Orders
  <2>. QED
    BY <1>2, <2>1
<1>. QED
  BY <1>3

\* What a pass has not reached stays a sequence of UEs.
LEMMA TailsAreSequences ==
  ASSUME todo \in Seq(UEs), todo # <<>>
  PROVE  Tail(todo) \in Seq(UEs)
OBVIOUS

\* A reception leaves a process a process, and where data is left it leaves it
\* where it was.
LEMMA ReceivedIsProcess ==
  ASSUME NEW h \in Processes, NEW ok \in BOOLEAN
  PROVE  /\ Received(h, ok) \in Processes
         /\ ~Received(h, ok).flag
         /\ Received(h, ok).round > 0 =>
              Received(h, ok).first = h.first /\ Received(h, ok).nb = h.nb
<1>1. CASE ok \/ h.round + 1 = Mlimit
  <2>1. Received(h, ok) = Idle
    BY <1>1 DEF Received
  <2>. QED
    BY <2>1, Numbers DEF Idle, Processes
<1>2. CASE ~(ok \/ h.round + 1 = Mlimit)
  <2>1. Received(h, ok) = [h EXCEPT !.flag = FALSE, !.round = h.round + 1]
    BY <1>2 DEF Received
  <2>2. h.round + 1 \in 0..(Mlimit - 1)
    BY <1>2, Numbers DEF Processes
  <2>. QED
    BY <2>1, <2>2 DEF Processes
<1>. QED
  BY <1>1, <1>2

\* The PHICH leaves a process a process and its data where it was.
LEMMA PhichIsProcess ==
  ASSUME NEW h \in Processes
  PROVE  /\ Phich(h) \in Processes
         /\ Phich(h).first = h.first /\ Phich(h).nb = h.nb
         /\ Phich(h).round = h.round
         /\ Phich(h).flag <=> h.flag \/ h.round > 0
<1>. DEFINE b == h.flag \/ h.round > 0
<1>1. b \in BOOLEAN
  OBVIOUS
<1>2. Phich(h) = [h EXCEPT !.flag = b]
  BY DEF Phich
<1>. HIDE DEF b
<1>3. /\ Phich(h) \in Processes
      /\ Phich(h).first = h.first /\ Phich(h).nb = h.nb
      /\ Phich(h).round = h.round
      /\ Phich(h).flag = b
  BY <1>1, <1>2 DEF Processes
<1>. QED
  BY <1>3 DEF b

-----------------------------------------------------------------------------
(* Types.                                                                  *)

\* The types hold at the start.
LEMMA UlTypesInitially == UlInit => UlTypeOK
<1>. SUFFICES ASSUME UlInit PROVE UlTypeOK
  OBVIOUS
<1>1. uRB \in [StoreSlices -> Nat] /\ dRB \in [StoreSlices -> Nat]
  BY DEF UlInit, StoreInit
<1>2. pid \in Pids /\ occasion \in Occasions
  BY Numbers, UlSlicingAssumption DEF UlInit, Pids
<1>3. Idle \in Processes
  BY Numbers DEF Idle, Processes
<1>4. harq \in [UEs -> [Pids -> Processes]]
  BY <1>3 DEF UlInit
<1>5. index \in [UEs -> -1..32] /\ nb \in [UEs -> Nat] /\ share \in [UEs -> Nat]
  BY DEF UlInit
<1>6. list \in Seq(UEs) /\ todo \in Seq(UEs)
  BY DEF UlInit
<1>. QED
  BY <1>1, <1>2, <1>4, <1>5, <1>6 DEF UlInit, UlTypeOK

\* A store to the table keeps the types.
LEMMA UlTypesOfStore ==
  ASSUME UlTypeOK, StoreStep
  PROVE  UlTypeOK'
<1>1. UNCHANGED <<phase, pid, todo, list, occasion, index, nb, share, first_rb, wants,
                  sync, harq>>
  BY DEF StoreStep, passVars, preVars
<1>2. PICK s \in Allocated : \/ \E v \in UplinkBlocks : StoreUplink(s, v)
                             \/ \E v \in DownlinkBlocks : StoreDownlink(s, v)
  BY DEF StoreStep, StoreNext
<1>3. uRB' \in [StoreSlices -> Nat] /\ dRB' \in [StoreSlices -> Nat]
  BY <1>2, NaturalBlocks DEF StoreUplink, StoreDownlink, UlTypeOK
<1>. QED
  BY <1>1, <1>3 DEF UlTypeOK

\* schedule_ulsch keeps the types.
LEMMA UlTypesOfStart ==
  ASSUME UlTypeOK, NEW o \in Occasions, StartUl(o)
  PROVE  UlTypeOK'
<1>. DEFINE p == (pid + 1) % NPids
<1>1. p \in Pids
  BY Numbers DEF UlTypeOK, Pids
<1>2. pid' = p /\ occasion' = o /\ phase' = "assign"
  BY DEF StartUl
<1>3. first_rb' \in Ends(p, Base(o))
  BY DEF StartUl
<1>. HIDE DEF p
<1>4. first_rb' \in Nat
  <2>1. Base(o) \in Nat
    BY DEF Base
  <2>2. ASSUME NEW ue \in UEs PROVE End(ue, p) \in Nat
    BY <1>1 DEF End, UlTypeOK, Processes
  <2>. QED
    BY <1>3, <2>1, <2>2 DEF Ends
<1>5. todo' \in Seq(UEs)
  BY OrdersAreSequences DEF StartUl
<1>. QED
  BY <1>1, <1>2, <1>4, <1>5 DEF StartUl, UlTypeOK, storeVars, preVars

\* What a UE is pre-allocated has its type.
LEMMA UlTypesOfAssign ==
  ASSUME UlTypeOK, NEW ue \in UEs, AssignMinRb(ue)
  PROVE  UlTypeOK'
<1>1. todo' \in Seq(UEs)
  BY TailsAreSequences DEF AssignMinRb, IsNext, UlTypeOK
<1>2. index' \in [UEs -> -1..32] /\ nb' \in [UEs -> Nat]
  <2>1. ASSUME NEW i \in -1..32, NEW n \in Nat, PreAllocate(ue, i, n)
        PROVE  index' \in [UEs -> -1..32] /\ nb' \in [UEs -> Nat]
    BY <2>1 DEF PreAllocate, UlTypeOK
  <2>2. CASE \E d \in Demands, i \in Indices :
               Capped(d, i) /\ PreAllocate(ue, i, rb_table(i))
    <3>1. PICK i \in Indices : PreAllocate(ue, i, rb_table(i))
      BY <2>2
    <3>2. i \in -1..32
      BY DEF Indices
    <3>3. rb_table(i) \in Nat
      BY RbTableIsPositive
    <3>. QED
      BY <3>1, <3>2, <3>3, <2>1
  <2>3. CASE PreAllocate(ue, 2, 3) \/ PreAllocate(ue, -1, 0)
    BY <2>1, <2>3
  <2>4. CASE UNCHANGED <<index, nb>>
    BY <2>4 DEF UlTypeOK
  <2>. QED
    BY <2>2, <2>3, <2>4 DEF AssignMinRb
<1>. QED
  BY <1>1, <1>2 DEF AssignMinRb, UlTypeOK, storeVars

\* Sorting the list, and going over to the grants, keep the types.
LEMMA UlTypesOfPasses ==
  ASSUME UlTypeOK, SortUes \/ StartGrants
  PROVE  UlTypeOK'
<1>1. CASE SortUes
  <2>1. list' \in Seq(UEs) /\ todo' \in Seq(UEs)
    BY <1>1, OrdersAreSequences DEF SortUes, UlTypeOK
  <2>. QED
    BY <1>1, <2>1 DEF SortUes, UlTypeOK, storeVars, preVars
<1>2. CASE StartGrants
  BY <1>2 DEF StartGrants, UlTypeOK, storeVars, preVars
<1>. QED
  BY <1>1, <1>2

\* Applying the share of a slice keeps the types.
LEMMA UlTypesOfShare ==
  ASSUME UlTypeOK, NEW ue \in UEs, ApplyShare(ue)
  PROVE  UlTypeOK'
<1>. DEFINE n == UE_RNTI_process_function_uplink(ue)
            m == Limited(ue, n)
<1>1. n \in Nat
  BY DEF UE_RNTI_process_function_uplink, UlTypeOK
<1>2. nb' = [nb EXCEPT ![ue] = m] /\ share' = [share EXCEPT ![ue] = n]
  BY DEF ApplyShare
<1>3. m \in Nat
  <2>1. harq[ue][pid].nb \in Nat
    BY DEF UlTypeOK, Processes
  <2>2. nb[ue] \in Nat
    BY DEF UlTypeOK
  <2>. HIDE DEF n
  <2>. QED
    BY <1>1, <2>1, <2>2 DEF Limited
<1>. HIDE DEF n, m
<1>4. nb' \in [UEs -> Nat] /\ share' \in [UEs -> Nat]
  BY <1>1, <1>2, <1>3 DEF UlTypeOK
<1>5. todo' \in Seq(UEs)
  BY TailsAreSequences DEF ApplyShare, IsNext, UlTypeOK
<1>. QED
  BY <1>4, <1>5 DEF ApplyShare, UlTypeOK, storeVars

\* The process of a new grant of n blocks.
Fresh(n) == [first |-> first_rb, nb |-> n, round |-> 0, flag |-> TRUE]

\* A new grant starts at first_rb, has a block at least and ends before PUCCH:
\* entry 0 of rb_table, which the search does not test, has a single block, and
\* a UE is passed over when not even that is left.
LEMMA GrantNewFits ==
  ASSUME UlTypeOK, NEW ue \in UEs, GrantNew(ue)
  PROVE  \E n \in Nat :
           /\ n >= 1 /\ first_rb + n <= N_RB_UL - 1
           /\ first_rb' = first_rb + n
           /\ harq' = [harq EXCEPT ![ue][pid] = Fresh(n)]
<1>1. PICK i \in Indices :
        /\ Reduced(ue, i)
        /\ first_rb' = first_rb + rb_table(i)
        /\ harq' = [harq EXCEPT ![ue][pid] = Fresh(rb_table(i))]
  BY DEF GrantNew, Fresh
<1>2. rb_table(i) \in Nat /\ rb_table(i) >= 1
  BY RbTableIsPositive
<1>3. first_rb \in Nat
  BY DEF UlTypeOK
<1>4. first_rb + rb_table(i) <= N_RB_UL - 1
  <2>1. CASE i = 0
    <3>1. rb_table(i) = 1
      BY <2>1, RbTableIsPositive
    <3>2. first_rb < N_RB_UL - 1
      BY DEF GrantNew
    <3>. QED
      BY <3>1, <3>2, <1>3, Numbers
  <2>2. CASE i # 0
    <3>1. Room(i)
      BY <1>1, <2>2 DEF Reduced, GrantFits
    <3>2. rb_table(i) <= N_RB_UL - first_rb - 1
      BY <3>1 DEF Room
    <3>. QED
      BY <3>2, <1>2, <1>3, Numbers
  <2>. QED
    BY <2>1, <2>2
<1>. QED
  BY <1>1, <1>2, <1>4

\* A grant keeps the types, and so does passing a UE over.
LEMMA UlTypesOfGrant ==
  ASSUME UlTypeOK, NEW ue \in UEs, SkipUl(ue) \/ Retransmit(ue) \/ GrantNew(ue)
  PROVE  UlTypeOK'
<1>1. todo' \in Seq(UEs)
  BY TailsAreSequences DEF SkipUl, Retransmit, GrantNew, IsNext, UlTypeOK
<1>2. wants' \subseteq UEs
  BY DEF SkipUl, Retransmit, GrantNew, Served, UlTypeOK
<1>3. first_rb' \in Nat /\ harq' \in [UEs -> [Pids -> Processes]]
  <2>1. CASE SkipUl(ue) \/ Retransmit(ue)
    BY <2>1 DEF SkipUl, Retransmit, UlTypeOK
  <2>2. CASE GrantNew(ue)
    <3>1. PICK n \in Nat : /\ first_rb' = first_rb + n
                           /\ harq' = [harq EXCEPT ![ue][pid] = Fresh(n)]
      BY <2>2, GrantNewFits
    <3>2. Fresh(n) \in Processes
      BY Numbers DEF Fresh, Processes, UlTypeOK
    <3>. QED
      BY <3>1, <3>2 DEF UlTypeOK
  <2>. QED
    BY <2>1, <2>2
<1>. QED
  BY <1>1, <1>2, <1>3
  DEF SkipUl, Retransmit, GrantNew, UlTypeOK, storeVars, preVars

\* The end of a subframe keeps the types.
LEMMA UlTypesOfEnd ==
  ASSUME UlTypeOK, EndUl
  PROVE  UlTypeOK'
<1>1. harq' = [ue \in UEs |-> [harq[ue] EXCEPT ![pid] = Phich(harq[ue][pid])]]
  BY DEF EndUl
<1>2. ASSUME NEW ue \in UEs PROVE Phich(harq[ue][pid]) \in Processes
  BY PhichIsProcess DEF UlTypeOK
<1>3. harq' \in [UEs -> [Pids -> Processes]]
  BY <1>1, <1>2 DEF UlTypeOK
<1>4. share' \in [UEs -> Nat]
  BY DEF EndUl
<1>5. list' \in Seq(UEs) /\ occasion' \in Occasions /\ first_rb' \in Nat
  BY UlSlicingAssumption DEF EndUl
<1>. QED
  BY <1>3, <1>4, <1>5 DEF EndUl, UlTypeOK, storeVars

\* What the other thread and time do keeps the types.
LEMMA UlTypesOfOthers ==
  ASSUME UlTypeOK, NEW ue \in UEs,
         \/ \E p \in Pids, ok \in BOOLEAN : Receive(ue, p, ok)
         \/ Request(ue) \/ LoseSync(ue) \/ RegainSync(ue)
  PROVE  UlTypeOK'
<1>1. UNCHANGED <<uRB, dRB, phase, pid, todo, list, occasion, index, nb, share, first_rb>>
  BY DEF Receive, Request, LoseSync, RegainSync, storeVars, passVars, preVars
<1>2. wants' \subseteq UEs /\ sync' \subseteq UEs
  BY DEF Receive, Request, LoseSync, RegainSync, UlTypeOK
<1>3. harq' \in [UEs -> [Pids -> Processes]]
  <2>1. ASSUME NEW p \in Pids, NEW ok \in BOOLEAN, Receive(ue, p, ok)
        PROVE  harq' \in [UEs -> [Pids -> Processes]]
    <3>1. Received(harq[ue][p], ok) \in Processes
      BY ReceivedIsProcess DEF UlTypeOK
    <3>. QED
      BY <2>1, <3>1 DEF Receive, UlTypeOK
  <2>2. CASE Request(ue) \/ LoseSync(ue) \/ RegainSync(ue)
    BY <2>2 DEF Request, LoseSync, RegainSync, UlTypeOK
  <2>. QED
    BY <2>1, <2>2
<1>. QED
  BY <1>1, <1>2, <1>3 DEF UlTypeOK

\* Every step keeps the types.
LEMMA UlTypesKept ==
  ASSUME UlTypeOK, [UlNext]_ulVars
  PROVE  UlTypeOK'
<1>1. CASE UNCHANGED ulVars
  BY <1>1 DEF ulVars, storeVars, passVars, preVars, UlTypeOK
<1>2. ASSUME NEW ue \in UEs, UlSchedule(ue) PROVE UlTypeOK'
  BY <1>2, UlTypesOfAssign, UlTypesOfShare, UlTypesOfGrant DEF UlSchedule
<1>3. ASSUME NEW ue \in UEs,
             \/ \E p \in Pids, ok \in BOOLEAN : Receive(ue, p, ok)
             \/ Request(ue) \/ LoseSync(ue) \/ RegainSync(ue)
      PROVE  UlTypeOK'
  BY <1>3, UlTypesOfOthers
<1>. QED
  BY <1>1, <1>2, <1>3, UlTypesOfStore, UlTypesOfStart, UlTypesOfPasses, UlTypesOfEnd
  DEF UlNext

\* The types of UlSlicing hold in every state: process numbers, rounds below
\* Mlimit (generate_phich_top and ulsch_decoding never leave a process in a
\* round beyond the last), natural numbers of blocks.
THEOREM UlTypesHold == UlSpec => []UlTypeOK
BY UlTypesInitially, UlTypesKept, PTL DEF UlSpec

-----------------------------------------------------------------------------
(* Blocks.                                                                 *)

\* The processes on the air lie between the two blocks of PUCCH, first_rb beyond
\* what is reserved for the subframe, and so do the grants made for it.
KeepsOff ==
  /\ \A ue \in UEs, p \in Pids :
       OnAir(ue, p) => harq[ue][p].first >= 1 /\ End(ue, p) <= N_RB_UL - 1
  /\ phase # "idle" => first_rb >= Base(occasion)
  /\ phase # "idle" =>
       \A ue \in UEs : harq[ue][pid].flag => harq[ue][pid].first >= Base(occasion)

\* The inductive invariant.
UlSafe == UlDisjoint /\ EndsBeforeFirst /\ KeepsOff

\* The processes on the air are where they were.
StayPut ==
  \A ue \in UEs, p \in Pids :
    OnAir(ue, p)' => /\ OnAir(ue, p)
                     /\ harq'[ue][p].first = harq[ue][p].first
                     /\ harq'[ue][p].nb = harq[ue][p].nb

\* Disjoint processes that stay put stay disjoint, and on the carrier.
LEMMA StayPutStaySafe ==
  ASSUME UlSafe, StayPut
  PROVE  /\ UlDisjoint'
         /\ \A ue \in UEs, p \in Pids :
              OnAir(ue, p)' => /\ End(ue, p)' = End(ue, p)
                               /\ harq'[ue][p].first >= 1
                               /\ End(ue, p)' <= N_RB_UL - 1
<1>1. ASSUME NEW ue \in UEs, NEW p \in Pids, OnAir(ue, p)'
      PROVE  Blocks(ue, p)' = Blocks(ue, p) /\ End(ue, p)' = End(ue, p)
  BY <1>1 DEF StayPut, Blocks, End
<1>2. UlDisjoint'
  BY <1>1 DEF UlSafe, UlDisjoint, StayPut
<1>3. ASSUME NEW ue \in UEs, NEW p \in Pids, OnAir(ue, p)'
      PROVE  harq'[ue][p].first >= 1 /\ End(ue, p)' <= N_RB_UL - 1
  BY <1>1, <1>3 DEF UlSafe, KeepsOff, StayPut
<1>. QED
  BY <1>1, <1>2, <1>3

\* A step within a pass that touches neither first_rb nor a process.
LEMMA SafeWhenUntouched ==
  ASSUME UlSafe, UNCHANGED <<pid, occasion, first_rb, harq>>,
         phase' # "idle" => phase # "idle"
  PROVE  UlSafe'
<1>1. UlDisjoint'
  BY DEF UlSafe, UlDisjoint, OnAir, Blocks
<1>2. EndsBeforeFirst'
  BY DEF UlSafe, EndsBeforeFirst, OnAir, End
<1>3. KeepsOff'
  BY DEF UlSafe, KeepsOff, OnAir, End, Base
<1>. QED
  BY <1>1, <1>2, <1>3 DEF UlSafe

\* schedule_ulsch moves first_rb beyond what is on the air of the subframe.
LEMMA SafeStart ==
  ASSUME UlTypeOK, UlSafe, NEW o \in Occasions, StartUl(o)
  PROVE  UlSafe'
<1>. DEFINE p == (pid + 1) % NPids
<1>1. /\ pid' = p /\ occasion' = o /\ phase' = "assign" /\ harq' = harq
      /\ \A ue \in UEs : ~harq[ue][p].flag
      /\ \A e \in Ends(p, Base(o)) : e <= first_rb'
  BY DEF StartUl
<1>2. p \in Pids
  BY Numbers DEF UlTypeOK, Pids
<1>. HIDE DEF p
<1>3. UlDisjoint'
  BY <1>1 DEF UlSafe, UlDisjoint, OnAir, Blocks
<1>4. EndsBeforeFirst'
  <2>1. ASSUME NEW ue \in UEs, OnAir(ue, pid)' PROVE End(ue, pid)' <= first_rb'
    <3>1. harq[ue][p].round > 0
      BY <1>1, <2>1 DEF OnAir
    <3>2. End(ue, p) \in Ends(p, Base(o))
      BY <3>1 DEF Ends
    <3>3. End(ue, pid)' = End(ue, p)
      BY <1>1 DEF End
    <3>. QED
      BY <1>1, <3>2, <3>3
  <2>. QED
    BY <2>1 DEF EndsBeforeFirst
<1>5. KeepsOff'
  <2>1. Base(occasion)' = Base(o)
    BY <1>1 DEF Base
  <2>2. Base(o) \in Ends(p, Base(o))
    BY DEF Ends
  <2>3. Base(o) \in Nat /\ first_rb' \in Nat
    BY UlTypesOfStart DEF Base, UlTypeOK
  <2>4. first_rb' >= Base(occasion)'
    BY <1>1, <2>1, <2>2, <2>3
  <2>5. \A ue \in UEs : ~harq'[ue][pid'].flag
    BY <1>1
  <2>6. \A ue \in UEs, q \in Pids :
          OnAir(ue, q)' => harq'[ue][q].first >= 1 /\ End(ue, q)' <= N_RB_UL - 1
    BY <1>1 DEF UlSafe, KeepsOff, OnAir, End
  <2>. QED
    BY <2>4, <2>5, <2>6 DEF KeepsOff
<1>. QED
  BY <1>3, <1>4, <1>5 DEF UlSafe

\* A grant goes beyond everything on the air of the subframe.
LEMMA SafeGrant ==
  ASSUME UlTypeOK, UlSafe, NEW ue \in UEs, GrantNew(ue)
  PROVE  UlSafe'
<1>1. PICK n \in Nat :
        /\ n >= 1 /\ first_rb + n <= N_RB_UL - 1
        /\ first_rb' = first_rb + n
        /\ harq' = [harq EXCEPT ![ue][pid] = Fresh(n)]
  BY GrantNewFits
<1>2. phase = "grant" /\ UNCHANGED <<phase, pid, occasion>>
  BY DEF GrantNew
<1>3. /\ harq'[ue][pid] = Fresh(n)
      /\ \A v \in UEs, q \in Pids : v # ue \/ q # pid => harq'[v][q] = harq[v][q]
  BY <1>1 DEF UlTypeOK
<1>4. /\ Fresh(n).first = first_rb /\ Fresh(n).nb = n /\ Fresh(n).flag
      /\ first_rb \in Nat
  BY DEF Fresh, UlTypeOK
<1>5. End(ue, pid)' = first_rb + n
  BY <1>2, <1>3, <1>4 DEF End
<1>6. ASSUME NEW v \in UEs, NEW q \in Pids, v # ue \/ q # pid
      PROVE  /\ Blocks(v, q)' = Blocks(v, q) /\ End(v, q)' = End(v, q)
             /\ OnAir(v, q)' <=> OnAir(v, q)
             /\ harq'[v][q] = harq[v][q]
  BY <1>3, <1>6 DEF Blocks, End, OnAir
<1>7. pid \in Pids
  BY DEF UlTypeOK
<1>8. UlDisjoint'
  <2>1. ASSUME NEW v \in UEs, v # ue, NEW q \in Pids, q = pid, OnAir(v, q)
        PROVE  Blocks(v, q)' \cap Blocks(ue, q)' = {}
    <3>1. End(v, q) <= first_rb
      BY <1>2, <2>1 DEF UlSafe, EndsBeforeFirst
    <3>2. harq[v][q].first \in Nat /\ harq[v][q].nb \in Nat
      BY DEF UlTypeOK, Processes
    <3>3. \A b \in Blocks(v, q) : b < first_rb
      BY <1>4, <3>1, <3>2 DEF Blocks, End
    <3>4. Blocks(v, q)' = Blocks(v, q)
      BY <1>6, <2>1
    <3>5. Blocks(ue, q)' = first_rb..(first_rb + n - 1)
      BY <1>3, <1>4, <2>1 DEF Blocks
    <3>. QED
      BY <1>4, <3>3, <3>4, <3>5
  <2>2. ASSUME NEW q \in Pids, NEW v \in UEs, NEW w \in UEs, v # w,
               OnAir(v, q)', OnAir(w, q)'
        PROVE  Blocks(v, q)' \cap Blocks(w, q)' = {}
    <3>1. CASE q # pid \/ (v # ue /\ w # ue)
      BY <1>6, <2>2, <3>1 DEF UlSafe, UlDisjoint
    <3>2. CASE q = pid /\ v = ue
      BY <1>2, <1>6, <2>1, <2>2, <3>2
    <3>3. CASE q = pid /\ w = ue
      BY <1>2, <1>6, <2>1, <2>2, <3>3
    <3>. QED
      BY <3>1, <3>2, <3>3
  <2>. QED
    BY <2>2 DEF UlDisjoint
<1>9. EndsBeforeFirst'
  <2>1. ASSUME NEW v \in UEs, OnAir(v, pid)' PROVE End(v, pid)' <= first_rb'
    <3>1. CASE v = ue
      BY <1>1, <1>4, <1>5, <3>1
    <3>2. CASE v # ue
      <4>1. OnAir(v, pid)
        BY <1>2, <1>3, <2>1, <3>2, <1>7 DEF OnAir
      <4>2. End(v, pid) <= first_rb
        BY <1>2, <4>1 DEF UlSafe, EndsBeforeFirst
      <4>3. End(v, pid) \in Nat
        BY <1>7 DEF UlTypeOK, Processes, End
      <4>4. End(v, pid)' = End(v, pid)
        BY <1>2, <1>3, <1>7, <3>2 DEF End
      <4>. QED
        BY <1>1, <1>4, <4>2, <4>3, <4>4
    <3>. QED
      BY <3>1, <3>2
  <2>. QED
    BY <2>1 DEF EndsBeforeFirst
<1>10. KeepsOff'
  <2>1. Base(occasion) \in Nat /\ Base(occasion) >= 1 /\ Base(occasion)' = Base(occasion)
    BY <1>2 DEF Base
  <2>2. first_rb >= Base(occasion)
    BY <1>2 DEF UlSafe, KeepsOff
  <2>3. first_rb' >= Base(occasion)'
    BY <1>1, <1>4, <2>1, <2>2
  <2>4. ASSUME NEW v \in UEs, NEW q \in Pids, OnAir(v, q)'
        PROVE  harq'[v][q].first >= 1 /\ End(v, q)' <= N_RB_UL - 1
    <3>1. CASE v = ue /\ q = pid
      BY <1>1, <1>2, <1>3, <1>4, <1>5, <2>1, <2>2, <3>1
    <3>2. CASE v # ue \/ q # pid
      BY <1>6, <2>4, <3>2 DEF UlSafe, KeepsOff
    <3>. QED
      BY <3>1, <3>2
  <2>5. ASSUME NEW v \in UEs, harq'[v][pid'].flag
        PROVE  harq'[v][pid'].first >= Base(occasion)'
    <3>1. CASE v = ue
      BY <1>2, <1>3, <1>4, <2>1, <2>2, <3>1
    <3>2. CASE v # ue
      BY <1>2, <1>3, <1>7, <2>1, <2>5, <3>2 DEF UlSafe, KeepsOff
    <3>. QED
      BY <3>1, <3>2
  <2>. QED
    BY <2>3, <2>4, <2>5 DEF KeepsOff
<1>. QED
  BY <1>8, <1>9, <1>10 DEF UlSafe

\* The PHICH orders retransmissions where the data was sent before.
LEMMA SafeEnd ==
  ASSUME UlTypeOK, UlSafe, EndUl
  PROVE  UlSafe'
<1>1. harq' = [ue \in UEs |-> [harq[ue] EXCEPT ![pid] = Phich(harq[ue][pid])]]
  BY DEF EndUl
<1>2. ASSUME NEW ue \in UEs, NEW p \in Pids, OnAir(ue, p)'
      PROVE  /\ OnAir(ue, p)
             /\ harq'[ue][p].first = harq[ue][p].first
             /\ harq'[ue][p].nb = harq[ue][p].nb
  <2>1. harq[ue][p] \in Processes
    BY DEF UlTypeOK
  <2>2. CASE p = pid
    <3>1. harq'[ue][p] = Phich(harq[ue][p])
      BY <1>1, <2>2 DEF UlTypeOK
    <3>. QED
      BY <1>2, <2>1, <3>1, PhichIsProcess DEF OnAir
  <2>3. CASE p # pid
    <3>1. harq'[ue][p] = harq[ue][p]
      BY <1>1, <2>3 DEF UlTypeOK
    <3>. QED
      BY <1>2, <3>1 DEF OnAir
  <2>. QED
    BY <2>2, <2>3
<1>3. StayPut
  BY <1>2 DEF StayPut
<1>4. phase' = "idle"
  BY DEF EndUl
<1>. QED
  BY <1>3, <1>4, StayPutStaySafe DEF UlSafe, EndsBeforeFirst, KeepsOff

\* A reception frees blocks or leaves the data where it was sent.
LEMMA SafeReceive ==
  ASSUME UlTypeOK, UlSafe,
         NEW ue \in UEs, NEW p \in Pids, NEW ok \in BOOLEAN, Receive(ue, p, ok)
  PROVE  UlSafe'
<1>. DEFINE r == Received(harq[ue][p], ok)
<1>1. /\ phase = "idle" \/ p # pid
      /\ harq[ue][p].flag
      /\ harq' = [harq EXCEPT ![ue][p] = r]
      /\ UNCHANGED <<phase, pid, occasion, first_rb>>
  BY DEF Receive, passVars
<1>2. /\ ~r.flag
      /\ r.round > 0 => r.first = harq[ue][p].first /\ r.nb = harq[ue][p].nb
  BY ReceivedIsProcess DEF UlTypeOK
<1>. HIDE DEF r
<1>3. /\ harq'[ue][p] = r
      /\ \A v \in UEs, q \in Pids : v # ue \/ q # p => harq'[v][q] = harq[v][q]
  BY <1>1 DEF UlTypeOK
<1>4. ASSUME NEW v \in UEs, NEW q \in Pids, OnAir(v, q)'
      PROVE  /\ OnAir(v, q)
             /\ harq'[v][q].first = harq[v][q].first
             /\ harq'[v][q].nb = harq[v][q].nb
  <2>1. CASE v = ue /\ q = p
    BY <1>1, <1>2, <1>3, <1>4, <2>1 DEF OnAir
  <2>2. CASE v # ue \/ q # p
    BY <1>3, <1>4, <2>2 DEF OnAir
  <2>. QED
    BY <2>1, <2>2
<1>5. StayPut
  BY <1>4 DEF StayPut
<1>6. pid \in Pids
  BY DEF UlTypeOK
<1>7. phase # "idle" => \A v \in UEs : harq'[v][pid] = harq[v][pid]
  BY <1>1, <1>3, <1>6
<1>8. EndsBeforeFirst'
  BY <1>1, <1>7 DEF UlSafe, EndsBeforeFirst, OnAir, End
<1>9. KeepsOff'
  <2>1. \A v \in UEs, q \in Pids :
          OnAir(v, q)' => harq'[v][q].first >= 1 /\ End(v, q)' <= N_RB_UL - 1
    BY <1>5, StayPutStaySafe
  <2>2. phase' # "idle" => first_rb' >= Base(occasion)'
    BY <1>1 DEF UlSafe, KeepsOff, Base
  <2>3. phase' # "idle" => \A v \in UEs : harq'[v][pid'].flag =>
                              harq'[v][pid'].first >= Base(occasion)'
    BY <1>1, <1>7 DEF UlSafe, KeepsOff, Base
  <2>. QED
    BY <2>1, <2>2, <2>3 DEF KeepsOff
<1>. QED
  BY <1>5, <1>8, <1>9, StayPutStaySafe DEF UlSafe

\* The invariant holds at the start.
LEMMA SafeInitially == UlInit => UlSafe
<1>. SUFFICES ASSUME UlInit PROVE UlSafe
  OBVIOUS
<1>1. \A ue \in UEs, p \in Pids : ~OnAir(ue, p)
  BY DEF UlInit, Idle, OnAir
<1>. QED
  BY <1>1 DEF UlInit, UlSafe, UlDisjoint, EndsBeforeFirst, KeepsOff

\* Every step keeps the invariant.
LEMMA SafeKept ==
  ASSUME UlTypeOK, UlSafe, [UlNext]_ulVars
  PROVE  UlSafe'
<1>1. CASE UNCHANGED ulVars
  BY <1>1, SafeWhenUntouched DEF ulVars, passVars
<1>2. CASE StoreStep
  BY <1>2, SafeWhenUntouched DEF StoreStep, passVars
<1>3. ASSUME NEW ue \in UEs, UlSchedule(ue) PROVE UlSafe'
  <2>1. CASE AssignMinRb(ue)
    BY <2>1, SafeWhenUntouched DEF AssignMinRb
  <2>2. CASE ApplyShare(ue)
    BY <2>2, SafeWhenUntouched DEF ApplyShare
  <2>3. CASE SkipUl(ue)
    BY <2>3, SafeWhenUntouched DEF SkipUl
  <2>4. CASE Retransmit(ue)
    BY <2>4, SafeWhenUntouched DEF Retransmit
  <2>5. CASE GrantNew(ue)
    BY <2>5, SafeGrant
  <2>. QED
    BY <1>3, <2>1, <2>2, <2>3, <2>4, <2>5 DEF UlSchedule
<1>4. CASE SortUes
  BY <1>4, SafeWhenUntouched DEF SortUes
<1>5. CASE StartGrants
  BY <1>5, SafeWhenUntouched DEF StartGrants
<1>6. ASSUME NEW ue \in UEs, Request(ue) \/ LoseSync(ue) \/ RegainSync(ue)
      PROVE  UlSafe'
  BY <1>6, SafeWhenUntouched DEF Request, LoseSync, RegainSync, passVars
<1>. QED
  BY <1>1, <1>2, <1>3, <1>4, <1>5, <1>6, SafeStart, SafeEnd, SafeReceive DEF UlNext

\* The invariant holds in every state.
LEMMA SafeAlways == UlSpec => []UlSafe
BY UlTypesInitially, UlTypesKept, SafeInitially, SafeKept, PTL DEF UlSpec

\* No two UEs ever share a block of an uplink subframe, new grants and
\* retransmissions of any round mixed, for every carrier, set of UEs, number of
\* processes, table and sequence of stores to it.
THEOREM UplinkIsDisjoint == UlSpec => []UlDisjoint
<1>1. UlSafe => UlDisjoint
  BY DEF UlSafe
<1>. QED
  BY <1>1, SafeAlways, PTL

\* Everything on the air keeps off the two blocks of PUCCH, and a new grant off
\* the blocks of a PRACH occasion.
THEOREM ControlIsAvoided == UlSpec => []GrantsAvoidControl
<1>1. UlTypeOK /\ UlSafe => GrantsAvoidControl
  <2>. SUFFICES ASSUME UlTypeOK, UlSafe PROVE GrantsAvoidControl
    OBVIOUS
  <2>1. ASSUME NEW ue \in UEs, NEW p \in Pids
        PROVE  harq[ue][p].first \in Nat /\ harq[ue][p].nb \in Nat
    BY DEF UlTypeOK, Processes
  <2>2. ASSUME NEW ue \in UEs, NEW p \in Pids, OnAir(ue, p)
        PROVE  Blocks(ue, p) \subseteq 1..(N_RB_UL - 2)
    <3>1. harq[ue][p].first >= 1 /\ End(ue, p) <= N_RB_UL - 1
      BY <2>2 DEF UlSafe, KeepsOff
    <3>. QED
      BY <2>1, <3>1, Numbers DEF Blocks, End
  <2>3. ASSUME phase = "grant", occasion.prach, NEW ue \in UEs, harq[ue][pid].flag
        PROVE  Blocks(ue, pid) \cap 0..7 = {}
    <3>1. Base(occasion) = 8
      BY <2>3 DEF Base
    <3>2. harq[ue][pid].first >= 8
      BY <2>3, <3>1 DEF UlSafe, KeepsOff
    <3>3. pid \in Pids
      BY DEF UlTypeOK
    <3>. QED
      BY <2>1, <3>2, <3>3 DEF Blocks
  <2>. QED
    BY <2>2, <2>3 DEF GrantsAvoidControl
<1>. QED
  BY <1>1, UlTypesHold, SafeAlways, PTL

-----------------------------------------------------------------------------
(* Shares.                                                                 *)

\* The UEs of the list whose share has been applied.
Passed(ue) ==
  /\ ue \in ToSet(list)
  /\ phase = "grant" \/ (phase = "share" /\ ue \notin ToSet(todo))

\* The share of a slice bounds what is pre-allocated to a UE that starts new data,
\* from the moment it is applied; grants are made to UEs of the list only, and to
\* none before.
SharesApplied ==
  /\ phase = "grant" => ToSet(todo) \subseteq ToSet(list)
  /\ \A ue \in UEs : Passed(ue) /\ harq[ue][pid].round = 0 => nb[ue] <= share[ue]
  /\ phase \in {"assign", "share"} => \A ue \in UEs : ~harq[ue][pid].flag

\* The inductive invariant.
ShareInv == SharesApplied /\ GrantWithinShare

\* The UEs of a list are its first one and those of the rest.
LEMMA HeadAndTail ==
  ASSUME NEW s \in Seq(UEs), s # <<>>
  PROVE  /\ Head(s) \in UEs
         /\ ToSet(s) = {Head(s)} \cup ToSet(Tail(s))
<1>1. Len(s) \in Nat /\ Len(s) >= 1 /\ DOMAIN s = 1..Len(s) /\ Head(s) = s[1]
  OBVIOUS
<1>2. /\ Len(Tail(s)) = Len(s) - 1 /\ DOMAIN Tail(s) = 1..(Len(s) - 1)
      /\ \A i \in 1..(Len(s) - 1) : Tail(s)[i] = s[i + 1]
  OBVIOUS
<1>3. ASSUME NEW i \in 1..Len(s), i # 1
      PROVE  i - 1 \in DOMAIN Tail(s) /\ s[i] = Tail(s)[i - 1]
  BY <1>1, <1>2, <1>3
<1>4. ToSet(s) \subseteq {Head(s)} \cup ToSet(Tail(s))
  BY <1>1, <1>3 DEF ToSet
<1>5. ToSet(Tail(s)) \subseteq ToSet(s)
  <2>1. ASSUME NEW i \in DOMAIN Tail(s) PROVE \E j \in DOMAIN s : s[j] = Tail(s)[i]
    <3>1. i + 1 \in DOMAIN s /\ s[i + 1] = Tail(s)[i]
      BY <1>1, <1>2
    <3>. QED
      BY <3>1
  <2>. QED
    BY <2>1 DEF ToSet
<1>6. Head(s) \in ToSet(s) /\ Head(s) \in UEs
  BY <1>1 DEF ToSet
<1>. QED
  BY <1>4, <1>5, <1>6

\* The first six entries of rb_table are blocks that go up to six.
LEMMA FirstSixEntries ==
  ASSUME NEW i \in 0..5
  PROVE  rb_table(i) <= 6
BY DEF rb_table, RbTable

\* A grant is within the share of its UE, or within six blocks if the
\* pre-processor had not expected it to be scheduled.
LEMMA GrantNewWithinShare ==
  ASSUME UlTypeOK, ShareInv, NEW ue \in UEs, GrantNew(ue)
  PROVE  harq'[ue][pid].nb <= IF index[ue] >= 0 THEN Due(ue) ELSE 6
<1>1. PICK i \in Indices : Reduced(ue, i) /\ harq'[ue][pid].nb = rb_table(i)
  <2>1. PICK i \in Indices :
          /\ Reduced(ue, i)
          /\ harq' = [harq EXCEPT ![ue][pid] = Fresh(rb_table(i))]
    BY DEF GrantNew, Fresh
  <2>2. harq'[ue][pid] = Fresh(rb_table(i))
    BY <2>1 DEF UlTypeOK
  <2>. QED
    BY <2>1, <2>2 DEF Fresh
<1>2. rb_table(i) \in Nat /\ (i = 0 => rb_table(i) = 1)
  BY RbTableIsPositive
<1>3. share[ue] \in Nat /\ nb[ue] \in Nat /\ index[ue] \in -1..32
  BY DEF UlTypeOK
<1>4. CASE index[ue] >= 0
  <2>1. CASE i = 0
    BY <1>1, <1>2, <1>3, <1>4, <2>1 DEF Due
  <2>2. CASE i # 0
    <3>1. rb_table(i) <= nb[ue] /\ rb_table(i) >= 1
      BY <1>1, <1>4, <2>2, RbTableIsPositive DEF Reduced, GrantFits
    <3>2. Passed(ue)
      BY HeadAndTail DEF GrantNew, IsNext, ShareInv, SharesApplied, Passed, UlTypeOK
    <3>3. nb[ue] <= share[ue]
      BY <3>2 DEF GrantNew, ShareInv, SharesApplied
    <3>. QED
      BY <1>1, <1>2, <1>3, <1>4, <3>1, <3>3 DEF Due
  <2>. QED
    BY <2>1, <2>2
<1>5. CASE index[ue] < 0
  <2>1. i \in 0..5
    BY <1>1, <1>3, <1>5 DEF Reduced, From
  <2>. QED
    BY <1>1, <1>3, <1>5, <2>1, FirstSixEntries
<1>. QED
  BY <1>3, <1>4, <1>5

\* A step that leaves the pass, its list and its processes alone.
LEMMA SharesWhenUntouched ==
  ASSUME ShareInv, UNCHANGED <<phase, pid, list, todo, nb, share, index>>,
         phase # "idle" => \A ue \in UEs : harq'[ue][pid] = harq[ue][pid]
  PROVE  ShareInv'
<1>1. SharesApplied'
  BY DEF ShareInv, SharesApplied, Passed
<1>2. GrantWithinShare'
  BY DEF ShareInv, GrantWithinShare, Due
<1>. QED
  BY <1>1, <1>2 DEF ShareInv

\* The passes before the grants: no grant is made, and a share read is applied.
LEMMA SharesOfPasses ==
  ASSUME UlTypeOK, ShareInv,
         \/ \E o \in Occasions : StartUl(o)
         \/ \E ue \in UEs : AssignMinRb(ue) \/ ApplyShare(ue)
         \/ SortUes \/ StartGrants
  PROVE  ShareInv'
<1>1. ASSUME NEW o \in Occasions, StartUl(o) PROVE ShareInv'
  <2>. DEFINE p == (pid + 1) % NPids
  <2>1. phase' = "assign" /\ pid' = p /\ harq' = harq /\ \A ue \in UEs : ~harq[ue][p].flag
    BY <1>1 DEF StartUl
  <2>. QED
    BY <2>1 DEF ShareInv, SharesApplied, GrantWithinShare, Passed
<1>2. ASSUME NEW ue \in UEs, AssignMinRb(ue) PROVE ShareInv'
  <2>1. phase = "assign" /\ UNCHANGED <<phase, pid, harq>>
    BY <1>2 DEF AssignMinRb
  <2>. QED
    BY <2>1 DEF ShareInv, SharesApplied, GrantWithinShare, Passed
<1>3. CASE SortUes
  <2>1. phase = "assign" /\ phase' = "share" /\ list' = todo' /\ UNCHANGED <<pid, harq>>
    BY <1>3 DEF SortUes
  <2>. QED
    BY <2>1 DEF ShareInv, SharesApplied, GrantWithinShare, Passed
<1>4. ASSUME NEW ue \in UEs, ApplyShare(ue) PROVE ShareInv'
  <2>. DEFINE n == UE_RNTI_process_function_uplink(ue)
              m == Limited(ue, n)
  <2>1. /\ phase = "share" /\ todo # <<>> /\ ue = Head(todo) /\ todo' = Tail(todo)
        /\ nb' = [nb EXCEPT ![ue] = m] /\ share' = [share EXCEPT ![ue] = n]
        /\ UNCHANGED <<phase, pid, list, harq>>
    BY <1>4 DEF ApplyShare, IsNext
  <2>2. n \in Nat /\ nb[ue] \in Nat
    BY DEF UE_RNTI_process_function_uplink, UlTypeOK
  <2>3. harq[ue][pid].round = 0 => m <= n
    <3>. HIDE DEF n
    <3>. QED
      BY <2>2 DEF Limited
  <2>. HIDE DEF n, m
  <2>4. ASSUME NEW v \in UEs, Passed(v)', harq[v][pid].round = 0
        PROVE  nb'[v] <= share'[v]
    <3>1. CASE v = ue
      <4>1. nb'[v] = m /\ share'[v] = n
        BY <2>1, <3>1 DEF UlTypeOK
      <4>. QED
        BY <2>3, <2>4, <3>1, <4>1
    <3>2. CASE v # ue
      <4>1. nb'[v] = nb[v] /\ share'[v] = share[v]
        BY <2>1, <3>2 DEF UlTypeOK
      <4>2. v \in ToSet(list) /\ v \notin ToSet(Tail(todo))
        BY <2>1, <2>4 DEF Passed
      <4>3. Passed(v)
        BY <2>1, <3>2, <4>2, HeadAndTail DEF Passed, UlTypeOK
      <4>. QED
        BY <2>4, <4>1, <4>3 DEF ShareInv, SharesApplied
    <3>. QED
      BY <3>1, <3>2
  <2>5. SharesApplied'
    BY <2>1, <2>4 DEF ShareInv, SharesApplied
  <2>6. GrantWithinShare'
    BY <2>1 DEF GrantWithinShare
  <2>. QED
    BY <2>5, <2>6 DEF ShareInv
<1>5. CASE StartGrants
  <2>1. /\ phase = "share" /\ todo = <<>> /\ phase' = "grant" /\ todo' = list
        /\ UNCHANGED <<pid, list, harq, nb, share, index>>
    BY <1>5 DEF StartGrants, preVars
  <2>2. ToSet(todo) = {}
    BY <2>1 DEF ToSet
  <2>3. \A ue \in UEs : Passed(ue)' => Passed(ue)
    BY <2>1, <2>2 DEF Passed
  <2>4. SharesApplied'
    BY <2>1, <2>3 DEF ShareInv, SharesApplied
  <2>5. GrantWithinShare'
    BY <2>1 DEF ShareInv, SharesApplied, GrantWithinShare
  <2>. QED
    BY <2>4, <2>5 DEF ShareInv
<1>. QED
  BY <1>1, <1>2, <1>3, <1>4, <1>5

\* The grants.
LEMMA SharesOfGrants ==
  ASSUME UlTypeOK, ShareInv, NEW ue \in UEs,
         SkipUl(ue) \/ Retransmit(ue) \/ GrantNew(ue)
  PROVE  ShareInv'
<1>1. /\ phase = "grant" /\ IsNext(ue) /\ todo' = Tail(todo)
      /\ UNCHANGED <<phase, pid, list, nb, share, index>>
  BY DEF SkipUl, Retransmit, GrantNew, preVars
<1>2. ToSet(todo') \subseteq ToSet(list')
  BY <1>1, HeadAndTail DEF IsNext, ShareInv, SharesApplied, UlTypeOK
<1>3. pid \in Pids
  BY DEF UlTypeOK
<1>4. ASSUME NEW v \in UEs
      PROVE  /\ harq'[v][pid].round = harq[v][pid].round
             /\ harq'[v][pid].flag =>
                  harq'[v][pid].nb <= IF index[v] >= 0 THEN Due(v) ELSE 6
  <2>1. CASE SkipUl(ue) \/ Retransmit(ue)
    <3>1. harq' = harq
      BY <2>1 DEF SkipUl, Retransmit
    <3>. QED
      BY <1>1, <3>1 DEF ShareInv, GrantWithinShare
  <2>2. CASE GrantNew(ue)
    <3>1. PICK n \in Nat : harq' = [harq EXCEPT ![ue][pid] = Fresh(n)]
      BY <2>2, GrantNewFits
    <3>2. CASE v = ue
      <4>1. harq'[v][pid].round = 0
        BY <1>3, <3>1, <3>2 DEF Fresh, UlTypeOK
      <4>. QED
        BY <2>2, <3>2, <4>1, GrantNewWithinShare DEF GrantNew
    <3>3. CASE v # ue
      <4>1. harq'[v][pid] = harq[v][pid]
        BY <3>1, <3>3 DEF UlTypeOK
      <4>. QED
        BY <1>1, <4>1 DEF ShareInv, GrantWithinShare
    <3>. QED
      BY <3>2, <3>3
  <2>. QED
    BY <2>1, <2>2
<1>5. SharesApplied'
  BY <1>1, <1>2, <1>4 DEF ShareInv, SharesApplied, Passed
<1>6. GrantWithinShare'
  BY <1>1, <1>4 DEF GrantWithinShare, Due
<1>. QED
  BY <1>5, <1>6 DEF ShareInv

\* A reception touches no process of the subframe being scheduled.
LEMMA SharesOfReceive ==
  ASSUME UlTypeOK, ShareInv,
         NEW ue \in UEs, NEW p \in Pids, NEW ok \in BOOLEAN, Receive(ue, p, ok)
  PROVE  ShareInv'
<1>1. /\ phase = "idle" \/ p # pid
      /\ harq' = [harq EXCEPT ![ue][p] = Received(harq[ue][p], ok)]
      /\ UNCHANGED <<phase, pid, list, todo, nb, share, index>>
  BY DEF Receive, passVars, preVars
<1>2. phase # "idle" => \A v \in UEs : harq'[v][pid] = harq[v][pid]
  BY <1>1 DEF UlTypeOK
<1>. QED
  BY <1>1, <1>2, SharesWhenUntouched

\* Every step keeps grants within shares.
LEMMA SharesKept ==
  ASSUME UlTypeOK, ShareInv, [UlNext]_ulVars
  PROVE  ShareInv'
<1>1. CASE UNCHANGED ulVars
  BY <1>1, SharesWhenUntouched DEF ulVars, passVars, preVars
<1>2. CASE StoreStep
  BY <1>2, SharesWhenUntouched DEF StoreStep, passVars, preVars
<1>3. ASSUME NEW ue \in UEs, UlSchedule(ue) PROVE ShareInv'
  BY <1>3, SharesOfPasses, SharesOfGrants DEF UlSchedule
<1>4. CASE EndUl
  <2>1. phase' = "idle"
    BY <1>4 DEF EndUl
  <2>. QED
    BY <2>1 DEF ShareInv, SharesApplied, GrantWithinShare, Passed
<1>5. ASSUME NEW ue \in UEs, Request(ue) \/ LoseSync(ue) \/ RegainSync(ue)
      PROVE  ShareInv'
  BY <1>5, SharesWhenUntouched DEF Request, LoseSync, RegainSync, passVars, preVars
<1>. QED
  BY <1>1, <1>2, <1>3, <1>4, <1>5, SharesOfPasses, SharesOfReceive DEF UlNext

\* No new grant exceeds the share of its UE's slice, whatever the UE reports and
\* whichever values the hypervisor stores between the read of the share and the
\* grant; the six blocks for a UE that the pre-processor did not expect excepted.
THEOREM GrantsStayWithinShares == UlSpec => []GrantWithinShare
<1>1. UlInit => ShareInv
  BY DEF UlInit, ShareInv, SharesApplied, GrantWithinShare, Passed
<1>2. ShareInv => GrantWithinShare
  BY DEF ShareInv
<1>. QED
  BY <1>1, <1>2, UlTypesInitially, UlTypesKept, SharesKept, PTL DEF UlSpec

-----------------------------------------------------------------------------
(* Sums of shares.                                                         *)

\* Sums of blocks over sets of UEs: what is counted is a block of a UE.
BlocksDue(T) == {p \in T \X Nat : p[2] \in 1..Due(p[1])}
Total(T) == Cardinality(BlocksDue(T))

\* The blocks one UE is due.
BlocksOf(ue) == {ue} \X (1..Due(ue))

LEMMA BlocksOfOne ==
  ASSUME NEW x, Due(x) \in Nat
  PROVE  IsFiniteSet(BlocksOf(x)) /\ Cardinality(BlocksOf(x)) = Due(x)
<1>. DEFINE n == Due(x)
<1>. HIDE DEF n
<1>1. n \in Nat
  BY DEF n
<1>2. IsFiniteSet(1..n) /\ Cardinality(1..n) = n
  BY <1>1, FS_Interval
<1>3. IsFiniteSet({x}) /\ Cardinality({x}) = 1
  BY FS_Singleton
<1>4. IsFiniteSet({x} \X (1..n)) /\ Cardinality({x} \X (1..n)) = 1 * n
  BY <1>2, <1>3, FS_Product
<1>. QED
  BY <1>1, <1>4 DEF BlocksOf, n

\* Induction over the subsets of a finite set, with a set in the place of a predicate:
\* a smallest subset that is not good would be.
LEMMA SubsetInduction ==
  ASSUME NEW S, IsFiniteSet(S), NEW Good,
         \A T \in SUBSET S : (\A x \in T : T \ {x} \in Good) => T \in Good
  PROVE  \A T \in SUBSET S : T \in Good
<1>. DEFINE Bad == {T \in SUBSET S : T \notin Good}
<1>. SUFFICES ASSUME Bad # {} PROVE FALSE
  OBVIOUS
<1>1. Bad \subseteq FiniteSubsetsOf(S)
  BY FS_Subset DEF FiniteSubsetsOf
<1>2. \E T \in Bad : \A U \in Bad : ~(<<U, T>> \in StrictSubsetOrdering(S))
  BY <1>1, FS_StrictSubsetOrderingWellFounded, WFMin
<1>3. PICK T \in Bad : \A U \in Bad : ~(<<U, T>> \in StrictSubsetOrdering(S))
  BY <1>2
<1>4. ASSUME NEW x \in T PROVE T \ {x} \in Good
  <2>1. <<T \ {x}, T>> \in StrictSubsetOrdering(S)
    BY DEF StrictSubsetOrdering
  <2>. QED
    BY <1>3, <2>1
<1>. QED
  BY <1>4

LEMMA TotalIsFinite ==
  ASSUME NEW S, IsFiniteSet(S), \A x \in S : Due(x) \in Nat
  PROVE  \A T \in SUBSET S : IsFiniteSet(BlocksDue(T))
<1>. DEFINE Good == {T \in SUBSET S : IsFiniteSet(BlocksDue(T))}
<1>1. ASSUME NEW T \in SUBSET S, \A x \in T : T \ {x} \in Good PROVE T \in Good
  <2>1. CASE T = {}
    BY <2>1, FS_EmptySet DEF BlocksDue
  <2>2. ASSUME NEW x \in T PROVE T \in Good
    <3>1. BlocksDue(T) = BlocksDue(T \ {x}) \cup BlocksOf(x)
      BY DEF BlocksDue, BlocksOf
    <3>2. IsFiniteSet(BlocksOf(x))
      BY BlocksOfOne
    <3>3. T \ {x} \in SUBSET S /\ IsFiniteSet(BlocksDue(T \ {x}))
      BY <1>1
    <3>4. IsFiniteSet(BlocksDue(T))
      BY <3>1, <3>2, <3>3, FS_Union
    <3>. QED
      BY <3>4
  <2>. QED
    BY <2>1, <2>2
<1>. HIDE DEF Good
<1>2. \A T \in SUBSET S : T \in Good
  BY <1>1, SubsetInduction
<1>. QED
  BY <1>2 DEF Good

\* One UE more.
LEMMA TotalOfMore ==
  ASSUME NEW T, IsFiniteSet(T), NEW y, y \notin T, \A x \in T \cup {y} : Due(x) \in Nat
  PROVE  Total(T \cup {y}) = Total(T) + Due(y) /\ Total(T) \in Nat
<1>1. BlocksDue(T \cup {y}) = BlocksDue(T) \cup BlocksOf(y) /\ BlocksDue(T) \cap BlocksOf(y) = {}
  BY DEF BlocksDue, BlocksOf
<1>2. IsFiniteSet(BlocksOf(y)) /\ Cardinality(BlocksOf(y)) = Due(y)
  BY BlocksOfOne
<1>3. IsFiniteSet(BlocksDue(T))
  BY TotalIsFinite
<1>4. Cardinality(BlocksDue(T) \cup BlocksOf(y)) = Cardinality(BlocksDue(T)) + Due(y) - 0
  BY <1>1, <1>2, <1>3, FS_Union, FS_EmptySet
<1>5. Cardinality(BlocksDue(T)) \in Nat
  BY <1>3, FS_CardinalityType
<1>. QED
  BY <1>1, <1>4, <1>5 DEF Total

LEMMA TotalOfNone == Total({}) = 0
<1>1. BlocksDue({}) = {}
  BY DEF BlocksDue
<1>. QED
  BY <1>1, FS_EmptySet DEF Total

LEMMA TotalOfPart ==
  ASSUME NEW S, IsFiniteSet(S), \A x \in S : Due(x) \in Nat, NEW T \in SUBSET S
  PROVE  Total(T) <= Total(S) /\ Total(T) \in Nat /\ Total(S) \in Nat
<1>1. IsFiniteSet(BlocksDue(S)) /\ IsFiniteSet(BlocksDue(T))
  BY TotalIsFinite
<1>2. BlocksDue(T) \subseteq BlocksDue(S)
  BY DEF BlocksDue
<1>. QED
  BY <1>1, <1>2, FS_Subset, FS_CardinalityType DEF Total

\* MapThenSumSet takes the elements of a set one by one, in an order it chooses.
LEMMA SumIsTotal ==
  ASSUME NEW S, IsFiniteSet(S), \A x \in S : Due(x) \in Nat
  PROVE  MapThenSumSet(Due, S) = Total(S)
<1>. DEFINE Pick(s) == CHOOSE x \in s : TRUE
            IsSum(t) == t = [s \in SUBSET S |->
                               IF s = {} THEN 0 ELSE Due(Pick(s)) + t[s \ {Pick(s)}]]
            total == [s \in SUBSET S |-> Total(s)]
<1>1. ASSUME NEW s \in SUBSET S, s # {}
      PROVE  /\ Pick(s) \in s
             /\ Total(s) = Due(Pick(s)) + Total(s \ {Pick(s)})
  <2>1. Pick(s) \in s
    BY <1>1
  <2>. HIDE DEF Pick
  <2>2. s = (s \ {Pick(s)}) \cup {Pick(s)} /\ IsFiniteSet(s \ {Pick(s)})
    BY <2>1, FS_Subset
  <2>3. Due(Pick(s)) \in Nat
    BY <2>1
  <2>. QED
    BY <2>1, <2>2, <2>3, TotalOfMore
<1>. HIDE DEF Pick
<1>2. IsSum(total)
  BY <1>1, TotalOfNone
<1>3. \E t : IsSum(t)
  BY <1>2
<1>4. MapThenSumSet(Due, S) = (CHOOSE t : IsSum(t))[S]
  BY DEF MapThenSumSet, MapThenFoldSet, Pick
<1>5. ASSUME NEW t, IsSum(t) PROVE t[S] = Total(S)
  <2>. DEFINE Good == {s \in SUBSET S : t[s] = Total(s)}
  <2>1. ASSUME NEW s \in SUBSET S, \A x \in s : s \ {x} \in Good PROVE s \in Good
    <3>1. t[s] = IF s = {} THEN 0 ELSE Due(Pick(s)) + t[s \ {Pick(s)}]
      BY <1>5
    <3>2. CASE s = {}
      BY <3>1, <3>2, TotalOfNone
    <3>3. CASE s # {}
      <4>1. t[s \ {Pick(s)}] = Total(s \ {Pick(s)})
        BY <1>1, <2>1, <3>3
      <4>. QED
        BY <1>1, <3>1, <3>3, <4>1
    <3>. QED
      BY <3>2, <3>3
  <2>. HIDE DEF Good
  <2>2. \A s \in SUBSET S : s \in Good
    BY <2>1, SubsetInduction
  <2>. QED
    BY <2>2 DEF Good
<1>. HIDE DEF IsSum
<1>6. IsSum(CHOOSE t : IsSum(t))
  BY <1>3
<1>. QED
  BY <1>4, <1>5, <1>6

-----------------------------------------------------------------------------
(* The room of those still to come.                                        *)

\* No process of the subframe is retransmitted.
Calm == \A ue \in UEs : harq[ue][pid].round = 0

\* Every UE granted blocks was expected.
Expected == \A ue \in ToSet(list) : harq[ue][pid].flag => index[ue] >= 0

Past == ToSet(list) \ ToSet(todo)
OneToOne(s) == \A i, j \in DOMAIN s : s[i] = s[j] => i = j

\* Those that have been passed have not taken more than they were due.
RoomLeft ==
  /\ phase \in {"assign", "share"} /\ Calm => first_rb = Base(occasion)
  /\ phase = "share" => OneToOne(list)
  /\ phase = "grant" => OneToOne(todo)
  /\ phase = "grant" /\ Calm /\ Expected => first_rb <= Base(occasion) + Total(Past)

\* The shares of the list fit the carrier.
SharesFit == Base(occasion) + Total(ToSet(list)) <= N_RB_UL - 1

\* What NotSqueezed says of those that have been granted blocks.
GrantedInFull ==
  phase = "grant" /\ Calm /\ Expected /\ SharesFit =>
    \A ue \in ToSet(list) : harq[ue][pid].flag =>
      \A i \in 0..index[ue] : Allowed(ue, i) => rb_table(i) <= harq[ue][pid].nb

RoomInv == RoomLeft /\ GrantedInFull

LEMMA ListsAreFinite ==
  ASSUME NEW s \in Seq(UEs)
  PROVE  ToSet(s) \subseteq UEs /\ IsFiniteSet(ToSet(s))
<1>1. ToSet(s) \subseteq UEs
  BY DEF ToSet
<1>. QED
  BY <1>1, UlSlicingAssumption, FS_Subset

LEMMA DuesAreNumbers ==
  ASSUME UlTypeOK
  PROVE  \A ue \in UEs : Due(ue) \in Nat /\ share[ue] <= Due(ue)
BY DEF UlTypeOK, Due

\* An order names each UE once, as there are as many places as UEs.
LEMMA OrdersAreOneToOne ==
  ASSUME NEW S, S \subseteq UEs, NEW s \in Orders(S)
  PROVE  OneToOne(s)
<1>1. IsFiniteSet(S)
  BY UlSlicingAssumption, FS_Subset
<1>. DEFINE n == Cardinality(S)
<1>2. n \in Nat
  BY <1>1, FS_CardinalityType
<1>3. s \in [1..n -> S] /\ \A ue \in S : \E i \in DOMAIN s : s[i] = ue
  BY DEF Orders
<1>. HIDE DEF n
<1>4. IsFiniteSet(1..n) /\ Cardinality(1..n) = n
  BY <1>2, FS_Interval
<1>5. s \in Surjection(1..n, S)
  BY <1>3 DEF Surjection
<1>6. s \in Injection(1..n, S)
  BY <1>1, <1>4, <1>5, FS_SurjSameCardinalityImpliesInj DEF n
<1>. QED
  BY <1>3, <1>6 DEF Injection, IsInjective, OneToOne

\* The UE that is next does not come again.
LEMMA NextComesOnce ==
  ASSUME NEW s \in Seq(UEs), s # <<>>, OneToOne(s)
  PROVE  Head(s) \notin ToSet(Tail(s)) /\ OneToOne(Tail(s))
<1>1. Len(s) \in Nat /\ Len(s) >= 1 /\ DOMAIN s = 1..Len(s) /\ Head(s) = s[1]
  OBVIOUS
<1>2. /\ DOMAIN Tail(s) = 1..(Len(s) - 1)
      /\ \A i \in 1..(Len(s) - 1) : Tail(s)[i] = s[i + 1]
  OBVIOUS
<1>3. \A i \in 1..(Len(s) - 1) : i + 1 \in DOMAIN s /\ i + 1 # 1
  BY <1>1
<1>. QED
  BY <1>1, <1>2, <1>3 DEF OneToOne, ToSet

\* A step that leaves the pass, its lists and its processes alone.
LEMMA RoomWhenUntouched ==
  ASSUME RoomInv,
         UNCHANGED <<phase, pid, list, todo, occasion, first_rb, nb, share, index>>,
         phase # "idle" => \A ue \in UEs : harq'[ue][pid] = harq[ue][pid],
         list \in Seq(UEs)
  PROVE  RoomInv'
<1>1. ToSet(list) \subseteq UEs
  BY ListsAreFinite
<1>2. \A T : Total(T)' = Total(T)
  BY DEF Total, BlocksDue, Due
<1>. HIDE DEF Total
<1>3. phase # "idle" => (Calm' <=> Calm) /\ (Expected' <=> Expected)
  BY <1>1 DEF Calm, Expected
<1>4. Past' = Past /\ ToSet(list)' = ToSet(list)
  BY DEF Past
<1>5. SharesFit' <=> SharesFit
  BY <1>2 DEF SharesFit, Base
<1>6. RoomLeft'
  BY <1>2, <1>3, <1>4 DEF RoomInv, RoomLeft, Base
<1>7. GrantedInFull'
  BY <1>1, <1>3, <1>5 DEF RoomInv, GrantedInFull, Allowed
<1>. QED
  BY <1>6, <1>7 DEF RoomInv

\* The passes before the grants: what is ahead of first_rb is only what the subframe
\* keeps for others, and the list has each UE once.
LEMMA RoomOfPasses ==
  ASSUME UlTypeOK, ShareInv, RoomInv,
         \/ \E o \in Occasions : StartUl(o)
         \/ \E ue \in UEs : AssignMinRb(ue) \/ ApplyShare(ue)
         \/ SortUes \/ StartGrants
  PROVE  RoomInv'
<1>1. ASSUME NEW o \in Occasions, StartUl(o) PROVE RoomInv'
  <2>. DEFINE p == (pid + 1) % NPids
  <2>1. /\ phase' = "assign" /\ pid' = p /\ harq' = harq /\ occasion' = o
        /\ first_rb' \in Ends(p, Base(o))
    BY <1>1 DEF StartUl
  <2>. HIDE DEF p
  <2>2. Calm' => first_rb' = Base(o)
    <3>1. Calm' => {v \in UEs : harq[v][p].round > 0} = {}
      BY <2>1 DEF Calm
    <3>. QED
      BY <2>1, <3>1 DEF Ends
  <2>3. Base(occasion)' = Base(o)
    BY <2>1 DEF Base
  <2>. QED
    BY <2>1, <2>2, <2>3 DEF RoomInv, RoomLeft, GrantedInFull
<1>2. ASSUME NEW ue \in UEs, AssignMinRb(ue) \/ ApplyShare(ue) PROVE RoomInv'
  <2>1. /\ phase \in {"assign", "share"}
        /\ UNCHANGED <<phase, pid, list, harq, first_rb, occasion>>
    BY <1>2 DEF AssignMinRb, ApplyShare
  <2>. QED
    BY <2>1 DEF RoomInv, RoomLeft, GrantedInFull, Calm, Base
<1>3. CASE SortUes
  <2>1. /\ phase = "assign" /\ phase' = "share" /\ UNCHANGED <<pid, harq, first_rb, occasion>>
        /\ list' \in Orders(sync)
    BY <1>3 DEF SortUes
  <2>2. OneToOne(list)'
    BY <2>1, OrdersAreOneToOne DEF UlTypeOK
  <2>. QED
    BY <2>1, <2>2 DEF RoomInv, RoomLeft, GrantedInFull, Calm, Base
<1>4. CASE StartGrants
  <2>1. /\ phase = "share" /\ phase' = "grant" /\ todo' = list
        /\ UNCHANGED <<pid, list, harq, first_rb, occasion>>
    BY <1>4 DEF StartGrants
  <2>2. list \in Seq(UEs) /\ ToSet(list) \subseteq UEs
    BY ListsAreFinite DEF UlTypeOK
  <2>3. \A ue \in ToSet(list) : ~harq[ue][pid].flag
    BY <2>1, <2>2 DEF ShareInv, SharesApplied
  <2>4. Past' = {}
    BY <2>1 DEF Past
  <2>5. Total(Past)' = 0
    <3>1. BlocksDue(Past)' = {}
      BY <2>4 DEF BlocksDue
    <3>. QED
      BY <3>1, FS_EmptySet DEF Total
  <2>6. (Calm' <=> Calm) /\ Base(occasion)' = Base(occasion) /\ Base(occasion) \in Nat
    BY <2>1 DEF Calm, Base
  <2>7. RoomLeft'
    BY <2>1, <2>5, <2>6 DEF RoomInv, RoomLeft, OneToOne
  <2>8. GrantedInFull'
    BY <2>1, <2>3 DEF GrantedInFull
  <2>. QED
    BY <2>7, <2>8 DEF RoomInv
<1>. QED
  BY <1>1, <1>2, <1>3, <1>4

\* rb_table ascends.
LEMMA RbTableAscends ==
  ASSUME NEW i \in Indices, NEW k \in Indices, i <= k
  PROVE  rb_table(i) <= rb_table(k)
BY DEF rb_table, RbTable, Indices

\* The grants: a UE that is next finds the room of its share, and takes what it can of it.
LEMMA RoomOfGrants ==
  ASSUME UlTypeOK, ShareInv, RoomInv, NEW ue \in UEs,
         SkipUl(ue) \/ Retransmit(ue) \/ GrantNew(ue)
  PROVE  RoomInv'
<1>1. /\ phase = "grant" /\ todo # <<>> /\ ue = Head(todo) /\ todo' = Tail(todo)
      /\ UNCHANGED <<phase, pid, list, occasion, nb, share, index>>
  BY DEF SkipUl, Retransmit, GrantNew, preVars, IsNext
<1>2. /\ list \in Seq(UEs) /\ todo \in Seq(UEs) /\ pid \in Pids /\ first_rb \in Nat
      /\ index \in [UEs -> -1..32] /\ nb \in [UEs -> Nat]
  BY DEF UlTypeOK
<1>3. ToSet(list) \subseteq UEs /\ IsFiniteSet(ToSet(list)) /\ ToSet(todo) \subseteq ToSet(list)
  BY <1>1, <1>2, ListsAreFinite DEF ShareInv, SharesApplied
<1>4. /\ ToSet(todo) = {ue} \cup ToSet(Tail(todo)) /\ ue \notin ToSet(Tail(todo))
      /\ OneToOne(todo')
  BY <1>1, <1>2, HeadAndTail, NextComesOnce DEF RoomInv, RoomLeft
<1>5. Past' = Past \cup {ue} /\ ue \notin Past /\ ue \in ToSet(list)
  BY <1>1, <1>3, <1>4 DEF Past
<1>6. \A T : Total(T)' = Total(T)
  BY <1>1 DEF Total, BlocksDue, Due
<1>7. Due(ue) \in Nat /\ Total(Past) \in Nat /\ Total(ToSet(list)) \in Nat
      /\ Total(Past') = Total(Past) + Due(ue) /\ Total(Past') <= Total(ToSet(list))
  <2>1. \A v \in ToSet(list) : Due(v) \in Nat
    BY <1>3, DuesAreNumbers
  <2>2. Past \subseteq ToSet(list) /\ IsFiniteSet(Past) /\ Past \cup {ue} \subseteq ToSet(list)
    BY <1>3, <1>5, FS_Subset DEF Past
  <2>. HIDE DEF Past
  <2>3. Due(ue) \in Nat /\ Total(Past \cup {ue}) = Total(Past) + Due(ue) /\ Total(Past) \in Nat
    BY <1>5, <2>1, <2>2, TotalOfMore
  <2>4. Total(Past \cup {ue}) <= Total(ToSet(list)) /\ Total(ToSet(list)) \in Nat
    BY <1>3, <2>1, <2>2, TotalOfPart
  <2>. QED
    BY <1>5, <2>3, <2>4
<1>. HIDE DEF Past, Total
<1>8. Base(occasion)' = Base(occasion) /\ Base(occasion) \in Nat /\ (SharesFit' <=> SharesFit)
  BY <1>1, <1>6 DEF Base, SharesFit
<1>9. Past' = Past \cup {ue} => Total(Past)' = Total(Past) + Due(ue)
  BY <1>5, <1>6, <1>7
<1>10. CASE SkipUl(ue) \/ Retransmit(ue)
  <2>1. harq' = harq /\ first_rb' = first_rb
    BY <1>10 DEF SkipUl, Retransmit
  <2>2. (Calm' <=> Calm) /\ (Expected' <=> Expected)
    BY <1>1, <2>1 DEF Calm, Expected
  <2>3. RoomLeft'
    BY <1>1, <1>2, <1>4, <1>5, <1>7, <1>8, <1>9, <2>1, <2>2 DEF RoomInv, RoomLeft
  <2>4. GrantedInFull'
    BY <1>1, <1>8, <2>1, <2>2 DEF RoomInv, GrantedInFull, Allowed
  <2>. QED
    BY <2>3, <2>4 DEF RoomInv
<1>11. CASE GrantNew(ue)
  <2>1. PICK i \in Indices :
          /\ Reduced(ue, i)
          /\ first_rb' = first_rb + rb_table(i)
          /\ harq' = [harq EXCEPT ![ue][pid] = Fresh(rb_table(i))]
    BY <1>11 DEF GrantNew, Fresh
  <2>2. /\ harq[ue][pid].round = 0
        /\ harq'[ue][pid] = Fresh(rb_table(i))
        /\ \A v \in UEs \ {ue} : harq'[v][pid] = harq[v][pid]
    BY <1>2, <1>11, <2>1 DEF GrantNew, UlTypeOK
  <2>3. harq'[ue][pid].flag /\ harq'[ue][pid].nb = rb_table(i)
    BY <2>2 DEF Fresh
  <2>4. Calm' => Calm
    BY <1>1, <2>2 DEF Calm
  <2>5. Expected' => Expected /\ index[ue] >= 0
    BY <1>1, <1>3, <1>5, <2>2, <2>3 DEF Expected
  <2>6. index[ue] >= 0 => rb_table(i) <= Due(ue)
    BY <1>11, <2>3, GrantNewWithinShare
  <2>7. rb_table(i) \in Nat /\ first_rb' = first_rb + rb_table(i)
    BY <2>1, RbTableIsPositive
  <2>8. RoomLeft'
    BY <1>1, <1>2, <1>4, <1>5, <1>7, <1>8, <1>9, <2>4, <2>5, <2>6, <2>7 DEF RoomInv, RoomLeft
  <2>9. ASSUME Calm', Expected', SharesFit',
               NEW k \in 0..index[ue], Allowed(ue, k)
        PROVE  rb_table(k) <= rb_table(i)
    <3>1. first_rb + Due(ue) <= N_RB_UL - 1
      BY <1>1, <1>2, <1>5, <1>7, <1>8, <2>4, <2>5, <2>9, Numbers
         DEF RoomInv, RoomLeft, SharesFit
    <3>0. index[ue] \in 0..32 /\ k \in 0..index[ue] /\ k \in Indices
      <4>1. index[ue] \in -1..32 /\ index[ue] >= 0
        BY <1>2, <2>5, <2>9
      <4>. QED
        BY <2>9, <4>1 DEF Indices
    <3>2. rb_table(k) <= nb[ue] /\ rb_table(k) <= 45 /\ rb_table(k) \in Nat
      BY <2>9, <3>0, RbTableIsPositive DEF Allowed
    <3>3. nb[ue] <= share[ue]
      BY <1>1, <1>5, <2>2 DEF ShareInv, SharesApplied, Passed
    <3>4. rb_table(k) <= Due(ue)
      BY <1>2, <3>2, <3>3, DuesAreNumbers DEF UlTypeOK
    <3>5. GrantFits(ue, k)
      BY <1>2, <1>7, <3>1, <3>2, <3>4, Numbers DEF GrantFits, Room
    <3>6. k <= i
      BY <2>1, <3>0, <3>5 DEF Reduced, From, Indices
    <3>. QED
      BY <3>0, <3>6, RbTableAscends
  <2>10. GrantedInFull'
    <3>. SUFFICES ASSUME Calm', Expected', SharesFit', NEW v \in ToSet(list), harq'[v][pid].flag,
                         NEW k \in 0..index[v], Allowed(v, k)
                  PROVE  rb_table(k) <= harq'[v][pid].nb
      BY <1>1 DEF GrantedInFull, Allowed
    <3>1. CASE v = ue
      BY <2>3, <2>9, <3>1
    <3>2. CASE v # ue
      <4>1. harq'[v][pid] = harq[v][pid]
        BY <1>3, <2>2, <3>2
      <4>. QED
        BY <1>1, <1>8, <2>4, <2>5, <4>1 DEF RoomInv, GrantedInFull
    <3>. QED
      BY <3>1, <3>2
  <2>. QED
    BY <2>8, <2>10 DEF RoomInv
<1>. QED
  BY <1>10, <1>11

\* A reception touches no process of the subframe being scheduled.
LEMMA RoomOfReceive ==
  ASSUME UlTypeOK, RoomInv,
         NEW ue \in UEs, NEW p \in Pids, NEW ok \in BOOLEAN, Receive(ue, p, ok)
  PROVE  RoomInv'
<1>1. /\ phase = "idle" \/ p # pid
      /\ harq' = [harq EXCEPT ![ue][p] = Received(harq[ue][p], ok)]
      /\ UNCHANGED <<phase, pid, list, todo, occasion, first_rb, nb, share, index>>
  BY DEF Receive, passVars, preVars
<1>2. phase # "idle" => \A v \in UEs : harq'[v][pid] = harq[v][pid]
  BY <1>1 DEF UlTypeOK
<1>. QED
  BY <1>1, <1>2, RoomWhenUntouched DEF UlTypeOK

\* Every step keeps the room.
LEMMA RoomKept ==
  ASSUME UlTypeOK, ShareInv, RoomInv, [UlNext]_ulVars
  PROVE  RoomInv'
<1>1. list \in Seq(UEs)
  BY DEF UlTypeOK
<1>2. CASE UNCHANGED ulVars
  BY <1>1, <1>2, RoomWhenUntouched DEF ulVars, passVars, preVars
<1>3. CASE StoreStep
  BY <1>1, <1>3, RoomWhenUntouched DEF StoreStep, passVars, preVars
<1>4. ASSUME NEW ue \in UEs, UlSchedule(ue) PROVE RoomInv'
  BY <1>4, RoomOfPasses, RoomOfGrants DEF UlSchedule
<1>5. CASE EndUl
  <2>1. phase' = "idle"
    BY <1>5 DEF EndUl
  <2>. QED
    BY <2>1 DEF RoomInv, RoomLeft, GrantedInFull
<1>6. ASSUME NEW ue \in UEs, Request(ue) \/ LoseSync(ue) \/ RegainSync(ue)
      PROVE  RoomInv'
  BY <1>1, <1>6, RoomWhenUntouched DEF Request, LoseSync, RegainSync, passVars, preVars
<1>. QED
  BY <1>2, <1>3, <1>4, <1>5, <1>6, RoomOfPasses, RoomOfReceive DEF UlNext

\* If the shares that have been read fit the carrier, and no retransmission, PRACH or
\* unexpected request takes room, a UE gets what its share and need allow, whichever
\* the order of the list: those still to come find the room of their shares.
THEOREM NobodyIsSqueezed == UlSpec => []NotSqueezed
<1>1. UlInit => ShareInv /\ RoomInv
  BY DEF UlInit, ShareInv, SharesApplied, GrantWithinShare, Passed, RoomInv, RoomLeft,
         GrantedInFull
<1>2. ASSUME UlTypeOK, ShareInv, RoomInv PROVE NotSqueezed
  <2>. SUFFICES ASSUME Undisturbed
                PROVE  /\ \A ue \in ToSet(list) : harq[ue][pid].flag =>
                            \A i \in 0..index[ue] : Allowed(ue, i) => rb_table(i) <= harq[ue][pid].nb
                       /\ \A ue \in ToSet(todo) : first_rb + Due(ue) <= N_RB_UL - 1
    BY DEF NotSqueezed
  <2>1. /\ list \in Seq(UEs) /\ first_rb \in Nat /\ ToSet(list) \subseteq UEs
        /\ IsFiniteSet(ToSet(list))
    BY <1>2, ListsAreFinite DEF UlTypeOK
  <2>2. \A ue \in ToSet(list) : Due(ue) \in Nat
    BY <1>2, <2>1, DuesAreNumbers
  <2>3. MapThenSumSet(Due, ToSet(list)) = Total(ToSet(list))
    BY <2>1, <2>2, SumIsTotal
  <2>4. phase = "grant" /\ Calm /\ Expected /\ SharesFit
    BY <2>3 DEF Undisturbed, Calm, Expected, SharesFit
  <2>5. ASSUME NEW ue \in ToSet(todo) PROVE first_rb + Due(ue) <= N_RB_UL - 1
    <3>1. ue \in ToSet(list) /\ ue \notin Past /\ Past \cup {ue} \subseteq ToSet(list)
      BY <1>2, <2>4 DEF ShareInv, SharesApplied, Past
    <3>2. IsFiniteSet(Past)
      BY <2>1, <3>1, FS_Subset
    <3>3. Total(Past \cup {ue}) = Total(Past) + Due(ue) /\ Total(Past) \in Nat
      BY <2>2, <3>1, <3>2, TotalOfMore
    <3>4. Total(Past \cup {ue}) <= Total(ToSet(list)) /\ Total(ToSet(list)) \in Nat
      BY <2>1, <2>2, <3>1, TotalOfPart
    <3>5. first_rb <= Base(occasion) + Total(Past) /\ Base(occasion) \in Nat
      BY <1>2, <2>4 DEF RoomInv, RoomLeft, Base
    <3>. QED
      BY <2>1, <2>2, <2>4, <3>1, <3>3, <3>4, <3>5, Numbers DEF SharesFit
  <2>. QED
    BY <1>2, <2>4, <2>5 DEF RoomInv, GrantedInFull
<1>. QED
  BY <1>1, <1>2, UlTypesInitially, UlTypesKept, SharesKept, RoomKept, PTL DEF UlSpec
=============================================================================
