--------------------------- MODULE UlSlicingProps ---------------------------
(***************************************************************************)
(* What the uplink allocation promises the slices and the UEs.             *)
(***************************************************************************)
EXTENDS UlSlicing, SequencesExt

\* Something is, or will be, sent on the blocks of the process.
OnAir(ue, p) == harq[ue][p].flag \/ harq[ue][p].round > 0

\* Processes of one subframe are never sent on common blocks: new grants
\* (schedule_ulsch_rnti) avoid each other and the retransmissions, which stay
\* where the grants of earlier subframes put them, however many rounds ago.
UlDisjoint ==
  \A p \in Pids, ue, v \in UEs :
    ue # v /\ OnAir(ue, p) /\ OnAir(v, p) => Blocks(ue, p) \cap Blocks(v, p) = {}

\* Why: while grants are made, every process on the air ends before first_rb, so
\* that the next grant starts beyond all of them.
EndsBeforeFirst ==
  phase # "idle" => \A ue \in UEs : OnAir(ue, pid) => End(ue, pid) <= first_rb

\* PUCCH keeps the two ends of the carrier, and a new grant keeps off PRACH.
GrantsAvoidControl ==
  /\ \A ue \in UEs, p \in Pids : OnAir(ue, p) => Blocks(ue, p) \subseteq 1..(N_RB_UL - 2)
  /\ phase = "grant" /\ occasion.prach =>
       \A ue \in UEs : harq[ue][pid].flag => Blocks(ue, pid) \cap 0..7 = {}

\* A slice without blocks still has one.
Due(ue) == IF share[ue] = 0 THEN 1 ELSE share[ue]

\* The slice limits every new grant, whatever the UE reports and whichever value
\* the hypervisor stores meanwhile.  The exception is a request that arrives
\* after the pre-processor has passed the UE: six blocks "for PHR".
GrantWithinShare ==
  phase = "grant" =>
    \A ue \in UEs : harq[ue][pid].flag =>
      harq[ue][pid].nb <= IF index[ue] >= 0 THEN Due(ue) ELSE 6

\* The shares the pass has read fit the carrier, and nothing else takes room.
Undisturbed ==
  /\ phase = "grant" /\ ~occasion.prach
  /\ \A ue \in UEs : harq[ue][pid].round = 0
  /\ \A ue \in ToSet(list) : harq[ue][pid].flag => index[ue] >= 0
  /\ Base(occasion) + MapThenSumSet(Due, ToSet(list)) <= N_RB_UL - 1

\* A size of rb_table that the PHY can transmit and the UE's pre-allocation allows.
Allowed(ue, i) == rb_table(i) <= 45 /\ rb_table(i) <= nb[ue]

\* The isolation of slices: if the shares fit the carrier, a UE that is granted
\* blocks gets the most that its own share and need allow, whoever was served
\* before it, and those still to come find the room of their shares.
NotSqueezed ==
  Undisturbed =>
    /\ \A ue \in ToSet(list) : harq[ue][pid].flag =>
         \A i \in 0..index[ue] : Allowed(ue, i) => rb_table(i) <= harq[ue][pid].nb
    /\ \A ue \in ToSet(todo) : first_rb + Due(ue) <= N_RB_UL - 1

\* The block of Msg3: fill_rar encodes RIV 26.
Msg3Blocks == (26 % N_RB_UL)..((26 % N_RB_UL) + 26 \div N_RB_UL)

\* "check if RA (Msg3) is active in this subframeP, if so skip the PRBs used for
\* Msg3" (eNB_scheduler_ulsch.c:657): no new grant has a block of Msg3.
GrantsAvoidMsg3 ==
  phase = "grant" /\ occasion.msg3 =>
    \A ue \in UEs : harq[ue][pid].flag => Blocks(ue, pid) \cap Msg3Blocks = {}

-----------------------------------------------------------------------------
Granted(ue) == phase = "grant" /\ harq[ue][pid].flag

\* A UE that stays in sync is granted blocks again and again, although a
\* retransmission resets its request without a grant (ul_SR = 0), blocks of
\* other UEs' retransmissions are skipped with all before them, and its slice
\* may be narrower than what its buffer calls for.
RequestServed ==
  \A ue \in UEs : <>[](ue \in sync) => []<>Granted(ue)

\* The MAC thread finishes a subframe and the PHY receives; a UE that is not
\* granted anything asks again, or its inactivity timer does.  Each process gets
\* subframes without PRACH and Msg3, and a UE whose turn comes again and again
\* finds control channel elements some time.
FairUlSpec ==
  /\ UlSpec
  /\ \A ue \in UEs : WF_ulVars(AssignMinRb(ue)) /\ WF_ulVars(ApplyShare(ue))
  /\ \A ue \in UEs : WF_ulVars(SkipUl(ue)) /\ WF_ulVars(Request(ue))
  /\ WF_ulVars(SortUes) /\ WF_ulVars(StartGrants) /\ WF_ulVars(EndUl)
  /\ \A ue \in UEs, p \in Pids : WF_ulVars(\E ok \in BOOLEAN : Receive(ue, p, ok))
  /\ \A p \in Pids : SF_ulVars(StartUl(Plain) /\ pid' = p)
  /\ \A ue \in UEs : SF_ulVars(GrantNew(ue))
=============================================================================
