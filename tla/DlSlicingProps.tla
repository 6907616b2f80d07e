--------------------------- MODULE DlSlicingProps ---------------------------
(***************************************************************************)
(* What the downlink allocation promises the slices, and the HARQ          *)
(* processes of their UEs.                                                 *)
(***************************************************************************)
EXTENDS DlSlicing, FiniteSetsExt

\* No two UEs are sent to on the same resource blocks of a subframe, nor any on
\* blocks of a common channel, whatever the hypervisor stores to the table
\* while dlsch_my_scheduler_pre_processor reads it.
TransmissionsDisjoint ==
  \A ue \in UEs :
    /\ dci[ue].groups \cap reserved = {}
    /\ \A v \in UEs \ {ue} : dci[ue].groups \cap dci[v].groups = {}

\* Why: what a UE is sent is part of what it was granted, and grants are taken
\* out of what is free.
GrantsDisjoint ==
  /\ reserved \subseteq taken
  /\ \A ue \in UEs :
       /\ granted[ue] \subseteq taken
       /\ granted[ue] \cap reserved = {}
       /\ dci[ue].groups \subseteq granted[ue]
       /\ \A v \in UEs \ {ue} : granted[ue] \cap granted[v] = {}
       /\ phase = "idle" => granted[ue] = {}
       /\ phase = "thor" /\ ue \in todo => granted[ue] = {}

\* Groups that cover `need` blocks.
GroupsFor(need) == (need + Unit - 1) \div Unit

\* The isolation of slices: when the shares read for the UEs fit the carrier, a
\* UE gets the groups of its share, less those of common channels, or what it
\* needs - however much the UEs before it in the list ask for - and never more
\* than its share.
SharesAreIsolated ==
  phase = "sched" =>
    \A ue \in UEs :
      /\ Cardinality(granted[ue]) <= share[ue]
      /\ start <= N_RBG /\ ue \in sync /\ required[ue] > 0 =>
           LET due == share[ue] - Cardinality(reserved)
           IN  \/ Cardinality(granted[ue]) >= due
               \/ Cardinality(granted[ue]) >= GroupsFor(required[ue])

\* rballoc_sub is not used beyond its end (the comment at pre_processor.c:1224:
\* the loop runs until the need is met "or over_index").
IndexInRange == ~overrun

\* allocate_prbs_sub finds the groups a transmission claims, counted as whole
\* groups, for new data and retransmissions and however the table changed since
\* the first transmission - but for two things: the 4 blocks of MCS 0 may be more
\* than was granted, and groups of a band beyond the carrier are counted although
\* the bitmap has no place for them.
ClaimsCovered ==
  \A ue \in UEs :
    \/ dci[ue].nb_rb <= Unit * (Cardinality(dci[ue].groups)
                                + Cardinality(granted[ue] \ Groups))
    \/ dci[ue].nb_rb = 4 /\ PreNb(ue) < 4

\* A retransmission is sent on as many blocks as the first transmission of its
\* data: the UE combines the two only if the transport block has one size.
RetransmissionKeepsSize ==
  \A ue \in UEs :
    harq[ue][pid].round > 0 /\ dci[ue] # NoDci =>
      Prbs(dci[ue].groups) = harq[ue][pid].size

-----------------------------------------------------------------------------
Fits(ue, p) == harq[ue][p].nb_rb <= Unit * Share(ue)

\* A NACKed transport block is retransmitted until it is acknowledged or its
\* rounds are used up, as long as the slice of the UE stays wide enough for it
\* and the UE in sync: "don't schedule UE, its retransmission takes more
\* resources than we have" (eNB_scheduler_dlsch.c:818) does not go on for ever.
RetransmissionServed ==
  \A ue \in UEs, p \in Pids :
    (harq[ue][p].round > 0) ~>
      (harq[ue][p].round = 0 \/ ~Fits(ue, p) \/ ue \notin sync)

\* What runs is scheduled: the MAC thread finishes a subframe and the PHY
\* evaluates each feedback.  Every process keeps getting subframes without
\* common channels, and a retransmission that is tried again and again finds
\* control channel elements some time.
FairDlSpec ==
  /\ DlSpec
  /\ \A ue \in UEs : WF_dlVars(ThorAllocate(ue)) /\ WF_dlVars(Schedule(ue))
  /\ WF_dlVars(EndTTI)
  /\ \A ue \in UEs, p \in Pids : WF_dlVars(Ack(ue, p) \/ Nack(ue, p))
  /\ \A p \in Pids : SF_dlVars(Start({}) /\ pid' = p)
  /\ \A ue \in UEs, p \in Pids : SF_dlVars(SendRetransmission(ue) /\ pid = p)
=============================================================================
