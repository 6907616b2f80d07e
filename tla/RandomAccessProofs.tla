-------------------------- MODULE RandomAccessProofs --------------------------
(* Who owns a slot of the PHY, for every number of templates, UEs and RNTIs. *)
EXTENDS RandomAccessProps, FiniteSetTheorems, WellFoundedInduction, TLAPS

Threads == {"modem", "rrc"}

\* Nothing above the PHY has heard of the RNTI yet.
Unheard(r) ==
  /\ ~Known(r) /\ context[r] = "none" /\ r \notin {rrc.new, rrc.old}
  /\ \A k \in 1..Len(requests) : requests[k] # r
  /\ ~RemovalOf(r)

\* The UE of a template is in the list, or just being removed.
Gone(t, r) == removal[t].rnti = r /\ removal[t].at \in {"phy", "clear"}
Backed(r) == Known(r) \/ \E t \in Threads : Gone(t, r)
Flagged(i) == RA_template[i].generate_Msg4 \/ RA_template[i].wait_ack_Msg4

\* Distinct templates, slots and UEs have distinct RNTIs.
Distinct ==
  /\ \A i, j \in Procs :
       RA_template[i].rnti = RA_template[j].rnti /\ RA_template[i].rnti # NoRnti => i = j
  /\ \A s, q \in Users :
       UE_stats[s].crnti = UE_stats[q].crnti /\ UE_stats[s].crnti # NoRnti => s = q
  /\ \A u, v \in Users : UE_list[u] = UE_list[v] /\ UE_list[u] # NoRnti => u = v

\* A template waits for its response with an RNTI that is new; afterwards it goes on for
\* a UE that MAC knows.
Templates ==
  /\ \A i \in Procs : RA_template[i].generate_rar => RA_template[i].RA_active
  /\ \A i \in Procs \ {drawing} : RA_template[i].generate_rar =>
       LET r == RA_template[i].rnti IN r # NoRnti /\ Unheard(r) /\ SlotsOf(r) = {}
  /\ \A i \in Procs : Flagged(i) => i # drawing /\ Backed(RA_template[i].rnti)

\* A slot that expects Msg3 belongs to a procedure. One that has received it belongs to a
\* UE, or still to its procedure when Msg3 had nothing to say to MAC.
Procedure(r) ==
  {i \in Procs \ {drawing} : LET p == RA_template[i] IN p.RA_active /\ ~p.generate_rar /\ p.rnti = r}
Slots ==
  \A s \in Users : LET r == UE_stats[s].crnti IN r # NoRnti =>
    \/ Unheard(r) /\ Procedure(r) # {}
    \/ UE_stats[s].msg3 = Msg3Done /\ (Known(r) \/ RemovalOf(r))

\* rrc_mac_remove_ue in two threads, each for another UE.
Removals ==
  /\ \A t \in Threads : removal[t].at # "none" =>
       LET r == removal[t].rnti IN
       /\ r # NoRnti
       /\ removal[t].at = "drop" => UE_list[removal[t].id] = r
       /\ removal[t].at \in {"phy", "clear"} => ~Known(r)
       /\ removal[t].at = "clear" => SlotsOf(r) = {}
  /\ removal["modem"].at # "none" => modem.at \in {"remove", "free"}
  /\ \A t, v \in Threads : t # v /\ removal[t].at # "none" /\ removal[v].at # "none"
       => removal[t].rnti # removal[v].rnti

\* The modem thread is in the midst of a procedure.
InProcedure ==
  modem.at \in {"flag", "msg4"} =>
    /\ modem.of \in Procs \ {drawing}
    /\ LET p == RA_template[modem.of] IN p.RA_active /\ ~p.generate_rar /\ Backed(p.rnti)

Ownership == Distinct /\ Templates /\ Slots /\ Removals /\ InProcedure

RaInv ==
  /\ RaTypeOK /\ SlotForEveryUe /\ AbortOnlyWhileRemoving
  /\ Running => Ownership

-----------------------------------------------------------------------------
(* Numbers, and the first of a set of them.                                *)

LEMMA Numbers ==
  /\ Procs \subseteq Nat \ {0} /\ 1 \in Procs /\ Users \subseteq Nat \ {0} /\ 1 \in Users
  /\ Rntis \subseteq Nat /\ NoRnti \notin Rntis /\ NoRnti \in Nat
  /\ Msg3Done \in Nat \ {0} /\ 0 \in 0..maxHARQ_Msg3Tx /\ Msg3Done \in 0..maxHARQ_Msg3Tx
BY RaAssumption DEF Procs, Users, NoRnti, Msg3Done

LEMMA FirstIsMember ==
  ASSUME NEW S \in SUBSET Nat, S # {}
  PROVE  First(S) \in S
<1>1. \E x \in S : \A y \in S : ~(<<y, x>> \in OpToRel(<, Nat))
  BY NatLessThanWellFounded, WFMin
<1>2. PICK x \in S : \A y \in S : ~(<<y, x>> \in OpToRel(<, Nat))
  BY <1>1
<1>3. \A y \in S : ~(y < x)
  BY <1>2 DEF OpToRel
<1>4. \A y \in S : x <= y
  BY <1>3
<1> QED BY <1>4 DEF First

LEMMA FirstProc == ASSUME NEW S \in SUBSET Procs, S # {} PROVE First(S) \in S
BY FirstIsMember, Numbers

LEMMA FirstUser == ASSUME NEW S \in SUBSET Users, S # {} PROVE First(S) \in S
BY FirstIsMember, Numbers

-----------------------------------------------------------------------------
(* Types.                                                                  *)

Template == [RA_active : BOOLEAN, generate_rar : BOOLEAN, generate_Msg4 : BOOLEAN,
             wait_ack_Msg4 : BOOLEAN, rnti : Rntis \cup {NoRnti}]
PhySlot == [crnti : Rntis \cup {NoRnti}, msg3 : 0..maxHARQ_Msg3Tx]
Places == {"idle", "flag", "ra", "msg4", "rar", "remove", "free"}

\* The parts of RaTypeOK, by what changes together.
TemplateTypes ==
  /\ RA_template \in [Procs -> Template]
  /\ drawing \in Procs \cup {0} /\ preambles \in 0..MaxPreambles
UserTypes ==
  /\ UE_stats \in [Users -> PhySlot] /\ UE_list \in [Users -> Rntis \cup {NoRnti}]
  /\ removal \in [Threads -> [at : {"none", "look", "drop", "phy", "clear"},
                              rnti : Rntis \cup {NoRnti}, id : Users]]
ModemTypes ==
  /\ modem \in [at : Places, of : Nat] /\ dlsch_ra \in BOOLEAN
  /\ fate \in {"running", "aborted", "full", "collided", "misdirected", "raced"}
RrcTypes ==
  /\ requests \in Seq(Rntis) /\ Tx_buffer \in Rntis \cup {NoRnti}
  /\ context \in [Rntis -> {"none", "release", "up", "failure"}]
  /\ rrc \in [new : Rntis \cup {NoRnti}, old : Rntis \cup {NoRnti}]

LEMMA RaTypesByPart ==
  RaTypeOK <=> TemplateTypes /\ UserTypes /\ ModemTypes /\ RrcTypes
BY DEF RaTypeOK, TemplateTypes, UserTypes, ModemTypes, RrcTypes, Template, PhySlot, Places,
       Threads

LEMMA CancelledType ==
  ASSUME TemplateTypes, NEW r
  PROVE  Cancelled(r) \in [Procs -> Template]
BY DEF TemplateTypes, Cancelled, Template, Idle

LEMMA VacatedType ==
  ASSUME UserTypes, NEW r
  PROVE  Vacated(r) \in [Users -> PhySlot]
<1>1. Free \in PhySlot
  BY Numbers DEF Free, PhySlot
<1> QED BY <1>1 DEF UserTypes, Vacated

LEMMA TemplateTypesKept == RaTypeOK /\ RaNext => TemplateTypes'
<1> SUFFICES ASSUME TemplateTypes, ModemTypes, RaNext PROVE TemplateTypes'
  BY RaTypesByPart
<1>1. CASE Initiate
  <2> DEFINE i == First(Available)
  <2>1. i \in Procs
    BY <1>1, FirstProc DEF Initiate, Available
  <2>2. preambles' \in 0..MaxPreambles
    BY <1>1, RaAssumption DEF Initiate, TemplateTypes
  <2>3. /\ drawing' = i
        /\ RA_template' = [RA_template EXCEPT ![i] =
             [Idle EXCEPT !.RA_active = TRUE, !.generate_rar = TRUE,
                          !.rnti = RA_template[i].rnti]]
    BY <1>1 DEF Initiate
  <2> HIDE DEF i
  <2> QED BY <2>1, <2>2, <2>3 DEF TemplateTypes, Template, Idle
<1>2. ASSUME NEW r \in Rntis, Draw(r) PROVE TemplateTypes'
  BY <1>2, Numbers DEF Draw, TemplateTypes, Template
<1>3. ASSUME NEW t \in Threads, ClearProcs(t) PROVE TemplateTypes'
  BY <1>3, CancelledType DEF ClearProcs, TemplateTypes, prachVars
<1>4. ASSUME NEW r, UNCHANGED prachVars, RA_template' \in {RA_template, Cancelled(r)}
      PROVE  TemplateTypes'
  BY <1>4, CancelledType DEF TemplateTypes, prachVars
<1>5. ASSUME NEW s \in Users, ReceiveMsg3(s) PROVE TemplateTypes'
  BY <1>4, <1>5 DEF ReceiveMsg3, Msg3Lost, Msg3WithCrnti, Msg3WithNeither, Msg3WithRequest,
                     Abandon
<1>6. CASE FlagMsg4
  BY <1>6 DEF FlagMsg4, TemplateTypes, Template, prachVars
<1>7. ASSUME NEW i \in Procs, NEW feasible \in BOOLEAN, SendMsg4(i, feasible)
      PROVE  TemplateTypes'
  BY <1>7 DEF SendMsg4, TemplateTypes, Template, prachVars
<1>8. ASSUME NEW i \in Procs, CheckMsg4(i) PROVE TemplateTypes'
  BY <1>8 DEF CheckMsg4, TemplateTypes, Template, prachVars
<1>9. CASE SendRar
  <2>1. UNCHANGED prachVars
    BY <1>9 DEF SendRar
  <2>2. CASE \E r : RA_template' = Cancelled(r)
    BY <1>4, <2>1, <2>2
  <2>3. CASE \E i : RA_template' = [RA_template EXCEPT ![i].generate_rar = FALSE]
    BY <2>1, <2>3 DEF TemplateTypes, Template, prachVars
  <2> QED BY <1>9, <2>2, <2>3 DEF SendRar
<1>10. CASE UNCHANGED <<RA_template, prachVars>>
  BY <1>10 DEF TemplateTypes, prachVars
<1> QED
  BY <1>1, <1>2, <1>3, <1>5, <1>6, <1>7, <1>8, <1>9, <1>10
     DEF RaNext, PrachStep, RaStep, TimerStep, RrcStep, RemovalStep, LookUp, Drop,
         RemoveFromPhy, StartRa, ScheduleRar, FetchSetup, PassProc, Expire, FreeContext,
         UlFailure, EndRemoval, Accept, Refuse, Reject, Ignore, Recognise, Rekey, Complete, Release,
         Threads

LEMMA UserTypesKept == RaTypeOK /\ RaNext => UserTypes'
<1> SUFFICES ASSUME UserTypes, RrcTypes, TemplateTypes, RaNext PROVE UserTypes'
  BY RaTypesByPart
<1>1. ASSUME NEW t \in Threads, NEW r \in Rntis, UNCHANGED <<UE_stats, UE_list>>,
             removal' = [removal EXCEPT ![t] = [at |-> "look", rnti |-> r, id |-> 1]]
      PROVE  UserTypes'
  BY <1>1, Numbers DEF UserTypes
<1>2. requests # << >> => Head(requests) \in Rntis
  BY DEF RrcTypes
<1>3. CASE \E r \in Rntis : Expire(r) \/ UlFailure(r) \/ Recognise(r)
  BY <1>1, <1>3 DEF Expire, UlFailure, StartRemoval, Recognise, Threads, phyVars
<1>4. CASE Refuse
  BY <1>1, <1>2, <1>4 DEF Refuse, StartRemoval, Threads, phyVars
<1>5. ASSUME NEW t \in Threads, RemovalStep(t) PROVE UserTypes'
  <2>1. CASE LookUp(t)
    <3>1. UE_stats' \in [Users -> PhySlot]
      BY <2>1, VacatedType DEF LookUp, UserTypes
    <3>2. ASSUME Known(removal[t].rnti)
          PROVE  First({u \in Users : UE_list[u] = removal[t].rnti}) \in Users
      BY <3>2, FirstUser DEF Known
    <3>3. removal' \in [Threads -> [at : {"none", "look", "drop", "phy", "clear"},
                              rnti : Rntis \cup {NoRnti}, id : Users]]
      BY <2>1, <3>2 DEF LookUp, UserTypes
    <3> QED BY <2>1, <3>1, <3>3 DEF LookUp, UserTypes
  <2>2. CASE Drop(t)
    BY <2>2 DEF Drop, RemovalGoto, UserTypes, phyVars
  <2>3. CASE RemoveFromPhy(t)
    BY <2>3, VacatedType DEF RemoveFromPhy, RemovalGoto, UserTypes
  <2>4. CASE ClearProcs(t)
    BY <2>4 DEF ClearProcs, UserTypes, phyVars
  <2> QED BY <1>5, <2>1, <2>2, <2>3, <2>4 DEF RemovalStep
<1>6. ASSUME NEW s \in Users, ReceiveMsg3(s) PROVE UserTypes'
  <2>1. CASE Msg3Lost(s)
    <3> DEFINE tries == UE_stats[s].msg3 + 1
    <3>1. UE_stats[s].msg3 \in 0..maxHARQ_Msg3Tx /\ UE_stats[s].msg3 # maxHARQ_Msg3Tx
      BY <2>1 DEF Msg3Lost, UserTypes, PhySlot, Msg3Done
    <3>2. tries \in 0..maxHARQ_Msg3Tx
      BY <3>1, RaAssumption
    <3>3. UNCHANGED <<UE_list, removal>>
          /\ (UE_stats' = [UE_stats EXCEPT ![s].msg3 = tries]
                \/ UE_stats' = Vacated(UE_stats[s].crnti))
      BY <2>1 DEF Msg3Lost, Abandon
    <3> HIDE DEF tries
    <3>4. UE_stats' \in [Users -> PhySlot]
      <4>1. [UE_stats EXCEPT ![s].msg3 = tries] \in [Users -> PhySlot]
        BY <3>2 DEF UserTypes, PhySlot
      <4> QED BY <3>3, <4>1, VacatedType
    <3> QED BY <3>3, <3>4 DEF UserTypes
  <2>2. CASE Msg3WithCrnti(s)
    BY <2>2, VacatedType DEF Msg3WithCrnti, Abandon, UserTypes
  <2>3. CASE Msg3WithRequest(s)
    <3>1. UE_stats[s].crnti \in Rntis
      BY <2>3 DEF Msg3WithRequest, UserTypes, PhySlot
    <3>2. UE_stats' \in [Users -> PhySlot]
      BY <2>3, Numbers DEF Msg3WithRequest, UserTypes, PhySlot
    <3>3. UE_list' \in [Users -> Rntis \cup {NoRnti}]
      BY <2>3, <3>1 DEF Msg3WithRequest, UserTypes
    <3> QED BY <2>3, <3>2, <3>3 DEF Msg3WithRequest, UserTypes
  <2>4. CASE Msg3WithNeither(s)
    BY <2>4, Numbers DEF Msg3WithNeither, UserTypes, PhySlot
  <2> QED BY <1>6, <2>1, <2>2, <2>3, <2>4 DEF ReceiveMsg3
<1>7. CASE SendRar
  <2>1. \A i \in Procs : RA_template[i].rnti \in Rntis \cup {NoRnti}
    BY DEF TemplateTypes, Template
  <2>2. {i \in Procs : RA_template[i].generate_rar} # {}
          => First({i \in Procs : RA_template[i].generate_rar}) \in Procs
    BY FirstProc
  <2> QED BY <1>7, <2>1, <2>2, Numbers DEF SendRar, UserTypes, PhySlot
<1>8. CASE UNCHANGED <<UE_stats, UE_list, removal>>
  BY <1>8 DEF UserTypes
<1> QED
  BY <1>3, <1>4, <1>5, <1>6, <1>7, <1>8
     DEF RaNext, PrachStep, Initiate, Draw, RaStep, TimerStep, RrcStep, FlagMsg4, StartRa,
         ScheduleRar, FetchSetup, SendMsg4, CheckMsg4, PassProc, FreeContext, EndRemoval,
         Accept, Reject, Ignore, Rekey, Complete, Release, Threads, phyVars

LEMMA ModemTypesKept == RaTypeOK /\ RaNext => ModemTypes'
<1> SUFFICES ASSUME ModemTypes, UserTypes, RaNext PROVE ModemTypes'
  BY RaTypesByPart
<1> DEFINE Place == [at : Places, of : Nat]
<1>1. \A a \in Places, n \in Nat : [at |-> a, of |-> n] \in Place
  OBVIOUS
<1>2. Resting \in Place
  BY <1>1 DEF Resting, Places
<1>3. \A i \in Procs : \A b : AfterProc(i, b) \in Place
  <2>1. \A i \in Procs : i + 1 \in Nat
    BY Numbers
  <2> QED BY <1>1, <1>2, <2>1 DEF AfterProc, Places
<1>4. modem' \in Place
  <2>1. ASSUME NEW s \in Users, Msg3WithRequest(s) PROVE modem' \in Place
    <3>1. CASE ActiveOf(UE_stats[s].crnti) = {}
      BY <2>1, <3>1 DEF Msg3WithRequest, ModemTypes
    <3>2. CASE ActiveOf(UE_stats[s].crnti) # {}
      <4>1. First(ActiveOf(UE_stats[s].crnti)) \in Nat
        BY <3>2, FirstProc, Numbers DEF ActiveOf
      <4> QED BY <1>1, <2>1, <3>2, <4>1 DEF Msg3WithRequest, Places
    <3> QED BY <3>1, <3>2
  <2>2. ASSUME NEW r \in Rntis, Expire(r) PROVE modem' \in Place
    BY <1>1, <2>2, Numbers DEF Expire, Places
  <2>3. CASE StartRa \/ \E r \in Rntis : UlFailure(r)
    BY <1>1, <2>3 DEF StartRa, UlFailure, Places
  <2>4. ASSUME NEW i \in Procs, NEW f \in BOOLEAN,
               ScheduleRar(i, f) \/ SendMsg4(i, f) \/ FetchSetup(i) \/ CheckMsg4(i) \/ PassProc(i)
        PROVE  modem' \in Place
    BY <1>1, <1>3, <2>4, Numbers
       DEF ScheduleRar, SendMsg4, FetchSetup, CheckMsg4, PassProc, Places
  <2>5. CASE modem' = Resting \/ modem' = modem
    BY <1>2, <2>5 DEF ModemTypes
  <2> HIDE DEF Place
  <2> QED
    BY <2>1, <2>2, <2>3, <2>4, <2>5
       DEF RaNext, PrachStep, Initiate, Draw, FlagMsg4, RaStep, SendRar, TimerStep,
           FreeContext, EndRemoval, RrcStep, Accept, Refuse, Reject, Ignore, Rekey, Recognise, Complete,
           Release, ReceiveMsg3, Msg3Lost, Msg3WithCrnti, Msg3WithNeither, RemovalStep, LookUp, Drop,
           RemoveFromPhy, ClearProcs
<1>5. dlsch_ra' \in BOOLEAN
  BY DEF ModemTypes, RaNext, PrachStep, Initiate, Draw, FlagMsg4, RaStep, SendRar, TimerStep,
         FreeContext, EndRemoval, RrcStep, Accept, Refuse, Reject, Ignore, Rekey, Recognise, Complete,
         Release, ReceiveMsg3, Msg3Lost, Msg3WithCrnti, Msg3WithNeither, RemovalStep, LookUp, Drop,
         RemoveFromPhy, ClearProcs, StartRa, ScheduleRar, SendMsg4, FetchSetup, CheckMsg4,
         PassProc, Msg3WithRequest, Expire, UlFailure, phyVars
<1>6. fate' \in {fate, "aborted", "full", "collided", "misdirected", "raced"}
  BY DEF RaNext, PrachStep, Initiate, Draw, FlagMsg4, RaStep, SendRar, TimerStep,
         FreeContext, EndRemoval, RrcStep, Accept, Refuse, Reject, Ignore, Rekey, Recognise, Complete,
         Release, ReceiveMsg3, Msg3Lost, Msg3WithCrnti, Msg3WithNeither, RemovalStep, LookUp, Drop,
         RemoveFromPhy, ClearProcs, StartRa, ScheduleRar, SendMsg4, FetchSetup, CheckMsg4,
         PassProc, Msg3WithRequest, Expire, UlFailure, StartRemoval
<1> QED BY <1>4, <1>5, <1>6 DEF ModemTypes

LEMMA RrcTypesKept == RaTypeOK /\ RaNext => RrcTypes'
<1> SUFFICES ASSUME RrcTypes, UserTypes, RaNext PROVE RrcTypes'
  BY RaTypesByPart
<1>1. requests # << >> => Head(requests) \in Rntis /\ Tail(requests) \in Seq(Rntis)
  BY DEF RrcTypes
<1>2. ASSUME NEW s \in Users, Msg3WithRequest(s) PROVE RrcTypes'
  <2>1. UE_stats[s].crnti \in Rntis
    BY <1>2 DEF Msg3WithRequest, UserTypes, PhySlot
  <2>2. requests' \in Seq(Rntis)
    BY <1>2, <2>1 DEF Msg3WithRequest, RrcTypes
  <2> QED BY <1>2, <2>2 DEF Msg3WithRequest, RrcTypes
<1>3. ASSUME NEW r \in Rntis, NEW moved, Setup(r, moved)
      PROVE  /\ Tx_buffer' \in Rntis \cup {NoRnti}
             /\ context' \in [Rntis -> {"none", "release", "up", "failure"}]
  BY <1>3 DEF Setup, RrcTypes
<1>4. CASE Accept
  BY <1>1, <1>3, <1>4 DEF Accept, RrcTypes
<1>5. CASE Rekey
  <2>1. rrc.new \in Rntis
    BY <1>5 DEF Rekey, Answering, RrcTypes
  <2> QED BY <1>3, <1>5, <2>1 DEF Rekey, RrcTypes
<1>6. CASE Refuse \/ Reject \/ Ignore \/ \E r \in Rntis : Recognise(r)
  BY <1>1, <1>6 DEF Refuse, Reject, Ignore, Recognise, RrcTypes
<1>7. CASE \E r \in Rntis : Complete(r) \/ Release(r) \/ UlFailure(r)
  BY <1>7 DEF Complete, Release, UlFailure, RrcTypes
<1>8. CASE FreeContext \/ \E i \in Procs : FetchSetup(i)
  BY <1>8 DEF FreeContext, FetchSetup, RrcTypes
<1>9. CASE UNCHANGED rrcVars
  BY <1>9 DEF rrcVars, RrcTypes
<1> QED
  BY <1>2, <1>4, <1>5, <1>6, <1>7, <1>8, <1>9
     DEF RaNext, PrachStep, Initiate, Draw, FlagMsg4, RaStep, SendRar, TimerStep,
         EndRemoval, RrcStep, ReceiveMsg3, Msg3Lost, Msg3WithCrnti, Msg3WithNeither, RemovalStep, LookUp,
         Drop, RemoveFromPhy, ClearProcs, StartRa, ScheduleRar, SendMsg4, CheckMsg4,
         PassProc, Expire

LEMMA RaTypesKept == RaTypeOK /\ RaNext => RaTypeOK'
<1> SUFFICES ASSUME RaTypeOK, RaNext PROVE RaTypeOK'
  OBVIOUS
<1>1. TemplateTypes' /\ UserTypes' /\ ModemTypes' /\ RrcTypes'
  BY TemplateTypesKept, UserTypesKept, ModemTypesKept, RrcTypesKept
<1> QED BY <1>1 DEF RaTypeOK, TemplateTypes, UserTypes, ModemTypes, RrcTypes, Template,
                    PhySlot, Places, Threads

-----------------------------------------------------------------------------
(* Steps that leave templates, slots and the list of UEs alone.            *)

\* What a type says of the fields that hold RNTIs.
LEMMA Shapes ==
  ASSUME RaTypeOK
  PROVE  /\ RA_template \in [Procs -> Template]
         /\ \A i \in Procs : RA_template[i].rnti \in Rntis \cup {NoRnti}
         /\ UE_stats \in [Users -> PhySlot]
         /\ \A s \in Users : UE_stats[s].crnti \in Rntis \cup {NoRnti}
         /\ UE_list \in [Users -> Rntis \cup {NoRnti}]
         /\ DOMAIN removal = Threads
         /\ \A t \in Threads : removal[t] = [at |-> removal[t].at, rnti |-> removal[t].rnti,
                                             id |-> removal[t].id]
         /\ \A t \in Threads : removal[t].rnti \in Rntis \cup {NoRnti} /\ removal[t].id \in Users
         /\ DOMAIN context = Rntis /\ requests \in Seq(Rntis)
         /\ NoRnti \notin Rntis
<1>1. TemplateTypes /\ UserTypes /\ RrcTypes
  BY RaTypesByPart
<1>2. /\ RA_template \in [Procs -> Template]
      /\ \A i \in Procs : RA_template[i].rnti \in Rntis \cup {NoRnti}
  BY <1>1 DEF TemplateTypes, Template
<1>3. /\ UE_stats \in [Users -> PhySlot]
      /\ \A s \in Users : UE_stats[s].crnti \in Rntis \cup {NoRnti}
      /\ UE_list \in [Users -> Rntis \cup {NoRnti}] /\ DOMAIN removal = Threads
  BY <1>1 DEF UserTypes, PhySlot
<1>4. /\ \A t \in Threads : removal[t] = [at |-> removal[t].at, rnti |-> removal[t].rnti,
                                          id |-> removal[t].id]
      /\ \A t \in Threads : removal[t].rnti \in Rntis \cup {NoRnti} /\ removal[t].id \in Users
  BY <1>1 DEF UserTypes
<1> QED BY <1>1, <1>2, <1>3, <1>4, Numbers DEF RrcTypes

\* Steps of the RRC task, and steps of schedule_RA that only look.
LEMMA OwnershipSeen ==
  ASSUME Ownership, UNCHANGED <<RA_template, drawing, UE_stats, UE_list, removal>>,
         \A r \in Rntis : Unheard(r) => Unheard(r)', RaTypeOK,
         InProcedure', removal["modem"].at # "none" => modem'.at \in {"remove", "free"}
  PROVE  Ownership'
<1>1. Distinct'
  BY DEF Ownership, Distinct
<1>2. \A r : /\ Known(r)' <=> Known(r)
             /\ RemovalOf(r)' <=> RemovalOf(r)
             /\ Backed(r)' <=> Backed(r)
             /\ SlotsOf(r)' = SlotsOf(r) /\ Procedure(r)' = Procedure(r)
  BY DEF Known, RemovalOf, Backed, Gone, SlotsOf, Procedure
<1>3. Templates'
  BY <1>2, Shapes DEF Ownership, Templates, Flagged
<1>4. Slots'
  BY <1>2, Shapes DEF Ownership, Slots
<1>5. Removals'
  BY <1>2 DEF Ownership, Removals
<1> QED BY <1>1, <1>3, <1>4, <1>5 DEF Ownership

LEMMA SlotsUnchanged ==
  ASSUME RaInv, UNCHANGED <<UE_stats, UE_list>>, fate' # "full"
  PROVE  SlotForEveryUe'
BY DEF RaInv, SlotForEveryUe, SlotsOf

\* The modem thread goes on to a place where it writes no template.
LEMMA InProcedureKept ==
  ASSUME InProcedure, UNCHANGED <<RA_template, drawing, UE_list, removal>>,
         modem' = modem \/ modem'.at \notin {"flag", "msg4"}
  PROVE  InProcedure'
BY DEF InProcedure, Backed, Known, Gone

LEMMA ScheduleSteps ==
  ASSUME RaInv, Running,
         \/ StartRa \/ EndRemoval
         \/ \E i \in Procs : PassProc(i) \/ \E f \in BOOLEAN : ScheduleRar(i, f)
  PROVE  SlotForEveryUe' /\ AbortOnlyWhileRemoving' /\ Ownership'
<1>0. RaTypeOK /\ Ownership /\ InProcedure /\ Removals
  BY DEF RaInv, Ownership
<1>1. UNCHANGED <<RA_template, drawing, UE_stats, UE_list, removal, rrcVars, fate>>
  BY DEF StartRa, EndRemoval, PassProc, ScheduleRar, prachVars, phyVars
<1>2. modem'.at \in {"idle", "ra", "rar"}
  BY DEF StartRa, EndRemoval, PassProc, ScheduleRar, AfterProc, Resting
<1>3. removal["modem"].at = "none"
  BY <1>0 DEF Removals, StartRa, EndRemoval, PassProc, ScheduleRar, At, Resting
<1>4. \A r : Unheard(r) => Unheard(r)'
  BY <1>1 DEF rrcVars, Unheard, Known, RemovalOf
<1>5. InProcedure'
  BY <1>0, <1>1, <1>2, InProcedureKept
<1>6. Ownership'
  BY <1>0, <1>1, <1>3, <1>4, <1>5, OwnershipSeen
<1> QED BY <1>1, <1>6, SlotsUnchanged DEF Running, AbortOnlyWhileRemoving

\* A UE that MAC does not find is just being removed by the RRC task: the modem thread
\* itself is not removing while it schedules.
LEMMA FetchStep ==
  ASSUME RaInv, Running, NEW i \in Procs, FetchSetup(i)
  PROVE  SlotForEveryUe' /\ AbortOnlyWhileRemoving' /\ (Running' => Ownership')
<1> DEFINE r == RA_template[i].rnti
<1>0. RaTypeOK /\ Ownership /\ InProcedure /\ Removals /\ Templates
  BY DEF RaInv, Ownership
<1>1. UNCHANGED <<RA_template, drawing, UE_stats, UE_list, removal, requests, context, rrc>>
      /\ fate' = IF Known(r) THEN fate ELSE "aborted"
  BY DEF FetchSetup, prachVars, phyVars
<1>2. removal["modem"].at = "none"
  BY <1>0 DEF Removals, FetchSetup, At
<1>3. i # drawing /\ Backed(r)
  BY <1>0 DEF FetchSetup, Templates, Flagged
<1>4. ~Known(r) => removal["rrc"].at \in {"phy", "clear"}
  BY <1>2, <1>3 DEF Backed, Gone, Threads
<1>5. InProcedure'
  <2>1. CASE modem' = [at |-> "msg4", of |-> i]
    <3>1. Backed(r)'
      BY <1>1, <1>3 DEF Backed, Known, Gone
    <3>2. RA_template[i].RA_active /\ ~RA_template[i].generate_rar
      BY DEF FetchSetup
    <3> QED BY <1>1, <1>3, <2>1, <3>1, <3>2 DEF InProcedure
  <2>2. CASE modem'.at \in {"ra", "rar", "idle"}
    BY <1>0, <1>1, <2>2, InProcedureKept
  <2> QED BY <2>1, <2>2 DEF FetchSetup, AfterProc, Resting
<1>6. \A x : Unheard(x) => Unheard(x)'
  BY <1>1 DEF Unheard, Known, RemovalOf
<1>7. Ownership'
  BY <1>0, <1>1, <1>2, <1>5, <1>6, OwnershipSeen
<1> QED BY <1>1, <1>4, <1>7, SlotsUnchanged DEF Running, AbortOnlyWhileRemoving

\* The RRC task answers requests and changes contexts of UEs it has heard of.
LEMMA RrcSteps ==
  ASSUME RaInv, Running,
         Accept \/ Reject \/ Ignore \/ Rekey \/ FreeContext \/ \E r \in Rntis : Complete(r) \/ Release(r)
  PROVE  SlotForEveryUe' /\ AbortOnlyWhileRemoving' /\ Ownership'
<1>0. RaTypeOK /\ Ownership /\ InProcedure /\ Removals
  BY DEF RaInv, Ownership
<1>1. UNCHANGED <<RA_template, drawing, UE_stats, UE_list, removal, fate>>
  BY DEF Accept, Reject, Ignore, Rekey, FreeContext, Complete, Release, prachVars, phyVars
<1>2. modem' = modem \/ (modem'.at = "idle" /\ removal["modem"].at = "none")
  BY DEF Accept, Reject, Ignore, Rekey, FreeContext, Complete, Release, Resting
<1>3. InProcedure'
  BY <1>0, <1>1, <1>2, InProcedureKept
<1>4. requests # << >> => /\ Head(requests) = requests[1] /\ 1 \in 1..Len(requests)
                          /\ \A k \in 1..Len(Tail(requests)) :
                               k + 1 \in 1..Len(requests) /\ Tail(requests)[k] = requests[k + 1]
  BY <1>0, Shapes
<1>5. ASSUME NEW x \in Rntis, Unheard(x) PROVE Unheard(x)'
  <2>1. ~Known(x)' /\ ~RemovalOf(x)'
    BY <1>1, <1>5 DEF Unheard, Known, RemovalOf
  <2>2. x \notin {rrc'.new, rrc'.old}
    BY <1>5, Shapes, <1>0 DEF Unheard, Accept, Reject, Ignore, Rekey, FreeContext, Complete, Release
  <2>3. \A k \in 1..Len(requests') : requests'[k] # x
    BY <1>4, <1>5 DEF Unheard, Accept, Reject, Ignore, Rekey, FreeContext, Complete, Release
  <2>4. context'[x] = "none"
    <3>1. CASE Accept
      BY <1>4, <1>5, <3>1 DEF Accept, Setup, Unheard
    <3>2. CASE Rekey
      BY <1>5, <3>2 DEF Rekey, Setup, Unheard
    <3>3. CASE FreeContext \/ Reject \/ Ignore \/ \E r \in Rntis : Complete(r) \/ Release(r)
      BY <1>0, <1>5, <3>3, Shapes DEF FreeContext, Reject, Ignore, Complete, Release, Unheard
    <3> QED BY <3>1, <3>2, <3>3
  <2> QED BY <2>1, <2>2, <2>3, <2>4 DEF Unheard
<1>6. Ownership'
  BY <1>0, <1>1, <1>2, <1>3, <1>5, OwnershipSeen DEF Removals
<1> QED BY <1>1, <1>6, SlotsUnchanged DEF Running, AbortOnlyWhileRemoving

-----------------------------------------------------------------------------
(* rrc_mac_remove_ue.                                                      *)

\* A removal begins, of a UE that is not new and that no other thread removes.
LEMMA RemovalBegins ==
  ASSUME RaInv, Running, NEW t \in Threads, NEW r \in Rntis,
         UNCHANGED <<RA_template, drawing, UE_stats, UE_list>>,
         removal[t].at = "none", ~Removing(t, r), ~Unheard(r),
         removal' = [removal EXCEPT ![t] = [at |-> "look", rnti |-> r, id |-> 1]],
         IF t = "modem" THEN modem'.at \in {"remove", "free"} ELSE modem' = modem,
         \A x \in Rntis : Unheard(x) =>
           /\ context'[x] = "none" /\ x \notin {rrc'.new, rrc'.old}
           /\ \A k \in 1..Len(requests') : requests'[k] # x
  PROVE  Ownership'
<1>0. RaTypeOK /\ Ownership /\ Distinct /\ Templates /\ Slots /\ InProcedure /\ Removals
  BY DEF RaInv, Ownership
<1>1. /\ removal'[t] = [at |-> "look", rnti |-> r, id |-> 1]
      /\ \A v \in Threads \ {t} : removal'[v] = removal[v]
  BY <1>0, Shapes
<1>2. \A x : /\ Known(x)' <=> Known(x)
             /\ SlotsOf(x)' = SlotsOf(x) /\ Procedure(x)' = Procedure(x)
  BY DEF Known, SlotsOf, Procedure
<1>3. \A x : Backed(x)' <=> Backed(x)
  BY <1>1, <1>2 DEF Backed, Gone
<1>4. \A x : /\ RemovalOf(x) => RemovalOf(x)'
             /\ RemovalOf(x)' => RemovalOf(x) \/ x = r
  BY <1>1 DEF RemovalOf, Threads
<1>5. \A x \in Rntis : Unheard(x) => Unheard(x)'
  BY <1>2, <1>4 DEF Unheard
<1>6. Distinct'
  BY <1>0 DEF Distinct
<1>7. Templates'
  BY <1>0, <1>2, <1>3, <1>5, Shapes DEF Templates, Flagged
<1>8. Slots'
  BY <1>0, <1>2, <1>4, <1>5, Shapes DEF Slots
<1>9. Removals'
  <2>1. \A v \in Threads \ {t} : removal[v].at # "none" => removal[v].rnti # r
    BY DEF Removing, Threads
  <2>2. removal'["modem"].at # "none" => modem'.at \in {"remove", "free"}
    BY <1>0, <1>1 DEF Removals, Threads
  <2> QED BY <1>0, <1>1, <1>2, <2>1, <2>2, Numbers DEF Removals
<1>10. InProcedure'
  <2>1. CASE t = "modem"
    BY <2>1 DEF InProcedure
  <2>2. CASE modem' = modem
    BY <1>0, <1>3, <2>2 DEF InProcedure
  <2> QED BY <2>1, <2>2
<1> QED BY <1>6, <1>7, <1>8, <1>9, <1>10 DEF Ownership

LEMMA ModemBegins ==
  ASSUME RaInv, Running, NEW r \in Rntis, Expire(r) \/ UlFailure(r)
  PROVE  SlotForEveryUe' /\ AbortOnlyWhileRemoving' /\ (Running' => Ownership')
<1>0. RaTypeOK /\ Removals
  BY DEF RaInv, Ownership
<1>1. /\ UNCHANGED <<RA_template, drawing, UE_stats, UE_list, requests, rrc>>
      /\ removal' = [removal EXCEPT !["modem"] = [at |-> "look", rnti |-> r, id |-> 1]]
      /\ modem'.at \in {"remove", "free"} /\ modem = Resting
      /\ fate' \in {fate, "raced"} /\ (fate' # "raced" => ~Removing("modem", r))
  BY DEF Expire, UlFailure, StartRemoval, prachVars, phyVars, rrcVars, Running
<1>2. removal["modem"].at = "none" /\ "modem" \in Threads
  BY <1>0, <1>1 DEF Removals, Resting, Threads
<1>3. context[r] # "none" \/ Known(r)
  BY DEF Expire, UlFailure
<1>4. \A x \in Rntis : context[x] = "none" => context'[x] = "none"
  BY <1>0, Shapes DEF Expire, UlFailure, rrcVars
<1>5. \A x \in Rntis : Unheard(x) =>
           /\ context'[x] = "none" /\ x \notin {rrc'.new, rrc'.old}
           /\ \A k \in 1..Len(requests') : requests'[k] # x
  BY <1>1, <1>4 DEF Unheard
<1>6. Running' => Ownership'
  BY <1>1, <1>2, <1>3, <1>5, RemovalBegins DEF Unheard, Running
<1> QED BY <1>1, <1>6, SlotsUnchanged DEF Running, AbortOnlyWhileRemoving

LEMMA RrcBegins ==
  ASSUME RaInv, Running, Refuse \/ \E old \in Rntis : Recognise(old)
  PROVE  SlotForEveryUe' /\ AbortOnlyWhileRemoving' /\ (Running' => Ownership')
<1>0. RaTypeOK /\ "rrc" \in Threads
  BY DEF RaInv, Threads
<1>1. PICK r \in Rntis :
        /\ removal' = [removal EXCEPT !["rrc"] = [at |-> "look", rnti |-> r, id |-> 1]]
        /\ fate' = (IF Removing("rrc", r) THEN "raced" ELSE fate)
        /\ IF Refuse THEN r = Head(requests) /\ rrc' = rrc
           ELSE context[r] # "none" /\ rrc' = [new |-> Head(requests), old |-> r]
  <2>1. CASE Refuse
    <3>1. Head(requests) \in Rntis
      BY <1>0, <2>1, Shapes DEF Refuse
    <3> QED BY <2>1, <3>1 DEF Refuse, StartRemoval
  <2>2. CASE \E old \in Rntis : ~Refuse /\ Recognise(old)
    BY <2>2 DEF Recognise
  <2> QED BY <2>1, <2>2
<1>2. /\ UNCHANGED <<RA_template, drawing, UE_stats, UE_list, modem, context>>
      /\ requests # << >> /\ requests' = Tail(requests) /\ removal["rrc"].at = "none"
  BY DEF Refuse, Recognise, prachVars, phyVars, RrcIdle
<1>3. /\ Head(requests) = requests[1] /\ 1 \in 1..Len(requests)
      /\ \A k \in 1..Len(Tail(requests)) :
           k + 1 \in 1..Len(requests) /\ Tail(requests)[k] = requests[k + 1]
  BY <1>0, <1>2, Shapes
<1>4. ~Unheard(r)
  BY <1>1, <1>3 DEF Unheard
<1>5. \A x \in Rntis : Unheard(x) =>
           /\ context'[x] = "none" /\ x \notin {rrc'.new, rrc'.old}
           /\ \A k \in 1..Len(requests') : requests'[k] # x
  BY <1>1, <1>2, <1>3 DEF Unheard
<1>6. Running' => Ownership'
  BY <1>0, <1>1, <1>2, <1>4, <1>5, RemovalBegins DEF Running
<1> QED BY <1>1, <1>2, <1>6, SlotsUnchanged DEF Running, AbortOnlyWhileRemoving

\* mac_phy_remove_ue: the first slot with an RNTI is the only one.
LEMMA VacatedSlots ==
  ASSUME RaTypeOK, Distinct, NEW r \in Rntis
  PROVE  \A s \in Users :
           Vacated(r)[s] = IF UE_stats[s].crnti = r THEN Free ELSE UE_stats[s]
<1>1. CASE SlotsOf(r) = {}
  BY <1>1 DEF Vacated, SlotsOf
<1>2. CASE SlotsOf(r) # {}
  <2>1. First(SlotsOf(r)) \in SlotsOf(r)
    BY <1>2, FirstUser DEF SlotsOf
  <2>2. Vacated(r) = [UE_stats EXCEPT ![First(SlotsOf(r))] = Free]
    BY <1>2, Numbers DEF Vacated
  <2>3. \A s \in Users : UE_stats[s].crnti = r <=> s = First(SlotsOf(r))
    BY <2>1, Numbers DEF SlotsOf, Distinct
  <2> QED BY <2>2, <2>3, Shapes
<1> QED BY <1>1, <1>2

LEMMA LookUpStep ==
  ASSUME RaInv, Running, NEW t \in Threads, LookUp(t)
  PROVE  SlotForEveryUe' /\ AbortOnlyWhileRemoving' /\ Ownership'
<1> DEFINE r == removal[t].rnti
<1>0. RaTypeOK /\ Distinct /\ Templates /\ Slots /\ InProcedure /\ Removals
      /\ SlotForEveryUe
  BY DEF RaInv, Ownership
<1>1. /\ UNCHANGED <<RA_template, drawing, UE_list, requests, context, rrc, modem, fate>>
      /\ removal[t].at = "look" /\ r \in Rntis
      /\ \A v \in Threads \ {t} : removal[v].at # "none" => removal[v].rnti # r
  BY <1>0, Shapes DEF LookUp, prachVars, rrcVars, Removals
<1>2. \A x : Known(x)' <=> Known(x)
  BY <1>1 DEF Known
<1>3. \A x : Procedure(x)' = Procedure(x)
  BY <1>1 DEF Procedure
<1>4. CASE Known(r)
  <2> DEFINE u == First({w \in Users : UE_list[w] = r})
  <2>1. u \in Users /\ UE_list[u] = r
    BY <1>4, FirstUser DEF Known
  <2>2. /\ removal'[t].at = "drop" /\ removal'[t].rnti = r /\ removal'[t].id = u
        /\ \A v \in Threads \ {t} : removal'[v] = removal[v]
        /\ UE_stats' = UE_stats
    BY <1>0, <1>4, Shapes DEF LookUp
  <2> HIDE DEF u
  <2>3. \A x : SlotsOf(x)' = SlotsOf(x) /\ (RemovalOf(x)' <=> RemovalOf(x))
               /\ (Backed(x)' <=> Backed(x))
    BY <1>1, <1>2, <2>2 DEF SlotsOf, RemovalOf, Backed, Gone, Threads
  <2>4. \A x : Unheard(x)' <=> Unheard(x)
    BY <1>1, <1>2, <2>3 DEF Unheard
  <2>5. Distinct' /\ Templates' /\ InProcedure'
    BY <1>0, <1>1, <2>2, <2>3, <2>4 DEF Distinct, Templates, InProcedure, Flagged
  <2>6. Slots'
    BY <1>0, <1>2, <1>3, <2>2, <2>3, <2>4 DEF Slots
  <2>7. Removals'
    BY <1>0, <1>1, <1>2, <2>1, <2>2, <2>3 DEF Removals, Threads
  <2>8. SlotForEveryUe'
    BY <1>0, <1>1, <2>3 DEF SlotForEveryUe
  <2> QED BY <1>1, <2>5, <2>6, <2>7, <2>8 DEF Ownership, AbortOnlyWhileRemoving, Running
<1>5. CASE ~Known(r)
  <2>1. /\ removal'[t].at = "none"
        /\ \A v \in Threads \ {t} : removal'[v] = removal[v]
        /\ UE_stats' = Vacated(r)
    BY <1>0, <1>5, Shapes DEF LookUp
  <2>a. \A s \in Users : UE_stats'[s] = IF UE_stats[s].crnti = r THEN Free ELSE UE_stats[s]
    BY <1>0, <1>1, <2>1, VacatedSlots
  <2>2. \A s \in Users :
          /\ UE_stats'[s].crnti = IF UE_stats[s].crnti = r THEN NoRnti ELSE UE_stats[s].crnti
          /\ UE_stats[s].crnti # r => UE_stats'[s].msg3 = UE_stats[s].msg3
    BY <2>a DEF Free
  <2> HIDE DEF r
  <2>3. \A x \in Rntis : SlotsOf(x)' = IF x = r THEN {} ELSE SlotsOf(x)
    BY <2>2, Numbers DEF SlotsOf
  <2>4. \A x : /\ RemovalOf(x)' => RemovalOf(x)
               /\ RemovalOf(x) /\ x # r => RemovalOf(x)'
               /\ Backed(x)' <=> Backed(x)
    BY <1>1, <1>2, <2>1 DEF RemovalOf, Backed, Gone, Threads, r
  <2>5. \A x : Unheard(x) => Unheard(x)'
    BY <1>1, <1>2, <2>4 DEF Unheard
  <2>6. Distinct'
    BY <1>0, <1>1, <2>2 DEF Distinct
  <2>7. Templates'
    BY <1>0, <1>1, <2>3, <2>4, <2>5, Shapes DEF Templates, Flagged
  <2>8. Slots'
    BY <1>0, <1>2, <1>3, <2>2, <2>4, <2>5, Shapes DEF Slots
  <2>9. Removals'
    <3> SUFFICES ASSUME NEW v \in Threads \ {t}, removal[v].at # "none"
                 PROVE  SlotsOf(removal[v].rnti)' \subseteq SlotsOf(removal[v].rnti)
      BY <1>0, <1>1, <1>2, <2>1 DEF Removals, Threads
    <3>1. removal[v].rnti \in Rntis
      BY <1>0, Shapes DEF Removals
    <3> QED BY <2>1, <2>3, <3>1
  <2>10. InProcedure'
    BY <1>0, <1>1, <2>4 DEF InProcedure
  <2>11. SlotForEveryUe'
    BY <1>0, <1>1, <1>5, <2>3, Shapes DEF SlotForEveryUe, Known
  <2> QED BY <1>1, <2>6, <2>7, <2>8, <2>9, <2>10, <2>11
             DEF Ownership, AbortOnlyWhileRemoving, Running
<1> QED BY <1>4, <1>5

LEMMA DropStep ==
  ASSUME RaInv, Running, NEW t \in Threads, Drop(t)
  PROVE  SlotForEveryUe' /\ AbortOnlyWhileRemoving' /\ Ownership'
<1> DEFINE r == removal[t].rnti
           u == removal[t].id
<1>0. RaTypeOK /\ Distinct /\ Templates /\ Slots /\ InProcedure /\ Removals
      /\ SlotForEveryUe
  BY DEF RaInv, Ownership
<1>1. /\ UNCHANGED <<RA_template, drawing, UE_stats, requests, context, rrc, modem, fate>>
      /\ removal[t].at = "drop" /\ r \in Rntis /\ u \in Users /\ UE_list[u] = r
      /\ \A v \in Threads \ {t} : removal[v].at # "none" => removal[v].rnti # r
  BY <1>0, Shapes DEF Drop, prachVars, phyVars, rrcVars, Removals
<1>2. /\ removal'[t].at = "phy" /\ removal'[t].rnti = r /\ removal'[t].id = u
      /\ \A v \in Threads \ {t} : removal'[v] = removal[v]
      /\ \A w \in Users : UE_list'[w] = IF w = u THEN NoRnti ELSE UE_list[w]
  BY <1>0, Shapes DEF Drop, RemovalGoto
<1> HIDE DEF u
<1>3. \A w \in Users : UE_list[w] = r <=> w = u
  BY <1>0, <1>1, Numbers DEF Distinct
<1>4. \A x : Known(x)' <=> Known(x) /\ x # r
  BY <1>2, <1>3 DEF Known
<1>5. \A x : /\ SlotsOf(x)' = SlotsOf(x) /\ Procedure(x)' = Procedure(x)
             /\ RemovalOf(x)' <=> RemovalOf(x)
             /\ Backed(x) => Backed(x)'
  BY <1>1, <1>2, <1>4 DEF SlotsOf, Procedure, RemovalOf, Backed, Gone, Threads
<1>6. \A x : Unheard(x) => Unheard(x)'
  BY <1>1, <1>4, <1>5 DEF Unheard
<1>7. RemovalOf(r)
  BY <1>1 DEF RemovalOf, Threads
<1>8. Distinct'
  BY <1>0, <1>1, <1>2 DEF Distinct
<1>9. Templates'
  BY <1>0, <1>1, <1>5, <1>6 DEF Templates, Flagged
<1>10. Slots'
  BY <1>0, <1>1, <1>4, <1>5, <1>6, <1>7 DEF Slots
<1>11. Removals'
  <2>1. \A v \in Threads : removal'[v].at = "drop" => UE_list'[removal'[v].id] = removal'[v].rnti
    BY <1>0, <1>1, <1>2, <1>3, Shapes DEF Removals
  <2> QED BY <1>0, <1>1, <1>2, <1>4, <1>5, <2>1 DEF Removals, Threads
<1>12. InProcedure'
  BY <1>0, <1>1, <1>5 DEF InProcedure
<1>13. SlotForEveryUe'
  BY <1>0, <1>1, <1>2, <1>5 DEF SlotForEveryUe
<1> QED BY <1>1, <1>8, <1>9, <1>10, <1>11, <1>12, <1>13
           DEF Ownership, AbortOnlyWhileRemoving, Running

LEMMA PhyStep ==
  ASSUME RaInv, Running, NEW t \in Threads, RemoveFromPhy(t)
  PROVE  SlotForEveryUe' /\ AbortOnlyWhileRemoving' /\ Ownership'
<1> DEFINE r == removal[t].rnti
<1>0. RaTypeOK /\ Distinct /\ Templates /\ Slots /\ InProcedure /\ Removals
      /\ SlotForEveryUe
  BY DEF RaInv, Ownership
<1>1. /\ UNCHANGED <<RA_template, drawing, UE_list, requests, context, rrc, modem, fate>>
      /\ removal[t].at = "phy" /\ r \in Rntis /\ ~Known(r)
      /\ \A v \in Threads \ {t} : removal[v].at # "none" => removal[v].rnti # r
  BY <1>0, Shapes DEF RemoveFromPhy, prachVars, rrcVars, Removals
<1>2. /\ removal'[t].at = "clear" /\ removal'[t].rnti = r
      /\ \A v \in Threads \ {t} : removal'[v] = removal[v]
      /\ UE_stats' = Vacated(r)
  BY <1>0, Shapes DEF RemoveFromPhy, RemovalGoto
<1>a. \A s \in Users : UE_stats'[s] = IF UE_stats[s].crnti = r THEN Free ELSE UE_stats[s]
  BY <1>0, <1>1, <1>2, VacatedSlots
<1>3. \A s \in Users :
        /\ UE_stats'[s].crnti = IF UE_stats[s].crnti = r THEN NoRnti ELSE UE_stats[s].crnti
        /\ UE_stats[s].crnti # r => UE_stats'[s].msg3 = UE_stats[s].msg3
  BY <1>a DEF Free
<1>4. \A x : /\ Known(x)' <=> Known(x)
             /\ RemovalOf(x)' <=> RemovalOf(x)
             /\ Backed(x)' <=> Backed(x)
             /\ Procedure(x)' = Procedure(x)
  BY <1>1, <1>2 DEF Known, RemovalOf, Backed, Gone, Procedure, Threads
<1>5. \A x : Unheard(x)' <=> Unheard(x)
  BY <1>1, <1>4 DEF Unheard
<1> HIDE DEF r
<1>6. \A x \in Rntis : SlotsOf(x)' = IF x = r THEN {} ELSE SlotsOf(x)
  BY <1>3, Numbers DEF SlotsOf
<1>7. Distinct'
  BY <1>0, <1>1, <1>3 DEF Distinct
<1>8. Templates'
  BY <1>0, <1>1, <1>4, <1>5, <1>6, Shapes DEF Templates, Flagged
<1>9. Slots'
  BY <1>0, <1>3, <1>4, <1>5, Shapes DEF Slots
<1>10. Removals'
  <2>1. \A v \in Threads : removal[v].at # "none" =>
          SlotsOf(removal[v].rnti)' = IF v = t THEN {} ELSE SlotsOf(removal[v].rnti)
    BY <1>0, <1>1, <1>2, <1>6, Shapes DEF Removals, r
  <2>2. removal[t].rnti = r
    BY DEF r
  <2> HIDE DEF Known, SlotsOf
  <2> QED BY <1>0, <1>1, <1>2, <1>4, <2>1, <2>2 DEF Removals, Threads
<1>11. InProcedure'
  BY <1>0, <1>1, <1>4 DEF InProcedure
<1>12. SlotForEveryUe'
  BY <1>0, <1>1, <1>6, Shapes DEF SlotForEveryUe, Known
<1> QED BY <1>1, <1>7, <1>8, <1>9, <1>10, <1>11, <1>12
           DEF Ownership, AbortOnlyWhileRemoving, Running

LEMMA ClearStep ==
  ASSUME RaInv, Running, NEW t \in Threads, ClearProcs(t)
  PROVE  SlotForEveryUe' /\ AbortOnlyWhileRemoving' /\ (Running' => Ownership')
<1> DEFINE r == removal[t].rnti
<1>0. RaTypeOK /\ Distinct /\ Templates /\ Slots /\ InProcedure /\ Removals
  BY DEF RaInv, Ownership
<1>1. /\ UNCHANGED <<drawing, UE_stats, UE_list, requests, context, rrc, modem>>
      /\ removal[t].at = "clear" /\ r \in Rntis /\ SlotsOf(r) = {}
      /\ \A v \in Threads \ {t} : removal[v].at # "none" => removal[v].rnti # r
      /\ fate' \in {fate, "raced"} /\ (fate' # "raced" => ~Writing(r))
  BY <1>0, Shapes DEF ClearProcs, prachVars, phyVars, rrcVars, Removals, Running
<1>2. /\ removal'[t].at = "none"
      /\ \A v \in Threads \ {t} : removal'[v] = removal[v]
      /\ \A i \in Procs : RA_template'[i] = IF RA_template[i].rnti = r THEN Idle ELSE RA_template[i]
  BY <1>0, Shapes DEF ClearProcs, Cancelled
<1>3. \A x : /\ Known(x)' <=> Known(x)
             /\ RemovalOf(x)' => RemovalOf(x)
             /\ RemovalOf(x) /\ x # r => RemovalOf(x)'
             /\ Backed(x) /\ x # r => Backed(x)'
             /\ SlotsOf(x)' = SlotsOf(x)
  BY <1>1, <1>2 DEF Known, RemovalOf, Backed, Gone, SlotsOf, Threads
<1>4. \A x : Unheard(x) => Unheard(x)'
  BY <1>1, <1>3 DEF Unheard
<1>5. \A x : x # r => Procedure(x) \subseteq Procedure(x)'
  BY <1>1, <1>2 DEF Procedure
<1>6. Distinct'
  BY <1>0, <1>1, <1>2 DEF Distinct, Idle
<1>7. Templates'
  BY <1>0, <1>1, <1>2, <1>3, <1>4 DEF Templates, Flagged, Idle
<1>8. Slots'
  BY <1>0, <1>1, <1>3, <1>4, <1>5 DEF Slots, SlotsOf
<1>9. Removals'
  BY <1>0, <1>1, <1>2, <1>3 DEF Removals, Threads
<1>10. ASSUME Running' PROVE InProcedure'
  <2>1. ~Writing(r)
    BY <1>1, <1>10 DEF Running
  <2> QED BY <1>0, <1>1, <1>2, <1>3, <2>1 DEF InProcedure, Writing
<1>11. SlotForEveryUe'
  BY <1>1, SlotsUnchanged DEF Running
<1> QED BY <1>1, <1>6, <1>7, <1>8, <1>9, <1>10, <1>11
           DEF Ownership, AbortOnlyWhileRemoving, Running

-----------------------------------------------------------------------------
(* The PRACH thread.                                                       *)

LEMMA InitiateStep ==
  ASSUME RaInv, Running, Initiate
  PROVE  SlotForEveryUe' /\ AbortOnlyWhileRemoving' /\ Ownership'
<1> DEFINE i == First(Available)
<1>0. RaTypeOK /\ Distinct /\ Templates /\ Slots /\ InProcedure /\ Removals
  BY DEF RaInv, Ownership
<1>1. i \in Procs /\ ~RA_template[i].RA_active /\ ~RA_template[i].wait_ack_Msg4
  BY FirstProc DEF Initiate, Available
<1>2. /\ UNCHANGED <<UE_stats, UE_list, removal, requests, context, rrc, modem, fate>>
      /\ drawing = 0 /\ drawing' = i
  BY DEF Initiate, phyVars, rrcVars
<1>3. /\ \A j \in Procs \ {i} : RA_template'[j] = RA_template[j]
      /\ RA_template'[i].rnti = RA_template[i].rnti
      /\ RA_template'[i].RA_active /\ ~RA_template'[i].generate_Msg4
      /\ ~RA_template'[i].wait_ack_Msg4
  BY <1>0, <1>1, Shapes DEF Initiate, Idle
<1> HIDE DEF i
<1>4. \A x : /\ Known(x)' <=> Known(x)
             /\ RemovalOf(x)' <=> RemovalOf(x)
             /\ Backed(x)' <=> Backed(x)
             /\ SlotsOf(x)' = SlotsOf(x)
  BY <1>2 DEF Known, RemovalOf, Backed, Gone, SlotsOf
<1>5. \A x : Unheard(x)' <=> Unheard(x)
  BY <1>2, <1>4 DEF Unheard
<1>6. \A x : Procedure(x) \subseteq Procedure(x)'
  BY <1>1, <1>2, <1>3 DEF Procedure
<1>7. Distinct'
  <2>1. \A j \in Procs : RA_template'[j].rnti = RA_template[j].rnti
    BY <1>3
  <2> QED BY <1>0, <1>2, <2>1 DEF Distinct
<1>8. Templates'
  <2>1. i # 0
    BY <1>1, Numbers
  <2> QED BY <1>0, <1>1, <1>2, <1>3, <1>4, <1>5, <2>1, Numbers DEF Templates, Flagged
<1>9. Slots'
  BY <1>0, <1>2, <1>4, <1>5, <1>6 DEF Slots
<1>10. Removals'
  BY <1>0, <1>2, <1>4 DEF Removals
<1>11. InProcedure'
  BY <1>0, <1>1, <1>2, <1>3, <1>4 DEF InProcedure
<1>12. SlotForEveryUe'
  BY <1>2, SlotsUnchanged DEF Running
<1> QED BY <1>2, <1>7, <1>8, <1>9, <1>10, <1>11, <1>12
           DEF Ownership, AbortOnlyWhileRemoving, Running

\* The RNTI drawn is new, or else the model ends.
LEMMA DrawStep ==
  ASSUME RaInv, Running, NEW r \in Rntis, Draw(r)
  PROVE  SlotForEveryUe' /\ AbortOnlyWhileRemoving' /\ (Running' => Ownership')
<1> DEFINE d == drawing
<1>0. RaTypeOK /\ Distinct /\ Templates /\ Slots /\ InProcedure /\ Removals
  BY DEF RaInv, Ownership
<1>1. /\ UNCHANGED <<UE_stats, UE_list, removal, requests, context, rrc, modem>>
      /\ d \in Procs /\ drawing' = 0 /\ ~Known(r)
      /\ fate' \in {fate, "collided"} /\ (fate' # "collided" => ~InUse(r))
  BY <1>0, RaTypesByPart DEF Draw, phyVars, rrcVars, Running, TemplateTypes
<1>2. /\ \A j \in Procs \ {d} : RA_template'[j] = RA_template[j]
      /\ RA_template'[d] = [RA_template[d] EXCEPT !.rnti = r]
  BY <1>0, <1>1, Shapes DEF Draw
<1>3. /\ RA_template'[d].rnti = r
      /\ RA_template'[d].RA_active = RA_template[d].RA_active
      /\ RA_template'[d].generate_rar = RA_template[d].generate_rar
      /\ RA_template'[d].generate_Msg4 = RA_template[d].generate_Msg4
      /\ RA_template'[d].wait_ack_Msg4 = RA_template[d].wait_ack_Msg4
  BY <1>0, <1>1, <1>2, Shapes DEF Template
<1>4. \A x : /\ Known(x)' <=> Known(x)
             /\ RemovalOf(x)' <=> RemovalOf(x)
             /\ Backed(x)' <=> Backed(x)
             /\ SlotsOf(x)' = SlotsOf(x)
  BY <1>1 DEF Known, RemovalOf, Backed, Gone, SlotsOf
<1>5. \A x : Unheard(x)' <=> Unheard(x)
  BY <1>1, <1>4 DEF Unheard
<1>6. \A x : Procedure(x) \subseteq Procedure(x)'
  BY <1>1, <1>2, Numbers DEF Procedure
<1>7. ASSUME Running' PROVE Ownership'
  <2>1. /\ Unheard(r) /\ SlotsOf(r) = {}
        /\ \A j \in Procs : RA_template[j].rnti # r
    BY <1>1, <1>7 DEF InUse, Unheard, Running, RemovalOf
  <2> HIDE DEF d
  <2>2. Distinct'
    <3>1. \A i, j \in Procs : i # j /\ RA_template[i].rnti = RA_template[j].rnti
                             => RA_template[i].rnti = NoRnti
      BY <1>0 DEF Distinct
    <3>2. \A j \in Procs : RA_template'[j].rnti = IF j = d THEN r ELSE RA_template[j].rnti
      BY <1>2, <1>3
    <3>3. \A i, j \in Procs : i # j /\ RA_template'[i].rnti = RA_template'[j].rnti
                             => RA_template'[i].rnti = NoRnti
      BY <2>1, <3>1, <3>2
    <3> QED BY <1>0, <1>1, <3>3 DEF Distinct
  <2>3. Templates'
    <3>1. \A j \in Procs : j # d => j \in Procs \ {drawing}
      BY DEF d
    <3>2. \A j \in Procs : Flagged(j)' <=> Flagged(j)
      BY <1>2, <1>3 DEF Flagged
    <3>3. ~Flagged(d)
      BY <1>0, <1>1 DEF Templates, d
    <3>4. \A j \in Procs : Flagged(j)' => j # drawing' /\ Backed(RA_template[j].rnti)'
      BY <1>0, <1>1, <1>2, <1>4, <3>2, <3>3, Numbers DEF Templates
    <3>5. \A j \in Procs : RA_template'[j].generate_rar =>
            /\ RA_template'[j].RA_active /\ RA_template'[j].rnti # NoRnti
            /\ Unheard(RA_template[j].rnti)' /\ SlotsOf(RA_template[j].rnti)' = {}
      <4> SUFFICES ASSUME NEW j \in Procs, RA_template'[j].generate_rar
                   PROVE  /\ RA_template'[j].RA_active /\ RA_template'[j].rnti # NoRnti
                          /\ Unheard(RA_template[j].rnti)' /\ SlotsOf(RA_template[j].rnti)' = {}
        OBVIOUS
      <4>1. CASE j = d
        <5>1. RA_template'[j].RA_active
          BY <1>0, <1>3, <4>1 DEF Templates
        <5>2. RA_template'[j].rnti = r /\ r # NoRnti
          BY <1>3, <4>1, Numbers
        <5>3. Unheard(r)' /\ SlotsOf(r)' = {}
          BY <1>4, <1>5, <2>1
        <5> HIDE DEF Unheard, SlotsOf
        <5> QED BY <5>1, <5>2, <5>3
      <4>2. CASE j # d
        <5>1. RA_template'[j] = RA_template[j] /\ j \in Procs \ {drawing}
          BY <1>2, <3>1, <4>2
        <5>2. LET x == RA_template[j].rnti IN
              /\ RA_template[j].RA_active /\ x # NoRnti
              /\ Unheard(x) /\ SlotsOf(x) = {}
          BY <1>0, <5>1 DEF Templates
        <5> HIDE DEF Unheard, SlotsOf
        <5> QED BY <1>4, <1>5, <5>1, <5>2
      <4> QED BY <4>1, <4>2
    <3> QED BY <3>4, <3>5 DEF Templates
  <2>4. Slots'
    BY <1>0, <1>1, <1>4, <1>5, <1>6 DEF Slots
  <2>5. Removals'
    BY <1>0, <1>1, <1>4 DEF Removals
  <2>6. InProcedure'
    <3>1. modem.at \in {"flag", "msg4"} => modem.of \in Procs /\ modem.of # d /\ modem.of # 0
      BY <1>0, Numbers DEF InProcedure, d
    <3> QED BY <1>0, <1>1, <1>2, <1>4, <3>1 DEF InProcedure
  <2> QED BY <2>2, <2>3, <2>4, <2>5, <2>6 DEF Ownership
<1>8. SlotForEveryUe'
  BY <1>1, SlotsUnchanged DEF Running
<1> QED BY <1>1, <1>7, <1>8 DEF AbortOnlyWhileRemoving, Running

-----------------------------------------------------------------------------
(* Msg3.                                                                   *)

\* A procedure is given up before anybody has heard of its UE.
LEMMA AbandonStep ==
  ASSUME RaInv, Running, NEW s \in Users,
         UE_stats[s].crnti # NoRnti, UE_stats[s].msg3 # Msg3Done, Abandon(UE_stats[s].crnti),
         modem.at = "idle",
         UNCHANGED <<drawing, UE_list, removal, requests, context, rrc, modem, fate>>
  PROVE  SlotForEveryUe' /\ AbortOnlyWhileRemoving' /\ Ownership'
<1> DEFINE r == UE_stats[s].crnti
<1>0. RaTypeOK /\ Distinct /\ Templates /\ Slots /\ InProcedure /\ Removals
      /\ SlotForEveryUe
  BY DEF RaInv, Ownership
<1>1. r \in Rntis /\ Unheard(r)
  BY <1>0, Shapes DEF Slots
<1>a. \A q \in Users : UE_stats'[q] = IF UE_stats[q].crnti = r THEN Free ELSE UE_stats[q]
  BY <1>0, <1>1, VacatedSlots DEF Abandon
<1>2. \A q \in Users :
        /\ UE_stats'[q].crnti = IF UE_stats[q].crnti = r THEN NoRnti ELSE UE_stats[q].crnti
        /\ UE_stats[q].crnti # r => UE_stats'[q].msg3 = UE_stats[q].msg3
  BY <1>a DEF Free
<1>3. \A i \in Procs : RA_template'[i] = IF RA_template[i].rnti = r THEN Idle ELSE RA_template[i]
  BY DEF Abandon, Cancelled
<1> HIDE DEF r
<1>4. \A x : /\ Known(x)' <=> Known(x)
             /\ RemovalOf(x)' <=> RemovalOf(x)
             /\ Backed(x)' <=> Backed(x)
  BY DEF Known, RemovalOf, Backed, Gone
<1>5. \A x : Unheard(x)' <=> Unheard(x)
  BY <1>4 DEF Unheard
<1>6. \A x \in Rntis : SlotsOf(x)' = IF x = r THEN {} ELSE SlotsOf(x)
  BY <1>2, Numbers DEF SlotsOf
<1>7. \A x : x # r => Procedure(x) \subseteq Procedure(x)'
  BY <1>3 DEF Procedure
<1>8. Distinct'
  BY <1>0, <1>2, <1>3 DEF Distinct, Idle
<1>9. Templates'
  <2>1. \A i \in Procs : RA_template'[i].generate_rar \/ Flagged(i)' =>
          RA_template'[i] = RA_template[i]
    BY <1>3 DEF Flagged, Idle
  <2>2. \A i \in Procs : SlotsOf(RA_template[i].rnti) = {} /\ RA_template[i].rnti # NoRnti
          => \A q \in Users : UE_stats'[q].crnti # RA_template[i].rnti
    BY <1>2 DEF SlotsOf
  <2> QED BY <1>0, <1>4, <1>5, <2>1, <2>2 DEF Templates, Flagged, SlotsOf
<1>10. Slots'
  BY <1>0, <1>2, <1>4, <1>5, <1>7 DEF Slots
<1>11. Removals'
  <2>1. \A v \in Threads : removal[v].at # "none" =>
          removal[v].rnti \in Rntis
    BY <1>0, Shapes DEF Removals
  <2>2. \A v \in Threads : removal[v].at # "none" =>
          (SlotsOf(removal[v].rnti) = {} => SlotsOf(removal[v].rnti)' = {})
    BY <1>6, <2>1
  <2> HIDE DEF Known, SlotsOf
  <2> QED BY <1>0, <1>4, <2>2 DEF Removals
<1>12. InProcedure'
  BY DEF InProcedure
<1>13. SlotForEveryUe'
  <2>1. ~Known(r)
    BY <1>1 DEF Unheard
  <2>2. \A u \in Users : UE_list[u] # NoRnti => UE_list[u] # r /\ UE_list[u] \in Rntis
    BY <1>0, <2>1, Shapes DEF Known
  <2> HIDE DEF SlotsOf
  <2>3. \A u \in Users : UE_list[u] # NoRnti => SlotsOf(UE_list[u])' = SlotsOf(UE_list[u])
    BY <1>6, <2>2
  <2> QED BY <1>0, <2>3 DEF SlotForEveryUe
<1> QED BY <1>8, <1>9, <1>10, <1>11, <1>12, <1>13
           DEF Ownership, AbortOnlyWhileRemoving, Running, RaInv

LEMMA Msg3Steps ==
  ASSUME RaInv, Running, NEW s \in Users,
         Msg3Lost(s) \/ Msg3WithCrnti(s) \/ Msg3WithNeither(s)
  PROVE  SlotForEveryUe' /\ AbortOnlyWhileRemoving' /\ Ownership'
<1>0. RaTypeOK /\ Distinct /\ Templates /\ Slots /\ InProcedure /\ Removals
      /\ SlotForEveryUe
  BY DEF RaInv, Ownership
<1>1. /\ UNCHANGED <<drawing, UE_list, removal, requests, context, rrc, modem, fate>>
      /\ UE_stats[s].crnti # NoRnti /\ UE_stats[s].msg3 # Msg3Done /\ modem.at = "idle"
  BY DEF Msg3Lost, Msg3WithCrnti, Msg3WithNeither, prachVars, rrcVars, Resting
<1>2. CASE Abandon(UE_stats[s].crnti)
  BY <1>1, <1>2, AbandonStep
<1>3. CASE (Msg3Lost(s) \/ Msg3WithNeither(s)) /\ ~Abandon(UE_stats[s].crnti)
  <2>1. PICK tries : /\ UE_stats' = [UE_stats EXCEPT ![s].msg3 = tries]
                     /\ RA_template' = RA_template
    BY <1>3 DEF Msg3Lost, Msg3WithNeither
  <2>2. /\ \A q \in Users : UE_stats'[q].crnti = UE_stats[q].crnti
        /\ \A q \in Users \ {s} : UE_stats'[q] = UE_stats[q]
    BY <1>0, <2>1, Shapes DEF PhySlot
  <2>3. \A x : /\ Known(x)' <=> Known(x)
               /\ RemovalOf(x)' <=> RemovalOf(x)
               /\ Backed(x)' <=> Backed(x)
               /\ SlotsOf(x)' = SlotsOf(x) /\ Procedure(x)' = Procedure(x)
    BY <1>1, <2>1, <2>2 DEF Known, RemovalOf, Backed, Gone, SlotsOf, Procedure
  <2>4. \A x : Unheard(x)' <=> Unheard(x)
    BY <1>1, <2>3 DEF Unheard
  <2>5. Distinct' /\ Templates'
    BY <1>0, <1>1, <2>1, <2>2, <2>3, <2>4 DEF Distinct, Templates, Flagged
  <2>6. Slots'
    BY <1>0, <1>1, <2>2, <2>3, <2>4 DEF Slots, Msg3Done
  <2>7. Removals' /\ InProcedure'
    BY <1>0, <1>1, <2>1, <2>3 DEF Removals, InProcedure
  <2>8. SlotForEveryUe'
    BY <1>0, <1>1, <2>3 DEF SlotForEveryUe
  <2> QED BY <1>1, <2>5, <2>6, <2>7, <2>8 DEF Ownership, AbortOnlyWhileRemoving, Running
<1> QED BY <1>2, <1>3 DEF Msg3WithCrnti

\* There are as many slots as entries in the list: while a UE that is not in the list
\* has a slot, the list is not full.
LEMMA ListHasRoom ==
  ASSUME RaTypeOK, Distinct, SlotForEveryUe, NEW s \in Users, ~Known(UE_stats[s].crnti),
         UE_stats[s].crnti # NoRnti
  PROVE  {u \in Users : UE_list[u] = NoRnti} # {}
<1> SUFFICES ASSUME \A u \in Users : UE_list[u] # NoRnti PROVE FALSE
  OBVIOUS
<1> DEFINE f == [u \in Users |-> CHOOSE q \in Users : UE_stats[q].crnti = UE_list[u]]
<1>1. \A u \in Users : f[u] \in Users /\ UE_stats[f[u]].crnti = UE_list[u]
  BY DEF SlotForEveryUe, SlotsOf
<1>2. f \in [Users -> Users] /\ \A u, v \in Users : f[u] = f[v] => u = v
  BY <1>1 DEF Distinct
<1> HIDE DEF f
<1>3. f \in Injection(Users, Users)
  BY <1>2 DEF Injection, IsInjective
<1>4. IsFiniteSet(Users)
  BY FS_Interval, RaAssumption DEF Users
<1>5. f \in Surjection(Users, Users)
  BY <1>3, <1>4, FS_Injection
<1>6. PICK u \in Users : f[u] = s
  BY <1>5 DEF Surjection
<1> QED BY <1>1, <1>6 DEF Known

\* The UE of a request gets into the list, and its procedure is the one that goes on.
LEMMA RequestStep ==
  ASSUME RaInv, Running, NEW s \in Users, Msg3WithRequest(s)
  PROVE  SlotForEveryUe' /\ AbortOnlyWhileRemoving' /\ Ownership'
<1> DEFINE r == UE_stats[s].crnti
           unused == {u \in Users : UE_list[u] = NoRnti}
           i == First(ActiveOf(r))
           w == First(unused)
<1>0. RaTypeOK /\ Distinct /\ Templates /\ Slots /\ InProcedure /\ Removals
      /\ SlotForEveryUe
  BY DEF RaInv, Ownership
<1>1. /\ r \in Rntis /\ r # NoRnti /\ UE_stats[s].msg3 # Msg3Done /\ modem.at = "idle"
      /\ UNCHANGED <<RA_template, drawing, removal, context, rrc>>
      /\ Unheard(r) /\ Procedure(r) # {}
  BY <1>0, Shapes DEF Msg3WithRequest, prachVars, Resting, Slots
<1>2. ~Known(r) /\ unused # {}
  BY <1>0, <1>1, ListHasRoom DEF Unheard
<1>3. w \in Users /\ UE_list[w] = NoRnti
  BY <1>2, FirstUser
<1>4. Procedure(r) \subseteq ActiveOf(r)
  BY DEF Procedure, ActiveOf
<1>5. i \in ActiveOf(r)
  BY <1>1, <1>4, FirstProc DEF ActiveOf
<1>6. \A j \in ActiveOf(r) : j = i
  BY <1>0, <1>1, <1>5 DEF ActiveOf, Distinct
<1>7. i \in Procs \ {drawing} /\ RA_template[i].RA_active /\ ~RA_template[i].generate_rar
      /\ RA_template[i].rnti = r
  BY <1>1, <1>4, <1>6 DEF Procedure
<1>8. /\ UE_stats' = [UE_stats EXCEPT ![s].msg3 = Msg3Done]
      /\ UE_list' = [UE_list EXCEPT ![w] = r]
      /\ requests' = Append(requests, r) /\ modem' = [at |-> "flag", of |-> i]
      /\ fate' = fate
  BY <1>1, <1>2, <1>4 DEF Msg3WithRequest
<1> HIDE DEF w, i, unused
<1>9. /\ \A q \in Users : UE_stats'[q].crnti = UE_stats[q].crnti
      /\ \A q \in Users \ {s} : UE_stats'[q] = UE_stats[q]
      /\ UE_stats'[s].msg3 = Msg3Done'
  <2>1. \A q \in Users : UE_stats'[q].crnti = UE_stats[q].crnti
    BY <1>0, <1>8, Shapes DEF PhySlot
  <2>2. UE_stats'[s].msg3 = Msg3Done
    BY <1>0, <1>8, Shapes DEF PhySlot
  <2> QED BY <1>0, <1>8, <2>1, <2>2, Shapes DEF Msg3Done
<1>10. \A u \in Users : UE_list'[u] = IF u = w THEN UE_stats[s].crnti ELSE UE_list[u]
  BY <1>0, <1>8, Shapes
<1> HIDE DEF r
<1>r. UE_stats[s].crnti = r
  BY DEF r
<1>11. \A x : /\ Known(x)' <=> Known(x) \/ x = r
              /\ RemovalOf(x)' <=> RemovalOf(x)
              /\ Backed(x) => Backed(x)'
              /\ SlotsOf(x)' = SlotsOf(x)
              /\ Procedure(x)' = Procedure(x)
  <2>1. \A x : Known(x)' <=> Known(x) \/ x = r
    BY <1>1, <1>3, <1>10, <1>r, Numbers DEF Known
  <2> QED BY <1>1, <1>9, <2>1 DEF RemovalOf, Backed, Gone, SlotsOf, Procedure
<1>12. \A x \in Rntis : x # r /\ Unheard(x) => Unheard(x)'
  <2>1. \A k \in 1..Len(requests') : requests'[k] = r
          \/ (k \in 1..Len(requests) /\ requests'[k] = requests[k])
    BY <1>0, <1>8, <1>1, Shapes
  <2> HIDE DEF Known, RemovalOf
  <2> QED BY <1>1, <1>11, <2>1 DEF Unheard
<1>13. Distinct'
  <2>1. \A u \in Users : UE_list[u] # r
    BY <1>1, <1>2 DEF Known
  <2> QED BY <1>0, <1>1, <1>9, <1>10, <1>r, <2>1 DEF Distinct
<1>14. Templates'
  <2>1. s \in SlotsOf(r)
    BY <1>r DEF SlotsOf
  <2> HIDE DEF SlotsOf, Unheard, Backed
  <2>2. ASSUME NEW j \in Procs \ {drawing}, RA_template[j].generate_rar
        PROVE  /\ RA_template[j].rnti # NoRnti /\ Unheard(RA_template[j].rnti)'
               /\ SlotsOf(RA_template[j].rnti)' = {}
    <3>1. /\ RA_template[j].rnti # NoRnti /\ Unheard(RA_template[j].rnti)
          /\ SlotsOf(RA_template[j].rnti) = {}
      BY <1>0, <2>2 DEF Templates
    <3>2. RA_template[j].rnti # r /\ RA_template[j].rnti \in Rntis
      BY <1>0, <2>1, <3>1, Shapes
    <3> QED BY <1>1, <1>11, <1>12, <3>1, <3>2
  <2>3. \A j \in Procs : Flagged(j)' => j # drawing /\ Backed(RA_template[j].rnti)'
    BY <1>0, <1>1, <1>11 DEF Templates, Flagged
  <2> QED BY <1>0, <1>1, <2>2, <2>3 DEF Templates
<1>15. Slots'
  <2> HIDE DEF Known, RemovalOf, Unheard, Procedure
  <2>1. ASSUME NEW q \in Users \ {s}, UE_stats[q].crnti # NoRnti
        PROVE  \/ Unheard(UE_stats[q].crnti)' /\ Procedure(UE_stats[q].crnti)' # {}
               \/ /\ UE_stats[q].msg3 = Msg3Done
                  /\ Known(UE_stats[q].crnti)' \/ RemovalOf(UE_stats[q].crnti)'
    <3>1. UE_stats[q].crnti # r /\ UE_stats[q].crnti \in Rntis
      BY <1>0, <1>r, <2>1, Shapes DEF Distinct
    <3>2. UE_stats'[q] = UE_stats[q]
      BY <1>9
    <3> QED BY <1>0, <1>11, <1>12, <2>1, <3>1, <3>2 DEF Slots
  <2>2. Known(UE_stats[s].crnti)'
    BY <1>9, <1>11, <1>r
  <2>3. \A q \in Users \ {s} : UE_stats'[q] = UE_stats[q]
    BY <1>9
  <2> QED BY <1>9, <2>1, <2>2, <2>3 DEF Slots, Msg3Done
<1>16. Removals'
  <2> HIDE DEF Known, SlotsOf
  <2>1. \A v \in Threads : removal[v].at # "none" => removal[v].rnti # r
    BY <1>1 DEF Unheard, RemovalOf, Threads
  <2>2. \A v \in Threads : removal[v].at = "drop" =>
          removal[v].id # w /\ UE_list'[removal[v].id] = removal[v].rnti
    BY <1>0, <1>3, <1>10, Shapes DEF Removals
  <2>3. removal["modem"].at = "none"
    BY <1>0, <1>1 DEF Removals
  <2> QED BY <1>0, <1>1, <1>11, <2>1, <2>2, <2>3 DEF Removals
<1>17. InProcedure'
  <2>1. \A x : x = r => Backed(x)'
    BY <1>11 DEF Backed
  <2> HIDE DEF Backed
  <2> QED BY <1>1, <1>7, <1>8, <2>1 DEF InProcedure
<1>18. SlotForEveryUe'
  <2>1. s \in SlotsOf(r)
    BY <1>r DEF SlotsOf
  <2> HIDE DEF SlotsOf
  <2> QED BY <1>0, <1>8, <1>10, <1>11, <1>r, <2>1 DEF SlotForEveryUe
<1> QED BY <1>1, <1>8, <1>13, <1>14, <1>15, <1>16, <1>17, <1>18
           DEF Ownership, AbortOnlyWhileRemoving, Running, RaInv

-----------------------------------------------------------------------------
(* Msg4 and the response.                                                  *)

\* The flags of a template change, and no slot or list with them.
LEMMA FlagSteps ==
  ASSUME RaInv, Running,
         FlagMsg4 \/ \E i \in Procs : CheckMsg4(i) \/ \E f \in BOOLEAN : SendMsg4(i, f)
  PROVE  SlotForEveryUe' /\ AbortOnlyWhileRemoving' /\ (Running' => Ownership')
<1>0. RaTypeOK /\ Distinct /\ Templates /\ Slots /\ InProcedure /\ Removals
  BY DEF RaInv, Ownership
<1>1. UNCHANGED <<drawing, UE_stats, UE_list, removal, requests, context, rrc>>
  BY DEF FlagMsg4, CheckMsg4, SendMsg4, prachVars, phyVars, rrcVars
<1>2. modem'.at \in {"idle", "ra", "rar"} /\ removal["modem"].at = "none"
  <2>1. CASE FlagMsg4
    BY <1>0, <2>1 DEF FlagMsg4, Resting, Removals
  <2>2. ASSUME NEW i \in Procs,
               modem \in {[at |-> "ra", of |-> i], [at |-> "msg4", of |-> i]},
               modem' = AfterProc(i, dlsch_ra)
        PROVE  modem'.at \in {"idle", "ra", "rar"} /\ removal["modem"].at = "none"
    <3>1. modem.at \in {"ra", "msg4"} /\ modem'.at \in {"idle", "ra", "rar"}
      BY <2>2 DEF AfterProc, Resting
    <3> QED BY <1>0, <3>1 DEF Removals
  <2>3. ASSUME NEW i \in Procs, CheckMsg4(i) \/ \E f \in BOOLEAN : SendMsg4(i, f)
        PROVE  modem'.at \in {"idle", "ra", "rar"} /\ removal["modem"].at = "none"
    BY <2>2, <2>3 DEF CheckMsg4, SendMsg4, At
  <2> QED BY <2>1, <2>3
<1>3. PICK i \in Procs \ {drawing} :
        /\ Backed(RA_template[i].rnti)
        /\ \A j \in Procs \ {i} : RA_template'[j] = RA_template[j]
        /\ RA_template'[i].rnti = RA_template[i].rnti
        /\ RA_template'[i].generate_rar = RA_template[i].generate_rar
        /\ RA_template[i].generate_rar => RA_template'[i].RA_active
  <2>1. CASE FlagMsg4
    <3>1. modem.of \in Procs \ {drawing} /\ Backed(RA_template[modem.of].rnti)
          /\ ~RA_template[modem.of].generate_rar
      BY <1>0, <2>1 DEF FlagMsg4, InProcedure
    <3> DEFINE i == modem.of
    <3>2. RA_template' = [RA_template EXCEPT ![i].generate_Msg4 = TRUE,
                                             ![i].wait_ack_Msg4 = FALSE]
      BY <2>1 DEF FlagMsg4
    <3>3. /\ \A j \in Procs \ {i} : RA_template'[j] = RA_template[j]
          /\ RA_template'[i].rnti = RA_template[i].rnti
          /\ RA_template'[i].generate_rar = RA_template[i].generate_rar
      BY <1>0, <3>1, <3>2, Shapes DEF Template
    <3> QED BY <3>1, <3>3
  <2>2. ASSUME NEW i \in Procs, NEW f \in BOOLEAN, SendMsg4(i, f)
        PROVE  /\ i # drawing /\ Backed(RA_template[i].rnti)
               /\ \A j \in Procs \ {i} : RA_template'[j] = RA_template[j]
               /\ RA_template'[i].rnti = RA_template[i].rnti
               /\ RA_template'[i].generate_rar = RA_template[i].generate_rar
               /\ RA_template[i].generate_rar => RA_template'[i].RA_active
    <3>1. i # drawing /\ Backed(RA_template[i].rnti) /\ ~RA_template[i].generate_rar
      BY <1>0, <2>2 DEF SendMsg4, InProcedure
    <3>2. RA_template' = RA_template
            \/ RA_template' = [RA_template EXCEPT ![i].generate_Msg4 = FALSE,
                                 ![i].wait_ack_Msg4 = TRUE, ![i].RA_active = FALSE]
      BY <2>2 DEF SendMsg4
    <3>3. /\ \A j \in Procs \ {i} : RA_template'[j] = RA_template[j]
          /\ RA_template'[i].rnti = RA_template[i].rnti
          /\ RA_template'[i].generate_rar = RA_template[i].generate_rar
      BY <1>0, <3>2, Shapes DEF Template
    <3> QED BY <3>1, <3>3
  <2>3. ASSUME NEW i \in Procs, CheckMsg4(i)
        PROVE  /\ i # drawing /\ Backed(RA_template[i].rnti)
               /\ \A j \in Procs \ {i} : RA_template'[j] = RA_template[j]
               /\ RA_template'[i].rnti = RA_template[i].rnti
               /\ RA_template'[i].generate_rar = RA_template[i].generate_rar
               /\ RA_template[i].generate_rar => RA_template'[i].RA_active
    <3>1. i # drawing /\ Backed(RA_template[i].rnti) /\ ~RA_template[i].generate_rar
      BY <1>0, <2>3 DEF CheckMsg4, Templates, Flagged
    <3>2. RA_template' = [RA_template EXCEPT ![i].wait_ack_Msg4 = FALSE]
      BY <2>3 DEF CheckMsg4
    <3>3. /\ \A j \in Procs \ {i} : RA_template'[j] = RA_template[j]
          /\ RA_template'[i].rnti = RA_template[i].rnti
          /\ RA_template'[i].generate_rar = RA_template[i].generate_rar
      BY <1>0, <3>2, Shapes DEF Template
    <3> QED BY <3>1, <3>3
  <2> HIDE DEF Backed
  <2> QED BY <2>1, <2>2, <2>3
<1>4. \A x : /\ Known(x)' <=> Known(x)
             /\ RemovalOf(x)' <=> RemovalOf(x)
             /\ Backed(x)' <=> Backed(x)
             /\ SlotsOf(x)' = SlotsOf(x)
  BY <1>1 DEF Known, RemovalOf, Backed, Gone, SlotsOf
<1>5. \A x : Unheard(x)' <=> Unheard(x)
  BY <1>1, <1>4 DEF Unheard
<1>6. \A x : Unheard(x) => x # RA_template[i].rnti
  BY <1>3 DEF Unheard, Backed, Gone, RemovalOf, Threads
<1>7. \A x : Unheard(x) => Procedure(x) \subseteq Procedure(x)'
  BY <1>1, <1>3, <1>6 DEF Procedure
<1>8. Distinct'
  BY <1>0, <1>1, <1>3 DEF Distinct
<1>9. Templates'
  <2> HIDE DEF Unheard, Backed, SlotsOf
  <2>1. \A j \in Procs : RA_template'[j].rnti = RA_template[j].rnti
                         /\ RA_template'[j].generate_rar = RA_template[j].generate_rar
    BY <1>3
  <2>2. \A j \in Procs : Flagged(j)' => j # drawing /\ Backed(RA_template[j].rnti)'
    BY <1>0, <1>3, <1>4, <2>1 DEF Templates, Flagged
  <2>3. \A j \in Procs : RA_template[j].generate_rar => RA_template'[j].RA_active
    BY <1>0, <1>3 DEF Templates
  <2> QED BY <1>0, <1>1, <1>4, <1>5, <2>1, <2>2, <2>3 DEF Templates
<1>10. Slots'
  BY <1>0, <1>1, <1>4, <1>5, <1>7 DEF Slots
<1>11. Removals'
  BY <1>0, <1>1, <1>2, <1>4 DEF Removals
<1>12. InProcedure'
  BY <1>2 DEF InProcedure
<1>13. Ownership'
  BY <1>8, <1>9, <1>10, <1>11, <1>12 DEF Ownership
<1>14. fate' = fate \/ (fate' = "aborted" /\ removal["rrc"].at \in {"phy", "clear"})
  <2>1. ASSUME NEW j \in Procs, CheckMsg4(j), ~Known(RA_template[j].rnti)
        PROVE  removal["rrc"].at \in {"phy", "clear"}
    <3>1. Backed(RA_template[j].rnti)
      BY <1>0, <2>1 DEF CheckMsg4, Templates, Flagged
    <3> QED BY <1>2, <2>1, <3>1 DEF Backed, Gone, Threads
  <2> QED BY <2>1 DEF FlagMsg4, CheckMsg4, SendMsg4
<1> QED BY <1>1, <1>13, <1>14, SlotsUnchanged DEF Running, AbortOnlyWhileRemoving

\* A response that cannot be sent gives up its procedure, which has no slot yet.
LEMMA GiveUpStep ==
  ASSUME RaInv, Running, NEW r, RA_template' = Cancelled(r), modem' = Resting,
         modem.at = "rar",
         \A s \in Users : UE_stats[s].crnti = r /\ r # NoRnti => Procedure(r) = {},
         UNCHANGED <<drawing, UE_stats, UE_list, removal, requests, context, rrc, fate>>
  PROVE  SlotForEveryUe' /\ AbortOnlyWhileRemoving' /\ Ownership'
<1>0. RaTypeOK /\ Distinct /\ Templates /\ Slots /\ InProcedure /\ Removals
  BY DEF RaInv, Ownership
<1>1. \A i \in Procs : RA_template'[i] = IF RA_template[i].rnti = r THEN Idle ELSE RA_template[i]
  BY DEF Cancelled
<1>2. \A x : /\ Known(x)' <=> Known(x)
             /\ RemovalOf(x)' <=> RemovalOf(x)
             /\ Backed(x)' <=> Backed(x)
             /\ SlotsOf(x)' = SlotsOf(x)
  BY DEF Known, RemovalOf, Backed, Gone, SlotsOf
<1>3. \A x : Unheard(x)' <=> Unheard(x)
  BY <1>2 DEF Unheard
<1>4. \A x : x # r => Procedure(x) \subseteq Procedure(x)'
  BY <1>1 DEF Procedure
<1>5. Distinct'
  BY <1>0, <1>1 DEF Distinct, Idle
<1>6. Templates'
  <2>1. \A i \in Procs : RA_template'[i].generate_rar \/ Flagged(i)' =>
          RA_template'[i] = RA_template[i]
    BY <1>1 DEF Flagged, Idle
  <2> HIDE DEF Unheard, Backed, SlotsOf
  <2> QED BY <1>0, <1>2, <1>3, <2>1 DEF Templates, Flagged
<1>7. Slots'
  BY <1>0, <1>2, <1>3, <1>4 DEF Slots
<1>8. removal["modem"].at = "none"
  BY <1>0 DEF Removals
<1>9. Removals'
  BY <1>0, <1>2, <1>8 DEF Removals
<1>10. InProcedure'
  BY DEF InProcedure, Resting
<1>11. SlotForEveryUe'
  BY SlotsUnchanged DEF Running
<1> QED BY <1>5, <1>6, <1>7, <1>9, <1>10, <1>11
           DEF Ownership, AbortOnlyWhileRemoving, Running, RaInv

\* add_ue gives a free slot to the UE of the response.
LEMMA AddUeStep ==
  ASSUME RaInv, Running, NEW i \in Procs, RA_template[i].generate_rar,
         RA_template[i].rnti # NoRnti, SlotsOf(NoRnti) # {},
         RA_template' = [RA_template EXCEPT ![i].generate_rar = FALSE],
         UE_stats' = [UE_stats EXCEPT
           ![First(SlotsOf(NoRnti))] = [crnti |-> RA_template[i].rnti, msg3 |-> 0]],
         fate' = IF drawing = i THEN "misdirected" ELSE fate,
         modem' = Resting, modem.at = "rar",
         UNCHANGED <<drawing, UE_list, removal, requests, context, rrc>>
  PROVE  SlotForEveryUe' /\ AbortOnlyWhileRemoving' /\ (Running' => Ownership')
<1>0. RaTypeOK /\ Distinct /\ Templates /\ Slots /\ InProcedure /\ Removals
      /\ SlotForEveryUe
  BY DEF RaInv, Ownership
<1>p. SlotsOf(NoRnti) \in SUBSET Users
  BY DEF SlotsOf
<1>q. First(SlotsOf(NoRnti)) \in SlotsOf(NoRnti)
  BY <1>p, FirstUser
<1>1. PICK f \in Users : f = First(SlotsOf(NoRnti)) /\ UE_stats[f].crnti = NoRnti
  BY <1>q DEF SlotsOf
<1>r. PICK r \in Rntis : r = RA_template[i].rnti
  BY <1>0, Shapes
<1>2. /\ UE_stats'[f] = [crnti |-> r, msg3 |-> 0]
      /\ \A s \in Users \ {f} : UE_stats'[s] = UE_stats[s]
  BY <1>0, <1>1, <1>r, Shapes
<1>a. UE_stats'[f].crnti = r /\ UE_stats'[f].msg3 = 0
  BY <1>2
<1>3. /\ \A j \in Procs \ {i} : RA_template'[j] = RA_template[j]
      /\ RA_template'[i].rnti = RA_template[i].rnti /\ ~RA_template'[i].generate_rar
      /\ RA_template'[i].RA_active = RA_template[i].RA_active
      /\ RA_template'[i].generate_Msg4 = RA_template[i].generate_Msg4
      /\ RA_template'[i].wait_ack_Msg4 = RA_template[i].wait_ack_Msg4
  BY <1>0, Shapes DEF Template
<1>4. \A x : /\ Known(x)' <=> Known(x)
             /\ RemovalOf(x)' <=> RemovalOf(x)
             /\ Backed(x)' <=> Backed(x)
  BY DEF Known, RemovalOf, Backed, Gone
<1>5. \A x : Unheard(x)' <=> Unheard(x)
  BY <1>4 DEF Unheard
<1>6. \A x \in Rntis : SlotsOf(x)' = IF x = r THEN SlotsOf(x) \cup {f} ELSE SlotsOf(x)
  BY <1>1, <1>2, <1>a, Numbers DEF SlotsOf
<1>7. SlotForEveryUe'
  <2>1. \A u \in Users : UE_list[u] # NoRnti => UE_list[u] \in Rntis
    BY <1>0, Shapes
  <2> HIDE DEF SlotsOf
  <2> QED BY <1>0, <1>6, <2>1 DEF SlotForEveryUe, Running
<1>8. ASSUME Running' PROVE Ownership'
  <2>1. /\ i # drawing /\ Unheard(r) /\ SlotsOf(r) = {} /\ RA_template[i].RA_active
    BY <1>0, <1>8, <1>r DEF Running, Templates
  <2>2. \A x : Procedure(x) \subseteq Procedure(x)'
    BY <1>3 DEF Procedure
  <2>3. i \in Procedure(r)'
    BY <1>3, <1>r, <2>1 DEF Procedure
  <2>4. Distinct'
    <3>1. \A s \in Users : UE_stats[s].crnti # r
      BY <2>1 DEF SlotsOf
    <3>2. \A j \in Procs : RA_template'[j].rnti = RA_template[j].rnti
      BY <1>3
    <3>3. \A s, q \in Users :
            UE_stats'[s].crnti = UE_stats'[q].crnti /\ UE_stats'[s].crnti # NoRnti => s = q
      BY <1>0, <1>2, <1>a, <3>1 DEF Distinct
    <3> QED BY <1>0, <3>2, <3>3 DEF Distinct
  <2>5. Templates'
    <3> HIDE DEF Unheard, Backed, SlotsOf
    <3>1. ASSUME NEW j \in Procs \ {drawing}, RA_template'[j].generate_rar
          PROVE  /\ RA_template[j].rnti # NoRnti /\ Unheard(RA_template[j].rnti)'
                 /\ SlotsOf(RA_template[j].rnti)' = {}
      <4>1. j # i /\ RA_template'[j] = RA_template[j]
        BY <1>3, <3>1
      <4>2. /\ RA_template[j].rnti # NoRnti /\ Unheard(RA_template[j].rnti)
            /\ SlotsOf(RA_template[j].rnti) = {}
        BY <1>0, <3>1, <4>1 DEF Templates
      <4>3. RA_template[j].rnti # r /\ RA_template[j].rnti \in Rntis
        BY <1>0, <1>r, <4>1, <4>2, Shapes DEF Distinct
      <4> QED BY <1>5, <1>6, <4>1, <4>2, <4>3
    <3>2. \A j \in Procs : RA_template'[j].rnti = RA_template[j].rnti /\ (Flagged(j)' <=> Flagged(j))
      BY <1>3 DEF Flagged
    <3>3. \A j \in Procs : RA_template'[j].generate_rar => RA_template'[j].RA_active
      BY <1>0, <1>3 DEF Templates
    <3> QED BY <1>0, <1>4, <3>1, <3>2, <3>3 DEF Templates
  <2>6. Slots'
    <3> HIDE DEF Unheard, Known, RemovalOf, Procedure
    <3>1. \A s \in Users \ {f} : UE_stats'[s].crnti # NoRnti =>
            \/ Unheard(UE_stats[s].crnti)' /\ Procedure(UE_stats[s].crnti)' # {}
            \/ /\ UE_stats'[s].msg3 = Msg3Done
               /\ Known(UE_stats[s].crnti)' \/ RemovalOf(UE_stats[s].crnti)'
      BY <1>0, <1>2, <1>4, <1>5, <2>2 DEF Slots
    <3>3. Unheard(r)' /\ Procedure(r)' # {}
      BY <1>5, <2>1, <2>3
    <3>4. Unheard(UE_stats[f].crnti)' /\ Procedure(UE_stats[f].crnti)' # {}
      BY <1>a, <3>3
    <3> QED BY <3>1, <3>4 DEF Slots
  <2>7. removal["modem"].at = "none"
    BY <1>0 DEF Removals
  <2>8. Removals'
    <3>1. \A v \in Threads : removal[v].at # "none" =>
            removal[v].rnti \in Rntis /\ removal[v].rnti # r
      BY <1>0, <2>1, Shapes DEF Removals, Unheard, RemovalOf, Threads
    <3>2. \A v \in Threads : removal[v].at # "none" =>
            SlotsOf(removal[v].rnti)' = SlotsOf(removal[v].rnti)
      BY <1>6, <3>1
    <3> HIDE DEF Known, SlotsOf
    <3> QED BY <1>0, <1>4, <2>7, <3>2 DEF Removals
  <2>9. InProcedure'
    BY DEF InProcedure, Resting
  <2> QED BY <2>4, <2>5, <2>6, <2>8, <2>9 DEF Ownership
<1>9. AbortOnlyWhileRemoving'
  BY DEF AbortOnlyWhileRemoving, Running
<1> QED BY <1>7, <1>8, <1>9

LEMMA SendRarStep ==
  ASSUME RaInv, Running, SendRar
  PROVE  SlotForEveryUe' /\ AbortOnlyWhileRemoving' /\ (Running' => Ownership')
<1> DEFINE waiting == {i \in Procs : RA_template[i].generate_rar}
           i == First(waiting)
           r == IF waiting = {} THEN NoRnti ELSE RA_template[i].rnti
<1>0. RaTypeOK /\ Distinct /\ Templates /\ Slots
  BY DEF RaInv, Ownership
<1>1. waiting # {} => i \in Procs /\ RA_template[i].generate_rar
  BY FirstProc
<1>2. /\ UNCHANGED <<drawing, UE_list, removal, requests, context, rrc>>
      /\ modem' = Resting /\ modem.at = "rar"
  BY DEF SendRar, prachVars, rrcVars
<1>3. IF r = NoRnti \/ SlotsOf(NoRnti) = {}
      THEN RA_template' = Cancelled(r) /\ UE_stats' = UE_stats /\ fate' = fate
      ELSE /\ RA_template' = [RA_template EXCEPT ![i].generate_rar = FALSE]
           /\ UE_stats' = [UE_stats EXCEPT ![First(SlotsOf(NoRnti))] = [crnti |-> r, msg3 |-> 0]]
           /\ fate' = IF drawing = i THEN "misdirected" ELSE fate
  BY DEF SendRar
<1>4. r # NoRnti => waiting # {} /\ r = RA_template[i].rnti
  OBVIOUS
<1> HIDE DEF waiting, i, r
<1>5. CASE r = NoRnti \/ SlotsOf(NoRnti) = {}
  <2>1. ASSUME NEW s \in Users, UE_stats[s].crnti = r, r # NoRnti
        PROVE  Procedure(r) = {}
    <3>1. i \in Procs /\ RA_template[i].generate_rar /\ RA_template[i].rnti = r
      BY <1>1, <1>4, <2>1
    <3>2. i = drawing
      BY <1>0, <2>1, <3>1 DEF Templates, SlotsOf
    <3> QED BY <1>0, <2>1, <3>1, <3>2 DEF Procedure, Distinct
  <2>2. RA_template' = Cancelled(r) /\ UE_stats' = UE_stats /\ fate' = fate
    BY <1>3, <1>5
  <2> QED BY <1>2, <2>1, <2>2, GiveUpStep
<1>6. CASE r # NoRnti /\ SlotsOf(NoRnti) # {}
  <2>1. i \in Procs /\ RA_template[i].generate_rar /\ RA_template[i].rnti = r
    BY <1>1, <1>4, <1>6
  <2>2. /\ RA_template' = [RA_template EXCEPT ![i].generate_rar = FALSE]
        /\ UE_stats' = [UE_stats EXCEPT ![First(SlotsOf(NoRnti))] =
                          [crnti |-> RA_template[i].rnti, msg3 |-> 0]]
        /\ fate' = IF drawing = i THEN "misdirected" ELSE fate
    BY <1>3, <1>6, <2>1
  <2> QED BY <1>2, <1>6, <2>1, <2>2, AddUeStep
<1> QED BY <1>5, <1>6

-----------------------------------------------------------------------------
(* The invariant, and what it shows.                                       *)

LEMMA OwnershipInit == RaInit => RaInv
<1> SUFFICES ASSUME RaInit PROVE RaInv
  OBVIOUS
<1>1. RaTypeOK
  <2>1. TemplateTypes
    BY RaAssumption DEF RaInit, TemplateTypes, Template, Idle
  <2>2. UserTypes
    BY Numbers DEF RaInit, UserTypes, PhySlot, Free, Threads
  <2>3. ModemTypes
    BY DEF RaInit, ModemTypes, Places, Resting
  <2>4. RrcTypes
    BY DEF RaInit, RrcTypes
  <2> QED BY <2>1, <2>2, <2>3, <2>4, RaTypesByPart
<1>2. /\ \A i \in Procs : RA_template[i] = Idle
      /\ \A s \in Users : UE_stats[s].crnti = NoRnti /\ UE_list[s] = NoRnti
      /\ \A t \in Threads : removal[t].at = "none"
      /\ modem.at = "idle" /\ fate = "running" /\ drawing = 0
  BY DEF RaInit, Free, Threads, Resting
<1>3. SlotForEveryUe /\ AbortOnlyWhileRemoving
  BY <1>2 DEF SlotForEveryUe, AbortOnlyWhileRemoving
<1>4. Distinct /\ Slots /\ InProcedure
  BY <1>2 DEF Distinct, Slots, InProcedure, Idle
<1>5. Templates
  BY <1>2 DEF Templates, Flagged, Idle
<1>6. Removals
  BY <1>2 DEF Removals, Threads
<1> QED BY <1>1, <1>3, <1>4, <1>5, <1>6 DEF RaInv, Ownership

LEMMA OwnershipStep == RaInv /\ [RaNext]_raVars => RaInv'
<1> SUFFICES ASSUME RaInv, [RaNext]_raVars PROVE RaInv'
  OBVIOUS
<1>1. CASE UNCHANGED raVars
  <2>1. UNCHANGED <<RA_template, drawing, preambles, UE_stats, UE_list, modem, dlsch_ra,
                    requests, Tx_buffer, context, rrc, removal, fate>>
    BY <1>1 DEF raVars, prachVars, phyVars, rrcVars
  <2>2. RaTypeOK' /\ SlotForEveryUe' /\ AbortOnlyWhileRemoving'
    BY <2>1 DEF RaInv, RaTypeOK, SlotForEveryUe, SlotsOf, AbortOnlyWhileRemoving
  <2>3. \A x : Known(x)' <=> Known(x)
    BY <2>1 DEF Known
  <2>4. \A x : (RemovalOf(x)' <=> RemovalOf(x)) /\ (Backed(x)' <=> Backed(x))
    BY <2>1, <2>3 DEF RemovalOf, Backed, Gone
  <2>5. \A x : Unheard(x) => Unheard(x)'
    BY <2>1, <2>3, <2>4 DEF Unheard
  <2>6. Running => Ownership'
    <3> SUFFICES ASSUME Running PROVE Ownership'
      OBVIOUS
    <3>1. Ownership /\ RaTypeOK /\ Removals /\ InProcedure
      BY DEF RaInv, Ownership
    <3>2. InProcedure'
      BY <2>1, <3>1, InProcedureKept
    <3> QED BY <2>1, <2>5, <3>1, <3>2, OwnershipSeen DEF Removals
  <2> QED BY <2>1, <2>2, <2>6 DEF RaInv, Running
<1>2. CASE RaNext
  <2>1. RaTypeOK' /\ Running
    BY <1>2, RaTypesKept DEF RaInv, RaNext, Running
  <2>2. SlotForEveryUe' /\ AbortOnlyWhileRemoving' /\ (Running' => Ownership')
    <3>1. CASE PrachStep
      BY <2>1, <3>1, InitiateStep, DrawStep DEF PrachStep
    <3>2. CASE FlagMsg4
      BY <2>1, <3>2, FlagSteps
    <3>3. CASE RaStep
      BY <2>1, <3>3, ScheduleSteps, FlagSteps, FetchStep, SendRarStep DEF RaStep
    <3>4. CASE TimerStep
      BY <2>1, <3>4, RrcSteps, ScheduleSteps, ModemBegins DEF TimerStep
    <3>5. CASE RrcStep
      BY <2>1, <3>5, RrcSteps, RrcBegins DEF RrcStep
    <3>6. ASSUME NEW s \in Users, ReceiveMsg3(s)
          PROVE  SlotForEveryUe' /\ AbortOnlyWhileRemoving' /\ (Running' => Ownership')
      BY <2>1, <3>6, Msg3Steps, RequestStep DEF ReceiveMsg3
    <3>7. ASSUME NEW t \in Threads, RemovalStep(t)
          PROVE  SlotForEveryUe' /\ AbortOnlyWhileRemoving' /\ (Running' => Ownership')
      BY <2>1, <3>7, LookUpStep, DropStep, PhyStep, ClearStep DEF RemovalStep
    <3> QED BY <1>2, <3>1, <3>2, <3>3, <3>4, <3>5, <3>6, <3>7 DEF RaNext, Threads
  <2> QED BY <2>1, <2>2 DEF RaInv
<1> QED BY <1>1, <1>2

LEMMA OwnershipHolds == RaSpec => []RaInv
BY OwnershipInit, OwnershipStep, PTL DEF RaSpec

\* Who is in the list of UEs of MAC has a slot of the PHY, and the list is never full when
\* a UE with a slot asks to be added, for every number of templates, UEs, RNTIs and
\* tries: the scheduler's way around UEs that the PHY does not know
\* (eNB_scheduler_ulsch.c:842) is for UEs whose RNTIs have been mixed up.
THEOREM EveryUeHasASlot == RaSpec => []SlotForEveryUe
<1>1. RaInv => SlotForEveryUe
  BY DEF RaInv
<1> QED BY <1>1, OwnershipHolds, PTL

\* An occupied slot has an owner that can give it back, in every interleaving of the PRACH
\* thread, the modem thread and the RRC task.
THEOREM SlotsHaveOwners == RaSpec => []NoSlotLeaks
<1>1. ASSUME RaInv PROVE NoSlotLeaks
  <2>1. RaTypeOK
    BY <1>1 DEF RaInv
  <2>2. ASSUME Running, NEW s \in Users, UE_stats[s].crnti # NoRnti
        PROVE  LET r == UE_stats[s].crnti IN ActiveOf(r) # {} \/ Known(r) \/ RemovalOf(r)
    <3>1. Slots
      BY <1>1, <2>2 DEF RaInv, Ownership
    <3>2. Procedure(UE_stats[s].crnti) \subseteq ActiveOf(UE_stats[s].crnti)
      BY DEF Procedure, ActiveOf
    <3> QED BY <2>2, <3>1, <3>2 DEF Slots
  <2> QED BY <2>1, <2>2 DEF NoSlotLeaks
<1> QED BY <1>1, OwnershipHolds, PTL

\* schedule_RA ends the process ("UE_id == -1") only in the window that rrc_mac_remove_ue
\* of the RRC task leaves open.
THEOREM AbortsWhileRemoving == RaSpec => []AbortOnlyWhileRemoving
<1>1. RaInv => AbortOnlyWhileRemoving
  BY DEF RaInv
<1> QED BY <1>1, OwnershipHolds, PTL

=============================================================================
