----------------------------- MODULE RandomAccess -----------------------------
(***************************************************************************)
(* Random access, the list of UEs of MAC and the slots of UEs of the PHY.  *)
(* Three threads share them without lock: the PRACH thread starts a        *)
(* procedure, the modem thread (MAC and PHY of one subframe after another) *)
(* carries it through, and the RRC task answers the request of the UE and  *)
(* removes UEs.  A UE is known by its RNTI everywhere.  The model ends with*)
(* `fate`, when the process aborts, or when one of three rare events       *)
(* happens from which the code does not recover: an RNTI in use is drawn   *)
(* again, a response carries the RNTI of an earlier procedure, or two      *)
(* threads free the same UE.                                               *)
(***************************************************************************)
EXTENDS Naturals, Sequences, FiniteSets

CONSTANTS
  NB_RA_PROC_MAX,
  NUMBER_OF_UE_MAX,
  maxHARQ_Msg3Tx,
  Rntis,              \* what the random generator may give
  MaxPreambles        \* bound: preambles the PRACH thread detects

NoRnti == 0
Procs == 1..NB_RA_PROC_MAX
Users == 1..NUMBER_OF_UE_MAX

ASSUME RaAssumption ==
  /\ NB_RA_PROC_MAX \in Nat \ {0} /\ NUMBER_OF_UE_MAX \in Nat \ {0}
  /\ maxHARQ_Msg3Tx \in Nat \ {0}
  /\ Rntis \subseteq Nat \ {NoRnti} /\ MaxPreambles \in Nat

VARIABLES
  RA_template,
  preambles,    \* detected so far
  drawing,      \* the template whose RNTI the PRACH thread has yet to draw, or 0
  UE_stats,     \* the slots of the PHY: RNTI, and failed receptions of Msg3
  UE_list,      \* the RNTIs of the active UEs of MAC
  modem,        \* where the modem thread is, and with which template or RNTI
  dlsch_ra,     \* a response is to be sent in this subframe
  requests,     \* CCCH messages on their way to the RRC task
  Tx_buffer,    \* of Srb0: the RNTI the answer in it is for
  context,      \* of each RNTI, by the timer that runs
  rrc,          \* the RRC task: whose request it answers, and whose context it moves
  removal,      \* per thread, where it is in rrc_mac_remove_ue
  fate

phyVars == <<UE_stats, dlsch_ra>>
rrcVars == <<requests, Tx_buffer, context, rrc>>
prachVars == <<drawing, preambles>>
raVars == <<RA_template, prachVars, phyVars, UE_list, modem, rrcVars, removal, fate>>

Idle == [RA_active |-> FALSE, generate_rar |-> FALSE, generate_Msg4 |-> FALSE,
         wait_ack_Msg4 |-> FALSE, rnti |-> NoRnti]
Free == [crnti |-> NoRnti, msg3 |-> 0]
Msg3Done == maxHARQ_Msg3Tx    \* Msg3 has been received
Resting == [at |-> "idle", of |-> 0]

RaTypeOK ==
  /\ RA_template \in [Procs -> [RA_active : BOOLEAN, generate_rar : BOOLEAN,
       generate_Msg4 : BOOLEAN, wait_ack_Msg4 : BOOLEAN, rnti : Rntis \cup {NoRnti}]]
  /\ drawing \in Procs \cup {0} /\ preambles \in 0..MaxPreambles
  /\ UE_stats \in [Users -> [crnti : Rntis \cup {NoRnti}, msg3 : 0..maxHARQ_Msg3Tx]]
  /\ UE_list \in [Users -> Rntis \cup {NoRnti}]
  /\ modem \in [at : {"idle", "flag", "ra", "msg4", "rar", "remove", "free"}, of : Nat]
  /\ dlsch_ra \in BOOLEAN
  /\ requests \in Seq(Rntis)
  /\ Tx_buffer \in Rntis \cup {NoRnti}
  /\ context \in [Rntis -> {"none", "release", "up", "failure"}]
  /\ rrc \in [new : Rntis \cup {NoRnti}, old : Rntis \cup {NoRnti}]
  /\ removal \in [{"modem", "rrc"} ->
       [at : {"none", "look", "drop", "phy", "clear"}, rnti : Rntis \cup {NoRnti}, id : Users]]
  /\ fate \in {"running", "aborted", "full", "collided", "misdirected", "raced"}

RaInit ==
  /\ RA_template = [i \in Procs |-> Idle] /\ drawing = 0 /\ preambles = 0
  /\ UE_stats = [s \in Users |-> Free] /\ dlsch_ra = FALSE
  /\ UE_list = [u \in Users |-> NoRnti]
  /\ modem = Resting
  /\ requests = << >> /\ Tx_buffer = NoRnti
  /\ context = [r \in Rntis |-> "none"]
  /\ rrc = [new |-> NoRnti, old |-> NoRnti]
  /\ removal = [t \in {"modem", "rrc"} |-> [at |-> "none", rnti |-> NoRnti, id |-> 1]]
  /\ fate = "running"

First(S) == CHOOSE x \in S : \A y \in S : x <= y

\* find_UE_id succeeds.
Known(r) == r # NoRnti /\ \E u \in Users : UE_list[u] = r

\* cancel_ra_proc, and the end of rrc_mac_remove_ue.
Cancelled(r) ==
  [i \in Procs |-> IF RA_template[i].rnti = r THEN Idle ELSE RA_template[i]]

SlotsOf(r) == {s \in Users : UE_stats[s].crnti = r}

\* mac_phy_remove_ue: the first slot with the RNTI.
Vacated(r) == IF r = NoRnti \/ SlotsOf(r) = {} THEN UE_stats
              ELSE [UE_stats EXCEPT ![First(SlotsOf(r))] = Free]

\* What a new UE must not share its RNTI with; the code looks at UE_list only.
InUse(r) ==
  \/ \E i \in Procs : RA_template[i].rnti = r
  \/ SlotsOf(r) # {} \/ context[r] # "none" \/ Tx_buffer = r
  \/ \E k \in 1..Len(requests) : requests[k] = r
  \/ r \in {rrc.new, rrc.old, removal["modem"].rnti, removal["rrc"].rnti}

-----------------------------------------------------------------------------
(* The PRACH thread: find_next_ue_index and initiate_ra_proc.              *)

Available == {i \in Procs : ~RA_template[i].RA_active /\ ~RA_template[i].wait_ack_Msg4}

\* The template is active before it has an RNTI; until then it keeps the old one.
Initiate ==
  /\ preambles < MaxPreambles /\ drawing = 0 /\ Available # {}
  /\ \E s \in Users : UE_stats[s].crnti = NoRnti
  /\ preambles' = preambles + 1
  /\ drawing' = First(Available)
  /\ RA_template' = [RA_template EXCEPT ![First(Available)] =
       [Idle EXCEPT !.RA_active = TRUE, !.generate_rar = TRUE, !.rnti = RA_template[First(Available)].rnti]]
  /\ UNCHANGED <<phyVars, UE_list, modem, rrcVars, removal, fate>>

Draw(r) ==
  /\ drawing # 0 /\ ~Known(r)
  /\ RA_template' = [RA_template EXCEPT ![drawing].rnti = r]
  /\ drawing' = 0
  /\ fate' = IF InUse(r) THEN "collided" ELSE fate
  /\ UNCHANGED <<preambles, phyVars, UE_list, modem, rrcVars, removal>>

-----------------------------------------------------------------------------
(* rrc_mac_remove_ue, in the modem thread or in the RRC task.              *)

Removing(t, r) == \E v \in {"modem", "rrc"} \ {t} :
                    removal[v].at # "none" /\ removal[v].rnti = r

StartRemoval(t, r) ==
  /\ removal' = [removal EXCEPT ![t] = [at |-> "look", rnti |-> r, id |-> 1]]
  /\ fate' = IF Removing(t, r) THEN "raced" ELSE fate

RemovalGoto(t, label) == removal' = [removal EXCEPT ![t].at = label]

\* Mutant of LookUp: the PHY is told before the UE is taken from the list.
LookUp_PhyFirst(t) ==
  LET r == removal[t].rnti IN
  /\ removal[t].at = "look"
  /\ IF Known(r)
     THEN removal' = [removal EXCEPT ![t].at = "drop",
                        ![t].id = First({u \in Users : UE_list[u] = r})]
     ELSE removal' = [removal EXCEPT ![t].at = "none", ![t].rnti = NoRnti]
  /\ UE_stats' = Vacated(r)
  /\ UNCHANGED <<RA_template, prachVars, dlsch_ra, UE_list, modem, rrcVars, fate>>

LookUp(t) ==
  LET r == removal[t].rnti IN
  /\ removal[t].at = "look"
  /\ IF Known(r)
     THEN /\ removal' = [removal EXCEPT ![t].at = "drop",
                           ![t].id = First({u \in Users : UE_list[u] = r})]
          /\ UNCHANGED UE_stats
     ELSE /\ removal' = [removal EXCEPT ![t].at = "none", ![t].rnti = NoRnti]
          /\ UE_stats' = Vacated(r)
  /\ UNCHANGED <<RA_template, prachVars, dlsch_ra, UE_list, modem, rrcVars, fate>>

Drop(t) ==
  /\ removal[t].at = "drop"
  /\ UE_list' = [UE_list EXCEPT ![removal[t].id] = NoRnti]
  /\ RemovalGoto(t, "phy")
  /\ UNCHANGED <<RA_template, prachVars, phyVars, modem, rrcVars, fate>>

RemoveFromPhy(t) ==
  /\ removal[t].at = "phy"
  /\ UE_stats' = Vacated(removal[t].rnti)
  /\ RemovalGoto(t, "clear")
  /\ UNCHANGED <<RA_template, prachVars, dlsch_ra, UE_list, modem, rrcVars, fate>>

\* The modem thread is about to write flags of a template of r.
Writing(r) == modem.at \in {"flag", "msg4"} /\ RA_template[modem.of].rnti = r

\* Mutant of ClearProcs: the procedure of the UE goes on.
ClearProcs_Forget(t) ==
  /\ removal[t].at = "clear"
  /\ removal' = [removal EXCEPT ![t].at = "none", ![t].rnti = NoRnti]
  /\ UNCHANGED <<RA_template, prachVars, phyVars, UE_list, modem, rrcVars, fate>>

ClearProcs(t) ==
  LET r == removal[t].rnti IN
  /\ removal[t].at = "clear"
  /\ RA_template' = Cancelled(r)
  /\ fate' = IF Writing(r) THEN "raced" ELSE fate
  /\ removal' = [removal EXCEPT ![t].at = "none", ![t].rnti = NoRnti]
  /\ UNCHANGED <<prachVars, phyVars, UE_list, modem, rrcVars>>

-----------------------------------------------------------------------------
(* The modem thread receives Msg3 of a slot.                               *)

\* Mutant of Abandon: mac_phy_remove_ue is forgotten.
Abandon_KeepSlot(r) == RA_template' = Cancelled(r) /\ UNCHANGED UE_stats

Abandon(r) == RA_template' = Cancelled(r) /\ UE_stats' = Vacated(r)

Msg3Lost(s) ==
  LET tries == UE_stats[s].msg3 + 1 IN
  /\ modem = Resting /\ UE_stats[s].crnti # NoRnti /\ UE_stats[s].msg3 # Msg3Done
  /\ IF tries = maxHARQ_Msg3Tx
     THEN Abandon(UE_stats[s].crnti)
     ELSE UE_stats' = [UE_stats EXCEPT ![s].msg3 = tries] /\ UNCHANGED RA_template
  /\ UNCHANGED <<prachVars, dlsch_ra, UE_list, modem, rrcVars, removal, fate>>

\* The C-RNTI of a UE that is connected already, or an empty PDU.
Msg3WithCrnti(s) ==
  /\ modem = Resting /\ UE_stats[s].crnti # NoRnti /\ UE_stats[s].msg3 # Msg3Done
  /\ Abandon(UE_stats[s].crnti)
  /\ UNCHANGED <<prachVars, dlsch_ra, UE_list, modem, rrcVars, removal, fate>>

\* Neither a CCCH SDU nor a C-RNTI: the PHY takes it as received, and the template stays.
Msg3WithNeither(s) ==
  /\ modem = Resting /\ UE_stats[s].crnti # NoRnti /\ UE_stats[s].msg3 # Msg3Done
  /\ UE_stats' = [UE_stats EXCEPT ![s].msg3 = Msg3Done]
  /\ UNCHANGED <<RA_template, prachVars, dlsch_ra, UE_list, modem, rrcVars, removal, fate>>

ActiveOf(r) == {i \in Procs : RA_template[i].RA_active /\ RA_template[i].rnti = r}

\* rx_sdu with a request: add_new_ue, mac_rrc_data_ind.
Msg3WithRequest(s) ==
  LET r == UE_stats[s].crnti
      unused == {u \in Users : UE_list[u] = NoRnti}
  IN
  /\ modem = Resting /\ r # NoRnti /\ UE_stats[s].msg3 # Msg3Done
  /\ UE_stats' = [UE_stats EXCEPT ![s].msg3 = Msg3Done]
  /\ IF ActiveOf(r) = {}
     THEN UNCHANGED <<UE_list, requests, modem, fate>>
     ELSE /\ UE_list' = IF Known(r) \/ unused = {} THEN UE_list
                        ELSE [UE_list EXCEPT ![First(unused)] = r]
          /\ fate' = IF ~Known(r) /\ unused = {} THEN "full" ELSE fate
          /\ requests' = Append(requests, r)
          /\ modem' = [at |-> "flag", of |-> First(ActiveOf(r))]
  /\ UNCHANGED <<RA_template, prachVars, dlsch_ra, Tx_buffer, context, rrc, removal>>

\* generate_Msg4 is set after the request has been passed on.
FlagMsg4 ==
  /\ modem.at = "flag"
  /\ RA_template' = [RA_template EXCEPT ![modem.of].generate_Msg4 = TRUE,
                                        ![modem.of].wait_ack_Msg4 = FALSE]
  /\ modem' = Resting
  /\ UNCHANGED <<prachVars, phyVars, UE_list, rrcVars, removal, fate>>

-----------------------------------------------------------------------------
(* schedule_RA in subframes 0 and 5: all templates in turn, then the PHY.  *)

StartRa ==
  /\ modem = Resting
  /\ \E i \in Procs : RA_template[i].RA_active \/ RA_template[i].wait_ack_Msg4
  /\ modem' = [at |-> "ra", of |-> 1]
  /\ UNCHANGED <<RA_template, prachVars, phyVars, UE_list, rrcVars, removal, fate>>

AfterProc(i, rar) ==
  IF i < NB_RA_PROC_MAX THEN [at |-> "ra", of |-> i + 1]
  ELSE IF rar THEN [at |-> "rar", of |-> 0] ELSE Resting

At(i) == modem = [at |-> "ra", of |-> i]

\* `feasible` says whether control channel elements are left.
ScheduleRar(i, feasible) ==
  /\ At(i) /\ RA_template[i].RA_active /\ RA_template[i].generate_rar
  /\ dlsch_ra' = (dlsch_ra \/ feasible)
  /\ modem' = AfterProc(i, dlsch_ra')
  /\ UNCHANGED <<RA_template, prachVars, UE_stats, UE_list, rrcVars, removal, fate>>

\* mac_rrc_data_req takes what Srb0 holds, whoever it is for.
FetchSetup(i) ==
  LET p == RA_template[i] IN
  /\ At(i) /\ p.RA_active /\ ~p.generate_rar /\ p.generate_Msg4
  /\ fate' = IF Known(p.rnti) THEN fate ELSE "aborted"
  /\ Tx_buffer' = NoRnti
  /\ modem' = IF Tx_buffer = NoRnti THEN AfterProc(i, dlsch_ra) ELSE [at |-> "msg4", of |-> i]
  /\ UNCHANGED <<RA_template, prachVars, phyVars, UE_list, requests, context, rrc, removal>>

\* Without control channel elements the setup is lost.
SendMsg4(i, feasible) ==
  /\ modem = [at |-> "msg4", of |-> i]
  /\ RA_template' = IF feasible
       THEN [RA_template EXCEPT ![i].generate_Msg4 = FALSE,
               ![i].wait_ack_Msg4 = TRUE, ![i].RA_active = FALSE]
       ELSE RA_template
  /\ modem' = AfterProc(i, dlsch_ra)
  /\ UNCHANGED <<prachVars, phyVars, UE_list, rrcVars, removal, fate>>

\* Feedback comes later than the next check, which finds the process in round 0.
CheckMsg4(i) ==
  LET p == RA_template[i] IN
  /\ At(i) /\ ~p.RA_active /\ p.wait_ack_Msg4
  /\ RA_template' = [RA_template EXCEPT ![i].wait_ack_Msg4 = FALSE]
  /\ fate' = IF Known(p.rnti) THEN fate ELSE "aborted"
  /\ modem' = AfterProc(i, dlsch_ra)
  /\ UNCHANGED <<prachVars, phyVars, UE_list, rrcVars, removal>>

PassProc(i) ==
  LET p == RA_template[i] IN
  /\ At(i)
  /\ IF p.RA_active THEN ~p.generate_rar /\ ~p.generate_Msg4 ELSE ~p.wait_ack_Msg4
  /\ modem' = AfterProc(i, dlsch_ra)
  /\ UNCHANGED <<RA_template, prachVars, phyVars, UE_list, rrcVars, removal, fate>>

\* fill_rar and add_ue: the response is for the first template that wants one.
SendRar ==
  LET waiting == {i \in Procs : RA_template[i].generate_rar}
      i == First(waiting)
      r == IF waiting = {} THEN NoRnti ELSE RA_template[i].rnti
      slots == SlotsOf(NoRnti)
  IN
  /\ modem.at = "rar"
  /\ IF r = NoRnti \/ slots = {}
     THEN RA_template' = Cancelled(r) /\ UNCHANGED <<UE_stats, fate>>
     ELSE /\ RA_template' = [RA_template EXCEPT ![i].generate_rar = FALSE]
          /\ UE_stats' = [UE_stats EXCEPT ![First(slots)] = [crnti |-> r, msg3 |-> 0]]
          /\ fate' = IF drawing = i THEN "misdirected" ELSE fate
  /\ dlsch_ra' = FALSE
  /\ modem' = Resting
  /\ UNCHANGED <<prachVars, UE_list, rrcVars, removal>>

-----------------------------------------------------------------------------
(* rrc_rx_tx and the failure of a UE, in the modem thread.                 *)

\* The release or the failure timer of a UE ends: rrc_eNB_free_UE.
Expire(r) ==
  /\ modem = Resting /\ context[r] \in {"release", "failure"}
  /\ removal' = [removal EXCEPT !["modem"] = [at |-> "look", rnti |-> r, id |-> 1]]
  /\ fate' = IF Removing("modem", r) \/ rrc.old = r THEN "raced" ELSE fate
  /\ modem' = [at |-> "free", of |-> r]
  /\ UNCHANGED <<RA_template, prachVars, phyVars, UE_list, rrcVars>>

FreeContext ==
  /\ modem.at = "free" /\ removal["modem"].at = "none"
  /\ context' = [context EXCEPT ![modem.of] = "none"]
  /\ modem' = Resting
  /\ UNCHANGED <<RA_template, prachVars, phyVars, UE_list, requests, Tx_buffer, rrc, removal, fate>>

\* mac_eNB_rrc_ul_failure.
UlFailure(r) ==
  /\ modem = Resting /\ Known(r)
  /\ context' = [context EXCEPT ![r] = IF @ = "up" THEN "failure" ELSE @]
  /\ StartRemoval("modem", r)
  /\ modem' = [at |-> "remove", of |-> 0]
  /\ UNCHANGED <<RA_template, prachVars, phyVars, UE_list, requests, Tx_buffer, rrc>>

EndRemoval ==
  /\ modem.at = "remove" /\ removal["modem"].at = "none"
  /\ modem' = Resting
  /\ UNCHANGED <<RA_template, prachVars, phyVars, UE_list, rrcVars, removal, fate>>

-----------------------------------------------------------------------------
(* The RRC task takes the next CCCH message.                               *)

Answering == rrc.new # NoRnti
RrcIdle == ~Answering /\ removal["rrc"].at = "none"

\* Mutant of Setup: the release timer is not started.
Setup_NoTimer(r, moved) ==
  /\ context' = [c \in Rntis |-> IF c = r THEN "up" ELSE IF c = moved THEN "none" ELSE context[c]]
  /\ Tx_buffer' = r

\* rrc_eNB_generate_RRCConnectionSetup, which starts the release timer.
Setup(r, moved) ==
  /\ context' = [c \in Rntis |-> IF c = r THEN "release" ELSE IF c = moved THEN "none" ELSE context[c]]
  /\ Tx_buffer' = r

Accept ==
  /\ RrcIdle /\ requests # << >>
  /\ Setup(Head(requests), NoRnti)
  /\ requests' = Tail(requests)
  /\ UNCHANGED <<RA_template, prachVars, phyVars, UE_list, modem, rrc, removal, fate>>

\* The identity of the UE, or the one all UEs with an S-TMSI share, is taken.
Refuse ==
  /\ RrcIdle /\ requests # << >>
  /\ \E c \in Rntis \ {Head(requests)} : context[c] # "none"
  /\ StartRemoval("rrc", Head(requests))
  /\ requests' = Tail(requests)
  /\ UNCHANGED <<RA_template, prachVars, phyVars, UE_list, modem, Tx_buffer, context, rrc>>

\* Every reestablishment is rejected, and so is a request without identity: an answer,
\* but no context, no timer and no removal.
Reject ==
  /\ RrcIdle /\ requests # << >>
  /\ Tx_buffer' = Head(requests)
  /\ requests' = Tail(requests)
  /\ UNCHANGED <<RA_template, prachVars, phyVars, UE_list, modem, context, rrc, removal, fate>>

\* What cannot be decoded, is empty or is unknown gets no answer at all.
Ignore ==
  /\ RrcIdle /\ requests # << >>
  /\ requests' = Tail(requests)
  /\ UNCHANGED <<RA_template, prachVars, phyVars, UE_list, modem, Tx_buffer, context, rrc, removal, fate>>

\* The S-TMSI belongs to a UE that was here as `old`.
Recognise(old) ==
  /\ RrcIdle /\ requests # << >> /\ old # Head(requests) /\ context[old] # "none"
  /\ rrc' = [new |-> Head(requests), old |-> old]
  /\ requests' = Tail(requests)
  /\ removal' = [removal EXCEPT !["rrc"] = [at |-> "look", rnti |-> old, id |-> 1]]
  /\ fate' = IF Removing("rrc", old) THEN "raced" ELSE fate
  /\ UNCHANGED <<RA_template, prachVars, phyVars, UE_list, modem, Tx_buffer, context>>

\* Its context moves to the new RNTI.
Rekey ==
  /\ Answering /\ removal["rrc"].at = "none"
  /\ Setup(rrc.new, rrc.old)
  /\ rrc' = [new |-> NoRnti, old |-> NoRnti]
  /\ UNCHANGED <<RA_template, prachVars, phyVars, UE_list, modem, requests, removal, fate>>

\* RRCConnectionSetupComplete of a UE that has received Msg4.
Complete(r) ==
  /\ RrcIdle /\ context[r] = "release" /\ Known(r) /\ ActiveOf(r) = {}
  /\ context' = [context EXCEPT ![r] = "up"]
  /\ UNCHANGED <<RA_template, prachVars, phyVars, UE_list, modem, requests, Tx_buffer, rrc, removal, fate>>

\* rrc_eNB_generate_RRCConnectionRelease.
Release(r) ==
  /\ RrcIdle /\ context[r] = "up"
  /\ context' = [context EXCEPT ![r] = "release"]
  /\ UNCHANGED <<RA_template, prachVars, phyVars, UE_list, modem, requests, Tx_buffer, rrc, removal, fate>>

-----------------------------------------------------------------------------
PrachStep == Initiate \/ \E r \in Rntis : Draw(r)
RemovalStep(t) == LookUp(t) \/ Drop(t) \/ RemoveFromPhy(t) \/ ClearProcs(t)
ReceiveMsg3(s) == Msg3Lost(s) \/ Msg3WithCrnti(s) \/ Msg3WithNeither(s) \/ Msg3WithRequest(s)
RaStep ==
  \/ StartRa \/ SendRar
  \/ \E i \in Procs :
       \/ \E feasible \in BOOLEAN : ScheduleRar(i, feasible) \/ SendMsg4(i, feasible)
       \/ FetchSetup(i) \/ CheckMsg4(i) \/ PassProc(i)
TimerStep == FreeContext \/ EndRemoval \/ \E r \in Rntis : Expire(r) \/ UlFailure(r)
RrcStep ==
  \/ Accept \/ Refuse \/ Reject \/ Ignore \/ Rekey
  \/ \E r \in Rntis : Recognise(r) \/ Complete(r) \/ Release(r)

RaNext ==
  /\ fate = "running"
  /\ \/ PrachStep \/ FlagMsg4 \/ RaStep \/ TimerStep \/ RrcStep
     \/ \E s \in Users : ReceiveMsg3(s)
     \/ \E t \in {"modem", "rrc"} : RemovalStep(t)

RaSpec == RaInit /\ [][RaNext]_raVars
=============================================================================
