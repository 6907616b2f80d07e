-------------------------- MODULE RandomAccessProps --------------------------
(* What random access promises. *)
EXTENDS RandomAccess

Running == fate = "running"
RemovalOf(r) == \E t \in {"modem", "rrc"} : removal[t].at # "none" /\ removal[t].rnti = r

\* The scheduler works around UEs of MAC that the PHY does not know
\* (eNB_scheduler_ulsch.c:842-847, "root cause has to be found"), and add_new_ue
\* gives up on the message of a UE when the list is full ("reached max user count").
\* Neither happens as long as RNTIs are not mixed up: who is in the list has a slot.
SlotForEveryUe ==
  fate # "full" /\ \A u \in Users : UE_list[u] # NoRnti => SlotsOf(UE_list[u]) # {}

\* A slot is taken by add_ue of the modem thread and given back in Msg3 handling or
\* in rrc_mac_remove_ue, by another module or thread. However these interleave, an
\* occupied slot has an owner that can give it back: a procedure, a UE of MAC or
\* a removal under way.
NoSlotLeaks ==
  /\ RaTypeOK
  /\ Running => \A s \in Users : LET r == UE_stats[s].crnti IN
       r # NoRnti => ActiveOf(r) # {} \/ Known(r) \/ RemovalOf(r)

\* schedule_RA ends the process when the UE of a template is not
\* in the list. Between taking a UE from the list and cancelling its procedure
\* rrc_mac_remove_ue of the RRC task leaves a window for that; there is no other.
AbortOnlyWhileRemoving ==
  fate = "aborted" => removal["rrc"].at \in {"phy", "clear"}

\* The modem thread finishes what it began and calls schedule_RA and the reception
\* of Msg3 again and again; each timer runs out or is stopped; a response gets control
\* channel elements sooner or later; the other threads are scheduled. All these steps
\* stay possible until they are taken, so the states they lead to recur. The fairness
\* is about these states because every one of the steps is a choice of many actions.
RrcBusy == requests # << >> \/ rrc.new # NoRnti \/ removal["rrc"].at # "none"
RrcWorks == Len(requests') < Len(requests) \/ rrc' # rrc \/ removal'["rrc"] # removal["rrc"]
Expected(s) == UE_stats[s].crnti # NoRnti /\ UE_stats[s].msg3 # Msg3Done
FairRaSpec ==
  /\ RaSpec
  /\ []<>(~Running \/ modem = Resting)
  /\ []<>(~Running \/ modem.at = "ra"
            \/ \A i \in Procs : ~RA_template[i].RA_active /\ ~RA_template[i].wait_ack_Msg4)
  /\ \A i \in Procs :
       <>[]~(At(i) /\ RA_template[i].RA_active /\ RA_template[i].generate_rar)
         \/ []<><<At(i) /\ dlsch_ra'>>_modem
  /\ \A s \in Users :
       []<>(~Running \/ ~Expected(s)) \/ []<><<UE_stats'[s] # UE_stats[s]>>_raVars
  /\ \A r \in Rntis : []<>(~Running \/ context[r] \notin {"release", "failure"})
  /\ []<>(~Running \/ drawing = 0)
  /\ []<>(~Running \/ ~RrcBusy) \/ []<><<RrcWorks>>_raVars

\* Nobody is going to end the procedure of a template: the response has been sent, Msg3
\* is no longer expected, and the RRC task has nothing left to do for its UE, nor a timer.
\* This is where a UE is left whose Msg3 carries neither CCCH nor C-RNTI, one whose CCCH
\* message RRC ignores, and one whose rejection is lost for want of control channel
\* elements. Only a failure of the uplink, of a UE that MAC knows, may still remove it.
Stranded(i) ==
  LET p == RA_template[i] IN
  /\ p.RA_active /\ ~p.generate_rar /\ i # drawing
  /\ \A s \in SlotsOf(p.rnti) : ~Expected(s)
  /\ context[p.rnti] = "none" /\ rrc.new # p.rnti /\ ~RemovalOf(p.rnti)
  /\ \A k \in 1..Len(requests) : requests[k] # p.rnti
  /\ p.generate_Msg4 => Tx_buffer = NoRnti

\* The procedure of a template ends or is stranded, although responses go unanswered,
\* Msg3 is lost, one buffer holds the answers to all UEs, and a setup is lost when no
\* control channel elements are left: then the release timer of the UE ends it.
ProceduresEnd ==
  \A i \in Procs : RA_template[i].RA_active ~> ~RA_template[i].RA_active \/ ~Running \/ Stranded(i)
=============================================================================
