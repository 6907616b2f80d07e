----------------------------- MODULE RlcUmProps -----------------------------
(* What the receiver promises to PDCP. *)
EXTENDS RlcUm

Numbers == [i \in DOMAIN rx.delivered |-> Sdu(rx.delivered[i][1])]
Held == {rx.dar_buffer[s] : s \in SN} \ {NoPdu}
UnitsOf(s) == {u \in Units : Sdu(u) = s}
Carries(n, s) == \E u \in UnitsOf(s) : u \in pdus[n + 1].first..pdus[n + 1].last

\* What is delivered is one whole SDU, never parts of two or the part of one, whatever
\* PDUs are missing (rlc_um_try_reassembly and reassembly_missing_sn_detected).
WholeSdus ==
  \A i \in DOMAIN rx.delivered :
    rx.delivered[i] = [j \in 1..SduSize |-> Sdu(rx.delivered[i][1]) * SduSize + j - 1]

\* "deliver the reassembled RLC SDUs to upper layer in ascending order of the RLC SN if
\* not delivered before" (rlc_um_dar.c:719).
InOrder == \A i, j \in DOMAIN Numbers : i < j => Numbers[i] < Numbers[j]

\* The receiver, with the transmitter and the radio, is a queue that loses SDUs.
Fifo == INSTANCE LossyFifo WITH delivered <- Numbers
IsLossyFifo == Fifo!Spec

\* Only the radio loses: an SDU whose PDUs have all been stored, and have left the
\* buffer, is delivered (the missing flag is cleared where an SDU begins).
NothingDropped ==
  \A s \in 0..(submitted - 1) :
    /\ taken >= (s + 1) * SduSize
    /\ \A n \in PduNumbers : Carries(n, s) => n \in accepted \ Held
    => \E i \in DOMAIN Numbers : Numbers[i] = s

\* The buffer holds PDUs between VR(UR) and VR(UH), each at its own number: a number
\* used again after a wrap never finds the PDU of the round before.
HeldInWindow ==
  /\ RlcUmTypeOK
  /\ Sn(top) = rx.vr_uh
  /\ \A n \in Held : rx.dar_buffer[Sn(n)] = n /\ n \in (top - Sn(rx.vr_uh - rx.vr_ur))..(top - 1)

\* Time passes, and the scheduler comes every subframe: a thread always moves on.
FairRlcUmSpec ==
  /\ RlcUmSpec
  /\ WF_umVars(TimeOut)
  /\ \A t \in Threads :
       WF_pc(\E l \in {"idle", "check", "expire"} : pc[t] # l /\ pc' = [pc EXCEPT ![t] = l])

\* No PDU stays in the buffer for ever: t-Reordering passes over the missing ones.
EveryPduPasses == \A n \in 0..(MaxPdus - 1) : n \in Held ~> n \notin Held
=============================================================================
