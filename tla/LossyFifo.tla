----------------------------- MODULE LossyFifo -----------------------------
(* Abstract: SDUs are delivered at most once and in order; any may be lost. *)
EXTENDS Integers, Sequences

VARIABLES submitted, delivered

Increasing(s) == \A i, j \in DOMAIN s : i < j => s[i] < s[j]

Init == submitted = 0 /\ delivered = << >>

Submit == submitted' = submitted + 1 /\ UNCHANGED delivered

Deliver ==
  /\ delivered' \in Seq(0..(submitted - 1)) /\ Increasing(delivered')
  /\ SubSeq(delivered', 1, Len(delivered)) = delivered
  /\ UNCHANGED submitted

Spec == Init /\ [][Submit \/ Deliver]_<<submitted, delivered>>
=============================================================================
