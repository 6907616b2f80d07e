------------------------------- MODULE RlcUm -------------------------------
(***************************************************************************)
(* RLC unacknowledged mode: one transmitter, one receiver and the radio    *)
(* between them, which loses, duplicates and reorders.  The SDUs are seen  *)
(* as one stream of units, SduSize to an SDU; a PDU carries an interval of *)
(* the stream, so that its framing information and length indicators say   *)
(* which of its units begin and end an SDU.                                *)
(*                                                                         *)
(* The receiver reassembles under a lock, but looks at t-Reordering before *)
(* it takes the lock: the threads rxtx of the modem do both, for a PDU     *)
(* received and for a status that the scheduler asks for.                  *)
(***************************************************************************)
EXTENDS Integers, Sequences, FiniteSets

CONSTANTS
  Threads,     \* threads that may be in the entity at the same time
  Window,      \* rx_um_window_size: 512 or 16, half of rx_sn_modulo
  SduSize,     \* units of an SDU
  MaxSdus,     \* bound: SDUs of the upper layer
  Rooms,       \* bound: units a transport block may have room for
  MaxAir,      \* bound: PDUs on the way at the same time, the HARQ processes
  MaxPdus      \* bound: PDUs sent

ASSUME RlcUmAssumption ==
  /\ Window \in Nat \ {0} /\ SduSize \in Nat \ {0} /\ Rooms \subseteq Nat \ {0}
  /\ MaxSdus \in Nat /\ MaxAir \in Nat /\ MaxPdus \in Nat

Modulo == 2 * Window
SN == 0..(Modulo - 1)
Sn(n) == n % Modulo    \* the sequence number of the n-th PDU, from 0
NoPdu == -1
Least(S) == CHOOSE i \in S : \A j \in S : i <= j

Units == 0..(MaxSdus * SduSize - 1)
Sdu(u) == u \div SduSize
BeginsSdu(u) == u % SduSize = 0
EndsSdu(u) == (u + 1) % SduSize = 0

VARIABLES
  submitted,   \* number of SDUs given to the transmitter
  taken,       \* number of units put into PDUs
  pdus,        \* the PDUs sent, as intervals of units: vt_us is their number
  air,         \* the PDUs on the way, by number
  rx,          \* the receiver
  top,         \* one more than the highest PDU that has reached the receiver
  accepted,    \* the PDUs the receiver has stored
  pc           \* of the threads

txVars == <<submitted, taken, pdus>>
umVars == <<txVars, air, rx, top, accepted, pc>>

PduNumbers == 0..(Len(pdus) - 1)
ReceiverType ==
  [vr_ur : SN, vr_ux : SN, vr_uh : SN,
   dar_buffer : [SN -> PduNumbers \cup {NoPdu}],
   t_reordering : {"stopped", "running", "expired"},
   output_sdu : Seq(Units),              \* output_sdu_in_construction
   missing : BOOLEAN,                    \* reassembly_missing_sn_detected
   last_reassemblied_sn : SN,
   delivered : Seq(Seq(Units))]          \* to PDCP, so far

RlcUmTypeOK ==
  /\ submitted \in 0..MaxSdus /\ taken \in 0..(submitted * SduSize)
  /\ pdus \in Seq([first : Units, last : Units])
  /\ air \subseteq PduNumbers /\ accepted \subseteq PduNumbers /\ top \in 0..Len(pdus)
  /\ rx \in ReceiverType
  /\ pc \in [Threads -> {"idle", "check", "expire"}]

RlcUmInit ==
  /\ submitted = 0 /\ taken = 0 /\ pdus = << >>
  /\ air = {} /\ top = 0 /\ accepted = {}
  /\ rx = [vr_ur |-> 0, vr_ux |-> 0, vr_uh |-> 0,
           dar_buffer |-> [s \in SN |-> NoPdu], t_reordering |-> "stopped",
           output_sdu |-> << >>, missing |-> FALSE,
           last_reassemblied_sn |-> Modulo - 1, delivered |-> << >>]
  /\ pc = [t \in Threads |-> "idle"]

-----------------------------------------------------------------------------
(* The transmitter and the radio.                                          *)

DataReq ==
  /\ submitted < MaxSdus
  /\ submitted' = submitted + 1
  /\ UNCHANGED <<taken, pdus, air, rx, top, accepted, pc>>

\* One PDU for a transport block of the MAC, of what the block has room for.
Segment(room) ==
  LET last == Least({taken + room, submitted * SduSize}) - 1 IN
  /\ Len(pdus) < MaxPdus /\ Cardinality(air) < MaxAir /\ taken < submitted * SduSize
  /\ pdus' = Append(pdus, [first |-> taken, last |-> last])
  /\ taken' = last + 1
  /\ air' = air \cup {Len(pdus)}
  /\ UNCHANGED <<submitted, rx, top, accepted, pc>>

Lose(n) == n \in air /\ air' = air \ {n} /\ UNCHANGED <<txVars, rx, top, accepted, pc>>

\* What sequence numbers can tell apart: no PDU comes a window late, and no window
\* of PDUs is lost in a row.
WithinReach(n) == n \in (top - Window)..(top + Window - 1)

-----------------------------------------------------------------------------
(* rlc_um_dar.c.  The operators take the receiver r and return what it     *)
(* becomes.                                                                *)

Buffered(r, sn) == r.dar_buffer[sn] # NoPdu

\* % of C keeps the sign of the dividend.
Rem(a, m) == IF a >= 0 THEN a % m ELSE -((-a) % m)

in_window(r, low, sn, high) ==
  LET rel(s) == Rem(s - (r.vr_uh - Window), Modulo) IN
  CASE rel(low) > rel(sn) -> -2
    [] rel(low) <= rel(sn) /\ rel(high) < rel(sn) -> -1
    [] rel(low) = rel(sn) /\ rel(high) = rel(sn) -> 3
    [] rel(low) = rel(sn) /\ rel(high) > rel(sn) -> 1
    [] rel(low) < rel(sn) /\ rel(high) = rel(sn) -> 2
    [] OTHER -> 0

\* Mutant of in_reordering_window: VR(UH) - UM_Window_Size is left out.
in_reordering_window_Open(r, sn) == Rem(sn - (r.vr_uh - Window), Modulo) \in 1..(Window - 1)

in_reordering_window(r, sn) == Rem(sn - (r.vr_uh - Window), Modulo) \in 0..(Window - 1)

AppendUnit(out, u) ==
  IF EndsSdu(u)
  THEN [output_sdu |-> << >>, delivered |-> Append(out.delivered, Append(out.output_sdu, u))]
  ELSE [out EXCEPT !.output_sdu = Append(@, u)]

AppendUnits(out, from, last) ==
  LET after[u \in (from - 1)..last] == IF u < from THEN out ELSE AppendUnit(after[u - 1], u)
  IN IF from > last THEN out ELSE after[last]

\* Mutant of Reassemble: a PDU is missing for one PDU only, even in the midst of an SDU.
Reassemble_Forgets(r, sn) ==
  IF ~Buffered(r, sn)
  THEN [r EXCEPT !.missing = TRUE, !.output_sdu = << >>]
  ELSE
  LET p == pdus[r.dar_buffer[sn] + 1]
      headless == r.missing /\ ~BeginsSdu(p.first)
      from == IF headless THEN (Sdu(p.first) + 1) * SduSize ELSE p.first
      out == AppendUnits([output_sdu |-> r.output_sdu, delivered |-> r.delivered], from, p.last)
  IN [r EXCEPT !.last_reassemblied_sn = sn, !.output_sdu = out.output_sdu,
               !.delivered = out.delivered, !.missing = FALSE, !.dar_buffer[sn] = NoPdu]

\* Mutant of Reassemble: the beginning of an SDU does not end the gap.
Reassemble_StaysMissing(r, sn) ==
  IF ~Buffered(r, sn)
  THEN [r EXCEPT !.missing = TRUE, !.output_sdu = << >>]
  ELSE
  LET p == pdus[r.dar_buffer[sn] + 1]
      kept == IF BeginsSdu(p.first) \/ Sn(r.last_reassemblied_sn + 1) # sn
              THEN << >> ELSE r.output_sdu
      headless == r.missing /\ ~BeginsSdu(p.first)
      from == IF headless THEN (Sdu(p.first) + 1) * SduSize ELSE p.first
      out == AppendUnits([output_sdu |-> kept, delivered |-> r.delivered], from, p.last)
  IN [r EXCEPT !.last_reassemblied_sn = sn, !.output_sdu = out.output_sdu,
               !.delivered = out.delivered,
               !.missing = r.missing /\ ~EndsSdu(p.last),
               !.dar_buffer[sn] = NoPdu]

\* One turn of the loop of rlc_um_try_reassembly.  After a missing PDU, the units of
\* an SDU that began in it are dropped.
Reassemble(r, sn) ==
  IF ~Buffered(r, sn)
  THEN [r EXCEPT !.missing = TRUE, !.output_sdu = << >>]
  ELSE
  LET p == pdus[r.dar_buffer[sn] + 1]
      kept == IF BeginsSdu(p.first) \/ Sn(r.last_reassemblied_sn + 1) # sn
              THEN << >> ELSE r.output_sdu
      headless == r.missing /\ ~BeginsSdu(p.first)
      from == IF headless THEN (Sdu(p.first) + 1) * SduSize ELSE p.first
      out == AppendUnits([output_sdu |-> kept, delivered |-> r.delivered], from, p.last)
  IN [r EXCEPT !.last_reassemblied_sn = sn, !.output_sdu = out.output_sdu,
               !.delivered = out.delivered,
               !.missing = headless /\ from > p.last /\ ~EndsSdu(p.last),
               !.dar_buffer[sn] = NoPdu]

try_reassembly(r, start, end) ==
  IF start = end THEN r
  ELSE LET after[k \in 0..Modulo] == IF k = 0 THEN r ELSE Reassemble(after[k - 1], Sn(start + k - 1))
       IN after[Least({k \in 1..Modulo : Sn(start + k) \in {r.vr_uh, end}})]

\* Mutant of Discard: old PDUs are taken for new ones.
Discard_Old(r, sn) == Buffered(r, sn) /\ in_window(r, r.vr_ur, sn, r.vr_uh) = 0

Discard(r, sn) ==
  \/ in_window(r, r.vr_uh - Window, sn, r.vr_ur) \in {0, 1}
  \/ Buffered(r, sn) /\ in_window(r, r.vr_ur, sn, r.vr_uh) = 0

\* A PDU outside of the window moves it, and VR(UR) with it if need be.
SlideWindow(r, sn) ==
  LET s == [r EXCEPT !.vr_uh = Sn(sn + 1)]
      low == Sn(s.vr_uh - Window)
  IN IF in_reordering_window(r, sn) THEN r
     ELSE IF in_reordering_window(s, s.vr_ur) THEN s
     ELSE [try_reassembly(s, s.vr_ur, low) EXCEPT !.vr_ur = low]

\* The PDU at VR(UR) has come: VR(UR) moves to the next one that has not.
Advance(r, sn) ==
  LET k == Least({j \in 1..Modulo : ~Buffered(r, Sn(sn + j)) \/ Sn(sn + j) = r.vr_uh})
  IN IF sn = r.vr_ur /\ Buffered(r, sn)
     THEN try_reassembly([r EXCEPT !.vr_ur = Sn(sn + k)], sn, Sn(sn + k))
     ELSE r

StopTimer(r) ==
  IF \/ r.vr_uh # r.vr_ux /\ ~in_reordering_window(r, r.vr_ux)
     \/ in_window(r, r.vr_ur, r.vr_ux, r.vr_uh) \in {-2, 1}
  THEN [r EXCEPT !.t_reordering = "stopped"]
  ELSE r

StartTimer(r) ==
  IF r.t_reordering = "stopped" /\ in_window(r, r.vr_ur, r.vr_uh, r.vr_uh) = 2
  THEN [r EXCEPT !.t_reordering = "running", !.vr_ux = r.vr_uh]
  ELSE r

-----------------------------------------------------------------------------
(* The threads.                                                            *)

\* rlc_um_receive_process_dar, all of it under the lock.  The radio may bring the
\* same PDU again.
Receive(t, n, again) ==
  LET sn == Sn(n)
      stored == [rx EXCEPT !.dar_buffer[sn] = n]
  IN
  /\ pc[t] = "idle" /\ n \in air /\ WithinReach(n)
  /\ IF Discard(rx, sn)
     THEN UNCHANGED <<rx, accepted>>
     ELSE /\ rx' = StartTimer(StopTimer(Advance(SlideWindow(stored, sn), sn)))
          /\ accepted' = accepted \cup {n}
  /\ top' = IF n < top THEN top ELSE n + 1
  /\ air' = IF again THEN air ELSE air \ {n}
  /\ pc' = [pc EXCEPT ![t] = "check"]
  /\ UNCHANGED txVars

\* The scheduler asks for the status of the entity.
StatusIndication(t) ==
  /\ pc[t] = "idle"
  /\ pc' = [pc EXCEPT ![t] = "check"]
  /\ UNCHANGED <<txVars, air, rx, top, accepted>>

TimeOut ==
  /\ rx.t_reordering = "running"
  /\ rx' = [rx EXCEPT !.t_reordering = "expired"]
  /\ UNCHANGED <<txVars, air, top, accepted, pc>>

\* rlc_um_check_timer_dar_time_out looks at the timer, without the lock.
CheckTimer(t) ==
  /\ pc[t] = "check"
  /\ pc' = [pc EXCEPT ![t] = IF rx.t_reordering = "expired" THEN "expire" ELSE "idle"]
  /\ UNCHANGED <<txVars, air, rx, top, accepted>>

\* Mutant of Expire: the timer is not started again.
Expire_Once(t) ==
  LET k == Least({j \in 0..Modulo : ~Buffered(rx, Sn(rx.vr_ux + j))})
      ur == Sn(rx.vr_ux + k)
  IN
  /\ pc[t] = "expire"
  /\ rx' = [try_reassembly([rx EXCEPT !.vr_ur = ur], rx.vr_ur, ur)
              EXCEPT !.t_reordering = "stopped"]
  /\ pc' = [pc EXCEPT ![t] = "idle"]
  /\ UNCHANGED <<txVars, air, top, accepted>>

\* Then it takes the lock and acts.  A thread that finds the lock taken leaves, as if
\* it had looked before the timer expired.
Expire(t) ==
  LET k == Least({j \in 0..Modulo : ~Buffered(rx, Sn(rx.vr_ux + j))})
      ur == Sn(rx.vr_ux + k)
  IN
  /\ pc[t] = "expire"
  /\ rx' = StartTimer([try_reassembly([rx EXCEPT !.vr_ur = ur], rx.vr_ur, ur)
                         EXCEPT !.t_reordering = "stopped"])
  /\ pc' = [pc EXCEPT ![t] = "idle"]
  /\ UNCHANGED <<txVars, air, top, accepted>>

RlcUmNext ==
  \/ DataReq
  \/ \E room \in Rooms : Segment(room)
  \/ \E n \in air : Lose(n)
  \/ TimeOut
  \/ \E t \in Threads :
       \/ \E n \in air, again \in BOOLEAN : Receive(t, n, again)
       \/ StatusIndication(t)
       \/ CheckTimer(t)
       \/ Expire(t)

RlcUmSpec == RlcUmInit /\ [][RlcUmNext]_umVars
=============================================================================
