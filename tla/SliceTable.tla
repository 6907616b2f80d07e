----------------------------- MODULE SliceTable -----------------------------
(***************************************************************************)
(* The slice table of the radio access network and the threads that        *)
(* maintain it: openair2/LAYER2/MAC/main.c, from socket_recv_function to   *)
(* start_radio_slicing_function, and GLOBAL_INFOS of MAC/defs.h.           *)
(*                                                                         *)
(* process_in_thread accepts connections of the hypervisor forever, keeps  *)
(* the latest socket in the one global SOCKET_ID and starts a              *)
(* recv_in_thread for each; a recv_in_thread reads the global again before *)
(* every recv, so what it reads is not always what it was created for.     *)
(*                                                                         *)
(* A message is BUFFER_SIZE doubles on a byte stream, more than a segment  *)
(* of TCP.  recv with MSG_WAITALL copies what has arrived and waits for    *)
(* the rest; while it waits, another thread in recv on the same socket may *)
(* copy what comes next.  The doubles of a full buffer, or of a short one  *)
(* when the connection has ended, are stored field by field, without a     *)
(* lock, in the table the MAC scheduler reads.                             *)
(*                                                                         *)
(* Connection and thread a are those of the a-th return of accept().       *)
(***************************************************************************)
EXTENDS Integers, Sequences, FiniteSets

CONSTANTS
  Allocations,    \* the messages of the hypervisor: <<uRB 0, dRB 0, uRB 1, dRB 1>>
  Garbage,        \* the ints that a double nobody meant for a field may convert
                  \* to: stack left in recv_data, padding, halves of two doubles
  BUFFER_SIZE,    \* Global_Info.BUFFER_SIZE, the doubles of a message
  Segments,       \* doubles that may be there when recv looks (a bound)
  MaxAccepts,     \* bound on the returns of accept()
  MaxOverlaps,    \* the same bound for a hypervisor without manners
  MaxSends,       \* bound on the messages
  MayFail,        \* the returns of accept() that may be failures (a bound)
  TruncateAt      \* the doubles delivered of a message its connection breaks in

Fields == 1..4
Slices == 0..2             \* SLICENUM is 3
Accepts == 1..MaxAccepts
BadSocket == -1            \* what a failed accept() returns

ASSUME SliceTableAssumption ==
  /\ MaxAccepts \in Nat /\ MaxOverlaps \in Nat /\ MaxSends \in Nat /\ MayFail \subseteq Nat
  /\ Garbage \subseteq Int
  /\ Allocations \subseteq [Fields -> Nat]
  /\ BUFFER_SIZE \in Nat /\ BUFFER_SIZE >= 4
  /\ Segments \subseteq Nat
  /\ TruncateAt \subseteq 1..(BUFFER_SIZE - 1)

VARIABLES
  SOCKET_ID, \* Global_Info.SOCKET_ID
  uRB, dRB,  \* Global_Info.Slice_Info[i].uRB and .dRB
  returns,   \* how often accept() has returned
  open,      \* connections the hypervisor has not closed
  inbox,     \* inbox[a]: what is in flight on connection a
  sends,     \* messages sent
  pc,        \* pc[t]: where recv_in_thread t is
  fd,        \* fd[t]: the socket its recv was called with
  buffer,    \* buffer[t]: what the recv of thread t has copied so far
  data,      \* data[t]: recv_data, the doubles the code uses, as ints
  field,     \* field[t]: the next field to store
  latest,    \* the allocation sent last (history)
  serial     \* the hypervisor's manners: it connects only while no thread
             \* lives, and its connections break only between messages

tableVars == <<uRB, dRB>>
netVars == <<returns, open, inbox, sends, latest, serial>>
threadVars == <<pc, fd, buffer, data, field>>
sliceVars == <<SOCKET_ID, uRB, dRB, returns, open, inbox, sends,
               pc, fd, buffer, data, field, latest, serial>>

Places == {"none", "call", "recv", "apply", "done"}
Nothing == [f \in Fields |-> 0]
InitialAllocation == [f \in Fields |-> 10]

\* A double on its way: the one at that place of a message; places after the
\* fourth are padding.
Words == [of : Allocations, at : 1..BUFFER_SIZE]

\* The first n doubles of message m.
Doubles(m, n) == [i \in 1..n |-> [of |-> m, at |-> i]]

SliceTypeOK ==
  /\ SOCKET_ID \in {BadSocket, 0} \cup Accepts
  /\ uRB \in [Slices -> Int] /\ dRB \in [Slices -> Int]
  /\ returns \in 0..MaxAccepts
  /\ open \subseteq Accepts
  /\ inbox \in [Accepts -> Seq(Words)]
  /\ sends \in 0..MaxSends
  /\ pc \in [Accepts -> Places]
  /\ fd \in [Accepts -> {BadSocket, 0} \cup Accepts]
  /\ buffer \in [Accepts -> Seq(Words)]
  /\ \A t \in Accepts : Len(buffer[t]) <= BUFFER_SIZE
  /\ data \in [Accepts -> [Fields -> Int]]
  /\ field \in [Accepts -> Fields]
  /\ latest \in Allocations \cup {InitialAllocation}
  /\ serial \in BOOLEAN

\* Initialization_: ten uplink and ten downlink blocks for every slice.
SliceInit ==
  /\ SOCKET_ID = 0
  /\ uRB = [s \in Slices |-> 10]
  /\ dRB = [s \in Slices |-> 10]
  /\ returns = 0
  /\ open = {}
  /\ inbox = [a \in Accepts |-> <<>>]
  /\ sends = 0
  /\ pc = [a \in Accepts |-> "none"]
  /\ fd = [a \in Accepts |-> 0]
  /\ buffer = [a \in Accepts |-> <<>>]
  /\ data = [a \in Accepts |-> Nothing]
  /\ field = [a \in Accepts |-> 1]
  /\ latest = InitialAllocation
  /\ serial \in BOOLEAN

-----------------------------------------------------------------------------
(* The hypervisor: the other end of the connections.                       *)

Send(a, m) ==
  /\ a \in open
  /\ sends < MaxSends
  /\ inbox' = [inbox EXCEPT ![a] = @ \o Doubles(m, BUFFER_SIZE)]
  /\ sends' = sends + 1
  /\ latest' = m
  /\ UNCHANGED <<SOCKET_ID, tableVars, returns, open, threadVars, serial>>

Close(a) ==
  /\ a \in open
  /\ open' = open \ {a}
  /\ UNCHANGED <<SOCKET_ID, tableVars, returns, inbox, sends, latest, threadVars,
                 serial>>

\* The connection breaks after n doubles of m.
Break(a, m, n) ==
  /\ ~serial /\ a \in open
  /\ sends < MaxSends
  /\ open' = open \ {a}
  /\ inbox' = [inbox EXCEPT ![a] = @ \o Doubles(m, n)]
  /\ sends' = sends + 1
  /\ UNCHANGED <<SOCKET_ID, tableVars, returns, latest, threadVars, serial>>

-----------------------------------------------------------------------------
(* process_in_thread: accept, the store to SOCKET_ID, pthread_create.      *)

ThreadsGone == \A t \in Accepts : pc[t] \in {"none", "done"}

Accept(a) ==
  /\ a = returns + 1
  /\ IF serial THEN ThreadsGone /\ open = {} ELSE a <= MaxOverlaps
  /\ returns' = a
  /\ SOCKET_ID' = a
  /\ open' = open \cup {a}
  /\ pc' = [pc EXCEPT ![a] = "call"]
  /\ UNCHANGED <<tableVars, inbox, sends, latest, serial, fd, buffer, data, field>>

\* A failed accept() is reported, stored and given a thread all the same.
AcceptFails(a) ==
  /\ a = returns + 1
  /\ a \in MayFail
  /\ IF serial THEN ThreadsGone /\ open = {} ELSE a <= MaxOverlaps
  /\ returns' = a
  /\ SOCKET_ID' = BadSocket
  /\ pc' = [pc EXCEPT ![a] = "call"]
  /\ UNCHANGED <<tableVars, open, inbox, sends, latest, serial, fd, buffer, data, field>>

-----------------------------------------------------------------------------
(* recv_in_thread and socket_recv_function.                                *)

\* The loop evaluates Global_Info.SOCKET_ID and enters recv.
CallRecv(t) ==
  /\ pc[t] = "call"
  /\ fd' = [fd EXCEPT ![t] = SOCKET_ID]
  /\ pc' = [pc EXCEPT ![t] = "recv"]
  /\ UNCHANGED <<SOCKET_ID, tableVars, netVars, buffer, data, field>>

\* recv copies n doubles: all that is there, all that fits, or a segment.
Copy(t, n) ==
  LET stream == inbox[fd[t]]
      room == BUFFER_SIZE - Len(buffer[t])
  IN
  /\ pc[t] = "recv"
  /\ fd[t] \in Accepts
  /\ n <= Len(stream) /\ n <= room
  /\ n \in Segments \cup {Len(stream), room}
  /\ buffer' = [buffer EXCEPT ![t] = @ \o SubSeq(stream, 1, n)]
  /\ inbox' = [inbox EXCEPT ![fd[t]] = SubSeq(stream, n + 1, Len(stream))]
  /\ UNCHANGED <<SOCKET_ID, tableVars, returns, open, sends, latest, serial,
                 pc, fd, data, field>>

\* The stream that the descriptor of thread t names is at its end.
AtEnd(t) == fd[t] \in Accepts \ open /\ inbox[fd[t]] = <<>>

\* The doubles of b are, up to f, one message from its start.
InFrame(b, f) ==
  f <= Len(b) /\ \A i \in 1..f : b[i] = [of |-> b[1].of, at |-> i]

\* What the f-th double of b converts to: what its place in the stream held, or
\* anything when recv did not write it or its halves are of two doubles.
Conversions(b, f) ==
  IF InFrame(b, f) THEN {b[f].of[f]}
  ELSE Garbage \cup (IF f <= Len(b) /\ b[f].at \in Fields
                     THEN {b[f].of[b[f].at]} ELSE {})

\* recv returns what it has copied.
Deliver(t) ==
  LET Double(f) == Conversions(buffer[t], f) IN
  /\ pc[t] = "recv"
  /\ \E d1 \in Double(1), d2 \in Double(2), d3 \in Double(3), d4 \in Double(4) :
       data' = [data EXCEPT ![t] = <<d1, d2, d3, d4>>]
  /\ buffer' = [buffer EXCEPT ![t] = <<>>]
  /\ field' = [field EXCEPT ![t] = 1]
  /\ pc' = [pc EXCEPT ![t] = "apply"]
  /\ UNCHANGED <<SOCKET_ID, tableVars, netVars, fd>>

\* Mutant of Return: recv without MSG_WAITALL.
Return_NoWaitAll(t) == buffer[t] # <<>> /\ Deliver(t)

\* recv returns a positive count: the buffer is full or the stream has ended.
Return(t) ==
  /\ Len(buffer[t]) = BUFFER_SIZE \/ (buffer[t] # <<>> /\ AtEnd(t))
  /\ Deliver(t)

\* Mutant of RecvFails: an empty socket ends the thread, as without MSG_WAITALL.
RecvFails_WouldBlock(t) ==
  /\ pc[t] = "recv"
  /\ \/ fd[t] \notin Accepts
     \/ fd[t] \in Accepts /\ inbox[fd[t]] = <<>> /\ buffer[t] = <<>>
  /\ pc' = [pc EXCEPT ![t] = "done"]
  /\ UNCHANGED <<SOCKET_ID, tableVars, netVars, fd, buffer, data, field>>

\* recv returns 0 at the end of the stream and -1 on a bad descriptor.
RecvFails(t) ==
  /\ pc[t] = "recv"
  /\ fd[t] \notin Accepts \/ (AtEnd(t) /\ buffer[t] = <<>>)
  /\ pc' = [pc EXCEPT ![t] = "done"]
  /\ UNCHANGED <<SOCKET_ID, tableVars, netVars, fd, buffer, data, field>>

\* One store to the table, of a field of slice s.
StoreTo(t, s, next) ==
  LET f == field[t] IN
  /\ pc[t] = "apply"
  /\ IF f \in {1, 3}
     THEN uRB' = [uRB EXCEPT ![s] = data[t][f]] /\ dRB' = dRB
     ELSE dRB' = [dRB EXCEPT ![s] = data[t][f]] /\ uRB' = uRB
  /\ field' = [field EXCEPT ![t] = next]
  /\ pc' = [pc EXCEPT ![t] = IF f < 4 THEN "apply" ELSE "call"]
  /\ data' = [data EXCEPT ![t] = IF f < 4 THEN @ ELSE Nothing]
  /\ UNCHANGED <<SOCKET_ID, netVars, fd, buffer>>

NextField(t) == IF field[t] < 4 THEN field[t] + 1 ELSE 1

\* Mutant of Store: slices counted from 1.
Store_OffByOne(t) == StoreTo(t, IF field[t] <= 2 THEN 1 ELSE 2, NextField(t))

\* The fourth store ends the round: usleep, then the loop.
Store(t) == StoreTo(t, IF field[t] <= 2 THEN 0 ELSE 1, NextField(t))

ThreadStep(t) ==
  \/ CallRecv(t)
  \/ \E n \in 1..BUFFER_SIZE : Copy(t, n)
  \/ Return(t)
  \/ RecvFails(t)
  \/ Store(t)

HypervisorStep ==
  \/ \E a \in Accepts, m \in Allocations : Send(a, m)
  \/ \E a \in Accepts : Close(a)
  \/ \E a \in Accepts, m \in Allocations, n \in TruncateAt : Break(a, m, n)

SliceNext ==
  \/ HypervisorStep
  \/ \E a \in Accepts : Accept(a) \/ AcceptFails(a)
  \/ \E t \in Accepts : ThreadStep(t)

SliceSpec == SliceInit /\ [][SliceNext]_sliceVars

\* A running thread is scheduled; nothing is assumed of the hypervisor.
FairSliceSpec == SliceSpec /\ \A t \in Accepts : WF_sliceVars(ThreadStep(t))
=============================================================================
