--------------------------- MODULE SliceTableProps ---------------------------
(***************************************************************************)
(* What the hypervisor's connections and the receiving threads promise of  *)
(* the slice table.                                                        *)
(***************************************************************************)
EXTENDS SliceTable

\* Nothing is in flight and no thread is between its recv and its last store.
Quiescent == /\ \A a \in Accepts : inbox[a] = <<>> /\ buffer[a] = <<>>
             /\ \A t \in Accepts : pc[t] # "apply"

TableIs(m) == uRB[0] = m[1] /\ dRB[0] = m[2] /\ uRB[1] = m[3] /\ dRB[1] = m[4]

\* Nothing is under way, so the last allocation of a hypervisor whose connections
\* follow one another is in force.
LastIsInForce == serial /\ Quiescent => TableIs(latest)

\* Whenever everything a well-mannered hypervisor sent has been received and
\* stored, the table holds the allocation it sent last, all four fields of it:
\* the pieces recv copies are put together as the messages they were, and the
\* stores of socket_recv_function for successive messages and connections do
\* not mix.  It says nothing of a hypervisor that connects again while a thread
\* of an earlier connection lives, beyond the types.
LastAllocationWins == SliceTypeOK /\ LastIsInForce

-----------------------------------------------------------------------------
(* Why LastIsInForce holds when the hypervisor never has two connections:  *)
(* the inductive strengthening.                                            *)

\* Only the thread of the last accept() lives, and on its own connection.
OwnConnection(a) ==
  IF a = returns
  THEN /\ pc[a] # "none"
       /\ pc[a] = "recv" => fd[a] = SOCKET_ID
       /\ pc[a] = "apply" => fd[a] = a /\ SOCKET_ID = a
       /\ pc[a] # "recv" => buffer[a] = <<>>
       /\ pc[a] = "done" \/ SOCKET_ID = BadSocket =>
            a \notin open /\ inbox[a] = <<>> /\ buffer[a] = <<>>
  ELSE /\ pc[a] \in {"none", "done"}
       /\ a > returns => pc[a] = "none"
       /\ inbox[a] = <<>> /\ buffer[a] = <<>>
       /\ a \notin open

\* s is a series of whole messages, and the last one is m.
WholeMessages(s, m) ==
  /\ \A i, j \in 1..Len(s) :
       i <= j /\ s[i].at + (j - i) <= BUFFER_SIZE =>
         s[j] = [of |-> s[i].of, at |-> s[i].at + (j - i)]
  /\ \A i \in 1..(Len(s) - 1) : s[i].at = BUFFER_SIZE => s[i + 1].at = 1
  /\ s # <<>> => s[1].at = 1 /\ s[Len(s)] = [of |-> m, at |-> BUFFER_SIZE]

\* What is copied and on its way are whole messages that end with the latest
\* allocation, and the fields already stored are those of the allocation being
\* stored.
EndsWithLatest(a) ==
  /\ WholeMessages(buffer[a] \o inbox[a], latest)
  /\ pc[a] = "apply" =>
       /\ data[a] \in Allocations
       /\ inbox[a] = <<>> => data[a] = latest
       /\ field[a] > 1 => uRB[0] = data[a][1]
       /\ field[a] > 2 => dRB[0] = data[a][2]
       /\ field[a] > 3 => uRB[1] = data[a][3]

SerialInv == serial =>
  /\ SOCKET_ID \in {returns, BadSocket}
  /\ \A a \in Accepts : OwnConnection(a)
  /\ \A a \in Accepts : EndsWithLatest(a)
  /\ LastIsInForce

\* Whatever reconnections happen, what arrives on the connection SOCKET_ID names
\* is taken off it, as long as SOCKET_ID goes on naming it: the threads that
\* moved to it and the one created for it never all stop.  Which of them takes
\* which part of a message, and whether its recv returns, is another matter.
CurrentConnectionIsDrained ==
  \A a \in Accepts :
    (SOCKET_ID = a /\ inbox[a] # <<>>) ~> (SOCKET_ID # a \/ inbox[a] = <<>>)

\* Every allocation of a well-mannered hypervisor is in force in the end, or
\* superseded by a later one.
AllocationTakesEffect ==
  \A m \in Allocations : (serial /\ latest = m) ~> (latest # m \/ TableIs(m))

-----------------------------------------------------------------------------
\* What the doubles of recv_data may convert to.
StoredValues == Garbage \cup {m[f] : m \in Allocations, f \in Fields}

\* Why TableIsStore holds: what a thread is about to store.
CarriesStoredValues ==
  \A t \in Accepts : pc[t] = "apply" => data[t] \in [Fields -> StoredValues]

TableStore == INSTANCE SliceStore
  WITH UplinkBlocks <- StoredValues, DownlinkBlocks <- StoredValues

\* Whatever connections come, go, break and are shared, the threads change the
\* table one field of slice 0 or 1 at a time: to a value of a field, its own or
\* another, or to garbage.
TableIsStore == TableStore!StoreSpec

\* The shares that were asked for.
UplinkValues == {m[f] : m \in Allocations, f \in {1, 3}}
DownlinkValues == {m[f] : m \in Allocations, f \in {2, 4}}

OrderlyStore == INSTANCE SliceStore
  WITH UplinkBlocks <- UplinkValues, DownlinkBlocks <- DownlinkValues

\* What the schedulers assume of the table, a well-mannered hypervisor's threads
\* implement: an uplink share only ever becomes an uplink share that was asked
\* for, and a downlink share a downlink one.  No padding and no garbage gets in.
OrderlyTable == [][serial => OrderlyStore!StoreNext]_tableVars
=============================================================================
