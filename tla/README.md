# TLA+ models of EdgeSlice

EdgeSlice slices a mobile network end to end: a hypervisor divides the radio
blocks of an OpenAirInterface base station, the bandwidth of an OpenFlow
transport network and the computing quota of an edge server among slices.  This
directory holds TLA+ models of the parts of the repository that decide
something, TLC configurations that check them on small instances, and proofs of
their main properties for every instance.

Paths are relative to the root of the repository; `MAC/` is
`src/openairinterface5g/openair2/LAYER2/MAC/`.

## Inventory of the system

| component | where | state | operations | what is hard | model |
|---|---|---|---|---|---|
| radio slice table | `MAC/main.c` 448-569, `MAC/defs.h` 1173-1195 | `Global_Info`: one socket, uplink and downlink blocks of three slices | accept, receive, store | no lock; several receiving threads; one global socket; short reads | `SliceTable` |
| downlink slice scheduler | `MAC/pre_processor.c`, `MAC/eNB_scheduler_dlsch.c` | `rballoc_sub`, per UE grant, needs, HARQ blocks | reset, allocate, send, retransmit | table changes under the loop; counters that wrap; retransmissions must fit | `DlSlicing` |
| uplink slice scheduler | `MAC/pre_processor.c` 1245-1430, `MAC/eNB_scheduler_ulsch.c` | `first_rb`, `pre_allocated_nb_rb_ul`, per process RBs | pre-allocate, grant, retransmit | non-adaptive retransmissions keep their blocks; PRACH, Msg3 | `UlSlicing` |
| random access, list of UEs | `MAC/eNB_scheduler_RA.c`, `MAC/eNB_scheduler_primitives.c`, `MAC/rar_tools.c` | `RA_template`, `UE_list` | Msg1..Msg4, add and remove a UE | three threads without lock; identifiers reused while in use; timers | `RandomAccess` |
| RRC | `openair2/RRC/LITE/` | UE contexts with their timers, `Srb0` | answer a request, reconnect, free a UE | one buffer for all; removal while the scheduler runs | `RandomAccess`, in part |
| PHY | `openair1/SCHED/`, `openair1/PHY/` | `UE_stats`, HARQ processes, DSP | slots of UEs, feedback; encode, decode | slots shared with MAC; the rest is numerical | slots in `RandomAccess`, HARQ in `DlSlicing` and `UlSlicing` |
| ITTI memory pools | `common/utils/itti/memory_pools.c` | rings of free items | allocate, free | lock-free, with steps that are undone | `MemoryPools` |
| ITTI tasks and messages | `common/utils/itti/intertask_interface.c` | a queue and an event descriptor per task, states of tasks | create, ready, send, receive, poll, terminate | start-up barrier, queue and descriptor in two steps, shutdown | `Itti` |
| softmodem threads | `targets/RT/USER/lte-enb.c` | counters, mutexes, conditions, contexts | wake up, wait, release, kill | lost wake-ups, late threads, shutdown | `RxTxThreads` |
| RLC unacknowledged mode | `openair2/LAYER2/RLC/UM_v9.3.0/` | windows, buffer, t-Reordering | segment, receive, reassemble, expire | loss, duplication, order, wrap-around, a look without lock | `RlcUm` |
| RLC acknowledged mode | `openair2/LAYER2/RLC/AM_v9.3.0/` | windows, retransmission buffers, timers | send, poll, status, retransmit | loss, wrap-around, re-segmentation | - |
| PDCP | `openair2/LAYER2/PDCP_v10.1.0/` | sequence numbers, HFN | number, check | wrap-around of the numbers | - |
| hash tables | `common/utils/hashtable/` | chained buckets | insert, get, remove | sequential | - |
| S1AP, SCTP, GTP-U, UDP, NAS | `openair3/` | contexts of associations | handlers of messages | many; unchanged by EdgeSlice | - |
| transport slices | `src/SDN/` | meters and flows of two topologies | REST calls of a controller | a change is several requests | - |
| edge slices | `src/darknet/examples/detector.c`, `src/darknet/python/` | quota, images in progress | receive control, detect | a quota that changes in mid-run | - |

Paths without `src/` in this table are below `src/openairinterface5g/`.

How they interact: the hypervisor sends allocations over TCP to the slice table;
the MAC scheduler reads the table in every subframe, together with the buffers
RLC reports and the HARQ state the PHY keeps; what it decides goes to the PHY as
DCIs.  The threads of the modem call PHY and MAC for each subframe; a random
access adds a UE to PHY, MAC and RRC one after the other, and RRC removes it by
calls down to MAC and PHY.  RRC and the tasks of the core network side exchange
ITTI messages.  The transport and edge parts are separate programs with the same
role towards the hypervisor.

What makes each of them correct:

- slice table: the allocation sent last is the one in force, whole; a connection
  that ends takes nothing else down; the table is always fed by somebody.
- downlink: no block is used twice; a slice gets its share whatever the others
  ask for; a transport block is computed for the blocks it is sent on; a
  retransmission has the size of the first transmission and is sent in the end.
- uplink: no block is used twice, although retransmissions keep theirs; new grants
  avoid PUCCH, PRACH and Msg3 and stay within the share of their slice; every UE in
  sync is served.
- random access and the UEs: MAC and PHY agree on who is there; nothing is kept for
  a UE that has gone; every procedure ends.
- ITTI: an item of a pool has one owner; nobody runs before all are ready; a message
  sent is received; the process ends when somebody asks for it.
- threads: a subframe is processed once, in its own context; a wake-up is not lost;
  shutdown ends.
- RLC UM: whole SDUs, in order, none twice, none lost that the radio has brought.

## Modules

| module | what it is |
|---|---|
| `SliceTable` | the hypervisor's connections, `process_in_thread`, every `recv_in_thread`, and the table |
| `SliceStore` | abstract: the table as the schedulers see it |
| `DlSlicing` | one downlink subframe after another, on top of `SliceStore` |
| `UlSlicing` | one uplink subframe after another, on top of `SliceStore` |
| `RandomAccess` | preambles to Msg4, the list of UEs, the slots of the PHY, the contexts of RRC |
| `RxTxThreads` | the fronthaul thread, the two threads `rxtx`, and the end of the modem |
| `MemoryPools` | one pool of ITTI, as a ring without lock |
| `FreeList` | abstract: an item is with one caller at a time |
| `Itti` | the tasks: creation, barrier, messages, end |
| `RlcUm` | transmitter, radio and receiver of an RLC UM entity |
| `LossyFifo` | abstract: in order, at most once |
| `XProps` | the properties of `X`, its fairness, and the mapping to its abstract module |
| `MCX` | constants of `X` for TLC that are not simple values |
| `XProofs` | the theorems about `X` (`SliceTable`, `DlSlicing`, `UlSlicing`, `RandomAccess`, `RxTx`, `MemoryPools`, `Itti`, `RlcUm`) |

### SliceTable

Connection and thread number `a` belong to the `a`-th return of `accept`.
`Accept(a)` is the success of `accept` in `process_in_thread`, with the store to
`SOCKET_ID` and the creation of the thread; `AcceptFails(a)` is its failure,
which the code only reports.  A thread loops: `CallRecv` evaluates the global
`SOCKET_ID` and enters `recv`; `Copy` is what `recv` with `MSG_WAITALL` takes off the
stream when it looks, which may be less than a message; `Return` is its return with
a full buffer, or a short one at the end of the stream, and `RecvFails` its return with 0
or -1, which ends the thread; four `Store` steps write the fields, in the order of
the code and without a lock.  The steps in between are where other threads and
the scheduler interleave.

A connection is a stream of doubles, each of which is a place of a message
(`Words`).  The 2048 bytes of a message are more than a segment of TCP, so two threads
in `recv` on the socket that `SOCKET_ID` names may each copy a part of a message; then
neither may return, or one returns with doubles from the middle of the stream.
`Conversions` says what a double of the buffer becomes: the value of its place if the
buffer holds a message from its start; otherwise the value of whatever place it came from, or
any value of `Garbage`.  `Garbage` stands for padding, for doubles put
together from halves of two others (a segment need not end between doubles), and for
what was on the stack when `recv` returned short; it is any set of integers, negative
ones included.  The store of a `double` to an `int` is exact for the block counts that are
sent.  A double that does not fit an `int` is undefined behaviour, of which an integer of
`Garbage` is the outcome.

The hypervisor is external: it may send any message of `Allocations`, close, or have its
connection break after `n` doubles of a message (`Break`).  `latest` records the last
whole message sent and is no part of the program.

`serial` is chosen at the start and says what manners the hypervisor has: if it
is true, a new connection is made only when no thread lives and connections break
between messages only.  Properties that need the manners say so.

### SliceStore

Every field of slices 0 and 1 changes on its own, at any time, to any value.
`TableIsStore` says that `SliceTable` implements this whatever connections come, go, break
and are shared, with everything a double may convert to as the values stored
(`StoredValues`).  `OrderlyTable` says more of a hypervisor with manners: an
uplink field only takes an uplink share that was asked for, a downlink field a downlink
one.  Both are proved (`TableImplementsStore`, `TableIsOrderly`).

The schedulers are specified over `SliceStore`, and need not be composed with the
connections: what holds over the store holds over the table.  They assume that the values
are natural numbers (`NaturalBlocks`), which is what `OrderlyTable` gives them: what they do with
a negative or undefined share, which overlapping or broken connections can put into the
table, is outside their models.

### DlSlicing

A subframe is `StartTTI` (the reset, the needs, the order of the list), one
`ThorAllocate` per UE of the list, one of `SendNew`, `SendRetransmission` and
`SkipUe` per UE, and `EndTTI`, where the locals of the pre-processor go out of
scope.  Stores to the table may happen between any two of these steps.  Between
subframes the PHY evaluates feedback (`Ack`, `Nack`) and UEs lose and regain
synchronisation.

- Groups of blocks are numbers; `taken` is the set of cells of `rballoc_sub` that
  are not 0.  Cells beyond the carrier are not initialised by the reset, so they
  are chosen freely for each subframe.  Cells beyond the array are not modelled;
  `overrun` records that the loop reached one.
- `Take` is the allocation loop with its 16-bit counter.  `allocate_prbs_sub`
  does the same with a signed one.
- How many blocks data needs depends on tables of transport block sizes.  The code
  starts from `first` blocks (4 at MCS 0, otherwise one group) and adds groups
  until the size suffices; the model chooses the number of additions from `Growth`.
- The order of the list is by round, then by buffers and channel quality, which
  are not modelled: any order that respects the rounds may occur.
- HARQ process numbers are the same for all UEs in a subframe, and the feedback
  of a transmission is evaluated before its process comes round again.
- One component carrier, FDD, transmission modes 1 and 2; the scheduler runs in
  one thread at a time.

### UlSlicing

A subframe is `StartUl` (`schedule_ulsch` up to the call of
`schedule_ulsch_rnti`: `first_rb` beyond PUCCH, PRACH, Msg3 and the
retransmissions), one `AssignMinRb` per UE in the order of their numbers,
`SortUes`, one `ApplyShare` per UE of the list, `StartGrants`, one of `GrantNew`,
`Retransmit` and `SkipUl` per UE of the list, and `EndUl`, in which the PHICH
turns a NACK into a retransmission.  In between, the hypervisor may store to the
table, and the other RxTx thread may receive requests (`Request`), transport
blocks of the other processes (`Receive`) and UEs that come back in sync
(`RegainSync`).

- `index` and `nb` are `pre_allocated_rb_table_index_ul` and
  `pre_allocated_nb_rb_ul`.  They outlive the subframe: a UE passed over in
  `assign_max_mcs_min_rb` because it is out of sync, and back by the time the list
  is built, is served with the values of an earlier subframe.  `index` is only ever
  lowered to -1 by that function, which means "not expected to be scheduled": if a
  request arrives afterwards, the UE is given six blocks whatever its slice has.
- The number of blocks a buffer calls for depends on tables of transport block
  sizes and on the UE's power.  `AssignMinRb` lets the loop aim at any index of
  `Demands`; what it then takes, with the room there is, is `Capped`.
- `wants` is the result of `UE_is_to_be_scheduled`: a buffer report, a scheduling
  request or the inactivity timer.  Serving a UE resets the request; whether the
  buffer report still stands is left open (`Served`).
- `harq` is the PHY's process: the blocks of the last grant, the round, and
  `subframe_scheduling_flag`.  MAC's `nb_rb_ul` is the `nb` of the same grant.  A
  process without data is reset to `Idle`: the code leaves the old blocks in it and
  never looks at them in round 0.
- The order of the list is by round; among equals, buffers decide, which are not
  modelled.  `share` records what `ApplyShare` read, `occasion` whether the
  subframe has PRACH or Msg3; the code keeps neither.
- `Base` gives PRACH precedence over Msg3, as the assignment of 8 after the
  increment does.
- One component carrier, FDD, no contention based access.  The UEs of the list stay
  connected.

### RandomAccess

Three threads act: the PRACH thread, the modem thread and the RRC task.

- PRACH: `Initiate` activates a template when the PHY has a free slot, `Draw` gives
  it its RNTI.  In between the template is active with the RNTI it had before.
- Modem, Msg3: for a slot whose Msg3 has not been received, `Msg3Lost`,
  `Msg3WithCrnti`, `Msg3WithNeither` and `Msg3WithRequest`.  The last adds the UE to the list
  and sends the request to RRC; `FlagMsg4` is the store of `generate_Msg4` after that.
  `Msg3WithNeither` is a decoded PDU with neither a CCCH SDU nor a C-RNTI: `rx_sdu` changes
  nothing, and the PHY takes Msg3 as received.
- Modem, `schedule_RA`: `StartRa`, then one of `ScheduleRar`, `FetchSetup` (and
  `SendMsg4`), `CheckMsg4` and `PassProc` per template, then `SendRar` in the PHY if a
  response was scheduled.  `feasible` says whether control channel elements are left.
- Modem, timers: `Expire` and `FreeContext` are `rrc_rx_tx` with `rrc_eNB_free_UE`;
  `UlFailure` is the failure after PDCCH orders.
- RRC: `Accept`, `Refuse`, or `Recognise` and `Rekey` (an S-TMSI that is known under
  another RNTI) answer a request; `Reject` (a reestablishment, a request without identity)
  answers without starting a timer, and `Ignore` (a message that cannot be decoded) does not
  answer; `Complete` and `Release` come with later messages.
- `LookUp`, `Drop`, `RemoveFromPhy` and `ClearProcs` are `rrc_mac_remove_ue`, which
  the modem thread and the RRC task both call; others may act between them.

`modem` holds the place of the modem thread.  What one thread does without touching
what another one reads is one step.  A UE context is reduced to the timer that
runs: `release`, `failure`, or none (`up`).  The 8-subframe way of the feedback of
Msg4 makes `CheckMsg4`, which comes 5 subframes after Msg4, always find the process in
round 0: Msg4 counts as acknowledged, and the branch that retransmits it is
never taken.

A run of the program goes on after things the model does not follow.  `fate` names them
and ends the behaviour: an RNTI that is still in use somewhere is drawn (`InUse`;
"TODO: this is not correct", `MAC/eNB_scheduler_RA.c:764`), a response is sent while the
RNTI is being drawn, and two threads free one UE.  Two more end the process in
the code: `aborted` and `full`.

Not in the model and worth knowing: while one UE with an unknown S-TMSI is connected
a second one is refused, because all of them get `NOT_A_RANDOM_UE_IDENTITY`
(`rrc_eNB.c:4229`) and the search for a free context refuses an identity that is
taken (`rrc_eNB.c:599`); `Refuse` allows it.  And `Srb0` has one buffer: if a second
request is accepted before the first setup is fetched, the first template to send
Msg4 sends the setup of the other UE.

### RxTxThreads

`ReceiveSubframe` is the fronthaul thread's reception; `PollBusy`, `GiveUp`,
`PollIdle`, `LockMutex`, `MutexTaken` and `StartThread` are `wakeup_rxtx`.  A thread
`rxtx` goes through `wait_on_condition` (`Acquire`, `TestIdle`, `Sleep`, `TestCalled`),
`Awake`, `Work` and `release_thread` (`Release`, `Decrement`, `Unlock`).  `SetExit`,
`LeaveMain`, `SetCounts`, `SignalAll` and `Join` end the modem.

- The mutexes are modelled with their holder; a signal wakes the thread only if it is
  asleep.  Spurious wake-ups of the condition are left out: they could only hide a
  signal that is lost.
- `pthread_mutex_timedlock` takes a point in time, and the code gives it 5 ms after
  the start of 1970.  So it fails at once if the mutex is held, which ends the modem
  (`MutexTaken`).
- The counter is polled without the mutex (`lte-enb.c:1249`); the model's `PollIdle`
  reads it whatever the thread is doing.

### MemoryPools and FreeList

`ReadPut`, `FetchAddGet`, `ReadIndex`, `Restore`, `WrapGet`, `Clear` and `Mark` are
`memory_pools_allocate` on one pool, `Free`, `FetchAddPut`, `WrapPut` and `Store`
`memory_pools_free`.  Any number of threads may do either: every task that sends a
message allocates.  `get` and `put` are the positions as the code has
them: they are reduced to slots by `%`, and wrapped by a subtraction when they reach
one past the ring.  `users` counts the callers that hold an item.  The free items
of `FreeList` are those in slots that no thread has taken already.  Pools are used
in builds with `OAI_EMU` or `RTAI` only; others call `malloc`.

The ring does not keep its promises for ever.  `overtaken` is a history variable
that becomes true, and stays so, when one of these happens:

- `get` is advanced while a thread has found an empty slot and is about to put `get` back
  (`FindsNothing`): the put-back then gives up the other thread's slot, not its own;
- `get` comes round to a slot of which a thread has yet to read or clear the item;
- `put` comes round to a slot of which a thread has yet to clear the item.

The first is needed beside the two others.  Without it, two allocating threads that find
the pool empty both put `get` back, a third advances it to a slot at which one of them is
still about to look, and one item is read twice.  By the second, a thread that is
delayed between reading a slot and clearing it takes the same item as another one.

Behaviours go on after `overtaken`, to whatever the code then does, but nothing is promised of
them: the item may be handed out twice, its status then fails the check and the process ends.  A position that has become negative names memory before the ring; there the
behaviour ends.

### Itti

The main thread creates the tasks (`CreateTask` and the steps after it), waits until
all are ready, opens the barrier (`wait_tasks`) and waits for signals.  A task becomes
ready, is counted (`Count` and `Add`: `ready_tasks++` is not atomic), and passes.
Sending is `CheckReceiver` (the state of the receiver), `Enqueue` and `WriteEvent`; receiving is
`ReadEvent` (the descriptor) and `Dequeue`.  `itti_terminate_tasks`, `exit_fun`
and Ctrl-C end it all.

- Queues are FIFO sequences; the vendored LFDS queue below is taken to be one.  A full
  queue ends the process; `MaxSends` stays below its size.
- `failed` holds the assertions that have failed; the process ends with the first.
- The relay thread of RTAI builds and timers are not modelled.

### RlcUm and LossyFifo

SDUs are a stream of units; a PDU is an interval of it, of as many units as the
transport block has room for.  The air loses, duplicates and reorders.  `Receive`
(`rlc_um_receive_process_dar`) and `TimeOut` followed by `Expire`
(`rlc_um_check_timer_dar_time_out`) are the receiver; `pc` tells where a thread is
between the look at t-Reordering, which comes before the lock, and the rest.

- `in_window`, `in_reordering_window`, `try_reassembly`, `Advance` and `SlideWindow`
  are the functions of `rlc_um_dar.c` of those names, on one record `rx`.
- The air is bounded so that no PDU arrives after the window has moved past half the
  numbers (`WithinReach`): the HARQ processes of MAC give no more delay than that.
- t-Reordering is longer than 0 ms.
- Two things differ from the comments in the code and are modelled as they are.
  `rlc_um_dar.c:1120` advances VR(UR) only if the PDU received is VR(UR) itself, so
  when the window jumps onto a PDU that is already there, the receiver waits for
  t-Reordering although nothing is missing.  And t-Reordering is not stopped when
  VR(UX), VR(UR) and VR(UH) coincide, against the comment at 1129; it then expires
  without effect.

## Runs

| run | expectation | properties | question |
|---|---|---|---|
| `slice_table` | holds | `LastAllocationWins`, `AllocationTakesEffect`, `CurrentConnectionIsDrained`, `TableIsStore`, `OrderlyTable` | messages come in pieces and an accept fails.  Connections follow one another: does the last allocation win and take effect, and do fields only take shares that were asked for?  Connections overlap, break within a message and are shared by two threads: is the current one read, and `SliceStore` implemented? |
| `dl_isolation` | holds | `DlTypeOK`, `TransmissionsDisjoint`, `SharesAreIsolated`, `ClaimsCovered`, `RetransmissionKeepsSize`, `RetransmissionServed` | 20 MHz, two slices, mixtures of narrow and wide allocations: are transmissions disjoint, shares isolated, claims found, sizes kept, and are retransmissions served? |
| `dl_torn` | violated | `IndexInRange` | 10 MHz: does the allocation loop stay within its array under a mixture of two allocations that fit one by one? |
| `ul_shares` | holds | `UlTypeOK`, `UlDisjoint`, `GrantWithinShare`, `NotSqueezed` | the table changes while it is read, a UE loses synchronisation, PRACH and Msg3 come: do grants and retransmissions meet, does every grant stay within its share, and get it whole if the shares fit? |
| `ul_served` | holds | `GrantsAvoidControl`, `RequestServed` | 5 MHz with PRACH: do grants keep off the control channels, and is every UE in sync granted blocks again and again? |
| `ul_msg3` | violated | `GrantsAvoidMsg3` | 5 MHz: do new grants keep off the block of Msg3? |
| `random_access` | holds | `SlotForEveryUe`, `NoSlotLeaks`, `AbortOnlyWhileRemoving`, `ProceduresEnd` | three preambles, two UEs: do MAC and PHY agree on who is there, does a slot leak, when can the process abort, and does every procedure end, unless it is left where nobody will end it? |
| `rxtx` | holds | `RxTxTypeOK`, `ContextIsOwn`, `Neighbours`, `NoCallLost`, `EachInTurn`, `SubframesProcessed`, `ShutdownEnds` | however slow the threads are and whenever the modem ends: is a context overwritten, a subframe lost or processed twice, and do the threads end? |
| `pool_shared` | holds | `EveryItemInOnePlace`, `IsFreeList`, `AllocationSucceeds` | two threads that allocate and one that frees: until one is overtaken, is every item in one place and `FreeList` implemented, and does somebody get an item again and again? |
| `itti_tasks` | holds | `NobodyRunsAhead`, `EventsMatchQueue`, `TasksEnd`, `MessagesArrive` | two tasks, a sub-task and the modem: does anybody run before all are ready, do queue and descriptor agree, do messages arrive and tasks end? |
| `rlc_um` | holds | `WholeSdus`, `NothingDropped`, `HeldInWindow`, `IsLossyFifo`, `EveryPduPasses` | nine units over a bad radio, past the wrap of the numbers: whole SDUs, in order, none lost by the receiver, none held for ever? |
| `rlc_um_race` | violated | `InOrder` | two threads in one entity: are SDUs delivered in order and once? |

The invariants `LastAllocationWins`, `EveryItemInOnePlace`, `EventsMatchQueue`, `HeldInWindow`
and `NoSlotLeaks` begin with the type invariant of their module.

Bounds.  Two overlapping connections are enough for every race between an old and a new
thread, and two messages for one to be overwritten by the next (830,000 states, most of them of
overlapping connections).  A message has five doubles, four fields and one of padding, and `recv`
may look when two of them have come: two threads can so share a
message in every way that leaves a field or the padding at the front of a buffer.  Each
field of the two allocations has a value of its own, so that every mixture is
recognised, and garbage is negative.  For the downlink, two slices suffice
for bands to meet, and the group counts are those of real carriers (17 groups of
3 blocks, 25 groups of 4).  The blocks of `dl_isolation` (4 and 36, initially 10)
give shares of 1, 3 and 12 groups, all sums of which fit; those of `dl_torn` (3
and 45) fit in each valid message and not in one of their mixtures.  One HARQ
process stands for eight: processes share no state.  Two rounds stand
for four.  `Growth` gives needs of one group and of more than a narrow share.  On this carrier the exceptions that
`ClaimsCovered` names cannot occur; the theorem covers the others.

For the uplink, 1.4 MHz (6 blocks) makes room scarce, which is where grants, shares
and retransmissions press on each other, and two UEs are enough for a grant to meet
another one or a retransmission.  In `ul_shares` the table holds 0 or 2 blocks
per slice, which fit the carrier, while a UE would take four; one UE loses
synchronisation.  `ul_served` uses 25 blocks, of which PRACH takes eight, and shares
of 7 that fit in the rest: on six blocks a single wide share, or the six blocks of a
late request, can leave nothing to the other UE for ever.

`random_access` has two templates, two slots and two RNTIs, so that one procedure runs
while another UE is removed or comes back, and a third preamble (`MaxPreambles`), for which
an RNTI must be given up first; 305,000 states.  The bound on preambles is there for
`ProceduresEnd`, because an endless stream of preambles can keep the second template from its
response for ever: `fill_rar` serves the lowest first.  `rxtx` receives five subframes, so
that each thread has two or three and the context is used again, and polls twice
instead of ten times.  `pool_shared` has a ring of three slots for two items and two allocating
threads, so that the pool runs empty, `get` is put back, and the ring goes round while a thread
is delayed; `MaxPosition` is twice the ring, the largest position `get` can have before a thread is
overtaken (1,570,000 states).  `itti_tasks` has two tasks, the least for which one may
run ahead of the other.  In `rlc_um` the window is 3 and numbers are modulo 6, seven
PDUs are sent, SDUs have three units and transport blocks room for one or four, so
that a PDU may end one SDU, hold none whole, or begin the next; two PDUs are in the air.

Deadlock is checked in the runs of the downlink and the uplink.  In the
others the system may stop: an item of the pool has been handed out twice, every connection of
the bound has been used, the modem or the process has ended, all PDUs have been sent, all preambles have come, or the
model has ended with `fate`.

Fairness.  A thread that can take a step is scheduled (`FairSliceSpec`); nothing
is assumed of the hypervisor.  In `FairDlSpec` the MAC thread finishes its
subframe and the PHY evaluates feedback (weak fairness).  Strong fairness says
that each HARQ process gets subframes without common channels again and again -
system information, random access responses and the protected centre of subframe
0 take some subframes only, and the process number is not tied to the subframe
number - and that a retransmission tried again and again finds control channel
elements, whose positions depend on the subframe.  `FairUlSpec` says the same of
the uplink: the MAC thread finishes its passes, the PHY receives, and a UE without
data asks for a grant in the end, because `ul_inactivity_timer` makes
`UE_is_to_be_scheduled` true after 20 subframes (weak fairness); each process gets
subframes without PRACH and Msg3, and a UE that could be granted blocks again and
again finds control channel elements some time (strong fairness).

`FairRxTxSpec`, `FairPoolSpec` and `FairIttiSpec` schedule every thread that can take a step
(weak fairness) and assume nothing of the user; the main thread of ITTI need not go on
once the barrier is open.  `FairRlcUmSpec` lets t-Reordering expire, since the
scheduler asks for a status in every subframe, and lets each thread move on within a
call.  `FairRaSpec` says which states recur: the modem thread is
back between two calls, `schedule_RA` is called, timers that run end, a drawn RNTI is
found, RRC takes its next request.  Each of these steps stays possible until it is
taken, so this is weak fairness written without `ENABLED`.  Beyond that it takes
control channel elements to be found for a response some time, and Msg3 of a slot
to be received or given up, as retransmissions are counted.

## What the runs show

Violations.

- `dl_torn`: the allocation loop of the downlink is bounded by the share alone.  The
  comment at `MAC/pre_processor.c:1224` speaks of "over_index", but no such test
  exists: when the table holds a part of one allocation and a part of the next, the
  index passes the end of `rballoc_sub`.
- `ul_msg3`: `MAC/eNB_scheduler_ulsch.c:657` says that the blocks used for
  Msg3 are skipped, and `MAC/rar_tools.c:100` that the response grants
  the "first PRB".  The response carries the resource indication value 26, which is
  block 26 on 50 or 100 blocks and blocks 1 and 2 on 25, while `first_rb` is advanced
  from 1 to 2 only: a new grant can begin on a block of Msg3.
- `rlc_um_race`: "deliver the reassembled RLC SDUs to upper layer in ascending
  order" (`rlc_um_dar.c:719`) fails if two threads are in one entity.  Whether
  t-Reordering has expired is looked at before the lock is taken; a PDU that the other thread
  handles in between moves VR(UX) or restarts the timer, and the expiry then moves
  VR(UR) back and delivers an SDU again.  Two threads need a build with
  `LONG_OPTION_SINGLE_THREAD_DISABLE`: by default one thread processes all subframes.

Found while modelling, and not shown by a run:

- After a reconnection the thread of the old connection receives from the new one,
  because it reads the global `SOCKET_ID` before every `recv` (`MAC/main.c:538` breaks its
  loop only on an error).  Then two threads are in `recv` on one socket, each copies some segments
  of a message, and the one whose buffer fills first stores doubles from the middle of the
  stream as shares of the slices.
- A message cut short by the end of its connection is stored with uninitialised
  doubles, negative or not; the count `recv` returns is compared with errors only.
- At MCS 0 a transport block is sized for 4 blocks even when the grant is one group of 3;
  `MAC/defs.h:653` calls that number the "Number of Allocated RBs".  `ClaimsCovered`
  says what is true on every carrier: in whole groups, the claim is found, except for these 4
  blocks and for groups beyond the carrier.
- "Sanity check on item status, must be free" (`memory_pools.c:446`): a thread
  delayed between reading a slot and clearing it, while the others bring the ring round, takes the
  same item as another thread, and the check ends the process.  And the put-back of `get` (184)
  may undo another thread's allocation; see `overtaken` above.
- A procedure of random access may be left for ever with its template active and its slot occupied.
  The PHY logs "Terminating ra_proc" for each Msg3 it has decoded
  (`phy_procedures_lte_eNb.c:3308`), but a PDU with neither a CCCH SDU nor a C-RNTI, a buffer
  status report for instance, terminates nothing (`MAC/eNB_scheduler_ulsch.c:481`).  RRC gives no
  answer to a CCCH message that it cannot decode (`rrc_eNB.c:4090`), and its rejection of a
  reestablishment or of a request without identity, for which it starts no timer, may be lost for
  want of control channel elements (`rrc_eNB.c:4147`).  `ProceduresEnd` says that there are no other
  ways (`Stranded`).  Only a failure of the uplink may still remove the UE, and only one that
  MAC knows.
- `itti_mark_task_ready` stores READY before it increments `ready_tasks`, without lock, so
  the main thread may compare the counters too early and end the process with "Number
  of created tasks does not match ready tasks" (`intertask_interface.c:741`).
- `exit_fun` called before the main thread handles signals ends the tasks, and the
  process stays.
- `kill_eNB_proc` sets the counters without the mutexes ("FIXME data race!",
  `lte-enb.c:1893`): a thread between its test and its wait sleeps for ever, and
  the join with it.  `ShutdownEnds` excludes that state, and says of all others that the joins
  of the fronthaul thread and the threads `rxtx` return; the join of the PRACH thread is not
  modelled.  In single-thread mode it joins threads that were never created.
- While the RRC task is inside `rrc_mac_remove_ue` of a UE whose template still has Msg4 to
  send or to check, `schedule_RA` aborts the process (`MAC/eNB_scheduler_RA.c:243`, 730).
  `AbortOnlyWhileRemoving` says that this is the only way.

What holds is worth knowing too.  The uplink limits every new grant, with two
exceptions that `GrantWithinShare` names: a slice with no blocks still gets one,
because the search for a fitting size does not test entry 0 of `rb_table`, and a
request that arrives after the pre-processor gets six.  A retransmission may fall on
the blocks of a PRACH occasion, which the code notes in a log and accepts.  A
retransmission in the downlink waits until its slice is as wide as it was
(`Fits` in `RetransmissionServed`).  The state for which `MAC/eNB_scheduler_ulsch.c:842`
has a hack, a UE of MAC that the PHY does not know, does not arise from random
access and removal as long as RNTIs are not drawn twice (`SlotForEveryUe`).  The context
of a thread `rxtx` is safe although the counter is polled without mutex.  The
receiver of RLC UM, with one thread, is a queue that loses only what the
radio loses.

## Proofs

Proved with the TLA+ proof system, for every value of the constants that
satisfies the assumptions of the modules:

- `SliceTypesHold`: types of the slice table.  Inductive by itself.
- `SerialHolds`, `LastAllocationWinsSerially`: `LastAllocationWins`.  `LastIsInForce` in it is not
  inductive: it says nothing while a message is under way.  `SerialInv` adds that
  only the newest thread lives and only on its own connection (`OwnConnection`),
  and that what is under way ends with the latest allocation, of which the fields
  before `field` are already in the table (`EndsWithLatest`); all of it for
  a hypervisor with manners (`serial`).
  The pieces `recv` copies are kept together by `WholeMessages`: buffer and stream, one
  after the other, are whole messages, the last of which is the latest.
- `TableImplementsStore`: the refinement for every hypervisor, with the invariant
  `CarriesStoredValues`: in whatever pieces threads share messages, and whatever integers
  the doubles convert to.
- `TableIsOrderly`: `OrderlyTable`, from `SerialInv`.
- `DlTypesHold`, `GrantsAreDisjoint`, `TransmissionsAreDisjoint`: types of the
  downlink, and disjointness of what UEs are granted and of what is sent to them,
  for every carrier, every set of UEs and every sequence of stores.  `DlTypeOK` and
  `GrantsDisjoint` are inductive together: the allocation loop only takes cells that
  are free and marks them, so that a grant meets no earlier one, and what is sent is
  a part of what was granted.
- `SlicesAreIsolated`: `SharesAreIsolated`, for every carrier.  It needs `FreeBeyond` (while
  bands are handed out, nothing beyond the last band is taken but groups of common
  channels) and `BlocksOfNeeds` (no need exceeds the 100 blocks of the largest carrier, so
  that the 16-bit counter of `allocate_prbs_sub` does not wrap before the need is met).
  The count of a band less the taken groups is where lemmas on finite sets come in.
- `ClaimsAreCovered`: `ClaimsCovered`, for every carrier, group size and last group.  What a
  process claims is at most the blocks of its grant in whole groups, unless it is the 4 of
  MCS 0.
- `RetransmissionsKeepSize`: `RetransmissionKeepsSize`, under the hypothesis `Carrier20MHz` (25
  groups of four blocks, the carrier of `dl_isolation`).  On the carriers of 25 and 50 blocks the
  code does not keep it: a last group of fewer blocks makes the size depend on where the band
  lies.  `Sizes` says that the blocks of a process are whole groups, as many as it was first
  sent on, and those of what is being sent.
- `UlTypesHold`, `UplinkIsDisjoint`, `ControlIsAvoided`: types of the uplink, no
  block used twice in an uplink subframe, and nothing on the blocks of PUCCH or, for
  new grants, of PRACH.  `UlDisjoint` is not inductive: whether a new grant meets a
  retransmission depends on `first_rb`.  `UlSafe` adds `EndsBeforeFirst` (while a
  subframe is scheduled, what is on the air in its process ends before `first_rb`)
  and `KeepsOff` (where blocks may lie, and where `first_rb` starts).  `StartUl` makes
  `first_rb` the largest of all ends, `GrantNew` advances it by what it hands out.
  The size of a grant needs `Room`, except for entry 0 of the table, where the test
  of `first_rb` against the end of the carrier is what counts.
- `GrantsStayWithinShares`: `GrantWithinShare`, with `SharesApplied`: what the
  pre-processor has passed over has no more blocks than its share, and grants go only to
  UEs of the list it passed over.
- `NobodyIsSqueezed`: `NotSqueezed`.  `RoomLeft` bounds `first_rb` by the first block
  for new grants plus what is due to the UEs already passed, each of which the list
  names once; so if the shares fit, the rest of the carrier is wide enough for the
  next one.  The sum of what is due is shown to be the size of a set of blocks, by an
  induction over the subsets of the UEs.
- `BarrierHolds`: `NobodyRunsAhead`, for every list of tasks and whatever others
  send.  `BarrierInv` adds the types it needs and says, of the time while the main thread creates tasks
  and of the time after, which states each task may be in.
- `EventsCountQueues`: `EventsMatchQueue`, for every list of tasks and every number of
  senders.  `MailInv` adds to `BarrierInv` that a message between the two steps of its sender
  is for a task, and `BootCounts`, which ties the counters of the start-up to where the
  main thread and the tasks are: the types of these counters are part of the property.
- `ItemsInOnePlace`, `PoolImplementsFreeList`: `EveryItemInOnePlace` and `IsFreeList`, for
  rings of every size and any number of threads that allocate and free, as far as the
  properties go: until a thread is overtaken.  `PoolInv` is the types and, while `overtaken` is
  false, three things: where `get` and `put` may stand relative to each other and to the
  threads at a slot, of which no two are at the same one (`Positions`); which slots of the
  queue between them hold an item, are being filled or being emptied (`Ring`); and that no item
  is in two places (`Places`).  Not being overtaken is used where `get` and `put` are advanced, and
  nowhere else.  That a freed item finds a slot is a counting argument (`RoomForReturned`):
  were the ring full, there would be more items than the pool has.
- `EveryUeHasASlot`, `SlotsHaveOwners`, `AbortsWhileRemoving`: `SlotForEveryUe`, `NoSlotLeaks` and
  `AbortOnlyWhileRemoving`, for every number of templates, UEs, RNTIs and preambles and in
  every interleaving of the PRACH thread, the modem thread and the RRC task.  None is inductive.
  `Ownership` follows an RNTI through its life: while a response is to be sent, no other
  part of the system has heard of it (`Unheard`) and no slot has it (`Templates`); while
  Msg3 is expected, and afterwards if it said nothing to MAC, it has one slot and a procedure
  (`Slots`); otherwise its UE is in the list, or a thread is removing it and has not yet given the
  slot back (`Removals`); and no two slots
  or templates share an RNTI (`Distinct`).  That `add_new_ue` finds room is again
  counting: every UE of the list has a slot of its own, and the UE that asks has one
  without being in the list.  All of it until the model ends with `fate`, in particular until
  an RNTI is drawn that is in use.
- `InvHolds`, and from it `RxTxTypesHold`, `ContextsAreOwn`, `NeighboursHold`,
  `NoCallIsLost` and `TurnsHold`, for every number of polls and subframes.
  `RxTxInv` adds to the types who may hold a mutex and where (`MutexRight`), what the
  counter is at each place while the modem runs (`CountRight`), that the thread whose
  turn it is is idle when its context is filled (`TurnIsIdle`), and how the subframes in the
  contexts and in work relate to the one received last (`ContextRight`,
  `WorkingRight`).

- `BufferFitsWindow`, `SdusAreWhole`, `OnlyTheRadioLoses` and `UmImplementsLossyFifo`:
  `HeldInWindow`, `WholeSdus`, `NothingDropped` and the refinement `IsLossyFifo`, for every window,
  size of SDUs and of transport blocks, any number of PDUs, and every loss, duplication and
  reordering within the reach of the sequence numbers (`WithinReach`), under the hypothesis
  `SingleThread`; two threads break the order (`rlc_um_race`).  None is inductive.
  `RlcInv` names the PDU `lo` that VR(UR) stands for, in numbers that do not wrap, and says
  of it (`Standing`): the window is not below `top` - `Window` (`At`), and what reassembly
  has made of the PDUs before `lo` (`Stage`): the buffer holds what is stored
  from `lo` on, each SDU that ends before `End(lo)` is delivered or has lost a PDU, and the SDU in
  construction is the fragment up to `End(lo)`, unless `missing` is set.  The timer, if not
  stopped, waits for a PDU at or after `lo` (`TimerAt`); `StopTimer` sees to it even when
  VR(UH) jumps by a whole window.  `Windows` and `ReorderingWindow` say what the modular tests of
  the code mean in such numbers: the remainder of C keeps the sign of the dividend, which
  `DistanceIs` shows to be harmless.  `TryReassembly` and `AppendUnitsIs` follow the loops.

Only model-checked: liveness (`AllocationTakesEffect`, `CurrentConnectionIsDrained`,
`RetransmissionServed`, `RequestServed`, `AllocationSucceeds`, `MessagesArrive`, `TasksEnd`,
`SubframesProcessed`, `ShutdownEnds`, `EveryPduPasses`, `ProceduresEnd`), which is out of
the reach of the prover.  Where a proof needs an induction (a loop of RLC, a sum over
UEs, the first member of a set) it takes the least counterexample instead, from
`WFMin` and `NatLessThanWellFounded`, which take no operator: in `IntervalInduction` of
`RlcUmProofs` a set stands for the predicate, and that the recursive functions of the
loops exist is shown in the same way.

## Plan

Done: the slice table and both schedulers with their proofs; ITTI's pools, tasks and
messages; the threads of the modem; RLC UM; random access.

Left, in this order:

1. `RlcAm`: window, polling, status and retransmission over the air of `RlcUm`, with
   a channel that loses nothing as its specification; then PDCP on top.
2. The timers of ITTI, and the tasks of the core network side as its users.
3. The transport and edge slices.

## Not modelled

- RLC acknowledged and transparent mode and PDCP: RLC AM is the largest protocol left.
- Hash tables: sequential, without lock; what matters is who calls them.
- S1AP, SCTP, GTP-U, UDP and NAS: handlers of messages around sockets, which
  EdgeSlice does not change.
- RRC beyond connection set-up and release; the UE side as a whole.
- PHY signal processing, simulators and test benches.
- Transport slices: scripts that call the REST interface of a controller; the state is
  in the controller and the switches.  As committed they cannot run: an `else` of
  `SDN_code/BW_Limiter_API.py` has no body, and `BW_Limiter_API_v013.py` hands
  `connect_controller` a list where it takes a number of users.
- Edge slices: the server's quota; the network itself is numerical code.
- LFDS queues: vendored.
- Of the downlink: the allocation algorithm that EdgeSlice replaced (it is compiled and
  never reached), TDD, carrier aggregation, MAC headers and RLC requests, power
  control and statistics.  Of the uplink: modulation and coding, power control,
  buffer sizes, contention based access, TDD, and the drop of a UE in mid-subframe.
- Of the threads: PRACH, asynchronous and slave fronthaul threads, single-thread mode.
