----------------------------- MODULE IttiProofs -----------------------------
(* The barrier of create_tasks, and the agreement of queues and event descriptors,  *)
(* for every list of tasks and every set of senders.                                *)
EXTENDS IttiProps, FiniteSetTheorems, SequenceTheorems, TLAPS

Creating == {"start", "create", "poll", "release"}
Waiting == {"none", "starting", "count", "add", "barrier"}

IsReady(t) == task_state[t] \in {"ready", "ended"}

BarrierTypes ==
  /\ DOMAIN task_state = Tasks
  /\ DOMAIN pc = Processes
  /\ DOMAIN next = Processes
  /\ next[Main] \in Nat /\ pc[Main] \notin Waiting

\* While the main thread creates tasks, they become ready one after the other,
\* nobody is past the barrier, and the barrier is closed.
WhileCreating ==
  pc[Main] \in Creating =>
    /\ \A p \in Senders : pc[p] \in Waiting
    /\ pc[Main] = "start" => next[Main] = 1 /\ \A t \in Tasks : pc[t] = "none"
    /\ pc[Main] # "start" => wait_tasks # 0
    /\ pc[Main] \in {"create", "poll"} =>
         /\ next[Main] \in 1..Len(Order)
         /\ \A i \in 1..Len(Order) : i < next[Main] => IsReady(Order[i])
    /\ pc[Main] = "release" => \A t \in Tasks : IsReady(t)

AfterCreating == pc[Main] \notin Creating => \A t \in Tasks : IsReady(t)

BarrierInv == BarrierTypes /\ WhileCreating /\ AfterCreating

\* The order of creation names every task once, and no task is the main thread or
\* the modem.
LEMMA OrderFacts ==
  /\ Len(Order) \in Nat \ {0}
  /\ \A i \in 1..Len(Order) : Order[i] \in Tasks
  /\ \A t \in Tasks : \E i \in 1..Len(Order) : Order[i] = t
  /\ \A i, j \in 1..Len(Order) : Order[i] = Order[j] => i = j
  /\ Main \notin Senders /\ Modem \notin Tasks
  /\ Processes = Senders \cup {Main} /\ Senders = Tasks \cup {Modem}
<1>1. Order \in Seq(Tasks) /\ Order # << >> /\ IsInjective(Order)
  BY IttiAssumption
<1>2. DOMAIN Order = 1..Len(Order) /\ Len(Order) \in Nat \ {0}
  BY <1>1
<1> QED BY <1>1, <1>2, IttiAssumption DEF IsInjective, Tasks, Range, Processes, Senders

\* The initial state satisfies the invariant: the main thread is at its start and
\* no task exists.
LEMMA BarrierInit == IttiInit => BarrierInv
BY OrderFacts DEF IttiInit, BarrierInv, BarrierTypes, WhileCreating, AfterCreating,
   Creating, Waiting

\* A step of a process past the barrier: all tasks are ready and stay so.
LEMMA BarrierKeeps ==
  ASSUME BarrierInv, NEW p \in Processes, NEW label,
         pc[p] \notin Waiting \cup Creating, label \notin Waiting \cup Creating,
         pc' = [pc EXCEPT ![p] = label],
         next' = next \/ next' = [next EXCEPT ![p] = @ + 1],
         task_state' = task_state
  PROVE  BarrierInv'
<1>1. pc[Main] \notin Creating
  BY OrderFacts DEF BarrierInv, WhileCreating
<1>2. pc'[Main] \notin Creating \cup Waiting /\ DOMAIN pc' = Processes
  BY <1>1, OrderFacts DEF BarrierInv, BarrierTypes
<1>3. DOMAIN next' = Processes /\ next'[Main] \in Nat
  BY OrderFacts DEF BarrierInv, BarrierTypes
<1> QED BY <1>1, <1>2, <1>3
       DEF BarrierInv, BarrierTypes, WhileCreating, AfterCreating, IsReady

\* A step of a task that stays before the barrier, or comes to be ready.
LEMMA BarrierWaits ==
  ASSUME BarrierInv, NEW t \in Tasks, NEW label \in Waiting \ {"none"},
         pc[t] \in Waiting \ {"none"},
         pc' = [pc EXCEPT ![t] = label],
         task_state' = task_state \/ task_state' = [task_state EXCEPT ![t] = "ready"],
         UNCHANGED <<next, wait_tasks>>
  PROVE  BarrierInv'
<1>1. pc'[Main] = pc[Main] /\ DOMAIN pc' = Processes /\ t # Main
  BY OrderFacts DEF BarrierInv, BarrierTypes
<1>2. DOMAIN task_state' = Tasks /\ \A u \in Tasks : IsReady(u) => IsReady(u)'
  BY DEF BarrierInv, BarrierTypes, IsReady
<1>3. BarrierTypes'
  BY <1>1, <1>2 DEF BarrierInv, BarrierTypes
<1>4. WhileCreating'
  <2>1. pc[Main] # "start"
    BY DEF BarrierInv, WhileCreating, Creating
  <2>2. pc[Main] \in Creating => \A p \in Senders : pc'[p] \in Waiting
    BY OrderFacts DEF BarrierInv, BarrierTypes, WhileCreating
  <2> QED BY <1>1, <1>2, <2>1, <2>2, OrderFacts DEF BarrierInv, WhileCreating
<1>5. AfterCreating'
  BY <1>1, <1>2 DEF BarrierInv, AfterCreating
<1> QED BY <1>3, <1>4, <1>5 DEF BarrierInv

\* The steps of create_tasks.
LEMMA BarrierBoot ==
  ASSUME BarrierInv, BootStep
  PROVE  BarrierInv'
<1>1. CASE WaitReady
  BY <1>1, OrderFacts DEF WaitReady, Goto, BarrierInv, BarrierTypes, WhileCreating,
     AfterCreating, Creating, Waiting, sendVars
<1>2. CASE CreateTask
  <2> DEFINE t == Order[next[Main]]
  <2>1. pc[Main] = "create" /\ next[Main] \in 1..Len(Order) /\ t \in Tasks /\ t # Main
    BY <1>2, OrderFacts DEF CreateTask, BarrierInv, WhileCreating, Creating
  <2>2. /\ pc' = [pc EXCEPT ![Main] = "poll", ![t] = "starting"]
        /\ task_state' = [task_state EXCEPT ![t] = "starting"]
        /\ next' = next /\ wait_tasks' = wait_tasks
    BY <1>2 DEF CreateTask, sendVars
  <2> HIDE DEF t
  <2>3. pc'[Main] = "poll" /\ DOMAIN pc' = Processes
    BY <2>1, <2>2, OrderFacts DEF BarrierInv, BarrierTypes
  <2>4. \A p \in Senders : pc'[p] \in Waiting
    BY <2>1, <2>2, OrderFacts DEF BarrierInv, BarrierTypes, WhileCreating, Creating, Waiting
  <2>5. \A i \in 1..Len(Order) : i < next[Main] => IsReady(Order[i])'
    <3> SUFFICES ASSUME NEW i \in 1..Len(Order), i < next[Main]
                 PROVE  IsReady(Order[i])'
      OBVIOUS
    <3>1. Order[i] \in Tasks /\ Order[i] # t
      BY <2>1, OrderFacts DEF t
    <3>2. IsReady(Order[i])
      BY <2>1 DEF BarrierInv, WhileCreating, Creating
    <3> QED BY <2>2, <3>1, <3>2 DEF BarrierInv, BarrierTypes, IsReady
  <2> QED BY <2>1, <2>2, <2>3, <2>4, <2>5
         DEF BarrierInv, BarrierTypes, WhileCreating, AfterCreating, Creating, Waiting
<1>3. CASE TaskIsReady
  <2> DEFINE last == next[Main] = Len(Order)
  <2>1. /\ pc[Main] = "poll" /\ next[Main] \in 1..Len(Order)
        /\ \A i \in 1..Len(Order) : i < next[Main] => IsReady(Order[i])
        /\ IsReady(Order[next[Main]])
    BY <1>3 DEF TaskIsReady, BarrierInv, WhileCreating, Creating, IsReady
  <2>2. /\ next' = [next EXCEPT ![Main] = IF last THEN 1 ELSE next[Main] + 1]
        /\ pc' = [pc EXCEPT ![Main] = IF last THEN "release" ELSE "create"]
        /\ task_state' = task_state /\ wait_tasks' = wait_tasks
    BY <1>3 DEF TaskIsReady, Goto, bootVars
  <2> HIDE DEF last
  <2>3. /\ DOMAIN next' = Processes /\ DOMAIN pc' = Processes
        /\ next'[Main] = IF last THEN 1 ELSE next[Main] + 1
        /\ pc'[Main] = IF last THEN "release" ELSE "create"
        /\ \A p \in Senders : pc'[p] = pc[p]
    BY <2>2, OrderFacts DEF BarrierInv, BarrierTypes
  <2>4. BarrierTypes'
    BY <2>1, <2>2, <2>3 DEF BarrierInv, BarrierTypes, Waiting
  <2>5. last => \A t \in Tasks : IsReady(t)
    BY <2>1, OrderFacts DEF last
  <2>6. ~last => next[Main] + 1 \in 1..Len(Order)
    BY <2>1, OrderFacts DEF last
  <2>7. \A i \in 1..Len(Order) : i < next[Main] + 1 => IsReady(Order[i])
    BY <2>1, OrderFacts
  <2>8. (\A p \in Senders : pc[p] \in Waiting) /\ wait_tasks # 0
    BY <2>1 DEF BarrierInv, WhileCreating, Creating
  <2> QED BY <2>2, <2>3, <2>4, <2>5, <2>6, <2>7, <2>8
         DEF BarrierInv, WhileCreating, AfterCreating, Creating, IsReady
<1>4. CASE Release
  BY <1>4, OrderFacts DEF Release, Goto, BarrierInv, BarrierTypes, WhileCreating,
     AfterCreating, Creating, Waiting, sendVars, IsReady
<1>5. CASE Compare
  BY <1>5, OrderFacts DEF Compare, BarrierInv, BarrierTypes, WhileCreating,
     AfterCreating, Creating, Waiting, sendVars, IsReady
<1> QED BY <1>1, <1>2, <1>3, <1>4, <1>5 DEF BootStep

\* itti_mark_task_ready: the barrier lets a task pass when it is open.
LEMMA BarrierReady ==
  ASSUME BarrierInv, NEW t \in Tasks, ReadyStep(t)
  PROVE  BarrierInv'
<1>1. CASE MarkReady(t)
  BY <1>1, BarrierWaits DEF MarkReady, Goto, Waiting, bootVars, sendVars
<1>2. CASE Count(t)
  BY <1>2, BarrierWaits DEF Count, Goto, Waiting, sendVars
<1>3. CASE Add(t)
  BY <1>3, BarrierWaits DEF Add, Goto, Waiting, sendVars
<1>4. CASE PassBarrier(t)
  <2>1. pc[Main] \notin Creating
    BY <1>4 DEF PassBarrier, BarrierInv, WhileCreating, Creating
  <2>2. pc'[Main] = pc[Main] /\ DOMAIN pc' = Processes /\ t # Main
    BY <1>4, OrderFacts DEF PassBarrier, Goto, BarrierInv, BarrierTypes
  <2> QED BY <1>4, <2>1, <2>2 DEF PassBarrier, sendVars, BarrierInv, BarrierTypes,
            WhileCreating, AfterCreating, IsReady
<1> QED BY <1>1, <1>2, <1>3, <1>4 DEF ReadyStep

\* Sending, receiving, polling and ending.
LEMMA BarrierLater ==
  ASSUME BarrierInv, NEW p \in Processes,
         SendStep(p) \/ EndStep(p)
           \/ (p \in Senders /\ (Exit(p) \/ \E m \in Mailboxes : StartSend(p, m)))
           \/ (p \in Tasks /\ ReceiveStep(p))
  PROVE  BarrierInv'
<1> DEFINE Late(l) == l \notin Waiting \cup Creating
<1> USE DEF Goto, bootVars, sendVars
<1>0. Late(Back(p)) /\ Late("running") /\ Late("send") /\ Late("enqueue") /\ Late("write")
      /\ Late("dequeue") /\ Late("broadcast") /\ Late("kill") /\ Late("exited") /\ Late("closing")
  BY DEF Back, Waiting, Creating
<1> HIDE DEF Late
<1>k. ASSUME NEW label, Late(label), Late(pc[p]), pc' = [pc EXCEPT ![p] = label],
             next' = next \/ next' = [next EXCEPT ![p] = @ + 1],
             task_state' = task_state
      PROVE  BarrierInv'
  BY <1>k, BarrierKeeps DEF Late
<1>1. CASE SendStep(p)
  <2>1. CASE CheckReceiver(p)
    BY <1>0, <1>k, <2>1 DEF CheckReceiver
  <2>2. CASE Enqueue(p)
    BY <1>0, <1>k, <2>2 DEF Enqueue
  <2>3. CASE WriteEvent(p)
    BY <1>0, <1>k, <2>3 DEF WriteEvent
  <2> QED BY <1>1, <2>1, <2>2, <2>3 DEF SendStep
<1>2. CASE EndStep(p)
  <2>1. CASE Broadcast(p)
    <3>1. next' = next \/ next' = [next EXCEPT ![p] = @ + 1]
      BY <2>1 DEF Broadcast
    <3>2. \E label : Late(label) /\ pc' = [pc EXCEPT ![p] = label]
      BY <1>0, <2>1 DEF Broadcast
    <3> QED BY <1>0, <1>k, <2>1, <3>1, <3>2 DEF Broadcast
  <2>2. CASE Kill(p)
    BY <1>0, <1>k, <2>2 DEF Kill
  <2> QED BY <1>2, <2>1, <2>2 DEF EndStep
<1>3. CASE p \in Senders /\ Exit(p)
  BY <1>0, <1>k, <1>3 DEF Exit
<1>4. CASE \E m \in Mailboxes : StartSend(p, m)
  BY <1>0, <1>k, <1>4 DEF StartSend
<1>5. CASE p \in Tasks /\ ReceiveStep(p)
  <2>1. CASE ReadEvent(p)
    BY <1>0, <1>k, <2>1 DEF ReadEvent
  <2>2. CASE Dequeue(p)
    BY <1>0, <1>k, <2>2 DEF Dequeue
  <2> QED BY <1>5, <2>1, <2>2 DEF ReceiveStep
<1> QED BY <1>1, <1>2, <1>3, <1>4, <1>5

\* The main thread after create_tasks.
LEMMA BarrierMain ==
  ASSUME BarrierInv, HandleSignals \/ Usr1 \/ Interrupt \/ Close
  PROVE  BarrierInv'
<1> USE DEF Goto, bootVars, sendVars
<1>1. CASE HandleSignals
  BY <1>1, BarrierKeeps, OrderFacts DEF HandleSignals, Waiting, Creating
<1>2. CASE Usr1
  BY <1>2, BarrierKeeps, OrderFacts DEF Usr1, Waiting, Creating
<1>3. CASE Interrupt
  BY <1>3, BarrierKeeps, OrderFacts DEF Interrupt, Waiting, Creating
<1>4. CASE Close
  <2>1. pc[Main] \notin Creating
    BY <1>4 DEF Close, Creating
  <2>2. pc'[Main] = "over" /\ DOMAIN pc' = Processes
    BY <1>4, OrderFacts DEF Close, BarrierInv, BarrierTypes
  <2>3. DOMAIN task_state' = Tasks /\ \A t \in Tasks : IsReady(t)'
    BY <1>4, <2>1 DEF Close, BarrierInv, AfterCreating, IsReady
  <2> QED BY <1>4, <2>2, <2>3 DEF Close, BarrierInv, BarrierTypes, WhileCreating,
            AfterCreating, Creating, Waiting
<1> QED BY <1>1, <1>2, <1>3, <1>4

\* Every step keeps the invariant.
LEMMA BarrierStep == BarrierInv /\ [IttiNext]_ittiVars => BarrierInv'
<1> SUFFICES ASSUME BarrierInv, [IttiNext]_ittiVars
             PROVE  BarrierInv'
  OBVIOUS
<1>1. CASE UNCHANGED ittiVars
  BY <1>1 DEF ittiVars, bootVars, sendVars, BarrierInv, BarrierTypes, WhileCreating,
     AfterCreating, IsReady
<1>2. CASE \E s \in SubTasks : Poll(s)
  BY <1>2 DEF Poll, bootVars, sendVars, BarrierInv, BarrierTypes, WhileCreating,
     AfterCreating, IsReady
<1>3. CASE \E t \in Tasks : ReadyStep(t) \/ ReceiveStep(t)
  BY <1>3, BarrierReady, BarrierLater, OrderFacts
<1>4. CASE \E p \in Senders, m \in Mailboxes : StartSend(p, m)
  BY <1>4, BarrierLater, OrderFacts
<1>5. CASE \E p \in Processes : SendStep(p) \/ EndStep(p)
  BY <1>5, BarrierLater
<1>6. CASE \E p \in Senders : Exit(p)
  BY <1>6, BarrierLater, OrderFacts
<1>7. CASE BootStep \/ HandleSignals \/ Usr1 \/ Interrupt \/ Close
  BY <1>7, BarrierBoot, BarrierMain
<1> QED BY <1>1, <1>2, <1>3, <1>4, <1>5, <1>6, <1>7 DEF IttiNext

\* The barrier of create_tasks holds, whatever the tasks are and do: none of them
\* runs before all are ready to receive.
THEOREM BarrierHolds == IttiSpec => []NobodyRunsAhead
<1>1. BarrierInv => NobodyRunsAhead
  BY OrderFacts DEF BarrierInv, WhileCreating, AfterCreating, NobodyRunsAhead, IsReady, Waiting
<1> QED BY <1>1, BarrierInit, BarrierStep, PTL DEF IttiSpec
-----------------------------------------------------------------------------
(* The descriptors and the queues.                                         *)

Labels == {"start", "create", "poll", "release", "compare", "up", "signals", "closing",
           "over", "none", "starting", "count", "add", "barrier", "running", "send",
           "enqueue", "write", "dequeue", "broadcast", "kill", "exited"}

\* The parts of IttiTypeOK, by what changes together.
StateTypes == task_state \in [Tasks -> {"not_configured", "starting", "ready", "ended"}]
BootTypes ==
  /\ created_tasks \in 0..Len(Order) /\ ready_tasks \in 0..Len(Order)
  /\ wait_tasks \in {0, 1} /\ counted \in [Tasks -> 0..Len(Order)]
EndTypes == thread_handling_signals \in BOOLEAN /\ signal \in BOOLEAN
MailTypes ==
  message_queue \in [Mailboxes -> Seq(Contents)] /\ event_fd \in [Tasks -> Nat]
PcTypes == pc \in [Processes -> Labels]
SendTypes ==
  /\ message \in [Processes -> [to : Mailboxes, what : Contents]]
  /\ next \in [Processes -> 1..(Len(Order) + 1)]
  /\ sent \in [Senders -> 0..MaxSends]
FailTypes == failed \subseteq {"counts match", "ready", "queue has message"}

\* Tasks the main thread has not come to exist only in its list.
Ahead(i) ==
  \/ pc[Main] = "start"
  \/ pc[Main] = "create" /\ i >= next[Main]
  \/ pc[Main] = "poll" /\ i > next[Main]

\* Tasks whose increment of ready_tasks is done.
Added == {t \in Tasks : pc[t] \notin {"none", "starting", "count", "add"}}

BootCounts ==
  /\ \A i \in 1..Len(Order) : Ahead(i) => pc[Order[i]] = "none"
  /\ pc[Main] \in Creating \cup {"compare"} => pc[Modem] = "none"
  /\ pc[Main] = "start" => created_tasks = 0
  /\ pc[Main] = "create" => created_tasks + 1 = next[Main]
  /\ pc[Main] = "poll" => created_tasks = next[Main]
  /\ ready_tasks <= Cardinality(Added)
  /\ \A t \in Tasks : pc[t] = "add" => counted[t] <= Cardinality(Added)

\* EventsMatchQueue without the types.
Receiving(t) == IF pc[t] = "dequeue" THEN 1 ELSE 0
Matches(t) ==
  Len(message_queue[t]) = event_fd[t] + Cardinality(Uncounted(t)) + Receiving(t)

MailInv ==
  /\ BarrierInv /\ IttiTypeOK /\ BootCounts
  /\ \A p \in Processes : pc[p] = "write" => message[p].to \in Tasks
  /\ \A t \in Tasks : pc[t] # "over" => Matches(t)

LEMMA TypesByPart ==
  IttiTypeOK <=> /\ StateTypes /\ BootTypes /\ EndTypes /\ MailTypes
                 /\ PcTypes /\ SendTypes /\ FailTypes
BY DEF IttiTypeOK, StateTypes, BootTypes, EndTypes, MailTypes, PcTypes, SendTypes,
       FailTypes, Labels

\* The lists of names are finite, and the tasks are as many as their list is long.
LEMMA TasksAreFinite ==
  /\ IsFiniteSet(Tasks) /\ Cardinality(Tasks) <= Len(Order)
  /\ Cardinality(Tasks) \in Nat /\ IsFiniteSet(Processes)
<1> DEFINE L == Len(Order)
<1>1. L \in Int /\ 1 \in Int /\ L >= 1
  BY OrderFacts
<1> HIDE DEF L
<1>2. IsFiniteSet(1..L) /\ Cardinality(1..L) = IF 1 > L THEN 0 ELSE L - 1 + 1
  BY <1>1, FS_Interval, Zenon
<1>3. Order \in Surjection(1..L, Tasks)
  <2>1. Order \in [1..L -> Tasks] /\ \A t \in Tasks : \E i \in 1..L : Order[i] = t
    BY OrderFacts, IttiAssumption DEF L
  <2> QED BY <2>1 DEF Surjection
<1>4. IsFiniteSet(Tasks) /\ Cardinality(Tasks) <= Cardinality(1..L)
  BY <1>2, <1>3, FS_Surjection
<1>5. IsFiniteSet(Processes)
  <2>1. IsFiniteSet({Modem} \cup {Main})
    BY FS_Singleton, FS_AddElement
  <2>2. Processes = Tasks \cup ({Modem} \cup {Main})
    BY OrderFacts
  <2> QED BY <1>4, <2>1, <2>2, FS_Union
<1>6. Cardinality(1..L) = L
  BY <1>1, <1>2
<1> QED BY <1>4, <1>5, <1>6, FS_CardinalityType DEF L

-----------------------------------------------------------------------------
(* Types.                                                                  *)

\* The task the main thread creates next.
LEMMA NextTask ==
  ASSUME BarrierInv, pc[Main] \in {"create", "poll"}
  PROVE  next[Main] \in 1..Len(Order) /\ Order[next[Main]] \in Tasks
BY OrderFacts DEF BarrierInv, WhileCreating, Creating

LEMMA StateTypesKept == BarrierInv /\ IttiTypeOK /\ IttiNext => StateTypes'
<1> SUFFICES ASSUME BarrierInv, StateTypes, IttiNext PROVE StateTypes'
  BY TypesByPart
<1>1. CASE CreateTask
  BY <1>1, NextTask DEF CreateTask, StateTypes
<1>2. ASSUME NEW t \in Tasks, MarkReady(t) PROVE StateTypes'
  BY <1>2 DEF MarkReady, StateTypes
<1>3. CASE Close
  BY <1>3 DEF Close, StateTypes
<1>4. CASE UNCHANGED task_state
  BY <1>4 DEF StateTypes
<1> QED
  BY <1>1, <1>2, <1>3, <1>4
     DEF IttiNext, BootStep, WaitReady, TaskIsReady, Release, Compare, HandleSignals,
         Usr1, Interrupt, ReadyStep, Count, Add, PassBarrier, ReceiveStep, ReadEvent,
         Dequeue, StartSend, SendStep, CheckReceiver, Enqueue, WriteEvent, EndStep,
         Broadcast, Kill, Exit, Poll

\* ready_tasks is bounded by the tasks that have counted themselves, created_tasks by
\* the place of the main thread in its list.
LEMMA BootTypesKept == MailInv /\ IttiNext => BootTypes'
<1> SUFFICES ASSUME MailInv, BootTypes, IttiNext PROVE BootTypes'
  BY TypesByPart DEF MailInv
<1>1. CASE WaitReady
  BY <1>1 DEF WaitReady, BootTypes
<1>2. CASE CreateTask
  <2>1. created_tasks + 1 = next[Main] /\ next[Main] \in 1..Len(Order)
    BY <1>2, NextTask DEF CreateTask, MailInv, BootCounts
  <2> QED BY <1>2, <2>1 DEF CreateTask, BootTypes
<1>3. CASE Release
  BY <1>3 DEF Release, BootTypes
<1>4. ASSUME NEW t \in Tasks, Count(t) PROVE BootTypes'
  BY <1>4 DEF Count, BootTypes
<1>5. ASSUME NEW t \in Tasks, Add(t) PROVE BootTypes'
  <2>1. counted[t] <= Cardinality(Added) /\ t \notin Added /\ pc[t] = "add"
    BY <1>5 DEF Add, MailInv, BootCounts, Added
  <2>2. Added \cup {t} \subseteq Tasks
    BY DEF Added
  <2>3. IsFiniteSet(Added) /\ Cardinality(Added) \in Nat
    BY TasksAreFinite, <2>2, FS_Subset, FS_CardinalityType
  <2>4. Cardinality(Added \cup {t}) = Cardinality(Added) + 1
    BY <2>1, <2>3, FS_AddElement
  <2>5. Cardinality(Added \cup {t}) <= Cardinality(Tasks)
    BY <2>2, TasksAreFinite, FS_Subset
  <2>6. counted[t] \in Nat /\ Len(Order) \in Nat
    BY OrderFacts DEF BootTypes
  <2>7. counted[t] + 1 \in 0..Len(Order)
    BY <2>1, <2>3, <2>4, <2>5, <2>6, TasksAreFinite
  <2> QED BY <1>5, <2>7 DEF Add, BootTypes
<1>6. CASE UNCHANGED bootVars
  BY <1>6 DEF bootVars, BootTypes
<1> QED
  BY <1>1, <1>2, <1>3, <1>4, <1>5, <1>6
     DEF IttiNext, BootStep, TaskIsReady, Compare, HandleSignals,
         Usr1, Interrupt, Close, ReadyStep, MarkReady, PassBarrier, ReceiveStep, ReadEvent,
         Dequeue, StartSend, SendStep, CheckReceiver, Enqueue, WriteEvent, EndStep,
         Broadcast, Kill, Exit, Poll

LEMMA EndTypesKept == IttiTypeOK /\ IttiNext => EndTypes'
<1> SUFFICES ASSUME EndTypes, IttiNext PROVE EndTypes'
  BY TypesByPart
<1>1. ASSUME NEW p \in Processes, Kill(p) PROVE EndTypes'
  BY <1>1 DEF Kill, EndTypes
<1>2. CASE HandleSignals \/ Usr1
  BY <1>2 DEF HandleSignals, Usr1, EndTypes
<1>3. CASE UNCHANGED endVars
  BY <1>3 DEF endVars, EndTypes
<1> QED
  BY <1>1, <1>2, <1>3
     DEF IttiNext, BootStep, WaitReady, CreateTask, TaskIsReady, Release, Compare,
         Interrupt, Close, ReadyStep, MarkReady, Count, Add, PassBarrier, ReceiveStep,
         ReadEvent, Dequeue, StartSend, SendStep, CheckReceiver, Enqueue, WriteEvent,
         EndStep, Broadcast, Exit, Poll

\* What is put into queues are messages of the senders or the one that ends a task.
LEMMA MailTypesKept == MailInv /\ IttiNext => MailTypes'
<1> SUFFICES ASSUME MailInv, MailTypes, SendTypes, IttiNext PROVE MailTypes'
  BY TypesByPart DEF MailInv
<1>0. \A q \in Seq(Contents), c \in Contents :
        Append(q, c) \in Seq(Contents) /\ (q # << >> => Tail(q) \in Seq(Contents))
  OBVIOUS
<1>1. ASSUME NEW p \in Processes, Enqueue(p) PROVE MailTypes'
  <2>1. message[p].to \in Mailboxes /\ message[p].what \in Contents
    BY DEF SendTypes
  <2> QED BY <1>0, <1>1, <2>1 DEF Enqueue, MailTypes
<1>2. ASSUME NEW p \in Processes, WriteEvent(p) PROVE MailTypes'
  <2> DEFINE t == message[p].to
  <2>1. event_fd[t] + 1 \in Nat
    BY <1>2 DEF WriteEvent, MailInv, MailTypes
  <2>2. event_fd' = [event_fd EXCEPT ![t] = event_fd[t] + 1] /\ message_queue' = message_queue
    BY <1>2 DEF WriteEvent, MailTypes, MailInv
  <2> HIDE DEF t
  <2> QED BY <2>1, <2>2 DEF MailTypes
<1>3. ASSUME NEW t \in Tasks, ReadEvent(t) PROVE MailTypes'
  <2>1. event_fd[t] - 1 \in Nat
    BY <1>3 DEF ReadEvent, MailTypes
  <2> QED BY <1>3, <2>1 DEF ReadEvent, MailTypes
<1>4. ASSUME NEW t \in Tasks, Dequeue(t) PROVE MailTypes'
  <2>1. t \in Mailboxes /\ message_queue[t] \in Seq(Contents)
    BY DEF Mailboxes, MailTypes
  <2>2. CASE message_queue[t] = << >>
    BY <1>4, <2>2 DEF Dequeue, MailTypes
  <2>3. CASE message_queue[t] # << >>
    <3>1. Tail(message_queue[t]) \in Seq(Contents)
      BY <1>0, <2>1, <2>3
    <3> QED BY <1>4, <2>3, <3>1 DEF Dequeue, MailTypes
  <2> QED BY <2>2, <2>3
<1>5. ASSUME NEW s \in SubTasks, Poll(s) PROVE MailTypes'
  <2>1. s \in Mailboxes /\ message_queue[s] \in Seq(Contents)
    BY DEF Mailboxes, MailTypes
  <2> QED BY <1>0, <1>5, <2>1 DEF Poll, MailTypes
<1>6. CASE UNCHANGED mailVars
  BY <1>6 DEF mailVars, MailTypes
<1> QED
  BY <1>1, <1>2, <1>3, <1>4, <1>5, <1>6
     DEF IttiNext, BootStep, WaitReady, CreateTask, TaskIsReady, Release, Compare,
         HandleSignals, Usr1, Interrupt, Close, ReadyStep, MarkReady, Count, Add,
         PassBarrier, ReceiveStep, StartSend, SendStep, CheckReceiver, EndStep,
         Broadcast, Kill, Exit

LEMMA SendTypesKept == MailInv /\ IttiNext => SendTypes'
<1> SUFFICES ASSUME MailInv, SendTypes, IttiNext PROVE SendTypes'
  BY TypesByPart DEF MailInv
<1>0. Len(Order) \in Nat \ {0} /\ Main \in Processes
  BY OrderFacts
<1>1. CASE TaskIsReady
  <2>1. next[Main] \in 1..Len(Order)
    BY <1>1, NextTask DEF TaskIsReady, MailInv
  <2>2. next[Main] + 1 \in 1..(Len(Order) + 1) /\ 1 \in 1..(Len(Order) + 1)
    BY <1>0, <2>1
  <2>3. next' \in [Processes -> 1..(Len(Order) + 1)]
    BY <1>1, <2>2 DEF TaskIsReady, SendTypes
  <2> QED BY <1>1, <2>3 DEF TaskIsReady, SendTypes
<1>2. ASSUME NEW p \in Senders, NEW m \in Mailboxes, StartSend(p, m) PROVE SendTypes'
  <2>1. MaxSends \in Nat /\ sent[p] \in 0..MaxSends /\ sent[p] < MaxSends
    BY <1>2, IttiAssumption DEF StartSend, SendTypes
  <2>2. sent[p] + 1 \in 1..MaxSends /\ sent[p] + 1 \in 0..MaxSends
    BY <2>1
  <2>3. [to |-> m, what |-> <<p, sent[p] + 1>>] \in [to : Mailboxes, what : Contents]
    BY <2>2 DEF Contents
  <2>4. sent' \in [Senders -> 0..MaxSends]
    BY <1>2, <2>2 DEF StartSend, SendTypes
  <2> QED BY <1>2, <2>3, <2>4 DEF StartSend, SendTypes
<1>3. ASSUME NEW p \in Processes, Broadcast(p) PROVE SendTypes'
  <2>1. CASE next[p] > Len(Order)
    BY <1>3, <2>1 DEF Broadcast, SendTypes
  <2>2. CASE ~(next[p] > Len(Order))
    <3>1. next[p] \in 1..Len(Order) /\ next[p] + 1 \in 1..(Len(Order) + 1)
      BY <1>0, <2>2 DEF SendTypes
    <3>2. Order[next[p]] \in Mailboxes
      BY <3>1, OrderFacts DEF Mailboxes
    <3>3. [to |-> Order[next[p]], what |-> TERMINATE] \in [to : Mailboxes, what : Contents]
      BY <3>2 DEF Contents
    <3>4. next' = [next EXCEPT ![p] = next[p] + 1] /\ sent' = sent
          /\ message' = [message EXCEPT ![p] = [to |-> Order[next[p]], what |-> TERMINATE]]
      BY <1>3, <2>2 DEF Broadcast
    <3> QED BY <3>1, <3>3, <3>4 DEF SendTypes
  <2> QED BY <2>1, <2>2
<1>4. CASE UNCHANGED sendVars
  BY <1>4 DEF sendVars, SendTypes
<1> QED
  BY <1>1, <1>2, <1>3, <1>4
     DEF IttiNext, BootStep, WaitReady, CreateTask, Release, Compare,
         HandleSignals, Usr1, Interrupt, Close, ReadyStep, MarkReady, Count, Add,
         PassBarrier, ReceiveStep, ReadEvent, Dequeue, SendStep, CheckReceiver, Enqueue,
         WriteEvent, EndStep, Kill, Exit, Poll

LEMMA FailTypesKept == IttiTypeOK /\ IttiNext => FailTypes'
<1> SUFFICES ASSUME FailTypes, IttiNext PROVE FailTypes'
  BY TypesByPart
<1>1. CASE \/ failed' = failed \/ Fail("counts match") \/ Fail("ready")
           \/ Fail("queue has message")
  BY <1>1 DEF Fail, FailTypes
<1> QED
  BY <1>1
     DEF IttiNext, BootStep, WaitReady, CreateTask, TaskIsReady, Release, Compare,
         HandleSignals, Usr1, Interrupt, Close, ReadyStep, MarkReady, Count, Add,
         PassBarrier, ReceiveStep, ReadEvent, Dequeue, StartSend, SendStep,
         CheckReceiver, Enqueue, WriteEvent, EndStep, Broadcast, Kill, Exit, Poll

\* Where a step takes the process that makes it, and the steps that move two.
LEMMA Moves ==
  ASSUME BarrierInv, IttiNext
  PROVE  \/ CreateTask \/ Compare \/ Close \/ pc' = pc
         \/ \E p \in Processes : \E label \in Labels : Goto(p, label)
<1> USE DEF Labels
<1>1. ASSUME BootStep, ~CreateTask, ~Compare
      PROVE  \E label \in Labels : Goto(Main, label)
  BY <1>1 DEF BootStep, WaitReady, TaskIsReady, Release
<1>2. ASSUME HandleSignals \/ Usr1 \/ Interrupt
      PROVE  \E label \in Labels : Goto(Main, label)
  BY <1>2 DEF HandleSignals, Usr1, Interrupt
<1>3. ASSUME NEW t \in Tasks, ReadyStep(t) \/ ReceiveStep(t)
      PROVE  \E label \in Labels : Goto(t, label)
  BY <1>3 DEF ReadyStep, MarkReady, Count, Add, PassBarrier, ReceiveStep, ReadEvent,
              Dequeue
<1>4. ASSUME NEW p \in Processes, NEW m \in Mailboxes,
             StartSend(p, m) \/ SendStep(p) \/ EndStep(p) \/ Exit(p)
      PROVE  \E label \in Labels : Goto(p, label)
  BY <1>4 DEF StartSend, SendStep, CheckReceiver, Enqueue, WriteEvent, Back, EndStep,
              Broadcast, Kill, Exit
<1>5. ASSUME NEW s \in SubTasks, Poll(s) PROVE pc' = pc
  BY <1>5 DEF Poll
<1>6. Tasks \subseteq Processes /\ Main \in Processes /\ Senders \subseteq Processes
      /\ Mailboxes # {}
  BY OrderFacts DEF Mailboxes
<1> HIDE DEF Labels
<1> QED
  BY <1>1, <1>2, <1>3, <1>4, <1>5, <1>6 DEF IttiNext

LEMMA PcTypesKept == BarrierInv /\ IttiTypeOK /\ IttiNext => PcTypes'
<1> SUFFICES ASSUME BarrierInv, PcTypes, IttiNext PROVE PcTypes'
  BY TypesByPart
<1>1. CASE pc' = pc \/ \E p \in Processes : \E label \in Labels : Goto(p, label)
  BY <1>1 DEF Goto, PcTypes
<1>2. CASE CreateTask
  <2>1. "poll" \in Labels /\ "starting" \in Labels
    BY DEF Labels
  <2> QED BY <1>2, <2>1 DEF CreateTask, PcTypes
<1>3. CASE Compare
  <2>1. "up" \in Labels /\ "running" \in Labels
    BY DEF Labels
  <2> QED BY <1>3, <2>1 DEF Compare, PcTypes
<1>4. CASE Close
  <2>1. "over" \in Labels
    BY DEF Labels
  <2> QED BY <1>4, <2>1 DEF Close, Goto, PcTypes
<1> QED
  BY <1>1, <1>2, <1>3, <1>4, Moves

-----------------------------------------------------------------------------
(* The counts of create_tasks.                                             *)

Early == {"none", "starting", "count", "add"}

\* Once a task has counted itself it stays counted.
LEMMA AddedGrows ==
  ASSUME Added \subseteq Added'
  PROVE  /\ Cardinality(Added) \in Nat /\ Cardinality(Added') \in Nat
         /\ Cardinality(Added) <= Cardinality(Added')
<1>1. Added' \subseteq Tasks
  BY DEF Added, Tasks
<1>2. IsFiniteSet(Added')
  BY <1>1, TasksAreFinite, FS_Subset
<1> HIDE DEF Added
<1> QED BY <1>2, FS_Subset, FS_CardinalityType

\* The counters are numbers, and not above the tasks that have counted themselves.
LEMMA CountsAreBounded ==
  ASSUME MailInv
  PROVE  /\ ready_tasks \in Nat /\ ready_tasks <= Cardinality(Added)
         /\ \A t \in Tasks : counted[t] \in Nat
         /\ \A t \in Tasks : pc[t] = "add" => counted[t] <= Cardinality(Added)
<1>1. BootTypes /\ BootCounts /\ Len(Order) \in Nat
  BY TypesByPart, OrderFacts DEF MailInv
<1>2. ready_tasks \in 0..Len(Order) /\ \A t \in Tasks : counted[t] \in 0..Len(Order)
  BY <1>1 DEF BootTypes
<1>3. 0..Len(Order) \subseteq Nat
  BY <1>1
<1>4. /\ ready_tasks <= Cardinality(Added)
      /\ \A t \in Tasks : pc[t] = "add" => counted[t] <= Cardinality(Added)
  BY <1>1 DEF BootCounts
<1> HIDE DEF Added, Tasks
<1> QED BY <1>2, <1>3, <1>4

\* A step of a process past its start, which takes it to no place before that.
LEMMA CountsOfLater ==
  ASSUME MailInv, NEW p \in Processes, NEW label, Goto(p, label),
         pc[p] # "none", label \notin Early, UNCHANGED bootVars,
         p # Main => next'[Main] = next[Main],
         p = Main => {pc[Main], label} \cap (Creating \cup {"compare"}) = {}
  PROVE  BootCounts'
<1>1. \A q \in Processes : pc'[q] = IF q = p THEN label ELSE pc[q]
  BY DEF Goto, MailInv, IttiTypeOK
<1>2. Added \subseteq Added'
  BY <1>1, OrderFacts DEF Added, Early
<1>3. /\ Cardinality(Added) \in Nat /\ Cardinality(Added') \in Nat
      /\ Cardinality(Added) <= Cardinality(Added')
  BY <1>2, AddedGrows
<1>4. UNCHANGED <<created_tasks, ready_tasks, wait_tasks, counted>>
  BY DEF bootVars
<1>c. /\ ready_tasks \in Nat /\ ready_tasks <= Cardinality(Added)
      /\ \A t \in Tasks : counted[t] \in Nat
      /\ \A t \in Tasks : pc[t] = "add" => counted[t] <= Cardinality(Added)
  BY CountsAreBounded
<1>5. ready_tasks' <= Cardinality(Added')
  BY <1>3, <1>4, <1>c
<1>6. ASSUME NEW t \in Tasks, pc'[t] = "add" PROVE counted'[t] <= Cardinality(Added')
  <2>1. pc[t] = "add"
    BY <1>1, <1>6, OrderFacts DEF Early
  <2>2. counted[t] <= Cardinality(Added) /\ counted[t] \in Nat
    BY <1>c, <2>1
  <2>3. counted'[t] = counted[t]
    BY <1>4
  <2> QED BY <1>3, <2>2, <2>3
<1>7. /\ Main \in Processes /\ Modem \in Processes /\ Modem # Main
      /\ \A i \in 1..Len(Order) : Order[i] \in Processes /\ Order[i] # Main
  BY OrderFacts
<1>8. ASSUME p # Main
      PROVE  /\ pc'[Main] = pc[Main]
             /\ \A i : Ahead(i)' <=> Ahead(i)
  BY <1>1, <1>7, <1>8 DEF Ahead
<1>9. ASSUME p = Main
      PROVE  /\ pc'[Main] \notin Creating \cup {"compare"}
             /\ \A i : ~Ahead(i)'
  BY <1>1, <1>7, <1>9 DEF Ahead, Creating
<1>10. \A i \in 1..Len(Order) : Ahead(i)' => pc'[Order[i]] = "none"
  BY <1>1, <1>7, <1>8, <1>9 DEF MailInv, BootCounts
<1>11. pc'[Main] \in Creating \cup {"compare"} => pc'[Modem] = "none"
  BY <1>1, <1>7, <1>8, <1>9 DEF MailInv, BootCounts
<1>12. /\ pc'[Main] = "start" => created_tasks' = 0
       /\ pc'[Main] = "create" => created_tasks' + 1 = next'[Main]
       /\ pc'[Main] = "poll" => created_tasks' = next'[Main]
  BY <1>4, <1>8, <1>9 DEF MailInv, BootCounts, Creating
<1> QED BY <1>5, <1>6, <1>10, <1>11, <1>12 DEF BootCounts, Tasks

\* A task that is created, or becomes ready, is not counted yet.
LEMMA CountsOfReady ==
  ASSUME MailInv, NEW t \in Tasks, ReadyStep(t)
  PROVE  BootCounts'
<1>0. t \in Processes /\ t # Main /\ t # Modem /\ Main \in Processes /\ Modem \in Processes
      /\ \A i \in 1..Len(Order) : Order[i] \in Processes
  BY OrderFacts
<1>1. PICK label : Goto(t, label)
  BY DEF ReadyStep, MarkReady, Count, Add, PassBarrier
<1>2. \A q \in Processes : pc'[q] = IF q = t THEN label ELSE pc[q]
  BY <1>1 DEF Goto, MailInv, IttiTypeOK
<1>3. pc[t] \in {"starting", "count", "add", "barrier"}
  BY DEF ReadyStep, MarkReady, Count, Add, PassBarrier
<1>4. UNCHANGED <<created_tasks, next>>
  BY DEF ReadyStep, MarkReady, Count, Add, PassBarrier, bootVars, sendVars
<1>5. pc'[Main] = pc[Main] /\ pc'[Modem] = pc[Modem] /\ \A i : Ahead(i)' <=> Ahead(i)
  BY <1>0, <1>2, <1>4 DEF Ahead
<1>6. /\ \A i \in 1..Len(Order) : Ahead(i)' => pc'[Order[i]] = "none"
      /\ pc'[Main] \in Creating \cup {"compare"} => pc'[Modem] = "none"
      /\ pc'[Main] = "start" => created_tasks' = 0
      /\ pc'[Main] = "create" => created_tasks' + 1 = next'[Main]
      /\ pc'[Main] = "poll" => created_tasks' = next'[Main]
  BY <1>0, <1>2, <1>3, <1>4, <1>5 DEF MailInv, BootCounts
<1>7. Added' = IF pc[t] = "add" THEN Added \cup {t} ELSE Added
  <2>1. label \in Early <=> pc[t] \in {"starting", "count"}
    BY <1>0, <1>2, <1>3 DEF ReadyStep, MarkReady, Count, Add, PassBarrier, Goto, Early,
                            MailInv, IttiTypeOK
  <2> QED BY <1>0, <1>2, <1>3, <2>1, OrderFacts DEF Added, Early, Tasks
<1>8. Cardinality(Added) \in Nat /\ Cardinality(Added') \in Nat
      /\ Cardinality(Added) <= Cardinality(Added')
  BY <1>7, AddedGrows
<1>9. /\ ready_tasks \in Nat /\ ready_tasks <= Cardinality(Added)
      /\ \A u \in Tasks : counted[u] \in Nat
      /\ \A u \in Tasks : pc[u] = "add" => counted[u] <= Cardinality(Added)
  BY CountsAreBounded
<1>10. /\ ready_tasks' <= Cardinality(Added')
       /\ \A u \in Tasks : pc'[u] = "add" => counted'[u] <= Cardinality(Added')
  <2>1. CASE MarkReady(t)
    <3>1. label = "count" /\ UNCHANGED <<ready_tasks, counted>>
      BY <1>0, <1>2, <2>1 DEF MarkReady, Goto, MailInv, IttiTypeOK, bootVars
    <3> QED BY <1>2, <1>8, <1>9, <3>1, OrderFacts
  <2>2. CASE Count(t)
    <3>1. /\ label = "add" /\ ready_tasks' = ready_tasks
          /\ \A u \in Tasks : counted'[u] = IF u = t THEN ready_tasks ELSE counted[u]
      BY <1>0, <1>2, <2>2 DEF Count, Goto, MailInv, IttiTypeOK
    <3> QED BY <1>2, <1>8, <1>9, <3>1, OrderFacts
  <2>3. CASE Add(t)
    <3>1. /\ label = "barrier" /\ ready_tasks' = counted[t] + 1 /\ counted' = counted
          /\ pc[t] = "add"
      BY <1>0, <1>2, <2>3 DEF Add, Goto, MailInv, IttiTypeOK
    <3>2. Cardinality(Added') = Cardinality(Added) + 1
      <4>1. IsFiniteSet(Added) /\ t \notin Added
        BY <3>1, TasksAreFinite, FS_Subset DEF Added
      <4> QED BY <1>7, <3>1, <4>1, FS_AddElement
    <3>3. counted[t] + 1 <= Cardinality(Added')
      BY <1>8, <1>9, <3>1, <3>2
    <3> QED BY <1>2, <1>8, <1>9, <3>1, <3>3, OrderFacts
  <2>4. CASE PassBarrier(t)
    <3>1. label = "running" /\ UNCHANGED <<ready_tasks, counted>>
      BY <1>0, <1>2, <2>4 DEF PassBarrier, Goto, MailInv, IttiTypeOK, bootVars
    <3> QED BY <1>2, <1>8, <1>9, <3>1, OrderFacts
  <2> QED BY <2>1, <2>2, <2>3, <2>4 DEF ReadyStep
<1> QED BY <1>6, <1>10 DEF BootCounts, Tasks

LEMMA CountsOfBoot ==
  ASSUME MailInv, BootStep
  PROVE  BootCounts'
<1>0. /\ Main \in Processes /\ Modem \in Processes /\ Main # Modem
      /\ \A i \in 1..Len(Order) : Order[i] \in Tasks /\ Order[i] \in Processes
                                  /\ Order[i] # Main /\ Order[i] # Modem
      /\ \A u \in Tasks : u \in Processes /\ u # Main /\ u # Modem
      /\ pc \in [Processes -> Labels]
      /\ next \in [Processes -> 1..(Len(Order) + 1)] /\ Len(Order) \in Nat
  BY OrderFacts, TypesByPart DEF MailInv, PcTypes, SendTypes
<1>a. ASSUME \A t \in Tasks : pc'[t] \in Early <=> pc[t] \in Early,
             UNCHANGED <<ready_tasks, counted>>,
             \A t \in Tasks : pc'[t] = "add" => pc[t] = "add"
      PROVE  /\ ready_tasks' <= Cardinality(Added')
             /\ \A t \in Tasks : pc'[t] = "add" => counted'[t] <= Cardinality(Added')
  <2>1. Added' = Added
    BY <1>a DEF Added, Early, Tasks
  <2> QED BY <1>a, <2>1 DEF MailInv, BootCounts
<1>1. CASE WaitReady
  <2>1. /\ \A q \in Processes : pc'[q] = IF q = Main THEN "create" ELSE pc[q]
        /\ next' = next /\ created_tasks' = created_tasks
        /\ UNCHANGED <<ready_tasks, counted>> /\ pc[Main] = "start"
    BY <1>0, <1>1 DEF WaitReady, Goto, sendVars
  <2>2. next[Main] = 1
    BY <2>1 DEF MailInv, BarrierInv, WhileCreating, Creating
  <2>3. \A i \in 1..Len(Order) : pc[Order[i]] = "none"
    BY <2>1 DEF MailInv, BootCounts, Ahead
  <2>4. created_tasks = 0 /\ pc[Modem] = "none"
    BY <2>1 DEF MailInv, BootCounts, Creating
  <2> QED BY <1>0, <1>a, <2>1, <2>2, <2>3, <2>4 DEF BootCounts, Tasks, Creating
<1>2. CASE CreateTask
  <2> DEFINE k == next[Main]
             t == Order[k]
  <2>1. k \in 1..Len(Order) /\ t \in Tasks /\ pc[Main] = "create"
    BY <1>2, NextTask DEF CreateTask, MailInv
  <2>2. pc[t] = "none" /\ pc[Modem] = "none" /\ created_tasks + 1 = k
    BY <2>1 DEF MailInv, BootCounts, Ahead, Creating
  <2>3. /\ pc' = [pc EXCEPT ![Main] = "poll", ![t] = "starting"]
        /\ next' = next /\ created_tasks' = created_tasks + 1
        /\ UNCHANGED <<ready_tasks, counted>>
    BY <1>2 DEF CreateTask, sendVars
  <2>4. \A i \in 1..Len(Order) : i > k => pc[Order[i]] = "none" /\ Order[i] # t
    BY <2>1, OrderFacts DEF MailInv, BootCounts, Ahead
  <2> HIDE DEF k, t
  <2>5. \A q \in Processes : pc'[q] = IF q = t THEN "starting" ELSE
                                      IF q = Main THEN "poll" ELSE pc[q]
    BY <1>0, <2>1, <2>3
  <2>6. \A u \in Tasks : (pc'[u] \in Early <=> pc[u] \in Early)
                         /\ (pc'[u] = "add" => pc[u] = "add")
    BY <1>0, <2>1, <2>2, <2>5 DEF Early
  <2>7. pc'[Main] = "poll" /\ pc'[Modem] = "none"
    BY <1>0, <2>1, <2>2, <2>5
  <2>8. \A i \in 1..Len(Order) : Ahead(i)' => pc'[Order[i]] = "none"
    BY <1>0, <2>1, <2>3, <2>4, <2>5, <2>7 DEF Ahead, k
  <2> QED BY <1>a, <2>2, <2>3, <2>6, <2>7, <2>8 DEF BootCounts, Tasks, Creating, k
<1>3. CASE TaskIsReady
  <2> DEFINE k == next[Main]
  <2>1. k \in 1..Len(Order) /\ pc[Main] = "poll"
    BY <1>3, NextTask DEF TaskIsReady, MailInv
  <2>2. /\ next'[Main] = IF k = Len(Order) THEN 1 ELSE k + 1
        /\ \A q \in Processes :
             pc'[q] = IF q = Main THEN IF k = Len(Order) THEN "release" ELSE "create"
                      ELSE pc[q]
        /\ UNCHANGED <<created_tasks, ready_tasks, counted>>
    BY <1>0, <1>3 DEF TaskIsReady, Goto, bootVars
  <2>3. pc[Modem] = "none" /\ created_tasks = k
        /\ \A i \in 1..Len(Order) : i > k => pc[Order[i]] = "none"
    BY <2>1 DEF MailInv, BootCounts, Ahead, Creating
  <2> HIDE DEF k
  <2>4. \A i \in 1..Len(Order) : Ahead(i)' => pc'[Order[i]] = "none"
    BY <1>0, <2>1, <2>2, <2>3 DEF Ahead
  <2>5. /\ pc'[Modem] = "none" /\ pc'[Main] \in {"create", "release"}
        /\ pc'[Main] = "create" => created_tasks' + 1 = next'[Main]
    BY <1>0, <2>1, <2>2, <2>3
  <2> QED BY <1>0, <1>a, <2>2, <2>4, <2>5 DEF BootCounts, Tasks
<1>4. CASE Release
  <2>1. /\ \A q \in Processes : pc'[q] = IF q = Main THEN "compare" ELSE pc[q]
        /\ UNCHANGED <<created_tasks, ready_tasks, counted>> /\ pc[Main] = "release"
    BY <1>0, <1>4 DEF Release, Goto
  <2>2. pc[Modem] = "none" /\ pc'[Main] = "compare" /\ \A i : ~Ahead(i)'
    BY <1>0, <2>1 DEF MailInv, BootCounts, Creating, Ahead
  <2> QED BY <1>0, <1>a, <2>1, <2>2 DEF BootCounts, Tasks
<1>5. CASE Compare
  <2>1. /\ \A u \in Tasks : pc'[u] = pc[u]
        /\ pc'[Main] = "up" /\ UNCHANGED <<created_tasks, ready_tasks, counted>>
    BY <1>0, <1>5 DEF Compare, bootVars
  <2>2. \A i : ~Ahead(i)'
    BY <2>1 DEF Ahead
  <2> QED BY <1>a, <2>1, <2>2 DEF BootCounts, Tasks, Creating
<1> QED BY <1>1, <1>2, <1>3, <1>4, <1>5 DEF BootStep

LEMMA BootCountsKept == MailInv /\ IttiNext => BootCounts'
<1> SUFFICES ASSUME MailInv, IttiNext PROVE BootCounts'
  OBVIOUS
<1>0. Tasks \subseteq Processes /\ Senders \subseteq Processes /\ Main \in Processes
      /\ Main \notin Senders /\ Tasks \subseteq Senders
  BY OrderFacts
<1>1. CASE BootStep
  BY <1>1, CountsOfBoot
<1>2. ASSUME NEW t \in Tasks, ReadyStep(t) PROVE BootCounts'
  BY <1>2, CountsOfReady
<1>3. ASSUME NEW p \in Processes,
             SendStep(p) \/ EndStep(p)
               \/ (p \in Senders /\ (Exit(p) \/ \E m \in Mailboxes : StartSend(p, m)))
               \/ (p \in Tasks /\ ReceiveStep(p))
      PROVE  BootCounts'
  <2>1. PICK label \in {"running", "broadcast", "enqueue", "write", "dequeue", "exited",
                        "send", "closing", "kill"} : Goto(p, label)
    BY <1>3 DEF StartSend, SendStep, CheckReceiver, Enqueue, WriteEvent, Back, EndStep,
                Broadcast, Kill, Exit, ReceiveStep, ReadEvent, Dequeue
  <2>2. pc[p] \in {"running", "send", "enqueue", "write", "dequeue", "broadcast", "kill"}
    BY <1>3 DEF StartSend, SendStep, CheckReceiver, Enqueue, WriteEvent, Back, EndStep,
                Broadcast, Kill, Exit, ReceiveStep, ReadEvent, Dequeue
  <2>3. UNCHANGED bootVars
    BY <1>3 DEF StartSend, SendStep, CheckReceiver, Enqueue, WriteEvent, EndStep,
                Broadcast, Kill, Exit, ReceiveStep, ReadEvent, Dequeue
  <2>4. next' = next \/ next' = [next EXCEPT ![p] = @ + 1]
    BY <1>3 DEF StartSend, SendStep, CheckReceiver, Enqueue, WriteEvent, EndStep,
                Broadcast, Kill, Exit, ReceiveStep, ReadEvent, Dequeue, sendVars
  <2>5. p # Main => next'[Main] = next[Main]
    BY <1>0, <2>4 DEF MailInv, IttiTypeOK
  <2> QED BY <2>1, <2>2, <2>3, <2>5, CountsOfLater DEF Early, Creating
<1>4. CASE HandleSignals \/ Usr1 \/ Interrupt
  <2>1. PICK label \in {"signals", "closing", "broadcast"} : Goto(Main, label)
    BY <1>4 DEF HandleSignals, Usr1, Interrupt
  <2>2. pc[Main] \in {"up", "signals"} /\ UNCHANGED bootVars
    BY <1>4 DEF HandleSignals, Usr1, Interrupt
  <2> QED BY <1>0, <2>1, <2>2, CountsOfLater DEF Early, Creating
<1>5. CASE Close
  <2>1. pc[Main] = "closing" /\ UNCHANGED bootVars
    BY <1>5 DEF Close
  <2>2. CASE Goto(Main, "over")
    BY <1>0, <2>1, <2>2, CountsOfLater DEF Early, Creating
  <2>3. CASE pc' = [p \in Processes |-> "over"]
    <3>1. \A p \in Processes : pc'[p] = "over"
      BY <2>3
    <3>2. Added' = Tasks
      BY <1>0, <3>1 DEF Added, Tasks
    <3>3. Added \subseteq Added' /\ (\A i : ~Ahead(i)')
      BY <1>0, <3>1, <3>2 DEF Added, Ahead
    <3>4. ready_tasks' <= Cardinality(Added')
      <4>1. ready_tasks' = ready_tasks /\ ready_tasks \in Nat
            /\ ready_tasks <= Cardinality(Added)
        BY <2>1, CountsAreBounded DEF bootVars
      <4>2. Cardinality(Added) \in Nat /\ Cardinality(Added') \in Nat
            /\ Cardinality(Added) <= Cardinality(Added')
        BY <3>3, AddedGrows
      <4> QED BY <4>1, <4>2
    <3> QED BY <1>0, <3>1, <3>3, <3>4 DEF BootCounts, Creating, Tasks
  <2> QED BY <1>5, <2>2, <2>3 DEF Close
<1>6. CASE \E s \in SubTasks : Poll(s)
  BY <1>6 DEF Poll, bootVars, sendVars, MailInv, BootCounts, Ahead, Added, Tasks
<1> QED
  BY <1>0, <1>1, <1>2, <1>3, <1>4, <1>5, <1>6 DEF IttiNext

-----------------------------------------------------------------------------
(* A queue and the descriptor that counts it.                              *)

WriteTargets == \A p \in Processes : pc[p] = "write" => message[p].to \in Tasks
AllMatch == \A t \in Tasks : pc[t] # "over" => Matches(t)

LEMMA UncountedIsFinite ==
  ASSUME NEW t
  PROVE  IsFiniteSet(Uncounted(t)) /\ Cardinality(Uncounted(t)) \in Nat
<1>1. Uncounted(t) \subseteq Processes
  BY DEF Uncounted
<1> QED BY <1>1, TasksAreFinite, FS_Subset, FS_CardinalityType

\* What the other conjuncts say of a queue and its descriptor.
LEMMA MailFacts ==
  ASSUME MailInv
  PROVE  /\ WriteTargets /\ AllMatch /\ pc \in [Processes -> Labels]
         /\ message_queue \in [Mailboxes -> Seq(Contents)]
         /\ event_fd \in [Tasks -> Nat]
         /\ message \in [Processes -> [to : Mailboxes, what : Contents]]
         /\ Tasks \subseteq Mailboxes /\ Tasks \subseteq Processes
         /\ SubTasks \cap Processes = {} /\ Mailboxes = Tasks \cup SubTasks
BY TypesByPart, OrderFacts, IttiAssumption
   DEF MailInv, WriteTargets, AllMatch, PcTypes, MailTypes, SendTypes, Mailboxes

\* A step that neither puts nor takes a message changes nothing here.
LEMMA MatchesQuiet ==
  ASSUME MailInv, UNCHANGED mailVars,
         \A p \in Processes : pc'[p] = "write" <=> pc[p] = "write",
         \A p \in Processes : pc[p] = "write" => message'[p] = message[p],
         \A t \in Tasks : pc'[t] = "dequeue" <=> pc[t] = "dequeue",
         \A t \in Tasks : pc[t] = "over" => pc'[t] = "over"
  PROVE  WriteTargets' /\ AllMatch'
<1>1. \A t : Uncounted(t)' = Uncounted(t)
  BY DEF Uncounted
<1>2. \A t \in Tasks : Receiving(t)' = Receiving(t)
  BY DEF Receiving
<1>3. UNCHANGED <<message_queue, event_fd>>
  BY DEF mailVars
<1>4. WriteTargets'
  BY MailFacts DEF WriteTargets
<1>5. ASSUME NEW t \in Tasks, pc'[t] # "over" PROVE Matches(t)'
  <2>1. Matches(t)
    BY <1>5, MailFacts DEF AllMatch
  <2> HIDE DEF Uncounted, Receiving
  <2> QED BY <1>1, <1>2, <1>3, <2>1 DEF Matches
<1> QED BY <1>4, <1>5 DEF AllMatch

LEMMA QuietMove ==
  ASSUME MailInv, NEW p \in Processes, NEW label, Goto(p, label),
         {pc[p], label} \cap {"write", "dequeue"} = {}, pc[p] # "over",
         UNCHANGED mailVars, \A q \in Processes \ {p} : message'[q] = message[q]
  PROVE  WriteTargets' /\ AllMatch'
<1>1. \A q \in Processes : pc'[q] = IF q = p THEN label ELSE pc[q]
  BY MailFacts DEF Goto
<1> QED BY <1>1, MatchesQuiet, MailFacts

\* The message is in the queue before the descriptor counts it.
LEMMA MatchesEnqueue ==
  ASSUME MailInv, NEW p \in Processes, Enqueue(p)
  PROVE  WriteTargets' /\ AllMatch'
<1> DEFINE m == message[p].to
           label == IF m \in SubTasks THEN Back(p) ELSE "write"
<1>1. /\ pc[p] = "enqueue" /\ message' = message /\ event_fd' = event_fd
      /\ m \in Mailboxes
      /\ message_queue' = [message_queue EXCEPT ![m] = Append(@, message[p].what)]
  BY MailFacts DEF Enqueue, sendVars
<1>2. \A q \in Processes : pc'[q] = IF q = p THEN label ELSE pc[q]
  BY MailFacts DEF Enqueue, Goto
<1>3. Back(p) \in {"running", "broadcast"}
  BY DEF Back
<1>4. WriteTargets'
  BY <1>1, <1>2, <1>3, MailFacts DEF WriteTargets
<1>5. ASSUME NEW t \in Tasks, pc'[t] # "over" PROVE Matches(t)'
  <2>1. Matches(t)
    BY <1>1, <1>2, <1>5, MailFacts DEF AllMatch
  <2>2. Receiving(t)' = Receiving(t) /\ Receiving(t) \in Nat
    BY <1>1, <1>2, <1>3 , MailFacts DEF Receiving
  <2>3. event_fd'[t] = event_fd[t] /\ event_fd[t] \in Nat
    BY <1>1, MailFacts
  <2>4. IsFiniteSet(Uncounted(t)) /\ Cardinality(Uncounted(t)) \in Nat
    BY UncountedIsFinite
  <2>5. CASE m = t
    <3>1. label = "write"
      BY <2>5, MailFacts
    <3>2. Uncounted(t)' = Uncounted(t) \cup {p} /\ p \notin Uncounted(t)
      BY <1>1, <1>2, <2>5, <3>1 DEF Uncounted
    <3>3. Cardinality(Uncounted(t)') = Cardinality(Uncounted(t)) + 1
      BY <2>4, <3>2, FS_AddElement
    <3>4. Len(message_queue'[t]) = Len(message_queue[t]) + 1
      BY <1>1, <2>5, MailFacts
    <3> HIDE DEF Uncounted, Receiving
    <3> QED BY <2>1, <2>2, <2>3, <2>4, <3>3, <3>4 DEF Matches
  <2>6. CASE m # t
    <3>1. Uncounted(t)' = Uncounted(t)
      BY <1>1, <1>2, <1>3, <2>6 DEF Uncounted
    <3>2. message_queue'[t] = message_queue[t]
      BY <1>1, <2>6, MailFacts
    <3> HIDE DEF Uncounted, Receiving
    <3> QED BY <2>1, <2>2, <2>3, <3>1, <3>2 DEF Matches
  <2> QED BY <2>5, <2>6
<1> QED BY <1>4, <1>5 DEF AllMatch

LEMMA MatchesWrite ==
  ASSUME MailInv, NEW p \in Processes, WriteEvent(p)
  PROVE  WriteTargets' /\ AllMatch'
<1> DEFINE m == message[p].to
<1>1. /\ pc[p] = "write" /\ message' = message /\ message_queue' = message_queue
      /\ event_fd' = [event_fd EXCEPT ![m] = @ + 1]
  BY DEF WriteEvent, sendVars
<1>2. \A q \in Processes : pc'[q] = IF q = p THEN Back(p) ELSE pc[q]
  BY MailFacts DEF WriteEvent, Goto
<1>3. Back(p) \in {"running", "broadcast"}
  BY DEF Back
<1>4. WriteTargets' /\ m \in Tasks
  BY <1>1, <1>2, <1>3, MailFacts DEF WriteTargets
<1>5. ASSUME NEW t \in Tasks, pc'[t] # "over" PROVE Matches(t)'
  <2>1. Matches(t)
    BY <1>1, <1>2, <1>5, MailFacts DEF AllMatch
  <2>2. Receiving(t)' = Receiving(t) /\ Receiving(t) \in Nat
    BY <1>1, <1>2, <1>3, MailFacts DEF Receiving
  <2>3. event_fd'[t] = (IF t = m THEN event_fd[t] + 1 ELSE event_fd[t])
        /\ event_fd[t] \in Nat
    BY <1>1, <1>4, MailFacts
  <2>4. IsFiniteSet(Uncounted(t)) /\ Cardinality(Uncounted(t)) \in Nat
    BY UncountedIsFinite
  <2>5. CASE m = t
    <3>1. Uncounted(t)' = Uncounted(t) \ {p} /\ p \in Uncounted(t)
      BY <1>1, <1>2, <1>3, <2>5 DEF Uncounted
    <3>2. Cardinality(Uncounted(t)') = Cardinality(Uncounted(t)) - 1
      BY <2>4, <3>1, FS_RemoveElement
    <3> HIDE DEF Uncounted, Receiving
    <3> QED BY <1>1, <2>1, <2>2, <2>3, <2>4, <2>5, <3>2 DEF Matches
  <2>6. CASE m # t
    <3>1. Uncounted(t)' = Uncounted(t)
      BY <1>1, <1>2, <1>3, <2>6 DEF Uncounted
    <3> HIDE DEF Uncounted, Receiving
    <3> QED BY <1>1, <2>1, <2>2, <2>3, <2>6, <3>1 DEF Matches
  <2> QED BY <2>5, <2>6
<1> QED BY <1>4, <1>5 DEF AllMatch

\* A task that has read its descriptor finds a message: nobody else takes from its queue.
LEMMA QueueHasMessage ==
  ASSUME MailInv, NEW t \in Tasks, pc[t] = "dequeue"
  PROVE  message_queue[t] # << >>
<1>1. Matches(t) /\ event_fd[t] \in Nat /\ Cardinality(Uncounted(t)) \in Nat
  BY MailFacts, UncountedIsFinite DEF AllMatch
<1>2. Receiving(t) = 1
  BY DEF Receiving
<1> HIDE DEF Uncounted, Receiving
<1>3. Len(message_queue[t]) > 0
  BY <1>1, <1>2 DEF Matches
<1> QED BY <1>3

LEMMA MatchesReceive ==
  ASSUME MailInv, NEW u \in Tasks, ReceiveStep(u)
  PROVE  WriteTargets' /\ AllMatch'
<1>1. PICK label \in {"running", "exited", "dequeue"} : Goto(u, label)
  BY DEF ReceiveStep, ReadEvent, Dequeue
<1>2. \A q \in Processes : pc'[q] = IF q = u THEN label ELSE pc[q]
  BY <1>1, MailFacts DEF Goto
<1>3. message' = message /\ pc[u] \in {"running", "dequeue"}
  BY DEF ReceiveStep, ReadEvent, Dequeue, sendVars
<1>4. WriteTargets'
  BY <1>2, <1>3, MailFacts DEF WriteTargets
<1>5. \A t : Uncounted(t)' = Uncounted(t)
  BY <1>2, <1>3 DEF Uncounted
<1>6. \A t \in Tasks \ {u} : Receiving(t)' = Receiving(t)
  BY <1>2, MailFacts DEF Receiving
<1>7. ASSUME NEW t \in Tasks, pc'[t] # "over" PROVE Matches(t)'
  <2>1. Matches(t)
    BY <1>2, <1>3, <1>7, MailFacts DEF AllMatch
  <2>2. CASE t # u
    <3>1. event_fd'[t] = event_fd[t] /\ message_queue'[t] = message_queue[t]
      BY <2>2, MailFacts DEF ReceiveStep, ReadEvent, Dequeue
    <3> HIDE DEF Uncounted, Receiving
    <3> QED BY <1>5, <1>6, <2>1, <2>2, <3>1 DEF Matches
  <2>3. CASE t = u /\ ReadEvent(u)
    <3>1. Receiving(t) = 0 /\ Receiving(t)' = 1
      BY <2>3, MailFacts DEF ReadEvent, Goto, Receiving
    <3>2. event_fd'[t] = event_fd[t] - 1 /\ event_fd[t] \in Nat
          /\ message_queue'[t] = message_queue[t]
      BY <2>3, MailFacts DEF ReadEvent
    <3>3. Cardinality(Uncounted(t)) \in Nat
      BY UncountedIsFinite
    <3> HIDE DEF Uncounted, Receiving
    <3> QED BY <1>5, <2>1, <3>1, <3>2, <3>3 DEF Matches
  <2>4. CASE t = u /\ Dequeue(u)
    <3>1. message_queue[u] # << >>
      BY <2>4, QueueHasMessage DEF Dequeue
    <3>2. Receiving(t) = 1 /\ Receiving(t)' = 0
      BY <2>4, <3>1, MailFacts DEF Dequeue, Goto, Receiving
    <3>3. message_queue'[t] = Tail(message_queue[t]) /\ event_fd'[t] = event_fd[t]
      BY <2>4, <3>1, MailFacts DEF Dequeue
    <3>4. message_queue[t] \in Seq(Contents) /\ event_fd[t] \in Nat
      BY MailFacts
    <3>5. Len(message_queue'[t]) = Len(message_queue[t]) - 1
      BY <2>4, <3>1, <3>3, <3>4
    <3>6. Cardinality(Uncounted(t)) \in Nat
      BY UncountedIsFinite
    <3> HIDE DEF Uncounted, Receiving
    <3> QED BY <1>5, <2>1, <3>2, <3>3, <3>4, <3>5, <3>6 DEF Matches
  <2> QED BY <2>2, <2>3, <2>4 DEF ReceiveStep
<1> QED BY <1>4, <1>7 DEF AllMatch

\* The steps that move one process past its start and leave the queues alone.
LEMMA MatchesOther ==
  ASSUME MailInv, NEW p \in Processes,
         \/ CheckReceiver(p) \/ EndStep(p)
         \/ p \in Senders /\ (Exit(p) \/ \E m \in Mailboxes : StartSend(p, m))
         \/ p \in Tasks /\ ReadyStep(p)
         \/ p = Main /\ (HandleSignals \/ Usr1 \/ Interrupt)
  PROVE  WriteTargets' /\ AllMatch'
<1>1. PICK label \in Labels \ {"write", "dequeue"} : Goto(p, label)
  BY DEF Labels, CheckReceiver, EndStep, Broadcast, Kill, Exit, StartSend, Back, ReadyStep,
         MarkReady, Count, Add, PassBarrier, HandleSignals, Usr1, Interrupt
<1>2. pc[p] \notin {"write", "dequeue", "over"} /\ UNCHANGED mailVars
  BY DEF CheckReceiver, EndStep, Broadcast, Kill, Exit, StartSend, ReadyStep, MarkReady,
         Count, Add, PassBarrier, HandleSignals, Usr1, Interrupt
<1>3. \A q \in Processes \ {p} : message'[q] = message[q]
  <2>1. message' = message \/ \E m : message' = [message EXCEPT ![p] = m]
    BY DEF CheckReceiver, EndStep, Broadcast, Kill, Exit, StartSend, ReadyStep, MarkReady,
           Count, Add, PassBarrier, HandleSignals, Usr1, Interrupt, sendVars
  <2> QED BY <2>1, MailFacts
<1> HIDE DEF Labels
<1> QED BY <1>1, <1>2, <1>3, QuietMove

LEMMA MatchesBoot ==
  ASSUME MailInv, BootStep \/ Close
  PROVE  WriteTargets' /\ AllMatch'
<1>0. Main \in Processes /\ Modem \in Processes /\ Main # Modem /\ Main \notin Tasks
      /\ pc \in [Processes -> Labels]
  BY OrderFacts, MailFacts
<1>1. CASE WaitReady \/ TaskIsReady \/ Release \/ (Close /\ Goto(Main, "over"))
  <2>1. PICK label \in {"create", "release", "compare", "over"} : Goto(Main, label)
    BY <1>1 DEF WaitReady, TaskIsReady, Release
  <2>2. /\ pc[Main] \notin {"write", "dequeue", "over"}
        /\ UNCHANGED mailVars /\ UNCHANGED message
    BY <1>1 DEF WaitReady, TaskIsReady, Release, Close, sendVars
  <2> QED BY <1>0, <2>1, <2>2, QuietMove
<1>2. CASE CreateTask
  <2> DEFINE t == Order[next[Main]]
  <2>1. next[Main] \in 1..Len(Order) /\ t \in Tasks /\ pc[Main] = "create"
    BY <1>2, NextTask DEF CreateTask, MailInv
  <2>2. pc[t] = "none"
    BY <2>1 DEF MailInv, BootCounts, Ahead
  <2>3. /\ pc' = [pc EXCEPT ![Main] = "poll", ![t] = "starting"]
        /\ UNCHANGED mailVars /\ UNCHANGED message
    BY <1>2 DEF CreateTask, sendVars
  <2> HIDE DEF t
  <2>4. \A q \in Processes : pc'[q] = IF q = t THEN "starting" ELSE
                                      IF q = Main THEN "poll" ELSE pc[q]
    BY <1>0, <2>1, <2>3
  <2> QED BY <1>0, <2>1, <2>2, <2>3, <2>4, MatchesQuiet, MailFacts
<1>3. CASE Compare
  <2>1. /\ pc[Main] = "compare" /\ pc[Modem] = "none"
        /\ UNCHANGED mailVars /\ UNCHANGED message
    BY <1>3 DEF Compare, MailInv, BootCounts, sendVars
  <2>2. \A q \in Processes : pc'[q] = IF q = Modem THEN "running" ELSE
                                      IF q = Main THEN "up" ELSE pc[q]
    BY <1>0, <1>3 DEF Compare
  <2> QED BY <1>0, <2>1, <2>2, MatchesQuiet, MailFacts
<1>4. CASE pc' = [p \in Processes |-> "over"]
  BY <1>4, MailFacts DEF WriteTargets, AllMatch
<1>5. CASE Close
  <2>1. Goto(Main, "over") \/ pc' = [p \in Processes |-> "over"]
    BY <1>5 DEF Close
  <2> HIDE DEF Goto
  <2> QED BY <1>1, <1>4, <1>5, <2>1
<1> QED BY <1>1, <1>2, <1>3, <1>5 DEF BootStep

LEMMA MatchesPoll ==
  ASSUME MailInv, NEW s \in SubTasks, Poll(s)
  PROVE  WriteTargets' /\ AllMatch'
<1>1. UNCHANGED <<pc, message, event_fd>>
      /\ message_queue' = [message_queue EXCEPT ![s] = Tail(@)]
  BY DEF Poll, sendVars
<1>2. \A t \in Tasks : message_queue'[t] = message_queue[t]
  BY <1>1, MailFacts
<1>3. WriteTargets'
  BY <1>1, MailFacts DEF WriteTargets
<1>4. \A t : Uncounted(t)' = Uncounted(t) /\ Receiving(t)' = Receiving(t)
  BY <1>1 DEF Uncounted, Receiving
<1>5. ASSUME NEW t \in Tasks, pc'[t] # "over" PROVE Matches(t)'
  <2>1. Matches(t)
    BY <1>1, <1>5, MailFacts DEF AllMatch
  <2> HIDE DEF Uncounted, Receiving
  <2> QED BY <1>1, <1>2, <1>4, <2>1 DEF Matches
<1> QED BY <1>3, <1>5 DEF AllMatch

-----------------------------------------------------------------------------
(* The invariant, and what it shows.                                       *)

LEMMA MailInit == IttiInit => MailInv
<1> SUFFICES ASSUME IttiInit PROVE MailInv
  OBVIOUS
<1>0. /\ Len(Order) \in Nat \ {0} /\ Order[1] \in Tasks /\ Tasks \subseteq Mailboxes
      /\ MaxSends \in Nat /\ Main \notin Senders /\ Tasks \subseteq Senders
      /\ Senders \subseteq Processes /\ Modem \in Senders
      /\ \A i \in 1..Len(Order) : Order[i] \in Tasks
  BY OrderFacts, IttiAssumption DEF Mailboxes
<1>1. BarrierInv
  BY BarrierInit
<1>2. IttiTypeOK
  <2>1. StateTypes /\ EndTypes /\ FailTypes
    BY DEF IttiInit, StateTypes, EndTypes, FailTypes
  <2>2. BootTypes
    BY <1>0 DEF IttiInit, BootTypes
  <2>3. MailTypes
    BY DEF IttiInit, MailTypes
  <2>4. PcTypes
    BY DEF IttiInit, PcTypes, Labels
  <2>5. SendTypes
    BY <1>0 DEF IttiInit, SendTypes, Contents
  <2> QED BY <2>1, <2>2, <2>3, <2>4, <2>5, TypesByPart
<1>3. /\ pc[Main] = "start" /\ \A p \in Senders : pc[p] = "none"
      /\ \A p \in Processes : pc[p] \in {"start", "none"}
  BY <1>0 DEF IttiInit, Processes
<1>4. BootCounts
  <2>1. Added = {}
    BY <1>0, <1>3 DEF Added
  <2>2. Cardinality(Added) = 0
    BY <2>1, FS_EmptySet
  <2> QED BY <1>0, <1>3, <2>2 DEF IttiInit, BootCounts
<1>5. ASSUME NEW t \in Tasks PROVE Matches(t)
  <2>1. Uncounted(t) = {}
    BY <1>3 DEF Uncounted
  <2>2. Cardinality(Uncounted(t)) = 0
    BY <2>1, FS_EmptySet
  <2>3. Receiving(t) = 0
    BY <1>0, <1>3 DEF Receiving
  <2>4. Len(message_queue[t]) = 0 /\ event_fd[t] = 0
    BY <1>0 DEF IttiInit
  <2> HIDE DEF Uncounted, Receiving
  <2> QED BY <2>2, <2>3, <2>4 DEF Matches
<1> QED BY <1>1, <1>2, <1>3, <1>4, <1>5 DEF MailInv

LEMMA MailStep == MailInv /\ [IttiNext]_ittiVars => MailInv'
<1> SUFFICES ASSUME MailInv, [IttiNext]_ittiVars PROVE MailInv'
  OBVIOUS
<1>1. CASE UNCHANGED ittiVars
  <2>1. BarrierInv'
    BY <1>1, BarrierStep DEF MailInv
  <2>2. IttiTypeOK'
    BY <1>1 DEF MailInv, IttiTypeOK, ittiVars, bootVars, endVars, mailVars, sendVars
  <2>3. BootCounts'
    BY <1>1 DEF MailInv, BootCounts, Ahead, Added, ittiVars, bootVars, sendVars
  <2>4. WriteTargets' /\ AllMatch'
    BY <1>1, MatchesQuiet DEF ittiVars, sendVars
  <2> QED BY <2>1, <2>2, <2>3, <2>4 DEF MailInv, WriteTargets, AllMatch
<1>2. CASE IttiNext
  <2>1. BarrierInv'
    BY <1>2, BarrierStep DEF MailInv
  <2>2. IttiTypeOK'
    <3>1. BarrierInv /\ IttiTypeOK
      BY DEF MailInv
    <3>2. StateTypes' /\ BootTypes' /\ EndTypes'
      BY <1>2, <3>1, StateTypesKept, BootTypesKept, EndTypesKept
    <3>3. MailTypes' /\ PcTypes' /\ SendTypes' /\ FailTypes'
      BY <1>2, <3>1, MailTypesKept, PcTypesKept, SendTypesKept, FailTypesKept
    <3> QED BY <3>2, <3>3 DEF IttiTypeOK, StateTypes, BootTypes, EndTypes, MailTypes,
                              PcTypes, SendTypes, FailTypes, Labels
  <2>3. BootCounts'
    BY <1>2, BootCountsKept
  <2>4. WriteTargets' /\ AllMatch'
    <3>0. Tasks \subseteq Processes /\ Senders \subseteq Processes /\ Main \in Processes
      BY OrderFacts
    <3>1. CASE BootStep \/ Close
      BY <3>1, MatchesBoot
    <3>2. CASE HandleSignals \/ Usr1 \/ Interrupt
      BY <3>0, <3>2, MatchesOther
    <3>3. ASSUME NEW t \in Tasks, ReadyStep(t) \/ ReceiveStep(t)
          PROVE  WriteTargets' /\ AllMatch'
      BY <3>0, <3>3, MatchesOther, MatchesReceive
    <3>4. ASSUME NEW p \in Senders, Exit(p) \/ \E m \in Mailboxes : StartSend(p, m)
          PROVE  WriteTargets' /\ AllMatch'
      BY <3>0, <3>4, MatchesOther
    <3>5. ASSUME NEW p \in Processes, SendStep(p) \/ EndStep(p)
          PROVE  WriteTargets' /\ AllMatch'
      BY <3>5, MatchesOther, MatchesEnqueue, MatchesWrite DEF SendStep
    <3>6. ASSUME NEW s \in SubTasks, Poll(s) PROVE WriteTargets' /\ AllMatch'
      BY <3>6, MatchesPoll
    <3> QED BY <1>2, <3>1, <3>2, <3>3, <3>4, <3>5, <3>6 DEF IttiNext
  <2> QED BY <2>1, <2>2, <2>3, <2>4 DEF MailInv, WriteTargets, AllMatch
<1> QED BY <1>1, <1>2

\* The descriptor of a task and its queue never disagree by more than the messages
\* that are on their way, for every list of tasks, every number of messages and every
\* order of the sends: a task that reads its descriptor finds a message.
THEOREM EventsCountQueues == IttiSpec => []EventsMatchQueue
<1>1. MailInv => EventsMatchQueue
  BY DEF MailInv, EventsMatchQueue, Matches, Receiving
<1> QED BY <1>1, MailInit, MailStep, PTL DEF IttiSpec

=============================================================================
