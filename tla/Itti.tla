-------------------------------- MODULE Itti --------------------------------
(***************************************************************************)
(* ITTI, from the creation of the tasks to the end of the process.  The    *)
(* main thread creates the tasks one after the other behind a barrier and  *)
(* then waits for signals.  A task has a queue without lock and an event   *)
(* descriptor that counts what was put into it; a sub-task has a queue     *)
(* only, which a thread of the modem polls.  Sending is three steps (the   *)
(* state of the receiver, the queue, the descriptor) and receiving two.    *)
(***************************************************************************)
EXTENDS Integers, Sequences, FiniteSets, Functions

CONSTANTS
  Order,      \* the tasks, in the order create_tasks creates them
  SubTasks,   \* sub-tasks, all of the thread of the first task
  Modem,      \* a thread of the modem: no task, may send and poll
  Exiters,    \* tasks and threads that may call exit_fun
  Talkers,    \* bound: who sends messages of its own
  MaxSends,   \* bound: messages a process sends
  Interrupts  \* whether the user may type Ctrl-C

Tasks == Range(Order)
Main == "main"
Senders == Tasks \cup {Modem}
Processes == Senders \cup {Main}
Mailboxes == Tasks \cup SubTasks
Thread(m) == IF m \in SubTasks THEN Order[1] ELSE m

ASSUME IttiAssumption ==
  /\ Order \in Seq(Tasks) /\ Order # << >> /\ IsInjective(Order)
  /\ Main \notin Senders /\ Modem \notin Tasks
  /\ SubTasks \cap Processes = {} /\ Exiters \subseteq Senders /\ Talkers \subseteq Senders
  /\ MaxSends \in Nat /\ Interrupts \in BOOLEAN

VARIABLES
  task_state, created_tasks, ready_tasks, wait_tasks,   \* of itti_desc
  thread_handling_signals, signal,  \* SIGUSR1 is pending for the main thread
  message_queue, event_fd,
  pc,
  counted,    \* what a task read of ready_tasks, to increment it
  message,    \* what a process is sending: to whom, and what
  next,       \* of a process that creates, or broadcasts to, all tasks
  sent,       \* number of messages sent by each process
  failed      \* the assertions that have failed

bootVars == <<created_tasks, ready_tasks, wait_tasks, counted>>
endVars == <<thread_handling_signals, signal>>
mailVars == <<message_queue, event_fd>>
sendVars == <<message, next, sent>>
ittiVars == <<task_state, bootVars, endVars, mailVars, pc, sendVars, failed>>

TERMINATE == <<"terminate", 0>>
Contents == {TERMINATE} \cup (Senders \X (1..MaxSends))

IttiTypeOK ==
  /\ task_state \in [Tasks -> {"not_configured", "starting", "ready", "ended"}]
  /\ created_tasks \in 0..Len(Order) /\ ready_tasks \in 0..Len(Order)
  /\ wait_tasks \in {0, 1} /\ counted \in [Tasks -> 0..Len(Order)]
  /\ thread_handling_signals \in BOOLEAN /\ signal \in BOOLEAN
  /\ message_queue \in [Mailboxes -> Seq(Contents)]
  /\ event_fd \in [Tasks -> Nat]
  /\ pc \in [Processes -> {"start", "create", "poll", "release", "compare", "up", "signals",
                           "closing", "over", "none", "starting", "count", "add",
                           "barrier", "running", "send", "enqueue", "write", "dequeue",
                           "broadcast", "kill", "exited"}]
  /\ message \in [Processes -> [to : Mailboxes, what : Contents]]
  /\ next \in [Processes -> 1..(Len(Order) + 1)]
  /\ sent \in [Senders -> 0..MaxSends]
  /\ failed \subseteq {"counts match", "ready", "queue has message"}

IttiInit ==
  /\ task_state = [t \in Tasks |-> "not_configured"]
  /\ created_tasks = 0 /\ ready_tasks = 0 /\ wait_tasks = 0
  /\ counted = [t \in Tasks |-> 0]
  /\ thread_handling_signals = FALSE /\ signal = FALSE
  /\ message_queue = [m \in Mailboxes |-> << >>]
  /\ event_fd = [t \in Tasks |-> 0]
  /\ pc = [p \in Processes |-> IF p = Main THEN "start" ELSE "none"]
  /\ message = [p \in Processes |-> [to |-> Order[1], what |-> TERMINATE]]
  /\ next = [p \in Processes |-> 1]
  /\ sent = [p \in Senders |-> 0]
  /\ failed = {}

Goto(p, label) == pc' = [pc EXCEPT ![p] = label]
Fail(assertion) == failed' = failed \cup {assertion}

-----------------------------------------------------------------------------
(* create_tasks, in the main thread.                                       *)

WaitReady ==
  /\ pc[Main] = "start"
  /\ wait_tasks' = 1
  /\ Goto(Main, "create")
  /\ UNCHANGED <<task_state, created_tasks, ready_tasks, counted, endVars, mailVars, sendVars, failed>>

CreateTask ==
  LET t == Order[next[Main]] IN
  /\ pc[Main] = "create"
  /\ task_state' = [task_state EXCEPT ![t] = "starting"]
  /\ created_tasks' = created_tasks + 1
  /\ pc' = [pc EXCEPT ![Main] = "poll", ![t] = "starting"]
  /\ UNCHANGED <<ready_tasks, wait_tasks, counted, endVars, mailVars, sendVars, failed>>

TaskIsReady ==
  /\ pc[Main] = "poll" /\ task_state[Order[next[Main]]] = "ready"
  /\ next' = [next EXCEPT ![Main] = IF @ = Len(Order) THEN 1 ELSE @ + 1]
  /\ Goto(Main, IF next[Main] = Len(Order) THEN "release" ELSE "create")
  /\ UNCHANGED <<task_state, bootVars, endVars, mailVars, message, sent, failed>>

\* itti_wait_ready(0) stores first and compares afterwards.
Release ==
  /\ pc[Main] = "release"
  /\ wait_tasks' = 0
  /\ Goto(Main, "compare")
  /\ UNCHANGED <<task_state, created_tasks, ready_tasks, counted, endVars, mailVars, sendVars, failed>>

\* The threads of the modem are started afterwards.
Compare ==
  /\ pc[Main] = "compare"
  /\ IF created_tasks = ready_tasks THEN UNCHANGED failed ELSE Fail("counts match")
  /\ pc' = [pc EXCEPT ![Main] = "up", ![Modem] = "running"]
  /\ UNCHANGED <<task_state, bootVars, endVars, mailVars, sendVars>>

-----------------------------------------------------------------------------
(* itti_mark_task_ready, in the thread of a task.                          *)

MarkReady(t) ==
  /\ pc[t] = "starting"
  /\ task_state' = [task_state EXCEPT ![t] = "ready"]
  /\ Goto(t, "count")
  /\ UNCHANGED <<bootVars, endVars, mailVars, sendVars, failed>>

\* ready_tasks++ is a load and a store.
Count(t) ==
  /\ pc[t] = "count"
  /\ counted' = [counted EXCEPT ![t] = ready_tasks]
  /\ Goto(t, "add")
  /\ UNCHANGED <<task_state, created_tasks, ready_tasks, wait_tasks, endVars, mailVars, sendVars, failed>>

Add(t) ==
  /\ pc[t] = "add"
  /\ ready_tasks' = counted[t] + 1
  /\ Goto(t, "barrier")
  /\ UNCHANGED <<task_state, created_tasks, wait_tasks, counted, endVars, mailVars, sendVars, failed>>

\* Mutant of PassBarrier: the task does not wait.
PassBarrier_NoWait(t) ==
  /\ pc[t] = "barrier"
  /\ Goto(t, "running")
  /\ UNCHANGED <<task_state, bootVars, endVars, mailVars, sendVars, failed>>

PassBarrier(t) ==
  /\ pc[t] = "barrier" /\ wait_tasks = 0
  /\ Goto(t, "running")
  /\ UNCHANGED <<task_state, bootVars, endVars, mailVars, sendVars, failed>>

-----------------------------------------------------------------------------
(* itti_send_msg_to_task.  A broadcast goes on with the next task.         *)

Back(p) == IF message[p].what = TERMINATE THEN "broadcast" ELSE "running"

StartSend(p, m) ==
  /\ p \in Talkers /\ pc[p] = "running" /\ sent[p] < MaxSends
  /\ sent' = [sent EXCEPT ![p] = @ + 1]
  /\ message' = [message EXCEPT ![p] = [to |-> m, what |-> <<p, sent[p] + 1>>]]
  /\ Goto(p, "send")
  /\ UNCHANGED <<task_state, bootVars, endVars, mailVars, next, failed>>

\* To a task that has ended the message is lost.
CheckReceiver(p) ==
  LET state == task_state[Thread(message[p].to)] IN
  /\ pc[p] = "send"
  /\ IF state \in {"ready", "ended"} THEN UNCHANGED failed ELSE Fail("ready")
  /\ Goto(p, IF state = "ended" THEN Back(p) ELSE "enqueue")
  /\ UNCHANGED <<task_state, bootVars, endVars, mailVars, sendVars>>

Enqueue(p) ==
  LET m == message[p].to IN
  /\ pc[p] = "enqueue"
  /\ message_queue' = [message_queue EXCEPT ![m] = Append(@, message[p].what)]
  /\ Goto(p, IF m \in SubTasks THEN Back(p) ELSE "write")
  /\ UNCHANGED <<task_state, bootVars, endVars, event_fd, sendVars, failed>>

\* Mutant of WriteEvent: the descriptor is no semaphore, as if EFD_SEMAPHORE were 0.
WriteEvent_NoSemaphore(p) ==
  /\ pc[p] = "write"
  /\ event_fd' = [event_fd EXCEPT ![message[p].to] = 1]
  /\ Goto(p, Back(p))
  /\ UNCHANGED <<task_state, bootVars, endVars, message_queue, sendVars, failed>>

WriteEvent(p) ==
  /\ pc[p] = "write"
  /\ event_fd' = [event_fd EXCEPT ![message[p].to] = @ + 1]
  /\ Goto(p, Back(p))
  /\ UNCHANGED <<task_state, bootVars, endVars, message_queue, sendVars, failed>>

-----------------------------------------------------------------------------
(* itti_receive_msg, in the loop of a task, and itti_poll_msg.             *)

ReadEvent(t) ==
  /\ pc[t] = "running" /\ event_fd[t] > 0
  /\ event_fd' = [event_fd EXCEPT ![t] = @ - 1]
  /\ Goto(t, "dequeue")
  /\ UNCHANGED <<task_state, bootVars, endVars, message_queue, sendVars, failed>>

\* A task exits when it is told to.
Dequeue(t) ==
  LET queue == message_queue[t] IN
  /\ pc[t] = "dequeue"
  /\ IF queue = << >>
     THEN Fail("queue has message") /\ Goto(t, "running") /\ UNCHANGED message_queue
     ELSE /\ message_queue' = [message_queue EXCEPT ![t] = Tail(@)]
          /\ Goto(t, IF Head(queue) = TERMINATE THEN "exited" ELSE "running")
          /\ UNCHANGED failed
  /\ UNCHANGED <<task_state, bootVars, endVars, event_fd, sendVars>>

Poll(s) ==
  /\ pc[Modem] = "running" /\ message_queue[s] # << >>
  /\ message_queue' = [message_queue EXCEPT ![s] = Tail(@)]
  /\ UNCHANGED <<task_state, bootVars, endVars, event_fd, pc, sendVars, failed>>

-----------------------------------------------------------------------------
(* The end: exit_fun and itti_terminate_tasks, Ctrl-C, itti_wait_tasks_end. *)

Exit(p) ==
  /\ p \in Exiters /\ pc[p] = "running"
  /\ Goto(p, "broadcast")
  /\ UNCHANGED <<task_state, bootVars, endVars, mailVars, sendVars, failed>>

\* Mutant of Broadcast: the last task is left out.
Broadcast_OffByOne(p) ==
  LET last == next[p] >= Len(Order) IN
  /\ pc[p] = "broadcast"
  /\ next' = IF last THEN next ELSE [next EXCEPT ![p] = @ + 1]
  /\ message' = IF last THEN message
                ELSE [message EXCEPT ![p] = [to |-> Order[next[p]], what |-> TERMINATE]]
  /\ Goto(p, IF last THEN (IF p = Main THEN "closing" ELSE "kill")
             ELSE IF Order[next[p]] # p /\ task_state[Order[next[p]]] = "ready"
                  THEN "send" ELSE "broadcast")
  /\ UNCHANGED <<task_state, bootVars, endVars, mailVars, sent, failed>>

\* The origin is the task that asks for the end, if a task does: it is skipped, and so are
\* those that are not ready.
Broadcast(p) ==
  LET last == next[p] > Len(Order) IN
  /\ pc[p] = "broadcast"
  /\ next' = IF last THEN next ELSE [next EXCEPT ![p] = @ + 1]
  /\ message' = IF last THEN message
                ELSE [message EXCEPT ![p] = [to |-> Order[next[p]], what |-> TERMINATE]]
  /\ Goto(p, IF last THEN (IF p = Main THEN "closing" ELSE "kill")
             ELSE IF Order[next[p]] # p /\ task_state[Order[next[p]]] = "ready"
                  THEN "send" ELSE "broadcast")
  /\ UNCHANGED <<task_state, bootVars, endVars, mailVars, sent, failed>>

Kill(p) ==
  /\ pc[p] = "kill"
  /\ signal' = (signal \/ thread_handling_signals)
  /\ Goto(p, "exited")
  /\ UNCHANGED <<task_state, bootVars, thread_handling_signals, mailVars, sendVars, failed>>

\* The main thread has started the modem and comes to itti_wait_tasks_end.
HandleSignals ==
  /\ pc[Main] = "up"
  /\ thread_handling_signals' = TRUE
  /\ Goto(Main, "signals")
  /\ UNCHANGED <<task_state, bootVars, signal, mailVars, sendVars, failed>>

Usr1 ==
  /\ pc[Main] = "signals" /\ signal
  /\ signal' = FALSE
  /\ Goto(Main, "closing")
  /\ UNCHANGED <<task_state, bootVars, thread_handling_signals, mailVars, sendVars, failed>>

Interrupt ==
  /\ Interrupts /\ pc[Main] = "signals"
  /\ Goto(Main, "broadcast")
  /\ UNCHANGED <<task_state, bootVars, endVars, mailVars, sendVars, failed>>

\* One round of joins, whatever `retries` says: the loop ends because `end` is set.
\* With tasks left the process exits at once, otherwise after the modem has stopped.
Close ==
  /\ pc[Main] = "closing"
  /\ task_state' = [t \in Tasks |-> IF pc[t] = "exited" THEN "ended" ELSE task_state[t]]
  /\ IF \E t \in Tasks : pc[t] # "exited"
     THEN pc' = [p \in Processes |-> "over"]
     ELSE Goto(Main, "over")
  /\ UNCHANGED <<bootVars, endVars, mailVars, sendVars, failed>>

-----------------------------------------------------------------------------
BootStep == WaitReady \/ CreateTask \/ TaskIsReady \/ Release \/ Compare
ReadyStep(t) == MarkReady(t) \/ Count(t) \/ Add(t) \/ PassBarrier(t)
SendStep(p) == CheckReceiver(p) \/ Enqueue(p) \/ WriteEvent(p)
ReceiveStep(t) == ReadEvent(t) \/ Dequeue(t)
EndStep(p) == Broadcast(p) \/ Kill(p)

IttiNext ==
  /\ failed = {}
  /\ \/ BootStep \/ HandleSignals \/ Usr1 \/ Interrupt \/ Close
     \/ \E t \in Tasks : ReadyStep(t) \/ ReceiveStep(t)
     \/ \E p \in Senders, m \in Mailboxes : StartSend(p, m)
     \/ \E p \in Processes : SendStep(p) \/ EndStep(p)
     \/ \E p \in Senders : Exit(p)
     \/ \E s \in SubTasks : Poll(s)

IttiSpec == IttiInit /\ [][IttiNext]_ittiVars
=============================================================================
