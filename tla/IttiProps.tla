------------------------------ MODULE IttiProps ------------------------------
(* What ITTI promises to its tasks. *)
EXTENDS Itti

\* Processes that have put a message into the queue of t and not counted it yet.
Uncounted(t) == {p \in Processes : pc[p] = "write" /\ message[p].to = t}

\* The descriptor of a task never counts more, or in the end less, than its queue
\* holds: so "No message in queue ... this should not happen"
\* (intertask_interface.c:627) never happens, and no message stays unseen.
EventsMatchQueue ==
  /\ IttiTypeOK
  /\ \A t \in Tasks : pc[t] # "over" =>
       Len(message_queue[t])
         = event_fd[t] + Cardinality(Uncounted(t)) + (IF pc[t] = "dequeue" THEN 1 ELSE 0)

\* The barrier of create_tasks: no task runs before all of them are ready, so that
\* the first message a task sends finds its receiver ("it is not in ready state",
\* intertask_interface.c:439).
NobodyRunsAhead ==
  (\E t \in Tasks : pc[t] \in {"running", "send", "enqueue", "write"})
    => \A t \in Tasks : task_state[t] \in {"ready", "ended"}

\* Threads are scheduled, whatever the user does; the main thread is not needed for
\* the tasks to go on, so nothing is assumed of its last step.
FairIttiSpec ==
  /\ IttiSpec
  /\ WF_ittiVars(BootStep) /\ WF_ittiVars(HandleSignals) /\ WF_ittiVars(Usr1)
  /\ \A t \in Tasks : WF_ittiVars(ReadyStep(t)) /\ WF_ittiVars(ReceiveStep(t))
  /\ \A p \in Processes : WF_ittiVars(SendStep(p)) /\ WF_ittiVars(EndStep(p))
  /\ \A s \in SubTasks : WF_ittiVars(Poll(s))

\* A message in a queue is received in the end, unless its receiver ends or exits.
MessagesArrive ==
  \A m \in Mailboxes, p \in Talkers, k \in 1..MaxSends :
    (\E i \in 1..Len(message_queue[m]) : message_queue[m][i] = <<p, k>>)
      ~> \/ \A i \in 1..Len(message_queue[m]) : message_queue[m][i] # <<p, k>>
         \/ failed # {}
         \/ pc[Thread(m)] \in {"exited", "over", "broadcast", "kill"}
         \/ pc[Modem] \in {"exited", "over", "broadcast", "kill"}

\* Once a process asks for the end, every task ends by itself.
TasksEnd ==
  (\E p \in Processes : pc[p] = "broadcast")
    ~> failed # {} \/ \A t \in Tasks : pc[t] \in {"exited", "over"}
=============================================================================
