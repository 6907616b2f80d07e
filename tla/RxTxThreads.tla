---------------------------- MODULE RxTxThreads ----------------------------
(***************************************************************************)
(* The threads of the modem that process subframes, when single_thread_    *)
(* flag is 0.  The fronthaul thread receives a subframe and hands it to    *)
(* one of two threads rxtx, the even or the odd one, by a counter under a  *)
(* mutex and a condition; it looks at the counter without the mutex        *)
(* before.  At the end the main thread sets the counters without mutex to  *)
(* wake the threads up, and joins them.                                    *)
(***************************************************************************)
EXTENDS Integers

CONSTANTS
  Polls,          \* times the fronthaul thread looks at a busy thread: 10
  MaxSubframes    \* bound: subframes received

ASSUME RxTxAssumption == Polls \in Nat /\ MaxSubframes \in Nat

RxTx == {0, 1}
FH == "FH"
Itself == "itself"
Nobody == "nobody"

VARIABLES
  oai_exit,
  instance_cnt,   \* of each rxtx thread: -1 while it has nothing to do
  mutex_rxtx,     \* who holds the mutex
  proc_rxtx,      \* the subframe in the context of the thread
  subframe,       \* of the fronthaul thread: the last it received
  polls,
  fh_pc, rxtx_pc, main_pc,
  working         \* the subframe a thread processes, or the one before

threadVars == <<oai_exit, instance_cnt, mutex_rxtx, proc_rxtx, subframe, polls,
                fh_pc, rxtx_pc, main_pc, working>>

MainLabels == {"up", "count", "signal", "joinFH", "joinRxTx", "over"}

RxTxTypeOK ==
  /\ oai_exit \in BOOLEAN
  /\ instance_cnt \in [RxTx -> -1..1]
  /\ mutex_rxtx \in [RxTx -> {FH, Itself, Nobody}]
  /\ proc_rxtx \in [RxTx -> -1..MaxSubframes]
  /\ working \in [RxTx -> -1..MaxSubframes]
  /\ subframe \in 0..MaxSubframes
  /\ polls \in 0..Polls
  /\ fh_pc \in {"receive", "poll", "lock", "start", "ended"}
  /\ rxtx_pc \in [RxTx -> {"top", "acquire", "test", "sleep", "asleep", "awake", "work",
                           "release", "decrement", "unlock", "ended"}]
  /\ main_pc \in MainLabels

RxTxInit ==
  /\ oai_exit = FALSE
  /\ instance_cnt = [w \in RxTx |-> -1]
  /\ mutex_rxtx = [w \in RxTx |-> Nobody]
  /\ proc_rxtx = [w \in RxTx |-> 0 - w]
  /\ working = [w \in RxTx |-> 0 - w]
  /\ subframe = 0
  /\ polls = 0
  /\ fh_pc = "receive"
  /\ main_pc = "up"
  /\ rxtx_pc = [w \in RxTx |-> "top"]

Turn == subframe % 2    \* &proc->proc_rxtx[proc->subframe_rx & 1]

-----------------------------------------------------------------------------
(* The fronthaul thread: eNB_thread_FH and wakeup_rxtx.                    *)

\* rx_fh blocks until the samples of the next subframe are there.
ReceiveSubframe ==
  /\ fh_pc = "receive" /\ ~oai_exit /\ subframe < MaxSubframes
  /\ subframe' = subframe + 1 /\ polls' = 0
  /\ fh_pc' = "poll"
  /\ UNCHANGED <<oai_exit, instance_cnt, mutex_rxtx, proc_rxtx, rxtx_pc, main_pc, working>>

StopReceiving ==
  /\ fh_pc = "receive" /\ oai_exit
  /\ fh_pc' = "ended"
  /\ UNCHANGED <<oai_exit, instance_cnt, mutex_rxtx, proc_rxtx, subframe, polls, rxtx_pc, main_pc, working>>

\* The thread is busy: sleep for 500 us and look again.
PollBusy ==
  /\ fh_pc = "poll" /\ instance_cnt[Turn] = 0 /\ polls < Polls
  /\ polls' = polls + 1
  /\ UNCHANGED <<oai_exit, instance_cnt, mutex_rxtx, proc_rxtx, subframe, fh_pc, rxtx_pc, main_pc, working>>

\* exit_fun("TX thread busy")
GiveUp ==
  /\ fh_pc = "poll" /\ instance_cnt[Turn] = 0 /\ polls = Polls
  /\ oai_exit' = TRUE
  /\ fh_pc' = "ended"
  /\ UNCHANGED <<instance_cnt, mutex_rxtx, proc_rxtx, subframe, polls, rxtx_pc, main_pc, working>>

\* Mutant of PollIdle: the fronthaul thread waits for nobody.
PollIdle_NoWait ==
  /\ fh_pc = "poll"
  /\ fh_pc' = "lock"
  /\ UNCHANGED <<oai_exit, instance_cnt, mutex_rxtx, proc_rxtx, subframe, polls, rxtx_pc, main_pc, working>>

PollIdle ==
  /\ fh_pc = "poll" /\ instance_cnt[Turn] # 0
  /\ fh_pc' = "lock"
  /\ UNCHANGED <<oai_exit, instance_cnt, mutex_rxtx, proc_rxtx, subframe, polls, rxtx_pc, main_pc, working>>

LockMutex ==
  /\ fh_pc = "lock" /\ mutex_rxtx[Turn] = Nobody
  /\ mutex_rxtx' = [mutex_rxtx EXCEPT ![Turn] = FH]
  /\ fh_pc' = "start"
  /\ UNCHANGED <<oai_exit, instance_cnt, proc_rxtx, subframe, polls, rxtx_pc, main_pc, working>>

\* exit_fun("error locking mutex_rxtx"): pthread_mutex_timedlock takes a point in time,
\* and the 5 ms it is given are long past.
MutexTaken ==
  /\ fh_pc = "lock" /\ mutex_rxtx[Turn] # Nobody
  /\ oai_exit' = TRUE
  /\ fh_pc' = "ended"
  /\ UNCHANGED <<instance_cnt, mutex_rxtx, proc_rxtx, subframe, polls, rxtx_pc, main_pc, working>>

Signalled(w) == IF rxtx_pc[w] = "asleep" THEN [rxtx_pc EXCEPT ![w] = "acquire"] ELSE rxtx_pc

\* Mutant of StartThread: the condition is not signalled.
StartThread_Silent ==
  /\ fh_pc = "start"
  /\ instance_cnt' = [instance_cnt EXCEPT ![Turn] = @ + 1]
  /\ proc_rxtx' = [proc_rxtx EXCEPT ![Turn] = subframe]
  /\ mutex_rxtx' = [mutex_rxtx EXCEPT ![Turn] = Nobody]
  /\ fh_pc' = "receive"
  /\ UNCHANGED <<oai_exit, subframe, polls, rxtx_pc, main_pc, working>>

StartThread ==
  /\ fh_pc = "start"
  /\ instance_cnt' = [instance_cnt EXCEPT ![Turn] = @ + 1]
  /\ proc_rxtx' = [proc_rxtx EXCEPT ![Turn] = subframe]
  /\ rxtx_pc' = Signalled(Turn)
  /\ mutex_rxtx' = [mutex_rxtx EXCEPT ![Turn] = Nobody]
  /\ fh_pc' = "receive"
  /\ UNCHANGED <<oai_exit, subframe, polls, main_pc, working>>

FHStep == \/ ReceiveSubframe \/ StopReceiving \/ PollBusy \/ GiveUp \/ PollIdle
          \/ LockMutex \/ MutexTaken \/ StartThread

-----------------------------------------------------------------------------
(* A thread rxtx: eNB_thread_rxtx, wait_on_condition and release_thread.   *)

Goto(w, label) == rxtx_pc' = [rxtx_pc EXCEPT ![w] = label]

Top(w) ==
  /\ rxtx_pc[w] = "top"
  /\ Goto(w, IF oai_exit THEN "ended" ELSE "acquire")
  /\ UNCHANGED <<oai_exit, instance_cnt, mutex_rxtx, proc_rxtx, subframe, polls, fh_pc, main_pc, working>>

\* Also when it wakes up.
Acquire(w) ==
  /\ rxtx_pc[w] = "acquire" /\ mutex_rxtx[w] = Nobody
  /\ mutex_rxtx' = [mutex_rxtx EXCEPT ![w] = Itself]
  /\ Goto(w, "test")
  /\ UNCHANGED <<oai_exit, instance_cnt, proc_rxtx, subframe, polls, fh_pc, main_pc, working>>

TestIdle(w) ==
  /\ rxtx_pc[w] = "test" /\ instance_cnt[w] < 0
  /\ Goto(w, "sleep")
  /\ UNCHANGED <<oai_exit, instance_cnt, mutex_rxtx, proc_rxtx, subframe, polls, fh_pc, main_pc, working>>

\* pthread_cond_wait: the thread sleeps and releases the mutex in one step.
Sleep(w) ==
  /\ rxtx_pc[w] = "sleep"
  /\ mutex_rxtx' = [mutex_rxtx EXCEPT ![w] = Nobody]
  /\ Goto(w, "asleep")
  /\ UNCHANGED <<oai_exit, instance_cnt, proc_rxtx, subframe, polls, fh_pc, main_pc, working>>

TestCalled(w) ==
  /\ rxtx_pc[w] = "test" /\ instance_cnt[w] >= 0
  /\ mutex_rxtx' = [mutex_rxtx EXCEPT ![w] = Nobody]
  /\ Goto(w, "awake")
  /\ UNCHANGED <<oai_exit, instance_cnt, proc_rxtx, subframe, polls, fh_pc, main_pc, working>>

Awake(w) ==
  /\ rxtx_pc[w] = "awake"
  /\ IF oai_exit
     THEN Goto(w, "ended") /\ UNCHANGED working
     ELSE Goto(w, "work") /\ working' = [working EXCEPT ![w] = proc_rxtx[w]]
  /\ UNCHANGED <<oai_exit, instance_cnt, mutex_rxtx, proc_rxtx, subframe, polls, fh_pc, main_pc>>

\* rxtx: it looks at oai_exit between the reception and the transmission.
Work(w) ==
  /\ rxtx_pc[w] = "work"
  /\ \/ Goto(w, "release")
     \/ oai_exit /\ Goto(w, "ended")
  /\ UNCHANGED <<oai_exit, instance_cnt, mutex_rxtx, proc_rxtx, subframe, polls, fh_pc, main_pc, working>>

Release(w) ==
  /\ rxtx_pc[w] = "release" /\ mutex_rxtx[w] = Nobody
  /\ mutex_rxtx' = [mutex_rxtx EXCEPT ![w] = Itself]
  /\ Goto(w, "decrement")
  /\ UNCHANGED <<oai_exit, instance_cnt, proc_rxtx, subframe, polls, fh_pc, main_pc, working>>

\* Mutant of Decrement: it sets the counter back by two.
Decrement_Twice(w) ==
  /\ rxtx_pc[w] = "decrement"
  /\ instance_cnt' = [instance_cnt EXCEPT ![w] = @ - 2]
  /\ Goto(w, "unlock")
  /\ UNCHANGED <<oai_exit, mutex_rxtx, proc_rxtx, subframe, polls, fh_pc, main_pc, working>>

Decrement(w) ==
  /\ rxtx_pc[w] = "decrement"
  /\ instance_cnt' = [instance_cnt EXCEPT ![w] = @ - 1]
  /\ Goto(w, "unlock")
  /\ UNCHANGED <<oai_exit, mutex_rxtx, proc_rxtx, subframe, polls, fh_pc, main_pc, working>>

Unlock(w) ==
  /\ rxtx_pc[w] = "unlock"
  /\ mutex_rxtx' = [mutex_rxtx EXCEPT ![w] = Nobody]
  /\ Goto(w, "top")
  /\ UNCHANGED <<oai_exit, instance_cnt, proc_rxtx, subframe, polls, fh_pc, main_pc, working>>

RxTxStep(w) == \/ Top(w) \/ Acquire(w) \/ TestIdle(w) \/ Sleep(w) \/ TestCalled(w) \/ Awake(w)
               \/ Work(w) \/ Release(w) \/ Decrement(w) \/ Unlock(w)

-----------------------------------------------------------------------------
(* The main thread: kill_eNB_proc, "FIXME data race!".                     *)

\* exit_fun of any other thread, or Ctrl-C.
SetExit ==
  /\ ~oai_exit /\ oai_exit' = TRUE
  /\ UNCHANGED <<instance_cnt, mutex_rxtx, proc_rxtx, subframe, polls, fh_pc, rxtx_pc, main_pc, working>>

LeaveMain ==
  /\ main_pc = "up" /\ oai_exit
  /\ main_pc' = "count"
  /\ UNCHANGED <<oai_exit, instance_cnt, mutex_rxtx, proc_rxtx, subframe, polls, fh_pc, rxtx_pc, working>>

SetCounts ==
  /\ main_pc = "count"
  /\ instance_cnt' = [w \in RxTx |-> 0]
  /\ main_pc' = "signal"
  /\ UNCHANGED <<oai_exit, mutex_rxtx, proc_rxtx, subframe, polls, fh_pc, rxtx_pc, working>>

\* Mutant of SignalAll: the odd thread is forgotten.
SignalAll_Even ==
  /\ main_pc = "signal"
  /\ rxtx_pc' = Signalled(0)
  /\ main_pc' = "joinFH"
  /\ UNCHANGED <<oai_exit, instance_cnt, mutex_rxtx, proc_rxtx, subframe, polls, fh_pc, working>>

SignalAll ==
  /\ main_pc = "signal"
  /\ rxtx_pc' = [w \in RxTx |-> IF rxtx_pc[w] = "asleep" THEN "acquire" ELSE rxtx_pc[w]]
  /\ main_pc' = "joinFH"
  /\ UNCHANGED <<oai_exit, instance_cnt, mutex_rxtx, proc_rxtx, subframe, polls, fh_pc, working>>

Join ==
  /\ \/ main_pc = "joinFH" /\ fh_pc = "ended" /\ main_pc' = "joinRxTx"
     \/ main_pc = "joinRxTx" /\ (\A w \in RxTx : rxtx_pc[w] = "ended") /\ main_pc' = "over"
  /\ UNCHANGED <<oai_exit, instance_cnt, mutex_rxtx, proc_rxtx, subframe, polls, fh_pc, rxtx_pc, working>>

MainStep == LeaveMain \/ SetCounts \/ SignalAll \/ Join

RxTxNext == FHStep \/ (\E w \in RxTx : RxTxStep(w)) \/ SetExit \/ MainStep

RxTxSpec == RxTxInit /\ [][RxTxNext]_threadVars
=============================================================================
