----------------------------- MODULE RxTxProofs -----------------------------
(***************************************************************************)
(* The handing over of subframes, for any number of polls and of           *)
(* subframes.  The invariant says who holds a mutex, what a counter tells  *)
(* of its thread, and which subframe each context has.                     *)
(***************************************************************************)
EXTENDS RxTxProps, TLAPS

Busy == {"work", "release", "decrement"}
Handing == {"poll", "lock", "start"}

\* The mutex is held exactly where the code holds it.
MutexRight ==
  \A w \in RxTx :
    /\ mutex_rxtx[w] = Itself <=> rxtx_pc[w] \in {"test", "sleep", "decrement", "unlock"}
    /\ mutex_rxtx[w] = FH <=> fh_pc = "start" /\ Turn = w

\* Before kill_eNB_proc sets the counters.
Untouched == main_pc \in {"up", "count"}

CountRight ==
  /\ main_pc # "up" => oai_exit
  /\ \A w \in RxTx :
       /\ rxtx_pc[w] \in Busy \cup {"awake"} => instance_cnt[w] >= 0
       /\ instance_cnt[w] = 1 => oai_exit /\ fh_pc \in {"receive", "ended"}
       /\ Untouched /\ rxtx_pc[w] \in {"sleep", "asleep"} => instance_cnt[w] = -1
  /\ fh_pc \in {"lock", "start"} /\ Untouched => instance_cnt[Turn] = -1

\* A thread that the fronthaul thread hands a subframe to does not process one.
TurnIsIdle ==
  fh_pc \in {"lock", "start"} =>
    rxtx_pc[Turn] \notin Busy /\ (rxtx_pc[Turn] = "awake" => oai_exit)

\* Which subframes the contexts have.
ContextRight ==
  /\ fh_pc = "receive" => proc_rxtx[Turn] = subframe /\ proc_rxtx[1 - Turn] = subframe - 1
  /\ fh_pc \in Handing => proc_rxtx[Turn] = subframe - 2 /\ proc_rxtx[1 - Turn] = subframe - 1
  /\ proc_rxtx[0] - proc_rxtx[1] \in {-1, 1}

\* A thread that has been called and has not begun is two subframes behind.
WorkingRight ==
  \A w \in RxTx :
    /\ rxtx_pc[w] = "work" => proc_rxtx[w] = working[w]
    /\ ~oai_exit =>
         IF instance_cnt[w] = 0 /\ rxtx_pc[w] \notin Busy
         THEN proc_rxtx[w] = working[w] + 2
         ELSE proc_rxtx[w] = working[w]

RxTxInv == RxTxTypeOK /\ MutexRight /\ CountRight /\ TurnIsIdle /\ ContextRight /\ WorkingRight


LEMMA Parity ==
  ASSUME RxTxTypeOK
  PROVE  /\ Turn \in RxTx /\ 1 - Turn \in RxTx /\ Turn # 1 - Turn
         /\ \A w \in RxTx : w # Turn => w = 1 - Turn
         /\ subframe' = subframe => Turn' = Turn
         /\ subframe' = subframe + 1 => Turn' = 1 - Turn
<1>1. subframe \in Nat
  BY RxTxAssumption DEF RxTxTypeOK
<1>2. subframe % 2 \in {0, 1} /\ (subframe + 1) % 2 = 1 - (subframe % 2)
  BY <1>1
<1>q. QED BY <1>2 DEF Turn, RxTx

LEMMA InitInv == RxTxInit => RxTxInv
<1> SUFFICES ASSUME RxTxInit PROVE RxTxInv
  OBVIOUS
<1>1. Turn = 0
  BY DEF RxTxInit, Turn
<1>a. proc_rxtx = [w \in RxTx |-> 0 - w] /\ working = [w \in RxTx |-> 0 - w]
  BY DEF RxTxInit
<1>b. \A w \in RxTx : 0 - w \in -1..MaxSubframes
  BY RxTxAssumption DEF RxTx
<1>c. proc_rxtx \in [RxTx -> -1..MaxSubframes] /\ working \in [RxTx -> -1..MaxSubframes]
  BY <1>a, <1>b
<1>d. \A w \in RxTx : proc_rxtx[w] = 0 - w /\ working[w] = 0 - w
  BY <1>a
<1>e. proc_rxtx[0] = 0 /\ proc_rxtx[1] = -1
  BY <1>d DEF RxTx
<1>2. RxTxTypeOK
  <2>1. instance_cnt \in [RxTx -> -1..1]
    BY DEF RxTxInit
  <2>2. mutex_rxtx \in [RxTx -> {FH, Itself, Nobody}]
    BY DEF RxTxInit
  <2>3. subframe \in 0..MaxSubframes /\ polls \in 0..Polls
    BY RxTxAssumption DEF RxTxInit
  <2>q. QED BY <1>c, <2>1, <2>2, <2>3 DEF RxTxTypeOK, RxTxInit, MainLabels
<1>3. MutexRight
  BY <1>1, RxTxAssumption DEF MutexRight, RxTxInit, RxTx, FH, Itself, Nobody
<1>4. CountRight
  BY <1>1, RxTxAssumption DEF CountRight, RxTxInit, RxTx, Busy, Untouched, Handing, FH, Itself, Nobody
<1>5. TurnIsIdle
  BY <1>1, RxTxAssumption DEF TurnIsIdle, RxTxInit, RxTx, Busy, FH, Itself, Nobody
<1>6. ContextRight
  BY <1>1, <1>e DEF ContextRight, RxTxInit, RxTx, Handing, FH, Itself, Nobody
<1>7. WorkingRight
  BY <1>d DEF WorkingRight, RxTxInit, RxTx, Busy, FH, Itself, Nobody
<1>q. QED BY <1>2, <1>3, <1>4, <1>5, <1>6, <1>7 DEF RxTxInv

LEMMA FHInv ==
  ASSUME RxTxInv, FHStep
  PROVE  RxTxInv'
<1> USE RxTxAssumption DEF RxTxInv, RxTxTypeOK, MutexRight, CountRight, TurnIsIdle, ContextRight, WorkingRight,
      Busy, Handing, Untouched, MainLabels, FH, Itself, Nobody
<1>p. PICK t \in RxTx : t = Turn /\ 1 - t \in RxTx /\ t # 1 - t /\ (\A v \in RxTx : v # t => v = 1 - t)
  BY Parity
<1>s. (subframe' = subframe => Turn' = t) /\ (subframe' = subframe + 1 => Turn' = 1 - t)
  BY Parity, <1>p
<1>1. CASE ReceiveSubframe
  <2>1. 1 - (1 - t) = t
    BY DEF RxTx
  <2>q. QED BY <1>1, <1>p, <1>s, <2>1 DEF ReceiveSubframe
<1>2. CASE StopReceiving
  BY <1>2, <1>p, <1>s DEF StopReceiving
<1>3. CASE PollBusy
  BY <1>3, <1>p, <1>s DEF PollBusy
<1>4. CASE GiveUp
  BY <1>4, <1>p, <1>s DEF GiveUp
<1>5. CASE PollIdle
  BY <1>5, <1>p, <1>s DEF PollIdle
<1>6. CASE LockMutex
  BY <1>6, <1>p, <1>s DEF LockMutex
<1>7. CASE MutexTaken
  BY <1>7, <1>p, <1>s DEF MutexTaken
<1>8. CASE StartThread
  BY <1>8, <1>p, <1>s DEF StartThread, Signalled
<1>q. QED BY <1>1, <1>2, <1>3, <1>4, <1>5, <1>6, <1>7, <1>8 DEF FHStep

LEMMA RxTxInvStep ==
  ASSUME RxTxInv, NEW w \in RxTx, RxTxStep(w)
  PROVE  RxTxInv'
<1> USE RxTxAssumption DEF RxTxInv, RxTxTypeOK, MutexRight, CountRight, TurnIsIdle, ContextRight, WorkingRight,
      Busy, Handing, Untouched, MainLabels, FH, Itself, Nobody
<1>p. PICK t \in RxTx : t = Turn /\ 1 - t \in RxTx /\ t # 1 - t /\ (\A v \in RxTx : v # t => v = 1 - t)
  BY Parity
<1>s. (subframe' = subframe => Turn' = t) /\ (subframe' = subframe + 1 => Turn' = 1 - t)
  BY Parity, <1>p
<1>1. CASE Top(w)
  BY <1>1, <1>p, <1>s DEF Top, Goto
<1>2. CASE Acquire(w)
  BY <1>2, <1>p, <1>s DEF Acquire, Goto
<1>3. CASE TestIdle(w)
  BY <1>3, <1>p, <1>s DEF TestIdle, Goto
<1>4. CASE Sleep(w)
  BY <1>4, <1>p, <1>s DEF Sleep, Goto
<1>5. CASE TestCalled(w)
  BY <1>5, <1>p, <1>s DEF TestCalled, Goto
<1>6. CASE Awake(w)
  BY <1>6, <1>p, <1>s DEF Awake, Goto
<1>7. CASE Work(w)
  BY <1>7, <1>p, <1>s DEF Work, Goto
<1>8. CASE Release(w)
  BY <1>8, <1>p, <1>s DEF Release, Goto
<1>9. CASE Decrement(w)
  BY <1>9, <1>p, <1>s DEF Decrement, Goto
<1>10. CASE Unlock(w)
  BY <1>10, <1>p, <1>s DEF Unlock, Goto
<1>q. QED BY <1>1, <1>2, <1>3, <1>4, <1>5, <1>6, <1>7, <1>8, <1>9, <1>10 DEF RxTxStep

LEMMA MainInv ==
  ASSUME RxTxInv, MainStep
  PROVE  RxTxInv'
<1> USE RxTxAssumption DEF RxTxInv, RxTxTypeOK, MutexRight, CountRight, TurnIsIdle, ContextRight, WorkingRight,
      Busy, Handing, Untouched, MainLabels, FH, Itself, Nobody
<1>p. PICK t \in RxTx : t = Turn /\ 1 - t \in RxTx /\ t # 1 - t /\ (\A v \in RxTx : v # t => v = 1 - t)
  BY Parity
<1>s. (subframe' = subframe => Turn' = t) /\ (subframe' = subframe + 1 => Turn' = 1 - t)
  BY Parity, <1>p
<1>1. CASE LeaveMain
  BY <1>1, <1>p, <1>s DEF LeaveMain
<1>2. CASE SetCounts
  BY <1>2, <1>p, <1>s DEF SetCounts
<1>3. CASE SignalAll
  BY <1>3, <1>p, <1>s DEF SignalAll
<1>4. CASE Join
  BY <1>4, <1>p, <1>s DEF Join
<1>q. QED BY <1>1, <1>2, <1>3, <1>4 DEF MainStep

LEMMA StepInv == RxTxInv /\ [RxTxNext]_threadVars => RxTxInv'
<1> SUFFICES ASSUME RxTxInv, [RxTxNext]_threadVars PROVE RxTxInv'
  OBVIOUS
<1>1. CASE FHStep
  BY <1>1, FHInv
<1>2. CASE \E w \in RxTx : RxTxStep(w)
  BY <1>2, RxTxInvStep
<1>3. CASE SetExit
  <2>1. Turn' = Turn
    BY <1>3 DEF SetExit, Turn
  <2>q. QED BY <1>3, <2>1 DEF SetExit, RxTxInv, RxTxTypeOK, MutexRight, CountRight, TurnIsIdle, ContextRight,
                 WorkingRight, Busy, Handing, Untouched, MainLabels, FH, Itself, Nobody
<1>4. CASE MainStep
  BY <1>4, MainInv
<1>5. CASE UNCHANGED threadVars
  <2>1. Turn' = Turn
    BY <1>5 DEF threadVars, Turn
  <2>q. QED BY <1>5, <2>1 DEF threadVars, RxTxInv, RxTxTypeOK, MutexRight, CountRight, TurnIsIdle, ContextRight,
                 WorkingRight, Busy, Handing, Untouched, MainLabels, FH, Itself, Nobody
<1>q. QED BY <1>1, <1>2, <1>3, <1>4, <1>5 DEF RxTxNext

THEOREM InvHolds == RxTxSpec => []RxTxInv
<1>q. QED BY InitInv, StepInv, PTL DEF RxTxSpec

\* The counters stay between -1 and 1 even when kill_eNB_proc sets them without the mutex.
THEOREM RxTxTypesHold == RxTxSpec => []RxTxTypeOK
<1>1. RxTxInv => RxTxTypeOK
  BY DEF RxTxInv
<1>q. QED BY <1>1, InvHolds, PTL

\* wakeup_rxtx never overwrites the context of a thread that processes a subframe.
THEOREM ContextsAreOwn == RxTxSpec => []ContextIsOwn
<1>1. RxTxInv => ContextIsOwn
  BY DEF RxTxInv, WorkingRight, ContextIsOwn
<1>q. QED BY <1>1, InvHolds, PTL

\* When both threads process a subframe, the subframes are neighbours.
THEOREM NeighboursHold == RxTxSpec => []Neighbours
<1>1. RxTxInv => Neighbours
  <2> SUFFICES ASSUME RxTxInv, \A w \in RxTx : rxtx_pc[w] = "work"
               PROVE  working[0] - working[1] \in {-1, 1}
    BY DEF Neighbours
  <2>1. proc_rxtx[0] = working[0] /\ proc_rxtx[1] = working[1]
    BY DEF RxTxInv, WorkingRight, RxTx
  <2>q. QED BY <2>1 DEF RxTxInv, ContextRight
<1>q. QED BY <1>1, InvHolds, PTL

\* While the modem runs, no thread sleeps with a subframe handed to it.
THEOREM NoCallIsLost == RxTxSpec => []NoCallLost
<1>1. RxTxInv => NoCallLost
  BY DEF RxTxInv, CountRight, Untouched, NoCallLost, RxTxTypeOK, MainLabels
<1>q. QED BY <1>1, InvHolds, PTL

LEMMA TurnStep ==
  ASSUME RxTxInv, [RxTxNext]_threadVars, NEW w \in RxTx, working'[w] # working[w]
  PROVE  working'[w] = working[w] + 2
<1>1. PICK v \in RxTx : Awake(v)
  BY DEF RxTxNext, threadVars, FHStep, RxTxStep, MainStep, SetExit, ReceiveSubframe, StopReceiving, PollBusy,
     GiveUp, PollIdle, LockMutex, MutexTaken, StartThread, Top, Acquire, TestIdle, Sleep, TestCalled, Work,
     Release, Decrement, Unlock, LeaveMain, SetCounts, SignalAll, Join
<1>2. ~oai_exit /\ working' = [working EXCEPT ![v] = proc_rxtx[v]] /\ rxtx_pc[v] = "awake"
  BY <1>1 DEF Awake
<1>3. w = v
  BY <1>2 DEF RxTxInv, RxTxTypeOK
<1>4. instance_cnt[v] = 0
  BY <1>2 DEF RxTxInv, RxTxTypeOK, CountRight
<1>5. proc_rxtx[v] = working[v] + 2
  BY <1>2, <1>4 DEF RxTxInv, WorkingRight, Busy
<1>q. QED BY <1>2, <1>3, <1>5 DEF RxTxInv, RxTxTypeOK

\* A thread rxtx gets every second subframe, none twice and none passed over.
THEOREM TurnsHold == RxTxSpec => EachInTurn
<1>1. RxTxInv /\ [RxTxNext]_threadVars
        => [\A w \in RxTx : working'[w] # working[w] => working'[w] = working[w] + 2]_threadVars
  BY TurnStep
<1>q. QED BY <1>1, InvHolds, PTL DEF RxTxSpec, EachInTurn
=============================================================================
