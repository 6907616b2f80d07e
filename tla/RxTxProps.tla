----------------------------- MODULE RxTxProps -----------------------------
(* What the processing of a subframe may rely on. *)
EXTENDS RxTxThreads

\* The context of a thread does not change while it processes a subframe: wakeup_rxtx
\* overwrites it only for a thread that waits.
ContextIsOwn == \A w \in RxTx : rxtx_pc[w] = "work" => proc_rxtx[w] = working[w]

\* The two threads are at neighbouring subframes, so that what a subframe shares with
\* the one after next is never touched by both ("accept some delay in processing",
\* lte-enb.c:1248).
Neighbours ==
  (\A w \in RxTx : rxtx_pc[w] = "work") => working[0] - working[1] \in {-1, 1}

\* A thread gets its subframes one after the other, none twice and none passed over.
EachInTurn ==
  [][\A w \in RxTx : working'[w] # working[w] => working'[w] = working[w] + 2]_threadVars

\* While the modem runs, no call is lost: a thread that sleeps has nothing to do.
NoCallLost == ~oai_exit => \A w \in RxTx : rxtx_pc[w] = "asleep" => instance_cnt[w] < 0

\* The threads are scheduled.
FairRxTxSpec ==
  /\ RxTxSpec
  /\ WF_threadVars(FHStep) /\ WF_threadVars(MainStep)
  /\ \A w \in RxTx : WF_threadVars(RxTxStep(w))

\* Every subframe received is processed, or the modem ends.
SubframesProcessed ==
  \A n \in 1..MaxSubframes : subframe = n ~> oai_exit \/ working[n % 2] >= n

\* kill_eNB_proc returns, if no thread has tested its counter before kill_eNB_proc set it
\* and is about to sleep when the signal comes: "FIXME data race!" (lte-enb.c:1893).
\* It joins the fronthaul thread and the threads rxtx here; that of PRACH is not modelled.
ShutdownEnds ==
  (main_pc = "signal" /\ \A w \in RxTx : rxtx_pc[w] # "sleep") ~> main_pc = "over"
=============================================================================
