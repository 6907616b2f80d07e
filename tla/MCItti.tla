------------------------------- MODULE MCItti -------------------------------
(* The first two tasks create_tasks creates. *)
EXTENDS IttiProps

CONSTANTS l2l1, app

TwoTasks == <<l2l1, app>>
=============================================================================
