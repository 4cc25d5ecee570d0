---------------------------- MODULE MCQueueSleep ----------------------------
(***************************************************************************)
(* Instances of QueueSleep: a few requests that arrive while the server    *)
(* dozes, sleeps, wakes up or ends.                                        *)
(***************************************************************************)
EXTENDS QueueSleep
=============================================================================
