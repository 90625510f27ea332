---------------------------- MODULE MCStdTask ------------------------------
(* Two tasks that share a channel of one slot and a pool of one worker.      *)
EXTENDS StdTask
=============================================================================
