---------------------------- MODULE MCStdChannel ----------------------------
(* Three threads, four messages, two slots.                                  *)
EXTENDS StdChannel
=============================================================================
