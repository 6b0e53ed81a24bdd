------------------------------- MODULE MCOut -------------------------------
(* Two retries in three ticks, and time for two such intervals; a pipe of   *)
(* two chunks.                                                              *)
EXTENDS OutSubscriber
============================================================================
