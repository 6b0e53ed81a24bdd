----------------------------- MODULE MCPublisher -----------------------------
(* Model checking TricklePublisher.                                          *)
EXTENDS TricklePublisher, TLC

CONSTANTS k1, k2
==============================================================================
