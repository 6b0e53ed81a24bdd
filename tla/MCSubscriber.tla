----------------------------- MODULE MCSubscriber -----------------------------
(* Model checking TrickleSubscriber.                                         *)
EXTENDS TrickleSubscriber

(* A cfg cannot write negative numbers.                                      *)
SeekTargets == {-1, 0, 2}
==============================================================================
