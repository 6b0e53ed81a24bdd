-------------------------------- MODULE MCDrip --------------------------------
(* Model checking Drip: three readers, any of which may be a clone, and Read *)
(* buffers smaller and larger than what is waiting.  Chunks differ in their  *)
(* content, so that a copy out of place shows.                               *)
EXTENDS Drip

CONSTANTS a, b, c, x, y
==============================================================================
