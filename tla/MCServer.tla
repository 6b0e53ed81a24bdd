------------------------------- MODULE MCServer -------------------------------
(* Model checking TrickleServer: names meet by being closed and re-created.  *)
EXTENDS TrickleServer

CONSTANTS a, b, u1, u2, c1, c2
==============================================================================
