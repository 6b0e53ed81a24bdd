------------------------------- MODULE MCPoster -------------------------------
(* Model checking SegmentPoster.                                             *)
EXTENDS SegmentPoster
==============================================================================
