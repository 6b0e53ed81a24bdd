---------------------------- MODULE MCSegmenter ----------------------------
(* Three segments of up to two chunks: one that is followed by another, one *)
(* between two, and the last.                                               *)
EXTENDS Segmenter
============================================================================
