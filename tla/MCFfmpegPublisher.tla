------------------------- MODULE MCFfmpegPublisher -------------------------
(* Two segments of one chunk, and a pipe the copier fills with one.         *)
EXTENDS FfmpegPublisher
============================================================================
