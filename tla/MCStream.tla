------------------------------- MODULE MCStream -------------------------------
(* Model checking StreamHandlers.  A ring of two segments is enough for one  *)
(* seq to evict another; the cfg files choose who sends which requests.      *)
EXTENDS StreamHandlers, TLC

CONSTANTS w1, w2, w3, g1, g2, d1, c1

(* A cfg cannot write negative numbers.                                      *)
AllSeqs == {0, 1, 2, -1, -2}
WrapSeqs == {0, 2, -1}
EdgeSeqs == {0, -1}

Chunks == Writers \X (1 .. MaxChunks)

Symmetry == Permutations({w1, w2, w3}) \cup Permutations({g1, g2})
==============================================================================
