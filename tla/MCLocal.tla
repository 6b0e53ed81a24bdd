------------------------------- MODULE MCLocal -------------------------------
(* Model checking LocalChannel.  With a ring of two slots the third Write    *)
(* already reuses the slot of the first.                                     *)
EXTENDS LocalChannel, TLC

CONSTANTS w1, w2, w3, r1

Chunks == Writers \X (1 .. MaxChunks)

Symmetry == Permutations({w1, w2, w3})
==============================================================================
