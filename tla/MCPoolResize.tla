--------------------------- MODULE MCPoolResize ---------------------------
(* A pool of two that may grow to three, of which two may go at once; one   *)
(* of the first two and the third have a scratch volume.                    *)
EXTENDS PoolResize
CONSTANTS n1, n2, n3
Three == {n1, n2, n3}
Two == {n1, n2}
WithVolume == {n1, n3}
=============================================================================
