---------------------- MODULE MCComputeClusterResize ----------------------
(* A cluster of one that may grow by two.                                   *)
EXTENDS ComputeClusterResize
CONSTANTS n1, n2, n3
Three == {n1, n2, n3}
One == {n1}
=============================================================================
