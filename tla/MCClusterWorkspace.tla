------------------------ MODULE MCClusterWorkspace ------------------------
(* Instances of ClusterWorkspace for TLC: two deletions beside the one that *)
(* a failed creation starts.                                               *)
EXTENDS ClusterWorkspace

CONSTANTS d1, d2

TwoDeletions == {d1, d2}
=============================================================================
