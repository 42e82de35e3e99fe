--------------------------- MODULE MCSafeDelete ---------------------------
(* Instances of SafeDelete for TLC: two members, and one node that only a  *)
(* resize can bring in where the run needs it.                             *)
EXTENDS SafeDelete

CONSTANTS n1, n2, n3

TwoNodes == {n1, n2}
WithSpare == {n1, n3}
OneMember == {n1}
=============================================================================
