-------------------------- MODULE MCComputeNames --------------------------
(* Two nodes, one of them added by a resize, and two names.                  *)
EXTENDS ComputeNames
CONSTANTS n1, n2, h1, h2
Two == {n1, n2}
One == {n1}
Names == {h1, h2}

\* The names are interchangeable: which node starts with which makes no difference.
InitOfOne ==
    /\ Init
    /\ osName = [n \in Node |-> IF n = n1 THEN h1 ELSE h2]

FairSpecOfOne == InitOfOne /\ [][Next]_vars /\ Fairness
=============================================================================
