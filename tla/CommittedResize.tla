-------------------------- MODULE CommittedResize --------------------------
(***************************************************************************)
(* What resizing a pool promises: one resize at a time is committed; the    *)
(* live size stays between its source and its target; it is closed when the *)
(* live size is one of the two and Terraform has recorded it.               *)
(***************************************************************************)
EXTENDS Integers

CONSTANT None

VARIABLES live, recorded, resize

vars == <<live, recorded, resize>>

Init == live \in Nat /\ recorded = live /\ resize = None

Commit ==
    /\ resize = None /\ recorded = live
    /\ resize' # None
    /\ resize'.source = live /\ resize'.target \in Nat \ {live}
    /\ UNCHANGED <<live, recorded>>

\* Growing is one change of the size, which may be taken back; shrinking goes
\* member by member and never back.
Move ==
    /\ resize # None
    /\ \/ resize.source < resize.target /\ live' \in {resize.source, resize.target}
       \/ live > resize.target /\ live' = live - 1
    /\ UNCHANGED <<recorded, resize>>

Record == recorded' = live /\ UNCHANGED <<live, resize>>

Close ==
    /\ resize # None
    /\ recorded = live /\ live \in {resize.source, resize.target}
    /\ resize' = None
    /\ UNCHANGED <<live, recorded>>

Next == Commit \/ Move \/ Record \/ Close

Spec == Init /\ [][Next]_vars
=============================================================================
