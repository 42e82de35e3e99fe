--------------------------- MODULE CreationLatch ---------------------------
(***************************************************************************)
(* What the automatic-creation guard promises, without locks, files or     *)
(* processes.  Creation attempts start only while the latch accepts them.  *)
(* It trips exactly when the unbroken streak of failures among attempts    *)
(* that STARTED since it was last opened reaches a threshold.  Only        *)
(* opening it (an operator's resume, or the loss of its record) makes it   *)
(* accept again, and opening it forgets every attempt in flight.  Damage   *)
(* to its record jams it: it then starts nothing.                          *)
(* AutoscalingGuard is shown to implement this specification.              *)
(***************************************************************************)
EXTENDS Naturals, FiniteSets

CONSTANTS
    Attempt,     \* the creation attempts
    Thresholds   \* the streaks of failures at which the latch may trip

VARIABLES
    latch,      \* "accepting", "tripped" or "jammed"
    inflight,   \* attempts started since the last opening, result not counted
    streak      \* attempts whose failures form the present unbroken streak

vars == <<latch, inflight, streak>>

Init ==
    /\ latch = "accepting"
    /\ inflight = {}
    /\ streak = {}

Start(a) ==
    /\ latch = "accepting"
    /\ a \notin inflight \union streak
    /\ inflight' = inflight \union {a}
    /\ UNCHANGED <<latch, streak>>

Fail(a) ==
    /\ latch = "accepting"
    /\ a \in inflight
    /\ inflight' = inflight \ {a}
    /\ streak' = streak \union {a}
    /\ \E t \in Thresholds :
         latch' = IF Cardinality(streak') >= t THEN "tripped" ELSE "accepting"

Succeed(a) ==
    /\ latch = "accepting"
    /\ a \in inflight
    /\ inflight' = inflight \ {a}
    /\ streak' = {}
    /\ UNCHANGED latch

Open ==
    /\ latch' = "accepting"
    /\ inflight' = {}
    /\ streak' = {}

Jam ==
    /\ latch' = "jammed"
    /\ UNCHANGED <<inflight, streak>>

Next ==
    \/ \E a \in Attempt : Start(a) \/ Fail(a) \/ Succeed(a)
    \/ Open
    \/ Jam

Spec == Init /\ [][Next]_vars
=============================================================================
