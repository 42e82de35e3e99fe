-------------------------- MODULE SafeDeleteProofs --------------------------
(* Proofs about SafeDelete, for any number of nodes, passes, faults and     *)
(* administrators' acts.                                                    *)
EXTENDS SafeDelete, TLAPS

USE DEF Pass, Deleter

LEMMA TypeInit == Init => TypeOK
<1> SUFFICES ASSUME Init PROVE TypeOK
  OBVIOUS
<1>1. /\ members \subseteq Node /\ nodes \subseteq Node /\ todo \subseteq Node
      /\ owned \subseteq Node /\ exposed \subseteq Node /\ faulted \subseteq Pass
  BY NodeAssumption DEF Init
<1>2. /\ drain \in [Node -> BOOLEAN] /\ reason \in [Node -> Reason]
      /\ use \in [Node -> Use] /\ health \in [Node -> Health]
  BY DEF Init, Reason, Use, Health
<1>3. seen \in [Node -> [drain : BOOLEAN, reason : Reason]]
  BY DEF Init, Unseen, Reason
<1>4. /\ deleter \in [Deleter -> {"none", "launched", "marked", "exited"}]
      /\ checked \in [Pass -> SUBSET Node]
      /\ outcome \in [Pass -> {"none", "accepted", "unknown", "withdrawn", "killed"}]
  BY DEF Init
<1>5. /\ pass \in 0 .. MaxPasses /\ faults \in 0 .. MaxFaults /\ acts \in 0 .. MaxActs
  BY BoundsAssumption DEF Init
<1>6. /\ pc \in PassPlace /\ (pass = 0 => pc = "idle")
      /\ resizing \in BOOLEAN /\ gone \in BOOLEAN
  BY DEF Init, PassPlace
<1> QED
  BY <1>1, <1>2, <1>3, <1>4, <1>5, <1>6 DEF TypeOK

LEMMA TypeStep == TypeOK /\ [Next]_vars => TypeOK'
<1> SUFFICES ASSUME TypeOK, [Next]_vars PROVE TypeOK'
  OBVIOUS
<1> USE BoundsAssumption, ReasonAssumption DEF TypeOK, Reason, Use, Health, PassPlace,
        OthersUnchanged, Goto, Fault, SetDrain, Abort, slurmVars, passVars, scriptVars, historyVars
<1>1. CASE Begin
  BY <1>1 DEF Begin, Unseen
<1>2. CASE CheckJobs
  BY <1>2 DEF CheckJobs, ToDrain
<1>3. CASE CheckTopology
  BY <1>3 DEF CheckTopology
<1>4. CASE CheckJobsAgain
  BY <1>4 DEF CheckJobsAgain
<1>5. CASE Launch
  BY <1>5 DEF Launch
<1>6. CASE Accepted
  BY <1>6 DEF Accepted, Leave, Unseen
<1>7. CASE Rejected
  BY <1>7 DEF Rejected
<1>8. CASE Deadline
  BY <1>8 DEF Deadline, GiveUp, Leave, Unseen
<1>9. CASE RollbackEnds
  BY <1>9 DEF RollbackEnds, Leave, Unseen
<1>10. ASSUME NEW n \in Node, Snapshot(n) PROVE TypeOK'
  <2>1. [drain |-> drain[n], reason |-> reason[n]] \in [drain : BOOLEAN, reason : Reason]
    OBVIOUS
  <2>2. CASE nodeMayBeDeleted(n)
    <3>1. seen' \in [Node -> [drain : BOOLEAN, reason : Reason]]
      BY <1>10, <2>1, <2>2 DEF Snapshot
    <3> QED
      BY <1>10, <2>2, <3>1 DEF Snapshot
  <2>3. CASE ~nodeMayBeDeleted(n)
    BY <1>10, <2>3 DEF Snapshot
  <2> QED
    BY <2>2, <2>3
<1>11. ASSUME NEW n \in Node, Drain(n) PROVE TypeOK'
  BY <1>11 DEF Drain, OwnedAfter
<1>12. ASSUME NEW n \in Node, Recheck(n) PROVE TypeOK'
  BY <1>12 DEF Recheck
<1>13. ASSUME NEW n \in Node, RollbackReads(n) PROVE TypeOK'
  BY <1>13 DEF RollbackReads
<1>14. ASSUME NEW n \in Node, Undrain(n) PROVE TypeOK'
  BY <1>14 DEF Undrain
<1>15. CASE CheckFails
  BY <1>15 DEF CheckFails
<1>16. CASE Kill
  BY <1>16 DEF Kill, Leave, Unseen
<1>17. ASSUME NEW n \in Node, DrainFails(n) PROVE TypeOK'
  <2>1. CASE SetDrain(n)
    BY <1>17, <2>1 DEF DrainFails
  <2>2. CASE UNCHANGED slurmVars
    BY <1>17, <2>2 DEF DrainFails
  <2> QED
    BY <1>17, <2>1, <2>2 DEF DrainFails
<1>18. ASSUME NEW n \in Node, RollbackFails(n) PROVE TypeOK'
  BY <1>18 DEF RollbackFails
<1>19. ASSUME NEW S \in SUBSET Node, StartJob(S) PROVE TypeOK'
  BY <1>19 DEF StartJob
<1>20. ASSUME NEW n \in Node, JobStep(n) PROVE TypeOK'
  <2>1. ASSUME NEW from, NEW to \in Use, JobMoves(n, from, to) PROVE TypeOK'
    BY <2>1 DEF JobMoves
  <2> QED
    BY <1>20, <2>1 DEF JobStep
<1>21. ASSUME NEW n \in Node, NodeStep(n) PROVE TypeOK'
  <2>1. use' \in [Node -> Use] /\ health' \in [Node -> Health]
    <3>1. \/ \E h \in Health : health' = [health EXCEPT ![n] = h] /\ use' = use
          \/ /\ health' = [health EXCEPT ![n] = "down"]
             /\ use' = [use EXCEPT ![n] = "free"]
      BY <1>21 DEF NodeStep
    <3>2. ASSUME NEW h \in Health, health' = [health EXCEPT ![n] = h] PROVE health' \in [Node -> Health]
      <4> HIDE DEF Health
      <4> QED BY <3>2
    <3>3. ASSUME use' = [use EXCEPT ![n] = "free"] PROVE use' \in [Node -> Use]
      BY <3>3
    <3>4. "down" \in Health
      OBVIOUS
    <3> QED
      BY <3>1, <3>2, <3>3, <3>4
  <2> QED
    BY <1>21, <2>1 DEF NodeStep, nodeIsQuiescent
<1>22. CASE OperatorStep
  <2>1. CASE ResizeStart
    BY <2>1 DEF ResizeStart
  <2>8. CASE ResizeEnd
    BY <2>8 DEF ResizeEnd
  <2>2. CASE ManualDelete
    BY <2>2 DEF ManualDelete
  <2>3. CASE RemoveLockFile
    BY <2>3 DEF RemoveLockFile
  <2>4. ASSUME NEW n \in Node, AdminDrain(n) PROVE TypeOK'
    BY <2>4 DEF AdminDrain
  <2>7. ASSUME NEW n \in Node, AdminResume(n) PROVE TypeOK'
    BY <2>7 DEF AdminResume
  <2>5. ASSUME NEW n \in Node, ResizeAdd(n) PROVE TypeOK'
    BY <2>5 DEF ResizeAdd
  <2>6. ASSUME NEW n \in Node, ResizeRemove(n) PROVE TypeOK'
    BY <2>6 DEF ResizeRemove
  <2> QED
    BY <1>22, <2>1, <2>2, <2>3, <2>4, <2>5, <2>6, <2>7, <2>8 DEF OperatorStep
<1>23. ASSUME NEW d \in Deleter, DeleteStep(d) PROVE TypeOK'
  BY <1>23 DEF DeleteStep, DeleteMarks, DeleteRefuses, DeleteSucceeds, DeleteFails
<1>24. CASE UNCHANGED vars
  BY <1>24 DEF vars
<1>25. QED
  BY <1>1, <1>2, <1>3, <1>4, <1>5, <1>6, <1>7, <1>8, <1>9, <1>10, <1>11, <1>12,
     <1>13, <1>14, <1>15, <1>16, <1>17, <1>18, <1>19, <1>20, <1>21, <1>22, <1>23, <1>24
  DEF Next, PassStep, FaultStep, SlurmStep

\* Every variable of SafeDelete keeps its type.
THEOREM TypeCorrect == Spec => []TypeOK
<1>1. Init => TypeOK
  BY TypeInit
<1>2. TypeOK /\ [Next]_vars => TypeOK'
  BY TypeStep
<1>3. QED
  BY <1>1, <1>2, PTL DEF Spec

(***************************************************************************)
(* The fence.  What a pass believes of a node is true until the handoff,   *)
(* because only the rollback of the same pass lifts a DRAIN, and because a *)
(* later pass never owns a node that an earlier deletion relies on.        *)
(***************************************************************************)

Active == pc \notin {"idle", "dead"}

\* A delete_cluster.sh that may still destroy the cluster.
Alive(p) == deleter[p] \in {"launched", "marked"}

\* Nobody but the schedulers has had a hand in the availability of n.
Guarded(n) == n \in members /\ n \notin exposed

Held(n) == Guarded(n) => drain[n]

Secure(n) == Guarded(n) => drain[n] /\ use[n] = "free"

\* Nodes whose DRAIN the present pass has set, is setting or is lifting.
Mine ==
    owned \union
    CASE pc = "snapshot" -> {n \in nodes \ todo : ~seen[n].drain}
      [] pc = "jobs" -> {n \in nodes : ~seen[n].drain}
      [] pc \in {"drain", "rollback", "undrain"} -> todo
      [] OTHER -> {}

\* No other pass's deletion relies on n.
Unclaimed(n) ==
    \A q \in Pass : q # pass /\ Alive(q) /\ n \in checked[q] => ~Guarded(n)

BelievedIsTrue ==
    /\ pc = "recheck" => \A n \in nodes \ todo : Held(n)
    /\ pc = "jobsAgain" => \A n \in nodes : Held(n)
    /\ pc = "launch" => \A n \in nodes : Secure(n)

OnlyPastDeletions ==
    \A p \in Pass : p > pass \/ (p = pass /\ Active /\ pc # "wait") => ~Alive(p)

Fence ==
    /\ \A p \in Pass : Alive(p) => \A n \in checked[p] : Secure(n)
    /\ BelievedIsTrue
    /\ OnlyPastDeletions
    /\ \A n \in Mine : Unclaimed(n)
    /\ pc \in {"idle", "dead", "snapshot", "jobs"} => owned = {}

\* A node the pass has touched was not drained when the pass first read it.
TouchedWasOpen == 
    /\ todo \subseteq nodes /\ owned \subseteq nodes
    /\ pc \in {"snapshot", "jobs"} => owned = {}
    /\ \A n \in Mine : ~seen[n].drain

\* A DRAIN under a pass's Reason is either on the pass's list or was handed over.
Accounted ==
    /\ \A p \in Pass : p > pass \/ (p = pass /\ Active) => outcome[p] = "none"
    /\ \A p \in Pass \ faulted : \A n \in Node : drain[n] /\ reason[n] = p =>
          \/ outcome[p] \in {"accepted", "unknown"}
          \/ /\ p = pass /\ Active
             /\ IF pc \in {"rollback", "undrain"} THEN n \in todo ELSE n \in owned

LEMMA TouchedStep ==
    ASSUME TypeOK, TouchedWasOpen, [Next]_vars
    PROVE  TouchedWasOpen'
<1> USE BoundsAssumption, ReasonAssumption DEF TypeOK, TouchedWasOpen, Mine, slurmVars, passVars, scriptVars, historyVars, OthersUnchanged, Goto, Fault, SetDrain, Abort
<1>1. CASE Begin
  BY <1>1 DEF Begin, Unseen
<1>2. CASE CheckJobs
  BY <1>2 DEF CheckJobs, ToDrain, HasNoJobs
<1>3. CASE CheckTopology
  BY <1>3 DEF CheckTopology
<1>4. CASE CheckJobsAgain
  BY <1>4 DEF CheckJobsAgain, HasNoJobs
<1>5. CASE Launch
  BY <1>5 DEF Launch
<1>6. CASE Accepted
  BY <1>6 DEF Accepted, Leave, Unseen
<1>7. CASE Rejected
  BY <1>7 DEF Rejected
<1>8. CASE Deadline
  BY <1>8 DEF Deadline, GiveUp, Leave, Unseen
<1>9. CASE RollbackEnds
  BY <1>9 DEF RollbackEnds, Leave, Unseen
<1>10. CASE CheckFails
  BY <1>10 DEF CheckFails
<1>11. CASE Kill
  BY <1>11 DEF Kill, Leave, Unseen
<1>12. CASE ResizeStart
  BY <1>12 DEF ResizeStart
<1>13. CASE ResizeEnd
  BY <1>13 DEF ResizeEnd
<1>14. CASE ManualDelete
  BY <1>14 DEF ManualDelete
<1>15. CASE RemoveLockFile
  BY <1>15 DEF RemoveLockFile
<1>16. ASSUME NEW m \in Node, Snapshot(m) PROVE TouchedWasOpen'
  BY <1>16 DEF Snapshot
<1>17. ASSUME NEW m \in Node, Drain(m) PROVE TouchedWasOpen'
  BY <1>17 DEF Drain, OwnedAfter
<1>18. ASSUME NEW m \in Node, Recheck(m) PROVE TouchedWasOpen'
  BY <1>18 DEF Recheck, Fenced
<1>19. ASSUME NEW m \in Node, RollbackReads(m) PROVE TouchedWasOpen'
  BY <1>19 DEF RollbackReads, StillOurs
<1>20. ASSUME NEW m \in Node, Undrain(m) PROVE TouchedWasOpen'
  BY <1>20 DEF Undrain
<1>21. ASSUME NEW m \in Node, DrainFails(m) PROVE TouchedWasOpen'
  BY <1>21 DEF DrainFails
<1>22. ASSUME NEW m \in Node, RollbackFails(m) PROVE TouchedWasOpen'
  BY <1>22 DEF RollbackFails
<1>23. ASSUME NEW m \in Node, JobStep(m) PROVE TouchedWasOpen'
  BY <1>23 DEF JobStep, JobMoves
<1>24. ASSUME NEW m \in Node, NodeStep(m) PROVE TouchedWasOpen'
  BY <1>24 DEF NodeStep
<1>25. ASSUME NEW m \in Node, AdminDrain(m) PROVE TouchedWasOpen'
  BY <1>25 DEF AdminDrain
<1>26. ASSUME NEW m \in Node, AdminResume(m) PROVE TouchedWasOpen'
  BY <1>26 DEF AdminResume
<1>27. ASSUME NEW m \in Node, ResizeAdd(m) PROVE TouchedWasOpen'
  BY <1>27 DEF ResizeAdd
<1>28. ASSUME NEW m \in Node, ResizeRemove(m) PROVE TouchedWasOpen'
  BY <1>28 DEF ResizeRemove
<1>29. ASSUME NEW S \in SUBSET Node, StartJob(S) PROVE TouchedWasOpen'
  BY <1>29 DEF StartJob
<1>30. ASSUME NEW d \in Deleter, DeleteMarks(d) PROVE TouchedWasOpen'
  BY <1>30 DEF DeleteMarks
<1>31. ASSUME NEW d \in Deleter, DeleteRefuses(d) PROVE TouchedWasOpen'
  BY <1>31 DEF DeleteRefuses
<1>32. ASSUME NEW d \in Deleter, DeleteSucceeds(d) PROVE TouchedWasOpen'
  BY <1>32 DEF DeleteSucceeds
<1>33. ASSUME NEW d \in Deleter, DeleteFails(d) PROVE TouchedWasOpen'
  BY <1>33 DEF DeleteFails
<1>34. CASE UNCHANGED vars
  BY <1>34 DEF vars
<1> QED
  BY <1>1, <1>2, <1>3, <1>4, <1>5, <1>6, <1>7, <1>8, <1>9, <1>10, <1>11, <1>12, <1>13, <1>14, <1>15, <1>16, <1>17, <1>18, <1>19, <1>20, <1>21, <1>22, <1>23, <1>24, <1>25, <1>26, <1>27, <1>28, <1>29, <1>30, <1>31, <1>32, <1>33, <1>34
  DEF Next, PassStep, FaultStep, SlurmStep, OperatorStep, DeleteStep

LEMMA FenceStep ==
    ASSUME TypeOK, TypeOK', Fence, [Next]_vars
    PROVE  Fence'
<1> USE BoundsAssumption, ReasonAssumption DEF TypeOK, Fence, Mine, Unclaimed, BelievedIsTrue, OnlyPastDeletions, Secure, Held, Guarded, Alive, Active, slurmVars, passVars, scriptVars, historyVars, OthersUnchanged, Goto, Fault, SetDrain, Abort
<1>1. CASE Begin
  BY <1>1 DEF Begin, Unseen
<1>2. CASE CheckJobs
  BY <1>2 DEF CheckJobs, ToDrain, HasNoJobs
<1>3. CASE CheckTopology
  BY <1>3 DEF CheckTopology
<1>4. CASE CheckJobsAgain
  BY <1>4 DEF CheckJobsAgain, HasNoJobs
<1>5. CASE Launch
  BY <1>5 DEF Launch
<1>6. CASE Accepted
  BY <1>6 DEF Accepted, Leave, Unseen
<1>7. CASE Rejected
  BY <1>7 DEF Rejected
<1>8. CASE Deadline
  BY <1>8 DEF Deadline, GiveUp, Leave, Unseen
<1>9. CASE RollbackEnds
  BY <1>9 DEF RollbackEnds, Leave, Unseen
<1>10. CASE CheckFails
  BY <1>10 DEF CheckFails
<1>11. CASE Kill
  BY <1>11 DEF Kill, Leave, Unseen
<1>12. CASE ResizeStart
  BY <1>12 DEF ResizeStart
<1>13. CASE ResizeEnd
  BY <1>13 DEF ResizeEnd
<1>14. CASE ManualDelete
  BY <1>14 DEF ManualDelete
<1>15. CASE RemoveLockFile
  BY <1>15 DEF RemoveLockFile
<1>16. ASSUME NEW m \in Node, Snapshot(m) PROVE Fence'
  <2>1. CASE nodeMayBeDeleted(m)
    \* Fence guards every node an earlier deletion relies on, so m was drained.
    <3>1. ~drain[m] => Unclaimed(m)
      OBVIOUS
    <3>2. \A n \in Mine' : Unclaimed(n)
      BY <1>16, <2>1, <3>1 DEF Snapshot
    <3> QED
      BY <1>16, <2>1, <3>2 DEF Snapshot
  <2>2. CASE ~nodeMayBeDeleted(m)
    BY <1>16, <2>2 DEF Snapshot
  <2> QED
    BY <2>1, <2>2
<1>17. ASSUME NEW m \in Node, Drain(m) PROVE Fence'
  BY <1>17 DEF Drain, OwnedAfter
<1>18. ASSUME NEW m \in Node, Recheck(m) PROVE Fence'
  BY <1>18 DEF Recheck, Fenced
<1>19. ASSUME NEW m \in Node, RollbackReads(m) PROVE Fence'
  BY <1>19 DEF RollbackReads, StillOurs
<1>20. ASSUME NEW m \in Node, Undrain(m) PROVE Fence'
  BY <1>20 DEF Undrain
<1>21. ASSUME NEW m \in Node, DrainFails(m) PROVE Fence'
  BY <1>21 DEF DrainFails
<1>22. ASSUME NEW m \in Node, RollbackFails(m) PROVE Fence'
  BY <1>22 DEF RollbackFails
<1>23. ASSUME NEW m \in Node, JobStep(m) PROVE Fence'
  BY <1>23 DEF JobStep, JobMoves
<1>24. ASSUME NEW m \in Node, NodeStep(m) PROVE Fence'
  BY <1>24 DEF NodeStep
<1>25. ASSUME NEW m \in Node, AdminDrain(m) PROVE Fence'
  BY <1>25 DEF AdminDrain
<1>26. ASSUME NEW m \in Node, AdminResume(m) PROVE Fence'
  BY <1>26 DEF AdminResume
<1>27. ASSUME NEW m \in Node, ResizeAdd(m) PROVE Fence'
  BY <1>27 DEF ResizeAdd
<1>28. ASSUME NEW m \in Node, ResizeRemove(m) PROVE Fence'
  BY <1>28 DEF ResizeRemove
<1>29. ASSUME NEW S \in SUBSET Node, StartJob(S) PROVE Fence'
  BY <1>29 DEF StartJob
<1>30. ASSUME NEW d \in Deleter, DeleteMarks(d) PROVE Fence'
  BY <1>30 DEF DeleteMarks
<1>31. ASSUME NEW d \in Deleter, DeleteRefuses(d) PROVE Fence'
  BY <1>31 DEF DeleteRefuses
<1>32. ASSUME NEW d \in Deleter, DeleteSucceeds(d) PROVE Fence'
  BY <1>32 DEF DeleteSucceeds
<1>33. ASSUME NEW d \in Deleter, DeleteFails(d) PROVE Fence'
  BY <1>33 DEF DeleteFails
<1>34. CASE UNCHANGED vars
  BY <1>34 DEF vars
<1> QED
  BY <1>1, <1>2, <1>3, <1>4, <1>5, <1>6, <1>7, <1>8, <1>9, <1>10, <1>11, <1>12, <1>13, <1>14, <1>15, <1>16, <1>17, <1>18, <1>19, <1>20, <1>21, <1>22, <1>23, <1>24, <1>25, <1>26, <1>27, <1>28, <1>29, <1>30, <1>31, <1>32, <1>33, <1>34
  DEF Next, PassStep, FaultStep, SlurmStep, OperatorStep, DeleteStep

LEMMA AccountedStep ==
    ASSUME TypeOK, Accounted, TouchedWasOpen, [Next]_vars
    PROVE  Accounted'
<1> USE BoundsAssumption, ReasonAssumption DEF TypeOK, Accounted, Active, slurmVars, passVars, scriptVars, historyVars, OthersUnchanged, Goto, Fault, SetDrain, Abort
<1>1. CASE Begin
  BY <1>1 DEF Begin, Unseen
<1>2. CASE CheckJobs
  BY <1>2 DEF CheckJobs, ToDrain, HasNoJobs
<1>3. CASE CheckTopology
  BY <1>3 DEF CheckTopology
<1>4. CASE CheckJobsAgain
  BY <1>4 DEF CheckJobsAgain, HasNoJobs
<1>5. CASE Launch
  BY <1>5 DEF Launch
<1>6. CASE Accepted
  BY <1>6 DEF Accepted, Leave, Unseen
<1>7. CASE Rejected
  BY <1>7 DEF Rejected
<1>8. CASE Deadline
  BY <1>8 DEF Deadline, GiveUp, Leave, Unseen
<1>9. CASE RollbackEnds
  BY <1>9 DEF RollbackEnds, Leave, Unseen
<1>10. CASE CheckFails
  BY <1>10 DEF CheckFails
<1>11. CASE Kill
  BY <1>11 DEF Kill, Leave, Unseen
<1>12. CASE ResizeStart
  BY <1>12 DEF ResizeStart
<1>13. CASE ResizeEnd
  BY <1>13 DEF ResizeEnd
<1>14. CASE ManualDelete
  BY <1>14 DEF ManualDelete
<1>15. CASE RemoveLockFile
  BY <1>15 DEF RemoveLockFile
<1>16. ASSUME NEW m \in Node, Snapshot(m) PROVE Accounted'
  BY <1>16 DEF Snapshot
<1>17. ASSUME NEW m \in Node, Drain(m) PROVE Accounted'
  BY <1>17 DEF Drain, OwnedAfter
<1>18. ASSUME NEW m \in Node, Recheck(m) PROVE Accounted'
  BY <1>18 DEF Recheck, Fenced
<1>19. ASSUME NEW m \in Node, RollbackReads(m) PROVE Accounted'
  BY <1>19 DEF RollbackReads, StillOurs
<1>20. ASSUME NEW m \in Node, Undrain(m) PROVE Accounted'
  BY <1>20 DEF Undrain
<1>21. ASSUME NEW m \in Node, DrainFails(m) PROVE Accounted'
  BY <1>21 DEF DrainFails
<1>22. ASSUME NEW m \in Node, RollbackFails(m) PROVE Accounted'
  BY <1>22 DEF RollbackFails
<1>23. ASSUME NEW m \in Node, JobStep(m) PROVE Accounted'
  BY <1>23 DEF JobStep, JobMoves
<1>24. ASSUME NEW m \in Node, NodeStep(m) PROVE Accounted'
  BY <1>24 DEF NodeStep
<1>25. ASSUME NEW m \in Node, AdminDrain(m) PROVE Accounted'
  BY <1>25 DEF AdminDrain
<1>26. ASSUME NEW m \in Node, AdminResume(m) PROVE Accounted'
  BY <1>26 DEF AdminResume
<1>27. ASSUME NEW m \in Node, ResizeAdd(m) PROVE Accounted'
  BY <1>27 DEF ResizeAdd
<1>28. ASSUME NEW m \in Node, ResizeRemove(m) PROVE Accounted'
  BY <1>28 DEF ResizeRemove
<1>29. ASSUME NEW S \in SUBSET Node, StartJob(S) PROVE Accounted'
  BY <1>29 DEF StartJob
<1>30. ASSUME NEW d \in Deleter, DeleteMarks(d) PROVE Accounted'
  BY <1>30 DEF DeleteMarks
<1>31. ASSUME NEW d \in Deleter, DeleteRefuses(d) PROVE Accounted'
  BY <1>31 DEF DeleteRefuses
<1>32. ASSUME NEW d \in Deleter, DeleteSucceeds(d) PROVE Accounted'
  BY <1>32 DEF DeleteSucceeds
<1>33. ASSUME NEW d \in Deleter, DeleteFails(d) PROVE Accounted'
  BY <1>33 DEF DeleteFails
<1>34. CASE UNCHANGED vars
  BY <1>34 DEF vars
<1> QED
  BY <1>1, <1>2, <1>3, <1>4, <1>5, <1>6, <1>7, <1>8, <1>9, <1>10, <1>11, <1>12, <1>13, <1>14, <1>15, <1>16, <1>17, <1>18, <1>19, <1>20, <1>21, <1>22, <1>23, <1>24, <1>25, <1>26, <1>27, <1>28, <1>29, <1>30, <1>31, <1>32, <1>33, <1>34
  DEF Next, PassStep, FaultStep, SlurmStep, OperatorStep, DeleteStep

(***************************************************************************)
(* The theorems.                                                           *)
(***************************************************************************)

Inv == TypeOK /\ Fence /\ TouchedWasOpen /\ Accounted

LEMMA InvInit == Init => Inv
<1> SUFFICES ASSUME Init PROVE Inv
  OBVIOUS
<1>1. TypeOK
  BY TypeInit
<1>2. Fence
  BY DEF Init, Fence, Mine, BelievedIsTrue, OnlyPastDeletions, Alive
<1>3. TouchedWasOpen
  BY DEF Init, TouchedWasOpen, Mine
<1>4. Accounted
  BY DEF Init, Accounted
<1> QED
  BY <1>1, <1>2, <1>3, <1>4 DEF Inv

LEMMA InvStep == Inv /\ [Next]_vars => Inv'
  BY TypeStep, FenceStep, TouchedStep, AccountedStep DEF Inv

LEMMA Invariance == Spec => []Inv
  BY InvInit, InvStep, PTL DEF Spec

\* A deletion started by the scheduler finds no job on a node the pass checked
\* and nobody else made available.
THEOREM NoJobIsDestroyed == Spec => []DeletionFindsNoJob
<1>1. Inv => DeletionFindsNoJob
  BY DEF Inv, Fence, Alive, Secure, Guarded, DeletionFindsNoJob
<1> QED
  BY <1>1, Invariance, PTL

\* The nodes stay drained while a delete_cluster.sh of the scheduler may still
\* act, however the handoff ended for the pass that started it.
THEOREM DeletionsAreFenced == Spec => []DeletionStaysFenced
<1>1. Inv => DeletionStaysFenced
  BY DEF Inv, Fence, Alive, Secure, Guarded, DeletionStaysFenced
<1> QED
  BY <1>1, Invariance, PTL

\* A withdrawn pass without failed commands leaves no DRAIN of its own.
THEOREM WithdrawalIsClean == Spec => []WithdrawnPassLeavesNoDrain
<1>1. Inv => WithdrawnPassLeavesNoDrain
  <2> SUFFICES ASSUME Inv, NEW p \in Pass \ faulted, outcome[p] = "withdrawn",
                      NEW n \in Node, drain[n], reason[n] = p
               PROVE  FALSE
    BY DEF WithdrawnPassLeavesNoDrain
  <2> QED
    BY DEF Inv, Accounted, Active
<1> QED
  BY <1>1, Invariance, PTL

\* A node drained before the pass keeps its DRAIN and its Reason.
THEOREM PriorDrainsAreKept == Spec => PriorDrainsSurvive
<1> DEFINE Kept == \A n \in Node : PassStep /\ n \in nodes /\ seen[n].drain =>
                     drain'[n] = drain[n] /\ reason'[n] = reason[n]
<1>1. Inv => Kept
  <2> SUFFICES ASSUME Inv, PassStep, NEW n \in Node, n \in nodes, seen[n].drain
               PROVE  drain'[n] = drain[n] /\ reason'[n] = reason[n]
    OBVIOUS
  <2> USE DEF slurmVars
  <2>1. \A m \in Mine : m # n
    BY DEF Inv, TouchedWasOpen
  <2>2. ASSUME NEW m \in Node, Drain(m)
        PROVE  drain'[n] = drain[n] /\ reason'[n] = reason[n]
    BY <2>1, <2>2 DEF Drain, SetDrain, Mine, Inv, TypeOK
  <2>3. ASSUME NEW m \in Node, Undrain(m)
        PROVE  drain'[n] = drain[n] /\ reason'[n] = reason[n]
    BY <2>1, <2>3 DEF Undrain, Mine, Inv, TypeOK
  <2>4. CASE \/ Begin \/ CheckJobs \/ CheckTopology \/ CheckJobsAgain \/ Launch
             \/ Accepted \/ Rejected \/ Deadline \/ RollbackEnds
    BY <2>4 DEF Begin, CheckJobs, CheckTopology, CheckJobsAgain, Launch, Accepted,
                Rejected, Deadline, RollbackEnds
  <2>5. ASSUME NEW m \in Node, Snapshot(m) \/ Recheck(m) \/ RollbackReads(m)
        PROVE  drain'[n] = drain[n] /\ reason'[n] = reason[n]
    BY <2>5 DEF Snapshot, Recheck, RollbackReads
  <2> QED
    BY <2>2, <2>3, <2>4, <2>5 DEF PassStep
<1>2. Inv /\ [Next]_vars => [Kept]_vars
  BY <1>1
<1> QED
  BY <1>2, Invariance, PTL DEF Spec, PriorDrainsSurvive
=============================================================================
