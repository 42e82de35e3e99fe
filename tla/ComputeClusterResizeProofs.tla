--------------------- MODULE ComputeClusterResizeProofs ---------------------
(* Proofs about ComputeClusterResize: types, the two recovery files, what a *)
(* resize may take down and when a removal is forgotten, for any number of  *)
(* instances, stops and losses.                                            *)
EXTENDS ComputeClusterResize, FiniteSetTheorems, TLAPS

-----------------------------------------------------------------------------
(* Types.  An addition that was asked for at least one instance is the only    *)
(* thing that launches one; a removal under way has its journal.                *)

Counted ==
    /\ run.step \in {"plan", "decide"} /\ run.mode = "add" => run.count > 0
    /\ run.step = "launch" => run.count > 0

Taking == run.step = "terminating" /\ run.launched = {}

Underway ==
    /\ run.step \in {"inspect", "playbook", "complete", "unname", "terminate"} => journal \in Journal
    /\ Taking => journal \in Journal
    /\ run.step \in {"plan", "decide", "select", "write", "inspect", "playbook", "complete", "unname",
                     "terminate"} => run.launched = {}
    /\ run.step \in {"terminate", "terminating", "await"} => run.target \in Node
    /\ run.step = "answer" => run.asked \in Node
    /\ run.step = "synced" => plan \in SUBSET Node

Typed == TypeOK /\ Counted /\ Underway

LEMMA CountType == Cardinality(Node \ First) \in Nat
<1>1. IsFiniteSet(Node \ First)
  BY Cluster, FS_Difference
<1> QED
  BY <1>1, FS_CardinalityType

LEMMA SomeOf == ASSUME NEW S, S # {} PROVE Some(S) \in S
  BY DEF Some

LEMMA JournalIs ==
    ASSUME NEW s \in SUBSET Node, NEW r \in SUBSET Node, NEW b \in BOOLEAN
    PROVE  [source |-> s, removals |-> r, bare |-> b] \in Journal
  BY Zenon DEF Journal

LEMMA TypedInit == Init => Typed
  BY Cluster DEF Init, Typed, TypeOK, Counted, Underway, Taking, Idle, Places, Steps, Modes

LEMMA TypedNext == Typed /\ [Next]_vars => Typed'
<1> SUFFICES ASSUME Typed, [Next]_vars PROVE Typed'
  OBVIOUS
<1> USE DEF Typed, TypeOK, Counted, Underway, Taking, Places, Steps, Modes, At, Goto, Exit, Idle
<1>1. ASSUME NEW mode \in Modes, NEW k \in 0..Cardinality(Node \ First), Start(mode, k)
      PROVE Typed'
  <2>1. k \in Nat /\ (k = 0 <=> mode = "reconfigure")
    BY <1>1, CountType DEF Start
  <2>2. mode = "add" => k > 0
    BY <2>1
  <2>3. run' = [Idle EXCEPT !.step = "plan", !.mode = mode, !.count = k]
    BY <1>1 DEF Start
  <2>4. Counted' /\ Underway'
    BY <2>1, <2>2, <2>3, <1>1 DEF Start
  <2>5. run' = [step |-> "plan", mode |-> mode, count |-> k, source |-> {}, chosen |-> {},
                launched |-> {}, asked |-> None, active |-> {}, todo |-> {}, target |-> None]
    BY <2>3
  <2>6. mode \in Modes \union {"none"} /\ UNCHANGED <<place, inventory, named, journal, plan, stops, lost>>
    BY <1>1 DEF Start
  <2>7. TypeOK'
    BY <2>1, <2>5, <2>6
  <2> QED
    BY <2>4, <2>7
<1>2. CASE ResumePlan
  BY <1>2 DEF ResumePlan
<1>3. CASE Decide
  <2>1. Members \in SUBSET Node
    BY DEF Members
  <2>2. PICK next \in {"select", "launch", "extend"} :
            /\ run' = [run EXCEPT !.source = Members, !.step = next]
            /\ next = "launch" => run.mode = "add"
    <3> DEFINE after == CASE run.mode = "remove" -> "select"
                          [] run.mode = "add" -> "launch"
                          [] OTHER -> "extend"
    <3>1. run' = [run EXCEPT !.source = Members, !.step = after]
      BY <1>3, Zenon DEF Decide
    <3>2. after \in {"select", "launch", "extend"} /\ (after = "launch" => run.mode = "add")
      OBVIOUS
    <3> QED
      BY <3>1, <3>2, Zenon
  <2>3. run.step = "decide" /\ UNCHANGED <<place, inventory, named, journal, plan, stops, lost>>
    BY <1>3 DEF Decide
  <2> QED
    BY <2>1, <2>2, <2>3
<1>4. CASE Select
  <2>1. PICK c \in Selectable : run' = [run EXCEPT !.step = "write", !.chosen = c]
    BY <1>4 DEF Select
  <2>2. c \in SUBSET Node
    BY DEF Selectable, External, Members
  <2> QED
    BY <1>4, <2>1, <2>2 DEF Select
<1>5. ASSUME NEW bare \in BOOLEAN, WriteJournal(bare) PROVE Typed'
  <2>1. journal' \in Journal
    BY <1>5, JournalIs DEF WriteJournal
  <2> QED
    BY <1>5, <2>1 DEF WriteJournal
<1>6. CASE Inspect
  BY <1>6 DEF Inspect
<1>7. CASE Playbook
  BY <1>7 DEF Playbook
<1>8. CASE Complete
  BY <1>8 DEF Complete, Targets, Journal, Members
<1>9. CASE Terminate
  BY <1>9 DEF Terminate
<1>10. CASE Terminated
  BY <1>10 DEF Terminated
<1>11. CASE ClearJournal
  BY <1>11 DEF ClearJournal
<1>12. CASE Launch
  <2>1. Some(Unused) \in Node
    BY <1>12, SomeOf DEF Launch, Unused
  <2>2. PICK p \in {"starting", "late"} : place' = [place EXCEPT ![Some(Unused)] = p]
    BY <1>12 DEF Launch
  <2>3. /\ run' = [run EXCEPT !.step = "answer", !.asked = Some(Unused), !.count = @ - 1]
        /\ run.step = "launch" /\ UNCHANGED <<inventory, named, journal, plan, stops, lost>>
    BY <1>12 DEF Launch
  <2>4. run.count - 1 \in Nat
    BY <2>3
  <2>5. place' \in [Node -> Places]
    BY <2>1, <2>2
  <2> QED
    BY <2>1, <2>3, <2>4, <2>5
<1>13. CASE Answer
  BY <1>13 DEF Answer
<1>14. CASE Await
  BY <1>14 DEF Await
<1>15. CASE Verify
  BY <1>15 DEF Verify
<1>16. CASE RolledBack
  BY <1>16 DEF RolledBack
<1>17. CASE Extend
  BY <1>17 DEF Extend, Members
<1>18. CASE Synchronize
  BY <1>18 DEF Synchronize, Members
<1>19. CASE Synchronized
  BY <1>19 DEF Synchronized
<1>20. CASE Destroy
  BY <1>20 DEF Destroy
<1>21. CASE Refuse
  BY <1>21 DEF Refuse
<1>22. ASSUME NEW n \in Node, Unname(n) PROVE Typed'
  BY <1>22 DEF Unname
<1>23. ASSUME NEW n \in Node, RollbackOne(n) PROVE Typed'
  <2>1. /\ place' = [place EXCEPT ![n] = "terminating"]
        /\ run' = [run EXCEPT !.step = "terminating", !.target = n, !.launched = @ \union {n},
                                 !.asked = IF @ = n THEN None ELSE @]
        /\ UNCHANGED <<inventory, named, journal, plan, stops, lost>>
    BY <1>23 DEF RollbackOne
  <2>2. PICK a \in Node \union {None} : a = IF run.asked = n THEN None ELSE run.asked
    OBVIOUS
  <2>3. run' = [step |-> "terminating", mode |-> run.mode, count |-> run.count,
                source |-> run.source, chosen |-> run.chosen,
                launched |-> run.launched \union {n}, asked |-> a, active |-> run.active,
                todo |-> run.todo, target |-> n]
    BY <2>1, <2>2
  <2>4. TypeOK'
    BY <2>1, <2>3
  <2>5. Counted' /\ Underway'
    BY <2>3
  <2> QED
    BY <2>4, <2>5
<1>24. ASSUME NEW n \in Node, CleanUpOne(n) PROVE Typed'
  BY <1>24 DEF CleanUpOne
<1>25. CASE Cleanup
  BY <1>25 DEF Cleanup, External, Members
<1>26. CASE LaunchFails
  BY <1>26, Cluster DEF LaunchFails
<1>27. CASE Stop
  BY <1>27, Cluster DEF Stop
<1>28. ASSUME NEW n \in Node, Appear(n) PROVE Typed'
  BY <1>28 DEF Appear
<1>29. ASSUME NEW n \in Node, Lose(n) PROVE Typed'
  BY <1>29, Cluster DEF Lose
<1>30. CASE UNCHANGED vars
  BY <1>30 DEF vars
<1> QED
  BY <1>1, <1>2, <1>3, <1>4, <1>5, <1>6, <1>7, <1>8, <1>9, <1>10, <1>11, <1>12, <1>13, <1>14,
     <1>15, <1>16, <1>17, <1>18, <1>19, <1>20, <1>21, <1>22, <1>23, <1>24, <1>25, <1>26, <1>27,
     <1>28, <1>29, <1>30 DEF Next, Work, OCI

\* Every variable keeps its type.
THEOREM TypeCorrect == Spec => []TypeOK
<1>1. Typed => TypeOK
  BY DEF Typed
<1> QED
  BY <1>1, TypedInit, TypedNext, PTL DEF Spec
----------------------------------------------------------------------------
(* The two recovery files: a removal is decided only when neither is there,    *)
(* and a plan is written only when there is no journal.                         *)

Pending ==
    /\ NeverBothPending
    /\ run.step \in {"decide", "select", "write"} => journal = None /\ plan = None
    /\ run.step = "synced" => journal = None

LEMMA PendingNext == Typed /\ Pending /\ [Next]_vars => Pending'
<1> SUFFICES ASSUME Typed, Pending, [Next]_vars PROVE Pending'
  OBVIOUS
<1>0. run \in [step : Steps, mode : Modes \union {"none"}, count : Nat, source : SUBSET Node,
                chosen : SUBSET Node, launched : SUBSET Node, asked : Node \union {None},
                active : SUBSET Node, todo : SUBSET Node, target : Node \union {None}]
  BY DEF Typed, TypeOK
<1> USE <1>0 DEF Pending, NeverBothPending, At, Goto, Exit, Idle
<1>1. ASSUME NEW mode \in Modes, NEW k \in 0..Cardinality(Node \ First), Start(mode, k)
      PROVE Pending'
  BY <1>1 DEF Start
<1>2. CASE ResumePlan
  BY <1>2 DEF ResumePlan
<1>3. CASE Decide
  BY <1>3 DEF Decide, MayAdd
<1>4. CASE Select
  BY <1>4 DEF Select, MaySelect
<1>5. ASSUME NEW bare \in BOOLEAN, WriteJournal(bare) PROVE Pending'
  BY <1>5 DEF WriteJournal
<1>6. CASE Inspect \/ Playbook \/ Complete \/ Terminate \/ Terminated \/ ClearJournal
  <2>1. CASE Inspect
    BY <2>1 DEF Inspect
  <2>2. CASE Playbook
    BY <2>2 DEF Playbook
  <2>3. CASE Complete
    BY <2>3 DEF Complete
  <2>4. CASE Terminate
    BY <2>4 DEF Terminate
  <2>5. CASE Terminated
    BY <2>5 DEF Terminated
  <2>6. CASE ClearJournal
    BY <2>6 DEF ClearJournal
  <2> QED
    BY <1>6, <2>1, <2>2, <2>3, <2>4, <2>5, <2>6
<1>7. CASE Launch \/ Answer \/ Await \/ Verify \/ RolledBack \/ Extend \/ LaunchFails
  <2>1. CASE Launch
    BY <2>1 DEF Launch
  <2>2. CASE Answer
    BY <2>2 DEF Answer
  <2>3. CASE Await
    BY <2>3 DEF Await
  <2>4. CASE Verify
    BY <2>4 DEF Verify
  <2>5. CASE RolledBack
    BY <2>5 DEF RolledBack
  <2>6. CASE Extend
    BY <2>6 DEF Extend
  <2>7. CASE LaunchFails
    BY <2>7 DEF LaunchFails
  <2> QED
    BY <1>7, <2>1, <2>2, <2>3, <2>4, <2>5, <2>6, <2>7
<1>8. CASE Synchronize
  BY <1>8 DEF Synchronize, MaySync
<1>9. CASE Synchronized
  BY <1>9 DEF Synchronized
<1>10. ASSUME NEW n \in Node, Unname(n) \/ RollbackOne(n) \/ CleanUpOne(n) PROVE Pending'
  <2>1. CASE Unname(n)
    BY <2>1 DEF Unname
  <2>2. CASE RollbackOne(n)
    <3>1. run'.step = "terminating" /\ UNCHANGED <<journal, plan>>
      BY <2>2 DEF RollbackOne
    <3> QED
      BY <3>1
  <2>3. CASE CleanUpOne(n)
    BY <2>3 DEF CleanUpOne
  <2> QED
    BY <1>10, <2>1, <2>2, <2>3
<1>11. CASE Cleanup \/ Destroy \/ Refuse \/ Stop
  <2>1. CASE Cleanup
    BY <2>1 DEF Cleanup
  <2>2. CASE Destroy
    BY <2>2 DEF Destroy
  <2>3. CASE Refuse
    BY <2>3 DEF Refuse
  <2>4. CASE Stop
    BY <2>4 DEF Stop
  <2> QED
    BY <1>11, <2>1, <2>2, <2>3, <2>4
<1>12. ASSUME NEW n \in Node, Appear(n) \/ Lose(n) PROVE Pending'
  BY <1>12 DEF Appear, Lose
<1>13. CASE UNCHANGED vars
  BY <1>13 DEF vars
<1> QED
  BY <1>1, <1>2, <1>3, <1>4, <1>5, <1>6, <1>7, <1>8, <1>9, <1>10, <1>11, <1>12, <1>13
     DEF Next, Work, OCI

\* Whatever is interrupted, pending names and a pending removal never meet, so
\* that one of the two can always be completed.
THEOREM FilesNeverMeet == Spec => []NeverBothPending
<1>1. Init => Pending
  BY DEF Init, Pending, NeverBothPending, Idle
<1>2. Pending => NeverBothPending
  BY DEF Pending
<1> QED
  BY <1>1, <1>2, TypedInit, TypedNext, PendingNext, PTL DEF Spec

-----------------------------------------------------------------------------
(* What may be taken down.  An instance in the journal was a member when it was *)
(* written, and no resize had it from Terraform; members never become unlisted  *)
(* again.  What a run launched was unused before.                               *)

Listed == Places \ {"none", "late"}
MayGo(S) == \A n \in S : n \notin First /\ place[n] \in Listed

Removing == run.step \in {"unname", "terminate"} \/ Taking

Committed ==
    /\ journal # None => MayGo(journal.removals)
    /\ run.step = "write" => MayGo(run.chosen)
    /\ \A n \in First : place[n] # "none"
    /\ run.launched \intersect First = {}
    /\ run.asked # None => run.asked \notin First
    /\ Removing => run.todo \subseteq journal.removals
    /\ run.step = "terminate" \/ Taking => run.target \in journal.removals
    /\ Removing => \A n \in journal.removals \ run.todo : n \notin named

Inv == Typed /\ Pending /\ Committed

LEMMA InvInit == Init => Inv
<1> SUFFICES ASSUME Init PROVE Inv
  OBVIOUS
<1>1. Pending
  BY DEF Init, Pending, NeverBothPending, Idle
<1>2. Committed
  BY Cluster DEF Init, Committed, Removing, Taking, Idle
<1> QED
  BY <1>1, <1>2, TypedInit DEF Inv

\* No step makes an instance unused or unlisted again.
LEMMA PlacesAdvance ==
    Typed /\ [Next]_vars =>
        \A n \in Node : /\ place[n] # "none" => place'[n] # "none"
                        /\ place[n] \in Listed => place'[n] \in Listed
<1> DEFINE Advance == \A n \in Node : /\ place[n] # "none" => place'[n] # "none"
                                      /\ place[n] \in Listed => place'[n] \in Listed
<1> SUFFICES ASSUME Typed, [Next]_vars PROVE Advance
  OBVIOUS
<1> USE DEF Typed, TypeOK, Places, Listed, At
<1>1. CASE Launch
  <2>1. Some(Unused) \in Unused
    BY <1>1, SomeOf DEF Launch
  <2>2. PICK p \in {"starting", "late"} : place' = [place EXCEPT ![Some(Unused)] = p]
    BY <1>1 DEF Launch
  <2> QED
    BY <2>1, <2>2 DEF Unused
<1>2. CASE Terminate
  BY <1>2 DEF Terminate
<1>3. ASSUME NEW n \in Node, RollbackOne(n) \/ CleanUpOne(n) \/ Appear(n) \/ Lose(n)
      PROVE Advance
  BY <1>3 DEF RollbackOne, CleanUpOne, Appear, Lose
<1>4. CASE Destroy
  BY <1>4 DEF Destroy
<1>5. CASE UNCHANGED place
  BY <1>5
<1>6. ASSUME NEW mode \in Modes, NEW k \in 0..Cardinality(Node \ First), Start(mode, k)
      PROVE Advance
  BY <1>6 DEF Start
<1>7. ASSUME NEW bare \in BOOLEAN, WriteJournal(bare) PROVE Advance
  BY <1>7 DEF WriteJournal
<1>8. ASSUME NEW n \in Node, Unname(n) PROVE Advance
  BY <1>8 DEF Unname
<1>9. CASE ResumePlan \/ Decide \/ Select \/ Inspect \/ Playbook \/ Complete \/ Terminated
            \/ ClearJournal \/ Answer \/ Await \/ Verify \/ RolledBack \/ Extend \/ Synchronize
            \/ Synchronized \/ Refuse \/ Cleanup \/ LaunchFails \/ Stop \/ UNCHANGED vars
  <2>1. UNCHANGED place
    BY <1>9 DEF ResumePlan, Decide, Select, Inspect, Playbook, Complete, Terminated, ClearJournal,
          Answer, Await, Verify, RolledBack, Extend, Synchronize, Synchronized, Refuse, Cleanup,
          LaunchFails, Stop, vars
  <2> QED
    BY <2>1
<1> HIDE DEF Typed, TypeOK, Places, Listed, At, Advance
<1> QED
  BY <1>1, <1>2, <1>3, <1>4, <1>5, <1>6, <1>7, <1>8, <1>9 DEF Next, Work, OCI

LEMMA CommittedNext == Inv /\ [Next]_vars => Committed'
<1> SUFFICES ASSUME Inv, [Next]_vars PROVE Committed'
  OBVIOUS
<1>0. /\ run \in [step : Steps, mode : Modes \union {"none"}, count : Nat, source : SUBSET Node,
                   chosen : SUBSET Node, launched : SUBSET Node, asked : Node \union {None},
                   active : SUBSET Node, todo : SUBSET Node, target : Node \union {None}]
      /\ place \in [Node -> Places] /\ First \subseteq Node
  BY Cluster DEF Inv, Typed, TypeOK
<1>p. \A n \in Node : /\ place[n] # "none" => place'[n] # "none"
                      /\ place[n] \in Listed => place'[n] \in Listed
  <2>1. Typed
    BY DEF Inv
  <2> QED
    BY <2>1, PlacesAdvance
<1>j. journal # None => journal.removals \in SUBSET Node
  BY DEF Inv, Typed, TypeOK, Journal
<1>u. /\ run.step \in {"unname", "terminate"} \/ Taking => journal # None
      /\ run.step \in {"plan", "decide", "select", "write", "inspect", "playbook", "complete",
                       "unname", "terminate"} => run.launched = {}
  BY Absent DEF Inv, Typed, Underway
<1>f. \A n \in First : place'[n] # "none"
  BY <1>0, <1>p DEF Inv, Committed
<1>g. UNCHANGED journal => (journal' # None => MayGo(journal.removals)')
  BY <1>p, <1>j DEF Inv, Committed, MayGo
<1> USE <1>0 DEF At, Goto, Exit, Idle
<1>1. ASSUME NEW mode \in Modes, NEW k \in 0..Cardinality(Node \ First), Start(mode, k)
      PROVE Committed'
  BY <1>1, <1>f, <1>g DEF Start, Committed, Removing, Taking
<1>2. CASE ResumePlan \/ Decide \/ Inspect \/ Playbook
  <2>1. CASE ResumePlan
    BY <2>1, <1>f, <1>g, <1>u DEF ResumePlan, Inv, Committed, Removing, Taking
  <2>2. CASE Decide
    BY <2>2, <1>f, <1>g, <1>u DEF Decide, MayAdd, Inv, Committed, Removing, Taking
  <2>3. CASE Inspect
    BY <2>3, <1>f, <1>g, <1>u DEF Inspect, Inv, Committed, Removing, Taking
  <2>4. CASE Playbook
    BY <2>4, <1>f, <1>g, <1>u DEF Playbook, Inv, Committed, Removing, Taking
  <2> QED
    BY <1>2, <2>1, <2>2, <2>3, <2>4
<1>3. CASE Select
  <2>1. PICK c \in Selectable : run' = [run EXCEPT !.step = "write", !.chosen = c]
    BY <1>3 DEF Select
  <2>2. MayGo(c)'
    BY <1>3, <2>1 DEF MayGo, Selectable, External, Members, Select, Listed, Places
  <2> QED
    BY <1>3, <2>1, <2>2, <1>f, <1>g, <1>u DEF Select, MaySelect, Inv, Committed, Removing, Taking
<1>4. ASSUME NEW bare \in BOOLEAN, WriteJournal(bare) PROVE Committed'
  <2>1. journal'.removals = run.chosen
    BY <1>4 DEF WriteJournal
  <2>2. MayGo(run.chosen)'
    BY <1>4, <1>p DEF Inv, Committed, MayGo, WriteJournal
  <2> QED
    BY <1>4, <2>1, <2>2, <1>f, <1>u DEF WriteJournal, Inv, Committed, Removing, Taking, MayGo
<1>5. CASE Complete
  BY <1>5, <1>f, <1>g, <1>u DEF Complete, MayComplete, Inv, Committed, Removing, Taking
<1>6. ASSUME NEW n \in Node, Unname(n) PROVE Committed'
  <2>1. n \in run.todo
    BY <1>6, SomeOf DEF Unname
  <2>2. CASE n \in run.active
    BY <1>6, <2>1, <2>2, <1>f, <1>g, <1>u DEF Unname, Inv, Committed, Removing, Taking
  <2>3. CASE n \notin run.active
    BY <1>6, <2>1, <2>3, <1>f, <1>g, <1>u DEF Unname, Inv, Committed, Removing, Taking
  <2> QED
    BY <2>2, <2>3
<1>7. CASE Terminate \/ Terminated
  <2>1. CASE Terminate
    BY <2>1, <1>f, <1>g, <1>u DEF Terminate, Inv, Committed, Removing, Taking
  <2>2. CASE Terminated
    BY <2>2, <1>f, <1>g, <1>u DEF Terminated, Inv, Committed, Removing, Taking
  <2> QED
    BY <1>7, <2>1, <2>2
<1>8. CASE ClearJournal
  BY <1>8, <1>f DEF ClearJournal, Inv, Committed, Removing, Taking
<1>9. CASE Launch
  <2>1. Some(Unused) \in Unused
    BY <1>9, SomeOf DEF Launch
  <2>2. Some(Unused) \notin First
    BY <2>1 DEF Unused, Inv, Committed
  <2> QED
    BY <1>9, <2>2, <1>f, <1>g DEF Launch, Inv, Committed, Removing, Taking
<1>10. CASE Answer
  <2>1. run.asked \notin First
    BY <1>10, Cluster DEF Answer, Inv, Committed, Typed, Underway
  <2> QED
    BY <1>10, <2>1, <1>f, <1>g DEF Answer, Inv, Committed, Removing, Taking
<1>11. CASE Await \/ Verify \/ RolledBack \/ Extend \/ LaunchFails
  BY <1>11, <1>f, <1>g DEF Await, Verify, AsExpected, RolledBack, Extend, LaunchFails, Inv, Committed, Removing, Taking
<1>12. ASSUME NEW n \in Node, RollbackOne(n) PROVE Committed'
  <2>1. n \in Traceable /\ n \notin First
    BY <1>12, SomeOf DEF RollbackOne, Traceable, Inv, Committed
  <2> QED
    BY <1>12, <2>1, <1>f, <1>g DEF RollbackOne, Inv, Committed, Removing, Taking
<1>13. CASE Synchronize \/ Synchronized
  BY <1>13, <1>f, <1>g DEF Synchronize, MaySync, Synchronized, Inv, Committed, Removing, Taking
<1>14. CASE Cleanup \/ Destroy \/ Refuse \/ Stop
  <2>1. CASE Cleanup
    BY <2>1, <1>f, <1>g DEF Cleanup, Inv, Committed, Removing, Taking
  <2>2. CASE Destroy
    BY <2>2, <1>f, <1>g DEF Destroy, Inv, Committed, Removing, Taking
  <2>3. CASE Refuse
    BY <2>3, <1>f, <1>g DEF Refuse, Inv, Committed, Removing, Taking
  <2>4. CASE Stop
    BY <2>4, <1>f, <1>g DEF Stop, Inv, Committed, Removing, Taking
  <2> QED
    BY <1>14, <2>1, <2>2, <2>3, <2>4
<1>15. ASSUME NEW n \in Node, CleanUpOne(n) PROVE Committed'
  BY <1>15, <1>f, <1>g DEF CleanUpOne, Inv, Committed, Removing, Taking
<1>16. ASSUME NEW n \in Node, Appear(n) \/ Lose(n) PROVE Committed'
  BY <1>16, <1>f, <1>g, <1>p DEF Appear, Lose, Inv, Committed, Removing, Taking, MayGo
<1>17. CASE UNCHANGED vars
  BY <1>17 DEF vars, Inv, Committed, Removing, Taking, MayGo
<1> QED
  BY <1>1, <1>2, <1>3, <1>4, <1>5, <1>6, <1>7, <1>8, <1>9, <1>10, <1>11, <1>12, <1>13, <1>14,
     <1>15, <1>16, <1>17 DEF Next, Work, OCI

LEMMA InvAlways == Spec => []Inv
<1>1. Inv /\ [Next]_vars => Inv'
  BY TypedNext, PendingNext, CommittedNext DEF Inv
<1> QED
  BY <1>1, InvInit, PTL DEF Spec

\* A resize takes down only what the journal names or what it launched itself,
\* and never an instance of Terraform's.
THEOREM OnlyCommittedLeave == Spec => OnlyCommittedRemovals
<1>1. ASSUME Inv, [Next]_vars, NEW n \in Node, Terminate \/ RollbackOne(n),
             place[n] \in {"starting", "running", "failed"}, place'[n] = "terminating"
      PROVE  n \notin First /\ (n \in run'.launched \/ n \in journal.removals)
  <2>0. /\ run \in [step : Steps, mode : Modes \union {"none"}, count : Nat, source : SUBSET Node,
                     chosen : SUBSET Node, launched : SUBSET Node, asked : Node \union {None},
                     active : SUBSET Node, todo : SUBSET Node, target : Node \union {None}]
        /\ place \in [Node -> Places]
    BY <1>1 DEF Inv, Typed, TypeOK
  <2>1. CASE Terminate
    <3>1. n = run.target
      BY <1>1, <2>0, <2>1 DEF Terminate
    <3>2. journal # None /\ run.target \in journal.removals
      BY <1>1, <2>1, Absent DEF Terminate, At, Inv, Typed, Underway, Committed
    <3> QED
      BY <1>1, <3>1, <3>2 DEF Inv, Committed, MayGo
  <2>2. CASE RollbackOne(n)
    <3>1. n \in Traceable
      BY <2>2, SomeOf DEF RollbackOne
    <3>2. n \notin First
      BY <1>1, <3>1 DEF Traceable, Inv, Committed
    <3> QED
      BY <2>0, <2>2, <3>2 DEF RollbackOne
  <2> QED
    BY <1>1, <2>1, <2>2
<1>2. Inv /\ [Next]_vars =>
        [\A n \in Node :
            (Terminate \/ RollbackOne(n)) /\ place[n] \in {"starting", "running", "failed"}
                /\ place'[n] = "terminating"
            => n \notin First /\ (n \in run'.launched \/ n \in journal.removals)]_vars
  BY <1>1
<1> QED
  BY <1>2, InvAlways, PTL DEF Spec, OnlyCommittedRemovals

\* A journal is forgotten only when its nodes and their names are gone.
THEOREM NothingForgotten == Spec => RemovalIsComplete
<1>1. ASSUME Inv, [Next]_vars, journal # None, journal' = None, NEW n \in journal.removals
      PROVE  place[n] = "terminated" /\ n \notin named
  <2>0. journal \in Journal /\ place \in [Node -> Places]
    BY <1>1 DEF Inv, Typed, TypeOK
  <2>1. CASE ClearJournal
    <3>1. run.step = "unname" /\ run.todo = {} /\ Targets = {}
      BY <2>1 DEF ClearJournal, At
    <3>2. n \notin named
      BY <1>1, <3>1 DEF Inv, Committed, Removing
    <3>3. n \in Node /\ place[n] \in Listed
      BY <1>1, <2>0 DEF Journal, Inv, Committed, MayGo
    <3>4. n \notin Members
      BY <1>1, <3>1 DEF Targets
    <3> QED
      BY <3>2, <3>3, <3>4 DEF Members, Listed, Places
  <2>2. ASSUME NEW bare \in BOOLEAN, WriteJournal(bare) PROVE FALSE
    BY <1>1, <2>2 DEF WriteJournal, At, Inv, Pending
  <2>3. UNCHANGED journal => FALSE
    BY <1>1
  <2>4. ASSUME NEW mode \in Modes, NEW k \in 0..Cardinality(Node \ First), Start(mode, k)
        PROVE  FALSE
    BY <2>3, <2>4 DEF Start
  <2>5. ASSUME NEW m \in Node, Unname(m) \/ RollbackOne(m) \/ CleanUpOne(m) \/ Appear(m) \/ Lose(m)
        PROVE  FALSE
    BY <2>3, <2>5 DEF Unname, RollbackOne, CleanUpOne, Appear, Lose
  <2>6. CASE \/ ResumePlan \/ Decide \/ Select \/ Inspect \/ Playbook \/ Complete \/ Terminate
             \/ Terminated \/ Launch \/ Answer \/ Await \/ Verify \/ RolledBack \/ Extend
             \/ Synchronize \/ Synchronized \/ Destroy \/ Refuse \/ Cleanup \/ LaunchFails \/ Stop
             \/ UNCHANGED vars
    <3>1. UNCHANGED journal
      BY <2>6 DEF ResumePlan, Decide, Select, Inspect, Playbook, Complete, Terminate, Terminated,
            Launch, Answer, Await, Verify, RolledBack, Extend, Synchronize, Synchronized, Destroy,
            Refuse, Cleanup, LaunchFails, Stop, vars
    <3> QED
      BY <2>3, <3>1
  <2> QED
    BY <1>1, <2>1, <2>2, <2>4, <2>5, <2>6 DEF Next, Work, OCI
<1>2. Inv /\ [Next]_vars =>
        [journal # None /\ journal' = None =>
            \A n \in journal.removals : place[n] = "terminated" /\ n \notin named]_vars
  BY <1>1
<1> QED
  BY <1>2, InvAlways, PTL DEF Spec, RemovalIsComplete
=============================================================================
