---------------------- MODULE ClusterWorkspaceProofs ----------------------
(* Proofs about ClusterWorkspace, for any number of deletions, creations,   *)
(* domains, tries and killed scripts.                                       *)
EXTENDS ClusterWorkspace, TLAPS

(***************************************************************************)
(* Types.                                                                  *)
(***************************************************************************)

Flags ==
    /\ building \in BOOLEAN /\ destroying \in BOOLEAN /\ working \in BOOLEAN
    /\ earlier \in BOOLEAN /\ taken \in BOOLEAN /\ beside \in BOOLEAN

Typed ==
    /\ dir \in 0..MaxCreations
    /\ inventory \in {"none", "terraform", "edited"}
    /\ instances \in {"none", "some", "all"} /\ names \in {"none", "own", "former"}
    /\ stage \in {"none", "current", "stale"}
    /\ lock \in Process \union {Nobody}
    /\ tfLock \in Deletion \union {Creator, Nobody}
    /\ cpc \in Creating \union {"idle", "done", "killed"}
    /\ created \in 0..MaxCreations /\ domains \in 0..Domains
    /\ exit \in {"none", "ok", "fail"}
    /\ dpc \in [Deletion -> Running \union {"idle", "killed"}]
    /\ force \in [Deletion -> BOOLEAN]
    /\ cwd \in [Deletion -> 0..MaxCreations]
    /\ tries \in [Deletion -> 0..MaxTries]
    /\ cleaned \in [Deletion -> BOOLEAN]
    /\ kills \in 0..MaxMishaps /\ overlaps \in 0..MaxMishaps

\* The counters stay in their bounds: a try is counted after it began with
\* tries left, a domain is taken when one is left.
Counted ==
    /\ cpc = "attempt" => domains # 0
    /\ \A d \in Deletion : tries[d] < MaxTries

LEMMA TypeInit == Init => TypeOK /\ Counted
<1> SUFFICES ASSUME Init PROVE TypeOK /\ Counted
  OBVIOUS
<1>1. Flags
  BY DEF Init, Flags
<1>2. Typed
  BY Bounds, Processes DEF Init, Typed, Creating, Running, Accepted, Process, Deletion
<1>3. Counted
  BY Bounds DEF Init, Counted
<1> QED
  BY <1>1, <1>2, <1>3 DEF TypeOK, Flags, Typed

LEMMA FlagsStep ==
    ASSUME Flags, [Next]_vars
    PROVE  Flags'
<1> USE DEF Flags, marks, cloud, bounded, Ends
<1>1. CASE Create
  BY <1>1 DEF Create, Copy
<1>2. CASE Valid
  BY <1>2 DEF Valid, NextDomain
<1>3. CASE Invalid
  BY <1>3 DEF Invalid, RemoveDir
<1>4. CASE Attempt
  <2>1. building' = (building \/ InWorkspace)
    BY <1>4 DEF Attempt
  <2>2. building' \in BOOLEAN
    BY <2>1
  <2>3. UNCHANGED <<destroying, working, earlier, taken, beside>>
    BY <1>4 DEF Attempt
  <2> QED
    BY <2>2, <2>3
<1>5. CASE ApplyStarts
  BY <1>5 DEF ApplyStarts
<1>6. CASE Provision
  BY <1>6 DEF Provision, Replace, TakeInventory, ReplaceInstances, Launch, WriteInventory
<1>7. CASE Synchronize
  BY <1>7 DEF Synchronize
<1>8. CASE Published
  BY <1>8 DEF Published
<1>9. CASE Applied
  BY <1>9 DEF Applied
<1>10. CASE AttemptFails
  BY <1>10 DEF AttemptFails, NextDomain
<1>11. CASE Report
  BY <1>11 DEF Report
<1>12. CASE ForceCleanup
  BY <1>12 DEF ForceCleanup
<1>13. CASE CleanupEnds
  BY <1>13 DEF CleanupEnds, ExitStatus
<1>14. CASE KillCreation
  BY <1>14 DEF KillCreation
<1>15. CASE ResizeStarts
  BY <1>15 DEF ResizeStarts, MayResize
<1>16. CASE ResizePublishes
  BY <1>16 DEF ResizePublishes
<1>17. CASE ResizeEnds
  BY <1>17 DEF ResizeEnds
<1>18. ASSUME NEW x \in Deletions, NEW f \in BOOLEAN, Delete(x, f) PROVE Flags'
  BY <1>18 DEF Delete, Overlapping
<1>19. ASSUME NEW x \in Deletion, Accept(x) PROVE Flags'
  BY <1>19 DEF Accept, MayDelete
<1>20. ASSUME NEW x \in Deletion, Refuse(x) PROVE Flags'
  BY <1>20 DEF Refuse, MayDelete
<1>21. ASSUME NEW x \in Deletion, NothingToClean(x) PROVE Flags'
  BY <1>21 DEF NothingToClean
<1>22. ASSUME NEW x \in Deletion, CleanupStarts(x) PROVE Flags'
  BY <1>22 DEF CleanupStarts
<1>23. ASSUME NEW x \in Deletion, CleanupSucceeds(x) PROVE Flags'
  BY <1>23 DEF CleanupSucceeds
<1>24. ASSUME NEW x \in Deletion, CleanupFails(x) PROVE Flags'
  BY <1>24 DEF CleanupFails, BlocksDestroy, GiveUp, Unmarked
<1>25. ASSUME NEW x \in Deletion, DestroyStarts(x) PROVE Flags'
  BY <1>25 DEF DestroyStarts
<1>26. ASSUME NEW x \in Deletion, DestroyMoves(x) PROVE Flags'
  BY <1>26 DEF DestroyMoves
<1>27. ASSUME NEW x \in Deletion, Destroyed(x) PROVE Flags'
  BY <1>27 DEF Destroyed, Spared, GiveUp, Unmarked
<1>28. ASSUME NEW x \in Deletion, DestroyFails(x) PROVE Flags'
  <2>1. destroying' \in BOOLEAN
    BY <1>28 DEF DestroyFails, Exhausted, GiveUp, Unmarked
  <2>2. UNCHANGED <<building, working, earlier, taken, beside>>
    BY <1>28 DEF DestroyFails
  <2> QED
    BY <2>1, <2>2
<1>29. ASSUME NEW x \in Deletion, RemoveWorkspace(x) PROVE Flags'
  BY <1>29 DEF RemoveWorkspace, RemoveDir
<1>30. ASSUME NEW x \in Deletion, KillDeletion(x) PROVE Flags'
  BY <1>30 DEF KillDeletion
<1>31. CASE UNCHANGED vars
  BY <1>31 DEF vars
<1>32. QED
  BY <1>1, <1>2, <1>3, <1>4, <1>5, <1>6, <1>7, <1>8, <1>9, <1>10, <1>11,
     <1>12, <1>13, <1>14, <1>15, <1>16, <1>17, <1>18, <1>19, <1>20, <1>21,
     <1>22, <1>23, <1>24, <1>25, <1>26, <1>27, <1>28, <1>29, <1>30, <1>31
  DEF Next, CreatorStep, ResizerStep, DeletionStep

LEMMA TypedStep ==
    ASSUME Typed, Counted, [Next]_vars
    PROVE  Typed'
<1> USE Processes, Bounds DEF Deletion, Process, Creating, Accepted, Running,
        InWorkspace, Here, Without, marks, cloud, locks, creation, deletion, bounded, Ends, Mishap, Typed,
        Counted
<1>1. CASE Create
  BY <1>1 DEF Create, Copy
<1>2. CASE Valid
  BY <1>2 DEF Valid, NextDomain
<1>3. CASE Invalid
  BY <1>3 DEF Invalid, RemoveDir
<1>4. CASE Attempt
  BY <1>4 DEF Attempt
<1>5. CASE ApplyStarts
  BY <1>5 DEF ApplyStarts
<1>6. CASE Provision
  BY <1>6 DEF Provision, Replace, TakeInventory, ReplaceInstances, Launch, WriteInventory
<1>7. CASE Synchronize
  BY <1>7 DEF Synchronize
<1>8. CASE Published
  BY <1>8 DEF Published
<1>9. CASE Applied
  BY <1>9 DEF Applied
<1>10. CASE AttemptFails
  BY <1>10 DEF AttemptFails, NextDomain
<1>11. CASE Report
  BY <1>11 DEF Report
<1>12. CASE ForceCleanup
  BY <1>12 DEF ForceCleanup
<1>13. CASE CleanupEnds
  BY <1>13 DEF CleanupEnds, ExitStatus
<1>14. CASE KillCreation
  BY <1>14 DEF KillCreation
<1>15. CASE ResizeStarts
  BY <1>15 DEF ResizeStarts, MayResize
<1>16. CASE ResizePublishes
  BY <1>16 DEF ResizePublishes
<1>17. CASE ResizeEnds
  BY <1>17 DEF ResizeEnds
<1>18. ASSUME NEW x \in Deletions, NEW f \in BOOLEAN, Delete(x, f) PROVE Typed'
  BY <1>18 DEF Delete, Overlapping
<1>19. ASSUME NEW x \in Deletion, Accept(x) PROVE Typed'
  BY <1>19 DEF Accept, MayDelete
<1>20. ASSUME NEW x \in Deletion, Refuse(x) PROVE Typed'
  BY <1>20 DEF Refuse, MayDelete
<1>21. ASSUME NEW x \in Deletion, NothingToClean(x) PROVE Typed'
  BY <1>21 DEF NothingToClean
<1>22. ASSUME NEW x \in Deletion, CleanupStarts(x) PROVE Typed'
  BY <1>22 DEF CleanupStarts
<1>23. ASSUME NEW x \in Deletion, CleanupSucceeds(x) PROVE Typed'
  BY <1>23 DEF CleanupSucceeds
<1>24. ASSUME NEW x \in Deletion, CleanupFails(x) PROVE Typed'
  <2>1. lock' \in Process \union {Nobody}
    BY <1>24 DEF CleanupFails
  <2>2. UNCHANGED <<dir, inventory, cloud, tfLock, creation, bounded>>
    BY <1>24 DEF CleanupFails
  <2>3. /\ dpc' \in [Deletion -> Running \union {"idle", "killed"}]
        /\ force' \in [Deletion -> BOOLEAN] /\ cwd' \in [Deletion -> 0..MaxCreations]
        /\ tries' \in [Deletion -> 0..MaxTries] /\ cleaned' \in [Deletion -> BOOLEAN]
    <3>1. CASE GiveUp(x)
      BY <3>1 DEF GiveUp
    <3>2. CASE /\ dpc' = [dpc EXCEPT ![x] = "destroy"]
               /\ cleaned' = [cleaned EXCEPT ![x] = FALSE]
               /\ UNCHANGED <<force, cwd, tries>>
      BY <3>2
    <3> QED
      BY <1>24, <3>1, <3>2 DEF CleanupFails
  <2> QED
    BY <2>1, <2>2, <2>3
<1>25. ASSUME NEW x \in Deletion, DestroyStarts(x) PROVE Typed'
  BY <1>25 DEF DestroyStarts
<1>26. ASSUME NEW x \in Deletion, DestroyMoves(x) PROVE Typed'
  BY <1>26 DEF DestroyMoves
<1>27. ASSUME NEW x \in Deletion, Destroyed(x) PROVE Typed'
  <2>1. /\ inventory' \in {"none", "edited"} /\ instances' = "none"
        /\ tfLock' \in Deletion \union {Creator, Nobody}
        /\ UNCHANGED <<dir, names, stage, lock, creation, bounded>>
    BY <1>27 DEF Destroyed, Spared
  <2>2. /\ dpc' \in [Deletion -> Running \union {"idle", "killed"}]
        /\ force' \in [Deletion -> BOOLEAN] /\ cwd' \in [Deletion -> 0..MaxCreations]
        /\ tries' \in [Deletion -> 0..MaxTries] /\ cleaned' \in [Deletion -> BOOLEAN]
    <3>1. CASE GiveUp(x)
      BY <3>1 DEF GiveUp
    <3>2. CASE /\ dpc' = [dpc EXCEPT ![x] = "remove"]
               /\ UNCHANGED <<force, cwd, tries, cleaned>>
      BY <3>2
    <3> QED
      BY <1>27, <3>1, <3>2 DEF Destroyed
  <2> QED
    BY <2>1, <2>2
<1>28. ASSUME NEW x \in Deletion, DestroyFails(x) PROVE Typed'
  <2>1. /\ tfLock' \in Deletion \union {Creator, Nobody}
        /\ UNCHANGED <<dir, inventory, cloud, lock, creation, bounded>>
    BY <1>28 DEF DestroyFails
  <2>2. /\ dpc' \in [Deletion -> Running \union {"idle", "killed"}]
        /\ force' \in [Deletion -> BOOLEAN] /\ cwd' \in [Deletion -> 0..MaxCreations]
        /\ tries' \in [Deletion -> 0..MaxTries] /\ cleaned' \in [Deletion -> BOOLEAN]
    <3>1. CASE GiveUp(x)
      BY <3>1 DEF GiveUp
    <3>2. CASE /\ MayRetry(x) /\ tries' = [tries EXCEPT ![x] = Tried(x)]
               /\ dpc' = [dpc EXCEPT ![x] = "destroy"]
               /\ UNCHANGED <<force, cwd, cleaned>>
      BY <3>2 DEF MayRetry, Tried
    <3> QED
      BY <1>28, <3>1, <3>2 DEF DestroyFails, Exhausted
  <2> QED
    BY <2>1, <2>2
<1>29. ASSUME NEW x \in Deletion, RemoveWorkspace(x) PROVE Typed'
  BY <1>29 DEF RemoveWorkspace, RemoveDir
<1>30. ASSUME NEW x \in Deletion, KillDeletion(x) PROVE Typed'
  BY <1>30 DEF KillDeletion
<1>31. CASE UNCHANGED vars
  BY <1>31 DEF vars
<1>32. QED
  BY <1>1, <1>2, <1>3, <1>4, <1>5, <1>6, <1>7, <1>8, <1>9, <1>10, <1>11,
     <1>12, <1>13, <1>14, <1>15, <1>16, <1>17, <1>18, <1>19, <1>20, <1>21,
     <1>22, <1>23, <1>24, <1>25, <1>26, <1>27, <1>28, <1>29, <1>30, <1>31
  DEF Next, CreatorStep, ResizerStep, DeletionStep

LEMMA CountedStep ==
    ASSUME Typed, Counted, [Next]_vars
    PROVE  Counted'
<1> USE Processes, Bounds DEF Deletion, Process, Creating, Accepted, Running,
        InWorkspace, Here, Without, marks, cloud, locks, creation, deletion, bounded, Ends, Mishap, Typed,
        Counted
<1>1. CASE Create
  BY <1>1 DEF Create, Copy
<1>2. CASE Valid
  BY <1>2 DEF Valid, NextDomain
<1>3. CASE Invalid
  BY <1>3 DEF Invalid, RemoveDir
<1>4. CASE Attempt
  BY <1>4 DEF Attempt
<1>5. CASE ApplyStarts
  BY <1>5 DEF ApplyStarts
<1>6. CASE Provision
  BY <1>6 DEF Provision, Replace, TakeInventory, ReplaceInstances, Launch, WriteInventory
<1>7. CASE Synchronize
  BY <1>7 DEF Synchronize
<1>8. CASE Published
  BY <1>8 DEF Published
<1>9. CASE Applied
  BY <1>9 DEF Applied
<1>10. CASE AttemptFails
  BY <1>10 DEF AttemptFails, NextDomain
<1>11. CASE Report
  BY <1>11 DEF Report
<1>12. CASE ForceCleanup
  BY <1>12 DEF ForceCleanup
<1>13. CASE CleanupEnds
  BY <1>13 DEF CleanupEnds, ExitStatus
<1>14. CASE KillCreation
  BY <1>14 DEF KillCreation
<1>15. CASE ResizeStarts
  BY <1>15 DEF ResizeStarts, MayResize
<1>16. CASE ResizePublishes
  BY <1>16 DEF ResizePublishes
<1>17. CASE ResizeEnds
  BY <1>17 DEF ResizeEnds
<1>18. ASSUME NEW x \in Deletions, NEW f \in BOOLEAN, Delete(x, f) PROVE Counted'
  BY <1>18 DEF Delete, Overlapping
<1>19. ASSUME NEW x \in Deletion, Accept(x) PROVE Counted'
  BY <1>19 DEF Accept, MayDelete
<1>20. ASSUME NEW x \in Deletion, Refuse(x) PROVE Counted'
  BY <1>20 DEF Refuse, MayDelete
<1>21. ASSUME NEW x \in Deletion, NothingToClean(x) PROVE Counted'
  BY <1>21 DEF NothingToClean
<1>22. ASSUME NEW x \in Deletion, CleanupStarts(x) PROVE Counted'
  BY <1>22 DEF CleanupStarts
<1>23. ASSUME NEW x \in Deletion, CleanupSucceeds(x) PROVE Counted'
  BY <1>23 DEF CleanupSucceeds
<1>24. ASSUME NEW x \in Deletion, CleanupFails(x) PROVE Counted'
  BY <1>24 DEF CleanupFails, BlocksDestroy, GiveUp, Unmarked
<1>25. ASSUME NEW x \in Deletion, DestroyStarts(x) PROVE Counted'
  BY <1>25 DEF DestroyStarts
<1>26. ASSUME NEW x \in Deletion, DestroyMoves(x) PROVE Counted'
  BY <1>26 DEF DestroyMoves
<1>27. ASSUME NEW x \in Deletion, Destroyed(x) PROVE Counted'
  BY <1>27 DEF Destroyed, Spared, GiveUp, Unmarked
<1>28. ASSUME NEW x \in Deletion, DestroyFails(x) PROVE Counted'
  BY <1>28 DEF DestroyFails, Exhausted, GiveUp, Unmarked, MayRetry, Tried
<1>29. ASSUME NEW x \in Deletion, RemoveWorkspace(x) PROVE Counted'
  BY <1>29 DEF RemoveWorkspace, RemoveDir
<1>30. ASSUME NEW x \in Deletion, KillDeletion(x) PROVE Counted'
  BY <1>30 DEF KillDeletion
<1>31. CASE UNCHANGED vars
  BY <1>31 DEF vars
<1>32. QED
  BY <1>1, <1>2, <1>3, <1>4, <1>5, <1>6, <1>7, <1>8, <1>9, <1>10, <1>11,
     <1>12, <1>13, <1>14, <1>15, <1>16, <1>17, <1>18, <1>19, <1>20, <1>21,
     <1>22, <1>23, <1>24, <1>25, <1>26, <1>27, <1>28, <1>29, <1>30, <1>31
  DEF Next, CreatorStep, ResizerStep, DeletionStep

LEMMA TypeStep == TypeOK /\ Counted /\ [Next]_vars => (TypeOK /\ Counted)'
<1> SUFFICES ASSUME TypeOK, Counted, [Next]_vars PROVE TypeOK' /\ Counted'
  OBVIOUS
<1>1. Flags /\ Typed
  BY DEF TypeOK, Flags, Typed
<1>2. Flags' /\ Typed' /\ Counted'
  BY <1>1, FlagsStep, TypedStep, CountedStep
<1> QED
  BY <1>2 DEF TypeOK, Flags, Typed

\* Every variable of ClusterWorkspace keeps its type.
THEOREM TypeCorrect == Spec => []TypeOK
<1>1. Init => TypeOK /\ Counted
  BY TypeInit
<1>2. TypeOK /\ Counted /\ [Next]_vars => (TypeOK /\ Counted)'
  BY TypeStep
<1>3. QED
  BY <1>1, <1>2, PTL DEF Spec

Works(d) == dpc[d] \in Accepted /\ Here(d)

(***************************************************************************)
(* What holds whatever overlaps: everything in the directory goes with it, *)
(* and a marker belongs to a script.                                       *)
(***************************************************************************)

Files ==
    /\ dir \in {0, created}
    /\ \A d \in Deletion : cwd[d] <= created
    /\ dir = 0 =>
          /\ ~building /\ ~destroying /\ inventory = "none" /\ names = "none"
          /\ instances = "none" /\ lock = Nobody /\ tfLock = Nobody

\* A killed cleanup is a witness only until the next creation.
Marked ==
    /\ building => cpc \in {"init", "apply", "sync", "named", "killed"}
    /\ dpc[Cleanup] \in Running /\ Here(Cleanup) => cpc \notin Creating \ {"wait"}
    /\ destroying => \E d \in Deletion :
          \/ Works(d)
          \/ dpc[d] = "killed" /\ (d = Cleanup => cpc \notin Creating \ {"wait"})

\* As long as no deletion was accepted beside another, one works, and is marked.
OneAtWork ==
    ~beside =>
        /\ \A d, e \in Deletion : Works(d) /\ Works(e) => d = e
        /\ \A d \in Deletion : Works(d) => destroying

(***************************************************************************)
(* What holds as long as FORCE was kept apart from other deletions and     *)
(* deletions from creations.                                               *)
(***************************************************************************)

CreatorAlone ==
    /\ cpc \in Creating => exit = "fail"
    /\ cpc \in Creating \ {"wait"} => InWorkspace /\ ~destroying
    /\ cpc \in Creating =>
          \A d \in Deletion : dpc[d] \in Running /\ Here(d) => d = Cleanup /\ cpc = "wait"
    /\ cpc = "validate" =>
          /\ inventory = "none" /\ names = "none" /\ instances = "none"
          /\ lock = Nobody /\ tfLock = Nobody

\* Deletions that share a directory are ordinary ones, and one is accepted.
Serial ==
    /\ \A d, e \in Deletion :
          d # e /\ dpc[d] \in Running /\ dpc[e] \in Running /\ Here(d) /\ Here(e)
             => ~force[d] /\ ~force[e]
    /\ \A d, e \in Deletion : Works(d) /\ Works(e) => d = e
    /\ \A d \in Deletion : Works(d) => destroying

LockIsMeant ==
    /\ working => lock = Resizer /\ \A d \in Deletion : ~Works(d)
    /\ \A d \in Deletion : dpc[d] = "naming" /\ Here(d) => lock = d /\ inventory # "none"

\* The inventory is there as long as the names are, and goes after them, unless
\* the apply of a later domain has taken it.
NamesNeedInventory ==
    /\ names # "none" => inventory # "none" \/ taken
    /\ \A d \in Deletion :
          dpc[d] \in {"destroy", "destroying", "remove"} /\ Here(d)
             => names = "none" \/ taken
    /\ cpc \in {"sync", "named"} => inventory # "none" /\ instances = "all"
    /\ cpc = "named" => names = "own"

RemoveIsLast ==
    \A d \in Deletion :
        /\ dpc[d] = "destroying" /\ Here(d) => tfLock = d
        /\ dpc[d] = "remove" => Here(d) /\ instances = "none" /\ tfLock = Nobody

Apart == CreatorAlone /\ Serial /\ LockIsMeant /\ NamesNeedInventory /\ RemoveIsLast

LEMMA FilesStep ==
    ASSUME Typed, Files, [Next]_vars
    PROVE  Files'
<1> USE Processes, Bounds DEF Deletion, Process, Creating, Accepted, Running,
        InWorkspace, Here, Without, marks, cloud, locks, creation, deletion, bounded, Ends, Mishap, Typed,
        Works, Files
<1>1. CASE Create
  BY <1>1 DEF Create, Copy
<1>2. CASE Valid
  BY <1>2 DEF Valid, NextDomain
<1>3. CASE Invalid
  BY <1>3 DEF Invalid, RemoveDir
<1>4. CASE Attempt
  BY <1>4 DEF Attempt
<1>5. CASE ApplyStarts
  BY <1>5 DEF ApplyStarts
<1>6. CASE Provision
  BY <1>6 DEF Provision, Replace, TakeInventory, ReplaceInstances, Launch, WriteInventory
<1>7. CASE Synchronize
  BY <1>7 DEF Synchronize
<1>8. CASE Published
  BY <1>8 DEF Published
<1>9. CASE Applied
  BY <1>9 DEF Applied
<1>10. CASE AttemptFails
  BY <1>10 DEF AttemptFails, NextDomain
<1>11. CASE Report
  BY <1>11 DEF Report
<1>12. CASE ForceCleanup
  BY <1>12 DEF ForceCleanup
<1>13. CASE CleanupEnds
  BY <1>13 DEF CleanupEnds, ExitStatus
<1>14. CASE KillCreation
  BY <1>14 DEF KillCreation
<1>15. CASE ResizeStarts
  BY <1>15 DEF ResizeStarts, MayResize
<1>16. CASE ResizePublishes
  BY <1>16 DEF ResizePublishes
<1>17. CASE ResizeEnds
  BY <1>17 DEF ResizeEnds
<1>18. ASSUME NEW x \in Deletions, NEW f \in BOOLEAN, Delete(x, f) PROVE Files'
  BY <1>18 DEF Delete, Overlapping
<1>19. ASSUME NEW x \in Deletion, Accept(x) PROVE Files'
  BY <1>19 DEF Accept, MayDelete
<1>20. ASSUME NEW x \in Deletion, Refuse(x) PROVE Files'
  BY <1>20 DEF Refuse, MayDelete
<1>21. ASSUME NEW x \in Deletion, NothingToClean(x) PROVE Files'
  BY <1>21 DEF NothingToClean
<1>22. ASSUME NEW x \in Deletion, CleanupStarts(x) PROVE Files'
  BY <1>22 DEF CleanupStarts
<1>23. ASSUME NEW x \in Deletion, CleanupSucceeds(x) PROVE Files'
  BY <1>23 DEF CleanupSucceeds
<1>24. ASSUME NEW x \in Deletion, CleanupFails(x) PROVE Files'
  BY <1>24 DEF CleanupFails, BlocksDestroy, GiveUp, Unmarked
<1>25. ASSUME NEW x \in Deletion, DestroyStarts(x) PROVE Files'
  BY <1>25 DEF DestroyStarts
<1>26. ASSUME NEW x \in Deletion, DestroyMoves(x) PROVE Files'
  BY <1>26 DEF DestroyMoves
<1>27. ASSUME NEW x \in Deletion, Destroyed(x) PROVE Files'
  BY <1>27 DEF Destroyed, Spared, GiveUp, Unmarked
<1>28. ASSUME NEW x \in Deletion, DestroyFails(x) PROVE Files'
  <2>1. CASE GiveUp(x)
    <3>1. /\ UNCHANGED <<dir, building, inventory, cloud, lock, created>>
          /\ tfLock' = Without(x, tfLock)
      BY <1>28 DEF DestroyFails
    <3>2. cwd' = [cwd EXCEPT ![x] = 0] /\ destroying' = (destroying /\ ~Here(x))
      BY <2>1 DEF GiveUp, Unmarked
    <3>3. \A d \in Deletion : cwd'[d] <= created'
      BY <3>1, <3>2
    <3> QED
      BY <3>1, <3>2, <3>3
  <2>2. CASE dpc' = [dpc EXCEPT ![x] = "destroy"] /\ UNCHANGED <<destroying, force, cwd>>
    BY <1>28, <2>2 DEF DestroyFails
  <2> QED
    BY <1>28, <2>1, <2>2 DEF DestroyFails, Exhausted
<1>29. ASSUME NEW x \in Deletion, RemoveWorkspace(x) PROVE Files'
  BY <1>29 DEF RemoveWorkspace, RemoveDir
<1>30. ASSUME NEW x \in Deletion, KillDeletion(x) PROVE Files'
  BY <1>30 DEF KillDeletion
<1>31. CASE UNCHANGED vars
  BY <1>31 DEF vars
<1>32. QED
  BY <1>1, <1>2, <1>3, <1>4, <1>5, <1>6, <1>7, <1>8, <1>9, <1>10, <1>11,
     <1>12, <1>13, <1>14, <1>15, <1>16, <1>17, <1>18, <1>19, <1>20, <1>21,
     <1>22, <1>23, <1>24, <1>25, <1>26, <1>27, <1>28, <1>29, <1>30, <1>31
  DEF Next, CreatorStep, ResizerStep, DeletionStep

LEMMA MarkedStep ==
    ASSUME Typed, Files, Marked, [Next]_vars
    PROVE  Marked'
<1> USE Processes, Bounds DEF Deletion, Process, Creating, Accepted, Running,
        InWorkspace, Here, Without, marks, cloud, locks, creation, deletion, bounded, Ends, Mishap, Typed,
        Works, Files, Marked
<1>1. CASE Create
  BY <1>1 DEF Create, Copy
<1>2. CASE Valid
  BY <1>2 DEF Valid, NextDomain
<1>3. CASE Invalid
  BY <1>3 DEF Invalid, RemoveDir
<1>4. CASE Attempt
  BY <1>4 DEF Attempt
<1>5. CASE ApplyStarts
  BY <1>5 DEF ApplyStarts
<1>6. CASE Provision
  BY <1>6 DEF Provision, Replace, TakeInventory, ReplaceInstances, Launch, WriteInventory
<1>7. CASE Synchronize
  BY <1>7 DEF Synchronize
<1>8. CASE Published
  BY <1>8 DEF Published
<1>9. CASE Applied
  BY <1>9 DEF Applied
<1>10. CASE AttemptFails
  BY <1>10 DEF AttemptFails, NextDomain
<1>11. CASE Report
  BY <1>11 DEF Report
<1>12. CASE ForceCleanup
  BY <1>12 DEF ForceCleanup
<1>13. CASE CleanupEnds
  BY <1>13 DEF CleanupEnds, ExitStatus
<1>14. CASE KillCreation
  BY <1>14 DEF KillCreation
<1>15. CASE ResizeStarts
  BY <1>15 DEF ResizeStarts, MayResize
<1>16. CASE ResizePublishes
  BY <1>16 DEF ResizePublishes
<1>17. CASE ResizeEnds
  BY <1>17 DEF ResizeEnds
<1>18. ASSUME NEW x \in Deletions, NEW f \in BOOLEAN, Delete(x, f) PROVE Marked'
  BY <1>18 DEF Delete, Overlapping
<1>19. ASSUME NEW x \in Deletion, Accept(x) PROVE Marked'
  BY <1>19 DEF Accept, MayDelete
<1>20. ASSUME NEW x \in Deletion, Refuse(x) PROVE Marked'
  BY <1>20 DEF Refuse, MayDelete
<1>21. ASSUME NEW x \in Deletion, NothingToClean(x) PROVE Marked'
  BY <1>21 DEF NothingToClean
<1>22. ASSUME NEW x \in Deletion, CleanupStarts(x) PROVE Marked'
  BY <1>22 DEF CleanupStarts
<1>23. ASSUME NEW x \in Deletion, CleanupSucceeds(x) PROVE Marked'
  BY <1>23 DEF CleanupSucceeds
<1>24. ASSUME NEW x \in Deletion, CleanupFails(x) PROVE Marked'
  <2>1. CASE GiveUp(x)
    BY <1>24, <2>1 DEF CleanupFails, BlocksDestroy, GiveUp, Unmarked
  <2>2. CASE dpc' = [dpc EXCEPT ![x] = "destroy"] /\ UNCHANGED <<destroying, force, cwd>>
    BY <1>24, <2>2 DEF CleanupFails
  <2> QED
    BY <1>24, <2>1, <2>2 DEF CleanupFails
<1>25. ASSUME NEW x \in Deletion, DestroyStarts(x) PROVE Marked'
  BY <1>25 DEF DestroyStarts
<1>26. ASSUME NEW x \in Deletion, DestroyMoves(x) PROVE Marked'
  BY <1>26 DEF DestroyMoves
<1>27. ASSUME NEW x \in Deletion, Destroyed(x) PROVE Marked'
  BY <1>27 DEF Destroyed, Spared, GiveUp, Unmarked
<1>28. ASSUME NEW x \in Deletion, DestroyFails(x) PROVE Marked'
  <2>1. CASE GiveUp(x)
    BY <1>28, <2>1 DEF DestroyFails, GiveUp, Unmarked
  <2>2. CASE dpc' = [dpc EXCEPT ![x] = "destroy"] /\ UNCHANGED <<destroying, force, cwd>>
    BY <1>28, <2>2 DEF DestroyFails
  <2> QED
    BY <1>28, <2>1, <2>2 DEF DestroyFails, Exhausted
<1>29. ASSUME NEW x \in Deletion, RemoveWorkspace(x) PROVE Marked'
  BY <1>29 DEF RemoveWorkspace, RemoveDir
<1>30. ASSUME NEW x \in Deletion, KillDeletion(x) PROVE Marked'
  BY <1>30 DEF KillDeletion
<1>31. CASE UNCHANGED vars
  BY <1>31 DEF vars
<1>32. QED
  BY <1>1, <1>2, <1>3, <1>4, <1>5, <1>6, <1>7, <1>8, <1>9, <1>10, <1>11,
     <1>12, <1>13, <1>14, <1>15, <1>16, <1>17, <1>18, <1>19, <1>20, <1>21,
     <1>22, <1>23, <1>24, <1>25, <1>26, <1>27, <1>28, <1>29, <1>30, <1>31
  DEF Next, CreatorStep, ResizerStep, DeletionStep

LEMMA CreatorAloneStep ==
    ASSUME Typed, Files, Apart, [Next]_vars, overlaps' = 0
    PROVE  CreatorAlone'
<1> USE Processes, Bounds DEF Deletion, Process, Creating, Accepted, Running,
        InWorkspace, Here, Without, marks, cloud, locks, creation, deletion, bounded, Ends, Mishap, Typed,
        Works, Files, Apart, CreatorAlone, LockIsMeant, RemoveIsLast
<1>1. CASE Create
  BY <1>1 DEF Create, Copy
<1>2. CASE Valid
  BY <1>2 DEF Valid, NextDomain
<1>3. CASE Invalid
  BY <1>3 DEF Invalid, RemoveDir
<1>4. CASE Attempt
  BY <1>4 DEF Attempt
<1>5. CASE ApplyStarts
  BY <1>5 DEF ApplyStarts
<1>6. CASE Provision
  BY <1>6 DEF Provision, Replace, TakeInventory, ReplaceInstances, Launch, WriteInventory
<1>7. CASE Synchronize
  BY <1>7 DEF Synchronize
<1>8. CASE Published
  BY <1>8 DEF Published
<1>9. CASE Applied
  BY <1>9 DEF Applied
<1>10. CASE AttemptFails
  BY <1>10 DEF AttemptFails, NextDomain
<1>11. CASE Report
  BY <1>11 DEF Report
<1>12. CASE ForceCleanup
  BY <1>12 DEF ForceCleanup
<1>13. CASE CleanupEnds
  BY <1>13 DEF CleanupEnds, ExitStatus
<1>14. CASE KillCreation
  BY <1>14 DEF KillCreation
<1>15. CASE ResizeStarts
  BY <1>15 DEF ResizeStarts, MayResize
<1>16. CASE ResizePublishes
  BY <1>16 DEF ResizePublishes
<1>17. CASE ResizeEnds
  BY <1>17 DEF ResizeEnds
<1>18. ASSUME NEW x \in Deletions, NEW f \in BOOLEAN, Delete(x, f) PROVE CreatorAlone'
  BY <1>18 DEF Delete, Overlapping
<1>19. ASSUME NEW x \in Deletion, Accept(x) PROVE CreatorAlone'
  BY <1>19 DEF Accept, MayDelete
<1>20. ASSUME NEW x \in Deletion, Refuse(x) PROVE CreatorAlone'
  BY <1>20 DEF Refuse, MayDelete
<1>21. ASSUME NEW x \in Deletion, NothingToClean(x) PROVE CreatorAlone'
  BY <1>21 DEF NothingToClean
<1>22. ASSUME NEW x \in Deletion, CleanupStarts(x) PROVE CreatorAlone'
  BY <1>22 DEF CleanupStarts
<1>23. ASSUME NEW x \in Deletion, CleanupSucceeds(x) PROVE CreatorAlone'
  BY <1>23 DEF CleanupSucceeds
<1>24. ASSUME NEW x \in Deletion, CleanupFails(x) PROVE CreatorAlone'
  BY <1>24 DEF CleanupFails, BlocksDestroy, GiveUp, Unmarked
<1>25. ASSUME NEW x \in Deletion, DestroyStarts(x) PROVE CreatorAlone'
  BY <1>25 DEF DestroyStarts
<1>26. ASSUME NEW x \in Deletion, DestroyMoves(x) PROVE CreatorAlone'
  BY <1>26 DEF DestroyMoves
<1>27. ASSUME NEW x \in Deletion, Destroyed(x) PROVE CreatorAlone'
  BY <1>27 DEF Destroyed, Spared, GiveUp, Unmarked
<1>28. ASSUME NEW x \in Deletion, DestroyFails(x) PROVE CreatorAlone'
  <2>1. CASE GiveUp(x)
    BY <1>28, <2>1 DEF DestroyFails, GiveUp, Unmarked
  <2>2. CASE dpc' = [dpc EXCEPT ![x] = "destroy"] /\ UNCHANGED <<destroying, force, cwd>>
    BY <1>28, <2>2 DEF DestroyFails
  <2> QED
    BY <1>28, <2>1, <2>2 DEF DestroyFails, Exhausted
<1>29. ASSUME NEW x \in Deletion, RemoveWorkspace(x) PROVE CreatorAlone'
  BY <1>29 DEF RemoveWorkspace, RemoveDir
<1>30. ASSUME NEW x \in Deletion, KillDeletion(x) PROVE CreatorAlone'
  BY <1>30 DEF KillDeletion
<1>31. CASE UNCHANGED vars
  BY <1>31 DEF vars
<1>32. QED
  BY <1>1, <1>2, <1>3, <1>4, <1>5, <1>6, <1>7, <1>8, <1>9, <1>10, <1>11,
     <1>12, <1>13, <1>14, <1>15, <1>16, <1>17, <1>18, <1>19, <1>20, <1>21,
     <1>22, <1>23, <1>24, <1>25, <1>26, <1>27, <1>28, <1>29, <1>30, <1>31
  DEF Next, CreatorStep, ResizerStep, DeletionStep

LEMMA SerialStep ==
    ASSUME Typed, Files, Apart, [Next]_vars, overlaps' = 0
    PROVE  Serial'
<1> USE Processes, Bounds DEF Deletion, Process, Creating, Accepted, Running,
        InWorkspace, Here, Without, marks, cloud, locks, creation, deletion, bounded, Ends, Mishap, Typed,
        Works, Files, Apart, CreatorAlone, Serial, RemoveIsLast
<1>1. CASE Create
  BY <1>1 DEF Create, Copy
<1>2. CASE Valid
  BY <1>2 DEF Valid, NextDomain
<1>3. CASE Invalid
  BY <1>3 DEF Invalid, RemoveDir
<1>4. CASE Attempt
  BY <1>4 DEF Attempt
<1>5. CASE ApplyStarts
  BY <1>5 DEF ApplyStarts
<1>6. CASE Provision
  BY <1>6 DEF Provision, Replace, TakeInventory, ReplaceInstances, Launch, WriteInventory
<1>7. CASE Synchronize
  BY <1>7 DEF Synchronize
<1>8. CASE Published
  BY <1>8 DEF Published
<1>9. CASE Applied
  BY <1>9 DEF Applied
<1>10. CASE AttemptFails
  BY <1>10 DEF AttemptFails, NextDomain
<1>11. CASE Report
  BY <1>11 DEF Report
<1>12. CASE ForceCleanup
  BY <1>12 DEF ForceCleanup
<1>13. CASE CleanupEnds
  BY <1>13 DEF CleanupEnds, ExitStatus
<1>14. CASE KillCreation
  BY <1>14 DEF KillCreation
<1>15. CASE ResizeStarts
  BY <1>15 DEF ResizeStarts, MayResize
<1>16. CASE ResizePublishes
  BY <1>16 DEF ResizePublishes
<1>17. CASE ResizeEnds
  BY <1>17 DEF ResizeEnds
<1>18. ASSUME NEW x \in Deletions, NEW f \in BOOLEAN, Delete(x, f) PROVE Serial'
  BY <1>18 DEF Delete, Overlapping
<1>19. ASSUME NEW x \in Deletion, Accept(x) PROVE Serial'
  BY <1>19 DEF Accept, MayDelete
<1>20. ASSUME NEW x \in Deletion, Refuse(x) PROVE Serial'
  BY <1>20 DEF Refuse, MayDelete
<1>21. ASSUME NEW x \in Deletion, NothingToClean(x) PROVE Serial'
  BY <1>21 DEF NothingToClean
<1>22. ASSUME NEW x \in Deletion, CleanupStarts(x) PROVE Serial'
  BY <1>22 DEF CleanupStarts
<1>23. ASSUME NEW x \in Deletion, CleanupSucceeds(x) PROVE Serial'
  BY <1>23 DEF CleanupSucceeds
<1>24. ASSUME NEW x \in Deletion, CleanupFails(x) PROVE Serial'
  BY <1>24 DEF CleanupFails, BlocksDestroy, GiveUp, Unmarked
<1>25. ASSUME NEW x \in Deletion, DestroyStarts(x) PROVE Serial'
  BY <1>25 DEF DestroyStarts
<1>26. ASSUME NEW x \in Deletion, DestroyMoves(x) PROVE Serial'
  BY <1>26 DEF DestroyMoves
<1>27. ASSUME NEW x \in Deletion, Destroyed(x) PROVE Serial'
  BY <1>27 DEF Destroyed, Spared, GiveUp, Unmarked
<1>28. ASSUME NEW x \in Deletion, DestroyFails(x) PROVE Serial'
  <2>1. CASE GiveUp(x)
    <3>1. /\ dpc' = [dpc EXCEPT ![x] = "idle"] /\ cwd' = [cwd EXCEPT ![x] = 0]
          /\ force' = [force EXCEPT ![x] = FALSE] /\ UNCHANGED dir
      BY <1>28, <2>1 DEF DestroyFails, GiveUp
    <3>2. \A d \in Deletion : Works(d)' => Works(d) /\ d # x
      BY <3>1
    <3>3. \A d \in Deletion : Works(d)' => destroying'
      BY <1>28, <2>1, <3>2 DEF GiveUp, Unmarked, DestroyFails
    <3> QED
      BY <3>1, <3>2, <3>3
  <2>2. CASE dpc' = [dpc EXCEPT ![x] = "destroy"] /\ UNCHANGED <<destroying, force, cwd>>
    BY <1>28, <2>2 DEF DestroyFails
  <2> QED
    BY <1>28, <2>1, <2>2 DEF DestroyFails, Exhausted
<1>29. ASSUME NEW x \in Deletion, RemoveWorkspace(x) PROVE Serial'
  BY <1>29 DEF RemoveWorkspace, RemoveDir
<1>30. ASSUME NEW x \in Deletion, KillDeletion(x) PROVE Serial'
  BY <1>30 DEF KillDeletion
<1>31. CASE UNCHANGED vars
  BY <1>31 DEF vars
<1>32. QED
  BY <1>1, <1>2, <1>3, <1>4, <1>5, <1>6, <1>7, <1>8, <1>9, <1>10, <1>11,
     <1>12, <1>13, <1>14, <1>15, <1>16, <1>17, <1>18, <1>19, <1>20, <1>21,
     <1>22, <1>23, <1>24, <1>25, <1>26, <1>27, <1>28, <1>29, <1>30, <1>31
  DEF Next, CreatorStep, ResizerStep, DeletionStep

LEMMA LockIsMeantStep ==
    ASSUME Typed, Files, Apart, [Next]_vars, overlaps' = 0
    PROVE  LockIsMeant'
<1> USE Processes, Bounds DEF Deletion, Process, Creating, Accepted, Running,
        InWorkspace, Here, Without, marks, cloud, locks, creation, deletion, bounded, Ends, Mishap, Typed,
        Works, Files, Apart, CreatorAlone, Serial, LockIsMeant, RemoveIsLast
<1>1. CASE Create
  BY <1>1 DEF Create, Copy
<1>2. CASE Valid
  BY <1>2 DEF Valid, NextDomain
<1>3. CASE Invalid
  BY <1>3 DEF Invalid, RemoveDir
<1>4. CASE Attempt
  BY <1>4 DEF Attempt
<1>5. CASE ApplyStarts
  BY <1>5 DEF ApplyStarts
<1>6. CASE Provision
  BY <1>6 DEF Provision, Replace, TakeInventory, ReplaceInstances, Launch, WriteInventory
<1>7. CASE Synchronize
  BY <1>7 DEF Synchronize
<1>8. CASE Published
  BY <1>8 DEF Published
<1>9. CASE Applied
  BY <1>9 DEF Applied
<1>10. CASE AttemptFails
  BY <1>10 DEF AttemptFails, NextDomain
<1>11. CASE Report
  BY <1>11 DEF Report
<1>12. CASE ForceCleanup
  BY <1>12 DEF ForceCleanup
<1>13. CASE CleanupEnds
  BY <1>13 DEF CleanupEnds, ExitStatus
<1>14. CASE KillCreation
  BY <1>14 DEF KillCreation
<1>15. CASE ResizeStarts
  BY <1>15 DEF ResizeStarts, MayResize
<1>16. CASE ResizePublishes
  BY <1>16 DEF ResizePublishes
<1>17. CASE ResizeEnds
  BY <1>17 DEF ResizeEnds
<1>18. ASSUME NEW x \in Deletions, NEW f \in BOOLEAN, Delete(x, f) PROVE LockIsMeant'
  BY <1>18 DEF Delete, Overlapping
<1>19. ASSUME NEW x \in Deletion, Accept(x) PROVE LockIsMeant'
  BY <1>19 DEF Accept, MayDelete
<1>20. ASSUME NEW x \in Deletion, Refuse(x) PROVE LockIsMeant'
  BY <1>20 DEF Refuse, MayDelete
<1>21. ASSUME NEW x \in Deletion, NothingToClean(x) PROVE LockIsMeant'
  BY <1>21 DEF NothingToClean
<1>22. ASSUME NEW x \in Deletion, CleanupStarts(x) PROVE LockIsMeant'
  BY <1>22 DEF CleanupStarts
<1>23. ASSUME NEW x \in Deletion, CleanupSucceeds(x) PROVE LockIsMeant'
  BY <1>23 DEF CleanupSucceeds
<1>24. ASSUME NEW x \in Deletion, CleanupFails(x) PROVE LockIsMeant'
  BY <1>24 DEF CleanupFails, BlocksDestroy, GiveUp, Unmarked
<1>25. ASSUME NEW x \in Deletion, DestroyStarts(x) PROVE LockIsMeant'
  BY <1>25 DEF DestroyStarts
<1>26. ASSUME NEW x \in Deletion, DestroyMoves(x) PROVE LockIsMeant'
  BY <1>26 DEF DestroyMoves
<1>27. ASSUME NEW x \in Deletion, Destroyed(x) PROVE LockIsMeant'
  BY <1>27 DEF Destroyed, Spared, GiveUp, Unmarked
<1>28. ASSUME NEW x \in Deletion, DestroyFails(x) PROVE LockIsMeant'
  BY <1>28 DEF DestroyFails, Exhausted, GiveUp, Unmarked, MayRetry, Tried
<1>29. ASSUME NEW x \in Deletion, RemoveWorkspace(x) PROVE LockIsMeant'
  <2>1. Works(x)
    BY <1>29 DEF RemoveWorkspace
  <2>2. ~working'
    BY <1>29, <2>1 DEF RemoveWorkspace
  <2>3. dir' = 0
    BY <1>29 DEF RemoveWorkspace, RemoveDir
  <2> QED
    BY <2>2, <2>3
<1>30. ASSUME NEW x \in Deletion, KillDeletion(x) PROVE LockIsMeant'
  BY <1>30 DEF KillDeletion
<1>31. CASE UNCHANGED vars
  BY <1>31 DEF vars
<1>32. QED
  BY <1>1, <1>2, <1>3, <1>4, <1>5, <1>6, <1>7, <1>8, <1>9, <1>10, <1>11,
     <1>12, <1>13, <1>14, <1>15, <1>16, <1>17, <1>18, <1>19, <1>20, <1>21,
     <1>22, <1>23, <1>24, <1>25, <1>26, <1>27, <1>28, <1>29, <1>30, <1>31
  DEF Next, CreatorStep, ResizerStep, DeletionStep

LEMMA NamesNeedInventoryStep ==
    ASSUME Typed, Files, Apart, [Next]_vars, overlaps' = 0
    PROVE  NamesNeedInventory'
<1> USE Processes, Bounds DEF Deletion, Process, Creating, Accepted, Running,
        InWorkspace, Here, Without, marks, cloud, locks, creation, deletion, bounded, Ends, Mishap, Typed,
        Works, Files, Apart, CreatorAlone, Serial, LockIsMeant, NamesNeedInventory,
        RemoveIsLast
<1>1. CASE Create
  BY <1>1 DEF Create, Copy
<1>2. CASE Valid
  BY <1>2 DEF Valid, NextDomain
<1>3. CASE Invalid
  BY <1>3 DEF Invalid, RemoveDir
<1>4. CASE Attempt
  BY <1>4 DEF Attempt
<1>5. CASE ApplyStarts
  BY <1>5 DEF ApplyStarts
<1>6. CASE Provision
  <2>1. cpc = "apply" /\ InWorkspace /\ UNCHANGED <<dir, cpc, dpc, cwd>>
    BY <1>6 DEF Provision
  <2>2. \A d \in Deletion : ~(dpc[d] \in {"destroy", "destroying", "remove"} /\ Here(d))
    BY <2>1
  <2>3. names' # "none" => inventory' # "none" \/ taken'
    <3>1. CASE TakeInventory
      BY <3>1 DEF TakeInventory
    <3>2. CASE ReplaceInstances
      BY <3>2 DEF ReplaceInstances
    <3>3. CASE Launch
      BY <3>3 DEF Launch
    <3>4. CASE WriteInventory
      BY <3>4 DEF WriteInventory
    <3> QED
      BY <1>6, <3>1, <3>2, <3>3, <3>4 DEF Provision, Replace
  <2> QED
    BY <2>1, <2>2, <2>3
<1>7. CASE Synchronize
  BY <1>7 DEF Synchronize
<1>8. CASE Published
  BY <1>8 DEF Published
<1>9. CASE Applied
  BY <1>9 DEF Applied
<1>10. CASE AttemptFails
  BY <1>10 DEF AttemptFails, NextDomain
<1>11. CASE Report
  BY <1>11 DEF Report
<1>12. CASE ForceCleanup
  BY <1>12 DEF ForceCleanup
<1>13. CASE CleanupEnds
  BY <1>13 DEF CleanupEnds, ExitStatus
<1>14. CASE KillCreation
  BY <1>14 DEF KillCreation
<1>15. CASE ResizeStarts
  BY <1>15 DEF ResizeStarts, MayResize
<1>16. CASE ResizePublishes
  BY <1>16 DEF ResizePublishes
<1>17. CASE ResizeEnds
  BY <1>17 DEF ResizeEnds
<1>18. ASSUME NEW x \in Deletions, NEW f \in BOOLEAN, Delete(x, f) PROVE NamesNeedInventory'
  BY <1>18 DEF Delete, Overlapping
<1>19. ASSUME NEW x \in Deletion, Accept(x) PROVE NamesNeedInventory'
  BY <1>19 DEF Accept, MayDelete
<1>20. ASSUME NEW x \in Deletion, Refuse(x) PROVE NamesNeedInventory'
  BY <1>20 DEF Refuse, MayDelete
<1>21. ASSUME NEW x \in Deletion, NothingToClean(x) PROVE NamesNeedInventory'
  BY <1>21 DEF NothingToClean
<1>22. ASSUME NEW x \in Deletion, CleanupStarts(x) PROVE NamesNeedInventory'
  BY <1>22 DEF CleanupStarts
<1>23. ASSUME NEW x \in Deletion, CleanupSucceeds(x) PROVE NamesNeedInventory'
  BY <1>23 DEF CleanupSucceeds
<1>24. ASSUME NEW x \in Deletion, CleanupFails(x) PROVE NamesNeedInventory'
  BY <1>24 DEF CleanupFails, BlocksDestroy, GiveUp, Unmarked
<1>25. ASSUME NEW x \in Deletion, DestroyStarts(x) PROVE NamesNeedInventory'
  BY <1>25 DEF DestroyStarts
<1>26. ASSUME NEW x \in Deletion, DestroyMoves(x) PROVE NamesNeedInventory'
  BY <1>26 DEF DestroyMoves
<1>27. ASSUME NEW x \in Deletion, Destroyed(x) PROVE NamesNeedInventory'
  BY <1>27 DEF Destroyed, Spared, GiveUp, Unmarked
<1>28. ASSUME NEW x \in Deletion, DestroyFails(x) PROVE NamesNeedInventory'
  <2>1. CASE GiveUp(x)
    BY <1>28, <2>1 DEF DestroyFails, GiveUp, Unmarked
  <2>2. CASE dpc' = [dpc EXCEPT ![x] = "destroy"] /\ UNCHANGED <<destroying, force, cwd>>
    BY <1>28, <2>2 DEF DestroyFails
  <2> QED
    BY <1>28, <2>1, <2>2 DEF DestroyFails, Exhausted
<1>29. ASSUME NEW x \in Deletion, RemoveWorkspace(x) PROVE NamesNeedInventory'
  BY <1>29 DEF RemoveWorkspace, RemoveDir
<1>30. ASSUME NEW x \in Deletion, KillDeletion(x) PROVE NamesNeedInventory'
  BY <1>30 DEF KillDeletion
<1>31. CASE UNCHANGED vars
  BY <1>31 DEF vars
<1>32. QED
  BY <1>1, <1>2, <1>3, <1>4, <1>5, <1>6, <1>7, <1>8, <1>9, <1>10, <1>11,
     <1>12, <1>13, <1>14, <1>15, <1>16, <1>17, <1>18, <1>19, <1>20, <1>21,
     <1>22, <1>23, <1>24, <1>25, <1>26, <1>27, <1>28, <1>29, <1>30, <1>31
  DEF Next, CreatorStep, ResizerStep, DeletionStep

LEMMA RemoveIsLastStep ==
    ASSUME Typed, Files, Apart, [Next]_vars, overlaps' = 0
    PROVE  RemoveIsLast'
<1> USE Processes, Bounds DEF Deletion, Process, Creating, Accepted, Running,
        InWorkspace, Here, Without, marks, cloud, locks, creation, deletion, bounded, Ends, Mishap, Typed,
        Works, Files, Apart, CreatorAlone, Serial, NamesNeedInventory, RemoveIsLast
<1>1. CASE Create
  BY <1>1 DEF Create, Copy
<1>2. CASE Valid
  BY <1>2 DEF Valid, NextDomain
<1>3. CASE Invalid
  BY <1>3 DEF Invalid, RemoveDir
<1>4. CASE Attempt
  BY <1>4 DEF Attempt
<1>5. CASE ApplyStarts
  BY <1>5 DEF ApplyStarts
<1>6. CASE Provision
  BY <1>6 DEF Provision, Replace, TakeInventory, ReplaceInstances, Launch, WriteInventory
<1>7. CASE Synchronize
  BY <1>7 DEF Synchronize
<1>8. CASE Published
  BY <1>8 DEF Published
<1>9. CASE Applied
  BY <1>9 DEF Applied
<1>10. CASE AttemptFails
  BY <1>10 DEF AttemptFails, NextDomain
<1>11. CASE Report
  BY <1>11 DEF Report
<1>12. CASE ForceCleanup
  BY <1>12 DEF ForceCleanup
<1>13. CASE CleanupEnds
  BY <1>13 DEF CleanupEnds, ExitStatus
<1>14. CASE KillCreation
  BY <1>14 DEF KillCreation
<1>15. CASE ResizeStarts
  BY <1>15 DEF ResizeStarts, MayResize
<1>16. CASE ResizePublishes
  BY <1>16 DEF ResizePublishes
<1>17. CASE ResizeEnds
  BY <1>17 DEF ResizeEnds
<1>18. ASSUME NEW x \in Deletions, NEW f \in BOOLEAN, Delete(x, f) PROVE RemoveIsLast'
  BY <1>18 DEF Delete, Overlapping
<1>19. ASSUME NEW x \in Deletion, Accept(x) PROVE RemoveIsLast'
  BY <1>19 DEF Accept, MayDelete
<1>20. ASSUME NEW x \in Deletion, Refuse(x) PROVE RemoveIsLast'
  BY <1>20 DEF Refuse, MayDelete
<1>21. ASSUME NEW x \in Deletion, NothingToClean(x) PROVE RemoveIsLast'
  BY <1>21 DEF NothingToClean
<1>22. ASSUME NEW x \in Deletion, CleanupStarts(x) PROVE RemoveIsLast'
  BY <1>22 DEF CleanupStarts
<1>23. ASSUME NEW x \in Deletion, CleanupSucceeds(x) PROVE RemoveIsLast'
  BY <1>23 DEF CleanupSucceeds
<1>24. ASSUME NEW x \in Deletion, CleanupFails(x) PROVE RemoveIsLast'
  BY <1>24 DEF CleanupFails, BlocksDestroy, GiveUp, Unmarked
<1>25. ASSUME NEW x \in Deletion, DestroyStarts(x) PROVE RemoveIsLast'
  BY <1>25 DEF DestroyStarts
<1>26. ASSUME NEW x \in Deletion, DestroyMoves(x) PROVE RemoveIsLast'
  BY <1>26 DEF DestroyMoves
<1>27. ASSUME NEW x \in Deletion, Destroyed(x) PROVE RemoveIsLast'
  BY <1>27 DEF Destroyed, Spared, GiveUp, Unmarked
<1>28. ASSUME NEW x \in Deletion, DestroyFails(x) PROVE RemoveIsLast'
  BY <1>28 DEF DestroyFails, Exhausted, GiveUp, Unmarked, MayRetry, Tried
<1>29. ASSUME NEW x \in Deletion, RemoveWorkspace(x) PROVE RemoveIsLast'
  BY <1>29 DEF RemoveWorkspace, RemoveDir
<1>30. ASSUME NEW x \in Deletion, KillDeletion(x) PROVE RemoveIsLast'
  BY <1>30 DEF KillDeletion
<1>31. CASE UNCHANGED vars
  BY <1>31 DEF vars
<1>32. QED
  BY <1>1, <1>2, <1>3, <1>4, <1>5, <1>6, <1>7, <1>8, <1>9, <1>10, <1>11,
     <1>12, <1>13, <1>14, <1>15, <1>16, <1>17, <1>18, <1>19, <1>20, <1>21,
     <1>22, <1>23, <1>24, <1>25, <1>26, <1>27, <1>28, <1>29, <1>30, <1>31
  DEF Next, CreatorStep, ResizerStep, DeletionStep

LEMMA OneAtWorkStep ==
    ASSUME Typed, Files, OneAtWork, [Next]_vars
    PROVE  OneAtWork'
<1> USE Processes, Bounds DEF Deletion, Process, Creating, Accepted, Running,
        InWorkspace, Here, Without, marks, cloud, locks, creation, deletion, bounded, Ends, Mishap, Typed,
        Works, Files, OneAtWork
<1>1. CASE Create
  BY <1>1 DEF Create, Copy
<1>2. CASE Valid
  BY <1>2 DEF Valid, NextDomain
<1>3. CASE Invalid
  BY <1>3 DEF Invalid, RemoveDir
<1>4. CASE Attempt
  BY <1>4 DEF Attempt
<1>5. CASE ApplyStarts
  BY <1>5 DEF ApplyStarts
<1>6. CASE Provision
  BY <1>6 DEF Provision, Replace, TakeInventory, ReplaceInstances, Launch, WriteInventory
<1>7. CASE Synchronize
  BY <1>7 DEF Synchronize
<1>8. CASE Published
  BY <1>8 DEF Published
<1>9. CASE Applied
  BY <1>9 DEF Applied
<1>10. CASE AttemptFails
  BY <1>10 DEF AttemptFails, NextDomain
<1>11. CASE Report
  BY <1>11 DEF Report
<1>12. CASE ForceCleanup
  BY <1>12 DEF ForceCleanup
<1>13. CASE CleanupEnds
  BY <1>13 DEF CleanupEnds, ExitStatus
<1>14. CASE KillCreation
  BY <1>14 DEF KillCreation
<1>15. CASE ResizeStarts
  BY <1>15 DEF ResizeStarts, MayResize
<1>16. CASE ResizePublishes
  BY <1>16 DEF ResizePublishes
<1>17. CASE ResizeEnds
  BY <1>17 DEF ResizeEnds
<1>18. ASSUME NEW x \in Deletions, NEW f \in BOOLEAN, Delete(x, f) PROVE OneAtWork'
  BY <1>18 DEF Delete, Overlapping
<1>19. ASSUME NEW x \in Deletion, Accept(x) PROVE OneAtWork'
  BY <1>19 DEF Accept, MayDelete
<1>20. ASSUME NEW x \in Deletion, Refuse(x) PROVE OneAtWork'
  BY <1>20 DEF Refuse, MayDelete
<1>21. ASSUME NEW x \in Deletion, NothingToClean(x) PROVE OneAtWork'
  BY <1>21 DEF NothingToClean
<1>22. ASSUME NEW x \in Deletion, CleanupStarts(x) PROVE OneAtWork'
  BY <1>22 DEF CleanupStarts
<1>23. ASSUME NEW x \in Deletion, CleanupSucceeds(x) PROVE OneAtWork'
  BY <1>23 DEF CleanupSucceeds
<1>24. ASSUME NEW x \in Deletion, CleanupFails(x) PROVE OneAtWork'
  BY <1>24 DEF CleanupFails, BlocksDestroy, GiveUp, Unmarked
<1>25. ASSUME NEW x \in Deletion, DestroyStarts(x) PROVE OneAtWork'
  BY <1>25 DEF DestroyStarts
<1>26. ASSUME NEW x \in Deletion, DestroyMoves(x) PROVE OneAtWork'
  BY <1>26 DEF DestroyMoves
<1>27. ASSUME NEW x \in Deletion, Destroyed(x) PROVE OneAtWork'
  BY <1>27 DEF Destroyed, Spared, GiveUp, Unmarked
<1>28. ASSUME NEW x \in Deletion, DestroyFails(x) PROVE OneAtWork'
  <2>1. CASE GiveUp(x)
    <3>1. /\ dpc' = [dpc EXCEPT ![x] = "idle"] /\ cwd' = [cwd EXCEPT ![x] = 0]
          /\ UNCHANGED <<dir, beside>>
      BY <1>28, <2>1 DEF DestroyFails, GiveUp
    <3>2. \A d \in Deletion : Works(d)' => Works(d) /\ d # x
      BY <3>1
    <3>3. ~beside => \A d \in Deletion : Works(d)' => destroying'
      BY <1>28, <2>1, <3>2 DEF GiveUp, Unmarked, DestroyFails
    <3> QED
      BY <3>1, <3>2, <3>3
  <2>2. CASE dpc' = [dpc EXCEPT ![x] = "destroy"] /\ UNCHANGED <<destroying, force, cwd>>
    BY <1>28, <2>2 DEF DestroyFails
  <2> QED
    BY <1>28, <2>1, <2>2 DEF DestroyFails, Exhausted
<1>29. ASSUME NEW x \in Deletion, RemoveWorkspace(x) PROVE OneAtWork'
  BY <1>29 DEF RemoveWorkspace, RemoveDir
<1>30. ASSUME NEW x \in Deletion, KillDeletion(x) PROVE OneAtWork'
  BY <1>30 DEF KillDeletion
<1>31. CASE UNCHANGED vars
  BY <1>31 DEF vars
<1>32. QED
  BY <1>1, <1>2, <1>3, <1>4, <1>5, <1>6, <1>7, <1>8, <1>9, <1>10, <1>11,
     <1>12, <1>13, <1>14, <1>15, <1>16, <1>17, <1>18, <1>19, <1>20, <1>21,
     <1>22, <1>23, <1>24, <1>25, <1>26, <1>27, <1>28, <1>29, <1>30, <1>31
  DEF Next, CreatorStep, ResizerStep, DeletionStep

LEMMA FilesInit == Init => Files /\ Marked
  BY DEF Init, Files, Marked, Creating, Running, Accepted, Works, Here, Deletion

\* Whatever overlaps: types, files and markers.
Base == TypeOK /\ Counted /\ Files /\ Marked

LEMMA BaseHolds == Spec => []Base
<1>1. Init => Base
  BY TypeInit, FilesInit DEF Base
<1>2. Base /\ [Next]_vars => Base'
  <2> SUFFICES ASSUME Base, [Next]_vars PROVE Base'
    OBVIOUS
  <2>1. Typed
    BY DEF Base, TypeOK, Typed
  <2>2. TypeOK' /\ Counted'
    BY TypeStep DEF Base
  <2>3. Files' /\ Marked'
    BY <2>1, FilesStep, MarkedStep DEF Base
  <2> QED
    BY <2>2, <2>3 DEF Base
<1>3. QED
  BY <1>1, <1>2, PTL DEF Spec

LEMMA OneAtWorkHolds == Spec => []OneAtWork
<1>1. Init => OneAtWork
  BY DEF Init, OneAtWork, Works, Accepted
<1>2. Base /\ OneAtWork /\ [Next]_vars => OneAtWork'
  <2> SUFFICES ASSUME Base, OneAtWork, [Next]_vars PROVE OneAtWork'
    OBVIOUS
  <2>1. Typed /\ Files
    BY DEF Base, TypeOK, Typed
  <2> QED
    BY <2>1, OneAtWorkStep
<1>3. QED
  BY <1>1, <1>2, BaseHolds, PTL DEF Spec

\* Whatever runs beside whatever, FORCE beside another deletion and deletions during
\* a creation included, currently_building and currently_destroying end with the
\* script that wrote them unless a script was killed, and a deletion under way has
\* its marker unless one was accepted beside another in the same directory.
THEOREM MarkersAreTrue == Spec => []MarkersFollowWork
<1>1. Base /\ OneAtWork => MarkersFollowWork
  BY DEF Base, Marked, OneAtWork, MarkersFollowWork, Works
<1>2. QED
  BY <1>1, BaseHolds, OneAtWorkHolds, PTL

\* An overlap is never undone.
LEMMA StaySerialized ==
    ASSUME Typed, [Next]_vars, overlaps' = 0
    PROVE  overlaps = 0
<1> USE DEF Typed, bounded
<1>1. ASSUME NEW x \in Deletions, NEW f \in BOOLEAN, Delete(x, f) PROVE overlaps = 0
  BY <1>1, Bounds DEF Delete
<1>2. CASE UNCHANGED overlaps
  BY <1>2
<1> QED
  BY <1>1, <1>2 DEF Next, Create, Copy, CreatorStep, ResizerStep, DeletionStep, vars,
     Valid, Invalid, Attempt, ApplyStarts, Provision, Synchronize, Published, Applied,
     AttemptFails, Report, ForceCleanup, CleanupEnds, KillCreation, ResizeStarts,
     ResizePublishes, ResizeEnds, Accept, Refuse, NothingToClean, CleanupStarts,
     CleanupSucceeds, CleanupFails, DestroyStarts, DestroyMoves, Destroyed, DestroyFails,
     RemoveWorkspace, KillDeletion

Separate == Serialized => Apart

LEMMA SeparateHolds == Spec => []Separate
<1>1. Init => Separate
  BY Processes DEF Init, Separate, Apart, CreatorAlone, Serial, LockIsMeant,
     NamesNeedInventory, RemoveIsLast, Creating, Running, Accepted, Works, Here, Deletion
<1>2. Base /\ Separate /\ [Next]_vars => Separate'
  <2> SUFFICES ASSUME Base, Separate, [Next]_vars, overlaps' = 0 PROVE Apart'
    BY DEF Separate, Serialized
  <2>1. Typed /\ Files
    BY DEF Base, TypeOK, Typed
  <2>2. Apart
    BY <2>1, StaySerialized DEF Separate, Serialized
  <2>3. CreatorAlone' /\ Serial' /\ LockIsMeant'
    BY <2>1, <2>2, CreatorAloneStep, SerialStep, LockIsMeantStep
  <2>4. NamesNeedInventory' /\ RemoveIsLast'
    BY <2>1, <2>2, NamesNeedInventoryStep, RemoveIsLastStep
  <2> QED
    BY <2>3, <2>4 DEF Apart
<1>3. QED
  BY <1>1, <1>2, BaseHolds, PTL DEF Spec

\* For any numbers of deletions, creations, resizes and killed scripts, a resize
\* and an accepted deletion never work on one cluster together, as long as FORCE
\* was not used beside another deletion nor a deletion during a creation.
THEOREM DeletionExcludesResize == Spec => []ResizeExcludesDeletion
<1>1. Separate => ResizeExcludesDeletion
  BY DEF Separate, Apart, LockIsMeant, ResizeExcludesDeletion, Works
<1>2. QED
  BY <1>1, SeparateHolds, PTL

\* With the same exception, Terraform destroys instances for a deletion only when
\* no name or DNS record is left, or an apply had taken the inventory before.
THEOREM NamesGoFirst == Spec => []NamesGoBeforeInstances
<1>1. Separate => NamesGoBeforeInstances
  BY DEF Separate, Apart, NamesNeedInventory, NamesGoBeforeInstances
<1>2. QED
  BY <1>1, SeparateHolds, PTL

\* With the same exceptions, the directory is removed only when it keeps track of
\* nothing any more.
THEOREM DirectoryGoesLast == Spec => WorkspaceGoesLast
<1> DEFINE Last == Serialized /\ dir # 0 /\ dir' # dir => instances = "none" /\ (names = "none" \/ taken) /\ tfLock = Nobody
<1>1. Base /\ Separate /\ [Next]_vars => Last
  <2> SUFFICES ASSUME Base, Apart, [Next]_vars, dir # 0, dir' # dir
               PROVE  instances = "none" /\ (names = "none" \/ taken) /\ tfLock = Nobody
    BY DEF Separate
  <2>1. Invalid \/ \E x \in Deletion : RemoveWorkspace(x)
    BY DEF Next, Create, Copy, CreatorStep, ResizerStep, DeletionStep, vars, Valid, Attempt,
       ApplyStarts, Provision, Synchronize, Published, Applied, AttemptFails, Report,
       ForceCleanup, CleanupEnds, KillCreation, ResizeStarts, ResizePublishes, ResizeEnds,
       Delete, Accept, Refuse, NothingToClean, CleanupStarts, CleanupSucceeds, CleanupFails,
       DestroyStarts, DestroyMoves, Destroyed, DestroyFails, KillDeletion
  <2>2. CASE Invalid
    BY <2>2 DEF Invalid, Apart, CreatorAlone
  <2>3. ASSUME NEW x \in Deletion, RemoveWorkspace(x)
        PROVE  instances = "none" /\ (names = "none" \/ taken) /\ tfLock = Nobody
    BY <2>3 DEF RemoveWorkspace, Apart, RemoveIsLast, NamesNeedInventory
  <2> QED
    BY <2>1, <2>2, <2>3
<1>2. QED
  BY <1>1, BaseHolds, SeparateHolds, PTL DEF Spec, WorkspaceGoesLast

\* As long as deletions are serialized, create_cluster.sh exits with 0 only when the
\* cluster is complete: instances, inventory and own names there, marker gone.
THEOREM ExitIsTrue == Spec => ExitTellsTheOutcome
<1>1. Base /\ Separate /\ [Next]_vars
         => (Serialized /\ cpc \in Creating /\ cpc' = "done" /\ exit' = "ok" => Complete')
  <2> SUFFICES ASSUME Base, Apart, [Next]_vars,
                      cpc \in Creating, cpc' = "done", exit' = "ok"
               PROVE  Complete'
    BY DEF Separate
  <2>1. exit = "fail"
    BY DEF Apart, CreatorAlone
  <2>2. Applied
    BY <2>1 DEF Next, Create, Copy, CreatorStep, ResizerStep, DeletionStep, vars, Valid,
       Invalid, NextDomain, Attempt, ApplyStarts, Provision, Synchronize, Published,
       AttemptFails, Report, ForceCleanup, CleanupEnds, ExitStatus, KillCreation,
       ResizeStarts, ResizePublishes, ResizeEnds, Delete, Accept, Refuse, NothingToClean,
       CleanupStarts, CleanupSucceeds, CleanupFails, DestroyStarts, DestroyMoves, Destroyed,
       DestroyFails, RemoveWorkspace, KillDeletion, Creating, creation
  <2>3. QED
    BY <2>2 DEF Applied, Complete, InWorkspace, Apart, NamesNeedInventory, cloud
<1>2. QED
  BY <1>1, BaseHolds, SeparateHolds, PTL DEF Spec, ExitTellsTheOutcome

=============================================================================
