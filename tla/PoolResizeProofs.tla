-------------------------- MODULE PoolResizeProofs --------------------------
(* Proofs about PoolResize: which members may leave, that no volume is left   *)
(* behind, that a stale size is owed, and that what happens is a committed    *)
(* resize; for any instances, sizes, stops and failures.                     *)
EXTENDS PoolResize, FiniteSetTheorems, TLAPS

Places == {"fresh", "member", "detached", "terminated", "reclaimed"}

Shape ==
    /\ place \in [Node -> Places]
    /\ volume \in [Node -> {"none", "live", "deleted"}]
    /\ run = [step |-> run.step, mode |-> run.mode, phase |-> run.phase, bare |-> run.bare,
              seen |-> run.seen, chosen |-> run.chosen, todo |-> run.todo,
              target |-> run.target, done |-> run.done, resuming |-> run.resuming]

\* One instance is taken down.
TakingDown == run.step \in {"note", "detach", "detaching", "terminate", "wipe"}

\* Which part of a run each step belongs to.
Path ==
    /\ run.step \in {"plan", "resume", "recover"} => run.phase = "resume"
    /\ run.step = "forget" => run.phase \in {"resume", "remove"}
    /\ run.step \in {"retry", "decide", "select", "journal", "playbook"} => run.phase = "retry"
    /\ run.step \in {"finalize", "drop"} => run.phase \in {"retry", "remove"}
    /\ run.step \in {"push", "variables"} =>
          run.phase \in {"resume", "retry", "remove", "add", "reconcile"}
    /\ run.step = "remove" => run.phase = "remove"
    /\ run.step \in {"update", "await", "rollback"} => run.phase = "add"
    /\ run.step = "reconcile" => run.phase = "reconcile"
    /\ TakingDown => run.phase \in {"resume", "retry", "remove"} /\ run.target \in Node
    /\ run.step \in {"select", "journal"} => run.mode = "remove"
    /\ run.step = "journal" => ~run.resuming

\* A run that does not finish an earlier removal goes on with an empty journal.
Emptied ==
    ~run.resuming =>
        /\ run.phase = "retry" /\ run.step # "playbook" => removals = {}
        /\ run.step = "recover" => removals = {}
        /\ run.phase = "resume" /\ run.step \in {"push", "variables", "forget"} =>
              removals \subseteq run.done

\* What a removal has to do with, by the journal or on its own.
Concerned(n) == n \in leaving \/ n \in Journaled \/ n \in run.todo \/ n = run.target

NoneFresh ==
    \A n \in Node : Concerned(n) \/ n \in run.chosen \/ n \in removals => place[n] # "fresh"

\* No member is concerned unless the journal names it.
Named ==
    \A n \in Node : place[n] = "member" =>
        /\ Concerned(n) => n \in removals
        /\ n \in run.chosen /\ run.step # "journal" => n \in removals

\* What is done is gone, and what is terminated has left before.
Gone(n) == place[n] \notin {"fresh", "member"}

Departed ==
    /\ \A n \in Node : n \in run.done => Gone(n)
    /\ run.step \in {"terminate", "wipe"} /\ run.target \in Node => Gone(run.target)

LEMMA ShapeNext == Shape /\ [Next]_vars => Shape'
<1> SUFFICES ASSUME Shape, [Next]_vars PROVE Shape'
  OBVIOUS
<1> USE DEF Shape, At, Goto, Exit, Idle, cloud, terraform, files
<1>1. ASSUME NEW mode \in Modes, NEW bare \in BOOLEAN, Start(mode, bare) PROVE Shape'
  BY <1>1 DEF Start
<1>2. CASE StartCleanup
  BY <1>2 DEF StartCleanup
<1>3. CASE ResumePlan
  BY <1>3 DEF ResumePlan
<1>4. CASE Resumed
  BY <1>4 DEF Resumed
<1>5. CASE Forget
  BY <1>5 DEF Forget
<1>6. CASE Recover
  BY <1>6 DEF Recover
<1>7. CASE Retried
  BY <1>7 DEF Retried
<1>8. CASE Finalize
  BY <1>8 DEF Finalize
<1>9. CASE Drop
  BY <1>9 DEF Drop
<1>10. CASE Decide
  <2>1. CASE marker # None /\ ~run.resuming
    BY <1>10, <2>1 DEF Decide
  <2>2. CASE ~(marker # None /\ ~run.resuming) /\ run.mode = "remove" /\ ~run.resuming
             /\ run.done # {}
    BY <1>10, <2>2 DEF Decide
  <2>3. CASE ~(marker # None /\ ~run.resuming)
             /\ ~(run.mode = "remove" /\ ~run.resuming /\ run.done # {})
    <3>1. \E s \in {"reconfigure", "select", "grow"} :
             run' = [run EXCEPT !.step = s] /\ (s = "select" => run.mode = "remove")
      BY <1>10, <2>3 DEF Decide
    <3> QED
      BY <1>10, <3>1 DEF Decide
  <2> QED
    BY <2>1, <2>2, <2>3
<1>11. CASE Select
  BY <1>11 DEF Select
<1>12. CASE WriteJournal
  BY <1>12 DEF WriteJournal
<1>13. CASE RemovalPlaybook
  BY <1>13 DEF RemovalPlaybook
<1>14. CASE Removed
  BY <1>14 DEF Removed
<1>15. CASE Note
  BY <1>15 DEF Note
<1>16. CASE Detach
  BY <1>16 DEF Detach
<1>17. CASE Detached
  BY <1>17 DEF Detached
<1>18. CASE Terminate
  BY <1>18 DEF Terminate, Places
<1>19. CASE Wipe
  BY <1>19 DEF Wipe
<1>20. CASE UpdateSize
  BY <1>20 DEF UpdateSize
<1>21. CASE Await
  BY <1>21 DEF Await
<1>22. CASE Rollback
  BY <1>22 DEF Rollback
<1>23. CASE Reconcile
  BY <1>23 DEF Reconcile
<1>24. CASE PushState
  BY <1>24 DEF PushState
<1>25. CASE ReplaceVariables
  BY <1>25 DEF ReplaceVariables
<1>26. CASE Close
  BY <1>26 DEF Close
<1>27. CASE Reconfigure
  BY <1>27 DEF Reconfigure
<1>28. CASE Extend
  BY <1>28 DEF Extend
<1>29. CASE Synchronize
  BY <1>29 DEF Synchronize
<1>30. CASE Synchronized
  BY <1>30 DEF Synchronized
<1>31. CASE ClearMarker
  BY <1>31 DEF ClearMarker
<1>32. CASE Refuse
  BY <1>32 DEF Refuse
<1>33. ASSUME NEW n \in Node, ResumeOne(n) PROVE Shape'
  BY <1>33 DEF ResumeOne
<1>34. ASSUME NEW n \in Node, RetryOne(n) PROVE Shape'
  BY <1>34 DEF RetryOne
<1>35. ASSUME NEW n \in Node, RemoveOne(n) PROVE Shape'
  BY <1>35 DEF RemoveOne
<1>36. ASSUME NEW k \in 1..Cardinality(Fresh), Grow(k) PROVE Shape'
  BY <1>36 DEF Grow
<1>37. CASE AddFails
  BY <1>37 DEF AddFails
<1>38. CASE Stop
  BY <1>38 DEF Stop
<1>39. CASE Provision
  BY <1>39 DEF Provision, Fresh, Places
<1>40. CASE DetachTakesEffect
  BY <1>40 DEF DetachTakesEffect, Places
<1>41. CASE ScaleIn
  BY <1>41 DEF ScaleIn, Places
<1>42. CASE Settle
  BY <1>42 DEF Settle
<1>43. CASE UNCHANGED vars
  BY <1>43 DEF vars
<1> QED
  BY <1>1, <1>2, <1>3, <1>4, <1>5, <1>6, <1>7, <1>8, <1>9, <1>10, <1>11, <1>12, <1>13, <1>14,
     <1>15, <1>16, <1>17, <1>18, <1>19, <1>20, <1>21, <1>22, <1>23, <1>24, <1>25, <1>26, <1>27,
     <1>28, <1>29, <1>30, <1>31, <1>32, <1>33, <1>34, <1>35, <1>36, <1>37, <1>38, <1>39, <1>40,
     <1>41, <1>42, <1>43 DEF Next, Resize, OCI

LEMMA PathNext == Shape /\ Path /\ [Next]_vars => Path'
<1> SUFFICES ASSUME Shape, Path, [Next]_vars PROVE Path'
  OBVIOUS
<1> USE DEF Shape, Path, TakingDown, At, Goto, Exit, Idle, cloud, terraform, files
<1>1. ASSUME NEW mode \in Modes, NEW bare \in BOOLEAN, Start(mode, bare) PROVE Path'
  BY <1>1 DEF Start
<1>2. CASE StartCleanup
  BY <1>2 DEF StartCleanup
<1>3. CASE ResumePlan
  BY <1>3 DEF ResumePlan
<1>4. CASE Resumed
  BY <1>4 DEF Resumed
<1>5. CASE Forget
  BY <1>5 DEF Forget
<1>6. CASE Recover
  BY <1>6 DEF Recover
<1>7. CASE Retried
  BY <1>7 DEF Retried
<1>8. CASE Finalize
  BY <1>8 DEF Finalize
<1>9. CASE Drop
  BY <1>9 DEF Drop
<1>10. CASE Decide
  <2>1. CASE marker # None /\ ~run.resuming
    BY <1>10, <2>1 DEF Decide
  <2>2. CASE ~(marker # None /\ ~run.resuming) /\ run.mode = "remove" /\ ~run.resuming
             /\ run.done # {}
    BY <1>10, <2>2 DEF Decide
  <2>3. CASE ~(marker # None /\ ~run.resuming)
             /\ ~(run.mode = "remove" /\ ~run.resuming /\ run.done # {})
    <3>1. \E s \in {"reconfigure", "select", "grow"} :
             run' = [run EXCEPT !.step = s] /\ (s = "select" => run.mode = "remove")
      BY <1>10, <2>3 DEF Decide
    <3> QED
      BY <1>10, <3>1 DEF Decide
  <2> QED
    BY <2>1, <2>2, <2>3
<1>11. CASE Select
  BY <1>11 DEF Select
<1>12. CASE WriteJournal
  BY <1>12 DEF WriteJournal
<1>13. CASE RemovalPlaybook
  BY <1>13 DEF RemovalPlaybook
<1>14. CASE Removed
  BY <1>14 DEF Removed
<1>15. CASE Note
  BY <1>15 DEF Note
<1>16. CASE Detach
  BY <1>16 DEF Detach
<1>17. CASE Detached
  BY <1>17 DEF Detached
<1>18. CASE Terminate
  BY <1>18 DEF Terminate
<1>19. CASE Wipe
  BY <1>19 DEF Wipe
<1>20. CASE UpdateSize
  BY <1>20 DEF UpdateSize
<1>21. CASE Await
  BY <1>21 DEF Await
<1>22. CASE Rollback
  BY <1>22 DEF Rollback
<1>23. CASE Reconcile
  BY <1>23 DEF Reconcile
<1>24. CASE PushState
  BY <1>24 DEF PushState
<1>25. CASE ReplaceVariables
  BY <1>25 DEF ReplaceVariables
<1>26. CASE Close
  BY <1>26 DEF Close
<1>27. CASE Reconfigure
  BY <1>27 DEF Reconfigure
<1>28. CASE Extend
  BY <1>28 DEF Extend
<1>29. CASE Synchronize
  BY <1>29 DEF Synchronize
<1>30. CASE Synchronized
  BY <1>30 DEF Synchronized
<1>31. CASE ClearMarker
  BY <1>31 DEF ClearMarker
<1>32. CASE Refuse
  BY <1>32 DEF Refuse
<1>33. ASSUME NEW n \in Node, ResumeOne(n) PROVE Path'
  BY <1>33 DEF ResumeOne
<1>34. ASSUME NEW n \in Node, RetryOne(n) PROVE Path'
  BY <1>34 DEF RetryOne
<1>35. ASSUME NEW n \in Node, RemoveOne(n) PROVE Path'
  BY <1>35 DEF RemoveOne
<1>36. ASSUME NEW k \in 1..Cardinality(Fresh), Grow(k) PROVE Path'
  BY <1>36 DEF Grow
<1>37. CASE AddFails
  BY <1>37 DEF AddFails
<1>38. CASE Stop
  BY <1>38 DEF Stop
<1>39. CASE Provision
  BY <1>39 DEF Provision
<1>40. CASE DetachTakesEffect
  BY <1>40 DEF DetachTakesEffect
<1>41. CASE ScaleIn
  BY <1>41 DEF ScaleIn
<1>42. CASE Settle
  BY <1>42 DEF Settle
<1>43. CASE UNCHANGED vars
  BY <1>43 DEF vars
<1> QED
  BY <1>1, <1>2, <1>3, <1>4, <1>5, <1>6, <1>7, <1>8, <1>9, <1>10, <1>11, <1>12, <1>13, <1>14,
     <1>15, <1>16, <1>17, <1>18, <1>19, <1>20, <1>21, <1>22, <1>23, <1>24, <1>25, <1>26, <1>27,
     <1>28, <1>29, <1>30, <1>31, <1>32, <1>33, <1>34, <1>35, <1>36, <1>37, <1>38, <1>39, <1>40,
     <1>41, <1>42, <1>43 DEF Next, Resize, OCI

LEMMA EmptiedNext == Shape /\ Path /\ Emptied /\ [Next]_vars => Emptied'
<1> SUFFICES ASSUME Shape, Path, Emptied, [Next]_vars PROVE Emptied'
  OBVIOUS
<1> USE DEF Shape, Path, Emptied, TakingDown, At, Goto, Exit, Idle, cloud, terraform, files
<1>1. ASSUME NEW mode \in Modes, NEW bare \in BOOLEAN, Start(mode, bare) PROVE Emptied'
  BY <1>1 DEF Start
<1>2. CASE StartCleanup
  BY <1>2 DEF StartCleanup
<1>3. CASE ResumePlan
  BY <1>3 DEF ResumePlan
<1>4. CASE Resumed
  BY <1>4 DEF Resumed
<1>5. CASE Forget
  BY <1>5 DEF Forget
<1>6. CASE Recover
  BY <1>6 DEF Recover
<1>7. CASE Retried
  BY <1>7 DEF Retried
<1>8. CASE Finalize
  BY <1>8 DEF Finalize
<1>9. CASE Drop
  BY <1>9 DEF Drop
<1>10. CASE Decide
  BY <1>10 DEF Decide
<1>11. CASE Select
  BY <1>11 DEF Select
<1>12. CASE WriteJournal
  BY <1>12 DEF WriteJournal
<1>13. CASE RemovalPlaybook
  BY <1>13 DEF RemovalPlaybook
<1>14. CASE Removed
  BY <1>14 DEF Removed
<1>15. CASE Note
  BY <1>15 DEF Note
<1>16. CASE Detach
  BY <1>16 DEF Detach
<1>17. CASE Detached
  BY <1>17 DEF Detached
<1>18. CASE Terminate
  BY <1>18 DEF Terminate
<1>19. CASE Wipe
  BY <1>19 DEF Wipe
<1>20. CASE UpdateSize
  BY <1>20 DEF UpdateSize
<1>21. CASE Await
  BY <1>21 DEF Await
<1>22. CASE Rollback
  BY <1>22 DEF Rollback
<1>23. CASE Reconcile
  BY <1>23 DEF Reconcile
<1>24. CASE PushState
  BY <1>24 DEF PushState
<1>25. CASE ReplaceVariables
  BY <1>25 DEF ReplaceVariables
<1>26. CASE Close
  BY <1>26 DEF Close
<1>27. CASE Reconfigure
  BY <1>27 DEF Reconfigure
<1>28. CASE Extend
  BY <1>28 DEF Extend
<1>29. CASE Synchronize
  BY <1>29 DEF Synchronize
<1>30. CASE Synchronized
  BY <1>30 DEF Synchronized
<1>31. CASE ClearMarker
  BY <1>31 DEF ClearMarker
<1>32. CASE Refuse
  BY <1>32 DEF Refuse
<1>33. ASSUME NEW n \in Node, ResumeOne(n) PROVE Emptied'
  BY <1>33 DEF ResumeOne
<1>34. ASSUME NEW n \in Node, RetryOne(n) PROVE Emptied'
  BY <1>34 DEF RetryOne
<1>35. ASSUME NEW n \in Node, RemoveOne(n) PROVE Emptied'
  BY <1>35 DEF RemoveOne
<1>36. ASSUME NEW k \in 1..Cardinality(Fresh), Grow(k) PROVE Emptied'
  BY <1>36 DEF Grow
<1>37. CASE AddFails
  BY <1>37 DEF AddFails
<1>38. CASE Stop
  BY <1>38 DEF Stop
<1>39. CASE Provision
  BY <1>39 DEF Provision
<1>40. CASE DetachTakesEffect
  BY <1>40 DEF DetachTakesEffect
<1>41. CASE ScaleIn
  BY <1>41 DEF ScaleIn
<1>42. CASE Settle
  BY <1>42 DEF Settle
<1>43. CASE UNCHANGED vars
  BY <1>43 DEF vars
<1> QED
  BY <1>1, <1>2, <1>3, <1>4, <1>5, <1>6, <1>7, <1>8, <1>9, <1>10, <1>11, <1>12, <1>13, <1>14,
     <1>15, <1>16, <1>17, <1>18, <1>19, <1>20, <1>21, <1>22, <1>23, <1>24, <1>25, <1>26, <1>27,
     <1>28, <1>29, <1>30, <1>31, <1>32, <1>33, <1>34, <1>35, <1>36, <1>37, <1>38, <1>39, <1>40,
     <1>41, <1>42, <1>43 DEF Next, Resize, OCI

---------------------------------------------------------------------------
LEMMA JournalGrows ==
  ASSUME Note
  PROVE  /\ Journaled' \subseteq Journaled \union {run.target}
         /\ Journaled \subseteq Journaled'
         /\ OwnVolume(run.target) => run.target \in Journaled'
<1>1. deletions' = deletions \union
         {VolumeRecord(n) : n \in {m \in {run.target} : OwnVolume(m) /\ m \notin Journaled}}
  BY DEF Note
<1>2. \A n : VolumeRecord(n).node = n
  BY DEF VolumeRecord
<1>3. Journaled' \subseteq Journaled \union {run.target} /\ Journaled \subseteq Journaled'
  BY <1>1, <1>2 DEF Journaled
<1>4. OwnVolume(run.target) /\ run.target \notin Journaled => VolumeRecord(run.target) \in deletions'
  BY <1>1
<1>5. OwnVolume(run.target) => run.target \in Journaled'
  BY <1>2, <1>3, <1>4 DEF Journaled
<1> QED
  BY <1>3, <1>5

LEMMA NoneFreshNext == Shape /\ NoneFresh /\ [Next]_vars => NoneFresh'
<1> SUFFICES ASSUME Shape, NoneFresh, [Next]_vars PROVE NoneFresh'
  OBVIOUS
<1>0. deletions' = deletions => Journaled' = Journaled
  BY DEF Journaled
<1> USE <1>0, Absent DEF Shape, NoneFresh, Concerned, At, Goto, Exit, Idle, cloud, terraform, files
<1>1. ASSUME NEW mode \in Modes, NEW bare \in BOOLEAN, Start(mode, bare) PROVE NoneFresh'
  BY <1>1 DEF Start
<1>2. CASE StartCleanup
  BY <1>2 DEF StartCleanup
<1>3. CASE ResumePlan
  BY <1>3 DEF ResumePlan
<1>4. CASE Resumed
  BY <1>4 DEF Resumed, Active, Members
<1>5. CASE Forget
  BY <1>5 DEF Forget
<1>6. CASE Recover
  BY <1>6 DEF Recover
<1>7. CASE Retried
  BY <1>7 DEF Retried
<1>8. CASE Finalize
  BY <1>8 DEF Finalize
<1>9. CASE Drop
  BY <1>9 DEF Drop, Journaled
<1>10. CASE Decide
  <2>1. CASE marker # None /\ ~run.resuming
    BY <1>10, <2>1 DEF Decide
  <2>2. CASE ~(marker # None /\ ~run.resuming) /\ run.mode = "remove" /\ ~run.resuming
             /\ run.done # {}
    BY <1>10, <2>2 DEF Decide
  <2>3. CASE ~(marker # None /\ ~run.resuming)
             /\ ~(run.mode = "remove" /\ ~run.resuming /\ run.done # {})
    <3>1. \E s \in {"reconfigure", "select", "grow"} :
             run' = [run EXCEPT !.step = s] /\ (s = "select" => run.mode = "remove")
      BY <1>10, <2>3 DEF Decide
    <3> QED
      BY <1>10, <3>1 DEF Decide
  <2> QED
    BY <2>1, <2>2, <2>3
<1>11. CASE Select
  <2>1. CASE run.resuming
    BY <1>11, <2>1 DEF Select
  <2>2. CASE ~run.resuming
    <3>1. PICK c \in Selectable : run' = [run EXCEPT !.step = "journal", !.chosen = c]
      BY <1>11, <2>2 DEF Select
    <3>2. \A n \in c : place[n] = "member"
      BY DEF Selectable, Members
    <3> QED
      BY <1>11, <3>1, <3>2 DEF Select
  <2> QED
    BY <2>1, <2>2
<1>12. CASE WriteJournal
  BY <1>12 DEF WriteJournal
<1>13. CASE RemovalPlaybook
  BY <1>13 DEF RemovalPlaybook
<1>14. CASE Removed
  BY <1>14 DEF Removed
<1>15. CASE Note
  BY <1>15, JournalGrows DEF Note
<1>16. CASE Detach
  BY <1>16 DEF Detach, Members
<1>17. CASE Detached
  BY <1>17 DEF Detached
<1>18. CASE Terminate
  BY <1>18 DEF Terminate
<1>19. CASE Wipe
  BY <1>19 DEF Wipe
<1>20. CASE UpdateSize
  BY <1>20 DEF UpdateSize
<1>21. CASE Await
  BY <1>21 DEF Await
<1>22. CASE Rollback
  BY <1>22 DEF Rollback
<1>23. CASE Reconcile
  BY <1>23 DEF Reconcile
<1>24. CASE PushState
  BY <1>24 DEF PushState
<1>25. CASE ReplaceVariables
  BY <1>25 DEF ReplaceVariables
<1>26. CASE Close
  BY <1>26 DEF Close
<1>27. CASE Reconfigure
  BY <1>27 DEF Reconfigure
<1>28. CASE Extend
  BY <1>28 DEF Extend
<1>29. CASE Synchronize
  BY <1>29 DEF Synchronize
<1>30. CASE Synchronized
  BY <1>30 DEF Synchronized
<1>31. CASE ClearMarker
  BY <1>31 DEF ClearMarker
<1>32. CASE Refuse
  BY <1>32 DEF Refuse
<1>33. ASSUME NEW n \in Node, ResumeOne(n) PROVE NoneFresh'
  BY <1>33 DEF ResumeOne
<1>34. ASSUME NEW n \in Node, RetryOne(n) PROVE NoneFresh'
  BY <1>34 DEF RetryOne
<1>35. ASSUME NEW n \in Node, RemoveOne(n) PROVE NoneFresh'
  BY <1>35 DEF RemoveOne
<1>36. ASSUME NEW k \in 1..Cardinality(Fresh), Grow(k) PROVE NoneFresh'
  BY <1>36 DEF Grow
<1>37. CASE AddFails
  BY <1>37 DEF AddFails
<1>38. CASE Stop
  BY <1>38 DEF Stop
<1>39. CASE Provision
  BY <1>39 DEF Provision, Fresh
<1>40. CASE DetachTakesEffect
  BY <1>40 DEF DetachTakesEffect
<1>41. CASE ScaleIn
  BY <1>41 DEF ScaleIn
<1>42. CASE Settle
  BY <1>42 DEF Settle
<1>43. CASE UNCHANGED vars
  BY <1>43 DEF vars
<1> QED
  BY <1>1, <1>2, <1>3, <1>4, <1>5, <1>6, <1>7, <1>8, <1>9, <1>10, <1>11, <1>12, <1>13, <1>14,
     <1>15, <1>16, <1>17, <1>18, <1>19, <1>20, <1>21, <1>22, <1>23, <1>24, <1>25, <1>26, <1>27,
     <1>28, <1>29, <1>30, <1>31, <1>32, <1>33, <1>34, <1>35, <1>36, <1>37, <1>38, <1>39, <1>40,
     <1>41, <1>42, <1>43 DEF Next, Resize, OCI

LEMMA NamedNext == Shape /\ Path /\ Emptied /\ NoneFresh /\ Departed /\ Named /\ [Next]_vars => Named'
<1> SUFFICES ASSUME Shape, Path, Emptied, NoneFresh, Departed, Named, [Next]_vars PROVE Named'
  OBVIOUS
<1>0. deletions' = deletions => Journaled' = Journaled
  BY DEF Journaled
<1> USE <1>0, Absent DEF Shape, Named, Concerned, At, Goto, Exit, Idle, cloud, terraform, files
<1>1. ASSUME NEW mode \in Modes, NEW bare \in BOOLEAN, Start(mode, bare) PROVE Named'
  BY <1>1 DEF Start
<1>2. CASE StartCleanup
  BY <1>2 DEF StartCleanup
<1>3. CASE ResumePlan
  BY <1>3 DEF ResumePlan
<1>4. CASE Resumed
  BY <1>4 DEF Resumed, Active
<1>5. CASE Forget
  BY <1>5 DEF Forget, Departed, Gone
<1>6. CASE Recover
  BY <1>6 DEF Recover
<1>7. CASE Retried
  BY <1>7 DEF Retried
<1>8. CASE Finalize
  BY <1>8 DEF Finalize
<1>9. CASE Drop
  BY <1>9 DEF Drop, Journaled
<1>10. CASE Decide
  <2>1. CASE marker # None /\ ~run.resuming
    BY <1>10, <2>1 DEF Decide
  <2>2. CASE ~(marker # None /\ ~run.resuming) /\ run.mode = "remove" /\ ~run.resuming
             /\ run.done # {}
    BY <1>10, <2>2 DEF Decide
  <2>3. CASE ~(marker # None /\ ~run.resuming)
             /\ ~(run.mode = "remove" /\ ~run.resuming /\ run.done # {})
    <3>1. \E s \in {"reconfigure", "select", "grow"} :
             run' = [run EXCEPT !.step = s] /\ (s = "select" => run.mode = "remove")
      BY <1>10, <2>3 DEF Decide
    <3> QED
      BY <1>10, <3>1 DEF Decide
  <2> QED
    BY <2>1, <2>2, <2>3
<1>11. CASE Select
  <2>1. CASE run.resuming
    BY <1>11, <2>1 DEF Select
  <2>2. CASE ~run.resuming
    <3>1. PICK c \in Selectable : run' = [run EXCEPT !.step = "journal", !.chosen = c]
      BY <1>11, <2>2 DEF Select
    <3> QED
      BY <1>11, <3>1 DEF Select
  <2> QED
    BY <2>1, <2>2
<1>12. CASE WriteJournal
  BY <1>12 DEF WriteJournal, Path, Emptied
<1>13. CASE RemovalPlaybook
  BY <1>13 DEF RemovalPlaybook
<1>14. CASE Removed
  BY <1>14 DEF Removed
<1>15. CASE Note
  BY <1>15, JournalGrows DEF Note
<1>16. CASE Detach
  BY <1>16 DEF Detach, Members
<1>17. CASE Detached
  BY <1>17 DEF Detached
<1>18. CASE Terminate
  BY <1>18 DEF Terminate
<1>19. CASE Wipe
  BY <1>19 DEF Wipe
<1>20. CASE UpdateSize
  BY <1>20 DEF UpdateSize
<1>21. CASE Await
  BY <1>21 DEF Await
<1>22. CASE Rollback
  BY <1>22 DEF Rollback
<1>23. CASE Reconcile
  BY <1>23 DEF Reconcile
<1>24. CASE PushState
  BY <1>24 DEF PushState
<1>25. CASE ReplaceVariables
  BY <1>25 DEF ReplaceVariables
<1>26. CASE Close
  BY <1>26 DEF Close
<1>27. CASE Reconfigure
  BY <1>27 DEF Reconfigure
<1>28. CASE Extend
  BY <1>28 DEF Extend
<1>29. CASE Synchronize
  BY <1>29 DEF Synchronize
<1>30. CASE Synchronized
  BY <1>30 DEF Synchronized
<1>31. CASE ClearMarker
  BY <1>31 DEF ClearMarker
<1>32. CASE Refuse
  BY <1>32 DEF Refuse
<1>33. ASSUME NEW n \in Node, ResumeOne(n) PROVE Named'
  BY <1>33 DEF ResumeOne
<1>34. ASSUME NEW n \in Node, RetryOne(n) PROVE Named'
  BY <1>34 DEF RetryOne
<1>35. ASSUME NEW n \in Node, RemoveOne(n) PROVE Named'
  BY <1>35 DEF RemoveOne
<1>36. ASSUME NEW k \in 1..Cardinality(Fresh), Grow(k) PROVE Named'
  BY <1>36 DEF Grow
<1>37. CASE AddFails
  BY <1>37 DEF AddFails
<1>38. CASE Stop
  BY <1>38 DEF Stop
<1>39. CASE Provision
  BY <1>39 DEF Provision, Fresh, NoneFresh
<1>40. CASE DetachTakesEffect
  BY <1>40 DEF DetachTakesEffect
<1>41. CASE ScaleIn
  BY <1>41 DEF ScaleIn
<1>42. CASE Settle
  BY <1>42 DEF Settle
<1>43. CASE UNCHANGED vars
  BY <1>43 DEF vars
<1> QED
  BY <1>1, <1>2, <1>3, <1>4, <1>5, <1>6, <1>7, <1>8, <1>9, <1>10, <1>11, <1>12, <1>13, <1>14,
     <1>15, <1>16, <1>17, <1>18, <1>19, <1>20, <1>21, <1>22, <1>23, <1>24, <1>25, <1>26, <1>27,
     <1>28, <1>29, <1>30, <1>31, <1>32, <1>33, <1>34, <1>35, <1>36, <1>37, <1>38, <1>39, <1>40,
     <1>41, <1>42, <1>43 DEF Next, Resize, OCI

LEMMA DepartedNext == Shape /\ Path /\ NoneFresh /\ Departed /\ [Next]_vars => Departed'
<1> SUFFICES ASSUME Shape, Path, NoneFresh, Departed, [Next]_vars PROVE Departed'
  OBVIOUS
<1> USE DEF Shape, Departed, Gone, At, Goto, Exit, Idle, cloud, terraform, files
<1>1. ASSUME NEW mode \in Modes, NEW bare \in BOOLEAN, Start(mode, bare) PROVE Departed'
  BY <1>1 DEF Start
<1>2. CASE StartCleanup
  BY <1>2 DEF StartCleanup
<1>3. CASE ResumePlan
  BY <1>3 DEF ResumePlan
<1>4. CASE Resumed
  BY <1>4 DEF Resumed
<1>5. CASE Forget
  BY <1>5 DEF Forget
<1>6. CASE Recover
  BY <1>6 DEF Recover
<1>7. CASE Retried
  BY <1>7 DEF Retried
<1>8. CASE Finalize
  BY <1>8 DEF Finalize
<1>9. CASE Drop
  BY <1>9 DEF Drop
<1>10. CASE Decide
  <2>1. CASE marker # None /\ ~run.resuming
    BY <1>10, <2>1 DEF Decide
  <2>2. CASE ~(marker # None /\ ~run.resuming) /\ run.mode = "remove" /\ ~run.resuming
             /\ run.done # {}
    BY <1>10, <2>2 DEF Decide
  <2>3. CASE ~(marker # None /\ ~run.resuming)
             /\ ~(run.mode = "remove" /\ ~run.resuming /\ run.done # {})
    <3>1. \E s \in {"reconfigure", "select", "grow"} :
             run' = [run EXCEPT !.step = s] /\ (s = "select" => run.mode = "remove")
      BY <1>10, <2>3 DEF Decide
    <3> QED
      BY <1>10, <3>1 DEF Decide
  <2> QED
    BY <2>1, <2>2, <2>3
<1>11. CASE Select
  BY <1>11 DEF Select
<1>12. CASE WriteJournal
  BY <1>12 DEF WriteJournal
<1>13. CASE RemovalPlaybook
  BY <1>13 DEF RemovalPlaybook
<1>14. CASE Removed
  BY <1>14 DEF Removed
<1>15. CASE Note
  BY <1>15 DEF Note
<1>16. CASE Detach
  BY <1>16 DEF Detach, Members, NoneFresh, Concerned
<1>17. CASE Detached
  BY <1>17 DEF Detached, Members, NoneFresh, Concerned
<1>18. CASE Terminate
  BY <1>18 DEF Terminate
<1>19. CASE Wipe
  BY <1>19 DEF Wipe, Path, TakingDown
<1>20. CASE UpdateSize
  BY <1>20 DEF UpdateSize
<1>21. CASE Await
  BY <1>21 DEF Await
<1>22. CASE Rollback
  BY <1>22 DEF Rollback
<1>23. CASE Reconcile
  BY <1>23 DEF Reconcile
<1>24. CASE PushState
  BY <1>24 DEF PushState
<1>25. CASE ReplaceVariables
  BY <1>25 DEF ReplaceVariables
<1>26. CASE Close
  BY <1>26 DEF Close
<1>27. CASE Reconfigure
  BY <1>27 DEF Reconfigure
<1>28. CASE Extend
  BY <1>28 DEF Extend
<1>29. CASE Synchronize
  BY <1>29 DEF Synchronize
<1>30. CASE Synchronized
  BY <1>30 DEF Synchronized
<1>31. CASE ClearMarker
  BY <1>31 DEF ClearMarker
<1>32. CASE Refuse
  BY <1>32 DEF Refuse
<1>33. ASSUME NEW n \in Node, ResumeOne(n) PROVE Departed'
  BY <1>33 DEF ResumeOne
<1>34. ASSUME NEW n \in Node, RetryOne(n) PROVE Departed'
  BY <1>34 DEF RetryOne
<1>35. ASSUME NEW n \in Node, RemoveOne(n) PROVE Departed'
  BY <1>35 DEF RemoveOne
<1>36. ASSUME NEW k \in 1..Cardinality(Fresh), Grow(k) PROVE Departed'
  BY <1>36 DEF Grow
<1>37. CASE AddFails
  BY <1>37 DEF AddFails
<1>38. CASE Stop
  BY <1>38 DEF Stop
<1>39. CASE Provision
  BY <1>39 DEF Provision, Fresh
<1>40. CASE DetachTakesEffect
  BY <1>40 DEF DetachTakesEffect
<1>41. CASE ScaleIn
  BY <1>41 DEF ScaleIn
<1>42. CASE Settle
  BY <1>42 DEF Settle
<1>43. CASE UNCHANGED vars
  BY <1>43 DEF vars
<1> QED
  BY <1>1, <1>2, <1>3, <1>4, <1>5, <1>6, <1>7, <1>8, <1>9, <1>10, <1>11, <1>12, <1>13, <1>14,
     <1>15, <1>16, <1>17, <1>18, <1>19, <1>20, <1>21, <1>22, <1>23, <1>24, <1>25, <1>26, <1>27,
     <1>28, <1>29, <1>30, <1>31, <1>32, <1>33, <1>34, <1>35, <1>36, <1>37, <1>38, <1>39, <1>40,
     <1>41, <1>42, <1>43 DEF Next, Resize, OCI

Inv == Shape /\ Path /\ Emptied /\ NoneFresh /\ Departed /\ Named

LEMMA InvInit == Init => Inv
  BY Pool, Absent DEF Init, Inv, Shape, Path, Emptied, NoneFresh, Departed, Named, Concerned, Journaled,
     Gone, Places, Idle, TakingDown

LEMMA InvNext == Inv /\ [Next]_vars => Inv'
  BY ShapeNext, PathNext, EmptiedNext, NoneFreshNext, DepartedNext, NamedNext DEF Inv

\* A member leaves by a detach that takes effect, or by OCI's choice.
LEMMA LeavesByName ==
  ASSUME Inv, [Next]_vars, NEW n \in Members, place'[n] # "member"
  PROVE  n \in removals \/ Cardinality(Members) > size
<1> USE DEF Inv, Shape, Members, At, Goto, Exit, Idle, cloud, terraform, files
<1>1. ASSUME NEW mode \in Modes, NEW bare \in BOOLEAN, Start(mode, bare) PROVE n \in removals \/ Cardinality(Members) > size
  BY <1>1 DEF Start
<1>2. CASE StartCleanup
  BY <1>2 DEF StartCleanup
<1>3. CASE ResumePlan
  BY <1>3 DEF ResumePlan
<1>4. CASE Resumed
  BY <1>4 DEF Resumed
<1>5. CASE Forget
  BY <1>5 DEF Forget
<1>6. CASE Recover
  BY <1>6 DEF Recover
<1>7. CASE Retried
  BY <1>7 DEF Retried
<1>8. CASE Finalize
  BY <1>8 DEF Finalize
<1>9. CASE Drop
  BY <1>9 DEF Drop
<1>10. CASE Decide
  BY <1>10 DEF Decide
<1>11. CASE Select
  BY <1>11 DEF Select
<1>12. CASE WriteJournal
  BY <1>12 DEF WriteJournal
<1>13. CASE RemovalPlaybook
  BY <1>13 DEF RemovalPlaybook
<1>14. CASE Removed
  BY <1>14 DEF Removed
<1>15. CASE Note
  BY <1>15 DEF Note
<1>16. CASE Detach
  BY <1>16 DEF Detach
<1>17. CASE Detached
  BY <1>17 DEF Detached
<1>18. CASE Terminate
  BY <1>18 DEF Terminate, Departed, Gone
<1>19. CASE Wipe
  BY <1>19 DEF Wipe
<1>20. CASE UpdateSize
  BY <1>20 DEF UpdateSize
<1>21. CASE Await
  BY <1>21 DEF Await
<1>22. CASE Rollback
  BY <1>22 DEF Rollback
<1>23. CASE Reconcile
  BY <1>23 DEF Reconcile
<1>24. CASE PushState
  BY <1>24 DEF PushState
<1>25. CASE ReplaceVariables
  BY <1>25 DEF ReplaceVariables
<1>26. CASE Close
  BY <1>26 DEF Close
<1>27. CASE Reconfigure
  BY <1>27 DEF Reconfigure
<1>28. CASE Extend
  BY <1>28 DEF Extend
<1>29. CASE Synchronize
  BY <1>29 DEF Synchronize
<1>30. CASE Synchronized
  BY <1>30 DEF Synchronized
<1>31. CASE ClearMarker
  BY <1>31 DEF ClearMarker
<1>32. CASE Refuse
  BY <1>32 DEF Refuse
<1>33. ASSUME NEW m \in Node, ResumeOne(m) PROVE n \in removals \/ Cardinality(Members) > size
  BY <1>33 DEF ResumeOne
<1>34. ASSUME NEW m \in Node, RetryOne(m) PROVE n \in removals \/ Cardinality(Members) > size
  BY <1>34 DEF RetryOne
<1>35. ASSUME NEW m \in Node, RemoveOne(m) PROVE n \in removals \/ Cardinality(Members) > size
  BY <1>35 DEF RemoveOne
<1>36. ASSUME NEW k \in 1..Cardinality(Fresh), Grow(k) PROVE n \in removals \/ Cardinality(Members) > size
  BY <1>36 DEF Grow
<1>37. CASE AddFails
  BY <1>37 DEF AddFails
<1>38. CASE Stop
  BY <1>38 DEF Stop
<1>39. CASE Provision
  BY <1>39 DEF Provision, Fresh
<1>40. CASE DetachTakesEffect
  BY <1>40 DEF DetachTakesEffect, Named, Concerned
<1>41. CASE ScaleIn
  BY <1>41 DEF ScaleIn
<1>42. CASE Settle
  BY <1>42 DEF Settle
<1>43. CASE UNCHANGED vars
  BY <1>43 DEF vars
<1> QED
  BY <1>1, <1>2, <1>3, <1>4, <1>5, <1>6, <1>7, <1>8, <1>9, <1>10, <1>11, <1>12, <1>13, <1>14,
     <1>15, <1>16, <1>17, <1>18, <1>19, <1>20, <1>21, <1>22, <1>23, <1>24, <1>25, <1>26, <1>27,
     <1>28, <1>29, <1>30, <1>31, <1>32, <1>33, <1>34, <1>35, <1>36, <1>37, <1>38, <1>39, <1>40,
     <1>41, <1>42, <1>43 DEF Next, Resize, OCI

\* OnlyCommittedMembersLeave, for any pool and any stops: whatever run finishes
\* an interrupted removal takes down the members it had chosen, and no other.
THEOREM CommittedLeave == Spec => OnlyCommittedMembersLeave
<1>1. Init => Inv
  BY InvInit
<1>2. Inv /\ [Next]_vars => Inv'
  BY InvNext
<1>3. Inv /\ [Next]_vars =>
        [\A n \in Members : place'[n] # "member" =>
            n \in removals \/ Cardinality(Members) > size]_vars
  BY LeavesByName
<1> QED
  BY <1>1, <1>2, <1>3, PTL DEF Spec, OnlyCommittedMembersLeave

---------------------------------------------------------------------------
\* A volume that is left behind is journaled as soon as its instance may leave.
Noted ==
    /\ NoVolumeForgotten
    /\ \A n \in Node : n \in leaving /\ volume[n] = "live" => n \in Journaled
    /\ run.step \in {"detach", "detaching", "terminate", "wipe"} =>
          \A n \in Node : n = run.target /\ volume[n] = "live" => n \in Journaled

\* When the records are dropped, no volume in them is live.
Wiped ==
    run.phase \in {"retry", "remove"} =>
        /\ \A n \in Node : n \in Journaled /\ volume[n] = "live" => n \in run.todo
        /\ run.phase = "retry" => \A n \in Node : n \in run.todo => n \in Journaled
        /\ TakingDown => run.target \in run.todo
        /\ run.step \in {"finalize", "push", "variables", "drop", "decide", "select", "journal",
                         "playbook"} => run.todo = {}

LEMMA WipedNext == Shape /\ Path /\ NoneFresh /\ Wiped /\ [Next]_vars => Wiped'
<1> SUFFICES ASSUME Shape, Path, NoneFresh, Wiped, [Next]_vars PROVE Wiped'
  OBVIOUS
<1>0. deletions' = deletions => Journaled' = Journaled
  BY DEF Journaled
<1> USE <1>0 DEF Shape, Wiped, TakingDown, At, Goto, Exit, Idle, cloud, terraform, files
<1>1. ASSUME NEW mode \in Modes, NEW bare \in BOOLEAN, Start(mode, bare) PROVE Wiped'
  BY <1>1 DEF Start
<1>2. CASE StartCleanup
  BY <1>2 DEF StartCleanup
<1>3. CASE ResumePlan
  BY <1>3 DEF ResumePlan
<1>4. CASE Resumed
  BY <1>4 DEF Resumed, Path
<1>5. CASE Forget
  BY <1>5 DEF Forget
<1>6. CASE Recover
  BY <1>6 DEF Recover
<1>7. CASE Retried
  BY <1>7 DEF Retried
<1>8. CASE Finalize
  BY <1>8 DEF Finalize
<1>9. CASE Drop
  BY <1>9 DEF Drop, Journaled
<1>10. CASE Decide
  <2>1. CASE marker # None /\ ~run.resuming
    BY <1>10, <2>1 DEF Decide
  <2>2. CASE ~(marker # None /\ ~run.resuming) /\ run.mode = "remove" /\ ~run.resuming
             /\ run.done # {}
    BY <1>10, <2>2 DEF Decide
  <2>3. CASE ~(marker # None /\ ~run.resuming)
             /\ ~(run.mode = "remove" /\ ~run.resuming /\ run.done # {})
    <3>1. \E s \in {"reconfigure", "select", "grow"} :
             run' = [run EXCEPT !.step = s] /\ (s = "select" => run.mode = "remove")
      BY <1>10, <2>3 DEF Decide
    <3> QED
      BY <1>10, <3>1 DEF Decide
  <2> QED
    BY <2>1, <2>2, <2>3
<1>11. CASE Select
  BY <1>11 DEF Select
<1>12. CASE WriteJournal
  BY <1>12 DEF WriteJournal
<1>13. CASE RemovalPlaybook
  BY <1>13 DEF RemovalPlaybook, Path
<1>14. CASE Removed
  BY <1>14 DEF Removed
<1>15. CASE Note
  BY <1>15, JournalGrows DEF Note
<1>16. CASE Detach
  BY <1>16 DEF Detach
<1>17. CASE Detached
  BY <1>17 DEF Detached
<1>18. CASE Terminate
  BY <1>18 DEF Terminate
<1>19. CASE Wipe
  BY <1>19 DEF Wipe, Path
<1>20. CASE UpdateSize
  BY <1>20 DEF UpdateSize
<1>21. CASE Await
  BY <1>21 DEF Await, Path
<1>22. CASE Rollback
  BY <1>22 DEF Rollback
<1>23. CASE Reconcile
  BY <1>23 DEF Reconcile, Path
<1>24. CASE PushState
  BY <1>24 DEF PushState
<1>25. CASE ReplaceVariables
  BY <1>25 DEF ReplaceVariables
<1>26. CASE Close
  BY <1>26 DEF Close
<1>27. CASE Reconfigure
  BY <1>27 DEF Reconfigure
<1>28. CASE Extend
  BY <1>28 DEF Extend
<1>29. CASE Synchronize
  BY <1>29 DEF Synchronize
<1>30. CASE Synchronized
  BY <1>30 DEF Synchronized
<1>31. CASE ClearMarker
  BY <1>31 DEF ClearMarker
<1>32. CASE Refuse
  BY <1>32 DEF Refuse
<1>33. ASSUME NEW n \in Node, ResumeOne(n) PROVE Wiped'
  BY <1>33 DEF ResumeOne, Path
<1>34. ASSUME NEW n \in Node, RetryOne(n) PROVE Wiped'
  BY <1>34 DEF RetryOne
<1>35. ASSUME NEW n \in Node, RemoveOne(n) PROVE Wiped'
  BY <1>35 DEF RemoveOne
<1>36. ASSUME NEW k \in 1..Cardinality(Fresh), Grow(k) PROVE Wiped'
  BY <1>36 DEF Grow
<1>37. CASE AddFails
  BY <1>37 DEF AddFails
<1>38. CASE Stop
  BY <1>38 DEF Stop
<1>39. CASE Provision
  BY <1>39 DEF Provision, Fresh, NoneFresh, Concerned
<1>40. CASE DetachTakesEffect
  BY <1>40 DEF DetachTakesEffect
<1>41. CASE ScaleIn
  BY <1>41 DEF ScaleIn
<1>42. CASE Settle
  BY <1>42 DEF Settle
<1>43. CASE UNCHANGED vars
  BY <1>43 DEF vars
<1> QED
  BY <1>1, <1>2, <1>3, <1>4, <1>5, <1>6, <1>7, <1>8, <1>9, <1>10, <1>11, <1>12, <1>13, <1>14,
     <1>15, <1>16, <1>17, <1>18, <1>19, <1>20, <1>21, <1>22, <1>23, <1>24, <1>25, <1>26, <1>27,
     <1>28, <1>29, <1>30, <1>31, <1>32, <1>33, <1>34, <1>35, <1>36, <1>37, <1>38, <1>39, <1>40,
     <1>41, <1>42, <1>43 DEF Next, Resize, OCI

LEMMA NotedNext == Shape /\ Path /\ NoneFresh /\ Wiped /\ Noted /\ [Next]_vars => Noted'
<1> SUFFICES ASSUME Shape, Path, NoneFresh, Wiped, Noted, [Next]_vars PROVE Noted'
  OBVIOUS
<1>0. deletions' = deletions => Journaled' = Journaled
  BY DEF Journaled
<1> USE <1>0 DEF Shape, Noted, NoVolumeForgotten, At, Goto, Exit, Idle, cloud, terraform, files
<1>1. ASSUME NEW mode \in Modes, NEW bare \in BOOLEAN, Start(mode, bare) PROVE Noted'
  BY <1>1 DEF Start
<1>2. CASE StartCleanup
  BY <1>2 DEF StartCleanup
<1>3. CASE ResumePlan
  BY <1>3 DEF ResumePlan
<1>4. CASE Resumed
  BY <1>4 DEF Resumed
<1>5. CASE Forget
  BY <1>5 DEF Forget
<1>6. CASE Recover
  BY <1>6 DEF Recover
<1>7. CASE Retried
  BY <1>7 DEF Retried
<1>8. CASE Finalize
  BY <1>8 DEF Finalize
<1>9. CASE Drop
  BY <1>9 DEF Drop, Wiped, Path
<1>10. CASE Decide
  <2>1. CASE marker # None /\ ~run.resuming
    BY <1>10, <2>1 DEF Decide
  <2>2. CASE ~(marker # None /\ ~run.resuming) /\ run.mode = "remove" /\ ~run.resuming
             /\ run.done # {}
    BY <1>10, <2>2 DEF Decide
  <2>3. CASE ~(marker # None /\ ~run.resuming)
             /\ ~(run.mode = "remove" /\ ~run.resuming /\ run.done # {})
    <3>1. \E s \in {"reconfigure", "select", "grow"} :
             run' = [run EXCEPT !.step = s] /\ (s = "select" => run.mode = "remove")
      BY <1>10, <2>3 DEF Decide
    <3> QED
      BY <1>10, <3>1 DEF Decide
  <2> QED
    BY <2>1, <2>2, <2>3
<1>11. CASE Select
  BY <1>11 DEF Select
<1>12. CASE WriteJournal
  BY <1>12 DEF WriteJournal
<1>13. CASE RemovalPlaybook
  BY <1>13 DEF RemovalPlaybook
<1>14. CASE Removed
  BY <1>14 DEF Removed
<1>15. CASE Note
  BY <1>15, JournalGrows DEF Note, OwnVolume
<1>16. CASE Detach
  BY <1>16 DEF Detach
<1>17. CASE Detached
  BY <1>17 DEF Detached
<1>18. CASE Terminate
  BY <1>18 DEF Terminate
<1>19. CASE Wipe
  BY <1>19 DEF Wipe, Path, TakingDown
<1>20. CASE UpdateSize
  BY <1>20 DEF UpdateSize
<1>21. CASE Await
  BY <1>21 DEF Await
<1>22. CASE Rollback
  BY <1>22 DEF Rollback
<1>23. CASE Reconcile
  BY <1>23 DEF Reconcile
<1>24. CASE PushState
  BY <1>24 DEF PushState
<1>25. CASE ReplaceVariables
  BY <1>25 DEF ReplaceVariables
<1>26. CASE Close
  BY <1>26 DEF Close
<1>27. CASE Reconfigure
  BY <1>27 DEF Reconfigure
<1>28. CASE Extend
  BY <1>28 DEF Extend
<1>29. CASE Synchronize
  BY <1>29 DEF Synchronize
<1>30. CASE Synchronized
  BY <1>30 DEF Synchronized
<1>31. CASE ClearMarker
  BY <1>31 DEF ClearMarker
<1>32. CASE Refuse
  BY <1>32 DEF Refuse
<1>33. ASSUME NEW n \in Node, ResumeOne(n) PROVE Noted'
  BY <1>33 DEF ResumeOne
<1>34. ASSUME NEW n \in Node, RetryOne(n) PROVE Noted'
  BY <1>34 DEF RetryOne, Wiped, Path
<1>35. ASSUME NEW n \in Node, RemoveOne(n) PROVE Noted'
  BY <1>35 DEF RemoveOne
<1>36. ASSUME NEW k \in 1..Cardinality(Fresh), Grow(k) PROVE Noted'
  BY <1>36 DEF Grow
<1>37. CASE AddFails
  BY <1>37 DEF AddFails
<1>38. CASE Stop
  BY <1>38 DEF Stop
<1>39. CASE Provision
  BY <1>39 DEF Provision, Fresh, NoneFresh, Concerned
<1>40. CASE DetachTakesEffect
  BY <1>40 DEF DetachTakesEffect
<1>41. CASE ScaleIn
  BY <1>41 DEF ScaleIn
<1>42. CASE Settle
  BY <1>42 DEF Settle
<1>43. CASE UNCHANGED vars
  BY <1>43 DEF vars
<1> QED
  BY <1>1, <1>2, <1>3, <1>4, <1>5, <1>6, <1>7, <1>8, <1>9, <1>10, <1>11, <1>12, <1>13, <1>14,
     <1>15, <1>16, <1>17, <1>18, <1>19, <1>20, <1>21, <1>22, <1>23, <1>24, <1>25, <1>26, <1>27,
     <1>28, <1>29, <1>30, <1>31, <1>32, <1>33, <1>34, <1>35, <1>36, <1>37, <1>38, <1>39, <1>40,
     <1>41, <1>42, <1>43 DEF Next, Resize, OCI

\* NoVolumeForgotten, for any pool and any stops: the volume of an instance that
\* has left is deleted, or journaled for the next run.
THEOREM VolumesAreRemembered == Spec => []NoVolumeForgotten
<1>1. Init => Inv /\ Wiped /\ Noted
  <2>1. Init => Wiped /\ Noted
    BY DEF Init, Wiped, Noted, NoVolumeForgotten, Idle
  <2> QED
    BY <2>1, InvInit
<1>2. Inv /\ Wiped /\ Noted /\ [Next]_vars => (Inv /\ Wiped /\ Noted)'
  BY InvNext, WipedNext, NotedNext DEF Inv
<1>3. Noted => NoVolumeForgotten
  BY DEF Noted
<1> QED
  BY <1>1, <1>2, <1>3, PTL DEF Spec

---------------------------------------------------------------------------
(* The sizes.  What is committed to is bound to what OCI has and to what     *)
(* Terraform has recorded, at each step of a run and between runs.           *)
Agreed == tfSize = size /\ nodeCount = size
Adding == marker # None /\ marker.action = "add"
Removing == marker # None /\ marker.action = "remove"

\* A pool that is RUNNING has what its size says and loses nothing.
Settled ==
    /\ "pool" \notin scaling => Cardinality(Members) = size /\ leaving = {}
    /\ "pool" \in scaling => Parent \in scaling

\* Nothing is pending without a marker.
Unmarked == marker = None => removals = {} /\ Agreed

\* The size that a run has read is the size, as long as nothing is pending.
Seen ==
    marker = None /\ run.step # "idle" /\ run.mode # "cleanup_compute_cluster" =>
        run.seen = size

\* An add that is not recorded is not in the inventory either.
Unrecorded ==
    /\ size = marker.target /\ nodeCount = marker.source
    /\ tfSize \in {marker.source, marker.target}
    /\ Cardinality(inventory) = marker.source

Growing ==
    Adding =>
        /\ removals = {} /\ marker.source < marker.target
        /\ size \in {marker.source, marker.target}
        /\ Agreed \/ Unrecorded

\* What a removal has still to take is what the journal names.
Shrinking ==
    Removing =>
        /\ Cardinality(Members) = size /\ marker.target < marker.source
        /\ removals # {} => size = marker.target + Cardinality(Active)
        /\ removals = {} => size \in {marker.source, marker.target} /\ Agreed

\* A run that finishes an earlier removal takes down what is left of its journal.
Rest ==
    run.resuming =>
        /\ Removing
        /\ run.mode \in {"remove", "cleanup_compute_cluster"}
        /\ run.phase = "resume" /\ run.step \in {"push", "variables", "forget"} =>
              removals \subseteq run.done \union run.chosen
        /\ run.step = "recover" \/ run.phase = "retry" => removals \subseteq run.chosen

\* Which steps a run comes to with which marker.
Stage ==
    /\ \/ run.step \in {"finalize", "drop", "decide", "select", "journal", "playbook", "grow",
                       "reconfigure"}
       \/ run.phase \in {"remove", "add", "reconcile"}
       \/ run.phase = "retry" /\ run.step \in {"push", "variables"}
       => run.mode # "cleanup_compute_cluster"
    /\ run.step = "grow" => ~run.resuming
    /\ run.step \in {"select", "grow"} /\ ~run.resuming => marker = None
    /\ run.step = "playbook" \/ run.phase = "remove" => Removing
    /\ run.phase = "add" => Adding
    /\ run.phase = "reconcile" => marker # None /\ removals = {}

\* Between the marker and the journal of a removal.
Chosen ==
    run.step = "journal" =>
        /\ Removing /\ size = marker.source
        /\ run.chosen \subseteq Members /\ run.chosen # {}
        /\ size = marker.target + Cardinality(run.chosen)

\* What the journal names is done or still to be done.
Undone ==
    /\ run.step = "playbook" => removals \subseteq run.chosen
    /\ run.phase = "remove" => removals \subseteq run.todo \union run.done
    /\ run.phase = "remove" /\ run.step \in {"finalize", "push", "variables", "drop", "forget"} =>
          removals \subseteq run.done

\* When Terraform's sizes are right.
Recorded ==
    /\ run.step \in {"update", "await", "rollback"} =>
          /\ tfSize = marker.source /\ nodeCount = marker.source
          /\ Cardinality(inventory) = marker.source
    /\ run.step = "variables" /\ run.phase # "retry" /\ removals \subseteq run.done =>
          tfSize = size
    /\ run.step = "drop" /\ run.phase = "remove" => Agreed
    /\ run.step = "forget" /\ removals \subseteq run.done => Agreed
    /\ run.step \in {"close", "reconfigure", "extend", "synced", "clear"} =>
          removals = {} /\ Agreed

Sizes == Settled /\ Unmarked /\ Seen /\ Growing /\ Shrinking /\ Rest /\ Stage /\ Chosen /\ Undone /\ Recorded

---------------------------------------------------------------------------
\* Most steps leave the members, the sizes and the files about them alone.
Still == UNCHANGED <<Members, Active, leaving, kind, size, scaling, tfSize, nodeCount, inventory,
                     marker, removals>>

LEMMA SamePlaces ==
  ASSUME UNCHANGED place
  PROVE  Members' = Members /\ (UNCHANGED removals => Active' = Active)
BY DEF Members, Active

LEMMA SameStill ==
  ASSUME UNCHANGED <<kind, place, leaving, size, scaling, terraform, inventory, marker, removals>>
  PROVE  Still
BY SamePlaces DEF Still, terraform

Changes ==
    \/ Forget \/ Select \/ WriteJournal \/ RemovalPlaybook \/ Detach \/ UpdateSize \/ Rollback
    \/ PushState \/ ReplaceVariables \/ Reconfigure \/ Extend \/ ClearMarker
    \/ \E k \in 1..Cardinality(Fresh) : Grow(k)
    \/ OCI

LEMMA StillOrChanges == Inv /\ [Next]_vars => Still \/ Changes
<1> SUFFICES ASSUME Inv, [Next]_vars PROVE Still \/ Changes
  OBVIOUS
<1> USE SameStill DEF cloud, terraform, files
<1>1. ASSUME NEW mode \in Modes, NEW bare \in BOOLEAN, Start(mode, bare) PROVE Still \/ Changes
  BY <1>1 DEF Start
<1>2. CASE StartCleanup
  BY <1>2 DEF StartCleanup
<1>3. CASE ResumePlan
  BY <1>3 DEF ResumePlan
<1>4. CASE Resumed
  BY <1>4 DEF Resumed
<1>5. CASE Forget
  BY <1>5 DEF Changes
<1>6. CASE Recover
  BY <1>6 DEF Recover
<1>7. CASE Retried
  BY <1>7 DEF Retried
<1>8. CASE Finalize
  BY <1>8 DEF Finalize
<1>9. CASE Drop
  BY <1>9 DEF Drop
<1>10. CASE Decide
  BY <1>10 DEF Decide
<1>11. CASE Select
  BY <1>11 DEF Changes
<1>12. CASE WriteJournal
  BY <1>12 DEF Changes
<1>13. CASE RemovalPlaybook
  BY <1>13 DEF Changes
<1>14. CASE Removed
  BY <1>14 DEF Removed
<1>15. CASE Note
  BY <1>15 DEF Note
<1>16. CASE Detach
  BY <1>16 DEF Changes
<1>17. CASE Detached
  BY <1>17 DEF Detached
<1>18. CASE Terminate
  <2>1. Members' = Members
    BY <1>18 DEF Terminate, Members, At, Inv, Shape, Departed, Gone
  <2> QED
    BY <1>18, <2>1 DEF Terminate, Still, Active
<1>19. CASE Wipe
  BY <1>19 DEF Wipe
<1>20. CASE UpdateSize
  BY <1>20 DEF Changes
<1>21. CASE Await
  BY <1>21 DEF Await
<1>22. CASE Rollback
  BY <1>22 DEF Changes
<1>23. CASE Reconcile
  BY <1>23 DEF Reconcile
<1>24. CASE PushState
  BY <1>24 DEF Changes
<1>25. CASE ReplaceVariables
  BY <1>25 DEF Changes
<1>26. CASE Close
  BY <1>26 DEF Close
<1>27. CASE Reconfigure
  BY <1>27 DEF Changes
<1>28. CASE Extend
  BY <1>28 DEF Changes
<1>29. CASE Synchronize
  BY <1>29 DEF Synchronize
<1>30. CASE Synchronized
  BY <1>30 DEF Synchronized
<1>31. CASE ClearMarker
  BY <1>31 DEF Changes
<1>32. CASE Refuse
  BY <1>32 DEF Refuse
<1>33. ASSUME NEW n \in Node, ResumeOne(n) PROVE Still \/ Changes
  BY <1>33 DEF ResumeOne
<1>34. ASSUME NEW n \in Node, RetryOne(n) PROVE Still \/ Changes
  BY <1>34 DEF RetryOne
<1>35. ASSUME NEW n \in Node, RemoveOne(n) PROVE Still \/ Changes
  BY <1>35 DEF RemoveOne
<1>36. ASSUME NEW k \in 1..Cardinality(Fresh), Grow(k) PROVE Still \/ Changes
  BY <1>36 DEF Changes
<1>37. CASE AddFails
  BY <1>37 DEF AddFails
<1>38. CASE Stop
  BY <1>38 DEF Stop
<1>39. CASE Provision
  BY <1>39 DEF Changes, OCI
<1>40. CASE DetachTakesEffect
  BY <1>40 DEF Changes, OCI
<1>41. CASE ScaleIn
  BY <1>41 DEF Changes, OCI
<1>42. CASE Settle
  BY <1>42 DEF Changes, OCI
<1>43. CASE UNCHANGED vars
  BY <1>43 DEF vars
<1> QED
  BY <1>1, <1>2, <1>3, <1>4, <1>5, <1>6, <1>7, <1>8, <1>9, <1>10, <1>11, <1>12, <1>13, <1>14,
     <1>15, <1>16, <1>17, <1>18, <1>19, <1>20, <1>21, <1>22, <1>23, <1>24, <1>25, <1>26, <1>27,
     <1>28, <1>29, <1>30, <1>31, <1>32, <1>33, <1>34, <1>35, <1>36, <1>37, <1>38, <1>39, <1>40,
     <1>41, <1>42, <1>43 DEF Next, Resize, OCI

LEMMA Finite ==
  ASSUME NEW S \in SUBSET Node
  PROVE  IsFiniteSet(S) /\ Cardinality(S) \in Nat
BY Pool, FS_Subset, FS_CardinalityType

\* A member that leaves is named by the journal; the size, the members and what
\* the journal has still to take go down by one.
LEMMA OneLeaves ==
  ASSUME Inv, TypeOK, DetachTakesEffect
  PROVE  /\ size' = size - 1 /\ leaving # {} /\ ~(removals \subseteq run.done)
         /\ Cardinality(Members') = Cardinality(Members) - 1
         /\ Cardinality(Members') \in Nat
         /\ Cardinality(Active') = Cardinality(Active) - 1 /\ Cardinality(Active') \in Nat
<1>1. PICK n \in leaving : /\ place' = [place EXCEPT ![n] = "detached"]
                          /\ leaving' = leaving \ {n}
                          /\ size' = size - 1
                          /\ UNCHANGED files
  BY DEF DetachTakesEffect
<1>2. n \in Members /\ n \in Node /\ place[n] = "member"
  BY DEF TypeOK, Members
<1>3. n \in removals /\ n \notin run.done
  BY <1>2 DEF Inv, Named, Concerned, Departed, Gone
<1>4. Members' = Members \ {n}
  BY <1>1 DEF Members, TypeOK
<1>5. Active' = Active \ {n} /\ n \in Active
  BY <1>1, <1>2, <1>3, <1>4 DEF Active, files
<1>6. IsFiniteSet(Members) /\ IsFiniteSet(Active)
  BY Finite DEF Members, Active
<1> QED
  BY <1>1, <1>2, <1>3, <1>4, <1>5, <1>6, FS_RemoveElement, FS_CardinalityType

LEMMA Counts == IsFiniteSet(Members) /\ Cardinality(Members) \in Nat /\ Cardinality(Active) \in Nat
BY Finite DEF Members, Active

LEMMA SettledNext == Inv /\ TypeOK /\ Sizes /\ [Next]_vars => Settled'
<1> SUFFICES ASSUME Inv, TypeOK, Sizes, [Next]_vars PROVE Settled'
  OBVIOUS
<1> USE DEF Sizes, Settled, Parent, cloud, files
<1>1. CASE Still
  BY <1>1 DEF Still
<1>2. CASE Forget
  BY <1>2, SamePlaces DEF Forget
<1>3. CASE Select
  BY <1>3, SamePlaces DEF Select
<1>4. CASE WriteJournal
  BY <1>4, SamePlaces DEF WriteJournal
<1>5. CASE RemovalPlaybook
  BY <1>5, SamePlaces DEF RemovalPlaybook
<1>6. CASE Detach
  BY <1>6, SamePlaces DEF Detach
<1>7. CASE UpdateSize
  BY <1>7, SamePlaces DEF UpdateSize
<1>8. CASE Rollback
  BY <1>8, SamePlaces DEF Rollback
<1>9. CASE PushState
  BY <1>9, SamePlaces DEF PushState
<1>10. CASE ReplaceVariables
  BY <1>10, SamePlaces DEF ReplaceVariables
<1>11. CASE Reconfigure
  BY <1>11, SamePlaces DEF Reconfigure
<1>12. CASE Extend
  BY <1>12, SamePlaces DEF Extend
<1>13. CASE ClearMarker
  BY <1>13, SamePlaces DEF ClearMarker
<1>14. ASSUME NEW k \in 1..Cardinality(Fresh), Grow(k) PROVE Settled'
  BY <1>14, SamePlaces DEF Grow
<1>15. CASE Provision
  BY <1>15, Counts DEF Provision, TypeOK
<1>16. CASE DetachTakesEffect
  BY <1>16, OneLeaves DEF DetachTakesEffect
<1>17. CASE ScaleIn
  BY <1>17, Counts DEF ScaleIn, TypeOK
<1>18. CASE Settle
  BY <1>18, SamePlaces DEF Settle
<1> QED
  BY StillOrChanges, <1>1, <1>2, <1>3, <1>4, <1>5, <1>6, <1>7, <1>8, <1>9, <1>10, <1>11, <1>12,
     <1>13, <1>14, <1>15, <1>16, <1>17, <1>18 DEF Changes, OCI

\* A removal commits to one or more members of a settled pool, an add to more
\* than its size.
LEMMA SelectCommits ==
  ASSUME Inv, TypeOK, Sizes, Select, ~run.resuming
  PROVE  /\ marker = None /\ removals = {} /\ Agreed /\ Cardinality(Members) = size
         /\ \E c \in SUBSET Members :
               /\ c # {} /\ Cardinality(c) \in 1..size
               /\ run' = [run EXCEPT !.step = "journal", !.chosen = c]
               /\ marker' = [action |-> "remove", source |-> size,
                             target |-> size - Cardinality(c), bare |-> run.bare]
               /\ marker' # None /\ marker' \in Commitment
         /\ UNCHANGED <<Members, Active, cloud, terraform, inventory, removals>>
<1>1. marker = None /\ removals = {} /\ Agreed /\ run.seen = size
  BY DEF Select, At, Sizes, Stage, Unmarked, Seen
<1>2. Cardinality(Members) = size
  BY DEF Select, Running, Sizes, Settled
<1>3. PICK c \in Selectable : /\ WriteMarker("remove", run.seen - Cardinality(c))
                              /\ run' = [run EXCEPT !.step = "journal", !.chosen = c]
  BY DEF Select
<1>4. c \in SUBSET Members /\ c # {}
  BY DEF Selectable
<1>5. Cardinality(c) \in 1..size
  <2>1. IsFiniteSet(c) /\ Cardinality(c) \in Nat /\ Cardinality(c) <= Cardinality(Members)
    BY <1>4, Counts, FS_Subset, FS_CardinalityType
  <2>2. Cardinality(c) # 0
    BY <1>4, <2>1, FS_EmptySet
  <2> QED
    BY <1>2, <2>1, <2>2, Counts
<1>6. run.bare \in BOOLEAN /\ size \in Nat
  BY DEF TypeOK
<1>7. marker' = [action |-> "remove", source |-> size, target |-> size - Cardinality(c),
                bare |-> run.bare]
  BY <1>1, <1>3 DEF WriteMarker
<1>8. marker' \in Commitment
  BY <1>5, <1>6, <1>7 DEF Commitment
<1>9. UNCHANGED <<Members, Active, cloud, terraform, inventory, removals>>
  BY SamePlaces DEF Select, cloud
<1> QED
  BY <1>1, <1>2, <1>3, <1>4, <1>5, <1>7, <1>8, <1>9, NoMarker

LEMMA GrowCommits ==
  ASSUME Inv, TypeOK, Sizes, NEW k \in 1..Cardinality(Fresh), Grow(k)
  PROVE  /\ marker = None /\ removals = {} /\ Agreed /\ Cardinality(Members) = size
         /\ k \in Nat /\ k > 0
         /\ marker' = [action |-> "add", source |-> size, target |-> size + k, bare |-> run.bare]
         /\ marker' # None /\ marker' \in Commitment
<1>1. marker = None /\ removals = {} /\ Agreed /\ run.seen = size
  BY DEF Grow, At, Sizes, Stage, Unmarked, Seen
<1>2. Cardinality(Members) = size
  BY DEF Grow, Running, Sizes, Settled
<1>3. k \in Nat /\ k > 0
  BY Finite DEF Fresh
<1>4. run.bare \in BOOLEAN /\ size \in Nat
  BY DEF TypeOK
<1>5. marker' = [action |-> "add", source |-> size, target |-> size + k, bare |-> run.bare]
  BY <1>1 DEF Grow, WriteMarker
<1>6. marker' \in Commitment
  BY <1>3, <1>4, <1>5 DEF Commitment
<1> QED
  BY <1>1, <1>2, <1>3, <1>5, <1>6, NoMarker

LEMMA UnmarkedNext == Inv /\ TypeOK /\ Sizes /\ [Next]_vars => Unmarked'
<1> SUFFICES ASSUME Inv, TypeOK, Sizes, [Next]_vars PROVE Unmarked'
  OBVIOUS
<1> USE DEF Sizes, Unmarked, Agreed, terraform, cloud, files, At
<1>1. CASE Still
  BY <1>1 DEF Still
<1>2. CASE Forget
  BY <1>2 DEF Forget
<1>3. CASE Select
  <2>1. CASE run.resuming
    BY <1>3, <2>1 DEF Select
  <2>2. CASE ~run.resuming
    BY <1>3, <2>2, SelectCommits
  <2> QED
    BY <2>1, <2>2
<1>4. CASE WriteJournal
  BY <1>4 DEF WriteJournal, Chosen, Removing
<1>5. CASE RemovalPlaybook
  BY <1>5 DEF RemovalPlaybook
<1>6. CASE Detach
  BY <1>6 DEF Detach
<1>7. CASE UpdateSize
  BY <1>7 DEF UpdateSize, Stage, Adding, Inv, Path
<1>8. CASE Rollback
  BY <1>8 DEF Rollback, Stage, Adding, Inv, Path
<1>9. CASE PushState
  BY <1>9 DEF PushState
<1>10. CASE ReplaceVariables
  BY <1>10 DEF ReplaceVariables
<1>11. CASE Reconfigure
  BY <1>11 DEF Reconfigure
<1>12. CASE Extend
  BY <1>12 DEF Extend
<1>13. CASE ClearMarker
  BY <1>13 DEF ClearMarker, Recorded
<1>14. ASSUME NEW k \in 1..Cardinality(Fresh), Grow(k) PROVE Unmarked'
  BY <1>14, GrowCommits DEF Grow
<1>15. CASE Provision
  BY <1>15 DEF Provision
<1>16. CASE DetachTakesEffect
  BY <1>16, OneLeaves DEF DetachTakesEffect
<1>17. CASE ScaleIn
  BY <1>17 DEF ScaleIn
<1>18. CASE Settle
  BY <1>18 DEF Settle
<1> QED
  BY StillOrChanges, <1>1, <1>2, <1>3, <1>4, <1>5, <1>6, <1>7, <1>8, <1>9, <1>10, <1>11, <1>12,
     <1>13, <1>14, <1>15, <1>16, <1>17, <1>18 DEF Changes, OCI

---------------------------------------------------------------------------

LEMMA GrowingNext == Inv /\ TypeOK /\ Sizes /\ [Next]_vars => Growing'
<1> SUFFICES ASSUME Inv, TypeOK, Sizes, [Next]_vars PROVE Growing'
  OBVIOUS
<1> USE DEF Sizes, Growing, Agreed, Adding, Removing, Unrecorded, terraform, cloud, files, At
<1>1. CASE Still
  BY <1>1 DEF Still
<1>2. CASE Forget
  BY <1>2 DEF Forget
<1>3. CASE Select
  <2>1. CASE run.resuming
    BY <1>3, <2>1 DEF Select
  <2>2. CASE ~run.resuming
    <3>1. PICK c \in SUBSET Members :
             marker' = [action |-> "remove", source |-> size,
                        target |-> size - Cardinality(c), bare |-> run.bare]
             /\ Cardinality(c) \in 1..size
      BY <1>3, <2>2, SelectCommits
    <3>2. marker'.action = "remove" /\ marker'.source = size
          /\ marker'.target = size - Cardinality(c)
      BY <3>1
    <3> QED
      BY <3>1, <3>2
  <2> QED
    BY <2>1, <2>2
<1>4. CASE WriteJournal
  BY <1>4 DEF WriteJournal, Chosen
<1>5. CASE RemovalPlaybook
  BY <1>5 DEF RemovalPlaybook, Stage
<1>6. CASE Detach
  BY <1>6 DEF Detach
<1>7. CASE UpdateSize
  BY <1>7 DEF UpdateSize, Stage, Recorded, Inv, Path
<1>8. CASE Rollback
  BY <1>8 DEF Rollback, Stage, Recorded, Inv, Path
<1>9. CASE PushState
  BY <1>9 DEF PushState
<1>10. CASE ReplaceVariables
  BY <1>10 DEF ReplaceVariables
<1>11. CASE Reconfigure
  BY <1>11 DEF Reconfigure, Recorded
<1>12. CASE Extend
  BY <1>12 DEF Extend, Recorded
<1>13. CASE ClearMarker
  BY <1>13 DEF ClearMarker
<1>14. ASSUME NEW k \in 1..Cardinality(Fresh), Grow(k) PROVE Growing'
  BY <1>14, GrowCommits DEF Grow, TypeOK
<1>15. CASE Provision
  BY <1>15 DEF Provision
<1>16. CASE DetachTakesEffect
  BY <1>16, OneLeaves DEF DetachTakesEffect
<1>17. CASE ScaleIn
  BY <1>17 DEF ScaleIn
<1>18. CASE Settle
  BY <1>18 DEF Settle
<1> QED
  BY StillOrChanges, <1>1, <1>2, <1>3, <1>4, <1>5, <1>6, <1>7, <1>8, <1>9, <1>10, <1>11, <1>12,
     <1>13, <1>14, <1>15, <1>16, <1>17, <1>18 DEF Changes, OCI

LEMMA MarkerType ==
  ASSUME TypeOK, marker # None
  PROVE  marker.source \in Nat /\ marker.target \in Nat /\ size \in Nat
BY DEF TypeOK, Commitment

LEMMA DoneIsGone ==
  ASSUME Inv
  PROVE  \A n \in Members : n \notin run.done
BY DEF Inv, Departed, Gone, Members

LEMMA ShrinkingNext == Inv /\ TypeOK /\ Sizes /\ [Next]_vars => Shrinking'
<1> SUFFICES ASSUME Inv, TypeOK, Sizes, [Next]_vars PROVE Shrinking'
  OBVIOUS
<1> USE SamePlaces, Counts, MarkerType DEF Sizes, Shrinking, Agreed, Adding, Removing, terraform, cloud, files, At
<1>1. CASE Still
  BY <1>1 DEF Still
<1>2. CASE Forget
  <2>0. Members' = Members
    BY <1>2 DEF Forget
  <2>1. CASE UNCHANGED removals
    BY <1>2, <2>1 DEF Forget
  <2>2. CASE \E n \in run.done \intersect removals : removals' = removals \ {n}
    <3>1. PICK n \in run.done \intersect removals : removals' = removals \ {n}
      BY <2>2
    <3>2. Active' = Active
      BY <2>0, <3>1, DoneIsGone DEF Active
    <3>3. removals' = {} => Active = {} /\ removals \subseteq run.done
      BY <3>1, DoneIsGone DEF Active
    <3>4. Cardinality({}) = 0
      BY FS_EmptySet
    <3> QED
      BY <1>2, <2>0, <3>1, <3>2, <3>3, <3>4 DEF Forget, Recorded
  <2> QED
    BY <1>2, <2>1, <2>2 DEF Forget
<1>3. CASE Select
  <2>1. CASE run.resuming
    BY <1>3, <2>1 DEF Select
  <2>2. CASE ~run.resuming
    <3>1. PICK c \in SUBSET Members :
             marker' = [action |-> "remove", source |-> size,
                        target |-> size - Cardinality(c), bare |-> run.bare]
             /\ Cardinality(c) \in 1..size
      BY <1>3, <2>2, SelectCommits
    <3>2. marker'.action = "remove" /\ marker'.source = size
          /\ marker'.target = size - Cardinality(c)
      BY <3>1
    <3>3. /\ removals = {} /\ Agreed /\ Cardinality(Members) = size
          /\ UNCHANGED <<Members, size, tfSize, nodeCount, removals>>
      BY <1>3, <2>2, SelectCommits
    <3> QED
      BY <3>1, <3>2, <3>3
  <2> QED
    BY <2>1, <2>2
<1>4. CASE WriteJournal
  <2>1. Active' = run.chosen /\ Members' = Members
    BY <1>4 DEF WriteJournal, Chosen, Active
  <2> QED
    BY <1>4, <2>1 DEF WriteJournal, Chosen
<1>5. CASE RemovalPlaybook
  BY <1>5 DEF RemovalPlaybook
<1>6. CASE Detach
  BY <1>6 DEF Detach
<1>7. CASE UpdateSize
  BY <1>7 DEF UpdateSize, Stage, Inv, Path
<1>8. CASE Rollback
  BY <1>8 DEF Rollback, Stage, Inv, Path
<1>9. CASE PushState
  BY <1>9 DEF PushState
<1>10. CASE ReplaceVariables
  BY <1>10 DEF ReplaceVariables
<1>11. CASE Reconfigure
  BY <1>11 DEF Reconfigure
<1>12. CASE Extend
  BY <1>12 DEF Extend
<1>13. CASE ClearMarker
  BY <1>13 DEF ClearMarker
<1>14. ASSUME NEW k \in 1..Cardinality(Fresh), Grow(k) PROVE Shrinking'
  BY <1>14, GrowCommits DEF Grow
<1>15. CASE Provision
  BY <1>15 DEF Provision, TypeOK
<1>16. CASE DetachTakesEffect
  <2>1. /\ UNCHANGED <<marker, removals, tfSize, nodeCount>>
        /\ size' = size - 1 /\ removals # {}
        /\ Cardinality(Members') = Cardinality(Members) - 1
        /\ Cardinality(Active') = Cardinality(Active) - 1
    BY <1>16, OneLeaves DEF DetachTakesEffect
  <2> QED
    BY <2>1
<1>17. CASE ScaleIn
  BY <1>17 DEF ScaleIn, TypeOK
<1>18. CASE Settle
  BY <1>18 DEF Settle
<1> QED
  BY StillOrChanges, <1>1, <1>2, <1>3, <1>4, <1>5, <1>6, <1>7, <1>8, <1>9, <1>10, <1>11, <1>12,
     <1>13, <1>14, <1>15, <1>16, <1>17, <1>18 DEF Changes, OCI

---------------------------------------------------------------------------

LEMMA SeenNext == Inv /\ TypeOK /\ Sizes /\ [Next]_vars => Seen'
<1> SUFFICES ASSUME Inv, TypeOK, Sizes, [Next]_vars PROVE Seen'
  OBVIOUS
<1>0. Shape /\ run.step \in Steps
  BY DEF Inv, TypeOK
<1> USE <1>0 DEF Sizes, Shape, Seen, At, Goto, Exit, Idle, cloud, terraform, files
<1>1. ASSUME NEW mode \in Modes, NEW bare \in BOOLEAN, Start(mode, bare) PROVE Seen'
  BY <1>1 DEF Start
<1>2. CASE StartCleanup
  BY <1>2 DEF StartCleanup
<1>3. CASE ResumePlan
  BY <1>3 DEF ResumePlan
<1>4. CASE Resumed
  BY <1>4 DEF Resumed
<1>5. CASE Forget
  BY <1>5 DEF Forget
<1>6. CASE Recover
  BY <1>6 DEF Recover
<1>7. CASE Retried
  BY <1>7 DEF Retried
<1>8. CASE Finalize
  BY <1>8 DEF Finalize
<1>9. CASE Drop
  BY <1>9 DEF Drop
<1>10. CASE Decide
  <2>1. CASE marker # None /\ ~run.resuming
    BY <1>10, <2>1 DEF Decide
  <2>2. CASE ~(marker # None /\ ~run.resuming) /\ run.mode = "remove" /\ ~run.resuming
             /\ run.done # {}
    BY <1>10, <2>2 DEF Decide
  <2>3. CASE ~(marker # None /\ ~run.resuming)
             /\ ~(run.mode = "remove" /\ ~run.resuming /\ run.done # {})
    <3>1. \E s \in {"reconfigure", "select", "grow"} :
             /\ run' = [run EXCEPT !.step = s] /\ UNCHANGED <<cloud, terraform, files>>
             /\ s = "select" <=> run.mode = "remove"
             /\ s = "reconfigure" <=> run.mode = "reconfigure"
      BY <1>10, <2>3 DEF Decide
    <3> QED
      BY <1>10, <2>3, <3>1 DEF Decide
  <2> QED
    BY <2>1, <2>2, <2>3
<1>11. CASE Select
  <2>1. CASE run.resuming
    BY <1>11, <2>1 DEF Select
  <2>2. CASE ~run.resuming
    <3>1. PICK c \in SUBSET Members :
             /\ c # {} /\ Cardinality(c) \in 1..size
             /\ run' = [run EXCEPT !.step = "journal", !.chosen = c]
             /\ marker' = [action |-> "remove", source |-> size,
                           target |-> size - Cardinality(c), bare |-> run.bare]
             /\ marker' # None
      BY <1>11, <2>2, SelectCommits
    <3>2. marker'.action = "remove" /\ marker'.source = size
          /\ marker'.target = size - Cardinality(c)
      BY <3>1
    <3>3. /\ marker = None /\ removals = {} /\ Agreed /\ Cardinality(Members) = size
          /\ UNCHANGED <<Members, size, tfSize, nodeCount, inventory, removals>>
      BY <1>11, <2>2, SelectCommits DEF terraform, cloud
    <3> QED
      BY <1>11, <2>2, <3>1, <3>2, <3>3 DEF Select
  <2> QED
    BY <2>1, <2>2
<1>12. CASE WriteJournal
  BY <1>12 DEF WriteJournal
<1>13. CASE RemovalPlaybook
  BY <1>13 DEF RemovalPlaybook
<1>14. CASE Removed
  BY <1>14 DEF Removed
<1>15. CASE Note
  BY <1>15 DEF Note
<1>16. CASE Detach
  BY <1>16 DEF Detach
<1>17. CASE Detached
  BY <1>17 DEF Detached
<1>18. CASE Terminate
  BY <1>18 DEF Terminate
<1>19. CASE Wipe
  BY <1>19 DEF Wipe
<1>20. CASE UpdateSize
  BY <1>20 DEF UpdateSize, Stage, Adding, Inv, Path
<1>21. CASE Await
  BY <1>21 DEF Await
<1>22. CASE Rollback
  BY <1>22 DEF Rollback, Stage, Adding, Inv, Path
<1>23. CASE Reconcile
  BY <1>23 DEF Reconcile
<1>24. CASE PushState
  BY <1>24 DEF PushState
<1>25. CASE ReplaceVariables
  BY <1>25 DEF ReplaceVariables
<1>26. CASE Close
  BY <1>26 DEF Close
<1>27. CASE Reconfigure
  BY <1>27 DEF Reconfigure
<1>28. CASE Extend
  BY <1>28 DEF Extend
<1>29. CASE Synchronize
  BY <1>29 DEF Synchronize
<1>30. CASE Synchronized
  BY <1>30 DEF Synchronized
<1>31. CASE ClearMarker
  BY <1>31 DEF ClearMarker
<1>32. CASE Refuse
  BY <1>32 DEF Refuse
<1>33. ASSUME NEW n \in Node, ResumeOne(n) PROVE Seen'
  BY <1>33 DEF ResumeOne
<1>34. ASSUME NEW n \in Node, RetryOne(n) PROVE Seen'
  BY <1>34 DEF RetryOne
<1>35. ASSUME NEW n \in Node, RemoveOne(n) PROVE Seen'
  BY <1>35 DEF RemoveOne
<1>36. ASSUME NEW k \in 1..Cardinality(Fresh), Grow(k) PROVE Seen'
  BY <1>36, GrowCommits DEF Grow
<1>37. CASE AddFails
  BY <1>37 DEF AddFails
<1>38. CASE Stop
  BY <1>38 DEF Stop
<1>39. CASE Provision
  BY <1>39 DEF Provision
<1>40. CASE DetachTakesEffect
  BY <1>40, OneLeaves DEF DetachTakesEffect, Unmarked
<1>41. CASE ScaleIn
  BY <1>41 DEF ScaleIn
<1>42. CASE Settle
  BY <1>42 DEF Settle
<1>43. CASE UNCHANGED vars
  BY <1>43 DEF vars
<1> QED
  BY <1>1, <1>2, <1>3, <1>4, <1>5, <1>6, <1>7, <1>8, <1>9, <1>10, <1>11, <1>12, <1>13, <1>14,
     <1>15, <1>16, <1>17, <1>18, <1>19, <1>20, <1>21, <1>22, <1>23, <1>24, <1>25, <1>26, <1>27,
     <1>28, <1>29, <1>30, <1>31, <1>32, <1>33, <1>34, <1>35, <1>36, <1>37, <1>38, <1>39, <1>40,
     <1>41, <1>42, <1>43 DEF Next, Resize, OCI

LEMMA RestNext == Inv /\ TypeOK /\ Sizes /\ [Next]_vars => Rest'
<1> SUFFICES ASSUME Inv, TypeOK, Sizes, [Next]_vars PROVE Rest'
  OBVIOUS
<1>0. Shape /\ Path /\ Emptied
  BY DEF Inv
<1> USE <1>0 DEF Sizes, Shape, Path, TakingDown, Rest, Removing, At, Goto, Exit, Idle, cloud, terraform, files
<1>1. ASSUME NEW mode \in Modes, NEW bare \in BOOLEAN, Start(mode, bare) PROVE Rest'
  BY <1>1 DEF Start
<1>2. CASE StartCleanup
  BY <1>2 DEF StartCleanup
<1>3. CASE ResumePlan
  BY <1>3 DEF ResumePlan
<1>4. CASE Resumed
  <2>1. Active # {} => Removing
    <3>1. Active # {} => removals # {}
      BY DEF Active
    <3>2. marker # None => marker.action \in {"add", "remove"}
      BY DEF TypeOK, Commitment
    <3> QED
      BY <3>1, <3>2 DEF Unmarked, Growing, Adding
  <2>2. Active \subseteq removals
    BY DEF Active
  <2> QED
    BY <1>4, <2>1, <2>2 DEF Resumed, MayResume
<1>5. CASE Forget
  BY <1>5 DEF Forget
<1>6. CASE Recover
  BY <1>6 DEF Recover
<1>7. CASE Retried
  BY <1>7 DEF Retried
<1>8. CASE Finalize
  BY <1>8 DEF Finalize
<1>9. CASE Drop
  BY <1>9 DEF Drop
<1>10. CASE Decide
  <2>1. CASE marker # None /\ ~run.resuming
    BY <1>10, <2>1 DEF Decide
  <2>2. CASE ~(marker # None /\ ~run.resuming) /\ run.mode = "remove" /\ ~run.resuming
             /\ run.done # {}
    BY <1>10, <2>2 DEF Decide
  <2>3. CASE ~(marker # None /\ ~run.resuming)
             /\ ~(run.mode = "remove" /\ ~run.resuming /\ run.done # {})
    <3>1. \E s \in {"reconfigure", "select", "grow"} :
             /\ run' = [run EXCEPT !.step = s] /\ UNCHANGED <<cloud, terraform, files>>
             /\ s = "select" <=> run.mode = "remove"
             /\ s = "reconfigure" <=> run.mode = "reconfigure"
      BY <1>10, <2>3 DEF Decide
    <3> QED
      BY <1>10, <2>3, <3>1 DEF Decide
  <2> QED
    BY <2>1, <2>2, <2>3
<1>11. CASE Select
  <2>1. CASE run.resuming
    BY <1>11, <2>1 DEF Select
  <2>2. CASE ~run.resuming
    <3>1. PICK c \in SUBSET Members :
             /\ c # {} /\ Cardinality(c) \in 1..size
             /\ run' = [run EXCEPT !.step = "journal", !.chosen = c]
             /\ marker' = [action |-> "remove", source |-> size,
                           target |-> size - Cardinality(c), bare |-> run.bare]
             /\ marker' # None
      BY <1>11, <2>2, SelectCommits
    <3>2. marker'.action = "remove" /\ marker'.source = size
          /\ marker'.target = size - Cardinality(c)
      BY <3>1
    <3>3. /\ marker = None /\ removals = {} /\ Agreed /\ Cardinality(Members) = size
          /\ UNCHANGED <<Members, size, tfSize, nodeCount, inventory, removals>>
      BY <1>11, <2>2, SelectCommits DEF terraform, cloud
    <3> QED
      BY <1>11, <2>2, <3>1, <3>2, <3>3 DEF Select
  <2> QED
    BY <2>1, <2>2
<1>12. CASE WriteJournal
  BY <1>12 DEF WriteJournal
<1>13. CASE RemovalPlaybook
  BY <1>13 DEF RemovalPlaybook
<1>14. CASE Removed
  BY <1>14 DEF Removed
<1>15. CASE Note
  BY <1>15 DEF Note
<1>16. CASE Detach
  BY <1>16 DEF Detach
<1>17. CASE Detached
  BY <1>17 DEF Detached
<1>18. CASE Terminate
  BY <1>18 DEF Terminate
<1>19. CASE Wipe
  BY <1>19 DEF Wipe
<1>20. CASE UpdateSize
  BY <1>20 DEF UpdateSize
<1>21. CASE Await
  BY <1>21 DEF Await
<1>22. CASE Rollback
  BY <1>22 DEF Rollback
<1>23. CASE Reconcile
  BY <1>23 DEF Reconcile
<1>24. CASE PushState
  BY <1>24 DEF PushState
<1>25. CASE ReplaceVariables
  BY <1>25 DEF ReplaceVariables
<1>26. CASE Close
  BY <1>26 DEF Close
<1>27. CASE Reconfigure
  BY <1>27 DEF Reconfigure
<1>28. CASE Extend
  BY <1>28 DEF Extend
<1>29. CASE Synchronize
  BY <1>29 DEF Synchronize
<1>30. CASE Synchronized
  BY <1>30 DEF Synchronized
<1>31. CASE ClearMarker
  BY <1>31 DEF ClearMarker
<1>32. CASE Refuse
  BY <1>32 DEF Refuse
<1>33. ASSUME NEW n \in Node, ResumeOne(n) PROVE Rest'
  BY <1>33 DEF ResumeOne
<1>34. ASSUME NEW n \in Node, RetryOne(n) PROVE Rest'
  BY <1>34 DEF RetryOne
<1>35. ASSUME NEW n \in Node, RemoveOne(n) PROVE Rest'
  BY <1>35 DEF RemoveOne
<1>36. ASSUME NEW k \in 1..Cardinality(Fresh), Grow(k) PROVE Rest'
  BY <1>36, GrowCommits DEF Grow, Stage
<1>37. CASE AddFails
  BY <1>37 DEF AddFails
<1>38. CASE Stop
  BY <1>38 DEF Stop
<1>39. CASE Provision
  BY <1>39 DEF Provision
<1>40. CASE DetachTakesEffect
  BY <1>40 DEF DetachTakesEffect
<1>41. CASE ScaleIn
  BY <1>41 DEF ScaleIn
<1>42. CASE Settle
  BY <1>42 DEF Settle
<1>43. CASE UNCHANGED vars
  BY <1>43 DEF vars
<1> QED
  BY <1>1, <1>2, <1>3, <1>4, <1>5, <1>6, <1>7, <1>8, <1>9, <1>10, <1>11, <1>12, <1>13, <1>14,
     <1>15, <1>16, <1>17, <1>18, <1>19, <1>20, <1>21, <1>22, <1>23, <1>24, <1>25, <1>26, <1>27,
     <1>28, <1>29, <1>30, <1>31, <1>32, <1>33, <1>34, <1>35, <1>36, <1>37, <1>38, <1>39, <1>40,
     <1>41, <1>42, <1>43 DEF Next, Resize, OCI

LEMMA StageNext == Inv /\ TypeOK /\ Sizes /\ [Next]_vars => Stage'
<1> SUFFICES ASSUME Inv, TypeOK, Sizes, [Next]_vars PROVE Stage'
  OBVIOUS
<1>0. Shape /\ Path /\ Emptied
  BY DEF Inv
<1> USE <1>0 DEF Sizes, Shape, Path, TakingDown, Stage, Removing, Adding, At, Goto, Exit, Idle, cloud, terraform, files
<1>1. ASSUME NEW mode \in Modes, NEW bare \in BOOLEAN, Start(mode, bare) PROVE Stage'
  BY <1>1 DEF Start
<1>2. CASE StartCleanup
  BY <1>2 DEF StartCleanup
<1>3. CASE ResumePlan
  BY <1>3 DEF ResumePlan
<1>4. CASE Resumed
  BY <1>4 DEF Resumed
<1>5. CASE Forget
  BY <1>5 DEF Forget
<1>6. CASE Recover
  BY <1>6 DEF Recover
<1>7. CASE Retried
  BY <1>7 DEF Retried
<1>8. CASE Finalize
  BY <1>8 DEF Finalize
<1>9. CASE Drop
  BY <1>9 DEF Drop
<1>10. CASE Decide
  <2>1. CASE marker # None /\ ~run.resuming
    BY <1>10, <2>1 DEF Decide, Rest, Emptied
  <2>2. CASE ~(marker # None /\ ~run.resuming) /\ run.mode = "remove" /\ ~run.resuming
             /\ run.done # {}
    BY <1>10, <2>2 DEF Decide, Rest, Emptied
  <2>3. CASE ~(marker # None /\ ~run.resuming)
             /\ ~(run.mode = "remove" /\ ~run.resuming /\ run.done # {})
    <3>1. \E s \in {"reconfigure", "select", "grow"} :
             /\ run' = [run EXCEPT !.step = s] /\ UNCHANGED <<cloud, terraform, files>>
             /\ s = "select" <=> run.mode = "remove"
             /\ s = "reconfigure" <=> run.mode = "reconfigure"
      BY <1>10, <2>3 DEF Decide
    <3> QED
      BY <1>10, <2>3, <3>1 DEF Decide, Rest, Emptied
  <2> QED
    BY <2>1, <2>2, <2>3
<1>11. CASE Select
  <2>1. CASE run.resuming
    BY <1>11, <2>1 DEF Select, Rest
  <2>2. CASE ~run.resuming
    <3>1. PICK c \in SUBSET Members :
             /\ c # {} /\ Cardinality(c) \in 1..size
             /\ run' = [run EXCEPT !.step = "journal", !.chosen = c]
             /\ marker' = [action |-> "remove", source |-> size,
                           target |-> size - Cardinality(c), bare |-> run.bare]
             /\ marker' # None
      BY <1>11, <2>2, SelectCommits
    <3>2. marker'.action = "remove" /\ marker'.source = size
          /\ marker'.target = size - Cardinality(c)
      BY <3>1
    <3>3. /\ marker = None /\ removals = {} /\ Agreed /\ Cardinality(Members) = size
          /\ UNCHANGED <<Members, size, tfSize, nodeCount, inventory, removals>>
      BY <1>11, <2>2, SelectCommits DEF terraform, cloud
    <3> QED
      BY <1>11, <2>2, <3>1, <3>2, <3>3 DEF Select, Rest
  <2> QED
    BY <2>1, <2>2
<1>12. CASE WriteJournal
  BY <1>12 DEF WriteJournal, Chosen
<1>13. CASE RemovalPlaybook
  BY <1>13 DEF RemovalPlaybook
<1>14. CASE Removed
  BY <1>14 DEF Removed
<1>15. CASE Note
  BY <1>15 DEF Note
<1>16. CASE Detach
  BY <1>16 DEF Detach
<1>17. CASE Detached
  BY <1>17 DEF Detached
<1>18. CASE Terminate
  BY <1>18 DEF Terminate
<1>19. CASE Wipe
  BY <1>19 DEF Wipe
<1>20. CASE UpdateSize
  BY <1>20 DEF UpdateSize
<1>21. CASE Await
  BY <1>21 DEF Await
<1>22. CASE Rollback
  BY <1>22 DEF Rollback
<1>23. CASE Reconcile
  BY <1>23 DEF Reconcile
<1>24. CASE PushState
  BY <1>24 DEF PushState
<1>25. CASE ReplaceVariables
  BY <1>25 DEF ReplaceVariables
<1>26. CASE Close
  BY <1>26 DEF Close
<1>27. CASE Reconfigure
  BY <1>27 DEF Reconfigure
<1>28. CASE Extend
  BY <1>28 DEF Extend
<1>29. CASE Synchronize
  BY <1>29 DEF Synchronize
<1>30. CASE Synchronized
  BY <1>30 DEF Synchronized
<1>31. CASE ClearMarker
  BY <1>31 DEF ClearMarker
<1>32. CASE Refuse
  BY <1>32 DEF Refuse
<1>33. ASSUME NEW n \in Node, ResumeOne(n) PROVE Stage'
  BY <1>33 DEF ResumeOne
<1>34. ASSUME NEW n \in Node, RetryOne(n) PROVE Stage'
  BY <1>34 DEF RetryOne
<1>35. ASSUME NEW n \in Node, RemoveOne(n) PROVE Stage'
  BY <1>35 DEF RemoveOne
<1>36. ASSUME NEW k \in 1..Cardinality(Fresh), Grow(k) PROVE Stage'
  BY <1>36, GrowCommits DEF Grow
<1>37. CASE AddFails
  BY <1>37 DEF AddFails
<1>38. CASE Stop
  BY <1>38 DEF Stop
<1>39. CASE Provision
  BY <1>39 DEF Provision
<1>40. CASE DetachTakesEffect
  BY <1>40 DEF DetachTakesEffect
<1>41. CASE ScaleIn
  BY <1>41 DEF ScaleIn
<1>42. CASE Settle
  BY <1>42 DEF Settle
<1>43. CASE UNCHANGED vars
  BY <1>43 DEF vars
<1> QED
  BY <1>1, <1>2, <1>3, <1>4, <1>5, <1>6, <1>7, <1>8, <1>9, <1>10, <1>11, <1>12, <1>13, <1>14,
     <1>15, <1>16, <1>17, <1>18, <1>19, <1>20, <1>21, <1>22, <1>23, <1>24, <1>25, <1>26, <1>27,
     <1>28, <1>29, <1>30, <1>31, <1>32, <1>33, <1>34, <1>35, <1>36, <1>37, <1>38, <1>39, <1>40,
     <1>41, <1>42, <1>43 DEF Next, Resize, OCI

LEMMA ChosenNext == Inv /\ TypeOK /\ Sizes /\ [Next]_vars => Chosen'
<1> SUFFICES ASSUME Inv, TypeOK, Sizes, [Next]_vars PROVE Chosen'
  OBVIOUS
<1>0. Shape /\ Path /\ Emptied
  BY DEF Inv
<1> USE <1>0, SamePlaces, Counts DEF Sizes, Shape, Path, TakingDown, Chosen, Removing, At, Goto, Exit, Idle, cloud, terraform, files
<1>1. ASSUME NEW mode \in Modes, NEW bare \in BOOLEAN, Start(mode, bare) PROVE Chosen'
  BY <1>1 DEF Start
<1>2. CASE StartCleanup
  BY <1>2 DEF StartCleanup
<1>3. CASE ResumePlan
  BY <1>3 DEF ResumePlan
<1>4. CASE Resumed
  BY <1>4 DEF Resumed
<1>5. CASE Forget
  BY <1>5 DEF Forget
<1>6. CASE Recover
  BY <1>6 DEF Recover
<1>7. CASE Retried
  BY <1>7 DEF Retried
<1>8. CASE Finalize
  BY <1>8 DEF Finalize
<1>9. CASE Drop
  BY <1>9 DEF Drop
<1>10. CASE Decide
  <2>1. CASE marker # None /\ ~run.resuming
    BY <1>10, <2>1 DEF Decide
  <2>2. CASE ~(marker # None /\ ~run.resuming) /\ run.mode = "remove" /\ ~run.resuming
             /\ run.done # {}
    BY <1>10, <2>2 DEF Decide
  <2>3. CASE ~(marker # None /\ ~run.resuming)
             /\ ~(run.mode = "remove" /\ ~run.resuming /\ run.done # {})
    <3>1. \E s \in {"reconfigure", "select", "grow"} :
             /\ run' = [run EXCEPT !.step = s] /\ UNCHANGED <<cloud, terraform, files>>
             /\ s = "select" <=> run.mode = "remove"
             /\ s = "reconfigure" <=> run.mode = "reconfigure"
      BY <1>10, <2>3 DEF Decide
    <3> QED
      BY <1>10, <2>3, <3>1 DEF Decide
  <2> QED
    BY <2>1, <2>2, <2>3
<1>11. CASE Select
  <2>1. CASE run.resuming
    BY <1>11, <2>1 DEF Select
  <2>2. CASE ~run.resuming
    <3>1. PICK c \in SUBSET Members :
             /\ c # {} /\ Cardinality(c) \in 1..size
             /\ run' = [run EXCEPT !.step = "journal", !.chosen = c]
             /\ marker' = [action |-> "remove", source |-> size,
                           target |-> size - Cardinality(c), bare |-> run.bare]
             /\ marker' # None
      BY <1>11, <2>2, SelectCommits
    <3>2. marker'.action = "remove" /\ marker'.source = size
          /\ marker'.target = size - Cardinality(c)
      BY <3>1
    <3>3. /\ marker = None /\ removals = {} /\ Agreed /\ Cardinality(Members) = size
          /\ UNCHANGED <<Members, size, tfSize, nodeCount, inventory, removals>>
      BY <1>11, <2>2, SelectCommits DEF terraform, cloud
    <3>4. run'.chosen = c
      BY <3>1
    <3>5. size - Cardinality(c) + Cardinality(c) = size
      BY <3>1, <3>3
    <3> HIDE DEF Shape, Path
    <3> QED
      BY <3>1, <3>2, <3>3, <3>4, <3>5
  <2> QED
    BY <2>1, <2>2
<1>12. CASE WriteJournal
  BY <1>12 DEF WriteJournal
<1>13. CASE RemovalPlaybook
  BY <1>13 DEF RemovalPlaybook
<1>14. CASE Removed
  BY <1>14 DEF Removed
<1>15. CASE Note
  BY <1>15 DEF Note
<1>16. CASE Detach
  BY <1>16 DEF Detach
<1>17. CASE Detached
  BY <1>17 DEF Detached
<1>18. CASE Terminate
  BY <1>18 DEF Terminate
<1>19. CASE Wipe
  BY <1>19 DEF Wipe
<1>20. CASE UpdateSize
  BY <1>20 DEF UpdateSize
<1>21. CASE Await
  BY <1>21 DEF Await
<1>22. CASE Rollback
  BY <1>22 DEF Rollback
<1>23. CASE Reconcile
  BY <1>23 DEF Reconcile
<1>24. CASE PushState
  BY <1>24 DEF PushState
<1>25. CASE ReplaceVariables
  BY <1>25 DEF ReplaceVariables
<1>26. CASE Close
  BY <1>26 DEF Close
<1>27. CASE Reconfigure
  BY <1>27 DEF Reconfigure
<1>28. CASE Extend
  BY <1>28 DEF Extend
<1>29. CASE Synchronize
  BY <1>29 DEF Synchronize
<1>30. CASE Synchronized
  BY <1>30 DEF Synchronized
<1>31. CASE ClearMarker
  BY <1>31 DEF ClearMarker
<1>32. CASE Refuse
  BY <1>32 DEF Refuse
<1>33. ASSUME NEW n \in Node, ResumeOne(n) PROVE Chosen'
  BY <1>33 DEF ResumeOne
<1>34. ASSUME NEW n \in Node, RetryOne(n) PROVE Chosen'
  BY <1>34 DEF RetryOne
<1>35. ASSUME NEW n \in Node, RemoveOne(n) PROVE Chosen'
  BY <1>35 DEF RemoveOne
<1>36. ASSUME NEW k \in 1..Cardinality(Fresh), Grow(k) PROVE Chosen'
  BY <1>36 DEF Grow
<1>37. CASE AddFails
  BY <1>37 DEF AddFails
<1>38. CASE Stop
  BY <1>38 DEF Stop
<1>39. CASE Provision
  BY <1>39 DEF Provision, Shrinking
<1>40. CASE DetachTakesEffect
  BY <1>40, OneLeaves DEF DetachTakesEffect, Emptied
<1>41. CASE ScaleIn
  BY <1>41 DEF ScaleIn, Shrinking
<1>42. CASE Settle
  BY <1>42 DEF Settle
<1>43. CASE UNCHANGED vars
  BY <1>43 DEF vars
<1> QED
  BY <1>1, <1>2, <1>3, <1>4, <1>5, <1>6, <1>7, <1>8, <1>9, <1>10, <1>11, <1>12, <1>13, <1>14,
     <1>15, <1>16, <1>17, <1>18, <1>19, <1>20, <1>21, <1>22, <1>23, <1>24, <1>25, <1>26, <1>27,
     <1>28, <1>29, <1>30, <1>31, <1>32, <1>33, <1>34, <1>35, <1>36, <1>37, <1>38, <1>39, <1>40,
     <1>41, <1>42, <1>43 DEF Next, Resize, OCI

LEMMA UndoneNext == Inv /\ TypeOK /\ Sizes /\ [Next]_vars => Undone'
<1> SUFFICES ASSUME Inv, TypeOK, Sizes, [Next]_vars PROVE Undone'
  OBVIOUS
<1>0. Shape /\ Path /\ Emptied
  BY DEF Inv
<1> USE <1>0 DEF Sizes, Shape, Path, TakingDown, Undone, At, Goto, Exit, Idle, cloud, terraform, files
<1>1. ASSUME NEW mode \in Modes, NEW bare \in BOOLEAN, Start(mode, bare) PROVE Undone'
  BY <1>1 DEF Start
<1>2. CASE StartCleanup
  BY <1>2 DEF StartCleanup
<1>3. CASE ResumePlan
  BY <1>3 DEF ResumePlan
<1>4. CASE Resumed
  BY <1>4 DEF Resumed
<1>5. CASE Forget
  BY <1>5 DEF Forget
<1>6. CASE Recover
  BY <1>6 DEF Recover
<1>7. CASE Retried
  BY <1>7 DEF Retried
<1>8. CASE Finalize
  BY <1>8 DEF Finalize
<1>9. CASE Drop
  BY <1>9 DEF Drop
<1>10. CASE Decide
  <2>1. CASE marker # None /\ ~run.resuming
    BY <1>10, <2>1 DEF Decide
  <2>2. CASE ~(marker # None /\ ~run.resuming) /\ run.mode = "remove" /\ ~run.resuming
             /\ run.done # {}
    BY <1>10, <2>2 DEF Decide
  <2>3. CASE ~(marker # None /\ ~run.resuming)
             /\ ~(run.mode = "remove" /\ ~run.resuming /\ run.done # {})
    <3>1. \E s \in {"reconfigure", "select", "grow"} :
             /\ run' = [run EXCEPT !.step = s] /\ UNCHANGED <<cloud, terraform, files>>
             /\ s = "select" <=> run.mode = "remove"
             /\ s = "reconfigure" <=> run.mode = "reconfigure"
      BY <1>10, <2>3 DEF Decide
    <3> QED
      BY <1>10, <2>3, <3>1 DEF Decide
  <2> QED
    BY <2>1, <2>2, <2>3
<1>11. CASE Select
  <2>1. CASE run.resuming
    BY <1>11, <2>1 DEF Select, Emptied, Rest
  <2>2. CASE ~run.resuming
    <3>1. PICK c \in SUBSET Members :
             /\ c # {} /\ Cardinality(c) \in 1..size
             /\ run' = [run EXCEPT !.step = "journal", !.chosen = c]
             /\ marker' = [action |-> "remove", source |-> size,
                           target |-> size - Cardinality(c), bare |-> run.bare]
             /\ marker' # None
      BY <1>11, <2>2, SelectCommits
    <3>2. marker'.action = "remove" /\ marker'.source = size
          /\ marker'.target = size - Cardinality(c)
      BY <3>1
    <3>3. /\ marker = None /\ removals = {} /\ Agreed /\ Cardinality(Members) = size
          /\ UNCHANGED <<Members, size, tfSize, nodeCount, inventory, removals>>
      BY <1>11, <2>2, SelectCommits DEF terraform, cloud
    <3> QED
      BY <1>11, <2>2, <3>1, <3>2, <3>3 DEF Select, Emptied, Rest
  <2> QED
    BY <2>1, <2>2
<1>12. CASE WriteJournal
  BY <1>12 DEF WriteJournal
<1>13. CASE RemovalPlaybook
  BY <1>13 DEF RemovalPlaybook
<1>14. CASE Removed
  BY <1>14 DEF Removed
<1>15. CASE Note
  BY <1>15 DEF Note
<1>16. CASE Detach
  BY <1>16 DEF Detach
<1>17. CASE Detached
  BY <1>17 DEF Detached
<1>18. CASE Terminate
  BY <1>18 DEF Terminate
<1>19. CASE Wipe
  BY <1>19 DEF Wipe
<1>20. CASE UpdateSize
  BY <1>20 DEF UpdateSize
<1>21. CASE Await
  BY <1>21 DEF Await
<1>22. CASE Rollback
  BY <1>22 DEF Rollback
<1>23. CASE Reconcile
  BY <1>23 DEF Reconcile
<1>24. CASE PushState
  BY <1>24 DEF PushState
<1>25. CASE ReplaceVariables
  BY <1>25 DEF ReplaceVariables
<1>26. CASE Close
  BY <1>26 DEF Close
<1>27. CASE Reconfigure
  BY <1>27 DEF Reconfigure
<1>28. CASE Extend
  BY <1>28 DEF Extend
<1>29. CASE Synchronize
  BY <1>29 DEF Synchronize
<1>30. CASE Synchronized
  BY <1>30 DEF Synchronized
<1>31. CASE ClearMarker
  BY <1>31 DEF ClearMarker
<1>32. CASE Refuse
  BY <1>32 DEF Refuse
<1>33. ASSUME NEW n \in Node, ResumeOne(n) PROVE Undone'
  BY <1>33 DEF ResumeOne
<1>34. ASSUME NEW n \in Node, RetryOne(n) PROVE Undone'
  BY <1>34 DEF RetryOne
<1>35. ASSUME NEW n \in Node, RemoveOne(n) PROVE Undone'
  BY <1>35 DEF RemoveOne
<1>36. ASSUME NEW k \in 1..Cardinality(Fresh), Grow(k) PROVE Undone'
  BY <1>36 DEF Grow
<1>37. CASE AddFails
  BY <1>37 DEF AddFails
<1>38. CASE Stop
  BY <1>38 DEF Stop
<1>39. CASE Provision
  BY <1>39 DEF Provision
<1>40. CASE DetachTakesEffect
  BY <1>40 DEF DetachTakesEffect
<1>41. CASE ScaleIn
  BY <1>41 DEF ScaleIn
<1>42. CASE Settle
  BY <1>42 DEF Settle
<1>43. CASE UNCHANGED vars
  BY <1>43 DEF vars
<1> QED
  BY <1>1, <1>2, <1>3, <1>4, <1>5, <1>6, <1>7, <1>8, <1>9, <1>10, <1>11, <1>12, <1>13, <1>14,
     <1>15, <1>16, <1>17, <1>18, <1>19, <1>20, <1>21, <1>22, <1>23, <1>24, <1>25, <1>26, <1>27,
     <1>28, <1>29, <1>30, <1>31, <1>32, <1>33, <1>34, <1>35, <1>36, <1>37, <1>38, <1>39, <1>40,
     <1>41, <1>42, <1>43 DEF Next, Resize, OCI

LEMMA RecordedNext == Inv /\ TypeOK /\ Sizes /\ [Next]_vars => Recorded'
<1> SUFFICES ASSUME Inv, TypeOK, Sizes, [Next]_vars PROVE Recorded'
  OBVIOUS
<1>0. Shape /\ Path /\ Emptied
  BY DEF Inv
<1> USE <1>0 DEF Sizes, Shape, Path, TakingDown, Recorded, Agreed, At, Goto, Exit, Idle, cloud, terraform, files
<1>1. ASSUME NEW mode \in Modes, NEW bare \in BOOLEAN, Start(mode, bare) PROVE Recorded'
  BY <1>1 DEF Start
<1>2. CASE StartCleanup
  BY <1>2 DEF StartCleanup
<1>3. CASE ResumePlan
  BY <1>3 DEF ResumePlan
<1>4. CASE Resumed
  BY <1>4 DEF Resumed
<1>5. CASE Forget
  BY <1>5 DEF Forget, Undone
<1>6. CASE Recover
  BY <1>6 DEF Recover
<1>7. CASE Retried
  BY <1>7 DEF Retried
<1>8. CASE Finalize
  BY <1>8 DEF Finalize
<1>9. CASE Drop
  BY <1>9 DEF Drop
<1>10. CASE Decide
  <2>1. CASE marker # None /\ ~run.resuming
    BY <1>10, <2>1 DEF Decide, Rest, Unmarked, Agreed
  <2>2. CASE ~(marker # None /\ ~run.resuming) /\ run.mode = "remove" /\ ~run.resuming
             /\ run.done # {}
    BY <1>10, <2>2 DEF Decide, Rest, Unmarked, Agreed
  <2>3. CASE ~(marker # None /\ ~run.resuming)
             /\ ~(run.mode = "remove" /\ ~run.resuming /\ run.done # {})
    <3>1. \E s \in {"reconfigure", "select", "grow"} :
             /\ run' = [run EXCEPT !.step = s] /\ UNCHANGED <<cloud, terraform, files>>
             /\ s = "select" <=> run.mode = "remove"
             /\ s = "reconfigure" <=> run.mode = "reconfigure"
      BY <1>10, <2>3 DEF Decide
    <3> QED
      BY <1>10, <2>3, <3>1 DEF Decide, Rest, Unmarked, Agreed
  <2> QED
    BY <2>1, <2>2, <2>3
<1>11. CASE Select
  <2>1. CASE run.resuming
    BY <1>11, <2>1 DEF Select
  <2>2. CASE ~run.resuming
    <3>1. PICK c \in SUBSET Members :
             /\ c # {} /\ Cardinality(c) \in 1..size
             /\ run' = [run EXCEPT !.step = "journal", !.chosen = c]
             /\ marker' = [action |-> "remove", source |-> size,
                           target |-> size - Cardinality(c), bare |-> run.bare]
             /\ marker' # None
      BY <1>11, <2>2, SelectCommits
    <3>2. marker'.action = "remove" /\ marker'.source = size
          /\ marker'.target = size - Cardinality(c)
      BY <3>1
    <3>3. /\ marker = None /\ removals = {} /\ Agreed /\ Cardinality(Members) = size
          /\ UNCHANGED <<Members, size, tfSize, nodeCount, inventory, removals>>
      BY <1>11, <2>2, SelectCommits DEF terraform, cloud
    <3> QED
      BY <1>11, <2>2, <3>1, <3>2, <3>3 DEF Select
  <2> QED
    BY <2>1, <2>2
<1>12. CASE WriteJournal
  BY <1>12 DEF WriteJournal
<1>13. CASE RemovalPlaybook
  BY <1>13 DEF RemovalPlaybook
<1>14. CASE Removed
  BY <1>14 DEF Removed
<1>15. CASE Note
  BY <1>15 DEF Note
<1>16. CASE Detach
  BY <1>16 DEF Detach
<1>17. CASE Detached
  BY <1>17 DEF Detached
<1>18. CASE Terminate
  BY <1>18 DEF Terminate
<1>19. CASE Wipe
  BY <1>19 DEF Wipe
<1>20. CASE UpdateSize
  BY <1>20 DEF UpdateSize
<1>21. CASE Await
  BY <1>21 DEF Await
<1>22. CASE Rollback
  BY <1>22 DEF Rollback
<1>23. CASE Reconcile
  BY <1>23 DEF Reconcile
<1>24. CASE PushState
  BY <1>24 DEF PushState
<1>25. CASE ReplaceVariables
  BY <1>25 DEF ReplaceVariables, Undone, Stage, Growing
<1>26. CASE Close
  BY <1>26 DEF Close
<1>27. CASE Reconfigure
  BY <1>27 DEF Reconfigure
<1>28. CASE Extend
  BY <1>28 DEF Extend
<1>29. CASE Synchronize
  <2>1. removals = {} /\ Cardinality(inventory) = size
    BY <1>29 DEF Synchronize, MaySync, Complete, NetworkComplete, PoolComplete
  <2>2. marker # None => marker.action \in {"add", "remove"}
    BY DEF TypeOK, Commitment
  <2>3. Agreed
    BY <2>1, <2>2, MarkerType DEF Unmarked, Growing, Unrecorded, Shrinking, Adding, Removing
  <2> QED
    BY <1>29, <2>1, <2>3 DEF Synchronize
<1>30. CASE Synchronized
  BY <1>30 DEF Synchronized
<1>31. CASE ClearMarker
  BY <1>31 DEF ClearMarker
<1>32. CASE Refuse
  BY <1>32 DEF Refuse
<1>33. ASSUME NEW n \in Node, ResumeOne(n) PROVE Recorded'
  BY <1>33 DEF ResumeOne
<1>34. ASSUME NEW n \in Node, RetryOne(n) PROVE Recorded'
  BY <1>34 DEF RetryOne
<1>35. ASSUME NEW n \in Node, RemoveOne(n) PROVE Recorded'
  BY <1>35 DEF RemoveOne
<1>36. ASSUME NEW k \in 1..Cardinality(Fresh), Grow(k) PROVE Recorded'
  BY <1>36, GrowCommits DEF Grow, MayGrow
<1>37. CASE AddFails
  BY <1>37 DEF AddFails
<1>38. CASE Stop
  BY <1>38 DEF Stop
<1>39. CASE Provision
  BY <1>39 DEF Provision
<1>40. CASE DetachTakesEffect
  BY <1>40, OneLeaves DEF DetachTakesEffect, Undone
<1>41. CASE ScaleIn
  BY <1>41 DEF ScaleIn
<1>42. CASE Settle
  BY <1>42 DEF Settle
<1>43. CASE UNCHANGED vars
  BY <1>43 DEF vars
<1> QED
  BY <1>1, <1>2, <1>3, <1>4, <1>5, <1>6, <1>7, <1>8, <1>9, <1>10, <1>11, <1>12, <1>13, <1>14,
     <1>15, <1>16, <1>17, <1>18, <1>19, <1>20, <1>21, <1>22, <1>23, <1>24, <1>25, <1>26, <1>27,
     <1>28, <1>29, <1>30, <1>31, <1>32, <1>33, <1>34, <1>35, <1>36, <1>37, <1>38, <1>39, <1>40,
     <1>41, <1>42, <1>43 DEF Next, Resize, OCI

---------------------------------------------------------------------------
(* The types, which need the sizes: what is taken from a size is in it.      *)
LEMMA LeavingIsNamed ==
  ASSUME Inv, TypeOK
  PROVE  leaving \subseteq removals
BY DEF Inv, Named, Concerned, TypeOK, Members

\* The type of a run, field by field, and that of the cloud and the files.
RunType ==
    /\ run.step \in Steps /\ run.mode \in Modes \union {"none"}
    /\ run.phase \in Phases \union {"none"} /\ run.bare \in BOOLEAN /\ run.seen \in Nat
    /\ run.chosen \subseteq Node /\ run.todo \subseteq Node /\ run.done \subseteq Node
    /\ run.target \in Node \union {None} /\ run.resuming \in BOOLEAN

CloudType ==
    /\ place \in [Node -> Places]
    /\ kind \in {"IP", "CN"}
    /\ leaving \subseteq Members
    /\ scaling \subseteq {"pool", "network"}
    /\ size \in Nat /\ tfSize \in Nat /\ nodeCount \in Nat
    /\ volume \in [Node -> {"none", "live", "deleted"}]

FilesType ==
    /\ inventory \subseteq Node /\ removals \subseteq Node
    /\ marker \in Commitment \union {None}
    /\ deletions \subseteq [node : Node, before : Nat]
    /\ plan \in (SUBSET Node) \union {None}
    /\ stops \in 0..MaxStops

LEMMA TypeParts == Shape => (TypeOK <=> RunType /\ CloudType /\ FilesType)
<1>1. Shape => (run \in [step : Steps, mode : Modes \union {"none"}, phase : Phases \union {"none"},
                bare : BOOLEAN, seen : Nat, chosen : SUBSET Node, todo : SUBSET Node,
                target : Node \union {None}, done : SUBSET Node, resuming : BOOLEAN] <=> RunType)
  BY DEF Shape, RunType
<1> QED
  BY <1>1 DEF TypeOK, CloudType, FilesType, Places

LEMMA RunTypeNext == Inv /\ TypeOK /\ Sizes /\ [Next]_vars => RunType'
<1> SUFFICES ASSUME Inv, TypeOK, Sizes, [Next]_vars PROVE RunType'
  OBVIOUS
<1>0. Shape /\ RunType
  BY TypeParts DEF Inv
<1> USE <1>0 DEF Shape, RunType, At, Goto, Exit, Idle
<1>1. ASSUME NEW mode \in Modes, NEW bare \in BOOLEAN, Start(mode, bare) PROVE RunType'
  BY <1>1 DEF Start, Steps, Phases, Modes, TypeOK
<1>2. CASE StartCleanup
  BY <1>2 DEF StartCleanup, Steps, Phases, Modes
<1>3. CASE ResumePlan
  BY <1>3 DEF ResumePlan, Steps, Phases
<1>4. CASE Resumed
  BY <1>4 DEF Resumed, Active, Members, Steps
<1>5. CASE Forget
  BY <1>5 DEF Forget, Steps, Phases
<1>6. CASE Recover
  <2>1. Journaled \subseteq Node
    BY DEF Journaled, TypeOK
  <2>2. marker # None => marker.bare \in BOOLEAN
    BY DEF TypeOK, Commitment
  <2>3. (run.bare \/ (marker # None /\ marker.bare)) \in BOOLEAN
    OBVIOUS
  <2> QED
    BY <1>6, <2>1, <2>3 DEF Recover, Steps, Phases
<1>7. CASE Retried
  <2>1. \/ run' = Idle
        \/ run' = [run EXCEPT !.step = "decide"]
        \/ run' = [run EXCEPT !.step = "finalize"]
    BY <1>7 DEF Retried
  <2>2. CASE run' = Idle
    BY <2>2 DEF Idle, Steps, Phases
  <2>3. CASE run' = [run EXCEPT !.step = "decide"]
    BY <2>3 DEF Idle, Steps, Phases
  <2>4. CASE run' = [run EXCEPT !.step = "finalize"]
    BY <2>4 DEF Idle, Steps, Phases
  <2> QED
    BY <2>1, <2>2, <2>3, <2>4
<1>8. CASE Finalize
  BY <1>8 DEF Finalize, Steps, Phases
<1>9. CASE Drop
  <2>1. \/ run' = Idle
        \/ run' = [run EXCEPT !.step = "decide"]
        \/ run' = [run EXCEPT !.step = "forget"]
    BY <1>9 DEF Drop
  <2>2. CASE run' = Idle
    BY <2>2 DEF Idle, Steps, Phases
  <2>3. CASE run' = [run EXCEPT !.step = "decide"]
    BY <2>3 DEF Idle, Steps, Phases
  <2>4. CASE run' = [run EXCEPT !.step = "forget"]
    BY <2>4 DEF Idle, Steps, Phases
  <2> QED
    BY <2>1, <2>2, <2>3, <2>4
<1>10. CASE Decide
  <2>1. \/ run' = Idle
        \/ run' = [run EXCEPT !.step = "reconcile", !.phase = "reconcile"]
        \/ \E t \in {"reconfigure", "select", "grow"} : run' = [run EXCEPT !.step = t]
    BY <1>10 DEF Decide
  <2>2. CASE run' = Idle
    BY <2>2 DEF Idle, Steps, Phases
  <2>3. CASE run' = [run EXCEPT !.step = "reconcile", !.phase = "reconcile"]
    BY <2>3 DEF Idle, Steps, Phases
  <2>4. CASE \E t \in {"reconfigure", "select", "grow"} : run' = [run EXCEPT !.step = t]
    BY <2>4 DEF Idle, Steps, Phases
  <2> QED
    BY <2>1, <2>2, <2>3, <2>4
<1>11. CASE Select
  <2>1. CASE run.resuming
    BY <1>11, <2>1 DEF Select, Steps
  <2>2. CASE ~run.resuming
    <3>1. PICK c \in SUBSET Members :
             run' = [run EXCEPT !.step = "journal", !.chosen = c]
      BY <1>11, <2>2, SelectCommits
    <3>2. c \subseteq Node
      BY DEF Members
    <3> QED
      BY <3>1, <3>2 DEF Steps
  <2> QED
    BY <2>1, <2>2
<1>12. CASE WriteJournal
  BY <1>12 DEF WriteJournal, Steps, Phases
<1>13. CASE RemovalPlaybook
  BY <1>13 DEF RemovalPlaybook, Steps, Phases
<1>14. CASE Removed
  BY <1>14 DEF Removed, Steps, Phases
<1>15. CASE Note
  BY <1>15 DEF Note, Steps, Phases
<1>16. CASE Detach
  BY <1>16 DEF Detach, Steps, Phases
<1>17. CASE Detached
  BY <1>17 DEF Detached, Steps, Phases
<1>18. CASE Terminate
  BY <1>18 DEF Terminate, Steps, Phases
<1>19. CASE Wipe
  <2>1. run.phase \in {"resume", "retry", "remove"} /\ run.target \in Node
    BY <1>19 DEF Wipe, Inv, Path, TakingDown
  <2>2. /\ run'.step = run.phase /\ run'.target = None
        /\ run'.mode = run.mode /\ run'.phase = run.phase /\ run'.bare = run.bare
        /\ run'.seen = run.seen /\ run'.chosen = run.chosen /\ run'.resuming = run.resuming
    BY <1>19 DEF Wipe
  <2>3. run'.todo \subseteq run.todo /\ run'.done \subseteq run.done \union {run.target}
    BY <1>19 DEF Wipe
  <2> QED
    BY <2>1, <2>2, <2>3 DEF Steps
<1>20. CASE UpdateSize
  BY <1>20 DEF UpdateSize, Steps, Phases
<1>21. CASE Await
  BY <1>21 DEF Await, Steps, Phases
<1>22. CASE Rollback
  BY <1>22 DEF Rollback, Steps, Phases
<1>23. CASE Reconcile
  BY <1>23 DEF Reconcile, Steps, Phases
<1>24. CASE PushState
  BY <1>24 DEF PushState, Steps, Phases
<1>25. CASE ReplaceVariables
  BY <1>25 DEF ReplaceVariables, Steps, Phases
<1>26. CASE Close
  BY <1>26 DEF Close, Steps, Phases
<1>27. CASE Reconfigure
  BY <1>27 DEF Reconfigure, Steps, Phases
<1>28. CASE Extend
  BY <1>28 DEF Extend, Steps, Phases
<1>29. CASE Synchronize
  BY <1>29 DEF Synchronize, Steps, Phases
<1>30. CASE Synchronized
  BY <1>30 DEF Synchronized, Steps, Phases
<1>31. CASE ClearMarker
  BY <1>31 DEF ClearMarker, Steps, Phases
<1>32. CASE Refuse
  BY <1>32 DEF Refuse, Steps, Phases
<1>33. ASSUME NEW n \in Node, ResumeOne(n) PROVE RunType'
  BY <1>33 DEF ResumeOne, Steps, Phases
<1>34. ASSUME NEW n \in Node, RetryOne(n) PROVE RunType'
  BY <1>34 DEF RetryOne, Steps, Phases
<1>35. ASSUME NEW n \in Node, RemoveOne(n) PROVE RunType'
  BY <1>35 DEF RemoveOne, Steps, Phases
<1>36. ASSUME NEW k \in 1..Cardinality(Fresh), Grow(k) PROVE RunType'
  BY <1>36 DEF Grow, Steps, Phases
<1>37. CASE AddFails
  BY <1>37 DEF AddFails, Steps, Phases
<1>38. CASE Stop
  BY <1>38 DEF Stop, Steps, Phases
<1>39. CASE Provision
  BY <1>39 DEF Provision
<1>40. CASE DetachTakesEffect
  BY <1>40 DEF DetachTakesEffect
<1>41. CASE ScaleIn
  BY <1>41 DEF ScaleIn
<1>42. CASE Settle
  BY <1>42 DEF Settle
<1>43. CASE UNCHANGED vars
  BY <1>43 DEF vars
<1> QED
  BY <1>1, <1>2, <1>3, <1>4, <1>5, <1>6, <1>7, <1>8, <1>9, <1>10, <1>11, <1>12, <1>13, <1>14,
     <1>15, <1>16, <1>17, <1>18, <1>19, <1>20, <1>21, <1>22, <1>23, <1>24, <1>25, <1>26, <1>27,
     <1>28, <1>29, <1>30, <1>31, <1>32, <1>33, <1>34, <1>35, <1>36, <1>37, <1>38, <1>39, <1>40,
     <1>41, <1>42, <1>43 DEF Next, Resize, OCI

LEMMA CloudTypeNext == Inv /\ TypeOK /\ Sizes /\ [Next]_vars => CloudType'
<1> SUFFICES ASSUME Inv, TypeOK, Sizes, [Next]_vars PROVE CloudType'
  OBVIOUS
<1>0. Shape /\ CloudType
  BY TypeParts DEF Inv
<1> USE <1>0 DEF CloudType, Shape, Places, Members, cloud, terraform, At
<1>1. ASSUME NEW mode \in Modes, NEW bare \in BOOLEAN, Start(mode, bare) PROVE CloudType'
  BY <1>1 DEF Start
<1>2. CASE StartCleanup
  BY <1>2 DEF StartCleanup
<1>3. CASE ResumePlan
  BY <1>3 DEF ResumePlan
<1>4. CASE Resumed
  BY <1>4 DEF Resumed
<1>5. CASE Forget
  BY <1>5 DEF Forget
<1>6. CASE Recover
  BY <1>6 DEF Recover
<1>7. CASE Retried
  BY <1>7 DEF Retried
<1>8. CASE Finalize
  BY <1>8 DEF Finalize
<1>9. CASE Drop
  BY <1>9 DEF Drop
<1>10. CASE Decide
  BY <1>10 DEF Decide
<1>11. CASE Select
  BY <1>11 DEF Select
<1>12. CASE WriteJournal
  BY <1>12 DEF WriteJournal
<1>13. CASE RemovalPlaybook
  BY <1>13 DEF RemovalPlaybook
<1>14. CASE Removed
  BY <1>14 DEF Removed
<1>15. CASE Note
  BY <1>15 DEF Note
<1>16. CASE Detach
  BY <1>16 DEF Detach, Parent
<1>17. CASE Detached
  BY <1>17 DEF Detached
<1>18. CASE Terminate
  BY <1>18 DEF Terminate, Inv, Departed, Gone
<1>19. CASE Wipe
  BY <1>19 DEF Wipe
<1>20. CASE UpdateSize
  BY <1>20, MarkerType DEF UpdateSize, Parent, Sizes, Stage, Adding, Inv, Path
<1>21. CASE Await
  BY <1>21 DEF Await
<1>22. CASE Rollback
  BY <1>22, MarkerType DEF Rollback, Parent, Sizes, Stage, Adding, Inv, Path
<1>23. CASE Reconcile
  BY <1>23 DEF Reconcile
<1>24. CASE PushState
  BY <1>24 DEF PushState
<1>25. CASE ReplaceVariables
  BY <1>25 DEF ReplaceVariables
<1>26. CASE Close
  BY <1>26 DEF Close
<1>27. CASE Reconfigure
  BY <1>27 DEF Reconfigure
<1>28. CASE Extend
  BY <1>28 DEF Extend
<1>29. CASE Synchronize
  BY <1>29 DEF Synchronize
<1>30. CASE Synchronized
  BY <1>30 DEF Synchronized
<1>31. CASE ClearMarker
  BY <1>31 DEF ClearMarker
<1>32. CASE Refuse
  BY <1>32 DEF Refuse
<1>33. ASSUME NEW n \in Node, ResumeOne(n) PROVE CloudType'
  BY <1>33 DEF ResumeOne
<1>34. ASSUME NEW n \in Node, RetryOne(n) PROVE CloudType'
  BY <1>34 DEF RetryOne
<1>35. ASSUME NEW n \in Node, RemoveOne(n) PROVE CloudType'
  BY <1>35 DEF RemoveOne
<1>36. ASSUME NEW k \in 1..Cardinality(Fresh), Grow(k) PROVE CloudType'
  BY <1>36 DEF Grow
<1>37. CASE AddFails
  BY <1>37 DEF AddFails
<1>38. CASE Stop
  BY <1>38 DEF Stop
<1>39. CASE Provision
  BY <1>39 DEF Provision, Fresh
<1>40. CASE DetachTakesEffect
  <2>1. PICK n \in leaving : /\ place' = [place EXCEPT ![n] = "detached"]
                              /\ leaving' = leaving \ {n} /\ size' = size - 1
                              /\ UNCHANGED <<kind, scaling, volume, terraform>>
    BY <1>40 DEF DetachTakesEffect
  <2>2. size' \in Nat
    <3>1. removals # {}
      BY <1>40, OneLeaves
    <3>2. Cardinality(Members) = size
      BY <3>1 DEF Sizes, Shrinking, Unmarked, Growing, Adding, Removing, TypeOK, Commitment
    <3> HIDE DEF CloudType, Shape, Places, Members, cloud, terraform, At
    <3> QED
      BY <1>40, <3>2, <2>1, OneLeaves
  <2> QED
    BY <2>1, <2>2
<1>41. CASE ScaleIn
  <2>1. leaving = {}
    BY <1>41, LeavingIsNamed, Counts
       DEF ScaleIn, Sizes, Shrinking, Unmarked, Growing, Adding, Removing, TypeOK, Commitment
  <2> QED
    BY <1>41, <2>1 DEF ScaleIn
<1>42. CASE Settle
  BY <1>42 DEF Settle
<1>43. CASE UNCHANGED vars
  BY <1>43 DEF vars
<1> QED
  BY <1>1, <1>2, <1>3, <1>4, <1>5, <1>6, <1>7, <1>8, <1>9, <1>10, <1>11, <1>12, <1>13, <1>14,
     <1>15, <1>16, <1>17, <1>18, <1>19, <1>20, <1>21, <1>22, <1>23, <1>24, <1>25, <1>26, <1>27,
     <1>28, <1>29, <1>30, <1>31, <1>32, <1>33, <1>34, <1>35, <1>36, <1>37, <1>38, <1>39, <1>40,
     <1>41, <1>42, <1>43 DEF Next, Resize, OCI

LEMMA FilesTypeNext == Inv /\ TypeOK /\ Sizes /\ [Next]_vars => FilesType'
<1> SUFFICES ASSUME Inv, TypeOK, Sizes, [Next]_vars PROVE FilesType'
  OBVIOUS
<1>0. Shape /\ FilesType
  BY TypeParts DEF Inv
<1> USE <1>0 DEF FilesType, Shape, cloud, files, At
<1>1. ASSUME NEW mode \in Modes, NEW bare \in BOOLEAN, Start(mode, bare) PROVE FilesType'
  BY <1>1 DEF Start
<1>2. CASE StartCleanup
  BY <1>2 DEF StartCleanup
<1>3. CASE ResumePlan
  BY <1>3 DEF ResumePlan
<1>4. CASE Resumed
  BY <1>4 DEF Resumed
<1>5. CASE Forget
  BY <1>5 DEF Forget
<1>6. CASE Recover
  BY <1>6 DEF Recover
<1>7. CASE Retried
  BY <1>7 DEF Retried
<1>8. CASE Finalize
  BY <1>8 DEF Finalize
<1>9. CASE Drop
  BY <1>9 DEF Drop
<1>10. CASE Decide
  BY <1>10 DEF Decide
<1>11. CASE Select
  <2>1. CASE run.resuming
    BY <1>11, <2>1 DEF Select
  <2>2. CASE ~run.resuming
    BY <1>11, <2>2, SelectCommits DEF Select
  <2> QED
    BY <2>1, <2>2
<1>12. CASE WriteJournal
  BY <1>12 DEF WriteJournal, TypeOK
<1>13. CASE RemovalPlaybook
  BY <1>13 DEF RemovalPlaybook
<1>14. CASE Removed
  BY <1>14 DEF Removed
<1>15. CASE Note
  <2>1. \A n \in {run.target} : OwnVolume(n) => VolumeRecord(n) \in [node : Node, before : Nat]
    BY <1>15 DEF Note, VolumeRecord, TypeOK, Inv, Path, TakingDown
  <2> QED
    BY <1>15, <2>1 DEF Note
<1>16. CASE Detach
  BY <1>16 DEF Detach
<1>17. CASE Detached
  BY <1>17 DEF Detached
<1>18. CASE Terminate
  BY <1>18 DEF Terminate
<1>19. CASE Wipe
  BY <1>19 DEF Wipe
<1>20. CASE UpdateSize
  BY <1>20 DEF UpdateSize
<1>21. CASE Await
  BY <1>21 DEF Await
<1>22. CASE Rollback
  BY <1>22 DEF Rollback
<1>23. CASE Reconcile
  BY <1>23 DEF Reconcile
<1>24. CASE PushState
  BY <1>24 DEF PushState
<1>25. CASE ReplaceVariables
  BY <1>25 DEF ReplaceVariables
<1>26. CASE Close
  BY <1>26 DEF Close
<1>27. CASE Reconfigure
  BY <1>27 DEF Reconfigure, Members
<1>28. CASE Extend
  BY <1>28 DEF Extend, Members
<1>29. CASE Synchronize
  BY <1>29 DEF Synchronize, Members
<1>30. CASE Synchronized
  BY <1>30 DEF Synchronized
<1>31. CASE ClearMarker
  BY <1>31 DEF ClearMarker
<1>32. CASE Refuse
  BY <1>32 DEF Refuse
<1>33. ASSUME NEW n \in Node, ResumeOne(n) PROVE FilesType'
  BY <1>33 DEF ResumeOne
<1>34. ASSUME NEW n \in Node, RetryOne(n) PROVE FilesType'
  BY <1>34 DEF RetryOne
<1>35. ASSUME NEW n \in Node, RemoveOne(n) PROVE FilesType'
  BY <1>35 DEF RemoveOne
<1>36. ASSUME NEW k \in 1..Cardinality(Fresh), Grow(k) PROVE FilesType'
  BY <1>36, GrowCommits DEF Grow
<1>37. CASE AddFails
  BY <1>37, Pool DEF AddFails
<1>38. CASE Stop
  BY <1>38, Pool DEF Stop
<1>39. CASE Provision
  BY <1>39 DEF Provision
<1>40. CASE DetachTakesEffect
  BY <1>40 DEF DetachTakesEffect
<1>41. CASE ScaleIn
  BY <1>41 DEF ScaleIn
<1>42. CASE Settle
  BY <1>42 DEF Settle
<1>43. CASE UNCHANGED vars
  BY <1>43 DEF vars
<1> QED
  BY <1>1, <1>2, <1>3, <1>4, <1>5, <1>6, <1>7, <1>8, <1>9, <1>10, <1>11, <1>12, <1>13, <1>14,
     <1>15, <1>16, <1>17, <1>18, <1>19, <1>20, <1>21, <1>22, <1>23, <1>24, <1>25, <1>26, <1>27,
     <1>28, <1>29, <1>30, <1>31, <1>32, <1>33, <1>34, <1>35, <1>36, <1>37, <1>38, <1>39, <1>40,
     <1>41, <1>42, <1>43 DEF Next, Resize, OCI

LEMMA TypeNext == Inv /\ TypeOK /\ Sizes /\ [Next]_vars => TypeOK'
<1>1. Shape' /\ RunType' => run' \in [step : Steps, mode : Modes \union {"none"},
                phase : Phases \union {"none"}, bare : BOOLEAN, seen : Nat,
                chosen : SUBSET Node, todo : SUBSET Node, target : Node \union {None},
                done : SUBSET Node, resuming : BOOLEAN]
  BY DEF Shape, RunType
<1> QED
  BY <1>1, RunTypeNext, CloudTypeNext, FilesTypeNext, ShapeNext
     DEF Inv, TypeOK, CloudType, FilesType, Places

LEMMA SizesInit == Init => TypeOK /\ Sizes
<1> SUFFICES ASSUME Init PROVE TypeOK /\ Sizes
  OBVIOUS
<1>1. Members = First
  BY Pool DEF Init, Members
<1>2. Cardinality(First) \in Nat /\ Cardinality(Members) = Cardinality(First)
  BY <1>1, Finite, Pool
<1>3. Shape
  BY InvInit DEF Inv
<1>4. RunType
  BY DEF Init, RunType, Idle, Steps
<1>5. CloudType
  BY <1>2, <1>3 DEF Init, CloudType, Shape
<1>6. FilesType
  BY Pool DEF Init, FilesType
<1>7. Settled
  BY <1>2 DEF Init, Settled
<1>8. Unmarked /\ Seen /\ Rest /\ Stage /\ Chosen /\ Undone /\ Recorded
  BY DEF Init, Idle, Unmarked, Agreed, Seen, Rest, Stage, Chosen, Undone, Recorded
<1>9. Growing /\ Shrinking
  BY DEF Init, Growing, Shrinking, Adding, Removing
<1> QED
  BY <1>3, <1>4, <1>5, <1>6, <1>7, <1>8, <1>9, TypeParts DEF Sizes

LEMMA SizesNext == Inv /\ TypeOK /\ Sizes /\ [Next]_vars => Sizes'
BY SettledNext, UnmarkedNext, SeenNext, GrowingNext, ShrinkingNext, RestNext, StageNext, ChosenNext,
   UndoneNext, RecordedNext DEF Sizes

\* Everything that is invariant of a pool.
LEMMA SizesHold == Spec => [](Inv /\ TypeOK /\ Sizes)
<1>1. Init => Inv /\ TypeOK /\ Sizes
  BY InvInit, SizesInit
<1>2. Inv /\ TypeOK /\ Sizes /\ [Next]_vars => (Inv /\ TypeOK /\ Sizes)'
  BY InvNext, TypeNext, SizesNext
<1> QED
  BY <1>1, <1>2, PTL DEF Spec

\* Each variable keeps its type, for any instances and any stops: in particular
\* the size never goes below zero, and only members are being detached.
THEOREM TypeCorrect == Spec => []TypeOK
BY SizesHold, PTL

\* StaleSizeIsOwed, for any pool and any stops: wherever a run ended between the
\* change of the pool and the two records of its size, a file tells the next run.
THEOREM StaleSizesAreOwed == Spec => []StaleSizeIsOwed
<1>1. Sizes => StaleSizeIsOwed
  BY DEF Sizes, Unmarked, Agreed, StaleSizeIsOwed
<1> QED
  BY <1>1, SizesHold, PTL

---------------------------------------------------------------------------
(* Every step of resize.py and of OCI is a step of the committed resize that *)
(* PoolResize promises, or leaves the sizes and the commitment alone.        *)
LEMMA CommittingIs ==
  ASSUME TypeOK
  PROVE  /\ Committing = None <=> marker = None
         /\ marker # None => Committing.source = marker.source /\ Committing.target = marker.target
<1>1. CASE marker = None
  BY <1>1 DEF Committing
<1>2. CASE marker # None
  <2>1. Committing = [source |-> marker.source, target |-> marker.target]
    BY <1>2 DEF Committing
  <2>2. Committing \in [source : Nat, target : Nat]
    BY <1>2, <2>1, MarkerType
  <2> QED
    BY <1>2, <2>1, <2>2, NoMarker
<1> QED
  BY <1>1, <1>2

LEMMA Committed_Commits ==
  ASSUME TypeOK, marker = None, marker' # None, marker' \in Commitment,
         tfSize = size, UNCHANGED <<size, tfSize>>,
         marker'.source = size, marker'.target \in Nat \ {size}
  PROVE  Committed!Commit
<1>1. Committing = None
  BY DEF Committing
<1>2. Committing' = [source |-> marker'.source, target |-> marker'.target]
  BY DEF Committing
<1>3. marker'.source \in Nat
  BY DEF Commitment
<1>4. Committing' \in [source : Nat, target : Nat]
  BY <1>2, <1>3
<1>5. Committing' # None
  BY <1>4, NoMarker
<1> QED
  BY <1>1, <1>2, <1>5 DEF Committed!Commit

LEMMA StepIsCommitted ==
  ASSUME Inv, TypeOK, Sizes, [Next]_vars
  PROVE  Committed!Next \/ UNCHANGED Committed!vars
<1>0. UNCHANGED marker => UNCHANGED Committing
  BY DEF Committing
<1> DEFINE Mapped == Committed!Next \/ UNCHANGED Committed!vars
<1>a. UNCHANGED <<size, tfSize, marker>> => Mapped
  BY <1>0 DEF Committed!vars
<1>b. marker # None /\ UNCHANGED <<tfSize, marker>> /\
         (\/ marker.source < marker.target /\ size' \in {marker.source, marker.target}
          \/ size > marker.target /\ size' = size - 1) => Mapped
  BY <1>0, CommittingIs DEF Committed!Next, Committed!Move
<1> SUFFICES Mapped
  BY DEF Mapped
<1> HIDE DEF Mapped
<1> USE <1>a DEF cloud, terraform, files
<1>1. CASE Still
  BY <1>1 DEF Still
<1>2. CASE Forget
  BY <1>2 DEF Forget
<1>3. CASE Select
  <2>1. CASE run.resuming
    BY <1>3, <2>1 DEF Select
  <2>2. CASE ~run.resuming
    <3>1. PICK c \in SUBSET Members :
             /\ marker = None /\ Agreed
             /\ Cardinality(c) \in 1..size
             /\ marker' = [action |-> "remove", source |-> size,
                           target |-> size - Cardinality(c), bare |-> run.bare]
             /\ marker' # None /\ marker' \in Commitment
             /\ UNCHANGED <<size, tfSize>>
      BY <1>3, <2>2, SelectCommits
    <3>2. marker'.source = size /\ marker'.target \in Nat \ {size}
      BY <3>1 DEF TypeOK
    <3>3. Committed!Commit
      BY <3>1, <3>2, Committed_Commits DEF Agreed
    <3> QED
      BY <3>3 DEF Mapped, Committed!Next
  <2> QED
    BY <2>1, <2>2
<1>4. CASE WriteJournal
  BY <1>4 DEF WriteJournal
<1>5. CASE RemovalPlaybook
  BY <1>5 DEF RemovalPlaybook
<1>6. CASE Detach
  BY <1>6 DEF Detach
<1>7. CASE UpdateSize
  BY <1>7, <1>b DEF UpdateSize, Sizes, Stage, Growing, Adding, Inv, Path, At
<1>8. CASE Rollback
  BY <1>8, <1>b DEF Rollback, Sizes, Stage, Growing, Adding, Inv, Path, At
<1>9. CASE PushState
  BY <1>9, <1>0 DEF PushState, Mapped, Committed!Next, Committed!Record
<1>10. CASE ReplaceVariables
  BY <1>10 DEF ReplaceVariables
<1>11. CASE Reconfigure
  BY <1>11 DEF Reconfigure
<1>12. CASE Extend
  BY <1>12 DEF Extend
<1>13. CASE ClearMarker
  <2>1. CASE marker = None
    BY <1>13, <2>1 DEF ClearMarker
  <2>2. CASE marker # None
    <3>1. tfSize = size /\ size \in {marker.source, marker.target}
      <4>1. Agreed /\ removals = {}
        BY <1>13 DEF ClearMarker, At, Sizes, Recorded
      <4>2. Adding \/ Removing
        BY <2>2 DEF Adding, Removing, TypeOK, Commitment
      <4> QED
        BY <4>1, <4>2 DEF Agreed, Sizes, Growing, Shrinking
    <3>2. Committing' = None
      BY <1>13 DEF ClearMarker, Committing
    <3>3. UNCHANGED <<size, tfSize>>
      BY <1>13 DEF ClearMarker
    <3> QED
      BY <2>2, <3>1, <3>2, <3>3, CommittingIs DEF Mapped, Committed!Next, Committed!Close
  <2> QED
    BY <2>1, <2>2
<1>14. ASSUME NEW k \in 1..Cardinality(Fresh), Grow(k) PROVE Mapped
  <2>1. /\ marker'.source = size /\ marker'.target \in Nat \ {size}
        /\ marker = None /\ marker' # None /\ marker' \in Commitment /\ tfSize = size
    BY <1>14, GrowCommits DEF Agreed, TypeOK
  <2>2. UNCHANGED <<size, tfSize>>
    BY <1>14 DEF Grow
  <2>3. Committed!Commit
    BY <2>1, <2>2, Committed_Commits
  <2> QED
    BY <2>3 DEF Mapped, Committed!Next
<1>15. CASE Provision
  BY <1>15 DEF Provision
<1>16. CASE DetachTakesEffect
  <2>1. /\ removals # {} /\ size' = size - 1 /\ UNCHANGED <<tfSize, marker>>
        /\ Cardinality(Active') = Cardinality(Active) - 1 /\ Cardinality(Active') \in Nat
    BY <1>16, OneLeaves DEF DetachTakesEffect
  <2>2. Removing /\ size = marker.target + Cardinality(Active)
    BY <2>1 DEF Sizes, Unmarked, Growing, Shrinking, Adding, Removing, TypeOK, Commitment
  <2>3. size > marker.target
    BY <2>1, <2>2, MarkerType, Counts DEF Removing
  <2> QED
    BY <2>1, <2>2, <2>3, <1>b DEF Removing
<1>17. CASE ScaleIn
  BY <1>17 DEF ScaleIn
<1>18. CASE Settle
  BY <1>18 DEF Settle
<1> QED
  BY StillOrChanges, <1>1, <1>2, <1>3, <1>4, <1>5, <1>6, <1>7, <1>8, <1>9, <1>10, <1>11, <1>12,
     <1>13, <1>14, <1>15, <1>16, <1>17, <1>18 DEF Changes, OCI

\* ImplementsCommittedResize, for any pool, any stops and failures: a resize is
\* committed once, with the size that OCI has and Terraform has recorded; the live
\* size stays within it; and it is closed at one of its ends, recorded.
THEOREM ResizeIsCommitted == Spec => ImplementsCommittedResize
<1>1. Init => Committed!Init
  BY Finite, Pool DEF Init, Committed!Init, Committing
<1>2. Inv /\ TypeOK /\ Sizes /\ [Next]_vars => [Committed!Next]_(Committed!vars)
  BY StepIsCommitted
<1> QED
  BY <1>1, <1>2, SizesHold, PTL DEF Spec, ImplementsCommittedResize, Committed!Spec

=============================================================================
