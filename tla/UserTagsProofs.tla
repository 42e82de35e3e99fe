--------------------------- MODULE UserTagsProofs ---------------------------
(* Proofs about UserTags: types, and what the record is allowed to say and  *)
(* to lose, for any jobs, users, runs and mishaps.                          *)
EXTENDS UserTags, FiniteSetTheorems, TLAPS

Working == [step : {"idle", "slurm", "correct", "attempt", "read", "get", "recheck",
                    "update", "acknowledge", "retire"},
            seen : SUBSET Job, owner : Owners, tag : Owners, tries : 0..2]

OciState == [tag : Owners, up : BOOLEAN, etag : BOOLEAN, late : SUBSET Owners]
Jobs == [Job -> Run \union {Unknown, None}]
Ledger == [jobs : Jobs, known : BOOLEAN, retired : BOOLEAN, owner : Owners]

Started ==
    /\ alloc \in [Job -> 0..MaxRuns] /\ begun \in [Job -> 0..MaxRuns] /\ completing \subseteq Job

Typed ==
    /\ Started /\ hooks \subseteq Hook
    /\ rec \in Ledger /\ current \subseteq Revisions
    /\ deferred \in BOOLEAN /\ checked \in BOOLEAN
    /\ worker \in Working /\ oci \in OciState /\ mishaps \in 0..MaxMishaps

LEMMA TypedIsTypeOK == Typed <=> TypeOK
  BY DEF Typed, TypeOK, Started, Ledger, Jobs, Working, OciState

LEMMA DesiredIsOwner == ASSUME NEW S \in SUBSET Job PROVE Desired(S) \in Owners
<1> DEFINE users == {OwnerOf[j] : j \in S}
<1>1. users \in SUBSET User
  BY Slurm
<1>2. CASE users = {}
  BY <1>2 DEF Desired, Owners
<1>3. CASE users # {} /\ Cardinality(users) = 1
  <2>1. (CHOOSE u \in users : TRUE) \in users
    BY <1>3
  <2>2. Desired(S) = CHOOSE u \in users : TRUE
    BY <1>3, Zenon DEF Desired
  <2> QED
    BY <1>1, <2>1, <2>2 DEF Owners
<1>4. CASE users # {} /\ Cardinality(users) # 1
  BY <1>4 DEF Desired, Owners
<1> QED
  BY <1>2, <1>3, <1>4

LEMMA RecordedJobs == Typed => Recorded \in SUBSET Job
  BY DEF Recorded

LEMMA IdleTyped == Idle \in Working
  BY DEF Idle, Working, Owners

LEMMA LedgerOf ==
  ASSUME NEW jobs \in Jobs, NEW known \in BOOLEAN, NEW retired \in BOOLEAN, NEW owner \in Owners
  PROVE  [jobs |-> jobs, known |-> known, retired |-> retired, owner |-> owner] \in Ledger
  BY DEF Ledger

\* The worker moves on, and nothing else has changed its type.
LEMMA Moves ==
  ASSUME NEW w \in Working,
         NEW s \in {"idle", "slurm", "correct", "attempt", "read", "get", "recheck", "update",
                    "acknowledge", "retire"}
  PROVE  [w EXCEPT !.step = s] \in Working
  BY DEF Working

LEMMA TypedInit == Init => Typed
<1> SUFFICES ASSUME Init PROVE Typed
  OBVIOUS
<1>1. Started /\ hooks \subseteq Hook /\ current \subseteq Revisions /\ mishaps \in 0..MaxMishaps
  BY Slurm DEF Init, Started
<1>2. rec \in Ledger
  <2>1. rec.jobs \in Jobs /\ rec.owner \in Owners
    BY DEF Init, Jobs, Owners
  <2>2. rec = [jobs |-> rec.jobs, known |-> FALSE, retired |-> FALSE, owner |-> rec.owner]
    BY DEF Init
  <2> QED
    BY <2>1, <2>2, LedgerOf, Zenon
<1>3. deferred \in BOOLEAN /\ checked \in BOOLEAN
  BY DEF Init
<1>4. worker \in Working
  BY IdleTyped DEF Init
<1>5. oci \in OciState
  <2>1. oci = [tag |-> Management, up |-> TRUE, etag |-> FALSE, late |-> {}]
    BY DEF Init
  <2>2. Management \in Owners
    BY DEF Owners
  <2> QED
    BY <2>1, <2>2 DEF OciState
<1> QED
  BY <1>1, <1>2, <1>3, <1>4, <1>5 DEF Typed

LEMMA TypedNext == Typed /\ [Next]_vars => Typed'
<1> SUFFICES ASSUME Typed, [Next]_vars PROVE Typed'
  OBVIOUS
<1> USE DEF Typed, Working, Revisions, At, Goto, Mishap, slurm
<1>1. ASSUME NEW j \in Job, Start(j) PROVE Typed'
  BY <1>1, Slurm DEF Start, Started, Hook, Run
<1>2. ASSUME NEW j \in Job, End(j) PROVE Typed'
  BY <1>2, Slurm DEF End, Started, Hook, Run
<1>3. ASSUME NEW j \in Job, Release(j) PROVE Typed'
  BY <1>3, Slurm DEF Release, Started
<1>4. CASE Register
  BY <1>4 DEF Register, Save, Started, Ledger
<1>5. ASSUME NEW h \in Hook, RunHook(h) PROVE Typed'
  BY <1>5 DEF RunHook, Save, Started, Ledger, Jobs, Hook
<1>6. CASE HookLost
  BY <1>6, Slurm DEF HookLost, Started
<1>7. CASE Snapshot
  BY <1>7 DEF Snapshot, Started
<1>8. CASE ReadSlurm
  <2>1. CASE worker' = [worker EXCEPT !.seen = {j \in Job : alloc[j] # 0}, !.step = "correct"]
    <3>1. worker' \in Working
      BY <2>1
    <3> QED
      BY <1>8, <3>1, Slurm DEF ReadSlurm, Started
  <2>2. CASE worker' # [worker EXCEPT !.seen = {j \in Job : alloc[j] # 0}, !.step = "correct"]
    <3>1. Goto("attempt") /\ mishaps' = mishaps + 1 /\ mishaps < MaxMishaps
          /\ current' = current \ {"snapshot"}
      BY <1>8, <2>2 DEF ReadSlurm
    <3>2. worker' \in Working
      BY <3>1, Moves
    <3>3. mishaps' \in 0..MaxMishaps
      BY <3>1, Slurm
    <3> QED
      BY <1>8, <3>1, <3>2, <3>3 DEF ReadSlurm, Started
  <2> QED
    BY <2>1, <2>2
<1>9. CASE Correct
  <2>1. worker' \in Working
    BY <1>9, IdleTyped, Moves DEF Correct
  <2>2. CASE MayCorrect
    <3>1. [j \in Job |-> IF j \in worker.seen THEN Unknown ELSE None] \in Jobs
      BY DEF Jobs
    <3>2. rec' \in Ledger /\ deferred' \in BOOLEAN
      BY <1>9, <2>2, <3>1 DEF Correct, Save, Ledger
    <3> QED
      BY <1>9, <2>1, <2>2, <3>2 DEF Correct, Save, Started
  <2>3. CASE ~MayCorrect
    BY <1>9, <2>1, <2>3 DEF Correct, Started
  <2> QED
    BY <2>2, <2>3
<1>10. CASE Attempt
  <2>1. worker' \in Working /\ current' \subseteq Revisions
    <3>1. CASE NeedsAttempt
      <4>1. worker' = [worker EXCEPT !.step = "read", !.tries = 2]
            /\ current' = current \union {"attempt"}
        BY <1>10, <3>1 DEF Attempt
      <4>2. worker' \in Working
        <5>1. /\ worker'.step = "read" /\ worker'.seen = worker.seen /\ worker'.owner = worker.owner
              /\ worker'.tag = worker.tag /\ worker'.tries = 2
              /\ worker' = [step |-> worker'.step, seen |-> worker'.seen, owner |-> worker'.owner,
                            tag |-> worker'.tag, tries |-> worker'.tries]
          BY <4>1
        <5> QED
          BY <5>1
      <4>3. current' \subseteq Revisions
        BY <4>1
      <4> QED
        BY <4>2, <4>3
    <3>2. CASE ~NeedsAttempt
      BY <1>10, <3>2, IdleTyped DEF Attempt, Done
    <3> QED
      BY <3>1, <3>2
  <2> QED
    BY <1>10, <2>1 DEF Attempt, Started
<1>11. CASE ReadRecord
  <2>1. worker' \in Working /\ current' \subseteq Revisions
    <3>1. CASE worker.tries = 0 \/ UpToDate
      BY <1>11, <3>1, IdleTyped DEF ReadRecord, Done
    <3>2. CASE ~(worker.tries = 0 \/ UpToDate)
      <4>1. Desired(Recorded) \in Owners
        BY DesiredIsOwner, RecordedJobs
      <4> QED
        <5>1. worker' = [worker EXCEPT !.step = "get", !.owner = Desired(Recorded),
                                       !.tries = worker.tries - 1]
              /\ current' = current \union {"read"}
          BY <1>11, <3>2 DEF ReadRecord
        <5>2. worker.tries - 1 \in 0..2
          BY <3>2
        <5> QED
          BY <4>1, <5>1, <5>2
    <3> QED
      BY <3>1, <3>2
  <2> QED
    BY <1>11, <2>1 DEF ReadRecord, Started
<1>12. CASE Get
  BY <1>12 DEF Get, OciState, Started
<1>13. CASE Retire
  <2>1. rec' \in Ledger
    BY <1>13 DEF Retire, Ledger
  <2> QED
    BY <1>13, <2>1, IdleTyped DEF Retire, Done, Started
<1>14. CASE Recheck
  BY <1>14 DEF Recheck, OciState, Started
<1>15. CASE Update
  BY <1>15 DEF Update, Tagged, OciState, Started
<1>16. CASE Acknowledge
  <2>1. CASE "read" \in current
    <3>1. rec' \in Ledger
      BY <1>16, <2>1 DEF Acknowledge, Ledger
    <3>2. checked' \in BOOLEAN /\ deferred' \in BOOLEAN
      BY <1>16, <2>1 DEF Acknowledge
    <3> QED
      BY <1>16, <2>1, <3>1, <3>2, IdleTyped DEF Acknowledge, Started
  <2>2. CASE "read" \notin current
    BY <1>16, <2>2 DEF Acknowledge, Started
  <2> QED
    BY <2>1, <2>2
<1>17. CASE Refused
  BY <1>17 DEF Refused, Defer, Done, Idle, Started, Owners
<1>18. CASE CallFails
  <2>1. oci' \in OciState
    <3>1. (IF At("update") /\ oci.etag THEN oci.late \union {worker.owner} ELSE oci.late)
             \in SUBSET Owners
      BY DEF OciState
    <3> QED
      BY <1>18, <3>1 DEF CallFails, OciState
  <2>2. deferred' \in BOOLEAN
    BY <1>18 DEF CallFails, Defer
  <2> QED
    BY <1>18, <2>1, <2>2, IdleTyped, Slurm DEF CallFails, Defer, Done, Started
<1>19. CASE WorkerStops
  <2>1. oci' \in OciState
    BY <1>19 DEF WorkerStops, OciState
  <2> QED
    BY <1>19, <2>1, IdleTyped, Slurm DEF WorkerStops, Done, Started
<1>20. CASE Late
  BY <1>20 DEF Late, Tagged, OciState, Started
<1>21. CASE Edit
  <2>1. oci' \in OciState
    <3>1. CASE \E tag \in Owners : oci' = Tagged(tag)
      BY <3>1 DEF Tagged, OciState
    <3>2. CASE oci' = [Tagged(oci.tag) EXCEPT !.up = FALSE]
      BY <3>2 DEF Tagged, OciState
    <3> QED
      BY <1>21, <3>1, <3>2 DEF Edit
  <2> QED
    BY <1>21, <2>1, Slurm DEF Edit, Started
<1>22. CASE Time
  BY <1>22 DEF Time, Started
<1>23. CASE UNCHANGED vars
  BY <1>23 DEF vars, Started
<1> QED
  BY <1>1, <1>2, <1>3, <1>4, <1>5, <1>6, <1>7, <1>8, <1>9, <1>10, <1>11, <1>12, <1>13, <1>14,
     <1>15, <1>16, <1>17, <1>18, <1>19, <1>20, <1>21, <1>22, <1>23 DEF Next, Work

\* TypeOK is kept by every hook, every pass of the worker and every failure.
THEOREM TypeCorrect == Spec => []TypeOK
<1>1. Init => Typed
  BY TypedInit
<1>2. Typed /\ [Next]_vars => Typed'
  BY TypedNext
<1>3. Typed => TypeOK
  BY TypedIsTypeOK
<1> QED
  BY <1>1, <1>2, <1>3, PTL DEF Spec

---------------------------------------------------------------------------
\* Whoever has the newest revision has the owner of that revision: the record
\* what was applied, the worker what it is about to apply.
Fresh ==
    /\ AcknowledgedIsDesired
    /\ "read" \in current /\ worker.step \in {"get", "recheck", "update", "acknowledge"}
          => worker.owner = Desired(Recorded)

LEMMA FreshNext == Typed /\ Fresh /\ [Next]_vars => Fresh'
<1> SUFFICES ASSUME Typed, Fresh, [Next]_vars PROVE Fresh'
  OBVIOUS
<1> USE DEF Fresh, AcknowledgedIsDesired, Recorded, Typed, Working, At, Goto, Mishap, slurm
<1>1. ASSUME NEW j \in Job, Start(j) PROVE Fresh'
  BY <1>1 DEF Start
<1>2. ASSUME NEW j \in Job, End(j) PROVE Fresh'
  BY <1>2 DEF End
<1>3. ASSUME NEW j \in Job, Release(j) PROVE Fresh'
  BY <1>3 DEF Release
<1>4. CASE Register
  BY <1>4 DEF Register, Save
<1>5. ASSUME NEW h \in Hook, RunHook(h) PROVE Fresh'
  BY <1>5 DEF RunHook, Save
<1>6. CASE HookLost
  BY <1>6 DEF HookLost
<1>7. CASE Snapshot
  BY <1>7 DEF Snapshot
<1>8. CASE ReadSlurm
  BY <1>8 DEF ReadSlurm
<1>9. CASE Correct
  BY <1>9 DEF Correct, MayCorrect, Save, Idle
<1>10. CASE Attempt
  <2>1. rec' = rec /\ worker'.step \in {"idle", "read"}
    <3>1. CASE NeedsAttempt
      <4>1. worker' = [worker EXCEPT !.step = "read", !.tries = 2]
        BY <1>10, <3>1 DEF Attempt
      <4> QED
        BY <1>10, <4>1 DEF Attempt
    <3>2. CASE ~NeedsAttempt
      BY <1>10, <3>2 DEF Attempt, Done, Idle
    <3> QED
      BY <3>1, <3>2
  <2>2. "applied" \in current' => "applied" \in current
    BY <1>10 DEF Attempt, Done
  <2> QED
    BY <2>1, <2>2
<1>11. CASE ReadRecord
  <2>1. rec' = rec /\ ("applied" \in current' => "applied" \in current)
    BY <1>11 DEF ReadRecord, Done
  <2>2. CASE worker.tries = 0 \/ UpToDate
    BY <1>11, <2>1, <2>2 DEF ReadRecord, Done, Idle
  <2>3. CASE ~(worker.tries = 0 \/ UpToDate)
    <3>1. worker'.owner = Desired(Recorded)
      BY <1>11, <2>3 DEF ReadRecord
    <3> QED
      BY <2>1, <3>1
  <2> QED
    BY <2>2, <2>3
<1>12. CASE Get
  BY <1>12 DEF Get
<1>13. CASE Retire
  BY <1>13 DEF Retire, Done, Idle, Ledger
<1>14. CASE Recheck
  BY <1>14 DEF Recheck
<1>15. CASE Update
  BY <1>15 DEF Update
<1>16. CASE Acknowledge
  <2>1. CASE "read" \in current
    <3>1. worker.owner = Desired(Recorded) /\ worker'.step = "idle"
      BY <1>16, <2>1 DEF Acknowledge, Idle
    <3>2. rec'.owner = worker.owner /\ rec'.jobs = rec.jobs
      BY <1>16, <2>1 DEF Acknowledge, Ledger
    <3> QED
      BY <3>1, <3>2
  <2>2. CASE "read" \notin current
    BY <1>16, <2>2 DEF Acknowledge
  <2> QED
    BY <2>1, <2>2
<1>17. CASE Refused
  BY <1>17 DEF Refused, Defer, Done, Idle
<1>18. CASE CallFails
  BY <1>18 DEF CallFails, Defer, Done, Idle
<1>19. CASE WorkerStops
  BY <1>19 DEF WorkerStops, Done, Idle
<1>20. CASE Late
  BY <1>20 DEF Late
<1>21. CASE Edit
  BY <1>21 DEF Edit
<1>22. CASE Time
  BY <1>22 DEF Time
<1>23. CASE UNCHANGED vars
  BY <1>23 DEF vars
<1> QED
  BY <1>1, <1>2, <1>3, <1>4, <1>5, <1>6, <1>7, <1>8, <1>9, <1>10, <1>11, <1>12, <1>13, <1>14,
     <1>15, <1>16, <1>17, <1>18, <1>19, <1>20, <1>21, <1>22, <1>23 DEF Next, Work

\* AcknowledgedIsDesired, for any jobs, users and mishaps: a tag that the record
\* calls applied is the one its newest revision asks for.
THEOREM AppliedIsNewest == Spec => []AcknowledgedIsDesired
<1>1. Init => Typed /\ Fresh
  BY TypedInit DEF Init, Fresh, AcknowledgedIsDesired
<1>2. Typed /\ Fresh /\ [Next]_vars => (Typed /\ Fresh)'
  BY TypedNext, FreshNext
<1>3. Fresh => AcknowledgedIsDesired
  BY DEF Fresh
<1> QED
  BY <1>1, <1>2, <1>3, PTL DEF Spec

---------------------------------------------------------------------------
\* No run is recorded, or left to a hook, before it began.
Ordered ==
    /\ \A j \in Job : alloc[j] <= begun[j]
    /\ \A j \in Job : rec.jobs[j] # None => rec.jobs[j] <= begun[j]
    /\ \A h \in hooks : h.run <= begun[h.job]

\* While the revision is still the one before the look at Slurm, the worker has
\* seen every run that is recorded and on the node.
Seen ==
    At("correct") /\ "snapshot" \in current =>
        \A j \in Job : alloc[j] # 0 /\ j \notin completing /\ rec.jobs[j] = alloc[j]
                         => j \in worker.seen

LEMMA OrderedNext == Typed /\ Ordered /\ [Next]_vars => Ordered'
<1> SUFFICES ASSUME Typed, Ordered, [Next]_vars PROVE Ordered'
  OBVIOUS
<1> USE Slurm, Absent DEF Ordered, Typed, Started, Ledger, Jobs, Hook, Run, slurm
<1>1. ASSUME NEW j \in Job, Start(j) PROVE Ordered'
  <2>1. \A k \in Job : begun[k] <= begun'[k] /\ begun'[k] \in Nat
    BY <1>1 DEF Start
  <2>2. alloc'[j] = begun'[j] /\ \A k \in Job : k # j => alloc'[k] = alloc[k]
    BY <1>1 DEF Start
  <2>3. \A k \in Job : alloc'[k] <= begun'[k]
    <3>1. \A k \in Job : alloc[k] \in Nat /\ begun[k] \in Nat
      OBVIOUS
    <3> QED
      BY <2>1, <2>2, <3>1
  <2>4. \A k \in Job : rec'.jobs[k] # None => rec'.jobs[k] <= begun'[k]
    <3>1. \A k \in Job : rec.jobs[k] # None => rec.jobs[k] \in Nat
      BY DEF Unknown
    <3> QED
      BY <1>1, <2>1, <3>1 DEF Start
  <2>5. \A h \in hooks' : h.run <= begun'[h.job]
    <3>1. hooks' = hooks \union {[mode |-> "prolog", job |-> j, run |-> begun'[j]]}
      BY <1>1 DEF Start
    <3>2. \A h \in hooks : h.run \in Nat /\ h.job \in Job
      OBVIOUS
    <3> QED
      BY <2>1, <3>1, <3>2
  <2> QED
    BY <2>3, <2>4, <2>5
<1>2. ASSUME NEW j \in Job, End(j) PROVE Ordered'
  BY <1>2 DEF End
<1>3. ASSUME NEW j \in Job, Release(j) PROVE Ordered'
  BY <1>3 DEF Release
<1>4. CASE Register
  BY <1>4 DEF Register, Save
<1>5. ASSUME NEW h \in Hook, RunHook(h) PROVE Ordered'
  BY <1>5 DEF RunHook, Save
<1>6. CASE HookLost
  BY <1>6 DEF HookLost
<1>7. CASE Snapshot
  BY <1>7 DEF Snapshot
<1>8. CASE ReadSlurm
  BY <1>8 DEF ReadSlurm
<1>9. CASE Correct
  <2>1. CASE MayCorrect
    <3>1. rec'.jobs = [j \in Job |-> IF j \in worker.seen THEN Unknown ELSE None]
      BY <1>9, <2>1 DEF Correct, Save
    <3>2. \A j \in Job : rec'.jobs[j] # None => rec'.jobs[j] = 0
      BY <3>1 DEF Unknown
    <3>3. \A j \in Job : 0 <= begun[j]
      OBVIOUS
    <3> QED
      BY <1>9, <3>2, <3>3 DEF Correct
  <2>2. CASE ~MayCorrect
    BY <1>9, <2>2 DEF Correct
  <2> QED
    BY <2>1, <2>2
<1>10. CASE Attempt
  BY <1>10 DEF Attempt
<1>11. CASE ReadRecord
  BY <1>11 DEF ReadRecord
<1>12. CASE Get
  BY <1>12 DEF Get
<1>13. CASE Retire
  <2>1. rec'.jobs = rec.jobs
    BY <1>13 DEF Retire
  <2> QED
    BY <1>13, <2>1 DEF Retire
<1>14. CASE Recheck
  BY <1>14 DEF Recheck
<1>15. CASE Update
  BY <1>15 DEF Update
<1>16. CASE Acknowledge
  <2>1. rec'.jobs = rec.jobs
    BY <1>16 DEF Acknowledge
  <2> QED
    BY <1>16, <2>1 DEF Acknowledge
<1>17. CASE Refused
  BY <1>17 DEF Refused, Defer
<1>18. CASE CallFails
  BY <1>18 DEF CallFails, Defer
<1>19. CASE WorkerStops
  BY <1>19 DEF WorkerStops
<1>20. CASE Late
  BY <1>20 DEF Late
<1>21. CASE Edit
  BY <1>21 DEF Edit
<1>22. CASE Time
  BY <1>22 DEF Time
<1>23. CASE UNCHANGED vars
  BY <1>23 DEF vars
<1> QED
  BY <1>1, <1>2, <1>3, <1>4, <1>5, <1>6, <1>7, <1>8, <1>9, <1>10, <1>11, <1>12, <1>13, <1>14,
     <1>15, <1>16, <1>17, <1>18, <1>19, <1>20, <1>21, <1>22, <1>23 DEF Next, Work

LEMMA SeenNext == Typed /\ Ordered /\ Seen /\ [Next]_vars => Seen'
<1> SUFFICES ASSUME Typed, Ordered, Seen, [Next]_vars PROVE Seen'
  OBVIOUS
<1> USE DEF Seen, Typed, Working, At, Goto, slurm
<1>1. ASSUME NEW j \in Job, Start(j) PROVE Seen'
  <2>1. rec.jobs[j] # alloc'[j]
    BY <1>1, Slurm, Absent DEF Start, Ordered, Started, Ledger, Jobs, Run
  <2>2. \A k \in Job : k # j => alloc'[k] = alloc[k]
    BY <1>1 DEF Start, Started
  <2> QED
    BY <1>1, <2>1, <2>2 DEF Start
<1>2. ASSUME NEW j \in Job, End(j) PROVE Seen'
  BY <1>2 DEF End
<1>3. ASSUME NEW j \in Job, Release(j) PROVE Seen'
  BY <1>3 DEF Release, Started
<1>4. CASE Register
  BY <1>4 DEF Register, Save
<1>5. ASSUME NEW h \in Hook, RunHook(h) PROVE Seen'
  BY <1>5 DEF RunHook, Save
<1>6. CASE HookLost
  BY <1>6 DEF HookLost
<1>7. CASE Snapshot
  BY <1>7 DEF Snapshot
<1>8. CASE ReadSlurm
  BY <1>8 DEF ReadSlurm
<1>9. CASE Correct
  <2>1. worker'.step = "attempt"
    BY <1>9 DEF Correct, Idle
  <2> QED
    BY <2>1
<1>10. CASE Attempt
  <2>1. worker'.step # "correct"
    <3>1. CASE NeedsAttempt
      <4>1. worker' = [worker EXCEPT !.step = "read", !.tries = 2]
        BY <1>10, <3>1 DEF Attempt
      <4> QED
        BY <4>1
    <3>2. CASE ~NeedsAttempt
      BY <1>10, <3>2 DEF Attempt, Done, Idle
    <3> QED
      BY <3>1, <3>2
  <2> QED
    BY <2>1
<1>11. CASE ReadRecord
  <2>1. worker'.step # "correct"
    <3>1. CASE worker.tries = 0 \/ UpToDate
      BY <1>11, <3>1 DEF ReadRecord, Done, Idle
    <3>2. CASE ~(worker.tries = 0 \/ UpToDate)
      BY <1>11, <3>2 DEF ReadRecord
    <3> QED
      BY <3>1, <3>2
  <2> QED
    BY <2>1
<1>12. CASE Get
  BY <1>12 DEF Get
<1>13. CASE Retire
  BY <1>13 DEF Retire, Done, Idle
<1>14. CASE Recheck
  BY <1>14 DEF Recheck
<1>15. CASE Update
  BY <1>15 DEF Update
<1>16. CASE Acknowledge
  BY <1>16 DEF Acknowledge, Idle
<1>17. CASE Refused
  BY <1>17 DEF Refused, Defer, Done, Idle
<1>18. CASE CallFails
  BY <1>18 DEF CallFails, Defer, Done, Idle
<1>19. CASE WorkerStops
  BY <1>19 DEF WorkerStops, Done, Idle
<1>20. CASE Late
  BY <1>20 DEF Late
<1>21. CASE Edit
  BY <1>21 DEF Edit
<1>22. CASE Time
  BY <1>22 DEF Time
<1>23. CASE UNCHANGED vars
  BY <1>23 DEF vars
<1> QED
  BY <1>1, <1>2, <1>3, <1>4, <1>5, <1>6, <1>7, <1>8, <1>9, <1>10, <1>11, <1>12, <1>13, <1>14,
     <1>15, <1>16, <1>17, <1>18, <1>19, <1>20, <1>21, <1>22, <1>23 DEF Next, Work

LEMMA CorrectKeeps ==
  ASSUME Typed, Seen, Correct, NEW j \in Job,
         alloc[j] # 0, j \notin completing, rec.jobs[j] = alloc[j]
  PROVE  rec'.jobs[j] # None
<1>1. rec.jobs[j] # None
  BY Slurm, Absent DEF Typed, Started
<1>2. CASE MayCorrect
  <2>1. j \in worker.seen
    BY <1>2 DEF Correct, MayCorrect, Seen
  <2>2. rec'.jobs = [k \in Job |-> IF k \in worker.seen THEN Unknown ELSE None]
    BY <1>2 DEF Correct, Save, Typed, Ledger
  <2>3. rec'.jobs[j] = 0
    BY <2>1, <2>2 DEF Unknown
  <2> QED
    BY <2>3, Absent
<1>3. CASE ~MayCorrect
  BY <1>1, <1>3 DEF Correct
<1> QED
  BY <1>2, <1>3

\* CorrectionKeepsRunningJobs, for any jobs, runs and mishaps: hooks newer than
\* the look at Slurm win.
THEOREM NewerHooksWin == Spec => CorrectionKeepsRunningJobs
<1>1. Init => Typed /\ Ordered /\ Seen
  BY TypedInit DEF Init, Ordered, Seen
<1>2. Typed /\ Ordered /\ Seen /\ [Next]_vars => (Typed /\ Ordered /\ Seen)'
  BY TypedNext, OrderedNext, SeenNext
<1>3. Typed /\ Seen =>
        [Correct => \A j \in Job : alloc[j] # 0 /\ j \notin completing /\ rec.jobs[j] = alloc[j]
                      => rec'.jobs[j] # None]_vars
  BY CorrectKeeps
<1> QED
  BY <1>1, <1>2, <1>3, PTL DEF Spec, CorrectionKeepsRunningJobs

=============================================================================
