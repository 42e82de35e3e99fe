-------------------------- MODULE AutoscalingGuard --------------------------
(***************************************************************************)
(* bin/autoscaling_guard.py: the persistent latch that stops automatic     *)
(* cluster creation after consecutive failures.                            *)
(*                                                                         *)
(* Every creation attempt runs in a guard process of its own               *)
(* (autoscaling_guard.py run ...), started by the cron scheduler.  The     *)
(* process reads its configuration, takes an exclusive flock on the state  *)
(* directory, refuses or spawns create_cluster.sh, waits for it with the   *)
(* lock released, takes the lock again to record the result, and queues    *)
(* notices.  An operator runs resume at any time.  state.json is replaced  *)
(* atomically, so a step that holds the lock from a read to a save is one  *)
(* action; the only place where the lock is held across two actions is     *)
(* between saving a stop and queuing its notice, where a crash matters.    *)
(***************************************************************************)
EXTENDS Naturals, Sequences, FiniteSets

CONSTANTS
    Attempt,      \* one guard process per creation attempt
    Thresholds,   \* values failure_threshold may be configured to; 0 disables
    Missing,      \* there is no state.json
    Corrupt,      \* state.json holds something read_state rejects
    None,         \* an absent field, or nobody
    MaxResumes,   \* bound: how many times the operator resumes
    MaxMishaps    \* bound: reconfigurations, losses and damage of state.json

ASSUME ThresholdsAssumption == Thresholds \subseteq Nat
ASSUME NoneAssumption == None \notin Nat /\ None \notin Attempt
ASSUME BoundsAssumption == MaxResumes \in Nat /\ MaxMishaps \in Nat

VARIABLES
    config,    \* failure_threshold in autoscaling_guard.json
    file,      \* state.json: Missing, Corrupt or a State
    lock,      \* the guard that holds .lock between two actions, or None
    pc,        \* where each guard process is
    thr,       \* the threshold each guard process loaded
    gen,       \* the generation each guard process was admitted under
    code,      \* exit status of each create_cluster.sh
    notice,    \* the notice a guard still has to queue
    spool,     \* notices queued for delivery
    nextGen,   \* the next fresh generation (uuid4)
    resumes,   \* resumes so far
    mishaps,   \* mishaps so far
    \* History, read by properties only:
    era,       \* how often the record was replaced (resume) or lost
    born,      \* the era in which each attempt was spawned, or None
    log        \* recorded results, resumes and losses, in order

guardVars == <<pc, thr, gen, code, notice>>
historyVars == <<era, born, log>>
vars == <<config, file, lock, guardVars, spool, nextGen, resumes, mishaps,
          historyVars>>

-----------------------------------------------------------------------------
(* The persistent record. *)

Count == Nat \union {None}

State == [generation : Nat, consecutive_failures : Nat, stopped : BOOLEAN,
          recovery_pending : BOOLEAN,
          failures_before_resume : Count,
          resumedWith : Count,    \* last_reset.previous_failures, if the last
                                  \* reset was a manual_resume
          threshold : Nat]        \* 0 until a stop writes it

ASSUME FileAssumption == /\ Missing # Corrupt
                         /\ Missing \notin State /\ Corrupt \notin State

\* A file that read_state accepts.
IsState(f) == f \notin {Missing, Corrupt}

initial_state(g) ==
    [generation |-> g, consecutive_failures |-> 0, stopped |-> FALSE,
     recovery_pending |-> FALSE, failures_before_resume |-> None,
     resumedWith |-> None, threshold |-> 0]

\* A missing file reads as a fresh record with a generation nobody has seen.
read_state == IF file = Missing THEN initial_state(nextGen) ELSE file

\* Mutant: the latch is not consulted at admission.
ClosedIfUnreadable == file = Corrupt

\* Creation is refused: the record is unreadable or says stopped.
Closed == IF file = Corrupt THEN TRUE ELSE read_state.stopped

\* The count of failures before a manual resume that a state still carries;
\* records of an earlier version keep it in last_reset only.
CarriedFailures(s) ==
    IF s.failures_before_resume # None \/ ~s.recovery_pending
    THEN s.failures_before_resume
    ELSE s.resumedWith

\* Mutant: a success leaves the count as it is.
NextCountKept(s, c) == IF c = 0 THEN s.consecutive_failures ELSE s.consecutive_failures + 1

\* consecutive_failures after an exit status c.
NextCount(s, c) == IF c = 0 THEN 0 ELSE s.consecutive_failures + 1

\* Mutant: off by one.
TripsAbove(n, t) == n > t

\* n consecutive failures stop a guard configured with threshold t.
Trips(n, t) == n >= t

\* The record after the result c of an attempt is counted against t.
Recorded(s, c, t) ==
    LET failures == NextCount(s, c)
    IN [s EXCEPT
          !.consecutive_failures = failures,
          !.recovery_pending = IF c = 0 THEN FALSE ELSE @,
          !.failures_before_resume = IF c = 0 THEN None ELSE @,
          !.resumedWith =
              IF c = 0 /\ s.consecutive_failures > 0 THEN None ELSE @,
          !.stopped = IF Trips(failures, t) THEN TRUE ELSE @,
          !.threshold = IF Trips(failures, t) THEN t ELSE @]

\* A resume of s owes a recovery notice.
RecoveryPending(s) == s.stopped \/ s.consecutive_failures > 0 \/ s.recovery_pending

\* The count of failures that a resume of s carries on.
CountBeforeResume(s) ==
    LET count == IF s.consecutive_failures > 0 THEN s.consecutive_failures
                 ELSE s.failures_before_resume
    IN IF count = None THEN s.resumedWith ELSE count

\* The record resume writes in place of s.
Resumed(s, g) ==
    [initial_state(g) EXCEPT
        !.recovery_pending = RecoveryPending(s),
        !.failures_before_resume =
            IF RecoveryPending(s) THEN CountBeforeResume(s) ELSE None,
        !.resumedWith = s.consecutive_failures]

-----------------------------------------------------------------------------
(* Processes and history. *)

Steps == {"idle", "planned", "loaded", "running", "exited", "announcing",
          "done", "refused", "unguarded", "killed"}

Goto(a, to) == pc' = [pc EXCEPT ![a] = to]

Happened(kind, a) == log' = Append(log, [kind |-> kind, attempt |-> a, era |-> era])

\* The record is replaced or lost: earlier attempts belong to another era.
NewEra(kind) == Happened(kind, None) /\ era' = era + 1

\* save_state raises OSError (a full disk): state.json keeps its old contents.
SaveFails == mishaps < MaxMishaps /\ mishaps' = mishaps + 1

NoNotice == [kind |-> "none", generation |-> 0, failures |-> 0, carried |-> None]

Init ==
    /\ config \in Thresholds
    /\ lock = None
    /\ pc = [a \in Attempt |-> "idle"]
    /\ thr = [a \in Attempt |-> 0]
    /\ gen = [a \in Attempt |-> 0]
    /\ code = [a \in Attempt |-> 0]
    /\ notice = [a \in Attempt |-> NoNotice]
    /\ spool = {}
    /\ nextGen = 1
    /\ resumes = 0
    /\ mishaps = 0
    /\ era = 0
    /\ born = [a \in Attempt |-> None]
    /\ \/ /\ file = Missing
          /\ log = <<>>
       \* A record written by the release that had no failures_before_resume,
       \* after one failure and a resume.
       \/ /\ file = [initial_state(0) EXCEPT !.recovery_pending = TRUE,
                                             !.resumedWith = 1]
          /\ log = <<[kind |-> "fail", attempt |-> None, era |-> 0],
                     [kind |-> "resume", attempt |-> None, era |-> 0]>>

-----------------------------------------------------------------------------
(* The scheduler and one guard process. *)

\* scheduler_creation_requests: the cron pass keeps its creation requests
\* only if the guard is disabled or the record is readable and not stopped.
\* The snapshot is taken under the lock but acted upon after it.
Plan(a) ==
    /\ pc[a] = "idle"
    /\ \/ config = 0
       \/ /\ lock = None
          /\ ~Closed
    /\ Goto(a, "planned")
    /\ UNCHANGED <<config, file, lock, thr, gen, code, notice, spool, nextGen,
                   resumes, mishaps, historyVars>>

\* The spawned guard process loads the configuration, before it locks.
load_config(a) ==
    /\ pc[a] = "planned"
    /\ thr' = [thr EXCEPT ![a] = config]
    /\ Goto(a, IF config = 0 THEN "unguarded" ELSE "loaded")
    /\ UNCHANGED <<config, file, lock, gen, code, notice, spool, nextGen,
                   resumes, mishaps, historyVars>>

\* First critical section of run_create, refusing: the latch is stopped, the
\* record is unreadable, or it cannot be saved (a mishap).
Refuse(a) ==
    /\ pc[a] = "loaded"
    /\ lock = None
    /\ \/ Closed /\ UNCHANGED mishaps
       \/ SaveFails
    /\ Goto(a, "refused")
    /\ UNCHANGED <<config, file, lock, thr, gen, code, notice, spool, nextGen,
                   resumes, historyVars>>

\* First critical section of run_create, admitting: the record is saved, so
\* that a fresh generation is on disk, and create_cluster.sh is spawned while
\* the lock is held (127 when it cannot be launched).
Admit(a) ==
    /\ pc[a] = "loaded"
    /\ lock = None
    /\ ~Closed
    /\ file' = read_state
    /\ gen' = [gen EXCEPT ![a] = read_state.generation]
    /\ nextGen' = IF file = Missing THEN nextGen + 1 ELSE nextGen
    /\ born' = [born EXCEPT ![a] = era]
    /\ \/ Goto(a, "running") /\ UNCHANGED code
       \/ Goto(a, "exited") /\ code' = [code EXCEPT ![a] = 127]
    /\ UNCHANGED <<config, lock, thr, notice, spool, resumes, mishaps, era, log>>

CreateExits(a) ==
    /\ pc[a] = "running"
    /\ \E c \in {0, 1} : code' = [code EXCEPT ![a] = c]
    /\ Goto(a, "exited")
    /\ UNCHANGED <<config, file, lock, thr, gen, notice, spool, nextGen, resumes,
                   mishaps, historyVars>>

\* Mutant: results of earlier generations count.
CountsAnyGeneration(a) == IF IsState(file) THEN ~file.stopped ELSE FALSE

\* The result of a belongs to the record on disk, which is not stopped.
Counts(a) ==
    /\ IsState(file)
    /\ file.generation = gen[a]
    /\ ~file.stopped

\* The flock is kept past the save only to queue a stop notice.
Holder(a, stops) == IF stops THEN a ELSE None

\* Second critical section of run_create when the result counts.  A stop keeps
\* the lock until its notice is queued; a recovery notice is queued unlocked.
Record(a) ==
    /\ pc[a] = "exited"
    /\ lock = None
    /\ Counts(a)
    /\ LET after == Recorded(file, code[a], thr[a])
           recovered == /\ code[a] = 0
                        /\ file.consecutive_failures > 0 \/ file.recovery_pending
           message(kind) ==
               [kind |-> kind, generation |-> file.generation,
                failures |-> IF kind = "stop" THEN after.consecutive_failures
                             ELSE file.consecutive_failures,
                carried |-> CarriedFailures(file)]
       IN /\ file' = after
          /\ Happened(IF code[a] = 0 THEN "ok" ELSE "fail", a)
          /\ lock' = Holder(a, after.stopped)
          /\ notice' = [notice EXCEPT ![a] = IF after.stopped THEN message("stop")
                                             ELSE IF recovered THEN message("recovery")
                                             ELSE NoNotice]
          /\ Goto(a, IF after.stopped \/ recovered THEN "announcing" ELSE "done")
    /\ UNCHANGED <<config, thr, gen, code, spool, nextGen, resumes, mishaps, era,
                   born>>

\* Second critical section of run_create when the result is dropped: it
\* belongs to another generation, the latch is already stopped, state.json is
\* missing or unreadable, or the new record cannot be saved (a mishap).
Drop(a) ==
    /\ pc[a] = "exited"
    /\ lock = None
    /\ \/ ~Counts(a) /\ UNCHANGED mishaps
       \/ SaveFails
    /\ Goto(a, "done")
    /\ UNCHANGED <<config, file, lock, thr, gen, code, notice, spool, nextGen,
                   resumes, historyVars>>

\* Mutant: a lock file nobody removes.
StillLocked(a) == lock

\* a leaves its critical section, or dies: the kernel frees its flock.
Unlocked(a) == IF lock = a THEN None ELSE lock

\* queue_notification never raises: the notice is queued, or notifications are
\* off or failing and it is lost.
queue_notification(a) ==
    /\ pc[a] = "announcing"
    /\ \/ spool' = spool \union {[attempt |-> a, message |-> notice[a]]}
       \/ UNCHANGED spool
    /\ notice' = [notice EXCEPT ![a] = NoNotice]
    /\ lock' = Unlocked(a)
    /\ Goto(a, "done")
    /\ UNCHANGED <<config, file, thr, gen, code, nextGen, resumes, mishaps,
                   historyVars>>

\* A guard process dies (reboot, kill).  The kernel releases its flock; an
\* already spawned create_cluster.sh is not observed any more.
Kill(a) ==
    /\ pc[a] \in {"planned", "loaded", "running", "exited", "announcing"}
    /\ Goto(a, "killed")
    /\ lock' = Unlocked(a)
    /\ notice' = [notice EXCEPT ![a] = NoNotice]
    /\ UNCHANGED <<config, file, thr, gen, code, spool, nextGen, resumes, mishaps,
                   historyVars>>

-----------------------------------------------------------------------------
(* The operator and the world. *)

\* autoscaling_guard.py resume
Resume ==
    /\ resumes < MaxResumes
    /\ lock = None
    /\ file # Corrupt
    /\ file' = Resumed(read_state, nextGen + 1)
    /\ nextGen' = nextGen + 2
    /\ resumes' = resumes + 1
    /\ NewEra("resume")
    /\ UNCHANGED <<config, lock, guardVars, spool, mishaps, born>>

\* Terraform/Ansible rewrite autoscaling_guard.json.
Reconfigure ==
    /\ mishaps < MaxMishaps
    /\ config' \in Thresholds \ {config}
    /\ mishaps' = mishaps + 1
    /\ UNCHANGED <<file, lock, guardVars, spool, nextGen, resumes, historyVars>>

\* state.json is removed, or damaged, from outside (no lock is taken).
LoseFile ==
    /\ mishaps < MaxMishaps
    /\ file # Missing
    /\ file' = Missing
    /\ mishaps' = mishaps + 1
    /\ NewEra("lost")
    /\ UNCHANGED <<config, lock, guardVars, spool, nextGen, resumes, born>>

DamageFile ==
    /\ mishaps < MaxMishaps
    /\ IsState(file)
    /\ file' = Corrupt
    /\ mishaps' = mishaps + 1
    /\ UNCHANGED <<config, lock, guardVars, spool, nextGen, resumes, historyVars>>

Next ==
    \/ \E a \in Attempt :
        \/ Plan(a) \/ load_config(a) \/ Refuse(a) \/ Admit(a) \/ CreateExits(a)
        \/ Record(a) \/ Drop(a) \/ queue_notification(a) \/ Kill(a)
    \/ Resume \/ Reconfigure \/ LoseFile \/ DamageFile

Spec == Init /\ [][Next]_vars

\* Guard processes run on; every create_cluster.sh ends (its Terraform and
\* Ansible steps have timeouts).  Nothing makes the scheduler, the operator,
\* a crash or a mishap happen.
Fairness ==
    \A a \in Attempt : WF_vars(CreateExits(a)) /\ WF_vars(Record(a))
                       /\ WF_vars(Drop(a)) /\ WF_vars(queue_notification(a))

FairSpec == Spec /\ Fairness

-----------------------------------------------------------------------------
(* Properties. *)

LogEntry == [kind : {"ok", "fail", "resume", "lost"},
             attempt : Attempt \union {None}, era : Nat]

Notice == [kind : {"none", "stop", "recovery"}, generation : Nat,
           failures : Nat, carried : Count]

TypeOK ==
    /\ config \in Thresholds
    /\ file \in State \union {Missing, Corrupt}
    /\ lock \in Attempt \union {None}
    /\ pc \in [Attempt -> Steps]
    /\ thr \in [Attempt -> Nat]
    /\ gen \in [Attempt -> Nat]
    /\ code \in [Attempt -> Nat]
    /\ notice \in [Attempt -> Notice]
    /\ spool \subseteq [attempt : Attempt, message : Notice]
    /\ nextGen \in Nat /\ resumes \in Nat /\ mishaps \in Nat /\ era \in Nat
    /\ born \in [Attempt -> Nat \union {None}]
    /\ log \in Seq(LogEntry)

\* The last k of the first n recorded events, and no more, are failures.
IsStreak(n, k) ==
    /\ k <= n
    /\ \A i \in (n - k + 1)..n : log[i].kind = "fail"
    /\ k < n => log[n - k].kind # "fail"

\* consecutive_failures is exactly the unbroken run of failures recorded last
\* since the record was opened, over all attempts in the order they took the
\* lock: parallel completions lose none and count none twice.
CountIsTrailingFailures ==
    IsState(file) => IsStreak(Len(log), file.consecutive_failures)

\* No result is counted against another opening than the one its attempt was
\* started in: results from before a resume, or before the record was lost,
\* never reach the resumed latch.
ResultsStayInTheirEra ==
    \A i \in 1..Len(log) :
        log[i].attempt # None => born[log[i].attempt] = log[i].era

\* The stop is committed with the failure that reaches the threshold the
\* recording guard had loaded: an accepting record never keeps a streak whose
\* last failure was recorded by a guard that should have stopped it, and a
\* stopped one has the failures its threshold asks for.
StopExactlyAtThreshold ==
    IsState(file) =>
        /\ file.stopped => file.consecutive_failures >= file.threshold
        /\ ~file.stopped /\ file.consecutive_failures > 0 =>
              file.consecutive_failures < thr[log[Len(log)].attempt]

\* A recovery is owed (the next success is announced) exactly when a failure
\* was recorded after the last recorded success, resumes notwithstanding.
RecoveryOwedAfterFailure ==
    IsState(file) =>
        ((file.consecutive_failures > 0 \/ file.recovery_pending) <=>
            \E i \in 1..Len(log) :
                /\ log[i].kind = "fail"
                /\ \A j \in i..Len(log) : log[j].kind \notin {"ok", "lost"})

\* The count before a manual resume that a recovery mail would quote is the
\* last unbroken run of failures that a resume ended, however many resumes
\* followed and whichever release wrote the record.
CarriedCountIsLastStreak ==
    IsState(file) /\ file.recovery_pending =>
        \E i \in 1..Len(log) :
            /\ log[i].kind = "resume"
            /\ i > 1 /\ log[i - 1].kind = "fail"
            /\ \A j \in (i + 1)..Len(log) :
                  /\ log[j].kind \notin {"ok", "lost"}
                  /\ log[j].kind = "resume" => log[j - 1].kind # "fail"
            /\ CarriedFailures(file) \in Nat
            /\ IsStreak(i - 1, CarriedFailures(file))

\* At most one stop notice is ever queued for one opening of the latch, and a
\* recovery notice always reports failures.
NoticesAreTrue ==
    /\ \A m, n \in spool :
          /\ m.message.kind = "stop" /\ n.message.kind = "stop"
          /\ m.message.generation = n.message.generation
          => m = n
    /\ \A n \in spool : n.message.kind = "recovery" =>
          n.message.failures > 0 \/ n.message.carried \notin {0, None}

\* What the record and the notices say beyond the count is true of the history
\* of results, resumes and losses, whatever overlaps and whoever dies.
RecordTellsTheHistory ==
    /\ StopExactlyAtThreshold
    /\ RecoveryOwedAfterFailure
    /\ CarriedCountIsLastStreak
    /\ NoticesAreTrue

\* Only a resume makes a stopped record accept again: no later success, stale
\* result, refusal, crash or reconfiguration does.
OnlyResumeReopens ==
    [][IsState(file) /\ file.stopped /\ IsState(file') /\ ~file'.stopped
         => resumes' = resumes + 1]_vars

\* Every spawned creation is followed to its end, whatever other guards do
\* with the lock and wherever they die.
EverySpawnedAttemptIsSettled ==
    \A a \in Attempt : pc[a] = "running" ~> pc[a] \in {"done", "killed"}

\* What the latch shows: the file's state, the attempts of this era that are
\* not counted, and the attempts of the failures at the end of the log.
Position == IF file = Corrupt THEN "jammed"
            ELSE IF read_state.stopped THEN "tripped" ELSE "accepting"

Uncounted == {a \in Attempt : born[a] = era /\ \A i \in 1..Len(log) : log[i].attempt # a}

Trailing == {a \in Attempt : \E i \in 1..Len(log) :
                /\ log[i].attempt = a
                /\ \A j \in i..Len(log) : log[j].kind = "fail"}

\* The guard implements the latch.
Latch == INSTANCE CreationLatch WITH
    Thresholds <- Thresholds \ {0},
    latch <- Position,
    inflight <- Uncounted,
    streak <- Trailing

ImplementsLatch == Latch!Spec
=============================================================================
