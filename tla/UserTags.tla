----------------------------- MODULE UserTags -----------------------------
(***************************************************************************)
(* Who pays for a compute node: slurm_oci_user_tags.py.  Prolog and epilog  *)
(* hooks keep a record of the node's jobs on the shared file system; the    *)
(* worker on the controller corrects it from squeue and brings the tag      *)
(* hpc-cost.User of the instance into line.  No lock is held over a network *)
(* call: every result is used only if the record still has the revision it  *)
(* was asked for.                                                           *)
(*                                                                         *)
(* One node; the records of several are independent.  What has the current  *)
(* revision is a set, emptied by every save, and an ETag is current or not, *)
(* so that neither is counted.  What is done under the record's lock is one *)
(* step: who loses the lock is refused by assert_locks_owned, and fails.    *)
(* Left out: the grace after a hook (a correction may come at any time),    *)
(* the history files, metadata.                                             *)
(***************************************************************************)
EXTENDS Integers, FiniteSets

CONSTANTS
    Job, User,
    OwnerOf,      \* [Job -> User]
    None,
    MaxRuns,      \* bound: runs of a job on the node
    MaxMishaps    \* bound: hooks that do not come through, failed calls and
                  \* passes of the worker, changes of the instance by others

ASSUME Slurm == /\ OwnerOf \in [Job -> User] /\ IsFiniteSet(Job)
                /\ MaxRuns \in Nat /\ MaxMishaps \in Nat

ASSUME Absent == None \notin Nat

Unknown == 0         \* the run of a job that squeue alone has reported
Management == "Management"
Owners == User \union {Management, None}

VARIABLES
    alloc, completing,  \* the run of each job on the node; jobs in their epilog
    begun,              \* runs of each job so far
    hooks,              \* hooks to run
    rec,                \* the record
    current,            \* who has the record's current revision
    deferred, checked,  \* next_attempt_at and checked_at against the clock
    worker,
    oci,                \* the tag, whether the worker's ETag is current, requests under way
    mishaps

slurm == <<alloc, completing, begun>>
vars == <<slurm, hooks, rec, current, deferred, checked, worker, oci, mishaps>>

Run == 1..MaxRuns
Hook == [mode : {"prolog", "epilog"}, job : Job, run : Run]
Revisions == {"snapshot", "attempt", "read", "applied"}
Idle == [step |-> "idle", seen |-> {}, owner |-> None, tag |-> None, tries |-> 0]
At(s) == worker.step = s
Goto(s) == worker' = [worker EXCEPT !.step = s]

TypeOK ==
    /\ alloc \in [Job -> 0..MaxRuns] /\ begun \in [Job -> 0..MaxRuns]
    /\ completing \subseteq Job
    /\ hooks \subseteq Hook
    /\ rec \in [jobs : [Job -> Run \union {Unknown, None}], known : BOOLEAN, retired : BOOLEAN,
                owner : Owners]
    /\ current \subseteq Revisions
    /\ deferred \in BOOLEAN /\ checked \in BOOLEAN
    /\ worker \in [step : {"idle", "slurm", "correct", "attempt", "read", "get", "recheck",
                           "update", "acknowledge", "retire"},
                   seen : SUBSET Job, owner : Owners, tag : Owners, tries : 0..2]
    /\ oci \in [tag : Owners, up : BOOLEAN, etag : BOOLEAN, late : SUBSET Owners]
    /\ mishaps \in 0..MaxMishaps

Init ==
    /\ alloc = [j \in Job |-> 0] /\ begun = [j \in Job |-> 0] /\ completing = {}
    /\ hooks = {}
    /\ rec = [jobs |-> [j \in Job |-> None], known |-> FALSE, retired |-> FALSE, owner |-> None]
    /\ current = {} /\ deferred = FALSE /\ checked = FALSE
    /\ worker = Idle
    /\ oci = [tag |-> Management, up |-> TRUE, etag |-> FALSE, late |-> {}]
    /\ mishaps = 0

\* desired_owner: the one user of the recorded jobs; none for several.
Recorded == {j \in Job : rec.jobs[j] # None}
Desired(jobs) ==
    LET users == {OwnerOf[j] : j \in jobs} IN
    CASE users = {} -> Management
      [] Cardinality(users) = 1 -> CHOOSE u \in users : TRUE
      [] OTHER -> None

Mishap == mishaps < MaxMishaps /\ mishaps' = mishaps + 1

---------------------------------------------------------------------------
\* Slurm: a job ends after its prolog, and leaves the node after its epilog.
Quiet(j) == \A h \in hooks : h.job # j

Start(j) ==
    /\ oci.up /\ alloc[j] = 0 /\ begun[j] < MaxRuns
    /\ begun' = [begun EXCEPT ![j] = @ + 1]
    /\ alloc' = [alloc EXCEPT ![j] = begun'[j]]
    /\ hooks' = hooks \union {[mode |-> "prolog", job |-> j, run |-> begun'[j]]}
    /\ UNCHANGED <<completing, rec, current, deferred, checked, worker, oci, mishaps>>

End(j) ==
    /\ alloc[j] # 0 /\ j \notin completing /\ Quiet(j)
    /\ completing' = completing \union {j}
    /\ hooks' = hooks \union {[mode |-> "epilog", job |-> j, run |-> alloc[j]]}
    /\ UNCHANGED <<alloc, begun, rec, current, deferred, checked, worker, oci, mishaps>>

Release(j) ==
    /\ j \in completing /\ Quiet(j)
    /\ alloc' = [alloc EXCEPT ![j] = 0] /\ completing' = completing \ {j}
    /\ UNCHANGED <<begun, hooks, rec, current, deferred, checked, worker, oci, mishaps>>

---------------------------------------------------------------------------
\* save_record: a new revision, which nobody has, and no delay.
Save(jobs) ==
    /\ rec' = [rec EXCEPT !.jobs = jobs, !.known = TRUE]
    /\ current' = {} /\ deferred' = FALSE

Register ==
    /\ ~rec.known
    /\ Save(rec.jobs)
    /\ UNCHANGED <<slurm, hooks, checked, worker, oci, mishaps>>

\* An epilog takes only its own run away, as far as that is known.
RunHook(h) ==
    /\ h \in hooks /\ hooks' = hooks \ {h}
    /\ Save(CASE h.mode = "prolog" -> [rec.jobs EXCEPT ![h.job] = h.run]
              [] h.mode = "epilog" /\ rec.jobs[h.job] \in {Unknown, h.run} ->
                    [rec.jobs EXCEPT ![h.job] = None]
              [] OTHER -> rec.jobs)
    /\ UNCHANGED <<slurm, checked, worker, oci, mishaps>>

\* A hook finds the record busy, fails, or stalls until its lock is taken from
\* it, when assert_locks_owned refuses its write.  Slurm is told it succeeded.
HookLost ==
    /\ Mishap
    /\ \E h \in hooks : hooks' = hooks \ {h}
    /\ UNCHANGED <<slurm, rec, current, deferred, checked, worker, oci>>

---------------------------------------------------------------------------
\* The pass, or this record's turn in it, is over.
Done == worker' = Idle /\ current' = current \intersect {"applied"}

\* The worker: the revision before the look at Slurm.
Snapshot ==
    /\ At("idle") /\ rec.known /\ ~rec.retired
    /\ current' = current \union {"snapshot"}
    /\ Goto("slurm")
    /\ UNCHANGED <<slurm, hooks, rec, deferred, checked, oci, mishaps>>

ReadSlurm ==
    /\ At("slurm")
    /\ \/ worker' = [worker EXCEPT !.seen = {j \in Job : alloc[j] # 0}, !.step = "correct"]
            /\ UNCHANGED <<current, mishaps>>
       \/ Mishap /\ Goto("attempt")
            /\ current' = current \ {"snapshot"}
    /\ UNCHANGED <<slurm, hooks, rec, deferred, checked, oci>>

MayCorrect_late == Recorded # worker.seen

MayCorrect == "snapshot" \in current /\ Recorded # worker.seen

Correct ==
    /\ At("correct")
    /\ IF MayCorrect
       THEN Save([j \in Job |-> IF j \in worker.seen THEN Unknown ELSE None])
       ELSE current' = current \ {"snapshot"} /\ UNCHANGED <<rec, deferred>>
    /\ worker' = [Idle EXCEPT !.step = "attempt"]
    /\ UNCHANGED <<slurm, hooks, checked, oci, mishaps>>

UpToDate_forever == "applied" \in current

UpToDate == "applied" \in current /\ checked

NeedsAttempt == ~rec.retired /\ ~deferred /\ ~UpToDate

Attempt ==
    /\ At("attempt")
    /\ IF NeedsAttempt
       THEN worker' = [worker EXCEPT !.step = "read", !.tries = 2]
            /\ current' = current \union {"attempt"}
       ELSE Done
    /\ UNCHANGED <<slurm, hooks, rec, deferred, checked, oci, mishaps>>

\* apply_latest, at most twice.
ReadRecord ==
    /\ At("read")
    /\ IF worker.tries = 0 \/ UpToDate
       THEN Done
       ELSE /\ worker' = [worker EXCEPT !.step = "get", !.owner = Desired(Recorded), !.tries = @ - 1]
            /\ current' = current \union {"read"}
    /\ UNCHANGED <<slurm, hooks, rec, deferred, checked, oci, mishaps>>

Get ==
    /\ At("get")
    /\ worker' = [worker EXCEPT !.tag = oci.tag, !.step = IF oci.up THEN "recheck" ELSE "retire"]
    /\ oci' = [oci EXCEPT !.etag = TRUE]
    /\ UNCHANGED <<slurm, hooks, rec, current, deferred, checked, mishaps>>

Retire ==
    /\ At("retire")
    /\ rec' = [rec EXCEPT !.retired = TRUE]
    /\ Done
    /\ UNCHANGED <<slurm, hooks, deferred, checked, oci, mishaps>>

Recheck ==
    /\ At("recheck")
    /\ Goto(IF "read" \notin current THEN "read"
            ELSE IF worker.tag # worker.owner THEN "update" ELSE "acknowledge")
    /\ oci' = [oci EXCEPT !.etag = @ /\ worker'.step = "update"]
    /\ UNCHANGED <<slurm, hooks, rec, current, deferred, checked, mishaps>>

\* Every change of the instance makes a new ETag, and refuses what has the old.
Tagged(owner) == [oci EXCEPT !.tag = owner, !.etag = FALSE, !.late = {}]

Update ==
    /\ At("update") /\ oci.etag
    /\ oci' = Tagged(worker.owner)
    /\ Goto("acknowledge")
    /\ UNCHANGED <<slurm, hooks, rec, current, deferred, checked, mishaps>>

Acknowledge_any ==
    /\ At("acknowledge")
    /\ rec' = [rec EXCEPT !.owner = worker.owner]
    /\ current' = {"applied"} /\ checked' = TRUE /\ deferred' = FALSE
    /\ worker' = Idle
    /\ UNCHANGED <<slurm, hooks, oci, mishaps>>

Acknowledge ==
    /\ At("acknowledge")
    /\ IF "read" \in current
       THEN /\ rec' = [rec EXCEPT !.owner = worker.owner]
            /\ current' = {"applied"} /\ checked' = TRUE /\ deferred' = FALSE
            /\ worker' = Idle
       ELSE Goto("read") /\ UNCHANGED <<rec, current, checked, deferred>>
    /\ UNCHANGED <<slurm, hooks, oci, mishaps>>

\* The next attempt is put off, unless there is something newer to apply.
Defer ==
    /\ deferred' = (deferred \/ "attempt" \in current)
    /\ Done
    /\ UNCHANGED <<slurm, hooks, rec, checked>>

Refused == At("update") /\ ~oci.etag /\ Defer /\ UNCHANGED <<oci, mishaps>>

\* A call that fails, or a lock that is not to be had.  An update without an
\* answer may be carried out later.
CallFails ==
    /\ worker.step \in {"read", "get", "update", "retire", "acknowledge"} /\ Mishap
    /\ oci' = [oci EXCEPT !.etag = FALSE,
                          !.late = IF At("update") /\ oci.etag THEN @ \union {worker.owner} ELSE @]
    /\ Defer

WorkerStops ==
    /\ ~At("idle") /\ Mishap
    /\ Done
    /\ oci' = [oci EXCEPT !.etag = FALSE]
    /\ UNCHANGED <<slurm, hooks, rec, deferred, checked>>

---------------------------------------------------------------------------
\* OCI, its console, and the clock.
Late ==
    /\ \E owner \in oci.late : oci' = Tagged(owner)
    /\ UNCHANGED <<slurm, hooks, rec, current, deferred, checked, worker, mishaps>>

Edit ==
    /\ Mishap
    /\ \/ \E tag \in Owners : oci' = Tagged(tag)
       \/ oci' = [Tagged(oci.tag) EXCEPT !.up = FALSE]
    /\ UNCHANGED <<slurm, hooks, rec, current, deferred, checked, worker>>

Time ==
    /\ \/ deferred' = FALSE /\ UNCHANGED checked
       \/ checked' = FALSE /\ UNCHANGED deferred
    /\ UNCHANGED <<slurm, hooks, rec, current, worker, oci, mishaps>>

Work ==
    \/ Snapshot \/ ReadSlurm \/ Correct \/ Attempt \/ ReadRecord \/ Get \/ Retire
    \/ Recheck \/ Update \/ Acknowledge \/ Refused

Next ==
    \/ \E j \in Job : Start(j) \/ End(j) \/ Release(j)
    \/ Register \/ \E h \in Hook : RunHook(h)
    \/ HookLost
    \/ Work \/ CallFails \/ WorkerStops \/ Late \/ Edit \/ Time

Spec == Init /\ [][Next]_vars

\* The timer starts the worker every minute, each delay runs out, and every
\* hook and epilog ends.
Fairness ==
    /\ WF_vars(Work) /\ WF_vars(Register)
    /\ WF_vars(\E h \in Hook : RunHook(h)) /\ WF_vars(\E j \in Job : Release(j))
    /\ WF_vars(Time /\ deferred' # deferred)
    /\ WF_vars(Time /\ checked' # checked)

FairSpec == Spec /\ Fairness

---------------------------------------------------------------------------
\* "hooks newer than this snapshot win" (reconcile): a correction from squeue
\* never takes away the run that is on the node and whose prolog is recorded,
\* however old what the worker saw of Slurm.
CorrectionKeepsRunningJobs ==
    [][Correct => \A j \in Job :
          alloc[j] # 0 /\ j \notin completing /\ rec.jobs[j] = alloc[j] => rec'.jobs[j] # None]_vars

\* The record calls its newest revision applied only with the owner that this
\* revision has, whatever hooks ran while the worker talked to OCI.
AcknowledgedIsDesired ==
    "applied" \in current => rec.owner = Desired(Recorded)

\* Lost hooks, lost answers, requests that arrive late and changes by hand are
\* all made good: in the end the tag names who has the node.
TagFollowsAllocation ==
    <>[](~oci.up \/ oci.tag = Desired({j \in Job : alloc[j] # 0}))
=============================================================================
