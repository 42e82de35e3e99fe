----------------------------- MODULE SafeDelete -----------------------------
(***************************************************************************)
(* autoscaling/crontab/autoscale_slurm_disable-resize.sh,                  *)
(* deleteClusterSafely: how the cron scheduler takes an idle cluster away  *)
(* from Slurm before it lets bin/delete_cluster.sh destroy it.             *)
(*                                                                         *)
(* One cluster.  A pass of the scheduler reads every node, looks for jobs, *)
(* DRAINs the nodes under a Reason of its own, reads everything again,     *)
(* starts delete_cluster.sh and waits for it to write currently_destroying.*)
(* A pass that gives up before the handoff, or learns that the handoff was *)
(* refused, lifts its own DRAINs; a pass that cannot tell keeps them.      *)
(* Every Slurm command is a step of its own, so jobs start and end, nodes  *)
(* fail, administrators drain and resume, resize.py adds and removes nodes *)
(* and another delete_cluster.sh runs between any two of them.             *)
(***************************************************************************)
EXTENDS Naturals, FiniteSets

CONSTANTS
    Node,        \* compute nodes
    Initial,     \* the members of the cluster at first
    MaxPasses,   \* bound: passes of the scheduler
    MaxFaults,   \* bound: failing or timed-out commands, killed passes
    MaxActs,     \* bound: acts of administrators (drain, resume, resize, ...)
    Nobody,      \* no Reason
    Admin,       \* a Reason given by an administrator
    Manual       \* a delete_cluster.sh run by hand

Pass == 1 .. MaxPasses

ASSUME NodeAssumption == Initial \subseteq Node
ASSUME BoundsAssumption ==
    MaxPasses \in Nat /\ MaxFaults \in Nat /\ MaxActs \in Nat
ASSUME ReasonAssumption ==
    Nobody \notin Pass /\ Admin \notin Pass /\ Manual \notin Pass /\ Nobody # Admin

VARIABLES
    \* Slurm:
    members,   \* the nodes of the cluster in the topology
    drain,     \* DRAIN flag of each node
    reason,    \* Reason of each node: Nobody, Admin, or the pass that drained it
    use,       \* what a node is doing for jobs
    health,    \* what State and the two timestamps of a node say
    \* The scheduler:
    pc,        \* where the pass is; /tmp/autoscaling_lock exists unless "idle"
    pass,      \* the present or the last pass
    nodes,     \* the topology the pass read first
    todo,      \* nodes the present loop still has to visit
    seen,      \* the snapshot of each node before the DRAINs
    owned,     \* owned_drains
    \* Deletion and resizing:
    deleter,   \* each delete_cluster.sh process
    resizing,  \* resize.py holds .oci-hpc-resize.lock
    gone,      \* the cluster has been destroyed
    faults, acts,
    \* History, read by properties only:
    checked,   \* the nodes each pass checked before starting delete_cluster.sh
    outcome,   \* how each pass ended
    faulted,   \* passes in which a command failed
    exposed    \* nodes somebody else made available to jobs

slurmVars == <<members, drain, reason, use, health>>
passVars == <<pc, pass, nodes, todo, seen, owned>>
scriptVars == <<deleter, resizing, gone>>
historyVars == <<checked, outcome, faulted, exposed>>
vars == <<slurmVars, passVars, scriptVars, faults, acts, historyVars>>

Reason == {Nobody, Admin} \union Pass
Deleter == Pass \union {Manual}

\* SUSPENDED jobs hold a node without allocating CPUs.
Use == {"free", "running", "suspended", "completing"}

\* "old" and "recent": the newer of LastBusyTime and SlurmdStartTime is, or is
\* not, idle_time ago.  "down" and "unknown": neither is known; DOWN is a
\* failure state, UNKNOWN is not.
Health == {"old", "recent", "down", "unknown"}

Unseen == [drain |-> FALSE, reason |-> Nobody]

\* A deletion owns the directory from its marker on.
currently_destroying == \E d \in Deleter : deleter[d] = "marked"

-----------------------------------------------------------------------------
(* What the scheduler reads. *)

nodeIsQuiescent(n) == use[n] \in {"free", "suspended"}

nodeHasFailureState(n) == health[n] = "down" \/ drain[n]

nodeMayBeDeleted(n) ==
    /\ nodeIsQuiescent(n)
    /\ \/ health[n] = "old"
       \/ health[n] \in {"down", "unknown"} /\ nodeHasFailureState(n)

\* Mutant: the allocated CPUs decide, as before v1.3.1.
HasNoJobs_cpus(S) == \A n \in S : use[n] \in {"free", "suspended"}

\* ensureNoJobs: squeue names every job that has not ended.
HasNoJobs(S) == \A n \in S : use[n] = "free"

-----------------------------------------------------------------------------
Init ==
    /\ members = Initial
    /\ drain = [n \in Node |-> FALSE]
    /\ reason = [n \in Node |-> Nobody]
    /\ use = [n \in Node |-> "free"]
    /\ health = [n \in Node |-> "old"]
    /\ pc = "idle" /\ pass = 0
    /\ nodes = {} /\ todo = {} /\ owned = {}
    /\ seen = [n \in Node |-> Unseen]
    /\ deleter = [d \in Deleter |-> "none"]
    /\ resizing = FALSE /\ gone = FALSE
    /\ faults = 0 /\ acts = 0
    /\ checked = [p \in Pass |-> {}]
    /\ outcome = [p \in Pass |-> "none"]
    /\ faulted = {} /\ exposed = {}

-----------------------------------------------------------------------------
(* Slurm and its jobs. *)

\* A job is allocated nodes that are up and not drained, all at once.
StartJob(S) ==
    /\ S # {} /\ S \subseteq members
    /\ \A n \in S : ~drain[n] /\ use[n] = "free" /\ health[n] \in {"old", "recent"}
    /\ use' = [n \in Node |-> IF n \in S THEN "running" ELSE use[n]]
    /\ health' = [n \in Node |-> IF n \in S THEN "recent" ELSE health[n]]
    /\ UNCHANGED <<members, drain, reason, passVars, scriptVars, faults, acts,
                   historyVars>>

\* Suspended, resumed, ending, ended: LastBusyTime is set when the cleanup ends.
JobMoves(n, from, to) ==
    /\ use[n] \in from
    /\ use' = [use EXCEPT ![n] = to]
    /\ health' = IF to = "free" /\ health[n] = "old"
                 THEN [health EXCEPT ![n] = "recent"] ELSE health
    /\ UNCHANGED <<members, drain, reason, passVars, scriptVars, faults, acts,
                   historyVars>>

JobStep(n) ==
    \/ JobMoves(n, {"running"}, "suspended")
    \/ JobMoves(n, {"suspended"}, "running")
    \/ JobMoves(n, {"running", "suspended"}, "completing")
    \/ JobMoves(n, {"completing"}, "free")

\* Time passes, a node stops answering, a controller restart forgets its times,
\* slurmd registers again.
NodeStep(n) ==
    /\ \/ health[n] = "recent" /\ nodeIsQuiescent(n)
          /\ health' = [health EXCEPT ![n] = "old"] /\ UNCHANGED use
       \/ health[n] # "down" /\ health' = [health EXCEPT ![n] = "down"]
          /\ use' = [use EXCEPT ![n] = "free"]
       \/ health[n] # "unknown" /\ health' = [health EXCEPT ![n] = "unknown"]
          /\ UNCHANGED use
       \/ health[n] \in {"down", "unknown"}
          /\ health' = [health EXCEPT ![n] = "recent"] /\ UNCHANGED use
    /\ UNCHANGED <<members, drain, reason, passVars, scriptVars, faults, acts,
                   historyVars>>

-----------------------------------------------------------------------------
(* Administrators, resizing, and deletions. *)

AdminDrain(n) ==
    /\ acts < MaxActs /\ acts' = acts + 1
    /\ drain' = [drain EXCEPT ![n] = TRUE]
    /\ reason' = [reason EXCEPT ![n] = Admin]
    /\ UNCHANGED <<members, use, health, passVars, scriptVars, faults, historyVars>>

AdminResume(n) ==
    /\ acts < MaxActs /\ acts' = acts + 1
    /\ drain[n]
    /\ drain' = [drain EXCEPT ![n] = FALSE]
    /\ reason' = [reason EXCEPT ![n] = Nobody]
    /\ exposed' = exposed \union {n}
    /\ UNCHANGED <<members, use, health, passVars, scriptVars, faults, checked,
                   outcome, faulted>>

\* resize.py: the lock first, then the marker; the lock is held to the end.
ResizeStart ==
    /\ acts < MaxActs /\ acts' = acts + 1
    /\ ~resizing /\ ~gone /\ ~currently_destroying
    /\ resizing' = TRUE
    /\ UNCHANGED <<slurmVars, passVars, deleter, gone, faults, historyVars>>

ResizeAdd(n) ==
    /\ resizing /\ n \notin members
    /\ members' = members \union {n}
    /\ drain' = [drain EXCEPT ![n] = FALSE]
    /\ reason' = [reason EXCEPT ![n] = Nobody]
    /\ use' = [use EXCEPT ![n] = "free"]
    /\ health' = [health EXCEPT ![n] = "recent"]
    /\ exposed' = exposed \union {n}
    /\ UNCHANGED <<passVars, scriptVars, faults, acts, checked, outcome, faulted>>

ResizeRemove(n) ==
    /\ resizing /\ n \in members /\ use[n] = "free" /\ members # {n}
    /\ members' = members \ {n}
    /\ UNCHANGED <<drain, reason, use, health, passVars, scriptVars, faults, acts,
                   historyVars>>

ResizeEnd ==
    /\ resizing /\ resizing' = FALSE
    /\ UNCHANGED <<slurmVars, passVars, deleter, gone, faults, acts, historyVars>>

\* Run by hand, delete_cluster.sh looks at no job and drains nothing.
ManualDelete ==
    /\ acts < MaxActs /\ acts' = acts + 1
    /\ deleter[Manual] \in {"none", "exited"} /\ ~gone
    /\ deleter' = [deleter EXCEPT ![Manual] = "launched"]
    /\ UNCHANGED <<slurmVars, passVars, resizing, gone, faults, historyVars>>

\* flock -n, no marker: the marker is written and the lock released.
DeleteMarks(d) ==
    /\ deleter[d] = "launched" /\ ~gone
    /\ ~resizing /\ ~currently_destroying
    /\ deleter' = [deleter EXCEPT ![d] = "marked"]
    /\ UNCHANGED <<slurmVars, passVars, resizing, gone, faults, acts, historyVars>>

\* The lock is busy, or another deletion is under way.
DeleteRefuses(d) ==
    /\ deleter[d] = "launched"
    /\ resizing \/ currently_destroying \/ gone
    /\ deleter' = [deleter EXCEPT ![d] = "exited"]
    /\ UNCHANGED <<slurmVars, passVars, resizing, gone, faults, acts, historyVars>>

\* Timing: a deletion takes minutes, the scheduler looks every 0.1 s.
PollSeesMarker == pc # "wait"

DeleteSucceeds(d) ==
    /\ deleter[d] = "marked" /\ PollSeesMarker
    /\ deleter' = [deleter EXCEPT ![d] = "exited"]
    /\ gone' = TRUE /\ members' = {}
    /\ UNCHANGED <<drain, reason, use, health, passVars, resizing, faults, acts,
                   historyVars>>

\* Name, DNS or Terraform cleanup failed: the marker goes, the cluster stays.
DeleteFails(d) ==
    /\ deleter[d] = "marked" /\ PollSeesMarker
    /\ deleter' = [deleter EXCEPT ![d] = "exited"]
    /\ UNCHANGED <<slurmVars, passVars, resizing, gone, faults, acts, historyVars>>

-----------------------------------------------------------------------------
(* A pass of the scheduler. *)

OthersUnchanged == UNCHANGED <<scriptVars, acts, exposed>>

Goto(where, S) == pc' = where /\ todo' = S

\* cron starts a pass; there is no lock file and no marker.
Begin ==
    /\ pc = "idle" /\ pass < MaxPasses /\ ~currently_destroying /\ members # {}
    /\ pass' = pass + 1
    /\ nodes' = members /\ owned' = {} /\ seen' = [n \in Node |-> Unseen]
    /\ Goto("snapshot", members)
    /\ UNCHANGED <<slurmVars, faults, checked, outcome, faulted>> /\ OthersUnchanged

\* The pass is over, or it was killed and leaves its lock file behind.
Leave(how) ==
    /\ Goto(IF how = "killed" THEN "dead" ELSE "idle", {})
    /\ outcome' = [outcome EXCEPT ![pass] = how]
    /\ nodes' = {} /\ owned' = {} /\ seen' = [n \in Node |-> Unseen]
    /\ UNCHANGED <<pass, checked>>

Abort == Goto("rollback", owned) /\ UNCHANGED <<pass, nodes, seen, owned, checked, outcome>>

Snapshot(n) ==
    /\ pc = "snapshot" /\ n \in todo
    /\ IF nodeMayBeDeleted(n)
       THEN /\ seen' = [seen EXCEPT ![n] = [drain |-> drain[n], reason |-> reason[n]]]
            /\ IF todo = {n} THEN Goto("jobs", {}) ELSE Goto("snapshot", todo \ {n})
            /\ UNCHANGED <<pass, nodes, owned, checked, outcome>>
       ELSE Abort
    /\ UNCHANGED <<slurmVars, faults, faulted>> /\ OthersUnchanged

\* Mutant: nodes that were drained already are drained again.
ToDrain_all(S) == S

ToDrain(S) == {n \in S : ~seen[n].drain}

CheckJobs ==
    /\ pc = "jobs"
    /\ IF HasNoJobs(nodes)
       THEN /\ Goto(IF ToDrain(nodes) = {} THEN "topology" ELSE "drain", ToDrain(nodes))
            /\ UNCHANGED <<pass, nodes, seen, owned, checked, outcome>>
       ELSE Abort
    /\ UNCHANGED <<slurmVars, faults, faulted>> /\ OthersUnchanged

SetDrain(n) ==
    /\ drain' = [drain EXCEPT ![n] = TRUE]
    /\ reason' = [reason EXCEPT ![n] = pass]
    /\ UNCHANGED <<members, use, health>>

\* Mutant: the first DRAIN is forgotten when the second succeeds.
OwnedAfter_last(n) == {n}

OwnedAfter(n) == owned \union {n}

Drain(n) ==
    /\ pc = "drain" /\ n \in todo
    /\ SetDrain(n)
    /\ owned' = OwnedAfter(n)
    /\ IF todo = {n} THEN Goto("topology", {}) ELSE Goto("drain", todo \ {n})
    /\ UNCHANGED <<pass, nodes, seen, checked, outcome, faults, faulted>>
    /\ OthersUnchanged

Fault == faults < MaxFaults /\ faults' = faults + 1 /\ faulted' = faulted \union {pass}

\* The update is refused, or times out after slurmctld has applied it.
DrainFails(n) ==
    /\ pc = "drain" /\ n \in todo /\ Fault
    /\ SetDrain(n) \/ UNCHANGED slurmVars
    /\ Abort /\ OthersUnchanged

CheckTopology ==
    /\ pc = "topology"
    /\ IF members = nodes
       THEN Goto("recheck", nodes) /\ UNCHANGED <<pass, nodes, seen, owned, checked, outcome>>
       ELSE Abort
    /\ UNCHANGED <<slurmVars, faults, faulted>> /\ OthersUnchanged

Fenced(n) == drain[n] /\ nodeMayBeDeleted(n)

Recheck(n) ==
    /\ pc = "recheck" /\ n \in todo
    /\ IF Fenced(n)
       THEN /\ IF todo = {n} THEN Goto("jobsAgain", {}) ELSE Goto("recheck", todo \ {n})
            /\ UNCHANGED <<pass, nodes, seen, owned, checked, outcome>>
       ELSE Abort
    /\ UNCHANGED <<slurmVars, faults, faulted>> /\ OthersUnchanged

CheckJobsAgain ==
    /\ pc = "jobsAgain"
    /\ IF HasNoJobs(nodes)
       THEN Goto("launch", {}) /\ UNCHANGED <<pass, nodes, seen, owned, checked, outcome>>
       ELSE Abort
    /\ UNCHANGED <<slurmVars, faults, faulted>> /\ OthersUnchanged

Launch ==
    /\ pc = "launch" /\ Goto("wait", {})
    /\ deleter' = [deleter EXCEPT ![pass] = "launched"]
    /\ checked' = [checked EXCEPT ![pass] = nodes]
    /\ UNCHANGED <<slurmVars, pass, nodes, seen, owned, resizing, gone, faults, acts,
                   outcome, faulted, exposed>>

\* A query fails or times out, or delete_cluster.sh cannot be started.
CheckFails ==
    /\ pc \in {"snapshot", "jobs", "topology", "recheck", "jobsAgain", "launch"}
    /\ Fault /\ Abort
    /\ UNCHANGED slurmVars /\ OthersUnchanged

\* waitForDeleteAcceptance: any marker will do.
Accepted ==
    /\ pc = "wait" /\ currently_destroying /\ Leave("accepted")
    /\ UNCHANGED <<slurmVars, faults, faulted>> /\ OthersUnchanged

\* The process exited and there is no marker.
Rejected ==
    /\ pc = "wait" /\ ~currently_destroying /\ deleter[pass] = "exited" /\ Abort
    /\ UNCHANGED <<slurmVars, faults, faulted>> /\ OthersUnchanged

\* Mutants: ten seconds without an answer are taken for a refusal; the wait has
\* no deadline.
GiveUp_rollback == Abort
GiveUp_never == FALSE

\* Ten seconds without an answer: the handoff is unknown, the DRAINs stay.
GiveUp == Leave("unknown")

Deadline ==
    /\ pc = "wait" /\ deleter[pass] # "exited" /\ GiveUp
    /\ UNCHANGED <<slurmVars, faults, faulted>> /\ OthersUnchanged

StillOurs(n) == drain[n] /\ reason[n] = pass

\* The rollback reads a node, then lifts the DRAIN with a second command; owned
\* is the node in hand from then on, todo what is left.
RollbackReads(n) ==
    /\ pc = "rollback" /\ n \in todo
    /\ IF StillOurs(n) THEN Goto("undrain", todo) /\ owned' = {n}
       ELSE Goto("rollback", todo \ {n}) /\ UNCHANGED owned
    /\ UNCHANGED <<slurmVars, pass, nodes, seen, checked, outcome, faults, faulted>>
    /\ OthersUnchanged

Undrain(n) ==
    /\ pc = "undrain" /\ owned = {n} /\ Goto("rollback", todo \ {n})
    /\ drain' = [drain EXCEPT ![n] = FALSE]
    /\ reason' = [reason EXCEPT ![n] = seen[n].reason]
    /\ UNCHANGED <<members, use, health, pass, nodes, seen, owned, checked, outcome,
                   faults, faulted>> /\ OthersUnchanged

\* A read or an update of the rollback fails; the next node is tried.
RollbackFails(n) ==
    /\ \/ pc = "rollback" /\ n \in todo
       \/ pc = "undrain" /\ owned = {n}
    /\ Fault /\ Goto("rollback", todo \ {n})
    /\ UNCHANGED <<slurmVars, pass, nodes, seen, owned, checked, outcome>>
    /\ OthersUnchanged

RollbackEnds ==
    /\ pc = "rollback" /\ todo = {} /\ Leave("withdrawn")
    /\ UNCHANGED <<slurmVars, faults, faulted>> /\ OthersUnchanged

\* Killed: os.remove(lockfile) never runs.
Kill ==
    /\ pc \notin {"idle", "dead"} /\ Fault /\ Leave("killed")
    /\ UNCHANGED slurmVars /\ OthersUnchanged

\* Until somebody removes it, no later pass does anything.
RemoveLockFile ==
    /\ pc = "dead" /\ acts < MaxActs /\ acts' = acts + 1
    /\ pc' = "idle"
    /\ UNCHANGED <<slurmVars, pass, nodes, todo, seen, owned, scriptVars, faults,
                   historyVars>>

-----------------------------------------------------------------------------
PassStep ==
    \/ Begin \/ CheckJobs \/ CheckTopology \/ CheckJobsAgain \/ Launch
    \/ Accepted \/ Rejected \/ Deadline \/ RollbackEnds
    \/ \E n \in Node : Snapshot(n) \/ Drain(n) \/ Recheck(n) \/ RollbackReads(n) \/ Undrain(n)

FaultStep ==
    CheckFails \/ Kill \/ \E n \in Node : DrainFails(n) \/ RollbackFails(n)

DeleteStep(d) ==
    DeleteMarks(d) \/ DeleteRefuses(d) \/ DeleteSucceeds(d) \/ DeleteFails(d)

SlurmStep ==
    \/ \E S \in SUBSET Node : StartJob(S)
    \/ \E n \in Node : JobStep(n) \/ NodeStep(n)

OperatorStep ==
    \/ ResizeStart \/ ResizeEnd \/ ManualDelete \/ RemoveLockFile
    \/ \E n \in Node : AdminDrain(n) \/ AdminResume(n) \/ ResizeAdd(n) \/ ResizeRemove(n)

Next ==
    \/ PassStep \/ FaultStep \/ SlurmStep \/ OperatorStep
    \/ \E d \in Deleter : DeleteStep(d)

Spec == Init /\ [][Next]_vars

\* A pass runs on unless it is killed, and so do the processes it waits for.
Fairness == WF_vars(PassStep)
FairSpec == Spec /\ Fairness

-----------------------------------------------------------------------------
(* Properties. *)

PassPlace == {"idle", "dead", "snapshot", "jobs", "drain", "topology", "recheck",
              "jobsAgain", "launch", "wait", "rollback", "undrain"}

TypeOK ==
    /\ members \subseteq Node /\ nodes \subseteq Node /\ todo \subseteq Node
    /\ owned \subseteq Node /\ exposed \subseteq Node
    /\ drain \in [Node -> BOOLEAN] /\ reason \in [Node -> Reason]
    /\ use \in [Node -> Use] /\ health \in [Node -> Health]
    /\ pc \in PassPlace /\ pass \in 0 .. MaxPasses /\ (pass = 0 => pc = "idle")
    /\ seen \in [Node -> [drain : BOOLEAN, reason : Reason]]
    /\ deleter \in [Deleter -> {"none", "launched", "marked", "exited"}]
    /\ resizing \in BOOLEAN /\ gone \in BOOLEAN
    /\ faults \in 0 .. MaxFaults /\ acts \in 0 .. MaxActs
    /\ checked \in [Pass -> SUBSET Node] /\ faulted \subseteq Pass
    /\ outcome \in [Pass -> {"none", "accepted", "unknown", "withdrawn", "killed"}]

\* A deletion started by the scheduler finds no job, running, suspended or
\* completing, on a node the pass checked, unless an administrator resumed the
\* node or a resize added it again in between.
DeletionFindsNoJob ==
    \A p \in Pass : deleter[p] = "marked" =>
        \A n \in (checked[p] \intersect members) \ exposed : use[n] = "free"

\* As long as a delete_cluster.sh started by a pass may still destroy the
\* cluster, that pass's own rollback and every later pass leave its nodes
\* drained, whatever the pass believes about the handoff.
DeletionStaysFenced ==
    \A p \in Pass : deleter[p] \in {"launched", "marked"} =>
        \A n \in (checked[p] \intersect members) \ exposed : drain[n]

\* A node that was drained when the pass first read it keeps its DRAIN and its
\* Reason through every step of the pass.
PriorDrainsSurvive ==
    [][\A n \in Node : PassStep /\ n \in nodes /\ seen[n].drain =>
           drain'[n] = drain[n] /\ reason'[n] = reason[n]]_vars

\* A pass that withdrew, with no command failing, leaves no node drained under
\* its Reason, wherever it stopped.
WithdrawnPassLeavesNoDrain ==
    \A p \in Pass \ faulted : outcome[p] = "withdrawn" =>
        \A n \in Node : ~(drain[n] /\ reason[n] = p)

\* Every pass comes to an end and, unless killed, gives the lock file back.
EveryPassEnds == pc \notin {"idle", "dead"} ~> pc \in {"idle", "dead"}

\* docs/releases/v1.3.1.md, line 13: a cluster with an unfinished job is not
\* deleted by the scheduler.
NoJobInDeletedCluster ==
    [][\A p \in Pass : DeleteMarks(p) => HasNoJobs(members)]_vars
=============================================================================
