--------------------------- MODULE SchedulerPlan ---------------------------
(***************************************************************************)
(* autoscaling/crontab/autoscale_slurm_disable-resize.sh, getstatus_slurm   *)
(* and the main pass: which clusters the scheduler creates for the pending  *)
(* jobs of one queue and instance type.                                     *)
(*                                                                         *)
(* A pass reads squeue, then sinfo, then the directories clusters/*, one    *)
(* after the other while jobs and clusters move on; it drops a request for  *)
(* every cluster being built with as many nodes, hands idle clusters to     *)
(* deletion, and starts a guarded creation for what is left, within         *)
(* max_cluster_count, max_cluster_size and max_number_nodes of queues.conf. *)
(*                                                                         *)
(* Left out: how queue, instance type and shape are parsed (other queues    *)
(* and types have counters of their own), the guard's latch beyond its      *)
(* answer (AutoscalingGuard), the deletion beyond its outcome (SafeDelete), *)
(* and the inside of a creation (ClusterWorkspace).                         *)
(***************************************************************************)
EXTENDS Naturals, FiniteSets

CONSTANTS
    Job,
    Wants,              \* the nodes each job asks for
    MaxClusterCount, MaxClusterSize, MaxNumberNodes,    \* queues.conf
    NoJob,
    MaxCreations,       \* bound: clusters there at once; one more than
                        \* MaxClusterCount bounds nothing
    Prompt              \* a creation is marked before a later pass looks

Creation == 1 .. MaxCreations
Size == {Wants[j] : j \in Job}

ASSUME Limits == /\ Wants \in [Job -> Nat \ {0}]
                 /\ MaxClusterCount \in Nat /\ MaxClusterSize \in Nat
                 /\ MaxNumberNodes \in Nat
\* squeue's answer ends.
ASSUME FiniteJobs == IsFiniteSet(Job)
ASSUME PlanBounds == /\ MaxCreations \in Nat /\ NoJob \notin Job
                     /\ Prompt \in BOOLEAN

VARIABLES
    job,        \* "absent" (before and after), "pending" or "running"
    phase,      \* how far each creation has come
    index,      \* the number in each cluster's name
    size,       \* its nodes
    host,       \* the job on it
    \* The pass:
    at,         \* the step it is at
    todo,       \* cluster_to_build
    asked,      \* cluster_to_build as read from squeue
    listed,     \* the clusters sinfo showed
    idle,       \* cluster_to_destroy
    used,       \* used_index
    current,    \* current_nodes
    building,   \* building_nodes
    missed      \* history: clusters that neither of its readings has shown

clusterVars == <<phase, index, size, host>>
passVars == <<at, todo, asked, listed, idle, used, current, building, missed>>
planVars == <<job, clusterVars, passVars>>

(***************************************************************************)
(* "spawned": the guard runs, there is no directory yet.  "copied": the    *)
(* directory is there without currently_building, before the first domain  *)
(* or between two.  "building", "joined": marked, its nodes are or are not *)
(* in Slurm.  "up": finished.  "leaving": deletion, still in Slurm.        *)
(* "failed": not in Slurm any more, directory and instances still there.   *)
(***************************************************************************)
Marked == {"building", "joined"}
InSlurm == {"joined", "up", "leaving"}
HasDirectory == {"copied", "building", "joined", "up", "leaving", "failed"}
Live == HasDirectory \union {"spawned"}
Phase == Live \union {"unused"}

In(phases) == {c \in Creation : phase[c] \in phases}
\* The nodes of the clusters C, each counting its own from 1.
NodesOf(C) == UNION {{c} \X (1 .. size[c]) : c \in C}
Nodes(C) == Cardinality(NodesOf(C))
OfSize(C, n) == {c \in C : size[c] = n}

-----------------------------------------------------------------------------
PlanInit ==
    /\ job = [j \in Job |-> "absent"]
    /\ phase = [c \in Creation |-> "unused"]
    /\ index = [c \in Creation |-> 0]
    /\ size = [c \in Creation |-> 0]
    /\ host = [c \in Creation |-> NoJob]
    /\ at = "idle" /\ todo = {} /\ asked = {} /\ listed = {} /\ idle = {}
    /\ used = {} /\ current = 0 /\ building = 0 /\ missed = {}

(* Jobs, creations and deletions. *)

Submit(j) ==
    /\ job[j] = "absent" /\ job' = [job EXCEPT ![j] = "pending"]
    /\ UNCHANGED <<clusterVars, passVars>>

\* Slurm starts a job on nodes of one cluster as soon as they are there.
Start(j, c) ==
    /\ job[j] = "pending" /\ phase[c] \in {"joined", "up"} /\ host[c] = NoJob
    /\ Wants[j] <= size[c]
    /\ job' = [job EXCEPT ![j] = "running"]
    /\ host' = [host EXCEPT ![c] = j]
    /\ UNCHANGED <<phase, index, size, passVars>>

End(j) ==
    /\ job[j] \in {"pending", "running"}
    /\ job' = [job EXCEPT ![j] = "absent"]
    /\ host' = [c \in Creation |-> IF host[c] = j THEN NoJob ELSE host[c]]
    /\ UNCHANGED <<phase, index, size, passVars>>

Becomes(c, to) ==
    /\ phase' = [phase EXCEPT ![c] = to]
    /\ UNCHANGED <<job, index, size, host, passVars>>

\* The directory is gone and the name is free again.
Gone(c) ==
    /\ phase' = [phase EXCEPT ![c] = "unused"]
    /\ index' = [index EXCEPT ![c] = 0] /\ size' = [size EXCEPT ![c] = 0]
    /\ UNCHANGED <<job, host, passVars>>

Refused(c) == phase[c] = "spawned" /\ Gone(c)
Copied(c) == phase[c] = "spawned" /\ Becomes(c, "copied")
\* The scheduler's requests name types that exist: only the script's own
\* checks, of values in queues.conf, can still end it here.
Invalid(c) == phase[c] = "copied" /\ Gone(c)
Mark(c) == phase[c] = "copied" /\ Becomes(c, "building")
Join(c) == phase[c] = "building" /\ Becomes(c, "joined")

Finish(c) == phase[c] = "joined" /\ Becomes(c, "up")

\* Another domain is tried, or FORCE cleans up.
BuildFails(c) ==
    \/ phase[c] = "building" /\ \E to \in {"copied", "failed"} : Becomes(c, to)
    \/ phase[c] = "joined" /\ Becomes(c, "leaving")

\* Deletion by hand, or by the handoff of a pass.
Delete(c) == phase[c] = "up" /\ host[c] = NoJob /\ Becomes(c, "leaving")

\* Slurm requeues the job of a cluster that is taken away from it.
LeaveSlurm(c) ==
    /\ phase[c] = "leaving" /\ phase' = [phase EXCEPT ![c] = "failed"]
    /\ host' = [host EXCEPT ![c] = NoJob]
    /\ job' = [j \in Job |-> IF host[c] = j THEN "pending" ELSE job[j]]
    /\ UNCHANGED <<index, size, passVars>>

Removed(c) == phase[c] = "failed" /\ Gone(c)

-----------------------------------------------------------------------------
(* A pass. *)

\* A failing squeue reads as no requests.
ReadJobs ==
    /\ at = "idle" /\ at' = "nodes"
    /\ asked' \in {{}, {j \in Job : job[j] = "pending"}} /\ todo' = asked'
    /\ UNCHANGED <<job, clusterVars, listed, idle, used, current, building, missed>>

\* Any cluster without a job may be an idle one.
ReadNodes ==
    /\ at = "nodes" /\ at' = "dirs"
    /\ listed' = In(InSlurm) /\ current' = Nodes(listed')
    /\ idle' \in SUBSET {c \in listed' : phase[c] = "up" /\ host[c] = NoJob}
    /\ UNCHANGED <<job, clusterVars, todo, asked, used, building, missed>>

\* Every pass starts a minute after the one before, and sleeps five seconds
\* after each creation it starts.
Seen == Prompt => In({"spawned", "copied"}) = {}

\* Mutant: clusters being built are not matched.
Unmatched_all(marked) == {asked}

\* What is left of the requests when every cluster being built has answered one
\* of its size.
Unmatched(marked) ==
    {S \in SUBSET asked : \A n \in Size :
        LET requests == {j \in asked : Wants[j] = n}
            built == Cardinality(OfSize(marked, n))
        IN Cardinality(requests \intersect S) =
              IF built < Cardinality(requests) THEN Cardinality(requests) - built ELSE 0}

\* The guard's answer empties the requests or leaves them alone.
ReadDirectories ==
    /\ at = "dirs" /\ Seen /\ at' = "delete"
    /\ used' = {index[c] : c \in In(HasDirectory)}
    /\ building' = Nodes(In(Marked))
    /\ todo' \in {{}} \union Unmatched(In(Marked))
    /\ missed' = In(InSlurm \ Marked) \ listed
    /\ UNCHANGED <<job, clusterVars, asked, listed, idle, current>>

\* deleteClusterSafely succeeds, or withdraws.
HandOver(c) ==
    /\ at = "delete" /\ c \in idle /\ idle' = idle \ {c}
    /\ \/ phase[c] = "up" /\ host[c] = NoJob /\ phase' = [phase EXCEPT ![c] = "leaving"]
       \/ UNCHANGED phase
    /\ UNCHANGED <<job, index, size, host, at, todo, asked, listed, used, current, building, missed>>

Deleted ==
    /\ at = "delete" /\ idle = {} /\ at' = "create"
    /\ UNCHANGED <<job, clusterVars, todo, asked, listed, idle, used, current, building, missed>>

\* Mutant: one cluster too many.
CountReached_after(u) == Cardinality(u) > MaxClusterCount

CountReached(u) == Cardinality(u) >= MaxClusterCount

\* Mutant: the number of clusters is the highest index.
NextIndex_count(u) == Cardinality(u) + 1

NextIndex(u) == CHOOSE i \in 1 .. (Cardinality(u) + 1) :
                    i \notin u /\ \A k \in 1 .. (i - 1) : k \in u

\* Mutant: nodes under construction are not counted.
NodesExceeded_current(n) == current + n > MaxNumberNodes

NodesExceeded(n) == current + building + n > MaxNumberNodes

Next_request(j) == at = "create" /\ j \in todo /\ todo' = todo \ {j}

RefuseForCount(j) ==
    /\ Next_request(j) /\ CountReached(used)
    /\ UNCHANGED <<job, clusterVars, at, asked, listed, idle, used, current, building, missed>>

\* The index is taken before the other limits are looked at.
RefuseForNodes(j) ==
    /\ Next_request(j) /\ ~CountReached(used)
    /\ Wants[j] > MaxClusterSize \/ NodesExceeded(Wants[j])
    /\ used' = used \union {NextIndex(used)}
    /\ UNCHANGED <<job, clusterVars, at, asked, listed, idle, current, building, missed>>

Spawn(j, c) ==
    /\ Next_request(j) /\ ~CountReached(used)
    /\ Wants[j] <= MaxClusterSize /\ ~NodesExceeded(Wants[j])
    /\ phase[c] = "unused" /\ \A d \in 1 .. (c - 1) : phase[d] # "unused"
    /\ phase' = [phase EXCEPT ![c] = "spawned"]
    /\ index' = [index EXCEPT ![c] = NextIndex(used)]
    /\ size' = [size EXCEPT ![c] = Wants[j]]
    /\ used' = used \union {NextIndex(used)}
    /\ current' = current + Wants[j]
    /\ missed' = missed \ {c}
    /\ UNCHANGED <<job, host, at, asked, listed, idle, building>>

Over ==
    /\ at' = "idle" /\ todo' = {} /\ asked' = {} /\ listed' = {} /\ idle' = {}
    /\ used' = {} /\ current' = 0 /\ building' = 0 /\ missed' = {}
    /\ UNCHANGED <<job, clusterVars>>

PassEnds == at = "create" /\ todo = {} /\ Over

\* An exception: a file that vanished, a node without details, no process left.
Abandon == at # "idle" /\ Over

-----------------------------------------------------------------------------
PassStep ==
    \/ ReadJobs \/ ReadNodes \/ ReadDirectories \/ Deleted \/ PassEnds \/ Abandon
    \/ \E c \in Creation : HandOver(c)
    \/ \E j \in Job : RefuseForCount(j) \/ RefuseForNodes(j)
                      \/ \E c \in Creation : Spawn(j, c)

ClusterStep(c) ==
    \/ Refused(c) \/ Copied(c) \/ Invalid(c) \/ Mark(c) \/ Join(c) \/ Finish(c)
    \/ BuildFails(c) \/ Delete(c) \/ LeaveSlurm(c) \/ Removed(c)

JobStep(j) == Submit(j) \/ End(j) \/ \E c \in Creation : Start(j, c)

PlanNext == PassStep \/ (\E c \in Creation : ClusterStep(c)) \/ (\E j \in Job : JobStep(j))

PlanSpec == PlanInit /\ [][PlanNext]_planVars

-----------------------------------------------------------------------------
(* Properties. *)

PlanTypeOK ==
    /\ job \in [Job -> {"absent", "pending", "running"}]
    /\ phase \in [Creation -> Phase]
    /\ index \in [Creation -> 0 .. MaxClusterCount]
    /\ size \in [Creation -> Size \union {0}]
    /\ host \in [Creation -> Job \union {NoJob}]
    /\ at \in {"idle", "nodes", "dirs", "delete", "create"}
    /\ todo \subseteq asked /\ asked \subseteq Job
    /\ listed \subseteq Creation /\ idle \subseteq listed
    /\ used \subseteq 1 .. MaxClusterCount
    /\ current \in Nat /\ building \in Nat /\ missed \subseteq Creation

\* No creation is started under the name of a cluster whose directory, or whose
\* creation, is still there: create_cluster.sh would copy into it.
NamesAreFresh ==
    \A c, d \in In(Live) : index[c] = index[d] => c = d

\* README 219: no more than max_cluster_count clusters are held at once,
\* whatever comes and goes between the readings of a pass.
ClustersWithinCount == Cardinality(In(Live)) <= MaxClusterCount

\* README 217: when a creation is started, the nodes that Slurm has or is being
\* given, by this and all earlier passes, are within max_number_nodes.  Only clusters
\* that joined Slurm and lost their mark between the two readings of this very pass
\* (lines 408-464 and 466-494) may come on top.
Held == In(Live \ {"failed"})
NodesWithinLimit ==
    [][\A j \in Job, c \in Creation : Spawn(j, c) => Nodes(Held \ missed)' <= MaxNumberNodes]_planVars

\* A pass never has more clusters of one size under construction than jobs of
\* that size were pending when it read squeue.
NoCreationUnasked ==
    [][\A j \in Job, c \in Creation : Spawn(j, c) =>
          Cardinality(OfSize(In({"spawned", "copied"} \union Marked), Wants[j]))
             < Cardinality({i \in asked : Wants[i] = Wants[j]})]_planVars

\* Line 574: a request is refused for the number of clusters only when that
\* many exist ("you have reached the max number of clusters").
CountRefusalIsTrue ==
    [][\A j \in Job : RefuseForCount(j) => Cardinality(In(Live)) >= MaxClusterCount]_planVars
=============================================================================
