---------------------------- MODULE PoolResize ----------------------------
(***************************************************************************)
(* bin/resize.py on a cluster of the autoscaler whose nodes form an         *)
(* Instance Pool ("IP") or the pool of a Cluster Network ("CN"): adding,    *)
(* removing, reconfiguring and synchronizing names, and the first half of   *)
(* cleanup_compute_cluster.  A run may be killed, or stopped by an error,   *)
(* between any two steps; the next run of any mode starts from the files    *)
(* it left.  OCI finishes what it accepted by itself.                       *)
(*                                                                         *)
(* The resize lock serializes runs (ClusterWorkspace), so there is one run. *)
(* Left out: identity checks against tampered files or foreign resources,   *)
(* DNS records (ComputeNames), the text of messages, Compute Clusters       *)
(* (ComputeClusterResize), nodes removed by hand in OCI, the flag            *)
(* --remove_unreachable on an add, and scratch volumes that were created with *)
(* their instance: those need no record, since OCI deletes them with it.     *)
(***************************************************************************)
EXTENDS Integers, FiniteSets

CONSTANTS
    Node,       \* instances the pool may ever have
    First,      \* its members at the beginning
    Scratch,    \* instances with a managed scratch volume that was attached to them
    None,
    Least,      \* bound: members that a removal leaves
    MaxStops    \* bound: runs killed or stopped by an error, adds that fail

ASSUME Pool ==
    /\ First \subseteq Node /\ First # {} /\ IsFiniteSet(Node)
    /\ Scratch \subseteq Node /\ MaxStops \in Nat /\ Least \in Nat

ASSUME Absent == None \notin Node

VARIABLES
    kind,       \* "IP" or "CN", as in Terraform's state
    place,      \* where OCI has each instance
    leaving,    \* members with an accepted detach request
    size,       \* the size field of the pool
    scaling,    \* which of the pool and its Cluster Network are not RUNNING
    volume,     \* the scratch volume of each instance
    tfSize, nodeCount,           \* the size in terraform.tfstate, in variables.tf
    inventory,                   \* instances that the inventory lists
    marker, removals, deletions, plan,  \* the four recovery files
    run,        \* the running resize.py, if any
    stops

cloud == <<kind, place, leaving, size, scaling, volume>>
terraform == <<tfSize, nodeCount>>
files == <<inventory, marker, removals, deletions, plan>>
vars == <<cloud, terraform, files, run, stops>>

Modes == {"add", "remove", "reconfigure", "sync_instance_pool_names", "cleanup_compute_cluster"}
Phases == {"resume", "retry", "reconcile", "remove", "add"}
Steps == {"idle", "plan", "resume", "forget", "recover", "retry", "finalize", "drop",
          "decide", "select", "journal", "playbook", "remove", "grow", "update", "await",
          "rollback", "push", "variables", "close", "note", "detach", "detaching",
          "terminate", "wipe", "reconcile", "reconfigure", "extend", "sync", "synced", "clear"}

Members == {n \in Node : place[n] = "member"}
Fresh == {n \in Node : place[n] = "fresh"}
Journaled == {d.node : d \in deletions}
Active == removals \intersect Members

\* Waiting before nodes are selected looks at the state of the parent only, or of
\* the pool when it has none.
Parent == IF kind = "CN" THEN "network" ELSE "pool"
Running == Parent \notin scaling

\* A complete list has as many members as the size says, of a RUNNING pool; of a
\* Cluster Network, both must be RUNNING and agree.
PoolComplete == "pool" \notin scaling /\ Cardinality(Members) = size
NetworkComplete == "network" \notin scaling /\ PoolComplete
Complete == IF kind = "CN" THEN NetworkComplete ELSE PoolComplete

\* Fields: the step and what it is part of; whether Ansible is to be left
\* alone; the size read at the start; the instances chosen, those still to be
\* taken down, the one being taken down and those that are; and whether the run
\* finishes an earlier removal.
Idle == [step |-> "idle", mode |-> "none", phase |-> "none", bare |-> FALSE, seen |-> 0,
         chosen |-> {}, todo |-> {}, target |-> None, done |-> {}, resuming |-> FALSE]

At(s) == run.step = s
Goto(s) == run' = [run EXCEPT !.step = s]
Exit == run' = Idle

Commitment == [action : {"add", "remove"}, source : Nat, target : Nat, bare : BOOLEAN]

ASSUME NoMarker == None \notin Commitment /\ None \notin [source : Nat, target : Nat]

TypeOK ==
    /\ place \in [Node -> {"fresh", "member", "detached", "terminated", "reclaimed"}]
    /\ kind \in {"IP", "CN"}
    /\ leaving \subseteq Members
    /\ scaling \subseteq {"pool", "network"}
    /\ size \in Nat /\ tfSize \in Nat /\ nodeCount \in Nat
    /\ volume \in [Node -> {"none", "live", "deleted"}]
    /\ inventory \subseteq Node /\ removals \subseteq Node
    /\ marker \in Commitment \union {None}
    /\ deletions \subseteq [node : Node, before : Nat]
    /\ plan \in (SUBSET Node) \union {None}
    /\ run \in [step : Steps, mode : Modes \union {"none"}, phase : Phases \union {"none"},
                bare : BOOLEAN, seen : Nat, chosen : SUBSET Node, todo : SUBSET Node,
                target : Node \union {None}, done : SUBSET Node, resuming : BOOLEAN]
    /\ stops \in 0..MaxStops

Init ==
    /\ inventory = First
    /\ place = [n \in Node |-> IF n \in First THEN "member" ELSE "fresh"]
    /\ kind \in {"IP", "CN"} /\ leaving = {} /\ scaling = {}
    /\ size = Cardinality(First) /\ tfSize = size /\ nodeCount = size
    /\ volume = [n \in Node |-> IF n \in First \intersect Scratch THEN "live" ELSE "none"]
    /\ marker = None /\ removals = {} /\ deletions = {} /\ plan = None
    /\ run = Idle
    /\ stops = 0

---------------------------------------------------------------------------
\* A Cluster Network must be RUNNING for the summary; a pool may be scaling.
Summarized == kind = "CN" => scaling = {}

\* A run starts: lock, inventory, arguments, the summary of the cluster.
Start(mode, bare) ==
    /\ At("idle") /\ mode # "cleanup_compute_cluster"
    /\ Summarized
    /\ run' = [Idle EXCEPT
        !.step = IF mode = "sync_instance_pool_names" THEN "sync" ELSE "plan",
        !.mode = mode, !.bare = bare, !.seen = size, !.phase = "resume"]
    /\ UNCHANGED <<cloud, terraform, files, stops>>

\* delete_cluster.sh starts a cleanup before it destroys the cluster.
StartCleanup ==
    /\ At("idle")
    /\ run' = [Idle EXCEPT !.step = "resume", !.mode = "cleanup_compute_cluster",
                           !.phase = "resume"]
    /\ UNCHANGED <<cloud, terraform, files, stops>>

\* A pending hostname plan is finished first, and only that is done.
ResumePlan ==
    /\ At("plan")
    /\ Goto(IF plan = None THEN "resume" ELSE "sync")
    /\ UNCHANGED <<cloud, terraform, files, stops>>

\* Journaled removals: members that already left are taken down to the end; a
\* cleanup takes down the others too.
ResumeOne(n) ==
    /\ At("resume")
    /\ n \in removals \ run.done
    /\ n \in Members => run.mode = "cleanup_compute_cluster"
    /\ run' = [run EXCEPT !.step = "note", !.target = n]
    /\ UNCHANGED <<cloud, terraform, files, stops>>

MayResume == run.mode \in {"remove", "cleanup_compute_cluster"} \/ Active = {}

\* Mutant of Resumed: completed removals are forgotten without recording the size.
Resumed_unrecorded ==
    /\ At("resume") /\ MayResume
    /\ removals \ run.done = IF run.mode = "remove" THEN Active ELSE {}
    /\ run' = [run EXCEPT !.step = IF run.done = {} THEN "recover" ELSE "forget",
                          !.chosen = Active, !.resuming = Active # {}]
    /\ UNCHANGED <<cloud, terraform, files, stops>>

\* All of them are down: record the size, then forget them.  A remove goes on
\* with those that are still members.
Resumed ==
    /\ At("resume") /\ MayResume
    /\ removals \ run.done = IF run.mode = "remove" THEN Active ELSE {}
    /\ run' = [run EXCEPT !.step = IF run.done = {} THEN "recover" ELSE "push",
                          !.chosen = Active, !.resuming = Active # {}]
    /\ UNCHANGED <<cloud, terraform, files, stops>>

\* forget_pending_instance_pool_node_removal, one journal rewrite per instance.
\* Afterwards "done" tells a remove that it completed an earlier request.
Forget ==
    /\ At("forget")
    /\ \/ \E n \in run.done \intersect removals :
            removals' = removals \ {n} /\ UNCHANGED run
       \/ /\ run.done \intersect removals = {}
          /\ Goto(IF run.phase = "resume" THEN "recover" ELSE "close")
          /\ UNCHANGED removals
    /\ UNCHANGED <<cloud, terraform, inventory, marker, deletions, plan, stops>>

MayRecover == run.resuming => marker # None

\* The marker is read; a removal that was asked for without Ansible stays so.
Recover ==
    /\ At("recover") /\ MayRecover
    /\ run' = [run EXCEPT
        !.step = "retry", !.phase = "retry", !.todo = Journaled,
        !.bare = @ \/ (marker # None /\ marker.bare)]
    /\ UNCHANGED <<cloud, terraform, files, stops>>

---------------------------------------------------------------------------
\* Scratch volumes journaled by an earlier run.  Members among them must be
\* named by the removal journal (a cleanup authorizes all).
MayRetry ==
    Journaled \intersect Members \subseteq
        IF run.mode = "cleanup_compute_cluster" THEN Node ELSE run.chosen

RetryOne(n) ==
    /\ At("retry") /\ MayRetry
    /\ n \in run.todo
    /\ run' = [run EXCEPT !.step = "detach", !.target = n]
    /\ UNCHANGED <<cloud, terraform, files, stops>>

\* A cleanup ends here and keeps the records.
Retried ==
    /\ At("retry") /\ run.todo = {}
    /\ IF run.mode = "cleanup_compute_cluster" THEN Exit
       ELSE Goto(IF deletions = {} THEN "decide" ELSE "finalize")
    /\ UNCHANGED <<cloud, terraform, files, stops>>

\* finalize_pending_local_block_volume_deletions: the pool must be smaller than
\* it was before each removal; then the size is recorded and the records go.
MayFinalize == \A d \in deletions : size < d.before

Finalize ==
    /\ At("finalize") /\ Complete /\ MayFinalize
    /\ Goto("push")
    /\ UNCHANGED <<cloud, terraform, files, stops>>

Drop ==
    /\ At("drop")
    /\ deletions' = {}
    /\ IF run.phase = "remove" THEN Goto("forget")
       ELSE IF run.mode = "remove" /\ marker = None THEN Exit ELSE Goto("decide")
    /\ UNCHANGED <<cloud, terraform, inventory, marker, removals, plan, stops>>

\* Mutant of Decide: an earlier resize is not finished first.
Decide_forgetful ==
    /\ At("decide")
    /\ IF run.mode = "remove" /\ ~run.resuming /\ run.done # {} THEN Exit
       ELSE IF run.mode = "reconfigure" THEN Goto("reconfigure")
       ELSE Goto(IF run.mode = "remove" THEN "select" ELSE "grow")
    /\ UNCHANGED <<cloud, terraform, files, stops>>

\* What this run does: finish an earlier resize, report, or serve its request.
Decide ==
    /\ At("decide")
    /\ IF marker # None /\ ~run.resuming
       THEN run' = [run EXCEPT !.step = "reconcile", !.phase = "reconcile"]
       ELSE IF run.mode = "remove" /\ ~run.resuming /\ run.done # {} THEN Exit
       ELSE IF run.mode = "reconfigure" THEN Goto("reconfigure")
       ELSE Goto(IF run.mode = "remove" THEN "select" ELSE "grow")
    /\ UNCHANGED <<cloud, terraform, files, stops>>

---------------------------------------------------------------------------
\* Removing.  The instances are chosen, the resize marker is written, then the
\* journal that names them; only then is anything changed.
Selectable ==
    {c \in (SUBSET Members) \ {{}} :
        /\ inventory \ c = Members \ c
        /\ Cardinality(Members \ c) >= Least}

MaySelect == run.resuming \/ Selectable # {}

WriteMarker(action, target) ==
    marker' = [action |-> action, source |-> run.seen, target |-> target, bare |-> run.bare]

Select ==
    /\ At("select") /\ Running /\ MaySelect
    /\ IF run.resuming
       THEN Goto("playbook") /\ UNCHANGED marker
       ELSE \E c \in Selectable :
            /\ WriteMarker("remove", run.seen - Cardinality(c))
            /\ run' = [run EXCEPT !.step = "journal", !.chosen = c]
    /\ UNCHANGED <<cloud, terraform, inventory, removals, deletions, plan, stops>>

\* Mutant of WriteJournal: it is written with the instances still to be named.
WriteJournal_empty ==
    /\ At("journal")
    /\ Goto("playbook")
    /\ UNCHANGED <<cloud, terraform, files, stops>>

WriteJournal ==
    /\ At("journal")
    /\ removals' = run.chosen
    /\ Goto("playbook")
    /\ UNCHANGED <<cloud, terraform, inventory, marker, deletions, plan, stops>>

\* The removal playbook and the inventory without the nodes.  With --force a
\* failed playbook leaves the inventory and the run goes on.
RemovalPlaybook ==
    /\ At("playbook")
    /\ run' = [run EXCEPT !.step = "remove", !.phase = "remove", !.todo = run.chosen]
    /\ \/ ~run.bare /\ inventory' = inventory \ run.chosen
       \/ UNCHANGED inventory
    /\ UNCHANGED <<cloud, terraform, marker, removals, deletions, plan, stops>>

RemoveOne(n) ==
    /\ At("remove")
    /\ n \in run.todo
    /\ run' = [run EXCEPT !.step = "note", !.target = n]
    /\ UNCHANGED <<cloud, terraform, files, stops>>

Removed ==
    /\ At("remove") /\ run.todo = {}
    /\ Goto(IF deletions = {} THEN "push" ELSE "finalize")
    /\ UNCHANGED <<cloud, terraform, files, stops>>

---------------------------------------------------------------------------
\* One instance: note its scratch volume with the size of the pool, detach it,
\* terminate it, delete the volume.
OwnVolume_detached(n) == volume[n] = "live" /\ place[n] = "detached"  \* mutant

OwnVolume(n) == volume[n] = "live" /\ place[n] # "terminated"

VolumeRecord(n) == [node |-> n, before |-> size]

Note ==
    /\ At("note")
    /\ deletions' = deletions \union
         {VolumeRecord(n) : n \in {m \in {run.target} : OwnVolume(m) /\ m \notin Journaled}}
    /\ Goto("detach")
    /\ UNCHANGED <<cloud, terraform, inventory, marker, removals, plan, stops>>

Detach ==
    /\ At("detach")
    /\ IF run.target \in Members
       THEN /\ leaving' = leaving \union {run.target} /\ scaling' = {"pool", Parent}
            /\ Goto("detaching")
       ELSE UNCHANGED <<leaving, scaling>> /\ Goto("terminate")
    /\ UNCHANGED <<kind, place, size, volume, terraform, files, stops>>

Detached ==
    /\ At("detaching") /\ run.target \notin Members
    /\ Goto("terminate")
    /\ UNCHANGED <<cloud, terraform, files, stops>>

Terminate ==
    /\ At("terminate")
    /\ place' = [place EXCEPT ![run.target] = "terminated"]
    /\ Goto("wipe")
    /\ UNCHANGED <<kind, leaving, size, scaling, volume, terraform, files, stops>>

Wipe ==
    /\ At("wipe")
    /\ volume' = [volume EXCEPT ![run.target] =
                    IF run.target \in Journaled THEN "deleted" ELSE @]
    /\ run' = [run EXCEPT !.step = run.phase, !.target = None, !.todo = @ \ {run.target},
                          !.done = IF run.phase = "retry" THEN @ ELSE @ \union {run.target}]
    /\ UNCHANGED <<kind, place, leaving, size, scaling, terraform, files, stops>>

---------------------------------------------------------------------------
\* Adding.  The marker is written before the size is changed.
MayGrow == inventory = Members

Grow(k) ==
    /\ At("grow") /\ Running /\ MayGrow
    /\ WriteMarker("add", run.seen + k)
    /\ run' = [run EXCEPT !.step = "update", !.phase = "add"]
    /\ UNCHANGED <<cloud, terraform, inventory, removals, deletions, plan, stops>>

UpdateSize ==
    /\ At("update")
    /\ size' = marker.target /\ scaling' = {"pool", Parent}
    /\ Goto("await")
    /\ UNCHANGED <<kind, place, leaving, volume, terraform, files, stops>>

Await ==
    /\ At("await") /\ Complete
    /\ Goto("push")
    /\ UNCHANGED <<cloud, terraform, files, stops>>

\* The update is refused, or the members do not come in time or not as expected.
AddFails ==
    /\ run.step \in {"update", "await"}
    /\ stops < MaxStops /\ stops' = stops + 1
    /\ Goto("rollback")
    /\ UNCHANGED <<cloud, terraform, files>>

\* An error of the rollback is printed and forgotten; the marker stays.
Rollback ==
    /\ At("rollback")
    /\ \/ size' = marker.source /\ scaling' = {"pool", Parent}
       \/ UNCHANGED <<size, scaling>>
    /\ Exit
    /\ UNCHANGED <<kind, place, leaving, volume, terraform, files, stops>>

---------------------------------------------------------------------------
\* reconcile_instance_pool_post_resize_state: the live size must lie within
\* what the interrupted resize may have reached.
MayReconcile_target == size = marker.target  \* mutant: nothing but the target

MayReconcile ==
    IF marker.action = "add" THEN size \in {marker.source, marker.target}
    ELSE size \in marker.target..marker.source

Reconcile ==
    /\ At("reconcile") /\ MayReconcile
    /\ Goto("push")
    /\ UNCHANGED <<cloud, terraform, files, stops>>

\* updateTFState: the state is pushed, then variables.tf is replaced.
PushState ==
    /\ At("push")
    /\ tfSize' = size
    /\ Goto("variables")
    /\ UNCHANGED <<cloud, nodeCount, files, stops>>

ReplaceVariables ==
    /\ At("variables")
    /\ nodeCount' = tfSize
    /\ Goto(CASE run.phase = "resume" -> "forget"
              [] run.phase \in {"retry", "remove"} -> "drop"
              [] OTHER -> "close")
    /\ UNCHANGED <<cloud, tfSize, files, stops>>

\* What is left: nothing but the marker without Ansible, else the inventory,
\* the new nodes, and the names.
Close ==
    /\ At("close")
    /\ Goto(IF run.phase = "reconcile" THEN IF marker.bare THEN "clear" ELSE "reconfigure"
            ELSE IF run.bare THEN "clear"
            ELSE IF run.phase = "remove" THEN "sync" ELSE "extend")
    /\ UNCHANGED <<cloud, terraform, files, stops>>

\* reconfigure rewrites the inventory from the members OCI lists at that time;
\* add_reconfigure only appends.
Reconfigure ==
    /\ At("reconfigure")
    /\ inventory' = Members
    /\ Goto("sync")
    /\ UNCHANGED <<cloud, terraform, marker, removals, deletions, plan, stops>>

Extend ==
    /\ At("extend")
    /\ inventory' = inventory \union Members
    /\ Goto("sync")
    /\ UNCHANGED <<cloud, terraform, marker, removals, deletions, plan, stops>>

\* synchronize_instance_pool_names, as far as it touches the files; what it does
\* between the plan and "synced" is ComputeNames.
MaySync ==
    /\ removals = {}
    /\ Complete /\ inventory = Members
    /\ plan \in {None, Members}

Synchronize ==
    /\ At("sync") /\ MaySync
    /\ plan' = Members
    /\ Goto("synced")
    /\ UNCHANGED <<cloud, terraform, inventory, marker, removals, deletions, stops>>

Synchronized ==
    /\ At("synced")
    /\ plan' = None
    /\ Goto("clear")
    /\ UNCHANGED <<cloud, terraform, inventory, marker, removals, deletions, stops>>

ClearMarker ==
    /\ At("clear")
    /\ marker' = None
    /\ Exit
    /\ UNCHANGED <<cloud, terraform, inventory, removals, deletions, plan, stops>>

---------------------------------------------------------------------------
\* A check fails: the run ends with an error, the files stay.  ("grow" with no
\* instance left to come is a bound of the model.)
Permitted ==
    CASE At("resume") -> MayResume
      [] At("recover") -> MayRecover
      [] At("retry") -> MayRetry
      [] At("finalize") -> MayFinalize
      [] At("reconcile") -> MayReconcile
      [] At("select") -> ~Running \/ MaySelect
      [] At("grow") -> ~Running \/ (MayGrow /\ Fresh # {})
      [] At("sync") -> MaySync
      [] OTHER -> TRUE

Refuse ==
    /\ ~Permitted
    /\ Exit
    /\ UNCHANGED <<cloud, terraform, files, stops>>

\* The run is killed, or a call of it fails.
Stop ==
    /\ ~At("idle") /\ stops < MaxStops
    /\ stops' = stops + 1
    /\ Exit
    /\ UNCHANGED <<cloud, terraform, files>>

---------------------------------------------------------------------------
\* OCI: members join until there are as many as the size says, an accepted
\* detach takes effect, and a smaller size takes members of OCI's choice.
Provision ==
    /\ Cardinality(Members) < size
    /\ \E n \in Fresh :
        /\ place' = [place EXCEPT ![n] = "member"]
        /\ volume' = [volume EXCEPT ![n] = IF n \in Scratch THEN "live" ELSE @]
    /\ UNCHANGED <<kind, leaving, size, scaling, terraform, files, run, stops>>

DetachTakesEffect ==
    \E n \in leaving :
        /\ place' = [place EXCEPT ![n] = "detached"]
        /\ leaving' = leaving \ {n}
        /\ size' = size - 1
        /\ UNCHANGED <<kind, scaling, volume, terraform, files, run, stops>>

ScaleIn ==
    /\ Cardinality(Members) > size
    /\ \E n \in Members :
        /\ place' = [place EXCEPT ![n] = "reclaimed"]
        /\ volume' = [volume EXCEPT ![n] = "none"]
    /\ UNCHANGED <<kind, leaving, size, scaling, terraform, files, run, stops>>

\* The pool is RUNNING again, and some time after it the Cluster Network.
Settle ==
    /\ scaling # {}
    /\ Cardinality(Members) = size /\ leaving = {}
    /\ scaling' = IF "pool" \in scaling THEN scaling \ {"pool"} ELSE {}
    /\ UNCHANGED <<kind, place, leaving, size, volume, terraform, files, run, stops>>

Resize ==
    \/ ResumePlan \/ Resumed \/ Forget \/ Recover \/ Retried \/ Finalize \/ Drop \/ Decide
    \/ Select \/ WriteJournal \/ RemovalPlaybook \/ Removed
    \/ Note \/ Detach \/ Detached \/ Terminate \/ Wipe
    \/ UpdateSize \/ Await \/ Rollback
    \/ Reconcile \/ PushState \/ ReplaceVariables \/ Close \/ Reconfigure \/ Extend
    \/ Synchronize \/ Synchronized \/ ClearMarker \/ Refuse
    \/ \E n \in Node : ResumeOne(n) \/ RetryOne(n) \/ RemoveOne(n)
    \/ \E k \in 1..Cardinality(Fresh) : Grow(k)

OCI == Provision \/ DetachTakesEffect \/ ScaleIn \/ Settle

Next ==
    \/ \E mode \in Modes, bare \in BOOLEAN : Start(mode, bare)
    \/ StartCleanup
    \/ Resize \/ AddFails \/ Stop \/ OCI

Spec == Init /\ [][Next]_vars

Fairness ==
    /\ WF_vars(Resize) /\ WF_vars(OCI)
    /\ SF_vars(\E bare \in BOOLEAN : Start("remove", bare))

FairSpec == Spec /\ Fairness

---------------------------------------------------------------------------
\* Terraform's two copies of the size agree with the pool, or a file says that
\* work is left: a stop at any point between the change of the pool, the push of
\* the state and the replacement of variables.tf is known to the next run.
StaleSizeIsOwed ==
    (tfSize # size \/ nodeCount # size) =>
        marker # None \/ removals # {} \/ deletions # {}

\* No scratch volume outlives the removal of its instance unnoticed, wherever
\* the removal was interrupted.
NoVolumeForgotten ==
    \A n \in Node : place[n] \in {"detached", "terminated"} /\ volume[n] = "live" =>
        n \in Journaled

\* A member leaves the pool only if the journal names it, or because a failed add
\* was taken back and OCI chose it: a retry never selects by count again.
OnlyCommittedMembersLeave ==
    [][\A n \in Members : place'[n] # "member" =>
          n \in removals \/ Cardinality(Members) > size]_vars

\* Every resize is applied as a whole or not at all, once, and is over only when
\* Terraform's record agrees with the pool.
Committing == IF marker = None THEN None
              ELSE [source |-> marker.source, target |-> marker.target]

Committed == INSTANCE CommittedResize WITH
    live <- size, recorded <- tfSize, resize <- Committing
ImplementsCommittedResize == Committed!Spec

\* Whatever was interrupted is finished when removals are tried again and again.
InterruptedWorkEnds ==
    (marker # None \/ removals # {} \/ deletions # {} \/ plan # None) ~>
        (marker = None /\ removals = {} /\ deletions = {} /\ plan = None)
=============================================================================
