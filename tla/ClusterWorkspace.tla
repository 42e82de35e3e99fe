-------------------------- MODULE ClusterWorkspace --------------------------
(***************************************************************************)
(* One cluster name of bin/create_cluster.sh and bin/delete_cluster.sh: the *)
(* directory clusters/<name>, its marks currently_building and             *)
(* currently_destroying, the inventory, the resize lock, the Terraform      *)
(* state lock, and what the directory keeps track of in OCI.  A creation    *)
(* tries the availability domains in turn, each over the Terraform state of *)
(* the one before, and when all fail it reports and runs delete_cluster.sh  *)
(* FORCE; deletions and a resize run beside it.                             *)
(*                                                                         *)
(* Left out: the nodes as Slurm sees them (SafeDelete), the monitoring      *)
(* database, the text of logs and notices, what resize.py does under its    *)
(* lock beyond publishing or removing names, and resources that Terraform   *)
(* may still make after the configuration (a volume for scratch NFS).       *)
(***************************************************************************)
EXTENDS Naturals

CONSTANTS
    Deletions,      \* runs of delete_cluster.sh by cron or by hand
    Cleanup,        \* the one a failed creation starts
    Creator,        \* create_cluster.sh
    Resizer,        \* a run of resize.py
    Nobody,
    MaxCreations,   \* bound: creations under this name
    Domains,        \* availability domains of the instance type
    MaxTries,       \* attempts at terraform destroy (6 in the code)
    MaxMishaps      \* bound: killed scripts, and deletions started where they should
                    \* not be, with FORCE beside another one or during a creation

ASSUME Processes ==
    /\ Cleanup \notin Deletions
    /\ {Creator, Resizer, Nobody} \intersect (Deletions \union {Cleanup}) = {}
    /\ Creator # Resizer /\ Creator # Nobody /\ Resizer # Nobody
ASSUME Bounds ==
    /\ MaxCreations \in Nat /\ Domains \in Nat /\ MaxMishaps \in Nat
    /\ MaxTries \in Nat \ {0}

VARIABLES
    dir,         \* 0: no directory; k: the directory of the k-th creation
    building, destroying,             \* marks in it
    inventory,   \* "none", as "terraform" wrote it, "edited" with the final names
    instances,   \* what its Terraform state tracks: "none", "some", "all"
    names,       \* DNS records that Terraform does not track: "none", the nodes'
                 \* "own", or of "former" nodes that were replaced
    stage,       \* .initial-configure-stage: "none", of the nodes there, or "stale"
    earlier,     \* the apply has nodes of the domain before to replace
    taken,       \* history: an apply took the inventory of nodes with names
    beside,      \* history: a deletion was accepted beside another
    lock,        \* holder of .oci-hpc-resize.lock
    tfLock,      \* holder of the Terraform state lock
    cpc, created, domains, exit,      \* the creation
    working,     \* resize.py is past its checks
    dpc, force, cwd, tries, cleaned,  \* the deletions
    kills, overlaps

marks == <<building, destroying, inventory>>
cloud == <<instances, names, stage, earlier, taken, beside>>
locks == <<lock, tfLock>>
creation == <<cpc, created, domains, exit>>
deletion == <<dpc, force, cwd, tries, cleaned>>
bounded == <<kills, overlaps>>
vars == <<dir, marks, cloud, locks, creation, working, deletion, bounded>>

Deletion == Deletions \union {Cleanup}
Process == Deletion \union {Creator, Resizer}

Creating == {"validate", "attempt", "init", "apply", "sync", "named", "report",
             "cleanup", "wait"}
Accepted == {"names", "naming", "destroy", "destroying", "remove"}
Running == Accepted \union {"start"}

InWorkspace == dir # 0 /\ dir = created
Here(d) == dir # 0 /\ dir = cwd[d]

Mishap == kills + overlaps < MaxMishaps
Without(who, l) == IF l = who THEN Nobody ELSE l

-----------------------------------------------------------------------------
Init ==
    /\ dir = 0
    /\ building = FALSE /\ destroying = FALSE /\ inventory = "none"
    /\ instances = "none" /\ names = "none" /\ stage = "none"
    /\ earlier = FALSE /\ taken = FALSE /\ beside = FALSE
    /\ lock = Nobody /\ tfLock = Nobody
    /\ cpc = "idle" /\ created = 0 /\ domains = 0 /\ exit = "none"
    /\ working = FALSE
    /\ dpc = [d \in Deletion |-> "idle"]
    /\ force = [d \in Deletion |-> FALSE]
    /\ cwd = [d \in Deletion |-> 0]
    /\ tries = [d \in Deletion |-> 0]
    /\ cleaned = [d \in Deletion |-> TRUE]
    /\ kills = 0 /\ overlaps = 0

\* rm -rf of the directory, by its absolute path.
RemoveDir ==
    /\ dir' = 0
    /\ building' = FALSE /\ destroying' = FALSE /\ inventory' = "none"
    /\ instances' = "none" /\ names' = "none" /\ stage' = "none"
    /\ earlier' = FALSE /\ taken' = FALSE /\ beside' = FALSE
    /\ lock' = Nobody /\ tfLock' = Nobody

-----------------------------------------------------------------------------
(* create_cluster.sh *)

NextDomain(n) == IF n = 0 THEN "report" ELSE "attempt"

\* cp -r and cd; the scheduler and the administrator take a free name.
Copy(outcome) ==
    /\ cpc \notin Creating /\ dir = 0 /\ created < MaxCreations
    /\ created' = created + 1
    /\ dir' = created + 1
    /\ cpc' = outcome /\ domains' = Domains /\ exit' = "fail"
    /\ UNCHANGED <<marks, cloud, locks, working, deletion, bounded>>

Create == Copy("validate") \/ Copy("done")

Valid ==
    /\ cpc = "validate" /\ cpc' = NextDomain(domains)
    /\ UNCHANGED <<dir, marks, cloud, locks, created, domains, exit, working,
                   deletion, bounded>>

Invalid ==
    /\ cpc = "validate" /\ cpc' = "done"
    /\ RemoveDir
    /\ UNCHANGED <<created, domains, exit, working, deletion, bounded>>

\* Files are written relative to the working directory: into nothing once the
\* directory is removed.
Attempt ==
    /\ cpc = "attempt" /\ cpc' = "init"
    /\ domains' = domains - 1
    /\ building' = (building \/ InWorkspace)
    /\ UNCHANGED <<dir, destroying, inventory, cloud, locks, created, exit, working,
                   deletion, bounded>>

\* The plan is made over the state of the domain before.  It replaces what that
\* one left, unless OCI can move or keep it (an Instance Pool, the same domain).
ApplyStarts ==
    /\ cpc = "init" /\ InWorkspace /\ tfLock = Nobody
    /\ cpc' = "apply" /\ tfLock' = Creator
    /\ earlier' \in {FALSE, instances # "none"}
    /\ UNCHANGED <<dir, marks, instances, names, stage, taken, beside, lock, created,
                   domains, exit, working, deletion, bounded>>

\* The inventory is a Terraform resource and depends on the instances; edited,
\* it is no longer recognized, left alone and overwritten in the end.
TakeInventory ==
    /\ inventory = "terraform" /\ inventory' = "none"
    /\ taken' = (names # "none")
    /\ UNCHANGED <<instances, names, stage, earlier>>

ReplaceInstances ==
    /\ inventory # "terraform"
    /\ \/ instances = "all" /\ instances' = "some" /\ earlier' = TRUE
       \/ instances' = "none" /\ earlier' = FALSE
    /\ names' = IF names = "own" THEN "former" ELSE names
    /\ stage' = IF stage = "none" THEN "none" ELSE "stale"
    /\ UNCHANGED <<inventory, taken>>

Replace == earlier /\ (TakeInventory \/ ReplaceInstances)

Launch ==
    /\ ~earlier
    /\ \/ instances = "none" /\ instances' = "some"
       \/ instances = "some" /\ instances' = "all"
    /\ UNCHANGED <<inventory, names, stage, earlier, taken>>

WriteInventory ==
    /\ ~earlier /\ instances = "all" /\ inventory # "terraform"
    /\ inventory' = "terraform" /\ taken' = FALSE
    /\ UNCHANGED <<instances, names, stage, earlier>>

Provision ==
    /\ cpc = "apply" /\ InWorkspace
    /\ Replace \/ Launch \/ WriteInventory
    /\ UNCHANGED <<dir, building, destroying, beside, locks, creation, working,
                   deletion, bounded>>

\* The stage file must be that of the nodes there; it is written before the
\* names are published.  resize.py takes the lock and looks at the marker.
Synchronize ==
    /\ cpc = "apply" /\ InWorkspace
    /\ ~earlier /\ inventory = "terraform" /\ instances = "all" /\ stage # "stale"
    /\ lock = Nobody /\ ~destroying
    /\ cpc' = "sync" /\ lock' = Creator /\ stage' = "current"
    /\ UNCHANGED <<dir, marks, instances, names, earlier, taken, beside, tfLock, created,
                   domains, exit, working, deletion, bounded>>

\* A configuration that is resumed may be past this stage.
Published ==
    /\ cpc = "sync" /\ cpc' = "named"
    /\ lock' = Without(Creator, lock)
    /\ names' = IF InWorkspace THEN "own" ELSE names
    /\ inventory' \in IF ~InWorkspace THEN {inventory}
                      ELSE IF names = "own" THEN {inventory, "edited"} ELSE {"edited"}
    /\ UNCHANGED <<dir, building, destroying, instances, stage, earlier, taken, beside,
                   tfLock, created, domains, exit, working, deletion, bounded>>

\* The playbook and the monitoring come through, and the stage file goes.
Applied ==
    /\ cpc = "named" /\ InWorkspace
    /\ cpc' = "done" /\ exit' = "ok" /\ domains' = 0
    /\ building' = FALSE /\ tfLock' = Nobody /\ stage' = "none"
    /\ UNCHANGED <<dir, destroying, inventory, instances, names, earlier, taken, beside,
                   lock, created, working, deletion, bounded>>

\* terraform init or apply fails, in whatever state; a synchronization that was
\* cut short may have published some names.  It edits the inventory last.
AttemptFails ==
    /\ cpc \in {"init", "apply", "sync", "named"}
    /\ cpc' = NextDomain(domains) /\ exit' = "fail"
    /\ building' = (building /\ ~InWorkspace)
    /\ names' \in IF cpc = "sync" /\ InWorkspace THEN {names, "own"} ELSE {names}
    /\ inventory' \in IF cpc = "sync" /\ InWorkspace /\ names' = "own"
                      THEN {inventory, "edited"} ELSE {inventory}
    /\ earlier' = FALSE
    /\ lock' = Without(Creator, lock) /\ tfLock' = Without(Creator, tfLock)
    /\ UNCHANGED <<dir, destroying, instances, stage, taken, beside, created, domains,
                   working, deletion, bounded>>

\* The report, then FORCE unless the administrator asked for DEBUG.
Report ==
    /\ cpc = "report" /\ cpc' \in {"cleanup", "done"}
    /\ UNCHANGED <<dir, marks, cloud, locks, created, domains, exit, working,
                   deletion, bounded>>

ForceCleanup ==
    /\ cpc = "cleanup" /\ dpc[Cleanup] \notin Running
    /\ cpc' = "wait"
    /\ dpc' = [dpc EXCEPT ![Cleanup] = "start"]
    /\ force' = [force EXCEPT ![Cleanup] = TRUE]
    /\ cwd' = [cwd EXCEPT ![Cleanup] = IF dir # 0 THEN dir ELSE created]
    /\ UNCHANGED <<dir, marks, cloud, locks, created, domains, exit, working, tries,
                   cleaned, bounded>>

\* Mutant: the script ends with the status of its cleanup.
ExitStatus_cleanup == IF dir = 0 THEN "ok" ELSE exit

ExitStatus == exit

CleanupEnds ==
    /\ cpc = "wait" /\ dpc[Cleanup] \notin Running
    /\ cpc' = "done" /\ exit' = ExitStatus
    /\ UNCHANGED <<dir, marks, cloud, locks, created, domains, working, deletion, bounded>>

KillCreation ==
    /\ cpc \in Creating /\ Mishap
    /\ cpc' = "killed" /\ kills' = kills + 1
    /\ earlier' = FALSE /\ domains' = 0
    /\ lock' = Without(Creator, lock) /\ tfLock' = Without(Creator, tfLock)
    /\ UNCHANGED <<dir, marks, instances, names, stage, taken, beside, created, exit,
                   working, deletion, overlaps>>

-----------------------------------------------------------------------------
(* resize.py: the lock, then the marker, then the inventory; held to the end. *)

\* Mutant: the lock is taken without a look at the marker.
MayResize_unmarked == dir # 0 /\ lock = Nobody /\ inventory # "none"

MayResize == dir # 0 /\ lock = Nobody /\ inventory # "none" /\ ~destroying

ResizeStarts ==
    /\ ~working /\ MayResize
    /\ working' = TRUE /\ lock' = Resizer
    /\ UNCHANGED <<dir, marks, cloud, tfLock, creation, deletion, bounded>>

ResizePublishes ==
    /\ working /\ dir # 0 /\ inventory # "none" /\ instances # "none" /\ names = "none"
    /\ names' = "own" /\ inventory' \in {inventory, "edited"}
    /\ UNCHANGED <<dir, building, destroying, instances, stage, earlier, taken, beside,
                   locks, creation, working, deletion, bounded>>

ResizeEnds ==
    /\ working /\ working' = FALSE /\ lock' = Without(Resizer, lock)
    /\ UNCHANGED <<dir, marks, cloud, tfLock, creation, deletion, bounded>>

-----------------------------------------------------------------------------
(* delete_cluster.sh *)

\* Nothing in the scripts keeps FORCE away from other deletions, and deletions
\* from a creation.
Overlapping(f) ==
    \/ \E e \in Deletion : dpc[e] \in Running /\ (f \/ force[e])
    \/ cpc \in Creating

Delete(d, f) ==
    /\ dpc[d] = "idle" /\ dir # 0
    /\ \/ Overlapping(f) /\ Mishap /\ overlaps' = overlaps + 1
       \/ ~Overlapping(f) /\ UNCHANGED overlaps
    /\ dpc' = [dpc EXCEPT ![d] = "start"]
    /\ force' = [force EXCEPT ![d] = f]
    /\ cwd' = [cwd EXCEPT ![d] = dir]
    /\ UNCHANGED <<dir, marks, cloud, locks, creation, working, tries, cleaned, kills>>

\* With a script go its working directory and its counters.
Ends(d, how) ==
    /\ dpc' = [dpc EXCEPT ![d] = how]
    /\ force' = [force EXCEPT ![d] = FALSE] /\ cwd' = [cwd EXCEPT ![d] = 0]
    /\ tries' = [tries EXCEPT ![d] = 0] /\ cleaned' = [cleaned EXCEPT ![d] = TRUE]

MayDelete(d) == Here(d) /\ lock = Nobody /\ (~destroying \/ force[d])

\* The resize lock is free, the marker is absent or overridden: it is written.
Accept(d) ==
    /\ dpc[d] = "start" /\ MayDelete(d)
    /\ destroying' = TRUE
    /\ beside' = (beside \/ \E e \in Deletion : dpc[e] \in Accepted /\ Here(e))
    /\ dpc' = [dpc EXCEPT ![d] = "names"]
    /\ UNCHANGED <<dir, building, inventory, instances, names, stage, earlier, taken,
                   locks, creation, working, force, cwd, tries, cleaned, bounded>>

\* Mutant: a refused deletion clears up what is not its own.
Refuse_unmarks(d) ==
    /\ dpc[d] = "start" /\ ~MayDelete(d) /\ Ends(d, "idle")
    /\ destroying' = (destroying /\ ~Here(d))
    /\ UNCHANGED <<dir, building, inventory, cloud, locks, creation, working, bounded>>

Refuse(d) ==
    /\ dpc[d] = "start" /\ ~MayDelete(d) /\ Ends(d, "idle")
    /\ UNCHANGED <<dir, marks, cloud, locks, creation, working, bounded>>

Unmarked(d) == destroying /\ ~Here(d)

GiveUp(d) == Ends(d, "idle") /\ destroying' = Unmarked(d)

NothingToClean(d) ==
    /\ dpc[d] = "names" /\ ~(Here(d) /\ inventory # "none")
    /\ dpc' = [dpc EXCEPT ![d] = "destroy"]
    /\ UNCHANGED <<dir, marks, cloud, locks, creation, working, force, cwd, tries,
                   cleaned, bounded>>

CleanupStarts(d) ==
    /\ dpc[d] = "names" /\ Here(d) /\ inventory # "none" /\ lock = Nobody
    /\ dpc' = [dpc EXCEPT ![d] = "naming"] /\ lock' = d
    /\ UNCHANGED <<dir, marks, cloud, tfLock, creation, working, force, cwd, tries,
                   cleaned, bounded>>

CleanupSucceeds(d) ==
    /\ dpc[d] = "naming"
    /\ dpc' = [dpc EXCEPT ![d] = "destroy"]
    /\ lock' = Without(d, lock)
    /\ names' = IF Here(d) THEN "none" ELSE names
    /\ UNCHANGED <<dir, marks, instances, stage, earlier, taken, beside, tfLock, creation, working, force, cwd, tries,
                   cleaned, bounded>>

\* Mutant: Terraform goes on although the names remain.
BlocksDestroy_never(d) == FALSE

\* is_autoscaling_compute_deployment
BlocksDestroy(d) == Here(d) /\ inventory # "none"

\* resize.py found its lock held, or failed.
CleanupFails(d) ==
    /\ \/ dpc[d] = "naming"
       \/ dpc[d] = "names" /\ Here(d) /\ inventory # "none" /\ lock # Nobody
    /\ lock' = Without(d, lock)
    /\ \/ BlocksDestroy(d) /\ GiveUp(d)
       \/ /\ ~BlocksDestroy(d)
          /\ dpc' = [dpc EXCEPT ![d] = "destroy"]
          /\ cleaned' = [cleaned EXCEPT ![d] = FALSE]
          /\ UNCHANGED <<destroying, force, cwd, tries>>
    /\ UNCHANGED <<dir, building, inventory, cloud, tfLock, creation, working, bounded>>

DestroyStarts(d) ==
    /\ dpc[d] = "destroy" /\ Here(d) /\ tfLock = Nobody
    /\ dpc' = [dpc EXCEPT ![d] = "destroying"] /\ tfLock' = d
    /\ UNCHANGED <<dir, marks, cloud, lock, creation, working, force, cwd, tries,
                   cleaned, bounded>>

\* An edited inventory is not Terraform's and stays.
Spared == IF inventory = "edited" THEN "edited" ELSE "none"

DestroyMoves(d) ==
    /\ dpc[d] = "destroying" /\ Here(d)
    /\ \/ inventory = "terraform" /\ inventory' = "none" /\ UNCHANGED instances
       \/ instances = "all" /\ instances' = "some" /\ UNCHANGED inventory
    /\ UNCHANGED <<dir, building, destroying, names, stage, earlier, taken, beside, locks,
                   creation, working, deletion, bounded>>

Destroyed(d) ==
    /\ dpc[d] = "destroying" /\ Here(d)
    /\ instances' = "none" /\ inventory' = Spared
    /\ tfLock' = Without(d, tfLock)
    /\ \/ /\ cleaned[d] /\ dpc' = [dpc EXCEPT ![d] = "remove"]
          /\ UNCHANGED <<destroying, force, cwd, tries, cleaned>>
       \/ ~cleaned[d] /\ GiveUp(d)
    /\ UNCHANGED <<dir, building, names, stage, earlier, taken, beside, lock, creation,
                   working, bounded>>

\* Mutant: the directory goes when the tries are used up.
Exhausted_remove(d) ==
    /\ dpc' = [dpc EXCEPT ![d] = "remove"]
    /\ UNCHANGED <<destroying, force, cwd, tries, cleaned>>

Exhausted(d) == GiveUp(d)

\* Mutant: the retries are not counted.
Tried_uncounted(d) == tries[d]

Tried(d) == tries[d] + 1

MayRetry(d) == Tried(d) < MaxTries

\* A try fails, or finds the state locked or the directory gone.
DestroyFails(d) ==
    /\ dpc[d] \in {"destroy", "destroying"}
    /\ dpc[d] = "destroy" => ~Here(d) \/ tfLock # Nobody
    /\ tfLock' = Without(d, tfLock)
    /\ \/ /\ MayRetry(d)
          /\ tries' = [tries EXCEPT ![d] = Tried(d)]
          /\ dpc' = [dpc EXCEPT ![d] = "destroy"]
          /\ UNCHANGED <<destroying, force, cwd, cleaned>>
       \/ ~MayRetry(d) /\ Exhausted(d)
    /\ UNCHANGED <<dir, building, inventory, cloud, lock, creation, working, bounded>>

RemoveWorkspace(d) ==
    /\ dpc[d] = "remove" /\ Ends(d, "idle")
    /\ RemoveDir
    /\ UNCHANGED <<creation, working, bounded>>

KillDeletion(d) ==
    /\ dpc[d] \in Running /\ Ends(d, "killed")
    /\ Mishap /\ kills' = kills + 1
    /\ lock' = Without(d, lock) /\ tfLock' = Without(d, tfLock)
    /\ UNCHANGED <<dir, marks, cloud, creation, working, overlaps>>

-----------------------------------------------------------------------------
CreatorStep ==
    \/ Valid \/ Invalid \/ Attempt \/ ApplyStarts \/ Provision \/ Synchronize
    \/ Published \/ Applied \/ AttemptFails \/ Report \/ ForceCleanup \/ CleanupEnds

ResizerStep == ResizePublishes \/ ResizeEnds

DeletionStep(d) ==
    \/ Accept(d) \/ Refuse(d) \/ NothingToClean(d) \/ CleanupStarts(d)
    \/ CleanupSucceeds(d) \/ CleanupFails(d) \/ DestroyStarts(d) \/ DestroyMoves(d)
    \/ Destroyed(d) \/ DestroyFails(d) \/ RemoveWorkspace(d)

Next ==
    \/ Create \/ CreatorStep \/ KillCreation
    \/ ResizeStarts \/ ResizerStep
    \/ \E d \in Deletions, f \in BOOLEAN : Delete(d, f)
    \/ \E d \in Deletion : DeletionStep(d) \/ KillDeletion(d)

Spec == Init /\ [][Next]_vars

\* The commands the scripts wait for end: OCI, Ansible and Terraform time out.
Fairness ==
    /\ WF_vars(CreatorStep)
    /\ WF_vars(ResizeEnds)
    /\ \A d \in Deletion : WF_vars(DeletionStep(d))

FairSpec == Spec /\ Fairness

-----------------------------------------------------------------------------
TypeOK ==
    /\ dir \in 0..MaxCreations
    /\ building \in BOOLEAN /\ destroying \in BOOLEAN
    /\ inventory \in {"none", "terraform", "edited"}
    /\ instances \in {"none", "some", "all"} /\ names \in {"none", "own", "former"}
    /\ stage \in {"none", "current", "stale"}
    /\ earlier \in BOOLEAN /\ taken \in BOOLEAN /\ beside \in BOOLEAN
    /\ lock \in Process \union {Nobody}
    /\ tfLock \in Deletion \union {Creator, Nobody}
    /\ cpc \in Creating \union {"idle", "done", "killed"}
    /\ created \in 0..MaxCreations /\ domains \in 0..Domains
    /\ exit \in {"none", "ok", "fail"}
    /\ working \in BOOLEAN
    /\ dpc \in [Deletion -> Running \union {"idle", "killed"}]
    /\ force \in [Deletion -> BOOLEAN]
    /\ cwd \in [Deletion -> 0..MaxCreations]
    /\ tries \in [Deletion -> 0..MaxTries]
    /\ cleaned \in [Deletion -> BOOLEAN]
    /\ kills \in 0..MaxMishaps /\ overlaps \in 0..MaxMishaps

\* What follows for Serialized holds as long as nobody has used FORCE beside another
\* deletion or deleted a cluster while it was being created.
Serialized == overlaps = 0

\* resize.py and an accepted deletion never work on the cluster together: the
\* lock covers the writing of the marker only, and the marker covers the rest
\* (delete_cluster.sh 36-51, resize.py 43-77).
ResizeExcludesDeletion ==
    Serialized /\ working => \A d \in Deletion : ~(dpc[d] \in Accepted /\ Here(d))

\* When a deletion has Terraform destroy the instances, no name or DNS record of
\* theirs is left, because what tells which ones to remove goes with them
\* (delete_cluster.sh 72-93).  The exception: the apply of a later domain has
\* already taken the inventory that the cleanup would have read, so that the
\* deletion believes there is nothing to clean (delete_cluster.sh 81-83).
NamesGoBeforeInstances ==
    Serialized => \A d \in Deletion :
        dpc[d] = "destroying" /\ Here(d) => names = "none" \/ taken

\* Markers follow the work.  A deletion under way has its marker, which is what keeps
\* the scheduler, resizes and other deletions away; it loses it only where FORCE had
\* one deletion accepted beside another.  And only a killed script leaves a marker
\* behind, or the scheduler would take the cluster for one being built or destroyed
\* for ever (create_cluster.sh 146, 185 and 234, delete_cluster.sh 42, 49, 87, 173).
MarkersFollowWork ==
    /\ ~beside => \A d \in Deletion : dpc[d] \in Accepted /\ Here(d) => destroying
    /\ destroying => \E d \in Deletion : dpc[d] \in Accepted \union {"killed"}
    /\ building => cpc \in {"init", "apply", "sync", "named", "killed"}

\* The directory is removed when nothing is left that it alone keeps track of:
\* no instance, no name, no Terraform at work (create_cluster.sh 86-140,
\* delete_cluster.sh 151-170); for names with the exception above.
WorkspaceGoesLast ==
    [][Serialized /\ dir # 0 /\ dir' # dir =>
         instances = "none" /\ (names = "none" \/ taken) /\ tfLock = Nobody]_vars

\* The status the guard counts: success means a cluster that is complete and
\* no longer marked and whose records are those of its own nodes, whatever the
\* domains before left, and however the cleanup of a failed creation ends
\* (create_cluster.sh 143-186 and 262, configure_as.sh 60-71).
Complete == /\ InWorkspace /\ instances = "all" /\ inventory # "none"
            /\ names = "own" /\ ~building

ExitTellsTheOutcome ==
    [][Serialized /\ cpc \in Creating /\ cpc' = "done" /\ exit' = "ok" => Complete']_vars

\* No script waits for another for ever.
EveryScriptEnds ==
    /\ cpc \in Creating ~> cpc \notin Creating
    /\ \A d \in Deletion : dpc[d] \in Running ~> dpc[d] \notin Running
=============================================================================
