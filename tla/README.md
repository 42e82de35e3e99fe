# OCI HPC Trial Pack: TLA+ development

This directory holds TLA+ specifications of the control programs of the OCI HPC
Trial Pack, the TLC configurations that check them, and machine-checked proofs
about them. The specifications are written from the code: `PROJECT.json` ("map")
names, for every definition, the file and lines it translates.

## 1. The system

The pack deploys a Slurm cluster on OCI with Terraform and Ansible. What runs
afterwards, on the controller and on the compute nodes, is a set of programs that
share state through files, locks, Slurm and OCI, and that is where the difficult
behaviour is. Terraform templates and most Ansible roles are declarative
configuration and are left aside.

| Component | State it keeps | Operations | Interacts with |
|---|---|---|---|
| Automatic-creation guard (`bin/autoscaling_guard.py`) | `state.json` (generation, consecutive failures, stopped, recovery owed), `.lock` | `run` (one process per creation), `resume`, `status`, the scheduler's snapshot | scheduler, `create_cluster.sh`, administrator notices |
| Scheduler (`autoscaling/crontab/autoscale_slurm_disable-resize.sh`, and `autoscale_slurm.sh` when resizing is enabled) | `/tmp/autoscaling_lock`; reads Slurm, `clusters/*` markers and `queues.conf` | one cron pass: read, delete idle clusters behind a DRAIN fence, create for pending jobs within limits | Slurm, guard, `delete_cluster.sh` |
| Cluster scripts (`bin/create_cluster.sh`, `delete_cluster.sh`, `cleanup.sh`, `configure_as.sh`, `initial_configure_state.py`) | `clusters/<name>/` with `currently_building`, `currently_destroying`, Terraform state, `.initial-configure-stage` | create, roll back, destroy, configure in resumable stages | Terraform, Ansible, resize |
| Resize of pools (`bin/resize.py` on an Instance Pool or a Cluster Network) | `.oci-hpc-resize.lock`, the recovery marker, the journals of removals and of volume deletions, the hostname plan; `terraform.tfstate` and `variables.tf` | add, remove, reconfigure, synchronize names, clean up before a destroy, resume what was interrupted | OCI, Ansible, inventory, delete |
| Resize of Compute Clusters (`bin/resize.py`) | the removal journal with the membership it was decided on, the hostname plan | launch and roll back, remove, reconfigure, clean up | OCI, inventory, delete |
| Names of compute nodes (`bin/resize.py`) | display names, VNIC labels, private DNS records, the ledger of owned records, the hostname plan, Terraform state of older clusters | take over from Terraform, synchronize, remove a node, clean up | OCI, DNS that others also write, inventory, `/etc/hosts` |
| Administrator notices (`bin/autoscaling_failure_notify.py`) | spool directory | save, retry, report | guard, cluster scripts, OCI Notifications |
| Instance monitor (`bin/autoscaling_instance_monitor.py`) | incident state | collect, classify, reconcile, notify | OCI, Slurm, clusters |
| Slurm job notices (`slurm_oci_mailprog.py`, `slurm_oci_notify_worker.py`, `slurm_notification_registry_seed.py`, `slurm_oci_notification_cleanup.py`, `cluster` CLI) | spool, registry, topic cache | queue, send with backoff, register, clean up | slurmctld, OCI Notifications |
| User tags (`slurm_oci_user_tags.py`) | per-node records on NFS, locks by rename | prolog/epilog hooks, register, reconcile | Slurm, OCI tags |
| Topology update (`playbooks/library/slurm_topology.py`) | `topology.conf` | replace one switch under a lock | Ansible, cluster scripts |
| Readiness probe (`slurm_readiness.py`), queue validation (`validate_queues.py`), localdisk layout | none | bounded polling, checks | Slurm |
| Web front ends (Open OnDemand direct download, OpenComposer history) | browser / SQLite | download queue, refresh, cancel | users |

The behaviours that are hard here: guard processes that overlap and finish in any
order; an operator who resumes while old creations still run; a scheduler that acts
on snapshots of Slurm; deletion racing job starts, resizing and another deletion;
programs killed between two file operations; OCI requests whose answer is lost;
a resize that stops between the pool, Terraform's two copies of its size, the DNS records
and four recovery files, each of which makes some later runs refuse; a monitor that reads
three sources one after the other; hooks of a new job racing the late answer of an update
for the previous one.

What makes each part correct:

| Component | Correct means |
|---|---|
| Guard | the count is the unbroken run of failures of the present opening; it stops exactly at the threshold; only an operator reopens it; one notice per stop |
| Scheduler, deletion | nothing with a job is destroyed; the nodes stay drained while a deletion may still act; a pass that gives up undoes exactly what it did |
| Scheduler, planning | free names only, the limits of `queues.conf` over all passes, no second cluster for a job that one is being built for |
| Cluster scripts | a deletion and a resize exclude each other; names go before instances; the directory outlives everything it tracks; the exit status is the outcome |
| First configuration | no stage is skipped or repeated after it succeeded; no instance is published under the record of another |
| Resize of pools | a stale size is owed to a file that says so; only members the journal names leave; no scratch volume is forgotten; whatever a stop leaves, repeated removals finish it |
| Resize of Compute Clusters | the two recovery files never block each other; only what the journal names or the run launched is taken down; a forgotten removal left nothing |
| Names | records and aliases of others survive; the four places of a name agree when a synchronization has ended; a destroyed cluster leaves no record |
| Notices | every saved notice is delivered or given up openly, and not sent again after it was acknowledged |
| Instance monitor | an alert rests on continuous observation, is repeated only when due, and in the end the administrators know what is the case, also across a crash and a failing collection |
| User tags | what is acknowledged is what the newest record says; a correction never takes a running job away; the tag ends up that of the jobs on the node |
| Topology update | one switch changes, every node stays in at most one |

## 2. The modules

| Module | Models | How state and actions correspond to the code |
|---|---|---|
| `CreationLatch` | what the guard promises, without files and processes | abstract: attempts in flight, the streak of failures, the latch |
| `AutoscalingGuard` | `bin/autoscaling_guard.py` | `file` is `state.json` (missing, damaged or a record with the fields `read_state` accepts), `config` the threshold, `lock` the flock where it is held across two actions; each guard process has a program counter, the threshold and generation it loaded, the exit status it saw. An action is what happens under the lock between two points where another process could see or a crash could fall: admission with the spawn, the end of the creation, `Record`, queuing the notice, resume, a failing save, death of a guard, loss or damage of the file |
| `SafeDelete` | `deleteClusterSafely` and the pass around it, `delete_cluster.sh` as it is seen from there | per node: membership, DRAIN, Reason, use, health; per pass: program counter, the snapshots, `owned_drains`. Every `scontrol`/`squeue` call is an action, and jobs, administrators, resizes and other deletions act between any two |
| `ClusterWorkspace` | `create_cluster.sh` and `delete_cluster.sh` on one cluster name | the directory (numbered by creation, so that a stale working directory is not the new one), its two markers, the inventory (as Terraform wrote it, or edited with the final names), what its Terraform state tracks, names and DNS records (of the nodes there or of nodes that were replaced), the stage file of the first configuration, the two locks; program counters of the creation, of every deletion and of a resize. Each availability domain is applied over the Terraform state of the one before: the apply first takes the inventory, then the nodes, then makes new ones, and may stop after any of these |
| `SchedulerPlan` | `getstatus_slurm` and the main pass for one queue and instance type | jobs, clusters in their phases (spawned, directory, marked, in Slurm, leaving), and the pass's variables `cluster_to_build`, `cluster_to_destroy`, `used_index`, `current_nodes`, `building_nodes`, read one after the other; `missed` keeps the clusters that neither reading of this pass has shown |
| `CommittedResize` | what resizing a pool promises, without files and instances | abstract: the live size, the recorded size, the committed resize |
| `PoolResize` | `bin/resize.py` on an Instance Pool or the pool of a Cluster Network: the main program's phases from the resumption of an interrupted run to the reconfiguration, with the functions they call | per instance its place (member, detached, terminated) and its scratch volume; the pool's size and Terraform's two copies of it; the four recovery files; one run with its step. Scratch volumes that were declared in the launch of the instance are left out: OCI deletes them with it and no file speaks of them. Every call that changes OCI or replaces a file is an action of its own, so that `Stop` may fall between any two; OCI finishes what it accepted by itself |
| `ComputeClusterResize` | the same program on a Compute Cluster, whose members are launched and terminated one by one | per instance its place, whether it is in the inventory and named; the journal with its boundary of survivors; the plan; the run |
| `ComputeNames` | the functions of `bin/resize.py` that carry the hostname to OCI, DNS, inventory and `/etc/hosts`, and take it away again | Instance Pool, Cluster Network or Compute Cluster (`kind`); per node the four names; the DNS zone as a set of addresses per name; Terraform's records and whether they are released; ledger, plan, pending removal. A name of somebody else in the zone is the address `Other`; others take names between any two steps, and `late` keeps those taken since the run's last preflight. A Cluster Network that was never taken over (`Unmanaged`) gets no cleanup, as in `main` |
| `UserTags` | `slurm_oci_user_tags.py`: registration, the hooks, the worker's correction and application | one node: its record (jobs, revision, owner, what was applied, retry times), the tag in OCI with its ETag, updates that are still on their way, the worker's step. The set `current` names what still has the newest revision |
| `InstanceMonitor` | `autoscaling_instance_monitor.py`: one pass reads the markers, OCI and Slurm, compares, reports and saves | the cluster, what the pass has read, the records with their ages, which incidents the administrators believe open |
| `...Proofs` (eight modules) | theorems and proofs | section 6 |
| `MC...` | constants for TLC | section 3 |

`AutoscalingGuard` implements `CreationLatch` and `PoolResize` implements
`CommittedResize` (TLC checks both, as properties of the runs `guard` and
`pool_resize`; the first is also proved). The modules see each other as outcomes:
`SafeDelete` knows of a deletion that it is launched, has marked and has exited;
`SchedulerPlan` knows of a hand-off that it succeeded or was withdrawn, and of a creation
which of its phases it is in; `ClusterWorkspace` shows what the phases and the exit status
are worth, and that a resize and a deletion exclude each other, on which the resize modules
rest: each has one run at a time. `PoolResize` and `ComputeClusterResize` treat names as
kept or not; `ComputeNames` shows what keeping them takes. One definition named
`<operator>_<word>` (or, in the guard, `<operator><Word>`) before an operator is a faulty
variant of it, kept to show that the properties notice it (`PROJECT.json`, "mutants"); no
specification uses it.

## 3. The runs

| Run | Bounds | Shows |
|---|---|---|
| `guard` | 2 attempts, thresholds off, 1 and 2, 2 resumes, 2 mishaps, fair | the count is exact, the record and the notices tell the history, eras do not mix, the latch is implemented, every spawned creation is settled though other guards die with the lock. Two attempts suffice to trip the latch, or to fail across a resume; longer streaks are covered by the proofs |
| `safe_delete` | 2 nodes, 1 pass, 1 fault, 1 act of an administrator, fair | one pass against jobs, failures, a resize, a manual deletion and a failing, late or killed command at any point. Two nodes are the fewest of which one is drained and the other not yet; any number of passes is covered by the proofs |
| `safe_delete_late_node` | 1 member and a spare | a sentence of the release notes that the code does not keep (section 5) |
| `workspace` | 2 creations, 2 domains, 2 deletions and the cleanup, 2 destroy tries, 1 mishap (a kill, FORCE beside another deletion or a deletion during a creation), fair | exclusion, order, markers and truth of the exit status while scripts race and fail; every script ends. A second creation is what makes a stale directory visible, a second domain what replaces nodes, and one overlap is enough for two deletions to share a marker; the code's 6 tries do no more than 2 do, since nothing but the counter tells them apart |
| `scheduler_plan` | 3 jobs of sizes 2, 2 and 1, count 2, size 2, nodes 3, 3 clusters | names and limits over any number of passes, clusters joining Slurm and losing their marks between any two readings. Two requests of one size are what the matching must tell apart, and the node limit falls below what the cluster count would allow; `MaxCreations` is one above `max_cluster_count`, so a cluster too many would be seen |
| `scheduler_count_refusal` | as above, size 1 | the refusal that is not true (section 5) |
| `pool_resize` | pool of 2 that may grow to 3, two of the three with a scratch volume, 2 stops or failed adds, fair | any sequence of operations, stopped between any two steps: what is stale is recorded, what leaves was chosen, no volume is forgotten, interrupted work ends, the resize is committed as `CommittedResize` says. Two stops are the fewest in which the resumption itself is interrupted; a removal of two is the fewest that stops half done |
| `compute_names` | 2 nodes (one added by a resize), 2 names, 1 stop, 2 changes of a name or of the zone at any moment, fair | synchronization, removal and cleanup on new and older clusters of all three kinds: aliases survive, a foreign record is lost in one window only, the places agree, a cleanup leaves in the zone only what an unmanaged Cluster Network leaves, plans end. Two names are what an exchange takes; names are interchangeable, so the run fixes which node starts with which |
| `names_removal` | as above, no change | the removal that never ends (section 5) |
| `cc_resize` | 1 instance of Terraform's and 2 more, 2 stops or failed launches, 1 lost instance, fair | what may be taken down, what may be forgotten, and that a removal is completed by any later run |
| `user_tags` | 2 jobs of 2 users on 1 node, 1 run each, 1 mishap, fair | the record and the tag against hooks, timers, failed and late calls. Two jobs that share the node are what makes an owner change hands |
| `instance_monitor` | 1 instance, grace 1, repeat 2, gap 2, 3 changes of the cluster, 1 mishap, fair | alerts, repetitions and recoveries. A grace of one tick needs the two samples the code asks for; three changes let an incident end and come back |

Each passing run takes between half a minute and four minutes with two workers.

Counters in the models are bounded by the constants named in the module headers
("bound:") and nothing else is cut off. Runs with `CHECK_DEADLOCK FALSE` are those
whose system comes to rest: all attempts used up, all scripts ended, the cluster
destroyed. In the others some action always remains possible. `Symmetry` permutes the
two jobs of one size in `scheduler_plan`, which checks no liveness.

## 4. Assumptions and fairness

Fairness is assumed only of what the code drives by itself:

- guards: a creation ends (`CreateExits`; Terraform and Ansible have time limits of
  their own), and a guard that has been told so records, drops or queues (weak
  fairness of `Record`, `Drop`, `queue_notification`; `flock` is released by the
  kernel when a holder dies). Resumes, spawning and mishaps have none.
- the scheduler's pass: weak fairness of its own next step. All its waits are
  bounded loops. `delete_cluster.sh`, jobs and administrators have none.
- cluster scripts: weak fairness of the creation's next step, of each deletion's
  next step and of a resize giving its lock back; the external tools they wait for
  time out. Nobody has to start a deletion.
- resizing (`PoolResize`, `ComputeClusterResize`, `ComputeNames`): weak fairness of a
  run's next step and of OCI finishing what it accepted. Stops are bounded. That
  interrupted work ends also needs somebody to call the program again: strong fairness of
  starting a removal (pool), any mode (Compute Cluster), and of a synchronization and the
  resumption of a removal (names). The code prints this advice when it refuses;
  `names_removal` shows a case in which following it does not help.
- user tags: weak fairness of the worker, of the hooks that Slurm calls, of the release of
  jobs and of the timers that retries and checks wait for; mishaps are bounded.
- instance monitor: weak fairness of the pass and of the timer.

Assumptions about the surroundings, each visible as a constant or a guard:

- A Slurm update whose client times out was applied before the time-out or is not
  applied at all. A marker that is there is seen by the polling pass.
- Hooks that do not come through, failed calls and killed passes are bounded in number, or
  nothing could be said about the end.
- A killed Terraform keeps what its state file tracks and releases the state lock.
- `Serialized` (`ClusterWorkspace`): scripts may overlap in any way they accept, and `overlaps`
  counts the deletions that were started with FORCE beside another one or during a creation. What
  is said about markers holds with them. The exclusion of deletions and resizes, the order of
  names, instances and directory, and the exit status are stated for as long as there was none,
  since deletions that each believe they are alone undo each other's files.
- `Prompt` (`SchedulerPlan`): a creation has written its first mark before a later
  pass reads the directories. The code gives it five seconds after each spawn and
  whatever is left of the minute; without it two passes can choose one name, and
  both limits fail too.
- `NamesDiffer` (`ComputeNames`): the hostnames that nodes start with and that others take in the
  zone are not the generated ones (`inst-...` and the Slurm aliases), and no name or document is
  `None`. A hostname may later be changed to a generated name.
- `FiniteJobs`: squeue's answer is finite, so that requests can be counted; `NoMarker`
  (`PoolResize`): no marker at all is not one of the markers.
- Which clusters count as idle, and which of them the pass reaches, is left open, so
  the results do not depend on the ages.
- The lock and the marker test of `resize.py` are one step: the marker is read under
  the lock. The guard's reading, change and replacement of `state.json` are one step too:
  its flock spans them (`autoscaling_guard.py` 202 to 245).

## 5. Where the code and its documents disagree

- *A node added late is destroyed with its job.* The topology is compared before the
  second round of job checks, and `delete_cluster.sh` destroys what belongs to the
  cluster by then (`autoscale_slurm_disable-resize.sh` line 175; `docs/releases/v1.3.1.md`
  lines 13 and 15). Run `safe_delete_late_node`.
- *A request refused for its nodes counts as a cluster.* `used_index` gets the index
  (lines 579 to 587) before the node limits are tested (601 to 606), so a later request
  of the pass is refused with "you have reached the max number of clusters" (line 574)
  although fewer exist. A pending job that is too large, or beyond the node limit, so
  keeps smaller jobs out pass after pass. The trace of run
  `scheduler_count_refusal` has one cluster and a limit of two.
- *A removal and a synchronization refuse each other.* On an older cluster, a
  synchronization that stops after it wrote the ledger and before it released Terraform's
  records leaves the takeover incomplete. A removal takes its node out of the pool and then
  refuses to delete its names (`resize.py` line 1246, called at 4999); the synchronization
  that would complete the takeover refuses while a removal is pending and says "retry remove
  or remove_unreachable first" (line 5891). Run `names_removal`.

Others were met on the way and are not runs.

- *Names outlive the cluster when the next domain's apply stops.* `create_cluster.sh` 143 to 175
  applies the next availability domain over the Terraform state of the one before, which destroys
  the inventory and the nodes of that domain. When their names were in DNS already (`resize.py`
  wrote the records and failed before it rewrote the inventory, `configure_as.sh` line 123) and
  that apply stops after it took the inventory, the FORCE cleanup takes the names for
  done: no inventory means to it that "terraform failed before that step" (`delete_cluster.sh`
  lines 63 and 81). It destroys the rest and removes the directory with the ledger; the records
  stay. In the module this is the exception `taken` of `NamesGoBeforeInstances` and
  `WorkspaceGoesLast`, both of which fail without it. (`configure_as.sh` 60 to 71 refuses the stage
  file of nodes that were replaced, so a second domain never succeeds after the first came that far.)
- *A deletion goes on without its marker.* `README.md` line 413 of the repository says that a cluster
  in deletion has the file `currently_destroying`; line 407 offers FORCE for trouble during a
  deletion, and FORCE is accepted beside one (`delete_cluster.sh` line 42). The first of the two to
  fail removes the one marker (line 173), and to a resize or the scheduler the cluster the
  other is destroying looks alive: the exception `beside` of `MarkersFollowWork`.
- *An administrator's DRAIN is lifted.* The rollback of a scheduler pass compares
  the Reason of a DRAIN on a snapshot and lifts the DRAIN by a separate command
  (`autoscale_slurm_disable-resize.sh` line 198), so that a DRAIN an administrator sets between the
  two is lifted, against line 34 of `docs/releases/v1.3.1.md`.

## 6. What is proved

Every theorem holds for all values of the constants (any number of attempts, nodes,
passes, deletions, jobs, instances, users, stops and mishaps, any limits and periods), from
the named assumptions of the modules. An invariant of a run is seldom inductive; what has to
be added to it is the argument, and is named below.

- **Guard** (`CreationProofs`): `TypeCorrect`; `ResultsNeverCrossEras`, from
  `EraInv`: generations in use are older than the next one, a guard whose generation is
  the record's was born in the present era, spawned attempts have a birth;
  `CountIsExact`, from `CountInv`, which adds that a record that was lost leaves no streak
  behind it in the log; `ReopenedByResumeOnly`, step by step from types alone; and
  `GuardIsLatch`: the guard implements `CreationLatch`. The latch counts a set of attempts,
  the record a number, so `LatchInv` relates them: whoever is in the log has ended and is
  not recorded twice (`RecordedAreDone`), the attempts of the failures at the end of the log
  are as many as the record says (`TrailingIsCount`), no attempt was born in a later era
  (`BornSoFar`), and an admitted attempt has a threshold above 0 (`AdmittedAreGuarded`).
  `AdmitStarts`, `RecordCounts` and `NewEraOpens` then give one lemma per step of the latch.
  `HistoryIsTrue` proves `RecordTellsTheHistory`, whose four parts are not inductive without
  each other: `StopInv` (a stop has failures, and whoever recorded the last failure had loaded
  the threshold it is measured by), `OwedInv` (a missing record owes no recovery), `CarriedInv`
  (a recovery that is owed has the streak it will quote in the log, `LastStreak`), and
  `NoticeInv` (stop notices are of generations that are spent, one for each, on its way or queued).
- **Safe deletion** (`SafeDeleteProofs`): `NoJobIsDestroyed`, `DeletionsAreFenced`,
  `WithdrawalIsClean`, `PriorDrainsAreKept`, `TypeCorrect`. The invariant is `Fence`:
  every node that a launched deletion was started for is drained and free unless
  somebody exposed it; what the pass has read about the nodes its loop has passed is
  still true (`BelievedIsTrue`); a launched deletion belongs to a past pass or to one that
  waits for it (`OnlyPastDeletions`); and no other deletion relies on a node whose DRAIN
  the pass sets or lifts (`Mine`). `TouchedWasOpen` adds that such a node was not drained
  when the pass first read it, `Accounted` that a DRAIN under a pass's Reason is on the
  pass's list, was handed over, or a command failed. None of the four safety properties is
  inductive by itself: each speaks of the moment of the deletion, and the invariant of what
  the loops have already done on the way.
- **Cluster workspace** (`ClusterWorkspaceProofs`): `TypeCorrect`, and `MarkersAreTrue`
  from `Base`, with `Files` and `Marked` (which files and markers a script's position implies), and
  `OneAtWork` (as long as no deletion was accepted beside another in one directory, one works and
  is marked). `DeletionExcludesResize`, `NamesGoFirst`, `DirectoryGoesLast` and `ExitIsTrue` from
  `Separate`: as long as deletions are `Serialized`, `CreatorAlone`, `Serial` (at most one accepted
  deletion), `LockIsMeant` (who holds the resize lock), `NamesNeedInventory` and `RemoveIsLast`;
  `StaySerialized` carries that through each step. `NamesGoFirst` and `DirectoryGoesLast` except an
  apply that took the inventory of named nodes (`taken`), and state that it is the only case.
- **Planning** (`CreationProofs` too, which extends both models of what decides on a creation;
  hence the names `PlanInit`, `PlanNext` and `PlanSpec`): `NamesStayFresh` and `CountHolds` under
  `Prompt`. The invariant adds `AllIndexed`: from the reading of the directories to the end of the
  pass, `used_index` contains the index of every cluster there is, because from then on
  only the pass adds clusters. The limit follows since names are then an injection into
  `1 .. max_cluster_count` (`InvBoundsCount`), and `NextIndexIsFree` shows that the search
  for a free index ends no higher than one above the number of used ones. `NodesHold`
  needs `Prompt` and nothing else: by `ListedAreCounted` and `SeenAreCounted`, `current_nodes` plus
  `building_nodes` is from the directories on at least the nodes of all clusters held but those in
  `missed`. What joined Slurm and lost its mark between the two readings is in
  neither, so the code does exceed the limit, by these clusters and by no others. The nodes of a set of clusters are the
  cardinality of a set of pairs, so that a sum can be reasoned about (`CountedUnion`).
  `NothingUnasked`: by `NoneTwice`, as long as requests of a size are left, they and the
  clusters of that size under construction are together no more than the jobs that ask for it.
  `PlanTypeCorrect` needs in addition that a cluster that is there has an index.
- **Resize of pools** (`PoolResizeProofs`): `CommittedLeave`, from `Inv`: whatever a run has
  chosen, is working on or has in a recovery file is named by the journal while it is a member
  (`Named`); a removal that resumes nothing starts from an empty journal (`Emptied`); what is
  marked done has left (`Departed`); which phase a step belongs to (`Path`), since the same
  functions take an instance down in three phases of the program. `VolumesAreRemembered`, from
  `Noted`: a live volume is journaled as soon as its instance may leave, before the detach is
  asked for, and `Wiped`: when the journal is dropped no volume in it is live.
  `StaleSizesAreOwed`, `ResizeIsCommitted` and `TypeCorrect` rest on `Sizes`, which binds what
  the marker and the journal commit to (`Growing`, `Shrinking`) to the members OCI has and to
  both copies of the size Terraform keeps, at each step of a run (`Stage`, `Chosen`, `Undone`,
  `Recorded`) and between runs (`Unmarked`, `Settled`). `StepIsCommitted` maps each step to one
  of `CommittedResize` or to a stutter.
- **Names of compute nodes** (`ComputeNamesProofs`): `NothingIsLeft` (but for the generated names
  and aliases of nodes added to a Cluster Network without markers or ledger, whose cleanup
  `main` skips), from `Cover`: as long as the
  cluster is there, a record with the address of a node is under a name that the ledger lists, the
  alias of a node some file or OCI leads to (`Involved`), before there is a ledger a name that such
  a node bears in OCI or in a file (`Bearers`), or a record of Terraform's that the takeover
  released. `Cleaning` then says what of it is still to be taken by the cleanup or left to Terraform.
  Keeping `Cover` takes nearly all that a file or a position implies: which files are there
  (`Files`), where the takeover stands (`Takeover`), the names of the nodes that stay and of the one
  that leaves (`Named`), what a synchronization has behind it in OCI, in the zone and in the files
  (`Renaming`, `Updating`, `Finishing`), what a removal has behind it (`Departure`). `SynchronizedAgree`
  is the end of the same chain: at the clearing of the plan `Renaming`, `Updating` and `Finishing`
  are `Agreed`, except for former names, which the ledger, equal to `Target` by then, would cover.
  `ForeignStay` and `AliasesStay` go through the six steps that change the zone (`RecordSteps`),
  while others may take a name between any two: a record that is deleted was found to have expected
  addresses only, one that is written over was found so by the last preflight of the run or was
  taken since (`late`; the window no call of the code closes), and no alias is ever in the ledger
  (`Apart`). `TypeCorrect` is the first part of the invariant.
- **Resize of Compute Clusters** (`ComputeClusterResizeProofs`): `TypeCorrect`;
  `FilesNeverMeet`, from `Pending`: a removal is decided only where neither file is there, and a
  plan written only where there is no journal; `OnlyCommittedLeave`, from `Committed`: what is
  journaled or about to be was a member and never Terraform's, what the run launched was unused
  before, and members do not become unused again, so that a resumed run cannot confuse them;
  `NothingForgotten`, from the same invariant, which says of every step of a removal that what
  it has behind it has no name.
- **User tags** (`UserTagsProofs`): `TypeCorrect`; `AppliedIsNewest`, from `Fresh`: whoever
  still has the newest revision, the record or the worker on its way, has the owner of that
  revision, although no lock is held over the calls; `NewerHooksWin`, from `Ordered`
  (no run is recorded, or on its way in a hook, before it began) and `Seen`: as long as the
  revision is the one before the look at Slurm, every recorded run that is on the node was seen.
- **Instance monitor** (`InstanceMonitorProofs`): `TypeCorrect`, from `Shaped` and `Around`;
  `NoEarlyRepeat`, from `Remembered`: an
  incident that is open is known as announced in the file or in what the pass will write,
  unless the write was lost; `AlertsHaveGrounds`, from `Continuous`: an unannounced record is no
  older than what every saved reading has found, and what the pass prepares to write keeps that.
  One case is excepted in the property itself: a recovery notice that is delivered while its
  answer is lost leaves the record of the announced incident, which may be announced at once when
  it comes back.

So every invariant and every action property of the runs is proved for all values of the
constants. Only model-checked is liveness (`EverySpawnedAttemptIsSettled`, `EveryPassEnds`,
`EveryScriptEnds`, `InterruptedWorkEnds`, `PlansEnd`, `RemovalsEnd`, `TagFollowsAllocation`,
`TruthIsToldInTheEnd`), because fairness is beyond the prover.

## 7. Not modelled, and why

- Terraform templates, Ansible roles and OCI: declarative or external; every outcome they
  may have is a choice in the models.
- First configuration in stages (`configure_as.sh`, `initial_configure_state.py`), the spool of
  administrator notices and the Slurm job notices: sequential programs with files of their own,
  left out in favour of the programs above, which share state with others. The monitor and the
  guard see a notice as delivered, lost or failed.
- `resize.py` beyond the modelled modes: listing, preparing scratch volumes, metadata of a
  Compute Cluster, the choice of nodes by `remove_unreachable`, and the many identity checks that
  refuse files or resources of somebody else: each stops the run, which the models have.
- Topology update, readiness probe, queue validation: one file under a lock, or bounded polling
  without shared state.
- Monitoring database, logs, wording and layout of notices: nothing reads them back to
  decide anything in the modelled programs.
- Web front ends and the interactive CLI: user-interface code.
- In the modelled parts: parsing of names and Slurm output, several queues at once (they
  share no counter), the repeated cleanup of names between two destroy attempts of
  `delete_cluster.sh` (lines 114 to 119 and 130 to 135, which repeat an action the model
  already has done).
- `autoscale_slurm.sh`, installed commented out.

Further hazards met while reading, beyond the list in `PROJECT.json`. Covered by the
properties of their module: in the guard a resume between a saved stop and its notice
(`autoscaling_guard.py` 245), a snapshot of the latch that is stale when the guard admits (147) and
saves that fail (188); in the scheduler the DRAIN that a failed deletion leaves to the next pass
(`autoscale_slurm_disable-resize.sh` 170); markers left by killed scripts (`delete_cluster.sh` 49); the
rollback of an add whose own error is only printed (`resize.py` 8404); missed passes of the monitor
(`autoscaling_instance_monitor.py` 291). Covered by none:

- guard: an update of `state.json` that is lost (202; the flock excludes it and the model takes it for
  one step); the recovery notice is queued after the lock is released, so a later stop notice can
  precede it in the spool (250); spool files are named at random, so nothing promises an order.
- scheduler: slurmctld applies a DRAIN although the client timed out (47; in the model, and the
  reason why `WithdrawnPassLeavesNoDrain` excepts passes with a failed command); a DRAIN of an
  administrator lifted by the rollback (198, section 5); a job read as pending just before its
  cluster started, or still pending after it finished, gets a second cluster within the limits
  (552); instances of a failed creation or deletion count as clusters but not as nodes (604); a pass that is
  killed leaves its lock file, and every later pass stops at it (534; only what the killed pass has
  done in Slurm is covered); a cluster that is marked and already in Slurm counts twice and may refuse a request (490); nothing
  but five seconds and the rest of the minute keeps the next pass from choosing the same name (610,
  the assumption `Prompt`).
- cluster scripts: an overlapping FORCE deletion removes by absolute path what was created anew
  (`delete_cluster.sh` 169), a name deleted by hand between two availability domains
  (`create_cluster.sh` 142; both are in the model, the properties are stated for `Serialized`); a volume
  for scratch NFS that Terraform makes after the configuration; a cleanup refused because
  some `resize.py` holds the lock, which nothing retries (256); a creation under a name that exists,
  which the scheduler never asks for (32); a `cd` that fails unnoticed (`delete_cluster.sh` 33).
- user tags: the lock is checked before the replacement of the record and not with it
  (`slurm_oci_user_tags.py` 75).
- monitor: a first alert is sent, the pass dies before the write and the incident ends before the
  next: no recovery is announced (394; the exception `TruthIsToldInTheEnd` makes).

## 8. What could come next

1. `ConfigureStages`: the recorded stage, retries after a failure, the check against records of
   other instances.
2. `NoticeSpool` and `JobNotices`: delivery at least once, claims, backoff, giving up; an abstract
   mailbox that both implement.
3. Theorems: the safety of those two, by invariants of the same kind.
