---------------------------- MODULE ComputeNames ----------------------------
(***************************************************************************)
(* bin/resize.py: the names of compute nodes.  The hostname of the operating *)
(* system becomes the display name of the instance and of its VNIC, the     *)
(* record in a private DNS zone that others write to as well, and the name  *)
(* in the inventory and in /etc/hosts.  A plan freezes the names before the *)
(* first change and a ledger lists the DNS records before the first is      *)
(* written, so that a run that is killed can be finished by the next.       *)
(* Records that older clusters left to Terraform are taken over first.      *)
(* Removing a node, and cleaning up before the cluster is destroyed, take   *)
(* the records away again.                                                  *)
(*                                                                         *)
(* A node stands for its instance and for its private IP address.  Left     *)
(* out: dns_entries or slurm switched off, several zones of one name,       *)
(* /etc/hosts on the nodes themselves, and tampered files.                  *)
(***************************************************************************)
EXTENDS Integers, FiniteSets

CONSTANTS
    Node,
    Created,     \* the nodes that Terraform created; the others came by resizing
    Host,        \* names an administrator may choose
    Other,       \* an address that is not of this cluster
    None,
    MaxStops,    \* bound: runs killed or stopped by an error
    MaxChanges   \* bound: hostnames changed and names taken by others

ASSUME Cluster == /\ Created \subseteq Node /\ Node # {} /\ Other \notin Node
                  /\ MaxStops \in Nat /\ MaxChanges \in Nat

VARIABLES
    kind,        \* "IP" Instance Pool, "CN" Cluster Network, "CC" Compute Cluster
    members,     \* instances of the cluster
    osName,      \* the hostname each node reports
    label, vnic, \* display names of instance and VNIC
    dns,         \* the addresses of each name in the zone
    terraform,   \* nodes whose generated name is in Terraform's state
    gated,       \* network.tf creates no such record any more, and is marked so
    ledger, released,     \* .. of names to addresses; Terraform's part is released
    plan, removal,        \* the pending synchronization, the pending removal
    inventory, hosts,     \* the inventory's name of each node, and /etc/hosts
    run, stops, changes,
    late         \* history: names that others took since the run's last preflight

cloud == <<kind, members, label, vnic, dns>>
state == <<terraform, gated>>
world == <<osName, late>>
files == <<ledger, released, plan, removal, inventory, hosts>>
vars == <<cloud, world, state, files, run, stops, changes>>

Oci(n) == <<"oci", n>>       \* the name OCI generates
Slurm(n) == <<"slurm", n>>   \* the alias Slurm uses: queue, type, index of the address
Name == Host \union {Oci(n) : n \in Node} \union {Slurm(n) : n \in Node}

NoRecords == [d \in Name |-> {}]
Ledger == IF ledger = None THEN NoRecords ELSE ledger
Listed == {d \in Name : Ledger[d] # {}}

\* A record is one's own if it has no address but the expected ones.
Verified(d, expected) == dns[d] \subseteq expected
LedgerVerified == \A d \in Listed : Verified(d, Ledger[d])

Idle == [step |-> "idle", nodes |-> {}, names |-> {}, seen |-> [n \in Node |-> Oci(n)]]
At(s) == run.step = s
Goto(s) == run' = [run EXCEPT !.step = s]
Exit == run' = Idle

Distinct(f) == \A m, n \in members : f[m] = f[n] => m = n

\* The documents that are kept.
SyncPlan == [desired : [Node -> Name], before : [Node -> Name],
             listed : [Node -> Name \union {None}]]
RemovalRecord == [node : Node, names : SUBSET Name]
Ownership == [Name -> SUBSET Node]

\* Generated names are not among those that are chosen, and no document is None.
ASSUME NamesDiffer == /\ \A n \in Node : Oci(n) \notin Host /\ Slurm(n) \notin Host
                      /\ None \notin Name \union SyncPlan \union RemovalRecord \union Ownership

TypeOK ==
    /\ kind \in {"IP", "CN", "CC"} /\ members \subseteq Node
    /\ osName \in [Node -> Name] /\ label \in [Node -> Name] /\ vnic \in [Node -> Name]
    /\ dns \in [Name -> SUBSET (Node \union {Other})]
    /\ terraform \subseteq Node /\ gated \in BOOLEAN /\ released \in BOOLEAN
    /\ ledger \in Ownership \union {None} /\ plan \in SyncPlan \union {None}
    /\ removal \in RemovalRecord \union {None}
    /\ inventory \in [Node -> Name \union {None}] /\ hosts \in [Node -> Name \union {None}]
    /\ run.nodes \subseteq Node /\ run.names \subseteq Name
    /\ stops \in 0..MaxStops /\ changes \in 0..MaxChanges /\ late \subseteq Name

\* A cluster that was made by this release, or by an older one, whose records
\* under generated names are in Terraform's state as far as it created the nodes.
Init ==
    /\ kind \in {"IP", "CN", "CC"} /\ members = Node
    /\ osName \in [Node -> Host] /\ Distinct(osName)
    /\ label = [n \in Node |-> Oci(n)] /\ vnic = label
    /\ gated \in BOOLEAN /\ terraform = IF gated THEN {} ELSE Created
    /\ dns = [d \in Name |-> {n \in Node : d = Slurm(n) \/ (~gated /\ d = Oci(n))}]
    /\ ledger = None /\ released = TRUE /\ plan = None /\ removal = None
    /\ inventory = label /\ hosts = label
    /\ run = Idle
    /\ stops = 0 /\ changes = 0 /\ late = {}

---------------------------------------------------------------------------
\* Synchronizing.  It is refused while a removal is pending; then Terraform's
\* records are taken over if any may be left.
TakenOver == gated /\ released

Begin ==
    /\ At("idle") /\ removal = None
    /\ run' = [Idle EXCEPT !.step = IF TakenOver THEN "check" ELSE "seed"]
    /\ UNCHANGED <<cloud, world, state, files, stops, changes>>

\* The records in Terraform's state, and those of members under a name that is not.
StateRecords == [d \in Name |-> {n \in terraform : d = Oci(n)}]
LiveRecords == [d \in Name |-> {n \in members : d = label[n] /\ StateRecords[d] = {}}]
Migrated == [d \in Name |-> StateRecords[d] \union LiveRecords[d]]

MaySeed ==
    \A d \in Name : /\ Migrated[d] # {} => Verified(d, Migrated[d])
                    /\ {} \notin {Ledger[d], Migrated[d]} => Ledger[d] = Migrated[d]

\* They are listed before Terraform's state lets go of them.
Seed ==
    /\ At("seed")
    /\ IF terraform = {} THEN Goto("released") /\ UNCHANGED <<ledger, released>>
       ELSE /\ MaySeed
            /\ ledger' = [d \in Name |-> Ledger[d] \union Migrated[d]]
            /\ released' = FALSE
            /\ Goto("release")
    /\ UNCHANGED <<cloud, world, state, plan, removal, inventory, hosts, stops, changes>>

Release ==
    /\ At("release")
    /\ terraform' = {}
    /\ Goto("released")
    /\ UNCHANGED <<cloud, world, gated, files, stops, changes>>

Released ==
    /\ At("released")
    /\ released' = TRUE
    /\ Goto("gate")
    /\ UNCHANGED <<cloud, world, state, ledger, plan, removal, inventory, hosts, stops, changes>>

Gate ==
    /\ At("gate")
    /\ gated' = TRUE
    /\ Goto("check")
    /\ UNCHANGED <<cloud, world, terraform, files, stops, changes>>

---------------------------------------------------------------------------
\* What is wanted: the names of the plan, else those that the nodes report.
Desired == IF plan = None THEN osName ELSE plan.desired
Before == IF plan = None THEN label ELSE plan.before

\* No node may take the Slurm alias of another.
ValidNames ==
    /\ Distinct(Desired)
    /\ \A m, n \in members : Desired[m] = Slurm(n) => m = n

\* Mutant of MayName: a retry expects the inventory as it was listed.
MayName_listed ==
    /\ ValidNames
    /\ plan # None => \A n \in members :
        /\ label[n] \in {plan.before[n], plan.desired[n]}
        /\ inventory[n] = plan.listed[n]

\* A retry finds each node, in OCI and the inventory, under the old or the new name.
MayName ==
    /\ ValidNames
    /\ plan # None => \A n \in members :
        /\ label[n] \in {plan.before[n], plan.desired[n]}
        /\ inventory[n] \in {plan.listed[n], plan.desired[n]}

\* A record may be replaced if it has the right address already, or is an alias
\* of the cluster with none but its addresses.
Known(seen) == {seen[n] : n \in members} \union {Before[n] : n \in members}
                 \union {inventory[n] : n \in members}

\* Mutant of Preflight: a name that is no alias of the cluster is taken to be free.
Preflight_unknown(seen) ==
    \A n \in members : LET d == Desired[n] IN
        d \in Known(seen) => dns[d] \in {{}, {n}} \/ Verified(d, members)

Preflight(seen) ==
    \A n \in members : LET d == Desired[n] IN
        \/ dns[d] \in {{}, {n}}
        \/ d \in Known(seen) /\ Verified(d, members)

MayChange(seen) == MayName /\ Preflight(seen) /\ LedgerVerified

NewPlan == [desired |-> Desired, before |-> label, listed |-> inventory]

\* Everything is checked, then the plan is written, once.
Check ==
    /\ At("check") /\ MayChange(label)
    /\ plan' = IF plan = None THEN NewPlan ELSE plan
    /\ run' = [run EXCEPT !.step = "rename", !.nodes = members, !.seen = label]
    /\ UNCHANGED <<cloud, world, state, ledger, released, removal, inventory, hosts, stops, changes>>

RenameVnic(n) ==
    /\ At("rename") /\ n \in run.nodes
    /\ vnic[n] # plan.desired[n]
    /\ vnic' = [vnic EXCEPT ![n] = plan.desired[n]]
    /\ UNCHANGED <<kind, members, label, dns, world, state, files, run, stops, changes>>

RenameInstance(n) ==
    /\ At("rename") /\ n \in run.nodes
    /\ vnic[n] = plan.desired[n]
    /\ label' = [label EXCEPT ![n] = plan.desired[n]]
    /\ run' = [run EXCEPT !.nodes = @ \ {n}]
    /\ UNCHANGED <<kind, members, vnic, dns, world, state, files, stops, changes>>

Renamed ==
    /\ At("rename") /\ run.nodes = {}
    /\ Goto("ledger")
    /\ UNCHANGED <<cloud, world, state, files, stops, changes>>

\* Names that stay: those wanted, and the Slurm aliases.  A node that is named
\* by its own alias leaves that record to its owner.
Wanted == {Desired[n] : n \in members}
Aliases == {Slurm(n) : n \in members}
Target == [d \in Name |-> {n \in members : Desired[n] = d /\ d # Slurm(n)}]
Earlier_unprotected == (Known(run.seen) \ {None}) \ Wanted  \* mutant

Earlier == (Known(run.seen) \ {None}) \ (Wanted \union Aliases)

\* The ledger with the records of earlier names and the ones to be written.
Pending ==
    [d \in Name |-> Target[d] \union
        IF d \in Earlier /\ dns[d] # {} THEN dns[d] ELSE Ledger[d]]

MayList == /\ LedgerVerified /\ Preflight(run.seen)
           /\ \A d \in Earlier : Verified(d, members)

\* Mutant of WriteLedger: only what is to be written is listed.
WriteLedger_target ==
    /\ At("ledger") /\ MayList
    /\ ledger' = Target
    /\ run' = [run EXCEPT !.step = "update", !.names = {d \in Name : Target[d] # {}}]
    /\ late' = {}
    /\ UNCHANGED <<cloud, osName, state, released, plan, removal, inventory, hosts, stops, changes>>

WriteLedger ==
    /\ At("ledger") /\ MayList
    /\ ledger' = Pending
    /\ run' = [run EXCEPT !.step = "update", !.names = {d \in Name : Target[d] # {}}]
    /\ late' = {}
    /\ UNCHANGED <<cloud, osName, state, released, plan, removal, inventory, hosts, stops, changes>>

UpdateOne(d) ==
    /\ At("update") /\ d \in run.names
    /\ dns' = [dns EXCEPT ![d] = Target[d]]
    /\ run' = [run EXCEPT !.names = @ \ {d}]
    /\ UNCHANGED <<kind, members, label, vnic, world, state, files, stops, changes>>

\* Mutant of Obsolete: former names of members are left.
Obsolete_departed == {d \in Listed : Ledger[d] \intersect members = {}}

Obsolete == {d \in Listed : Target[d] = {} /\ d \notin Wanted \intersect Aliases}

Updated ==
    /\ At("update") /\ run.names = {}
    /\ run' = [run EXCEPT !.step = "prune", !.names = Obsolete]
    /\ UNCHANGED <<cloud, world, state, files, stops, changes>>

\* delete_private_dns_a_rrset_if_owned
DeleteOwned(d, expected) ==
    /\ Verified(d, expected)
    /\ dns' = [dns EXCEPT ![d] = {}]

PruneOne(d) ==
    /\ At("prune") /\ d \in run.names
    /\ DeleteOwned(d, Ledger[d])
    /\ run' = [run EXCEPT !.names = @ \ {d}]
    /\ UNCHANGED <<kind, members, label, vnic, world, state, files, stops, changes>>

SettleLedger ==
    /\ At("prune") /\ run.names = {}
    /\ ledger' = Target
    /\ Goto("inventory")
    /\ UNCHANGED <<cloud, world, state, released, plan, removal, inventory, hosts, stops, changes>>

RewriteInventory ==
    /\ At("inventory")
    /\ inventory' = [n \in Node |-> IF n \in members THEN plan.desired[n] ELSE inventory[n]]
    /\ Goto("hosts")
    /\ UNCHANGED <<cloud, world, state, ledger, released, plan, removal, hosts, stops, changes>>

RefreshHosts ==
    /\ At("hosts")
    /\ hosts' = inventory
    /\ Goto("clear")
    /\ UNCHANGED <<cloud, world, state, ledger, released, plan, removal, inventory, stops, changes>>

ClearPlan ==
    /\ At("clear")
    /\ plan' = None
    /\ Exit
    /\ UNCHANGED <<cloud, world, state, ledger, released, removal, inventory, hosts, stops, changes>>

---------------------------------------------------------------------------
\* Removing a node: journal, inventory, then it leaves the pool and its names go;
\* in a Compute Cluster the names go first, and a transfer that is not finished
\* is noticed before anything is changed.
MayRemove(n) ==
    /\ plan = None /\ members # {n} /\ n \in members
    /\ kind = "CC" => released

Remove(n) ==
    /\ At("idle") /\ removal = None /\ MayRemove(n)
    /\ removal' = [node |-> n, names |-> {label[n], inventory[n]}]
    /\ inventory' = [inventory EXCEPT ![n] = None]
    /\ run' = [Idle EXCEPT !.step = IF kind = "CC" THEN "unname" ELSE "leave", !.names = Name]
    /\ UNCHANGED <<cloud, world, state, ledger, released, plan, hosts, stops, changes>>

\* A later run takes up the journal.
ResumeRemoval ==
    /\ At("idle") /\ removal # None
    /\ run' = [Idle EXCEPT !.step = IF kind = "CC" THEN "unname" ELSE "leave", !.names = Name]
    /\ UNCHANGED <<cloud, world, state, files, stops, changes>>

Leave ==
    /\ At("leave")
    /\ members' = members \ {removal.node}
    /\ Goto(IF kind = "CC" THEN "forget" ELSE "unname")
    /\ UNCHANGED <<kind, label, vnic, dns, world, state, files, stops, changes>>

\* The takeover from Terraform must be finished.
MayUnname ==
    /\ released
    /\ \A d \in run.names \intersect (removal.names \union {Slurm(removal.node)}) :
        Verified(d, {removal.node})

UnnameOne(d) ==
    /\ At("unname") /\ MayUnname
    /\ d \in run.names \intersect (removal.names \union {Slurm(removal.node)})
    /\ DeleteOwned(d, {removal.node})
    /\ run' = [run EXCEPT !.names = @ \ {d}]
    /\ UNCHANGED <<kind, members, label, vnic, world, state, files, stops, changes>>

Unnamed ==
    /\ At("unname")
    /\ run.names \intersect (removal.names \union {Slurm(removal.node)}) = {}
    /\ ledger' = IF ledger = None THEN None
                 ELSE [d \in Name |-> IF d \notin run.names /\ ledger[d] = {removal.node}
                                      THEN {} ELSE ledger[d]]
    /\ Goto(IF kind = "CC" THEN "leave" ELSE "forget")
    /\ UNCHANGED <<cloud, world, state, released, plan, removal, inventory, hosts, stops, changes>>

Forget ==
    /\ At("forget")
    /\ removal' = None
    /\ Exit
    /\ UNCHANGED <<cloud, world, state, ledger, released, plan, inventory, hosts, stops, changes>>

---------------------------------------------------------------------------
\* Before the cluster is destroyed: every record of every node goes, as the
\* ledger lists it, or as far as it can be found when there is none.  Slurm
\* aliases in Terraform's state are left to Terraform.
Involved == members \union {n \in Node : inventory[n] # None}
              \union (IF removal = None THEN {} ELSE {removal.node})

\* The nodes that a name is, was or will be the name of.
Bearers(d) ==
    {n \in Node :
        \/ n \in members /\ d = label[n]
        \/ d = inventory[n]
        \/ removal # None /\ removal.node = n /\ d \in removal.names
        \/ plan # None /\ n \in members
             /\ d \in {plan.desired[n], plan.before[n], plan.listed[n]}}

\* Without a ledger: a pool's names may have any of its addresses; those of a
\* Compute Cluster only their own, and Terraform keeps what is in its state.
Found(d) ==
    IF ledger # None \/ Bearers(d) = {} THEN {}
    ELSE IF kind # "CC" THEN Involved
    ELSE IF StateRecords[d] = {} THEN Bearers(d) ELSE {}

StateAliases == {Slurm(n) : n \in Created}

Expected ==
    [d \in Name |->
        IF d \in StateAliases THEN {}
        ELSE IF Ledger[d] # {} THEN Ledger[d]
        ELSE {n \in Involved : d = Slurm(n)} \union Found(d)]

Doomed == {d \in Name : Expected[d] # {}}
MayClean == \A d \in Doomed : Verified(d, Expected[d])

\* A Cluster Network that was never taken over is left to Terraform altogether:
\* should_cleanup_managed_pool_dns.
Unmanaged == kind = "CN" /\ ~gated /\ ledger = None

Clean ==
    /\ At("idle") /\ (Unmanaged \/ MayClean)
    /\ run' = [Idle EXCEPT !.step = IF released THEN "clean" ELSE "transfer",
                           !.names = IF Unmanaged THEN {} ELSE Doomed]
    /\ UNCHANGED <<cloud, world, state, files, stops, changes>>

\* finish_pending_managed_pool_dns_ownership_transfer
Transfer ==
    /\ At("transfer")
    /\ terraform' = {}
    /\ released' = TRUE
    /\ Goto("clean")
    /\ UNCHANGED <<cloud, world, gated, ledger, plan, removal, inventory, hosts, stops, changes>>

CleanOne ==
    /\ At("clean") /\ run.names # {}
    /\ LET d == CHOOSE e \in run.names : TRUE IN
        DeleteOwned(d, Expected[d]) /\ run' = [run EXCEPT !.names = @ \ {d}]
    /\ UNCHANGED <<kind, members, label, vnic, world, state, files, stops, changes>>

\* The ledger goes last; then Terraform destroys what it knows.
Destroy ==
    /\ At("clean") /\ run.names = {}
    /\ ledger' = None /\ terraform' = {} /\ members' = {}
    /\ dns' = [d \in Name |-> IF d \in StateAliases \union {Oci(n) : n \in terraform}
                              THEN {} ELSE dns[d]]
    /\ Goto("destroyed")
    /\ UNCHANGED <<kind, label, vnic, world, gated, released, plan, removal, inventory, hosts,
                   stops, changes>>

---------------------------------------------------------------------------
\* A check fails: the run ends with an error.
Permitted ==
    CASE At("seed") -> terraform = {} \/ MaySeed
      [] At("check") -> MayChange(label)
      [] At("ledger") -> MayList
      [] At("prune") -> \A d \in run.names : Verified(d, Ledger[d])
      [] At("unname") -> MayUnname
      [] At("clean") -> \A d \in run.names : Verified(d, Expected[d])
      [] OTHER -> TRUE

Refuse ==
    /\ ~Permitted
    /\ Exit
    /\ UNCHANGED <<cloud, world, state, files, stops, changes>>

Stop ==
    /\ run.step \notin {"idle", "destroyed"} /\ stops < MaxStops
    /\ stops' = stops + 1
    /\ Exit
    /\ UNCHANGED <<cloud, world, state, files, changes>>

\* The administrator renames a node's operating system, at any time.
ChangeHostname(n, name) ==
    /\ n \in members /\ changes < MaxChanges
    /\ name \in (Host \union {Slurm(m) : m \in Node}) \ {osName[n]}
    /\ osName' = [osName EXCEPT ![n] = name]
    /\ changes' = changes + 1
    /\ UNCHANGED <<cloud, late, state, files, run, stops>>

\* Someone else takes a free name in the zone, at any time.
Take(d) ==
    /\ changes < MaxChanges
    /\ dns[d] = {}
    /\ dns' = [dns EXCEPT ![d] = {Other}]
    /\ late' = late \union {d}
    /\ changes' = changes + 1
    /\ UNCHANGED <<kind, members, label, vnic, osName, state, files, run, stops>>

Work ==
    \/ Seed \/ Release \/ Released \/ Gate \/ Check \/ Renamed \/ WriteLedger \/ Updated
    \/ SettleLedger \/ RewriteInventory \/ RefreshHosts \/ ClearPlan
    \/ Leave \/ Unnamed \/ Forget \/ Transfer \/ CleanOne \/ Destroy \/ Refuse
    \/ \E n \in Node : RenameVnic(n) \/ RenameInstance(n)
    \/ \E d \in Name : UpdateOne(d) \/ PruneOne(d) \/ UnnameOne(d)

Next ==
    \/ Begin \/ ResumeRemoval \/ Clean \/ Work \/ Stop
    \/ \E n \in Node : Remove(n) \/ \E d \in Name : ChangeHostname(n, d)
    \/ \E d \in Host : Take(d)

Spec == Init /\ [][Next]_vars

\* A run goes on until it ends, and an administrator repeats what is pending.
Fairness == WF_vars(Work) /\ SF_vars(Begin) /\ SF_vars(ResumeRemoval)

FairSpec == Spec /\ Fairness

---------------------------------------------------------------------------
\* What others have in the zone is never deleted, and replaced only when they took
\* the name after the last preflight of the run that writes it: update_rr_set is
\* unconditional (resize.py 3574-3626, 3542-3556 and 3811-3827).
ForeignRecordsSurvive ==
    [][\A d \in Name : Other \in dns[d] /\ Other \notin dns'[d] =>
          At("update") /\ d \in run.names \intersect late]_vars

\* Slurm finds every node under its alias, whatever the hostname was, is or
\* becomes: the alias goes with the node or with the cluster, never by renaming.
AliasesSurvive ==
    [][\A n \in members : dns[Slurm(n)] = {n} /\ dns'[Slurm(n)] # {n} =>
          At("clean") \/ (removal # None /\ removal.node = n)]_vars

\* When the cluster is gone no name in the zone leads to one of its addresses,
\* wherever a synchronization, a removal or the takeover had stopped before.  Only
\* a Cluster Network that was never taken over leaves the names of the nodes that
\* resizing added (resize.py 8841-8852 and 5063-5366).
Added == Node \ Created

NothingLeftInDns ==
    [][At("clean") /\ At("destroyed")' =>
          \A d \in Name : dns'[d] \intersect Node # {} =>
              Unmanaged /\ \E n \in Added : d \in {Oci(n), Slurm(n)}]_vars

\* A plan is cleared only when OCI, DNS, the ledger, the inventory and /etc/hosts
\* agree on it, and no other name is left.
Agreed ==
    /\ \A n \in members : plan.desired[n] = label[n] /\ label[n] = vnic[n]
                          /\ label[n] = inventory[n] /\ label[n] = hosts[n]
                          /\ (label[n] # Slurm(n) => dns[label[n]] = {n})
    /\ ledger = Target
    /\ \A d \in Name \ (Wanted \union Aliases) : dns[d] \intersect members = {}
SynchronizedNamesAgree == [][plan # None /\ plan' = None => Agreed]_vars

\* A synchronization that was begun is completed, or a name it needs was taken.
Blocked == \E d \in Name : Other \in dns[d]
PlansEnd == plan # None ~> (plan = None \/ Blocked \/ At("destroyed"))

\* A removal that was begun can be completed.
RemovalsEnd == removal # None ~> (removal = None \/ Blocked \/ At("destroyed"))
=============================================================================
