------------------------ MODULE ComputeNamesProofs ------------------------
(* Proofs about ComputeNames: the names of compute nodes, for any number of  *)
(* nodes, names, stops and changes by others.                               *)
EXTENDS ComputeNames, FiniteSetTheorems, TLAPS

-----------------------------------------------------------------------------
(* A record with the address of a node is covered as long as the              *)
(* cluster is there: some file, Terraform's state or OCI leads a later run to  *)
(* it.  What that takes is said by the parts below, of the steps and files a   *)
(* position implies, of the names each node has, and of what a run has behind  *)
(* it.                                                                         *)

Synchronizing == {"rename", "ledger", "update", "prune", "inventory", "hosts", "clear"}
Step == {"idle", "seed", "release", "released", "gate", "check", "leave", "unname", "forget",
         "transfer", "clean", "destroyed"} \union Synchronizing

Shape ==
    /\ TypeOK
    /\ run \in [step : Step, nodes : SUBSET Node, names : SUBSET Name, seen : [Node -> Name]]

\* Which files are there when a run is at which step.
Files ==
    /\ plan # None => gated /\ released /\ removal = None
    /\ run.step \in Synchronizing => plan # None
    /\ run.step \in {"seed", "release", "released", "gate"} => plan = None
    /\ run.step \in {"seed", "release", "released", "gate", "check"} => removal = None
    /\ run.step = "check" => gated /\ released
    /\ run.step \in {"leave", "unname", "forget"} => removal # None
    /\ run.step \in {"update", "prune", "inventory", "hosts", "clear"} => ledger # None
    /\ run.step = "destroyed" => members = {}

\* Terraform's records: where they are still in its state, where they are listed.
Takeover ==
    /\ gated \/ run.step \in {"released", "gate"} => terraform = {}
    /\ run.step \in {"release", "transfer"} => ~released
    /\ run.step \in {"gate", "clean"} => released
    /\ ~released => ledger # None /\ \A n \in terraform : Ledger[Oci(n)] # {}
    /\ released /\ terraform # {} => ledger = None
    /\ ~gated => \A n \in Node : label[n] = Oci(n)

\* The nodes that stay.
Staying == IF removal = None THEN members ELSE members \ {removal.node}

\* The names that nodes have in OCI and in the inventory.
Named ==
    /\ plan = None => \A n \in Staying : inventory[n] = label[n]
    /\ run.step # "destroyed" => \A n \in Node \ Staying : inventory[n] = None
    /\ removal # None => removal.names = {label[removal.node]}
    /\ plan # None =>
          /\ ValidNames
          /\ \A n \in members : label[n] \in {plan.before[n], plan.desired[n]}
          /\ ledger = None => \A n \in members : inventory[n] = plan.listed[n]

\* Addresses of others are under names that others may choose, and no alias is listed.
Apart ==
    /\ \A d \in Name : Other \in dns[d] => d \in Host
    /\ \A n \in members : Ledger[Slurm(n)] = {}

\* What a synchronization has behind it: names in OCI, records, files.
Renaming ==
    /\ run.step = "rename" =>
          \A n \in members \ run.nodes : label[n] = plan.desired[n] /\ vnic[n] = plan.desired[n]
    /\ run.step \in Synchronizing \ {"rename"} =>
          \A n \in members : label[n] = plan.desired[n] /\ vnic[n] = plan.desired[n]

Updating ==
    /\ run.step = "update" =>
          /\ run.names \subseteq {d \in Name : Target[d] # {}}
          /\ \A d \in run.names : Other \in dns[d] => d \in late
          /\ \A d \in Name \ run.names : Target[d] # {} => dns[d] = Target[d]
    /\ run.step \in {"update", "prune"} => \A d \in Name : Target[d] \subseteq Ledger[d]
    /\ run.step \in {"prune", "inventory", "hosts", "clear"} =>
          \A d \in Name : Target[d] # {} => dns[d] = Target[d]
    /\ run.step = "prune" =>
          /\ run.names \subseteq Obsolete
          /\ \A d \in Obsolete \ run.names : dns[d] \intersect Node = {}

Finishing ==
    /\ run.step \in {"inventory", "hosts", "clear"} => ledger = Target
    /\ run.step \in {"hosts", "clear"} => \A n \in members : inventory[n] = plan.desired[n]
    /\ run.step = "clear" => hosts = inventory

\* What a removal has behind it.
Departure ==
    /\ run.step \in {"leave", "unname"} => \A d \in Name \ run.names : dns[d] \intersect Node = {}
    /\ run.step = "unname" /\ ~released => run.names = Name
    /\ kind # "CC" /\ run.step = "leave" => run.names = Name
    /\ kind # "CC" /\ run.step \in {"unname", "forget"} => removal.node \notin members
    /\ kind = "CC" /\ run.step = "forget" => removal.node \notin members
    /\ run.step = "forget" \/ (kind = "CC" /\ run.step = "leave") =>
          \A d \in removal.names \union {Slurm(removal.node)} : dns[d] \intersect Node = {}

Covered(d) ==
    \/ Ledger[d] # {}
    \/ \E n \in Involved : d = Slurm(n)
    \/ ledger = None /\ Bearers(d) # {}
    \/ released /\ \E n \in terraform : d = Oci(n)

Cover == run.step # "destroyed" => \A d \in Name : dns[d] \intersect Node # {} => Covered(d)

\* A cluster that was never taken over has the records it was made with.
Original ==
    ~gated =>
        /\ ledger = None /\ run.step # "destroyed" => terraform = Created
        /\ \A d \in Name : dns[d] \intersect Node # {} => \E n \in Node : d \in {Oci(n), Slurm(n)}

\* The names that nobody takes away of a Cluster Network that was never taken over.
Abandoned(d) == Unmanaged /\ \E n \in Added : d \in {Oci(n), Slurm(n)}

\* What a cleanup before the destruction has still to take, or leaves to Terraform.
Cleaning ==
    run.step \in {"transfer", "clean"} =>
        \A d \in Name : dns[d] \intersect Node # {} =>
            \/ d \in run.names \union StateAliases
            \/ released /\ \E n \in terraform : d = Oci(n)
            \/ Abandoned(d)

Inv == /\ Shape /\ Files /\ Takeover /\ Named /\ Apart /\ Renaming /\ Updating /\ Finishing
       /\ Departure /\ Cover /\ Original /\ Cleaning

-----------------------------------------------------------------------------
LEMMA Generated ==
    /\ \A n \in Node : Oci(n) \in Name /\ Slurm(n) \in Name
    /\ Host \subseteq Name
    /\ None \notin Name /\ None \notin SyncPlan /\ None \notin RemovalRecord /\ None \notin Ownership
    /\ \A m, n \in Node : /\ Oci(m) # Slurm(n)
                          /\ Oci(m) = Oci(n) => m = n
                          /\ Slurm(m) = Slurm(n) => m = n
  BY NamesDiffer DEF Name, Oci, Slurm

LEMMA IdleIs == Idle \in [step : {"idle"}, nodes : {{}}, names : {{}}, seen : [Node -> Name]]
  BY Generated DEF Idle

LEMMA ShapeInit == Init => Shape
<1> SUFFICES ASSUME Init PROVE Shape
  OBVIOUS
<1>1. osName \in [Node -> Name] /\ label \in [Node -> Name] /\ vnic \in [Node -> Name]
  BY Generated DEF Init
<1>2. dns \in [Name -> SUBSET (Node \union {Other})]
  BY DEF Init
<1>3. inventory \in [Node -> Name \union {None}] /\ hosts \in [Node -> Name \union {None}]
  BY <1>1 DEF Init
<1>4. terraform \subseteq Node
  BY Cluster DEF Init
<1>5. /\ run \in [step : Step, nodes : SUBSET Node, names : SUBSET Name, seen : [Node -> Name]]
      /\ run.nodes \subseteq Node /\ run.names \subseteq Name
  BY IdleIs DEF Init, Step
<1> QED
  BY <1>1, <1>2, <1>3, <1>4, <1>5, Cluster DEF Init, Shape, TypeOK

LEMMA OwnershipIs == ASSUME Shape PROVE Ledger \in Ownership /\ Target \in Ownership
  BY DEF Shape, TypeOK, Ledger, NoRecords, Ownership, Target

LEMMA MigratedIs == ASSUME Shape PROVE [d \in Name |-> Ledger[d] \union Migrated[d]] \in Ownership
<1>1. Migrated \in Ownership
  BY DEF Shape, TypeOK, Migrated, StateRecords, LiveRecords, Ownership
<1> QED
  BY <1>1, OwnershipIs DEF Ownership

LEMMA PendingIs == ASSUME Shape, MayList PROVE Pending \in Ownership
  BY OwnershipIs DEF Shape, TypeOK, MayList, Verified, Pending, Ownership

LEMMA NewPlanIs == ASSUME Shape, plan = None PROVE NewPlan \in SyncPlan
  BY DEF Shape, TypeOK, NewPlan, SyncPlan, Desired

LEMMA SeedShape == ASSUME Shape, Seed PROVE Shape'
<1> USE DEF Shape, TypeOK, At, Goto, cloud, world, state
<1>1. CASE terraform = {}
  BY <1>1 DEF Seed, Step
<1>2. CASE terraform # {}
  <2>1. /\ ledger' = [d \in Name |-> Ledger[d] \union Migrated[d]]
        /\ released' = FALSE /\ run' = [run EXCEPT !.step = "release"]
        /\ UNCHANGED <<cloud, world, state, plan, removal, inventory, hosts, stops, changes>>
    BY <1>2 DEF Seed
  <2>2. ledger' \in Ownership
    BY <2>1, MigratedIs
  <2>3. run' \in [step : Step, nodes : SUBSET Node, names : SUBSET Name, seen : [Node -> Name]]
    BY <2>1 DEF Step
  <2> QED
    BY <2>1, <2>2, <2>3
<1> QED
  BY <1>1, <1>2

LEMMA ShapeNext == Inv /\ [Next]_vars => Shape'
<1> SUFFICES ASSUME Inv, [Next]_vars PROVE Shape'
  OBVIOUS
<1> USE Cluster, Generated DEF Inv, Shape, TypeOK, At, Goto, Exit, cloud, world, state, files
<1>1. CASE Begin
  BY <1>1, IdleIs DEF Begin, Step, Idle
<1>2. CASE ResumeRemoval
  BY <1>2, IdleIs DEF ResumeRemoval, Step, Idle
<1>3. CASE Clean
  BY <1>3, IdleIs DEF Clean, Step, Idle, Doomed
<1>4. CASE Stop
  BY <1>4, IdleIs DEF Stop, Step
<1>5. CASE Refuse
  BY <1>5, IdleIs DEF Refuse, Step
<1>6. CASE Seed
  BY <1>6, SeedShape
<1>7. CASE Release
  BY <1>7 DEF Release, Step
<1>8. CASE Released
  BY <1>8 DEF Released, Step
<1>9. CASE Gate
  BY <1>9 DEF Gate, Step
<1>10. CASE Check
  BY <1>10, NewPlanIs DEF Check, Step, Synchronizing
<1>11. CASE Renamed
  BY <1>11 DEF Renamed, Step, Synchronizing
<1>12. CASE WriteLedger
  BY <1>12, PendingIs DEF WriteLedger, Step, Synchronizing
<1>13. CASE Updated
  BY <1>13 DEF Updated, Step, Synchronizing, Obsolete, Listed
<1>14. CASE SettleLedger
  BY <1>14, OwnershipIs DEF SettleLedger, Step, Synchronizing
<1>15. CASE RewriteInventory
  BY <1>15 DEF RewriteInventory, Step, Synchronizing, Files, SyncPlan
<1>16. CASE RefreshHosts
  BY <1>16 DEF RefreshHosts, Step, Synchronizing
<1>17. CASE ClearPlan
  BY <1>17, IdleIs DEF ClearPlan, Step
<1>18. CASE Leave
  BY <1>18 DEF Leave, Step
<1>19. CASE Unnamed
  <2>1. ledger' \in Ownership \union {None}
    BY <1>19 DEF Unnamed, Ownership
  <2> QED
    BY <1>19, <2>1 DEF Unnamed, Step
<1>20. CASE Forget
  BY <1>20, IdleIs DEF Forget, Step
<1>21. CASE Transfer
  BY <1>21 DEF Transfer, Step
<1>22. CASE CleanOne
  BY <1>22 DEF CleanOne, DeleteOwned
<1>23. CASE Destroy
  BY <1>23 DEF Destroy, Step
<1>24. ASSUME NEW n \in Node, Remove(n) PROVE Shape'
  <2>1. inventory[n] = label[n]
    BY <1>24 DEF Remove, MayRemove, Named, Staying
  <2>2. removal' \in RemovalRecord
    BY <1>24, <2>1 DEF Remove, RemovalRecord
  <2> QED
    BY <1>24, <2>2, IdleIs DEF Remove, Step, Idle
<1>25. ASSUME NEW n \in Node, RenameVnic(n) PROVE Shape'
  BY <1>25 DEF RenameVnic, Files, Synchronizing, SyncPlan
<1>26. ASSUME NEW n \in Node, RenameInstance(n) PROVE Shape'
  BY <1>26 DEF RenameInstance, Files, Synchronizing, SyncPlan
<1>27. ASSUME NEW d \in Name, UpdateOne(d) PROVE Shape'
  BY <1>27, OwnershipIs DEF UpdateOne, Ownership
<1>28. ASSUME NEW d \in Name, PruneOne(d) PROVE Shape'
  BY <1>28 DEF PruneOne, DeleteOwned
<1>29. ASSUME NEW d \in Name, UnnameOne(d) PROVE Shape'
  BY <1>29 DEF UnnameOne, DeleteOwned
<1>30. ASSUME NEW n \in Node, NEW d \in Name, ChangeHostname(n, d) PROVE Shape'
  BY <1>30 DEF ChangeHostname
<1>31. ASSUME NEW d \in Host, Take(d) PROVE Shape'
  BY <1>31 DEF Take
<1>32. CASE UNCHANGED vars
  BY <1>32 DEF vars
<1> QED
  BY <1>1, <1>2, <1>3, <1>4, <1>5, <1>6, <1>7, <1>8, <1>9, <1>10, <1>11, <1>12, <1>13, <1>14, <1>15,
     <1>16, <1>17, <1>18, <1>19, <1>20, <1>21, <1>22, <1>23, <1>24, <1>25, <1>26, <1>27, <1>28, <1>29,
     <1>30, <1>31, <1>32 DEF Next, Work

-----------------------------------------------------------------------------
(* A run begins or ends, or goes from one step to the next.                    *)

\* Only what the run is at changes, and it starts or is over.
Turns == Begin \/ ResumeRemoval \/ Clean \/ Stop \/ Refuse

LEMMA TurnsAre ==
    ASSUME Inv, Turns
    PROVE  /\ UNCHANGED <<cloud, world, state, files>>
           /\ run' \in [step : Step, nodes : SUBSET Node, names : SUBSET Name, seen : [Node -> Name]]
           /\ \/ run'.step = "idle"
              \/ run'.step = "seed" /\ ~TakenOver /\ removal = None
              \/ run'.step = "check" /\ TakenOver /\ removal = None
              \/ run'.step \in {"leave", "unname"} /\ removal # None /\ run'.names = Name
                   /\ (kind # "CC" <=> run'.step = "leave")
              \/ run'.step \in {"clean", "transfer"} /\ (run'.names = Doomed \/ Unmanaged)
                   /\ (released <=> run'.step = "clean")
           /\ run.step # "destroyed"
<1> USE IdleIs, Generated DEF Inv, Shape, TypeOK, At, Exit
<1>1. CASE Begin
  BY <1>1 DEF Begin, Step, Idle
<1>2. CASE ResumeRemoval
  BY <1>2 DEF ResumeRemoval, Step, Idle
<1>3. CASE Clean
  BY <1>3 DEF Clean, Step, Idle, Doomed
<1>4. CASE Stop
  BY <1>4 DEF Stop, Step, files
<1>5. CASE Refuse
  <2>1. run.step # "destroyed"
    BY <1>5 DEF Refuse, Permitted
  <2> QED
    BY <1>5, <2>1 DEF Refuse, Step
<1> QED
  BY <1>1, <1>2, <1>3, <1>4, <1>5 DEF Turns

LEMMA FilesNext == Inv /\ [Next]_vars => Files'
<1> SUFFICES ASSUME Inv, [Next]_vars PROVE Files'
  OBVIOUS
<1> USE DEF Inv, Shape, Step, Synchronizing, Files, At, Goto, Exit, Idle, cloud, world, state, files
<1>1. CASE Turns
  BY <1>1, TurnsAre DEF TakenOver, Takeover
<1>2. CASE Seed
  BY <1>2 DEF Seed
<1>3. CASE Release \/ Released \/ Gate
  BY <1>3 DEF Release, Released, Gate, Takeover
<1>4. CASE Check
  BY <1>4, NewPlanIs, Generated DEF Check
<1>5. CASE Renamed
  BY <1>5 DEF Renamed
<1>6. CASE WriteLedger
  <2>1. /\ MayList /\ ledger' = Pending /\ run.step = "ledger" /\ run'.step = "update"
        /\ run'.names = {d \in Name : Target[d] # {}}
        /\ UNCHANGED <<cloud, osName, state, released, plan, removal, inventory, hosts>>
    BY <1>6 DEF WriteLedger
  <2>2. ledger' \in Ownership /\ ledger' # None
    BY <2>1, PendingIs, Generated
  <2> QED
    BY <2>1, <2>2
<1>7. CASE Updated
  BY <1>7 DEF Updated
<1>8. CASE SettleLedger
  <2>1. /\ ledger' = Target /\ run.step = "prune" /\ run'.step = "inventory"
        /\ UNCHANGED <<cloud, world, state, released, plan, removal, inventory, hosts>>
    BY <1>8 DEF SettleLedger
  <2>2. ledger' \in Ownership /\ ledger' # None
    BY <2>1, OwnershipIs, Generated
  <2> QED
    BY <2>1, <2>2
<1>9. CASE RewriteInventory \/ RefreshHosts \/ ClearPlan
  BY <1>9 DEF RewriteInventory, RefreshHosts, ClearPlan
<1>10. CASE Leave \/ Unnamed \/ Forget
  BY <1>10 DEF Leave, Unnamed, Forget
<1>11. CASE Transfer \/ CleanOne \/ Destroy
  BY <1>11 DEF Transfer, CleanOne, Destroy, Takeover
<1>12. ASSUME NEW n \in Node, Remove(n) PROVE Files'
  <2>1. inventory[n] = label[n]
    BY <1>12 DEF Remove, MayRemove, Named, Staying
  <2>2. removal' \in RemovalRecord
    BY <1>12, <2>1 DEF Remove, RemovalRecord, TypeOK
  <2> QED
    BY <1>12, <2>2, Generated DEF Remove, MayRemove
<1>13. ASSUME NEW n \in Node, RenameVnic(n) \/ RenameInstance(n) PROVE Files'
  BY <1>13 DEF RenameVnic, RenameInstance
<1>14. ASSUME NEW d \in Name, UpdateOne(d) \/ PruneOne(d) \/ UnnameOne(d) PROVE Files'
  BY <1>14 DEF UpdateOne, PruneOne, UnnameOne
<1>15. ASSUME NEW n \in Node, NEW d \in Name, ChangeHostname(n, d) PROVE Files'
  BY <1>15 DEF ChangeHostname
<1>16. ASSUME NEW d \in Host, Take(d) PROVE Files'
  BY <1>16 DEF Take
<1>17. CASE UNCHANGED vars
  BY <1>17 DEF vars
<1> QED
  BY <1>1, <1>2, <1>3, <1>4, <1>5, <1>6, <1>7, <1>8, <1>9, <1>10, <1>11, <1>12, <1>13, <1>14, <1>15,
     <1>16, <1>17 DEF Next, Work, Turns

LEMMA TakeoverNext == Inv /\ [Next]_vars => Takeover'
<1> SUFFICES ASSUME Inv, [Next]_vars PROVE Takeover'
  OBVIOUS
<1> USE DEF Inv, Shape, Step, Synchronizing, Takeover, Ledger, At, Goto, Exit, Idle, cloud, world, state, files
<1>1. CASE Turns
  BY <1>1, TurnsAre DEF TakenOver
<1>2. CASE Seed
  <2>1. CASE terraform = {}
    BY <1>2, <2>1 DEF Seed
  <2>2. CASE terraform # {}
    <3>1. ledger' = [d \in Name |-> Ledger[d] \union Migrated[d]]
      BY <1>2, <2>2 DEF Seed
    <3>2. \A n \in terraform : Oci(n) \in Name /\ n \in Migrated[Oci(n)]
      BY Generated DEF Migrated, StateRecords, TypeOK
    <3>3. ledger' # None /\ \A n \in terraform : ledger'[Oci(n)] # {}
      BY <3>1, <3>2, MigratedIs, Generated
    <3> QED
      BY <1>2, <2>2, <3>3 DEF Seed
  <2> QED
    BY <2>1, <2>2
<1>3. CASE Release \/ Released \/ Gate
  BY <1>3 DEF Release, Released, Gate
<1>4. CASE Check
  BY <1>4 DEF Check
<1>5. CASE Renamed \/ WriteLedger
  BY <1>5 DEF Renamed, WriteLedger, Files
<1>6. CASE Updated \/ SettleLedger \/ RewriteInventory \/ RefreshHosts \/ ClearPlan
  <2>1. gated /\ released
    BY <1>6 DEF Updated, SettleLedger, RewriteInventory, RefreshHosts, ClearPlan, Files
  <2>2. CASE Updated \/ SettleLedger
    BY <2>1, <2>2 DEF Updated, SettleLedger
  <2>3. CASE RewriteInventory
    BY <2>1, <2>3 DEF RewriteInventory
  <2>4. CASE RefreshHosts
    BY <2>1, <2>4 DEF RefreshHosts
  <2>5. CASE ClearPlan
    BY <2>1, <2>5 DEF ClearPlan
  <2> QED
    BY <1>6, <2>2, <2>3, <2>4, <2>5
<1>7. CASE Leave \/ Forget
  BY <1>7 DEF Leave, Forget
<1>8. CASE Unnamed
  <2>1. released
    BY <1>8, Generated DEF Unnamed, Departure, Files, TypeOK, RemovalRecord
  <2> QED
    BY <1>8, <2>1 DEF Unnamed
<1>9. CASE Transfer \/ CleanOne \/ Destroy
  BY <1>9 DEF Transfer, CleanOne, Destroy
<1>10. ASSUME NEW n \in Node, Remove(n) PROVE Takeover'
  BY <1>10 DEF Remove, MayRemove
<1>11. ASSUME NEW n \in Node, RenameVnic(n) \/ RenameInstance(n) PROVE Takeover'
  BY <1>11 DEF RenameVnic, RenameInstance, Files
<1>12. ASSUME NEW d \in Name, UpdateOne(d) \/ PruneOne(d) \/ UnnameOne(d) PROVE Takeover'
  BY <1>12 DEF UpdateOne, PruneOne, UnnameOne
<1>13. ASSUME NEW n \in Node, NEW d \in Name, ChangeHostname(n, d) PROVE Takeover'
  BY <1>13 DEF ChangeHostname
<1>14. ASSUME NEW d \in Host, Take(d) PROVE Takeover'
  BY <1>14 DEF Take
<1>15. CASE UNCHANGED vars
  BY <1>15 DEF vars
<1> QED
  BY <1>1, <1>2, <1>3, <1>4, <1>5, <1>6, <1>7, <1>8, <1>9, <1>10, <1>11, <1>12, <1>13, <1>14, <1>15
  DEF Next, Work, Turns

LEMMA NamedNext == Inv /\ [Next]_vars => Named'
<1> SUFFICES ASSUME Inv, [Next]_vars PROVE Named'
  OBVIOUS
<1> USE Generated DEF Inv, Shape, TypeOK, Named, Staying, ValidNames, Distinct, Desired,
                      At, Goto, cloud, world, state, files
<1>1. CASE Turns
  BY <1>1, TurnsAre
<1>2. CASE Seed
  BY <1>2 DEF Seed, Files
<1>3. CASE Release \/ Released \/ Gate
  BY <1>3 DEF Release, Released, Gate
<1>4. CASE Check
  <2>1. CASE plan # None
    BY <1>4, <2>1 DEF Check
  <2>2. CASE plan = None
    <3>1. plan' = NewPlan /\ removal = None
      BY <1>4, <2>2 DEF Check, Files
    <3>2. plan'.desired = osName /\ plan'.before = label /\ plan'.listed = inventory
      BY <3>1, <2>2 DEF NewPlan
    <3> QED
      BY <1>4, <2>2, <3>1, <3>2 DEF Check, MayChange, MayName
  <2> QED
    BY <2>1, <2>2
<1>5. CASE Renamed \/ WriteLedger
  BY <1>5, PendingIs DEF Renamed, WriteLedger
<1>6. CASE Updated \/ SettleLedger
  BY <1>6, OwnershipIs DEF Updated, SettleLedger
<1>7. CASE RewriteInventory
  <2>1. plan # None /\ removal = None /\ ledger # None
    BY <1>7 DEF RewriteInventory, Files, Synchronizing
  <2> QED
    BY <1>7, <2>1 DEF RewriteInventory
<1>8. CASE RefreshHosts
  BY <1>8 DEF RefreshHosts
<1>9. CASE ClearPlan
  <2>1. \A n \in members : inventory[n] = plan.desired[n] /\ label[n] = plan.desired[n]
    BY <1>9 DEF ClearPlan, Renaming, Finishing, Synchronizing
  <2>2. removal = None
    BY <1>9 DEF ClearPlan, Files, Synchronizing
  <2> QED
    BY <1>9, <2>1, <2>2 DEF ClearPlan, Exit, Idle
<1>10. CASE Leave
  <2>1. removal # None /\ plan = None
    BY <1>10 DEF Leave, Files
  <2> QED
    BY <1>10, <2>1 DEF Leave
<1>11. CASE Unnamed
  BY <1>11 DEF Unnamed, Files
<1>12. CASE Forget
  <2>1. removal # None /\ plan = None /\ removal.node \notin members
    BY <1>12 DEF Forget, Files, Departure
  <2> QED
    BY <1>12, <2>1 DEF Forget, Exit, Idle
<1>13. CASE Transfer \/ CleanOne \/ Destroy
  BY <1>13 DEF Transfer, CleanOne, Destroy
<1>14. ASSUME NEW n \in Node, Remove(n) PROVE Named'
  <2>1. inventory[n] = label[n]
    BY <1>14 DEF Remove, MayRemove
  <2>2. removal' = [node |-> n, names |-> {label[n], inventory[n]}] /\ removal' \in RemovalRecord
    BY <1>14, <2>1 DEF Remove, RemovalRecord
  <2>a. UNCHANGED <<plan, label, members>> /\ plan = None
    BY <1>14 DEF Remove, MayRemove
  <2>b. removal' # None
    BY <2>2
  <2>3. plan' = None /\ removal' # None /\ Staying' = members \ {n} /\ label' = label
    BY <2>2, <2>a, <2>b
  <2>4. \A m \in Node : inventory'[m] = IF m = n THEN None ELSE inventory[m]
    BY <1>14 DEF Remove
  <2>5. \A m \in members : inventory[m] = label[m]
    BY <1>14 DEF Remove, MayRemove
  <2>6. \A m \in Node \ members : inventory[m] = None
    BY <1>14 DEF Remove
  <2>7. \A m \in Staying' : inventory'[m] = label'[m]
    BY <2>3, <2>4, <2>5
  <2>8. \A m \in Node \ Staying' : inventory'[m] = None
    BY <2>3, <2>4, <2>6
  <2>9. removal'.names = {label'[removal'.node]}
    BY <2>1, <2>2, <2>3
  <2> QED
    BY <2>3, <2>7, <2>8, <2>9
<1>15. ASSUME NEW n \in Node, RenameVnic(n) PROVE Named'
  BY <1>15 DEF RenameVnic
<1>16. ASSUME NEW n \in Node, RenameInstance(n) PROVE Named'
  <2>1. plan # None /\ removal = None
    BY <1>16 DEF RenameInstance, Files, Synchronizing
  <2> QED
    BY <1>16, <2>1 DEF RenameInstance
<1>17. ASSUME NEW d \in Name, UpdateOne(d) \/ PruneOne(d) \/ UnnameOne(d) PROVE Named'
  BY <1>17 DEF UpdateOne, PruneOne, UnnameOne
<1>18. ASSUME NEW n \in Node, NEW d \in Name, ChangeHostname(n, d) PROVE Named'
  BY <1>18 DEF ChangeHostname
<1>19. ASSUME NEW d \in Host, Take(d) PROVE Named'
  BY <1>19 DEF Take
<1>20. CASE UNCHANGED vars
  BY <1>20 DEF vars
<1> QED
  BY <1>1, <1>2, <1>3, <1>4, <1>5, <1>6, <1>7, <1>8, <1>9, <1>10, <1>11, <1>12, <1>13, <1>14, <1>15,
     <1>16, <1>17, <1>18, <1>19, <1>20 DEF Next, Work, Turns

\* With a plan that no node may take the alias of another in, none is the target
\* of one.
LEMMA AliasIsNoTarget ==
    ASSUME Shape, plan # None, ValidNames, NEW n \in members
    PROVE  Target[Slurm(n)] = {}
  BY Generated DEF Shape, TypeOK, ValidNames, Desired, Target

LEMMA ApartNext == Inv /\ [Next]_vars => Apart'
<1> SUFFICES ASSUME Inv, [Next]_vars PROVE Apart'
  OBVIOUS
<1> USE Cluster, Generated DEF Inv, Shape, TypeOK, Apart, Ledger, NoRecords, At, Goto, cloud, world, state, files
<1>1. CASE Turns
  BY <1>1, TurnsAre
<1>2. CASE Seed
  <2>1. CASE terraform = {}
    BY <1>2, <2>1 DEF Seed
  <2>2. CASE terraform # {}
    <3>1. ledger' = [d \in Name |-> Ledger[d] \union Migrated[d]]
      BY <1>2, <2>2 DEF Seed
    <3>2. \A n \in members : Migrated[Slurm(n)] = {}
      BY <2>2 DEF Migrated, StateRecords, LiveRecords, Takeover
    <3>3. \A n \in members : ledger'[Slurm(n)] = {}
      BY <3>1, <3>2
    <3>4. UNCHANGED <<dns, members>> /\ ledger' # None
      BY <1>2, <2>2, MigratedIs DEF Seed
    <3> QED
      BY <3>3, <3>4
  <2> QED
    BY <2>1, <2>2
<1>3. CASE Release \/ Released \/ Gate \/ Renamed
  BY <1>3 DEF Release, Released, Gate, Renamed
<1>4. CASE Check
  BY <1>4 DEF Check
<1>5. CASE WriteLedger
  <2>1. plan # None
    BY <1>5 DEF WriteLedger, Files, Synchronizing
  <2>2. \A n \in members : Slurm(n) \notin Earlier
    BY DEF Earlier, Aliases
  <2>3. \A n \in members : Target[Slurm(n)] = {}
    BY <2>1, AliasIsNoTarget DEF Named
  <2>4. \A n \in members : Pending[Slurm(n)] = {}
    BY <2>2, <2>3 DEF Pending
  <2> QED
    BY <1>5, <2>4, PendingIs DEF WriteLedger
<1>6. CASE Updated
  BY <1>6 DEF Updated
<1>7. CASE SettleLedger
  <2>1. plan # None
    BY <1>7 DEF SettleLedger, Files, Synchronizing
  <2>2. \A n \in members : Target[Slurm(n)] = {}
    BY <2>1, AliasIsNoTarget DEF Named
  <2> QED
    BY <1>7, <2>2, OwnershipIs DEF SettleLedger
<1>8. CASE RewriteInventory \/ RefreshHosts \/ ClearPlan
  BY <1>8 DEF RewriteInventory, RefreshHosts, ClearPlan
<1>9. CASE Leave \/ Forget
  BY <1>9 DEF Leave, Forget
<1>10. CASE Unnamed
  BY <1>10 DEF Unnamed
<1>11. CASE Transfer \/ Destroy
  <2>1. CASE Transfer
    BY <2>1 DEF Transfer
  <2>2. CASE Destroy
    BY <2>2 DEF Destroy
  <2> QED
    BY <1>11, <2>1, <2>2
<1>12. CASE CleanOne
  BY <1>12 DEF CleanOne, DeleteOwned
<1>13. ASSUME NEW n \in Node, Remove(n) PROVE Apart'
  BY <1>13 DEF Remove
<1>14. ASSUME NEW n \in Node, RenameVnic(n) \/ RenameInstance(n) PROVE Apart'
  BY <1>14 DEF RenameVnic, RenameInstance
<1>15. ASSUME NEW d \in Name, UpdateOne(d) PROVE Apart'
  BY <1>15 DEF UpdateOne, Target
<1>16. ASSUME NEW d \in Name, PruneOne(d) \/ UnnameOne(d) PROVE Apart'
  <2>1. CASE PruneOne(d)
    BY <2>1 DEF PruneOne, DeleteOwned
  <2>2. CASE UnnameOne(d)
    BY <2>2 DEF UnnameOne, DeleteOwned
  <2> QED
    BY <1>16, <2>1, <2>2
<1>17. ASSUME NEW n \in Node, NEW d \in Name, ChangeHostname(n, d) PROVE Apart'
  BY <1>17 DEF ChangeHostname
<1>18. ASSUME NEW d \in Host, Take(d) PROVE Apart'
  BY <1>18 DEF Take
<1>19. CASE UNCHANGED vars
  BY <1>19 DEF vars
<1> QED
  BY <1>1, <1>2, <1>3, <1>4, <1>5, <1>6, <1>7, <1>8, <1>9, <1>10, <1>11, <1>12, <1>13, <1>14, <1>15,
     <1>16, <1>17, <1>18, <1>19 DEF Next, Work, Turns

\* What a plan asks for stays while the plan and the members do.
LEMMA SameTarget ==
    ASSUME plan # None, UNCHANGED <<plan, members>>
    PROVE  Target' = Target /\ Wanted' = Wanted /\ Aliases' = Aliases
  BY DEF Target, Wanted, Aliases, Desired

LEMMA RenamingNext == Inv /\ [Next]_vars => Renaming'
<1> SUFFICES ASSUME Inv, [Next]_vars PROVE Renaming'
  OBVIOUS
<1> USE DEF Inv, Shape, TypeOK, Renaming, Synchronizing, At, Goto, Exit, Idle, cloud, world, state, files
<1>1. CASE Turns
  BY <1>1, TurnsAre
<1>2. CASE Seed
  BY <1>2 DEF Seed
<1>3. CASE Release \/ Released \/ Gate
  BY <1>3 DEF Release, Released, Gate
<1>4. CASE Check
  <2>1. run'.step = "rename" /\ members' \ run'.nodes = {}
    BY <1>4 DEF Check
  <2> QED
    BY <2>1
<1>5. CASE Renamed
  BY <1>5 DEF Renamed
<1>6. CASE WriteLedger \/ Updated \/ SettleLedger
  BY <1>6 DEF WriteLedger, Updated, SettleLedger
<1>7. CASE RewriteInventory \/ RefreshHosts \/ ClearPlan
  BY <1>7 DEF RewriteInventory, RefreshHosts, ClearPlan
<1>8. CASE Leave \/ Unnamed \/ Forget
  BY <1>8 DEF Leave, Unnamed, Forget
<1>9. CASE Transfer \/ CleanOne \/ Destroy
  BY <1>9 DEF Transfer, CleanOne, Destroy
<1>10. ASSUME NEW n \in Node, Remove(n) PROVE Renaming'
  BY <1>10 DEF Remove
<1>11. ASSUME NEW n \in Node, RenameVnic(n) PROVE Renaming'
  BY <1>11 DEF RenameVnic
<1>12. ASSUME NEW n \in Node, RenameInstance(n) PROVE Renaming'
  BY <1>12 DEF RenameInstance
<1>13. ASSUME NEW d \in Name, UpdateOne(d) \/ PruneOne(d) \/ UnnameOne(d) PROVE Renaming'
  BY <1>13 DEF UpdateOne, PruneOne, UnnameOne
<1>14. ASSUME NEW n \in Node, NEW d \in Name, ChangeHostname(n, d) PROVE Renaming'
  BY <1>14 DEF ChangeHostname
<1>15. ASSUME NEW d \in Host, Take(d) PROVE Renaming'
  BY <1>15 DEF Take
<1>16. CASE UNCHANGED vars
  BY <1>16 DEF vars
<1> QED
  BY <1>1, <1>2, <1>3, <1>4, <1>5, <1>6, <1>7, <1>8, <1>9, <1>10, <1>11, <1>12, <1>13, <1>14, <1>15,
     <1>16 DEF Next, Work, Turns

\* Steps that leave the plan, the records, the ledger and the run alone keep
\* what is said of them.
LEMMA UpdatingStays ==
    ASSUME Inv, UNCHANGED <<plan, members, dns, ledger, run, late>>
    PROVE  Updating'
<1>1. CASE plan # None
  <2>1. Obsolete' = Obsolete /\ Ledger' = Ledger
    BY <1>1, SameTarget DEF Obsolete, Listed, Ledger, NoRecords
  <2> QED
    BY <1>1, <2>1, SameTarget DEF Inv, Updating
<1>2. CASE plan = None
  BY <1>2 DEF Inv, Files, Synchronizing, Updating
<1> QED
  BY <1>1, <1>2

LEMMA UpdatingNext == Inv /\ [Next]_vars => Updating'
<1> SUFFICES ASSUME Inv, [Next]_vars PROVE Updating'
  OBVIOUS
<1> USE DEF At, Goto, Exit, Idle, cloud, world, state, files
<1>s. Shape /\ Updating /\ (run.step \in Synchronizing => plan # None)
  BY DEF Inv, Files
<1>n. ASSUME run'.step \notin {"update", "prune", "inventory", "hosts", "clear"} PROVE Updating'
  BY <1>n DEF Updating
<1>1. CASE Turns
  BY <1>1, <1>n, TurnsAre
<1>2. CASE Seed \/ Release \/ Released \/ Gate \/ Check \/ Renamed
  BY <1>2, <1>s, <1>n DEF Seed, Release, Released, Gate, Check, Renamed, Shape
<1>3. CASE WriteLedger
  <2>1. plan # None /\ UNCHANGED <<plan, members, dns>> /\ run'.step = "update" /\ late' = {}
        /\ run'.names = {d \in Name : Target[d] # {}} /\ ledger' = Pending
    BY <1>3, <1>s DEF WriteLedger, Synchronizing, Shape
  <2>2. Target' = Target
    BY <2>1, SameTarget
  <2>3. \A d \in run'.names : Other \notin dns'[d]
    <3> SUFFICES ASSUME NEW d \in Name, Target[d] # {} PROVE Other \notin dns[d]
      BY <2>1
    <3>1. PICK n \in members : Desired[n] = d
      BY DEF Target
    <3>2. dns[d] \in {{}, {n}} \/ Verified(d, members)
      BY <1>3, <3>1 DEF WriteLedger, MayList, Preflight
    <3> QED
      BY <3>1, <3>2, <1>s, Cluster DEF Verified, Shape, TypeOK
  <2>4. \A d \in Name : Target[d] \subseteq Ledger'[d]
    <3>1. ledger' # None
      BY <1>3, <2>1, <1>s, PendingIs, Generated DEF WriteLedger
    <3>2. Ledger' = Pending
      BY <2>1, <3>1 DEF Ledger
    <3> QED
      BY <3>2 DEF Pending
  <2> QED
    BY <2>1, <2>2, <2>3, <2>4 DEF Updating
<1>4. CASE Updated
  <2>1. plan # None /\ UNCHANGED <<plan, members, dns, ledger>> /\ run.step = "update" /\ run.names = {}
        /\ run'.step = "prune" /\ run'.names = Obsolete
    BY <1>4, <1>s DEF Updated, Synchronizing, Shape
  <2>2. Obsolete' = Obsolete /\ Ledger' = Ledger
    BY <2>1, SameTarget DEF Obsolete, Listed, Ledger, NoRecords
  <2> QED
    BY <2>1, <2>2, <1>s, SameTarget DEF Updating
<1>5. CASE SettleLedger
  <2>1. plan # None /\ UNCHANGED <<plan, members, dns>> /\ run.step = "prune" /\ run'.step = "inventory"
    BY <1>5, <1>s DEF SettleLedger, Synchronizing, Shape
  <2> QED
    BY <2>1, <1>s, SameTarget DEF Updating
<1>6. CASE RewriteInventory \/ RefreshHosts
  <2>1. plan # None /\ UNCHANGED <<plan, members, dns>> /\ run.step \in {"inventory", "hosts"}
        /\ run'.step \in {"hosts", "clear"}
    BY <1>6, <1>s DEF RewriteInventory, RefreshHosts, Synchronizing, Shape
  <2> QED
    BY <2>1, <1>s, SameTarget DEF Updating
<1>7. CASE ClearPlan \/ Leave \/ Unnamed \/ Forget
  BY <1>7, <1>s, <1>n DEF ClearPlan, Leave, Unnamed, Forget, Shape
<1>8. CASE Transfer \/ CleanOne \/ Destroy
  BY <1>8, <1>s, <1>n DEF Transfer, CleanOne, Destroy, Shape
<1>9. ASSUME NEW n \in Node, Remove(n) PROVE Updating'
  BY <1>9, <1>s, <1>n DEF Remove, Shape
<1>10. ASSUME NEW n \in Node, RenameVnic(n) \/ RenameInstance(n) PROVE Updating'
  BY <1>10, <1>s, <1>n DEF RenameVnic, RenameInstance, Shape
<1>11. ASSUME NEW d \in Name, UpdateOne(d) PROVE Updating'
  <2>1. /\ plan # None /\ UNCHANGED <<plan, members, ledger>>
        /\ run.step = "update" /\ d \in run.names
        /\ run'.step = "update" /\ run'.names = run.names \ {d} /\ late' = late
        /\ dns' = [dns EXCEPT ![d] = Target[d]]
    BY <1>11, <1>s DEF UpdateOne, Synchronizing, Shape
  <2>2. Target' = Target /\ Ledger' = Ledger
    BY <2>1, SameTarget DEF Ledger, NoRecords
  <2>3. \A e \in Name : dns'[e] = IF e = d THEN Target[d] ELSE dns[e]
    BY <2>1, <1>s DEF Shape, TypeOK
  <2>4. run.names \subseteq Name
    BY <1>s DEF Shape, TypeOK
  <2> QED
    BY <2>1, <2>2, <2>3, <2>4, <1>s DEF Updating
<1>12. ASSUME NEW d \in Name, PruneOne(d) PROVE Updating'
  <2>1. /\ plan # None /\ UNCHANGED <<plan, members, ledger>>
        /\ run.step = "prune" /\ d \in run.names
        /\ run'.step = "prune" /\ run'.names = run.names \ {d}
        /\ dns' = [dns EXCEPT ![d] = {}]
    BY <1>12, <1>s DEF PruneOne, DeleteOwned, Synchronizing, Shape
  <2>2. Target' = Target /\ Ledger' = Ledger /\ Obsolete' = Obsolete
    BY <2>1, SameTarget DEF Ledger, NoRecords, Obsolete, Listed
  <2>3. \A e \in Name : dns'[e] = IF e = d THEN {} ELSE dns[e]
    BY <2>1, <1>s DEF Shape, TypeOK
  <2>4. Target[d] = {} /\ Obsolete \subseteq Name
    BY <2>1, <1>s DEF Updating, Obsolete, Listed
  <2> QED
    BY <2>1, <2>2, <2>3, <2>4, <1>s DEF Updating
<1>13. ASSUME NEW d \in Name, UnnameOne(d) PROVE Updating'
  BY <1>13, <1>s, <1>n DEF UnnameOne, Shape
<1>14. ASSUME NEW n \in Node, NEW d \in Name, ChangeHostname(n, d) PROVE Updating'
  BY <1>14, UpdatingStays DEF ChangeHostname
<1>15. ASSUME NEW d \in Host, Take(d) PROVE Updating'
  <2>1. /\ dns[d] = {} /\ dns' = [dns EXCEPT ![d] = {Other}] /\ late' = late \union {d}
        /\ UNCHANGED <<plan, members, ledger, run>> /\ d \in Name
    BY <1>15, Generated DEF Take
  <2>2. \A e \in Name : dns'[e] = IF e = d THEN {Other} ELSE dns[e]
    BY <2>1, <1>s DEF Shape, TypeOK
  <2>3. CASE run.step \in {"update", "prune", "inventory", "hosts", "clear"}
    <3>1. plan # None
      BY <1>s, <2>3 DEF Synchronizing
    <3>2. Target' = Target /\ Ledger' = Ledger /\ Obsolete' = Obsolete
      BY <2>1, <3>1, SameTarget DEF Ledger, NoRecords, Obsolete, Listed
    <3>3. Obsolete \subseteq Name /\ run.names \subseteq Name
      BY <1>s DEF Obsolete, Listed, Shape, TypeOK
    <3> QED
      BY <2>1, <2>2, <2>3, <3>2, <3>3, <1>s, Cluster DEF Updating
  <2> QED
    BY <2>1, <2>3, <1>n
<1>16. CASE UNCHANGED vars
  BY <1>16, UpdatingStays DEF vars
<1> QED
  BY <1>1, <1>2, <1>3, <1>4, <1>5, <1>6, <1>7, <1>8, <1>9, <1>10, <1>11, <1>12, <1>13, <1>14, <1>15,
     <1>16 DEF Next, Work, Turns

LEMMA FinishingNext == Inv /\ [Next]_vars => Finishing'
<1> SUFFICES ASSUME Inv, [Next]_vars PROVE Finishing'
  OBVIOUS
<1> USE DEF At, Goto, Exit, Idle, cloud, world, state, files
<1>s. Shape /\ Finishing /\ (run.step \in Synchronizing => plan # None)
  BY DEF Inv, Files
<1>n. ASSUME run'.step \notin {"inventory", "hosts", "clear"} PROVE Finishing'
  BY <1>n DEF Finishing
<1>t. ASSUME UNCHANGED <<plan, members, ledger, inventory, hosts, run>> PROVE Finishing'
  <2>1. CASE run.step \in Synchronizing
    BY <1>s, <1>t, <2>1, SameTarget DEF Finishing
  <2>2. CASE run.step \notin Synchronizing
    BY <1>t, <1>n, <2>2 DEF Synchronizing
  <2> QED
    BY <2>1, <2>2
<1>1. CASE Turns
  BY <1>1, <1>n, TurnsAre
<1>2. CASE Seed \/ Release \/ Released \/ Gate \/ Check \/ Renamed
  BY <1>2, <1>s, <1>n DEF Seed, Release, Released, Gate, Check, Renamed, Shape
<1>3. CASE WriteLedger \/ Updated
  BY <1>3, <1>s, <1>n DEF WriteLedger, Updated, Shape
<1>4. CASE SettleLedger
  <2>1. plan # None /\ UNCHANGED <<plan, members>> /\ run'.step = "inventory" /\ ledger' = Target
    BY <1>4, <1>s DEF SettleLedger, Synchronizing, Shape
  <2> QED
    BY <2>1, SameTarget DEF Finishing
<1>5. CASE RewriteInventory
  <2>1. plan # None /\ UNCHANGED <<plan, members, ledger>> /\ run.step = "inventory"
        /\ run'.step = "hosts" /\ members \subseteq Node
        /\ inventory' = [n \in Node |-> IF n \in members THEN plan.desired[n] ELSE inventory[n]]
    BY <1>5, <1>s DEF RewriteInventory, Synchronizing, Shape, TypeOK
  <2> QED
    BY <2>1, <1>s, SameTarget DEF Finishing
<1>6. CASE RefreshHosts
  <2>1. plan # None /\ UNCHANGED <<plan, members, ledger, inventory>> /\ run.step = "hosts"
        /\ run'.step = "clear" /\ hosts' = inventory
    BY <1>6, <1>s DEF RefreshHosts, Synchronizing, Shape
  <2> QED
    BY <2>1, <1>s, SameTarget DEF Finishing
<1>7. CASE ClearPlan \/ Leave \/ Unnamed \/ Forget
  BY <1>7, <1>s, <1>n DEF ClearPlan, Leave, Unnamed, Forget, Shape
<1>8. CASE Transfer \/ CleanOne \/ Destroy
  BY <1>8, <1>s, <1>n DEF Transfer, CleanOne, Destroy, Shape
<1>9. ASSUME NEW n \in Node, Remove(n) PROVE Finishing'
  BY <1>9, <1>s, <1>n DEF Remove, Shape
<1>10. ASSUME NEW n \in Node, RenameVnic(n) \/ RenameInstance(n) PROVE Finishing'
  BY <1>10, <1>s, <1>n DEF RenameVnic, RenameInstance, Shape
<1>11. ASSUME NEW d \in Name, UpdateOne(d) \/ PruneOne(d) \/ UnnameOne(d) PROVE Finishing'
  BY <1>11, <1>s, <1>n DEF UpdateOne, PruneOne, UnnameOne, Shape
<1>12. ASSUME NEW n \in Node, NEW d \in Name, ChangeHostname(n, d) PROVE Finishing'
  BY <1>12, <1>t DEF ChangeHostname
<1>13. ASSUME NEW d \in Host, Take(d) PROVE Finishing'
  BY <1>13, <1>t DEF Take
<1>14. CASE UNCHANGED vars
  BY <1>14, <1>t DEF vars
<1> QED
  BY <1>1, <1>2, <1>3, <1>4, <1>5, <1>6, <1>7, <1>8, <1>9, <1>10, <1>11, <1>12, <1>13, <1>14
  DEF Next, Work, Turns

LEMMA DepartureNext == Inv /\ [Next]_vars => Departure'
<1> SUFFICES ASSUME Inv, [Next]_vars PROVE Departure'
  OBVIOUS
<1> USE DEF At, Goto, Exit, Idle, cloud, world, state, files
<1>s. Shape /\ Departure /\ kind \in {"IP", "CN", "CC"}
  BY DEF Inv, Shape, TypeOK
<1>n. ASSUME run'.step \notin {"leave", "unname", "forget"} PROVE Departure'
  BY <1>n DEF Departure
<1>t. ASSUME UNCHANGED <<kind, members, released, removal, run>>,
             \A d \in Name : dns'[d] \intersect Node # {} => dns[d] \intersect Node # {}
      PROVE  Departure'
  <2>1. removal # None => removal.names \union {Slurm(removal.node)} \subseteq Name
    BY Generated, <1>s DEF Shape, TypeOK, RemovalRecord
  <2>2. run.step \in {"leave", "forget"} => removal # None
    BY DEF Inv, Files
  <2> QED
    BY <1>s, <1>t, <2>1, <2>2 DEF Departure
<1>1. CASE Turns
  BY <1>1, <1>n, <1>s, TurnsAre DEF Departure
<1>2. CASE Seed \/ Release \/ Released \/ Gate \/ Check \/ Renamed
  BY <1>2, <1>s, <1>n DEF Seed, Release, Released, Gate, Check, Renamed, Shape
<1>3. CASE WriteLedger \/ Updated \/ SettleLedger
  BY <1>3, <1>s, <1>n DEF WriteLedger, Updated, SettleLedger, Shape
<1>4. CASE RewriteInventory \/ RefreshHosts \/ ClearPlan
  BY <1>4, <1>s, <1>n DEF RewriteInventory, RefreshHosts, ClearPlan, Shape
<1>5. CASE Leave
  BY <1>5, <1>s DEF Leave, Shape, Departure
<1>6. CASE Unnamed
  <2>1. /\ run.step = "unname" /\ run'.names = run.names
        /\ run'.step = IF kind = "CC" THEN "leave" ELSE "forget"
        /\ UNCHANGED <<kind, members, dns, released, removal>>
    BY <1>6, <1>s DEF Unnamed, Shape
  <2>2. \A d \in removal.names \union {Slurm(removal.node)} : d \in Name \ run.names
    BY <1>6, <2>1, Generated DEF Unnamed, Inv, Files, Shape, TypeOK, RemovalRecord
  <2> QED
    BY <1>s, <2>1, <2>2 DEF Departure
<1>7. CASE Forget
  BY <1>7, <1>s, <1>n DEF Forget, Shape
<1>8. CASE Transfer \/ CleanOne \/ Destroy
  BY <1>8, <1>s, <1>n DEF Transfer, CleanOne, Destroy, Shape
<1>9. ASSUME NEW n \in Node, Remove(n) PROVE Departure'
  <2>1. /\ run'.step = IF kind = "CC" THEN "unname" ELSE "leave"
        /\ run'.names = Name /\ kind' = kind
    BY <1>9 DEF Remove
  <2> QED
    BY <1>s, <2>1 DEF Departure
<1>10. ASSUME NEW n \in Node, RenameVnic(n) \/ RenameInstance(n) PROVE Departure'
  BY <1>10, <1>s, <1>n DEF RenameVnic, RenameInstance, Shape
<1>11. ASSUME NEW d \in Name, UpdateOne(d) \/ PruneOne(d) PROVE Departure'
  BY <1>11, <1>s, <1>n DEF UpdateOne, PruneOne, Shape
<1>12. ASSUME NEW d \in Name, UnnameOne(d) PROVE Departure'
  <2>1. /\ run.step = "unname" /\ run'.step = "unname" /\ run'.names = run.names \ {d}
        /\ released /\ UNCHANGED <<kind, members, released, removal>>
    BY <1>12, <1>s DEF UnnameOne, MayUnname, Shape
  <2>2. \A e \in Name : dns'[e] = IF e = d THEN {} ELSE dns[e]
    BY <1>12, <1>s DEF UnnameOne, DeleteOwned, Shape, TypeOK
  <2> QED
    BY <1>s, <2>1, <2>2 DEF Departure
<1>13. ASSUME NEW n \in Node, NEW d \in Name, ChangeHostname(n, d) PROVE Departure'
  BY <1>13, <1>t DEF ChangeHostname
<1>14. ASSUME NEW d \in Host, Take(d) PROVE Departure'
  <2>1. UNCHANGED <<kind, members, released, removal, run>>
    BY <1>14 DEF Take
  <2>2. \A e \in Name : dns'[e] \intersect Node # {} => dns[e] \intersect Node # {}
    BY <1>14, <1>s, Generated, Cluster DEF Take, Shape, TypeOK
  <2> QED
    BY <1>t, <2>1, <2>2
<1>15. CASE UNCHANGED vars
  BY <1>15, <1>t DEF vars
<1> QED
  BY <1>1, <1>2, <1>3, <1>4, <1>5, <1>6, <1>7, <1>8, <1>9, <1>10, <1>11, <1>12, <1>13, <1>14, <1>15
  DEF Next, Work, Turns

-----------------------------------------------------------------------------
(* What leads to the records.                                                  *)

LEMMA BearersAreInvolved ==
    ASSUME NEW d \in Name PROVE Bearers(d) \subseteq Involved
  BY Generated DEF Bearers, Involved

\* Every record that is covered is taken by a cleanup or left to Terraform.
LEMMA CoveredIsDoomed ==
    ASSUME Shape, Takeover, NEW d \in Name, Covered(d)
    PROVE  \/ d \in Doomed \union StateAliases
           \/ released /\ \E n \in terraform : d = Oci(n)
<1> SUFFICES ASSUME d \notin StateAliases, ~(released /\ \E n \in terraform : d = Oci(n))
             PROVE  Expected[d] # {}
  BY DEF Doomed
<1>e. Expected[d] = IF Ledger[d] # {} THEN Ledger[d]
                    ELSE {n \in Involved : d = Slurm(n)} \union Found(d)
  BY DEF Expected
<1>1. CASE Ledger[d] # {}
  BY <1>e, <1>1
<1>2. CASE \E n \in Involved : d = Slurm(n)
  BY <1>e, <1>2
<1>3. CASE ledger = None /\ Bearers(d) # {}
  <2>1. released
    BY <1>3 DEF Takeover
  <2>2. StateRecords[d] = {}
    BY <2>1 DEF StateRecords
  <2>3. Involved # {}
    BY <1>3, BearersAreInvolved
  <2>4. Found(d) # {}
    BY <1>3, <2>2, <2>3 DEF Found
  <2> QED
    BY <1>e, <2>4
<1> QED
  BY <1>1, <1>2, <1>3 DEF Covered

\* What it is seen from.
LEMMA SameCover ==
    ASSUME UNCHANGED <<members, label, ledger, released, terraform, plan, removal, inventory>>
    PROVE  \A d \in Name : Covered(d)' <=> Covered(d)
  BY DEF Covered, Ledger, NoRecords, Involved, Bearers

\* A step that changes no record, or only deletes, keeps the cover if what leads
\* to a record still does.
LEMMA CoverStays ==
    ASSUME Cover, run.step # "destroyed",
           \A d \in Name : dns'[d] \intersect Node # {} =>
               dns[d] \intersect Node # {} /\ (Covered(d) => Covered(d)')
    PROVE  Cover'
  BY DEF Cover

LEMMA CoverNext == Inv /\ [Next]_vars => Cover'
<1> SUFFICES ASSUME Inv, [Next]_vars PROVE Cover'
  OBVIOUS
<1> USE DEF At, Goto, Exit, Idle, cloud, world, state, files
<1>s. Shape /\ Cover
  BY DEF Inv
<1>1. CASE Turns
  BY <1>1, <1>s, TurnsAre, CoverStays, SameCover
<1>2. CASE Seed
  <2>1. CASE terraform = {}
    BY <1>2, <2>1, <1>s, CoverStays, SameCover DEF Seed
  <2>2. CASE terraform # {}
    <3>1. /\ ledger' = [d \in Name |-> Ledger[d] \union Migrated[d]] /\ ledger' # None
          /\ plan = None /\ removal = None /\ run.step = "seed"
          /\ UNCHANGED <<dns, members, inventory, plan, removal, label>>
      BY <1>2, <2>2, <1>s, MigratedIs, Generated DEF Seed, Inv, Files
    <3>2. \A d \in Name : Ledger'[d] = Ledger[d] \union Migrated[d]
      BY <3>1 DEF Ledger
    <3>3. ASSUME NEW d \in Name, Covered(d) PROVE Covered(d)'
      <4>1. CASE Ledger[d] # {}
        BY <3>2, <4>1 DEF Covered
      <4>2. CASE \E n \in Involved : d = Slurm(n)
        <5>1. Involved' = Involved
          BY <3>1 DEF Involved
        <5> QED
          BY <4>2, <5>1 DEF Covered
      <4>3. CASE Bearers(d) # {}
        <5>1. PICK n \in members : d = label[n]
          BY <3>1, <4>3, Generated DEF Bearers, Inv, Named, Staying
        <5>2. Migrated[d] # {}
          BY <5>1 DEF Migrated, LiveRecords
        <5> QED
          BY <3>2, <5>2 DEF Covered
      <4>4. CASE \E n \in terraform : d = Oci(n)
        <5>1. Migrated[d] # {}
          BY <4>4 DEF Migrated, StateRecords
        <5> QED
          BY <3>2, <5>1 DEF Covered
      <4> QED
        BY <3>3, <4>1, <4>2, <4>3, <4>4 DEF Covered
    <3> QED
      BY <3>1, <3>3, <1>s, CoverStays
  <2> QED
    BY <2>1, <2>2
<1>3. CASE Release
  <2>1. /\ run.step = "release" /\ ~released
        /\ UNCHANGED <<dns, members, label, ledger, released, plan, removal, inventory>>
    BY <1>3 DEF Release, Inv, Takeover
  <2>2. \A d \in Name : Covered(d) => Covered(d)'
    BY <2>1 DEF Covered, Ledger, NoRecords, Involved, Bearers
  <2> QED
    BY <2>1, <2>2, <1>s, CoverStays
<1>4. CASE Released
  <2>1. /\ run.step = "released" /\ released'
        /\ UNCHANGED <<dns, members, label, ledger, terraform, plan, removal, inventory>>
    BY <1>4 DEF Released
  <2>2. \A d \in Name : Covered(d) => Covered(d)'
    BY <2>1 DEF Covered, Ledger, NoRecords, Involved, Bearers
  <2> QED
    BY <2>1, <2>2, <1>s, CoverStays
<1>5. CASE Gate \/ Renamed \/ Updated \/ RefreshHosts
  <2>1. /\ run.step # "destroyed"
        /\ UNCHANGED <<dns, members, label, ledger, released, terraform, plan, removal, inventory>>
    BY <1>5 DEF Gate, Renamed, Updated, RefreshHosts
  <2> QED
    BY <2>1, <1>s, CoverStays, SameCover
<1>6. CASE Check
  <2>1. /\ run.step = "check" /\ (plan = None \/ plan' = plan)
        /\ UNCHANGED <<dns, members, label, ledger, released, terraform, removal, inventory>>
    BY <1>6 DEF Check
  <2>2. \A d \in Name : Covered(d) => Covered(d)'
    BY <2>1 DEF Covered, Ledger, NoRecords, Involved, Bearers
  <2> QED
    BY <2>1, <2>2, <1>s, CoverStays
<1>7. CASE WriteLedger
  <2>1. /\ plan # None /\ removal = None /\ run.step = "ledger" /\ terraform = {}
        /\ ledger' = Pending /\ ledger' # None
        /\ UNCHANGED <<dns, members, inventory, plan, removal, label>>
    BY <1>7, <1>s, PendingIs, Generated DEF WriteLedger, Inv, Files, Takeover, Synchronizing
  <2>2. Ledger' = Pending
    BY <2>1 DEF Ledger
  <2>3. ASSUME NEW d \in Name, dns[d] \intersect Node # {}, Covered(d) PROVE Covered(d)'
    <3>1. CASE Ledger[d] # {}
      <4>1. Pending[d] # {}
        BY <2>3, <3>1 DEF Pending
      <4> QED
        BY <2>2, <4>1 DEF Covered
    <3>2. CASE \E n \in Involved : d = Slurm(n)
      <4>1. Involved' = Involved
        BY <2>1 DEF Involved
      <4> QED
        BY <3>2, <4>1 DEF Covered
    <3>3. CASE ledger = None /\ Bearers(d) # {} /\ d \notin Aliases
      <4>1. PICK n \in members : d \in {label[n], inventory[n], plan.desired[n], plan.before[n]}
        <5>1. \A n \in Node : inventory[n] = d => n \in members
          BY <2>1, Generated DEF Inv, Named, Staying
        <5>2. \A n \in members : inventory[n] = plan.listed[n]
          BY <2>1, <3>3 DEF Inv, Named
        <5> QED
          BY <2>1, <3>3, <5>1, <5>2 DEF Bearers
      <4>2. label[n] = plan.desired[n]
        BY <2>1 DEF Inv, Renaming, Synchronizing
      <4>3. CASE d \in Wanted
        <5>1. PICK m \in members : plan.desired[m] = d
          BY <2>1, <4>3 DEF Wanted, Desired
        <5>2. d # Slurm(m)
          BY <3>3 DEF Aliases
        <5>3. Target[d] # {}
          BY <2>1, <5>1, <5>2 DEF Target, Desired
        <5>4. Pending[d] # {}
          BY <5>3 DEF Pending
        <5> QED
          BY <2>2, <5>4 DEF Covered
      <4>4. CASE d \notin Wanted
        <5>1. d \in {inventory[n], plan.before[n]}
          BY <2>1, <4>1, <4>2, <4>4 DEF Wanted, Desired
        <5>2. d \in Earlier
          BY <2>1, <3>3, <4>4, <5>1, Generated DEF Earlier, Known, Before
        <5>3. Pending[d] # {}
          BY <2>3, <5>2 DEF Pending
        <5> QED
          BY <2>2, <5>3 DEF Covered
      <4> QED
        BY <4>3, <4>4
    <3>4. CASE d \in Aliases
      <4>1. \E n \in Involved' : d = Slurm(n)
        BY <2>1, <3>4 DEF Aliases, Involved
      <4> QED
        BY <4>1 DEF Covered
    <3> QED
      BY <2>1, <2>3, <3>1, <3>2, <3>3, <3>4 DEF Covered
  <2> QED
    BY <2>1, <2>3, <1>s, CoverStays
<1>8. CASE SettleLedger
  <2>1. /\ plan # None /\ removal = None /\ run.step = "prune" /\ run.names = {} /\ terraform = {}
        /\ ledger # None /\ ledger' = Target /\ ledger' # None
        /\ UNCHANGED <<dns, members, inventory, plan, removal>>
    BY <1>8, <1>s, OwnershipIs, Generated DEF SettleLedger, Inv, Files, Takeover, Synchronizing
  <2>2. Ledger' = Target
    BY <2>1 DEF Ledger
  <2>3. ASSUME NEW d \in Name, dns[d] \intersect Node # {}, Covered(d) PROVE Covered(d)'
    <3>1. CASE Ledger[d] # {}
      <4>1. d \notin Obsolete
        BY <2>1, <2>3 DEF Inv, Updating
      <4>2. Target[d] # {} \/ d \in Aliases
        BY <3>1, <4>1 DEF Obsolete, Listed
      <4>3. d \in Aliases => \E n \in Involved' : d = Slurm(n)
        BY <2>1 DEF Aliases, Involved
      <4> QED
        BY <2>2, <4>2, <4>3 DEF Covered
    <3>2. CASE \E n \in Involved : d = Slurm(n)
      <4>1. Involved' = Involved
        BY <2>1 DEF Involved
      <4> QED
        BY <3>2, <4>1 DEF Covered
    <3> QED
      BY <2>1, <2>3, <3>1, <3>2 DEF Covered
  <2> QED
    BY <2>1, <2>3, <1>s, CoverStays
<1>9. CASE RewriteInventory
  <2>1. /\ plan # None /\ removal = None /\ run.step = "inventory" /\ ledger # None
        /\ UNCHANGED <<dns, members, ledger, released, terraform, removal>>
        /\ inventory' = [n \in Node |-> IF n \in members THEN plan.desired[n] ELSE inventory[n]]
    BY <1>9 DEF RewriteInventory, Inv, Files, Synchronizing
  <2>2. \A d \in Name : Covered(d) => Covered(d)'
    BY <2>1 DEF Covered, Ledger, NoRecords, Involved
  <2> QED
    BY <2>1, <2>2, <1>s, CoverStays
<1>10. CASE ClearPlan
  <2>1. /\ run.step = "clear" /\ ledger # None
        /\ UNCHANGED <<dns, members, ledger, released, terraform, removal, inventory>>
    BY <1>10 DEF ClearPlan, Inv, Files
  <2>2. \A d \in Name : Covered(d) => Covered(d)'
    BY <2>1 DEF Covered, Ledger, NoRecords, Involved
  <2> QED
    BY <2>1, <2>2, <1>s, CoverStays
<1>11. CASE Leave
  <2>1. /\ run.step = "leave" /\ removal # None /\ plan = None
        /\ members' = members \ {removal.node} /\ removal.names = {label[removal.node]}
        /\ UNCHANGED <<dns, label, ledger, released, terraform, plan, removal, inventory>>
        /\ removal.node \in Node
    BY <1>11, Generated DEF Leave, Inv, Files, Named, Shape, TypeOK, RemovalRecord
  <2>2. \A d \in Name : Bearers(d) \subseteq Bearers(d)'
    BY <2>1 DEF Bearers
  <2>3. Involved \subseteq Involved'
    BY <2>1 DEF Involved
  <2>4. \A d \in Name : Covered(d) => Covered(d)'
    BY <2>1, <2>2, <2>3 DEF Covered, Ledger, NoRecords
  <2> QED
    BY <2>1, <2>4, <1>s, CoverStays
<1>12. CASE Unnamed
  <2>1. /\ run.step = "unname"
        /\ \A d \in Name : d \notin run.names => dns[d] \intersect Node = {}
        /\ UNCHANGED <<dns, members, label, released, terraform, plan, removal, inventory>>
    BY <1>12 DEF Unnamed, Inv, Departure
  <2>2. \A d \in Name : Bearers(d)' = Bearers(d) /\ Involved' = Involved
    BY <2>1 DEF Bearers, Involved
  <2>3. (ledger' = None <=> ledger = None) /\ \A d \in Name : d \in run.names => Ledger'[d] = Ledger[d]
    <3>1. CASE ledger = None
      BY <1>12, <3>1 DEF Unnamed, Ledger, NoRecords
    <3>2. CASE ledger # None
      <4> DEFINE l == [d \in Name |-> IF d \notin run.names /\ ledger[d] = {removal.node}
                                      THEN {} ELSE ledger[d]]
      <4>1. ledger' = l
        BY <1>12, <3>2 DEF Unnamed
      <4>2. l \in Ownership
        BY <3>2, <1>s DEF Shape, TypeOK, Ownership
      <4> QED
        BY <3>2, <4>1, <4>2, Generated DEF Ledger
    <3> QED
      BY <3>1, <3>2
  <2>4. \A d \in Name : dns[d] \intersect Node # {} /\ Covered(d) => Covered(d)'
    BY <2>1, <2>2, <2>3 DEF Covered
  <2> QED
    BY <2>1, <2>4, <1>s, CoverStays
<1>13. CASE Forget
  <2>1. /\ run.step = "forget" /\ removal # None /\ plan = None /\ removal' = None
        /\ \A d \in removal.names \union {Slurm(removal.node)} : dns[d] \intersect Node = {}
        /\ UNCHANGED <<dns, members, label, ledger, released, terraform, plan, inventory>>
    BY <1>13 DEF Forget, Inv, Files, Departure
  <2>2. \A d \in Name : d \notin removal.names => Bearers(d) \subseteq Bearers(d)'
    BY <2>1 DEF Bearers
  <2>3. Involved \subseteq Involved' \union {removal.node}
    BY <2>1 DEF Involved
  <2>4. \A d \in Name : dns[d] \intersect Node # {} /\ Covered(d) => Covered(d)'
    BY <2>1, <2>2, <2>3 DEF Covered, Ledger, NoRecords
  <2> QED
    BY <2>1, <2>4, <1>s, CoverStays
<1>14. CASE Transfer
  <2>1. /\ run.step = "transfer" /\ ~released
        /\ UNCHANGED <<dns, members, label, ledger, plan, removal, inventory>>
    BY <1>14 DEF Transfer, Inv, Takeover
  <2>2. \A d \in Name : Covered(d) => Covered(d)'
    BY <2>1 DEF Covered, Ledger, NoRecords, Involved, Bearers
  <2> QED
    BY <2>1, <2>2, <1>s, CoverStays
<1>15. CASE CleanOne
  <2>1. PICK d \in run.names : dns' = [dns EXCEPT ![d] = {}]
    BY <1>15 DEF CleanOne, DeleteOwned
  <2>2. /\ run.step # "destroyed"
        /\ UNCHANGED <<members, label, ledger, released, terraform, plan, removal, inventory>>
    BY <1>15 DEF CleanOne
  <2>3. \A e \in Name : dns'[e] \in {dns[e], {}}
    BY <2>1, <1>s DEF Shape, TypeOK
  <2> QED
    BY <2>2, <2>3, <1>s, CoverStays, SameCover
<1>16. CASE Destroy
  BY <1>16, <1>s DEF Destroy, Shape, Cover
<1>17. ASSUME NEW n \in Node, Remove(n) PROVE Cover'
  <2>1. /\ run.step = "idle" /\ n \in members /\ removal = None /\ plan = None
        /\ removal' = [node |-> n, names |-> {label[n], inventory[n]}]
        /\ inventory' = [inventory EXCEPT ![n] = None]
        /\ UNCHANGED <<dns, members, label, ledger, released, terraform, plan>>
    BY <1>17 DEF Remove, MayRemove
  <2>2. removal' # None
    <3>1. inventory[n] = label[n]
      BY <2>1 DEF Inv, Named, Staying
    <3>2. removal' \in RemovalRecord
      BY <2>1, <3>1, <1>s DEF RemovalRecord, Shape, TypeOK
    <3> QED
      BY <3>2, Generated
  <2>3. \A m \in Node : m # n => inventory'[m] = inventory[m]
    BY <2>1, <1>s DEF Shape, TypeOK
  <2>4. \A d \in Name : Bearers(d) \subseteq Bearers(d)'
    BY <2>1, <2>2, <2>3 DEF Bearers
  <2>5. Involved \subseteq Involved'
    BY <2>1, <2>2, <2>3 DEF Involved
  <2>6. \A d \in Name : Covered(d) => Covered(d)'
    BY <2>1, <2>4, <2>5 DEF Covered, Ledger, NoRecords
  <2> QED
    BY <2>1, <2>6, <1>s, CoverStays
<1>18. ASSUME NEW n \in Node, RenameVnic(n) PROVE Cover'
  <2>1. /\ run.step # "destroyed"
        /\ UNCHANGED <<dns, members, label, ledger, released, terraform, plan, removal, inventory>>
    BY <1>18 DEF RenameVnic
  <2> QED
    BY <2>1, <1>s, CoverStays, SameCover
<1>19. ASSUME NEW n \in Node, RenameInstance(n) PROVE Cover'
  <2>1. /\ run.step = "rename" /\ plan # None
        /\ \A m \in Node : m # n => label'[m] = label[m]
        /\ UNCHANGED <<dns, members, ledger, released, terraform, plan, removal, inventory>>
    BY <1>19, <1>s DEF RenameInstance, Inv, Files, Synchronizing, Shape, TypeOK
  <2>2. \A m \in members : label[m] \in {plan.before[m], plan.desired[m]}
    BY <2>1 DEF Inv, Named
  <2>3. \A d \in Name : Bearers(d) \subseteq Bearers(d)'
    BY <2>1, <2>2 DEF Bearers
  <2>4. Involved' = Involved
    BY <2>1 DEF Involved
  <2>5. \A d \in Name : Covered(d) => Covered(d)'
    BY <2>1, <2>3, <2>4 DEF Covered, Ledger, NoRecords
  <2> QED
    BY <2>1, <2>5, <1>s, CoverStays
<1>20. ASSUME NEW d \in Name, UpdateOne(d) PROVE Cover'
  <2>1. /\ run.step = "update" /\ d \in run.names
        /\ dns' = [dns EXCEPT ![d] = Target[d]]
        /\ UNCHANGED <<members, label, ledger, released, terraform, plan, removal, inventory>>
    BY <1>20 DEF UpdateOne
  <2>2. \A e \in Name : e # d => dns'[e] = dns[e]
    BY <2>1, <1>s DEF Shape, TypeOK
  <2>3. Ledger[d] # {}
    BY <2>1 DEF Inv, Updating
  <2>4. Covered(d)
    BY <2>3 DEF Covered
  <2> QED
    BY <2>1, <2>2, <2>4, <1>s, SameCover DEF Cover
<1>21. ASSUME NEW d \in Name, PruneOne(d) \/ UnnameOne(d) PROVE Cover'
  <2>1. /\ run.step # "destroyed" /\ dns' = [dns EXCEPT ![d] = {}]
        /\ UNCHANGED <<members, label, ledger, released, terraform, plan, removal, inventory>>
    BY <1>21 DEF PruneOne, UnnameOne, DeleteOwned
  <2>2. \A e \in Name : dns'[e] \in {dns[e], {}}
    BY <2>1, <1>s DEF Shape, TypeOK
  <2> QED
    BY <2>1, <2>2, <1>s, CoverStays, SameCover
<1>22. ASSUME NEW n \in Node, NEW d \in Name, ChangeHostname(n, d) PROVE Cover'
  <2>1. UNCHANGED <<dns, members, label, ledger, released, terraform, plan, removal, inventory, run>>
    BY <1>22 DEF ChangeHostname
  <2> QED
    BY <2>1, <1>s, SameCover DEF Cover
<1>23. ASSUME NEW d \in Host, Take(d) PROVE Cover'
  <2>1. /\ UNCHANGED run /\ dns' = [dns EXCEPT ![d] = {Other}]
        /\ UNCHANGED <<members, label, ledger, released, terraform, plan, removal, inventory>>
    BY <1>23 DEF Take
  <2>2. \A e \in Name : dns'[e] \intersect Node # {} => dns'[e] = dns[e]
    BY <2>1, <1>s, Cluster DEF Shape, TypeOK
  <2> QED
    BY <2>1, <2>2, <1>s, SameCover DEF Cover
<1>24. CASE UNCHANGED vars
  <2>1. UNCHANGED <<dns, members, label, ledger, released, terraform, plan, removal, inventory, run>>
    BY <1>24 DEF vars
  <2> QED
    BY <2>1, <1>s, SameCover DEF Cover
<1> QED
  BY <1>1, <1>2, <1>3, <1>4, <1>5, <1>6, <1>7, <1>8, <1>9, <1>10, <1>11, <1>12, <1>13, <1>14, <1>15,
     <1>16, <1>17, <1>18, <1>19, <1>20, <1>21, <1>22, <1>23, <1>24 DEF Next, Work, Turns

LEMMA OriginalNext == Inv /\ [Next]_vars => Original'
<1> SUFFICES ASSUME Inv, [Next]_vars PROVE Original'
  OBVIOUS
<1> USE DEF At, Goto, Exit, Idle, cloud, world, state, files
<1>s. Shape /\ Original /\ (run.step \in Synchronizing => gated)
  BY DEF Inv, Files
<1>n. ASSUME gated' PROVE Original'
  BY <1>n DEF Original
\* Nothing but a synchronization writes addresses of nodes.
<1>t. ASSUME gated' = gated, terraform' = terraform, ledger' = None => ledger = None,
             run'.step # "destroyed" => run.step # "destroyed",
             \A d \in Name : dns'[d] \intersect Node # {} => dns[d] \intersect Node # {}
      PROVE  Original'
  BY <1>s, <1>t DEF Original
<1>1. CASE Turns
  BY <1>1, <1>t, TurnsAre
<1>2. CASE Seed
  <2>1. ledger' = None => ledger = None
    BY <1>2, <1>s, MigratedIs, Generated DEF Seed
  <2> QED
    BY <1>2, <2>1, <1>t DEF Seed
<1>3. CASE Release \/ Transfer
  <2>1. ledger' = ledger /\ ledger # None /\ UNCHANGED <<dns, gated>>
    BY <1>3 DEF Release, Transfer, Inv, Takeover
  <2> QED
    BY <2>1, <1>s DEF Original
<1>4. CASE Released
  BY <1>4, <1>t DEF Released
<1>5. CASE Gate
  BY <1>5, <1>n DEF Gate
<1>6. CASE Check \/ Renamed \/ WriteLedger \/ Updated \/ SettleLedger
  <2>1. gated' = gated /\ gated
    BY <1>6, <1>s DEF Check, Renamed, WriteLedger, Updated, SettleLedger, Synchronizing, Inv, Files
  <2> QED
    BY <2>1, <1>n
<1>7. CASE RewriteInventory \/ RefreshHosts \/ ClearPlan
  <2>1. gated' = gated /\ gated
    BY <1>7, <1>s DEF RewriteInventory, RefreshHosts, ClearPlan, Synchronizing
  <2> QED
    BY <2>1, <1>n
<1>8. CASE Leave \/ Forget
  BY <1>8, <1>t, <1>s DEF Leave, Forget, Shape
<1>9. CASE Unnamed
  <2>1. ledger' = None => ledger = None
    <3>1. ASSUME ledger # None PROVE ledger' \in Ownership
      BY <1>9, <3>1 DEF Unnamed, Ownership, Inv, Shape, TypeOK
    <3> QED
      BY <3>1, Generated
  <2> QED
    BY <1>9, <2>1, <1>t DEF Unnamed
<1>10. CASE CleanOne
  <2>1. \A d \in Name : dns'[d] \in {dns[d], {}}
    BY <1>10, <1>s DEF CleanOne, DeleteOwned, Shape, TypeOK
  <2> QED
    BY <1>10, <2>1, <1>t DEF CleanOne
<1>11. CASE Destroy
  <2>1. run'.step = "destroyed" /\ gated' = gated
    BY <1>11, <1>s DEF Destroy, Shape
  <2>2. \A d \in Name : dns'[d] \in {dns[d], {}}
    BY <1>11 DEF Destroy
  <2> QED
    BY <2>1, <2>2, <1>s DEF Original
<1>12. ASSUME NEW n \in Node, Remove(n) PROVE Original'
  BY <1>12, <1>t DEF Remove
<1>13. ASSUME NEW n \in Node, RenameVnic(n) \/ RenameInstance(n) PROVE Original'
  <2>1. gated' = gated /\ gated
    BY <1>13, <1>s DEF RenameVnic, RenameInstance, Synchronizing
  <2> QED
    BY <2>1, <1>n
<1>14. ASSUME NEW d \in Name, UpdateOne(d) \/ PruneOne(d) PROVE Original'
  <2>1. gated' = gated /\ gated
    BY <1>14, <1>s DEF UpdateOne, PruneOne, Synchronizing
  <2> QED
    BY <2>1, <1>n
<1>15. ASSUME NEW d \in Name, UnnameOne(d) PROVE Original'
  <2>1. \A e \in Name : dns'[e] \in {dns[e], {}}
    BY <1>15, <1>s DEF UnnameOne, DeleteOwned, Shape, TypeOK
  <2> QED
    BY <1>15, <2>1, <1>t DEF UnnameOne
<1>16. ASSUME NEW n \in Node, NEW d \in Name, ChangeHostname(n, d) PROVE Original'
  BY <1>16, <1>t DEF ChangeHostname
<1>17. ASSUME NEW d \in Host, Take(d) PROVE Original'
  <2>1. \A e \in Name : dns'[e] \intersect Node # {} => dns[e] \intersect Node # {}
    BY <1>17, <1>s, Cluster DEF Take, Shape, TypeOK
  <2> QED
    BY <1>17, <2>1, <1>t DEF Take
<1>18. CASE UNCHANGED vars
  BY <1>18, <1>t DEF vars
<1> QED
  BY <1>1, <1>2, <1>3, <1>4, <1>5, <1>6, <1>7, <1>8, <1>9, <1>10, <1>11, <1>12, <1>13, <1>14, <1>15,
     <1>16, <1>17, <1>18 DEF Next, Work, Turns

\* A step of a cleanup keeps what it still has to take.
LEMMA CleaningStays ==
    ASSUME Cleaning, UNCHANGED <<run, kind, gated, ledger, released, terraform>>,
           \A d \in Name : dns'[d] \intersect Node # {} => dns[d] \intersect Node # {}
    PROVE  Cleaning'
  BY DEF Cleaning, Abandoned, Unmanaged

\* What a Cluster Network that was never taken over leaves is Terraform's or abandoned.
LEMMA UnmanagedLeaves ==
    ASSUME Inv, Unmanaged, run.step # "destroyed", NEW d \in Name, dns[d] \intersect Node # {}
    PROVE  \/ d \in StateAliases
           \/ released /\ \E n \in terraform : d = Oci(n)
           \/ Abandoned(d)
<1>1. terraform = Created /\ released
  BY DEF Unmanaged, Inv, Original, Takeover
<1>2. PICK n \in Node : d \in {Oci(n), Slurm(n)}
  BY DEF Unmanaged, Inv, Original
<1>3. CASE n \in Created
  BY <1>1, <1>2, <1>3 DEF StateAliases
<1>4. CASE n \notin Created
  BY <1>2, <1>4 DEF Abandoned, Added
<1> QED
  BY <1>3, <1>4

LEMMA CleaningNext == Inv /\ [Next]_vars => Cleaning'
<1> SUFFICES ASSUME Inv, [Next]_vars PROVE Cleaning'
  OBVIOUS
<1> USE DEF At, Goto, Exit, Idle, cloud, world, state, files
<1>s. Shape /\ Cleaning
  BY DEF Inv
<1>n. ASSUME run'.step \notin {"transfer", "clean"} PROVE Cleaning'
  BY <1>n DEF Cleaning
<1>1. CASE Turns
  <2>1. CASE run'.step \in {"clean", "transfer"}
    <3>1. /\ run'.names = Doomed \/ Unmanaged
          /\ UNCHANGED <<kind, gated, ledger, dns, released, terraform>> /\ run.step # "destroyed"
      BY <1>1, <2>1, TurnsAre
    <3>2. \A d \in Name : dns[d] \intersect Node # {} => Covered(d)
      BY <3>1 DEF Inv, Cover
    <3>3. \A d \in Name : Abandoned(d)' <=> Abandoned(d)
      BY <3>1 DEF Abandoned, Unmanaged
    <3>4. CASE run'.names = Doomed
      BY <3>1, <3>2, <3>4, CoveredIsDoomed DEF Inv, Cleaning
    <3>5. CASE Unmanaged
      BY <3>1, <3>3, <3>5, UnmanagedLeaves DEF Cleaning
    <3> QED
      BY <3>1, <3>4, <3>5
  <2>2. CASE run'.step \notin {"clean", "transfer"}
    BY <2>2, <1>n
  <2> QED
    BY <2>1, <2>2
<1>2. CASE Seed \/ Release \/ Released \/ Gate \/ Check \/ Renamed
  BY <1>2, <1>s, <1>n DEF Seed, Release, Released, Gate, Check, Renamed, Shape
<1>3. CASE WriteLedger \/ Updated \/ SettleLedger
  BY <1>3, <1>s, <1>n DEF WriteLedger, Updated, SettleLedger, Shape
<1>4. CASE RewriteInventory \/ RefreshHosts \/ ClearPlan
  BY <1>4, <1>s, <1>n DEF RewriteInventory, RefreshHosts, ClearPlan, Shape
<1>5. CASE Leave \/ Unnamed \/ Forget
  BY <1>5, <1>s, <1>n DEF Leave, Unnamed, Forget, Shape
<1>6. CASE Transfer
  <2>1. /\ run.step = "transfer" /\ ~released
        /\ run'.step = "clean" /\ run'.names = run.names /\ UNCHANGED <<dns, kind, gated, ledger>>
    BY <1>6, <1>s DEF Transfer, Inv, Takeover, Shape
  <2> QED
    BY <2>1, <1>s DEF Cleaning, Abandoned, Unmanaged
<1>7. CASE CleanOne
  <2>1. PICK d \in run.names : /\ dns' = [dns EXCEPT ![d] = {}]
                               /\ run' = [run EXCEPT !.names = @ \ {d}]
    BY <1>7 DEF CleanOne, DeleteOwned
  <2>2. run.step = "clean" /\ UNCHANGED <<kind, gated, ledger, released, terraform>>
    BY <1>7 DEF CleanOne
  <2>3. \A e \in Name : dns'[e] = IF e = d THEN {} ELSE dns[e]
    BY <2>1, <1>s DEF Shape, TypeOK
  <2>4. run'.names = run.names \ {d}
    BY <2>1, <1>s DEF Shape
  <2>5. \A e \in Name : Abandoned(e)' <=> Abandoned(e)
    BY <2>2 DEF Abandoned, Unmanaged
  <2> QED
    BY <2>1, <2>2, <2>3, <2>4, <2>5, <1>s DEF Cleaning, Shape
<1>8. CASE Destroy
  BY <1>8, <1>s, <1>n DEF Destroy, Shape
<1>9. ASSUME NEW n \in Node, Remove(n) PROVE Cleaning'
  BY <1>9, <1>s, <1>n DEF Remove, Shape
<1>10. ASSUME NEW n \in Node, RenameVnic(n) \/ RenameInstance(n) PROVE Cleaning'
  BY <1>10, <1>s, <1>n DEF RenameVnic, RenameInstance, Shape
<1>11. ASSUME NEW d \in Name, UpdateOne(d) \/ PruneOne(d) \/ UnnameOne(d) PROVE Cleaning'
  BY <1>11, <1>s, <1>n DEF UpdateOne, PruneOne, UnnameOne, Shape
<1>12. ASSUME NEW n \in Node, NEW d \in Name, ChangeHostname(n, d) PROVE Cleaning'
  BY <1>12, <1>s, CleaningStays DEF ChangeHostname
<1>13. ASSUME NEW d \in Host, Take(d) PROVE Cleaning'
  <2>1. \A e \in Name : dns'[e] \intersect Node # {} => dns[e] \intersect Node # {}
    BY <1>13, <1>s, Cluster DEF Take, Shape, TypeOK
  <2> QED
    BY <1>13, <2>1, <1>s, CleaningStays DEF Take
<1>14. CASE UNCHANGED vars
  BY <1>14, <1>s, CleaningStays DEF vars
<1> QED
  BY <1>1, <1>2, <1>3, <1>4, <1>5, <1>6, <1>7, <1>8, <1>9, <1>10, <1>11, <1>12, <1>13, <1>14
  DEF Next, Work, Turns

\* The destruction itself is the only step that ends in "destroyed".
LEMMA DestroyEnds == Inv /\ [Next]_vars /\ run'.step = "destroyed" => Destroy \/ UNCHANGED run
<1> SUFFICES ASSUME Inv, [Next]_vars, run'.step = "destroyed" PROVE Destroy \/ UNCHANGED run
  OBVIOUS
<1> USE DEF Inv, Shape, At, Goto, Exit, Idle, cloud, world, state, files
<1>1. ~Turns
  BY TurnsAre
<1>2. ~(Seed \/ Release \/ Released \/ Gate \/ Check \/ Renamed)
  BY DEF Seed, Release, Released, Gate, Check, Renamed
<1>3. ~WriteLedger /\ ~Updated /\ ~SettleLedger
  BY DEF WriteLedger, Updated, SettleLedger
<1>10. ~RewriteInventory /\ ~RefreshHosts /\ ~ClearPlan
  BY DEF RewriteInventory, RefreshHosts, ClearPlan
<1>4. ~(Leave \/ Unnamed \/ Forget \/ Transfer \/ CleanOne)
  BY DEF Leave, Unnamed, Forget, Transfer, CleanOne
<1>5. \A n \in Node : ~Remove(n) /\ ~RenameVnic(n) /\ ~RenameInstance(n)
  BY DEF Remove, RenameVnic, RenameInstance
<1>6. \A d \in Name : ~UpdateOne(d) /\ ~PruneOne(d) /\ ~UnnameOne(d)
  BY DEF UpdateOne, PruneOne, UnnameOne
<1>7. \A n \in Node : \A d \in Name : ChangeHostname(n, d) => UNCHANGED run
  BY DEF ChangeHostname
<1>8. \A d \in Host : Take(d) => UNCHANGED run
  BY DEF Take
<1>9. UNCHANGED vars => UNCHANGED run
  BY DEF vars
<1> QED
  BY <1>1, <1>2, <1>3, <1>4, <1>5, <1>6, <1>7, <1>8, <1>9, <1>10 DEF Next, Work, Turns

\* What the destruction leaves.
LEMMA DestroyLeaves ==
    Inv /\ [Next]_vars =>
        (At("clean") /\ At("destroyed")' =>
            \A d \in Name : dns'[d] \intersect Node # {} =>
                Unmanaged /\ \E n \in Added : d \in {Oci(n), Slurm(n)})
<1> SUFFICES ASSUME Inv, [Next]_vars, run.step = "clean", run'.step = "destroyed",
                    NEW d \in Name, dns'[d] \intersect Node # {}
             PROVE  Abandoned(d)
  BY DEF At, Abandoned
<1>1. Destroy
  BY DestroyEnds
<1>2. run.names = {}
  BY <1>1 DEF Destroy
<1>3. dns'[d] = IF d \in StateAliases \union {Oci(n) : n \in terraform} THEN {} ELSE dns[d]
  BY <1>1 DEF Destroy
<1> QED
  BY <1>2, <1>3 DEF Inv, Cleaning

LEMMA InvInit == Init => Inv
<1> SUFFICES ASSUME Init PROVE Inv
  OBVIOUS
<1>s. Shape
  BY ShapeInit
<1>1. /\ run.step = "idle" /\ plan = None /\ removal = None /\ ledger = None /\ released
      /\ members = Node /\ inventory = label /\ label = [n \in Node |-> Oci(n)]
      /\ terraform = IF gated THEN {} ELSE Created
      /\ \A d \in Name : dns[d] = {n \in Node : d = Slurm(n) \/ (~gated /\ d = Oci(n))}
  BY DEF Init, Idle
<1>2. Files /\ Takeover
  BY <1>1 DEF Files, Synchronizing, Takeover
<1>3. Named
  BY <1>1 DEF Named, Staying
<1>4. Apart
  BY <1>1, Cluster, Generated DEF Apart, Ledger, NoRecords
<1>5. Renaming /\ Updating /\ Finishing /\ Departure /\ Cleaning
  BY <1>1 DEF Renaming, Synchronizing, Updating, Finishing, Departure, Cleaning
<1>7. Original
  BY <1>1 DEF Original
<1>6. Cover
  <2> SUFFICES ASSUME NEW d \in Name, NEW n \in Node, d = Slurm(n) \/ d = Oci(n)
               PROVE  Covered(d)
    BY <1>1 DEF Cover
  <2>1. n \in Involved
    BY <1>1 DEF Involved
  <2>2. d = Oci(n) => n \in Bearers(d)
    BY <1>1 DEF Bearers
  <2> QED
    BY <1>1, <2>1, <2>2 DEF Covered
<1> QED
  BY <1>s, <1>2, <1>3, <1>4, <1>5, <1>6, <1>7 DEF Inv

LEMMA InvNext == Inv /\ [Next]_vars => Inv'
  BY ShapeNext, FilesNext, TakeoverNext, NamedNext, ApartNext, RenamingNext, UpdatingNext,
     FinishingNext, DepartureNext, CoverNext, OriginalNext, CleaningNext DEF Inv

LEMMA InvHolds == Spec => []Inv
  BY InvInit, InvNext, PTL DEF Spec

(* Every variable of the names keeps its type: ledgers list nodes only, plans  *)
(* and removal records name what nodes can be named.                           *)
THEOREM TypeCorrect == Spec => []TypeOK
<1>1. Inv => TypeOK
  BY DEF Inv, Shape
<1> QED
  BY <1>1, InvHolds, PTL

(* For any nodes, names, stops and mishaps, when the cluster is destroyed no    *)
(* record leads to one of its addresses, but those of nodes that were added to  *)
(* a Cluster Network that was never taken over.                                *)
THEOREM NothingIsLeft == Spec => NothingLeftInDns
<1>1. Inv /\ [Next]_vars =>
         [At("clean") /\ At("destroyed")' =>
            \A d \in Name : dns'[d] \intersect Node # {} =>
                Unmanaged /\ \E n \in Added : d \in {Oci(n), Slurm(n)}]_vars
  BY DestroyLeaves
<1> QED
  BY <1>1, InvHolds, PTL DEF Spec, NothingLeftInDns

-----------------------------------------------------------------------------
(* What is done to records.                                                    *)

\* The steps that change the zone.
LEMMA RecordSteps ==
    [Next]_vars => \/ UNCHANGED dns
                   \/ CleanOne \/ Destroy
                   \/ \E d \in Name : UpdateOne(d) \/ PruneOne(d) \/ UnnameOne(d)
                   \/ \E d \in Host : Take(d)
<1> SUFFICES ASSUME [Next]_vars PROVE \/ UNCHANGED dns
                                      \/ CleanOne \/ Destroy
                                      \/ \E d \in Name : UpdateOne(d) \/ PruneOne(d) \/ UnnameOne(d)
                                      \/ \E d \in Host : Take(d)
  OBVIOUS
<1> USE DEF cloud, world, state, files
<1>1. Begin \/ ResumeRemoval \/ Clean \/ Stop \/ Refuse => UNCHANGED dns
  BY DEF Begin, ResumeRemoval, Clean, Stop, Refuse
<1>2. Seed \/ Release \/ Released \/ Gate \/ Check \/ Renamed => UNCHANGED dns
  BY DEF Seed, Release, Released, Gate, Check, Renamed
<1>3. WriteLedger \/ Updated \/ SettleLedger => UNCHANGED dns
  BY DEF WriteLedger, Updated, SettleLedger
<1>4. RewriteInventory \/ RefreshHosts \/ ClearPlan => UNCHANGED dns
  BY DEF RewriteInventory, RefreshHosts, ClearPlan
<1>5. Leave \/ Unnamed \/ Forget \/ Transfer => UNCHANGED dns
  BY DEF Leave, Unnamed, Forget, Transfer
<1>6. \A n \in Node : Remove(n) \/ RenameVnic(n) \/ RenameInstance(n) => UNCHANGED dns
  BY DEF Remove, RenameVnic, RenameInstance
<1>7. \A n \in Node : \A d \in Name : ChangeHostname(n, d) => UNCHANGED dns
  BY DEF ChangeHostname
<1>8. UNCHANGED vars => UNCHANGED dns
  BY DEF vars
<1> QED
  BY <1>1, <1>2, <1>3, <1>4, <1>5, <1>6, <1>7, <1>8 DEF Next, Work

LEMMA ForeignStays ==
    Inv /\ [Next]_vars => \A d \in Name : Other \in dns[d] /\ Other \notin dns'[d] =>
                               At("update") /\ d \in run.names \intersect late
<1> SUFFICES ASSUME Inv, [Next]_vars, NEW d \in Name, Other \in dns[d],
                    ~(At("update") /\ d \in run.names \intersect late)
             PROVE  Other \in dns'[d]
  OBVIOUS
<1>s. dns \in [Name -> SUBSET (Node \union {Other})] /\ Other \notin Node
  BY Cluster DEF Inv, Shape, TypeOK
\* Whatever is deleted was found to have expected addresses only.
<1>d. ASSUME NEW e \in Name, NEW expected \in SUBSET Node, DeleteOwned(e, expected)
      PROVE  Other \in dns'[d]
  BY <1>s, <1>d DEF DeleteOwned, Verified
<1>l. Ledger \in [Name -> SUBSET Node]
  BY OwnershipIs DEF Inv, Ownership
<1>1. ASSUME NEW e \in Name, UpdateOne(e) PROVE Other \in dns'[d]
  <2>1. e # d
    BY <1>1 DEF UpdateOne, At, Inv, Updating
  <2> QED
    BY <1>1, <2>1, <1>s DEF UpdateOne
<1>2. ASSUME NEW e \in Name, PruneOne(e) PROVE Other \in dns'[d]
  BY <1>2, <1>d, <1>l DEF PruneOne
<1>3. ASSUME NEW e \in Name, UnnameOne(e) PROVE Other \in dns'[d]
  <2>1. {removal.node} \in SUBSET Node
    BY <1>3, Generated DEF UnnameOne, At, Inv, Files, Shape, TypeOK, RemovalRecord
  <2> QED
    BY <1>3, <1>d, <2>1 DEF UnnameOne
<1>4. CASE CleanOne
  <2>1. PICK e \in run.names : DeleteOwned(e, Expected[e])
    BY <1>4 DEF CleanOne
  <2>2. e \in Name
    BY DEF Inv, Shape, TypeOK
  <2>3. Involved \subseteq Node /\ Found(e) \subseteq Node
    BY Generated DEF Involved, Found, Bearers, Inv, Shape, TypeOK, RemovalRecord
  <2>4. Expected[e] \in SUBSET Node
    BY <2>2, <2>3, <1>l DEF Expected
  <2> QED
    BY <2>1, <2>2, <2>4, <1>d
<1>5. CASE Destroy
  <2>1. d \in Host
    BY DEF Inv, Apart
  <2>2. d \notin StateAliases \union {Oci(n) : n \in terraform}
    BY <2>1, Cluster, NamesDiffer DEF StateAliases, Inv, Shape, TypeOK
  <2> QED
    BY <1>5, <2>2 DEF Destroy
<1>6. ASSUME NEW e \in Host, Take(e) PROVE Other \in dns'[d]
  BY <1>6, <1>s DEF Take
<1> QED
  BY <1>1, <1>2, <1>3, <1>4, <1>5, <1>6, RecordSteps

(* For any nodes, names, stops and mishaps no step deletes a record that has an *)
(* address of somebody else, and the only one that may replace it writes a name *)
(* that was taken after the last preflight of its run.                         *)
THEOREM ForeignStay == Spec => ForeignRecordsSurvive
<1>1. Inv /\ [Next]_vars =>
         [\A d \in Name : Other \in dns[d] /\ Other \notin dns'[d] =>
             At("update") /\ d \in run.names \intersect late]_vars
  BY ForeignStays
<1> QED
  BY <1>1, InvHolds, PTL DEF Spec, ForeignRecordsSurvive

LEMMA AliasStays ==
    Inv /\ [Next]_vars =>
        \A n \in members : dns[Slurm(n)] = {n} /\ dns'[Slurm(n)] # {n} =>
            At("clean") \/ (removal # None /\ removal.node = n)
<1> SUFFICES ASSUME Inv, [Next]_vars, NEW n \in members, dns[Slurm(n)] = {n}, dns'[Slurm(n)] # {n}
             PROVE  At("clean") \/ (removal # None /\ removal.node = n)
  OBVIOUS
<1>s. dns \in [Name -> SUBSET (Node \union {Other})] /\ n \in Node /\ Slurm(n) \in Name
  BY Generated DEF Inv, Shape, TypeOK
<1>1. ASSUME NEW d \in Name, UpdateOne(d) PROVE FALSE
  <2>1. plan # None /\ d \in run.names /\ Target[d] # {}
    BY <1>1 DEF UpdateOne, At, Inv, Files, Synchronizing, Updating
  <2>2. d # Slurm(n)
    BY <2>1, AliasIsNoTarget DEF Inv, Named
  <2> QED
    BY <1>1, <1>s, <2>2 DEF UpdateOne
<1>2. ASSUME NEW d \in Name, PruneOne(d) PROVE FALSE
  <2>1. Ledger[d] # {}
    BY <1>2 DEF PruneOne, At, Inv, Updating, Obsolete, Listed
  <2>2. d # Slurm(n)
    BY <2>1 DEF Inv, Apart
  <2> QED
    BY <1>2, <1>s, <2>2 DEF PruneOne, DeleteOwned
<1>3. ASSUME NEW d \in Name, UnnameOne(d) PROVE removal # None /\ removal.node = n
  <2>1. removal # None
    BY <1>3 DEF UnnameOne, At, Inv, Files
  <2>2. d = Slurm(n)
    BY <1>3, <1>s DEF UnnameOne, DeleteOwned
  <2> QED
    BY <1>3, <2>1, <2>2 DEF UnnameOne, DeleteOwned, Verified
<1>4. CleanOne \/ Destroy => At("clean")
  BY DEF CleanOne, Destroy
<1>5. ASSUME NEW d \in Host, Take(d) PROVE FALSE
  BY <1>5, <1>s, NamesDiffer DEF Take
<1> QED
  BY <1>1, <1>2, <1>3, <1>4, <1>5, RecordSteps

(* For any nodes, names, stops and mishaps a member keeps the alias under which *)
(* Slurm finds it until it is removed or the cluster is cleaned up.            *)
THEOREM AliasesStay == Spec => AliasesSurvive
<1>1. Inv /\ [Next]_vars =>
         [\A n \in members : dns[Slurm(n)] = {n} /\ dns'[Slurm(n)] # {n} =>
            At("clean") \/ (removal # None /\ removal.node = n)]_vars
  BY AliasStays
<1> QED
  BY <1>1, InvHolds, PTL DEF Spec, AliasesSurvive

\* Only the last step of a synchronization clears a plan.
LEMMA PlanIsCleared == Inv /\ [Next]_vars /\ plan # None /\ plan' = None => ClearPlan
<1> SUFFICES ASSUME Inv, [Next]_vars, plan # None, plan' = None PROVE ClearPlan
  OBVIOUS
<1> USE DEF cloud, world, state, files
<1>1. ~Turns
  BY TurnsAre
<1>2. ~Seed /\ ~Release /\ ~Released /\ ~Gate /\ ~Check /\ ~Renamed
  BY DEF Seed, Release, Released, Gate, Check, Renamed
<1>3. ~WriteLedger /\ ~Updated /\ ~SettleLedger /\ ~RewriteInventory /\ ~RefreshHosts
  BY DEF WriteLedger, Updated, SettleLedger, RewriteInventory, RefreshHosts
<1>4. ~Leave /\ ~Unnamed /\ ~Forget /\ ~Transfer /\ ~CleanOne /\ ~Destroy
  BY DEF Leave, Unnamed, Forget, Transfer, CleanOne, Destroy
<1>5. \A n \in Node : ~Remove(n) /\ ~RenameVnic(n) /\ ~RenameInstance(n)
  BY DEF Remove, RenameVnic, RenameInstance
<1>6. \A d \in Name : ~UpdateOne(d) /\ ~PruneOne(d) /\ ~UnnameOne(d)
  BY DEF UpdateOne, PruneOne, UnnameOne
<1>7. \A n \in Node : \A d \in Name : ~ChangeHostname(n, d)
  BY DEF ChangeHostname
<1>8. \A d \in Host : ~Take(d)
  BY DEF Take
<1>9. ~UNCHANGED vars
  BY DEF vars
<1> QED
  BY <1>1, <1>2, <1>3, <1>4, <1>5, <1>6, <1>7, <1>8, <1>9 DEF Next, Work, Turns

LEMMA ClearedIsAgreed == Inv /\ ClearPlan => Agreed
<1> SUFFICES ASSUME Inv, ClearPlan PROVE Agreed
  OBVIOUS
<1>1. /\ run.step = "clear" /\ plan # None /\ removal = None /\ ledger # None /\ terraform = {}
      /\ ledger = Target /\ hosts = inventory
  BY DEF ClearPlan, At, Inv, Files, Takeover, Synchronizing, Finishing
<1>2. \A n \in members : /\ label[n] = plan.desired[n] /\ vnic[n] = plan.desired[n]
                         /\ inventory[n] = plan.desired[n]
  BY <1>1 DEF Inv, Renaming, Finishing, Synchronizing
<1>3. \A n \in members : n \in Node /\ plan.desired[n] \in Name
  BY <1>1 DEF Inv, Shape, TypeOK, SyncPlan
<1>4. ASSUME NEW n \in members, label[n] # Slurm(n) PROVE dns[label[n]] = {n}
  <2>1. \A m \in members : plan.desired[m] = plan.desired[n] => m = n
    BY <1>1 DEF Inv, Named, ValidNames, Distinct, Desired
  <2>2. Target[label[n]] = {n}
    BY <1>1, <1>2, <1>3, <1>4, <2>1 DEF Target, Desired
  <2> QED
    BY <1>1, <1>2, <1>3, <2>2 DEF Inv, Updating
<1>5. ASSUME NEW d \in Name, d \notin Wanted \union Aliases PROVE dns[d] \intersect members = {}
  <2>1. Target[d] = {}
    BY <1>5 DEF Target, Wanted
  <2>2. Ledger[d] = {}
    BY <1>1, <2>1 DEF Ledger
  <2>3. Involved = members
    BY <1>1 DEF Involved, Inv, Named, Staying, Shape, TypeOK
  <2>4. ~Covered(d)
    BY <1>1, <1>5, <2>2, <2>3 DEF Covered, Aliases
  <2> QED
    BY <1>1, <2>4 DEF Inv, Cover, Shape, TypeOK
<1> QED
  BY <1>1, <1>2, <1>4, <1>5 DEF Agreed

(* For any nodes, names, stops and mishaps a plan is cleared only when OCI, the *)
(* zone, the ledger, the inventory and /etc/hosts agree on it.                 *)
THEOREM SynchronizedAgree == Spec => SynchronizedNamesAgree
<1>1. Inv /\ [Next]_vars => [plan # None /\ plan' = None => Agreed]_vars
  BY PlanIsCleared, ClearedIsAgreed
<1> QED
  BY <1>1, InvHolds, PTL DEF Spec, SynchronizedNamesAgree
=============================================================================
