------------------------ MODULE ComputeClusterResize ------------------------
(***************************************************************************)
(* bin/resize.py on a Compute Cluster, whose instances are launched and     *)
(* terminated one by one.  Terraform knows the first instances only; those  *)
(* a resize added are found by listing the cluster.  A removal is journaled *)
(* with the whole membership it was decided on; an addition is not: what is *)
(* known of it when it fails is rolled back.                                *)
(*                                                                         *)
(* How names are synchronized is ComputeNames; here a node has its names or *)
(* has not.  Left out: the wrong availability domain or owner, changed      *)
(* addresses, and the lock of Terraform's state.                            *)
(***************************************************************************)
EXTENDS Integers, FiniteSets

CONSTANTS
    Node, First,   \* instances there may be; those Terraform created
    None,
    MaxStops,      \* bound: runs killed or stopped by an error, launches that fail
    MaxLost        \* bound: instances terminated in the console

ASSUME Cluster == /\ First \subseteq Node /\ First # {} /\ IsFiniteSet(Node)
                  /\ MaxStops \in Nat /\ MaxLost \in Nat
                  /\ None \notin Node

VARIABLES
    place,      \* the state of each instance
    inventory, named,   \* instances in the inventory, and with records in DNS
    journal,    \* the removal that is pending
    plan,       \* the members of the pending synchronization of names
    run, stops, lost

vars == <<place, inventory, named, journal, plan, run, stops, lost>>

\* "late": OCI took the launch but does not list it yet.
Places == {"none", "late", "starting", "running", "failed", "terminating", "terminated"}
Members == {n \in Node : place[n] \in {"starting", "running", "failed", "terminating"}}
Ready == {n \in Node : place[n] = "running"}
External == Members \ First

Steps == {"idle", "plan", "journal", "inspect", "playbook", "complete", "unname", "terminate",
          "terminating", "remaining", "forget", "decide", "select", "write", "launch", "answer",
          "await", "verify", "rollback", "extend", "sync", "synced", "cleanup", "destroyed"}
Modes == {"add", "remove", "reconfigure"}
Journal == [source : SUBSET Node, removals : SUBSET Node, bare : BOOLEAN]

ASSUME Absent == None \notin Journal

\* launched: by this run, as far as an answer came; asked: the launch without one.
Idle == [step |-> "idle", mode |-> "none", count |-> 0, source |-> {}, chosen |-> {},
         launched |-> {}, asked |-> None, active |-> {}, todo |-> {}, target |-> None]
Some(S) == CHOOSE n \in S : TRUE
At(s) == run.step = s
Goto(s) == run' = [run EXCEPT !.step = s]
Exit == run' = Idle

TypeOK ==
    /\ place \in [Node -> Places]
    /\ inventory \subseteq Node /\ named \subseteq Node
    /\ journal \in Journal \union {None} /\ plan \in (SUBSET Node) \union {None}
    /\ run \in [step : Steps, mode : Modes \union {"none"}, count : Nat, source : SUBSET Node,
                chosen : SUBSET Node, launched : SUBSET Node, asked : Node \union {None},
                active : SUBSET Node, todo : SUBSET Node, target : Node \union {None}]
    /\ stops \in 0..MaxStops /\ lost \in 0..MaxLost

Init ==
    /\ place = [n \in Node |-> IF n \in First THEN "running" ELSE "none"]
    /\ inventory = First /\ named = First
    /\ journal = None /\ plan = None
    /\ run = Idle /\ stops = 0 /\ lost = 0

---------------------------------------------------------------------------
Start(mode, count) ==
    /\ At("idle") /\ (mode = "reconfigure" <=> count = 0)
    /\ run' = [Idle EXCEPT !.step = "plan", !.mode = mode, !.count = count]
    /\ UNCHANGED <<place, inventory, named, journal, plan, stops, lost>>

ResumePlan_removalOnly ==
    /\ At("plan")
    /\ Goto(IF journal # None THEN "inspect" ELSE "decide")
    /\ UNCHANGED <<place, inventory, named, journal, plan, stops, lost>>

\* Pending names come first, then a pending removal; either is all that is done.
ResumePlan ==
    /\ At("plan")
    /\ Goto(IF plan # None THEN "sync" ELSE IF journal # None THEN "inspect" ELSE "decide")
    /\ UNCHANGED <<place, inventory, named, journal, plan, stops, lost>>

\* Every member is known, and Terraform's are among them.
MayAdd == inventory = Members /\ First \subseteq Members

Decide ==
    /\ At("decide")
    /\ run.mode = "add" => MayAdd
    /\ run' = [run EXCEPT !.source = Members,
                          !.step = CASE run.mode = "remove" -> "select"
                                     [] run.mode = "add" -> "launch"
                                     [] OTHER -> "extend"]
    /\ UNCHANGED <<place, inventory, named, journal, plan, stops, lost>>

---------------------------------------------------------------------------
\* Removing.  Only nodes that a resize added can go.
Selectable_any == {c \in SUBSET Members : Cardinality(c) = run.count /\ inventory \ c = Members \ c}

Selectable == {c \in SUBSET External : Cardinality(c) = run.count /\ inventory \ c = Members \ c}

MaySelect == First \subseteq Members /\ Selectable # {}

Select ==
    /\ At("select") /\ MaySelect
    /\ \E c \in Selectable :
        run' = [run EXCEPT !.step = "write", !.chosen = c]
    /\ UNCHANGED <<place, inventory, named, journal, plan, stops, lost>>

\* The journal fixes what is removed, and from what.
WriteJournal(bare) ==
    /\ At("write")
    /\ journal' = [source |-> run.source, removals |-> run.chosen, bare |-> bare]
    /\ Goto("playbook")
    /\ UNCHANGED <<place, inventory, named, plan, stops, lost>>

\* The cluster may have neither grown nor lost a survivor while targets are
\* left; when none is left, nothing else matters.
Targets == journal.removals \intersect Members

WithinBoundary ==
    /\ Members \subseteq journal.source
    /\ journal.source \ journal.removals \subseteq Members

MayComplete_strict == WithinBoundary

MayComplete == WithinBoundary \/ Targets = {}

Inspect ==
    /\ At("inspect") /\ MayComplete
    /\ Goto("playbook")
    /\ UNCHANGED <<place, inventory, named, journal, plan, stops, lost>>

\* The playbook takes the targets from the inventory, unless they are gone from
\* it or Ansible is left alone.  It may fail under --force.
Playbook ==
    /\ At("playbook")
    /\ \/ ~journal.bare /\ inventory' = inventory \ journal.removals
       \/ UNCHANGED inventory
    /\ Goto("complete")
    /\ UNCHANGED <<place, named, journal, plan, stops, lost>>

Complete_present ==
    /\ At("complete") /\ MayComplete
    /\ run' = [run EXCEPT !.step = "unname", !.active = Targets, !.todo = Targets]
    /\ UNCHANGED <<place, inventory, named, journal, plan, stops, lost>>

Complete ==
    /\ At("complete") /\ MayComplete
    /\ run' = [run EXCEPT !.step = "unname", !.active = Targets, !.todo = journal.removals]
    /\ UNCHANGED <<place, inventory, named, journal, plan, stops, lost>>

\* One node: its records in DNS, then the instance.
Unname(n) ==
    /\ At("unname") /\ run.todo # {} /\ n = Some(run.todo)
    /\ named' = named \ {n}
    /\ run' = [run EXCEPT !.step = IF n \in run.active THEN "terminate" ELSE "unname",
                          !.target = n, !.todo = @ \ {n}]
    /\ UNCHANGED <<place, inventory, journal, plan, stops, lost>>

Terminate ==
    /\ At("terminate")
    /\ place' = [place EXCEPT ![run.target] = IF @ = "terminated" THEN @ ELSE "terminating"]
    /\ Goto("terminating")
    /\ UNCHANGED <<inventory, named, journal, plan, stops, lost>>

Terminated ==
    /\ At("terminating") /\ place[run.target] = "terminated"
    /\ Goto(IF run.launched = {} THEN "unname" ELSE "rollback")
    /\ UNCHANGED <<place, inventory, named, journal, plan, stops, lost>>

ClearJournal ==
    /\ At("unname") /\ run.todo = {}
    /\ Targets = {}
    /\ journal' = None
    /\ Exit
    /\ UNCHANGED <<place, inventory, named, plan, stops, lost>>

---------------------------------------------------------------------------
Unused == {n \in Node : place[n] = "none"}

\* Adding, one instance after the other.  The answer may be lost, and with it
\* the OCID; then the instance has no more than its new name.
Launch ==
    /\ At("launch") /\ Unused # {}
    /\ LET n == Some(Unused) IN
       /\ \E p \in {"starting", "late"} : place' = [place EXCEPT ![n] = p]
       /\ run' = [run EXCEPT !.step = "answer", !.asked = n, !.count = @ - 1]
    /\ UNCHANGED <<inventory, named, journal, plan, stops, lost>>

Answer ==
    /\ At("answer")
    /\ run' = [run EXCEPT !.step = "await", !.launched = @ \union {run.asked}, !.target = run.asked,
                          !.asked = None]
    /\ UNCHANGED <<place, inventory, named, journal, plan, stops, lost>>

Await ==
    /\ At("await")
    /\ place[run.target] = "running"
    /\ Goto(IF run.count > 0 THEN "launch" ELSE "verify")
    /\ UNCHANGED <<place, inventory, named, journal, plan, stops, lost>>

\* Refused, unanswered, failed or too late.
LaunchFails ==
    /\ \/ run.step \in {"launch", "answer", "await"} /\ stops < MaxStops /\ stops' = stops + 1
       \/ At("await") /\ place[run.target] \in {"failed", "terminating", "terminated"}
            /\ UNCHANGED stops
    /\ Goto("rollback")
    /\ UNCHANGED <<place, inventory, named, journal, plan, lost>>

\* As many more as were asked for; which, is not compared.
AsExpected ==
    /\ Cardinality(Members) = Cardinality(run.source) + Cardinality(run.launched)
    /\ Cardinality(Members \ run.source) = Cardinality(run.launched)

Verify ==
    /\ At("verify")
    /\ IF AsExpected
       THEN Goto("extend") \/ Exit        \* --no_reconfigure
       ELSE Goto("rollback")
    /\ UNCHANGED <<place, inventory, named, journal, plan, stops, lost>>

\* What was launched, by its OCID, or by its name if it is listed by now.
Traceable == (run.launched \union ({run.asked} \ {None})) \intersect Members
RollbackOne(n) ==
    /\ At("rollback") /\ Traceable # {} /\ n = Some(Traceable)
    /\ place' = [place EXCEPT ![n] = "terminating"]
    /\ run' = [run EXCEPT !.step = "terminating", !.target = n,
                          !.launched = @ \union {n}, !.asked = IF @ = n THEN None ELSE @]
    /\ UNCHANGED <<inventory, named, journal, plan, stops, lost>>

RolledBack ==
    /\ At("rollback") /\ Traceable = {}
    /\ Exit
    /\ UNCHANGED <<place, inventory, named, journal, plan, stops, lost>>

\* reconfigure lists the members in the inventory, add_reconfigure appends them.
Extend ==
    /\ At("extend")
    /\ inventory' = IF run.mode = "add" THEN inventory \union Members ELSE Members
    /\ Goto("sync")
    /\ UNCHANGED <<place, named, journal, plan, stops, lost>>

\* synchronize_instance_pool_names
MaySync == journal = None /\ inventory = Ready /\ inventory = Members /\ plan \in {None, Members}

Synchronize ==
    /\ At("sync") /\ MaySync
    /\ plan' = Members
    /\ Goto("synced")
    /\ UNCHANGED <<place, inventory, named, journal, stops, lost>>

Synchronized ==
    /\ At("synced")
    /\ named' = plan /\ plan' = None
    /\ Exit
    /\ UNCHANGED <<place, inventory, journal, stops, lost>>

---------------------------------------------------------------------------
\* Before the cluster is destroyed: all names, then what Terraform cannot know.
Cleanup ==
    /\ At("idle")
    /\ named' = {}
    /\ run' = [Idle EXCEPT !.step = "cleanup", !.todo = External]
    /\ UNCHANGED <<place, inventory, journal, plan, stops, lost>>

CleanUpOne(n) ==
    /\ At("cleanup") /\ run.todo # {} /\ n = Some(run.todo)
    /\ place' = [place EXCEPT ![n] = IF @ = "terminated" THEN @ ELSE "terminating"]
    /\ run' = [run EXCEPT !.todo = @ \ {n}]
    /\ UNCHANGED <<inventory, named, journal, plan, stops, lost>>

Destroy ==
    /\ At("cleanup") /\ run.todo = {} /\ External = {}
    /\ place' = [n \in Node |-> IF n \in First THEN "terminated" ELSE place[n]]
    /\ Goto("destroyed")
    /\ UNCHANGED <<inventory, named, journal, plan, stops, lost>>

---------------------------------------------------------------------------
Permitted ==
    CASE At("inspect") -> MayComplete
      [] At("complete") -> MayComplete
      [] At("select") -> MaySelect
      [] At("decide") -> run.mode = "add" => MayAdd
      [] At("launch") -> Unused # {}
      [] At("sync") -> MaySync
      [] At("cleanup") -> run.todo # {} \/ \A n \in External : place[n] = "terminating"
      [] OTHER -> TRUE

Refuse ==
    /\ ~Permitted
    /\ Exit
    /\ UNCHANGED <<place, inventory, named, journal, plan, stops, lost>>

Stop ==
    /\ run.step \notin {"idle", "destroyed"} /\ stops < MaxStops
    /\ stops' = stops + 1
    /\ Exit
    /\ UNCHANGED <<place, inventory, named, journal, plan, lost>>

\* OCI, and the console.
Appear(n) ==
    /\ \/ place[n] = "late" /\ place' = [place EXCEPT ![n] = "starting"]
       \/ place[n] = "starting" /\ \E p \in {"running", "failed"} : place' = [place EXCEPT ![n] = p]
       \/ place[n] = "terminating" /\ place' = [place EXCEPT ![n] = "terminated"]
    /\ UNCHANGED <<inventory, named, journal, plan, run, stops, lost>>

Lose(n) ==
    /\ n \in Members /\ place[n] # "terminating" /\ lost < MaxLost
    /\ place' = [place EXCEPT ![n] = "terminating"]
    /\ lost' = lost + 1
    /\ UNCHANGED <<inventory, named, journal, plan, run, stops>>

Work ==
    \/ ResumePlan \/ Decide \/ Select \/ \E bare \in BOOLEAN : WriteJournal(bare)
    \/ Inspect \/ Playbook \/ Complete
    \/ Terminate \/ Terminated \/ ClearJournal
    \/ Launch \/ Answer \/ Await \/ Verify \/ RolledBack \/ Extend \/ Synchronize \/ Synchronized
    \/ Destroy \/ Refuse
    \/ \E n \in Node : Unname(n) \/ RollbackOne(n) \/ CleanUpOne(n)

OCI == \E n \in Node : Appear(n)

Next ==
    \/ \E mode \in Modes, k \in 0..Cardinality(Node \ First) : Start(mode, k)
    \/ Cleanup \/ Work \/ LaunchFails \/ Stop \/ OCI
    \/ \E n \in Node : Lose(n)

Spec == Init /\ [][Next]_vars

Fairness == WF_vars(Work) /\ WF_vars(OCI)
            /\ SF_vars(\E mode \in Modes, k \in 0..Cardinality(Node \ First) : Start(mode, k))

FairSpec == Spec /\ Fairness

---------------------------------------------------------------------------
\* A resize takes down nothing but what the journal names or what it launched
\* itself, and never one of Terraform's: whatever was interrupted, and however
\* the membership has changed since (terminate_instance_and_delete_launch_volumes
\* in the removal and in the rollback).
OnlyCommittedRemovals ==
    [][\A n \in Node :
          (Terminate \/ RollbackOne(n)) /\ place[n] \in {"starting", "running", "failed"}
              /\ place'[n] = "terminating"
          => n \notin First /\ (n \in run'.launched \/ n \in journal.removals)]_vars

\* When the removal is forgotten, each of its nodes is gone, and its names are
\* gone from DNS: no run after it would look for them.
RemovalIsComplete ==
    [][journal # None /\ journal' = None =>
          \A n \in journal.removals : place[n] = "terminated" /\ n \notin named]_vars

\* Pending names and a pending removal refuse each other's work, so never may
\* both be pending: no command but the deletion of the cluster would help.
NeverBothPending == journal = None \/ plan = None

\* A committed removal is completed by any later run, unless the membership
\* left its boundary while a target was up, or the cluster is destroyed.
RemovalsEnd ==
    [](journal # None =>
          <>(journal = None \/ At("destroyed") \/ (Targets # {} /\ ~WithinBoundary)))
=============================================================================
