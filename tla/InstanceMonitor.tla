-------------------------- MODULE InstanceMonitor --------------------------
(***************************************************************************)
(* autoscaling_instance_monitor.py: every five minutes the inventories and  *)
(* marks, the instances in OCI and the nodes in Slurm are read one after    *)
(* the other and compared; what stays wrong is announced to the             *)
(* administrators, again from time to time, and once more when it is over.  *)
(* publish and its spool are those of autoscaling_failure_notify.py.        *)
(*                                                                         *)
(* One cluster.  Time passes in ticks of the timer, between passes, and the *)
(* ages in the records count up to what is compared with them.  Left out:   *)
(* the ownership tags, ambiguous names, a clock set back.                   *)
(***************************************************************************)
EXTENDS Integers, FiniteSets

CONSTANTS
    Instance, None,
    Grace, Repeat, Gap,  \* grace_seconds, repeat_seconds, max_sample_gap_seconds
    MaxEvents,           \* bound: what happens to the cluster
    MaxMishaps           \* bound: passes that are killed, fail or are missed, failed sends

ASSUME Settings == /\ Grace \in Nat /\ Repeat \in Nat \ {0} /\ Gap \in Nat
                   /\ MaxEvents \in Nat /\ MaxMishaps \in Nat

VARIABLES
    world,      \* the cluster, and whether its state can be read
    records,    \* state.json
    pass,
    open,       \* what the last notice on it said is wrong
    unrecorded, \* open, but unknown to the monitor
    steady,     \* ticks for which every saved snapshot has found it
    ran,        \* the timer has fired in this tick
    events, mishaps

vars == <<world, records, pass, open, unrecorded, steady, ran, events, mishaps>>

Reasons == {"DELETE_STALLED", "BUILD_STALLED", "LOCAL_RECORD_MISSING", "OCI_NOT_RUNNING",
            "SLURM_NODE_MISSING", "SLURM_UNHEALTHY", "QUEUE_CONFIG_MISSING", "IDLE_CLUSTER_RETAINED"}
Unavailable == <<"monitor", "MONITOR_UNAVAILABLE">>
Keys == (Instance \X Reasons) \union {Unavailable}

\* A mark is a file of the local record.
Local == {l \in [known : BOOLEAN, mark : {None, "building", "destroying"}, overdue : BOOLEAN,
                 queue : {None, "permanent", "temporary"}] :
            (l.overdue => l.mark # None) /\ (l.mark # None => l.known)}
States == {"gone", "RUNNING", "STOPPED"}
Nodes == {"missing", "idle", "busy", "down"}
Record == [age : 0..Grace, samples : 0..2, sent : {None} \union 0..Repeat, unseen : 0..Gap + 1]

ASSUME Absent == None \notin Nat /\ None \notin Record

Healthy == [known |-> TRUE, mark |-> None, overdue |-> FALSE, queue |-> "temporary"]
Nothing == [local |-> Healthy, oci |-> [i \in Instance |-> "gone"]]
Idle == [step |-> "idle", seen |-> Nothing, scope |-> {}, found |-> {}, todo |-> {},
         next |-> [k \in Keys |-> None], told |-> {}]
At(s) == pass.step = s

TypeOK ==
    /\ world \in [local : Local, oci : [Instance -> States], slurm : [Instance -> Nodes],
                  readable : BOOLEAN]
    /\ records \in [Keys -> Record \union {None}]
    /\ pass \in [step : {"idle", "oci", "slurm", "report"},
                 seen : [local : Local, oci : [Instance -> States]],
                 scope : SUBSET Keys, found : SUBSET Keys, todo : SUBSET Keys,
                 next : [Keys -> Record \union {None}], told : SUBSET Keys]
    /\ open \subseteq Keys /\ unrecorded \subseteq Keys
    /\ steady \in [Keys -> {None} \union 0..Grace]
    /\ ran \in BOOLEAN /\ events \in 0..MaxEvents /\ mishaps \in 0..MaxMishaps

Init ==
    /\ world = [local |-> Healthy, oci |-> [i \in Instance |-> "RUNNING"],
                slurm |-> [i \in Instance |-> "busy"], readable |-> TRUE]
    /\ records = [k \in Keys |-> None] /\ steady = records
    /\ pass = Idle
    /\ open = {} /\ unrecorded = {} /\ ran = FALSE
    /\ events = 0 /\ mishaps = 0

Mishap == mishaps < MaxMishaps /\ mishaps' = mishaps + 1
UpTo(n, bound) == IF n < bound THEN n + 1 ELSE bound

---------------------------------------------------------------------------
\* findings: the reason an instance is reported for, if any.
Stalled(local) == IF local.mark = "destroying" THEN "DELETE_STALLED" ELSE "BUILD_STALLED"
AllIdle(oci, slurm) == \A i \in Instance : oci[i] # "gone" => slurm[i] = "idle"

Finding(local, oci, slurm, i) ==
    IF oci[i] = "gone" THEN None
    ELSE IF local.mark # None THEN IF local.overdue THEN Stalled(local) ELSE None
    ELSE IF ~local.known THEN "LOCAL_RECORD_MISSING"
    ELSE IF oci[i] # "RUNNING" THEN "OCI_NOT_RUNNING"
    ELSE IF slurm[i] = "missing" THEN "SLURM_NODE_MISSING"
    ELSE IF slurm[i] = "down" THEN "SLURM_UNHEALTHY"
    ELSE IF local.queue = None THEN "QUEUE_CONFIG_MISSING"
    ELSE IF AllIdle(oci, slurm) /\ local.queue = "temporary" THEN "IDLE_CLUSTER_RETAINED"
    ELSE None

Findings(local, oci, slurm) ==
    {k \in Instance \X Reasons : k[2] = Finding(local, oci, slurm, k[1])}

---------------------------------------------------------------------------
\* main: under the lock, one pass at a time.
Start ==
    /\ At("idle") /\ ~ran /\ ran' = TRUE
    /\ pass' = [Idle EXCEPT !.step = "oci", !.seen.local = world.local]
    /\ UNCHANGED <<world, records, open, unrecorded, steady, events, mishaps>>

ReadOCI ==
    /\ At("oci") /\ world.readable
    /\ pass' = [pass EXCEPT !.step = "slurm", !.seen.oci = world.oci]
    /\ UNCHANGED <<world, records, open, unrecorded, steady, ran, events, mishaps>>

\* What is to be compared with what is recorded: after a failed collection, the
\* failure alone, and every other record stays as it is.
Compare(scope, found) ==
    pass' = [Idle EXCEPT !.step = "report", !.scope = scope, !.found = found,
                         !.todo = found \union {k \in scope : records[k] # None},
                         !.next = [k \in Keys |-> IF k \in scope THEN None ELSE records[k]]]

ReadSlurm ==
    /\ At("slurm")
    /\ Compare(Keys, Findings(pass.seen.local, pass.seen.oci, world.slurm))
    /\ UNCHANGED <<world, records, open, unrecorded, steady, ran, events, mishaps>>

CollectionFails ==
    /\ At("oci")
    /\ \/ ~world.readable /\ UNCHANGED mishaps
       \/ Mishap
    /\ Compare({Unavailable}, {Unavailable})
    /\ UNCHANGED <<world, records, open, unrecorded, steady, ran, events>>

---------------------------------------------------------------------------
\* reconcile.  A long gap cannot prove continuous observation.
New == [age |-> 0, samples |-> 0, sent |-> None, unseen |-> 0]
Known(k) == IF records[k] = None THEN New ELSE records[k]

Observed_gaps(k) == [Known(k) EXCEPT !.samples = UpTo(@, 2), !.unseen = 0]

Observed(k) ==
    LET r == IF Known(k).unseen > Gap THEN [Known(k) EXCEPT !.age = 0, !.samples = 0] ELSE Known(k)
    IN  [r EXCEPT !.samples = UpTo(@, 2), !.unseen = 0]

Mature(r) == r.samples >= 2 /\ r.age >= Grace

Due_always(r) == TRUE

Due(r) == r.sent = None \/ r.sent = Repeat

\* publish: the answer may be lost when the notice is not.
Send(delivered, ok) ==
    \/ delivered /\ ok /\ UNCHANGED mishaps
    \/ ~ok /\ delivered \in BOOLEAN /\ Mishap

Alert(k) ==
    /\ At("report") /\ k \in pass.todo \intersect pass.found
    /\ Mature(Observed(k)) /\ Due(Observed(k))
    /\ \E delivered, ok \in BOOLEAN :
        /\ Send(delivered, ok)
        /\ open' = IF delivered THEN open \union {k} ELSE open
        /\ unrecorded' = IF delivered /\ ~ok THEN unrecorded \union {k} ELSE unrecorded
        /\ pass' = [pass EXCEPT !.todo = @ \ {k}, !.told = IF ok THEN @ \union {k} ELSE @,
                        !.next[k] = IF ok THEN [Observed(k) EXCEPT !.sent = 0] ELSE Observed(k)]
    /\ UNCHANGED <<world, records, steady, ran, events>>

Observe(k) ==
    /\ At("report") /\ k \in pass.todo \intersect pass.found
    /\ ~(Mature(Observed(k)) /\ Due(Observed(k)))
    /\ pass' = [pass EXCEPT !.todo = @ \ {k}, !.next[k] = Observed(k)]
    /\ UNCHANGED <<world, records, open, unrecorded, steady, ran, events, mishaps>>

\* What was never announced is forgotten; the rest is kept until it could be.
Forget(k) ==
    /\ At("report") /\ k \in pass.todo \ pass.found /\ records[k].sent = None
    /\ pass' = [pass EXCEPT !.todo = @ \ {k}]
    /\ UNCHANGED <<world, records, open, unrecorded, steady, ran, events, mishaps>>

Recovered_once(k) ==
    /\ At("report") /\ k \in pass.todo \ pass.found /\ records[k].sent # None
    /\ \E delivered, ok \in BOOLEAN :
        /\ Send(delivered, ok)
        /\ open' = IF delivered THEN open \ {k} ELSE open
        /\ unrecorded' = IF delivered THEN unrecorded \ {k} ELSE unrecorded
        /\ pass' = [pass EXCEPT !.todo = @ \ {k}]
    /\ UNCHANGED <<world, records, steady, ran, events>>

Recovered(k) ==
    /\ At("report") /\ k \in pass.todo \ pass.found /\ records[k].sent # None
    /\ \E delivered, ok \in BOOLEAN :
        /\ Send(delivered, ok)
        /\ open' = IF delivered THEN open \ {k} ELSE open
        /\ unrecorded' = IF delivered THEN unrecorded \ {k} ELSE unrecorded
        /\ pass' = [pass EXCEPT !.todo = @ \ {k}, !.next[k] = IF ok THEN None ELSE records[k]]
    /\ UNCHANGED <<world, records, steady, ran, events>>

\* One write after all sends.
Save ==
    /\ At("report") /\ pass.todo = {}
    /\ records' = pass.next
    /\ unrecorded' = unrecorded \ pass.told
    /\ steady' = [k \in Keys |->
                    IF k \in pass.scope \ pass.found THEN None
                    ELSE IF k \in pass.found /\ steady[k] = None THEN 0
                    ELSE steady[k]]
    /\ pass' = Idle
    /\ UNCHANGED <<world, open, ran, events, mishaps>>

Killed ==
    /\ ~At("idle") /\ Mishap
    /\ unrecorded' = unrecorded \union pass.told
    /\ pass' = Idle
    /\ UNCHANGED <<world, records, open, steady, ran, events>>

---------------------------------------------------------------------------
Tick ==
    /\ At("idle")
    /\ \/ ran /\ UNCHANGED mishaps
       \/ ~ran /\ Mishap
    /\ ran' = FALSE
    /\ records' = [k \in Keys |->
                    IF records[k] = None THEN None
                    ELSE [records[k] EXCEPT !.age = UpTo(@, Grace), !.unseen = UpTo(@, Gap + 1),
                                            !.sent = IF @ = None THEN None ELSE UpTo(@, Repeat)]]
    /\ steady' = [k \in Keys |->
                    IF steady[k] = None \/ Known(k).unseen >= Gap THEN None ELSE UpTo(steady[k], Grace)]
    /\ UNCHANGED <<world, pass, open, unrecorded, events>>

\* The cluster lives its life, or does not.
Change ==
    /\ events < MaxEvents /\ events' = events + 1
    /\ \/ \E local \in Local : world' = [world EXCEPT !.local = local]
       \/ \E i \in Instance, s \in States : world' = [world EXCEPT !.oci[i] = s]
       \/ \E i \in Instance, s \in Nodes : world' = [world EXCEPT !.slurm[i] = s]
       \/ world' = [world EXCEPT !.readable = ~@]
    /\ world' # world
    /\ UNCHANGED <<records, pass, open, unrecorded, steady, ran, mishaps>>

Report == \E k \in Keys : Alert(k) \/ Observe(k) \/ Forget(k) \/ Recovered(k)
Work == Start \/ ReadOCI \/ ReadSlurm \/ CollectionFails \/ Report \/ Save

Next == Work \/ Killed \/ Tick \/ Change

Spec == Init /\ [][Next]_vars

\* cron starts every pass, and a pass ends.
Fairness == WF_vars(Work) /\ WF_vars(Tick)

FairSpec == Spec /\ Fairness

---------------------------------------------------------------------------
\* A new alert is raised only for what each saved snapshot of the grace period
\* has found, without a gap: not for what two readings of different moments made
\* up once, nor for what was over in between (reconcile, the freeze in main).
\* What is announced in the monitor's eyes, since the answer to the notice of
\* its end was lost, may come back at once.
Announced(k) == records[k] # None /\ records[k].sent # None

AlertsAreGrounded ==
    [][\A k \in Keys : Alert(k) /\ k \in open' \ open /\ ~Announced(k) => steady[k] = Grace]_vars

\* What is open is announced again only when it is due, or when the monitor
\* cannot know that it was announced.
RepeatsAreDue ==
    [][\A k \in Keys : Alert(k) /\ k \in open \ unrecorded =>
          Announced(k) /\ records[k].sent = Repeat]_vars

\* When nothing changes any more, exactly what is wrong is open, whatever was
\* lost on the way; only an alert of which no record was kept may stay.
TruthIsToldInTheEnd ==
    <>[]LET wrong == IF world.readable
                     THEN Findings(world.local, world.oci, world.slurm)
                     ELSE {Unavailable}
        IN  wrong \subseteq open /\ (world.readable => open \subseteq wrong \union unrecorded)
=============================================================================
