------------------------ MODULE InstanceMonitorProofs ------------------------
(* Proofs about InstanceMonitor: when an incident is announced, and when    *)
(* again, for any instances, periods, events and mishaps.                   *)
EXTENDS InstanceMonitor, TLAPS

\* A record has been observed at least once.
Kept == {r \in Record : r.samples >= 1}
Book == [Keys -> Kept \union {None}]

Shaped ==
    /\ records \in Book /\ pass.next \in Book
    /\ steady \in [Keys -> {None} \union 0..Grace]
    /\ pass = [step |-> pass.step, seen |-> pass.seen, scope |-> pass.scope, found |-> pass.found,
               todo |-> pass.todo, next |-> pass.next, told |-> pass.told]

Told(r) == r \in Kept /\ r.sent # None

LEMMA UpToBounds ==
  ASSUME NEW b \in Nat, NEW n \in 0..b
  PROVE  UpTo(n, b) \in 0..b /\ UpTo(n, b) >= n /\ (b >= 1 => UpTo(n, b) >= 1)
  BY DEF UpTo

LEMMA KnownIsRecord ==
  ASSUME Shaped, NEW k \in Keys
  PROVE  Known(k) \in Record /\ (Known(k).sent # None => Told(records[k]) /\ Known(k) = records[k])
<1>1. CASE records[k] = None
  <2>1. Known(k) = New
    BY <1>1 DEF Known
  <2>2. New \in Record /\ New.sent = None
    BY Settings DEF New, Record
  <2> QED
    BY <2>1, <2>2
<1>2. CASE records[k] # None
  <2>1. Known(k) = records[k] /\ records[k] \in Kept
    BY <1>2 DEF Known, Shaped, Book
  <2> QED
    BY <2>1 DEF Kept, Told
<1> QED
  BY <1>1, <1>2

LEMMA ObservedIsKept ==
  ASSUME Shaped, NEW k \in Keys
  PROVE  /\ Observed(k) \in Kept /\ Observed(k).sent = Known(k).sent
         /\ Known(k).unseen > Gap => Observed(k).age = 0 /\ Observed(k).samples = 1
         /\ Known(k).unseen <= Gap => /\ Observed(k).age = Known(k).age
                                      /\ Observed(k).samples = UpTo(Known(k).samples, 2)
         /\ Observed(k).unseen = 0
<1> DEFINE base == IF Known(k).unseen > Gap
                   THEN [Known(k) EXCEPT !.age = 0, !.samples = 0] ELSE Known(k)
<1>1. Known(k) \in Record
  BY KnownIsRecord
<1>2. base \in Record /\ base.sent = Known(k).sent
  <2>1. CASE Known(k).unseen > Gap
    <3>1. base = [Known(k) EXCEPT !.age = 0, !.samples = 0]
      BY <2>1
    <3>2. 0 \in 0..Grace /\ 0 \in 0..2
      BY Settings
    <3> QED
      BY <1>1, <3>1, <3>2 DEF Record
  <2>2. CASE ~(Known(k).unseen > Gap)
    BY <1>1, <2>2
  <2> QED
    BY <2>1, <2>2
<1>3. UpTo(base.samples, 2) \in 1..2
  BY <1>2 DEF UpTo, Record
<1>4. Observed(k) = [base EXCEPT !.samples = UpTo(base.samples, 2), !.unseen = 0]
  BY <1>2 DEF Observed, Record
<1> HIDE DEF base
<1>5. Observed(k) \in Kept /\ Observed(k).sent = base.sent /\ Observed(k).unseen = 0
      /\ Observed(k).age = base.age /\ Observed(k).samples = UpTo(base.samples, 2)
  <2>1. 0 \in 0..Gap + 1
    BY Settings
  <2>2. UpTo(base.samples, 2) \in 0..2 /\ UpTo(base.samples, 2) >= 1
    BY <1>3
  <2>3. Observed(k) \in Record /\ Observed(k).samples = UpTo(base.samples, 2)
        /\ Observed(k).sent = base.sent /\ Observed(k).unseen = 0 /\ Observed(k).age = base.age
    BY <1>2, <1>4, <2>1, <2>2 DEF Record
  <2> QED
    BY <2>2, <2>3 DEF Kept
<1>6. Known(k).unseen > Gap => base.age = 0 /\ UpTo(base.samples, 2) = 1
  BY <1>1 DEF base, UpTo, Record
<1>7. Known(k).unseen <= Gap => base = Known(k)
  BY <1>1, Settings DEF base, Record
<1> QED
  BY <1>2, <1>5, <1>6, <1>7

\* A notice that the publisher accepts is kept as just sent.
LEMMA SentIsKept ==
  ASSUME NEW r \in Kept
  PROVE  [r EXCEPT !.sent = 0] \in Kept /\ [r EXCEPT !.sent = 0].sent = 0 /\ 0 # None
  BY Absent, Settings DEF Kept, Record

---------------------------------------------------------------------------
\* What a step of the report does to its incident, and to no other.
Handles(k, r) ==
    /\ At("report") /\ k \in pass.todo
    /\ pass'.step = "report" /\ pass'.todo = pass.todo \ {k}
    /\ pass'.scope = pass.scope /\ pass'.found = pass.found
    /\ pass'.next = [pass.next EXCEPT ![k] = r]
    /\ pass' = [step |-> pass'.step, seen |-> pass'.seen, scope |-> pass'.scope,
                found |-> pass'.found, todo |-> pass'.todo, next |-> pass'.next,
                told |-> pass'.told]
    /\ UNCHANGED <<records, steady>>

LEMMA AlertHandles ==
  ASSUME Shaped, NEW k \in Keys, Alert(k)
  PROVE  /\ k \in pass.found
         /\ \/ /\ Handles(k, [Observed(k) EXCEPT !.sent = 0])
               /\ pass'.told = pass.told \union {k}
               /\ open' = open \union {k} /\ unrecorded' = unrecorded
            \/ /\ Handles(k, Observed(k)) /\ pass'.told = pass.told
               /\ \/ open' = open \union {k} /\ unrecorded' = unrecorded \union {k}
                  \/ open' = open /\ unrecorded' = unrecorded
<1> USE DEF Shaped, Handles
<1>1. PICK delivered \in BOOLEAN, ok \in BOOLEAN :
        /\ Send(delivered, ok)
        /\ open' = IF delivered THEN open \union {k} ELSE open
        /\ unrecorded' = IF delivered /\ ~ok THEN unrecorded \union {k} ELSE unrecorded
        /\ pass' = [pass EXCEPT !.todo = @ \ {k}, !.told = IF ok THEN @ \union {k} ELSE @,
                        !.next[k] = IF ok THEN [Observed(k) EXCEPT !.sent = 0] ELSE Observed(k)]
  BY DEF Alert
<1>2. ok => delivered
  BY <1>1 DEF Send
<1>3. At("report") /\ k \in pass.todo /\ k \in pass.found /\ UNCHANGED <<records, steady>>
  BY DEF Alert
<1>4. CASE ok
  <2>1. pass' = [pass EXCEPT !.todo = @ \ {k}, !.told = @ \union {k},
                             !.next[k] = [Observed(k) EXCEPT !.sent = 0]]
    BY <1>1, <1>4
  <2>2. Handles(k, [Observed(k) EXCEPT !.sent = 0]) /\ pass'.told = pass.told \union {k}
    BY <1>3, <2>1 DEF At
  <2> QED
    BY <1>1, <1>2, <1>3, <1>4, <2>2
<1>5. CASE ~ok
  <2>1. pass' = [pass EXCEPT !.todo = @ \ {k}, !.next[k] = Observed(k)]
    <3>1. pass' = [pass EXCEPT !.todo = @ \ {k}, !.told = @, !.next[k] = Observed(k)]
      BY <1>1, <1>5
    <3> QED
      BY <3>1
  <2>2. Handles(k, Observed(k)) /\ pass'.told = pass.told
    BY <1>3, <2>1 DEF At
  <2> QED
    BY <1>1, <1>3, <1>5, <2>2
<1> QED
  BY <1>4, <1>5

LEMMA ObserveHandles ==
  ASSUME Shaped, NEW k \in Keys, Observe(k)
  PROVE  k \in pass.found /\ Handles(k, Observed(k)) /\ pass'.told = pass.told
         /\ UNCHANGED <<open, unrecorded>>
  BY DEF Observe, Shaped, Handles, At

LEMMA ForgetHandles ==
  ASSUME Shaped, NEW k \in Keys, Forget(k)
  PROVE  k \notin pass.found /\ Handles(k, pass.next[k]) /\ pass'.told = pass.told
         /\ records[k].sent = None /\ UNCHANGED <<open, unrecorded>>
<1>1. pass.next = [pass.next EXCEPT ![k] = pass.next[k]]
  BY DEF Shaped, Book
<1> QED
  BY <1>1 DEF Forget, Shaped, Handles, At

LEMMA RecoveredHandles ==
  ASSUME Shaped, NEW k \in Keys, Recovered(k)
  PROVE  /\ k \notin pass.found /\ records[k].sent # None /\ pass'.told = pass.told
         /\ \/ /\ Handles(k, None) /\ open' = open \ {k} /\ unrecorded' = unrecorded \ {k}
            \/ /\ Handles(k, records[k])
               /\ \/ open' = open \ {k} /\ unrecorded' = unrecorded \ {k}
                  \/ open' = open /\ unrecorded' = unrecorded
<1> USE DEF Shaped, Handles
<1>1. PICK delivered \in BOOLEAN, ok \in BOOLEAN :
        /\ Send(delivered, ok)
        /\ open' = IF delivered THEN open \ {k} ELSE open
        /\ unrecorded' = IF delivered THEN unrecorded \ {k} ELSE unrecorded
        /\ pass' = [pass EXCEPT !.todo = @ \ {k}, !.next[k] = IF ok THEN None ELSE records[k]]
  BY DEF Recovered
<1>2. ok => delivered
  BY <1>1 DEF Send
<1>3. At("report") /\ k \in pass.todo /\ k \notin pass.found /\ records[k].sent # None
      /\ UNCHANGED <<records, steady>>
  BY DEF Recovered
<1>4. Handles(k, IF ok THEN None ELSE records[k]) /\ pass'.told = pass.told
  BY <1>1, <1>3 DEF At
<1> QED
  BY <1>1, <1>2, <1>3, <1>4

LEMMA HandledStaysShaped ==
  ASSUME Shaped, NEW k \in Keys, NEW r \in Kept \union {None}, Handles(k, r)
  PROVE  Shaped'
  BY DEF Shaped, Book, Handles

LEMMA ReportStaysShaped == ASSUME Shaped, Report PROVE Shaped'
<1>1. PICK k \in Keys : Alert(k) \/ Observe(k) \/ Forget(k) \/ Recovered(k)
  BY DEF Report
<1>2. Observed(k) \in Kept /\ [Observed(k) EXCEPT !.sent = 0] \in Kept
  BY ObservedIsKept, SentIsKept
<1>3. records[k] \in Kept \union {None} /\ pass.next[k] \in Kept \union {None}
  BY DEF Shaped, Book
<1>4. CASE Alert(k)
  BY <1>2, <1>4, AlertHandles, HandledStaysShaped
<1>5. CASE Observe(k)
  BY <1>2, <1>5, ObserveHandles, HandledStaysShaped
<1>6. CASE Forget(k)
  BY <1>3, <1>6, ForgetHandles, HandledStaysShaped
<1>7. CASE Recovered(k)
  BY <1>3, <1>7, RecoveredHandles, HandledStaysShaped
<1> QED
  BY <1>1, <1>4, <1>5, <1>6, <1>7

LEMMA ShapedInit == Init => Shaped
  BY Settings DEF Init, Shaped, Book, Idle

LEMMA Compared ==
  ASSUME Shaped, NEW scope, NEW found, Compare(scope, found), UNCHANGED <<records, steady>>
  PROVE  /\ Shaped'
         /\ pass'.step = "report" /\ pass'.scope = scope /\ pass'.found = found
         /\ pass'.todo = found \union {k \in scope : records[k] # None}
         /\ pass'.next = [k \in Keys |-> IF k \in scope THEN None ELSE records[k]]
         /\ pass'.told = {}
  BY DEF Compare, Idle, Shaped, Book

LEMMA TickKeeps ==
  ASSUME Shaped, Tick, NEW k \in Keys
  PROVE  /\ records'[k] \in Kept \union {None}
         /\ records[k] = None => records'[k] = None
         /\ records[k] # None =>
              /\ records'[k] \in Kept
              /\ records'[k].age = UpTo(records[k].age, Grace)
              /\ records'[k].unseen = UpTo(records[k].unseen, Gap + 1)
              /\ records'[k].samples = records[k].samples
              /\ records'[k].sent = None <=> records[k].sent = None
<1>1. CASE records[k] = None
  BY <1>1 DEF Tick
<1>2. CASE records[k] # None
  <2> DEFINE r == records[k]
             s == IF r.sent = None THEN None ELSE UpTo(r.sent, Repeat)
  <2>1. r \in Kept /\ r \in Record
    BY <1>2 DEF Shaped, Book, Kept
  <2>2. records'[k] = [r EXCEPT !.age = UpTo(@, Grace), !.unseen = UpTo(@, Gap + 1),
                                !.sent = IF @ = None THEN None ELSE UpTo(@, Repeat)]
    BY <1>2 DEF Tick
  <2>3. UpTo(r.age, Grace) \in 0..Grace /\ UpTo(r.unseen, Gap + 1) \in 0..Gap + 1
    BY <2>1, Settings DEF UpTo, Record
  <2>4. s \in {None} \union 0..Repeat /\ (s = None <=> r.sent = None)
    <3>1. CASE r.sent = None
      BY <3>1
    <3>2. CASE r.sent # None
      <4>1. r.sent \in 0..Repeat
        BY <2>1, <3>2 DEF Record
      <4>2. UpTo(r.sent, Repeat) \in 0..Repeat
        BY <4>1, Settings DEF UpTo
      <4> QED
        BY <3>2, <4>2, Absent
    <3> QED
      BY <3>1, <3>2
  <2>5. records'[k] = [age |-> UpTo(r.age, Grace), samples |-> r.samples, sent |-> s,
                       unseen |-> UpTo(r.unseen, Gap + 1)]
    BY <2>1, <2>2 DEF Record
  <2> HIDE DEF s
  <2> QED
    BY <1>2, <2>1, <2>3, <2>4, <2>5 DEF Kept, Record
<1> QED
  BY <1>1, <1>2

LEMMA ShapedNext == Shaped /\ [Next]_vars => Shaped'
<1> SUFFICES ASSUME Shaped, [Next]_vars PROVE Shaped'
  OBVIOUS
<1>1. CASE Start
  BY <1>1 DEF Start, Idle, Shaped, Book
<1>2. CASE ReadOCI
  BY <1>2 DEF ReadOCI, Shaped
<1>3. CASE ReadSlurm
  BY <1>3, Compared DEF ReadSlurm
<1>4. CASE CollectionFails
  BY <1>4, Compared DEF CollectionFails
<1>5. CASE Report
  BY <1>5, ReportStaysShaped
<1>6. CASE Save
  <2>1. steady' \in [Keys -> {None} \union 0..Grace]
    BY <1>6, Settings DEF Save, Shaped
  <2>2. records' \in Book
    BY <1>6 DEF Save, Shaped
  <2> QED
    BY <1>6, <2>1, <2>2 DEF Save, Idle, Shaped, Book
<1>7. CASE Killed
  BY <1>7 DEF Killed, Idle, Shaped, Book
<1>8. CASE Tick
  <2>1. records' \in Book
    <3>1. \A k \in Keys : records'[k] \in Kept \union {None}
      BY <1>8, TickKeeps
    <3>2. records' = [k \in Keys |-> records'[k]]
      BY <1>8 DEF Tick
    <3> QED
      BY <3>1, <3>2 DEF Book
  <2>2. steady' \in [Keys -> {None} \union 0..Grace]
    <3>1. \A k \in Keys : steady[k] # None => UpTo(steady[k], Grace) \in 0..Grace
      BY Settings DEF Shaped, UpTo
    <3>2. steady' = [k \in Keys |-> IF steady[k] = None \/ Known(k).unseen >= Gap
                                    THEN None ELSE UpTo(steady[k], Grace)]
      BY <1>8 DEF Tick
    <3> QED
      BY <3>1, <3>2
  <2> QED
    BY <1>8, <2>1, <2>2 DEF Tick, Shaped
<1>9. CASE Change
  BY <1>9 DEF Change, Shaped
<1>10. CASE UNCHANGED vars
  BY <1>10 DEF vars, Shaped
<1> QED
  BY <1>1, <1>2, <1>3, <1>4, <1>5, <1>6, <1>7, <1>8, <1>9, <1>10 DEF Next, Work

---------------------------------------------------------------------------
(* The rest of the types: what Shaped leaves open.                           *)

Snapshot == [local : Local, oci : [Instance -> States]]

Around ==
    /\ world \in [local : Local, oci : [Instance -> States], slurm : [Instance -> Nodes],
                  readable : BOOLEAN]
    /\ pass.step \in {"idle", "oci", "slurm", "report"} /\ pass.seen \in Snapshot
    /\ pass.scope \subseteq Keys /\ pass.found \subseteq Keys /\ pass.todo \subseteq Keys
    /\ pass.told \subseteq Keys
    /\ open \subseteq Keys /\ unrecorded \subseteq Keys
    /\ ran \in BOOLEAN /\ events \in 0..MaxEvents /\ mishaps \in 0..MaxMishaps

LEMMA StartsEmpty ==
  /\ Healthy \in Local /\ Nothing \in Snapshot
  /\ Idle.step = "idle" /\ Idle.seen = Nothing /\ Idle.told = {}
  /\ Idle.scope = {} /\ Idle.found = {} /\ Idle.todo = {}
<1>1. Healthy \in Local
  BY DEF Healthy, Local
<1> QED
  BY <1>1 DEF Nothing, Snapshot, States, Idle

LEMMA AroundInit == Init => Around
<1> SUFFICES ASSUME Init PROVE Around
  OBVIOUS
<1>1. world \in [local : Local, oci : [Instance -> States], slurm : [Instance -> Nodes],
                 readable : BOOLEAN]
  BY StartsEmpty DEF Init, States, Nodes
<1>2. pass.step = "idle" /\ pass.seen \in Snapshot /\ pass.told = {}
      /\ pass.scope = {} /\ pass.found = {} /\ pass.todo = {}
  BY StartsEmpty DEF Init
<1>3. 0 \in 0..MaxEvents /\ 0 \in 0..MaxMishaps
  BY Settings
<1> QED
  BY <1>1, <1>2, <1>3 DEF Init, Around

LEMMA MishapCounts == ASSUME Around, Mishap PROVE mishaps' \in 0..MaxMishaps
  BY Settings DEF Around, Mishap

LEMMA AroundReport == ASSUME Shaped, Around, Report PROVE Around'
<1>1. PICK k \in Keys : Alert(k) \/ Observe(k) \/ Forget(k) \/ Recovered(k)
  BY DEF Report
<1>2. UNCHANGED <<world, ran, events>> /\ mishaps' \in 0..MaxMishaps
  <2>1. UNCHANGED <<world, ran, events>> /\ (UNCHANGED mishaps \/ Mishap)
    BY <1>1 DEF Alert, Observe, Forget, Recovered, Send
  <2> QED
    BY <2>1, MishapCounts DEF Around
<1>3. pass'.seen = pass.seen
  BY <1>1 DEF Alert, Observe, Forget, Recovered, Shaped
<1>4. PICK r : Handles(k, r)
  BY <1>1, AlertHandles, ObserveHandles, ForgetHandles, RecoveredHandles
<1>5. pass'.told \subseteq Keys /\ open' \subseteq Keys /\ unrecorded' \subseteq Keys
  BY <1>1, AlertHandles, ObserveHandles, ForgetHandles, RecoveredHandles DEF Around
<1> QED
  BY <1>2, <1>3, <1>4, <1>5 DEF Around, Handles

LEMMA AroundCompared ==
  ASSUME Shaped, Around, NEW scope \in SUBSET Keys, NEW found \in SUBSET Keys, Compare(scope, found),
         UNCHANGED <<world, records, steady, open, unrecorded, ran, events>>,
         mishaps' \in 0..MaxMishaps
  PROVE  Around'
<1>1. /\ pass'.step = "report" /\ pass'.scope = scope /\ pass'.found = found
      /\ pass'.todo = found \union {k \in scope : records[k] # None}
      /\ pass'.told = {}
  BY Compared
<1>2. pass'.seen = Nothing
  BY StartsEmpty DEF Compare, Idle
<1> QED
  BY <1>1, <1>2, StartsEmpty DEF Around

LEMMA AroundNext == Shaped /\ Around /\ [Next]_vars => Around'
<1> SUFFICES ASSUME Shaped, Around, [Next]_vars PROVE Around'
  OBVIOUS
<1>1. CASE Start
  <2>1. /\ pass'.step = "oci" /\ pass'.seen = [Nothing EXCEPT !.local = world.local]
        /\ pass'.scope = {} /\ pass'.found = {} /\ pass'.todo = {} /\ pass'.told = {}
    BY <1>1 DEF Start, Idle
  <2>2. pass'.seen \in Snapshot
    BY <2>1, StartsEmpty DEF Around, Snapshot
  <2> QED
    BY <1>1, <2>1, <2>2 DEF Around, Start
<1>2. CASE ReadOCI
  <2>1. /\ pass'.step = "slurm" /\ pass'.seen = [pass.seen EXCEPT !.oci = world.oci]
        /\ pass'.scope = pass.scope /\ pass'.found = pass.found /\ pass'.todo = pass.todo
        /\ pass'.told = pass.told
    BY <1>2 DEF ReadOCI, Shaped
  <2>2. pass'.seen \in Snapshot
    BY <2>1 DEF Around, Snapshot
  <2> QED
    BY <1>2, <2>1, <2>2 DEF Around, ReadOCI
<1>3. CASE ReadSlurm
  <2>1. Findings(pass.seen.local, pass.seen.oci, world.slurm) \in SUBSET Keys
    BY DEF Findings, Keys
  <2> QED
    BY <1>3, <2>1, AroundCompared DEF ReadSlurm, Around
<1>4. CASE CollectionFails
  <2>1. mishaps' \in 0..MaxMishaps
    BY <1>4, MishapCounts DEF CollectionFails, Around
  <2>2. {Unavailable} \in SUBSET Keys
    BY DEF Keys
  <2> QED
    BY <1>4, <2>1, <2>2, AroundCompared DEF CollectionFails
<1>5. CASE Report
  BY <1>5, AroundReport
<1>6. CASE Save
  BY <1>6, StartsEmpty DEF Save, Around
<1>7. CASE Killed
  BY <1>7, StartsEmpty, MishapCounts DEF Killed, Around
<1>8. CASE Tick
  <2>1. mishaps' \in 0..MaxMishaps
    BY <1>8, MishapCounts DEF Tick, Around
  <2> QED
    BY <1>8, <2>1 DEF Tick, Around
<1>9. CASE Change
  <2>1. events' \in 0..MaxEvents
    BY <1>9, Settings DEF Change, Around
  <2> DEFINE Seen == world \in [local : Local, oci : [Instance -> States],
                                slurm : [Instance -> Nodes], readable : BOOLEAN]
  <2>2. Seen'
    <3>1. ASSUME NEW local \in Local, world' = [world EXCEPT !.local = local] PROVE Seen'
      BY <3>1 DEF Around
    <3>2. ASSUME NEW i \in Instance, NEW s \in States, world' = [world EXCEPT !.oci[i] = s] PROVE Seen'
      BY <3>2 DEF Around
    <3>3. ASSUME NEW i \in Instance, NEW s \in Nodes, world' = [world EXCEPT !.slurm[i] = s] PROVE Seen'
      BY <3>3 DEF Around
    <3>4. CASE world' = [world EXCEPT !.readable = ~@]
      BY <3>4 DEF Around
    <3> QED
      BY <1>9, <3>1, <3>2, <3>3, <3>4 DEF Change
  <2> QED
    BY <1>9, <2>1, <2>2 DEF Change, Around
<1>10. CASE UNCHANGED vars
  BY <1>10 DEF vars, Around
<1> QED
  BY <1>1, <1>2, <1>3, <1>4, <1>5, <1>6, <1>7, <1>8, <1>9, <1>10 DEF Next, Work

\* The cluster, what was read of it, every record and all the books keep their
\* types, for any periods, instances, events and mishaps.
THEOREM TypeCorrect == Spec => []TypeOK
<1>1. Shaped /\ Around => TypeOK
  BY DEF Shaped, Around, Snapshot, Book, Kept, TypeOK
<1>2. Init => Shaped /\ Around
  BY ShapedInit, AroundInit
<1>3. Shaped /\ Around /\ [Next]_vars => (Shaped /\ Around)'
  BY ShapedNext, AroundNext
<1> QED
  BY <1>1, <1>2, <1>3, PTL DEF Spec

---------------------------------------------------------------------------
\* What is open and not unrecorded is known as announced: in state.json, or in
\* what the pass is going to write there.
Recalled == \A k \in Keys : k \in open \ unrecorded => Told(records[k]) \/ k \in pass.told
Retained == \A k \in Keys : k \in (open \ unrecorded) \ pass.todo => Told(pass.next[k])
Announcing == \A k \in Keys : k \in pass.told => Told(pass.next[k]) /\ k \notin pass.todo

Remembered ==
    /\ Recalled /\ Announcing
    /\ IF At("report") THEN Retained ELSE pass.told = {}

LEMMA RememberedReport == ASSUME Shaped, Remembered, Report PROVE Remembered'
<1>1. PICK k \in Keys : Alert(k) \/ Observe(k) \/ Forget(k) \/ Recovered(k)
  BY DEF Report
<1> USE DEF Remembered, Recalled, Retained, Announcing, Handles, At
<1>2. /\ Observed(k) \in Kept /\ Observed(k).sent = Known(k).sent
      /\ Told(records[k]) => Told(Observed(k))
  <2>1. Observed(k) \in Kept /\ Observed(k).sent = Known(k).sent
    BY ObservedIsKept
  <2>2. Told(records[k]) => Known(k) = records[k]
    BY Absent DEF Known, Told, Kept
  <2> QED
    BY <2>1, <2>2 DEF Told
<1>3. Told([Observed(k) EXCEPT !.sent = 0])
  BY <1>2, SentIsKept DEF Told
<1>4. \A r : Handles(k, r) =>
        /\ pass'.next[k] = r
        /\ \A j \in Keys : j # k => pass'.next[j] = pass.next[j]
        /\ \A j \in Keys : j \in pass'.todo <=> j \in pass.todo /\ j # k
  BY DEF Shaped, Book
<1>5. At("report") /\ k \in pass.todo /\ k \notin pass.told
  BY <1>1 DEF Alert, Observe, Forget, Recovered
<1>6. k \in open \ unrecorded => Told(records[k])
  BY <1>5
<1>7. CASE Alert(k)
  <2>1. CASE /\ Handles(k, [Observed(k) EXCEPT !.sent = 0])
             /\ pass'.told = pass.told \union {k}
             /\ open' = open \union {k} /\ unrecorded' = unrecorded
    BY <1>3, <1>4, <1>5, <2>1
  <2>2. CASE /\ Handles(k, Observed(k)) /\ pass'.told = pass.told
             /\ \/ open' = open \union {k} /\ unrecorded' = unrecorded \union {k}
                \/ open' = open /\ unrecorded' = unrecorded
    BY <1>2, <1>4, <1>5, <1>6, <2>2
  <2> QED
    BY <1>7, <2>1, <2>2, AlertHandles
<1>8. CASE Observe(k)
  <2>1. /\ Handles(k, Observed(k)) /\ pass'.told = pass.told
        /\ open' = open /\ unrecorded' = unrecorded
    BY <1>8, ObserveHandles
  <2> QED
    BY <1>2, <1>4, <1>5, <1>6, <2>1
<1>9. CASE Forget(k)
  <2>1. k \notin open \ unrecorded
    BY <1>6, <1>9, ForgetHandles DEF Told
  <2> QED
    BY <1>4, <1>5, <1>9, <2>1, ForgetHandles
<1>10. CASE Recovered(k)
  <2>1. CASE Handles(k, None) /\ open' = open \ {k} /\ unrecorded' = unrecorded \ {k}
    BY <1>4, <1>5, <1>10, <2>1, RecoveredHandles
  <2>2. CASE /\ Handles(k, records[k])
             /\ \/ open' = open \ {k} /\ unrecorded' = unrecorded \ {k}
                \/ open' = open /\ unrecorded' = unrecorded
    BY <1>4, <1>5, <1>6, <1>10, <2>2, RecoveredHandles
  <2> QED
    BY <1>10, <2>1, <2>2, RecoveredHandles
<1> QED
  BY <1>1, <1>7, <1>8, <1>9, <1>10

LEMMA RememberedCompared ==
  ASSUME Shaped, Remembered, ~At("report"), NEW scope, NEW found, Compare(scope, found),
         UNCHANGED <<records, steady, open, unrecorded>>
  PROVE  Remembered'
<1> USE DEF Remembered, Recalled, Retained, Announcing, At
<1>1. \A k \in Keys : k \in open \ unrecorded => Told(records[k]) /\ records[k] # None
  BY Absent DEF Told, Kept
<1>2. /\ pass'.step = "report" /\ pass'.told = {}
      /\ pass'.todo = found \union {k \in scope : records[k] # None}
      /\ pass'.next = [k \in Keys |-> IF k \in scope THEN None ELSE records[k]]
  BY Compared
<1>3. Recalled' /\ Announcing'
  BY <1>1, <1>2
<1>4. Retained'
  <2> SUFFICES ASSUME NEW k \in Keys, k \in (open \ unrecorded) \ pass'.todo
               PROVE  Told(pass'.next[k])
    OBVIOUS
  <2>1. k \notin scope
    BY <1>1, <1>2
  <2> QED
    BY <1>1, <1>2, <2>1
<1> QED
  BY <1>2, <1>3, <1>4

LEMMA RememberedNext == Shaped /\ Remembered /\ [Next]_vars => Remembered'
<1> SUFFICES ASSUME Shaped, Remembered, [Next]_vars PROVE Remembered'
  OBVIOUS
<1> USE DEF Remembered, Recalled, Retained, Announcing, At
<1>1. CASE Start
  BY <1>1 DEF Start, Idle
<1>2. CASE ReadOCI
  BY <1>2 DEF ReadOCI, Shaped
<1>3. CASE ReadSlurm
  BY <1>3, RememberedCompared DEF ReadSlurm
<1>4. CASE CollectionFails
  BY <1>4, RememberedCompared DEF CollectionFails
<1>5. CASE Report
  BY <1>5, RememberedReport
<1>6. CASE Save
  <2>1. pass'.told = {} /\ pass'.step = "idle"
    BY <1>6 DEF Save, Idle
  <2>2. At("report") /\ pass.todo = {} /\ records' = pass.next /\ open' = open
        /\ unrecorded' = unrecorded \ pass.told
    BY <1>6 DEF Save
  <2> QED
    BY <2>1, <2>2
<1>7. CASE Killed
  <2>1. pass'.told = {} /\ pass'.step = "idle"
    BY <1>7 DEF Killed, Idle
  <2> QED
    BY <1>7, <2>1 DEF Killed
<1>8. CASE Tick
  <2>1. \A k \in Keys : Told(records[k]) => Told(records'[k])
    BY <1>8, TickKeeps, Absent DEF Told, Kept
  <2> QED
    BY <1>8, <2>1 DEF Tick
<1>9. CASE Change
  BY <1>9 DEF Change
<1>10. CASE UNCHANGED vars
  BY <1>10 DEF vars
<1> QED
  BY <1>1, <1>2, <1>3, <1>4, <1>5, <1>6, <1>7, <1>8, <1>9, <1>10 DEF Next, Work

LEMMA AlertIsDue ==
  ASSUME Shaped, Remembered, NEW k \in Keys, Alert(k), k \in open \ unrecorded
  PROVE  Announced(k) /\ records[k].sent = Repeat
<1>1. Told(records[k])
  BY DEF Remembered, Recalled, Announcing, Alert
<1>2. records[k] # None /\ Known(k) = records[k]
  BY <1>1, Absent DEF Told, Kept, Known
<1>3. Observed(k).sent = records[k].sent /\ records[k].sent # None
  BY <1>1, <1>2, ObservedIsKept DEF Told
<1> QED
  BY <1>2, <1>3 DEF Alert, Due, Announced

\* RepeatsAreDue, for any periods and mishaps: nobody is told twice what the
\* monitor can know that it said.
THEOREM NoEarlyRepeat == Spec => RepeatsAreDue
<1>1. Init => Shaped /\ Remembered
  BY ShapedInit DEF Init, Remembered, Recalled, Announcing, Retained, Idle, At
<1>2. Shaped /\ Remembered /\ [Next]_vars => (Shaped /\ Remembered)'
  BY ShapedNext, RememberedNext
<1>3. Shaped /\ Remembered =>
        [\A k \in Keys : Alert(k) /\ k \in open \ unrecorded =>
            Announced(k) /\ records[k].sent = Repeat]_vars
  BY AlertIsDue
<1> QED
  BY <1>1, <1>2, <1>3, PTL DEF Spec, RepeatsAreDue

---------------------------------------------------------------------------
\* What the pass is going to write.
Prepared(k) ==
    LET n == pass.next[k] IN
    /\ k \in pass.found \ pass.todo /\ n \in Kept /\ n.sent = None => n = Observed(k)
    /\ k \in pass.scope \ pass.found /\ n \in Kept => n.sent # None
    /\ k \notin pass.scope => n = records[k] /\ k \notin pass.found /\ k \notin pass.todo

\* An incident of which nothing was announced has been found by every snapshot
\* for as long as its record says.
Grounded(k) ==
    LET r == records[k] IN
    r \in Kept /\ r.sent = None /\ r.unseen <= Gap => steady[k] # None /\ steady[k] >= r.age

Continuous ==
    /\ At("report") => \A k \in Keys : Prepared(k)
    /\ \A k \in Keys : Grounded(k)

LEMMA PreparedReport ==
  ASSUME Shaped, At("report"), \A k \in Keys : Prepared(k), Report
  PROVE  \A k \in Keys : Prepared(k)'
<1>1. PICK k \in Keys : Alert(k) \/ Observe(k) \/ Forget(k) \/ Recovered(k)
  BY DEF Report
<1>2. \A r : Handles(k, r) =>
        /\ pass'.next[k] = r
        /\ \A j \in Keys : j # k => pass'.next[j] = pass.next[j]
        /\ \A j \in Keys : j \in pass'.todo <=> j \in pass.todo /\ j # k
        /\ pass'.scope = pass.scope /\ pass'.found = pass.found /\ records' = records
  BY DEF Shaped, Book, Handles
<1>3. records' = records => \A j : Observed(j)' = Observed(j)
  BY DEF Observed, Known
<1>4. k \in pass.todo /\ k \in pass.scope
  BY <1>1 DEF Alert, Observe, Forget, Recovered, Prepared
<1>5. ASSUME NEW r, Handles(k, r),
             k \in pass.found /\ r \in Kept /\ r.sent = None => r = Observed(k),
             k \notin pass.found /\ r \in Kept => r.sent # None
      PROVE  \A j \in Keys : Prepared(j)'
  <2> TAKE j \in Keys
  <2>1. CASE j = k
    BY <1>2, <1>3, <1>4, <1>5, <2>1 DEF Prepared
  <2>2. CASE j # k
    BY <1>2, <1>3, <1>5, <2>2 DEF Prepared
  <2> QED
    BY <2>1, <2>2
<1>6. CASE Alert(k)
  <2>1. [Observed(k) EXCEPT !.sent = 0].sent # None
    BY ObservedIsKept, SentIsKept
  <2>2. CASE Handles(k, [Observed(k) EXCEPT !.sent = 0])
    BY <1>5, <1>6, <2>1, <2>2, AlertHandles
  <2>3. CASE Handles(k, Observed(k))
    BY <1>5, <1>6, <2>3, AlertHandles
  <2> QED
    BY <1>6, <2>2, <2>3, AlertHandles
<1>7. CASE Observe(k)
  BY <1>5, <1>7, ObserveHandles
<1>8. CASE Forget(k)
  <2>1. pass.next[k] \in Kept => pass.next[k].sent # None
    BY <1>4, <1>8, ForgetHandles DEF Prepared
  <2> QED
    BY <1>5, <1>8, <2>1, ForgetHandles
<1>9. CASE Recovered(k)
  <2>1. None \notin Kept
    BY Absent DEF Kept
  <2>2. CASE Handles(k, None)
    BY <1>5, <1>9, <2>1, <2>2, RecoveredHandles
  <2>3. CASE Handles(k, records[k])
    BY <1>5, <1>9, <2>3, RecoveredHandles
  <2> QED
    BY <1>9, <2>2, <2>3, RecoveredHandles
<1> QED
  BY <1>1, <1>6, <1>7, <1>8, <1>9

LEMMA PreparedCompared ==
  ASSUME Shaped, NEW scope \in SUBSET Keys, NEW found \in SUBSET scope, Compare(scope, found),
         UNCHANGED <<records, steady>>
  PROVE  \A k \in Keys : Prepared(k)'
<1>1. None \notin Kept
  BY Absent DEF Kept
<1>2. /\ pass'.scope = scope /\ pass'.found = found
      /\ pass'.todo = found \union {k \in scope : records[k] # None}
      /\ pass'.next = [k \in Keys |-> IF k \in scope THEN None ELSE records[k]]
  BY Compared
<1>3. SUFFICES ASSUME NEW k \in Keys PROVE Prepared(k)'
  OBVIOUS
<1>4. k \in found => k \in pass'.todo
  BY <1>2
<1>5. k \notin scope => k \notin found /\ k \notin pass'.todo
  BY <1>2
<1>6. pass'.next[k] = IF k \in scope THEN None ELSE records[k]
  BY <1>2
<1> QED
  BY <1>1, <1>2, <1>4, <1>5, <1>6 DEF Prepared

\* What is written is as well grounded as what was read.
LEMMA SaveKeepsGrounds ==
  ASSUME Shaped, Continuous, Save, NEW k \in Keys
  PROVE  Grounded(k)'
<1> DEFINE n == pass.next[k]
<1>1. /\ At("report") /\ pass.todo = {} /\ records'[k] = n /\ Prepared(k) /\ Grounded(k)
      /\ k \notin pass.scope => steady'[k] = steady[k]
      /\ k \in pass.found /\ k \in pass.scope =>
            steady'[k] = IF steady[k] = None THEN 0 ELSE steady[k]
  <2>1. /\ At("report") /\ pass.todo = {} /\ records'[k] = n /\ Prepared(k) /\ Grounded(k)
    BY DEF Save, Continuous
  <2>2. steady'[k] = IF k \in pass.scope \ pass.found THEN None
                    ELSE IF k \in pass.found /\ steady[k] = None THEN 0
                    ELSE steady[k]
    BY DEF Save
  <2>3. k \notin pass.scope => k \notin pass.found
    BY <2>1 DEF Prepared
  <2> QED
    BY <2>1, <2>2, <2>3
<1>2. SUFFICES ASSUME n \in Kept, n.sent = None, n.unseen <= Gap
               PROVE  steady'[k] # None /\ steady'[k] >= n.age
  BY <1>1 DEF Grounded
<1>3. CASE k \notin pass.scope
  BY <1>1, <1>2, <1>3 DEF Prepared, Grounded
<1>4. CASE k \in pass.scope /\ k \notin pass.found
  BY <1>1, <1>2, <1>4 DEF Prepared
<1>5. CASE k \in pass.scope /\ k \in pass.found
  <2>1. n = Observed(k) /\ Known(k).sent = None
    BY <1>1, <1>2, <1>5, ObservedIsKept DEF Prepared
  <2>2. steady[k] \in {None} \union 0..Grace /\ 0 # None
    BY Absent DEF Shaped
  <2>3. CASE Known(k).unseen > Gap
    BY <1>1, <1>5, <2>1, <2>2, <2>3, Settings, ObservedIsKept
  <2>4. CASE ~(Known(k).unseen > Gap) /\ records[k] = None
    <3>1. Observed(k).age = 0
      BY <2>4, Settings, ObservedIsKept DEF Known, New
    <3> QED
      BY <1>1, <1>5, <2>1, <2>2, <3>1, Settings
  <2>5. CASE ~(Known(k).unseen > Gap) /\ records[k] # None
    <3>1. Known(k) = records[k] /\ records[k] \in Kept /\ records[k] \in Record
      BY <2>5 DEF Known, Shaped, Book, Kept
    <3>2. records[k].unseen <= Gap
      BY <2>5, <3>1, Settings DEF Record
    <3>3. steady[k] # None /\ steady[k] >= records[k].age
      BY <1>1, <2>1, <3>1, <3>2 DEF Grounded
    <3>4. Observed(k).age = records[k].age
      BY <3>1, <3>2, ObservedIsKept
    <3> QED
      BY <1>1, <1>5, <2>1, <3>3, <3>4
  <2> QED
    BY <2>3, <2>4, <2>5
<1> QED
  BY <1>3, <1>4, <1>5

LEMMA TickKeepsGrounds ==
  ASSUME Shaped, Continuous, Tick, NEW k \in Keys
  PROVE  Grounded(k)'
<1>1. SUFFICES ASSUME records'[k] \in Kept, records'[k].sent = None, records'[k].unseen <= Gap
               PROVE  steady'[k] # None /\ steady'[k] >= records'[k].age
  BY DEF Grounded
<1> DEFINE r == records[k]
<1>2. r # None
  BY <1>1, TickKeeps, Absent DEF Kept
<1>3. r \in Kept /\ r \in Record /\ Known(k) = r
  BY <1>2 DEF Shaped, Book, Kept, Known
<1>4. r.sent = None /\ UpTo(r.unseen, Gap + 1) <= Gap /\ records'[k].age = UpTo(r.age, Grace)
  BY <1>1, <1>2, TickKeeps
<1>5. r.unseen < Gap
  BY <1>3, <1>4, Settings DEF UpTo, Record
<1>6. steady[k] # None /\ steady[k] >= r.age
  BY <1>3, <1>4, <1>5, Settings DEF Continuous, Grounded, Record
<1>7. steady'[k] = UpTo(steady[k], Grace)
  <2>1. steady'[k] = IF steady[k] = None \/ Known(k).unseen >= Gap
                    THEN None ELSE UpTo(steady[k], Grace)
    BY DEF Tick
  <2>2. ~(Known(k).unseen >= Gap)
    BY <1>3, <1>5, Settings DEF Record
  <2> QED
    BY <1>6, <2>1, <2>2
<1>8. steady[k] \in 0..Grace /\ r.age \in 0..Grace
  BY <1>3, <1>6 DEF Shaped, Record
<1>9. UpTo(steady[k], Grace) >= UpTo(r.age, Grace) /\ UpTo(steady[k], Grace) \in Nat
  BY <1>6, <1>8, Settings DEF UpTo
<1> QED
  BY <1>4, <1>7, <1>9, Absent

LEMMA ContinuousNext == Shaped /\ Continuous /\ [Next]_vars => Continuous'
<1> SUFFICES ASSUME Shaped, Continuous, [Next]_vars PROVE Continuous'
  OBVIOUS
<1>1. UNCHANGED <<records, steady>> => \A k \in Keys : Grounded(k)'
  BY DEF Continuous, Grounded
<1>2. UNCHANGED <<records, pass>> /\ At("report") => \A k \in Keys : Prepared(k)'
  <2>1. records' = records => \A k : Observed(k)' = Observed(k)
    BY DEF Observed, Known
  <2> QED
    BY <2>1 DEF Continuous, Prepared
<1>3. CASE Start
  BY <1>1, <1>3 DEF Start, Continuous, At, Idle
<1>4. CASE ReadOCI
  <2>1. pass'.step = "slurm"
    BY <1>4 DEF ReadOCI, Shaped
  <2> QED
    BY <1>1, <1>4, <2>1 DEF ReadOCI, Continuous, At
<1>5. CASE ReadSlurm
  <2>1. Findings(pass.seen.local, pass.seen.oci, world.slurm) \in SUBSET Keys
    BY DEF Findings, Keys
  <2>2. \A k \in Keys : Prepared(k)'
    BY <1>5, <2>1, PreparedCompared DEF ReadSlurm
  <2> QED
    BY <1>1, <1>5, <2>2 DEF ReadSlurm, Continuous
<1>6. CASE CollectionFails
  <2>1. {Unavailable} \in SUBSET Keys
    BY DEF Keys
  <2>2. \A k \in Keys : Prepared(k)'
    BY <1>6, <2>1, PreparedCompared DEF CollectionFails
  <2> QED
    BY <1>1, <1>6, <2>2 DEF CollectionFails, Continuous
<1>7. CASE Report
  <2>1. At("report") /\ UNCHANGED <<records, steady>>
    BY <1>7 DEF Report, Alert, Observe, Forget, Recovered
  <2>2. \A k \in Keys : Prepared(k)'
    BY <1>7, <2>1, PreparedReport DEF Continuous
  <2> QED
    BY <1>1, <2>1, <2>2 DEF Continuous
<1>8. CASE Save
  <2>1. pass'.step = "idle"
    BY <1>8 DEF Save, Idle
  <2> QED
    BY <1>8, <2>1, SaveKeepsGrounds DEF Continuous, At
<1>9. CASE Killed
  <2>1. pass'.step = "idle"
    BY <1>9 DEF Killed, Idle
  <2> QED
    BY <1>1, <1>9, <2>1 DEF Killed, Continuous, At
<1>10. CASE Tick
  <2>1. pass'.step = "idle"
    BY <1>10 DEF Tick, At
  <2> QED
    BY <1>10, <2>1, TickKeepsGrounds DEF Continuous, At
<1>11. CASE Change
  BY <1>1, <1>2, <1>11 DEF Change, Continuous, At
<1>12. CASE UNCHANGED vars
  BY <1>1, <1>2, <1>12 DEF vars, Continuous, At
<1> QED
  BY <1>3, <1>4, <1>5, <1>6, <1>7, <1>8, <1>9, <1>10, <1>11, <1>12 DEF Next, Work

LEMMA NewAlertIsGrounded ==
  ASSUME Shaped, Continuous, NEW k \in Keys, Alert(k), ~Announced(k)
  PROVE  steady[k] = Grace
<1>1. Mature(Observed(k)) /\ Known(k) \in Record
  BY KnownIsRecord DEF Alert
<1>2. Known(k).unseen <= Gap
  BY <1>1, Settings, ObservedIsKept DEF Mature, Record
<1>3. records[k] # None
  <2>1. SUFFICES ASSUME records[k] = None PROVE FALSE
    OBVIOUS
  <2>2. Observed(k).samples = 1
    BY <1>2, <2>1, ObservedIsKept DEF Known, New, UpTo
  <2> QED
    BY <1>1, <2>2 DEF Mature
<1>4. Known(k) = records[k] /\ records[k] \in Kept /\ records[k].sent = None
  BY <1>3 DEF Known, Shaped, Book, Announced
<1>5. records[k].age >= Grace
  BY <1>1, <1>2, <1>4, ObservedIsKept DEF Mature
<1>6. steady[k] # None /\ steady[k] >= records[k].age
  BY <1>2, <1>4 DEF Continuous, Grounded
<1> QED
  BY <1>1, <1>4, <1>5, <1>6, Settings DEF Shaped, Record

\* AlertsAreGrounded, for any periods, gaps, instances and mishaps: an alert
\* speaks of what was there through all of the grace period.
THEOREM AlertsHaveGrounds == Spec => AlertsAreGrounded
<1>1. Init => Shaped /\ Continuous
  BY ShapedInit, Absent DEF Init, Continuous, Grounded, Idle, At, Kept
<1>2. Shaped /\ Continuous /\ [Next]_vars => (Shaped /\ Continuous)'
  BY ShapedNext, ContinuousNext
<1>3. Shaped /\ Continuous =>
        [\A k \in Keys : Alert(k) /\ k \in open' \ open /\ ~Announced(k) => steady[k] = Grace]_vars
  BY NewAlertIsGrounded
<1> QED
  BY <1>1, <1>2, <1>3, PTL DEF Spec, AlertsAreGrounded

=============================================================================
