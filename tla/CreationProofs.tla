--------------------------- MODULE CreationProofs ---------------------------
(***************************************************************************)
(* What decides whether a cluster is created: theorems about the guard that *)
(* the scheduler calls for each creation (AutoscalingGuard), for every set  *)
(* of attempts, every set of thresholds and without bounds on resumes and   *)
(* mishaps, and about the scheduler's planning (SchedulerPlan), for any     *)
(* jobs, limits and number of passes.                                       *)
(***************************************************************************)
EXTENDS AutoscalingGuard, SchedulerPlan, SequenceTheorems, FiniteSetTheorems,
        WellFoundedInduction, TLAPS

(***************************************************************************)
(* Type correctness.                                                       *)
(***************************************************************************)

\* The record a guard reads is a State whenever the file is not damaged.
LEMMA ReadStateType ==
    ASSUME file \in State \union {Missing, Corrupt}, file # Corrupt, nextGen \in Nat
    PROVE  read_state \in State
  BY DEF read_state, initial_state, State, Count

\* Counting a result yields a State again.
LEMMA RecordedType ==
    ASSUME NEW s \in State, NEW c \in Nat, NEW t \in Nat
    PROVE  Recorded(s, c, t) \in State
<1> DEFINE failures == NextCount(s, c)
           trips == Trips(failures, t)
           pending == IF c = 0 THEN FALSE ELSE s.recovery_pending
           stopped == IF trips THEN TRUE ELSE s.stopped
           before == IF c = 0 THEN None ELSE s.failures_before_resume
           resumed == IF c = 0 /\ s.consecutive_failures > 0 THEN None
                      ELSE s.resumedWith
           threshold == IF trips THEN t ELSE s.threshold
<1>1. failures \in Nat /\ threshold \in Nat /\ before \in Count /\ resumed \in Count
  BY DEF State, Count, NextCount
<1>2. pending \in BOOLEAN /\ stopped \in BOOLEAN
  BY DEF State
<1>3. Recorded(s, c, t) =
        [s EXCEPT !.consecutive_failures = failures, !.recovery_pending = pending,
                  !.failures_before_resume = before, !.resumedWith = resumed,
                  !.stopped = stopped, !.threshold = threshold]
  BY DEF Recorded
<1> HIDE DEF failures, trips, pending, stopped, before, resumed, threshold
<1> QED
  BY <1>1, <1>2, <1>3 DEF State

\* So does resuming, from any State.
LEMMA ResumedType ==
    ASSUME NEW s \in State, NEW g \in Nat
    PROVE  Resumed(s, g) \in State
<1> DEFINE pending == RecoveryPending(s)
           before == IF pending THEN CountBeforeResume(s) ELSE None
<1>1. pending \in BOOLEAN
  BY DEF RecoveryPending
<1>2. before \in Count /\ s.consecutive_failures \in Count
  BY DEF CountBeforeResume, State, Count
<1>3. initial_state(g) \in State
  BY DEF initial_state, State, Count
<1>4. Resumed(s, g) =
        [initial_state(g) EXCEPT !.recovery_pending = pending,
                                 !.failures_before_resume = before,
                                 !.resumedWith = s.consecutive_failures]
  BY DEF Resumed
<1> HIDE DEF pending, before
<1> QED
  BY <1>1, <1>2, <1>3, <1>4 DEF State

\* What a state carries over a resume is a count or absent.
LEMMA CarriedType ==
    ASSUME NEW s \in State
    PROVE  CarriedFailures(s) \in Count
  BY DEF CarriedFailures, State, Count

LEMMA HappenedType ==
    ASSUME log \in Seq(LogEntry), era \in Nat,
           NEW kind \in {"ok", "fail", "resume", "lost"},
           NEW a \in Attempt \union {None}, Happened(kind, a)
    PROVE  /\ log' \in Seq(LogEntry)
           /\ log' = Append(log, [kind |-> kind, attempt |-> a, era |-> era])
  BY DEF Happened, LogEntry

LEMMA InitTypeOK == Init => TypeOK
<1> SUFFICES ASSUME Init PROVE TypeOK
  OBVIOUS
<1>1. file \in State \union {Missing, Corrupt}
  <2>1. initial_state(0) \in State
    BY DEF initial_state, State, Count
  <2>2. [initial_state(0) EXCEPT !.recovery_pending = TRUE,
                                !.resumedWith = 1] \in State
    BY <2>1 DEF State, Count
  <2> QED
    BY <2>2 DEF Init
<1>2. log \in Seq(LogEntry)
  <2> DEFINE entry(kind) == [kind |-> kind, attempt |-> None, era |-> 0]
  <2>1. entry("fail") \in LogEntry /\ entry("resume") \in LogEntry
    BY DEF LogEntry
  <2>2. <<>> \in Seq(LogEntry) /\ <<entry("fail"), entry("resume")>> \in Seq(LogEntry)
    BY <2>1
  <2> QED
    BY <2>2 DEF Init
<1>3. NoNotice \in Notice
  BY DEF NoNotice, Notice, Count
<1> QED
  BY <1>1, <1>2, <1>3, NoneAssumption, ThresholdsAssumption
     DEF Init, TypeOK, Steps

LEMMA NextTypeOK == TypeOK /\ [Next]_vars => TypeOK'
<1> SUFFICES ASSUME TypeOK, [Next]_vars PROVE TypeOK'
  OBVIOUS
<1> USE DEF TypeOK, Goto, Steps, guardVars, historyVars
<1>1. ASSUME NEW a \in Attempt, Plan(a) PROVE TypeOK'
  BY <1>1 DEF Plan
<1>2. ASSUME NEW a \in Attempt, load_config(a) PROVE TypeOK'
  <2>1. config \in Nat
    BY ThresholdsAssumption
  <2>2. pc' \in [Attempt -> Steps] /\ thr' \in [Attempt -> Nat]
    BY <1>2, <2>1 DEF load_config
  <2> QED
    BY <1>2, <2>2 DEF load_config
<1>3. ASSUME NEW a \in Attempt, Refuse(a) PROVE TypeOK'
  BY <1>3 DEF Refuse, SaveFails
<1>4. ASSUME NEW a \in Attempt, Admit(a) PROVE TypeOK'
  <2>1. read_state \in State /\ read_state.generation \in Nat
    BY <1>4, ReadStateType DEF Admit, Closed, State
  <2>2. pc' \in [Attempt -> Steps] /\ code' \in [Attempt -> Nat]
    <3>1. CASE Goto(a, "running") /\ UNCHANGED code
      BY <3>1
    <3>2. CASE Goto(a, "exited") /\ code' = [code EXCEPT ![a] = 127]
      BY <3>2
    <3> QED
      BY <1>4, <3>1, <3>2 DEF Admit
  <2>3. /\ file' \in State /\ gen' \in [Attempt -> Nat] /\ nextGen' \in Nat
        /\ born' \in [Attempt -> Nat \union {None}]
    BY <1>4, <2>1 DEF Admit
  <2> QED
    BY <1>4, <2>2, <2>3 DEF Admit
<1>5. ASSUME NEW a \in Attempt, CreateExits(a) PROVE TypeOK'
  BY <1>5 DEF CreateExits
<1>6. ASSUME NEW a \in Attempt, Record(a) PROVE TypeOK'
  <2> DEFINE after == Recorded(file, code[a], thr[a])
             message(kind) ==
               [kind |-> kind, generation |-> file.generation,
                failures |-> IF kind = "stop" THEN after.consecutive_failures
                             ELSE file.consecutive_failures,
                carried |-> CarriedFailures(file)]
  <2>1. file \in State
    BY <1>6 DEF Record, Counts, IsState
  <2>2. after \in State
    BY <2>1, RecordedType
  <2>3. message("stop") \in Notice /\ message("recovery") \in Notice
    BY <2>1, <2>2, CarriedType DEF Notice, State
  <2>4. NoNotice \in Notice
    BY DEF NoNotice, Notice, Count
  <2>5. file' \in State \union {Missing, Corrupt}
    BY <1>6, <2>2 DEF Record
  <2>6. log' \in Seq(LogEntry)
    BY <1>6, HappenedType DEF Record
  <2>7. notice' \in [Attempt -> Notice]
    BY <1>6, <2>3, <2>4 DEF Record
  <2>8. pc' \in [Attempt -> Steps] /\ lock' \in Attempt \union {None}
    BY <1>6 DEF Record, Holder
  <2> QED
    BY <1>6, <2>5, <2>6, <2>7, <2>8 DEF Record
<1>7. ASSUME NEW a \in Attempt, Drop(a) PROVE TypeOK'
  BY <1>7 DEF Drop, SaveFails
<1>8. ASSUME NEW a \in Attempt, queue_notification(a) PROVE TypeOK'
  <2>1. NoNotice \in Notice
    BY DEF NoNotice, Notice, Count
  <2>2. [attempt |-> a, message |-> notice[a]] \in [attempt : Attempt, message : Notice]
    OBVIOUS
  <2> QED
    BY <1>8, <2>1, <2>2 DEF queue_notification, Unlocked
<1>9. ASSUME NEW a \in Attempt, Kill(a) PROVE TypeOK'
  <2>1. NoNotice \in Notice
    BY DEF NoNotice, Notice, Count
  <2> QED
    BY <1>9, <2>1 DEF Kill, Unlocked
<1>10. CASE Resume
  <2>1. Resumed(read_state, nextGen + 1) \in State
    BY <1>10, ReadStateType, ResumedType DEF Resume
  <2>2. log' \in Seq(LogEntry)
    BY <1>10, HappenedType DEF Resume, NewEra
  <2> QED
    BY <1>10, <2>1, <2>2 DEF Resume, NewEra
<1>11. CASE Reconfigure
  BY <1>11 DEF Reconfigure
<1>12. CASE LoseFile
  <2>1. log' \in Seq(LogEntry)
    BY <1>12, HappenedType DEF LoseFile, NewEra
  <2> QED
    BY <1>12, <2>1 DEF LoseFile, NewEra
<1>13. CASE DamageFile
  BY <1>13 DEF DamageFile
<1>14. CASE UNCHANGED vars
  BY <1>14 DEF vars
<1> QED
  BY <1>1, <1>2, <1>3, <1>4, <1>5, <1>6, <1>7, <1>8, <1>9, <1>10, <1>11,
     <1>12, <1>13, <1>14 DEF Next

\* Every variable keeps its type.
THEOREM TypeCorrect == Spec => []TypeOK
  BY InitTypeOK, NextTypeOK, PTL DEF Spec

(***************************************************************************)
(* Results stay in their era.  The code compares uuids; what makes that    *)
(* enough is that a generation on disk is never reused (it is below        *)
(* nextGen), and that an attempt which shares the generation on disk was   *)
(* spawned since that record was opened.                                   *)
(***************************************************************************)

GenerationsAreFresh ==
    /\ IsState(file) => file.generation < nextGen
    /\ \A a \in Attempt : born[a] # None => gen[a] < nextGen

SameGenerationSameEra ==
    IsState(file) =>
        \A a \in Attempt :
            born[a] # None /\ gen[a] = file.generation => born[a] = era

SpawnedAttemptsAreBorn ==
    \A a \in Attempt : pc[a] \in {"running", "exited"} => born[a] # None

UnspawnedAttemptsAreNot ==
    \A a \in Attempt : pc[a] \in {"idle", "planned", "loaded"} => born[a] = None

EraInv == /\ GenerationsAreFresh
          /\ SameGenerationSameEra
          /\ SpawnedAttemptsAreBorn
          /\ UnspawnedAttemptsAreNot
          /\ ResultsStayInTheirEra

LEMMA InitEraInv == Init => EraInv
<1> SUFFICES ASSUME Init PROVE EraInv
  OBVIOUS
<1>1. IsState(file) => file.generation = 0
  BY DEF initial_state, Init, IsState
<1>2. GenerationsAreFresh /\ SameGenerationSameEra
  BY <1>1 DEF Init, GenerationsAreFresh, SameGenerationSameEra
<1>3. \A i \in 1..Len(log) : log[i].attempt = None
  <2> DEFINE entry(kind) == [kind |-> kind, attempt |-> None, era |-> 0]
             both == <<entry("fail"), entry("resume")>>
  <2>1. Len(both) = 2 /\ both[1].attempt = None /\ both[2].attempt = None
    OBVIOUS
  <2>2. CASE log = <<>>
    BY <2>2
  <2>3. CASE log = both
    BY <2>1, <2>3
  <2> QED
    BY <2>2, <2>3 DEF Init
<1> QED
  BY <1>2, <1>3 DEF Init, EraInv, ResultsStayInTheirEra,
                    SpawnedAttemptsAreBorn, UnspawnedAttemptsAreNot

\* Appending an entry that respects ResultsStayInTheirEra preserves it.
LEMMA LogGrows ==
    ASSUME log \in Seq(LogEntry), ResultsStayInTheirEra, UNCHANGED born,
           NEW e, log' = Append(log, e),
           e.attempt # None => born[e.attempt] = e.era
    PROVE  ResultsStayInTheirEra'
<1> SUFFICES ASSUME NEW i \in 1..Len(log'), log'[i].attempt # None
             PROVE  born[log'[i].attempt] = log'[i].era
  BY DEF ResultsStayInTheirEra
<1>1. CASE i = Len(log) + 1
  BY <1>1
<1>2. CASE i \in 1..Len(log)
  BY <1>2 DEF ResultsStayInTheirEra
<1> QED
  BY <1>1, <1>2

LEMMA NextEraInv == TypeOK /\ EraInv /\ [Next]_vars => EraInv'
<1> SUFFICES ASSUME TypeOK, EraInv, [Next]_vars PROVE EraInv'
  OBVIOUS
<1> USE DEF EraInv, GenerationsAreFresh, SameGenerationSameEra,
            SpawnedAttemptsAreBorn, UnspawnedAttemptsAreNot,
            ResultsStayInTheirEra, TypeOK, Goto, guardVars, historyVars, IsState
<1>1. ASSUME NEW a \in Attempt, Plan(a) PROVE EraInv'
  BY <1>1 DEF Plan
<1>2. ASSUME NEW a \in Attempt, load_config(a) PROVE EraInv'
  BY <1>2 DEF load_config
<1>3. ASSUME NEW a \in Attempt, Refuse(a) PROVE EraInv'
  BY <1>3 DEF Refuse
<1>4. ASSUME NEW a \in Attempt, Admit(a) PROVE EraInv'
  <2> DEFINE g == read_state.generation
  <2>1. g \in Nat /\ g < nextGen' /\ nextGen' >= nextGen /\ nextGen' \in Nat
    BY <1>4, ReadStateType DEF Admit, Closed, State, read_state, initial_state
  <2>2. /\ file' = read_state /\ file' \notin {Missing, Corrupt}
        /\ gen' = [gen EXCEPT ![a] = g] /\ born' = [born EXCEPT ![a] = era]
        /\ era' = era /\ log' = log
    <3>1. read_state \in State
      BY <1>4, ReadStateType DEF Admit, Closed
    <3> QED
      BY <1>4, <3>1, FileAssumption DEF Admit
  <2>3. GenerationsAreFresh'
    BY <2>1, <2>2
  <2>4. SameGenerationSameEra'
    <3> SUFFICES ASSUME NEW b \in Attempt, born'[b] # None, gen'[b] = g
                 PROVE  born'[b] = era
      BY <2>2
    <3>1. CASE b = a
      BY <3>1, <2>2
    <3>2. CASE b # a /\ file = Missing
      BY <3>2, <2>1, <2>2 DEF read_state, initial_state
    <3>3. CASE b # a /\ file # Missing
      BY <3>3, <2>2 DEF read_state
    <3> QED
      BY <3>1, <3>2, <3>3
  <2>5. born[a] = None
    BY <1>4 DEF Admit
  <2>6. ResultsStayInTheirEra'
    <3> SUFFICES ASSUME NEW i \in 1..Len(log), log[i].attempt # None
                 PROVE  born'[log[i].attempt] = log[i].era
      BY <2>2
    <3>1. log[i] \in LogEntry
      OBVIOUS
    <3>2. log[i].attempt \in Attempt /\ log[i].era \in Nat
      BY <3>1 DEF LogEntry
    <3>3. log[i].attempt # a
      BY <2>5, <3>2, NoneAssumption
    <3> QED
      BY <2>2, <3>2, <3>3
  <2>7. SpawnedAttemptsAreBorn' /\ UnspawnedAttemptsAreNot'
    BY <1>4, <2>2, NoneAssumption DEF Admit
  <2> QED
    BY <2>3, <2>4, <2>6, <2>7
<1>5. ASSUME NEW a \in Attempt, CreateExits(a) PROVE EraInv'
  BY <1>5 DEF CreateExits
<1>6. ASSUME NEW a \in Attempt, Record(a) PROVE EraInv'
  <2> DEFINE kind == IF code[a] = 0 THEN "ok" ELSE "fail"
             e == [kind |-> kind, attempt |-> a, era |-> era]
  <2>1. /\ file \in State /\ file.generation = gen[a] /\ born[a] = era
        /\ file' = Recorded(file, code[a], thr[a])
        /\ log' = Append(log, e)
        /\ UNCHANGED <<gen, nextGen, era, born>>
    BY <1>6 DEF Record, Counts, Happened
  <2>2. file'.generation = file.generation
    BY <2>1 DEF Recorded, State
  <2>3. GenerationsAreFresh' /\ SameGenerationSameEra'
    BY <2>1, <2>2, FileAssumption
  <2>4. ResultsStayInTheirEra'
    BY <2>1, LogGrows
  <2>5. SpawnedAttemptsAreBorn' /\ UnspawnedAttemptsAreNot'
    BY <1>6, <2>1 DEF Record
  <2> QED
    BY <2>3, <2>4, <2>5
<1>7. ASSUME NEW a \in Attempt, Drop(a) PROVE EraInv'
  BY <1>7 DEF Drop
<1>8. ASSUME NEW a \in Attempt, queue_notification(a) PROVE EraInv'
  BY <1>8 DEF queue_notification
<1>9. ASSUME NEW a \in Attempt, Kill(a) PROVE EraInv'
  BY <1>9 DEF Kill
<1>10. CASE Resume
  <2>1. /\ file'.generation = nextGen + 1 /\ nextGen' = nextGen + 2
        /\ log' = Append(log, [kind |-> "resume", attempt |-> None, era |-> era])
        /\ UNCHANGED <<pc, gen, born>>
    BY <1>10 DEF Resume, Resumed, initial_state, NewEra, Happened
  <2>2. GenerationsAreFresh' /\ SameGenerationSameEra'
    BY <2>1
  <2>3. ResultsStayInTheirEra'
    BY <2>1, LogGrows
  <2> QED
    BY <2>1, <2>2, <2>3
<1>11. CASE Reconfigure
  BY <1>11 DEF Reconfigure
<1>12. CASE LoseFile
  <2>1. /\ file' = Missing /\ UNCHANGED <<pc, gen, born, nextGen>>
        /\ log' = Append(log, [kind |-> "lost", attempt |-> None, era |-> era])
    BY <1>12 DEF LoseFile, NewEra, Happened
  <2>2. ResultsStayInTheirEra'
    BY <2>1, LogGrows
  <2> QED
    BY <2>1, <2>2
<1>13. CASE DamageFile
  BY <1>13 DEF DamageFile
<1>14. CASE UNCHANGED vars
  BY <1>14 DEF vars
<1> QED
  BY <1>1, <1>2, <1>3, <1>4, <1>5, <1>6, <1>7, <1>8, <1>9, <1>10, <1>11,
     <1>12, <1>13, <1>14 DEF Next

\* No result is counted against another opening of the latch than the one its
\* attempt was started in.
THEOREM ResultsNeverCrossEras == Spec => []ResultsStayInTheirEra
<1>1. Spec => [](TypeOK /\ EraInv)
  BY InitTypeOK, NextTypeOK, InitEraInv, NextEraInv, PTL DEF Spec
<1> QED
  BY <1>1, PTL DEF EraInv

(***************************************************************************)
(* The count is the trailing streak.                                       *)
(***************************************************************************)

\* A record that was lost leaves no streak behind it.
CountInv == /\ CountIsTrailingFailures
            /\ file = Missing => IsStreak(Len(log), 0)

\* Appending e to the log lengthens the trailing streak by one if e is a
\* failure, and ends it otherwise.
LEMMA StreakGrows ==
    ASSUME log \in Seq(LogEntry), NEW e, log' = Append(log, e), NEW k \in Nat,
           IsStreak(Len(log), k)
    PROVE  /\ e.kind = "fail" => IsStreak(Len(log), k + 1)'
           /\ e.kind # "fail" => IsStreak(Len(log), 0)'
<1>1. /\ Len(log) \in Nat /\ Len(log') = Len(log) + 1
      /\ log'[Len(log) + 1] = e
      /\ \A i \in 1..Len(log) : log'[i] = log[i]
  OBVIOUS
<1>2. ASSUME e.kind = "fail" PROVE IsStreak(Len(log), k + 1)'
  <2>1. k + 1 <= Len(log')
    BY <1>1 DEF IsStreak
  <2>2. \A i \in (Len(log') - (k + 1) + 1)..Len(log') : log'[i].kind = "fail"
    BY <1>1, <1>2 DEF IsStreak
  <2>3. k + 1 < Len(log') => log'[Len(log') - (k + 1)].kind # "fail"
    BY <1>1 DEF IsStreak
  <2> QED
    BY <2>1, <2>2, <2>3 DEF IsStreak
<1>3. ASSUME e.kind # "fail" PROVE IsStreak(Len(log), 0)'
  BY <1>1, <1>3 DEF IsStreak
<1> QED
  BY <1>2, <1>3

\* An entry that is no failure ends whatever streak there was.
LEMMA EndsStreak ==
    ASSUME log \in Seq(LogEntry), NEW e, log' = Append(log, e), e.kind # "fail"
    PROVE  IsStreak(Len(log), 0)'
<1>1. /\ Len(log) \in Nat /\ Len(log') = Len(log) + 1
      /\ log'[Len(log) + 1] = e
  OBVIOUS
<1> QED
  BY <1>1 DEF IsStreak

LEMMA InitCountInv == Init => CountInv
<1> SUFFICES ASSUME Init PROVE CountInv
  OBVIOUS
<1> DEFINE entry(kind) == [kind |-> kind, attempt |-> None, era |-> 0]
           both == <<entry("fail"), entry("resume")>>
<1>1. Len(both) = 2 /\ both[2].kind = "resume" /\ Len(<<>>) = 0
  OBVIOUS
<1>2. IsStreak(Len(log), 0)
  <2>1. CASE log = <<>>
    BY <2>1, <1>1 DEF IsStreak
  <2>2. CASE log = both
    BY <2>2, <1>1 DEF IsStreak
  <2> QED
    BY <2>1, <2>2 DEF Init
<1>3. IsState(file) => file.consecutive_failures = 0
  BY DEF Init, IsState, initial_state
<1> QED
  BY <1>2, <1>3 DEF CountInv, CountIsTrailingFailures

LEMMA NextCountInv == TypeOK /\ CountInv /\ [Next]_vars => CountInv'
<1> SUFFICES ASSUME TypeOK, CountInv, [Next]_vars PROVE CountInv'
  OBVIOUS
<1>a. ASSUME UNCHANGED <<file, log>> PROVE CountInv'
  BY <1>a DEF CountInv, CountIsTrailingFailures, IsState, IsStreak
<1>1. ASSUME NEW a \in Attempt, Admit(a) PROVE CountInv'
  <2>1. log' = log /\ file' = read_state /\ file # Corrupt
    BY <1>1 DEF Admit, Closed, historyVars
  <2>2. CASE file = Missing
    <3>1. file'.consecutive_failures = 0 /\ file' \in State
      BY <2>1, <2>2 , ReadStateType DEF read_state, initial_state, TypeOK
    <3> QED
      BY <2>1, <2>2, <3>1, FileAssumption
         DEF CountInv, CountIsTrailingFailures, IsStreak
  <2>3. CASE file # Missing
    BY <1>a, <2>1, <2>3 DEF read_state
  <2> QED
    BY <2>2, <2>3
<1>2. ASSUME NEW a \in Attempt, Record(a) PROVE CountInv'
  <2> DEFINE e == [kind |-> IF code[a] = 0 THEN "ok" ELSE "fail",
                   attempt |-> a, era |-> era]
             k == file.consecutive_failures
  <2>1. /\ file \in State /\ file' = Recorded(file, code[a], thr[a])
        /\ log' = Append(log, e) /\ IsStreak(Len(log), k)
    BY <1>2 DEF Record, Counts, Happened, CountInv, CountIsTrailingFailures,
                IsState, TypeOK
  <2>2. file' \in State
    BY <2>1, RecordedType DEF TypeOK
  <2>3. file'.consecutive_failures = IF code[a] = 0 THEN 0 ELSE k + 1
    BY <2>1 DEF Recorded, State, NextCount
  <2>4. k \in Nat /\ log \in Seq(LogEntry)
    BY <2>1 DEF State, TypeOK
  <2>5. IsStreak(Len(log), file.consecutive_failures)'
    <3>1. CASE code[a] = 0
      BY <3>1, <2>1, <2>3, <2>4, StreakGrows DEF IsStreak
    <3>2. CASE code[a] # 0
      BY <3>2, <2>1, <2>3, <2>4, StreakGrows DEF IsStreak
    <3> QED
      BY <3>1, <3>2
  <2> QED
    BY <2>2, <2>5, FileAssumption DEF CountInv, CountIsTrailingFailures
<1>3. CASE Resume
  <2> DEFINE e == [kind |-> "resume", attempt |-> None, era |-> era]
  <2>1. /\ file' = Resumed(read_state, nextGen + 1) /\ file # Corrupt
        /\ log' = Append(log, e)
    BY <1>3 DEF Resume, NewEra, Happened
  <2>2. file' \in State /\ file'.consecutive_failures = 0
    <3>1. read_state \in State /\ nextGen + 1 \in Nat
      BY <2>1, ReadStateType DEF TypeOK
    <3>2. file' \in State
      BY <2>1, <3>1, ResumedType
    <3>3. file'.consecutive_failures = 0
      BY <2>1 DEF Resumed, initial_state
    <3> QED
      BY <3>2, <3>3
  <2>3. IsStreak(Len(log), 0)'
    BY <2>1, EndsStreak DEF TypeOK
  <2> QED
    BY <2>2, <2>3, FileAssumption DEF CountInv, CountIsTrailingFailures, IsStreak
<1>4. CASE LoseFile
  <2> DEFINE e == [kind |-> "lost", attempt |-> None, era |-> era]
  <2>1. file' = Missing /\ log' = Append(log, e)
    BY <1>4 DEF LoseFile, NewEra, Happened
  <2>2. IsStreak(Len(log), 0)'
    BY <2>1, EndsStreak DEF TypeOK
  <2> QED
    BY <2>1, <2>2 DEF CountInv, CountIsTrailingFailures, IsState
<1>5. CASE DamageFile
  BY <1>5, FileAssumption DEF DamageFile, CountInv, CountIsTrailingFailures, IsState
<1>6. CASE UNCHANGED vars
  BY <1>a, <1>6 DEF vars, historyVars
<1>7. ASSUME NEW a \in Attempt,
             Plan(a) \/ load_config(a) \/ Refuse(a) \/ CreateExits(a) \/ Drop(a)
               \/ queue_notification(a) \/ Kill(a)
      PROVE  CountInv'
  BY <1>a, <1>7 DEF Plan, load_config, Refuse, CreateExits, Drop,
                    queue_notification, Kill, historyVars
<1>8. CASE Reconfigure
  BY <1>a, <1>8 DEF Reconfigure, historyVars
<1> QED
  BY <1>1, <1>2, <1>3, <1>4, <1>5, <1>6, <1>7, <1>8 DEF Next

\* consecutive_failures is the unbroken run of failures recorded last, in the
\* order the guards took the lock, however many creations overlap.
THEOREM CountIsExact == Spec => []CountIsTrailingFailures
<1>1. Spec => [](TypeOK /\ CountInv)
  BY InitTypeOK, NextTypeOK, InitCountInv, NextCountInv, PTL DEF Spec
<1> QED
  BY <1>1, PTL DEF CountInv

(***************************************************************************)
(* Only a resume reopens.                                                  *)
(***************************************************************************)

\* A step that finds a stopped record and leaves an accepting one is a resume.
THEOREM ReopenedByResumeOnly == Spec => OnlyResumeReopens
<1> DEFINE A == IsState(file) /\ file.stopped /\ IsState(file') /\ ~file'.stopped
                  => resumes' = resumes + 1
<1>1. TypeOK /\ [Next]_vars => [A]_vars
  <2> SUFFICES ASSUME TypeOK, Next, IsState(file), file.stopped,
                      IsState(file'), ~file'.stopped
               PROVE  resumes' = resumes + 1
    OBVIOUS
  <2>1. file' # file
    OBVIOUS
  <2>2. ASSUME NEW a \in Attempt, Admit(a) PROVE FALSE
    BY <2>1, <2>2 DEF Admit, Closed, read_state, IsState
  <2>3. ASSUME NEW a \in Attempt, Record(a) PROVE FALSE
    BY <2>3 DEF Record, Counts
  <2>4. CASE Resume
    BY <2>4 DEF Resume
  <2>5. CASE LoseFile \/ DamageFile
    BY <2>5 DEF LoseFile, DamageFile, IsState
  <2>6. ASSUME NEW a \in Attempt,
               Plan(a) \/ load_config(a) \/ Refuse(a) \/ CreateExits(a) \/ Drop(a)
                 \/ queue_notification(a) \/ Kill(a)
        PROVE  FALSE
    BY <2>1, <2>6 DEF Plan, load_config, Refuse, CreateExits, Drop,
                      queue_notification, Kill
  <2>7. CASE Reconfigure
    BY <2>1, <2>7 DEF Reconfigure
  <2> QED
    BY <2>2, <2>3, <2>4, <2>5, <2>6, <2>7 DEF Next
<1> QED
  BY <1>1, TypeCorrect, PTL DEF Spec, OnlyResumeReopens

(***************************************************************************)
(* The guard implements the latch.  Its streak is a set of attempts, the   *)
(* record's a number: they agree because no attempt is recorded twice.     *)
(***************************************************************************)

\* Whoever is in the log has been recorded, and is not recorded again.
RecordedAreDone ==
    \A i \in 1..Len(log) : \A a \in Attempt :
        log[i].attempt = a => pc[a] \in {"announcing", "done", "killed"}

\* A guard that admits has a threshold.
AdmittedAreGuarded ==
    \A a \in Attempt : pc[a] \in {"loaded", "running", "exited"} => thr[a] \in Thresholds \ {0}

BornSoFar == \A a \in Attempt : born[a] # None => born[a] <= era

TrailingIsCount ==
    /\ IsFiniteSet(Trailing)
    /\ IsState(file) => Cardinality(Trailing) = file.consecutive_failures
    /\ file = Missing => Trailing = {}

LatchInv == RecordedAreDone /\ AdmittedAreGuarded /\ BornSoFar /\ TrailingIsCount

\* What one more entry makes of the trailing failures and of those uncounted.
LEMMA TrailingGrows ==
    ASSUME log \in Seq(LogEntry), NEW e, log' = Append(log, e)
    PROVE  /\ e.kind # "fail" => Trailing' = {}
           /\ e.kind = "fail" /\ e.attempt \in Attempt => Trailing' = Trailing \union {e.attempt}
           /\ \A a \in Attempt : (\A i \in 1..Len(log') : log'[i].attempt # a) <=>
                 e.attempt # a /\ \A i \in 1..Len(log) : log[i].attempt # a
<1>1. /\ Len(log) \in Nat /\ Len(log') = Len(log) + 1
      /\ log'[Len(log) + 1] = e
      /\ \A i \in 1..Len(log) : log'[i] = log[i]
  OBVIOUS
<1>2. ASSUME e.kind # "fail" PROVE Trailing' = {}
  <2>1. \A i \in 1..Len(log') : Len(log) + 1 \in i..Len(log') /\ log'[Len(log) + 1].kind # "fail"
    BY <1>1, <1>2
  <2> QED
    BY <2>1 DEF Trailing
<1>3. ASSUME e.kind = "fail", e.attempt \in Attempt PROVE Trailing' = Trailing \union {e.attempt}
  <2>1. ASSUME NEW a \in Trailing PROVE a \in Trailing'
    <3>1. PICK i \in 1..Len(log) : log[i].attempt = a /\ \A j \in i..Len(log) : log[j].kind = "fail"
      BY <2>1 DEF Trailing
    <3>2. i \in 1..Len(log') /\ log'[i].attempt = a
      BY <1>1, <3>1
    <3>3. \A j \in i..Len(log') : log'[j].kind = "fail"
      BY <1>1, <1>3, <3>1
    <3>4. a \in Attempt
      BY <2>1 DEF Trailing
    <3> QED
      BY <3>2, <3>3, <3>4 DEF Trailing
  <2>2. e.attempt \in Trailing'
    <3>1. Len(log) + 1 \in 1..Len(log') /\ log'[Len(log) + 1].attempt = e.attempt
          /\ \A j \in (Len(log) + 1)..Len(log') : log'[j].kind = "fail"
      BY <1>1, <1>3
    <3> QED
      BY <1>3, <3>1 DEF Trailing
  <2>3. ASSUME NEW a \in Trailing', a # e.attempt PROVE a \in Trailing
    <3>1. PICK i \in 1..Len(log') :
             log'[i].attempt = a /\ \A j \in i..Len(log') : log'[j].kind = "fail"
      BY <2>3 DEF Trailing
    <3>2. i \in 1..Len(log) /\ log[i].attempt = a
      BY <1>1, <2>3, <3>1
    <3>3. \A j \in i..Len(log) : log[j].kind = "fail"
      BY <1>1, <3>1, <3>2
    <3>4. a \in Attempt
      BY <2>3 DEF Trailing
    <3> QED
      BY <3>2, <3>3, <3>4 DEF Trailing
  <2> QED
    BY <2>1, <2>2, <2>3
<1>4. ASSUME NEW a \in Attempt
      PROVE  (\A i \in 1..Len(log') : log'[i].attempt # a) <=>
                 e.attempt # a /\ \A i \in 1..Len(log) : log[i].attempt # a
  BY <1>1
<1> QED
  BY <1>2, <1>3, <1>4

LEMMA InitTrailing ==
    Init => /\ \A i \in 1..Len(log) : log[i].attempt = None
            /\ Trailing = {}
<1> SUFFICES ASSUME Init PROVE /\ \A i \in 1..Len(log) : log[i].attempt = None
                               /\ Trailing = {}
  OBVIOUS
<1> DEFINE entry(kind) == [kind |-> kind, attempt |-> None, era |-> 0]
           both == <<entry("fail"), entry("resume")>>
<1>1. \A i \in 1..Len(log) : log[i].attempt = None
  <2>1. Len(both) = 2 /\ both[1].attempt = None /\ both[2].attempt = None
    OBVIOUS
  <2>2. CASE log = <<>>
    BY <2>2
  <2>3. CASE log = both
    BY <2>1, <2>3
  <2> QED
    BY <2>2, <2>3 DEF Init
<1>2. Trailing = {}
  BY <1>1, NoneAssumption DEF Trailing
<1> QED
  BY <1>1, <1>2

LEMMA InitLatchInv == Init => LatchInv
<1> SUFFICES ASSUME Init PROVE LatchInv
  OBVIOUS
<1>1. \A i \in 1..Len(log) : log[i].attempt = None
  BY InitTrailing
<1>2. Trailing = {}
  BY InitTrailing
<1>3. IsState(file) => file.consecutive_failures = 0
  BY DEF Init, IsState, initial_state
<1>4. TrailingIsCount
  BY <1>2, <1>3, FS_EmptySet DEF TrailingIsCount
<1> QED
  BY <1>1, <1>4, NoneAssumption DEF Init, LatchInv, RecordedAreDone, AdmittedAreGuarded, BornSoFar

\* Steps that record nothing and leave the record as it is.
LEMMA QuietKeepsTrailing ==
    ASSUME TrailingIsCount, UNCHANGED <<file, log>>
    PROVE  TrailingIsCount' /\ Trailing' = Trailing
  BY DEF TrailingIsCount, Trailing, IsState

LEMMA NextLatchInv == TypeOK /\ EraInv /\ LatchInv /\ [Next]_vars => LatchInv'
<1> SUFFICES ASSUME TypeOK, EraInv, LatchInv, [Next]_vars PROVE LatchInv'
  OBVIOUS
<1> USE DEF LatchInv, RecordedAreDone, AdmittedAreGuarded, BornSoFar, TypeOK, Goto, guardVars, historyVars
<1>1. ASSUME NEW a \in Attempt, Plan(a) PROVE LatchInv'
  BY <1>1, QuietKeepsTrailing DEF Plan
<1>2. ASSUME NEW a \in Attempt, load_config(a) PROVE LatchInv'
  BY <1>2, QuietKeepsTrailing DEF load_config
<1>3. ASSUME NEW a \in Attempt, Refuse(a) PROVE LatchInv'
  BY <1>3, QuietKeepsTrailing DEF Refuse
<1>4. ASSUME NEW a \in Attempt, Admit(a) PROVE LatchInv'
  <2>1. log' = log /\ file' = read_state /\ file # Corrupt
    BY <1>4 DEF Admit, Closed
  <2>2. TrailingIsCount'
    <3>1. CASE file = Missing
      <4>1. file'.consecutive_failures = 0 /\ file' \in State
        BY <2>1, <3>1, ReadStateType DEF read_state, initial_state
      <4>2. Trailing' = {}
        BY <2>1, <3>1 DEF TrailingIsCount, Trailing
      <4> QED
        BY <4>1, <4>2, FS_EmptySet, FileAssumption DEF TrailingIsCount
    <3>2. CASE file # Missing
      BY <2>1, <3>2, QuietKeepsTrailing DEF read_state
    <3> QED
      BY <3>1, <3>2
  <2>3. BornSoFar'
    BY <1>4 DEF Admit
  <2>4. pc[a] = "loaded" /\ pc' \in [Attempt -> Steps] /\ pc'[a] \in {"running", "exited"}
        /\ \A b \in Attempt : b # a => pc'[b] = pc[b]
    BY <1>4 DEF Admit, Steps
  <2>5. RecordedAreDone'
    <3> SUFFICES ASSUME NEW i \in 1..Len(log), NEW b \in Attempt, log[i].attempt = b
                 PROVE  pc'[b] \in {"announcing", "done", "killed"}
      BY <2>1
    <3>1. b # a
      BY <2>4
    <3> QED
      BY <2>4, <3>1
  <2>6. AdmittedAreGuarded'
    BY <1>4, <2>4 DEF Admit
  <2> QED
    BY <2>2, <2>3, <2>5, <2>6
<1>5. ASSUME NEW a \in Attempt, CreateExits(a) PROVE LatchInv'
  BY <1>5, QuietKeepsTrailing DEF CreateExits
<1>6. ASSUME NEW a \in Attempt, Record(a) PROVE LatchInv'
  <2> DEFINE e == [kind |-> IF code[a] = 0 THEN "ok" ELSE "fail", attempt |-> a, era |-> era]
  <2>1. /\ file \in State /\ file' = Recorded(file, code[a], thr[a])
        /\ log' = Append(log, e) /\ UNCHANGED <<born, era, thr>> /\ pc[a] = "exited"
    BY <1>6 DEF Record, Counts, Happened, IsState
  <2>2. file' \in State /\ file' \notin {Missing, Corrupt}
    <3>1. code[a] \in Nat /\ thr[a] \in Nat
      OBVIOUS
    <3>2. file' \in State
      BY <2>1, <3>1, RecordedType
    <3> QED
      BY <3>2, FileAssumption
  <2>3. file'.consecutive_failures = IF code[a] = 0 THEN 0 ELSE file.consecutive_failures + 1
    BY <2>1 DEF Recorded, State, NextCount
  <2>4. TrailingIsCount'
    <3>1. CASE code[a] = 0
      <4>1. Trailing' = {}
        <5>1. e.kind # "fail"
          BY <3>1
        <5> HIDE DEF e
        <5> QED
          BY <2>1, <5>1, TrailingGrows
      <4> QED
        BY <2>2, <2>3, <3>1, <4>1, FS_EmptySet DEF TrailingIsCount
    <3>2. CASE code[a] # 0
      <4>1. Trailing' = Trailing \union {a}
        <5>1. e.kind = "fail" /\ e.attempt = a
          BY <3>2
        <5> HIDE DEF e
        <5> QED
          BY <2>1, <5>1, TrailingGrows
      <4>2. a \notin Trailing
        BY <2>1 DEF Trailing
      <4>3. Cardinality(Trailing) = file.consecutive_failures /\ IsFiniteSet(Trailing)
        BY <2>1, FileAssumption DEF TrailingIsCount, IsState
      <4>4. IsFiniteSet(Trailing') /\ Cardinality(Trailing') = Cardinality(Trailing) + 1
        BY <4>1, <4>2, <4>3, FS_AddElement
      <4> QED
        BY <2>2, <2>3, <3>2, <4>3, <4>4 DEF TrailingIsCount
    <3> QED
      BY <3>1, <3>2
  <2>5. pc'[a] \in {"announcing", "done"} /\ \A b \in Attempt : b # a => pc'[b] = pc[b]
    BY <1>6 DEF Record
  <2>6. RecordedAreDone'
    <3> SUFFICES ASSUME NEW i \in 1..Len(log'), NEW b \in Attempt, log'[i].attempt = b
                 PROVE  pc'[b] \in {"announcing", "done", "killed"}
      OBVIOUS
    <3>1. CASE i = Len(log) + 1
      BY <2>1, <2>5, <3>1
    <3>2. CASE i \in 1..Len(log)
      <4>1. log'[i] = log[i]
        BY <2>1, <3>2
      <4>2. b # a => pc'[b] = pc[b]
        BY <2>5
      <4> QED
        BY <2>5, <3>2, <4>1, <4>2
    <3> QED
      BY <2>1, <3>1, <3>2
  <2> QED
    BY <2>1, <2>4, <2>5, <2>6
<1>7. ASSUME NEW a \in Attempt, Drop(a) PROVE LatchInv'
  BY <1>7, QuietKeepsTrailing DEF Drop
<1>8. ASSUME NEW a \in Attempt, queue_notification(a) PROVE LatchInv'
  BY <1>8, QuietKeepsTrailing DEF queue_notification
<1>9. ASSUME NEW a \in Attempt, Kill(a) PROVE LatchInv'
  BY <1>9, QuietKeepsTrailing DEF Kill
<1>10. ASSUME NEW kind, NewEra(kind), kind # "fail", UNCHANGED guardVars, UNCHANGED born,
              file' = Missing \/ (file' \in State /\ file'.consecutive_failures = 0)
       PROVE  LatchInv'
  <2> DEFINE e == [kind |-> kind, attempt |-> None, era |-> era]
  <2>1. log' = Append(log, e) /\ era' = era + 1
    BY <1>10 DEF NewEra, Happened
  <2>2. Trailing' = {}
    <3>1. e.kind # "fail"
      BY <1>10
    <3> HIDE DEF e
    <3> QED
      BY <2>1, <3>1, TrailingGrows
  <2>3. TrailingIsCount'
    BY <1>10, <2>2, FS_EmptySet, FileAssumption DEF TrailingIsCount, IsState
  <2>4. RecordedAreDone'
    <3> SUFFICES ASSUME NEW i \in 1..Len(log'), NEW b \in Attempt, log'[i].attempt = b
                 PROVE  pc'[b] \in {"announcing", "done", "killed"}
      OBVIOUS
    <3>1. i # Len(log) + 1
      BY <2>1, NoneAssumption
    <3>2. i \in 1..Len(log) /\ log'[i] = log[i]
      BY <2>1, <3>1
    <3> QED
      BY <1>10, <3>2
  <2>5. BornSoFar'
    BY <1>10, <2>1
  <2> QED
    BY <1>10, <2>3, <2>4, <2>5
<1>11. CASE Resume
  <2>1. file' \in State /\ file'.consecutive_failures = 0
    <3>1. read_state \in State /\ nextGen + 1 \in Nat
      BY <1>11, ReadStateType DEF Resume
    <3>2. file' \in State
      BY <1>11, <3>1, ResumedType DEF Resume
    <3> QED
      BY <1>11, <3>2 DEF Resume, Resumed, initial_state
  <2> QED
    BY <1>10, <1>11, <2>1 DEF Resume
<1>12. CASE Reconfigure
  BY <1>12, QuietKeepsTrailing DEF Reconfigure
<1>13. CASE LoseFile
  <2>1. NewEra("lost") /\ file' = Missing /\ UNCHANGED guardVars /\ UNCHANGED born
    BY <1>13 DEF LoseFile
  <2> QED
    BY <1>10, <2>1
<1>14. CASE DamageFile
  <2>1. Trailing' = Trailing
    BY <1>14 DEF DamageFile, Trailing
  <2> QED
    BY <1>14, <2>1, FileAssumption DEF DamageFile, TrailingIsCount, IsState
<1>15. CASE UNCHANGED vars
  BY <1>15, QuietKeepsTrailing DEF vars
<1> QED
  BY <1>1, <1>2, <1>3, <1>4, <1>5, <1>6, <1>7, <1>8, <1>9, <1>11, <1>12, <1>13, <1>14, <1>15 DEF Next

\* The latch's variables under the refinement, one by one.
LatchUnchanged == Position' = Position /\ Uncounted' = Uncounted /\ Trailing' = Trailing

LatchSteps ==
    \/ \E a \in Attempt :
        /\ Position = "accepting"
        /\ \/ /\ a \notin Uncounted \union Trailing /\ Uncounted' = Uncounted \union {a}
              /\ Position' = Position /\ Trailing' = Trailing
           \/ /\ a \in Uncounted /\ Uncounted' = Uncounted \ {a}
              /\ \/ Trailing' = {} /\ Position' = Position
                 \/ /\ Trailing' = Trailing \union {a}
                    /\ \E t \in Thresholds \ {0} :
                         Position' = IF Cardinality(Trailing') >= t THEN "tripped" ELSE "accepting"
    \/ Position' = "accepting" /\ Uncounted' = {} /\ Trailing' = {}
    \/ Position' = "jammed" /\ Uncounted' = Uncounted /\ Trailing' = Trailing

LEMMA StepsAreTheLatchs ==
    (LatchSteps \/ LatchUnchanged) => [Latch!Next]_(Latch!vars)
<1> SUFFICES ASSUME LatchSteps \/ LatchUnchanged PROVE [Latch!Next]_(Latch!vars)
  OBVIOUS
<1>1. CASE LatchUnchanged
  BY <1>1 DEF LatchUnchanged, Latch!vars
<1>2. CASE Position' = "accepting" /\ Uncounted' = {} /\ Trailing' = {}
  <2>1. Latch!Open
    BY <1>2 DEF Latch!Open
  <2> QED
    BY <2>1 DEF Latch!Next
<1>3. CASE Position' = "jammed" /\ Uncounted' = Uncounted /\ Trailing' = Trailing
  <2>1. Latch!Jam
    BY <1>3 DEF Latch!Jam
  <2> QED
    BY <2>1 DEF Latch!Next
<1>4. ASSUME NEW a \in Attempt, Position = "accepting",
             a \notin Uncounted \union Trailing, Uncounted' = Uncounted \union {a},
             Position' = Position, Trailing' = Trailing
      PROVE  Latch!Next
  <2>1. Latch!Start(a)
    BY <1>4 DEF Latch!Start
  <2> QED
    BY <2>1 DEF Latch!Next
<1>5. ASSUME NEW a \in Attempt, Position = "accepting",
             a \in Uncounted, Uncounted' = Uncounted \ {a},
             Trailing' = {}, Position' = Position
      PROVE  Latch!Next
  <2>1. Latch!Succeed(a)
    BY <1>5 DEF Latch!Succeed
  <2> QED
    BY <2>1 DEF Latch!Next
<1>6. ASSUME NEW a \in Attempt, Position = "accepting",
             a \in Uncounted, Uncounted' = Uncounted \ {a},
             Trailing' = Trailing \union {a},
             NEW t \in Thresholds \ {0},
             Position' = IF Cardinality(Trailing') >= t THEN "tripped" ELSE "accepting"
      PROVE  Latch!Next
  <2>1. \E u \in Thresholds \ {0} :
           Position' = IF Cardinality(Trailing') >= u THEN "tripped" ELSE "accepting"
    BY <1>6, Zenon
  <2>2. Latch!Fail(a)
    BY <1>6, <2>1 DEF Latch!Fail, Latch!Cardinality, Cardinality
  <2> QED
    BY <2>2 DEF Latch!Next
<1> QED
  BY <1>1, <1>2, <1>3, <1>4, <1>5, <1>6 DEF LatchSteps

LEMMA InitIsTheLatchs == Init => Latch!Init
<1> SUFFICES ASSUME Init PROVE Latch!Init
  OBVIOUS
<1>1. Trailing = {} /\ Uncounted = {}
  BY InitTrailing, NoneAssumption DEF Init, Uncounted
<1>2. Position = "accepting"
  <2>1. CASE file = Missing
    BY <2>1, FileAssumption DEF Position, read_state, initial_state
  <2>2. CASE file = [initial_state(0) EXCEPT !.recovery_pending = TRUE, !.resumedWith = 1]
    <3>1. file \in State /\ ~file.stopped
      BY <2>2 DEF initial_state, State, Count
    <3> QED
      BY <3>1, FileAssumption DEF Position, read_state
  <2> QED
    BY <2>1, <2>2 DEF Init
<1> QED
  BY <1>1, <1>2 DEF Latch!Init

\* Nothing that the latch is about changes.
LEMMA QuietSteps ==
    ASSUME UNCHANGED <<file, log, born, era>>
    PROVE  LatchUnchanged
  BY DEF LatchUnchanged, Position, Uncounted, Trailing, read_state, initial_state

LEMMA AdmitStarts ==
    ASSUME TypeOK, EraInv, LatchInv, NEW a \in Attempt, Admit(a)
    PROVE  LatchSteps
<1>1. /\ log' = log /\ era' = era /\ file # Corrupt /\ file' = read_state
      /\ born' = [born EXCEPT ![a] = era] /\ pc[a] = "loaded" /\ ~read_state.stopped
  BY DEF Admit, Closed
<1>2. born[a] = None /\ \A i \in 1..Len(log) : log[i].attempt # a
  BY <1>1 DEF EraInv, UnspawnedAttemptsAreNot, LatchInv, RecordedAreDone
<1>3. a \notin Uncounted \union Trailing /\ Uncounted' = Uncounted \union {a} /\ Trailing' = Trailing
  BY <1>1, <1>2, NoneAssumption DEF Uncounted, Trailing, TypeOK
<1>4. file' \in State /\ file' \notin {Missing, Corrupt}
  BY <1>1, ReadStateType, FileAssumption DEF TypeOK
<1>5. Position = "accepting" /\ Position' = "accepting"
  BY <1>1, <1>4 DEF Position, read_state
<1> QED
  BY <1>3, <1>5 DEF LatchSteps

LEMMA RecordCounts ==
    ASSUME TypeOK, EraInv, LatchInv, NEW a \in Attempt, Record(a)
    PROVE  LatchSteps
<1> DEFINE e == [kind |-> IF code[a] = 0 THEN "ok" ELSE "fail", attempt |-> a, era |-> era]
<1>1. /\ file \in State /\ ~file.stopped /\ file' = Recorded(file, code[a], thr[a])
      /\ log' = Append(log, e) /\ UNCHANGED <<born, era>> /\ pc[a] = "exited"
      /\ file.generation = gen[a]
  BY DEF Record, Counts, Happened, IsState, TypeOK
<1>2. file' \in State /\ file' \notin {Missing, Corrupt} /\ file \notin {Missing, Corrupt}
  <2>1. code[a] \in Nat /\ thr[a] \in Nat
    BY DEF TypeOK
  <2>2. file' \in State
    BY <1>1, <2>1, RecordedType
  <2> QED
    BY <1>1, <2>2, FileAssumption
<1>3. born[a] = era /\ \A i \in 1..Len(log) : log[i].attempt # a
  BY <1>1, <1>2 DEF EraInv, SpawnedAttemptsAreBorn, SameGenerationSameEra, LatchInv, RecordedAreDone,
                    IsState
<1>4. e.attempt = a /\ (e.kind = "fail" <=> code[a] # 0)
  OBVIOUS
<1> HIDE DEF e
<1>5. a \in Uncounted /\ Uncounted' = Uncounted \ {a}
  <2>1. \A b \in Attempt : (\A i \in 1..Len(log') : log'[i].attempt # b) <=>
                 a # b /\ \A i \in 1..Len(log) : log[i].attempt # b
    BY <1>1, <1>4, TrailingGrows DEF TypeOK
  <2> QED
    BY <1>1, <1>3, <2>1 DEF Uncounted
<1>6. Position = "accepting"
  BY <1>1, <1>2 DEF Position, read_state
<1>7. Position' = IF file'.stopped THEN "tripped" ELSE "accepting"
  BY <1>2 DEF Position, read_state
<1>8. file'.stopped <=> NextCount(file, code[a]) >= thr[a]
  BY <1>1 DEF Recorded, State, Trips
<1>9. thr[a] \in Thresholds \ {0} /\ thr[a] \in Nat \ {0}
  BY <1>1, ThresholdsAssumption DEF LatchInv, AdmittedAreGuarded
<1>10. CASE code[a] = 0
  <2>1. Trailing' = {}
    BY <1>1, <1>4, <1>10, TrailingGrows DEF TypeOK
  <2>2. ~file'.stopped
    BY <1>8, <1>9, <1>10 DEF NextCount
  <2> QED
    BY <1>5, <1>6, <1>7, <2>1, <2>2 DEF LatchSteps
<1>11. CASE code[a] # 0
  <2>1. Trailing' = Trailing \union {a}
    BY <1>1, <1>4, <1>11, TrailingGrows DEF TypeOK
  <2>2. Cardinality(Trailing) = file.consecutive_failures /\ IsFiniteSet(Trailing)
    BY <1>2 DEF LatchInv, TrailingIsCount, IsState
  <2>3. a \notin Trailing
    BY <1>3 DEF Trailing
  <2>4. Cardinality(Trailing') = NextCount(file, code[a])
    BY <1>11, <2>1, <2>2, <2>3, FS_AddElement DEF NextCount
  <2>5. Position' = IF Cardinality(Trailing') >= thr[a] THEN "tripped" ELSE "accepting"
    BY <1>7, <1>8, <2>4
  <2> QED
    BY <1>5, <1>6, <1>9, <2>1, <2>5 DEF LatchSteps
<1> QED
  BY <1>10, <1>11

LEMMA NewEraOpens ==
    ASSUME TypeOK, LatchInv, NEW kind, NewEra(kind), kind # "fail", UNCHANGED born,
           Position' = "accepting"
    PROVE  LatchSteps
<1> DEFINE e == [kind |-> kind, attempt |-> None, era |-> era]
<1>1. log' = Append(log, e) /\ era' = era + 1 /\ e.kind # "fail"
  BY DEF NewEra, Happened
<1> HIDE DEF e
<1>2. Trailing' = {}
  BY <1>1, TrailingGrows DEF TypeOK
<1>3. Uncounted' = {}
  <2>1. \A b \in Attempt : born[b] # era + 1
    <3> SUFFICES ASSUME NEW b \in Attempt, born[b] = era + 1 PROVE FALSE
      OBVIOUS
    <3>1. era \in Nat /\ era + 1 \in Nat
      BY DEF TypeOK
    <3>2. born[b] # None
      BY <3>1, NoneAssumption
    <3>3. era + 1 <= era
      BY <3>2 DEF LatchInv, BornSoFar
    <3> QED
      BY <3>1, <3>3
  <2> QED
    BY <1>1, <2>1 DEF Uncounted
<1> QED
  BY <1>2, <1>3 DEF LatchSteps

LEMMA NextIsTheLatchs ==
    TypeOK /\ EraInv /\ LatchInv /\ [Next]_vars => LatchSteps \/ LatchUnchanged
<1> SUFFICES ASSUME TypeOK, EraInv, LatchInv, [Next]_vars PROVE LatchSteps \/ LatchUnchanged
  OBVIOUS
<1>1. ASSUME NEW a \in Attempt, Admit(a) PROVE LatchSteps
  BY <1>1, AdmitStarts
<1>2. ASSUME NEW a \in Attempt, Record(a) PROVE LatchSteps
  BY <1>2, RecordCounts
<1>3. ASSUME NEW a \in Attempt,
             Plan(a) \/ load_config(a) \/ Refuse(a) \/ CreateExits(a) \/ Drop(a)
               \/ queue_notification(a) \/ Kill(a)
      PROVE  LatchUnchanged
  BY <1>3, QuietSteps DEF Plan, load_config, Refuse, CreateExits, Drop, queue_notification, Kill,
                          historyVars
<1>4. CASE Resume
  <2>1. file' = Resumed(read_state, nextGen + 1) /\ NewEra("resume") /\ UNCHANGED born
    BY <1>4 DEF Resume
  <2>2. file' \in State
    BY <1>4, ReadStateType, ResumedType DEF Resume, TypeOK
  <2>3. ~file'.stopped
    BY <2>1 DEF Resumed, initial_state
  <2>4. Position' = "accepting"
    BY <2>2, <2>3, FileAssumption DEF Position, read_state
  <2> QED
    BY <2>1, <2>4, NewEraOpens
<1>5. CASE Reconfigure
  BY <1>5, QuietSteps DEF Reconfigure, historyVars
<1>6. CASE LoseFile
  <2>1. file' = Missing /\ NewEra("lost") /\ UNCHANGED born
    BY <1>6 DEF LoseFile
  <2>2. Position' = "accepting"
    BY <2>1, FileAssumption DEF Position, read_state, initial_state
  <2> QED
    BY <2>1, <2>2, NewEraOpens
<1>7. CASE DamageFile
  BY <1>7 DEF DamageFile, LatchSteps, Position, Uncounted, Trailing, historyVars
<1>8. CASE UNCHANGED vars
  BY <1>8, QuietSteps DEF vars, historyVars
<1> QED
  BY <1>1, <1>2, <1>3, <1>4, <1>5, <1>6, <1>7, <1>8 DEF Next

\* ImplementsLatch, for any attempts and thresholds: the guard admits and trips
\* exactly as the latch may, whatever overlaps, is lost or dies.
THEOREM GuardIsLatch == Spec => ImplementsLatch
<1>1. Init => TypeOK /\ EraInv /\ LatchInv
  BY InitTypeOK, InitEraInv, InitLatchInv
<1>2. TypeOK /\ EraInv /\ LatchInv /\ [Next]_vars => (TypeOK /\ EraInv /\ LatchInv)'
  BY NextTypeOK, NextEraInv, NextLatchInv
<1>3. TypeOK /\ EraInv /\ LatchInv /\ [Next]_vars => [Latch!Next]_(Latch!vars)
  BY NextIsTheLatchs, StepsAreTheLatchs
<1> QED
  BY <1>1, <1>2, <1>3, InitIsTheLatchs, PTL DEF Spec, ImplementsLatch, Latch!Spec

(***************************************************************************)
(* What the record and the notices say beyond the count is true of the     *)
(* history.  The parts lean on each other: a stop has failures, so a       *)
(* resume of it owes a recovery; a recovery that is owed has the streak it *)
(* will quote; and a stop notice is known by its generation, which nothing *)
(* reopens.                                                                *)
(***************************************************************************)

\* A stop has failures, and whoever recorded the last one had loaded the
\* threshold it is measured by.
StopInv ==
    IsState(file) =>
        /\ file.stopped => /\ file.consecutive_failures > 0
                           /\ file.consecutive_failures >= file.threshold
        /\ ~file.stopped /\ file.consecutive_failures > 0 =>
              /\ Len(log) > 0 /\ log[Len(log)].attempt \in Attempt
              /\ file.consecutive_failures < thr[log[Len(log)].attempt]

\* Some failure is followed by no success and no loss of the record.
Failing == \E i \in 1..Len(log) : /\ log[i].kind = "fail"
                                  /\ \A j \in i..Len(log) : log[j].kind \notin {"ok", "lost"}

\* A record that is missing owes nothing.
OwedInv == RecoveryOwedAfterFailure /\ (file = Missing => ~Failing)

\* The last unbroken run of failures that a resume ended is k long, and ended
\* just before entry i.
LastStreak(i, k) ==
    /\ log[i].kind = "resume"
    /\ i > 1 /\ log[i - 1].kind = "fail"
    /\ \A j \in (i + 1)..Len(log) :
          /\ log[j].kind \notin {"ok", "lost"}
          /\ log[j].kind = "resume" => log[j - 1].kind # "fail"
    /\ k \in Nat
    /\ IsStreak(i - 1, k)

CarriedInv ==
    IsState(file) /\ file.recovery_pending =>
        \E i \in 1..Len(log) : LastStreak(i, CarriedFailures(file))

\* The generation g has had its stop: it is known, and stopped if still on disk.
Spent(g) == g < nextGen /\ (IsState(file) /\ file.generation = g => file.stopped)

IsStop(m) == m.kind = "stop"

Reports(m) == m.kind = "recovery" => m.failures > 0 \/ m.carried \notin {0, None}

\* The stop notices on their way and queued are of spent generations.
StopsAreSpent ==
    /\ \A a \in Attempt : IsStop(notice[a]) => Spent(notice[a].generation)
    /\ \A n \in spool : IsStop(n.message) => Spent(n.message.generation)

\* They are one for each generation: on its way, or queued.
StopsAreSingle ==
    /\ \A a, b \in Attempt : IsStop(notice[a]) /\ IsStop(notice[b])
          /\ notice[a].generation = notice[b].generation => a = b
    /\ \A a \in Attempt, n \in spool : IsStop(notice[a]) /\ IsStop(n.message) =>
          notice[a].generation # n.message.generation
    /\ \A m, n \in spool : IsStop(m.message) /\ IsStop(n.message)
          /\ m.message.generation = n.message.generation => m = n

AllReport ==
    /\ \A a \in Attempt : Reports(notice[a])
    /\ \A n \in spool : Reports(n.message)

NoticeInv == StopsAreSpent /\ StopsAreSingle /\ AllReport

HistoryInv == StopInv /\ OwedInv /\ CarriedInv /\ NoticeInv

\* The invariants proved above, which this one rests on.
Known == TypeOK /\ EraInv /\ CountInv /\ LatchInv

LEMMA HistoryIsTold == TypeOK /\ HistoryInv => RecordTellsTheHistory
<1> SUFFICES ASSUME TypeOK, HistoryInv PROVE RecordTellsTheHistory
  OBVIOUS
<1>1. StopExactlyAtThreshold
  BY DEF HistoryInv, StopInv, StopExactlyAtThreshold
<1>2. CarriedCountIsLastStreak
  BY DEF HistoryInv, CarriedInv, LastStreak, CarriedCountIsLastStreak
<1>3. NoticesAreTrue
  BY DEF HistoryInv, NoticeInv, StopsAreSingle, AllReport, IsStop, Reports, NoticesAreTrue
<1> QED
  BY <1>1, <1>2, <1>3 DEF HistoryInv, OwedInv, RecordTellsTheHistory

\* One more entry at the end of the log.
LEMMA LogAppends ==
    ASSUME log \in Seq(LogEntry), NEW e, log' = Append(log, e)
    PROVE  /\ Len(log) \in Nat /\ Len(log') = Len(log) + 1
           /\ log'[Len(log) + 1] = e
           /\ \A i \in 1..Len(log) : log'[i] = log[i]
  OBVIOUS

\* It keeps a recovery owed, makes one owed or pays it.
LEMMA FailingGrows ==
    ASSUME log \in Seq(LogEntry), NEW e, log' = Append(log, e)
    PROVE  Failing' <=> e.kind = "fail" \/ (Failing /\ e.kind \notin {"ok", "lost"})
<1>1. /\ Len(log) \in Nat /\ Len(log') = Len(log) + 1
      /\ log'[Len(log) + 1] = e
      /\ \A i \in 1..Len(log) : log'[i] = log[i]
  BY LogAppends
<1>2. ASSUME e.kind = "fail" PROVE Failing'
  <2>1. Len(log) + 1 \in 1..Len(log') /\ \A j \in (Len(log) + 1)..Len(log') : j = Len(log) + 1
    BY <1>1
  <2> QED
    BY <1>1, <1>2, <2>1 DEF Failing
<1>3. ASSUME Failing, e.kind \notin {"ok", "lost"} PROVE Failing'
  <2>1. PICK i \in 1..Len(log) : /\ log[i].kind = "fail"
                                 /\ \A j \in i..Len(log) : log[j].kind \notin {"ok", "lost"}
    BY <1>3 DEF Failing
  <2>2. i \in 1..Len(log') /\ log'[i].kind = "fail"
    BY <1>1, <2>1
  <2>3. \A j \in i..Len(log') : log'[j].kind \notin {"ok", "lost"}
    BY <1>1, <1>3, <2>1
  <2> QED
    BY <2>2, <2>3 DEF Failing
<1>4. ASSUME Failing', e.kind # "fail" PROVE Failing /\ e.kind \notin {"ok", "lost"}
  <2>1. PICK i \in 1..Len(log') : /\ log'[i].kind = "fail"
                                  /\ \A j \in i..Len(log') : log'[j].kind \notin {"ok", "lost"}
    BY <1>4 DEF Failing
  <2>2. i \in 1..Len(log) /\ log[i].kind = "fail"
    BY <1>1, <1>4, <2>1
  <2>3. \A j \in i..Len(log) : log[j].kind \notin {"ok", "lost"}
    BY <1>1, <2>1, <2>2
  <2>4. Len(log) + 1 \in i..Len(log')
    BY <1>1, <2>2
  <2> QED
    BY <1>1, <2>1, <2>2, <2>3, <2>4 DEF Failing
<1> QED
  BY <1>2, <1>3, <1>4

\* A streak before the end of the log stays as it was.
LEMMA StreakStays ==
    ASSUME log \in Seq(LogEntry), NEW e, log' = Append(log, e),
           NEW n \in 0..Len(log), NEW k \in Nat, IsStreak(n, k)
    PROVE  IsStreak(n, k)'
<1>1. /\ Len(log) \in Nat /\ Len(log') = Len(log) + 1
      /\ \A i \in 1..Len(log) : log'[i] = log[i]
  BY LogAppends
<1>2. k <= n /\ (k < n => log[n - k].kind # "fail")
      /\ \A i \in (n - k + 1)..n : log[i].kind = "fail"
  BY DEF IsStreak
<1>3. \A i \in (n - k + 1)..n : log'[i].kind = "fail"
  BY <1>1, <1>2
<1>4. k < n => log'[n - k].kind # "fail"
  BY <1>1, <1>2
<1> QED
  BY <1>2, <1>3, <1>4 DEF IsStreak

\* The streak to be quoted is still the last while neither a success, a loss
\* nor the resume of another streak is recorded.
LEMMA LastStreakStays ==
    ASSUME log \in Seq(LogEntry), NEW e, log' = Append(log, e),
           NEW i \in 1..Len(log), NEW k, LastStreak(i, k),
           e.kind \notin {"ok", "lost"},
           e.kind = "resume" => log[Len(log)].kind # "fail"
    PROVE  i \in 1..Len(log') /\ LastStreak(i, k)'
<1>1. /\ Len(log) \in Nat /\ Len(log') = Len(log) + 1
      /\ log'[Len(log) + 1] = e
      /\ \A j \in 1..Len(log) : log'[j] = log[j]
  BY LogAppends
<1>2. /\ log[i].kind = "resume" /\ i > 1 /\ log[i - 1].kind = "fail"
      /\ k \in Nat /\ IsStreak(i - 1, k)
  BY DEF LastStreak
<1>3. IsStreak(i - 1, k)'
  BY <1>2, StreakStays
<1>4. log'[i].kind = "resume" /\ log'[i - 1].kind = "fail"
  BY <1>1, <1>2
<1>5. ASSUME NEW j \in (i + 1)..Len(log')
      PROVE  /\ log'[j].kind \notin {"ok", "lost"}
             /\ log'[j].kind = "resume" => log'[j - 1].kind # "fail"
  <2>1. CASE j = Len(log) + 1
    BY <1>1, <2>1
  <2>2. CASE j # Len(log) + 1
    <3>1. j \in (i + 1)..Len(log) /\ j \in 1..Len(log) /\ j - 1 \in 1..Len(log)
      BY <1>1, <2>2
    <3>2. log'[j] = log[j] /\ log'[j - 1] = log[j - 1]
      BY <1>1, <3>1
    <3> QED
      BY <3>1, <3>2 DEF LastStreak
  <2> QED
    BY <2>1, <2>2
<1> QED
  BY <1>1, <1>2, <1>3, <1>4, <1>5 DEF LastStreak

\* A streak that a resume ends is the last.
LEMMA ResumeEndsStreak ==
    ASSUME log \in Seq(LogEntry), NEW e, log' = Append(log, e), e.kind = "resume",
           NEW n, n = Len(log), NEW k \in Nat, k > 0, IsStreak(n, k)
    PROVE  n + 1 \in 1..Len(log') /\ LastStreak(n + 1, k)'
<1>1. /\ n \in Nat /\ Len(log') = n + 1 /\ log'[n + 1] = e
      /\ \A j \in 1..n : log'[j] = log[j]
  BY LogAppends
<1>2. k <= n /\ log[n].kind = "fail" /\ n > 0
  BY <1>1 DEF IsStreak
<1>3. IsStreak(n, k)'
  BY <1>1, StreakStays
<1>4. (n + 1) - 1 = n /\ \A j \in (n + 2)..Len(log') : FALSE
  BY <1>1
<1> QED
  BY <1>1, <1>2, <1>3, <1>4 DEF LastStreak

\* What recording a result does to the record, the log and the notices.
LEMMA RecordStep ==
    ASSUME TypeOK, NEW a \in Attempt, Record(a)
    PROVE  /\ file \in State /\ IsState(file) /\ ~file.stopped
           /\ file' \in State /\ IsState(file)'
           /\ file'.generation = file.generation
           /\ code[a] = 0 => file'.consecutive_failures = 0 /\ ~file'.recovery_pending
           /\ code[a] # 0 => /\ file'.consecutive_failures = file.consecutive_failures + 1
                             /\ file'.recovery_pending = file.recovery_pending
                             /\ CarriedFailures(file') = CarriedFailures(file)
           /\ file'.stopped <=> file'.consecutive_failures >= thr[a]
           /\ file'.stopped => file'.threshold = thr[a]
           /\ log' = Append(log, [kind |-> IF code[a] = 0 THEN "ok" ELSE "fail",
                                  attempt |-> a, era |-> era])
           /\ UNCHANGED <<thr, nextGen, spool>>
           /\ \A b \in Attempt : b # a => notice'[b] = notice[b]
           /\ file'.stopped => /\ IsStop(notice'[a])
                               /\ notice'[a].generation = file.generation
           /\ ~file'.stopped => ~IsStop(notice'[a])
           /\ notice'[a].kind = "recovery" =>
                 /\ file.consecutive_failures > 0 \/ file.recovery_pending
                 /\ notice'[a].failures = file.consecutive_failures
                 /\ notice'[a].carried = CarriedFailures(file)
<1> DEFINE after == Recorded(file, code[a], thr[a])
           failures == NextCount(file, code[a])
           recovered == /\ code[a] = 0
                        /\ file.consecutive_failures > 0 \/ file.recovery_pending
           message(kind) ==
               [kind |-> kind, generation |-> file.generation,
                failures |-> IF kind = "stop" THEN after.consecutive_failures
                             ELSE file.consecutive_failures,
                carried |-> CarriedFailures(file)]
<1>1. /\ file \in State /\ IsState(file) /\ ~file.stopped /\ file' = after
      /\ log' = Append(log, [kind |-> IF code[a] = 0 THEN "ok" ELSE "fail",
                             attempt |-> a, era |-> era])
      /\ UNCHANGED <<thr, nextGen, spool>>
      /\ notice' = [notice EXCEPT ![a] = IF after.stopped THEN message("stop")
                                         ELSE IF recovered THEN message("recovery")
                                         ELSE NoNotice]
  BY DEF Record, Counts, Happened, TypeOK, IsState
<1>2. code[a] \in Nat /\ thr[a] \in Nat /\ notice \in [Attempt -> Notice]
  BY DEF TypeOK
<1>3. file' \in State /\ IsState(file)'
  <2>1. file' \in State
    BY <1>1, <1>2, RecordedType
  <2> QED
    BY <2>1, FileAssumption DEF IsState
<1>4. /\ file'.generation = file.generation
      /\ file'.consecutive_failures = failures
      /\ file'.recovery_pending = IF code[a] = 0 THEN FALSE ELSE file.recovery_pending
      /\ file'.failures_before_resume = IF code[a] = 0 THEN None ELSE file.failures_before_resume
      /\ file'.stopped = IF Trips(failures, thr[a]) THEN TRUE ELSE file.stopped
      /\ file'.threshold = IF Trips(failures, thr[a]) THEN thr[a] ELSE file.threshold
  BY <1>1 DEF Recorded, State
<1>5. file'.resumedWith = IF code[a] = 0 /\ file.consecutive_failures > 0 THEN None
                          ELSE file.resumedWith
  BY <1>1 DEF Recorded, State
<1>6. code[a] # 0 => CarriedFailures(file') = CarriedFailures(file)
  BY <1>4, <1>5 DEF CarriedFailures
<1>7. file'.stopped <=> file'.consecutive_failures >= thr[a]
  BY <1>1, <1>4 DEF Trips
<1>8. notice'[a] = IF file'.stopped THEN message("stop")
                   ELSE IF recovered THEN message("recovery") ELSE NoNotice
  BY <1>1, <1>2
<1>9. /\ file'.stopped => IsStop(notice'[a]) /\ notice'[a].generation = file.generation
      /\ ~file'.stopped => ~IsStop(notice'[a])
      /\ notice'[a].kind = "recovery" =>
            /\ file.consecutive_failures > 0 \/ file.recovery_pending
            /\ notice'[a].failures = file.consecutive_failures
            /\ notice'[a].carried = CarriedFailures(file)
  <2>1. CASE file'.stopped
    BY <1>8, <2>1 DEF IsStop
  <2>2. CASE ~file'.stopped /\ recovered
    BY <1>8, <2>2 DEF IsStop
  <2>3. CASE ~file'.stopped /\ ~recovered
    BY <1>8, <2>3 DEF IsStop, NoNotice
  <2> QED
    BY <2>1, <2>2, <2>3
<1>10. \A b \in Attempt : b # a => notice'[b] = notice[b]
  BY <1>1, <1>2
<1>11. /\ code[a] = 0 => failures = 0
       /\ code[a] # 0 => failures = file.consecutive_failures + 1
  BY DEF NextCount
<1>12. file'.stopped => file'.threshold = thr[a]
  BY <1>1, <1>4
<1> HIDE DEF failures, message, recovered, after
<1> QED
  BY <1>1, <1>3, <1>4, <1>6, <1>7, <1>9, <1>10, <1>11, <1>12

\* What a resume leaves, and what it carries.
LEMMA ResumeStep ==
    ASSUME TypeOK, Resume
    PROVE  /\ file # Corrupt /\ file' \in State /\ IsState(file)'
           /\ file'.generation = nextGen + 1 /\ nextGen' = nextGen + 2
           /\ file'.consecutive_failures = 0 /\ ~file'.stopped
           /\ file'.recovery_pending <=> RecoveryPending(read_state)
           /\ RecoveryPending(read_state) =>
                 file'.failures_before_resume = CountBeforeResume(read_state)
           /\ log' = Append(log, [kind |-> "resume", attempt |-> None, era |-> era])
           /\ UNCHANGED <<notice, spool>>
<1>1. /\ file' = Resumed(read_state, nextGen + 1) /\ file # Corrupt
      /\ nextGen' = nextGen + 2 /\ UNCHANGED <<notice, spool>>
      /\ log' = Append(log, [kind |-> "resume", attempt |-> None, era |-> era])
  BY DEF Resume, NewEra, Happened, guardVars
<1>2. file' \in State /\ IsState(file)'
  <2>1. read_state \in State /\ nextGen + 1 \in Nat
    BY <1>1, ReadStateType DEF TypeOK
  <2>2. file' \in State
    BY <1>1, <2>1, ResumedType
  <2> QED
    BY <2>2, FileAssumption DEF IsState
<1>3. /\ file'.generation = nextGen + 1
      /\ file'.consecutive_failures = 0 /\ ~file'.stopped
      /\ file'.recovery_pending = RecoveryPending(read_state)
      /\ file'.failures_before_resume =
            IF RecoveryPending(read_state) THEN CountBeforeResume(read_state) ELSE None
  BY <1>1 DEF Resumed, initial_state
<1> QED
  BY <1>1, <1>2, <1>3

\* An admission writes a fresh record or leaves the one there is.
LEMMA AdmitStep ==
    ASSUME TypeOK, NEW a \in Attempt, Admit(a)
    PROVE  /\ UNCHANGED <<log, thr, notice, spool>>
           /\ \/ file # Missing /\ UNCHANGED <<file, nextGen>>
              \/ /\ file = Missing /\ file' = initial_state(nextGen)
                 /\ file' \in State /\ IsState(file)' /\ nextGen' = nextGen + 1
<1>1. UNCHANGED <<log, thr, notice, spool>> /\ file' = read_state /\ file # Corrupt
      /\ nextGen' = IF file = Missing THEN nextGen + 1 ELSE nextGen
  BY DEF Admit, Closed
<1>2. CASE file # Missing
  BY <1>1, <1>2 DEF read_state
<1>3. CASE file = Missing
  <2>1. file' \in State /\ IsState(file)'
    BY <1>1, ReadStateType, FileAssumption DEF TypeOK, IsState
  <2> QED
    BY <1>1, <1>3, <2>1 DEF read_state
<1> QED
  BY <1>2, <1>3

\* The steps that neither record a result nor open or lose a record.
Quiet ==
    \/ \E a \in Attempt : Plan(a) \/ load_config(a) \/ Refuse(a) \/ CreateExits(a) \/ Drop(a)
                          \/ queue_notification(a) \/ Kill(a)
    \/ Reconfigure
    \/ UNCHANGED vars

LEMMA QuietStep == Quiet => UNCHANGED <<file, log, nextGen>>
  BY DEF Quiet, Plan, load_config, Refuse, CreateExits, Drop, queue_notification, Kill,
         Reconfigure, vars, guardVars, historyVars

LEMMA StepsAre ==
    [Next]_vars =>
        \/ Quiet
        \/ \E a \in Attempt : Admit(a) \/ Record(a)
        \/ Resume \/ LoseFile \/ DamageFile
  BY DEF Next, Quiet

LEMMA LoseStep ==
    ASSUME LoseFile
    PROVE  /\ file' = Missing /\ ~IsState(file)' /\ UNCHANGED <<nextGen, notice, spool>>
           /\ log' = Append(log, [kind |-> "lost", attempt |-> None, era |-> era])
  BY DEF LoseFile, NewEra, Happened, IsState, guardVars

LEMMA DamageStep ==
    ASSUME DamageFile
    PROVE  /\ file' = Corrupt /\ file' # Missing /\ ~IsState(file)'
           /\ UNCHANGED <<log, nextGen, notice, spool>>
  BY FileAssumption DEF DamageFile, IsState, guardVars, historyVars

LEMMA NextStopInv == Known /\ StopInv /\ [Next]_vars => StopInv'
<1> SUFFICES ASSUME TypeOK, LatchInv, StopInv, [Next]_vars PROVE StopInv'
  BY DEF Known
<1>1. CASE Quiet
  <2>1. UNCHANGED <<file, log>>
    BY <1>1, QuietStep
  <2>2. ASSUME Len(log) > 0, log[Len(log)].attempt \in Attempt
        PROVE  thr'[log[Len(log)].attempt] = thr[log[Len(log)].attempt]
    <3> DEFINE b == log[Len(log)].attempt
    <3>1. Len(log) \in 1..Len(log)
      BY <2>2 DEF TypeOK
    <3>2. pc[b] \in {"announcing", "done", "killed"}
      BY <2>2, <3>1 DEF LatchInv, RecordedAreDone
    <3> HIDE DEF b
    <3>3. ASSUME NEW a \in Attempt, load_config(a) PROVE thr'[b] = thr[b]
      <4>1. a # b
        BY <3>2, <3>3 DEF load_config
      <4> QED
        BY <3>3, <4>1 DEF load_config, TypeOK
    <3>4. CASE UNCHANGED thr
      BY <3>4
    <3>5. UNCHANGED thr \/ \E a \in Attempt : load_config(a)
      BY <1>1 DEF Quiet, Plan, Refuse, CreateExits, Drop, queue_notification, Kill,
                  Reconfigure, vars, guardVars
    <3> QED
      BY <3>3, <3>4, <3>5 DEF b
  <2> QED
    BY <2>1, <2>2 DEF StopInv, IsState
<1>2. ASSUME NEW a \in Attempt, Admit(a) PROVE StopInv'
  <2>1. CASE UNCHANGED <<file, log, thr>>
    BY <2>1 DEF StopInv, IsState
  <2>2. CASE file' = initial_state(nextGen)
    BY <2>2 DEF StopInv, initial_state
  <2> QED
    BY <1>2, <2>1, <2>2, AdmitStep
<1>3. ASSUME NEW a \in Attempt, Record(a) PROVE StopInv'
  <2> DEFINE e == [kind |-> IF code[a] = 0 THEN "ok" ELSE "fail", attempt |-> a, era |-> era]
  <2>1. /\ file \in State /\ file' \in State
        /\ code[a] = 0 => file'.consecutive_failures = 0
        /\ code[a] # 0 => file'.consecutive_failures = file.consecutive_failures + 1
        /\ file'.stopped <=> file'.consecutive_failures >= thr[a]
        /\ file'.stopped => file'.threshold = thr[a]
        /\ log' = Append(log, e) /\ UNCHANGED thr
    BY <1>3, RecordStep
  <2>2. thr[a] \in Nat \ {0}
    BY <1>3, ThresholdsAssumption DEF Record, LatchInv, AdmittedAreGuarded
  <2>3. file'.consecutive_failures \in Nat
    BY <2>1 DEF State
  <2>4. file'.stopped => file'.consecutive_failures > 0 /\ file'.consecutive_failures >= file'.threshold
    BY <2>1, <2>2, <2>3
  <2>5. Len(log') > 0 /\ log'[Len(log')] = e
    BY <2>1, LogAppends DEF TypeOK
  <2>6. ~file'.stopped => file'.consecutive_failures < thr'[log'[Len(log')].attempt]
    BY <2>1, <2>2, <2>3, <2>5
  <2> QED
    BY <2>4, <2>5, <2>6 DEF StopInv
<1>4. CASE Resume
  BY <1>4, ResumeStep DEF StopInv
<1>5. CASE LoseFile \/ DamageFile
  BY <1>5, LoseStep, DamageStep DEF StopInv
<1> QED
  BY <1>1, <1>2, <1>3, <1>4, <1>5, StepsAre

LEMMA NextOwedInv == Known /\ StopInv /\ OwedInv /\ [Next]_vars => OwedInv'
<1> SUFFICES ASSUME TypeOK, StopInv, OwedInv, [Next]_vars PROVE OwedInv'
  BY DEF Known
<1> DEFINE Owes(f) == f.consecutive_failures > 0 \/ f.recovery_pending
<1>a. (IsState(file) => (Owes(file) <=> Failing)) /\ (file = Missing => ~Failing)
  BY DEF OwedInv, RecoveryOwedAfterFailure, Failing
<1>b. SUFFICES (IsState(file)' => (Owes(file') <=> Failing')) /\ (file' = Missing => ~Failing')
  BY DEF OwedInv, RecoveryOwedAfterFailure, Failing
<1>c. UNCHANGED log => (Failing' <=> Failing)
  BY DEF Failing
<1>d. log \in Seq(LogEntry)
  BY DEF TypeOK
<1>e. IsState(file)' => file' # Missing
  BY DEF IsState
<1>1. CASE Quiet
  BY <1>1, <1>a, <1>c, QuietStep DEF IsState
<1>2. ASSUME NEW a \in Attempt, Admit(a)
      PROVE  (IsState(file)' => (Owes(file') <=> Failing')) /\ (file' = Missing => ~Failing')
  <2>1. CASE UNCHANGED <<file, log>>
    BY <2>1, <1>a, <1>c DEF IsState
  <2>2. CASE file = Missing /\ file' = initial_state(nextGen) /\ IsState(file)' /\ UNCHANGED log
    BY <2>2, <1>a, <1>c, <1>e DEF initial_state
  <2> QED
    BY <1>2, <2>1, <2>2, AdmitStep
<1>3. ASSUME NEW a \in Attempt, Record(a)
      PROVE  (IsState(file)' => (Owes(file') <=> Failing')) /\ (file' = Missing => ~Failing')
  <2> DEFINE e == [kind |-> IF code[a] = 0 THEN "ok" ELSE "fail", attempt |-> a, era |-> era]
  <2>1. /\ file \in State /\ IsState(file) /\ IsState(file)' /\ log' = Append(log, e)
        /\ code[a] = 0 => file'.consecutive_failures = 0 /\ ~file'.recovery_pending
        /\ code[a] # 0 => /\ file'.consecutive_failures = file.consecutive_failures + 1
                          /\ file'.recovery_pending = file.recovery_pending
    BY <1>3, RecordStep
  <2>2. Failing' <=> e.kind = "fail" \/ (Failing /\ e.kind \notin {"ok", "lost"})
    BY <1>d, <2>1, FailingGrows
  <2>3. CASE code[a] = 0
    BY <1>e, <2>1, <2>2, <2>3
  <2>4. CASE code[a] # 0
    <3>1. Failing'
      BY <2>2, <2>4
    <3>2. file'.consecutive_failures > 0
      BY <2>1, <2>4 DEF State
    <3> QED
      BY <1>e, <2>1, <3>1, <3>2
  <2> QED
    BY <2>3, <2>4
<1>4. CASE Resume
  <2>1. Failing' <=> Failing
    BY <1>4, <1>d, ResumeStep, FailingGrows
  <2>2. /\ file # Corrupt /\ IsState(file)' /\ file'.consecutive_failures = 0
        /\ file'.recovery_pending <=> RecoveryPending(read_state)
    BY <1>4, ResumeStep
  <2>3. CASE file = Missing
    BY <1>a, <1>e, <2>1, <2>2, <2>3 DEF read_state, initial_state, RecoveryPending
  <2>4. CASE IsState(file)
    <3>1. RecoveryPending(read_state) <=> Owes(file)
      BY <2>4 DEF read_state, RecoveryPending, StopInv, IsState
    <3> QED
      BY <1>a, <1>e, <2>1, <2>2, <2>4, <3>1
  <2> QED
    BY <2>2, <2>3, <2>4 DEF IsState
<1>5. CASE LoseFile
  BY <1>5, <1>d, LoseStep, FailingGrows
<1>6. CASE DamageFile
  BY <1>6, DamageStep
<1> QED
  BY <1>1, <1>2, <1>3, <1>4, <1>5, <1>6, StepsAre

LEMMA NextCarriedInv == Known /\ StopInv /\ CarriedInv /\ [Next]_vars => CarriedInv'
<1> SUFFICES ASSUME TypeOK, CountInv, StopInv, CarriedInv, [Next]_vars,
                    IsState(file)', file'.recovery_pending
             PROVE  \E i \in 1..Len(log') : LastStreak(i, CarriedFailures(file))'
  BY DEF Known, CarriedInv
<1>d. log \in Seq(LogEntry)
  BY DEF TypeOK
<1>a. ASSUME UNCHANGED <<file, log>>
      PROVE  \E i \in 1..Len(log') : LastStreak(i, CarriedFailures(file))'
  BY <1>a DEF CarriedInv, IsState, LastStreak, IsStreak, CarriedFailures
<1>1. CASE Quiet
  BY <1>1, <1>a, QuietStep
<1>2. ASSUME NEW a \in Attempt, Admit(a)
      PROVE  \E i \in 1..Len(log') : LastStreak(i, CarriedFailures(file))'
  <2>1. file' # initial_state(nextGen)
    BY DEF initial_state
  <2> QED
    BY <1>2, <1>a, <2>1, AdmitStep
<1>3. ASSUME NEW a \in Attempt, Record(a)
      PROVE  \E i \in 1..Len(log') : LastStreak(i, CarriedFailures(file))'
  <2> DEFINE e == [kind |-> IF code[a] = 0 THEN "ok" ELSE "fail", attempt |-> a, era |-> era]
  <2>1. /\ IsState(file) /\ log' = Append(log, e)
        /\ code[a] = 0 => ~file'.recovery_pending
        /\ code[a] # 0 => /\ file'.recovery_pending = file.recovery_pending
                          /\ CarriedFailures(file') = CarriedFailures(file)
    BY <1>3, RecordStep
  <2>2. code[a] # 0 /\ e.kind = "fail"
    BY <2>1
  <2> HIDE DEF e
  <2>3. PICK i \in 1..Len(log) : LastStreak(i, CarriedFailures(file))
    BY <2>1, <2>2 DEF CarriedInv
  <2>4. PICK k : k = CarriedFailures(file)
    OBVIOUS
  <2>5. i \in 1..Len(log') /\ LastStreak(i, k)'
    BY <1>d, <2>1, <2>2, <2>3, <2>4, LastStreakStays
  <2> QED
    BY <2>1, <2>2, <2>4, <2>5
<1>4. CASE Resume
  <2> DEFINE e == [kind |-> "resume", attempt |-> None, era |-> era]
  <2>1. /\ file # Corrupt /\ file' \in State /\ log' = Append(log, e)
        /\ RecoveryPending(read_state)
        /\ file'.failures_before_resume = CountBeforeResume(read_state)
    BY <1>4, ResumeStep
  <2>2. e.kind = "resume"
    OBVIOUS
  <2> HIDE DEF e
  <2>3. file # Missing
    BY <2>1 DEF read_state, initial_state, RecoveryPending
  <2>4. IsState(file) /\ file \in State /\ read_state = file
    BY <2>1, <2>3 DEF IsState, TypeOK, read_state
  <2>5. file.consecutive_failures \in Nat /\ IsStreak(Len(log), file.consecutive_failures)
    BY <2>4 DEF State, CountInv, CountIsTrailingFailures
  <2>6. ASSUME NEW k \in Nat, k = CountBeforeResume(file) PROVE CarriedFailures(file') = k
    BY <2>1, <2>4, <2>6, NoneAssumption DEF CarriedFailures
  <2>7. CASE file.consecutive_failures > 0
    <3>1. PICK k \in Nat : k = file.consecutive_failures
      BY <2>5
    <3>2. k = CountBeforeResume(file) /\ k > 0
      BY <2>7, <3>1, NoneAssumption DEF CountBeforeResume
    <3>3. PICK n : n = Len(log)
      OBVIOUS
    <3>4. n + 1 \in 1..Len(log') /\ LastStreak(n + 1, k)'
      BY <1>d, <2>1, <2>2, <2>5, <3>1, <3>2, <3>3, ResumeEndsStreak
    <3>5. CarriedFailures(file') = k
      BY <2>6, <3>2
    <3> QED
      BY <3>4, <3>5
  <2>8. CASE file.consecutive_failures = 0
    <3>1. ~file.stopped /\ file.recovery_pending
      BY <2>1, <2>4, <2>8 DEF StopInv, RecoveryPending
    <3>2. PICK i \in 1..Len(log) : LastStreak(i, CarriedFailures(file))
      BY <2>4, <3>1 DEF CarriedInv
    <3>3. PICK k : k = CarriedFailures(file)
      OBVIOUS
    <3>4. k \in Nat
      BY <3>2, <3>3 DEF LastStreak
    <3>5. k = CountBeforeResume(file)
      BY <2>8, <3>1, <3>3 DEF CountBeforeResume, CarriedFailures
    <3>6. log[Len(log)].kind # "fail"
      BY <1>d, <2>5, <2>8, <3>2 DEF IsStreak
    <3>7. i \in 1..Len(log') /\ LastStreak(i, k)'
      BY <1>d, <2>1, <2>2, <3>2, <3>3, <3>6, LastStreakStays
    <3>8. CarriedFailures(file') = k
      BY <2>6, <3>4, <3>5
    <3> QED
      BY <3>7, <3>8
  <2> QED
    BY <2>5, <2>7, <2>8
<1>5. CASE LoseFile \/ DamageFile
  BY <1>5, LoseStep, DamageStep
<1> QED
  BY <1>1, <1>2, <1>3, <1>4, <1>5, StepsAre

\* A recovery that is owed can quote a count.
LEMMA OwedIsQuoted ==
    ASSUME TypeOK, CarriedInv, IsState(file), file.recovery_pending
    PROVE  CarriedFailures(file) \notin {0, None}
<1>1. PICK i \in 1..Len(log) : LastStreak(i, CarriedFailures(file))
  BY DEF CarriedInv
<1>2. /\ i - 1 \in Nat /\ i - 1 > 0 /\ log[i - 1].kind = "fail" /\ CarriedFailures(file) \in Nat
      /\ IsStreak(i - 1, CarriedFailures(file))
  BY <1>1 DEF LastStreak, TypeOK
<1>3. CarriedFailures(file) # 0
  BY <1>2 DEF IsStreak
<1> QED
  BY <1>2, <1>3, NoneAssumption

\* A generation that had its stop never gets another.
LEMMA SpentStays ==
    ASSUME TypeOK, [Next]_vars, NEW g \in Nat, Spent(g)
    PROVE  Spent(g)'
<1>1. nextGen \in Nat /\ nextGen' \in Nat /\ nextGen <= nextGen'
  BY NextTypeOK DEF TypeOK, Next, Plan, load_config, Refuse, Admit, CreateExits, Record, Drop,
     queue_notification, Kill, Resume, Reconfigure, LoseFile, DamageFile, vars
<1>2. g < nextGen'
  BY <1>1 DEF Spent
<1>3. ASSUME IsState(file)', file'.generation = g PROVE file'.stopped
  <2>1. CASE Quiet
    BY <1>3, <2>1, QuietStep DEF Spent, IsState
  <2>2. ASSUME NEW a \in Attempt, Admit(a) PROVE file'.stopped
    <3>1. file' # initial_state(nextGen)
      BY <1>1, <1>3 DEF initial_state, Spent
    <3> QED
      BY <1>3, <2>2, <3>1, AdmitStep DEF Spent, IsState
  <2>3. ASSUME NEW a \in Attempt, Record(a) PROVE FALSE
    BY <1>3, <2>3, RecordStep DEF Spent
  <2>4. CASE Resume
    BY <1>1, <1>3, <2>4, ResumeStep DEF Spent
  <2>5. CASE LoseFile \/ DamageFile
    BY <1>3, <2>5, LoseStep, DamageStep
  <2> QED
    BY <2>1, <2>2, <2>3, <2>4, <2>5, StepsAre
<1> QED
  BY <1>2, <1>3 DEF Spent

LEMMA NextNoticeInv ==
    Known /\ CarriedInv /\ NoticeInv /\ [Next]_vars => NoticeInv'
<1> SUFFICES ASSUME TypeOK, EraInv, CarriedInv, NoticeInv, [Next]_vars PROVE NoticeInv'
  BY DEF Known
<1> USE DEF NoticeInv
<1>g. /\ notice \in [Attempt -> Notice]
      /\ \A a \in Attempt : notice[a].generation \in Nat
      /\ \A n \in spool : n.message.generation \in Nat
  BY DEF TypeOK, Notice
<1>s. \A g \in Nat : Spent(g) =>
         g < nextGen' /\ (IsState(file)' /\ file'.generation = g => file'.stopped)
  BY SpentStays DEF Spent
<1>n. ~IsStop(NoNotice) /\ Reports(NoNotice)
  BY DEF IsStop, Reports, NoNotice
<1>a. ASSUME UNCHANGED <<notice, spool>> PROVE NoticeInv'
  <2>1. StopsAreSpent'
    <3>1. /\ \A a \in Attempt : IsStop(notice[a]) => Spent(notice[a].generation)
          /\ \A n \in spool : IsStop(n.message) => Spent(n.message.generation)
      BY DEF StopsAreSpent
    <3> QED
      BY <1>a, <1>g, <1>s, <3>1 DEF StopsAreSpent, Spent, IsStop
  <2>2. StopsAreSingle' /\ AllReport'
    BY <1>a DEF StopsAreSingle, AllReport, IsStop, Reports
  <2> QED
    BY <2>1, <2>2
<1>b. ASSUME NEW a \in Attempt, notice'[a] = NoNotice,
             \A b \in Attempt : b # a => notice'[b] = notice[b],
             NEW queued, queued.message = notice[a], \A n \in spool' : n \in spool \/ n = queued
      PROVE  NoticeInv'
  <2>1. StopsAreSpent'
    <3>1. /\ \A b \in Attempt : IsStop(notice[b]) => Spent(notice[b].generation)
          /\ \A n \in spool : IsStop(n.message) => Spent(n.message.generation)
      BY DEF StopsAreSpent
    <3>2. ASSUME NEW b \in Attempt, IsStop(notice'[b])
          PROVE  IsStop(notice[b]) /\ notice'[b] = notice[b]
      BY <1>b, <1>n, <3>2
    <3>3. ASSUME NEW n \in spool', IsStop(n.message)
          PROVE  n.message.generation \in Nat /\ Spent(n.message.generation)
      BY <1>b, <1>g, <3>1, <3>3
    <3> QED
      BY <1>g, <1>s, <3>1, <3>2, <3>3 DEF StopsAreSpent, Spent, IsStop
  <2>2. StopsAreSingle'
    BY <1>b, <1>n DEF StopsAreSingle, IsStop
  <2>3. AllReport'
    BY <1>b, <1>n DEF AllReport, Reports
  <2> QED
    BY <2>1, <2>2, <2>3
<1>1. ASSUME NEW a \in Attempt, queue_notification(a) \/ Kill(a) PROVE NoticeInv'
  <2>1. PICK queued : queued = [attempt |-> a, message |-> notice[a]]
    OBVIOUS
  <2>2. queued.message = notice[a]
    BY <2>1
  <2>3. /\ spool' \in {spool, spool \union {queued}}
        /\ notice'[a] = NoNotice /\ \A b \in Attempt : b # a => notice'[b] = notice[b]
    BY <1>1, <1>g, <2>1 DEF queue_notification, Kill
  <2>4. \A n \in spool' : n \in spool \/ n = queued
    BY <2>3
  <2> QED
    BY <1>b, <2>2, <2>3, <2>4
<1>2. CASE Quiet
  <2>1. UNCHANGED <<notice, spool>> \/ \E a \in Attempt : queue_notification(a) \/ Kill(a)
    BY <1>2 DEF Quiet, Plan, load_config, Refuse, CreateExits, Drop, Reconfigure, vars, guardVars
  <2> QED
    BY <1>a, <1>1, <2>1
<1>3. ASSUME NEW a \in Attempt, Admit(a) PROVE NoticeInv'
  BY <1>a, <1>3, AdmitStep
<1>4. ASSUME NEW a \in Attempt, Record(a) PROVE NoticeInv'
  <2> DEFINE g == file.generation
  <2>1. /\ file \in State /\ IsState(file) /\ ~file.stopped
        /\ IsState(file)' /\ file'.generation = g
        /\ UNCHANGED <<nextGen, spool>>
        /\ \A b \in Attempt : b # a => notice'[b] = notice[b]
        /\ file'.stopped => /\ IsStop(notice'[a])
                            /\ notice'[a].generation = g
        /\ ~file'.stopped => ~IsStop(notice'[a])
        /\ notice'[a].kind = "recovery" =>
              /\ file.consecutive_failures > 0 \/ file.recovery_pending
              /\ notice'[a].failures = file.consecutive_failures
              /\ notice'[a].carried = CarriedFailures(file)
    BY <1>4, RecordStep
  <2>2. Reports(notice'[a])
    BY <2>1, OwedIsQuoted DEF Reports
  <2>3. ~Spent(g)
    BY <2>1 DEF Spent
  <2>4. g < nextGen' /\ (IsStop(notice'[a]) => file'.stopped /\ notice'[a].generation = g)
    BY <2>1 DEF EraInv, GenerationsAreFresh
  <2> HIDE DEF g
  <2>5. \A b \in Attempt : b # a /\ IsStop(notice[b]) =>
            Spent(notice[b].generation) /\ notice[b].generation # g
    BY <2>3 DEF StopsAreSpent
  <2>6. \A n \in spool : IsStop(n.message) =>
            Spent(n.message.generation) /\ n.message.generation # g
    BY <2>3 DEF StopsAreSpent
  <2>7. StopsAreSpent'
    <3>1. ASSUME NEW b \in Attempt, IsStop(notice'[b]) PROVE Spent(notice[b].generation)'
      <4>1. CASE b = a
        BY <2>1, <2>4, <3>1, <4>1 DEF Spent
      <4>2. CASE b # a
        BY <1>g, <1>s, <2>1, <2>5, <3>1, <4>2 DEF Spent
      <4> QED
        BY <4>1, <4>2
    <3>2. ASSUME NEW n \in spool', IsStop(n.message) PROVE Spent(n.message.generation)'
      BY <1>g, <1>s, <2>1, <2>6, <3>2 DEF Spent
    <3> QED
      BY <3>1, <3>2 DEF StopsAreSpent, IsStop
  <2>8. StopsAreSingle'
    BY <2>1, <2>4, <2>5, <2>6 DEF StopsAreSingle, IsStop
  <2>9. AllReport'
    BY <2>1, <2>2 DEF AllReport, Reports
  <2> QED
    BY <2>7, <2>8, <2>9
<1>5. CASE Resume
  BY <1>a, <1>5, ResumeStep
<1>6. CASE LoseFile \/ DamageFile
  BY <1>a, <1>6, LoseStep, DamageStep
<1> QED
  BY <1>1, <1>2, <1>3, <1>4, <1>5, <1>6, StepsAre

LEMMA InitHistoryInv == Init => HistoryInv
<1> SUFFICES ASSUME Init PROVE HistoryInv
  OBVIOUS
<1> DEFINE entry(kind) == [kind |-> kind, attempt |-> None, era |-> 0]
           both == <<entry("fail"), entry("resume")>>
           legacy == [initial_state(0) EXCEPT !.recovery_pending = TRUE, !.resumedWith = 1]
<1>1. Len(both) = 2 /\ both[1] = entry("fail") /\ both[2] = entry("resume") /\ Len(<<>>) = 0
  OBVIOUS
<1>2. \/ file = Missing /\ log = <<>>
      \/ file = legacy /\ log = both
  BY DEF Init
<1>3. /\ legacy.consecutive_failures = 0 /\ ~legacy.stopped /\ legacy.recovery_pending
      /\ CarriedFailures(legacy) = 1
  BY DEF initial_state, CarriedFailures
<1>4. legacy \notin {Missing, Corrupt}
  <2>1. initial_state(0) \in State
    BY DEF initial_state, State, Count
  <2>2. legacy \in State
    BY <2>1 DEF State, Count
  <2> QED
    BY <2>2, FileAssumption
<1> HIDE DEF legacy
<1>5. NoticeInv
  BY DEF Init, NoticeInv, StopsAreSpent, StopsAreSingle, AllReport, IsStop, Reports, NoNotice
<1>6. CASE file = Missing /\ log = <<>>
  <2>1. ~IsState(file) /\ ~Failing
    BY <1>1, <1>6 DEF IsState, Failing
  <2> QED
    BY <1>5, <2>1 DEF HistoryInv, StopInv, OwedInv, RecoveryOwedAfterFailure, CarriedInv
<1>7. CASE file = legacy /\ log = both
  <2>1. /\ Len(log) = 2 /\ log[1].kind = "fail" /\ log[2].kind = "resume"
        /\ file.consecutive_failures = 0 /\ ~file.stopped /\ file.recovery_pending
        /\ file # Missing /\ CarriedFailures(file) = 1
    BY <1>1, <1>3, <1>4, <1>7
  <2>2. StopInv
    BY <2>1 DEF StopInv
  <2>3. Failing
    <3>1. 1 \in 1..Len(log) /\ \A j \in 1..Len(log) : log[j].kind \notin {"ok", "lost"}
      BY <2>1
    <3> QED
      BY <2>1, <3>1 DEF Failing
  <2>4. OwedInv
    BY <2>1, <2>3 DEF OwedInv, RecoveryOwedAfterFailure, Failing
  <2>5. LastStreak(2, 1)
    BY <2>1 DEF LastStreak, IsStreak
  <2>6. CarriedInv
    <3>1. 2 \in 1..Len(log)
      BY <2>1
    <3> QED
      BY <2>1, <2>5, <3>1 DEF CarriedInv
  <2> QED
    BY <1>5, <2>2, <2>4, <2>6 DEF HistoryInv
<1> QED
  BY <1>2, <1>6, <1>7

\* Whatever creations overlap and whichever guard dies, a stop comes with the
\* failure that reaches the threshold, a recovery is owed exactly after a
\* failure, it quotes the last streak, and no stop is announced twice.
THEOREM HistoryIsTrue == Spec => []RecordTellsTheHistory
<1>1. Init => Known /\ HistoryInv
  BY InitTypeOK, InitEraInv, InitCountInv, InitLatchInv, InitHistoryInv DEF Known
<1>2. Known /\ HistoryInv /\ [Next]_vars => (Known /\ HistoryInv)'
  <2>1. Known /\ [Next]_vars => Known'
    BY NextTypeOK, NextEraInv, NextCountInv, NextLatchInv DEF Known
  <2>2. Known /\ HistoryInv /\ [Next]_vars => HistoryInv'
    BY NextStopInv, NextOwedInv, NextCarriedInv, NextNoticeInv DEF HistoryInv
  <2> QED
    BY <2>1, <2>2
<1>3. Known /\ HistoryInv => RecordTellsTheHistory
  BY HistoryIsTold DEF Known
<1> QED
  BY <1>1, <1>2, <1>3, PTL DEF Spec

---------------------------------------------------------------------------
(***************************************************************************)
(* Planning: fresh names, the number of clusters and of their nodes, no    *)
(* creation unasked, and types.                                            *)
(***************************************************************************)

LEMMA LeastNatural ==
    ASSUME NEW T \in SUBSET Nat, T # {}
    PROVE  \E x \in T : \A y \in T : x <= y
<1>1. PICK x \in T : \A y \in T : ~(<<y, x>> \in OpToRel(<, Nat))
  BY NatLessThanWellFounded, WFMin
<1>2. \A y \in T : ~(y < x)
  BY <1>1 DEF OpToRel
<1> QED
  BY <1>2

\* The search of lines 582-586 finds a free index, no higher than one more than
\* the indexes in use.
LEMMA NextIndexIsFree ==
    ASSUME NEW u \in SUBSET Nat, IsFiniteSet(u)
    PROVE  /\ NextIndex(u) \in 1 .. (Cardinality(u) + 1)
           /\ NextIndex(u) \notin u
<1> DEFINE n == Cardinality(u) + 1
           free == {i \in 1 .. n : i \notin u}
<1>1. n \in Nat
  BY FS_CardinalityType
<1>2. free # {}
  <2> SUFFICES ASSUME free = {} PROVE FALSE
    OBVIOUS
  <2>1. 1 .. n \in SUBSET u
    OBVIOUS
  <2>2. Cardinality(1 .. n) <= Cardinality(u)
    BY <2>1, FS_Subset
  <2>3. Cardinality(1 .. n) = n
    BY <1>1, FS_Interval
  <2> QED
    BY <1>1, <2>2, <2>3, FS_CardinalityType
<1>3. free \in SUBSET Nat
  BY <1>1
<1>4. \E i \in free : \A k \in free : i <= k
  <2> HIDE DEF free
  <2> QED
    BY <1>2, <1>3, LeastNatural
<1>5. PICK i \in free : \A k \in free : i <= k
  BY <1>4
<1>6. i \in 1 .. n /\ i \notin u /\ \A k \in 1 .. (i - 1) : k \in u
  BY <1>1, <1>5
<1> QED
  BY <1>6 DEF NextIndex

-----------------------------------------------------------------------------
(* The inductive invariant: indexes within max_cluster_count, a name for one   *)
(* cluster only, and, once the directories are read, used_index knows every    *)
(* cluster there is.  The last part is what Prompt is for: a creation that has *)
(* not made its directory when a later pass looks would be unknown to it.      *)

AllIndexed == at \in {"delete", "create"} => \A c \in In(Live) : index[c] \in used

Indexed ==
    /\ phase \in [Creation -> Phase] /\ index \in [Creation -> Nat]
    /\ used \in SUBSET (1 .. MaxClusterCount)
    /\ \A c \in In(Live) : index[c] \in 1 .. MaxClusterCount

Inv == Indexed /\ NamesAreFresh /\ AllIndexed

LEMMA FreshIndex ==
    ASSUME Indexed, ~CountReached(used)
    PROVE  NextIndex(used) \in 1 .. MaxClusterCount /\ NextIndex(used) \notin used
<1>1. used \in SUBSET Nat
  BY DEF Indexed
<1>2. IsFiniteSet(1 .. MaxClusterCount)
  BY Limits, FS_Interval
<1>3. IsFiniteSet(used)
  BY <1>2, FS_Subset DEF Indexed
<1>4. Cardinality(used) \in Nat /\ Cardinality(used) < MaxClusterCount
  BY <1>3, FS_CardinalityType, Limits DEF CountReached
<1> QED
  BY <1>1, <1>3, <1>4, NextIndexIsFree, Limits

LEMMA InvInit == PlanInit => Inv
  BY DEF PlanInit, Inv, Indexed, NamesAreFresh, AllIndexed, In, Live, HasDirectory, Phase

\* A step that only takes clusters away, or moves them on, and leaves used_index
\* alone, keeps the invariant.
LEMMA NothingNew ==
    ASSUME Inv, phase' \in [Creation -> Phase], index' \in [Creation -> Nat],
           \A c \in Creation : phase'[c] \in Live =>
               phase[c] \in Live /\ index'[c] = index[c],
           \/ at' = at /\ used' = used
           \/ at' \notin {"delete", "create"} /\ used' \in {used, {}}
           \/ at = "delete" /\ at' = "create" /\ used' = used
    PROVE  Inv'
<1> USE DEF Inv, In
<1>1. Indexed'
  BY DEF Indexed
<1>2. NamesAreFresh'
  BY DEF NamesAreFresh
<1>3. AllIndexed'
  BY DEF AllIndexed
<1> QED
  BY <1>1, <1>2, <1>3

LEMMA InvNext ==
    ASSUME Prompt, Inv, [PlanNext]_planVars
    PROVE  Inv'
<1> USE DEF clusterVars, passVars
<1>p. /\ phase \in [Creation -> Phase] /\ index \in [Creation -> Nat]
      /\ \A c \in Creation : phase[c] = "unused" => phase[c] \notin Live
  BY DEF Inv, Indexed, Live, HasDirectory
<1>1. CASE ReadJobs
  BY <1>1, <1>p, NothingNew DEF ReadJobs
<1>2. CASE ReadNodes
  BY <1>2, <1>p, NothingNew DEF ReadNodes
<1>3. CASE ReadDirectories
  <2>1. /\ phase' = phase /\ index' = index /\ at' = "delete"
        /\ used' = {index[c] : c \in In(HasDirectory)}
        /\ In({"spawned", "copied"}) = {}
    BY <1>3 DEF ReadDirectories, Seen
  <2>2. In(Live) = In(HasDirectory) /\ In(Live)' = In(Live)
    BY <2>1 DEF In, Live, HasDirectory
  <2>3. used' \in SUBSET (1 .. MaxClusterCount)
    BY <2>1, <2>2 DEF Inv, Indexed
  <2>4. Indexed'
    BY <2>1, <2>2, <2>3 DEF Inv, Indexed
  <2>5. NamesAreFresh'
    BY <2>1, <2>2 DEF Inv, NamesAreFresh
  <2>6. AllIndexed'
    BY <2>1, <2>2 DEF AllIndexed
  <2> QED
    BY <2>4, <2>5, <2>6 DEF Inv
<1>4. CASE Deleted
  BY <1>4, <1>p, NothingNew DEF Deleted
<1>5. CASE PassEnds \/ Abandon
  BY <1>5, <1>p, NothingNew DEF PassEnds, Abandon, Over
<1>6. ASSUME NEW c \in Creation, HandOver(c) PROVE Inv'
  BY <1>6, <1>p, NothingNew DEF HandOver, Live, HasDirectory, Phase
<1>7. ASSUME NEW j \in Job, RefuseForCount(j) PROVE Inv'
  BY <1>7, <1>p, NothingNew DEF RefuseForCount, Next_request
<1>8. ASSUME NEW j \in Job, RefuseForNodes(j) PROVE Inv'
  <2>1. /\ phase' = phase /\ index' = index /\ at' = at
        /\ used' = used \union {NextIndex(used)} /\ ~CountReached(used)
    BY <1>8 DEF RefuseForNodes
  <2>2. NextIndex(used) \in 1 .. MaxClusterCount
    BY <2>1, FreshIndex DEF Inv
  <2>3. In(Live)' = In(Live)
    BY <2>1 DEF In
  <2>4. Indexed' /\ NamesAreFresh' /\ AllIndexed'
    BY <2>1, <2>2, <2>3 DEF Inv, Indexed, NamesAreFresh, AllIndexed
  <2> QED
    BY <2>4 DEF Inv
<1>9. ASSUME NEW j \in Job, NEW c \in Creation, Spawn(j, c) PROVE Inv'
  <2> DEFINE i == NextIndex(used)
  <2>1. /\ phase' = [phase EXCEPT ![c] = "spawned"]
        /\ index' = [index EXCEPT ![c] = i] /\ used' = used \union {i}
        /\ at' = at /\ at = "create" /\ ~CountReached(used)
    BY <1>9 DEF Spawn, Next_request
  <2>2. i \in 1 .. MaxClusterCount /\ i \notin used
    BY <2>1, FreshIndex DEF Inv
  <2>3. In(Live)' = In(Live) \union {c}
    BY <2>1, <1>p DEF In, Live
  <2>4. /\ index'[c] = i
        /\ \A d \in In(Live) \ {c} : index'[d] = index[d] /\ index[d] \in used
    BY <2>1, <1>p DEF Inv, AllIndexed, In
  <2> HIDE DEF i
  <2>5. phase' \in [Creation -> Phase]
    BY <2>1, <1>p DEF Phase, Live
  <2>6. index' \in [Creation -> Nat]
    BY <2>1, <2>2, <1>p
  <2>7. Indexed'
    BY <2>1, <2>2, <2>3, <2>4, <2>5, <2>6 DEF Inv, Indexed
  <2>8. NamesAreFresh'
    BY <2>2, <2>3, <2>4 DEF Inv, NamesAreFresh
  <2>9. AllIndexed'
    BY <2>1, <2>3, <2>4 DEF AllIndexed
  <2> QED
    BY <2>7, <2>8, <2>9 DEF Inv
<1>10. ASSUME NEW c \in Creation, ClusterStep(c) PROVE Inv'
  <2>1. at' = at /\ used' = used
    BY <1>10 DEF ClusterStep, Refused, Copied, Invalid, Mark, Join, Finish,
                 BuildFails, Delete, LeaveSlurm, Removed, Becomes, Gone
  <2>2. CASE Refused(c) \/ Invalid(c) \/ Removed(c)
    <3>1. /\ phase' = [phase EXCEPT ![c] = "unused"]
          /\ index' = [index EXCEPT ![c] = 0]
      BY <2>2 DEF Refused, Invalid, Removed, Gone
    <3> QED
      BY <3>1, <2>1, <1>p, NothingNew DEF Live, HasDirectory, Phase
  <2>3. CASE ~(Refused(c) \/ Invalid(c) \/ Removed(c))
    <3>1. /\ index' = index /\ phase[c] \in Live
          /\ \E to \in Live : phase' = [phase EXCEPT ![c] = to]
      BY <1>10, <2>3 DEF ClusterStep, Copied, Mark, Join, Finish, BuildFails,
          Delete, LeaveSlurm, Becomes, Live, HasDirectory
    <3> QED
      BY <3>1, <2>1, <1>p, NothingNew DEF Phase
  <2> QED
    BY <2>2, <2>3
<1>11. ASSUME NEW j \in Job, JobStep(j) PROVE Inv'
  BY <1>11, <1>p, NothingNew DEF JobStep, Submit, End, Start
<1>12. CASE UNCHANGED planVars
  BY <1>12, <1>p, NothingNew DEF planVars
<1> QED
  BY <1>1, <1>2, <1>3, <1>4, <1>5, <1>6, <1>7, <1>8, <1>9, <1>10, <1>11, <1>12
     DEF PlanNext, PassStep

\* Names are an injection of the clusters into 1 .. max_cluster_count.
LEMMA InvBoundsCount ==
    ASSUME Inv
    PROVE  ClustersWithinCount
<1> DEFINE C == In(Live)
           T == 1 .. MaxClusterCount
           f == [c \in C |-> index[c]]
<1>1. IsFiniteSet(T) /\ Cardinality(T) = MaxClusterCount
  BY Limits, FS_Interval
<1>2. f \in [C -> T]
  BY DEF Inv, Indexed
<1>3. \A c, d \in C : f[c] = f[d] => c = d
  BY DEF Inv, NamesAreFresh
<1>4. f \in Injection(C, T)
  BY <1>2, <1>3 DEF Injection, IsInjective
<1>5. Cardinality(C) <= Cardinality(T)
  <2> HIDE DEF C, T, f
  <2> QED
    BY <1>1, <1>4, FS_Injection
<1> QED
  BY <1>1, <1>5 DEF ClustersWithinCount

-----------------------------------------------------------------------------
(* Two creations never share a name, and none takes the name of a directory    *)
(* that is still there: for any jobs, limits and number of passes, as long as  *)
(* a creation is marked before a later pass looks.                             *)
THEOREM NamesStayFresh == ASSUME Prompt PROVE PlanSpec => []NamesAreFresh
<1>1. Inv => NamesAreFresh
  BY DEF Inv
<1> QED
  BY <1>1, InvInit, InvNext, PTL DEF PlanSpec

(* No more clusters than max_cluster_count are ever held at once, under the    *)
(* same assumption.                                                            *)
THEOREM CountHolds == ASSUME Prompt PROVE PlanSpec => []ClustersWithinCount
  BY InvInit, InvNext, InvBoundsCount, PTL DEF PlanSpec

-----------------------------------------------------------------------------
(* Counting nodes and requests. *)

\* The nodes of the clusters C when each c has s[c] of them.
Counted(C, s) == UNION {{c} \X (1 .. s[c]) : c \in C}

LEMMA CountedIsFinite ==
    ASSUME NEW C \in SUBSET Creation, NEW s \in [Creation -> Nat]
    PROVE  IsFiniteSet(Counted(C, s)) /\ Cardinality(Counted(C, s)) \in Nat
<1> DEFINE f == [c \in C |-> {c} \X (1 .. s[c])]
           F == {f[c] : c \in C}
<1>1. IsFiniteSet(C)
  <2>1. IsFiniteSet(Creation)
    BY PlanBounds, FS_Interval DEF Creation
  <2> QED
    BY <2>1, FS_Subset
<1>2. f \in Surjection(C, F)
  BY DEF Surjection
<1>3. IsFiniteSet(F)
  <2> HIDE DEF f, F
  <2> QED
    BY <1>1, <1>2, FS_Surjection
<1>4. \A S \in F : IsFiniteSet(S)
  <2> SUFFICES ASSUME NEW c \in C PROVE IsFiniteSet({c} \X (1 .. s[c]))
    OBVIOUS
  <2>1. IsFiniteSet({c})
    BY FS_Singleton
  <2>2. IsFiniteSet(1 .. s[c])
    <3>1. s[c] \in Int
      OBVIOUS
    <3> QED
      BY <3>1, FS_Interval
  <2> HIDE DEF f, F
  <2> QED
    BY <2>1, <2>2, FS_Product
<1>5. Counted(C, s) = UNION F
  BY DEF Counted
<1>6. IsFiniteSet(Counted(C, s))
  <2> HIDE DEF F
  <2> QED
    BY <1>3, <1>4, <1>5, FS_UNION
<1> QED
  BY <1>6, FS_CardinalityType

\* Fewer clusters, or smaller ones, have no more nodes.
LEMMA CountedShrinks ==
    ASSUME NEW C, NEW D \in SUBSET Creation, C \subseteq D,
           NEW s \in [Creation -> Nat], NEW t \in [Creation -> Nat],
           \A c \in C : s[c] <= t[c]
    PROVE  Cardinality(Counted(C, s)) <= Cardinality(Counted(D, t))
<1>1. Counted(C, s) \in SUBSET Counted(D, t)
  <2> SUFFICES ASSUME NEW c \in C, NEW x \in {c} \X (1 .. s[c]) PROVE x \in {c} \X (1 .. t[c])
    BY DEF Counted
  <2>1. s[c] \in Nat /\ t[c] \in Nat /\ s[c] <= t[c]
    OBVIOUS
  <2> QED
    BY <2>1
<1>2. IsFiniteSet(Counted(D, t))
  BY CountedIsFinite
<1> QED
  BY <1>1, <1>2, FS_Subset

LEMMA CountedUnion ==
    ASSUME NEW C \in SUBSET Creation, NEW D \in SUBSET Creation, NEW s \in [Creation -> Nat]
    PROVE  Cardinality(Counted(C \union D, s))
              <= Cardinality(Counted(C, s)) + Cardinality(Counted(D, s))
<1>1. Counted(C \union D, s) = Counted(C, s) \union Counted(D, s)
  BY DEF Counted
<1>2. /\ IsFiniteSet(Counted(C, s)) /\ Cardinality(Counted(C, s)) \in Nat
      /\ IsFiniteSet(Counted(D, s)) /\ Cardinality(Counted(D, s)) \in Nat
  BY CountedIsFinite
<1>3. Cardinality(Counted(C, s) \cap Counted(D, s)) \in Nat
  BY <1>2, FS_Intersection, FS_CardinalityType
<1> DEFINE m == Cardinality(Counted(C, s))
           n == Cardinality(Counted(D, s))
           both == Cardinality(Counted(C, s) \cap Counted(D, s))
<1>4. Cardinality(Counted(C, s) \union Counted(D, s)) = m + n - both
  BY <1>2, FS_Union
<1>5. m \in Nat /\ n \in Nat /\ both \in Nat
  BY <1>2, <1>3
<1> HIDE DEF m, n, both
<1>6. m + n - both <= m + n
  BY <1>5
<1> QED
  BY <1>1, <1>4, <1>6 DEF m, n

LEMMA CountedOne ==
    ASSUME NEW c \in Creation, NEW s \in [Creation -> Nat]
    PROVE  Cardinality(Counted({c}, s)) = s[c]
<1>1. Counted({c}, s) = {c} \X (1 .. s[c])
  BY DEF Counted
<1>2. IsFiniteSet({c}) /\ Cardinality({c}) = 1
  BY FS_Singleton
<1>3. s[c] \in Nat
  OBVIOUS
<1>4. IsFiniteSet(1 .. s[c]) /\ Cardinality(1 .. s[c]) = s[c]
  BY <1>3, FS_Interval
<1>5. Cardinality({c} \X (1 .. s[c])) = Cardinality({c}) * Cardinality(1 .. s[c])
  BY <1>2, <1>4, FS_Product
<1>6. Cardinality({c} \X (1 .. s[c])) = 1 * s[c]
  BY <1>2, <1>4, <1>5, Zenon
<1>7. 1 * s[c] = s[c]
  BY <1>3
<1> QED
  BY <1>1, <1>6, <1>7, Zenon

LEMMA NodesAre == \A C : Nodes(C) = Cardinality(Counted(C, size))
  BY DEF Nodes, NodesOf, Counted

-----------------------------------------------------------------------------
(* The nodes.  A pass knows the nodes of the clusters sinfo showed and of      *)
(* those it found marked; together they cover what Slurm has or is being given *)
(* but for what it has missed, because a cluster without a mark that is not in  *)
(* Slurm either is no news (Prompt).                                           *)

HeldSeen == Held \ missed

\* Between the readings: what sinfo showed is counted.
ListedAreCounted == at = "dirs" => Nodes(listed) <= current

\* After them: what is known is counted.
SeenAreCounted == at \in {"delete", "create"} => Nodes(HeldSeen) <= current + building

NodesTyped ==
    /\ phase \in [Creation -> Phase] /\ size \in [Creation -> Nat]
    /\ listed \subseteq Creation /\ current \in Nat /\ building \in Nat /\ missed \subseteq Creation

NodesInv == NodesTyped /\ ListedAreCounted /\ SeenAreCounted

LEMMA NodesInvInit == PlanInit => NodesInv
  BY DEF PlanInit, NodesInv, NodesTyped, ListedAreCounted, SeenAreCounted, Phase

\* A step that takes no cluster in, outside the readings.
LEMMA NoMoreNodes ==
    ASSUME NodesInv, phase' \in [Creation -> Phase], size' \in [Creation -> Nat],
           \A c \in Creation : phase'[c] \in Live \ {"failed"} =>
               phase[c] \in Live \ {"failed"} /\ size'[c] = size[c],
           listed' \subseteq Creation, current' \in Nat, building' \in Nat, missed' \subseteq Creation,
           at' = "dirs" => ListedAreCounted',
           at' \in {"delete", "create"} =>
               at \in {"delete", "create"} /\ UNCHANGED <<current, building, missed>>
    PROVE  NodesInv'
<1> SUFFICES ASSUME at' \in {"delete", "create"} PROVE Nodes(HeldSeen)' <= current' + building'
  BY DEF NodesInv, NodesTyped, ListedAreCounted, SeenAreCounted
<1> DEFINE before == Cardinality(Counted(HeldSeen, size))
           after == Cardinality(Counted(HeldSeen', size'))
<1>1. /\ HeldSeen \in SUBSET Creation /\ HeldSeen' \subseteq HeldSeen
      /\ \A c \in HeldSeen' : size'[c] <= size[c]
      /\ size \in [Creation -> Nat]
  BY DEF HeldSeen, Held, In, NodesInv, NodesTyped
<1>2. after <= before
  BY <1>1, CountedShrinks
<1>3. before \in Nat /\ after \in Nat
  BY <1>1, CountedIsFinite
<1>4. Nodes(HeldSeen) = before /\ Nodes(HeldSeen)' = after
  BY DEF Nodes, NodesOf, Counted
<1> HIDE DEF before, after
<1>5. Nodes(HeldSeen) <= current + building /\ current \in Nat /\ building \in Nat
  BY DEF NodesInv, NodesTyped, SeenAreCounted
<1>6. current' = current /\ building' = building
  OBVIOUS
<1> QED
  BY <1>2, <1>3, <1>4, <1>5, <1>6

\* Sizes are numbers of nodes.
LEMMA SizesAreNaturals == \A j \in Job : Wants[j] \in Nat /\ Wants[j] > 0
  BY Limits

LEMMA ReadNodesCounts ==
    ASSUME NodesInv, ReadNodes
    PROVE  NodesInv'
<1>1. /\ at' = "dirs" /\ listed' = In(InSlurm) /\ current' = Nodes(listed')
      /\ phase' = phase /\ size' = size /\ building' = building /\ missed' = missed
  BY DEF ReadNodes, clusterVars
<1>2. listed' \in SUBSET Creation
  BY <1>1 DEF In
<1>3. current' = Cardinality(Counted(listed', size)) /\ current' \in Nat
  BY <1>1, <1>2, CountedIsFinite DEF Nodes, NodesOf, Counted, NodesInv, NodesTyped
<1>4. ListedAreCounted'
  <2>1. Nodes(listed)' = current'
    BY <1>1, <1>3 DEF Nodes, NodesOf, Counted
  <2> QED
    BY <1>3, <2>1 DEF ListedAreCounted
<1> QED
  BY <1>1, <1>2, <1>3, <1>4, NoMoreNodes DEF NodesInv, NodesTyped

LEMMA ReadDirectoriesCounts ==
    ASSUME Prompt, NodesInv, ReadDirectories
    PROVE  NodesInv'
<1> DEFINE marked == In(Marked)
           held == Held \ missed'
<1>1. /\ at = "dirs" /\ at' = "delete" /\ building' = Nodes(marked) /\ In({"spawned", "copied"}) = {}
      /\ phase' = phase /\ size' = size /\ listed' = listed /\ current' = current
      /\ missed' = In(InSlurm \ Marked) \ listed
  BY DEF ReadDirectories, Seen, clusterVars
<1>2. marked \in SUBSET Creation /\ held \in SUBSET Creation /\ listed \in SUBSET Creation
      /\ size \in [Creation -> Nat] /\ phase \in [Creation -> Phase] /\ current \in Nat
  BY DEF Held, In, NodesInv, NodesTyped
<1>3. held \subseteq listed \union marked
  <2> SUFFICES ASSUME NEW c \in held PROVE c \in listed \union marked
    OBVIOUS
  <2>1. c \in Creation /\ phase[c] \in {"building", "joined", "up", "leaving"}
    BY <1>1 DEF Held, In, Live, HasDirectory
  <2> QED
    BY <1>1, <2>1 DEF In, Marked, InSlurm
<1>4. Nodes(listed) <= current
  BY <1>1 DEF NodesInv, ListedAreCounted
<1> HIDE DEF marked, held
<1>5. Cardinality(Counted(held, size)) <= Cardinality(Counted(listed \union marked, size))
  BY <1>2, <1>3, CountedShrinks
<1>6. Cardinality(Counted(listed \union marked, size)) <=
         Cardinality(Counted(listed, size)) + Cardinality(Counted(marked, size))
  BY <1>2, CountedUnion
<1>7. /\ Cardinality(Counted(held, size)) \in Nat
      /\ Cardinality(Counted(listed \union marked, size)) \in Nat
      /\ Cardinality(Counted(listed, size)) \in Nat
      /\ Cardinality(Counted(marked, size)) \in Nat
  BY <1>2, CountedIsFinite
<1>8. /\ Nodes(held) = Cardinality(Counted(held, size))
      /\ Nodes(listed) = Cardinality(Counted(listed, size))
      /\ Nodes(marked) = Cardinality(Counted(marked, size))
  BY NodesAre
<1>9. Nodes(held) <= current + building' /\ building' \in Nat
  BY <1>1, <1>2, <1>4, <1>5, <1>6, <1>7, <1>8
<1>10. Nodes(HeldSeen)' = Nodes(held)
  BY <1>1 DEF held, HeldSeen, Held, In, Nodes, NodesOf
<1>11. SeenAreCounted'
  BY <1>1, <1>9, <1>10 DEF SeenAreCounted
<1>12. missed' \subseteq Creation
  BY <1>1 DEF In
<1>13. NodesTyped' /\ ListedAreCounted'
  BY <1>1, <1>2, <1>9, <1>12 DEF NodesTyped, ListedAreCounted
<1> QED
  BY <1>11, <1>13 DEF NodesInv

LEMMA SpawnCounts ==
    ASSUME NodesInv, NEW j \in Job, NEW c \in Creation, Spawn(j, c)
    PROVE  NodesInv' /\ Nodes(HeldSeen)' <= MaxNumberNodes
<1> DEFINE held == HeldSeen \ {c}
           n == Wants[j]
<1>1. /\ at = "create" /\ at' = "create" /\ listed' = listed /\ building' = building
      /\ current' = current + n /\ current + building + n <= MaxNumberNodes
      /\ phase' = [phase EXCEPT ![c] = "spawned"] /\ size' = [size EXCEPT ![c] = n]
      /\ phase[c] = "unused" /\ missed' = missed \ {c}
  <2>1. ~(current + building + n > MaxNumberNodes)
    BY DEF Spawn, NodesExceeded
  <2>2. current \in Nat /\ building \in Nat /\ n \in Nat
    BY SizesAreNaturals DEF NodesInv, NodesTyped
  <2>3. current + building + n <= MaxNumberNodes
    BY <2>1, <2>2, Limits
  <2> QED
    BY <2>3 DEF Spawn, Next_request
<1>2. n \in Nat /\ held \in SUBSET Creation /\ size \in [Creation -> Nat]
      /\ phase \in [Creation -> Phase] /\ current \in Nat /\ building \in Nat
  BY SizesAreNaturals DEF HeldSeen, Held, In, NodesInv, NodesTyped
<1>3. size' \in [Creation -> Nat] /\ size'[c] = n /\ phase' \in [Creation -> Phase]
  BY <1>1, <1>2 DEF Phase, Live
<1>4. HeldSeen' = held \union {c} /\ c \notin held /\ held = HeldSeen
  BY <1>1, <1>2 DEF HeldSeen, Held, In, Live, HasDirectory
<1>5. Nodes(held) <= current + building
  BY <1>1, <1>4 DEF NodesInv, SeenAreCounted
<1>6. \A d \in held : size'[d] <= size[d]
  BY <1>1, <1>2, <1>4
<1> HIDE DEF held, n
<1>7. Cardinality(Counted(held \union {c}, size'))
         <= Cardinality(Counted(held, size')) + Cardinality(Counted({c}, size'))
  BY <1>2, <1>3, CountedUnion
<1>8. Cardinality(Counted(held, size')) <= Cardinality(Counted(held, size))
  BY <1>2, <1>3, <1>6, CountedShrinks
<1>9. Cardinality(Counted({c}, size')) = n
  BY <1>3, CountedOne
<1>10. /\ Cardinality(Counted(held \union {c}, size')) \in Nat
       /\ Cardinality(Counted(held, size')) \in Nat
       /\ Cardinality(Counted(held, size)) \in Nat
  BY <1>2, <1>3, CountedIsFinite
<1>11. Nodes(held) = Cardinality(Counted(held, size))
  BY NodesAre
<1>12. Cardinality(Counted(held \union {c}, size')) <= current' + building'
  BY <1>1, <1>2, <1>5, <1>7, <1>8, <1>9, <1>10, <1>11
<1>13. Nodes(HeldSeen)' = Cardinality(Counted(held \union {c}, size'))
  BY <1>4 DEF Nodes, NodesOf, Counted
<1>14. SeenAreCounted'
  BY <1>12, <1>13 DEF SeenAreCounted
<1>15. Nodes(HeldSeen)' <= MaxNumberNodes
  BY <1>1, <1>2, <1>10, <1>12, <1>13, Limits
<1>16. NodesTyped' /\ ListedAreCounted'
  BY <1>1, <1>2, <1>3 DEF NodesInv, NodesTyped, ListedAreCounted
<1> QED
  BY <1>14, <1>15, <1>16 DEF NodesInv

\* The other steps take no cluster in.
LEMMA OthersCount ==
    ASSUME NodesInv, phase' \in [Creation -> Phase], size' \in [Creation -> Nat],
           \A c \in Creation : /\ size'[c] <= size[c]
                               /\ phase'[c] \in Live \ {"failed"} =>
                                     phase[c] \in Live \ {"failed"} /\ size'[c] = size[c],
           \/ UNCHANGED <<at, listed, current, building, missed>>
           \/ /\ at' \notin {"dirs", "delete", "create"} /\ listed' \in {listed, {}}
              /\ current' \in {current, 0} /\ building' \in {building, 0}
              /\ missed' \in {missed, {}}
           \/ at = "delete" /\ at' = "create" /\ UNCHANGED <<listed, current, building, missed>>
    PROVE  NodesInv'
<1>1. /\ listed \subseteq Creation /\ current \in Nat /\ building \in Nat
      /\ size \in [Creation -> Nat] /\ phase \in [Creation -> Phase] /\ missed \subseteq Creation
  BY DEF NodesInv, NodesTyped
<1>2. /\ listed' \subseteq Creation /\ current' \in Nat /\ building' \in Nat
      /\ missed' \subseteq Creation
  BY <1>1
<1>3. ASSUME at' = "dirs" PROVE ListedAreCounted'
  <2>1. at = "dirs" /\ listed' = listed /\ current' = current
    BY <1>3
  <2>2. Nodes(listed) <= current
    BY <2>1 DEF NodesInv, ListedAreCounted
  <2>3. Cardinality(Counted(listed, size')) <= Cardinality(Counted(listed, size))
    <3>1. listed \in SUBSET Creation /\ \A c \in listed : size'[c] <= size[c]
      BY <1>1
    <3> QED
      BY <1>1, <3>1, CountedShrinks
  <2>4. Cardinality(Counted(listed, size')) \in Nat /\ Cardinality(Counted(listed, size)) \in Nat
    BY <1>1, CountedIsFinite
  <2>5. /\ Nodes(listed)' = Cardinality(Counted(listed, size'))
        /\ Nodes(listed) = Cardinality(Counted(listed, size))
    BY <2>1 DEF Nodes, NodesOf, Counted
  <2>6. Nodes(listed)' <= current'
    BY <1>1, <2>1, <2>2, <2>3, <2>4, <2>5
  <2> QED
    BY <2>6 DEF ListedAreCounted
<1>4. at' \in {"delete", "create"} =>
         at \in {"delete", "create"} /\ UNCHANGED <<current, building, missed>>
  OBVIOUS
<1> QED
  BY <1>2, <1>3, <1>4, NoMoreNodes

LEMMA NodesInvNext ==
    ASSUME Prompt, NodesInv, [PlanNext]_planVars
    PROVE  NodesInv'
<1> USE DEF clusterVars, passVars
<1>p. /\ phase \in [Creation -> Phase] /\ size \in [Creation -> Nat]
      /\ \A c \in Creation : size[c] <= size[c] /\ 0 <= size[c]
  BY DEF NodesInv, NodesTyped
<1>1. CASE ReadNodes
  BY <1>1, ReadNodesCounts
<1>2. CASE ReadDirectories
  BY <1>2, ReadDirectoriesCounts
<1>3. ASSUME NEW j \in Job, NEW c \in Creation, Spawn(j, c) PROVE NodesInv'
  BY <1>3, SpawnCounts
<1>4. CASE ReadJobs
  BY <1>4, <1>p, OthersCount DEF ReadJobs
<1>5. CASE Deleted
  BY <1>5, <1>p, OthersCount DEF Deleted
<1>6. CASE PassEnds \/ Abandon
  BY <1>6, <1>p, OthersCount DEF PassEnds, Abandon, Over
<1>7. ASSUME NEW c \in Creation, HandOver(c) PROVE NodesInv'
  <2>1. /\ UNCHANGED <<at, listed, current, building, missed, size>> /\ at = "delete"
        /\ \/ phase[c] = "up" /\ phase' = [phase EXCEPT ![c] = "leaving"]
           \/ phase' = phase
    BY <1>7 DEF HandOver
  <2> QED
    BY <2>1, <1>p, OthersCount DEF Live, HasDirectory, Phase
<1>8. ASSUME NEW j \in Job, RefuseForCount(j) \/ RefuseForNodes(j) PROVE NodesInv'
  BY <1>8, <1>p, OthersCount DEF RefuseForCount, RefuseForNodes
<1>9. ASSUME NEW c \in Creation, ClusterStep(c) PROVE NodesInv'
  <2>1. UNCHANGED <<at, listed, current, building, missed>>
    BY <1>9 DEF ClusterStep, Refused, Copied, Invalid, Mark, Join, Finish,
                BuildFails, Delete, LeaveSlurm, Removed, Becomes, Gone
  <2>2. CASE Refused(c) \/ Invalid(c) \/ Removed(c)
    <3>1. phase' = [phase EXCEPT ![c] = "unused"] /\ size' = [size EXCEPT ![c] = 0]
      BY <2>2 DEF Refused, Invalid, Removed, Gone
    <3>2. size' \in [Creation -> Nat] /\ phase' \in [Creation -> Phase]
      BY <1>p, <3>1 DEF Phase
    <3>3. \A d \in Creation :
            /\ size'[d] <= size[d]
            /\ phase'[d] \in Live => phase'[d] = phase[d] /\ size'[d] = size[d]
      BY <1>p, <3>1 DEF Live, HasDirectory
    <3> QED
      BY <2>1, <3>2, <3>3, <1>p, OthersCount DEF Live, HasDirectory
  <2>3. CASE ~(Refused(c) \/ Invalid(c) \/ Removed(c))
    <3>1. /\ size' = size /\ phase[c] \in Live \ {"failed"}
          /\ \E to \in Live : phase' = [phase EXCEPT ![c] = to]
      BY <1>9, <2>3 DEF ClusterStep, Copied, Mark, Join, Finish, BuildFails,
          Delete, LeaveSlurm, Becomes, Live, HasDirectory
    <3> QED
      BY <3>1, <2>1, <1>p, OthersCount DEF Phase
  <2> QED
    BY <2>2, <2>3
<1>10. ASSUME NEW j \in Job, JobStep(j) PROVE NodesInv'
  BY <1>10, <1>p, OthersCount DEF JobStep, Submit, End, Start
<1>11. CASE UNCHANGED planVars
  BY <1>11, <1>p, OthersCount DEF planVars
<1> QED
  BY <1>1, <1>2, <1>3, <1>4, <1>5, <1>6, <1>7, <1>8, <1>9, <1>10, <1>11
     DEF PlanNext, PassStep

\* Whatever comes and goes while a pass reads, a creation is only started within
\* max_number_nodes, counting the nodes of all clusters that Slurm has or is being
\* given by this and all earlier passes; only clusters that went through both
\* readings of this pass unseen come on top.  Creations are marked before a later
\* pass looks.
THEOREM NodesHold == ASSUME Prompt PROVE PlanSpec => NodesWithinLimit
<1>1. NodesInv /\ [PlanNext]_planVars =>
         [\A j \in Job, c \in Creation : Spawn(j, c) => Nodes(Held \ missed)' <= MaxNumberNodes]_planVars
  BY SpawnCounts DEF HeldSeen
<1> QED
  BY <1>1, NodesInvInit, NodesInvNext, PTL DEF PlanSpec, NodesWithinLimit

-----------------------------------------------------------------------------
(* The requests.  Of each size, what is left of the requests and what is under *)
(* construction are together no more than was asked for, unless nothing of     *)
(* that size is left; a creation moves one from the first to the second.       *)

UnderConstruction == In({"spawned", "copied"} \union Marked)

AskedFor(n) == {i \in asked : Wants[i] = n}

LeftOf(n) == {i \in todo : Wants[i] = n}

NoneTwice ==
    at \in {"delete", "create"} =>
        \A n \in Size :
            \/ LeftOf(n) = {}
            \/ Cardinality(LeftOf(n)) + Cardinality(OfSize(UnderConstruction, n))
                  <= Cardinality(AskedFor(n))

AskedTyped ==
    /\ phase \in [Creation -> Phase] /\ size \in [Creation -> Nat]
    /\ asked \subseteq Job /\ todo \subseteq asked

AskedInv == AskedTyped /\ NoneTwice

LEMMA AskedInvInit == PlanInit => AskedInv
  BY DEF PlanInit, AskedInv, AskedTyped, NoneTwice, Phase

LEMMA CreationsAreFinite ==
    ASSUME NEW C, C \subseteq Creation
    PROVE  IsFiniteSet(C) /\ Cardinality(C) \in Nat
<1>1. IsFiniteSet(Creation)
  BY PlanBounds, FS_Interval DEF Creation
<1> QED
  BY <1>1, FS_Subset, FS_CardinalityType

LEMMA JobsAreFinite ==
    ASSUME NEW J, J \subseteq Job
    PROVE  IsFiniteSet(J) /\ Cardinality(J) \in Nat
  BY FiniteJobs, FS_Subset, FS_CardinalityType

\* Requests go, and what is under construction goes or stays.
LEMMA NothingStarted ==
    ASSUME AskedInv, phase' \in [Creation -> Phase], size' \in [Creation -> Nat],
           \A c \in Creation : phase'[c] \in {"spawned", "copied"} \union Marked =>
               phase[c] \in {"spawned", "copied"} \union Marked /\ size'[c] = size[c],
           \/ asked' = asked /\ todo' \subseteq todo
              /\ (at' \in {"delete", "create"} => at \in {"delete", "create"})
           \/ /\ at' \notin {"delete", "create"}
              /\ asked' \subseteq Job /\ todo' \subseteq asked'
    PROVE  AskedInv'
<1>1. AskedTyped'
  BY DEF AskedInv, AskedTyped
<1>2. NoneTwice'
  <2> SUFFICES ASSUME asked' = asked, todo' \subseteq todo,
                      at \in {"delete", "create"}, NEW n \in Size, LeftOf(n)' # {}
               PROVE  Cardinality(LeftOf(n)') + Cardinality(OfSize(UnderConstruction, n)')
                         <= Cardinality(AskedFor(n)')
    BY DEF NoneTwice
  <2> DEFINE left == LeftOf(n)
             built == OfSize(UnderConstruction, n)
             left2 == LeftOf(n)'
             built2 == OfSize(UnderConstruction, n)'
             all == AskedFor(n)
  <2>1. left2 \subseteq left /\ left2 # {} /\ left \subseteq Job /\ all \subseteq Job
    BY DEF LeftOf, AskedFor, AskedInv, AskedTyped
  <2>2. built2 \subseteq built /\ built \subseteq Creation
    BY DEF OfSize, UnderConstruction, In
  <2>3. AskedFor(n)' = all
    BY DEF AskedFor
  <2>4. Cardinality(left) + Cardinality(built) <= Cardinality(all)
    BY <2>1 DEF AskedInv, NoneTwice
  <2> HIDE DEF left, built, left2, built2, all
  <2>5. Cardinality(left2) <= Cardinality(left)
    BY <2>1, JobsAreFinite, FS_Subset
  <2>6. Cardinality(built2) <= Cardinality(built)
    BY <2>2, CreationsAreFinite, FS_Subset
  <2>7. /\ Cardinality(left2) \in Nat /\ Cardinality(left) \in Nat /\ Cardinality(all) \in Nat
        /\ Cardinality(built2) \in Nat /\ Cardinality(built) \in Nat
    <3>1. left2 \subseteq Job /\ built2 \subseteq Creation
      BY <2>1, <2>2
    <3> QED
      BY <2>1, <2>2, <3>1, JobsAreFinite, CreationsAreFinite
  <2>8. Cardinality(left2) + Cardinality(built2) <= Cardinality(all)
    BY <2>4, <2>5, <2>6, <2>7
  <2> QED
    BY <2>3, <2>8 DEF left2, built2
<1> QED
  BY <1>1, <1>2 DEF AskedInv

LEMMA DirectoriesMatch ==
    ASSUME Prompt, AskedInv, ReadDirectories
    PROVE  AskedInv'
<1>1. /\ phase' = phase /\ size' = size /\ asked' = asked
      /\ todo' \in {{}} \union Unmatched(In(Marked)) /\ In({"spawned", "copied"}) = {}
  BY DEF ReadDirectories, Seen, clusterVars
<1>2. AskedTyped'
  BY <1>1 DEF AskedInv, AskedTyped, Unmatched
<1>3. UnderConstruction' = In(Marked)
  BY <1>1 DEF UnderConstruction, In
<1>4. ASSUME NEW n \in Size, LeftOf(n)' # {}
      PROVE  Cardinality(LeftOf(n)') + Cardinality(OfSize(UnderConstruction, n)')
                <= Cardinality(AskedFor(n)')
  <2> DEFINE left == LeftOf(n)'
             built == OfSize(In(Marked), n)
             all == AskedFor(n)
  <2>1. todo' \in Unmatched(In(Marked))
    BY <1>1, <1>4 DEF LeftOf
  <2>2. {j \in asked : Wants[j] = n} \intersect todo' = left
    BY <2>1 DEF LeftOf, Unmatched
  <2>3. Cardinality(left) = IF Cardinality(built) < Cardinality(all)
                            THEN Cardinality(all) - Cardinality(built) ELSE 0
    BY <2>1, <2>2 DEF Unmatched, AskedFor
  <2>4. left \subseteq Job /\ all \subseteq Job /\ built \subseteq Creation
    BY <1>1, <2>1 DEF LeftOf, AskedFor, AskedInv, AskedTyped, OfSize, In, Unmatched
  <2>5. OfSize(UnderConstruction, n)' = built /\ AskedFor(n)' = all /\ left # {}
    BY <1>1, <1>3, <1>4 DEF OfSize, AskedFor
  <2> HIDE DEF left, built, all
  <2>6. /\ IsFiniteSet(left) /\ Cardinality(left) \in Nat /\ Cardinality(all) \in Nat
        /\ Cardinality(built) \in Nat
    BY <2>4, JobsAreFinite, CreationsAreFinite
  <2>7. Cardinality(left) # 0
    BY <2>5, <2>6, FS_EmptySet
  <2>8. Cardinality(left) + Cardinality(built) <= Cardinality(all)
    BY <2>3, <2>6, <2>7
  <2> QED
    BY <2>5, <2>8 DEF left
<1>5. NoneTwice'
  BY <1>4 DEF NoneTwice
<1> QED
  BY <1>2, <1>5 DEF AskedInv

\* A creation answers a request of its size that is still there, so fewer are
\* under construction than were asked for.
LEMMA SpawnIsAsked ==
    ASSUME AskedInv, NEW j \in Job, NEW c \in Creation, Spawn(j, c)
    PROVE  /\ Cardinality(OfSize(UnderConstruction, Wants[j])) < Cardinality(AskedFor(Wants[j]))
           /\ AskedInv'
<1> DEFINE m == Wants[j]
<1>1. /\ at = "create" /\ at' = "create" /\ asked' = asked /\ j \in todo /\ todo' = todo \ {j}
      /\ phase' = [phase EXCEPT ![c] = "spawned"] /\ size' = [size EXCEPT ![c] = m]
      /\ phase[c] = "unused"
  BY DEF Spawn, Next_request
<1>2. /\ phase \in [Creation -> Phase] /\ size \in [Creation -> Nat] /\ m \in Nat /\ m \in Size
      /\ todo \subseteq asked /\ asked \subseteq Job
  BY SizesAreNaturals DEF AskedInv, AskedTyped, Size
<1>3. AskedTyped'
  BY <1>1, <1>2 DEF AskedTyped, Phase, Live
<1>4. ASSUME NEW n \in Size
      PROVE  /\ LeftOf(n) \subseteq Job /\ AskedFor(n) \subseteq Job
             /\ OfSize(UnderConstruction, n) \subseteq Creation
             /\ AskedFor(n)' = AskedFor(n)
  BY <1>1, <1>2 DEF LeftOf, AskedFor, OfSize, UnderConstruction, In
<1>5. ASSUME NEW n \in Size, n # m
      PROVE  LeftOf(n)' = LeftOf(n) /\ OfSize(UnderConstruction, n)' = OfSize(UnderConstruction, n)
  BY <1>1, <1>2, <1>5 DEF LeftOf, OfSize, UnderConstruction, In, Marked
<1>6. LeftOf(m)' = LeftOf(m) \ {j} /\ j \in LeftOf(m)
  BY <1>1 DEF LeftOf
<1>7. /\ OfSize(UnderConstruction, m)' = OfSize(UnderConstruction, m) \union {c}
      /\ c \notin OfSize(UnderConstruction, m)
  BY <1>1, <1>2 DEF OfSize, UnderConstruction, In, Marked
<1>8. Cardinality(LeftOf(m)) + Cardinality(OfSize(UnderConstruction, m)) <= Cardinality(AskedFor(m))
  BY <1>1, <1>2, <1>6 DEF AskedInv, NoneTwice
<1> DEFINE left == LeftOf(m)
           built == OfSize(UnderConstruction, m)
           all == AskedFor(m)
<1>9. left \subseteq Job /\ all \subseteq Job /\ built \subseteq Creation
  BY <1>2, <1>4
<1>10. j \in left /\ c \notin built
  BY <1>6, <1>7
<1>11. Cardinality(left) + Cardinality(built) <= Cardinality(all)
  BY <1>8
<1> HIDE DEF left, built, all, m
<1>12. /\ IsFiniteSet(left) /\ Cardinality(left) \in Nat /\ Cardinality(all) \in Nat
       /\ IsFiniteSet(built) /\ Cardinality(built) \in Nat
  BY <1>9, JobsAreFinite, CreationsAreFinite
<1>13. Cardinality(left \ {j}) = Cardinality(left) - 1
  BY <1>10, <1>12, FS_RemoveElement
<1>14. Cardinality(left) # 0
  BY <1>10, <1>12, FS_EmptySet
<1>15. Cardinality(built \union {c}) = Cardinality(built) + 1
  BY <1>10, <1>12, FS_AddElement
<1>16. Cardinality(built) < Cardinality(all)
  BY <1>11, <1>12, <1>14
<1>17. Cardinality(left \ {j}) + Cardinality(built \union {c}) <= Cardinality(all)
  BY <1>11, <1>12, <1>13, <1>15
<1>18. NoneTwice'
  <2> SUFFICES ASSUME NEW n \in Size
               PROVE  \/ LeftOf(n)' = {}
                      \/ Cardinality(LeftOf(n)') + Cardinality(OfSize(UnderConstruction, n)')
                            <= Cardinality(AskedFor(n)')
    BY DEF NoneTwice
  <2>1. CASE n = m
    <3>1. /\ LeftOf(m)' = left \ {j} /\ OfSize(UnderConstruction, m)' = built \union {c}
          /\ AskedFor(m)' = all
      BY <1>2, <1>4, <1>6, <1>7 DEF left, built, all
    <3>2. Cardinality(LeftOf(m)') + Cardinality(OfSize(UnderConstruction, m)')
             <= Cardinality(AskedFor(m)')
      BY <1>17, <3>1
    <3> QED
      BY <2>1, <3>2 DEF LeftOf, OfSize, AskedFor
  <2>2. CASE n # m
    BY <1>1, <1>4, <1>5, <2>2 DEF AskedInv, NoneTwice
  <2> QED
    BY <2>1, <2>2
<1> QED
  BY <1>3, <1>16, <1>18 DEF AskedInv, built, all, m

LEMMA AskedInvNext ==
    ASSUME Prompt, AskedInv, [PlanNext]_planVars
    PROVE  AskedInv'
<1> USE DEF clusterVars, passVars
<1>p. /\ phase \in [Creation -> Phase] /\ size \in [Creation -> Nat]
      /\ asked \subseteq Job /\ todo \subseteq asked
  BY DEF AskedInv, AskedTyped
<1>1. CASE ReadDirectories
  BY <1>1, DirectoriesMatch
<1>2. ASSUME NEW j \in Job, NEW c \in Creation, Spawn(j, c) PROVE AskedInv'
  BY <1>2, SpawnIsAsked
<1>3. CASE ReadJobs
  BY <1>3, <1>p, NothingStarted DEF ReadJobs
<1>4. CASE ReadNodes
  BY <1>4, <1>p, NothingStarted DEF ReadNodes
<1>5. CASE Deleted
  BY <1>5, <1>p, NothingStarted DEF Deleted
<1>6. CASE PassEnds \/ Abandon
  BY <1>6, <1>p, NothingStarted DEF PassEnds, Abandon, Over
<1>7. ASSUME NEW c \in Creation, HandOver(c) PROVE AskedInv'
  <2>1. /\ UNCHANGED <<at, asked, todo, size>>
        /\ phase' = [phase EXCEPT ![c] = "leaving"] \/ phase' = phase
    BY <1>7 DEF HandOver
  <2> QED
    BY <2>1, <1>p, NothingStarted DEF Marked, Live, HasDirectory, Phase
<1>8. ASSUME NEW j \in Job, RefuseForCount(j) \/ RefuseForNodes(j) PROVE AskedInv'
  BY <1>8, <1>p, NothingStarted DEF RefuseForCount, RefuseForNodes, Next_request
<1>9. ASSUME NEW c \in Creation, ClusterStep(c) PROVE AskedInv'
  <2>1. UNCHANGED <<at, asked, todo>>
    BY <1>9 DEF ClusterStep, Refused, Copied, Invalid, Mark, Join, Finish,
                BuildFails, Delete, LeaveSlurm, Removed, Becomes, Gone
  <2>2. CASE Refused(c) \/ Invalid(c) \/ Removed(c)
    <3>1. phase' = [phase EXCEPT ![c] = "unused"] /\ size' = [size EXCEPT ![c] = 0]
      BY <2>2 DEF Refused, Invalid, Removed, Gone
    <3> QED
      BY <3>1, <2>1, <1>p, NothingStarted DEF Marked, Phase
  <2>3. CASE ~(Refused(c) \/ Invalid(c) \/ Removed(c))
    <3>1. /\ size' = size
          /\ \E to \in Live : /\ phase' = [phase EXCEPT ![c] = to]
                              /\ to \in {"spawned", "copied"} \union Marked =>
                                    phase[c] \in {"spawned", "copied"} \union Marked
      BY <1>9, <2>3 DEF ClusterStep, Copied, Mark, Join, Finish, BuildFails,
          Delete, LeaveSlurm, Becomes, Live, HasDirectory, Marked
    <3> QED
      BY <3>1, <2>1, <1>p, NothingStarted DEF Phase
  <2> QED
    BY <2>2, <2>3
<1>10. ASSUME NEW j \in Job, JobStep(j) PROVE AskedInv'
  BY <1>10, <1>p, NothingStarted DEF JobStep, Submit, End, Start
<1>11. CASE UNCHANGED planVars
  BY <1>11, <1>p, NothingStarted DEF planVars
<1> QED
  BY <1>1, <1>2, <1>3, <1>4, <1>5, <1>6, <1>7, <1>8, <1>9, <1>10, <1>11
     DEF PlanNext, PassStep

\* No creation is started for a job that another one under construction is for:
\* for any jobs and sizes, if creations are marked before a later pass looks.
THEOREM NothingUnasked == ASSUME Prompt PROVE PlanSpec => NoCreationUnasked
<1> DEFINE Asked == \A j \in Job, c \in Creation : Spawn(j, c) =>
          Cardinality(OfSize(In({"spawned", "copied"} \union Marked), Wants[j]))
             < Cardinality({i \in asked : Wants[i] = Wants[j]})
<1>1. AskedInv => Asked
  BY SpawnIsAsked DEF UnderConstruction, AskedFor
<1>2. AskedInv /\ [PlanNext]_planVars => [Asked]_planVars
  BY <1>1
<1> QED
  BY <1>2, AskedInvInit, AskedInvNext, PTL DEF PlanSpec, NoCreationUnasked

-----------------------------------------------------------------------------
(* Types.  The indexes read from the directories are in range because no       *)
(* cluster that is there is without one.                                       *)

TypeInv == PlanTypeOK /\ \A c \in In(Live) : index[c] # 0

LEMMA TypeInvInit == PlanInit => TypeInv
  BY Limits DEF PlanInit, TypeInv, PlanTypeOK, In, Live, HasDirectory, Phase

LEMMA TypedIsIndexed == TypeInv => Indexed
  BY Limits DEF TypeInv, PlanTypeOK, Indexed, In

LEMMA TypeInvNext == TypeInv /\ [PlanNext]_planVars => TypeInv'
<1> SUFFICES ASSUME TypeInv, [PlanNext]_planVars PROVE TypeInv'
  OBVIOUS
<1> USE DEF clusterVars, passVars, TypeInv, PlanTypeOK, In
<1>n. ASSUME NEW C, C \subseteq Creation PROVE Nodes(C) \in Nat
  <2>1. size \in [Creation -> Nat]
    BY SizesAreNaturals DEF Size
  <2>2. Cardinality(Counted(C, size)) \in Nat
    BY <1>n, <2>1, CountedIsFinite
  <2> QED
    BY <2>2, NodesAre
<1>i. Indexed
  BY TypedIsIndexed
<1>1. CASE ReadJobs
  BY <1>1 DEF ReadJobs
<1>2. CASE ReadNodes
  <2>1. /\ listed' = In(InSlurm) /\ current' = Nodes(listed') /\ idle' \subseteq listed'
        /\ at' = "dirs"
        /\ UNCHANGED <<job, phase, index, size, host, todo, asked, used, building, missed>>
    BY <1>2 DEF ReadNodes
  <2>2. listed' \subseteq Creation
    BY <2>1
  <2>3. current' \in Nat
    BY <1>n, <2>1, <2>2
  <2> QED
    BY <2>1, <2>2, <2>3
<1>3. CASE ReadDirectories
  <2>1. /\ used' = {index[c] : c \in In(HasDirectory)} /\ building' = Nodes(In(Marked))
        /\ todo' \subseteq asked /\ at' = "delete" /\ missed' \subseteq Creation
        /\ UNCHANGED <<job, phase, index, size, host, asked, listed, idle, current>>
    BY <1>3 DEF ReadDirectories, Unmatched, In
  <2>2. used' \subseteq 1 .. MaxClusterCount
    BY <2>1, Limits DEF Live
  <2>3. building' \in Nat
    <3>1. In(Marked) \subseteq Creation
      OBVIOUS
    <3> QED
      BY <1>n, <2>1, <3>1
  <2> QED
    BY <2>1, <2>2, <2>3
<1>4. CASE Deleted
  BY <1>4 DEF Deleted
<1>5. CASE PassEnds \/ Abandon
  BY <1>5 DEF PassEnds, Abandon, Over
<1>6. ASSUME NEW c \in Creation, HandOver(c) PROVE TypeInv'
  BY <1>6 DEF HandOver, Live, HasDirectory, Phase
<1>7. ASSUME NEW j \in Job, RefuseForCount(j) PROVE TypeInv'
  BY <1>7 DEF RefuseForCount, Next_request
<1>8. ASSUME NEW j \in Job, RefuseForNodes(j) PROVE TypeInv'
  <2>1. NextIndex(used) \in 1 .. MaxClusterCount
    BY <1>8, <1>i, FreshIndex DEF RefuseForNodes
  <2> QED
    BY <1>8, <2>1 DEF RefuseForNodes, Next_request
<1>9. ASSUME NEW j \in Job, NEW c \in Creation, Spawn(j, c) PROVE TypeInv'
  <2> DEFINE i == NextIndex(used)
  <2>1. /\ phase' = [phase EXCEPT ![c] = "spawned"]
        /\ index' = [index EXCEPT ![c] = i] /\ used' = used \union {i}
        /\ size' = [size EXCEPT ![c] = Wants[j]] /\ current' = current + Wants[j]
        /\ todo' = todo \ {j} /\ missed' = missed \ {c}
        /\ UNCHANGED <<job, host, at, asked, listed, idle, building>>
    BY <1>9 DEF Spawn, Next_request
  <2>2. i \in 1 .. MaxClusterCount
    BY <1>9, <1>i, FreshIndex DEF Spawn
  <2>3. Wants[j] \in Size /\ Wants[j] \in Nat
    BY SizesAreNaturals DEF Size
  <2> HIDE DEF i
  <2>4. index' \in [Creation -> 0 .. MaxClusterCount] /\ used' \subseteq 1 .. MaxClusterCount
    BY <2>1, <2>2, Limits
  <2>5. \A d \in In(Live)' : index'[d] # 0
    BY <2>1, <2>2
  <2>6. phase' \in [Creation -> Phase]
    BY <2>1 DEF Phase, Live
  <2> QED
    BY <2>1, <2>3, <2>4, <2>5, <2>6
<1>10. ASSUME NEW c \in Creation, ClusterStep(c) PROVE TypeInv'
  <2>1. CASE Refused(c) \/ Invalid(c) \/ Removed(c)
    <3>1. /\ phase' = [phase EXCEPT ![c] = "unused"]
          /\ index' = [index EXCEPT ![c] = 0] /\ size' = [size EXCEPT ![c] = 0]
          /\ UNCHANGED <<job, host, passVars>>
      BY <2>1 DEF Refused, Invalid, Removed, Gone
    <3>2. index' \in [Creation -> 0 .. MaxClusterCount] /\ size' \in [Creation -> Size \union {0}]
      BY <3>1, Limits
    <3>3. phase' \in [Creation -> Phase] /\ \A d \in In(Live)' : index'[d] # 0
      BY <3>1 DEF Phase, Live, HasDirectory
    <3> QED
      BY <3>1, <3>2, <3>3
  <2>2. CASE LeaveSlurm(c)
    BY <2>2 DEF LeaveSlurm, Phase, Live, HasDirectory
  <2>3. CASE ~(Refused(c) \/ Invalid(c) \/ Removed(c) \/ LeaveSlurm(c))
    <3>1. /\ UNCHANGED <<job, index, size, host, passVars>>
          /\ phase[c] \in Live
          /\ \E to \in Live : phase' = [phase EXCEPT ![c] = to]
      BY <1>10, <2>3 DEF ClusterStep, Copied, Mark, Join, Finish, BuildFails,
          Delete, Becomes, Live, HasDirectory
    <3> QED
      BY <3>1 DEF Phase
  <2> QED
    BY <2>1, <2>2, <2>3
<1>11. ASSUME NEW j \in Job, JobStep(j) PROVE TypeInv'
  <2>1. CASE Submit(j)
    BY <2>1 DEF Submit
  <2>2. CASE End(j)
    <3>1. /\ job' \in [Job -> {"absent", "pending", "running"}]
          /\ host' \in [Creation -> Job \union {NoJob}]
      BY <2>2 DEF End
    <3> QED
      BY <2>2, <3>1 DEF End
  <2>3. ASSUME NEW c \in Creation, Start(j, c) PROVE TypeInv'
    BY <2>3 DEF Start
  <2> QED
    BY <1>11, <2>1, <2>2, <2>3 DEF JobStep
<1>12. CASE UNCHANGED planVars
  BY <1>12 DEF planVars
<1> QED
  BY <1>1, <1>2, <1>3, <1>4, <1>5, <1>6, <1>7, <1>8, <1>9, <1>10, <1>11, <1>12
     DEF PlanNext, PassStep

\* Every variable keeps its type: in particular a name never has an index above
\* max_cluster_count, whether or not creations are marked in time.
THEOREM PlanTypeCorrect == PlanSpec => []PlanTypeOK
<1>1. TypeInv => PlanTypeOK
  BY DEF TypeInv
<1> QED
  BY <1>1, TypeInvInit, TypeInvNext, PTL DEF PlanSpec
=============================================================================
