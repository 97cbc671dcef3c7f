----------------------- MODULE RecruitmentSyncProofs -----------------------
(***************************************************************************)
(* Theorems on RecruitmentSync, for every number of opportunities, runs    *)
(* and deliveries.                                                         *)
(***************************************************************************)
EXTENDS RecruitmentSync, TLAPS

\* map_lever_stage answers a canonical stage for whatever text Lever has.
LEMMA CanonicalType ==
  ASSUME NEW stage
  PROVE  Canonical(stage) \in CanonicalStages /\ Canonical(stage) # Absent
  BY DEF Canonical, CanonicalStages, Absent

\* An event names an opportunity.
LEMMA EventType ==
  ASSUME TypeOK, NEW e \in 1..Len(emitted)
  PROVE  emitted[e].opp \in Opportunities
<1> DEFINE E == [opp : Opportunities, stage : LeverStages]
<1>1. emitted \in Seq(E)
  BY DEF TypeOK
<1> HIDE DEF E
<1>2. emitted[e] \in E
  BY <1>1
<1> QED  BY <1>2 DEF E

\* What Lever does leaves every record here alone.
LEMMA LeverStep ==
  ASSUME SyncInv, NEW o \in Opportunities, NEW st \in LeverStages,
         ChangeStage(o, st) \/ NewOpportunity(o, st)
  PROVE  SyncInv'
<1>1. CASE ChangeStage(o, st)
  <2>1. TypeOK'
    <3>1. lever' \in [Opportunities -> Stages]
      BY <1>1 DEF ChangeStage, SyncInv, TypeOK, Stages
    <3>2. /\ emitted' \in Seq([opp : Opportunities, stage : LeverStages])
          /\ Len(emitted') = Len(emitted) + 1
      BY <1>1 DEF ChangeStage, SyncInv, TypeOK
    <3>3. Len(emitted') <= MaxChanges
      BY <1>1, <3>2, ChangesAssumption DEF ChangeStage, SyncInv, TypeOK
    <3>4. hook' \in [Hooks -> Hook']
      <4>1. Hook \subseteq Hook'
        BY <3>2 DEF Hook, SyncInv, TypeOK
      <4> QED  BY <1>1, <4>1 DEF ChangeStage, SyncInv, TypeOK
    <3> QED  BY <1>1, <3>1, <3>2, <3>3, <3>4 DEF ChangeStage, SyncInv, TypeOK, Task, Stages, RowStages
  <2> QED
    BY <1>1, <2>1 DEF ChangeStage, SyncInv, EventsAreExclusive, TasksOwnTheirRuns, CandidaciesAreKept
<1>2. CASE NewOpportunity(o, st)
  <2>1. TypeOK'
    BY <1>2 DEF NewOpportunity, SyncInv, TypeOK, Stages, Hook, Task
  <2> QED
    BY <1>2, <2>1 DEF NewOpportunity, SyncInv, EventsAreExclusive, TasksOwnTheirRuns, CandidaciesAreKept
<1> QED  BY <1>1, <1>2

\* A delivery changes its event's record only while no other has it in hand.
LEMMA HookStep ==
  ASSUME SyncInv, NEW h \in Hooks,
         \/ \E e \in Events : IgnoreDuplicate(h, e) \/ Receive(h, e)
         \/ InsertEvent(h) \/ CommitEvent(h) \/ RecordUnreadable(h) \/ LoseDelivery(h)
  PROVE  SyncInv'
<1> USE DEF SyncInv
<1>1. CASE \E e \in Events : IgnoreDuplicate(h, e)
  <2>1. PICK e \in Events : IgnoreDuplicate(h, e)
    BY <1>1
  <2>2. TypeOK'
    BY <2>1 DEF IgnoreDuplicate, TypeOK, Hook, Task
  <2>3. EventsAreExclusive'
    BY <2>1 DEF IgnoreDuplicate, EventsAreExclusive, TypeOK, Hook
  <2> QED
    BY <2>1, <2>2, <2>3 DEF IgnoreDuplicate, TasksOwnTheirRuns, CandidaciesAreKept
<1>2. CASE \E e \in Events : Receive(h, e)
  <2>1. PICK e \in Events : Receive(h, e)
    BY <1>2
  <2>2. [pc |-> "inserting", event |-> e, loaded |-> Absent] \in Hook
    BY <2>1 DEF Receive, Hook, RowStages, Events
  <2>3. TypeOK'
    BY <2>1, <2>2 DEF Receive, TypeOK, Hook, Task
  <2>4. EventsAreExclusive'
    BY <2>1 DEF Receive, EventsAreExclusive, TypeOK
  <2> QED
    BY <2>1, <2>3, <2>4 DEF Receive, TasksOwnTheirRuns, CandidaciesAreKept
<1>3. CASE InsertEvent(h)
  <2> DEFINE new == [hook[h] EXCEPT !.pc = "applying", !.loaded = rows[emitted[hook[h].event].opp]]
  <2>1. hook[h].event \in 1..Len(emitted) /\ hook[h] \in Hook
    BY <1>3 DEF InsertEvent, TypeOK, Hook
  <2>2. emitted[hook[h].event].opp \in Opportunities
    BY <2>1, EventType
  <2>3. new \in Hook
    BY <2>1, <2>2 DEF TypeOK, Hook
  <2>4. hook' = [hook EXCEPT ![h] = new]
    BY <1>3 DEF InsertEvent, TypeOK
  <2>5. TypeOK'
    BY <1>3, <2>3, <2>4 DEF InsertEvent, TypeOK, Hook, Task
  <2>6. EventsAreExclusive'
    BY <1>3, <2>1, <2>4 DEF InsertEvent, EventsAreExclusive, TypeOK, Hook
  <2> QED
    BY <1>3, <2>5, <2>6 DEF InsertEvent, TasksOwnTheirRuns, CandidaciesAreKept
<1>4. ASSUME hook[h].pc = "applying", hook' = [hook EXCEPT ![h] = IdleHook],
             \E status \in {"PROCESSED", "FAILED"} : log' = [log EXCEPT ![hook[h].event] = status]
      PROVE  /\ log' \in [Events -> {"NONE", "PROCESSED", "FAILED", "IGNORED_DUPLICATE"}]
             /\ hook' \in [Hooks -> Hook]
             /\ EventsAreExclusive'
  <2>1. IdleHook \in Hook
    BY DEF IdleHook, Hook, RowStages
  <2>2. \A g \in Hooks : hook'[g] = IF g = h THEN IdleHook ELSE hook[g]
    BY <1>4 DEF TypeOK
  <2>3. \A g \in Hooks \ {h} : hook[g].pc = "applying" => hook[g].event # hook[h].event
    BY <1>4 DEF EventsAreExclusive
  <2>4. EventsAreExclusive'
    BY <1>4, <2>2, <2>3 DEF EventsAreExclusive, TypeOK, IdleHook
  <2> QED  BY <1>4, <2>1, <2>4 DEF TypeOK
<1>5. CASE CommitEvent(h)
  <2> DEFINE e == hook[h].event
             o == emitted[e].opp
  <2>1. e \in 1..Len(emitted)
    BY <1>5 DEF CommitEvent, TypeOK, Hook
  <2>2. o \in Opportunities
    BY <2>1, EventType
  <2>3. rows' \in [Opportunities -> RowStages] /\ \A p \in Opportunities : rows[p] # Absent => rows'[p] # Absent
    BY <1>5, <2>2, CanonicalType DEF CommitEvent, TypeOK, Written, RowStages
  <2>4. /\ log' \in [Events -> {"NONE", "PROCESSED", "FAILED", "IGNORED_DUPLICATE"}]
        /\ hook' \in [Hooks -> Hook]
        /\ EventsAreExclusive'
    BY <1>4, <1>5 DEF CommitEvent
  <2>5. TypeOK'
    BY <1>5, <2>3, <2>4 DEF CommitEvent, TypeOK, Hook, Task
  <2>6. CandidaciesAreKept'
    BY <1>5, <2>3, LinkedAssumption DEF CommitEvent, CandidaciesAreKept
  <2> QED
    BY <1>5, <2>4, <2>5, <2>6 DEF CommitEvent, TasksOwnTheirRuns
<1>6. CASE RecordUnreadable(h)
  <2>1. /\ log' \in [Events -> {"NONE", "PROCESSED", "FAILED", "IGNORED_DUPLICATE"}]
        /\ hook' \in [Hooks -> Hook]
        /\ EventsAreExclusive'
    BY <1>4, <1>6 DEF RecordUnreadable
  <2>2. TypeOK'
    BY <1>6, <2>1 DEF RecordUnreadable, TypeOK, Hook, Task
  <2> QED
    BY <1>6, <2>1, <2>2 DEF RecordUnreadable, TasksOwnTheirRuns, CandidaciesAreKept
<1>7. CASE LoseDelivery(h)
  <2>1. IdleHook \in Hook
    BY DEF IdleHook, Hook, RowStages
  <2>2. TypeOK'
    BY <1>7, <2>1 DEF LoseDelivery, TypeOK, Hook, Task
  <2>3. EventsAreExclusive'
    BY <1>7 DEF LoseDelivery, EventsAreExclusive, IdleHook, TypeOK
  <2> QED
    BY <1>7, <2>2, <2>3 DEF LoseDelivery, TasksOwnTheirRuns, CandidaciesAreKept
<1> QED  BY <1>1, <1>2, <1>3, <1>5, <1>6, <1>7

\* A run's steps write its own row and add candidacies, never remove one.
LEMMA RunStep ==
  ASSUME SyncInv, NEW r \in Runs,
         RequestSync(r) \/ Work(r) \/ CommitSync(r) \/ FailSync(r) \/ Die(r)
  PROVE  SyncInv'
<1> USE DEF SyncInv
<1>0. /\ IdleTask \in Task
      /\ task[r] \in Task
      /\ Nothing \in [Opportunities -> RowStages]
  BY DEF IdleTask, Task, Progress, Nothing, Stages, RowStages, TypeOK
<1>1. CASE RequestSync(r)
  <2>1. TypeOK'
    BY <1>0, <1>1 DEF RequestSync, TypeOK, Hook, Task, Progress
  <2> QED
    BY <1>1, <2>1 DEF RequestSync, EventsAreExclusive, TasksOwnTheirRuns, CandidaciesAreKept, TypeOK
<1>2. CASE CreateRun(r)
  <2>1. TypeOK'
    BY <1>0, <1>2 DEF CreateRun, TypeOK, Hook, Task, Progress, Active
  <2> QED
    BY <1>2, <2>1 DEF CreateRun, EventsAreExclusive, TasksOwnTheirRuns, CandidaciesAreKept, TypeOK
<1>3. CASE StartRun(r)
  <2>1. TypeOK'
    BY <1>0, <1>3 DEF StartRun, TypeOK, Hook, Task, Progress, Active
  <2> QED
    BY <1>3, <2>1 DEF StartRun, EventsAreExclusive, TasksOwnTheirRuns, CandidaciesAreKept, TypeOK
<1>4. CASE ListOpportunities(r)
  <2>1. {o \in Linked : lever[o] # Absent} \subseteq Opportunities
    BY LinkedAssumption
  <2>2. TypeOK'
    BY <1>0, <1>4, <2>1 DEF ListOpportunities, TypeOK, Hook, Task, Progress
  <2> QED
    BY <1>4, <2>2 DEF ListOpportunities, EventsAreExclusive, TasksOwnTheirRuns, CandidaciesAreKept, TypeOK
<1>5. CASE FinishRun(r)
  <2>1. TypeOK'
    BY <1>0, <1>5 DEF FinishRun, TypeOK, Hook, Task, Active
  <2>2. CandidaciesAreKept'
    BY <1>5, LinkedAssumption DEF FinishRun, CandidaciesAreKept, IdleTask, Nothing, TypeOK
  <2> QED
    BY <1>5, <2>1, <2>2 DEF FinishRun, EventsAreExclusive, TasksOwnTheirRuns, IdleTask, TypeOK
<1>6. CASE \E o \in Opportunities : LoadCandidacy(r, o)
  <2>1. PICK o \in Opportunities : LoadCandidacy(r, o)
    BY <1>6
  <2> DEFINE new == [task[r] EXCEPT !.todo = @ \ {o}, !.loaded[o] = rows[o]]
  <2>2. task' = [task EXCEPT ![r] = new]
    BY <2>1 DEF LoadCandidacy, TypeOK
  <2>3. new \in Task
    BY <1>0 DEF TypeOK, Task
  <2>4. TypeOK'
    BY <2>1, <2>2, <2>3 DEF LoadCandidacy, TypeOK, Hook, Task
  <2>5. \A p \in Opportunities : new.loaded[p] = IF p = o THEN rows[o] ELSE task[r].loaded[p]
    BY <1>0 DEF Task
  <2>6. CandidaciesAreKept'
    BY <1>0, <2>1, <2>2, <2>5, LinkedAssumption DEF LoadCandidacy, CandidaciesAreKept, TypeOK, Task
  <2> QED
    BY <1>0, <2>1, <2>2, <2>4, <2>6 DEF LoadCandidacy, EventsAreExclusive, TasksOwnTheirRuns, TypeOK, Task
<1>7. CASE CommitSync(r)
  <2>1. \A o \in Opportunities : Synced(r, o) \in RowStages /\ (rows[o] # Absent => Synced(r, o) # Absent)
    BY CanonicalType DEF Synced, Written, TypeOK, RowStages
  <2>2. TypeOK'
    BY <1>0, <1>7, <2>1 DEF CommitSync, TypeOK, Hook, Task, Progress
  <2>3. \A o \in Linked : task[r].read[o] # Absent => rows'[o] # Absent
    BY <1>7, CanonicalType, LinkedAssumption DEF CommitSync, Synced, Written, CandidaciesAreKept
  <2>4. \A o \in Linked : rows[o] # Absent => rows'[o] # Absent
    BY <1>7, <2>1, LinkedAssumption DEF CommitSync
  <2>5. CandidaciesAreKept'
    BY <1>0, <1>7, <2>3, <2>4 DEF CommitSync, CandidaciesAreKept, TypeOK, Task
  <2> QED
    BY <1>7, <2>2, <2>5 DEF CommitSync, EventsAreExclusive, TasksOwnTheirRuns, TypeOK
<1>8. CASE FailSync(r)
  <2>1. TypeOK'
    BY <1>0, <1>8 DEF FailSync, TypeOK, Hook, Task, Progress
  <2> QED
    BY <1>8, <2>1 DEF FailSync, EventsAreExclusive, TasksOwnTheirRuns, CandidaciesAreKept, TypeOK
<1>9. CASE Die(r)
  <2>1. TypeOK'
    BY <1>0, <1>9 DEF Die, TypeOK, Hook, Task
  <2>2. CandidaciesAreKept'
    BY <1>9, LinkedAssumption DEF Die, CandidaciesAreKept, IdleTask, Nothing, TypeOK
  <2> QED
    BY <1>9, <2>1, <2>2 DEF Die, EventsAreExclusive, TasksOwnTheirRuns, IdleTask, TypeOK
<1> QED  BY <1>1, <1>2, <1>3, <1>4, <1>5, <1>6, <1>7, <1>8, <1>9 DEF Work

\* A step that changes nothing keeps the invariant.
LEMMA Stutter ==
  ASSUME SyncInv, UNCHANGED vars
  PROVE  SyncInv'
  BY DEF SyncInv, TypeOK, Hook, Task, EventsAreExclusive, TasksOwnTheirRuns, CandidaciesAreKept, vars

\* Deliveries that race, runs that race and deaths: an event is in one pair of
\* hands, a task finds its run as it left it, no candidacy is lost.
THEOREM SyncInvariant == Spec => []SyncInv
<1>1. Init => SyncInv
  <2> SUFFICES ASSUME Init PROVE SyncInv
    OBVIOUS
  <2>1. /\ IdleTask \in Task
        /\ IdleHook \in Hook
        /\ Nothing \in [Opportunities -> RowStages]
    BY DEF IdleTask, Task, Progress, Nothing, Stages, RowStages, IdleHook, Hook
  <2>2. TypeOK
    BY <2>1, ChangesAssumption DEF Init, TypeOK
  <2>3. EventsAreExclusive /\ TasksOwnTheirRuns
    BY DEF Init, EventsAreExclusive, TasksOwnTheirRuns, IdleTask, IdleHook
  <2>4. CandidaciesAreKept
    BY LinkedAssumption DEF Init, CandidaciesAreKept, IdleTask, Nothing
  <2> QED  BY <2>2, <2>3, <2>4 DEF SyncInv
<1>2. SyncInv /\ [Next]_vars => SyncInv'
  <2> SUFFICES ASSUME SyncInv, [Next]_vars PROVE SyncInv'
    OBVIOUS
  <2>1. CASE \E o \in Opportunities, st \in LeverStages : ChangeStage(o, st) \/ NewOpportunity(o, st)
    BY <2>1, LeverStep
  <2>2. CASE \E h \in Hooks :
               \/ \E e \in Events : IgnoreDuplicate(h, e) \/ Receive(h, e)
               \/ InsertEvent(h) \/ CommitEvent(h) \/ RecordUnreadable(h) \/ LoseDelivery(h)
    BY <2>2, HookStep
  <2>3. CASE \E r \in Runs : RequestSync(r) \/ Work(r) \/ CommitSync(r) \/ FailSync(r) \/ Die(r)
    BY <2>3, RunStep
  <2>4. CASE UNCHANGED vars
    BY <2>4, Stutter
  <2> QED  BY <2>1, <2>2, <2>3, <2>4 DEF Next
<1> QED  BY <1>1, <1>2, PTL DEF Spec

\* However an event's deliveries race, no candidacy changes by one that is on
\* record already.
THEOREM AppliedOnce == Spec => EventsApplyOnce
<1>1. SyncInv /\ [Next]_vars =>
        [ \A h \in Hooks :
            hook'[h] # hook[h] /\ rows' # rows => log[hook[h].event] = "NONE" ]_vars
  <2> SUFFICES ASSUME SyncInv, Next, NEW h \in Hooks, hook'[h] # hook[h], rows' # rows
               PROVE  log[hook[h].event] = "NONE"
    OBVIOUS
  <2>1. PICK g \in Hooks : CommitEvent(g)
    BY DEF Next, Work, ChangeStage, NewOpportunity, IgnoreDuplicate, Receive, InsertEvent, RecordUnreadable,
           LoseDelivery, RequestSync, CreateRun, StartRun, ListOpportunities, LoadCandidacy, FinishRun,
           CommitSync, FailSync, Die
  <2>2. g = h
    BY <2>1 DEF CommitEvent, SyncInv, TypeOK
  <2> QED  BY <2>1, <2>2 DEF CommitEvent, SyncInv, EventsAreExclusive
<1> QED  BY <1>1, SyncInvariant, PTL DEF Spec, EventsApplyOnce

\* A SUCCEEDED on record is a run whose commit went through, whatever other
\* runs and webhooks did between its commit and its record.
THEOREM SuccessMeansComplete == Spec => SuccessIsComplete
<1>1. SyncInv /\ [Next]_vars =>
        [ \A r \in Runs : run[r] # "SUCCEEDED" /\ run'[r] = "SUCCEEDED" =>
            \A o \in Linked : task[r].read[o] # Absent => rows[o] # Absent ]_vars
  <2> SUFFICES ASSUME SyncInv, Next, NEW r \in Runs, run[r] # "SUCCEEDED", run'[r] = "SUCCEEDED",
                      NEW o \in Linked, task[r].read[o] # Absent
               PROVE  rows[o] # Absent
    OBVIOUS
  <2>1. PICK s \in Runs : CreateRun(s) \/ StartRun(s) \/ FinishRun(s)
    BY DEF Next, Work, ChangeStage, NewOpportunity, IgnoreDuplicate, Receive, InsertEvent, CommitEvent,
           RecordUnreadable, LoseDelivery, RequestSync, ListOpportunities, LoadCandidacy, CommitSync, FailSync, Die
  <2>2. s = r
    BY <2>1 DEF CreateRun, StartRun, FinishRun, SyncInv, TypeOK
  <2>3. task[r].pc = "succeeding"
    BY <2>1, <2>2 DEF CreateRun, StartRun, FinishRun, SyncInv, TypeOK
  <2> QED  BY <2>3 DEF SyncInv, CandidaciesAreKept
<1> QED  BY <1>1, SyncInvariant, PTL DEF Spec, SuccessIsComplete

-----------------------------------------------------------------------------
(* What Reconciles says, but for its fairness.                             *)

\* The candidacies are Lever's and nothing under way could make one old again:
\* neither an event that may yet be applied nor a list that may yet be written.
Settled ==
  /\ Reconciled
  /\ \A e \in 1..Len(emitted) :
       log[e] = "NONE" /\ emitted[e].opp \in Linked =>
         Canonical(emitted[e].stage) = Canonical(lever[emitted[e].opp])
  /\ \A r \in Runs, o \in Linked :
       task[r].pc = "comparing" /\ task[r].read[o] # Absent =>
         Canonical(task[r].read[o]) = Canonical(lever[o])

\* While Lever rests, no delivery, run, failure or death unsettles a read model.
SettledStays == [][Settled /\ lever' = lever => Settled']_vars

\* A delivery is applied while its event is not yet on record, and such events
\* say what Lever says.
LEMMA HooksSettle ==
  ASSUME SyncInv, Settled, NEW h \in Hooks,
         \/ \E e \in Events : IgnoreDuplicate(h, e) \/ Receive(h, e)
         \/ InsertEvent(h) \/ CommitEvent(h) \/ RecordUnreadable(h) \/ LoseDelivery(h)
  PROVE  Settled'
<1>1. /\ lever' = lever
      /\ emitted' = emitted
      /\ task' = task
  BY DEF IgnoreDuplicate, Receive, InsertEvent, CommitEvent, RecordUnreadable, LoseDelivery
<1>2. \A e \in 1..Len(emitted) : log'[e] = "NONE" => log[e] = "NONE"
  <2>1. \/ log' = log
        \/ \E d \in Events, status \in {"PROCESSED", "FAILED", "IGNORED_DUPLICATE"} :
             log' = [log EXCEPT ![d] = status]
    <3>1. hook[h].pc = "applying" => hook[h].event \in Events
      BY ChangesAssumption DEF SyncInv, TypeOK, Hook, Events
    <3>2. CASE CommitEvent(h)
      BY <3>1, <3>2 DEF CommitEvent
    <3>3. CASE RecordUnreadable(h)
      BY <3>1, <3>3 DEF RecordUnreadable
    <3>4. CASE \E e \in Events : IgnoreDuplicate(h, e)
      BY <3>4 DEF IgnoreDuplicate
    <3>5. CASE (\E e \in Events : Receive(h, e)) \/ InsertEvent(h) \/ LoseDelivery(h)
      BY <3>5 DEF Receive, InsertEvent, LoseDelivery
    <3> QED  BY <3>2, <3>3, <3>4, <3>5
  <2> SUFFICES ASSUME NEW e \in 1..Len(emitted), log'[e] = "NONE"
               PROVE  log[e] = "NONE"
    OBVIOUS
  <2>2. e \in Events
    BY ChangesAssumption DEF SyncInv, TypeOK, Events
  <2>3. log \in [Events -> {"NONE", "PROCESSED", "FAILED", "IGNORED_DUPLICATE"}]
    BY DEF SyncInv, TypeOK
  <2> QED  BY <2>1, <2>2, <2>3
<1>3. Reconciled'
  <2>1. CASE CommitEvent(h)
    <3> DEFINE e == hook[h].event
               o == emitted[e].opp
    <3>1. e \in 1..Len(emitted) /\ log[e] = "NONE"
      BY <2>1 DEF CommitEvent, SyncInv, TypeOK, Hook, EventsAreExclusive
    <3>2. o \in Linked => Canonical(emitted[e].stage) = Canonical(lever[o])
      BY <3>1 DEF Settled
    <3>3. \A p \in Linked : rows'[p] = rows[p] \/ (p = o /\ rows'[p] = Canonical(emitted[e].stage))
      BY <2>1, LinkedAssumption DEF CommitEvent, Written, SyncInv, TypeOK
    <3> QED  BY <1>1, <3>2, <3>3 DEF Settled, Reconciled
  <2>2. CASE rows' = rows
    BY <1>1, <2>2 DEF Settled, Reconciled
  <2> QED
    BY <2>1, <2>2 DEF IgnoreDuplicate, Receive, InsertEvent, RecordUnreadable, LoseDelivery
<1> QED  BY <1>1, <1>2, <1>3 DEF Settled

\* A run writes what it read, and what it reads while the model is settled is
\* what Lever says.
LEMMA RunsSettle ==
  ASSUME SyncInv, Settled, NEW r \in Runs,
         RequestSync(r) \/ Work(r) \/ CommitSync(r) \/ FailSync(r) \/ Die(r)
  PROVE  Settled'
<1>1. /\ lever' = lever
      /\ emitted' = emitted
      /\ log' = log
  BY DEF RequestSync, Work, CreateRun, StartRun, ListOpportunities, FinishRun, LoadCandidacy,
         CommitSync, FailSync, Die
<1>2. Reconciled'
  <2>1. CASE CommitSync(r)
    <3>1. \A o \in Linked :
            \/ rows'[o] = rows[o]
            \/ task[r].read[o] # Absent /\ rows'[o] = Canonical(task[r].read[o])
      BY <2>1, LinkedAssumption DEF CommitSync, Synced, Written
    <3>2. task[r].pc = "comparing"
      BY <2>1 DEF CommitSync
    <3> QED  BY <1>1, <3>1, <3>2 DEF Settled, Reconciled
  <2>2. CASE rows' = rows
    BY <1>1, <2>2 DEF Settled, Reconciled
  <2> QED
    BY <2>1, <2>2 DEF RequestSync, Work, CreateRun, StartRun, ListOpportunities, FinishRun, LoadCandidacy,
                      FailSync, Die
<1>3. \A s \in Runs : task'[s].pc = "comparing" =>
        task'[s].read = lever \/ (task[s].pc = "comparing" /\ task'[s].read = task[s].read)
  <2>1. CASE ListOpportunities(r)
    BY <2>1 DEF ListOpportunities, SyncInv, TypeOK, Task
  <2>2. CASE \E o \in Opportunities : LoadCandidacy(r, o)
    BY <2>2 DEF LoadCandidacy, SyncInv, TypeOK, Task
  <2>3. CASE RequestSync(r) \/ CreateRun(r) \/ StartRun(r) \/ FinishRun(r) \/ CommitSync(r) \/ FailSync(r) \/ Die(r)
    BY <2>3 DEF RequestSync, CreateRun, StartRun, FinishRun, CommitSync, FailSync, Die, IdleTask,
                SyncInv, TypeOK, Task
  <2> QED  BY <2>1, <2>2, <2>3 DEF Work
<1> QED  BY <1>1, <1>2, <1>3 DEF Settled

\* Old events that arrive late and lists that were read long ago can undo what
\* a run has put right; once none is left, the read model stays Lever's for as
\* long as Lever rests, whatever is delivered again, runs, fails or dies.
THEOREM SettledStaysSettled == Spec => SettledStays
<1>1. SyncInv /\ [Next]_vars => [Settled /\ lever' = lever => Settled']_vars
  <2> SUFFICES ASSUME SyncInv, Next, Settled, lever' = lever
               PROVE  Settled'
    OBVIOUS
  <2>1. CASE \E o \in Opportunities, st \in LeverStages : ChangeStage(o, st) \/ NewOpportunity(o, st)
    <3>1. PICK o \in Opportunities, st \in LeverStages : ChangeStage(o, st) \/ NewOpportunity(o, st)
      BY <2>1
    <3>2. ~ChangeStage(o, st)
      BY DEF ChangeStage, SyncInv, TypeOK
    <3>3. UNCHANGED <<emitted, rows, log, task>>
      BY <3>1, <3>2 DEF NewOpportunity
    <3> QED  BY <3>3 DEF Settled, Reconciled
  <2>2. CASE \E h \in Hooks :
               \/ \E e \in Events : IgnoreDuplicate(h, e) \/ Receive(h, e)
               \/ InsertEvent(h) \/ CommitEvent(h) \/ RecordUnreadable(h) \/ LoseDelivery(h)
    BY <2>2, HooksSettle
  <2>3. CASE \E r \in Runs : RequestSync(r) \/ Work(r) \/ CommitSync(r) \/ FailSync(r) \/ Die(r)
    BY <2>3, RunsSettle
  <2> QED  BY <2>1, <2>2, <2>3 DEF Next
<1> QED  BY <1>1, SyncInvariant, PTL DEF Spec, SettledStays
=============================================================================
