-------------------------- MODULE RecruitmentSync --------------------------
(***************************************************************************)
(* recruitment-api's read model of Lever: the candidacies, kept by full    *)
(* sync runs (scheduled or ad hoc, each a background task of the request   *)
(* that queued it) and by Lever's webhooks.                                *)
(*                                                                         *)
(* Runs and webhooks use database sessions of their own and may run in     *)
(* several replicas.  PostgreSQL makes a transaction that writes a row     *)
(* another one has written wait for it, and refuses a second insert under  *)
(* a unique key; so what a transaction writes is decided by what it read,  *)
(* and takes effect when it commits.  Lever is only read.                  *)
(***************************************************************************)
EXTENDS Naturals, Sequences

CONSTANTS
  Opportunities,  \* Lever's opportunities
  Linked,         \* those with an application to a posting known here
  LeverStages,    \* names of pipeline stages
  Runs,           \* sync runs that can be on record at the same time
  Hooks,          \* webhook deliveries that can be handled at the same time
  MaxChanges      \* bound: stage changes at Lever

ASSUME LinkedAssumption == Linked \subseteq Opportunities

ASSUME ChangesAssumption == MaxChanges \in Nat

VARIABLES
  lever,    \* the stage of each opportunity at Lever, Absent before it exists
  emitted,  \* the stage-change events of Lever's webhook, oldest first
  rows,     \* current_stage of each committed candidacy, Absent without one
  log,      \* processing_status of each event's integration_events row
  hook,     \* webhook deliveries being handled
  run,      \* status of each row of recruitment_sync_runs
  task      \* the request and background task of each run

vars == <<lever, emitted, rows, log, hook, run, task>>

Absent == "absent"

CanonicalStages == {"SOURCING", "SCREENING", "CLIENT_REVIEW", "INTERVIEWS", "OFFER"}

\* map_lever_stage: an unknown stage is sourcing.
Canonical(stage) ==
  CASE stage \in {"Recruiter Phone Screen", "SparkHire Assessment Stage", "TestGorilla Assessment",
                  "SME Interview", "Predictive Talent Assessment"} -> "SCREENING"
    [] stage = "Presented to Customer" -> "CLIENT_REVIEW"
    [] stage = "Client Interview" -> "INTERVIEWS"
    [] stage \in {"Reference check", "Offer", "Offer Declined"} -> "OFFER"
    [] OTHER -> "SOURCING"

Events == 1..MaxChanges

Active == {"QUEUED", "RUNNING"}

\* How far a run's task has come; the comment names what it does next.
Progress ==
  { "idle",        \* not running
    "creating",    \* request_sync: insert the run, having seen none active
    "queued",      \* execute_run: mark the run RUNNING
    "listing",     \* list Lever's opportunities
    "comparing",   \* load the candidacies it has not compared yet, commit
    "succeeding",  \* mark the run SUCCEEDED
    "failing" }    \* mark the run FAILED

Stages == LeverStages \cup {Absent}

RowStages == CanonicalStages \cup {Absent}

\* read is what Lever said; loaded the candidacies the session has loaded.
Task == [pc : Progress, read : [Opportunities -> Stages],
         todo : SUBSET Opportunities, loaded : [Opportunities -> RowStages]]

Nothing == [o \in Opportunities |-> Absent]

IdleTask == [pc |-> "idle", read |-> Nothing, todo |-> {}, loaded |-> Nothing]

\* A webhook delivery: the event it carries and the candidacy it loaded.
Hook == { h \in [pc : {"idle", "inserting", "applying"}, event : Nat, loaded : RowStages] :
            h.pc # "idle" => h.event \in 1..Len(emitted) }

IdleHook == [pc |-> "idle", event |-> 0, loaded |-> Absent]

\* The tables, deliveries and tasks hold only what the services know.
TypeOK ==
  /\ lever \in [Opportunities -> Stages]
  /\ emitted \in Seq([opp : Opportunities, stage : LeverStages])
  /\ Len(emitted) <= MaxChanges
  /\ rows \in [Opportunities -> RowStages]
  /\ log \in [Events -> {"NONE", "PROCESSED", "FAILED", "IGNORED_DUPLICATE"}]
  /\ hook \in [Hooks -> Hook]
  /\ run \in [Runs -> {"NONE", "SUCCEEDED", "FAILED"} \cup Active]
  /\ task \in [Runs -> Task]

Init ==
  /\ lever \in [Opportunities -> Stages]
  /\ emitted = <<>>
  /\ rows = Nothing
  /\ log = [e \in Events |-> "NONE"]
  /\ hook = [h \in Hooks |-> IdleHook]
  /\ run = [r \in Runs |-> "NONE"]
  /\ task = [r \in Runs |-> IdleTask]

-----------------------------------------------------------------------------
(* Lever.                                                                  *)

\* A recruiter moves an opportunity, and the webhook has an event to deliver.
ChangeStage(o, stage) ==
  /\ Len(emitted) < MaxChanges
  /\ lever[o] \notin {Absent, stage}
  /\ lever' = [lever EXCEPT ![o] = stage]
  /\ emitted' = Append(emitted, [opp |-> o, stage |-> stage])
  /\ UNCHANGED <<rows, log, hook, run, task>>

NewOpportunity(o, stage) ==
  /\ lever[o] = Absent
  /\ lever' = [lever EXCEPT ![o] = stage]
  /\ UNCHANGED <<emitted, rows, log, hook, run, task>>

-----------------------------------------------------------------------------
(* Webhooks (webhook_service).  Lever may deliver an event late, again or   *)
(* never, and events in any order.                                         *)

\* An event on record is a duplicate, whatever became of it the first time.
IgnoreDuplicate(h, e) ==
  /\ hook[h].pc = "idle"
  /\ log[e] # "NONE"
  /\ log' = [log EXCEPT ![e] = "IGNORED_DUPLICATE"]
  /\ UNCHANGED <<lever, emitted, rows, hook, run, task>>

Receive(h, e) ==
  /\ hook[h].pc = "idle"
  /\ e \in 1..Len(emitted)
  /\ log[e] = "NONE"
  /\ hook' = [hook EXCEPT ![h] = [pc |-> "inserting", event |-> e, loaded |-> Absent]]
  /\ UNCHANGED <<lever, emitted, rows, log, run, task>>

InsertBlindly(h) ==  \* mutant: no unique key on the event
  /\ hook[h].pc = "inserting"
  /\ hook' = [hook EXCEPT ![h].pc = "applying", ![h].loaded = rows[emitted[hook[h].event].opp]]
  /\ UNCHANGED <<lever, emitted, rows, log, run, task>>

\* The insert waits for a rival delivery of the event, and the candidacy is
\* loaded after it.
InsertEvent(h) ==
  /\ hook[h].pc = "inserting"
  /\ log[hook[h].event] = "NONE"
  /\ \A g \in Hooks : hook[g].pc = "applying" => hook[g].event # hook[h].event
  /\ hook' = [hook EXCEPT ![h].pc = "applying", ![h].loaded = rows[emitted[hook[h].event].opp]]
  /\ UNCHANGED <<lever, emitted, rows, log, run, task>>

\* A column is written when it differs from what the session loaded.
Written(loaded, new, committed) == IF new = loaded THEN committed ELSE new

\* The candidacy and the event are one commit.  Without a candidacy there is
\* nothing to apply.
CommitEvent(h) ==
  LET e == hook[h].event
      o == emitted[e].opp
  IN
  /\ hook[h].pc = "applying"
  /\ rows' = IF hook[h].loaded = Absent THEN rows
             ELSE [rows EXCEPT ![o] = Written(hook[h].loaded, Canonical(emitted[e].stage), @)]
  /\ log' = [log EXCEPT ![e] = "PROCESSED"]
  /\ hook' = [hook EXCEPT ![h] = IdleHook]
  /\ UNCHANGED <<lever, emitted, run, task>>

\* A payload the handler cannot read: recorded, with nothing applied.
RecordUnreadable(h) ==
  /\ hook[h].pc = "applying"
  /\ log' = [log EXCEPT ![hook[h].event] = "FAILED"]
  /\ hook' = [hook EXCEPT ![h] = IdleHook]
  /\ UNCHANGED <<lever, emitted, rows, run, task>>

\* The unique key refuses the event, the database fails or the process dies:
\* nothing is recorded.
LoseDelivery(h) ==
  /\ hook[h].pc # "idle"
  /\ hook' = [hook EXCEPT ![h] = IdleHook]
  /\ UNCHANGED <<lever, emitted, rows, log, run, task>>

-----------------------------------------------------------------------------
(* Sync runs (recruitment_sync_service).                                   *)

\* A request that sees an active run answers with it and starts nothing.
RequestSync(r) ==
  /\ task[r].pc = "idle"
  /\ \A s \in Runs : run[s] \notin Active
  /\ task' = [task EXCEPT ![r].pc = "creating"]
  /\ UNCHANGED <<lever, emitted, rows, log, hook, run>>

CreateRun(r) ==
  /\ task[r].pc = "creating"
  /\ run' = [run EXCEPT ![r] = "QUEUED"]
  /\ task' = [task EXCEPT ![r].pc = "queued"]
  /\ UNCHANGED <<lever, emitted, rows, log, hook>>

StartRun(r) ==
  /\ task[r].pc = "queued"
  /\ run[r] = "QUEUED"
  /\ run' = [run EXCEPT ![r] = "RUNNING"]
  /\ task' = [task EXCEPT ![r].pc = "listing"]
  /\ UNCHANGED <<lever, emitted, rows, log, hook>>

\* One list of all opportunities, at most opportunity_sync_limit of them.
ListOpportunities(r) ==
  /\ task[r].pc = "listing"
  /\ task' = [task EXCEPT ![r].pc = "comparing", ![r].read = lever,
                          ![r].todo = {o \in Linked : lever[o] # Absent}]
  /\ UNCHANGED <<lever, emitted, rows, log, hook, run>>

\* Each is followed by a call for its applications, and then its candidacy is
\* loaded and given the stage; those without a posting are skipped.
LoadCandidacy(r, o) ==
  /\ task[r].pc = "comparing"
  /\ o \in task[r].todo
  /\ task' = [task EXCEPT ![r].todo = @ \ {o}, ![r].loaded[o] = rows[o]]
  /\ UNCHANGED <<lever, emitted, rows, log, hook, run>>

\* What the run's session holds to be written for an opportunity.
Synced(r, o) ==
  IF o \in Linked /\ task[r].read[o] # Absent
  THEN Written(task[r].loaded[o], Canonical(task[r].read[o]), rows[o])
  ELSE rows[o]

\* A candidacy it is about to insert has been inserted by another run.
Collides(r) ==
  \E o \in Linked :
    task[r].read[o] # Absent /\ task[r].loaded[o] = Absent /\ rows[o] # Absent

CommitInsertsOnly(r) ==  \* mutant: candidacies that exist are not updated
  /\ task[r].pc = "comparing"
  /\ task[r].todo = {}
  /\ ~Collides(r)
  /\ rows' = [o \in Opportunities |-> IF task[r].loaded[o] = Absent THEN Synced(r, o) ELSE rows[o]]
  /\ task' = [task EXCEPT ![r].pc = "succeeding"]
  /\ UNCHANGED <<lever, emitted, log, hook, run>>

\* Postings and candidacies are one commit.
CommitSync(r) ==
  /\ task[r].pc = "comparing"
  /\ task[r].todo = {}
  /\ ~Collides(r)
  /\ rows' = [o \in Opportunities |-> Synced(r, o)]
  /\ task' = [task EXCEPT ![r].pc = "succeeding"]
  /\ UNCHANGED <<lever, emitted, log, hook, run>>

\* Lever or the database raises: rollback.
FailSync(r) ==
  /\ task[r].pc \in {"listing", "comparing"}
  /\ task' = [task EXCEPT ![r].pc = "failing"]
  /\ UNCHANGED <<lever, emitted, rows, log, hook, run>>

FinishAnyway(r) ==  \* mutant: the error is not looked at
  /\ task[r].pc \in {"succeeding", "failing"}
  /\ run' = [run EXCEPT ![r] = "SUCCEEDED"]
  /\ task' = [task EXCEPT ![r] = IdleTask]
  /\ UNCHANGED <<lever, emitted, rows, log, hook>>

FinishRun(r) ==
  /\ task[r].pc \in {"succeeding", "failing"}
  /\ run' = [run EXCEPT ![r] = IF task[r].pc = "succeeding" THEN "SUCCEEDED" ELSE "FAILED"]
  /\ task' = [task EXCEPT ![r] = IdleTask]
  /\ UNCHANGED <<lever, emitted, rows, log, hook>>

\* The process dies, or the commit of its outcome fails; its row stays.
Die(r) ==
  /\ task[r].pc # "idle"
  /\ task' = [task EXCEPT ![r] = IdleTask]
  /\ UNCHANGED <<lever, emitted, rows, log, hook, run>>

-----------------------------------------------------------------------------

\* The steps of a run that wait for nobody.
Work(r) ==
  \/ CreateRun(r) \/ StartRun(r) \/ ListOpportunities(r) \/ FinishRun(r)
  \/ \E o \in Opportunities : LoadCandidacy(r, o)

Next ==
  \/ \E o \in Opportunities, st \in LeverStages : ChangeStage(o, st) \/ NewOpportunity(o, st)
  \/ \E h \in Hooks :
       \/ \E e \in Events : IgnoreDuplicate(h, e) \/ Receive(h, e)
       \/ InsertEvent(h) \/ CommitEvent(h) \/ RecordUnreadable(h) \/ LoseDelivery(h)
  \/ \E r \in Runs : RequestSync(r) \/ Work(r) \/ CommitSync(r) \/ FailSync(r) \/ Die(r)

Spec == Init /\ [][Next]_vars

\* The scheduler asks for a sync again and again, a task that runs is given
\* its next step, a run that cannot commit fails, and neither Lever nor the
\* database fails at the same step of every request and run.
FairSpec ==
  /\ Spec
  /\ WF_vars(\E r \in Runs : RequestSync(r))
  /\ SF_vars(\E r \in Runs : CreateRun(r))
  /\ \A r \in Runs : WF_vars(Work(r)) /\ WF_vars(Collides(r) /\ FailSync(r))
  /\ SF_vars(\E r \in Runs : ListOpportunities(r))
  /\ \A rest \in (SUBSET Opportunities) \ {{}} :
       SF_vars(\E r \in Runs : task[r].todo = rest /\ \E o \in rest : LoadCandidacy(r, o))
  /\ SF_vars(\E r \in Runs : CommitSync(r))

-----------------------------------------------------------------------------
(* Properties.                                                             *)

\* However often and by how many replicas an event is delivered at once, it is
\* in one pair of hands while its effect is open.
EventsAreExclusive ==
  \A h \in Hooks : hook[h].pc = "applying" =>
    /\ log[hook[h].event] = "NONE"
    /\ \A g \in Hooks \ {h} : hook[g].pc = "applying" => hook[g].event # hook[h].event

\* A task finds its run as it left it: no other task, and no request that
\* came later, has changed the row.
TasksOwnTheirRuns ==
  \A r \in Runs :
    /\ task[r].pc = "creating" => run[r] \notin Active
    /\ task[r].pc = "queued" => run[r] = "QUEUED"
    /\ task[r].pc \in {"listing", "comparing", "succeeding", "failing"} => run[r] = "RUNNING"

\* No candidacy is ever lost, so one that a session has loaded is there, and
\* a run whose commit went through has one for each opportunity it read.
CandidaciesAreKept ==
  \A r \in Runs, o \in Linked :
    /\ task[r].loaded[o] # Absent => rows[o] # Absent
    /\ task[r].pc = "succeeding" /\ task[r].read[o] # Absent => rows[o] # Absent

\* What deliveries and runs that meet in the tables may rely on.
SyncInv == TypeOK /\ EventsAreExclusive /\ TasksOwnTheirRuns /\ CandidaciesAreKept

\* A duplicate delivery is never applied again: a candidacy changes by an event
\* only in the step that puts the event on record, so that an old stage does
\* not come back with a redelivery.
EventsApplyOnce ==
  [][ \A h \in Hooks :
        hook'[h] # hook[h] /\ rows' # rows => log[hook[h].event] = "NONE" ]_vars

\* A run is on record as SUCCEEDED only if every opportunity of its list that
\* has a posting has its candidacy.
SuccessIsComplete ==
  [][ \A r \in Runs : run[r] # "SUCCEEDED" /\ run'[r] = "SUCCEEDED" =>
        \A o \in Linked : task[r].read[o] # Absent => rows[o] # Absent ]_vars

\* Each opportunity with a posting has the candidacy Lever says.
Reconciled ==
  \A o \in Linked : lever[o] # Absent => rows[o] = Canonical(lever[o])

\* A run that is on record as active though nobody runs it.
Orphaned == \E r \in Runs : run[r] \in Active /\ task[r].pc = "idle"

\* Whatever webhooks and overlapping runs do to the read model, it is Lever's
\* again in the end, as long as no task dies before its run is over.
Reconciles == []~Orphaned => <>[]Reconciled
=============================================================================
