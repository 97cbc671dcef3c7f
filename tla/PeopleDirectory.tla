-------------------------- MODULE PeopleDirectory --------------------------
(***************************************************************************)
(* The employee directory (people-api): what BambooHR says of the staff,   *)
(* and the read model that sync runs copy it into.  A run lists the active *)
(* employees, loads their rows and commits all of them in one transaction; *)
(* whoever is not listed keeps the row of an earlier run.                  *)
(***************************************************************************)
EXTENDS Naturals, FiniteSets

CONSTANTS
  Staff,
  Birthdays,    \* the days of the year, in the order of the calendar
  Dates, NoDate,
  Offices,
  FactChoices,  \* what BambooHR may say of an employee
  Runs,         \* rows of people_sync_runs
  MaxChanges    \* bound: changes in BambooHR

NoBirthday == 0  \* or one that _parse_birthday_field cannot read

\* An employee as BambooHR reports it.
Fact ==
  [active : BOOLEAN, birthday : Birthdays \cup {NoBirthday}, hired : Dates \cup {NoDate},
   left : Dates \cup {NoDate}, mail : BOOLEAN, office : Offices]

ASSUME DateAssumption ==
  Birthdays \subseteq Nat \ {NoBirthday} /\ Dates \subseteq Nat /\ NoDate \notin Nat

ASSUME FactAssumption == FactChoices \subseteq Fact

ASSUME ChangesAssumption == MaxChanges \in Nat

VARIABLES
  hr,         \* BambooHR
  directory,  \* the employees table
  run,        \* the people_sync_runs table
  task,       \* what executes each run
  changes     \* counted against the bound

people == <<hr, directory, run, task, changes>>

None == [none |-> TRUE]  \* no such row

Active == {"QUEUED", "RUNNING"}

IdleTask == [at |-> "idle"]

\* What a run has listed, and the rows it has loaded for it.
Task ==
  {IdleTask}
    \cup [at : {"creating", "queued", "listing", "succeeding", "failing"}]
    \cup [at : {"loading"}, list : [Staff -> Fact \cup {None}]]
    \cup [at : {"writing"}, list : [Staff -> Fact \cup {None}],
          loaded : [Staff -> Fact \cup {None}]]

PeopleTypeOK ==
  /\ hr \in [Staff -> Fact \cup {None}]
  /\ directory \in [Staff -> Fact \cup {None}]
  /\ run \in [Runs -> Active \cup {"NONE", "SUCCEEDED", "FAILED"}]
  /\ task \in [Runs -> Task]
  /\ changes \in 0 .. MaxChanges

PeopleInit ==
  /\ hr = [e \in Staff |-> None]
  /\ directory = [e \in Staff |-> None]
  /\ run = [r \in Runs |-> "NONE"]
  /\ task = [r \in Runs |-> IdleTask]
  /\ changes = 0

-----------------------------------------------------------------------------

\* HR hires, corrects, dismisses.
ChangeFact(e, f) ==
  /\ changes < MaxChanges
  /\ f # hr[e]
  /\ hr' = [hr EXCEPT ![e] = f]
  /\ changes' = changes + 1
  /\ UNCHANGED <<directory, run, task>>

Goto(r, t) == task' = [task EXCEPT ![r] = t]

\* request_sync finds no active run; otherwise it answers with the one it found.
RequestSync(r) ==
  /\ task[r] = IdleTask
  /\ \A s \in Runs : run[s] \notin Active
  /\ Goto(r, [at |-> "creating"])
  /\ UNCHANGED <<hr, directory, run, changes>>

CreateRun(r) ==
  /\ task[r].at = "creating"
  /\ run' = [run EXCEPT ![r] = "QUEUED"]
  /\ Goto(r, [at |-> "queued"])
  /\ UNCHANGED <<hr, directory, changes>>

StartRun(r) ==
  /\ task[r].at = "queued"
  /\ run' = [run EXCEPT ![r] = "RUNNING"]
  /\ Goto(r, [at |-> "listing"])
  /\ UNCHANGED <<hr, directory, changes>>

\* list_active_employees: active, with a birthday that can be read.
Listable(f) == f # None /\ f.active /\ f.birthday # NoBirthday

ListActive(r) ==
  /\ task[r].at = "listing"
  /\ Goto(r, [at |-> "loading", list |-> [e \in Staff |-> IF Listable(hr[e]) THEN hr[e] ELSE None]])
  /\ UNCHANGED <<hr, directory, run, changes>>

LoadRows(r) ==
  /\ task[r].at = "loading"
  /\ Goto(r, [at |-> "writing", list |-> task[r].list, loaded |-> directory])
  /\ UNCHANGED <<hr, directory, run, changes>>

\* The row after an UPDATE of the columns that differ from the loaded copy.
Written(row, loaded, copy) ==
  [c \in DOMAIN row |-> IF copy[c] # loaded[c] THEN copy[c] ELSE row[c]]

\* A rival run inserted an employee this one is about to insert.
Collides(r) ==
  \E e \in Staff :
    task[r].list[e] # None /\ task[r].loaded[e] = None /\ directory[e] # None

\* Mutant: only employees that are new are written.
InsertedOnly(t, e) == IF t.list[e] # None /\ directory[e] = None THEN t.list[e] ELSE directory[e]

\* upsert.
Upserted(t, e) ==
  CASE t.list[e] = None -> directory[e]
    [] t.list[e] # None /\ directory[e] = None -> t.list[e]
    [] OTHER -> Written(directory[e], t.loaded[e], t.list[e])

\* sync_employees, to its commit.
CommitSync(r) ==
  /\ task[r].at = "writing"
  /\ ~Collides(r)
  /\ directory' = [e \in Staff |-> Upserted(task[r], e)]
  /\ Goto(r, [at |-> "succeeding"])
  /\ UNCHANGED <<hr, run, changes>>

\* BambooHR or the database fails, and everything is rolled back.
FailSync(r) ==
  /\ task[r].at \in {"listing", "loading", "writing"}
  /\ Goto(r, [at |-> "failing"])
  /\ UNCHANGED <<hr, directory, run, changes>>

FinishRun(r) ==
  /\ task[r].at \in {"succeeding", "failing"}
  /\ run' = [run EXCEPT ![r] = IF task[r].at = "succeeding" THEN "SUCCEEDED" ELSE "FAILED"]
  /\ Goto(r, IdleTask)
  /\ UNCHANGED <<hr, directory, changes>>

\* The process dies; its row stays as it is.
Die(r) ==
  /\ task[r] # IdleTask
  /\ Goto(r, IdleTask)
  /\ UNCHANGED <<hr, directory, run, changes>>

\* The steps of a run that wait for nobody.
Work(r) ==
  \/ CreateRun(r) \/ StartRun(r) \/ LoadRows(r) \/ FinishRun(r)
  \/ task[r].at = "writing" /\ Collides(r) /\ FailSync(r)

Sync(r) ==
  RequestSync(r) \/ Work(r) \/ ListActive(r) \/ CommitSync(r) \/ FailSync(r) \/ Die(r)

PeopleNext ==
  \/ \E e \in Staff, f \in FactChoices : ChangeFact(e, f)
  \/ \E r \in Runs : Sync(r)

\* The scheduler asks for a sync every day, a run that can take its next step
\* takes it, and neither BambooHR nor the database fails every run.
PeopleFairness ==
  /\ WF_people(\E r \in Runs : RequestSync(r) \/ Work(r))
  /\ SF_people(\E r \in Runs : CreateRun(r))
  /\ SF_people(\E r \in Runs : ListActive(r))
  /\ SF_people(\E r \in Runs : LoadRows(r))
  /\ SF_people(\E r \in Runs : CommitSync(r))

PeopleSpec == PeopleInit /\ [][PeopleNext]_people /\ PeopleFairness

-----------------------------------------------------------------------------

\* A run that is on record as active though nobody executes it.
Orphaned == \E r \in Runs : run[r] \in Active /\ task[r] = IdleTask

\* The directory says what BambooHR says of everyone who is active there.
Current == \A e \in Staff : Listable(hr[e]) => directory[e] = hr[e]

\* Whatever overlapping and failing runs write over each other, the directory
\* is BambooHR's again in the end, unless a process died and left a run that
\* blocks every other (PeopleSyncService.request_sync, execute_run).
DirectoryCatchesUp == []~Orphaned => <>[]Current
=============================================================================
