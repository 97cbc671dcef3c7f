# A formal model of dijione-platform

The repository is a monorepo of FastAPI services with PostgreSQL databases and
Next.js front ends.  This directory holds TLA+ modules translated from the
services' code, TLC configurations that model-check them on small instances, and
theorems about them whose proofs TLAPS checks.

```
cd tla
tlc -workers 2 -config OrderConcurrent.cfg MCBirthdayOrder.tla   # model-check
tlapm BirthdayOrderProofs.tla                                    # check proofs
```

`PROJECT.json` lists the components, the runs with their properties, which lines
of the source every definition translates (`map`), the places where this code is
hard to test with the property that covers each (`hazards`), disagreements
between the code and its documentation (`findings`), and the theorems.

## 1. Inventory of the system

All services share one shape.  FastAPI runs synchronous handlers in a thread pool;
every request has a SQLAlchemy session of its own (`get_db`), loads objects,
decides on them in memory and commits, some handlers several times.  Sessions have
`autoflush` off, and an UPDATE writes the columns whose value changed.  No table
has a version column and only `order_sequences` is ever locked.  Other services
are called over HTTP in the middle of a handler.  So the recurring hard questions
are: what a request may still rely on when it commits, what a death between two
commits leaves behind, and what a call that timed out has done all the same.

### birthday-api: the life of an order (modelled)

*Code.* `order_status_service`, `order_email_service`,
`address_verification_service`, `order_readiness_service`, `order_release_service`,
`routes/orders.py`, `routes/portal.py`.
*State.* The row of `birthday_orders` (status, address verification, correction,
lead-time class, quantity, details, supplier, retry count, timestamps), the rows of
`supplier_communications`, the switch `auto_release_enabled`.
*Operations.* Staff hold, release, cancel, correct, patch, verify, send, resend,
confirm and delete; suppliers accept, request changes, decline and report progress
through the portal; a verified standard order is sent without another click.
*Interaction.* Mail goes out through a mail client and may fail, or be reported
as failed when it was sent.
*Hard.* Thirteen handlers interleave on one row without a lock; verification, a
portal update and deletion are several commits each.
*Correct when* a supplier only holds what was mailed and recorded, only a delivery
completes an order, the status follows its table, only standard orders go out by
themselves, progress leaves its timestamps and a delivery completes by itself.

### birthday-api: detection, manual creation, the order sequence (modelled)

*Code.* `detection_service`, `order_sequence_service`, `order_service`, the creating
route of `routes/orders.py`.
*State.* One order per employee and year, one counter per year, `scan_runs`.
*Operations.* A scan (by scheduler or administrator) goes through the active
employees of people-api, each in a transaction of its own; an administrator
creates an order by hand.
*Hard.* Two scans and manual creations at the same time, on the same counter and
the same employees; the first order of a year; failures of one employee; deaths.
*Correct when* references are never repeated, an existing order is left alone, and
a scan always ends and leaves the counter to others.

### birthday-api: calendar, suppliers, directory (modelled)

*Code.* `detection_service` (occurrence, window, initial status),
`eligibility_service`, `directory_service`, `routes/suppliers.py`,
`repositories/supplier_repository.py`, `get_supplier_scope` in `api/deps.py`.
*State.* The day, the configuration's lookahead, one order per employee and year;
suppliers with their office locations, catalogue items and users; portal tokens.
*Operations.* The daily scan; administrators create and edit suppliers, locations,
cakes and supplier users, and make one supplier and one cake the default; supplier
users sign in and send portal requests.
*Interaction.* The scan reads people-api's directory and resolves from the office
which supplier an order goes to and which cake it is for.
*Hard.* 29 February and year ends; a birthday in January is ordered in December and
belongs to the next year; scans that fail must be made up for; a default is set by
one UPDATE on the row and another on the rows that were read as defaults; edits of
one supplier user cross.
*Correct when* every birthday within the lookahead has one order on its day, the
directory shows that order, resolution is determined, a deactivated supplier user
begins nothing more.

### talent-api: postings, requests, what a client sees (modelled)

*Code.* `recruitment_consumer_service`, `posting_client_mapping_reconciler`,
`verified_posting_promotion_reconciler`, `talent_request_service`,
`application_service`, `interview_service`, `dashboard_service`, the `talent_*` routes.
*State.* Per posting a projection, a mapping (status, client, source) and at most
one talent request (client, stage, lifecycle, review, TA status); per person and
request an application and an interview, each visible to the client or not.
*Operations.* A reconciliation fetches the postings, decides from their DTC tags
whose each is, and promotes the verified ones; staff verify, unmap and reopen
postings, review and stage requests, enter applications, curate, schedule.
*Interaction.* Postings and candidacies come from recruitment-api, which has them
of Lever.
*Hard.* A reconciliation works on postings it fetched and mappings it loaded while
staff decide and Lever changes; it also promotes verified postings that were not in
its fetch, from rows nothing has locked; no review is refused; promotion refreshes
what staff curate.
*Correct when* staff decisions stand, a request is created only for the client its
posting is verified for, a client is shown nobody staff did not choose, a rejected
request is active for nobody, a tag taken away takes effect.

### talent-api: magic links (modelled)

*Code.* `magic_link_service`, `core/rate_limit.py`, `routes/talent_external.py`,
`routes/talent_external_admin.py`, `get_talent_external_scope`.
*State.* Grants (client, expiry, revocation, use count), session tokens, the
limiter's windows.
*Operations.* Staff create, extend, revoke and regenerate links of the clients in
their portfolio; whoever has a link redeems it for a short session and reads the
client's workspace.
*Hard.* Revocation against requests that loaded the link before, `revoked_at` stamped
before the audit call and the commit, two extensions, lost use counts, the limiter
where two windows meet and where calls wait for its lock with an old reading of the
clock.
*Correct when* a revoked link is dead for good from the commit on, no link is without
end, an extension extends, and the limiter limits.

### recruitment-api and people-api (modelled)

Both run *syncs*: a request queues a run unless one is active, a background task
takes it through RUNNING to SUCCEEDED or FAILED.  Hard: single flight is a check
and an insert; a death leaves a run RUNNING.
recruitment-api also takes *Lever webhooks*, which may be duplicated, reordered or
fail, and which a full sync overwrites; people-api's directory is what the scan of
birthday-api reads, and lists only active employees.
*Code.* `recruitment_sync_service`, `lever_candidacy_sync_service`, `webhook_service`;
`people_sync_service`, `employee_sync_service`.
*State.* `recruitment_candidacies` (the stage of each opportunity), the sync runs,
`integration_events`; `employees`, `people_sync_runs`.
*Correct when* an event is applied at most once, a run's record tells what it did,
and both read models are Lever's and BambooHR's again in the end.

### platform-api (modelled)

*Code.* `admin_service`, `authorization_service`, `claims_service`, `entra_service`,
`core/permissions.py`, `core/security.py`, `routes/auth*.py`, `routes/platform_admin.py`,
and talent-api's `get_talent_scope`.
*State.* Users (platform role, active, Entra identity), assignments of module roles
to users and access groups, each with client scopes, groups and members, session
tokens that carry claims.
*Operations.* Sign-in (development personas, or Entra with linking and
provisioning); administrators activate, deactivate, promote and demote, assign
modules, keep groups.
*Interaction.* The other services trust the claims until the token expires;
talent-api maps the clients they name to its own.
*Hard.* The last super administrator is protected by a count before a write;
sign-ins write the row administrators edit; claims are read by four queries, of which
the first alone decides whether the module is claimed; an assignment is looked up and
inserted with no unique key; tokens age.
*Correct when* somebody can always administer, nobody is admitted or promoted but
by request, claims are what the user is entitled to, pages and claims agree, and
access taken away ends.

### The rest

admin-api forwards requests and keeps no state; commercial-api and spark-api are
skeletons; the web front ends show what the services decide.  Notifications and
audit events are append-only, best-effort calls.

## 2. Modules

| module | models | of the code |
|---|---|---|
| `BirthdayOrder` | one order and the requests that change it | order services, staff and portal routes |
| `OrderContract` | what an order promises its readers | abstract specification of `BirthdayOrder` |
| `BirthdayDetection` | scans, manual creations, the counter | detection, sequence and order services |
| `OrderRegister` | one order an employee, each under a new reference | abstract specification of `BirthdayDetection` |
| `PeopleDirectory` | BambooHR, sync runs, the employee directory | people-api's sync services |
| `BirthdaySuppliers` | suppliers, offices, cakes, defaults, resolution | supplier routes and repository |
| `SupplierPortal` | supplier users and their portal requests; extends `BirthdaySuppliers` | supplier user routes, `get_supplier_scope` |
| `BirthdayCalendar` | days, the scan and its orders over the three above | detection, eligibility and directory services |
| `RecruitmentSync` | sync runs and Lever's webhooks on the candidacies | recruitment-api's sync and webhook services |
| `TalentFlow` | postings, requests, applications and what clients see | talent-api's reconcilers, services and routes |
| `MagicLink` | access links, sessions, the limiter | talent-api's magic link service and routes |
| `AccessCatalogue` | roles and permissions as tables | platform-api's `permissions.py` |
| `PlatformAccounts` | users, sign-in, administration | platform-api's admin, Entra and auth code |
| `PlatformGrants` | assignments, groups, what they give; extends `PlatformAccounts` | admin and authorization services |
| `PlatformAccess` | claims read query by query, and talent-api's use of them; extends `PlatformGrants` | claims service, talent-api's `deps.py` |
| `MCBirthdayOrder`, `MCBirthdayCalendar`, `MCRecruitmentSync`, `MCTalentFlow`, `MCMagicLink`, `MCPlatform` | TLC instances | |
| `BirthdayOrderProofs`, `BirthdayDetectionProofs`, `BirthdayCalendarProofs`, `RecruitmentSyncProofs`, `TalentFlowProofs`, `MagicLinkProofs`, `PlatformAccountsProofs`, `PlatformAccessProofs` | theorems, each on the module it is named after | |

In all of them a request is an entry of a variable (`req`, `desk`, `admin`, `form`,
`task`): one action loads the row it works on, a later one commits what
`Written` makes of it: the columns the request changed in its copy, over whatever
is committed by then.  Deaths, refused commits and failing calls are actions.
History variables exist only for properties and are named in their comments.

### BirthdayOrder

`order` is the committed row (`GONE` after a hard delete), `comms` counts the rows
of `supplier_communications` by outcome, `autoRelease` is the switch, and `req`
holds for each request in flight how far it has come (`pc`) and the copy of the row
its session loaded (`snap`).  `mails` is what the supplier's mailbox received: the
code cannot see it, the properties do.

A request is `Load`, then one action per commit.  A handler of one commit (`Hold`,
`Cancel`, `UpdateOrder`, ...) is one action; sending is `SendToSupplier` or
`ConfirmRelease` or `AutoRelease`, then `MailAccepted`/`MailFailed`, then
`RecordSent`/`RecordFailed`; verification is `MarkVerified`, the refresh, then
`Park`, `AutoRelease` or `VerdictRefused`; the portal's update is `SupplierUpdate`,
`StampStage`, the refresh and `AutoComplete`; deletion is `CheckDeletable` and
`DeleteOrder`.  `Merge` is what SQLAlchemy's UPDATE does: a column whose value the
request did not change keeps what is committed by then.  `Abort` is a death between
any two commits.  `MailFailed` may have delivered the mail.

What the properties do not tell apart is left out: mail texts, recipients and
events, special requirements, issues (apart from CANNOT_FULFIL, which changes the
status), dates (a lead-time class that is short or not, details that are filled in
or not).  Suppliers are all ACTIVE.  The handlers of one order are modelled; orders
share nothing but the switch and the counter of the second module.

### BirthdayDetection

`orders` is the committed order of each employee, `nextSeq` the counter of the year
(0 while it has no row), `lock` the transaction that holds the counter's row, `sess`
the sessions and `runs` the row of each scan.  Steps are statements and commits on
PostgreSQL at READ COMMITTED: `LockYear` is the SELECT ... FOR UPDATE that waits,
`MissYear`, `FoundYear` and `RetryYear` are the first order of a year, where there
is no row to lock and the unique key decides; `CreateOrGet` looks for the order;
`CommitOrder` commits number and order together; `Fail` rolls one employee back and
lets the scan go on; `Crash` is a death.  Which employees are due is any subset
(`ListEmployees`).  The path for SQLite, which has no row locks, is not modelled.

### RecruitmentSync

`lever` is the stage of each opportunity at Lever and `emitted` the stage changes
its webhook has to deliver; `rows` is the stage of each committed candidacy, `log`
the status of each event's row, `run` the status of each run's row.  `hook` and
`task` are what runs: a delivery with the candidacy it loaded, a run's background
task with what Lever listed and what its session loaded.  A delivery is `Receive`
(the look for the event), `InsertEvent` (the flushed insert, where the unique key
makes a rival wait) and `CommitEvent` or `RecordUnreadable`; `IgnoreDuplicate` is
the delivery of an event on record, `LoseDelivery` one that records nothing.  Any
event may be delivered at any time, again, or never.  A run is `RequestSync` (none
active), `CreateRun`, `StartRun`, `ListOpportunities`, `LoadCandidacy` for each,
`CommitSync` or `FailSync`, `FinishRun`, and `Die` anywhere.  `Canonical` is the
table from Lever's stages.  As in the order's module, a column is written only
when its value differs from the one the session loaded (`Written`).

Left out are postings and contacts, written in the same transactions from the same
lists, the archive outcome, which webhooks do not touch, the limit of 200
opportunities, and notifications.  An event carries an opportunity and a stage.

### PeopleDirectory, BirthdaySuppliers, SupplierPortal, BirthdayCalendar

`hr` is BambooHR, `directory` the `employees` table; a run is `RequestSync`,
`CreateRun`, `StartRun`, `ListActive` (active employees whose birthday can be read),
`LoadRows`, `CommitSync` (all of them, `Upserted` one by one) or `FailSync`,
`FinishRun`, and `Die` anywhere.  `supplier`, `cake` and `location` are the tables;
`EditSupplier` and `EditCake` load the row and the rows that are defaults, the commit
writes and clears `Others`; `Resolved` and `DefaultCakes` are what detection makes of
them, as the set of rows `first()` may return.  `contact` are the supplier users,
`form` the edits in progress, `signedIn` the tokens, `visit` the portal request a user
has in progress; every request looks its row up (`InScope`).

Days are numbers and a year is `YearLength` positions, one of them the leap day, so
the arithmetic is the code's, on short years.  `DayIn` is `_occurrence_for_year`,
`NextOccurrence` and `InWindow` are the functions of those names.  `ScanEmployee` is
one employee of a scan up to its commit, `SkipEmployee` one that fails, `NextDay`
midnight.  `promised` remembers how far scans have looked ahead for the row the
directory still has.  A scan takes the directory in one step, as the code does in
one call; rival scans are `BirthdayDetection`'s.

### TalentFlow

`fact` and `candidacy` are what recruitment-api reports; `ref`, `mapping`, `request`,
`application`, `interview` the tables.  A reconciliation is `Fetch`, `LoadMappings`,
`Promote` and `CommitReconciliation`.  Its UPDATE of a fetched posting's mapping keeps
the row locked until the commit (`Locked`), so reconciliations of the same postings
take turns, each with what it fetched before, and staff decisions wait.  `Promote`
flushes the mappings (`Reconciled`: the table of the DTC rules), asks for the
candidacies and selects what is verified then (`Verified`): fetched postings by the
reconciliation's own copies, and every other verified posting with a projection by
its row, which nothing locks.  The commit writes projection and mappings of what was
fetched, the talent requests as `Promote` found them (`Promoted`, `PromotedFor`,
`Sourced`) and the applications (`Refreshed`); it fails as a whole when another
reconciliation has committed a request for one of the postings.  Staff requests load and commit in two steps
where a copy matters and in one where the row is new.  `CandidatesFor`,
`InterviewsFor`, `PostingsFor` and `ActiveFor` are the queries of the portal and the
dashboards.  `decision` is what staff last decided, `outdated` and `crossed` mark rows
written from a copy another commit had outdated; `Overtaken` says the same of a posting
that a reconciliation promotes without holding it.

Left out: designations, notes, priorities, codes, notifications, documents,
messages, the staff portfolio as a filter on requests (it only narrows who may
act), candidates without a posting.

### MagicLink

`link` is the table, `sessions` the links with an unexpired token, `desk` what each
worker handles, `now` the clock, `source` and `overall` the limiter's windows.
`Arrive` is `allow` up to its lock, with the clock read; `Redeem` takes the lock, counts
the call by that reading (`Attempt`) and loads the link; `CommitRedeem` counts the use
and issues the session; `Visits` and `Answer` are a portal request, admitted by the link
as it is then; `Extend`, revoke and regenerate go through `Handle`, which refuses
clients outside the portfolio, and stamp with the clock of any moment between the load
and the commit (`t` of `CommitRevoke`, `CommitRegenerate`, `CommitExtend`): services and
routes read it before the audit call.  Of a link that was revoked from two copies the
later commit keeps its own `revoked_at`.  The raw token is the link's identity.  `late`,
`raced` and `cut` are history: ticks at which a call that had waited opened a window,
links extended on an outdated copy, and when a revocation was committed.

### AccessCatalogue, PlatformAccounts, PlatformGrants, PlatformAccess

`acct` are the users, `mode` the deployment's AUTH_MODE, `sessions` the tokens with
their claims.  An edit is `CheckStatus` or `CheckRole` (the guard, with the count of
other active super administrators) and `CommitEdit`; a sign-in `DevLogin` or
`Resolve` and `CommitSignIn` (link, provision or refuse), then `Refresh` and the
claims; `Redeploy` changes the mode and ends all requests.  `rows` are the
assignments of users and groups with their scope rows; an upsert is
`FindAssignment`, `ReplaceScope` (the DELETE that sees what it sees) and
`CommitAssignment`.  `EffectiveRoles`, `UnionScope`, `EffectiveAccess`, `Visible`,
`Notified`, `RoleHolders` and the pages are the queries.  `reading` is how far a
sign-in has come with `ReadRoles`, `ReadSources`, `ReadScope` and `IssueClaims`.
The scope is read twice, as numbers (`ids`) and as public ids (`refs`), each by the rows
that contribute and their scope rows; the permissions last.  `Opens` is what talent-api
makes of a token: the clients whose requests it may read.  All it asks is that the
module's key is in the token (`Claimed`), which it is whenever the first query saw a
role, though the later ones may have found nothing: no source is an unrestricted scope.
A token restricted by public ids opens those talent-api knows (`ClientIds`), one that is
unrestricted by them what its numbers name (`NumberedIds`, `Numbered`).

One module key stands for all (no operation relates two), edits of groups and
members are one statement each, the queries of a page are one step.  Left out is
the registry of clients.

## 3. What the runs check

| run | instance | shows |
|---|---|---|
| `order_serial` | one request, all handlers, all quantities, 2 mails and failures, deaths | the status follows its table (`FollowsTable`), the order implements `OrderContract` (`ImplementsContract`), only standard verified orders go out by themselves (`AutoReleaseIsStandard`) |
| `order_concurrent` | two requests, all but the edits, deaths outside the portal's update, fair | the inductive invariant `OrderInv` (what a supplier holds is on record, only a delivery completes, no invented retry); no recorded mail nobody got (`SentIsMailed`); every stage passed has its timestamp (`FulfilmentIsStamped`), a delivered order completes (`DeliveredCompletes`) |
| `cancel_race` | two requests | violated: `TerminalIsFinal` |
| `detection` | two scans, a manual creation, two employees, failures, deaths, fair | `SeqInv`; sessions, locks and retries implement a register that gives every order a reference of its own (`ImplementsRegister`); scans leave orders alone (`ScansKeepOrders`) and end (`ScansEnd`) |
| `calendar` | one employee, two sync runs, two suppliers with two cakes, two supplier users, six days across a year's end, 2 changes in HR, 3 edits, fair | the occurrence is the first celebrated day (`OccurrencesAreNext`), who was looked ahead for has an order on the day (`NobodyIsMissed`), one order a birthday (`OneCakeABirthday`), shown with it (`DirectoryShowsItsOrder`); resolution is determined (`SupplyInv`); the directory catches up (`DirectoryCatchesUp`); the deactivated stay out (`DeactivatedStayOut`) |
| `lever_sync` | two runs, two deliveries, two changes at Lever, failures, deaths | `SyncInv`; an event changes a candidacy once (`EventsApplyOnce`), SUCCEEDED has its candidacies (`SuccessIsComplete`) |
| `lever_reconciles` | two runs, one delivery at a time, two changes, fair | the read model is Lever's again in the end (`Reconciles`) |
| `accounts` | a super, a platform administrator, a plain user, two identities, two workers, 3 edits, 2 sessions | `LockoutNeedsCrossing`, `AdmissionByAdministrators`, `AccessChangesOnRequest` |
| `access` | a super administrator edits, a user in a team signs in; two groups, one client, 3 assignments, 3 edits, 2 sessions, fair | one assignment each (`AccessInv`), undisturbed claims are the entitlement (`UntornClaimsAreEntitled`), the pages agree (`PagesExplainAccess`), a session opens in talent-api exactly what its user was entitled to when it was issued, unless an edit tore the reading (`SessionsAreEntitled`), revocation takes effect (`RevocationTakesEffect`) |
| `magic` | two links, clients, staff, addresses and workers, 5 redeem attempts and staff requests, limits of 1 and 2 a window of 2 ticks, clock to 2 | `LinkInv`, `RevokedForGood`, `ExpiryMovesForward`, `UsesAreRedemptions`, `LimiterHolds` |
| `talent` | a posting, two clients, a candidate, two workers, 2 changes at Lever, 2 staff requests, fair | `MappingInv`, `RejectedStaysOut`, `RequestsAreVerified`, `ShownByStaff`, `TagLossTakesEffect` |
| `stale_promotion` | the same | violated: `SeenOnlyVerified` |

The properties of `order_serial` do not hold of interleaved requests: `cancel_race`
shows the shortest way.  That division is itself a result: with one request at a
time the service keeps its table and its contract, across deaths; with several it
keeps what `order_concurrent` checks.

Where the code does not hold up against requests that cross, the property names
the crossing and excludes exactly it: `LockoutNeedsCrossing` (two demotions, each
having counted the other's administrator), `OneAssignmentEach` in `AccessInv` (two
first assignments), `StaffDecisionStands` in `MappingInv` and `RejectedStaysOut`
(rows written from an outdated copy), `ResolutionIsDetermined` in `SupplyInv` (two
requests that set a default), `ExpiryMovesForward` (two extensions).  Each history
variable behind such a condition is set only by the step that writes from a copy
or beside an insert it has not seen, and everything else the code does in between
is covered: sequences of requests, deaths, sign-ins, reconciliations.

*Bounds.* Two requests (or workers) are enough for every interleaving of a read with
another's commit, and each is followed by any number of others up to the bound on
requests.
`MaxAttempts` of the orders stops new mails once so many were received or failed:
with 1, two requests can still both be past the check and send twice, with 2 an order
is sent, recalled and sent again.  `MaxSeq` stops new scans and creations once the
counter is there; those running go on.  Two employees are needed for two references,
two scans and a manual creation for a third party that waits at the counter.  The
concurrent order run leaves out the three edits, which change no column the other
properties of that run read from a copy; the serial run and the proofs have them.
Requests and suppliers are symmetric, and so are sync runs and deliveries, magic
links' workers, links and addresses, and the workers and identities of the accounts:
no action tells one from another, and no run that checks a liveness property uses
symmetry.  Opportunities share only the run that reads them, so the runs on Lever
have one; `Linked` is all of them there (an unlinked one has no candidacy to
differ).  Two changes make an old event that is delivered after a newer one.

In `calendar` a year has 4 positions of which the second is the leap day, and year 2 is
a leap year: the six days are the whole of year 1 and all but the last of year 2, so
occurrences fall into three years, and with lookaheads of 1 and 2 windows reach over
both year ends.  The employee is
born on the leap day, at the year's end, on an impossible date or on none, starts
late, ends early, or is inactive (`Facts`).  The four parts share few variables, so
the instance looks at them from four sides, each with all actions of its part
(`side`): suppliers, supplier users (over one supplier), directory runs that
overlap, and the calendar over one sync at a time and two arrangements of suppliers.
What a side leaves still, it does not read or reads only as one of the states
that the other side reaches.

In `accounts` a third account that does not exist yet is what Entra provisions, and
3 edits let a super administrator be made, the other one demoted, and one thing more
done.  In `access` the administrator has signed in and a team exists (`AccessInit`);
what is varied is the assignment to the user and to the team, their roles, switches
and scopes, both groups, the membership and the account, while one worker at a time
signs the user in.  talent-api knows another client than the one of the scopes
(`LocalClients`), and has it under the number of that one (`ForeignNumbers`): the case in
which a scope could widen, by a dropped public id or by a number.  `MaxRows` bounds
assignments ever made.  In `magic` expiries are 1 or 2 ticks, so a link runs out while
a request works on it and one tick later; a window of 2 ticks with the clock stopping
at 2 has windows that end within a run, and calls that read 0 and take the lock at 2.
Five requests are a link, its extension or revocation, and three attempts: enough to
fill a window, open the next and be turned away.  In `talent` one posting suffices: no rule
relates two postings or two people; `TagLists` has a tag, another among other tags,
and an ambiguous pair (what has no or no usable tag reconciles like it).  Workers
are taken in order (`FirstIdle`), Lever moves its candidacy to one stage and staff enter applications at
another (`OneStage`), interviews end one way (`OneOutcome`), and staff verify for one of
the clients, with or against the tags, which name both (`OneClient`); staff stage
requests at all of `StageChoices`.  The run has 220,525 states; in it a posting is
promoted that was not fetched, and an unmap is committed before the promotion is: without
`Overtaken`, `RequestsAreVerified` is violated.

*Deadlock* is checked in `order_serial`, where the system cannot stop.  Elsewhere it
may: no request loads a deleted row in the concurrent order runs, bounds end the
instances of detection, calendar, accounts, access, magic links and talent, and in
the sync runs every run may die and leave a row that turns all later requests away.
`ScansEnd` and the other liveness properties are what is checked there of waiting.

*Fairness.* `StruckSpec` (order) assumes weak fairness of a running request's next
step: its thread is scheduled, its calls return.  Nobody has to send a request.
Requests die anywhere but inside the portal's update, since nothing resumes a dead
one there: `DeliveredCompletes` and `FulfilmentIsStamped` are false with such deaths,
and the code has no job that repairs it (a hazard in the list).
`FairSpec` of detection assumes weak fairness of what a session does without
waiting and of a commit's answer (done or refused), and strong fairness of getting the
counter's row, since PostgreSQL queues the transactions that wait for a row.  Nothing makes a waiting session give up,
so a path that kept the row would be seen.  Deaths stay possible there: a dead scan
has ended.
`FairSpec` of the Lever runs and `PeopleFairness` assume that the scheduler asks again
and again, that a task takes its next step, that a run whose insert was refused
fails, and strong fairness of each step that the source or the database can make
fail: no step fails in every run for ever.  Webhooks need not be delivered at all.
`DirectoryCatchesUp` has "no run is orphaned" as its premise.
`Fairness` of `TalentFlow` assumes that a staff request commits or dies, that
`talent-reconcile-job` keeps starting reconciliations, and that not all of them fail.
In `PlatformAccess` only tokens expire (`ExpireOne`): nobody has to sign in or edit.
In `calendar`, a scan ends (`EndScan`), by its last employee or by a death.

## 4. Findings

* **A cancelled order can come back** (`cancel_race`).  `transition()` judges the
  status its session loaded.  A hold that loaded the order before a cancel was
  committed writes ON_HOLD over CANCELLED, though `ALLOWED_TRANSITIONS` and the
  tests call CANCELLED terminal.
* **A former client keeps the talent request** (`stale_promotion`).  Promotion looks
  a posting's request up by the posting alone and never touches its client; unmapping
  leaves it, too.  After the tag moved the posting to another client, the former one
  still sees the request, refreshed with the posting's current title, and its curated
  candidates.  `PostingClientMappingStatus` says that a client "may never see a Posting
  (or anything under it) unless its mapping is VERIFIED for their own client_id".

Other places where code and documentation differ, which the models have as the code
does it and which no run is spent on:

* `create_order` (orders.py:161) ignores whether `create_or_get_order` created the row
  and writes quantity, override and creator on an order it lost to; documented
  (order_service.py:6-7, orders.py:116-118) is an untouched row and a 409.
  `BirthdayDetection.WriteOrder` has it.
* A scan's row is committed as COMPLETED before the scan begins
  (detection_service.py:145, models/scan_run.py:22), so a scan that died is on record
  so.  `BirthdayDetection.StartScan` has it.
* `request_sync` (recruitment_sync_service.py:99) can start two runs at a time;
  docs/platform/recruitment-source.md:44 documents a single flight.
  `RecruitmentSync.RequestSync` and `CreateRun` have it.
* In Entra mode `get_auth_provider()` returns a provider whose `decode_token` raises
  `NotImplementedError`, which `get_current_user` does not catch, so platform-api's own
  routes refuse the tokens it issues; docs/platform/authentication.md:139 calls that
  provider "an unused stub".
  `PlatformAccounts.Accepted` has it; the other services are not affected.
* people-api's routes say "The read model only ever holds *active* employees"; one who
  left is no longer listed by BambooHR and keeps the row, so orders go on to be
  created.  `PeopleDirectory.Upserted` has it, and `NobodyIsMissed` speaks of those the
  directory has.
* A birthday such as 31 April is accepted by the parser and then skipped by every scan
  as an error.  `BirthdayCalendar.Possible` has it.
* `routes/suppliers.py:116` says "at most one default at a time"; two overlapping
  requests leave two.  `BirthdaySuppliers.CommitSupplier` has it.
* A token may claim the module for all clients with no permission in it: the first query
  of `build_claims` saw a role, the assignment was removed, and a scope of no sources is
  unrestricted (authorization_service.py:242).  `get_talent_scope` and `list_requests`
  accept it until it expires; claims_service.py:36 promises the union of what contributes.
  `PlatformAccess.ClaimsRead` and `Claimed` have it.
* A reconciliation promotes a verified posting that is missing from its fetch from a row it
  has not locked; an unmap committed before the promotion is leaves a new talent request
  for a client the posting is no longer verified for.  `TalentFlow.Promote` has it.
* `revoked_at` is stamped before the audit call and the commit, so a visit let in meanwhile
  is later than the `revoked_at` on record, and of two revocations that loaded the link
  unrevoked the second replaces the stamp of the first, though `revoke_grant` says it is
  idempotent.  `MagicLink.CommitRevoke` has it.
* The limiter reads the clock before its lock (rate_limit.py:47), so calls that waited open
  a window that is over early, and twice its limit, or more when several windows open so,
  can pass in a minute; rate_limit.py:66 says "~10 attempts/min per source IP, ~100/min
  across all sources".  `MagicLink.Attempt` has it.
* `review_request` accepts any decision in any state; docs/talent-flow/workflows.md:20
  shows a lifecycle that only goes forward.  `TalentFlow.Reviewed` has it.
* `TalentScope` says `client_id` is None for staff; staff whose portfolio is exactly one
  client have it set (claims_service, `single_public_id`).

## 5. What is proved

For every number of requests, suppliers, employees, scans, administrators, links,
clients, postings, users, addresses and days:

* `BirthdayOrderProofs`: `TypeCorrect`, `OrderInvariant`, and from the latter
  `HeldOrdersAreOnRecord`, `CompletionNeedsDelivery`, `RetriesAreRecorded`;
  `EveryRecordIsAMail` (`SentIsMailed`), `StagesLeaveTimestamps` (`FulfilmentIsStamped`),
  `DeliveriesAreAttended`; for one request at a time `TableIsFollowed` (`FollowsTable`),
  `AutoReleasesAreStandard` (`AutoReleaseIsStandard`) and the refinement
  `OrderKeepsContract` (`ImplementsContract`).
* `BirthdayDetectionProofs`: `SequenceInvariant`, `UniqueReferences`, the refinement
  `RegisterIsKept` (`ImplementsRegister`), `ScansOverwriteNothing` (`ScansKeepOrders`),
  `ScansNeverGoBack`.
* `BirthdayCalendarProofs`: `CalendarInvariant`, `DatesAreNext` (`OccurrencesAreNext`),
  `OneCakeAYear` (`OneCakeABirthday`), `ListingIsRight` (`DirectoryShowsItsOrder`),
  `CatchesUp` (`NobodyIsMissed`), `SupplyIsDetermined` (`SupplyInv`), `DeactivatedAreOut`
  (`DeactivatedStayOut`), `RowsStayUpToDate`.
* `RecruitmentSyncProofs`: `SyncInvariant`, and from it `AppliedOnce`,
  `SuccessMeansComplete` and `SettledStaysSettled`.
* `TalentFlowProofs`: `TalentInvariant`, and from it `StaffDecisionsStand` (`MappingInv`),
  `RejectedStaysRejected` (`RejectedStaysOut`), `RequestsAreForVerified`
  (`RequestsAreVerified`), `ShownOnlyByStaff` (`ShownByStaff`), `LostTagStaysLost`.
* `MagicLinkProofs`: `LinkInvariant`, and from it `NoLinkIsIndefinite`,
  `RevocationCutsOff`, `RevocationIsForGood`, `ExpiryNeverMovesBack`
  (`ExpiryMovesForward`); `UsesCountRedemptions` (`UsesAreRedemptions`), `LimiterIsFair`
  (`LimiterHolds`).
* `PlatformAccountsProofs`: `AccountsInvariant`, and from it `SomebodyAdministers`
  (`LockoutNeedsCrossing`), `NobodyAdmitsThemselves` (`AdmissionByAdministrators`) and
  `ChangesAreAsked` (`AccessChangesOnRequest`).
* `PlatformAccessProofs`: `PlatformInvariant`, and from it `TablesKeepTheirShape`
  (`AccessInv`), `AccountsStaySafe`, `AccountsChangeOnRequest`, `UntornReadingsAreRight`
  (`UntornClaimsAreEntitled`), `PagesAreRight` (`PagesExplainAccess`),
  `SessionsGiveWhatIsGranted` (`SessionsAreEntitled`), `LostAccessStaysLost`.

So every invariant and action property of a passing run is a theorem, both refinements
among them; of each liveness property the safety half is one.

### Assumptions

They are those the modules name.  Markers are distinct from what they stand beside:
NoSupplier is no supplier, no client is called "none" or "rejected"
(`ClientAssumption`), scans and administrators are different sessions, "default" is a
quantity.  What is configured is well formed: a portfolio is a set of clients, expiries
are positive and in order, the seed creates an active super admin
and claims name clients (`ClaimsAssumption`), numbers name clients of talent-api (`NumberAssumption`), the limits
and the window are positive.
A year has at least two positions of which one, not the last, is the leap day, and the
clock starts and stops on days before the last year, so that the year after today is in
the calendar (`CalendarAssumption`, `DayAssumption`).  Addresses are finitely many
(`SourceAssumption`), since their counts are added up.  Bounds are naturals: a theorem
holds whatever they are, and so of the system without them.

Some theorems say more in their statement.  The serial ones assume `OneAtATime` (two
requests are the same request), which is what `order_serial` has and what
`cancel_race` shows to be needed.  `StagesLeaveTimestamps` is about
`Init /\ [][UpdatesSurvive]_vars` and `DeliveriesAreAttended` about
`Init /\ [][PortalUpdatesEnd]_vars`: requests may die anywhere but inside the portal's
update, up to the stamp for the one and to the closing for the other, with no fairness.
`StruckSpec` of the run implies both.

### The arguments

*The order.* `HeldIsOnRecord` is not inductive: a request commits a
status it derived from a copy, so a copy that says CONFIRMED may put an order into
the supplier's hands that no longer is.  `RequestsRestOnRecord` says what a copy may
claim: if it shows a status a supplier holds, the mail was on record when it was
read; if the request is about to close a delivery, `delivered_at` is set; its
retry count is at most the recorded failures.  No commit takes a record or a
timestamp back while the row exists (stamps are only added, communications only
deleted with the row, and then no commit succeeds), so other requests cannot
falsify it.  `OrderInv` is that together with the type invariant and the three
properties.  The proof has one lemma per kind of step.

*Mails and timestamps.* `MailInv` adds to `SentIsMailed` that finitely many requests
have a mail not yet on record, without which the number of them means nothing when
infinitely many requests are allowed.  Only two steps touch the count: a mail
received (one more on both sides) and a record written (the request leaves the set as
the record grows); `OtherMailStep` covers all others.  `StampInv` says of *every copy*
what `FulfilmentIsStamped` says of the row, since a stale copy puts the order back to
its own status: the stages it had passed then are stamped, and stamps stay.

*One request at a time.* `Knows` says what the copy is good for between two commits of
the same handler: at a decision it is the row itself, elsewhere its status is the
row's; a request that calls the mail client was sendable, and standard unless a person
asked.  `Lawful` sorts the steps into four: the status stays, moves along the table,
a recorded mail sends it, or a row that waits for verification is deleted.
The three theorems follow from `Lawful`, the refinement by finding for each of the
four the step of `OrderContract` it is.

*The counter.* `ReferencesAreUnique` needs to know that the number a
session commits is the current one.  `HolderHasTheNumber` says so: a session
between number and commit holds the row, its number is the next one, and if it
found no order there is still none, since whoever creates one must hold the row.
`HolderIsAtWork` says the row is never left locked.  From this `ScanLeavesOrders`
shows, step by step, that a scan writes only where there is no order.  For the
refinement the numbers given out are those below the counter: a commit gives out the
next one, and creates the order, overrides it (a manual creation that lost) or spends
the number on nothing; a deletion takes no number back; looking, locking, retrying,
failing and dying leave the register as it is.

*The calendar.* `CalendarInv` joins four parts.  `DefaultsAreSingle` says that, unless two
requests that set a default overlapped, one that is about to commit read *all* other
defaults, so it clears them; `RequestTrue` that no other request makes one.  `PortalInv`
ties tokens to users.  `OrdersTrue` puts each order on its employee's occurrence in its
year, `ScanTrue` says that a scan still works with the birthdays the directory
has, `PromisesKept` is `NobodyIsMissed` for every day already looked at.  The lemmas on
`StartOf`, `YearOf` and `DayIn` say that years tile the days, from which the
first celebrated day and the year between two orders follow for every calendar.

*The sync.* `EventsAreExclusive` makes an open event's record empty, so
that the step that applies it is the one that records it.  `CandidaciesAreKept`
ties a session's copy to the table: no step removes a candidacy, so what was
loaded is there, and a commit leaves one for each opportunity that was listed,
which no rival can take back before SUCCEEDED is recorded; `TasksOwnTheirRuns`
says that the record is still the task's own.

*The talent flow.* No property is inductive, because reconciliations and requests
commit copies of any age.  `Rests` says what a copy may still claim: the row it came
from exists, and the copy differs from what was loaded only as the operation asks (a
decision verifies or rejects, a stage change neither approves nor brings back
what was rejected).  `RowsHang` says which row needs which other.  `Promotes` and
`RowsHeld` are for the time between a promotion and its commit: no two reconciliations
hold a posting, so a fetched one that is promoted stays verified as it is flushed
(`HeldStays`), whatever staff do meanwhile; of one that was not fetched nothing is held,
and the property excuses it if its row has changed (`Overtaken`).  A commit then
either writes from a copy that is still current, and the property is that of the
handler, or from an outdated one, and the history variable excuses that posting.

*The links.* That a revoked link stays revoked and that no link is without
end are not inductive, because a commit writes columns of a copy that may be
older than the link.  `CopiesKeepTrue` says what any copy may claim, however old: its
link exists, has the copy's client, and is revoked if the copy is; the expiry asked
for is within the limit of the time it was asked at, and time only grows.  Then the
lemmas on `Written` (what an UPDATE from such a copy lands as, and what it keeps)
carry over to every commit: an extension, loaded before a revocation, changes only
the expiry.  `VisitsPrecedeRevocation` needs the link's state at admission, which is
the link's own, and the time of the commit that revoked it: `cut` is set exactly when
the link is revoked, by the first such commit, and admission read the link before that.  `CountInv` bounds the uses in every copy by the redemptions so far.

*The limiter.* `LimiterHolds` adds passed attempts over ticks and addresses.  The proof
first shows what such a sum obeys (`Total...`): it unfolds, in any order, is monotone,
and is subadditive over sets of ticks.  `Measure` is the part of it the limiter needs,
so that one proof serves one address and all together.  `Windowed` relates the sum to
a fixed window, by the reading that opened it, which may be older than now.  `Average`:
each window opens at least `Window` later, *by these readings*, than the one before, so
in the time of n windows n limits pass at most, however long calls wait.  `Burst`: among
the attempts after some tick `y`, if no late call opened a window since, the call that
opened the present window is missing unless it opened after `y`, and then those of the
window before lack the call that opened that one.  That call counts even if another
limit rejected it, so a stretch that begins inside a window has *strictly* fewer than its
limit of it, and less than twice the limit in all (`OpenStretch`).  `OpensWindow`,
`FillsWindow`, `BumpKeeps` and `TickKeeps` carry `Windowed` through `Bump` and time,
`LateElsewhere` through the other addresses' late calls, `AttemptKeeps` puts them
together.  With late calls in the stretch the second bound is false: TLC finds exactly
twice the limit, from a call that opened its window a tick after it had read the clock.

*The accounts.* That a super admin is left is not inductive: two pending
edits may have counted on each other's target.  `CountsHold` says that, unless two
requests crossed, every pending edit that takes a super admin out has counted some
others and all of them are still in office.  A commit that puts somebody out of
office either crosses (somebody counts on the target, or the target became a super
admin after it was loaded), or leaves those it counted itself.  `KeepsTrue` says what
any request may claim however old its copy is: the account exists unless a sign-in is
about to create it, an edit that touches an administrator role was asked for by a super
admin, whoever a sign-in lets in was admitted before.  One lemma (`DeskStep`) covers
the steps that only load, one (`AccountStep`) those that write an account; `EditedRow`
and `SignInRow` say what the two kinds of commit leave of the row, and
`ChangesAreAsked` follows from them.  `StepsAreAsked` is its step, which
`AccountsChangeOnRequest` carries to the whole platform.

*The platform.* `PlatformInv` puts two parts on top of the accounts.  `AssignmentsInv`:
a change under way found no row, or one that is its holder's until it is gone for
good (`ChangeTrue`); two rows for one holder and role appear only when two inserts
did not see each other, which is what `doubled` marks.  `ReadingTrue`: a reading no
commit tore has, after each of its queries, what that query would give now.  Steps
that write an assignment, a group or a member tear the readings they touch, so the
claims of an untorn one are the entitlement.  `SessionsGiveWhatIsGranted` takes this
through the token to the clients talent-api opens.  Of a torn reading it says that the
permissions, read by the step that issues the token, are those of that moment; the
clients it opens may be any.

*Instead of induction.* What a recursive definition computes is proved where it is
needed by a least counterexample: among numbers (`LeastNumber`, for `StartOf`) and
among finite sets (`SmallestSet`, for the sums of the limiter), both from `WFMin` and
the library's well-founded orders.

*What proving changed.* Four places of the models did not hold up: a `crossed` mark that
`RejectedStaysOut` needs when a review commits from an outdated copy; the precedence of
`SUBSET` in the type of a claim; the promise a scan makes, which with a lookahead of
more than a year (the code sets no limit) went beyond the one occurrence it looks at
and now ends there (`Horizon`); and an id for new assignments that depended on how many
rows there had been.  `DayAssumption` made guards in two properties
of the calendar unnecessary, which are gone.

*What lasts.* A liveness property says that a good state comes; its safety half, which
needs no fairness, says that nothing undoes it, or that what brings it about is never
lost.  `DeliveriesAreAttended` (of `DeliveredCompletes`): a DELIVERED order always has a
request past that status and before `auto_complete`, since whoever commits DELIVERED,
even from an old copy, still has its own closing ahead.  `ScansNeverGoBack` (of
`ScansEnd`): each step of a scan leaves fewer employees, or is further with the one in
hand.  `RowsStayUpToDate` (of `DirectoryCatchesUp`) and `SettledStaysSettled` (of
`Reconciles`): once a row is the source's, it stays so while the source rests, *and* no
run holds an older list and no older event is open; TLC finds each false without the
second clause, which is what a slow run or a late webhook can do.  `LostAccessStaysLost`
(of `RevocationTakesEffect`): who has nothing that entitles, no session that claims the
module and no reading under way whose first query saw a role (`Excluded`), or was
deactivated with no session and no older sign-in left (`LockedOut`), has no access until
an administrator acts.  The clause on readings is needed: one that saw a role before
its removal still issues a session afterwards, for all clients; that there is no
further one, and that it expires, is the liveness half.  `LostTagStaysLost`
(of `TagLossTakesEffect`): a tag that is gone from the posting and from every
reconciliation under way does not return, except on a row in `outdated`.  That exception
is real: with three workers TLC finds a staff decision, committed from a copy that a
reconciliation outdated, whose UPDATE writes only the columns it changed, so that the
row mixes the two writers and is "tagged" for a client no tag names.

*Only model-checked* is liveness itself, which the prover cannot state:
`DeliveredCompletes`, `ScansEnd`, `DirectoryCatchesUp`, `Reconciles`,
`RevocationTakesEffect`, `TagLossTakesEffect`.  So are the two violations, which are
counterexamples.

## 6. Plan

The modules planned are written, and the runs' invariants and action properties are
theorems, as are the safety halves of their liveness properties.  What is left:

1. That a scan, a portal update and a reconciliation always have a next step is in the
   liveness runs; to prove it would take reasoning about ENABLED.
2. Orders keep the supplier and the cake they were resolved to; `BirthdayCalendar` has
   no edit of an order, `BirthdayOrder` no catalogue.  A module that composes the two
   would say what an administrator's edit of a cake does to an order already out.
3. The configuration row of detection, which two first requests may both insert.

### Not modelled

Wording and layout of mails, the dashboards' counts, the front ends, admin-api's
forwarding and the skeleton services: they keep no state that a property could be
about.  Candidate records, documents, messages, special requirements, issues, audit
events and notifications are rows that are only appended and that no guard reads.
The registry of clients and the seed scripts run once or insert one row.
`scripts/backfill_order_references.py` rewrites references by hand and is not part of
the running system.  Lever, BambooHR, Graph and Entra are environment: what they may
answer is an action each.
