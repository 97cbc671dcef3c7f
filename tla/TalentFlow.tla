---------------------------- MODULE TalentFlow ----------------------------
(***************************************************************************)
(* DijiTalentFlow (talent-api): which client sees what of a recruitment    *)
(* posting.  Reconciliation takes the postings of recruitment-api, decides *)
(* from their DTC tag whose posting each is, and promotes the verified     *)
(* ones into talent requests and applications; staff verify and unmap      *)
(* postings, review and advance requests, and curate what the client sees. *)
(*                                                                         *)
(* A request loads its rows in one step and commits in a later one; its    *)
(* UPDATE writes only the columns it changed in its own copy.  The first   *)
(* row a reconciliation touches is updated at once and stays locked until  *)
(* it commits, so that reconciliations of the same postings load and       *)
(* commit one at a time, each with the facts it fetched before.            *)
(***************************************************************************)
EXTENDS Naturals, FiniteSets, Sequences

CONSTANTS
  Postings,
  Clients,
  NoClient,
  People,         \* the candidates
  Candidacies,    \* Lever's opportunities
  PersonOf, PostingOf,  \* whose they are, and for which posting
  Workers,        \* requests handled at the same time
  TagChoices,     \* the tags of a posting that occur
  StageChoices,   \* the stages that occur
  DecisionChoices,  \* the review decisions that occur
  MaxChanges,     \* bound: changes in Lever
  MaxRequests     \* bound: requests of staff

\* CANONICAL_STAGE_ORDER, each stage with its rank.
Rank ==
  [REQUEST_SUBMITTED |-> 0, REQUIREMENT_CONFIRMED |-> 1, SOURCING |-> 2, SCREENING |-> 3,
   CLIENT_REVIEW |-> 4, INTERVIEWS |-> 5, OFFER |-> 6, ONBOARDING |-> 7, DEPLOYED |-> 8]

Stages == DOMAIN Rank

Decisions == {"APPROVED", "REJECTED", "CLARIFICATION_REQUIRED"}

\* The tags TA enters in Lever: "DTC - <Client Name>", with a name no client
\* has, without any name, and tags that are not DTC tags.
TagTexts == Clients \cup {"DTC - Nobody", "DTC", "urgent"}

\* What the tags of a posting come to: a client or nothing of use.
Tags == Clients \cup {"NO_TAG", "MALFORMED", "MULTIPLE", "UNKNOWN"}

\* parse_dtc: exactly one well-formed DTC tag names a client.
Parsed(tags) ==
  LET dtc == {i \in DOMAIN tags : tags[i] # "urgent"}
      one == tags[CHOOSE i \in dtc : TRUE]
  IN  IF dtc = {} THEN "NO_TAG"
      ELSE IF \E i, j \in dtc : i # j THEN "MULTIPLE"
      ELSE IF one = "DTC" THEN "MALFORMED" ELSE one

\* find_by_name, exact: a name that is no client's is of no use.
Named(name) == IF name = "DTC - Nobody" THEN "UNKNOWN" ELSE name

ASSUME ClientAssumption == {NoClient, "none", "rejected"} \cap Clients = {}

ASSUME CandidacyAssumption ==
  PersonOf \in [Candidacies -> People] /\ PostingOf \in [Candidacies -> Postings]

ASSUME ChoiceAssumption ==
  TagChoices \subseteq Seq(TagTexts) /\ StageChoices \subseteq Stages /\ DecisionChoices \subseteq Decisions

ASSUME BoundAssumption == MaxChanges \in Nat /\ MaxRequests \in Nat

VARIABLES
  fact,         \* the postings of recruitment-api
  candidacy,    \* its candidacies
  ref,          \* the local projection of a posting: is it archived?
  mapping,      \* the posting_client_mappings table
  request,      \* the talent_requests table, one row per posting
  application,  \* the applications table
  interview,    \* the interviews table
  desk,         \* the request each worker handles
  changes, requests,  \* counted against the bounds
  decision,     \* what staff last decided about a posting
  outdated,     \* postings whose mapping was written from an outdated copy
  crossed       \* postings whose request was, and that were not reviewed anew

source == <<fact, candidacy, changes>>
records == <<ref, mapping, request, application, interview>>
vars == <<source, records, desk, requests, decision, outdated, crossed>>

Posting == [tags : TagChoices, archived : BOOLEAN]

\* A posting as recruitment-api reports it.
Fact == [tag : Tags, archived : BOOLEAN]

None == [none |-> TRUE]  \* no such row

Mapping ==
  [status : {"UNMAPPED", "VERIFIED", "REJECTED"}, client : Clients \cup {NoClient},
   source : {"", "MANUAL", "LEVER_DTC_TAG"}]

NewMapping == [status |-> "UNMAPPED", client |-> NoClient, source |-> ""]

Workflow ==
  [client : Clients, stage : Stages,
   lifecycle : {"PENDING_REVIEW", "APPROVED", "IN_PROGRESS", "FULFILLED", "REJECTED"},
   cs : Decisions \cup {"PENDING_REVIEW"},
   ta : {"NOT_STARTED", "VALIDATING", "ATS_LINKED", "IN_PROGRESS", "ON_HOLD", "COMPLETED"}]

\* An application as its client sees it: Lever's stage, and whether at all.
Application == [stage : Stages, visible : BOOLEAN]

Interview ==
  [status : {"SCHEDULED", "COMPLETED", "CANCELLED", "RESCHEDULED", "NO_SHOW"}, visible : BOOLEAN]

Idle == [op |-> "idle"]

\* A reconciliation: the postings it fetched, the mappings it loaded of them,
\* and what it promotes.
Reconciliation ==
  [op : {"fetched"}, facts : [Postings -> Fact \cup {None}]]
    \cup [op : {"loaded"}, facts : [Postings -> Fact \cup {None}],
          rows : [Postings -> Mapping \cup {None}]]
    \cup [op : {"promoting"}, facts : [Postings -> Fact \cup {None}],
          rows : [Postings -> Mapping \cup {None}], new : [Postings -> Mapping \cup {None}],
          stages : [Postings \X People -> SUBSET Stages]]

\* A request of staff: the row it loaded and its copy of it.
StaffRequest ==
  [op : {"verify", "unmap", "reopen"}, on : Postings, loaded : Mapping, copy : Mapping]
    \cup [op : {"review", "workflow"}, on : Postings, loaded : Workflow, copy : Workflow]
    \cup [op : {"curate"}, on : Postings, of : People, to : BOOLEAN]

TypeOK ==
  /\ fact \in [Postings -> Posting \cup {None}]
  /\ candidacy \in [Candidacies -> Stages \cup {"none"}]
  /\ ref \in [Postings -> {"none", "open", "archived"}]
  /\ mapping \in [Postings -> Mapping \cup {None}]
  /\ request \in [Postings -> Workflow \cup {None}]
  /\ application \in [Postings \X People -> Application \cup {None}]
  /\ interview \in [Postings \X People -> Interview \cup {None}]
  /\ desk \in [Workers -> StaffRequest \cup Reconciliation \cup {Idle}]
  /\ changes \in Nat /\ requests \in Nat
  /\ decision \in [Postings -> Clients \cup {"none", "rejected"}]
  /\ outdated \subseteq Postings /\ crossed \subseteq Postings

\* The row after an UPDATE of the columns changed in the request's copy.
Written(row, loaded, copy) ==
  [c \in DOMAIN row |-> IF copy[c] # loaded[c] THEN copy[c] ELSE row[c]]

Take(w, r) == desk' = [desk EXCEPT ![w] = r]

Leave(w) == desk' = [desk EXCEPT ![w] = Idle]

-----------------------------------------------------------------------------
\* Lever, as recruitment-api reports it

ChangePosting(p, tags, archived) ==
  /\ changes < MaxChanges
  /\ fact' = [fact EXCEPT ![p] = [tags |-> tags, archived |-> archived]]
  /\ fact' # fact
  /\ changes' = changes + 1
  /\ UNCHANGED <<candidacy, records, desk, requests, decision, outdated, crossed>>

ChangeCandidacy(o, stage) ==
  /\ changes < MaxChanges
  /\ candidacy' = [candidacy EXCEPT ![o] = stage]
  /\ candidacy' # candidacy
  /\ changes' = changes + 1
  /\ UNCHANGED <<fact, records, desk, requests, decision, outdated, crossed>>

-----------------------------------------------------------------------------
\* Reconciliation

\* Whom the tags of p name.
Tag(p) == Named(Parsed(fact[p].tags))

\* _to_out: what recruitment-api answers of a posting.
Reported(p) == IF fact[p] = None THEN None ELSE [tag |-> Tag(p), archived |-> fact[p].archived]

\* refresh_projection_and_reconcile asks for the postings; when
\* recruitment-api is down, it does nothing.
Fetch(w) ==
  /\ desk[w] = Idle
  /\ Take(w, [op |-> "fetched", facts |-> [p \in Postings |-> Reported(p)]])
  /\ UNCHANGED <<source, records, requests, decision, outdated, crossed>>

\* The postings a reconciliation fetched.
Listed(d) == {p \in Postings : d.facts[p] # None}

\* upsert_ref and get_or_create, posting by posting, while no other
\* reconciliation holds one of the rows.
LoadMappings(w) ==
  LET d == desk[w]
  IN  /\ d.op = "fetched"
      /\ \A v \in Workers :
           desk[v].op \in {"loaded", "promoting"} => Listed(desk[v]) \cap Listed(d) = {}
      /\ Take(w, [op |-> "loaded", facts |-> d.facts,
                  rows |-> [p \in Postings |->
                    IF p \notin Listed(d) THEN None
                    ELSE IF mapping[p] = None THEN NewMapping ELSE mapping[p]]])
      /\ UNCHANGED <<source, records, requests, decision, outdated, crossed>>

Rejected(m) == m.status = "REJECTED"
Manual(m) == m.status = "VERIFIED" /\ m.source = "MANUAL"
Tagged(m) == m.status = "VERIFIED" /\ m.source = "LEVER_DTC_TAG"

ForTag(c) == [status |-> "VERIFIED", client |-> c, source |-> "LEVER_DTC_TAG"]

\* Mutant: the tag decides whatever staff decided.
TagDecides(m, tag) == IF tag \in Clients THEN ForTag(tag) ELSE m

\* Mutant: a tag that is gone leaves the mapping alone.
TagOnlyVerifies(m, tag) ==
  IF Rejected(m) \/ Manual(m) \/ tag \notin Clients THEN m ELSE ForTag(tag)

\* _reconcile_one: a rejection and a manual verification stand, a tag that
\* names a client verifies the posting for it, any other reverts what a tag
\* verified, and an unknown name unmaps whatever else there was.
Reconciled(m, tag) ==
  CASE Rejected(m) \/ Manual(m) -> m
    [] ~Rejected(m) /\ ~Manual(m) /\ tag \in Clients -> ForTag(tag)
    [] Tagged(m) /\ tag \notin Clients -> NewMapping
    [] OTHER -> IF tag = "UNKNOWN" THEN [m EXCEPT !.status = "UNMAPPED", !.client = NoClient] ELSE m

\* The request's own copy of the mapping of p.
Own(d, p) == Reconciled(d.rows[p], d.facts[p].tag)

\* Its row in the database once the copy is flushed.
Flushed(d, p) ==
  IF mapping[p] = None THEN Own(d, p) ELSE Written(mapping[p], d.rows[p], Own(d, p))

\* The mapping of p as the session of the reconciliation sees it.
Copy(d, p) == IF p \in Listed(d) THEN Own(d, p) ELSE mapping[p]

\* list_verified: the database selects, fetched or not, and of what is fetched
\* the session's copies are returned; a posting without a projection is skipped.
Verified(d) ==
  {p \in Postings :
     LET row == IF p \in Listed(d) THEN Flushed(d, p) ELSE mapping[p]
     IN  /\ p \in Listed(d) \/ ref[p] # "none"
         /\ row # None
         /\ row.status = "VERIFIED" /\ row.client # NoClient}

\* Mutant: promotion goes by the mappings from before their reconciliation.
PromotedForLoaded(d, p) == IF p \in Listed(d) THEN d.rows[p].client ELSE d.new[p].client

\* The client a new talent request is for.
PromotedFor(d, p) == d.new[p].client

Archived(d, p) == IF p \in Listed(d) THEN d.facts[p].archived ELSE ref[p] = "archived"

\* An archived posting keeps its talent request and never gets a new one.
Promoted(d) == {p \in Verified(d) : request[p] # None \/ ~Archived(d, p)}

\* create_from_posting.
Sourced(c) ==
  [client |-> c, stage |-> "SOURCING", lifecycle |-> "IN_PROGRESS", cs |-> "APPROVED",
   ta |-> "ATS_LINKED"]

\* _pick_candidacy: the most advanced of a person's candidacies for a posting.
Picked(p, k) ==
  LET live == {o \in Candidacies : PostingOf[o] = p /\ PersonOf[o] = k /\ candidacy[o] # "none"}
  IN  {candidacy[o] : o \in {x \in live : \A y \in live : Rank[candidacy[x]] >= Rank[candidacy[y]]}}

\* Mutant: a promoted candidate is shown to the client at once.
PromotedVisible(a, stages) ==
  IF stages = {} THEN a
  ELSE [stage |-> CHOOSE s \in stages : TRUE, visible |-> a = None \/ a.visible]

\* _reconcile_application: Lever's stage, and an unseen application at first.
Refreshed(a, stages) ==
  IF stages = {} THEN a
  ELSE [stage |-> CHOOSE s \in stages : TRUE, visible |-> a # None /\ a.visible]

\* The mappings are flushed, recruitment-api is asked for the candidacies, and
\* what is verified then is promoted: new holds the copies talent requests are
\* inserted for, stages what applications come to.  The rows fetched stay
\* locked, the others do not.  A talent request without a client violates NOT
\* NULL and undoes everything: staff verified the posting after the
\* reconciliation had loaded it.
Promote(w, answered) ==
  LET d == desk[w]
      new == [p \in Postings |->
                IF p \in Promoted(d) /\ request[p] = None THEN Copy(d, p) ELSE None]
      stages == [a \in Postings \X People |->
                   IF answered /\ a[1] \in Promoted(d) THEN Picked(a[1], a[2]) ELSE {}]
  IN  /\ d.op = "loaded"
      /\ IF \E p \in Postings : new[p] # None /\ new[p].client = NoClient
         THEN Leave(w)
         ELSE Take(w, [op |-> "promoting", facts |-> d.facts, rows |-> d.rows,
                       new |-> new, stages |-> stages])
      /\ UNCHANGED <<source, records, requests, decision, outdated, crossed>>

\* A reconciliation holds the mapping of p.
Locked(p) == \E w \in Workers : desk[w].op = "promoting" /\ p \in Listed(desk[w])

\* The applications are refreshed and everything is committed, unless another
\* reconciliation committed a talent request for the same posting before.
CommitReconciliation(w) ==
  LET d == desk[w]
      new == {p \in Postings : d.new[p] # None}
  IN  /\ d.op = "promoting"
      /\ IF \E p \in new : request[p] # None THEN UNCHANGED <<records, outdated>>
         ELSE /\ ref' = [p \in Postings |->
                   IF p \notin Listed(d) THEN ref[p]
                   ELSE IF d.facts[p].archived THEN "archived" ELSE "open"]
              /\ mapping' = [p \in Postings |->
                   IF p \in Listed(d) THEN Flushed(d, p) ELSE mapping[p]]
              /\ request' = [p \in Postings |->
                   IF p \in new THEN Sourced(PromotedFor(d, p)) ELSE request[p]]
              /\ application' = [a \in Postings \X People |->
                   Refreshed(application[a], d.stages[a])]
              /\ outdated' = outdated \cup
                   {p \in Listed(d) : mapping[p] # None /\ mapping[p] # d.rows[p]}
              /\ UNCHANGED interview
      /\ Leave(w)
      /\ UNCHANGED <<source, requests, decision, crossed>>

-----------------------------------------------------------------------------
\* Staff decide about a posting

Decide(w, p, op, copy) ==
  /\ desk[w] = Idle
  /\ requests < MaxRequests
  /\ ref[p] # "none"
  /\ Take(w, [op |-> op, on |-> p, loaded |-> mapping[p], copy |-> copy])
  /\ requests' = requests + 1
  /\ UNCHANGED <<source, records, decision, outdated, crossed>>

\* verify_posting_mapping, any client whatever the portfolio.
Verify(w, p, c) ==
  Decide(w, p, "verify", [status |-> "VERIFIED", client |-> c, source |-> "MANUAL"])

\* unmap_posting_mapping: the one decision that no tag undoes.
Unmap(w, p) ==
  Decide(w, p, "unmap", [status |-> "REJECTED", client |-> NoClient, source |-> "MANUAL"])

\* reopen_posting_mapping, from any state.
Reopen(w, p) == Decide(w, p, "reopen", NewMapping)

CommitDecision(w) ==
  LET d == desk[w] p == desk[w].on
  IN  /\ d.op \in {"verify", "unmap", "reopen"}
      /\ ~Locked(p)
      /\ mapping' = [mapping EXCEPT ![p] = Written(@, d.loaded, d.copy)]
      /\ decision' = [decision EXCEPT ![p] =
           CASE d.op = "verify" -> d.copy.client
             [] d.op = "unmap"  -> "rejected"
             [] d.op = "reopen" -> "none"]
      /\ outdated' = IF mapping[p] = d.loaded THEN outdated \ {p} ELSE outdated \cup {p}
      /\ Leave(w)
      /\ UNCHANGED <<source, ref, request, application, interview, requests, crossed>>

-----------------------------------------------------------------------------
\* Staff move a talent request

Move(w, p, op, copy) ==
  /\ desk[w] = Idle
  /\ requests < MaxRequests
  /\ request[p] # None
  /\ Take(w, [op |-> op, on |-> p, loaded |-> request[p], copy |-> copy])
  /\ requests' = requests + 1
  /\ UNCHANGED <<source, records, decision, outdated, crossed>>

\* review_request: no state is refused.
Reviewed(r, verdict) ==
  CASE verdict = "APPROVED" ->
         [r EXCEPT !.cs = verdict, !.lifecycle = "APPROVED", !.stage = "REQUIREMENT_CONFIRMED",
                   !.ta = "VALIDATING"]
    [] verdict = "REJECTED" -> [r EXCEPT !.cs = verdict, !.lifecycle = "REJECTED"]
    [] verdict = "CLARIFICATION_REQUIRED" -> [r EXCEPT !.cs = verdict]

\* Mutant: any stage puts the request in progress.
StagedAlways(r, stage) ==
  IF stage = "DEPLOYED"
  THEN [r EXCEPT !.stage = stage, !.lifecycle = "FULFILLED", !.ta = "COMPLETED"]
  ELSE [r EXCEPT !.stage = stage, !.lifecycle = "IN_PROGRESS", !.ta = "IN_PROGRESS"]

\* update_stage: only an approved request goes in progress.
Staged(r, stage) ==
  IF stage = "DEPLOYED"
  THEN [r EXCEPT !.stage = stage, !.lifecycle = "FULFILLED", !.ta = "COMPLETED"]
  ELSE IF r.lifecycle = "APPROVED"
  THEN [r EXCEPT !.stage = stage, !.lifecycle = "IN_PROGRESS", !.ta = "IN_PROGRESS"]
  ELSE [r EXCEPT !.stage = stage]

Review(w, p, verdict) == request[p] # None /\ Move(w, p, "review", Reviewed(request[p], verdict))

UpdateStage(w, p, stage) == request[p] # None /\ Move(w, p, "workflow", Staged(request[p], stage))

\* update_ta_status: only ON_HOLD is not reached otherwise.
UpdateTaStatus(w, p) == request[p] # None /\ Move(w, p, "workflow", [request[p] EXCEPT !.ta = "ON_HOLD"])

CommitMove(w) ==
  LET d == desk[w] p == desk[w].on
  IN  /\ d.op \in {"review", "workflow"}
      /\ request' = [request EXCEPT ![p] = Written(@, d.loaded, d.copy)]
      /\ crossed' = IF request[p] # d.loaded THEN crossed \cup {p}
                    ELSE IF d.op = "review" THEN crossed \ {p} ELSE crossed
      /\ Leave(w)
      /\ UNCHANGED <<source, ref, mapping, application, interview, requests, decision, outdated>>

-----------------------------------------------------------------------------
\* Staff curate what the client sees

\* update_visibility, until its commit.
Curate(w, p, k, to) ==
  /\ desk[w] = Idle
  /\ requests < MaxRequests
  /\ application[<<p, k>>] # None
  /\ Take(w, [op |-> "curate", on |-> p, of |-> k, to |-> to])
  /\ requests' = requests + 1
  /\ UNCHANGED <<source, records, decision, outdated, crossed>>

CommitCurate(w) ==
  LET d == desk[w]
  IN  /\ d.op = "curate"
      /\ application' = [application EXCEPT ![<<d.on, d.of>>].visible = d.to]
      /\ Leave(w)
      /\ UNCHANGED <<source, ref, mapping, request, interview, requests, decision, outdated, crossed>>

\* create_application: once per person and request, unseen by the client.
Apply(p, k, stage) ==
  /\ requests < MaxRequests
  /\ request[p] # None
  /\ application[<<p, k>>] = None
  /\ application' = [application EXCEPT ![<<p, k>>] = [stage |-> stage, visible |-> FALSE]]
  /\ requests' = requests + 1
  /\ UNCHANGED <<source, ref, mapping, request, interview, desk, decision, outdated, crossed>>

\* create_interview; the latest of an application stands for all.
Schedule(p, k, visible) ==
  /\ requests < MaxRequests
  /\ application[<<p, k>>] # None
  /\ interview' = [interview EXCEPT ![<<p, k>>] = [status |-> "SCHEDULED", visible |-> visible]]
  /\ requests' = requests + 1
  /\ UNCHANGED <<source, ref, mapping, request, application, desk, decision, outdated, crossed>>

\* update_status of an interview: any status after any other.
SetInterview(p, k, status) ==
  /\ requests < MaxRequests
  /\ interview[<<p, k>>] # None
  /\ interview' = [interview EXCEPT ![<<p, k>>].status = status]
  /\ requests' = requests + 1
  /\ UNCHANGED <<source, ref, mapping, request, application, desk, decision, outdated, crossed>>

-----------------------------------------------------------------------------

\* The request, or the process, dies before its commit.
Abort(w) ==
  /\ desk[w] # Idle
  /\ Leave(w)
  /\ UNCHANGED <<source, records, requests, decision, outdated, crossed>>

Init ==
  /\ fact = [p \in Postings |-> None]
  /\ candidacy = [o \in Candidacies |-> "none"]
  /\ ref = [p \in Postings |-> "none"]
  /\ mapping = [p \in Postings |-> None]
  /\ request = [p \in Postings |-> None]
  /\ application = [a \in Postings \X People |-> None]
  /\ interview = [a \in Postings \X People |-> None]
  /\ desk = [w \in Workers |-> Idle]
  /\ changes = 0
  /\ requests = 0
  /\ decision = [p \in Postings |-> "none"]
  /\ outdated = {}
  /\ crossed = {}

Lever ==
  \/ \E p \in Postings, tags \in TagChoices, archived \in BOOLEAN : ChangePosting(p, tags, archived)
  \/ \E o \in Candidacies, stage \in StageChoices : ChangeCandidacy(o, stage)

Reconcile(w) ==
  \/ Fetch(w)
  \/ LoadMappings(w)
  \/ \E answered \in BOOLEAN : Promote(w, answered)
  \/ CommitReconciliation(w)

DecidePosting(w) ==
  \/ \E p \in Postings : (\E c \in Clients : Verify(w, p, c)) \/ Unmap(w, p) \/ Reopen(w, p)
  \/ CommitDecision(w)

MoveRequest(w) ==
  \/ \E p \in Postings :
       \/ \E verdict \in DecisionChoices : Review(w, p, verdict)
       \/ \E stage \in StageChoices : UpdateStage(w, p, stage)
       \/ UpdateTaStatus(w, p)
  \/ CommitMove(w)

CurateView ==
  \/ \E w \in Workers :
       \/ \E p \in Postings, k \in People, to \in BOOLEAN : Curate(w, p, k, to)
       \/ CommitCurate(w)
  \/ \E p \in Postings, k \in People :
       \/ \E stage \in StageChoices : Apply(p, k, stage)
       \/ \E visible \in BOOLEAN : Schedule(p, k, visible)
       \/ \E status \in {"COMPLETED", "CANCELLED"} : SetInterview(p, k, status)

Next ==
  \/ Lever
  \/ \E w \in Workers : Reconcile(w) \/ DecidePosting(w) \/ MoveRequest(w) \/ Abort(w)
  \/ CurateView

Spec == Init /\ [][Next]_vars

\* A request of staff commits or dies.  talent-reconcile-job runs every few
\* hours: some reconciliation keeps being started, and neither an outage nor
\* a crash hits all of them.
Fairness ==
  /\ WF_vars(\E w \in Workers : CommitDecision(w) \/ CommitMove(w) \/ CommitCurate(w))
  /\ WF_vars(\E w \in Workers : Fetch(w))
  /\ SF_vars(\E w \in Workers : LoadMappings(w))
  /\ SF_vars(\E w \in Workers : Promote(w, TRUE))
  /\ SF_vars(\E w \in Workers : CommitReconciliation(w))

FairSpec == Spec /\ Fairness

-----------------------------------------------------------------------------
\* What must hold

\* Unless a copy outlived a commit, what staff decided about a posting stands
\* until they decide again: no tag re-verifies a rejected posting or takes a
\* manually verified one from its client (_reconcile_one, verify_posting_mapping).
StaffDecisionStands ==
  \A p \in Postings \ outdated :
    /\ decision[p] = "rejected" => mapping[p].status = "REJECTED"
    /\ decision[p] \in Clients =>
         mapping[p] = [status |-> "VERIFIED", client |-> decision[p], source |-> "MANUAL"]

\* Every row is of its type, and every decision of staff is in its place.
MappingInv == TypeOK /\ StaffDecisionStands

\* The reconciliation that commits in this step did not fetch p, so did not
\* hold its mapping, and somebody changed it since it was listed.
Overtaken(p) ==
  \E w \in Workers :
    /\ desk[w].op = "promoting" /\ desk'[w] = Idle
    /\ p \notin Listed(desk[w]) /\ mapping[p] # desk[w].new[p]

\* A talent request is created for nobody but the client the posting is
\* verified for, also when a staff decision and a change of the tag meet the
\* reconciliation, unless its copy outlived a commit: of a fetched posting
\* before the flush, of any other after list_verified
\* (VerifiedPostingPromotionReconciler).
RequestsAreVerified ==
  [][\A p \in Postings : request[p] = None /\ request'[p] # None =>
       \/ p \in outdated' \/ Overtaken(p)
       \/ mapping'[p].status = "VERIFIED" /\ mapping'[p].client = request'[p].client]_vars

\* Every portal route goes by the requests of the client.
RequestsOf(c) == {p \in Postings : request[p] # None /\ request[p].client = c}

\* What the dashboards of a client and of staff count as active requests.
ActiveFor(c) ==
  {p \in RequestsOf(c) : request[p].lifecycle \in {"APPROVED", "IN_PROGRESS", "PENDING_REVIEW"}}

ActiveForStaff ==
  {p \in Postings : request[p] # None /\ request[p].lifecycle \in {"APPROVED", "IN_PROGRESS"}}

\* Unless a copy outlived a commit since, a request that Customer Success rejected
\* stays out of the pipeline: nobody's dashboard counts it as active, however
\* it is staged afterwards (review_request, update_stage, dashboard_service).
RejectedStaysOut ==
  \A p \in Postings \ crossed :
    request[p] # None /\ request[p].cs = "REJECTED"
      => p \notin ActiveForStaff \cup ActiveFor(request[p].client)

\* Curated applications, and interviews announced to the client whether their
\* application is curated or not.
CandidatesFor(c) ==
  {a \in RequestsOf(c) \X People : application[a] # None /\ application[a].visible}

InterviewsFor(c) ==
  {a \in RequestsOf(c) \X People : interview[a] # None /\ interview[a].visible}

\* The people each client is shown.
Shown == UNION {{<<a[1], a[2], c>> : a \in CandidatesFor(c) \cup InterviewsFor(c)} : c \in Clients}

\* A client is shown a person only after staff chose that very application:
\* neither promotion nor a change of the posting's client shows anyone
\* (Application.is_client_visible "a TA must explicitly curate").
ShownByStaff ==
  [][\A s \in Shown' \ Shown :
       \/ \E w \in Workers : desk[w].op = "curate" /\ desk[w].on = s[1] /\ desk[w].of = s[2] /\ desk[w].to
       \/ interview'[<<s[1], s[2]>>] # interview[<<s[1], s[2]>>] /\ requests' > requests]_vars

ByTag(p, c) == mapping[p] # None /\ mapping[p] = ForTag(c)

\* A tag that is removed or names another client takes the posting from the
\* client it was verified for, even if older postings are still in flight.
TagLossTakesEffect ==
  \A p \in Postings, c \in Clients :
    ByTag(p, c) /\ Tag(p) # c ~> ~ByTag(p, c) \/ Tag(p) = c

\* The postings a client may see.
PostingsFor(c) ==
  {p \in Postings : /\ ref[p] # "none" /\ mapping[p] # None
                    /\ mapping[p].status = "VERIFIED" /\ mapping[p].client = c}

\* "A client-scoped caller may never see a Posting (or anything under it)
\* unless its mapping is VERIFIED for their own client_id": the talent request
\* promoted from it and all that hangs on the request are under the posting.
SeenOnlyVerified == \A c \in Clients : RequestsOf(c) \subseteq PostingsFor(c)
=============================================================================
