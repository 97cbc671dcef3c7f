------------------------- MODULE TalentFlowProofs -------------------------
(***************************************************************************)
(* Theorems on TalentFlow, for any postings, clients, candidates, tags,    *)
(* workers and bounds.                                                     *)
(***************************************************************************)
EXTENDS TalentFlow, TLAPS

\* The rows there are.
Mapped == {p \in Postings : mapping[p] # None}

Requested == {p \in Postings : request[p] # None}

Applied == {a \in Postings \X People : application[a] # None}

\* A row hangs on another: a projection or a decision on the mapping, an
\* application on the request, an interview on the application.
RowsHang ==
  /\ \A p \in Postings : ref[p] # "none" \/ decision[p] # "none" => p \in Mapped
  /\ \A a \in Applied : a[1] \in Requested
  /\ \A a \in Postings \X People : interview[a] # None => a \in Applied

\* What a decision makes of its copy.
Decides(d) ==
  /\ d.op = "verify" =>
       d.copy.status = "VERIFIED" /\ d.copy.client \in Clients /\ d.copy.source = "MANUAL"
  /\ d.op = "unmap" => d.copy.status = "REJECTED"
  /\ d.op = "reopen" => d.copy.status = "UNMAPPED"

\* What a move makes of its copy: a review that rejects takes the request out,
\* and no other move brings a request in that was not approved.
Moves(d) ==
  /\ d.copy.client = d.loaded.client
  /\ d.op = "review" /\ d.copy.cs = "REJECTED" => d.copy.lifecycle = "REJECTED"
  /\ d.op = "workflow" =>
       /\ d.copy.cs = d.loaded.cs
       /\ d.loaded.lifecycle # "APPROVED" => d.copy.lifecycle \in {d.loaded.lifecycle, "FULFILLED"}

\* What a reconciliation is to promote: a posting it fetched for the client of
\* its own copy, any other for the client it was verified for, and candidates
\* of requests there are or will be.
Promotes(d, requested) ==
  /\ \A p \in Postings : d.new[p] # None =>
       /\ d.new[p].client \in Clients
       /\ IF p \in Listed(d) THEN d.new[p] = Own(d, p) ELSE d.new[p].status = "VERIFIED"
  /\ \A a \in Postings \X People : d.stages[a] # {} => d.new[a[1]] # None \/ a[1] \in requested

\* What a request in flight rests on, however old its copy is: its row still
\* exists, and its copy differs from what it loaded only as its operation asks.
Rests(d, mapped, requested, applied) ==
  /\ d.op \in {"verify", "unmap", "reopen"} => d.on \in mapped /\ Decides(d)
  /\ d.op \in {"review", "workflow"} => d.on \in requested /\ Moves(d)
  /\ d.op = "curate" => <<d.on, d.of>> \in applied
  /\ d.op \in {"loaded", "promoting"} => \A p \in Postings : d.facts[p] # None => d.rows[p] # None
  /\ d.op = "promoting" => Promotes(d, requested)

\* No two reconciliations hold the same posting, and what one promotes of those
\* it holds is still verified when it commits.
RowsHeld ==
  /\ \A v, w \in Workers :
       v # w /\ {desk[v].op, desk[w].op} \subseteq {"loaded", "promoting"}
         => Listed(desk[v]) \cap Listed(desk[w]) = {}
  /\ \A w \in Workers : desk[w].op = "promoting" =>
       \A p \in Listed(desk[w]) :
         desk[w].new[p] # None => Flushed(desk[w], p).status = "VERIFIED"

\* RejectedStaysOut, of the row.
RejectedIsOut ==
  \A p \in Requested \ crossed :
    request[p].cs = "REJECTED" => request[p].lifecycle \in {"REJECTED", "FULFILLED"}

\* The inductive invariant of the talent flow.
TalentInv ==
  /\ TypeOK
  /\ RowsHang
  /\ \A w \in Workers : Rests(desk[w], Mapped, Requested, Applied)
  /\ RowsHeld
  /\ StaffDecisionStands
  /\ RejectedIsOut

-----------------------------------------------------------------------------
\* Types

\* A posting as reported carries a tag of the kinds the reconciler knows.
LEMMA ReportedType ==
  ASSUME TypeOK, NEW p \in Postings
  PROVE  Reported(p) \in Fact \cup {None}
<1>1. CASE fact[p] = None
  BY <1>1 DEF Reported
<1>2. CASE fact[p] # None
  <2> DEFINE tags == fact[p].tags
             dtc == {i \in DOMAIN tags : tags[i] # "urgent"}
             one == tags[CHOOSE i \in dtc : TRUE]
  <2>1. fact[p] \in Posting
    BY <1>2 DEF TypeOK
  <2>2. tags \in Seq(TagTexts) /\ fact[p].archived \in BOOLEAN
    BY <2>1, ChoiceAssumption DEF Posting
  <2> HIDE DEF tags
  <2>3. dtc # {} => one \in TagTexts \ {"urgent"}
    <3> SUFFICES ASSUME dtc # {} PROVE one \in TagTexts \ {"urgent"}
      OBVIOUS
    <3> DEFINE i == CHOOSE j \in dtc : TRUE
    <3>1. i \in dtc
      OBVIOUS
    <3>2. i \in DOMAIN tags /\ tags[i] # "urgent"
      BY <3>1
    <3> HIDE DEF i
    <3>3. tags[i] \in TagTexts
      BY <2>2, <3>2
    <3> QED  BY <3>2, <3>3 DEF i
  <2> HIDE DEF one, dtc
  <2>4. Parsed(tags) = IF dtc = {} THEN "NO_TAG"
                       ELSE IF \E i, j \in dtc : i # j THEN "MULTIPLE"
                       ELSE IF one = "DTC" THEN "MALFORMED" ELSE one
    BY DEF Parsed, one, dtc
  <2>5. Parsed(tags) \in {"NO_TAG", "MULTIPLE", "MALFORMED"} \cup (TagTexts \ {"DTC", "urgent"})
    BY <2>3, <2>4
  <2>7. Named(Parsed(tags)) \in Tags
    BY <2>5 DEF Named, Tags, TagTexts
  <2>6. Reported(p) = [tag |-> Named(Parsed(tags)), archived |-> fact[p].archived]
    BY <1>2 DEF Reported, Tag, tags
  <2> QED  BY <2>2, <2>6, <2>7 DEF Fact
<1> QED  BY <1>1, <1>2

\* None is no row of any table.
LEMMA NoneIsNoRow == None \notin Mapping /\ None \notin Workflow /\ None \notin Application
                     /\ None \notin Interview /\ None \notin Fact
  BY DEF None, Mapping, Workflow, Application, Interview, Fact

\* What a worker has in hand, by what it is.
LEMMA DeskType ==
  ASSUME TypeOK, NEW w \in Workers
  PROVE  LET d == desk[w] IN
         /\ d.op \in {"verify", "unmap", "reopen"} =>
              d.on \in Postings /\ d.loaded \in Mapping /\ d.copy \in Mapping
         /\ d.op \in {"review", "workflow"} =>
              d.on \in Postings /\ d.loaded \in Workflow /\ d.copy \in Workflow
         /\ d.op = "curate" => d.on \in Postings /\ d.of \in People /\ d.to \in BOOLEAN
         /\ d.op = "fetched" => d.facts \in [Postings -> Fact \cup {None}]
         /\ d.op \in {"loaded", "promoting"} =>
              d.facts \in [Postings -> Fact \cup {None}] /\ d.rows \in [Postings -> Mapping \cup {None}]
         /\ d.op = "promoting" =>
              /\ d.new \in [Postings -> Mapping \cup {None}]
              /\ d.stages \in [Postings \X People -> SUBSET Stages]
<1> DEFINE d == desk[w]
           Decision == [op : {"verify", "unmap", "reopen"}, on : Postings, loaded : Mapping, copy : Mapping]
           Motion == [op : {"review", "workflow"}, on : Postings, loaded : Workflow, copy : Workflow]
           Curation == [op : {"curate"}, on : Postings, of : People, to : BOOLEAN]
           Fetched == [op : {"fetched"}, facts : [Postings -> Fact \cup {None}]]
           Loaded == [op : {"loaded"}, facts : [Postings -> Fact \cup {None}],
                      rows : [Postings -> Mapping \cup {None}]]
           Promoting == [op : {"promoting"}, facts : [Postings -> Fact \cup {None}],
                         rows : [Postings -> Mapping \cup {None}],
                         new : [Postings -> Mapping \cup {None}],
                         stages : [Postings \X People -> SUBSET Stages]]
<1>1. \/ d \in Decision \/ d \in Motion \/ d \in Curation
      \/ d \in Fetched \/ d \in Loaded \/ d \in Promoting \/ d = Idle
  BY DEF TypeOK, StaffRequest, Reconciliation
<1>2. d = Idle => d.op = "idle"
  BY DEF Idle
<1>3. CASE d \in Decision
  BY <1>3
<1>4. CASE d \in Motion
  BY <1>4
<1>5. CASE d \in Curation
  BY <1>5
<1>6. CASE d \in Fetched
  BY <1>6
<1>7. CASE d \in Loaded
  BY <1>7
<1>8. CASE d \in Promoting
  BY <1>8
<1> QED  BY <1>1, <1>2, <1>3, <1>4, <1>5, <1>6, <1>7, <1>8

-----------------------------------------------------------------------------
\* What an UPDATE leaves of a row

\* Of a mapping: a mapping, the copy if nobody wrote the row meanwhile.
LEMMA WrittenMapping ==
  ASSUME NEW row \in Mapping, NEW loaded \in Mapping, NEW copy \in Mapping
  PROVE  Written(row, loaded, copy) \in Mapping /\ (row = loaded => Written(row, loaded, copy) = copy)
<1> DEFINE choice(c) == IF copy[c] # loaded[c] THEN copy[c] ELSE row[c]
<1>1. DOMAIN row = {"status", "client", "source"}
  BY DEF Mapping
<1>2. Written(row, loaded, copy) =
        [status |-> choice("status"), client |-> choice("client"), source |-> choice("source")]
  BY <1>1 DEF Written
<1>3. /\ choice("status") \in {"UNMAPPED", "VERIFIED", "REJECTED"}
      /\ choice("client") \in Clients \cup {NoClient}
      /\ choice("source") \in {"", "MANUAL", "LEVER_DTC_TAG"}
  BY DEF Mapping
<1>4. copy = [status |-> copy.status, client |-> copy.client, source |-> copy.source]
  BY DEF Mapping
<1>5. row = loaded =>
        choice("status") = copy.status /\ choice("client") = copy.client /\ choice("source") = copy.source
  OBVIOUS
<1> HIDE DEF choice
<1>8. \A s \in {"UNMAPPED", "VERIFIED", "REJECTED"}, c \in Clients \cup {NoClient},
        t \in {"", "MANUAL", "LEVER_DTC_TAG"} : [status |-> s, client |-> c, source |-> t] \in Mapping
  BY DEF Mapping
<1>6. Written(row, loaded, copy) \in Mapping
  BY <1>2, <1>3, <1>8
<1>7. row = loaded => Written(row, loaded, copy) = copy
  BY <1>2, <1>4, <1>5
<1> QED  BY <1>6, <1>7

\* Of a talent request: likewise, and its client if the copy keeps it.
LEMMA WrittenWorkflow ==
  ASSUME NEW row \in Workflow, NEW loaded \in Workflow, NEW copy \in Workflow
  PROVE  /\ Written(row, loaded, copy) \in Workflow
         /\ row = loaded => Written(row, loaded, copy) = copy
         /\ copy.client = loaded.client => Written(row, loaded, copy).client = row.client
<1> DEFINE choice(c) == IF copy[c] # loaded[c] THEN copy[c] ELSE row[c]
<1>1. DOMAIN row = {"client", "stage", "lifecycle", "cs", "ta"}
  BY DEF Workflow
<1>2. Written(row, loaded, copy) =
        [client |-> choice("client"), stage |-> choice("stage"), lifecycle |-> choice("lifecycle"),
         cs |-> choice("cs"), ta |-> choice("ta")]
  BY <1>1 DEF Written
<1>3. choice("client") \in Clients /\ choice("stage") \in Stages
      /\ choice("cs") \in Decisions \cup {"PENDING_REVIEW"}
  BY DEF Workflow
<1>4. /\ choice("lifecycle") \in {"PENDING_REVIEW", "APPROVED", "IN_PROGRESS", "FULFILLED", "REJECTED"}
      /\ choice("ta") \in {"NOT_STARTED", "VALIDATING", "ATS_LINKED", "IN_PROGRESS", "ON_HOLD", "COMPLETED"}
  BY DEF Workflow
<1>5. copy = [client |-> copy.client, stage |-> copy.stage, lifecycle |-> copy.lifecycle,
              cs |-> copy.cs, ta |-> copy.ta]
  BY DEF Workflow
<1>6. row = loaded =>
        /\ choice("client") = copy.client /\ choice("stage") = copy.stage
        /\ choice("lifecycle") = copy.lifecycle /\ choice("cs") = copy.cs /\ choice("ta") = copy.ta
  OBVIOUS
<1>7. copy.client = loaded.client => choice("client") = row.client
  OBVIOUS
<1> HIDE DEF choice
<1> QED  BY <1>2, <1>3, <1>4, <1>5, <1>6, <1>7 DEF Workflow

-----------------------------------------------------------------------------
\* The reconciler

\* Reconciling leaves what staff decided.
LEMMA ReconciledMapping ==
  ASSUME NEW m \in Mapping, NEW tag
  PROVE  Reconciled(m, tag) \in Mapping /\ (Rejected(m) \/ Manual(m) => Reconciled(m, tag) = m)
<1>1. CASE Rejected(m) \/ Manual(m)
  <2>1. ~Tagged(m)
    BY <1>1 DEF Rejected, Manual, Tagged
  <2>2. Reconciled(m, tag) = m
    BY <1>1, <2>1, Zenon DEF Reconciled
  <2> QED  BY <2>2
<1>2. CASE ~(Rejected(m) \/ Manual(m)) /\ tag \in Clients
  <2>1. Reconciled(m, tag) = ForTag(tag)
    BY <1>2 DEF Reconciled
  <2>2. ForTag(tag) \in Mapping
    BY <1>2 DEF ForTag, Mapping
  <2> QED  BY <1>2, <2>1, <2>2
<1>3. CASE ~(Rejected(m) \/ Manual(m)) /\ tag \notin Clients
  <2> DEFINE unmapped == [m EXCEPT !.status = "UNMAPPED", !.client = NoClient]
  <2>1. Reconciled(m, tag) \in {NewMapping, unmapped, m}
    BY <1>3 DEF Reconciled
  <2> DEFINE half == [m EXCEPT !.status = "UNMAPPED"]
  <2>2. half \in Mapping
    BY DEF Mapping
  <2> HIDE DEF half
  <2>4. [half EXCEPT !.client = NoClient] \in Mapping
    BY <2>2 DEF Mapping
  <2>3. NewMapping \in Mapping /\ unmapped \in Mapping
    BY <2>4 DEF NewMapping, Mapping, half
  <2> QED  BY <1>3, <2>1, <2>3
<1> QED  BY <1>1, <1>2, <1>3

\* What a reconciliation flushes: its own copy, unless the row was written
\* meanwhile.
LEMMA FlushedMapping ==
  ASSUME TalentInv, NEW w \in Workers, desk[w].op \in {"loaded", "promoting"},
         NEW p \in Listed(desk[w])
  PROVE  LET d == desk[w] IN
         /\ p \in Postings /\ d.facts[p] \in Fact /\ d.rows[p] \in Mapping
         /\ Own(d, p) \in Mapping /\ Flushed(d, p) \in Mapping
         /\ mapping[p] = None \/ mapping[p] = d.rows[p] => Flushed(d, p) = Own(d, p)
<1> DEFINE d == desk[w]
<1>1. /\ p \in Postings /\ d.facts[p] # None /\ mapping[p] \in Mapping \cup {None}
      /\ d.facts \in [Postings -> Fact \cup {None}] /\ d.rows \in [Postings -> Mapping \cup {None}]
  BY DeskType DEF Listed, TalentInv, TypeOK
<1>2. d.rows[p] # None
  BY <1>1 DEF TalentInv, Rests
<1>3. d.facts[p] \in Fact /\ d.rows[p] \in Mapping
  BY <1>1, <1>2
<1>4. Own(d, p) \in Mapping
  BY <1>3, ReconciledMapping DEF Own
<1>5. mapping[p] # None =>
        /\ Written(mapping[p], d.rows[p], Own(d, p)) \in Mapping
        /\ mapping[p] = d.rows[p] => Written(mapping[p], d.rows[p], Own(d, p)) = Own(d, p)
  BY <1>1, <1>3, <1>4, WrittenMapping
<1> QED  BY <1>1, <1>3, <1>4, <1>5 DEF Flushed

-----------------------------------------------------------------------------
\* Moves of a talent request

\* The stages reviews and completion set.
LEMMA StagesSet == "REQUIREMENT_CONFIRMED" \in Stages /\ "DEPLOYED" \in Stages /\ "SOURCING" \in Stages
  BY DEF Stages, Rank

\* What a review makes of a request.
LEMMA ReviewedWorkflow ==
  ASSUME NEW r \in Workflow, NEW verdict \in Decisions
  PROVE  LET e == Reviewed(r, verdict) IN
         e \in Workflow /\ e.client = r.client /\ (e.cs = "REJECTED" => e.lifecycle = "REJECTED")
<1>1. CASE verdict = "APPROVED"
  <2> DEFINE e1 == [r EXCEPT !.cs = verdict]
             e2 == [e1 EXCEPT !.lifecycle = "APPROVED"]
             e3 == [e2 EXCEPT !.stage = "REQUIREMENT_CONFIRMED"]
             e4 == [e3 EXCEPT !.ta = "VALIDATING"]
  <2>1. e1 \in Workflow /\ e1.client = r.client /\ e1.cs = verdict
    BY DEF Workflow, Decisions
  <2> HIDE DEF e1
  <2>2. e2 \in Workflow /\ e2.client = r.client /\ e2.cs = verdict
    BY <2>1 DEF Workflow
  <2> HIDE DEF e2
  <2>3. e3 \in Workflow /\ e3.client = r.client /\ e3.cs = verdict
    BY <2>2, StagesSet DEF Workflow
  <2> HIDE DEF e3
  <2>4. e4 \in Workflow /\ e4.client = r.client /\ e4.cs = verdict
    BY <2>3 DEF Workflow
  <2>5. Reviewed(r, verdict) = e4
    BY <1>1, Zenon DEF Reviewed, e1, e2, e3
  <2> QED  BY <1>1, <2>4, <2>5
<1>2. CASE verdict = "REJECTED"
  <2> DEFINE e1 == [r EXCEPT !.cs = verdict]
             e2 == [e1 EXCEPT !.lifecycle = "REJECTED"]
  <2>1. e1 \in Workflow /\ e1.client = r.client
    BY DEF Workflow, Decisions
  <2> HIDE DEF e1
  <2>2. e2 \in Workflow /\ e2.client = r.client /\ e2.lifecycle = "REJECTED"
    BY <2>1 DEF Workflow
  <2>3. Reviewed(r, verdict) = e2
    BY <1>2, Zenon DEF Reviewed, e1
  <2> QED  BY <2>2, <2>3
<1>3. CASE verdict = "CLARIFICATION_REQUIRED"
  <2> DEFINE e1 == [r EXCEPT !.cs = verdict]
  <2>1. e1 \in Workflow /\ e1.client = r.client /\ e1.cs = verdict
    BY DEF Workflow, Decisions
  <2>2. Reviewed(r, verdict) = e1
    BY <1>3, Zenon DEF Reviewed
  <2> QED  BY <1>3, <2>1, <2>2
<1> QED  BY <1>1, <1>2, <1>3 DEF Decisions

\* What a stage makes of a request.
LEMMA StagedWorkflow ==
  ASSUME NEW r \in Workflow, NEW stage \in Stages
  PROVE  LET e == Staged(r, stage) IN
         /\ e \in Workflow /\ e.client = r.client /\ e.cs = r.cs
         /\ r.lifecycle # "APPROVED" => e.lifecycle \in {r.lifecycle, "FULFILLED"}
<1> DEFINE e1 == [r EXCEPT !.stage = stage]
           done == [e1 EXCEPT !.lifecycle = "FULFILLED"]
           done2 == [done EXCEPT !.ta = "COMPLETED"]
           going == [e1 EXCEPT !.lifecycle = "IN_PROGRESS"]
           going2 == [going EXCEPT !.ta = "IN_PROGRESS"]
<1>1. e1 \in Workflow /\ e1.client = r.client /\ e1.lifecycle = r.lifecycle /\ e1.cs = r.cs
  BY DEF Workflow, Decisions
<1> HIDE DEF e1
<1>2. done \in Workflow /\ done.client = r.client /\ done.lifecycle = "FULFILLED" /\ done.cs = r.cs
  BY <1>1 DEF Workflow
<1>3. going \in Workflow /\ going.client = r.client /\ going.cs = r.cs
  BY <1>1 DEF Workflow
<1> HIDE DEF done, going
<1>4. done2 \in Workflow /\ done2.client = r.client /\ done2.lifecycle = "FULFILLED" /\ done2.cs = r.cs
  BY <1>2 DEF Workflow
<1>5. going2 \in Workflow /\ going2.client = r.client /\ going2.cs = r.cs
  BY <1>3 DEF Workflow
<1>6. Staged(r, stage) = IF stage = "DEPLOYED" THEN done2
                         ELSE IF r.lifecycle = "APPROVED" THEN going2 ELSE e1
  BY DEF Staged, done, going, e1
<1> QED  BY <1>1, <1>4, <1>5, <1>6

-----------------------------------------------------------------------------
\* Steps that leave the tables alone

\* Rows stay held when nothing moves.
LEMMA HeldStays ==
  ASSUME TalentInv, UNCHANGED <<desk, mapping>>
  PROVE  RowsHeld'
  BY DEF TalentInv, RowsHeld, Flushed

\* Rows stay held when a worker turns to something else, if nobody writes a
\* mapping another worker holds.
LEMMA HeldKept ==
  ASSUME TalentInv, NEW w \in Workers, NEW d, d.op \notin {"loaded", "promoting"},
         desk' = [desk EXCEPT ![w] = d],
         \A v \in Workers \ {w} : desk[v].op = "promoting" =>
           \A p \in Listed(desk[v]) : mapping'[p] = mapping[p]
  PROVE  RowsHeld'
<1>1. \A v \in Workers : desk'[v] = IF v = w THEN d ELSE desk[v]
  BY DEF TalentInv, TypeOK
<1>2. ASSUME NEW v \in Workers, NEW u \in Workers, v # u,
             {desk'[v].op, desk'[u].op} \subseteq {"loaded", "promoting"}
      PROVE  Listed(desk'[v]) \cap Listed(desk'[u]) = {}
  <2>1. desk'[v] = desk[v] /\ desk'[u] = desk[u]
    BY <1>1, <1>2
  <2> QED  BY <1>2, <2>1 DEF TalentInv, RowsHeld
<1>3. ASSUME NEW v \in Workers, desk'[v].op = "promoting", NEW p \in Listed(desk'[v]),
             desk'[v].new[p] # None
      PROVE  Flushed(desk[v], p)'.status = "VERIFIED"
  <2>1. v # w /\ desk'[v] = desk[v]
    BY <1>1, <1>3
  <2>2. mapping'[p] = mapping[p]
    BY <1>3, <2>1
  <2>3. Flushed(desk[v], p).status = "VERIFIED"
    BY <1>3, <2>1 DEF TalentInv, RowsHeld
  <2> QED  BY <2>1, <2>2, <2>3 DEF Flushed
<1> QED  BY <1>2, <1>3 DEF RowsHeld

\* A worker turns to d, or drops what it had.
LEMMA DeskStep ==
  ASSUME TalentInv, NEW w \in Workers, NEW d \in StaffRequest \cup Reconciliation \cup {Idle},
         desk' = [desk EXCEPT ![w] = d], d.op \notin {"loaded", "promoting"} \/ RowsHeld',
         UNCHANGED <<source, records, decision, outdated, crossed>>, requests' \in Nat,
         Rests(d, Mapped, Requested, Applied)
  PROVE  TalentInv'
<1>1. UNCHANGED <<fact, candidacy, changes, ref, mapping, request, application, interview>>
  BY DEF source, records
<1>2. Mapped' = Mapped /\ Requested' = Requested /\ Applied' = Applied
  BY <1>1 DEF Mapped, Requested, Applied
<1>3. \A v \in Workers : desk'[v] = IF v = w THEN d ELSE desk[v]
  BY DEF TalentInv, TypeOK
<1>4. TypeOK'
  BY <1>1 DEF TalentInv, TypeOK
<1>5. \A v \in Workers : Rests(desk'[v], Mapped, Requested, Applied)
  BY <1>3 DEF TalentInv
<1>6. RowsHang' /\ StaffDecisionStands' /\ RejectedIsOut'
  BY <1>1, <1>2 DEF TalentInv, RowsHang, StaffDecisionStands, RejectedIsOut
<1>7. RowsHeld'
  BY <1>1, HeldKept
<1> QED  BY <1>2, <1>4, <1>5, <1>6, <1>7 DEF TalentInv

\* Nothing rests on an idle worker.
LEMMA IdleRests ==
  ASSUME NEW mapped, NEW requested, NEW applied
  PROVE  /\ Rests(Idle, mapped, requested, applied)
         /\ Idle \in StaffRequest \cup Reconciliation \cup {Idle} /\ Idle.op = "idle"
  BY DEF Rests, Idle

\* A reconciliation fetches, then loads.
LEMMA ReconcileSteps ==
  ASSUME TalentInv, NEW w \in Workers
  PROVE  /\ Fetch(w) => TalentInv'
         /\ LoadMappings(w) => TalentInv'
<1>1. TypeOK /\ requests \in Nat
  BY DEF TalentInv, TypeOK
<1>2. ASSUME Fetch(w)
      PROVE  TalentInv'
  <2> DEFINE facts == [p \in Postings |-> Reported(p)]
             d == [op |-> "fetched", facts |-> facts]
  <2>1. facts \in [Postings -> Fact \cup {None}]
    BY <1>1, ReportedType
  <2> HIDE DEF facts
  <2>2. d \in Reconciliation /\ d.op = "fetched"
    BY <2>1 DEF Reconciliation
  <2>3. /\ desk' = [desk EXCEPT ![w] = d]
        /\ UNCHANGED <<source, records, requests, decision, outdated, crossed>>
    BY <1>2 DEF Fetch, Take, facts
  <2> HIDE DEF d
  <2>4. Rests(d, Mapped, Requested, Applied)
    BY <2>2 DEF Rests
  <2> QED  BY <1>1, <2>2, <2>3, <2>4, DeskStep
<1>3. ASSUME LoadMappings(w)
      PROVE  TalentInv'
  <2> DEFINE facts == desk[w].facts
             rows == [p \in Postings |-> IF p \notin Listed(desk[w]) THEN None
                                         ELSE IF mapping[p] = None THEN NewMapping ELSE mapping[p]]
             d == [op |-> "loaded", facts |-> facts, rows |-> rows]
  <2>1. facts \in [Postings -> Fact \cup {None}]
    BY <1>1, <1>3, DeskType DEF LoadMappings
  <2>2. rows \in [Postings -> Mapping \cup {None}]
    BY <1>1 DEF TypeOK, NewMapping, Mapping
  <2>3. NewMapping # None
    <3>1. NewMapping \in Mapping
      BY DEF NewMapping, Mapping
    <3> QED  BY <3>1, NoneIsNoRow
  <2>4. \A p \in Postings : facts[p] # None => rows[p] # None
    BY <2>3 DEF Listed
  <2>5. /\ desk' = [desk EXCEPT ![w] = d]
        /\ \A v \in Workers :
             desk[v].op \in {"loaded", "promoting"} => Listed(desk[v]) \cap Listed(desk[w]) = {}
        /\ UNCHANGED <<source, records, requests, decision, outdated, crossed>>
    BY <1>3 DEF LoadMappings, Take
  <2> HIDE DEF rows
  <2>6. d \in Reconciliation /\ d.op = "loaded" /\ d.facts = desk[w].facts /\ d.rows = rows
    BY <2>1, <2>2 DEF Reconciliation
  <2> HIDE DEF d, facts
  <2>7. Rests(d, Mapped, Requested, Applied)
    BY <2>4, <2>6 DEF Rests, facts
  <2>8. RowsHeld'
    <3>1. Listed(d) = Listed(desk[w])
      BY <2>6 DEF Listed
    <3>2. \A v \in Workers : desk'[v] = IF v = w THEN d ELSE desk[v]
      BY <1>1, <2>5 DEF TypeOK
    <3>3. mapping' = mapping
      BY <2>5 DEF records
    <3>4. ASSUME NEW v \in Workers, NEW u \in Workers, v # u,
                 {desk'[v].op, desk'[u].op} \subseteq {"loaded", "promoting"}
          PROVE  Listed(desk'[v]) \cap Listed(desk'[u]) = {}
      BY <2>5, <3>1, <3>2, <3>4 DEF TalentInv, RowsHeld
    <3>5. ASSUME NEW v \in Workers, desk'[v].op = "promoting", NEW p \in Listed(desk'[v]),
                 desk'[v].new[p] # None
          PROVE  Flushed(desk[v], p)'.status = "VERIFIED"
      <4>1. desk'[v] = desk[v]
        BY <2>6, <3>2, <3>5
      <4>2. Flushed(desk[v], p).status = "VERIFIED"
        BY <3>5, <4>1 DEF TalentInv, RowsHeld
      <4> QED  BY <3>3, <4>1, <4>2 DEF Flushed
    <3> QED  BY <3>4, <3>5 DEF RowsHeld
  <2> QED  BY <1>1, <2>5, <2>6, <2>7, <2>8, DeskStep
<1> QED  BY <1>2, <1>3

\* Staff load a row to decide, move or curate.
LEMMA LoadSteps ==
  ASSUME TalentInv, NEW w \in Workers, NEW p \in Postings
  PROVE  /\ \A c \in Clients : Verify(w, p, c) => TalentInv'
         /\ Unmap(w, p) => TalentInv'
         /\ Reopen(w, p) => TalentInv'
         /\ \A verdict \in Decisions : Review(w, p, verdict) => TalentInv'
         /\ \A stage \in Stages : UpdateStage(w, p, stage) => TalentInv'
         /\ UpdateTaStatus(w, p) => TalentInv'
         /\ \A k \in People, to \in BOOLEAN : Curate(w, p, k, to) => TalentInv'
<1>1. TypeOK /\ requests + 1 \in Nat
  BY DEF TalentInv, TypeOK
<1>2. ASSUME NEW op \in {"verify", "unmap", "reopen"}, NEW copy \in Mapping,
             op = "verify" =>
               copy.status = "VERIFIED" /\ copy.client \in Clients /\ copy.source = "MANUAL",
             op = "unmap" => copy.status = "REJECTED",
             op = "reopen" => copy.status = "UNMAPPED",
             Decide(w, p, op, copy)
      PROVE  TalentInv'
  <2> DEFINE d == [op |-> op, on |-> p, loaded |-> mapping[p], copy |-> copy]
  <2>1. /\ desk' = [desk EXCEPT ![w] = d] /\ requests' = requests + 1 /\ ref[p] # "none"
        /\ UNCHANGED <<source, records, decision, outdated, crossed>>
    BY <1>2 DEF Decide, Take
  <2>2. p \in Mapped /\ mapping[p] \in Mapping
    BY <1>1, <2>1 DEF TalentInv, RowsHang, Mapped, TypeOK
  <2>3. d \in StaffRequest /\ d.op = op /\ d.on = p /\ d.copy = copy
    BY <1>2, <2>2 DEF StaffRequest
  <2> HIDE DEF d
  <2>4. Rests(d, Mapped, Requested, Applied)
    BY <1>2, <2>2, <2>3 DEF Rests, Decides
  <2> QED  BY <1>1, <2>1, <2>3, <2>4, DeskStep
<1>3. ASSUME NEW op \in {"review", "workflow"}, NEW copy \in Workflow, request[p] # None,
             copy.client = request[p].client,
             op = "review" => (copy.cs = "REJECTED" => copy.lifecycle = "REJECTED"),
             op = "workflow" =>
               /\ copy.cs = request[p].cs
               /\ request[p].lifecycle # "APPROVED" =>
                    copy.lifecycle \in {request[p].lifecycle, "FULFILLED"},
             Move(w, p, op, copy)
      PROVE  TalentInv'
  <2> DEFINE d == [op |-> op, on |-> p, loaded |-> request[p], copy |-> copy]
  <2>1. /\ desk' = [desk EXCEPT ![w] = d] /\ requests' = requests + 1
        /\ UNCHANGED <<source, records, decision, outdated, crossed>>
    BY <1>3 DEF Move, Take
  <2>2. p \in Requested /\ request[p] \in Workflow
    BY <1>1, <1>3 DEF Requested, TypeOK
  <2>3. d \in StaffRequest /\ d.op = op /\ d.on = p /\ d.loaded = request[p] /\ d.copy = copy
    BY <1>3, <2>2 DEF StaffRequest
  <2> HIDE DEF d
  <2>4. Rests(d, Mapped, Requested, Applied)
    BY <1>3, <2>2, <2>3 DEF Rests, Moves
  <2> QED  BY <1>1, <2>1, <2>3, <2>4, DeskStep
<1>4. ASSUME NEW k \in People, NEW to \in BOOLEAN, Curate(w, p, k, to)
      PROVE  TalentInv'
  <2> DEFINE d == [op |-> "curate", on |-> p, of |-> k, to |-> to]
  <2>1. /\ desk' = [desk EXCEPT ![w] = d] /\ requests' = requests + 1
        /\ application[<<p, k>>] # None
        /\ UNCHANGED <<source, records, decision, outdated, crossed>>
    BY <1>4 DEF Curate, Take
  <2>2. <<p, k>> \in Applied
    BY <2>1 DEF Applied
  <2>3. d \in StaffRequest /\ d.op = "curate" /\ d.on = p /\ d.of = k
    BY DEF StaffRequest
  <2> HIDE DEF d
  <2>4. Rests(d, Mapped, Requested, Applied)
    BY <2>2, <2>3 DEF Rests
  <2> QED  BY <1>1, <2>1, <2>3, <2>4, DeskStep
<1>5. \A c \in Clients : Verify(w, p, c) => TalentInv'
  <2> SUFFICES ASSUME NEW c \in Clients, Verify(w, p, c) PROVE TalentInv'
    OBVIOUS
  <2> DEFINE copy == [status |-> "VERIFIED", client |-> c, source |-> "MANUAL"]
  <2>1. copy \in Mapping /\ copy.status = "VERIFIED" /\ copy.client \in Clients /\ copy.source = "MANUAL"
    BY DEF Mapping
  <2>2. Decide(w, p, "verify", copy)
    BY DEF Verify
  <2> HIDE DEF copy
  <2> QED  BY <1>2, <2>1, <2>2
<1>6. Unmap(w, p) => TalentInv'
  <2> SUFFICES ASSUME Unmap(w, p) PROVE TalentInv'
    OBVIOUS
  <2> DEFINE copy == [status |-> "REJECTED", client |-> NoClient, source |-> "MANUAL"]
  <2>1. copy \in Mapping /\ copy.status = "REJECTED"
    BY DEF Mapping
  <2>2. Decide(w, p, "unmap", copy)
    BY DEF Unmap
  <2> HIDE DEF copy
  <2> QED  BY <1>2, <2>1, <2>2
<1>7. Reopen(w, p) => TalentInv'
  <2>1. NewMapping \in Mapping /\ NewMapping.status = "UNMAPPED"
    BY DEF NewMapping, Mapping
  <2> QED  BY <1>2, <2>1 DEF Reopen
<1>8. request[p] # None => request[p] \in Workflow
  BY <1>1 DEF TypeOK
<1>9. \A verdict \in Decisions : Review(w, p, verdict) => TalentInv'
  BY <1>3, <1>8, ReviewedWorkflow DEF Review
<1>10. \A stage \in Stages : UpdateStage(w, p, stage) => TalentInv'
  BY <1>3, <1>8, StagedWorkflow DEF UpdateStage
<1>11. UpdateTaStatus(w, p) => TalentInv'
  BY <1>3, <1>8 DEF UpdateTaStatus, Workflow
<1> QED  BY <1>4, <1>5, <1>6, <1>7, <1>9, <1>10, <1>11

\* What a request in flight rests on stays when no row goes.
LEMMA RestsKept ==
  ASSUME TalentInv, \A w \in Workers : desk'[w] \in {desk[w], Idle},
         Mapped \subseteq Mapped', Requested \subseteq Requested', Applied \subseteq Applied'
  PROVE  \A w \in Workers : Rests(desk'[w], Mapped', Requested', Applied')
<1> SUFFICES ASSUME NEW w \in Workers PROVE Rests(desk'[w], Mapped', Requested', Applied')
  OBVIOUS
<1> DEFINE m == Mapped' r == Requested' a == Applied' d == desk[w]
<1>1. Rests(d, Mapped, Requested, Applied) /\ Mapped \subseteq m /\ Requested \subseteq r /\ Applied \subseteq a
  BY DEF TalentInv
<1> HIDE DEF m, r, a, d
<1>2. Rests(d, m, r, a)
  BY <1>1 DEF Rests, Promotes
<1>3. Rests(Idle, m, r, a)
  BY IdleRests
<1> QED  BY <1>2, <1>3 DEF m, r, a, d

-----------------------------------------------------------------------------
\* The commit of a reconciliation

\* Lever's stage is a stage, and refreshing an application keeps its type.
LEMMA RefreshedType ==
  ASSUME NEW stages \in SUBSET Stages, NEW a \in Application \cup {None}
  PROVE  LET e == Refreshed(a, stages) IN
         /\ e \in Application \cup {None}
         /\ a # None \/ stages # {} => e # None
         /\ stages = {} => e = a
<1> DEFINE s == CHOOSE t \in stages : TRUE
           visible == a # None /\ a.visible
<1>1. stages # {} => s \in Stages
  <2>1. stages # {} => s \in stages
    OBVIOUS
  <2> QED  BY <2>1
<1>2. visible \in BOOLEAN
  OBVIOUS
<1> HIDE DEF s, visible
<1>3. stages # {} => [stage |-> s, visible |-> visible] \in Application
  BY <1>1, <1>2 DEF Application
<1>4. Refreshed(a, stages) = IF stages = {} THEN a ELSE [stage |-> s, visible |-> visible]
  BY DEF Refreshed, s, visible
<1> QED  BY <1>3, <1>4, NoneIsNoRow

\* What a reconciliation promotes is verified, for the client of its own copy
\* where it fetched the posting, and for the one in the table where it did not.
LEMMA PromoteStep ==
  ASSUME TalentInv, NEW w \in Workers, NEW answered \in BOOLEAN, Promote(w, answered)
  PROVE  TalentInv'
<1> DEFINE old == desk[w]
           new == [p \in Postings |->
                     IF p \in Promoted(old) /\ request[p] = None THEN Copy(old, p) ELSE None]
           stages == [a \in Postings \X People |->
                        IF answered /\ a[1] \in Promoted(old) THEN Picked(a[1], a[2]) ELSE {}]
           d == [op |-> "promoting", facts |-> old.facts, rows |-> old.rows, new |-> new, stages |-> stages]
           fails == \E p \in Postings : new[p] # None /\ new[p].client = NoClient
<1>1. /\ old.op = "loaded" /\ requests' \in Nat
      /\ UNCHANGED <<source, records, decision, outdated, crossed>>
      /\ desk' = [desk EXCEPT ![w] = IF fails THEN Idle ELSE d]
  BY DEF Promote, Take, Leave, TalentInv, TypeOK
<1>2. CASE fails
  <2>1. /\ Rests(Idle, Mapped, Requested, Applied)
        /\ Idle \in StaffRequest \cup Reconciliation \cup {Idle} /\ Idle.op = "idle"
    BY IdleRests
  <2>2. desk' = [desk EXCEPT ![w] = Idle]
    BY <1>1, <1>2
  <2> QED  BY <1>1, <2>1, <2>2, DeskStep
<1>3. CASE ~fails
  <2>1. /\ old.facts \in [Postings -> Fact \cup {None}] /\ old.rows \in [Postings -> Mapping \cup {None}]
        /\ \A p \in Postings : old.facts[p] # None => old.rows[p] # None
    BY <1>1, DeskType DEF TalentInv, Rests
  <2>2. ASSUME NEW p \in Listed(old)
        PROVE  p \in Postings /\ Own(old, p) \in Mapping
    BY <1>1, FlushedMapping
  <2>3. ASSUME NEW p \in Promoted(old)
        PROVE  /\ p \in Postings /\ Copy(old, p) \in Mapping
               /\ p \in Listed(old) => Copy(old, p) = Own(old, p) /\ Flushed(old, p).status = "VERIFIED"
               /\ p \notin Listed(old) => Copy(old, p).status = "VERIFIED"
    <3>1. p \in Postings /\ p \in Verified(old)
      BY DEF Promoted, Verified
    <3>2. CASE p \in Listed(old)
      BY <2>2, <3>1, <3>2 DEF Copy, Verified
    <3>3. CASE p \notin Listed(old)
      BY <3>1, <3>3 DEF Copy, Verified, TalentInv, TypeOK
    <3> QED  BY <3>1, <3>2, <3>3
  <2>4. new \in [Postings -> Mapping \cup {None}]
    BY <2>3
  <2>5. stages \in [Postings \X People -> SUBSET Stages]
    <3>1. \A p \in Postings, k \in People : Picked(p, k) \subseteq Stages
      BY DEF Picked, TalentInv, TypeOK
    <3> QED  BY <3>1
  <2>6. \A p \in Postings : new[p] # None =>
          new[p].client \in Clients /\ p \in Promoted(old) /\ new[p] = Copy(old, p)
    <3> SUFFICES ASSUME NEW p \in Postings, new[p] # None
                 PROVE  new[p].client \in Clients /\ p \in Promoted(old) /\ new[p] = Copy(old, p)
      OBVIOUS
    <3>1. p \in Promoted(old) /\ new[p] = Copy(old, p)
      OBVIOUS
    <3>2. new[p].client \in Clients \cup {NoClient}
      BY <2>3, <3>1 DEF Mapping
    <3> QED  BY <1>3, <3>1, <3>2
  <2>7. \A a \in Postings \X People : stages[a] # {} => a[1] \in Promoted(old)
    OBVIOUS
  <2>8. \A p \in Promoted(old) : new[p] # None \/ p \in Requested
    BY <2>3, NoneIsNoRow DEF Requested
  <2> HIDE DEF new, stages, fails
  <2>9. /\ d \in Reconciliation /\ d.op = "promoting" /\ d.facts = old.facts /\ d.rows = old.rows
        /\ d.new = new /\ d.stages = stages
    BY <2>1, <2>4, <2>5 DEF Reconciliation
  <2>10. desk' = [desk EXCEPT ![w] = d]
    BY <1>1, <1>3
  <2> HIDE DEF d, old
  <2>11. Listed(d) = Listed(old) /\ \A p \in Postings : Own(d, p) = Own(old, p)
    BY <2>9 DEF Listed, Own
  <2>12. Rests(d, Mapped, Requested, Applied)
    <3>1. \A p \in Postings : new[p] # None =>
            /\ new[p].client \in Clients
            /\ IF p \in Listed(d) THEN new[p] = Own(d, p) ELSE new[p].status = "VERIFIED"
      BY <2>3, <2>6, <2>11
    <3>2. \A a \in Postings \X People : stages[a] # {} => new[a[1]] # None \/ a[1] \in Requested
      BY <2>7, <2>8
    <3>3. Promotes(d, Requested)
      BY <2>9, <3>1, <3>2 DEF Promotes
    <3> QED  BY <2>1, <2>9, <3>3 DEF Rests
  <2>13. RowsHeld'
    <3>1. \A v \in Workers : desk'[v] = IF v = w THEN d ELSE desk[v]
      BY <2>10 DEF TalentInv, TypeOK
    <3>2. mapping' = mapping
      BY <1>1 DEF records
    <3>3. ASSUME NEW v \in Workers, NEW u \in Workers, v # u,
                 {desk'[v].op, desk'[u].op} \subseteq {"loaded", "promoting"}
          PROVE  Listed(desk'[v]) \cap Listed(desk'[u]) = {}
      BY <1>1, <2>11, <3>1, <3>3 DEF TalentInv, RowsHeld, old
    <3>4. ASSUME NEW v \in Workers, desk'[v].op = "promoting", NEW p \in Listed(desk'[v]),
                 desk'[v].new[p] # None
          PROVE  Flushed(desk[v], p)'.status = "VERIFIED"
      <4>1. CASE v = w
        <5>1. p \in Listed(old) /\ p \in Postings /\ new[p] # None
          BY <2>2, <2>9, <2>11, <3>1, <3>4, <4>1
        <5>2. Flushed(old, p).status = "VERIFIED"
          BY <2>3, <2>6, <5>1
        <5>3. Flushed(desk[v], p)' = Flushed(old, p)
          BY <2>9, <2>11, <3>1, <3>2, <4>1, <5>1 DEF Flushed
        <5> QED  BY <5>2, <5>3
      <4>2. CASE v # w
        <5>1. desk'[v] = desk[v]
          BY <3>1, <4>2
        <5>2. Flushed(desk[v], p).status = "VERIFIED"
          BY <3>4, <5>1 DEF TalentInv, RowsHeld
        <5> QED  BY <3>2, <5>1, <5>2 DEF Flushed
      <4> QED  BY <4>1, <4>2
    <3> QED  BY <3>3, <3>4 DEF RowsHeld
  <2> QED  BY <1>1, <2>9, <2>10, <2>12, <2>13, DeskStep
<1> QED  BY <1>2, <1>3

\* A reconciliation commits: it inserts what it was to promote and leaves what
\* staff decided, unless their decision came after it loaded.
LEMMA CommitReconciliationStep ==
  ASSUME TalentInv, NEW w \in Workers, CommitReconciliation(w)
  PROVE  TalentInv'
<1> DEFINE d == desk[w]
           new == {p \in Postings : d.new[p] # None}
           fails == \E p \in new : request[p] # None
<1>1. /\ d.op = "promoting" /\ desk' = [desk EXCEPT ![w] = Idle]
      /\ UNCHANGED <<fact, candidacy, changes, requests, decision, crossed>>
  BY DEF CommitReconciliation, Leave, source
<1>2. CASE fails
  <2>1. UNCHANGED <<source, records, decision, outdated, crossed>> /\ requests' \in Nat
    BY <1>1, <1>2 DEF CommitReconciliation, TalentInv, TypeOK, source
  <2>2. /\ Rests(Idle, Mapped, Requested, Applied)
        /\ Idle \in StaffRequest \cup Reconciliation \cup {Idle} /\ Idle.op = "idle"
    BY IdleRests
  <2> QED  BY <1>1, <2>1, <2>2, DeskStep
<1>3. CASE ~fails
  <2>1. /\ ref' = [p \in Postings |->
                     IF p \notin Listed(d) THEN ref[p]
                     ELSE IF d.facts[p].archived THEN "archived" ELSE "open"]
        /\ mapping' = [p \in Postings |-> IF p \in Listed(d) THEN Flushed(d, p) ELSE mapping[p]]
        /\ request' = [p \in Postings |-> IF p \in new THEN Sourced(PromotedFor(d, p)) ELSE request[p]]
        /\ application' = [a \in Postings \X People |-> Refreshed(application[a], d.stages[a])]
        /\ outdated' = outdated \cup {p \in Listed(d) : mapping[p] # None /\ mapping[p] # d.rows[p]}
        /\ interview' = interview
    BY <1>3 DEF CommitReconciliation
  <2>2. \A p \in Listed(d) :
          /\ p \in Postings /\ d.facts[p] \in Fact /\ d.rows[p] \in Mapping
          /\ Own(d, p) \in Mapping /\ Flushed(d, p) \in Mapping
          /\ mapping[p] = None \/ mapping[p] = d.rows[p] => Flushed(d, p) = Own(d, p)
    BY <1>1, FlushedMapping
  <2>3. /\ d.stages \in [Postings \X People -> SUBSET Stages]
        /\ \A p \in new : p \in Postings /\ request[p] = None /\ PromotedFor(d, p) \in Clients
        /\ \A a \in Postings \X People : d.stages[a] # {} => a[1] \in new \cup Requested
    <3>1. Promotes(d, Requested)
      BY <1>1 DEF TalentInv, Rests
    <3> QED  BY <1>1, <1>3, <3>1, DeskType DEF Promotes, PromotedFor, TalentInv
  <2> HIDE DEF d, new, fails
  <2>4. \A p \in Postings :
          /\ ref'[p] = IF p \notin Listed(d) THEN ref[p]
                       ELSE IF d.facts[p].archived THEN "archived" ELSE "open"
          /\ mapping'[p] = IF p \in Listed(d) THEN Flushed(d, p) ELSE mapping[p]
          /\ request'[p] = IF p \in new THEN Sourced(PromotedFor(d, p)) ELSE request[p]
    BY <2>1
  <2>5. \A a \in Postings \X People : application'[a] = Refreshed(application[a], d.stages[a])
    BY <2>1
  <2>6. \A c \in Clients : Sourced(c) \in Workflow /\ Sourced(c) # None /\ Sourced(c).cs = "APPROVED"
    <3> SUFFICES ASSUME NEW c \in Clients
                 PROVE  Sourced(c) \in Workflow /\ Sourced(c) # None /\ Sourced(c).cs = "APPROVED"
      OBVIOUS
    <3>1. Sourced(c) \in Workflow /\ Sourced(c).cs = "APPROVED"
      BY StagesSet DEF Sourced, Workflow, Decisions
    <3> QED  BY <3>1, NoneIsNoRow
  <2>7. ref' \in [Postings -> {"none", "open", "archived"}]
    BY <2>1 DEF TalentInv, TypeOK
  <2>8. mapping' \in [Postings -> Mapping \cup {None}]
    BY <2>1, <2>2 DEF TalentInv, TypeOK
  <2>9. request' \in [Postings -> Workflow \cup {None}]
    BY <2>1, <2>3, <2>6 DEF TalentInv, TypeOK
  <2>10. \A a \in Postings \X People :
           /\ application'[a] \in Application \cup {None}
           /\ application[a] # None => application'[a] # None
           /\ d.stages[a] = {} => application'[a] = application[a]
    <3> SUFFICES ASSUME NEW a \in Postings \X People
                 PROVE  /\ application'[a] \in Application \cup {None}
                        /\ application[a] # None => application'[a] # None
                        /\ d.stages[a] = {} => application'[a] = application[a]
      OBVIOUS
    <3>1. application[a] \in Application \cup {None} /\ d.stages[a] \in SUBSET Stages
      BY <2>3 DEF TalentInv, TypeOK
    <3> QED  BY <2>5, <3>1, RefreshedType
  <2>11. TypeOK'
    <3>1. application' \in [Postings \X People -> Application \cup {None}]
      BY <2>1, <2>10
    <3>2. desk' \in [Workers -> StaffRequest \cup Reconciliation \cup {Idle}]
      BY <1>1 DEF TalentInv, TypeOK
    <3>3. outdated' \subseteq Postings
      BY <2>1, <2>2 DEF TalentInv, TypeOK
    <3> QED  BY <1>1, <2>1, <2>7, <2>8, <2>9, <3>1, <3>2, <3>3 DEF TalentInv, TypeOK
  <2>12. Mapped \subseteq Mapped' /\ \A p \in Listed(d) : p \in Mapped'
    BY <2>2, <2>4, NoneIsNoRow DEF Mapped
  <2>13. Requested \subseteq Requested' /\ new \subseteq Requested'
    BY <2>3, <2>4, <2>6 DEF Requested
  <2>14. Applied \subseteq Applied' /\ \A a \in Applied' : a \in Applied \/ a[1] \in new \cup Requested
    BY <2>3, <2>10 DEF Applied
  <2>15. RowsHang'
    <3>1. \A p \in Postings : ref'[p] # "none" \/ decision'[p] # "none" => p \in Mapped'
      BY <1>1, <2>4, <2>12 DEF TalentInv, RowsHang
    <3>2. \A a \in Applied' : a[1] \in Requested'
      BY <2>13, <2>14 DEF TalentInv, RowsHang
    <3>3. \A a \in Postings \X People : interview'[a] # None => a \in Applied'
      BY <2>1, <2>14 DEF TalentInv, RowsHang
    <3> QED  BY <3>1, <3>2, <3>3 DEF RowsHang
  <2>16. \A v \in Workers : Rests(desk'[v], Mapped', Requested', Applied')
    <3>1. \A v \in Workers : desk'[v] \in {desk[v], Idle}
      BY <1>1 DEF TalentInv, TypeOK
    <3> QED  BY <2>12, <2>13, <2>14, <3>1, RestsKept
  <2>17. StaffDecisionStands'
    <3> SUFFICES ASSUME NEW p \in Postings, p \notin outdated', decision[p] # "none"
                 PROVE  p \notin outdated /\ mapping'[p] = mapping[p]
      BY <1>1, ClientAssumption DEF TalentInv, StaffDecisionStands
    <3>1. p \notin outdated /\ mapping[p] # None
      BY <2>1 DEF TalentInv, RowsHang, Mapped
    <3>2. CASE p \in Listed(d)
      <4>1. mapping[p] = d.rows[p] /\ mapping'[p] = Own(d, p) /\ mapping[p] \in Mapping
        BY <2>1, <2>2, <2>4, <3>1, <3>2
      <4>2. Rejected(mapping[p]) \/ Manual(mapping[p])
        BY <3>1 DEF TalentInv, TypeOK, StaffDecisionStands, Rejected, Manual
      <4> QED  BY <3>1, <4>1, <4>2, ReconciledMapping DEF Own
    <3>3. CASE p \notin Listed(d)
      BY <2>4, <3>1, <3>3
    <3> QED  BY <3>2, <3>3
  <2>18. RejectedIsOut'
    BY <1>1, <2>3, <2>4, <2>6 DEF TalentInv, RejectedIsOut, Requested
  <2>19. RowsHeld'
    <3>1. ASSUME NEW v \in Workers \ {w}, desk[v].op = "promoting", NEW p \in Listed(desk[v])
          PROVE  mapping'[p] = mapping[p]
      <4>1. p \in Postings /\ p \notin Listed(d)
        BY <1>1, <3>1 DEF TalentInv, RowsHeld, Listed, d
      <4> QED  BY <2>4, <4>1
    <3> QED  BY <1>1, <3>1, IdleRests, HeldKept
  <2> QED  BY <2>11, <2>15, <2>16, <2>17, <2>18, <2>19 DEF TalentInv
<1> QED  BY <1>2, <1>3

-----------------------------------------------------------------------------
\* The commits of staff

\* A decision commits: it is in its place unless its copy was outdated.
LEMMA CommitDecisionStep ==
  ASSUME TalentInv, NEW w \in Workers, CommitDecision(w)
  PROVE  TalentInv'
<1> DEFINE d == desk[w]
           p == desk[w].on
           row == Written(mapping[p], d.loaded, d.copy)
<1>1. /\ d.op \in {"verify", "unmap", "reopen"}
      /\ mapping' = [mapping EXCEPT ![p] = row]
      /\ decision' = [decision EXCEPT ![p] =
           CASE d.op = "verify" -> d.copy.client
             [] d.op = "unmap"  -> "rejected"
             [] d.op = "reopen" -> "none"]
      /\ outdated' = IF mapping[p] = d.loaded THEN outdated \ {p} ELSE outdated \cup {p}
      /\ desk' = [desk EXCEPT ![w] = Idle] /\ ~Locked(p)
      /\ UNCHANGED <<fact, candidacy, changes, ref, request, application, interview, requests, crossed>>
  BY DEF CommitDecision, Leave, source
<1>2. p \in Mapped /\ Decides(d) /\ p \in Postings /\ d.loaded \in Mapping /\ d.copy \in Mapping
  BY <1>1, DeskType DEF TalentInv, Rests
<1>3. mapping[p] \in Mapping
  BY <1>2 DEF Mapped, TalentInv, TypeOK
<1>4. row \in Mapping /\ row # None /\ (mapping[p] = d.loaded => row = d.copy)
  BY <1>2, <1>3, WrittenMapping, NoneIsNoRow
<1> HIDE DEF d, p, row
<1>5. /\ d.op = "verify" => decision'[p] = d.copy.client
      /\ d.op = "unmap" => decision'[p] = "rejected"
      /\ d.op = "reopen" => decision'[p] = "none"
  BY <1>1, <1>2 DEF TalentInv, TypeOK
<1>6. decision'[p] \in Clients \cup {"none", "rejected"}
  BY <1>1, <1>2, <1>5 DEF Decides
<1>7. mapping'[p] = row /\ \A q \in Postings \ {p} : mapping'[q] = mapping[q] /\ decision'[q] = decision[q]
  BY <1>1, <1>2 DEF TalentInv, TypeOK
<1>8. TypeOK'
  <2>1. mapping' \in [Postings -> Mapping \cup {None}] /\ outdated' \subseteq Postings
    BY <1>1, <1>2, <1>4 DEF TalentInv, TypeOK
  <2>2. decision' \in [Postings -> Clients \cup {"none", "rejected"}]
    BY <1>1, <1>6 DEF TalentInv, TypeOK
  <2>3. desk' \in [Workers -> StaffRequest \cup Reconciliation \cup {Idle}]
    BY <1>1 DEF TalentInv, TypeOK
  <2> QED  BY <1>1, <2>1, <2>2, <2>3 DEF TalentInv, TypeOK
<1>9. Mapped' = Mapped /\ Requested' = Requested /\ Applied' = Applied
  <2>1. Mapped' = Mapped
    BY <1>2, <1>4, <1>7 DEF Mapped
  <2> QED  BY <1>1, <2>1 DEF Requested, Applied
<1>10. RowsHang'
  <2>1. \A q \in Postings : ref'[q] # "none" \/ decision'[q] # "none" => q \in Mapped'
    BY <1>1, <1>2, <1>7, <1>9 DEF TalentInv, RowsHang
  <2> QED  BY <1>1, <1>9, <2>1 DEF TalentInv, RowsHang
<1>11. \A v \in Workers : Rests(desk'[v], Mapped', Requested', Applied')
  <2>1. \A v \in Workers : desk'[v] \in {desk[v], Idle}
    BY <1>1 DEF TalentInv, TypeOK
  <2> QED  BY <1>9, <2>1, RestsKept
<1>12. StaffDecisionStands'
  <2> SUFFICES ASSUME NEW q \in Postings, q \notin outdated'
               PROVE  /\ decision'[q] = "rejected" => mapping'[q].status = "REJECTED"
                      /\ decision'[q] \in Clients =>
                           mapping'[q] = [status |-> "VERIFIED", client |-> decision'[q], source |-> "MANUAL"]
    BY DEF StaffDecisionStands
  <2>1. CASE q # p
    BY <1>1, <1>7, <2>1 DEF TalentInv, StaffDecisionStands
  <2>2. CASE q = p
    <3>1. mapping'[p] = d.copy
      BY <1>1, <1>4, <1>7, <2>2
    <3>2. d.copy = [status |-> d.copy.status, client |-> d.copy.client, source |-> d.copy.source]
      BY <1>2 DEF Mapping
    <3>3. CASE d.op = "verify"
      BY <1>2, <1>5, <2>2, <3>1, <3>2, <3>3, ClientAssumption DEF Decides
    <3>4. CASE d.op = "unmap"
      BY <1>2, <1>5, <2>2, <3>1, <3>4, ClientAssumption DEF Decides
    <3>5. CASE d.op = "reopen"
      BY <1>5, <2>2, <3>5, ClientAssumption
    <3> QED  BY <1>1, <3>3, <3>4, <3>5
  <2> QED  BY <2>1, <2>2
<1>13. RejectedIsOut'
  BY <1>1, <1>9 DEF TalentInv, RejectedIsOut
<1>14. RowsHeld'
  <2>1. \A v \in Workers \ {w} : desk[v].op = "promoting" =>
          \A q \in Listed(desk[v]) : mapping'[q] = mapping[q]
    BY <1>1, <1>7 DEF Locked, Listed
  <2> QED  BY <1>1, <2>1, IdleRests, HeldKept
<1> QED  BY <1>8, <1>10, <1>11, <1>12, <1>13, <1>14 DEF TalentInv

\* A move commits: a review anew clears what crossed, a write that meets
\* another marks the request.
LEMMA CommitMoveStep ==
  ASSUME TalentInv, NEW w \in Workers, CommitMove(w)
  PROVE  TalentInv'
<1> DEFINE d == desk[w]
           p == desk[w].on
           row == Written(request[p], d.loaded, d.copy)
<1>1. /\ d.op \in {"review", "workflow"}
      /\ request' = [request EXCEPT ![p] = row]
      /\ crossed' = IF request[p] # d.loaded THEN crossed \cup {p}
                    ELSE IF d.op = "review" THEN crossed \ {p} ELSE crossed
      /\ desk' = [desk EXCEPT ![w] = Idle]
      /\ UNCHANGED <<fact, candidacy, changes, ref, mapping, application, interview, requests,
                     decision, outdated>>
  BY DEF CommitMove, Leave, source
<1>2. p \in Requested /\ Moves(d) /\ p \in Postings /\ d.loaded \in Workflow /\ d.copy \in Workflow
  BY <1>1, DeskType DEF TalentInv, Rests
<1>3. request[p] \in Workflow
  BY <1>2 DEF Requested, TalentInv, TypeOK
<1>4. row \in Workflow /\ row # None /\ (request[p] = d.loaded => row = d.copy)
  BY <1>2, <1>3, WrittenWorkflow, NoneIsNoRow
<1> HIDE DEF d, p, row
<1>5. request'[p] = row /\ \A q \in Postings \ {p} : request'[q] = request[q]
  BY <1>1, <1>2 DEF TalentInv, TypeOK
<1>6. TypeOK'
  <2>1. request' \in [Postings -> Workflow \cup {None}] /\ crossed' \subseteq Postings
    BY <1>1, <1>2, <1>4 DEF TalentInv, TypeOK
  <2>2. desk' \in [Workers -> StaffRequest \cup Reconciliation \cup {Idle}]
    BY <1>1 DEF TalentInv, TypeOK
  <2> QED  BY <1>1, <2>1, <2>2 DEF TalentInv, TypeOK
<1>7. Mapped' = Mapped /\ Requested' = Requested /\ Applied' = Applied
  <2>1. Requested' = Requested
    BY <1>2, <1>4, <1>5 DEF Requested
  <2> QED  BY <1>1, <2>1 DEF Mapped, Applied
<1>8. RowsHang' /\ StaffDecisionStands'
  BY <1>1, <1>7 DEF TalentInv, RowsHang, StaffDecisionStands
<1>9. \A v \in Workers : Rests(desk'[v], Mapped', Requested', Applied')
  <2>1. \A v \in Workers : desk'[v] \in {desk[v], Idle}
    BY <1>1 DEF TalentInv, TypeOK
  <2> QED  BY <1>7, <2>1, RestsKept
<1>10. RejectedIsOut'
  <2> SUFFICES ASSUME NEW q \in Requested, q \notin crossed', request'[q].cs = "REJECTED"
               PROVE  request'[q].lifecycle \in {"REJECTED", "FULFILLED"}
    BY <1>7 DEF RejectedIsOut
  <2>1. CASE q # p
    BY <1>1, <1>5, <2>1 DEF TalentInv, RejectedIsOut, Requested
  <2>2. CASE q = p
    <3>1. request[p] = d.loaded /\ request'[p] = d.copy
      BY <1>1, <1>4, <1>5, <2>2
    <3>2. CASE d.op = "review"
      BY <1>2, <2>2, <3>1, <3>2 DEF Moves
    <3>3. CASE d.op = "workflow"
      <4>1. request[p].cs = "REJECTED" /\ p \notin crossed
        BY <1>1, <1>2, <2>2, <3>1, <3>3 DEF Moves
      <4>2. request[p].lifecycle \in {"REJECTED", "FULFILLED"}
        BY <1>2, <4>1 DEF TalentInv, RejectedIsOut
      <4> QED  BY <1>2, <2>2, <3>1, <3>3, <4>2 DEF Moves
    <3> QED  BY <1>1, <3>2, <3>3
  <2> QED  BY <2>1, <2>2
<1>11. RowsHeld'
  BY <1>1, IdleRests, HeldKept
<1> QED  BY <1>6, <1>8, <1>9, <1>10, <1>11 DEF TalentInv

\* Curating, applying and scheduling.
LEMMA CurationSteps ==
  ASSUME TalentInv
  PROVE  /\ \A w \in Workers : CommitCurate(w) => TalentInv'
         /\ \A p \in Postings, k \in People, stage \in Stages : Apply(p, k, stage) => TalentInv'
         /\ \A p \in Postings, k \in People, visible \in BOOLEAN : Schedule(p, k, visible) => TalentInv'
         /\ \A p \in Postings, k \in People, status \in {"COMPLETED", "CANCELLED"} :
              SetInterview(p, k, status) => TalentInv'
<1>1. TypeOK /\ requests + 1 \in Nat
  BY DEF TalentInv, TypeOK
<1>2. ASSUME NEW w \in Workers, CommitCurate(w)
      PROVE  TalentInv'
  <2> DEFINE d == desk[w]
             a == <<d.on, d.of>>
             row == [application[a] EXCEPT !.visible = d.to]
  <2>1. /\ d.op = "curate" /\ application' = [application EXCEPT ![a] = row]
        /\ desk' = [desk EXCEPT ![w] = Idle]
        /\ UNCHANGED <<fact, candidacy, changes, ref, mapping, request, interview, requests,
                       decision, outdated, crossed>>
    BY <1>2 DEF CommitCurate, Leave, source
  <2>2. a \in Applied /\ d.on \in Postings /\ d.of \in People /\ d.to \in BOOLEAN
    BY <1>1, <2>1, DeskType DEF TalentInv, Rests
  <2>3. application[a] \in Application
    BY <1>1, <2>2 DEF Applied, TypeOK
  <2>4. row \in Application /\ row # None
    <3>1. row \in Application
      BY <2>2, <2>3 DEF Application
    <3> QED  BY <3>1, NoneIsNoRow
  <2> HIDE DEF d, a, row
  <2>5. a \in Postings \X People
    BY <2>2 DEF Applied
  <2>6. TypeOK'
    <3>1. application' \in [Postings \X People -> Application \cup {None}]
      BY <1>1, <2>1, <2>4 DEF TypeOK
    <3>2. desk' \in [Workers -> StaffRequest \cup Reconciliation \cup {Idle}]
      BY <1>1, <2>1 DEF TypeOK
    <3> QED  BY <1>1, <2>1, <3>1, <3>2 DEF TypeOK
  <2>7. Mapped' = Mapped /\ Requested' = Requested
    BY <2>1 DEF Mapped, Requested
  <2>8. Applied' = Applied
    <3>1. \A b \in Postings \X People : application'[b] = IF b = a THEN row ELSE application[b]
      BY <1>1, <2>1 DEF TypeOK
    <3> QED  BY <2>2, <2>4, <3>1 DEF Applied
  <2>9. RowsHang' /\ StaffDecisionStands' /\ RejectedIsOut'
    BY <2>1, <2>7, <2>8 DEF TalentInv, RowsHang, StaffDecisionStands, RejectedIsOut
  <2>10. \A v \in Workers : Rests(desk'[v], Mapped', Requested', Applied')
    <3>1. \A v \in Workers : desk'[v] \in {desk[v], Idle}
      BY <1>1, <2>1 DEF TypeOK
    <3> QED  BY <2>7, <2>8, <3>1, RestsKept
  <2>11. RowsHeld'
    BY <2>1, IdleRests, HeldKept
  <2> QED  BY <2>6, <2>9, <2>10, <2>11 DEF TalentInv
<1>3. ASSUME NEW p \in Postings, NEW k \in People, NEW stage \in Stages, Apply(p, k, stage)
      PROVE  TalentInv'
  <2> DEFINE a == <<p, k>>
             row == [stage |-> stage, visible |-> FALSE]
  <2>1. /\ request[p] # None /\ application' = [application EXCEPT ![a] = row]
        /\ requests' = requests + 1
        /\ UNCHANGED <<fact, candidacy, changes, ref, mapping, request, interview, desk,
                       decision, outdated, crossed>>
    BY <1>3 DEF Apply, source
  <2>2. row \in Application /\ row # None
    <3>1. row \in Application
      BY DEF Application
    <3> QED  BY <3>1, NoneIsNoRow
  <2>3. a \in Postings \X People /\ a[1] = p
    OBVIOUS
  <2> HIDE DEF a, row
  <2>4. TypeOK'
    <3>1. application' \in [Postings \X People -> Application \cup {None}]
      BY <1>1, <2>1, <2>2 DEF TypeOK
    <3> QED  BY <1>1, <2>1, <3>1 DEF TypeOK
  <2>5. Mapped' = Mapped /\ Requested' = Requested
    BY <2>1 DEF Mapped, Requested
  <2>6. Applied' = Applied \cup {a}
    <3>1. \A b \in Postings \X People : application'[b] = IF b = a THEN row ELSE application[b]
      BY <1>1, <2>1 DEF TypeOK
    <3> QED  BY <2>2, <2>3, <3>1 DEF Applied
  <2>7. RowsHang'
    BY <2>1, <2>3, <2>5, <2>6 DEF TalentInv, RowsHang, Requested
  <2>8. StaffDecisionStands' /\ RejectedIsOut'
    BY <2>1, <2>5 DEF TalentInv, StaffDecisionStands, RejectedIsOut
  <2>9. \A v \in Workers : Rests(desk'[v], Mapped', Requested', Applied')
    BY <2>1, <2>5, <2>6, RestsKept
  <2>10. RowsHeld'
    BY <2>1, HeldStays
  <2> QED  BY <2>4, <2>7, <2>8, <2>9, <2>10 DEF TalentInv
<1>4. ASSUME NEW p \in Postings, NEW k \in People, NEW row \in Interview, application[<<p, k>>] # None,
             interview' = [interview EXCEPT ![<<p, k>>] = row], requests' = requests + 1,
             UNCHANGED <<source, ref, mapping, request, application, desk, decision, outdated, crossed>>
      PROVE  TalentInv'
  <2>1. interview' \in [Postings \X People -> Interview \cup {None}]
    BY <1>1, <1>4 DEF TypeOK
  <2>2. TypeOK'
    BY <1>1, <1>4, <2>1 DEF TypeOK, source
  <2>3. Mapped' = Mapped /\ Requested' = Requested /\ Applied' = Applied
    BY <1>4 DEF Mapped, Requested, Applied
  <2>4. <<p, k>> \in Applied
    BY <1>4 DEF Applied
  <2>5. \A b \in Postings \X People : interview'[b] = IF b = <<p, k>> THEN row ELSE interview[b]
    BY <1>1, <1>4 DEF TypeOK
  <2>6. RowsHang' /\ StaffDecisionStands' /\ RejectedIsOut'
    BY <1>4, <2>3, <2>4, <2>5 DEF TalentInv, RowsHang, StaffDecisionStands, RejectedIsOut
  <2>7. \A v \in Workers : Rests(desk'[v], Mapped', Requested', Applied')
    BY <1>4, <2>3, RestsKept
  <2>8. RowsHeld'
    BY <1>4, HeldStays
  <2> QED  BY <2>2, <2>6, <2>7, <2>8 DEF TalentInv
<1>5. \A p \in Postings, k \in People, visible \in BOOLEAN : Schedule(p, k, visible) => TalentInv'
  <2> SUFFICES ASSUME NEW p \in Postings, NEW k \in People, NEW visible \in BOOLEAN,
                      Schedule(p, k, visible)
               PROVE  TalentInv'
    OBVIOUS
  <2> DEFINE row == [status |-> "SCHEDULED", visible |-> visible]
  <2>1. row \in Interview
    BY DEF Interview
  <2>2. /\ application[<<p, k>>] # None /\ interview' = [interview EXCEPT ![<<p, k>>] = row]
        /\ requests' = requests + 1
        /\ UNCHANGED <<source, ref, mapping, request, application, desk, decision, outdated, crossed>>
    BY DEF Schedule
  <2> HIDE DEF row
  <2> QED  BY <1>4, <2>1, <2>2
<1>6. \A p \in Postings, k \in People, status \in {"COMPLETED", "CANCELLED"} :
        SetInterview(p, k, status) => TalentInv'
  <2> SUFFICES ASSUME NEW p \in Postings, NEW k \in People, NEW status \in {"COMPLETED", "CANCELLED"},
                      SetInterview(p, k, status)
               PROVE  TalentInv'
    OBVIOUS
  <2> DEFINE row == [interview[<<p, k>>] EXCEPT !.status = status]
  <2>1. interview[<<p, k>>] # None /\ interview[<<p, k>>] \in Interview
    BY <1>1 DEF SetInterview, TypeOK
  <2>2. row \in Interview
    BY <2>1 DEF Interview
  <2>3. application[<<p, k>>] # None
    BY <2>1 DEF TalentInv, RowsHang, Applied
  <2>4. /\ interview' = [interview EXCEPT ![<<p, k>>] = row]
        /\ requests' = requests + 1
        /\ UNCHANGED <<source, ref, mapping, request, application, desk, decision, outdated, crossed>>
    BY DEF SetInterview
  <2> HIDE DEF row
  <2> QED  BY <1>4, <2>2, <2>3, <2>4
<1> QED  BY <1>2, <1>3, <1>5, <1>6

-----------------------------------------------------------------------------
\* The invariant is inductive

\* Lever changes, and requests that die.
LEMMA OtherSteps ==
  ASSUME TalentInv
  PROVE  /\ Lever => TalentInv'
         /\ \A w \in Workers : Abort(w) => TalentInv'
         /\ UNCHANGED vars => TalentInv'
<1>1. ASSUME UNCHANGED <<records, desk, requests, decision, outdated, crossed>>, changes' \in Nat,
             fact' \in [Postings -> Posting \cup {None}], candidacy' \in [Candidacies -> Stages \cup {"none"}]
      PROVE  TalentInv'
  <2>1. UNCHANGED <<ref, mapping, request, application, interview>>
    BY <1>1 DEF records
  <2>2. Mapped' = Mapped /\ Requested' = Requested /\ Applied' = Applied
    BY <2>1 DEF Mapped, Requested, Applied
  <2>3. TypeOK'
    BY <1>1, <2>1 DEF TalentInv, TypeOK
  <2>4. RowsHeld'
    BY <1>1, <2>1, HeldStays
  <2>5. \A w \in Workers : Rests(desk'[w], Mapped', Requested', Applied')
    BY <1>1, <2>2 DEF TalentInv
  <2>6. RowsHang' /\ StaffDecisionStands' /\ RejectedIsOut'
    BY <1>1, <2>1, <2>2 DEF TalentInv, RowsHang, StaffDecisionStands, RejectedIsOut
  <2> QED  BY <2>3, <2>4, <2>5, <2>6 DEF TalentInv
<1>2. /\ fact \in [Postings -> Posting \cup {None}]
      /\ candidacy \in [Candidacies -> Stages \cup {"none"}]
      /\ changes \in Nat /\ changes + 1 \in Nat
  BY DEF TalentInv, TypeOK
<1>3. Lever => TalentInv'
  <2>1. ASSUME NEW p \in Postings, NEW tags \in TagChoices, NEW archived \in BOOLEAN,
               ChangePosting(p, tags, archived)
        PROVE  TalentInv'
    <3> DEFINE posting == [tags |-> tags, archived |-> archived]
    <3>1. posting \in Posting
      BY DEF Posting
    <3>2. /\ fact' = [fact EXCEPT ![p] = posting] /\ changes' = changes + 1
          /\ UNCHANGED <<candidacy, records, desk, requests, decision, outdated, crossed>>
      BY <2>1 DEF ChangePosting
    <3> HIDE DEF posting
    <3>3. fact' \in [Postings -> Posting \cup {None}]
      BY <1>2, <3>1, <3>2
    <3> QED  BY <1>1, <1>2, <3>2, <3>3
  <2>2. ASSUME NEW o \in Candidacies, NEW stage \in StageChoices, ChangeCandidacy(o, stage)
        PROVE  TalentInv'
    <3>1. candidacy' \in [Candidacies -> Stages \cup {"none"}]
      BY <1>2, <2>2, ChoiceAssumption DEF ChangeCandidacy
    <3> QED  BY <1>1, <1>2, <2>2, <3>1 DEF ChangeCandidacy
  <2> QED  BY <2>1, <2>2 DEF Lever
<1>4. ASSUME NEW w \in Workers, Abort(w)
      PROVE  TalentInv'
  <2>1. /\ desk' = [desk EXCEPT ![w] = Idle] /\ requests' \in Nat
        /\ UNCHANGED <<source, records, decision, outdated, crossed>>
    BY <1>4 DEF Abort, Leave, TalentInv, TypeOK
  <2>2. /\ Rests(Idle, Mapped, Requested, Applied)
        /\ Idle \in StaffRequest \cup Reconciliation \cup {Idle} /\ Idle.op = "idle"
    BY IdleRests
  <2> QED  BY <2>1, <2>2, DeskStep
<1>5. UNCHANGED vars => TalentInv'
  <2> SUFFICES ASSUME UNCHANGED vars PROVE TalentInv'
    OBVIOUS
  <2>1. UNCHANGED <<records, desk, requests, decision, outdated, crossed, fact, candidacy, changes>>
    BY DEF vars, source
  <2> QED  BY <1>1, <1>2, <2>1
<1> QED  BY <1>3, <1>4, <1>5

\* It holds at first: there is no row and nobody decided.
LEMMA InitTalent == Init => TalentInv
<1> SUFFICES ASSUME Init PROVE TalentInv
  OBVIOUS
<1>1. TypeOK
  BY DEF Init, TypeOK
<1>2. Mapped = {} /\ Requested = {} /\ Applied = {}
  BY DEF Init, Mapped, Requested, Applied
<1>3. RowsHang /\ RejectedIsOut
  BY <1>2 DEF Init, RowsHang, RejectedIsOut
<1>4. \A w \in Workers : Rests(desk[w], Mapped, Requested, Applied)
  <2>1. \A w \in Workers : desk[w] = Idle
    BY DEF Init
  <2> QED  BY <2>1, IdleRests
<1>5. StaffDecisionStands
  BY ClientAssumption DEF Init, StaffDecisionStands
<1>6. RowsHeld
  BY IdleRests DEF Init, RowsHeld
<1> QED  BY <1>1, <1>3, <1>4, <1>5, <1>6 DEF TalentInv

\* Every step keeps it.
LEMMA NextTalent == TalentInv /\ [Next]_vars => TalentInv'
<1> SUFFICES ASSUME TalentInv, [Next]_vars PROVE TalentInv'
  OBVIOUS
<1>1. DecisionChoices \subseteq Decisions /\ StageChoices \subseteq Stages
  BY ChoiceAssumption
<1>2. CASE Lever \/ UNCHANGED vars
  BY <1>2, OtherSteps
<1>3. ASSUME NEW w \in Workers, Reconcile(w) PROVE TalentInv'
  BY <1>3, ReconcileSteps, PromoteStep, CommitReconciliationStep DEF Reconcile
<1>4. ASSUME NEW w \in Workers, DecidePosting(w) PROVE TalentInv'
  BY <1>4, LoadSteps, CommitDecisionStep DEF DecidePosting
<1>5. ASSUME NEW w \in Workers, MoveRequest(w) PROVE TalentInv'
  BY <1>1, <1>5, LoadSteps, CommitMoveStep DEF MoveRequest
<1>6. ASSUME NEW w \in Workers, Abort(w) PROVE TalentInv'
  BY <1>6, OtherSteps
<1>7. CASE CurateView
  BY <1>1, <1>7, LoadSteps, CurationSteps DEF CurateView
<1> QED  BY <1>2, <1>3, <1>4, <1>5, <1>6, <1>7 DEF Next

\* In every state every row is of its type and hangs on the row it belongs to,
\* every request in flight finds its row when it commits, and what staff
\* decided stands where no copy outlived a commit.
THEOREM TalentInvariant == Spec => []TalentInv
  BY InitTalent, NextTalent, PTL DEF Spec

\* Rows are of their types, and unless a copy outlived a commit no tag
\* re-verifies a rejected posting or takes a manually verified one from its
\* client (_reconcile_one).
THEOREM StaffDecisionsStand == Spec => []MappingInv
<1>1. TalentInv => MappingInv
  BY DEF TalentInv, MappingInv
<1> QED  BY TalentInvariant, <1>1, PTL

\* Unless a copy outlived a commit since, nobody's dashboard counts a rejected
\* request as active (review_request, update_stage, dashboard_service).
THEOREM RejectedStaysRejected == Spec => []RejectedStaysOut
<1>1. TalentInv => RejectedStaysOut
  BY DEF TalentInv, RejectedIsOut, Requested, RejectedStaysOut, ActiveForStaff, ActiveFor, RequestsOf
<1> QED  BY TalentInvariant, <1>1, PTL

-----------------------------------------------------------------------------
\* For whom a talent request is made

\* No commit changes the client of a request, or takes the request away; only
\* a reconciliation makes one.
LEMMA RequestKept ==
  ASSUME TalentInv, [Next]_vars
  PROVE  /\ \A p \in Requested : request'[p] # None /\ request'[p].client = request[p].client
         /\ (\E w \in Workers : CommitReconciliation(w)) \/ Requested' = Requested
<1>1. CASE request' = request
  BY <1>1 DEF Requested
<1>2. ASSUME NEW w \in Workers, CommitMove(w)
      PROVE  /\ \A p \in Requested : request'[p] # None /\ request'[p].client = request[p].client
             /\ Requested' = Requested
  <2> DEFINE d == desk[w]
             p == desk[w].on
             row == Written(request[p], d.loaded, d.copy)
  <2>1. d.op \in {"review", "workflow"} /\ request' = [request EXCEPT ![p] = row]
    BY <1>2 DEF CommitMove
  <2>2. p \in Requested /\ Moves(d) /\ d.loaded \in Workflow /\ d.copy \in Workflow
    BY <2>1, DeskType DEF TalentInv, Rests
  <2>3. request[p] \in Workflow /\ p \in Postings
    BY <2>2 DEF Requested, TalentInv, TypeOK
  <2>4. row \in Workflow /\ row.client = request[p].client
    BY <2>2, <2>3, WrittenWorkflow DEF Moves
  <2>5. row # None
    BY <2>4, NoneIsNoRow
  <2> HIDE DEF d, p, row
  <2>6. \A q \in Postings : request'[q] = IF q = p THEN row ELSE request[q]
    BY <2>1 DEF TalentInv, TypeOK
  <2> QED  BY <2>2, <2>4, <2>5, <2>6 DEF Requested
<1>3. ASSUME NEW w \in Workers, CommitReconciliation(w)
      PROVE  \A p \in Requested : request'[p] = request[p]
  BY <1>3 DEF CommitReconciliation, Requested, records
<1>4. Lever \/ CurateView => request' = request
  <2>1. Lever => request' = request
    BY DEF Lever, ChangePosting, ChangeCandidacy, records
  <2>2. CurateView => request' = request
    BY DEF CurateView, Curate, CommitCurate, Apply, Schedule, SetInterview, records
  <2> QED  BY <2>1, <2>2
<1>5. UNCHANGED vars => request' = request
  BY DEF vars, records
<1>6. \A w \in Workers : DecidePosting(w) \/ Abort(w) => request' = request
  BY DEF DecidePosting, Verify, Unmap, Reopen, Decide, CommitDecision, Abort, records
<1>7. \A w \in Workers : MoveRequest(w) => request' = request \/ CommitMove(w)
  BY DEF MoveRequest, Review, UpdateStage, UpdateTaStatus, Move, records
<1>8. \A w \in Workers : Reconcile(w) => request' = request \/ CommitReconciliation(w)
  BY DEF Reconcile, Fetch, LoadMappings, Promote, records
<1>9. CASE \E w \in Workers : CommitMove(w)
  BY <1>2, <1>9
<1>10. CASE \E w \in Workers : CommitReconciliation(w)
  BY <1>3, <1>10 DEF Requested
<1> QED  BY <1>1, <1>4, <1>5, <1>6, <1>7, <1>8, <1>9, <1>10 DEF Next

\* What a reconciliation promotes is verified, for the client of the request,
\* unless its copy is outdated.
LEMMA PromotedVerified ==
  ASSUME TalentInv, NEW w \in Workers, CommitReconciliation(w),
         NEW p \in Postings, request[p] = None, request'[p] # None
  PROVE  \/ p \in outdated' \/ Overtaken(p)
         \/ mapping'[p].status = "VERIFIED" /\ mapping'[p].client = request'[p].client
<1> DEFINE d == desk[w]
           new == {q \in Postings : d.new[q] # None}
           fails == \E q \in new : request[q] # None
<1>1. d.op = "promoting" /\ ~fails /\ desk'[w] = Idle
  BY DEF CommitReconciliation, records, Leave, TalentInv, TypeOK
<1>2. /\ mapping' = [q \in Postings |-> IF q \in Listed(d) THEN Flushed(d, q) ELSE mapping[q]]
      /\ request' = [q \in Postings |-> IF q \in new THEN Sourced(PromotedFor(d, q)) ELSE request[q]]
      /\ outdated' = outdated \cup {q \in Listed(d) : mapping[q] # None /\ mapping[q] # d.rows[q]}
  BY <1>1 DEF CommitReconciliation
<1>3. p \in new
  BY <1>2
<1>4. IF p \in Listed(d) THEN d.new[p] = Own(d, p) ELSE d.new[p].status = "VERIFIED"
  <2>1. Promotes(d, Requested)
    BY <1>1 DEF TalentInv, Rests
  <2> QED  BY <1>3, <2>1 DEF Promotes
<1>5. p \in Listed(d) =>
        /\ Flushed(d, p).status = "VERIFIED"
        /\ mapping[p] = None \/ mapping[p] = d.rows[p] => Flushed(d, p) = Own(d, p)
  BY <1>1, <1>3, FlushedMapping DEF TalentInv, RowsHeld
<1>6. p \notin Listed(d) => mapping[p] = d.new[p] \/ Overtaken(p)
  BY <1>1 DEF Overtaken
<1> HIDE DEF d, fails, new
<1>7. request'[p].client = d.new[p].client
  BY <1>2, <1>3 DEF Sourced, PromotedFor
<1>8. CASE p \in Listed(d)
  BY <1>2, <1>4, <1>5, <1>7, <1>8
<1>9. CASE p \notin Listed(d)
  BY <1>2, <1>4, <1>6, <1>7, <1>9
<1> QED  BY <1>8, <1>9

\* A talent request is created for nobody but the client its posting is
\* verified for, unless the copy the reconciliation went by outlived a commit:
\* of a posting it fetched before it holds the row, of any other after it
\* listed what is verified (VerifiedPostingPromotionReconciler).
THEOREM RequestsAreForVerified == Spec => RequestsAreVerified
<1> DEFINE Verifies == \A p \in Postings : request[p] = None /\ request'[p] # None =>
             \/ p \in outdated' \/ Overtaken(p)
             \/ mapping'[p].status = "VERIFIED" /\ mapping'[p].client = request'[p].client
<1>1. TalentInv /\ [Next]_vars => Verifies
  <2> SUFFICES ASSUME TalentInv, [Next]_vars, NEW p \in Postings,
                      request[p] = None, request'[p] # None
               PROVE  \/ p \in outdated' \/ Overtaken(p)
                      \/ mapping'[p].status = "VERIFIED" /\ mapping'[p].client = request'[p].client
    OBVIOUS
  <2>1. PICK w \in Workers : CommitReconciliation(w)
    BY RequestKept DEF Requested
  <2> QED  BY <2>1, PromotedVerified
<1>2. TalentInv /\ [Next]_vars => [Verifies]_vars
  BY <1>1
<1> HIDE DEF Verifies
<1>3. Spec => [][Verifies]_vars
  BY TalentInvariant, <1>2, PTL DEF Spec
<1> QED  BY <1>3 DEF RequestsAreVerified, Verifies

-----------------------------------------------------------------------------
\* Whom a client is shown

\* Their application is curated, or an interview is announced to the client.
Visible(a) ==
  \/ application[a] # None /\ application[a].visible
  \/ interview[a] # None /\ interview[a].visible

\* What Shown holds.
LEMMA ShownIs ==
  ASSUME NEW s
  PROVE  s \in Shown <=>
           \E p \in Postings, k \in People, c \in Clients :
             s = <<p, k, c>> /\ request[p] # None /\ request[p].client = c /\ Visible(<<p, k>>)
<1>1. ASSUME s \in Shown
      PROVE  \E p \in Postings, k \in People, c \in Clients :
               s = <<p, k, c>> /\ request[p] # None /\ request[p].client = c /\ Visible(<<p, k>>)
  <2>1. PICK c \in Clients : s \in {<<a[1], a[2], c>> : a \in CandidatesFor(c) \cup InterviewsFor(c)}
    BY <1>1 DEF Shown
  <2>2. PICK a \in CandidatesFor(c) \cup InterviewsFor(c) : s = <<a[1], a[2], c>>
    BY <2>1
  <2>3. a \in RequestsOf(c) \X People /\ Visible(a)
    BY <2>2 DEF CandidatesFor, InterviewsFor, Visible
  <2>4. a = <<a[1], a[2]>> /\ a[1] \in RequestsOf(c) /\ a[2] \in People
    BY <2>3
  <2>5. a[1] \in Postings /\ request[a[1]] # None /\ request[a[1]].client = c
    BY <2>4 DEF RequestsOf
  <2> QED  BY <2>2, <2>3, <2>4, <2>5
<1>2. ASSUME NEW p \in Postings, NEW k \in People, NEW c \in Clients,
             s = <<p, k, c>>, request[p] # None, request[p].client = c, Visible(<<p, k>>)
      PROVE  s \in Shown
  <2>1. <<p, k>> \in RequestsOf(c) \X People
    BY <1>2 DEF RequestsOf
  <2>2. <<p, k>> \in CandidatesFor(c) \cup InterviewsFor(c)
    BY <1>2, <2>1 DEF CandidatesFor, InterviewsFor, Visible
  <2> DEFINE a == <<p, k>>
  <2>3. s = <<a[1], a[2], c>>
    BY <1>2
  <2>4. s \in {<<b[1], b[2], c>> : b \in CandidatesFor(c) \cup InterviewsFor(c)}
    BY <2>2, <2>3
  <2> QED  BY <2>4 DEF Shown
<1> QED  BY <1>1, <1>2

\* Nothing becomes visible but by the hand of staff: not by a promotion, not
\* by a refresh of Lever's stages.
LEMMA BecomesVisible ==
  ASSUME TalentInv, [Next]_vars, NEW p \in Postings, NEW k \in People,
         Visible(<<p, k>>)', ~Visible(<<p, k>>)
  PROVE  \/ \E w \in Workers : desk[w].op = "curate" /\ desk[w].on = p /\ desk[w].of = k /\ desk[w].to
         \/ interview'[<<p, k>>] # interview[<<p, k>>] /\ requests' > requests
<1> DEFINE a == <<p, k>>
           Curated == \E w \in Workers :
                        desk[w].op = "curate" /\ desk[w].on = p /\ desk[w].of = k /\ desk[w].to
           Announced == interview'[a] # interview[a] /\ requests' > requests
<1>1. requests \in Nat /\ application \in [Postings \X People -> Application \cup {None}]
      /\ interview \in [Postings \X People -> Interview \cup {None}] /\ a \in Postings \X People
  BY DEF TalentInv, TypeOK
<1>2. ~(application'[a] = application[a] /\ interview'[a] = interview[a])
  BY DEF Visible
<1>3. ASSUME NEW w \in Workers, CommitReconciliation(w)
      PROVE  FALSE
  <2> DEFINE stages == desk[w].stages[a]
  <2>1. interview' = interview
    BY <1>3 DEF CommitReconciliation, records
  <2>2. application'[a] = application[a] \/ application'[a] = Refreshed(application[a], stages)
    BY <1>1, <1>3 DEF CommitReconciliation, records
  <2>3. application'[a] = Refreshed(application[a], stages)
    BY <1>2, <2>1, <2>2
  <2> HIDE DEF stages
  <2>4. stages # {}
    BY <1>2, <2>1, <2>3 DEF Refreshed
  <2>5. application'[a].visible = (application[a] # None /\ application[a].visible)
    BY <2>3, <2>4 DEF Refreshed
  <2> QED  BY <2>1, <2>5 DEF Visible
<1>4. ASSUME NEW w \in Workers, CommitCurate(w)
      PROVE  Curated
  <2> DEFINE d == desk[w]
             b == <<d.on, d.of>>
  <2>1. /\ d.op = "curate" /\ interview' = interview
        /\ application' = [application EXCEPT ![b] = [application[b] EXCEPT !.visible = d.to]]
    BY <1>4 DEF CommitCurate
  <2>2. b \in Applied /\ d.to \in BOOLEAN
    BY <2>1, DeskType DEF TalentInv, Rests
  <2>3. a = b
    BY <1>1, <1>2, <2>1
  <2>4. d.on = p /\ d.of = k
    BY <2>3
  <2>5. application[b] \in Application
    BY <1>1, <2>2 DEF Applied
  <2>6. [application[b] EXCEPT !.visible = d.to].visible = d.to
    BY <2>5 DEF Application
  <2>7. application'[a] = [application[b] EXCEPT !.visible = d.to]
    BY <1>1, <2>1, <2>3
  <2>8. application'[a].visible = d.to
    BY <2>6, <2>7
  <2>9. d.to
    BY <2>1, <2>8 DEF Visible
  <2> QED  BY <2>1, <2>4, <2>9
<1>5. ASSUME NEW q \in Postings, NEW j \in People, NEW stage, Apply(q, j, stage)
      PROVE  FALSE
  <2> DEFINE row == [stage |-> stage, visible |-> FALSE]
  <2>1. interview' = interview /\ application' = [application EXCEPT ![<<q, j>>] = row]
    BY <1>5 DEF Apply
  <2>2. row.visible = FALSE
    OBVIOUS
  <2> HIDE DEF row
  <2>3. application'[a] \in {application[a], row}
    BY <1>1, <2>1
  <2> QED  BY <2>1, <2>2, <2>3 DEF Visible
<1>6. ASSUME NEW q \in Postings, NEW j \in People,
             (\E visible \in BOOLEAN : Schedule(q, j, visible))
               \/ (\E status \in {"COMPLETED", "CANCELLED"} : SetInterview(q, j, status))
      PROVE  Announced
  <2>1. application' = application /\ requests' = requests + 1
    BY <1>6 DEF Schedule, SetInterview
  <2>2. interview'[a] # interview[a]
    BY <1>2, <2>1
  <2> QED  BY <1>1, <2>1, <2>2
<1>7. (\E w \in Workers : CommitReconciliation(w)) \/ CurateView
  <2>1. Lever \/ UNCHANGED vars => application' = application /\ interview' = interview
    BY DEF Lever, ChangePosting, ChangeCandidacy, records, vars
  <2>2. \A w \in Workers :
          DecidePosting(w) \/ MoveRequest(w) \/ Abort(w) => application' = application /\ interview' = interview
    <3> SUFFICES ASSUME NEW w \in Workers, DecidePosting(w) \/ MoveRequest(w) \/ Abort(w)
                 PROVE  application' = application /\ interview' = interview
      OBVIOUS
    <3>1. CASE DecidePosting(w)
      BY <3>1 DEF DecidePosting, Verify, Unmap, Reopen, Decide, CommitDecision, records
    <3>2. CASE MoveRequest(w)
      BY <3>2 DEF MoveRequest, Review, UpdateStage, UpdateTaStatus, Move, CommitMove, records
    <3>3. CASE Abort(w)
      BY <3>3 DEF Abort, records
    <3> QED  BY <3>1, <3>2, <3>3
  <2>3. \A w \in Workers : Reconcile(w) =>
          CommitReconciliation(w) \/ (application' = application /\ interview' = interview)
    BY DEF Reconcile, Fetch, LoadMappings, Promote, records
  <2> QED  BY <1>2, <2>1, <2>2, <2>3 DEF Next
<1>8. CurateView => Curated \/ Announced
  <2>1. \A w \in Workers : \A q \in Postings, j \in People, to \in BOOLEAN :
          Curate(w, q, j, to) => application' = application /\ interview' = interview
    BY DEF Curate, records
  <2> HIDE DEF Curated, Announced
  <2> QED  BY <1>2, <1>4, <1>5, <1>6, <2>1 DEF CurateView
<1> QED  BY <1>3, <1>7, <1>8

\* A client is shown a person only after staff chose that very application:
\* neither promotion nor a change of the posting's client shows anyone
\* (Application.is_client_visible).
THEOREM ShownOnlyByStaff == Spec => ShownByStaff
<1> DEFINE Chosen(s) ==
             \/ \E w \in Workers :
                  desk[w].op = "curate" /\ desk[w].on = s[1] /\ desk[w].of = s[2] /\ desk[w].to
             \/ interview'[<<s[1], s[2]>>] # interview[<<s[1], s[2]>>] /\ requests' > requests
           Curates == \A s \in Shown' \ Shown : Chosen(s)
<1>1. ASSUME TalentInv, TalentInv', [Next]_vars, NEW s \in Shown', s \notin Shown
      PROVE  Chosen(s)
  <2>1. PICK p \in Postings, k \in People, c \in Clients :
          s = <<p, k, c>> /\ request'[p] # None /\ request'[p].client = c /\ Visible(<<p, k>>)'
    <3>1. (s \in Shown)' <=>
            (\E p \in Postings, k \in People, c \in Clients :
              s = <<p, k, c>> /\ request[p] # None /\ request[p].client = c /\ Visible(<<p, k>>))'
      BY ShownIs, PTL
    <3> QED  BY <1>1, <3>1
  <2>2. ASSUME Visible(<<p, k>>)
        PROVE  FALSE
    <3>1. <<p, k>> \in Applied
      BY <1>1, <2>2 DEF Visible, TalentInv, RowsHang, Applied
    <3>2. p \in Requested
      BY <1>1, <3>1 DEF TalentInv, RowsHang
    <3>3. request[p] # None /\ request[p].client = c
      BY <1>1, <2>1, <3>2, RequestKept DEF Requested
    <3> QED  BY <1>1, <2>1, <2>2, <3>3, ShownIs
  <2>3. s[1] = p /\ s[2] = k
    BY <2>1
  <2> QED  BY <1>1, <2>1, <2>2, <2>3, BecomesVisible
<1>2. TalentInv /\ TalentInv' /\ [Next]_vars => [Curates]_vars
  BY <1>1
<1> HIDE DEF Curates
<1>3. Spec => [][Curates]_vars
  BY TalentInvariant, <1>2, PTL DEF Spec
<1> QED  BY <1>3 DEF ShownByStaff, Curates

-----------------------------------------------------------------------------
\* What TagLossTakesEffect says, but for its fairness

\* A reconciliation is under way.
Reconciling == {"fetched", "loaded", "promoting"}

\* The posting is not the client's by a tag, no tag says it is, and no
\* reconciliation that is still to commit has read otherwise.
TagGone(p, c) ==
  /\ ~ByTag(p, c)
  /\ Reported(p) # None => Reported(p).tag # c
  /\ \A w \in Workers :
       desk[w].op \in Reconciling /\ desk[w].facts[p] # None => desk[w].facts[p].tag # c

\* Until the posting changes in Lever, it stays so, unless a copy outlives a
\* commit and mixes what two writers meant.
GoneStaysGone ==
  [][\A p \in Postings, c \in Clients :
       TagGone(p, c) /\ fact'[p] = fact[p] => TagGone(p, c)' \/ p \in outdated']_vars

\* The reconciler gives no posting to a client its tag does not name.
LEMMA NoTagNoClient ==
  ASSUME NEW m, NEW tag, NEW c \in Clients, tag # c
  PROVE  Reconciled(m, tag) # ForTag(c)
<1>1. CASE Rejected(m) \/ Manual(m)
  <2>1. ~Tagged(m)
    BY <1>1 DEF Rejected, Manual, Tagged
  <2>2. Reconciled(m, tag) = m
    BY <1>1, <2>1, Zenon DEF Reconciled
  <2> QED  BY <1>1, <2>2 DEF Rejected, Manual, ForTag
<1>2. CASE ~(Rejected(m) \/ Manual(m)) /\ tag \in Clients
  <2>1. Reconciled(m, tag) = ForTag(tag)
    BY <1>2 DEF Reconciled
  <2>2. ForTag(tag).client # ForTag(c).client
    BY DEF ForTag
  <2> QED  BY <2>1, <2>2
<1>3. CASE ~(Rejected(m) \/ Manual(m)) /\ tag \notin Clients
  <2> DEFINE unmapped == [m EXCEPT !.status = "UNMAPPED", !.client = NoClient]
  <2>1. CASE Tagged(m)
    <3>1. Reconciled(m, tag) = NewMapping
      BY <1>3, <2>1 DEF Reconciled
    <3>2. NewMapping.status # ForTag(c).status
      BY DEF NewMapping, ForTag
    <3> QED  BY <3>1, <3>2
  <2>2. CASE ~Tagged(m)
    <3>1. Reconciled(m, tag) = IF tag = "UNKNOWN" THEN unmapped ELSE m
      BY <1>3, <2>2 DEF Reconciled
    <3>2. m # ForTag(c)
      BY <2>2 DEF Tagged, ForTag
    <3>3. unmapped # ForTag(c)
      <4> SUFFICES ASSUME unmapped = ForTag(c) PROVE FALSE
        OBVIOUS
      <4>1. unmapped.client = c /\ unmapped.status = "VERIFIED"
        BY DEF ForTag
      <4> QED  BY <4>1, ClientAssumption
    <3> QED  BY <3>1, <3>2, <3>3
  <2> QED  BY <2>1, <2>2
<1> QED  BY <1>1, <1>2, <1>3

\* A commit makes a posting a client's by its tag only if a reconciliation that
\* read this tag is the one to commit.
LEMMA CommitsKeepGone ==
  ASSUME TalentInv, [Next]_vars, NEW p \in Postings, NEW c \in Clients, TagGone(p, c), p \notin outdated'
  PROVE  ~ByTag(p, c)'
<1>1. CASE mapping' = mapping
  BY <1>1 DEF TagGone, ByTag
<1>2. ASSUME NEW w \in Workers, CommitReconciliation(w), mapping' # mapping
      PROVE  ~ByTag(p, c)'
  <2> DEFINE d == desk[w]
             fails == \E q \in {r \in Postings : d.new[r] # None} : request[q] # None
  <2>1. d.op = "promoting" /\ ~fails
    BY <1>2 DEF CommitReconciliation, records
  <2>2. /\ mapping' = [q \in Postings |-> IF q \in Listed(d) THEN Flushed(d, q) ELSE mapping[q]]
        /\ outdated' = outdated \cup {q \in Listed(d) : mapping[q] # None /\ mapping[q] # d.rows[q]}
    BY <1>2, <2>1 DEF CommitReconciliation
  <2>3. p \in Listed(d) => d.facts[p].tag # c
    BY <2>1 DEF TagGone, Listed, Reconciling
  <2>4. p \in Listed(d) /\ (mapping[p] = None \/ mapping[p] = d.rows[p]) => Flushed(d, p) = Own(d, p)
    BY <2>1, FlushedMapping
  <2>5. p \in Listed(d) => Own(d, p) # ForTag(c)
    BY <2>3, NoTagNoClient DEF Own
  <2> HIDE DEF d, fails
  <2>6. CASE p \in Listed(d)
    <3>1. mapping[p] = None \/ mapping[p] = d.rows[p]
      BY <2>2, <2>6
    <3> QED  BY <2>2, <2>4, <2>5, <2>6, <3>1 DEF ByTag
  <2>7. CASE p \notin Listed(d)
    BY <2>2, <2>7 DEF TagGone, ByTag
  <2> QED  BY <2>6, <2>7
<1>3. ASSUME NEW w \in Workers, CommitDecision(w)
      PROVE  ~ByTag(p, c)'
  <2> DEFINE d == desk[w]
             q == desk[w].on
             row == Written(mapping[q], d.loaded, d.copy)
  <2>1. /\ d.op \in {"verify", "unmap", "reopen"}
        /\ mapping' = [mapping EXCEPT ![q] = row]
        /\ outdated' = IF mapping[q] = d.loaded THEN outdated \ {q} ELSE outdated \cup {q}
    BY <1>3 DEF CommitDecision
  <2>2. q \in Mapped /\ Decides(d) /\ q \in Postings /\ d.loaded \in Mapping /\ d.copy \in Mapping
    BY <2>1, DeskType DEF TalentInv, Rests
  <2>3. mapping[q] \in Mapping
    BY <2>2 DEF Mapped, TalentInv, TypeOK
  <2>4. mapping[q] = d.loaded => row = d.copy
    BY <2>2, <2>3, WrittenMapping
  <2>5. d.copy # ForTag(c)
    BY <2>1, <2>2 DEF Decides, ForTag
  <2> HIDE DEF d, q, row
  <2>6. \A r \in Postings : mapping'[r] = IF r = q THEN row ELSE mapping[r]
    BY <2>1 DEF TalentInv, TypeOK
  <2>7. CASE p = q
    BY <2>1, <2>4, <2>5, <2>6, <2>7 DEF ByTag
  <2>8. CASE p # q
    BY <2>6, <2>8 DEF TagGone, ByTag
  <2> QED  BY <2>7, <2>8
<1>4. \/ mapping' = mapping
      \/ \E w \in Workers : CommitReconciliation(w) \/ CommitDecision(w)
  <2>1. CASE Lever \/ CurateView \/ UNCHANGED vars
    BY <2>1 DEF Lever, ChangePosting, ChangeCandidacy, CurateView, Curate, CommitCurate, Apply, Schedule,
                SetInterview, vars, records
  <2>2. \A w \in Workers : DecidePosting(w) \/ Abort(w) => mapping' = mapping \/ CommitDecision(w)
    BY DEF DecidePosting, Verify, Unmap, Reopen, Decide, Abort, records
  <2>3. \A w \in Workers : MoveRequest(w) => mapping' = mapping
    BY DEF MoveRequest, Review, UpdateStage, UpdateTaStatus, Move, CommitMove, records
  <2>4. \A w \in Workers : Reconcile(w) => mapping' = mapping \/ CommitReconciliation(w)
    BY DEF Reconcile, Fetch, LoadMappings, Promote, records
  <2> QED  BY <2>1, <2>2, <2>3, <2>4 DEF Next
<1> QED  BY <1>1, <1>2, <1>3, <1>4

\* The postings a reconciliation goes by are those it had, or those Lever has
\* when it fetches them.
LEMMA DeskAfter ==
  ASSUME TalentInv, [Next]_vars, NEW w \in Workers, desk'[w].op \in Reconciling
  PROVE  \/ desk'[w].facts = [p \in Postings |-> Reported(p)]
         \/ desk[w].op \in Reconciling /\ desk'[w].facts = desk[w].facts
<1>1. CASE desk'[w] = desk[w]
  BY <1>1
<1>2. CASE Fetch(w)
  <2>1. desk'[w] = [op |-> "fetched", facts |-> [p \in Postings |-> Reported(p)]]
    BY <1>2 DEF Fetch, Take, TalentInv, TypeOK
  <2> QED  BY <2>1
<1>3. CASE LoadMappings(w)
  <2>1. desk[w].op = "fetched" /\ desk'[w].facts = desk[w].facts
    BY <1>3 DEF LoadMappings, Take, TalentInv, TypeOK
  <2> QED  BY <2>1 DEF Reconciling
<1> DEFINE Otherwise == desk'[w] = desk[w] \/ desk'[w].op \notin Reconciling
<1>3a. ASSUME NEW answered \in BOOLEAN, Promote(w, answered)
       PROVE  Otherwise \/ (desk[w].op = "loaded" /\ desk'[w].facts = desk[w].facts)
  <2>1. desk[w].op = "loaded" /\ (desk'[w] = Idle \/ desk'[w].facts = desk[w].facts)
    BY <1>3a DEF Promote, Take, Leave, TalentInv, TypeOK
  <2>2. Idle.op \notin Reconciling
    BY DEF Idle, Reconciling
  <2> QED  BY <2>1, <2>2
<1>4. ASSUME NEW v \in Workers, NEW d, d.op \notin Reconciling, desk' = [desk EXCEPT ![v] = d]
      PROVE  Otherwise
  BY <1>4 DEF TalentInv, TypeOK
<1>5. ASSUME NEW v \in Workers, desk' = [desk EXCEPT ![v] = Idle]
      PROVE  Otherwise
  BY <1>4, <1>5 DEF Idle, Reconciling
<1>6. ASSUME NEW v \in Workers, DecidePosting(v)
      PROVE  Otherwise
  <2>1. ASSUME NEW p, NEW op \in {"verify", "unmap", "reopen"}, NEW copy, Decide(v, p, op, copy)
        PROVE  Otherwise
    <3> DEFINE d == [op |-> op, on |-> p, loaded |-> mapping[p], copy |-> copy]
    <3>1. desk' = [desk EXCEPT ![v] = d] /\ d.op \notin Reconciling
      BY <2>1 DEF Decide, Take, Reconciling
    <3> HIDE DEF d
    <3> QED  BY <1>4, <3>1
  <2>2. CommitDecision(v) => desk' = [desk EXCEPT ![v] = Idle]
    BY DEF CommitDecision, Leave
  <2> QED  BY <1>5, <1>6, <2>1, <2>2 DEF DecidePosting, Verify, Unmap, Reopen
<1>7. ASSUME NEW v \in Workers, MoveRequest(v)
      PROVE  Otherwise
  <2>1. ASSUME NEW p, NEW op \in {"review", "workflow"}, NEW copy, Move(v, p, op, copy)
        PROVE  Otherwise
    <3> DEFINE d == [op |-> op, on |-> p, loaded |-> request[p], copy |-> copy]
    <3>1. desk' = [desk EXCEPT ![v] = d] /\ d.op \notin Reconciling
      BY <2>1 DEF Move, Take, Reconciling
    <3> HIDE DEF d
    <3> QED  BY <1>4, <3>1
  <2>2. CommitMove(v) => desk' = [desk EXCEPT ![v] = Idle]
    BY DEF CommitMove, Leave
  <2> QED  BY <1>5, <1>7, <2>1, <2>2 DEF MoveRequest, Review, UpdateStage, UpdateTaStatus
<1>8. ASSUME CurateView
      PROVE  Otherwise
  <2>1. ASSUME NEW v \in Workers, NEW p, NEW k, NEW to, Curate(v, p, k, to)
        PROVE  Otherwise
    <3> DEFINE d == [op |-> "curate", on |-> p, of |-> k, to |-> to]
    <3>1. desk' = [desk EXCEPT ![v] = d] /\ d.op \notin Reconciling
      BY <2>1 DEF Curate, Take, Reconciling
    <3> HIDE DEF d
    <3> QED  BY <1>4, <3>1
  <2>2. \A v \in Workers : CommitCurate(v) => desk' = [desk EXCEPT ![v] = Idle]
    BY DEF CommitCurate, Leave
  <2>3. (\E v \in Workers : (\E p \in Postings, k \in People, to \in BOOLEAN : Curate(v, p, k, to))
                           \/ CommitCurate(v))
        \/ desk' = desk
    BY <1>8 DEF CurateView, Apply, Schedule, SetInterview
  <2> QED  BY <1>5, <2>1, <2>2, <2>3
<1>9. ASSUME Lever \/ UNCHANGED vars
      PROVE  Otherwise
  BY <1>9 DEF Lever, ChangePosting, ChangeCandidacy, vars
<1>10. ASSUME NEW v \in Workers, Reconcile(v)
       PROVE  Otherwise \/ Fetch(w) \/ LoadMappings(w) \/ \E answered \in BOOLEAN : Promote(w, answered)
  <2>1. CASE Fetch(v) \/ LoadMappings(v) \/ \E answered \in BOOLEAN : Promote(v, answered)
    <3>1. v # w => desk'[w] = desk[w]
      BY <2>1 DEF Fetch, LoadMappings, Promote, Take, Leave, TalentInv, TypeOK
    <3> QED  BY <2>1, <3>1
  <2>2. CommitReconciliation(v) => desk' = [desk EXCEPT ![v] = Idle]
    BY DEF CommitReconciliation, Leave
  <2> QED  BY <1>5, <1>10, <2>1, <2>2 DEF Reconcile
<1>11. ASSUME NEW v \in Workers, Abort(v)
       PROVE  Otherwise
  BY <1>5, <1>11 DEF Abort, Leave
<1>12. Otherwise \/ Fetch(w) \/ LoadMappings(w) \/ \E answered \in BOOLEAN : Promote(w, answered)
  BY <1>6, <1>7, <1>8, <1>9, <1>10, <1>11 DEF Next
<1> QED  BY <1>1, <1>2, <1>3, <1>12, <1>3a DEF Reconciling

\* A posting whose client's tag is gone stays away from the client, however
\* long ago the reconciliations that follow were begun, until Lever changes it
\* or a copy outlives a commit (_reconcile_one).
THEOREM LostTagStaysLost == Spec => GoneStaysGone
<1> DEFINE Stays == \A p \in Postings, c \in Clients :
             TagGone(p, c) /\ fact'[p] = fact[p] => TagGone(p, c)' \/ p \in outdated'
<1>1. TalentInv /\ [Next]_vars => Stays
  <2> SUFFICES ASSUME TalentInv, [Next]_vars, NEW p \in Postings, NEW c \in Clients,
                      TagGone(p, c), fact'[p] = fact[p], p \notin outdated'
               PROVE  TagGone(p, c)'
    OBVIOUS
  <2>1. ~ByTag(p, c)'
    BY CommitsKeepGone
  <2>2. Reported(p)' = Reported(p)
    BY DEF Reported, Tag
  <2>3. ASSUME NEW w \in Workers, desk'[w].op \in Reconciling, desk'[w].facts[p] # None
        PROVE  desk'[w].facts[p].tag # c
    BY <2>3, DeskAfter DEF TagGone
  <2> QED  BY <2>1, <2>2, <2>3 DEF TagGone
<1>2. TalentInv /\ [Next]_vars => [Stays]_vars
  BY <1>1
<1> HIDE DEF Stays
<1>3. Spec => [][Stays]_vars
  BY TalentInvariant, <1>2, PTL DEF Spec
<1> QED  BY <1>3 DEF GoneStaysGone, Stays
=============================================================================
