-------------------------- MODULE PlatformAccess --------------------------
(***************************************************************************)
(* platform-api as a whole: a sign-in reads the assignments query by query *)
(* into the claims of its session while administrators change them, and    *)
(* the other services trust the session until it expires.                  *)
(***************************************************************************)
EXTENDS PlatformGrants

CONSTANTS
  LocalClients,  \* the clients of talent-api
  Numbered       \* those whose id is the number a scope names a client by

ASSUME NumberAssumption == Numbered \in [Clients -> SUBSET LocalClients]

\* A session can carry whatever build_claims makes of the assignments; where
\* no role can be assigned, that is nothing.
ASSUME ClaimsAssumption ==
  NoClaims \in Claims /\ (RoleChoices # {} => ModuleClaims \subseteq Claims)

VARIABLE reading  \* what each worker has read for the claims it builds

vars == <<accountVars, grantVars, reading>>

NoReading == [at |-> "none"]

\* What build_claims has read: the roles that decide whether the module is
\* claimed, the sources of the scope it reads now, the scope by numbers, which
\* is empty only until it is read, and the one by public ids; torn: an edit
\* came between.
Reading ==
  [at : {"sources", "scope", "issue"}, roles : SUBSET TalentRoles,
   sources : SUBSET RowIds, ids : Unions \cup {{}}, refs : Unions \cup {{}}, torn : BOOLEAN]

\* All of platform-api's state is of its types.
TypeOK ==
  /\ AccountsTypeOK
  /\ GrantsTypeOK
  /\ reading \in [Workers -> Reading \cup {NoReading}]

\* The tables hold rows of the right shape, and one assignment to a holder
\* unless two first assignments crossed (upsert_module_assignment).
AccessInv == TypeOK /\ OneAssignmentEach

-----------------------------------------------------------------------------
\* build_claims after the user row: effective_module_roles, then for the scope
\* the contributing rows and the scope rows of each, by effective_client_scope
\* and again by effective_client_ref_scope, then the permissions.

ReadRoles(w) ==
  /\ desk[w].op = "claims" /\ reading[w] = NoReading
  /\ reading' = [reading EXCEPT ![w] =
       [at |-> "sources", roles |-> EffectiveRoles(desk[w].target),
        sources |-> {}, ids |-> {}, refs |-> {}, torn |-> FALSE]]
  /\ UNCHANGED <<accountVars, grantVars>>

ReadSources(w) ==
  /\ reading[w].at = "sources"
  /\ reading' = [reading EXCEPT ![w] =
       [@ EXCEPT !.at = "scope", !.sources = Grants(desk[w].target)]]
  /\ UNCHANGED <<accountVars, grantVars>>

ReadScope(w) ==
  LET scope == UnionScope(reading[w].sources)
  IN  /\ reading[w].at = "scope"
      /\ reading' = [reading EXCEPT ![w] =
           IF @.ids = {} THEN [@ EXCEPT !.at = "sources", !.ids = scope]
                         ELSE [@ EXCEPT !.at = "issue", !.refs = scope]]
      /\ UNCHANGED <<accountVars, grantVars>>

\* The claims the worker would issue now: the module is in them if its first
\* query saw a role; the permissions are read last, and may be none.
ClaimsRead(w) ==
  LET r == reading[w]
  IN  IF r.roles = {} THEN NoClaims
      ELSE [roles |-> EffectiveRoles(desk[w].target), ids |-> r.ids, refs |-> r.refs]

IssueClaims(w) ==
  /\ reading[w].at = "issue"
  /\ IssueSession(w, ClaimsRead(w))
  /\ reading' = [reading EXCEPT ![w] = NoReading]
  /\ UNCHANGED grantVars

-----------------------------------------------------------------------------
\* What talent-api makes of a session, with nothing but its claims

\* get_claims: any session not expired, of a user active when it was issued.
Bearer(s) == s \in sessions /\ s.active

\* get_talent_scope refuses one that does not claim the module, and asks for no
\* permission; nor do list_requests and get_request.
Claimed(s) == Bearer(s) /\ s.modules # NoClaims

\* A scope by numbers, passed on as it is.
NumberedIds(ids) == IF AllClients \in ids THEN LocalClients ELSE UNION {Numbered[c] : c \in ids}

\* Mutant: a scope of which no client is known is no restriction.
KnownOrAll(m) ==
  IF AllClients \in m.refs \/ m.refs \cap LocalClients = {} THEN LocalClients
  ELSE m.refs \cap LocalClients

\* _resolve_local_client_scope: of the public ids those without a row are
\* dropped; if they are unrestricted the numbers count.
ClientIds(m) == IF AllClients \in m.refs THEN NumberedIds(m.ids) ELSE m.refs \cap LocalClients

\* _scoped: the clients whose requests the bearer may read.
Opens(s) == IF Claimed(s) THEN ClientIds(s.modules) ELSE {}

-----------------------------------------------------------------------------
\* A change of assignments, groups or members tears the readings under way.
Tear ==
  reading' = IF <<rows, group, members>>' = <<rows, group, members>> THEN reading
             ELSE [w \in Workers |-> IF reading[w] = NoReading THEN NoReading
                                     ELSE [reading[w] EXCEPT !.torn = TRUE]]

Die(w) ==
  /\ <<desk[w], change[w]>> # <<Idle, NoChange>>
  /\ Leave(w)
  /\ change' = [change EXCEPT ![w] = NoChange]
  /\ reading' = [reading EXCEPT ![w] = NoReading]
  /\ UNCHANGED <<mode, acct, sessions, edits, approved, crossed, rows, group, members, doubled>>

Deploy ==
  /\ Redeploy
  /\ change' = [w \in Workers |-> NoChange]
  /\ reading' = [w \in Workers |-> NoReading]
  /\ UNCHANGED <<rows, group, members, doubled>>

ExpireOne(u) ==
  \E s \in sessions : s.user = u /\ Expire(s) /\ UNCHANGED <<grantVars, reading>>

Init == AccountsInit /\ GrantsInit /\ reading = [w \in Workers |-> NoReading]

Next ==
  \/ \E w \in Workers :
       \/ change[w] = NoChange /\ AccountsStep(w) /\ UNCHANGED <<grantVars, reading>>
       \/ AssignmentStep(w) /\ Tear
       \/ ReadRoles(w) \/ ReadSources(w) \/ ReadScope(w) \/ IssueClaims(w)
       \/ Die(w)
  \/ GrantEdit /\ Tear
  \/ \E u \in Users : ExpireOne(u)
  \/ Deploy

\* The sessions of a user expire; nothing else has to happen.
Spec == Init /\ [][Next]_vars /\ \A u \in Users : WF_vars(ExpireOne(u))

-----------------------------------------------------------------------------
\* What must hold

\* What a user is entitled to: the enabled assignments made to the user or to
\* an active group the user is a member of, as docs and Admin Center state it.
Entitling(u) ==
  {r \in Live :
     /\ rows[r].enabled
     /\ \/ rows[r].holder = u
        \/ \E g \in Groups :
             rows[r].holder = g /\ group[g].status = "ACTIVE" /\ u \in members[g]}

Restricted(r) ==
  rows[r].scope # {} /\ \A s \in rows[r].scope : s.client # AllClients

EntitledAccess(u) ==
  LET grants == Entitling(u)
  IN  IF grants = {} THEN NoAccess
      ELSE [roles |-> {rows[r].role : r \in grants},
            scope |-> IF \A r \in grants : Restricted(r)
                      THEN {s.client : s \in UNION {rows[r].scope : r \in grants}}
                      ELSE {AllClients}]

\* The claims that say an access.
ClaimsOf(access) ==
  IF access = NoAccess THEN NoClaims
  ELSE [roles |-> access.roles, ids |-> access.scope, refs |-> access.scope]

\* Queries written apart, each with its own filters, make the claims; if no
\* edit came between them they are what the user is entitled to: enabled
\* assignments, active groups, the union of the scopes.
UntornClaimsAreEntitled ==
  \A w \in Workers :
    reading[w] # NoReading /\ reading[w].at = "issue" /\ ~reading[w].torn
      => ClaimsRead(w) = ClaimsOf(EntitledAccess(desk[w].target))

\* A user has access in the services that trust the session.
HasAccess(u) == \E s \in sessions : s.user = u /\ Claimed(s)

\* Sessions are not revoked, yet access taken away ends: of a user deactivated
\* for good, or left with nothing that entitles, a time comes from which no
\* session gives access, however often the user signs in and whatever was
\* being read when it was taken.
RevocationTakesEffect ==
  \A u \in Users :
    <>[](Entitling(u) = {} \/ ~acct[u].active) => <>[]~HasAccess(u)

\* A reading for the claims of u is under way that an edit has torn.
TornFor(u) ==
  \E w \in Workers : reading[w] # NoReading /\ reading[w].torn /\ desk[w].target = u

\* From the assignments to what talent-api opens.  If no edit came between the
\* queries a new session claims the module only for a user entitled to it, and
\* opens just the clients the user is entitled to, those talent-api has no row
\* for left out ("narrower = fail-safe - this never widens scope",
\* _resolve_local_client_scope).  If one did, it may claim the module for a user
\* who has lost it, and open every client; but the permissions it names are the
\* ones of the moment it is issued, and none that were taken away before.
SessionsAreEntitled ==
  [][\A s \in sessions' \ sessions :
       LET granted == EntitledAccess(s.user)
       IN  /\ Claimed(s)' => s.modules.roles = granted.roles
           /\ \/ TornFor(s.user)
              \/ /\ Claimed(s)' <=> s.active /\ granted # NoAccess
                 /\ s.active =>
                      Opens(s)' = {c \in LocalClients : {c, AllClients} \cap granted.scope # {}}]_vars
=============================================================================
