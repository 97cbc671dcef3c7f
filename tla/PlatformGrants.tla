-------------------------- MODULE PlatformGrants --------------------------
(***************************************************************************)
(* Who has access to a module: the assignments administrators give to      *)
(* users and to access groups, each with a role and a scope of clients,    *)
(* the groups and their members, and what AuthorizationService makes of    *)
(* them.  One module stands for all: no operation relates two modules.     *)
(*                                                                         *)
(* Neither table of assignments has a unique key on holder and module, and *)
(* the rows of a scope are deleted and inserted again on every change.     *)
(***************************************************************************)
EXTENDS PlatformAccounts

CONSTANTS
  Groups,      \* the keys of access groups
  SystemGroups,\* those of them created as SYSTEM groups
  Clients,     \* the clients a scope can name
  AllClients,  \* the scope row that stands for every client
  NoScope,     \* a request that does not mention the scope
  RoleChoices, \* the module roles administrators assign
  MaxRows      \* bound: no assignment is created once so many rows were

ASSUME GroupAssumption == SystemGroups \subseteq Groups /\ Groups \cap Users = {}

ASSUME ScopeAssumption == AllClients \notin Clients

ASSUME RoleAssumption == RoleChoices \subseteq TalentRoles

ASSUME RowAssumption == MaxRows \in Nat

Holders == Users \cup Groups

RowIds == 1..MaxRows

VARIABLES
  rows,     \* user_module_roles and group_module_roles with their scopes
  group,    \* access_groups
  members,  \* user_group_memberships
  change,   \* the assignment each worker is changing
  doubled   \* two first assignments of one holder crossed

grantVars == <<rows, group, members, change, doubled>>

\* A scope row knows the edit that wrote it: two rows may name one client.
ScopeRow == [client : Clients \cup {AllClients}, gen : Nat]

Row == [holder : Holders, role : TalentRoles, enabled : BOOLEAN, scope : SUBSET ScopeRow]

FreeRow == [state |-> "free"]   \* an id not given yet

GoneRow == [state |-> "gone"]   \* a deleted row; ids are not given twice

Group == [status : {"ACTIVE", "INACTIVE"}, type : {"TEAM", "SYSTEM"}]

NoGroup == [status |-> "none"]

\* What a request may say of the scope: nothing, all clients, or these.
Scopes == {{AllClients}} \cup SUBSET Clients

\* An upsert: the row it found (0: none) as loaded, what it writes, and the
\* scope rows its DELETE has seen; knew: the rows of the holder
\* at the lookup.
Change ==
  [at : {"scope", "commit"}, holder : Holders, row : RowIds \cup {0},
   was : [role : TalentRoles, enabled : BOOLEAN],
   new : [role : TalentRoles, enabled : BOOLEAN],
   scope : Scopes \cup {NoScope}, seen : SUBSET ScopeRow, gen : Nat,
   knew : SUBSET RowIds]

NoChange == [at |-> "none"]

\* Assignments, groups and changes hold only what the code writes there.
GrantsTypeOK ==
  /\ rows \in [RowIds -> Row \cup {FreeRow, GoneRow}]
  /\ group \in [Groups -> Group \cup {NoGroup}]
  /\ members \in [Groups -> SUBSET Users]
  /\ change \in [Workers -> Change \cup {NoChange}]
  /\ doubled \in BOOLEAN

-----------------------------------------------------------------------------
\* What assignments give, AuthorizationService

Live == {r \in RowIds : rows[r] \notin {FreeRow, GoneRow}}

RowsOf(h) == {r \in Live : rows[r].holder = h}

\* Mutant: inactive groups go on to give access.
MemberGroups(u) == {g \in Groups : u \in members[g]}

\* groups_for_user
ActiveGroups(u) == {g \in Groups : u \in members[g] /\ group[g].status = "ACTIVE"}

\* The rows that contribute: the user's own and those of active groups.
Grants(u) == {r \in Live : rows[r].holder \in {u} \cup ActiveGroups(u) /\ rows[r].enabled}

\* effective_module_roles
EffectiveRoles(u) == {rows[r].role : r \in Grants(u)}

\* The clients row r is restricted to, all of them if no scope row is found;
\* so is a row deleted meanwhile.  client_ref_scope_for
ScopeOf(r) ==
  LET named == IF r \in Live THEN {s.client : s \in rows[r].scope} ELSE {}
  IN  IF named = {} \/ AllClients \in named THEN {AllClients} ELSE named

\* effective_client_scope and effective_client_ref_scope: the union over what
\* contributes, all clients as soon as one source is unrestricted and if there
\* is none.
UnionScope(sources) ==
  LET all == UNION {ScopeOf(r) : r \in sources}
  IN  IF sources = {} \/ AllClients \in all THEN {AllClients} ELSE all

\* effective_permissions
EffectivePermissions(roles) == UNION {TalentPermissions[r] : r \in roles}

\* The scopes a union can be.
Unions == {{AllClients}} \cup ((SUBSET Clients) \ {{}})

\* The claims of a session for the module: the roles whose permissions it
\* names, the scope by numbers and by public ids; a session that does not claim
\* the module has none.
NoClaims == [roles |-> {}, ids |-> {}, refs |-> {}]

ModuleClaims == [roles : SUBSET RoleChoices, ids : Unions, refs : Unions] \cup {NoClaims}

\* The access of a user without grants.
NoAccess == [roles |-> {}, scope |-> {}]

\* effective_access, as the Admin Center shows it.
EffectiveAccess(u) ==
  IF Grants(u) = {} THEN NoAccess
  ELSE [roles |-> EffectiveRoles(u), scope |-> UnionScope(Grants(u))]

\* list_my_modules: the module is on a user's page.
Visible(u) == \E r \in RowsOf(u) : rows[r].enabled

\* notify_module_role and module_role_holders: whom a notification to a role
\* reaches, and whom the service names as its holders.
Notified(role) == {u \in Users : \E r \in RowsOf(u) : rows[r].role = role}

\* Mutant: whoever was once given the role is named.
HoldersEver(role) == {u \in Users : \E r \in RowsOf(u) : rows[r].role = role}

RoleHolders(role) ==
  {u \in Users : \E r \in RowsOf(u) : rows[r].role = role /\ rows[r].enabled}

\* _group_client_scope and _client_scope_out: the scope as the pages show it.
PageScope(r) ==
  IF rows[r].scope = {} \/ \E s \in rows[r].scope : s.client = AllClients
  THEN {AllClients} ELSE {s.client : s \in rows[r].scope}

\* application_detail: a line for each assignment, disabled ones included.
ApplicationPage ==
  {[holder |-> rows[r].holder, role |-> rows[r].role, enabled |-> rows[r].enabled,
    scope |-> PageScope(r)] : r \in Live}

\* get_group.
GroupPage(g) == [status |-> group[g].status, members |-> members[g]]

-----------------------------------------------------------------------------
\* What administrators do

Known(h) == h \in Existing \/ (h \in Groups /\ group[h] # NoGroup)

\* Every edit is one administrator's request under manage_users.
Administers(a) ==
  /\ edits < MaxEdits
  /\ Authorized(a, "manage_users")
  /\ edits' = edits + 1
  /\ UNCHANGED <<mode, acct, sessions, desk, approved, crossed>>

\* Mutant: a disabled assignment is not found.
FoundEnabled(h) == {r \in RowsOf(h) : rows[r].enabled}

\* The lookup by holder and module; of several rows the first is any.
Found(h) == RowsOf(h)

\* upsert_module_assignment and upsert_group_module_assignment until the row
\* is looked up.
FindAssignment(w, a, h, new, scope) ==
  LET begin(r, was) ==
        change' = [change EXCEPT ![w] =
          [at |-> IF r = 0 THEN "commit" ELSE "scope", holder |-> h, row |-> r,
           was |-> was, new |-> new, scope |-> scope, seen |-> {}, gen |-> edits + 1, knew |-> RowsOf(h)]]
  IN  /\ desk[w] = Idle /\ change[w] = NoChange
      /\ Administers(a)
      /\ Known(h)
      /\ IF Found(h) = {}
         THEN begin(0, new)
         ELSE \E r \in Found(h) : begin(r, [role |-> rows[r].role, enabled |-> rows[r].enabled])
      /\ UNCHANGED <<rows, group, members, doubled>>

\* The DELETE of the scope rows, which sees those committed when it starts.
ReplaceScope(w) ==
  LET c == change[w]
  IN  /\ c.at = "scope"
      /\ change' = [change EXCEPT ![w] = [c EXCEPT
           !.at = "commit",
           !.seen = IF c.scope # NoScope /\ c.row \in Live THEN rows[c.row].scope ELSE {}]]
      /\ UNCHANGED <<rows, group, members, doubled>>
      /\ UNCHANGED accountVars

\* The commit.  A found row that was deleted meanwhile fails the request.
CommitAssignment(w) ==
  LET c == change[w]
      asked == IF c.scope = NoScope THEN {} ELSE {[client |-> k, gen |-> c.gen] : k \in c.scope}
      fresh == CHOOSE r \in RowIds : rows[r] = FreeRow
  IN  /\ c.at = "commit"
      /\ IF c.row = 0
         THEN /\ \E r \in RowIds : rows[r] = FreeRow
              /\ rows' = [rows EXCEPT ![fresh] =
                   [holder |-> c.holder, role |-> c.new.role, enabled |-> c.new.enabled,
                    scope |-> asked]]
              /\ doubled' = (doubled \/ RowsOf(c.holder) \ c.knew # {})
         ELSE /\ rows' = IF c.row \in Live
                         THEN [rows EXCEPT ![c.row] =
                           [holder |-> c.holder,
                            role |-> IF c.new.role # c.was.role THEN c.new.role ELSE @.role,
                            enabled |-> IF c.new.enabled # c.was.enabled THEN c.new.enabled ELSE @.enabled,
                            scope |-> (@.scope \ c.seen) \cup asked]]
                         ELSE rows
              /\ UNCHANGED doubled
      /\ change' = [change EXCEPT ![w] = NoChange]
      /\ UNCHANGED <<group, members>>
      /\ UNCHANGED accountVars

\* remove_module_assignment and its twin for groups delete the first row.
RemoveAssignment(a, h) ==
  /\ Administers(a)
  /\ \E r \in Found(h) : rows' = [rows EXCEPT ![r] = GoneRow]
  /\ UNCHANGED <<group, members, change, doubled>>

CreateGroup(a, g) ==
  /\ Administers(a)
  /\ group[g] = NoGroup
  /\ group' = [group EXCEPT ![g] =
       [status |-> "ACTIVE", type |-> IF g \in SystemGroups THEN "SYSTEM" ELSE "TEAM"]]
  /\ UNCHANGED <<rows, members, change, doubled>>

\* update_group may give a group any type.
RetypeGroup(a, g, type) ==
  /\ Administers(a)
  /\ group[g] # NoGroup
  /\ group' = [group EXCEPT ![g].type = type]
  /\ UNCHANGED <<rows, members, change, doubled>>

\* set_group_status: a SYSTEM group stays active.
SetGroupStatus(a, g, status) ==
  /\ Administers(a)
  /\ group[g] # NoGroup
  /\ ~(status = "INACTIVE" /\ group[g].type = "SYSTEM")
  /\ group' = [group EXCEPT ![g].status = status]
  /\ UNCHANGED <<rows, members, change, doubled>>

\* add_group_member and remove_group_member.
SetMember(a, g, u, in) ==
  /\ Administers(a)
  /\ group[g] # NoGroup /\ u \in Existing
  /\ in \/ u \in members[g]
  /\ members' = [members EXCEPT ![g] = IF in THEN @ \cup {u} ELSE @ \ {u}]
  /\ UNCHANGED <<rows, group, change, doubled>>

GrantsInit ==
  /\ rows = [r \in RowIds |-> FreeRow]
  /\ group = [g \in Groups |-> NoGroup]
  /\ members = [g \in Groups |-> {}]
  /\ change = [w \in Workers |-> NoChange]
  /\ doubled = FALSE

\* What a worker does to an assignment, and the edits of one statement.
AssignmentStep(w) ==
  \/ \E a \in Users, h \in Holders, role \in RoleChoices, enabled \in BOOLEAN,
        scope \in Scopes \cup {NoScope} :
       FindAssignment(w, a, h, [role |-> role, enabled |-> enabled], scope)
  \/ ReplaceScope(w)
  \/ CommitAssignment(w)

GrantEdit ==
  \E a \in Users :
    \/ \E h \in Holders : RemoveAssignment(a, h)
    \/ \E g \in Groups :
         \/ CreateGroup(a, g)
         \/ \E type \in {"TEAM", "SYSTEM"} : RetypeGroup(a, g, type)
         \/ \E status \in {"ACTIVE", "INACTIVE"} : SetGroupStatus(a, g, status)
         \/ \E u \in Users, in \in BOOLEAN : SetMember(a, g, u, in)

-----------------------------------------------------------------------------
\* What must hold

\* A holder has one assignment, so that removing it removes the access, unless
\* two first assignments crossed: nothing but the lookup of
\* upsert_module_assignment keeps the second row out.
OneAssignmentEach == doubled \/ \A h \in Holders : \A r, q \in RowsOf(h) : r = q

\* What an administrator finds on the pages as the reasons of u's access.
Explained(u) ==
  {l \in ApplicationPage :
     /\ l.enabled
     /\ l.holder = u \/ \E g \in Groups : /\ l.holder = g
                                        /\ GroupPage(g).status = "ACTIVE"
                                        /\ u \in GroupPage(g).members}

\* The Admin Center, the user's own page and the other services ask the tables
\* each with queries of their own and come to one answer: the pages give every
\* reason of the access that effective_access shows, a module on the user's
\* page is one the user has, and whoever is named as the holder of a role has
\* it and is told what the role is told.
PagesExplainAccess ==
  \A u \in Users :
    LET lines == Explained(u) scopes == {l.scope : l \in lines}
    IN  /\ EffectiveAccess(u) =
             IF lines = {} THEN NoAccess
             ELSE [roles |-> {l.role : l \in lines},
                   scope |-> IF {AllClients} \in scopes THEN {AllClients} ELSE UNION scopes]
        /\ Visible(u) => lines # {}
        /\ \A role \in RoleChoices :
             u \in RoleHolders(role) => u \in Notified(role) /\ role \in EffectiveAccess(u).roles
=============================================================================
