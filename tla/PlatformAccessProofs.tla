----------------------- MODULE PlatformAccessProofs -----------------------
(***************************************************************************)
(* Theorems on PlatformAccess: platform-api as a whole, for any users,     *)
(* groups, clients, workers and module roles, and any bounds.              *)
(***************************************************************************)
EXTENDS PlatformAccess, PlatformAccountsProofs

\* What a change under way keeps true of the assignments, however old its
\* lookup is: a row it found is its holder's still, or gone for good.
ChangeTrue(c) ==
  c # NoChange =>
    /\ c.new.role \in RoleChoices
    /\ c.row = 0 => c.at = "commit" /\ c.knew = {}
    /\ c.row # 0 => rows[c.row] = GoneRow \/ (c.row \in Live /\ rows[c.row].holder = c.holder)

\* What a reading knows: while nothing tore it, what the tables say now.
ReadingTrue(d, r) ==
  r # NoReading =>
    /\ d.op = "claims"
    /\ r.roles \subseteq RoleChoices
    /\ r.at = "issue" => r.ids \in Unions /\ r.refs \in Unions
    /\ ~r.torn =>
         /\ r.roles = EffectiveRoles(d.target)
         /\ r.at # "sources" => r.sources = Grants(d.target)
         /\ r.ids # {} => r.ids = UnionScope(Grants(d.target))
         /\ r.at = "issue" => r.refs = UnionScope(Grants(d.target))

\* The inductive invariant of the assignments.
AssignmentsInv ==
  /\ GrantsTypeOK
  /\ \A r \in Live : rows[r].role \in RoleChoices
  /\ \A w \in Workers : ChangeTrue(change[w])
  /\ OneAssignmentEach

\* The inductive invariant of platform-api.
PlatformInv ==
  /\ AccountsInv
  /\ AssignmentsInv
  /\ reading \in [Workers -> Reading \cup {NoReading}]
  /\ \A w \in Workers : ReadingTrue(desk[w], reading[w])

-----------------------------------------------------------------------------
\* Shapes

\* A row in use is a row, and the markers are none of what they stand beside.
LEMMA Markers ==
  /\ FreeRow \notin Row /\ GoneRow \notin Row /\ FreeRow # GoneRow
  /\ NoChange \notin Change /\ NoReading \notin Reading
<1>1. \A x \in Row : x # FreeRow /\ x # GoneRow
  BY DEF Row, FreeRow, GoneRow
<1>2. FreeRow.state # GoneRow.state
  BY DEF FreeRow, GoneRow
<1>3. \A c \in Change : c.at # NoChange.at
  BY DEF Change, NoChange
<1>4. \A r \in Reading : r.at # NoReading.at
  BY DEF Reading, NoReading
<1> QED  BY <1>1, <1>2, <1>3, <1>4

\* A row that is there is a row of its type.
LEMMA LiveRow ==
  ASSUME GrantsTypeOK, NEW r \in Live
  PROVE  r \in RowIds /\ rows[r] \in Row
  BY DEF GrantsTypeOK, Live

\* A worker busy with a change or a reading has one of its type.
LEMMA BusyWorker ==
  ASSUME PlatformInv, NEW w \in Workers
  PROVE  /\ change[w].at \in {"scope", "commit"} => change[w] \in Change
         /\ reading[w].at \in {"sources", "scope", "issue"} => reading[w] \in Reading
<1>1. change[w] \in Change \cup {NoChange} /\ reading[w] \in Reading \cup {NoReading}
  BY DEF PlatformInv, AssignmentsInv, GrantsTypeOK
<1>2. NoChange.at = "none" /\ NoReading.at = "none"
  BY DEF NoChange, NoReading
<1> QED  BY <1>1, <1>2

\* client_ref_scope_for and effective_client_ref_scope give every client by
\* the one sign for it, or some clients.
LEMMA ScopeShape ==
  ASSUME GrantsTypeOK, NEW r
  PROVE  ScopeOf(r) = {AllClients} \/ (ScopeOf(r) \subseteq Clients /\ ScopeOf(r) # {})
<1> DEFINE named == IF r \in Live THEN {s.client : s \in rows[r].scope} ELSE {}
<1>1. named \subseteq Clients \cup {AllClients}
  BY LiveRow DEF Row, ScopeRow
<1>2. ScopeOf(r) = IF named = {} \/ AllClients \in named THEN {AllClients} ELSE named
  BY DEF ScopeOf
<1> HIDE DEF named
<1> QED  BY <1>1, <1>2

\* A union of scopes is everything, or some clients.
LEMMA UnionShape ==
  ASSUME GrantsTypeOK, NEW sources
  PROVE  UnionScope(sources) \in Unions /\ UnionScope(sources) # {}
<1> DEFINE all == UNION {ScopeOf(r) : r \in sources}
<1>1. UnionScope(sources) = IF sources = {} \/ AllClients \in all THEN {AllClients} ELSE all
  BY DEF UnionScope
<1>2. all \subseteq Clients \cup {AllClients}
  BY ScopeShape
<1>3. sources # {} => all # {}
  <2>1. \A r \in sources : ScopeOf(r) \subseteq all /\ ScopeOf(r) # {}
    BY ScopeShape
  <2> QED  BY <2>1
<1> HIDE DEF all
<1>4. UnionScope(sources) = {AllClients} \/ (UnionScope(sources) \in SUBSET Clients /\ UnionScope(sources) # {})
  BY <1>1, <1>2, <1>3
<1> QED  BY <1>4 DEF Unions

\* What is read of the assignments depends on rows, groups and members only.
LEMMA SameTables ==
  ASSUME UNCHANGED <<rows, group, members>>
  PROVE  /\ Live' = Live
         /\ \A u : Grants(u)' = Grants(u) /\ EffectiveRoles(u)' = EffectiveRoles(u)
         /\ \A S : UnionScope(S)' = UnionScope(S)
<1>1. Live' = Live
  BY DEF Live
<1>2. \A u : Grants(u)' = Grants(u)
  BY <1>1 DEF Grants, ActiveGroups
<1>3. \A u : EffectiveRoles(u)' = EffectiveRoles(u)
  BY <1>2 DEF EffectiveRoles
<1>4. \A r : ScopeOf(r)' = ScopeOf(r)
  BY <1>1 DEF ScopeOf
<1>5. \A S : UnionScope(S)' = UnionScope(S)
  BY <1>4 DEF UnionScope
<1> QED  BY <1>1, <1>2, <1>3, <1>5

\* A user without assignments of the right kind has no roles.
LEMMA RolesAssigned ==
  ASSUME AssignmentsInv, NEW u
  PROVE  EffectiveRoles(u) \subseteq RoleChoices /\ Grants(u) \subseteq RowIds
  BY DEF AssignmentsInv, EffectiveRoles, Grants, Live

-----------------------------------------------------------------------------
\* Steps of the assignments

\* A worker turns to the change c and the rows stay.
LEMMA ChangeStep ==
  ASSUME AssignmentsInv, NEW w \in Workers, NEW c \in Change \cup {NoChange}, ChangeTrue(c),
         change' = [change EXCEPT ![w] = c], UNCHANGED <<rows, group, members, doubled>>
  PROVE  AssignmentsInv'
<1>1. Live' = Live /\ \A h : RowsOf(h)' = RowsOf(h)
  BY DEF Live, RowsOf
<1>2. change \in [Workers -> Change \cup {NoChange}]
  BY DEF AssignmentsInv, GrantsTypeOK
<1>3. \A v \in Workers : change'[v] = IF v = w THEN c ELSE change[v]
  BY <1>2
<1>4. GrantsTypeOK'
  BY <1>2 DEF AssignmentsInv, GrantsTypeOK
<1>5. ASSUME NEW v \in Workers PROVE ChangeTrue(change[v])'
  <2>1. ChangeTrue(change'[v])
    BY <1>3 DEF AssignmentsInv
  <2> QED  BY <2>1, <1>1 DEF ChangeTrue
<1>6. OneAssignmentEach'
  BY <1>1 DEF AssignmentsInv, OneAssignmentEach
<1> QED  BY <1>1, <1>4, <1>5, <1>6 DEF AssignmentsInv

\* One row is written, deleted or given: its holder stays, a deleted row does
\* not come back, and a new one is its holder's first unless two crossed.
LEMMA RowStep ==
  ASSUME AssignmentsInv, NEW r \in RowIds, NEW row \in Row \cup {GoneRow},
         rows' = [rows EXCEPT ![r] = row], UNCHANGED <<group, members>>,
         row # GoneRow => row.role \in RoleChoices,
         \/ r \in Live /\ (row # GoneRow => row.holder = rows[r].holder)
         \/ rows[r] = FreeRow /\ row # GoneRow /\ (doubled' \/ RowsOf(row.holder) = {}),
         \A v \in Workers : change'[v] \in {change[v], NoChange},
         change' \in [Workers -> Change \cup {NoChange}],
         doubled' \in BOOLEAN, doubled => doubled'
  PROVE  AssignmentsInv'
<1>1. rows \in [RowIds -> Row \cup {FreeRow, GoneRow}]
  BY DEF AssignmentsInv, GrantsTypeOK
<1>2. \A q \in RowIds : rows'[q] = IF q = r THEN row ELSE rows[q]
  BY <1>1
<1>3. GrantsTypeOK'
  BY <1>1 DEF AssignmentsInv, GrantsTypeOK
<1>4. Live' = IF row = GoneRow THEN Live \ {r} ELSE Live \cup {r}
  BY <1>2, Markers DEF Live
<1>5. \A q \in Live' : rows'[q].role \in RoleChoices
  BY <1>2, <1>4, Markers DEF AssignmentsInv, Live
<1>6. ASSUME NEW v \in Workers PROVE ChangeTrue(change[v])'
  <2> DEFINE c == change[v]
  <2>1. CASE change'[v] = NoChange
    BY <2>1 DEF ChangeTrue
  <2>2. CASE change'[v] = c /\ c # NoChange
    <3>1. ChangeTrue(c) /\ c \in Change
      BY <2>2 DEF AssignmentsInv, GrantsTypeOK
    <3>2. c.row # 0 => c.row \in RowIds
      BY <3>1 DEF Change
    <3> HIDE DEF c
    <3>3. c.row # 0 => rows'[c.row] = GoneRow \/ (c.row \in Live' /\ rows'[c.row].holder = c.holder)
      BY <3>1, <3>2, <2>2, <1>2, <1>4, Markers DEF ChangeTrue, Live
    <3> QED  BY <3>1, <3>3, <2>2 DEF ChangeTrue, c
  <2> QED  BY <2>1, <2>2
<1>7. OneAssignmentEach'
  <2> SUFFICES ASSUME ~doubled', NEW h \in Holders, NEW p \in RowsOf(h)', NEW q \in RowsOf(h)'
               PROVE  p = q
    BY DEF OneAssignmentEach
  <2>1. \A x, y \in RowsOf(h) : x = y
    BY DEF AssignmentsInv, OneAssignmentEach
  <2>2. CASE r \in Live
    <3>1. p \in RowsOf(h) /\ q \in RowsOf(h)
      BY <2>2, <1>2, <1>4 DEF RowsOf, Live
    <3> QED  BY <2>1, <3>1
  <2>3. CASE r \notin Live
    <3>1. row # GoneRow /\ RowsOf(row.holder) = {}
      BY <2>3
    <3>2. \A x \in RowsOf(h)' : x # r => x \in RowsOf(h)
      BY <1>2, <1>4 DEF RowsOf, Live
    <3>3. r \in RowsOf(h)' => row.holder = h
      BY <1>2 DEF RowsOf, Live
    <3> QED  BY <2>1, <3>1, <3>2, <3>3
  <2> QED  BY <2>2, <2>3
<1> QED  BY <1>3, <1>5, <1>6, <1>7 DEF AssignmentsInv

\* The lookup of an assignment: what it found is the holder's.
LEMMA FindStep ==
  ASSUME AssignmentsInv, edits \in Nat, NEW w \in Workers, NEW a \in Users, NEW h \in Holders,
         NEW role \in RoleChoices, NEW enabled \in BOOLEAN, NEW scope \in Scopes \cup {NoScope},
         FindAssignment(w, a, h, [role |-> role, enabled |-> enabled], scope)
  PROVE  AssignmentsInv'
<1> DEFINE new == [role |-> role, enabled |-> enabled]
           begun(r, was) ==
             [at |-> IF r = 0 THEN "commit" ELSE "scope", holder |-> h, row |-> r,
              was |-> was, new |-> new, scope |-> scope, seen |-> {}, gen |-> edits + 1,
              knew |-> RowsOf(h)]
           loaded(r) == [role |-> rows[r].role, enabled |-> rows[r].enabled]
<1>1. new \in [role : TalentRoles, enabled : BOOLEAN] /\ new.role \in RoleChoices
  BY RoleAssumption
<1>2. RowsOf(h) \subseteq RowIds /\ edits + 1 \in Nat /\ 0 \notin RowIds
  BY DEF RowsOf, Live, RowIds
<1>3. UNCHANGED <<rows, group, members, doubled>>
  BY DEF FindAssignment
<1>4. CASE RowsOf(h) = {}
  <2> DEFINE c == begun(0, new)
  <2>1. change' = [change EXCEPT ![w] = c]
    BY <1>4 DEF FindAssignment, Found
  <2> HIDE DEF new
  <2>2. c \in Change
    BY <1>1, <1>2 DEF Change
  <2>3. c.new = new /\ c.row = 0 /\ c.at = "commit" /\ c.knew = {}
    BY <1>4
  <2> HIDE DEF c
  <2>4. ChangeTrue(c)
    BY <1>1, <2>3 DEF ChangeTrue
  <2> QED  BY <1>3, <2>1, <2>2, <2>4, ChangeStep
<1>5. CASE RowsOf(h) # {}
  <2>1. PICK r \in RowsOf(h) : change' = [change EXCEPT ![w] = begun(r, loaded(r))]
    BY <1>5 DEF FindAssignment, Found
  <2> DEFINE c == begun(r, loaded(r))
  <2>2. r \in Live /\ r \in RowIds /\ r # 0 /\ rows[r] \in Row /\ rows[r].holder = h
    BY <1>2, <2>1, LiveRow DEF RowsOf, AssignmentsInv
  <2>3. loaded(r) \in [role : TalentRoles, enabled : BOOLEAN]
    BY <2>2 DEF Row
  <2> HIDE DEF new, loaded
  <2>4. c \in Change
    BY <1>1, <1>2, <2>2, <2>3 DEF Change
  <2>5. c.new = new /\ c.row = r /\ c.holder = h
    OBVIOUS
  <2> HIDE DEF c
  <2>6. ChangeTrue(c)
    BY <1>1, <2>2, <2>5 DEF ChangeTrue
  <2> USE DEF c
  <2> QED  BY <1>3, <2>1, <2>4, <2>6, ChangeStep
<1> QED  BY <1>4, <1>5

\* The DELETE of the scope rows.
LEMMA ReplaceStep ==
  ASSUME PlatformInv, NEW w \in Workers, ReplaceScope(w)
  PROVE  AssignmentsInv'
<1> DEFINE c == change[w]
           gone == IF c.scope # NoScope /\ c.row \in Live THEN rows[c.row].scope ELSE {}
           d == [c EXCEPT !.at = "commit", !.seen = gone]
<1>1. c \in Change /\ ChangeTrue(c) /\ AssignmentsInv /\ c.at = "scope"
  BY BusyWorker DEF ReplaceScope, PlatformInv, AssignmentsInv
<1>2. change' = [change EXCEPT ![w] = d] /\ UNCHANGED <<rows, group, members, doubled>>
  BY DEF ReplaceScope
<1>3. gone \in SUBSET ScopeRow
  BY <1>1, LiveRow DEF AssignmentsInv, Row
<1> HIDE DEF c, gone
<1>4. /\ d \in Change /\ d.row = c.row /\ d.holder = c.holder /\ d.new = c.new
      /\ d.knew = c.knew /\ d.at = "commit"
  BY <1>1, <1>3 DEF Change
<1> HIDE DEF d
<1>5. ChangeTrue(d)
  BY <1>1, <1>4, Markers DEF ChangeTrue
<1> QED  BY <1>1, <1>2, <1>4, <1>5, ChangeStep

\* The commit of an assignment: a new row, the old one changed, or an error.
LEMMA CommitStep ==
  ASSUME PlatformInv, NEW w \in Workers, CommitAssignment(w)
  PROVE  AssignmentsInv'
<1> DEFINE c == change[w]
           asked == IF c.scope = NoScope THEN {} ELSE {[client |-> k, gen |-> c.gen] : k \in c.scope}
           fresh == CHOOSE r \in RowIds : rows[r] = FreeRow
<1>1. /\ AssignmentsInv /\ c \in Change /\ ChangeTrue(c) /\ c # NoChange
      /\ change \in [Workers -> Change \cup {NoChange}] /\ doubled \in BOOLEAN
  BY BusyWorker, Markers DEF CommitAssignment, PlatformInv, AssignmentsInv, GrantsTypeOK
<1>2. change' = [change EXCEPT ![w] = NoChange] /\ UNCHANGED <<group, members>>
  BY DEF CommitAssignment
<1>3. /\ \A v \in Workers : change'[v] \in {change[v], NoChange}
      /\ change' \in [Workers -> Change \cup {NoChange}]
  BY <1>1, <1>2
<1>4. asked \in SUBSET ScopeRow
  <2>1. c.scope \in Scopes \cup {NoScope} /\ c.gen \in Nat
    BY <1>1 DEF Change
  <2> HIDE DEF c
  <2>2. c.scope # NoScope => c.scope \subseteq Clients \cup {AllClients}
    BY <2>1 DEF Scopes
  <2> QED  BY <2>1, <2>2 DEF ScopeRow
<1>5. /\ c.holder \in Holders /\ c.new \in [role : TalentRoles, enabled : BOOLEAN]
      /\ c.new.role \in RoleChoices
  BY <1>1 DEF Change, ChangeTrue
<1>6. CASE c.row = 0
  <2> DEFINE row == [holder |-> c.holder, role |-> c.new.role, enabled |-> c.new.enabled,
                     scope |-> asked]
  <2>1. /\ \E r \in RowIds : rows[r] = FreeRow
        /\ rows' = [rows EXCEPT ![fresh] = row]
        /\ doubled' = (doubled \/ RowsOf(c.holder) \ c.knew # {})
    BY <1>6 DEF CommitAssignment
  <2>2. fresh \in RowIds /\ rows[fresh] = FreeRow
    BY <2>1
  <2>3. c.knew = {}
    BY <1>1, <1>6 DEF ChangeTrue
  <2>4. doubled' \in BOOLEAN /\ (doubled => doubled') /\ (doubled' \/ RowsOf(c.holder) = {})
    BY <1>1, <2>1, <2>3
  <2> HIDE DEF c, asked, fresh
  <2>5. row \in Row /\ row.role = c.new.role /\ row.holder = c.holder
    BY <1>4, <1>5 DEF Row
  <2> HIDE DEF row
  <2> QED  BY <1>1, <1>2, <1>3, <1>5, <2>1, <2>2, <2>4, <2>5, Markers, RowStep
<1>7. CASE c.row \in Live /\ c.row # 0
  <2> DEFINE old == rows[c.row]
             row == [holder  |-> c.holder,
                     role    |-> IF c.new.role # c.was.role THEN c.new.role ELSE old.role,
                     enabled |-> IF c.new.enabled # c.was.enabled THEN c.new.enabled ELSE old.enabled,
                     scope   |-> (old.scope \ c.seen) \cup asked]
  <2>1. c.row \in RowIds /\ old \in Row /\ old.role \in RoleChoices /\ rows \in [RowIds -> Row \cup {FreeRow, GoneRow}]
    BY <1>1, <1>7, LiveRow DEF AssignmentsInv, GrantsTypeOK
  <2>2. rows' = [rows EXCEPT ![c.row] = row] /\ doubled' = doubled
    BY <1>7, <2>1 DEF CommitAssignment
  <2>3. old.holder = c.holder
    BY <1>1, <1>7 DEF ChangeTrue, Live
  <2> HIDE DEF c, asked, old
  <2>4. row \in Row /\ row.role \in RoleChoices /\ row.holder = c.holder
    BY <1>4, <1>5, <2>1 DEF Row
  <2> USE DEF old
  <2> HIDE DEF row
  <2> QED  BY <1>1, <1>2, <1>3, <1>7, <2>1, <2>2, <2>3, <2>4, RowStep
<1>8. CASE c.row \notin Live /\ c.row # 0
  <2>1. UNCHANGED <<rows, group, members, doubled>>
    BY <1>2, <1>8 DEF CommitAssignment
  <2>2. ChangeTrue(NoChange)
    BY DEF ChangeTrue
  <2> QED  BY <1>1, <1>2, <2>1, <2>2, ChangeStep
<1> QED  BY <1>6, <1>7, <1>8

\* Edits of one statement.
LEMMA GrantEditStep ==
  ASSUME AssignmentsInv, GrantEdit
  PROVE  AssignmentsInv'
<1>1. ASSUME NEW a \in Users, NEW h \in Holders, RemoveAssignment(a, h)
      PROVE  AssignmentsInv'
  <2>1. PICK r \in RowsOf(h) : rows' = [rows EXCEPT ![r] = GoneRow]
    BY <1>1 DEF RemoveAssignment, Found
  <2>2. UNCHANGED <<group, members, change, doubled>>
    BY <1>1 DEF RemoveAssignment
  <2>3. r \in Live /\ r \in RowIds
    BY <2>1 DEF RowsOf, Live
  <2>4. change \in [Workers -> Change \cup {NoChange}] /\ doubled \in BOOLEAN
    BY DEF AssignmentsInv, GrantsTypeOK
  <2> QED  BY <2>1, <2>2, <2>3, <2>4, RowStep
<1>2. ASSUME UNCHANGED <<rows, change, doubled>>,
             group' \in [Groups -> Group \cup {NoGroup}], members' \in [Groups -> SUBSET Users]
      PROVE  AssignmentsInv'
  <2>1. Live' = Live /\ \A h : RowsOf(h)' = RowsOf(h)
    BY <1>2 DEF Live, RowsOf
  <2>2. \A w \in Workers : ChangeTrue(change[w])'
    BY <1>2, <2>1 DEF AssignmentsInv, ChangeTrue
  <2>3. OneAssignmentEach'
    BY <1>2, <2>1 DEF AssignmentsInv, OneAssignmentEach
  <2> QED  BY <1>2, <2>1, <2>2, <2>3 DEF AssignmentsInv, GrantsTypeOK
<1>3. /\ group \in [Groups -> Group \cup {NoGroup}] /\ members \in [Groups -> SUBSET Users]
      /\ \A g \in Groups : group[g] # NoGroup => group[g] \in Group
  BY DEF AssignmentsInv, GrantsTypeOK
<1>4. ASSUME NEW a \in Users, NEW g \in Groups, CreateGroup(a, g)
      PROVE  AssignmentsInv'
  BY <1>2, <1>3, <1>4 DEF CreateGroup, Group
<1>5. ASSUME NEW a \in Users, NEW g \in Groups, NEW type \in {"TEAM", "SYSTEM"}, RetypeGroup(a, g, type)
      PROVE  AssignmentsInv'
  <2>1. group[g] \in Group /\ group' = [group EXCEPT ![g] = [group[g] EXCEPT !.type = type]]
    BY <1>3, <1>5 DEF RetypeGroup
  <2>2. [group[g] EXCEPT !.type = type] \in Group
    BY <2>1 DEF Group
  <2>3. UNCHANGED <<rows, members, change, doubled>>
    BY <1>5 DEF RetypeGroup
  <2> QED  BY <1>2, <1>3, <2>1, <2>2, <2>3
<1>6. ASSUME NEW a \in Users, NEW g \in Groups, NEW status \in {"ACTIVE", "INACTIVE"},
             SetGroupStatus(a, g, status)
      PROVE  AssignmentsInv'
  <2>1. group[g] \in Group /\ group' = [group EXCEPT ![g] = [group[g] EXCEPT !.status = status]]
    BY <1>3, <1>6 DEF SetGroupStatus
  <2>2. [group[g] EXCEPT !.status = status] \in Group
    BY <2>1 DEF Group
  <2>3. UNCHANGED <<rows, members, change, doubled>>
    BY <1>6 DEF SetGroupStatus
  <2> QED  BY <1>2, <1>3, <2>1, <2>2, <2>3
<1>7. ASSUME NEW a \in Users, NEW g \in Groups, NEW u \in Users, NEW in \in BOOLEAN,
             SetMember(a, g, u, in)
      PROVE  AssignmentsInv'
  BY <1>2, <1>3, <1>7 DEF SetMember
<1> QED  BY <1>1, <1>4, <1>5, <1>6, <1>7 DEF GrantEdit

-----------------------------------------------------------------------------
\* Readings

\* A reading stays true as long as the tables stay, and a torn one has nothing
\* left to be true of.
LEMMA ReadingKept ==
  ASSUME NEW d, NEW r, ReadingTrue(d, r),
         UNCHANGED <<rows, group, members>> \/ (r # NoReading => r.torn)
  PROVE  ReadingTrue(d, r)'
<1>1. CASE UNCHANGED <<rows, group, members>>
  BY <1>1, SameTables DEF ReadingTrue
<1>2. CASE r # NoReading => r.torn
  BY <1>2 DEF ReadingTrue
<1> QED  BY <1>1, <1>2

\* The reading of a worker whose request changes is r from now on.
LEMMA ReadingsKept ==
  ASSUME PlatformInv, NEW w \in Workers, NEW r \in Reading \cup {NoReading},
         UNCHANGED <<rows, group, members>>,
         reading' = [reading EXCEPT ![w] = r], ReadingTrue(desk'[w], r),
         \A v \in Workers \ {w} : desk'[v] = desk[v]
  PROVE  /\ reading' \in [Workers -> Reading \cup {NoReading}]
         /\ \A v \in Workers : ReadingTrue(desk[v], reading[v])'
<1>1. reading \in [Workers -> Reading \cup {NoReading}]
  BY DEF PlatformInv
<1>2. \A v \in Workers : reading'[v] = IF v = w THEN r ELSE reading[v]
  BY <1>1
<1>3. ASSUME NEW v \in Workers PROVE ReadingTrue(desk'[v], reading'[v])
  BY <1>2 DEF PlatformInv
<1>4. \A d, q : ReadingTrue(d, q) => ReadingTrue(d, q)'
  BY ReadingKept
<1> QED  BY <1>1, <1>3, <1>4 DEF ReadingTrue

\* A change of the tables tears the readings under way.
LEMMA TearStep ==
  ASSUME PlatformInv, Tear, UNCHANGED desk
  PROVE  /\ reading' \in [Workers -> Reading \cup {NoReading}]
         /\ \A w \in Workers : ReadingTrue(desk[w], reading[w])'
<1>1. reading \in [Workers -> Reading \cup {NoReading}]
  BY DEF PlatformInv
<1>2. CASE UNCHANGED <<rows, group, members>>
  <2>1. reading' = reading
    BY <1>2 DEF Tear
  <2>2. \A d, q : ReadingTrue(d, q) => ReadingTrue(d, q)'
    BY <1>2, ReadingKept
  <2> QED  BY <1>1, <2>1, <2>2 DEF PlatformInv, ReadingTrue
<1>3. CASE ~UNCHANGED <<rows, group, members>>
  <2>1. reading' = [w \in Workers |-> IF reading[w] = NoReading THEN NoReading
                                      ELSE [reading[w] EXCEPT !.torn = TRUE]]
    BY <1>3 DEF Tear
  <2>2. ASSUME NEW w \in Workers
        PROVE  /\ reading'[w] \in Reading \cup {NoReading}
               /\ ReadingTrue(desk[w], reading[w])'
    <3> DEFINE r == reading[w]
               t == [r EXCEPT !.torn = TRUE]
    <3>1. CASE r = NoReading
      BY <2>1, <3>1 DEF ReadingTrue
    <3>2. CASE r # NoReading
      <4>1. r \in Reading /\ ReadingTrue(desk[w], r) /\ reading'[w] = t
        BY <1>1, <2>1, <3>2 DEF PlatformInv
      <4> HIDE DEF r
      <4>2. /\ t \in Reading /\ t.torn /\ t.at = r.at /\ t.roles = r.roles
            /\ t.ids = r.ids /\ t.refs = r.refs
        BY <4>1 DEF Reading
      <4> HIDE DEF t
      <4>3. PICK q \in Reading :
              /\ reading'[w] = q /\ q.torn /\ q.at = r.at /\ q.roles = r.roles
              /\ q.ids = r.ids /\ q.refs = r.refs
        BY <4>1, <4>2
      <4>4. ReadingTrue(desk[w], q)'
        BY <3>2, <4>1, <4>3 DEF ReadingTrue, r
      <4> QED  BY <4>3, <4>4 DEF ReadingTrue
    <3> QED  BY <3>1, <3>2
  <2> QED  BY <2>1, <2>2
<1> QED  BY <1>2, <1>3

\* Each query of build_claims adds what the tables say now.
LEMMA QueryStep ==
  ASSUME PlatformInv, NEW w \in Workers, ReadRoles(w) \/ ReadSources(w) \/ ReadScope(w)
  PROVE  PlatformInv'
<1> DEFINE u == desk[w].target
           r == reading[w]
<1>1. /\ UNCHANGED accountVars /\ UNCHANGED grantVars
      /\ AccountsInv /\ AssignmentsInv /\ GrantsTypeOK /\ ReadingTrue(desk[w], r)
  BY DEF ReadRoles, ReadSources, ReadScope, PlatformInv, AssignmentsInv
<1>2. AccountsInv'
  BY <1>1, AccountsInductive
<1>3. AssignmentsInv'
  <2>1. \A v \in Workers : change[v] \in Change \cup {NoChange}
    BY <1>1 DEF GrantsTypeOK
  <2>2. change' = [change EXCEPT ![w] = change[w]] /\ ChangeTrue(change[w])
    BY <1>1 DEF AssignmentsInv, GrantsTypeOK, grantVars
  <2> QED  BY <1>1, <2>1, <2>2, ChangeStep DEF grantVars
<1>4. EffectiveRoles(u) \subseteq RoleChoices /\ Grants(u) \subseteq RowIds /\ RoleChoices \subseteq TalentRoles
  BY <1>1, RolesAssigned, RoleAssumption
<1>5. \E q \in Reading : reading' = [reading EXCEPT ![w] = q] /\ ReadingTrue(desk[w], q)
  <2>1. CASE ReadRoles(w)
    <3> DEFINE q == [at |-> "sources", roles |-> EffectiveRoles(u),
                     sources |-> {}, ids |-> {}, refs |-> {}, torn |-> FALSE]
    <3>1. reading' = [reading EXCEPT ![w] = q] /\ desk[w].op = "claims"
      BY <2>1 DEF ReadRoles
    <3>2. /\ q \in Reading
          /\ q.at = "sources" /\ q.roles = EffectiveRoles(u) /\ q.ids = {}
      BY <1>4 DEF Reading
    <3> HIDE DEF q
    <3>3. ReadingTrue(desk[w], q)
      BY <1>4, <3>1, <3>2 DEF ReadingTrue
    <3> QED  BY <3>1, <3>2, <3>3
  <2>2. CASE ReadSources(w)
    <3> DEFINE q == [r EXCEPT !.at = "scope", !.sources = Grants(u)]
    <3>1. reading' = [reading EXCEPT ![w] = q] /\ r.at = "sources"
      BY <2>2 DEF ReadSources
    <3>2. r \in Reading /\ r # NoReading
      BY <3>1, BusyWorker, Markers
    <3> HIDE DEF r
    <3>3. /\ q \in Reading
          /\ q.at = "scope" /\ q.roles = r.roles /\ q.sources = Grants(u)
          /\ q.ids = r.ids /\ q.torn = r.torn
      BY <1>4, <3>2 DEF Reading
    <3> HIDE DEF q
    <3>4. ReadingTrue(desk[w], q)
      BY <1>1, <3>2, <3>3 DEF ReadingTrue
    <3> QED  BY <3>1, <3>3, <3>4
  <2>3. CASE ReadScope(w)
    <3> DEFINE scope == UnionScope(r.sources)
               first == [r EXCEPT !.at = "sources", !.ids = scope]
               second == [r EXCEPT !.at = "issue", !.refs = scope]
    <3>1. /\ reading' = [reading EXCEPT ![w] = IF r.ids = {} THEN first ELSE second]
          /\ r.at = "scope"
      BY <2>3 DEF ReadScope
    <3>2. r \in Reading /\ r # NoReading
      BY <3>1, BusyWorker, Markers
    <3>3. scope \in Unions /\ r.ids \in Unions \cup {{}}
      BY <1>1, <3>2, UnionShape DEF Reading
    <3>4. ~r.torn => scope = UnionScope(Grants(u))
      BY <1>1, <3>1, <3>2 DEF ReadingTrue
    <3> HIDE DEF r, scope
    <3>5. CASE r.ids = {}
      <4>1. /\ first \in Reading
            /\ first.at = "sources" /\ first.roles = r.roles /\ first.ids = scope /\ first.torn = r.torn
        BY <3>2, <3>3 DEF Reading
      <4>2. reading' = [reading EXCEPT ![w] = first]
        BY <3>1, <3>5
      <4> HIDE DEF first
      <4>3. ReadingTrue(desk[w], first)
        BY <1>1, <3>2, <3>4, <4>1 DEF ReadingTrue
      <4> QED  BY <4>1, <4>2, <4>3
    <3>6. CASE r.ids # {}
      <4>1. /\ second \in Reading
            /\ second.at = "issue" /\ second.roles = r.roles /\ second.sources = r.sources
            /\ second.ids = r.ids /\ second.refs = scope /\ second.torn = r.torn
        BY <3>2, <3>3 DEF Reading
      <4>2. reading' = [reading EXCEPT ![w] = second]
        BY <3>1, <3>6
      <4> HIDE DEF second
      <4>3. ReadingTrue(desk[w], second)
        BY <1>1, <3>1, <3>2, <3>3, <3>4, <3>6, <4>1 DEF ReadingTrue
      <4> QED  BY <4>1, <4>2, <4>3
    <3> QED  BY <3>5, <3>6
  <2> QED  BY <2>1, <2>2, <2>3
<1>6. /\ reading' \in [Workers -> Reading \cup {NoReading}]
      /\ \A v \in Workers : ReadingTrue(desk[v], reading[v])'
  BY <1>1, <1>5, ReadingsKept DEF accountVars, grantVars
<1> QED  BY <1>2, <1>3, <1>6 DEF PlatformInv

\* The claims issued are claims a session can carry.
LEMMA IssueStep ==
  ASSUME PlatformInv, NEW w \in Workers, IssueClaims(w)
  PROVE  PlatformInv'
<1> DEFINE r == reading[w]
           m == ClaimsRead(w)
<1>1. /\ AccountsInv /\ AssignmentsInv /\ ReadingTrue(desk[w], r) /\ r.at = "issue"
      /\ IssueSession(w, m)
      /\ reading' = [reading EXCEPT ![w] = NoReading] /\ UNCHANGED grantVars
  BY DEF PlatformInv, IssueClaims
<1>2. r # NoReading
  BY <1>1, BusyWorker, Markers
<1>3. m \in Claims
  <2>1. CASE r.roles = {}
    BY <2>1, ClaimsAssumption DEF ClaimsRead
  <2>2. CASE r.roles # {}
    <3>1. RoleChoices # {} /\ r.ids \in Unions /\ r.refs \in Unions
      BY <1>1, <1>2, <2>2 DEF ReadingTrue
    <3>2. EffectiveRoles(desk[w].target) \subseteq RoleChoices
      BY <1>1, RolesAssigned
    <3>3. m = [roles |-> EffectiveRoles(desk[w].target), ids |-> r.ids, refs |-> r.refs]
      BY <2>2 DEF ClaimsRead
    <3> HIDE DEF r, m
    <3>4. m \in ModuleClaims
      BY <3>1, <3>2, <3>3 DEF ModuleClaims
    <3> QED  BY <3>1, <3>4, ClaimsAssumption
  <2> QED  BY <2>1, <2>2
<1>4. AccountsInv'
  BY <1>1, <1>3, AccountsInductive DEF AccountsNext
<1>5. AssignmentsInv'
  <2>1. change' = [change EXCEPT ![w] = change[w]] /\ ChangeTrue(change[w])
        /\ change[w] \in Change \cup {NoChange}
    BY <1>1 DEF AssignmentsInv, GrantsTypeOK, grantVars
  <2> QED  BY <1>1, <2>1, ChangeStep DEF grantVars
<1>6. \A v \in Workers \ {w} : desk'[v] = desk[v]
  BY <1>1 DEF IssueSession, Leave, AccountsInv, AccountsTypeOK
<1>7. ReadingTrue(desk'[w], NoReading)
  BY DEF ReadingTrue
<1>8. /\ reading' \in [Workers -> Reading \cup {NoReading}]
      /\ \A v \in Workers : ReadingTrue(desk[v], reading[v])'
  BY <1>1, <1>6, <1>7, ReadingsKept DEF grantVars
<1> QED  BY <1>4, <1>5, <1>8 DEF PlatformInv

-----------------------------------------------------------------------------
\* The whole system

\* The counter of edits is all of the accounts that an edit of assignments
\* touches.
LEMMA EditCounted ==
  ASSUME AccountsInv, NEW a \in Users, Administers(a)
  PROVE  AccountsInv' /\ desk' = desk
<1>1. UNCHANGED <<mode, acct, sessions, desk, approved, crossed>> /\ edits' \in Nat
  BY DEF Administers, AccountsInv, AccountsTypeOK
<1>2. Existing' = Existing /\ ActiveSupers' = ActiveSupers /\ Admitted' = Admitted
  BY <1>1 DEF Existing, ActiveSupers, Admitted
<1> QED  BY <1>1, <1>2 DEF AccountsInv, AccountsTypeOK, AdmissionByAdministrators, CountsHold

\* Nothing changes in the assignments, or a change is dropped.
LEMMA AssignmentsKept ==
  ASSUME AssignmentsInv, UNCHANGED <<rows, group, members, doubled>>,
         change' \in [Workers -> Change \cup {NoChange}],
         \A w \in Workers : change'[w] \in {change[w], NoChange}
  PROVE  AssignmentsInv'
<1>1. Live' = Live /\ \A h : RowsOf(h)' = RowsOf(h)
  BY DEF Live, RowsOf
<1>2. \A w \in Workers : ChangeTrue(change[w])'
  BY <1>1 DEF AssignmentsInv, ChangeTrue
<1>3. OneAssignmentEach'
  BY <1>1 DEF AssignmentsInv, OneAssignmentEach
<1> QED  BY <1>1, <1>2, <1>3 DEF AssignmentsInv, GrantsTypeOK

\* A worker that builds claims does nothing else with its request.
LEMMA ClaimsKeepDesk ==
  ASSUME AccountsInv, NEW w \in Workers, AccountsStep(w)
  PROVE  desk[w].op # "claims" /\ \A v \in Workers \ {w} : desk'[v] = desk[v]
<1>1. Idle.op = "idle" /\ desk \in [Workers -> Edit \cup SignIn \cup Issue \cup {Idle}]
  BY DEF Idle, AccountsInv, AccountsTypeOK
<1>2. \A d : Take(w, d) => desk[w].op = "idle" /\ \A v \in Workers \ {w} : desk'[v] = desk[v]
  BY <1>1 DEF Take
<1>3. CASE \E a, u \in Users, to \in {"on", "off"} : CheckStatus(w, a, u, to)
  BY <1>2, <1>3 DEF CheckStatus
<1>4. CASE \E a, u \in Users, to \in Roles : CheckRole(w, a, u, to)
  BY <1>2, <1>4 DEF CheckRole
<1>5. CASE CommitEdit(w)
  BY <1>1, <1>5 DEF CommitEdit, Leave
<1>6. CASE \E u \in Users, oid \in Identities : Resolve(w, u, oid)
  BY <1>2, <1>6 DEF Resolve
<1>7. CASE CommitSignIn(w)
  <2>1. desk[w].op = "entra" /\ \E d : desk' = [desk EXCEPT ![w] = d]
    BY <1>7 DEF CommitSignIn, Leave
  <2> QED  BY <1>1, <2>1
<1>8. CASE \E u \in Users : DevLogin(w, u)
  BY <1>2, <1>8 DEF DevLogin
<1>9. CASE Refresh(w)
  BY <1>1, <1>9 DEF Refresh
<1> QED  BY <1>3, <1>4, <1>5, <1>6, <1>7, <1>8, <1>9 DEF AccountsStep

\* Every step of platform-api keeps its invariant.
LEMMA PlatformInductive ==
  ASSUME PlatformInv, [Next]_vars
  PROVE  PlatformInv'
<1>1. /\ AccountsInv /\ AssignmentsInv /\ edits \in Nat
      /\ change \in [Workers -> Change \cup {NoChange}]
      /\ reading \in [Workers -> Reading \cup {NoReading}]
  BY DEF PlatformInv, AssignmentsInv, GrantsTypeOK, AccountsInv, AccountsTypeOK
<1>2. \A d : ReadingTrue(d, NoReading) /\ ReadingTrue(d, NoReading)'
  BY DEF ReadingTrue
<1>3. ASSUME UNCHANGED grantVars
      PROVE  AssignmentsInv'
  BY <1>1, <1>3, AssignmentsKept DEF grantVars
<1>4. ASSUME UNCHANGED reading, UNCHANGED <<rows, group, members>>,
             \A v \in Workers : reading[v] = NoReading \/ desk'[v] = desk[v]
      PROVE  /\ reading' \in [Workers -> Reading \cup {NoReading}]
             /\ \A v \in Workers : ReadingTrue(desk[v], reading[v])'
  <2>1. \A d, q : ReadingTrue(d, q) => ReadingTrue(d, q)'
    BY <1>4, ReadingKept
  <2>2. \A v \in Workers : ReadingTrue(desk'[v], reading[v])
    BY <1>2, <1>4 DEF PlatformInv
  <2> QED  BY <1>1, <1>4, <2>1, <2>2 DEF ReadingTrue
<1>5. ASSUME NEW w \in Workers, AccountsStep(w), UNCHANGED <<grantVars, reading>>
      PROVE  PlatformInv'
  <2>1. AccountsInv'
    BY <1>1, <1>5, AccountsInductive DEF AccountsNext
  <2>2. \A v \in Workers : reading[v] = NoReading \/ desk'[v] = desk[v]
    BY <1>1, <1>5, ClaimsKeepDesk DEF PlatformInv, ReadingTrue
  <2> QED  BY <1>3, <1>4, <1>5, <2>1, <2>2 DEF PlatformInv, grantVars
<1>6. ASSUME NEW w \in Workers, AssignmentStep(w), Tear
      PROVE  PlatformInv'
  <2>1. AccountsInv' /\ desk' = desk
    <3>1. CASE \E a \in Users : Administers(a)
      BY <1>1, <3>1, EditCounted
    <3>2. CASE UNCHANGED accountVars
      BY <1>1, <3>2, AccountsInductive DEF accountVars
    <3> QED  BY <1>6, <3>1, <3>2 DEF AssignmentStep, FindAssignment, ReplaceScope, CommitAssignment
  <2>2. AssignmentsInv'
    BY <1>1, <1>6, FindStep, ReplaceStep, CommitStep DEF AssignmentStep
  <2> QED  BY <1>6, <2>1, <2>2, TearStep DEF PlatformInv
<1>7. ASSUME GrantEdit, Tear
      PROVE  PlatformInv'
  <2>1. \E a \in Users : Administers(a)
    BY <1>7 DEF GrantEdit, RemoveAssignment, CreateGroup, RetypeGroup, SetGroupStatus, SetMember
  <2>2. AccountsInv' /\ desk' = desk
    BY <1>1, <2>1, EditCounted
  <2> QED  BY <1>1, <1>7, <2>2, GrantEditStep, TearStep DEF PlatformInv
<1>8. ASSUME NEW w \in Workers, Die(w)
      PROVE  PlatformInv'
  <2>1. /\ desk' = [desk EXCEPT ![w] = Idle] /\ change' = [change EXCEPT ![w] = NoChange]
        /\ reading' = [reading EXCEPT ![w] = NoReading]
        /\ UNCHANGED <<mode, acct, sessions, edits, approved, crossed>>
        /\ UNCHANGED <<rows, group, members, doubled>>
    BY <1>8 DEF Die, Leave
  <2>2. desk \in [Workers -> Edit \cup SignIn \cup Issue \cup {Idle}]
    BY <1>1 DEF AccountsInv, AccountsTypeOK
  <2>3. AccountsInv'
    <3>1. CASE desk[w] = Idle
      BY <1>1, <2>1, <2>2, <3>1, AccountsInductive DEF accountVars
    <3>2. CASE desk[w] # Idle
      BY <1>1, <2>1, <3>2, AccountsInductive DEF AccountsNext, Abort, Leave
    <3> QED  BY <3>1, <3>2
  <2>4. AssignmentsInv'
    BY <1>1, <2>1, AssignmentsKept
  <2>5. \A v \in Workers \ {w} : desk'[v] = desk[v]
    BY <2>1, <2>2
  <2> QED  BY <1>2, <2>1, <2>3, <2>4, <2>5, ReadingsKept DEF PlatformInv
<1>9. ASSUME NEW u \in Users, ExpireOne(u)
      PROVE  PlatformInv'
  <2>1. PICK s \in sessions : Expire(s) /\ UNCHANGED <<grantVars, reading>>
    BY <1>9 DEF ExpireOne
  <2>2. AccountsInv' /\ desk' = desk
    BY <1>1, <2>1, AccountsInductive DEF AccountsNext, Expire
  <2> QED  BY <1>3, <1>4, <2>1, <2>2 DEF PlatformInv, grantVars
<1>10. ASSUME Deploy
       PROVE  PlatformInv'
  <2>1. /\ Redeploy /\ change' = [w \in Workers |-> NoChange]
        /\ reading' = [w \in Workers |-> NoReading] /\ UNCHANGED <<rows, group, members, doubled>>
    BY <1>10 DEF Deploy
  <2>2. AccountsInv'
    BY <1>1, <2>1, AccountsInductive DEF AccountsNext
  <2>3. AssignmentsInv'
    BY <1>1, <2>1, AssignmentsKept
  <2>4. \A v \in Workers : ReadingTrue(desk[v], reading[v])'
    BY <2>1 DEF ReadingTrue
  <2> QED  BY <2>1, <2>2, <2>3, <2>4 DEF PlatformInv
<1>11. ASSUME UNCHANGED vars
       PROVE  PlatformInv'
  <2>1. AccountsInv' /\ desk' = desk
    BY <1>1, <1>11, AccountsInductive DEF vars, accountVars
  <2> QED  BY <1>3, <1>4, <1>11, <2>1 DEF PlatformInv, vars, grantVars
<1>12. ASSUME NEW w \in Workers, ReadRoles(w) \/ ReadSources(w) \/ ReadScope(w) \/ IssueClaims(w)
       PROVE  PlatformInv'
  BY <1>12, QueryStep, IssueStep
<1> QED  BY <1>5, <1>6, <1>7, <1>8, <1>9, <1>10, <1>11, <1>12 DEF Next

\* The invariant holds of platform-api as a whole: what the accounts keep true
\* by themselves, changes and readings that are true of the tables as far as
\* no other request came between, and one assignment to a holder.
THEOREM PlatformInvariant == Spec => []PlatformInv
<1>1. Init => PlatformInv
  <2> SUFFICES ASSUME Init PROVE PlatformInv
    OBVIOUS
  <2>1. /\ \A r \in RowIds : rows[r] = FreeRow
        /\ \A w \in Workers : change[w] = NoChange /\ reading[w] = NoReading
    BY DEF Init, GrantsInit
  <2>2. Live = {}
    BY <2>1 DEF Live
  <2>3. GrantsTypeOK
    BY DEF Init, GrantsInit, GrantsTypeOK
  <2>4. AssignmentsInv
    BY <2>1, <2>2, <2>3 DEF AssignmentsInv, ChangeTrue, OneAssignmentEach, RowsOf
  <2>5. AccountsInv
    BY AccountsStart DEF Init
  <2> QED  BY <2>1, <2>4, <2>5 DEF Init, PlatformInv, ReadingTrue
<1>2. PlatformInv /\ [Next]_vars => PlatformInv'
  BY PlatformInductive
<1> QED  BY <1>1, <1>2, PTL DEF Spec

\* platform-api's tables hold rows of the right shape, and a holder has one
\* assignment unless two first assignments crossed (upsert_module_assignment).
THEOREM TablesKeepTheirShape == Spec => []AccessInv
<1>1. PlatformInv => AccessInv
  BY DEF PlatformInv, AssignmentsInv, AccountsInv, AccessInv, TypeOK
<1> QED  BY <1>1, PlatformInvariant, PTL

\* The guard of the last active super admin and the first-login policy hold in
\* the whole system too: no edit of assignments and no building of claims
\* comes in their way.
THEOREM AccountsStaySafe == Spec => [](LockoutNeedsCrossing /\ AdmissionByAdministrators)
<1>1. PlatformInv => LockoutNeedsCrossing /\ AdmissionByAdministrators
  BY DEF PlatformInv, AccountsInv, CountsHold, LockoutNeedsCrossing
<1> QED  BY <1>1, PlatformInvariant, PTL

\* In the whole of platform-api too an account changes role or activity only as
\* an administrator asked (set_user_active, set_platform_role): no edit of
\* assignments and no building of claims touches an account.
THEOREM AccountsChangeOnRequest == Spec => AccessChangesOnRequest
<1>1. PlatformInv /\ [Next]_vars => [ChangeIsAsked]_accountVars
  <2> SUFFICES ASSUME PlatformInv, Next, acct' # acct
               PROVE  ChangeIsAsked
    BY DEF ChangeIsAsked, vars
  <2>1. ASSUME NEW w \in Workers, AssignmentStep(w)
        PROVE  FALSE
    BY <2>1 DEF AssignmentStep, FindAssignment, ReplaceScope, CommitAssignment, Administers, accountVars
  <2>2. ASSUME NEW w \in Workers, ReadRoles(w) \/ ReadSources(w) \/ ReadScope(w) \/ IssueClaims(w) \/ Die(w)
        PROVE  FALSE
    BY <2>2 DEF ReadRoles, ReadSources, ReadScope, IssueClaims, IssueSession, Die, accountVars
  <2>3. ~GrantEdit
    BY DEF GrantEdit, RemoveAssignment, CreateGroup, RetypeGroup, SetGroupStatus, SetMember, Administers
  <2>4. ~Deploy /\ ~\E u \in Users : ExpireOne(u)
    BY DEF Deploy, Redeploy, ExpireOne, Expire
  <2>5. PICK w \in Workers : AccountsStep(w)
    BY <2>1, <2>2, <2>3, <2>4 DEF Next
  <2> QED  BY <2>5, StepsAreAsked DEF PlatformInv, AccountsNext
<1> QED  BY <1>1, PlatformInvariant, PTL DEF Spec, AccessChangesOnRequest, ChangeIsAsked

-----------------------------------------------------------------------------
\* Access

\* The filters of the contributing rows, put together, are the entitlement.
LEMMA GrantsAreEntitling ==
  ASSUME NEW u
  PROVE  Grants(u) = Entitling(u)
  BY DEF Grants, ActiveGroups, Entitling

\* The union of the scopes is the restriction, if everything is restricted.
LEMMA UnionOfRestrictions ==
  ASSUME NEW grants \in SUBSET Live, grants # {}
  PROVE  UnionScope(grants) =
           IF \A r \in grants : Restricted(r)
           THEN {s.client : s \in UNION {rows[r].scope : r \in grants}} ELSE {AllClients}
<1> DEFINE named(r) == {s.client : s \in rows[r].scope}
           all == UNION {ScopeOf(r) : r \in grants}
<1>1. ASSUME NEW r \in grants
      PROVE  /\ Restricted(r) <=> AllClients \notin ScopeOf(r)
             /\ Restricted(r) => ScopeOf(r) = named(r)
  <2>1. ScopeOf(r) = IF named(r) = {} \/ AllClients \in named(r) THEN {AllClients} ELSE named(r)
    BY DEF ScopeOf
  <2>2. Restricted(r) <=> named(r) # {} /\ AllClients \notin named(r)
    BY DEF Restricted
  <2> HIDE DEF named
  <2> QED  BY <2>1, <2>2
<1>2. AllClients \in all <=> \E r \in grants : ~Restricted(r)
  BY <1>1
<1>3. (\A r \in grants : Restricted(r)) =>
        all = {s.client : s \in UNION {rows[r].scope : r \in grants}}
  BY <1>1
<1>4. UnionScope(grants) = IF AllClients \in all THEN {AllClients} ELSE all
  BY DEF UnionScope
<1> HIDE DEF all
<1> QED  BY <1>2, <1>3, <1>4

\* In every state of the invariant a reading that no edit tore issues exactly
\* what the user is entitled to.
LEMMA UntornByInvariant ==
  ASSUME PlatformInv
  PROVE  UntornClaimsAreEntitled
<1> SUFFICES ASSUME NEW w \in Workers,
                    reading[w] # NoReading, reading[w].at = "issue", ~reading[w].torn
             PROVE  ClaimsRead(w) = ClaimsOf(EntitledAccess(desk[w].target))
  BY DEF UntornClaimsAreEntitled
<1> DEFINE u == desk[w].target
           r == reading[w]
<1>1. /\ r.roles = EffectiveRoles(u)
      /\ r.ids = UnionScope(Grants(u)) /\ r.refs = UnionScope(Grants(u))
  <2>1. r.ids # {}
    BY DEF PlatformInv, ReadingTrue, Unions
  <2> QED  BY <2>1 DEF PlatformInv, ReadingTrue
<1>2. EffectiveRoles(u) = {rows[q].role : q \in Grants(u)}
  BY DEF EffectiveRoles
<1>3. CASE Grants(u) = {}
  <2>1. r.roles = {}
    BY <1>1, <1>2, <1>3
  <2> QED  BY <1>3, <2>1, GrantsAreEntitling DEF ClaimsRead, ClaimsOf, EntitledAccess
<1>4. CASE Grants(u) # {}
  <2>1. r.roles # {}
    BY <1>1, <1>2, <1>4
  <2>2. Grants(u) \in SUBSET Live
    BY DEF Grants
  <2>3. r.refs = IF \A q \in Grants(u) : Restricted(q)
                 THEN {s.client : s \in UNION {rows[q].scope : q \in Grants(u)}} ELSE {AllClients}
    BY <1>1, <1>4, <2>2, UnionOfRestrictions
  <2>4. Grants(u) = Entitling(u)
    BY GrantsAreEntitling
  <2> DEFINE access == EntitledAccess(u)
  <2>5. access = [roles |-> r.roles, scope |-> r.refs]
    BY <1>1, <1>2, <1>4, <2>3, <2>4 DEF EntitledAccess
  <2>6. access # NoAccess /\ access.roles = r.roles /\ access.scope = r.refs
    <3>1. NoAccess.roles = {}
      BY DEF NoAccess
    <3> HIDE DEF r
    <3> QED  BY <2>1, <2>5, <3>1
  <2> HIDE DEF access
  <2> QED  BY <1>1, <2>1, <2>6 DEF ClaimsRead, ClaimsOf, access
<1> QED  BY <1>3, <1>4

\* A reading that no edit tore issues exactly what the user is entitled to,
\* though it is made by queries written apart (build_claims).
THEOREM UntornReadingsAreRight == Spec => []UntornClaimsAreEntitled
<1>1. PlatformInv => UntornClaimsAreEntitled
  BY UntornByInvariant
<1> QED  BY <1>1, PlatformInvariant, PTL

\* A line of the pages stands for a row, and shows the scope that counts.
LEMMA ShownScope ==
  ASSUME NEW r \in Live
  PROVE  PageScope(r) = ScopeOf(r) /\ (AllClients \in ScopeOf(r) <=> ScopeOf(r) = {AllClients})
<1> DEFINE named == {s.client : s \in rows[r].scope}
<1>1. ScopeOf(r) = IF named = {} \/ AllClients \in named THEN {AllClients} ELSE named
  BY DEF ScopeOf
<1>2. (rows[r].scope = {} <=> named = {})
      /\ ((\E s \in rows[r].scope : s.client = AllClients) <=> AllClients \in named)
  OBVIOUS
<1>3. PageScope(r) = IF named = {} \/ AllClients \in named THEN {AllClients} ELSE named
  BY <1>2 DEF PageScope
<1> HIDE DEF named
<1> QED  BY <1>1, <1>3

\* The lines of a page are the grants that the claims go by.
LEMMA LinesAreGrants ==
  ASSUME NEW u
  PROVE  Explained(u) =
           {[holder |-> rows[r].holder, role |-> rows[r].role, enabled |-> rows[r].enabled,
             scope |-> ScopeOf(r)] : r \in Grants(u)}
<1> DEFINE line(r) == [holder |-> rows[r].holder, role |-> rows[r].role,
                       enabled |-> rows[r].enabled, scope |-> PageScope(r)]
           counts(r) == /\ rows[r].enabled
                        /\ rows[r].holder = u
                           \/ \E g \in Groups : /\ rows[r].holder = g
                                                /\ group[g].status = "ACTIVE" /\ u \in members[g]
<1>1. Explained(u) = {l \in {line(r) : r \in Live} :
                        /\ l.enabled
                        /\ l.holder = u \/ \E g \in Groups : /\ l.holder = g
                                                           /\ group[g].status = "ACTIVE"
                                                           /\ u \in members[g]}
  BY DEF Explained, ApplicationPage, GroupPage
<1>2. Grants(u) = {r \in Live : counts(r)}
  BY DEF Grants, ActiveGroups
<1>3. Explained(u) = {line(r) : r \in Grants(u)}
  <2>1. \A r : line(r).enabled = rows[r].enabled /\ line(r).holder = rows[r].holder
    OBVIOUS
  <2> HIDE DEF line
  <2> QED  BY <1>1, <1>2, <2>1
<1>4. \A r \in Grants(u) : PageScope(r) = ScopeOf(r)
  BY ShownScope DEF Grants
<1> QED  BY <1>3, <1>4

\* The pages of the Admin Center, a user's own page and the names given to the
\* other services agree with the access that AuthorizationService computes, in
\* whatever state the tables are.
THEOREM PagesAreRight == Spec => []PagesExplainAccess
<1>1. PagesExplainAccess
  <2> SUFFICES ASSUME NEW u \in Users
               PROVE  LET lines == Explained(u) scopes == {l.scope : l \in lines}
                      IN  /\ EffectiveAccess(u) =
                               IF lines = {} THEN NoAccess
                               ELSE [roles |-> {l.role : l \in lines},
                                     scope |-> IF {AllClients} \in scopes THEN {AllClients}
                                               ELSE UNION scopes]
                          /\ Visible(u) => lines # {}
                          /\ \A role \in RoleChoices :
                               u \in RoleHolders(role) =>
                                 u \in Notified(role) /\ role \in EffectiveAccess(u).roles
    BY DEF PagesExplainAccess
  <2> DEFINE line(r) == [holder |-> rows[r].holder, role |-> rows[r].role,
                         enabled |-> rows[r].enabled, scope |-> ScopeOf(r)]
             lines == Explained(u)
             scopes == {l.scope : l \in lines}
             refs == IF {AllClients} \in scopes THEN {AllClients} ELSE UNION scopes
             own == {r \in RowsOf(u) : rows[r].enabled}
  <2>1. lines = {line(r) : r \in Grants(u)}
    BY LinesAreGrants
  <2>2. scopes = {ScopeOf(r) : r \in Grants(u)} /\ {l.role : l \in lines} = EffectiveRoles(u)
    <3>1. \A r : line(r).scope = ScopeOf(r) /\ line(r).role = rows[r].role
      OBVIOUS
    <3> HIDE DEF line, lines
    <3> QED  BY <2>1, <3>1 DEF EffectiveRoles
  <2>3. lines = {} <=> Grants(u) = {}
    BY <2>1
  <2>4. own \subseteq Grants(u)
    BY DEF Grants, RowsOf
  <2>5. Grants(u) # {} => UnionScope(Grants(u)) = refs
    <3>1. AllClients \in UNION scopes <=> {AllClients} \in scopes
      <4>1. \A r \in Grants(u) : AllClients \in ScopeOf(r) <=> ScopeOf(r) = {AllClients}
        BY ShownScope DEF Grants
      <4> HIDE DEF scopes
      <4> QED  BY <2>2, <4>1
    <3> HIDE DEF scopes
    <3> QED  BY <2>2, <3>1 DEF UnionScope
  <2>6. EffectiveAccess(u) =
          IF lines = {} THEN NoAccess ELSE [roles |-> {l.role : l \in lines}, scope |-> refs]
    <3> HIDE DEF lines, refs
    <3> QED  BY <2>2, <2>3, <2>5 DEF EffectiveAccess
  <2>7. EffectiveAccess(u).roles = EffectiveRoles(u)
    <3>1. CASE Grants(u) = {}
      BY <3>1 DEF EffectiveAccess, EffectiveRoles, NoAccess
    <3>2. CASE Grants(u) # {}
      BY <3>2 DEF EffectiveAccess
    <3> QED  BY <3>1, <3>2
  <2>8. Visible(u) => lines # {}
    BY <2>3, <2>4 DEF Visible
  <2>9. ASSUME NEW role \in RoleChoices, u \in RoleHolders(role)
        PROVE  u \in Notified(role) /\ role \in EffectiveAccess(u).roles
    <3>1. PICK r \in RowsOf(u) : rows[r].role = role /\ rows[r].enabled
      BY <2>9 DEF RoleHolders
    <3>2. r \in Grants(u)
      BY <2>4, <3>1
    <3> QED  BY <2>7, <3>1, <3>2 DEF Notified, EffectiveRoles
  <2> HIDE DEF lines, scopes
  <2> QED  BY <2>6, <2>8, <2>9 DEF lines, scopes
<1> QED  BY <1>1, PTL

\* Only the issue of claims makes a session: no other step of any request does.
LEMMA SessionsComeFromIssue ==
  ASSUME [Next]_vars, NEW s \in sessions' \ sessions
  PROVE  \E w \in Workers :
           /\ IssueClaims(w)
           /\ s = [user |-> desk[w].target, via |-> mode, active |-> desk[w].loaded.active,
                   role |-> desk[w].loaded.role, modules |-> ClaimsRead(w)]
<1>1. ASSUME NEW w \in Workers, AccountsStep(w) PROVE sessions' = sessions
  BY <1>1 DEF AccountsStep, CheckStatus, CheckRole, CommitEdit, Resolve, CommitSignIn, DevLogin, Refresh
<1>2. ASSUME NEW w \in Workers, AssignmentStep(w) PROVE sessions' = sessions
  BY <1>2 DEF AssignmentStep, FindAssignment, Administers, ReplaceScope, CommitAssignment, accountVars
<1>3. ASSUME GrantEdit PROVE sessions' = sessions
  BY <1>3 DEF GrantEdit, RemoveAssignment, CreateGroup, RetypeGroup, SetGroupStatus, SetMember, Administers
<1>4. ASSUME NEW w \in Workers, ReadRoles(w) \/ ReadSources(w) \/ ReadScope(w) \/ Die(w)
      PROVE  sessions' = sessions
  BY <1>4 DEF ReadRoles, ReadSources, ReadScope, Die, accountVars
<1>5. ASSUME NEW u \in Users, ExpireOne(u) PROVE sessions' \subseteq sessions
  BY <1>5 DEF ExpireOne, Expire
<1>6. ASSUME Deploy \/ UNCHANGED vars PROVE sessions' = sessions
  BY <1>6 DEF Deploy, Redeploy, vars, accountVars
<1>7. PICK w \in Workers : IssueClaims(w)
  BY <1>1, <1>2, <1>3, <1>4, <1>5, <1>6 DEF Next
<1>8. sessions' = sessions \cup
        {[user |-> desk[w].target, via |-> mode, active |-> desk[w].loaded.active,
          role |-> desk[w].loaded.role, modules |-> ClaimsRead(w)]}
  BY <1>7 DEF IssueClaims, IssueSession
<1> QED  BY <1>7, <1>8

\* What IssueClaims puts in a session: the roles of this moment, if it claims
\* the module; and of a reading that nothing tore, the access granted.
LEMMA IssuedClaims ==
  ASSUME PlatformInv, NEW w \in Workers, IssueClaims(w)
  PROVE  LET granted == EntitledAccess(desk[w].target)
         IN  /\ ClaimsRead(w) # NoClaims =>
                  ClaimsRead(w).roles = granted.roles /\ reading[w].roles # {}
             /\ reading[w].torn \/ ClaimsRead(w) = ClaimsOf(granted)
             /\ reading[w] # NoReading
<1> DEFINE u == desk[w].target
           granted == EntitledAccess(u)
<1>1. reading[w].at = "issue" /\ reading[w] # NoReading
  BY BusyWorker, Markers DEF IssueClaims, PlatformInv
<1>2. granted.roles = EffectiveRoles(u)
  <2>1. EffectiveRoles(u) = {rows[q].role : q \in Entitling(u)}
    BY GrantsAreEntitling DEF EffectiveRoles
  <2> QED  BY <2>1 DEF EntitledAccess, NoAccess
<1>3. ClaimsRead(w) # NoClaims => ClaimsRead(w).roles = EffectiveRoles(u) /\ reading[w].roles # {}
  BY DEF ClaimsRead
<1>4. ~reading[w].torn => ClaimsRead(w) = ClaimsOf(granted)
  <2>1. PlatformInv => UntornClaimsAreEntitled
    BY UntornByInvariant
  <2> QED  BY <1>1, <2>1 DEF UntornClaimsAreEntitled
<1> QED  BY <1>1, <1>2, <1>3, <1>4

\* Who is entitled to something is entitled to roles.
LEMMA EntitledHaveRoles ==
  ASSUME NEW u, EntitledAccess(u) # NoAccess
  PROVE  ClaimsOf(EntitledAccess(u)) # NoClaims
<1> DEFINE granted == EntitledAccess(u)
           grants == Entitling(u)
<1>1. grants # {} /\ granted.roles = {rows[r].role : r \in grants}
  BY DEF EntitledAccess
<1>2. granted.roles # {}
  BY <1>1
<1>3. ClaimsOf(granted).roles = granted.roles /\ NoClaims.roles = {}
  BY DEF ClaimsOf, NoClaims
<1> HIDE DEF granted
<1>4. ClaimsOf(granted) # NoClaims
  BY <1>2, <1>3
<1> QED  BY <1>4 DEF granted

\* The access that every new session must give.
GivesTheGranted(s) ==
  LET granted == EntitledAccess(s.user)
  IN  /\ Claimed(s)' => s.modules.roles = granted.roles
      /\ \/ TornFor(s.user)
         \/ /\ Claimed(s)' <=> s.active /\ granted # NoAccess
            /\ s.active =>
                 Opens(s)' = {c \in LocalClients : {c, AllClients} \cap granted.scope # {}}

\* A session gives just the access its user is entitled to when it is issued,
\* from the assignments through the claims to the clients of talent-api; of a
\* torn reading it names the permissions of that moment.
THEOREM SessionsGiveWhatIsGranted == Spec => SessionsAreEntitled
<1>1. ASSUME PlatformInv, [Next]_vars, NEW s \in sessions' \ sessions
      PROVE  GivesTheGranted(s)
  <2>1. PICK w \in Workers :
          /\ IssueClaims(w)
          /\ s = [user |-> desk[w].target, via |-> mode, active |-> desk[w].loaded.active,
                  role |-> desk[w].loaded.role, modules |-> ClaimsRead(w)]
    BY <1>1, SessionsComeFromIssue
  <2>2. s.user = desk[w].target /\ s.modules = ClaimsRead(w)
    BY <2>1
  <2> DEFINE granted == EntitledAccess(s.user)
  <2>3. /\ s.modules # NoClaims => s.modules.roles = granted.roles
        /\ reading[w].torn \/ s.modules = ClaimsOf(granted)
        /\ reading[w].torn => TornFor(s.user)
    BY <1>1, <2>1, <2>2, IssuedClaims DEF TornFor
  <2>4. Claimed(s)' <=> s.active /\ s.modules # NoClaims
    BY <1>1 DEF Claimed, Bearer
  <2>5. Opens(s)' = IF s.active /\ s.modules # NoClaims THEN ClientIds(s.modules) ELSE {}
    <3>1. ClientIds(s.modules)' = ClientIds(s.modules)
      BY DEF ClientIds, NumberedIds
    <3> QED  BY <2>4, <3>1 DEF Opens
  <2>6. granted # NoAccess => ClaimsOf(granted) # NoClaims
    BY EntitledHaveRoles
  <2> HIDE DEF granted
  <2>7. ASSUME s.modules = ClaimsOf(granted)
        PROVE  /\ s.modules # NoClaims <=> granted # NoAccess
               /\ granted # NoAccess =>
                    ClientIds(s.modules) = {c \in LocalClients : {c, AllClients} \cap granted.scope # {}}
               /\ granted = NoAccess => {c \in LocalClients : {c, AllClients} \cap granted.scope # {}} = {}
    <3>1. s.modules # NoClaims <=> granted # NoAccess
      BY <2>6, <2>7 DEF ClaimsOf
    <3>2. ASSUME granted # NoAccess
          PROVE  ClientIds(s.modules) = {c \in LocalClients : {c, AllClients} \cap granted.scope # {}}
      <4>1. s.modules.ids = granted.scope /\ s.modules.refs = granted.scope
        BY <2>7, <3>2 DEF ClaimsOf
      <4> QED  BY <4>1 DEF ClientIds, NumberedIds
    <3>3. granted = NoAccess => granted.scope = {}
      BY DEF NoAccess
    <3> QED  BY <3>1, <3>2, <3>3
  <2>8. /\ Claimed(s)' => s.modules.roles = granted.roles
        /\ \/ TornFor(s.user)
           \/ /\ Claimed(s)' <=> s.active /\ granted # NoAccess
              /\ s.active =>
                   Opens(s)' = {c \in LocalClients : {c, AllClients} \cap granted.scope # {}}
    BY <2>3, <2>4, <2>5, <2>7
  <2> QED  BY <2>8 DEF granted, GivesTheGranted
<1>2. PlatformInv /\ [Next]_vars => [\A s \in sessions' \ sessions : GivesTheGranted(s)]_vars
  BY <1>1
<1> QED  BY <1>2, PlatformInvariant, PTL DEF Spec, SessionsAreEntitled, GivesTheGranted

-----------------------------------------------------------------------------
\* Access that has ended

\* A deactivated user has no access and no request that could still give it.
LockedOut(u) ==
  /\ ~acct[u].active /\ ~HasAccess(u)
  /\ \A w \in Workers : desk[w].op = "claims" /\ desk[w].target = u => ~desk[w].loaded.active

\* A user nothing entitles, without access, and without a reading under way
\* whose first query saw a role: that one would still give access.
Excluded(u) ==
  /\ Entitling(u) = {} /\ ~HasAccess(u)
  /\ \A w \in Workers : reading[w] # NoReading /\ desk[w].target = u => reading[w].roles = {}

\* Access that has ended does not come back by itself.
AccessStaysLost ==
  [][\A u \in Users :
       /\ Excluded(u) /\ Entitling(u)' = {} => Excluded(u)'
       /\ LockedOut(u) /\ ~acct'[u].active => LockedOut(u)']_vars

\* A session that gave access goes on to, a new one takes an issue.
LEMMA AccessComesFromIssue ==
  ASSUME [Next]_vars, NEW u \in Users, ~HasAccess(u), HasAccess(u)'
  PROVE  \E w \in Workers :
           /\ IssueClaims(w)
           /\ desk[w].target = u /\ desk[w].loaded.active /\ ClaimsRead(w) # NoClaims
<1>1. PICK s \in sessions' : s.user = u /\ Claimed(s)'
  BY DEF HasAccess
<1>2. s.active /\ s.modules # NoClaims
  BY <1>1 DEF Claimed, Bearer
<1>3. s \in sessions' \ sessions
  BY <1>1, <1>2 DEF HasAccess, Claimed, Bearer
<1>4. PICK w \in Workers :
        /\ IssueClaims(w)
        /\ s = [user |-> desk[w].target, via |-> mode, active |-> desk[w].loaded.active,
                role |-> desk[w].loaded.role, modules |-> ClaimsRead(w)]
  BY <1>3, SessionsComeFromIssue
<1>5. s.user = desk[w].target /\ s.active = desk[w].loaded.active /\ s.modules = ClaimsRead(w)
  BY <1>4
<1> QED  BY <1>1, <1>2, <1>4, <1>5

\* A request builds claims on the account as it was when it began to.
LEMMA ClaimsLoadTheAccount ==
  ASSUME PlatformInv, [Next]_vars, NEW w \in Workers, desk'[w].op = "claims"
  PROVE  \/ desk'[w] = desk[w]
         \/ desk'[w].target = desk[w].target /\ desk'[w].loaded = acct[desk[w].target] /\ acct' = acct
<1>1. desk \in [Workers -> Edit \cup SignIn \cup Issue \cup {Idle}] /\ Idle.op = "idle"
  BY DEF PlatformInv, AccountsInv, AccountsTypeOK, Idle
<1>2. \A v : Leave(v) => desk'[w] = desk[w] \/ desk'[w] = Idle
  BY <1>1 DEF Leave
<1>3. \A v \in Workers : \A d : Take(v, d) => desk'[w] = desk[w] \/ desk'[w] = d
  BY <1>1 DEF Take
<1>4. ASSUME NEW v \in Workers, AccountsStep(v)
      PROVE  \/ desk'[w] = desk[w]
             \/ desk'[w].target = desk[w].target /\ desk'[w].loaded = acct[desk[w].target] /\ acct' = acct
  <2>1. CASE \E a, u \in Users, to \in {"on", "off"} : CheckStatus(v, a, u, to)
    BY <1>3, <2>1 DEF CheckStatus
  <2>2. CASE \E a, u \in Users, to \in Roles : CheckRole(v, a, u, to)
    BY <1>3, <2>2 DEF CheckRole
  <2>3. CASE CommitEdit(v)
    BY <1>1, <1>2, <2>3 DEF CommitEdit
  <2>4. CASE \E u \in Users, oid \in Identities : Resolve(v, u, oid)
    BY <1>3, <2>4 DEF Resolve
  <2>5. CASE CommitSignIn(v)
    <3>1. \/ Leave(v)
          \/ \E u, row : desk' = [desk EXCEPT ![v] = [op |-> "refresh", target |-> u, loaded |-> row]]
      BY <2>5 DEF CommitSignIn
    <3> QED  BY <1>1, <1>2, <3>1
  <2>6. CASE \E u \in Users : DevLogin(v, u)
    BY <1>3, <2>6 DEF DevLogin
  <2>7. CASE Refresh(v)
    <3>1. /\ acct' = acct
          /\ desk' = [desk EXCEPT ![v] =
               [op |-> "claims", target |-> desk[v].target, loaded |-> acct[desk[v].target]]]
      BY <2>7 DEF Refresh
    <3> QED  BY <1>1, <3>1
  <2> QED  BY <1>4, <2>1, <2>2, <2>3, <2>4, <2>5, <2>6, <2>7 DEF AccountsStep
<1>5. ASSUME NEW v \in Workers, AssignmentStep(v) PROVE desk' = desk
  BY <1>5 DEF AssignmentStep, FindAssignment, Administers, ReplaceScope, CommitAssignment, accountVars
<1>6. ASSUME GrantEdit PROVE desk' = desk
  BY <1>6 DEF GrantEdit, RemoveAssignment, CreateGroup, RetypeGroup, SetGroupStatus, SetMember, Administers
<1>7. ASSUME NEW v \in Workers, ReadRoles(v) \/ ReadSources(v) \/ ReadScope(v) PROVE desk' = desk
  BY <1>7 DEF ReadRoles, ReadSources, ReadScope, accountVars
<1>8. ASSUME NEW v \in Workers, IssueClaims(v) \/ Die(v)
      PROVE  desk'[w] = desk[w] \/ desk'[w] = Idle
  BY <1>2, <1>8 DEF IssueClaims, IssueSession, Die
<1>9. ASSUME \E u \in Users : ExpireOne(u) PROVE desk' = desk
  BY <1>9 DEF ExpireOne, Expire
<1>10. ASSUME Deploy PROVE desk'[w] = Idle
  BY <1>10 DEF Deploy, Redeploy
<1>11. ASSUME UNCHANGED vars PROVE desk' = desk
  BY <1>11 DEF vars, accountVars
<1> QED  BY <1>1, <1>4, <1>5, <1>6, <1>7, <1>8, <1>9, <1>10, <1>11 DEF Next

\* A reading keeps the roles its first query saw and the user it is for; a new
\* one sees the roles of that moment.
LEMMA RolesReadOnce ==
  ASSUME PlatformInv, [Next]_vars, NEW w \in Workers, reading'[w] # NoReading
  PROVE  /\ desk'[w] = desk[w]
         /\ \/ reading[w] # NoReading /\ reading'[w].roles = reading[w].roles
            \/ reading'[w].roles = EffectiveRoles(desk[w].target)
<1>1. reading \in [Workers -> Reading \cup {NoReading}] /\ desk \in [Workers -> Edit \cup SignIn \cup Issue \cup {Idle}]
  BY DEF PlatformInv, AccountsInv, AccountsTypeOK
<1>2. reading[w] # NoReading => desk[w].op = "claims" /\ reading[w] \in Reading
  BY <1>1 DEF PlatformInv, ReadingTrue
<1>3. ASSUME UNCHANGED desk, UNCHANGED reading \/ Tear
      PROVE  desk'[w] = desk[w] /\ reading[w] # NoReading /\ reading'[w].roles = reading[w].roles
  <2>1. CASE reading' = reading
    BY <1>3, <2>1
  <2>2. CASE reading' # reading
    <3>1. reading'[w] = IF reading[w] = NoReading THEN NoReading ELSE [reading[w] EXCEPT !.torn = TRUE]
      BY <1>3, <2>2 DEF Tear
    <3>2. reading[w] \in Reading => [reading[w] EXCEPT !.torn = TRUE].roles = reading[w].roles
      BY DEF Reading
    <3> QED  BY <1>1, <1>3, <2>2, <3>1, <3>2
  <2> QED  BY <2>1, <2>2
<1>4. ASSUME NEW v \in Workers, AccountsStep(v), UNCHANGED reading
      PROVE  desk'[w] = desk[w]
  <2>1. desk[w].op = "claims" /\ reading[w] # NoReading
    BY <1>2, <1>4
  <2> QED  BY <1>1, <1>4, <2>1, ClaimsKeepDesk DEF PlatformInv
<1>5. ASSUME NEW v \in Workers, AssignmentStep(v), Tear PROVE UNCHANGED desk
  BY <1>5 DEF AssignmentStep, FindAssignment, ReplaceScope, CommitAssignment, Administers, accountVars
<1>6. ASSUME GrantEdit PROVE UNCHANGED desk
  BY <1>6 DEF GrantEdit, RemoveAssignment, CreateGroup, RetypeGroup, SetGroupStatus, SetMember, Administers
<1>7. ASSUME NEW v \in Workers, ReadRoles(v) \/ ReadSources(v) \/ ReadScope(v)
      PROVE  /\ desk' = desk
             /\ \/ reading[w] # NoReading /\ reading'[w].roles = reading[w].roles
                \/ reading'[w].roles = EffectiveRoles(desk[w].target)
  <2>1. desk' = desk
    BY <1>7 DEF ReadRoles, ReadSources, ReadScope, accountVars
  <2>2. CASE v # w
    <3>1. \E q : reading' = [reading EXCEPT ![v] = q]
      BY <1>7 DEF ReadRoles, ReadSources, ReadScope
    <3>2. reading'[w] = reading[w]
      BY <1>1, <2>2, <3>1
    <3> QED  BY <2>1, <3>2
  <2>3. CASE v = w /\ ReadRoles(v)
    <3> DEFINE q == [at |-> "sources", roles |-> EffectiveRoles(desk[w].target),
                     sources |-> {}, ids |-> {}, refs |-> {}, torn |-> FALSE]
    <3>1. reading' = [reading EXCEPT ![w] = q] /\ q.roles = EffectiveRoles(desk[w].target)
      BY <2>3 DEF ReadRoles
    <3> HIDE DEF q
    <3>2. reading'[w] = q
      BY <1>1, <3>1
    <3> QED  BY <2>1, <3>1, <3>2
  <2>4. CASE v = w /\ (ReadSources(v) \/ ReadScope(v))
    <3>1. reading[w].at \in {"sources", "scope"}
      BY <2>4 DEF ReadSources, ReadScope
    <3>2. reading[w] \in Reading /\ reading[w] # NoReading
      BY <3>1, BusyWorker, Markers
    <3> DEFINE r == reading[w]
               grants == Grants(desk[w].target)
               scope == UnionScope(r.sources)
               q1 == [r EXCEPT !.at = "scope", !.sources = grants]
               q2 == [r EXCEPT !.at = "sources", !.ids = scope]
               q3 == [r EXCEPT !.at = "issue", !.refs = scope]
    <3>3. \/ reading' = [reading EXCEPT ![w] = q1]
          \/ reading' = [reading EXCEPT ![w] = IF r.ids = {} THEN q2 ELSE q3]
      BY <2>4 DEF ReadSources, ReadScope
    <3>4. q1.roles = r.roles /\ q2.roles = r.roles /\ q3.roles = r.roles
      <4> HIDE DEF grants, scope, r
      <4>1. r \in Reading
        BY <3>2 DEF r
      <4> QED  BY <4>1 DEF Reading
    <3> HIDE DEF q1, q2, q3, grants, scope
    <3>5. reading'[w] = q1 \/ reading'[w] = q2 \/ reading'[w] = q3
      BY <1>1, <3>3
    <3> QED  BY <2>1, <3>2, <3>4, <3>5
  <2> QED  BY <1>7, <2>1, <2>2, <2>3, <2>4
<1>8. ASSUME NEW v \in Workers, IssueClaims(v) \/ Die(v)
      PROVE  desk'[w] = desk[w] /\ reading'[w] = reading[w]
  <2>1. reading' = [reading EXCEPT ![v] = NoReading] /\ desk' = [desk EXCEPT ![v] = Idle]
    BY <1>8 DEF IssueClaims, IssueSession, Die, Leave
  <2> QED  BY <1>1, <2>1
<1>9. ASSUME \E u \in Users : ExpireOne(u) PROVE UNCHANGED <<reading, desk>>
  BY <1>9 DEF ExpireOne, Expire
<1>10. ~Deploy
  BY DEF Deploy
<1>11. ASSUME UNCHANGED vars PROVE UNCHANGED <<reading, desk>>
  BY <1>11 DEF vars, accountVars
<1>12. CASE \E v \in Workers : AccountsStep(v) /\ UNCHANGED reading
  BY <1>4, <1>12
<1>13. CASE \E v \in Workers : AssignmentStep(v) /\ Tear
  BY <1>3, <1>5, <1>13
<1>14. CASE GrantEdit /\ Tear
  BY <1>3, <1>6, <1>14
<1>15. CASE \E v \in Workers : IssueClaims(v) \/ Die(v)
  BY <1>8, <1>15
<1> QED  BY <1>3, <1>7, <1>9, <1>10, <1>11, <1>12, <1>13, <1>14, <1>15 DEF Next

\* Access that has ended stays ended: a user with nothing that entitles, no
\* access and no reading under way that saw a role gets none until something
\* entitles again; and one who was deactivated, has no session left and no
\* sign-in that read the account before, gets none until activated again.
THEOREM LostAccessStaysLost == Spec => AccessStaysLost
<1>1. ASSUME PlatformInv, [Next]_vars, NEW u \in Users, Excluded(u), Entitling(u)' = {}
      PROVE  Excluded(u)'
  <2>1. ~HasAccess(u)'
    <3> SUFFICES ASSUME HasAccess(u)' PROVE FALSE
      OBVIOUS
    <3>1. PICK w \in Workers : IssueClaims(w) /\ desk[w].target = u /\ ClaimsRead(w) # NoClaims
      BY <1>1, AccessComesFromIssue DEF Excluded
    <3>2. reading[w].roles # {} /\ reading[w] # NoReading
      BY <1>1, <3>1, IssuedClaims
    <3> QED  BY <1>1, <3>1, <3>2 DEF Excluded
  <2>2. ASSUME NEW w \in Workers, reading'[w] # NoReading, desk'[w].target = u
        PROVE  reading'[w].roles = {}
    <3>1. /\ desk'[w] = desk[w]
          /\ \/ reading[w] # NoReading /\ reading'[w].roles = reading[w].roles
             \/ reading'[w].roles = EffectiveRoles(desk[w].target)
      BY <1>1, <2>2, RolesReadOnce
    <3>2. EffectiveRoles(u) = {}
      BY <1>1, GrantsAreEntitling DEF EffectiveRoles, Excluded
    <3> QED  BY <1>1, <2>2, <3>1, <3>2 DEF Excluded
  <2> QED  BY <1>1, <2>1, <2>2 DEF Excluded
<1>2. ASSUME PlatformInv, [Next]_vars, NEW u \in Users, LockedOut(u), ~acct'[u].active
      PROVE  LockedOut(u)'
  <2>1. ~HasAccess(u)'
    <3> SUFFICES ASSUME HasAccess(u)' PROVE FALSE
      OBVIOUS
    <3>1. PICK w \in Workers : IssueClaims(w) /\ desk[w].target = u /\ desk[w].loaded.active
      BY <1>2, AccessComesFromIssue DEF LockedOut
    <3> QED  BY <1>2, <3>1 DEF LockedOut, IssueClaims, IssueSession
  <2>2. ASSUME NEW w \in Workers, desk'[w].op = "claims", desk'[w].target = u
        PROVE  ~desk'[w].loaded.active
    <3>1. \/ desk'[w] = desk[w]
          \/ /\ desk'[w].target = desk[w].target /\ acct' = acct
             /\ desk'[w].loaded = acct[desk[w].target]
      BY <1>2, <2>2, ClaimsLoadTheAccount
    <3> QED  BY <1>2, <2>2, <3>1 DEF LockedOut
  <2> QED  BY <1>2, <2>1, <2>2 DEF LockedOut
<1>3. PlatformInv /\ [Next]_vars =>
        [\A u \in Users :
           /\ Excluded(u) /\ Entitling(u)' = {} => Excluded(u)'
           /\ LockedOut(u) /\ ~acct'[u].active => LockedOut(u)']_vars
  BY <1>1, <1>2
<1> QED  BY <1>3, PlatformInvariant, PTL DEF Spec, AccessStaysLost
=============================================================================
