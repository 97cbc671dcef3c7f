---------------------------- MODULE MCPlatform ----------------------------
(* TLC instances of PlatformAccess.                                        *)
EXTENDS PlatformAccess, TLC

CONSTANTS
  sa, pa, pu,  \* a super admin, a platform admin, a plain user
  team,       \* an access group
  w1          \* the worker that handles the sign-ins of pu

Person(role) == [role |-> role, active |-> TRUE, oid |-> NoIdentity]

SuperAndAdmin == sa :> Person("SUPER_ADMIN") @@ pa :> Person("PLATFORM_ADMIN")

SuperAndUser == sa :> Person("SUPER_ADMIN") @@ pu :> Person("PLATFORM_USER")

NoModules == {NoClaims}

\* Every number is another client's id.
ForeignNumbers == [c \in Clients |-> LocalClients]

Symmetry == Permutations(Workers) \cup Permutations(Identities)

\* The accounts alone.
AccountsOnly ==
  Init /\ [][AccountsNext /\ UNCHANGED <<grantVars, reading>>]_vars

\* A super admin who has signed in and made pu a member of the team edits the
\* assignments and the account of pu while pu signs in.
AccessInit ==
  /\ mode = "dev"
  /\ acct = [x \in Users |-> IF x \in DOMAIN Seed THEN Seed[x] ELSE NoAccount]
  /\ sessions = {[user |-> sa, via |-> "dev", active |-> TRUE, role |-> "SUPER_ADMIN",
                  modules |-> NoClaims]}
  /\ desk = [w \in Workers |-> Idle]
  /\ edits = 0
  /\ approved = {}
  /\ crossed = FALSE
  /\ rows = [r \in RowIds |-> FreeRow]
  /\ group = [g \in Groups |-> IF g = team THEN [status |-> "ACTIVE", type |-> "TEAM"] ELSE NoGroup]
  /\ members = [g \in Groups |-> IF g = team THEN {pu} ELSE {}]
  /\ change = [w \in Workers |-> NoChange]
  /\ doubled = FALSE
  /\ reading = [w \in Workers |-> NoReading]

AccountOfPlainUser(w) ==
  \/ w = w1 /\ DevLogin(w, pu)
  \/ Refresh(w)
  \/ \E to \in {"on", "off"} : CheckStatus(w, sa, pu, to)
  \/ CommitEdit(w)

AssignmentOf(w, h) ==
  \E role \in RoleChoices, enabled \in BOOLEAN, scope \in Scopes \cup {NoScope} :
    FindAssignment(w, sa, h, [role |-> role, enabled |-> enabled], scope)

AccessNext ==
  \/ \E w \in Workers :
       \/ change[w] = NoChange /\ AccountOfPlainUser(w) /\ UNCHANGED <<grantVars, reading>>
       \/ (\E h \in {team, pu} : AssignmentOf(w, h)) /\ Tear
       \/ ReplaceScope(w) /\ Tear
       \/ CommitAssignment(w) /\ Tear
       \/ ReadRoles(w) \/ ReadSources(w) \/ ReadScope(w) \/ IssueClaims(w)
  \/ \E h \in {team, pu} : RemoveAssignment(sa, h) /\ Tear
  \/ \E g \in Groups :
       \/ CreateGroup(sa, g) /\ Tear
       \/ \E type \in {"TEAM", "SYSTEM"} : RetypeGroup(sa, g, type) /\ Tear
       \/ \E status \in {"ACTIVE", "INACTIVE"} : SetGroupStatus(sa, g, status) /\ Tear
       \/ \E in \in BOOLEAN : SetMember(sa, g, pu, in) /\ Tear
  \/ ExpireOne(pu)

AccessSpec == AccessInit /\ [][AccessNext]_vars /\ WF_vars(ExpireOne(pu))
=============================================================================
