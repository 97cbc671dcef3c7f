------------------------- MODULE PlatformAccounts -------------------------
(***************************************************************************)
(* The accounts of platform-api: who may sign in, who administers, and the *)
(* sessions a sign-in issues.  A request reads in one step and commits in  *)
(* a later one (PostgreSQL at READ COMMITTED, no version column); between  *)
(* the two it works on the rows it loaded, and its UPDATE writes only the  *)
(* columns it gave another value than the loaded one.                      *)
(*                                                                         *)
(* The service runs in dev mode (persona switcher) or in entra mode        *)
(* (Microsoft Entra sign-in); a redeployment changes the mode and drops    *)
(* the requests in flight, the sessions already issued stay valid.         *)
(***************************************************************************)
EXTENDS Naturals, FiniteSets, AccessCatalogue

CONSTANTS
  Users,       \* the e-mail addresses, the unique key of an account
  Identities,  \* Entra object ids
  NoIdentity,  \* an account not linked to one
  Workers,     \* requests handled at the same time
  Seed,        \* the accounts the seed script creates
  Claims,      \* what a session may claim for the modules
  MaxEdits,    \* bound: no administration request starts after so many
  MaxSessions  \* bound: no sign-in starts while so many sessions are valid

Modes == {"dev", "entra"}

Account == [role : Roles, active : BOOLEAN, oid : Identities \cup {NoIdentity}]

NoAccount == [role |-> "NONE", active |-> FALSE, oid |-> NoIdentity]

ASSUME SeedAssumption ==
  /\ DOMAIN Seed \subseteq Users
  /\ \A u \in DOMAIN Seed : Seed[u] \in Account
  /\ \E u \in DOMAIN Seed : Seed[u].role = "SUPER_ADMIN" /\ Seed[u].active

ASSUME IdentityAssumption == NoIdentity \notin Identities

ASSUME BoundAssumption == MaxEdits \in Nat /\ MaxSessions \in Nat

VARIABLES
  mode,      \* AUTH_MODE of the running deployment
  acct,      \* the users table
  sessions,  \* the unexpired session tokens
  desk,      \* the request each worker handles
  edits,     \* administration requests started
  approved,  \* the accounts an administrator has activated
  crossed    \* two requests that put a super admin out of office crossed

accountVars == <<mode, acct, sessions, desk, edits, approved, crossed>>

\* A request of an administrator: the account as loaded, the value asked for,
\* the other active super admins it counted (none if it had no need to) and
\* the role of the administrator who asks.
Edit ==
  [op : {"status", "role"}, target : Users, loaded : Account,
   to : Roles \cup {"on", "off"}, others : SUBSET Users, by : Roles]

\* A sign-in through Entra: the account that matched, if any did.
SignIn ==
  [op : {"entra"}, target : Users, loaded : Account \cup {NoAccount}, oid : Identities]

\* A sign-in that is let through builds the claims of its session.
Issue == [op : {"refresh", "claims"}, target : Users, loaded : Account]

Idle == [op |-> "idle"]

Session == [user : Users, via : Modes, active : BOOLEAN, role : Roles, modules : Claims]

\* Tables and requests hold only what the code writes there.
AccountsTypeOK ==
  /\ mode \in Modes
  /\ acct \in [Users -> Account \cup {NoAccount}]
  /\ sessions \subseteq Session
  /\ desk \in [Workers -> Edit \cup SignIn \cup Issue \cup {Idle}]
  /\ edits \in Nat
  /\ approved \subseteq Users
  /\ crossed \in BOOLEAN

-----------------------------------------------------------------------------
\* Who may do what

Existing == {u \in Users : acct[u] # NoAccount}

ActiveSupers == {u \in Users : acct[u].role = "SUPER_ADMIN" /\ acct[u].active}

\* get_current_user: only the dev provider decodes a session, the provider of
\* the entra mode raises; the account is read again on every request.
Accepted(s) == mode = "dev" /\ acct[s.user].active

\* require_platform_permission: the permission of the role the account has now.
Authorized(a, permission) ==
  /\ \E s \in sessions : s.user = a /\ Accepted(s)
  /\ permission \in PlatformPermissions[acct[a].role]

\* Mutant: the count forgets that a super admin must be active.
OtherSupersAtAll(u) == {x \in Users : acct[x].role = "SUPER_ADMIN"} \ {u}

\* _active_super_admin_count, as the accounts it counts.
OtherSupers(u) == ActiveSupers \ {u}

-----------------------------------------------------------------------------
\* What administrators do

Take(w, request) ==
  /\ desk[w] = Idle
  /\ desk' = [desk EXCEPT ![w] = request]

Leave(w) == desk' = [desk EXCEPT ![w] = Idle]

\* set_user_active until its guard: the last active super admin stays.
CheckStatus(w, a, u, to) ==
  LET counts == to = "off" /\ acct[u].role = "SUPER_ADMIN"
      others == IF counts THEN OtherSupers(u) ELSE {}
  IN  /\ edits < MaxEdits
      /\ Authorized(a, "manage_users")
      /\ u \in Existing
      /\ counts => others # {}
      /\ Take(w, [op |-> "status", target |-> u, loaded |-> acct[u], to |-> to,
                  others |-> others, by |-> acct[a].role])
      /\ edits' = edits + 1
      /\ UNCHANGED <<mode, acct, sessions, approved, crossed>>

\* set_platform_role until its guards: administrator roles are a matter for
\* super admins, and the last active one is not demoted.
CheckRole(w, a, u, to) ==
  LET counts == acct[u].role = "SUPER_ADMIN" /\ to # "SUPER_ADMIN"
      others == IF counts THEN OtherSupers(u) ELSE {}
  IN  /\ edits < MaxEdits
      /\ Authorized(a, "manage_users")
      /\ u \in Existing
      /\ {acct[u].role, to} \cap AdminRoles # {}
           => "manage_admins" \in PlatformPermissions[acct[a].role]
      /\ counts => others # {}
      /\ Take(w, [op |-> "role", target |-> u, loaded |-> acct[u], to |-> to,
                  others |-> others, by |-> acct[a].role])
      /\ edits' = edits + 1
      /\ UNCHANGED <<mode, acct, sessions, approved, crossed>>

\* Mutant: the UPDATE writes every column.
WrittenWhole(now, loaded, copy) == copy

\* The row after an UPDATE of the columns in which the request's copy differs
\* from what it loaded.
Written(now, loaded, copy) ==
  [role   |-> IF copy.role # loaded.role THEN copy.role ELSE now.role,
   active |-> IF copy.active # loaded.active THEN copy.active ELSE now.active,
   oid    |-> IF copy.oid # loaded.oid THEN copy.oid ELSE now.oid]

\* What the request made of its copy.
Edited(d) ==
  IF d.op = "status" THEN [d.loaded EXCEPT !.active = d.to = "on"]
                     ELSE [d.loaded EXCEPT !.role = d.to]

\* Taking u out of office crosses another request if u became a super admin
\* after this one loaded it, or if one still to commit counts on u.
Crosses(w, u) ==
  \/ desk[w].loaded.role # "SUPER_ADMIN"
  \/ \E v \in Workers \ {w} : desk[v].op \in {"status", "role"} /\ u \in desk[v].others

CommitEdit(w) ==
  LET d == desk[w]
      row == Written(acct[d.target], d.loaded, Edited(d))
  IN  /\ d.op \in {"status", "role"}
      /\ acct' = [acct EXCEPT ![d.target] = row]
      /\ approved' = IF d.op = "status" /\ d.to = "on" THEN approved \cup {d.target} ELSE approved
      /\ crossed' = (crossed \/ (d.target \in ActiveSupers \ ActiveSupers' /\ Crosses(w, d.target)))
      /\ Leave(w)
      /\ UNCHANGED <<mode, sessions, edits>>

-----------------------------------------------------------------------------
\* Signing in

\* The bound.
Room == Cardinality(sessions) < MaxSessions

Owner(oid) == {u \in Existing : acct[u].oid = oid}

\* Mutant: whoever Entra vouches for is let in at once.
ProvisionedActive(oid) == [role |-> "PLATFORM_USER", active |-> TRUE, oid |-> oid]

\* The account a first sign-in creates.
Provisioned(oid) == [role |-> "PLATFORM_USER", active |-> FALSE, oid |-> oid]

\* resolve_entra_user until its first write: the account of the object id,
\* else the account of the e-mail, else none yet.
Resolve(w, email, oid) ==
  LET u == IF Owner(oid) # {} THEN CHOOSE x \in Owner(oid) : TRUE ELSE email
  IN  /\ mode = "entra"
      /\ Room
      /\ Take(w, [op |-> "entra", target |-> u, loaded |-> acct[u], oid |-> oid])
      /\ UNCHANGED <<mode, acct, sessions, edits, approved, crossed>>

\* Its commit.  An unknown e-mail gets an inactive account, a known one the
\* object id; whoever is inactive as loaded is refused.  A unique key that
\* another account took meanwhile fails the request.
CommitSignIn(w) ==
  LET d == desk[w]
      taken == \/ d.loaded.oid # d.oid /\ Owner(d.oid) \ {d.target} # {}
               \/ d.loaded = NoAccount /\ d.target \in Existing
      row == IF d.loaded = NoAccount THEN Provisioned(d.oid)
             ELSE Written(acct[d.target], d.loaded, [d.loaded EXCEPT !.oid = d.oid])
  IN  /\ d.op = "entra"
      /\ acct' = IF taken THEN acct ELSE [acct EXCEPT ![d.target] = row]
      /\ IF d.loaded.active /\ ~taken
         THEN desk' = [desk EXCEPT ![w] = [op |-> "refresh", target |-> d.target, loaded |-> row]]
         ELSE Leave(w)
      /\ UNCHANGED <<mode, sessions, edits, approved, crossed>>

\* dev_login: the persona must be active; its commit writes no access.
DevLogin(w, u) ==
  /\ mode = "dev"
  /\ Room
  /\ u \in DOMAIN Seed
  /\ acct[u].active
  /\ Take(w, [op |-> "refresh", target |-> u, loaded |-> acct[u]])
  /\ UNCHANGED <<mode, acct, sessions, edits, approved, crossed>>

\* The commit expired the loaded row: build_claims reads it again.
Refresh(w) ==
  /\ desk[w].op = "refresh"
  /\ desk' = [desk EXCEPT ![w] = [op |-> "claims", target |-> @.target, loaded |-> acct[@.target]]]
  /\ UNCHANGED <<mode, acct, sessions, edits, approved, crossed>>

\* The rest of build_claims and the session token, modules being the claims
\* read for the modules.
IssueSession(w, modules) ==
  LET d == desk[w]
  IN  /\ d.op = "claims"
      /\ sessions' = sessions \cup
           {[user |-> d.target, via |-> mode, active |-> d.loaded.active,
             role |-> d.loaded.role, modules |-> modules]}
      /\ Leave(w)
      /\ UNCHANGED <<mode, acct, edits, approved, crossed>>

\* jwt_expires_minutes later.
Expire(s) ==
  /\ s \in sessions
  /\ sessions' = sessions \ {s}
  /\ UNCHANGED <<mode, acct, desk, edits, approved, crossed>>

-----------------------------------------------------------------------------
\* The deployment

\* The request dies before its commit.
Abort(w) ==
  /\ desk[w] # Idle
  /\ Leave(w)
  /\ UNCHANGED <<mode, acct, sessions, edits, approved, crossed>>

Redeploy ==
  /\ mode' \in Modes \ {mode}
  /\ desk' = [w \in Workers |-> Idle]
  /\ UNCHANGED <<acct, sessions, edits, approved, crossed>>

\* After the seed script, before anybody signs in.
AccountsInit ==
  /\ mode = "dev"
  /\ acct = [u \in Users |-> IF u \in DOMAIN Seed THEN Seed[u] ELSE NoAccount]
  /\ sessions = {}
  /\ desk = [w \in Workers |-> Idle]
  /\ edits = 0
  /\ approved = {}
  /\ crossed = FALSE

\* A step of worker w that issues no session.
AccountsStep(w) ==
  \/ \E a, u \in Users, to \in {"on", "off"} : CheckStatus(w, a, u, to)
  \/ \E a, u \in Users, to \in Roles : CheckRole(w, a, u, to)
  \/ CommitEdit(w)
  \/ \E u \in Users, oid \in Identities : Resolve(w, u, oid)
  \/ CommitSignIn(w)
  \/ \E u \in Users : DevLogin(w, u)
  \/ Refresh(w)

AccountsNext ==
  \/ \E w \in Workers : AccountsStep(w) \/ Abort(w)
  \/ \E w \in Workers, m \in Claims : IssueSession(w, m)
  \/ \E s \in sessions : Expire(s)
  \/ Redeploy

AccountsSpec == AccountsInit /\ [][AccountsNext]_accountVars

-----------------------------------------------------------------------------
\* What must hold

\* Unless two requests crossed, somebody can administer administrators: the
\* guard of the last active super admin (set_user_active, set_platform_role)
\* holds along every sequence of requests, also when many are in flight.
LockoutNeedsCrossing == crossed \/ ActiveSupers # {}

\* First-login policy: an account that Entra sign-in created has no access
\* until an administrator activated it, and no session claims otherwise.
AdmissionByAdministrators ==
  /\ \A u \in Existing \ DOMAIN Seed : acct[u].active => u \in approved
  /\ \A s \in sessions : s.active => s.user \in approved \cup DOMAIN Seed

\* An administrator asks for the change from account a to account b.
Asked(d, a, b) ==
  /\ d.op \in {"status", "role"}
  /\ a.active # b.active => d.op = "status" /\ (d.to = "on") = b.active
  /\ a.role # b.role => d.op = "role" /\ d.to = b.role

\* Role and activity of an account change only to what an administrator asked
\* for that account, and an administrator role only if a super admin asked:
\* no sign-in in flight and no request on a stale row takes a change back.
AccessChangesOnRequest ==
  [][\A u \in Existing :
       LET a == acct[u] b == acct'[u] IN
       <<a.role, a.active>> # <<b.role, b.active>> =>
         \E w \in Workers :
           /\ desk[w].op \in {"status", "role"} /\ desk[w].target = u
           /\ Asked(desk[w], a, b)
           /\ a.role # b.role /\ {a.role, b.role} \cap AdminRoles # {}
                => desk[w].by = "SUPER_ADMIN"]_accountVars
=============================================================================
